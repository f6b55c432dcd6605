-------------------------------- MODULE MCFlows --------------------------------
(***************************************************************************)
(* Five flows that share no state, checked one after the other: a behaviour *)
(* chooses its flow first, and the others stay in their initial states.    *)
(***************************************************************************)
EXTENDS ExternalIpAttach, ConsoleViewer, SerialFeed, CatalogWizard,
        ProjectFilter

VARIABLE flow

flowVars == <<vars, viewerVars, feedVars, wizardVars, filterVars, flow>>

FlowInit ==
  /\ flow \in {"ip", "viewer", "feed", "wizard", "filter"}
  /\ Init /\ ViewerInit /\ FeedInit /\ WizardInit /\ ProjectFilterInit
  \* Of the initial states of the other flows one is enough.
  /\ flow # "wizard" => good = {}
  /\ flow # "filter" => saved = {} /\ url.project = {}

FlowNext ==
  \/ /\ flow = "ip" /\ Next
     /\ UNCHANGED <<viewerVars, feedVars, wizardVars, filterVars, flow>>
  \/ /\ flow = "viewer" /\ ViewerNext
     /\ UNCHANGED <<vars, feedVars, wizardVars, filterVars, flow>>
  \/ /\ flow = "feed" /\ FeedNext
     /\ UNCHANGED <<vars, viewerVars, wizardVars, filterVars, flow>>
  \/ /\ flow = "wizard" /\ WizardNext
     /\ UNCHANGED <<vars, viewerVars, feedVars, filterVars, flow>>
  \/ /\ flow = "filter" /\ ProjectFilterNext
     /\ UNCHANGED <<vars, viewerVars, feedVars, wizardVars, flow>>

\* The state of every flow is of its types: no attempt of a mutation, timer, frame,
\* step or parameter leaves the range its code can handle.
FlowTypeOK ==
  TypeOK /\ ViewerTypeOK /\ FeedTypeOK /\ WizardTypeOK /\ ProjectFilterTypeOK

\* Nothing fair is enabled in an initial state but the first effects of the filter.
FlowSpec ==
  /\ FlowInit /\ [][FlowNext]_flowVars
  /\ Fairness /\ ViewerFairness /\ FeedFairness /\ WizardFairness
  /\ WF_filterVars(flow = "filter" /\ Render) /\ WF_filterVars(flow = "filter" /\ WriteUrl)
  /\ WF_filterVars(flow = "filter" /\ Prune)
===============================================================================
