------------------------------ MODULE FlowProofs ------------------------------
(***************************************************************************)
(* What the create wizard sends and how often, for any catalog and any     *)
(* number of steps and requests; the project selection; and that the       *)
(* composition of the five flows runs each of them as it is specified, so  *)
(* that what is proved of a flow is true of the composition.               *)
(***************************************************************************)
EXTENDS MCFlows, ExternalIpAttachProofs, ViewerProofs, TLAPS

-------------------------------------------------------------------------------
(* The wizard. *)

Requests == [out : Nat, yes : Nat, no : Nat]

LEMMA WizardTypeInit == WizardInit => WizardTypeOK
<1> SUFFICES ASSUME WizardInit PROVE WizardTypeOK
  OBVIOUS
<1>1. requests \in Requests /\ made \in Nat /\ lost \in Nat
  BY DEF WizardInit, Requests
<1>2. 1 \in Steps /\ {} \subseteq FormSteps
  BY WizardAssumption DEF Steps
<1> QED BY <1>1, <1>2, WizardAssumption DEF WizardInit, WizardTypeOK, Requests

\* What a reply does to the counts.
LEMMA ServeCounts ==
  ASSUME WizardTypeOK, Serve
  PROVE  /\ requests' \in Requests /\ made' \in Nat /\ lost' \in Nat
         /\ requests.out > 0 /\ requests'.out = requests.out - 1
         /\ \/ /\ requests'.yes = requests.yes + 1 /\ requests'.no = requests.no
               /\ made' = made + 1 /\ lost' = lost
            \/ /\ requests'.yes = requests.yes /\ requests'.no = requests.no + 1
               /\ made' = made + 1 /\ lost' = lost + 1
            \/ /\ requests'.yes = requests.yes /\ requests'.no = requests.no + 1
               /\ made' = made /\ lost' = lost
<1>1. requests.out - 1 \in Nat /\ requests.yes + 1 \in Nat /\ requests.no + 1 \in Nat
  BY DEF WizardTypeOK, Serve
<1>2. requests \in Requests /\ requests.out > 0 /\ made \in Nat /\ lost \in Nat
  BY DEF WizardTypeOK, Serve, Requests
<1>3. CASE /\ requests' = [requests EXCEPT !.out = @ - 1, !.yes = @ + 1]
           /\ made' = made + 1 /\ UNCHANGED lost
  <2>1. requests' \in Requests
    BY <1>1, <1>2, <1>3 DEF Requests
  <2>2. /\ requests'.out = requests.out - 1 /\ requests'.yes = requests.yes + 1
        /\ requests'.no = requests.no
    BY <1>2, <1>3 DEF Requests
  <2> QED BY <1>2, <1>3, <2>1, <2>2
<1>4. CASE /\ requests' = [requests EXCEPT !.out = @ - 1, !.no = @ + 1]
           /\ \/ made' = made + 1 /\ lost' = lost + 1
              \/ UNCHANGED <<made, lost>>
  <2>1. requests' \in Requests
    BY <1>1, <1>2, <1>4 DEF Requests
  <2>2. /\ requests'.out = requests.out - 1 /\ requests'.no = requests.no + 1
        /\ requests'.yes = requests.yes
    BY <1>2, <1>4 DEF Requests
  <2> QED BY <1>2, <1>4, <2>1, <2>2
<1> QED BY <1>3, <1>4 DEF Serve

LEMMA SucceedCounts ==
  ASSUME WizardTypeOK, CreateSucceeds
  PROVE  /\ requests' \in Requests /\ requests.yes > 0 /\ requests'.yes = requests.yes - 1
         /\ requests'.out = requests.out /\ requests'.no = requests.no
<1>1. requests.yes - 1 \in Nat
  BY DEF WizardTypeOK, CreateSucceeds
<1> QED BY <1>1 DEF WizardTypeOK, CreateSucceeds, Requests

LEMMA FailCounts ==
  ASSUME WizardTypeOK, CreateFails
  PROVE  /\ requests' \in Requests /\ requests.no > 0 /\ requests'.no = requests.no - 1
         /\ requests'.out = requests.out /\ requests'.yes = requests.yes
<1>1. requests.no - 1 \in Nat
  BY DEF WizardTypeOK, CreateFails
<1> QED BY <1>1 DEF WizardTypeOK, CreateFails, Requests

LEMMA WizardTypeStep == WizardTypeOK /\ [WizardNext]_wizardVars => WizardTypeOK'
<1> SUFFICES ASSUME WizardTypeOK, [WizardNext]_wizardVars PROVE WizardTypeOK'
  OBVIOUS
<1> USE WizardAssumption
    DEF WizardTypeOK, Steps, FormSteps, serviceVars, formVars, Usable, Recheck, Refill
<1>1. ASSUME NEW i \in Items, SelectItem(i) PROVE WizardTypeOK'
  BY <1>1 DEF SelectItem
<1>2. CASE Edit
  BY <1>2 DEF Edit
<1>3. ASSUME NEW l \in SUBSET Items, Poll(l) PROVE WizardTypeOK'
  BY <1>3 DEF Poll, Redefined
<1>4. CASE NextStep
  BY <1>4 DEF NextStep, Advance
<1>5. CASE Back
  BY <1>5 DEF Back
<1>6. ASSUME NEW s \in Steps, GoTo(s) PROVE WizardTypeOK'
  BY <1>6 DEF GoTo
<1>7. CASE Create
  BY <1>7 DEF Create, Send
<1>8. CASE RequestClose \/ KeepEditing \/ Discard \/ Leave
  BY <1>8 DEF RequestClose, KeepEditing, Discard, Leave
<1>9. CASE Serve
  BY <1>9, ServeCounts DEF Serve, Requests
<1>10. CASE CreateSucceeds
  BY <1>10, SucceedCounts DEF CreateSucceeds, Requests
<1>11. CASE CreateFails
  BY <1>11, FailCounts DEF CreateFails, Requests
<1>12. CASE UNCHANGED wizardVars
  BY <1>12 DEF wizardVars
<1> QED
  BY <1>1, <1>2, <1>3, <1>4, <1>5, <1>6, <1>7, <1>8, <1>9, <1>10, <1>11, <1>12
     DEF WizardNext, Reply

\* The state of the wizard is of its types.
THEOREM WizardTypes == WizardSpec => []WizardTypeOK
BY WizardTypeInit, WizardTypeStep, PTL DEF WizardSpec

-------------------------------------------------------------------------------
(* Validation. *)

LEMMA UncheckedStep ==
  ASSUME WizardTypeOK, UncheckedWasRetouched, [WizardNext]_wizardVars
  PROVE  UncheckedWasRetouched'
<1> USE WizardAssumption
    DEF WizardTypeOK, UncheckedWasRetouched, Steps, FormSteps, serviceVars, formVars, Recheck, Refill
<1>1. ASSUME NEW i \in Items, SelectItem(i) PROVE UncheckedWasRetouched'
  BY <1>1 DEF SelectItem
<1>2. CASE Edit
  BY <1>2 DEF Edit
<1>3. ASSUME NEW l \in SUBSET Items, Poll(l) PROVE UncheckedWasRetouched'
  BY <1>3 DEF Poll, Redefined
<1>4. CASE NextStep
  \* The step that is left becomes good, or is the choice of the item.
  <2>1. furthest' = IF step = furthest THEN step + 1 ELSE furthest
    BY <1>4 DEF NextStep, Advance
  <2>2. good' = good /\ retouched' = retouched \ {step} /\ (step \in FormSteps => step \in good)
    BY <1>4 DEF NextStep, Advance, Valid
  <2> QED BY <2>1, <2>2
<1>5. CASE Back \/ Create \/ RequestClose \/ KeepEditing \/ Discard \/ Leave \/ Reply
  <2>1. UNCHANGED <<furthest, good, retouched>>
    BY <1>5 DEF Back, Create, Send, RequestClose, KeepEditing, Discard, Leave, Reply, Serve,
                CreateSucceeds, CreateFails
  <2> QED BY <2>1
<1>6. ASSUME NEW s \in Steps, GoTo(s) PROVE UncheckedWasRetouched'
  BY <1>6 DEF GoTo
<1>7. CASE UNCHANGED wizardVars
  BY <1>7 DEF wizardVars
<1> QED BY <1>1, <1>2, <1>3, <1>4, <1>5, <1>6, <1>7 DEF WizardNext

\* Whatever is sent without a validation was retouched after one.
THEOREM UncheckedRetouched == WizardSpec => []UncheckedWasRetouched
<1>1. WizardInit => UncheckedWasRetouched
  BY WizardAssumption DEF WizardInit, UncheckedWasRetouched, FormSteps
<1> QED BY WizardTypes, <1>1, UncheckedStep, PTL DEF WizardSpec

-------------------------------------------------------------------------------
(* Requests. *)

\* A wizard has at most one request that is out or answered, and is pending while it
\* has; instances come from lost answers, one that is arriving, or one that arrived.
OneRequest ==
  /\ requests.out + requests.yes + requests.no <= 1
  /\ requests.out + requests.yes + requests.no > 0 => pending /\ page # "instance"
  /\ made = lost + requests.yes + (IF page = "instance" THEN 1 ELSE 0)

LEMMA RequestStep ==
  ASSUME WizardTypeOK, OneRequest, [WizardNext]_wizardVars
  PROVE  OneRequest'
<1> USE DEF WizardTypeOK, OneRequest, serviceVars, Usable
<1>1. ASSUME NEW i \in Items, SelectItem(i) PROVE OneRequest'
  BY <1>1 DEF SelectItem
<1>2. ASSUME NEW l \in SUBSET Items, Poll(l) PROVE OneRequest'
  BY <1>2 DEF Poll
<1>3. ASSUME NEW s \in Steps, GoTo(s) PROVE OneRequest'
  BY <1>3 DEF GoTo
<1>4. CASE Edit \/ NextStep \/ Back
  BY <1>4 DEF Edit, NextStep, Advance, Back
<1>5. CASE Create
  BY <1>5 DEF Create, Send
<1>6. CASE RequestClose \/ KeepEditing \/ Discard \/ Leave
  BY <1>6 DEF RequestClose, KeepEditing, Discard, Leave
<1>7. CASE Serve
  BY <1>7, ServeCounts DEF Serve, Requests
<1>8. CASE CreateSucceeds
  BY <1>8, SucceedCounts DEF CreateSucceeds, Requests
<1>9. CASE CreateFails
  BY <1>9, FailCounts DEF CreateFails, Requests
<1>10. CASE UNCHANGED wizardVars
  BY <1>10 DEF wizardVars
<1> QED BY <1>1, <1>2, <1>3, <1>4, <1>5, <1>6, <1>7, <1>8, <1>9, <1>10 DEF WizardNext, Reply

\* One instance for a wizard, however often the user tries.
THEOREM OneInstance == WizardSpec => []MadeOnce
<1>1. WizardInit => OneRequest
  BY DEF WizardInit, OneRequest
<1>2. WizardTypeOK /\ OneRequest => MadeOnce
  BY DEF WizardTypeOK, OneRequest, MadeOnce
<1> QED BY WizardTypes, <1>1, <1>2, RequestStep, PTL DEF WizardSpec

\* After the deep link has filled the form, no poll does so again.
THEOREM PollsKeepTheForm == WizardSpec => PollsDoNotRefill
<1>1. ASSUME [WizardNext]_wizardVars, linkDone, item' # item \/ ~(typed \subseteq typed')
      PROVE step = 1
  <2>1. ASSUME NEW l \in SUBSET Items, Poll(l) PROVE FALSE
    BY <1>1, <2>1 DEF Poll, Redefined, formVars
  <2>2. ASSUME NEW i \in Items, SelectItem(i) PROVE step = 1
    BY <2>2 DEF SelectItem
  <2>3. ASSUME \/ Edit \/ NextStep \/ Back \/ Create \/ RequestClose \/ KeepEditing \/ Discard
               \/ Leave \/ Reply \/ (\E s \in Steps : GoTo(s)) \/ UNCHANGED wizardVars
        PROVE  FALSE
    BY <1>1, <2>3
       DEF Edit, NextStep, Advance, Back, Create, Send, RequestClose, KeepEditing, Discard, Leave,
           Reply, Serve, CreateSucceeds, CreateFails, GoTo, wizardVars, formVars
  <2> QED BY <1>1, <2>1, <2>2, <2>3 DEF WizardNext
<1>2. [WizardNext]_wizardVars =>
        [linkDone /\ (item' # item \/ ~(typed \subseteq typed')) => step = 1]_wizardVars
  BY <1>1
<1> QED BY <1>2, PTL DEF WizardSpec, PollsDoNotRefill

-------------------------------------------------------------------------------
(* The project selection. *)

LEMMA FilterTypeInit == ProjectFilterInit => ProjectFilterTypeOK
BY DEF ProjectFilterInit, ProjectFilterTypeOK, Urls, ProjectLists, NothingListed, Effects

LEMMA FilterTypeStep ==
  ProjectFilterTypeOK /\ [ProjectFilterNext]_filterVars => ProjectFilterTypeOK'
<1> SUFFICES ASSUME ProjectFilterTypeOK, [ProjectFilterNext]_filterVars
             PROVE  ProjectFilterTypeOK'
  OBVIOUS
<1> USE DEF ProjectFilterTypeOK, Rerender, SetProjects
<1>1. CASE Choose
  BY <1>1 DEF Choose, ProjectLists
<1>2. ASSUME NEW f \in Filters, ToggleFilter(f) PROVE ProjectFilterTypeOK'
  BY <1>2 DEF ToggleFilter, Urls
<1>3. ASSUME NEW u \in Urls, Navigate(u) PROVE ProjectFilterTypeOK'
  BY <1>3 DEF Navigate
<1>4. ASSUME NEW l \in ProjectLists, ListEnds(l) PROVE ProjectFilterTypeOK'
  BY <1>4 DEF ListEnds
<1>5. CASE Render
  BY <1>5 DEF Render, Current, Urls
<1>6. CASE WriteUrl
  BY <1>6 DEF WriteUrl, Urls
<1>7. CASE Prune
  BY <1>7 DEF Prune
<1>8. CASE UNCHANGED filterVars
  BY <1>8 DEF filterVars
<1> QED BY <1>1, <1>2, <1>3, <1>4, <1>5, <1>6, <1>7, <1>8 DEF ProjectFilterNext

\* The selection, the URL and the list are of their types.
THEOREM ProjectFilterTypes == ProjectFilterSpec => []ProjectFilterTypeOK
BY FilterTypeInit, FilterTypeStep, PTL DEF ProjectFilterSpec

-------------------------------------------------------------------------------
(* The composition. *)

\* A step of the composition is a step of one flow and leaves the others alone, so that
\* each flow's specification, up to its fairness, is what the composition does to it
\* (the hooks and components share no state).
THEOREM FlowsAreSpecified ==
  FlowSpec => Spec /\ ViewerSpec /\ FeedSpec /\ WizardSpec /\ ProjectFilterSpec
<1>1. FlowInit => Init /\ ViewerInit /\ FeedInit /\ WizardInit /\ ProjectFilterInit
  BY DEF FlowInit
<1>2. [FlowNext]_flowVars => [Next]_vars
  BY DEF FlowNext, flowVars
<1>3. [FlowNext]_flowVars => [ViewerNext]_viewerVars
  BY DEF FlowNext, flowVars
<1>4. [FlowNext]_flowVars => [FeedNext]_feedVars
  BY DEF FlowNext, flowVars
<1>5. [FlowNext]_flowVars => [WizardNext]_wizardVars
  BY DEF FlowNext, flowVars
<1>6. [FlowNext]_flowVars => [ProjectFilterNext]_filterVars
  BY DEF FlowNext, flowVars
<1> QED
  BY <1>1, <1>2, <1>3, <1>4, <1>5, <1>6, PTL
     DEF FlowSpec, Spec, ViewerSpec, FeedSpec, WizardSpec, ProjectFilterSpec

\* The state of every flow is of its types in the composition too.
THEOREM FlowTypes == FlowSpec => []FlowTypeOK
<1>1. TypeOK /\ ViewerTypeOK /\ FeedTypeOK /\ WizardTypeOK /\ ProjectFilterTypeOK => FlowTypeOK
  BY DEF FlowTypeOK
<1> QED
  BY <1>1, FlowsAreSpecified, IpTypes, ViewerTypes, FeedTypes, WizardTypes, ProjectFilterTypes,
     PTL
===============================================================================
