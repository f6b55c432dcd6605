----------------------------- MODULE CatalogWizard -----------------------------
(***************************************************************************)
(* CatalogProvisionWizard on a create page: steps that are validated one   *)
(* at a time by Next, reached again through the navigation once visited,   *)
(* and sent off from the last one; a deep link that fills the form when    *)
(* its catalog item appears in the polled list.  Of the form only matters  *)
(* whether the values of each step satisfy that step's schema.             *)
(***************************************************************************)
EXTENDS Naturals

CONSTANTS
  Items,       \* catalog items
  NoItem,
  Linked,      \* the item of the deep link, or NoItem
  LastStep,    \* the review step; step 1 chooses the catalog item
  MaxCreates   \* bound on the create requests of a wizard

ASSUME WizardAssumption ==
  /\ NoItem \notin Items /\ Linked \in Items \cup {NoItem}
  /\ LastStep \in Nat /\ LastStep > 2 /\ MaxCreates \in Nat

VARIABLES
  page,      \* "wizard", "elsewhere", or "instance": the details page
  step,      \* the active step
  furthest,  \* the last visited step
  listed,    \* the items in the list of the latest poll
  item,      \* the selected item
  good,      \* steps whose values satisfy their schema
  retouched, \* left steps whose values, or schema, changed since they were validated
  typed,     \* steps the user has typed into since the form was last filled
  linkDone,  \* deepLinkInitializedRef
  pending,
  confirming, \* the discard dialog is open
  requests,  \* create requests sent: out, answered and seen
  made,      \* instances the service created for this wizard
  lost       \* answers of created instances that did not arrive

wizardVars == <<page, step, furthest, listed, item, good, retouched, typed, linkDone, pending,
                confirming, requests, made, lost>>

Steps == 1 .. LastStep
FormSteps == 2 .. LastStep - 1

WizardTypeOK ==
  /\ page \in {"wizard", "elsewhere", "instance"}
  /\ step \in Steps /\ furthest \in Steps
  /\ listed \subseteq Items
  /\ item \in Items \cup {NoItem}
  /\ good \subseteq FormSteps /\ retouched \subseteq FormSteps /\ typed \subseteq FormSteps
  /\ linkDone \in BOOLEAN /\ pending \in BOOLEAN /\ confirming \in BOOLEAN
  /\ requests \in [out : Nat, yes : Nat, no : Nat]
  /\ made \in Nat /\ lost \in Nat

WizardInit ==
  /\ page = "wizard" /\ step = 1 /\ furthest = 1
  /\ listed = {} /\ item = Linked
  /\ good \in SUBSET FormSteps /\ retouched = {} /\ typed = {} /\ linkDone = FALSE
  /\ pending = FALSE /\ confirming = FALSE
  /\ requests = [out |-> 0, yes |-> 0, no |-> 0] /\ made = 0 /\ lost = 0

serviceVars == <<requests, made, lost>>
formVars == <<item, good, retouched, typed>>

Usable == page = "wizard" /\ ~confirming

\* The values, or the schemas, of every step change at once.
Recheck ==
  /\ good' \in SUBSET FormSteps
  /\ retouched' = {p \in FormSteps : p < furthest}

\* onCatalogItemSelected: the form starts over with the defaults of i, which need
\* not satisfy the schemas; the visited steps stay visited.
Refill(i) == item' = i /\ typed' = {} /\ Recheck

SelectItem(i) ==
  /\ Usable /\ step = 1 /\ i \in listed
  /\ Refill(i)
  /\ UNCHANGED <<page, step, furthest, listed, linkDone, pending, confirming, serviceVars>>

Edit ==
  /\ Usable /\ step \in FormSteps
  /\ \E g \in {good \cup {step}, good \ {step}} : good' = g
  /\ retouched' = IF step < furthest THEN retouched \cup {step} ELSE retouched
  /\ typed' = typed \cup {step}
  /\ UNCHANGED <<page, step, furthest, listed, item, linkDone, pending, confirming, serviceVars>>

\* The definition of the selected item, which the schemas are built from, changed.
Redefined(l) ==
  \/ Recheck /\ UNCHANGED <<item, typed>>
  \/ (item \in listed <=> item \in l) /\ UNCHANGED formVars

\* (Bug: the effect runs on every list.)
PollRefills(l) ==
  /\ page = "wizard" /\ listed' = l
  /\ IF Linked \in l
     THEN Refill(Linked) /\ linkDone' = TRUE
     ELSE Redefined(l) /\ UNCHANGED linkDone
  /\ UNCHANGED <<page, step, furthest, pending, confirming, serviceVars>>

\* The list is polled while the wizard is mounted; the effect of the deep link runs
\* on the first list that has its item.
Poll(l) ==
  /\ page = "wizard" /\ listed' = l
  /\ IF Linked \in l /\ ~linkDone
     THEN Refill(Linked) /\ linkDone' = TRUE
     ELSE Redefined(l) /\ UNCHANGED linkDone
  /\ UNCHANGED <<page, step, furthest, pending, confirming, serviceVars>>

Valid(s) == IF s = 1 THEN item # NoItem ELSE s \in good

Advance ==
  /\ Usable /\ ~pending /\ step < LastStep
  /\ step' = step + 1
  /\ furthest' = IF step = furthest THEN step + 1 ELSE furthest
  /\ retouched' = retouched \ {step}
  /\ UNCHANGED <<page, listed, item, good, typed, linkDone, pending, confirming, serviceVars>>

\* (Bug: Next validates the catalog item only.)
NextStepLax == item # NoItem /\ Advance

\* Next validates the active step only.
NextStep == Valid(step) /\ Advance

Back ==
  /\ Usable /\ ~pending /\ step > 1
  /\ step' = step - 1
  /\ UNCHANGED <<page, furthest, listed, formVars, linkDone, pending, confirming, serviceVars>>

\* The navigation: any visited step, even while a create is pending.
GoTo(s) ==
  /\ Usable /\ s <= furthest /\ s # step
  /\ step' = s
  /\ UNCHANGED <<page, furthest, listed, formVars, linkDone, pending, confirming, serviceVars>>

Send ==
  /\ Usable /\ step = LastStep /\ item \in listed
  /\ requests.out + requests.yes + requests.no + made < MaxCreates
  /\ pending' = TRUE
  /\ requests' = [requests EXCEPT !.out = @ + 1]
  /\ UNCHANGED <<page, step, furthest, listed, formVars, linkDone, confirming, made, lost>>

\* (Bug: a second click is not kept out.)
CreateAgain == Send

\* Create validates nothing, but needs the item to be in the list.
Create == ~pending /\ Send

\* close({notifyClosed: false}) after the page has gone to the instance, wherever
\* the user was.
CreateSucceeds ==
  /\ requests.yes > 0
  /\ requests' = [requests EXCEPT !.yes = @ - 1]
  /\ page' = "instance" /\ pending' = FALSE /\ confirming' = FALSE
  /\ UNCHANGED <<step, furthest, listed, formVars, linkDone, made, lost>>

\* (Bug: only success ends the pending state.)
CreateFailsPending ==
  /\ requests.no > 0
  /\ requests' = [requests EXCEPT !.no = @ - 1]
  /\ UNCHANGED <<page, step, furthest, listed, formVars, linkDone, pending, confirming,
                 made, lost>>

CreateFails ==
  /\ requests.no > 0
  /\ requests' = [requests EXCEPT !.no = @ - 1]
  /\ pending' = FALSE
  /\ UNCHANGED <<page, step, furthest, listed, formVars, linkDone, confirming, made, lost>>

\* Cancel, Escape, the breadcrumb: a form without progress closes at once.
RequestClose ==
  /\ Usable /\ ~pending
  /\ IF item = NoItem THEN page' = "elsewhere" /\ UNCHANGED confirming
     ELSE confirming' = TRUE /\ UNCHANGED page
  /\ UNCHANGED <<step, furthest, listed, formVars, linkDone, pending, serviceVars>>

KeepEditing ==
  /\ page = "wizard" /\ confirming /\ confirming' = FALSE
  /\ UNCHANGED <<page, step, furthest, listed, formVars, linkDone, pending, serviceVars>>

Discard ==
  /\ page = "wizard" /\ confirming /\ confirming' = FALSE /\ page' = "elsewhere"
  /\ UNCHANGED <<step, furthest, listed, formVars, linkDone, pending, serviceVars>>

\* The links of the application's frame ask nothing.
Leave ==
  /\ Usable /\ page' = "elsewhere"
  /\ UNCHANGED <<step, furthest, listed, formVars, linkDone, pending, confirming, serviceVars>>

\* The service creates the instance, and its answer arrives or is lost; or it does not.
Serve ==
  /\ requests.out > 0
  /\ \/ /\ requests' = [requests EXCEPT !.out = @ - 1, !.yes = @ + 1]
        /\ made' = made + 1 /\ UNCHANGED lost
     \/ /\ requests' = [requests EXCEPT !.out = @ - 1, !.no = @ + 1]
        /\ \/ made' = made + 1 /\ lost' = lost + 1
           \/ UNCHANGED <<made, lost>>
  /\ UNCHANGED <<page, step, furthest, listed, formVars, linkDone, pending, confirming>>

Reply == Serve \/ CreateSucceeds \/ CreateFails

WizardNext ==
  \/ (\E i \in Items : SelectItem(i)) \/ Edit \/ (\E l \in SUBSET Items : Poll(l))
  \/ NextStep \/ Back \/ (\E s \in Steps : GoTo(s))
  \/ Create \/ RequestClose \/ KeepEditing \/ Discard \/ Leave
  \/ Reply

WizardSpec == WizardInit /\ [][WizardNext]_wizardVars

\* Requests are answered, or fail.
WizardFairness ==
  WF_wizardVars(Serve) /\ WF_wizardVars(CreateSucceeds) /\ WF_wizardVars(CreateFails)

-------------------------------------------------------------------------------
\* Next validates one step and Create none, yet the navigation goes back: what a
\* request is sent with and no validation has passed was changed after its step was
\* left, by an edit, another catalog item, or another definition of it.
UncheckedWasRetouched ==
  \A p \in FormSteps : p < furthest => p \in good \cup retouched

\* A wizard makes one instance, but for those whose answer was lost: no second
\* click, step change or failed attempt creates another one (setPending).
MadeOnce == made <= 1 + lost

\* Polling the catalog fills the form once, for the deep link; after that the item
\* changes, and what the user has typed is lost, only while an item is being chosen:
\* no poll starts the form over, with the same item or another.
PollsDoNotRefill ==
  [][linkDone /\ (item' # item \/ ~(typed \subseteq typed')) => step = 1]_wizardVars

\* A create ends: the buttons it disables come back, or the page is left.
CreateEnds == pending ~> ~pending
===============================================================================
