------------------------------ MODULE StorageEdit ------------------------------
(***************************************************************************)
(* The edit page of a storage tier or backend.  The form is filled once,   *)
(* from the first answer of the record's query; the query goes on being    *)
(* polled under it.  A save takes the fields from the form, but the        *)
(* version for the optimistic lock, and the comparison that decides        *)
(* whether a tier's description is sent, from the latest poll.  Others     *)
(* write the record meanwhile.                                             *)
(***************************************************************************)
EXTENDS Naturals

CONSTANTS
  Fields,           \* "description", and what is always sent
  Values,           \* of a field
  OmitsDescription, \* a tier's description is sent only when it "changed"
  MaxVersion,       \* bound on the writes of the record
  MaxForms          \* bound on the times the form is filled

ASSUME EditAssumption ==
  /\ "description" \in Fields /\ OmitsDescription \in BOOLEAN
  /\ MaxVersion \in Nat /\ MaxForms \in Nat

Contents == [version : 1 .. MaxVersion, fields : [Fields -> Values]]

VARIABLES
  editPage, \* "loading", "form", "asking" (discard?), "alert" (the query's error), "left"
  record,   \* the record at the server
  polled,   \* the latest answer of the query
  opened,   \* what the form was filled from
  forms,    \* how many times the form was filled
  form,     \* the form's fields
  typed,    \* the fields the user changed in it
  saves     \* updates sent and not yet seen answered

editVars == <<editPage, record, polled, opened, forms, form, typed, saves>>

\* A save: what it sends, and from which form; its answer.
Saves == [form : 1 .. MaxForms, version : 0 .. MaxVersion, fields : [Fields -> Values],
          mask : SUBSET Fields, typed : SUBSET Fields, base : 1 .. MaxVersion,
          answer : {"out", "yes", "no"}]

EditTypeOK ==
  /\ editPage \in {"loading", "form", "asking", "alert", "left"}
  /\ record \in Contents
  /\ polled \in Contents /\ opened \in Contents
  /\ forms \in 0 .. MaxForms
  /\ form \in [Fields -> Values]
  /\ typed \subseteq Fields
  /\ saves \subseteq Saves

EditInit ==
  /\ editPage = "loading"
  /\ record \in {c \in Contents : c.version = 1}
  /\ polled = record /\ opened = record
  /\ forms = 0 /\ form = record.fields /\ typed = {} /\ saves = {}

Mounted == editPage \in {"form", "asking"}
Submitting == \E s \in saves : s.form = forms
Dirty == form # opened.fields

\* The first load, the ten-second poll, the refetch after a save.  A form on the
\* page keeps its values; otherwise it is filled anew.
Poll ==
  /\ editPage # "left" /\ (Mounted \/ forms < MaxForms)
  /\ polled' = record
  /\ IF Mounted THEN UNCHANGED <<editPage, opened, forms, form, typed>>
     ELSE /\ editPage' = "form" /\ opened' = record /\ forms' = forms + 1
          /\ form' = record.fields /\ typed' = {}
  /\ UNCHANGED <<record, saves>>

\* A failed query, though data is there, shows its error in place of the form.
PollFails ==
  /\ editPage # "left"
  /\ editPage' = "alert"
  /\ UNCHANGED <<record, polled, opened, forms, form, typed, saves>>

Type(f, v) ==
  /\ editPage = "form" /\ v # form[f]
  /\ form' = [form EXCEPT ![f] = v]
  /\ typed' = typed \cup {f}
  /\ UNCHANGED <<editPage, record, polled, opened, forms, saves>>

\* onSubmit: descriptionChanged compares with the polled tier.
Mask ==
  IF OmitsDescription /\ form["description"] = polled.fields["description"]
  THEN Fields \ {"description"} ELSE Fields

\* (Bug: the update carries no metadata.)
NoVersion == 0

LockVersion == polled.version

Save ==
  /\ editPage = "form" /\ ~Submitting
  /\ saves' = saves \cup {[form |-> forms, version |-> LockVersion, fields |-> form,
                           mask |-> Mask, typed |-> typed, base |-> opened.version,
                           answer |-> "out"]}
  /\ UNCHANGED <<editPage, record, polled, opened, forms, form, typed>>

Answered(s, a) == saves' = (saves \ {s}) \cup {[s EXCEPT !.answer = a]}

\* lock: true: a version that is not the record's is refused, none is let through.
Accept(s) ==
  /\ s.answer = "out" /\ s.version \in {0, record.version} /\ record.version < MaxVersion
  /\ record' = [version |-> record.version + 1,
                fields |-> [f \in Fields |-> IF f \in s.mask THEN s.fields[f]
                                             ELSE record.fields[f]]]
  /\ \E a \in {"yes", "no"} : Answered(s, a)
  /\ UNCHANGED <<editPage, polled, opened, forms, form, typed>>

Refuse(s) ==
  /\ s.answer = "out" /\ Answered(s, "no")
  /\ UNCHANGED <<editPage, record, polled, opened, forms, form, typed>>

\* Success goes to the list, wherever the user is; the query is dropped.
Saved(s) ==
  /\ s.answer = "yes"
  /\ saves' = saves \ {s} /\ editPage' = "left"
  /\ UNCHANGED <<record, polled, opened, forms, form, typed>>

\* A failure is shown in the form that sent it, which stays as it is.
SaveFails(s) ==
  /\ s.answer = "no"
  /\ saves' = saves \ {s}
  /\ UNCHANGED <<editPage, record, polled, opened, forms, form, typed>>

\* Cancel, the breadcrumb, the application's links: LeaveFormConfirmation asks when
\* the form is dirty and not being submitted.
Leave ==
  /\ editPage \in {"loading", "form", "alert"}
  /\ editPage' = IF Mounted /\ Dirty /\ ~Submitting THEN "asking" ELSE "left"
  /\ UNCHANGED <<record, polled, opened, forms, form, typed, saves>>

Confirm ==
  /\ editPage = "asking" /\ editPage' \in {"form", "left"}
  /\ UNCHANGED <<record, polled, opened, forms, form, typed, saves>>

\* Another administrator, or the controller.
WriteElsewhere(f, v) ==
  /\ record.version < MaxVersion /\ v # record.fields[f]
  /\ record' = [version |-> record.version + 1, fields |-> [record.fields EXCEPT ![f] = v]]
  /\ UNCHANGED <<editPage, polled, opened, forms, form, typed, saves>>

EditNext ==
  \/ Poll \/ PollFails \/ Save \/ Leave \/ Confirm
  \/ \E f \in Fields, v \in Values : Type(f, v) \/ WriteElsewhere(f, v)
  \/ \E s \in saves : Accept(s) \/ Refuse(s) \/ Saved(s) \/ SaveFails(s)

EditSpec == EditInit /\ [][EditNext]_editVars

-------------------------------------------------------------------------------
\* The update a save turns into, in a step of the server.
Accepted(s) == s \in saves /\ s.answer = "out" /\ Accept(s)

\* A save reverts what others wrote since the form was filled only where a poll had
\* brought a later version under the form: with none, the lock refuses it (73).
OnlyPolledIsReverted ==
  [][\A s \in saves, f \in Fields :
       Accepted(s) /\ f \notin s.typed /\ record'.fields[f] # record.fields[f]
         => s.base < s.version]_editVars
===============================================================================
