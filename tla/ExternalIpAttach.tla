--------------------------- MODULE ExternalIpAttach ---------------------------
(***************************************************************************)
(* useAttachExternalIp: create an external IP, poll it until it is         *)
(* allocated, attach it to the compute instance, and delete it again when  *)
(* anything goes wrong on the way.  Several dialogs do so at once, in one  *)
(* or more tabs; the service allocates in its own time.                    *)
(*                                                                         *)
(* A dialog has at most one request out.  Serve* is the service acting on  *)
(* it, *Arrives the dialog seeing the answer.  An answer may be lost after *)
(* the service acted, or the request before it did: the dialog sees an     *)
(* error in both cases.                                                    *)
(***************************************************************************)
EXTENDS Naturals, FiniteSets

CONSTANTS
  Dialogs,
  Ips,
  None,
  MaxPolls,   \* EXTERNAL_IP_ALLOCATION_POLL_MAX_ATTEMPTS (20)
  Faults      \* of "refusals" (the service answers an error), "losses", "closes"

ASSUME IpNamesAssumption ==
  /\ None \notin Dialogs \cup Ips
  /\ (Ips \cup {None}) \cap {"pending", "allocated", "failed", "ok", "error"} = {}
ASSUME MaxPollsAssumption == MaxPolls \in Nat \ {0}
ASSUME IpFaultsAssumption == Faults \subseteq {"refusals", "losses", "closes"}

VARIABLES
  stage,      \* per dialog: what its mutation is awaiting, or its outcome
  ip,         \* per dialog: the IP its mutation created
  polls,      \* per dialog: get requests made
  answer,     \* per dialog: None while its request is out
  alloc,      \* per IP: its allocation state at the service
  attachedBy, \* per IP: the dialog whose attachment holds it
  silenced    \* IPs whose creator missed an answer, or could not delete them

dialogVars == <<stage, ip, polls, answer>>
vars == <<dialogVars, alloc, attachedBy, silenced>>

Awaiting == {"create", "get", "attach", "delete"}
Working  == Awaiting \cup {"sleep"}
Existing == {"pending", "allocated", "failed"}

TypeOK ==
  /\ stage \in [Dialogs -> Working \cup {"idle", "attached", "error"}]
  /\ ip \in [Dialogs -> Ips \cup {None}]
  /\ polls \in [Dialogs -> 0..MaxPolls]
  /\ answer \in [Dialogs -> Ips \cup Existing \cup {None, "ok", "error"}]
  /\ alloc \in [Ips -> Existing \cup {"absent"}]
  /\ attachedBy \in [Ips -> Dialogs \cup {None}]
  /\ silenced \subseteq Ips

Init ==
  /\ stage = [d \in Dialogs |-> "idle"]
  /\ ip = [d \in Dialogs |-> None]
  /\ polls = [d \in Dialogs |-> 0]
  /\ answer = [d \in Dialogs |-> None]
  /\ alloc = [i \in Ips |-> "absent"]
  /\ attachedBy = [i \in Ips |-> None]
  /\ silenced = {}

-------------------------------------------------------------------------------
(* The mutation. *)

\* The mutation goes on to await a request of kind s, to sleep, or ends.
Goto(d, s) ==
  /\ stage' = [stage EXCEPT ![d] = s]
  /\ answer' = [answer EXCEPT ![d] = None]

Ask(d) ==
  /\ stage[d] \in {"idle", "error"}
  /\ Goto(d, "create")
  /\ UNCHANGED <<ip, polls, alloc, attachedBy, silenced>>

CreateArrives(d) ==
  /\ stage[d] = "create" /\ answer[d] # None
  /\ IF answer[d] = "error"
     THEN Goto(d, "error") /\ UNCHANGED <<ip, polls>>
     ELSE /\ Goto(d, "get")
          /\ ip' = [ip EXCEPT ![d] = answer[d]]
          /\ polls' = [polls EXCEPT ![d] = 1]
  /\ UNCHANGED <<alloc, attachedBy, silenced>>

\* pollExternalIpUntilAllocated: allocated leaves the loop, failed or an error
\* throws out of it, anything else sleeps.
GetArrives(d) ==
  /\ stage[d] = "get" /\ answer[d] # None
  /\ Goto(d, IF answer[d] = "allocated" THEN "attach"
             ELSE IF answer[d] \in {"failed", "error"} THEN "delete" ELSE "sleep")
  /\ UNCHANGED <<ip, polls, alloc, attachedBy, silenced>>

\* (Bug: polls for as long as it takes.)
WakesForever(d) ==
  /\ stage[d] = "sleep"
  /\ Goto(d, "get")
  /\ UNCHANGED <<ip, polls, alloc, attachedBy, silenced>>

\* (Bug: one attempt too many.)
WakesOnceMore(d) ==
  /\ stage[d] = "sleep"
  /\ IF polls[d] <= MaxPolls
     THEN Goto(d, "get") /\ polls' = [polls EXCEPT ![d] = @ + 1]
     ELSE Goto(d, "delete") /\ UNCHANGED polls
  /\ UNCHANGED <<ip, alloc, attachedBy, silenced>>

\* After the sleep of the last attempt the poll times out.
Wakes(d) ==
  /\ stage[d] = "sleep"
  /\ IF polls[d] < MaxPolls
     THEN Goto(d, "get") /\ polls' = [polls EXCEPT ![d] = @ + 1]
     ELSE Goto(d, "delete") /\ UNCHANGED polls
  /\ UNCHANGED <<ip, alloc, attachedBy, silenced>>

\* (Bug: the clean-up runs in a finally.)
AttachArrivesFinally(d) ==
  /\ stage[d] = "attach" /\ answer[d] # None
  /\ Goto(d, "delete")
  /\ UNCHANGED <<ip, polls, alloc, attachedBy, silenced>>

\* (Bug: a failed attachment throws past the clean-up.)
AttachArrivesThrows(d) ==
  /\ stage[d] = "attach" /\ answer[d] # None
  /\ Goto(d, IF answer[d] = "ok" THEN "attached" ELSE "error")
  /\ UNCHANGED <<ip, polls, alloc, attachedBy, silenced>>

\* (Bug: the failure of the attachment is swallowed with that of the clean-up.)
AttachArrivesSwallows(d) ==
  /\ stage[d] = "attach" /\ answer[d] # None
  /\ Goto(d, "attached")
  /\ UNCHANGED <<ip, polls, alloc, attachedBy, silenced>>

AttachArrives(d) ==
  /\ stage[d] = "attach" /\ answer[d] # None
  /\ Goto(d, IF answer[d] = "ok" THEN "attached" ELSE "delete")
  /\ UNCHANGED <<ip, polls, alloc, attachedBy, silenced>>

\* The clean-up swallows its own failure.
DeleteArrives(d) ==
  /\ stage[d] = "delete" /\ answer[d] # None
  /\ Goto(d, "error")
  /\ silenced' = IF answer[d] = "error" THEN silenced \cup {ip[d]} ELSE silenced
  /\ ip' = [ip EXCEPT ![d] = None]
  /\ UNCHANGED <<polls, alloc, attachedBy>>

\* The dialog of an attached IP closes; a page may be closed or reloaded at any time.
Closes(d) ==
  /\ stage[d] = "attached" \/ ("closes" \in Faults /\ stage[d] \in Working)
  /\ Goto(d, "idle")
  /\ ip' = [ip EXCEPT ![d] = None]
  /\ silenced' = IF stage[d] = "attached" THEN silenced
                 ELSE silenced \cup (Ips \cap {ip[d], answer[d]})
  /\ UNCHANGED <<polls, alloc, attachedBy>>

-------------------------------------------------------------------------------
(* The service, and what can go wrong on the way to it and back. *)

Outstanding(d, s) == stage[d] = s /\ answer[d] = None

Answer(d, a) == answer' = [answer EXCEPT ![d] = a]

\* An IP that is gone and that nobody speaks of stands for a new one.
Unused(i) ==
  alloc[i] = "absent" /\ \A d \in Dialogs : i \notin {ip[d], answer[d]}

ServeCreate(d, i) ==
  /\ Outstanding(d, "create") /\ Unused(i)
  /\ Answer(d, i)
  /\ alloc' = [alloc EXCEPT ![i] = "pending"]
  /\ silenced' = silenced \ {i}
  /\ UNCHANGED <<stage, ip, polls, attachedBy>>

ServeGet(d) ==
  /\ Outstanding(d, "get")
  /\ Answer(d, IF alloc[ip[d]] = "absent" THEN "error" ELSE alloc[ip[d]])
  /\ UNCHANGED <<stage, ip, polls, alloc, attachedBy, silenced>>

ServeAttach(d) ==
  /\ Outstanding(d, "attach") /\ alloc[ip[d]] = "allocated" /\ attachedBy[ip[d]] = None
  /\ Answer(d, "ok")
  /\ attachedBy' = [attachedBy EXCEPT ![ip[d]] = d]
  /\ UNCHANGED <<stage, ip, polls, alloc, silenced>>

ServeDelete(d) ==
  /\ Outstanding(d, "delete")
  /\ Answer(d, "ok")
  /\ alloc' = [alloc EXCEPT ![ip[d]] = "absent"]
  /\ attachedBy' = [attachedBy EXCEPT ![ip[d]] = None]
  /\ UNCHANGED <<stage, ip, polls, silenced>>

\* An error answer, or a request that never got there.
Refused(d) ==
  /\ Faults \cap {"refusals", "losses"} # {}
  /\ stage[d] \in Awaiting /\ answer[d] = None
  /\ Answer(d, "error")
  /\ UNCHANGED <<stage, ip, polls, alloc, attachedBy, silenced>>

\* The service acted, the dialog sees an error.
AnswerLost(d) ==
  /\ "losses" \in Faults
  /\ stage[d] \in Awaiting /\ answer[d] \notin {None, "error"}
  /\ Answer(d, "error")
  /\ silenced' = silenced \cup (IF stage[d] = "create" THEN {answer[d]} ELSE {})
                          \cup (IF stage[d] = "attach" THEN {ip[d]} ELSE {})
  /\ UNCHANGED <<stage, ip, polls, alloc, attachedBy>>

Allocates(i) ==
  /\ alloc[i] = "pending"
  /\ \E s \in {"allocated", "failed"} : alloc' = [alloc EXCEPT ![i] = s]
  /\ UNCHANGED <<dialogVars, attachedBy, silenced>>

\* Elsewhere, an attached IP is detached and released, or a leftover cleaned up.
Released(i) ==
  /\ alloc[i] # "absent"
  /\ \A d \in Dialogs : i \notin {ip[d], answer[d]}
  /\ alloc' = [alloc EXCEPT ![i] = "absent"]
  /\ attachedBy' = [attachedBy EXCEPT ![i] = None]
  /\ UNCHANGED <<dialogVars, silenced>>

Next ==
  \/ \E d \in Dialogs :
       \/ Ask(d) \/ CreateArrives(d) \/ GetArrives(d) \/ Wakes(d)
       \/ AttachArrives(d) \/ DeleteArrives(d) \/ Closes(d)
       \/ (\E i \in Ips : ServeCreate(d, i))
       \/ ServeGet(d) \/ ServeAttach(d) \/ ServeDelete(d) \/ Refused(d) \/ AnswerLost(d)
  \/ \E i \in Ips : Allocates(i) \/ Released(i)

Spec == Init /\ [][Next]_vars

\* Requests are answered and timers fire; the service need not allocate.
Fairness ==
  \A d \in Dialogs :
    /\ WF_vars(CreateArrives(d)) /\ WF_vars(GetArrives(d)) /\ WF_vars(Wakes(d))
    /\ WF_vars(AttachArrives(d)) /\ WF_vars(DeleteArrives(d))
    /\ WF_vars((\E i \in Ips : ServeCreate(d, i)) \/ ServeGet(d) \/ ServeAttach(d)
               \/ ServeDelete(d) \/ Refused(d))

FairSpec == Spec /\ Fairness

-------------------------------------------------------------------------------
(* Correctness. *)

\* Every IP that exists is attached, or in the hands of a mutation that will
\* attach or delete it, or a dialog could not know of it or could not delete it:
\* no path out of the mutation forgets the IP it created (external-ip.ts).
NothingLeftBehind ==
  \A i \in Ips :
    alloc[i] # "absent" /\ attachedBy[i] = None /\ i \notin silenced
      => \E d \in Dialogs :
           \/ stage[d] = "create" /\ answer[d] = i
           \/ stage[d] \in Working /\ ip[d] = i

\* A mutation never undoes an attachment but one it was not told of, and never
\* touches that of another dialog (the catch around the attachment request).
OnlyUnseenIsUndone ==
  [][\A d \in Dialogs, i \in Ips :
       attachedBy[i] # None /\ attachedBy'[i] = None /\ stage[d] = "delete" /\ ip[d] = i
         => attachedBy[i] = d /\ i \in silenced]_vars

\* A dialog that reports success has its IP attached.
SuccessIsAttached ==
  \A d \in Dialogs :
    stage[d] = "attached" => attachedBy[ip[d]] = d /\ alloc[ip[d]] = "allocated"

\* Every mutation ends, even if the service never allocates the IP
\* (EXTERNAL_IP_ALLOCATION_POLL_MAX_ATTEMPTS).
MutationEnds ==
  \A d \in Dialogs : stage[d] = "create" ~> stage[d] \in {"attached", "error", "idle"}
===============================================================================
