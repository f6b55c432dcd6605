------------------------ MODULE ExternalIpAttachProofs ------------------------
(***************************************************************************)
(* No IP is forgotten, and none undone that should not be, for any number  *)
(* of dialogs, IPs and polls and any faults.                               *)
(***************************************************************************)
EXTENDS ExternalIpAttach, TLAPS

\* What a dialog holds and can be answered at each stage.
Shape ==
  \A d \in Dialogs :
    /\ stage[d] \in {"idle", "error", "create"} => ip[d] = None
    /\ stage[d] \in {"get", "sleep", "attach", "delete", "attached"} => ip[d] \in Ips
    /\ stage[d] \in {"idle", "error", "sleep", "attached"} => answer[d] = None
    /\ stage[d] = "create" => answer[d] \in Ips \cup {None, "error"}
    /\ stage[d] = "get" => answer[d] \in Existing \cup {None, "error"}
    /\ stage[d] \in {"attach", "delete"} => answer[d] \in {None, "ok", "error"}

\* No IP is in two hands.
Apart ==
  \A d, e \in Dialogs :
    d # e => /\ ip[d] \in Ips => ip[d] # ip[e] /\ ip[d] # answer[e]
             /\ answer[d] \in Ips => answer[d] # answer[e]

ToldOk(d) == stage[d] = "attached" \/ (stage[d] = "attach" /\ answer[d] = "ok")

\* An IP that is held is attached by its holder only, who knows or missed the answer.
Attachments ==
  /\ \A d \in Dialogs :
       /\ ToldOk(d) => attachedBy[ip[d]] = d /\ alloc[ip[d]] = "allocated"
       /\ ip[d] \in Ips
            => /\ attachedBy[ip[d]] \in {None, d}
               /\ attachedBy[ip[d]] = d => ToldOk(d) \/ ip[d] \in silenced
       /\ answer[d] \in Ips => attachedBy[answer[d]] = None
  /\ \A i \in Ips : alloc[i] = "absent" => attachedBy[i] = None

Deletions ==
  \A d \in Dialogs : stage[d] = "delete" /\ answer[d] = "ok" => alloc[ip[d]] = "absent"

IpInv == TypeOK /\ Shape /\ Apart /\ Attachments /\ Deletions /\ NothingLeftBehind

USE IpNamesAssumption, MaxPollsAssumption
    DEF dialogVars, Goto, Answer, Awaiting, Working, Existing, Outstanding

LEMMA IpInitHolds == Init => IpInv
BY DEF Init, IpInv, TypeOK, Shape, Apart, ToldOk, Attachments, Deletions, NothingLeftBehind

-------------------------------------------------------------------------------
(* The types. *)

LEMMA IpTypeStep == TypeOK /\ Shape /\ [Next]_vars => TypeOK'
<1> SUFFICES ASSUME TypeOK, Shape, [Next]_vars PROVE TypeOK'
  OBVIOUS
<1> USE DEF TypeOK
<1>1. ASSUME NEW d \in Dialogs, Ask(d) PROVE TypeOK'
  BY <1>1 DEF Ask
<1>2. ASSUME NEW d \in Dialogs, CreateArrives(d) PROVE TypeOK'
  BY <1>2 DEF CreateArrives, Shape
<1>3. ASSUME NEW d \in Dialogs, GetArrives(d) PROVE TypeOK'
  BY <1>3 DEF GetArrives
<1>4. ASSUME NEW d \in Dialogs, Wakes(d) PROVE TypeOK'
  BY <1>4 DEF Wakes
<1>5. ASSUME NEW d \in Dialogs, AttachArrives(d) PROVE TypeOK'
  BY <1>5 DEF AttachArrives
<1>6. ASSUME NEW d \in Dialogs, DeleteArrives(d) PROVE TypeOK'
  BY <1>6 DEF DeleteArrives, Shape
<1>7. ASSUME NEW d \in Dialogs, Closes(d) PROVE TypeOK'
  BY <1>7 DEF Closes
<1>8. ASSUME NEW d \in Dialogs, NEW i \in Ips, ServeCreate(d, i) PROVE TypeOK'
  BY <1>8 DEF ServeCreate
<1>9. ASSUME NEW d \in Dialogs, ServeGet(d) PROVE TypeOK'
  BY <1>9 DEF ServeGet, Shape
<1>10. ASSUME NEW d \in Dialogs, ServeAttach(d) PROVE TypeOK'
  BY <1>10 DEF ServeAttach
<1>11. ASSUME NEW d \in Dialogs, ServeDelete(d) PROVE TypeOK'
  BY <1>11 DEF ServeDelete
<1>12. ASSUME NEW d \in Dialogs, Refused(d) PROVE TypeOK'
  BY <1>12 DEF Refused
<1>13. ASSUME NEW d \in Dialogs, AnswerLost(d) PROVE TypeOK'
  BY <1>13 DEF AnswerLost, Shape
<1>14. ASSUME NEW i \in Ips, Allocates(i) \/ Released(i) PROVE TypeOK'
  BY <1>14 DEF Allocates, Released
<1>15. CASE UNCHANGED vars
  BY <1>15 DEF vars
<1> QED
  BY <1>1, <1>2, <1>3, <1>4, <1>5, <1>6, <1>7, <1>8, <1>9, <1>10, <1>11, <1>12, <1>13, <1>14,
     <1>15 DEF Next

-------------------------------------------------------------------------------
(* Every operation keeps the invariant. *)

LEMMA AskKeeps ==
  ASSUME IpInv, TypeOK', NEW d \in Dialogs, Ask(d)
  PROVE  IpInv'
<1> USE DEF IpInv, TypeOK, Ask
<1>1. Shape'
  BY DEF Shape
<1>2. Apart'
  BY DEF Shape, Apart
<1>3. Attachments'
  BY DEF Shape, Apart, ToldOk, Attachments
<1>4. Deletions'
  BY DEF Shape, Apart, Deletions
<1>5. NothingLeftBehind'
  BY DEF Shape, Apart, Attachments, Deletions, NothingLeftBehind
<1> QED BY <1>1, <1>2, <1>3, <1>4, <1>5

LEMMA CreateArrivesKeeps ==
  ASSUME IpInv, TypeOK', NEW d \in Dialogs, CreateArrives(d)
  PROVE  IpInv'
<1> USE DEF IpInv, TypeOK, CreateArrives
<1>1. Shape'
  BY DEF Shape
<1>2. Apart'
  BY DEF Shape, Apart
<1>3. Attachments'
  BY DEF Shape, Apart, ToldOk, Attachments
<1>4. Deletions'
  BY DEF Shape, Apart, Deletions
<1>5. NothingLeftBehind'
  BY DEF Shape, Apart, Attachments, Deletions, NothingLeftBehind
<1> QED BY <1>1, <1>2, <1>3, <1>4, <1>5

LEMMA GetArrivesKeeps ==
  ASSUME IpInv, TypeOK', NEW d \in Dialogs, GetArrives(d)
  PROVE  IpInv'
<1> USE DEF IpInv, TypeOK, GetArrives
<1>1. Shape'
  BY DEF Shape
<1>2. Apart'
  BY DEF Shape, Apart
<1>3. Attachments'
  BY DEF Shape, Apart, ToldOk, Attachments
<1>4. Deletions'
  BY DEF Shape, Apart, Deletions
<1>5. NothingLeftBehind'
  BY DEF Shape, Apart, Attachments, Deletions, NothingLeftBehind
<1> QED BY <1>1, <1>2, <1>3, <1>4, <1>5

LEMMA WakesKeeps ==
  ASSUME IpInv, TypeOK', NEW d \in Dialogs, Wakes(d)
  PROVE  IpInv'
<1> USE DEF IpInv, TypeOK, Wakes
<1>1. Shape'
  BY DEF Shape
<1>2. Apart'
  BY DEF Shape, Apart
<1>3. Attachments'
  BY DEF Shape, Apart, ToldOk, Attachments
<1>4. Deletions'
  BY DEF Shape, Apart, Deletions
<1>5. NothingLeftBehind'
  BY DEF Shape, Apart, Attachments, Deletions, NothingLeftBehind
<1> QED BY <1>1, <1>2, <1>3, <1>4, <1>5

LEMMA AttachArrivesKeeps ==
  ASSUME IpInv, TypeOK', NEW d \in Dialogs, AttachArrives(d)
  PROVE  IpInv'
<1> USE DEF IpInv, TypeOK
<1>1. /\ stage[d] = "attach" /\ ip[d] \in Ips /\ answer[d] \in {"ok", "error"}
      /\ stage' = [stage EXCEPT ![d] = IF answer[d] = "ok" THEN "attached" ELSE "delete"]
      /\ answer' = [answer EXCEPT ![d] = None]
      /\ UNCHANGED <<ip, polls, alloc, attachedBy, silenced>>
  BY DEF AttachArrives, Shape
<1>2. Shape'
  BY <1>1 DEF Shape
<1>3. Apart'
  BY <1>1 DEF Apart
<1>4. Attachments'
  <2>1. ASSUME NEW e \in Dialogs PROVE ToldOk(e)' <=> ToldOk(e)
    <3>1. CASE e = d /\ answer[d] = "ok"
      <4>1. stage'[e] = "attached" /\ stage[e] = "attach" /\ answer[e] = "ok"
        BY <1>1, <3>1
      <4> QED BY <4>1 DEF ToldOk
    <3>2. CASE e = d /\ answer[d] = "error"
      BY <1>1, <3>2 DEF ToldOk
    <3>3. CASE e # d
      BY <1>1, <3>3 DEF ToldOk
    <3> QED BY <1>1, <3>1, <3>2, <3>3
  <2>2. \A e \in Dialogs : answer'[e] \in Ips => answer'[e] = answer[e]
    BY <1>1
  <2> QED BY <1>1, <2>1, <2>2 DEF Attachments
<1>5. Deletions'
  BY <1>1 DEF Deletions
<1>6. NothingLeftBehind'
  <2>1. CASE answer[d] = "ok"
    <3>1. attachedBy[ip[d]] = d
      BY <1>1, <2>1 DEF Attachments, ToldOk
    <3> QED BY <1>1, <2>1, <3>1 DEF NothingLeftBehind
  <2>2. CASE answer[d] = "error"
    BY <1>1, <2>2 DEF NothingLeftBehind
  <2> QED BY <1>1, <2>1, <2>2
<1> QED BY <1>2, <1>3, <1>4, <1>5, <1>6

LEMMA DeleteArrivesKeeps ==
  ASSUME IpInv, TypeOK', NEW d \in Dialogs, DeleteArrives(d)
  PROVE  IpInv'
<1> USE DEF IpInv, TypeOK, DeleteArrives
<1>1. Shape'
  BY DEF Shape
<1>2. Apart'
  BY DEF Shape, Apart
<1>3. Attachments'
  BY DEF Shape, Apart, ToldOk, Attachments
<1>4. Deletions'
  BY DEF Shape, Apart, Deletions
<1>5. NothingLeftBehind'
  BY DEF Shape, Apart, Attachments, Deletions, NothingLeftBehind
<1> QED BY <1>1, <1>2, <1>3, <1>4, <1>5

LEMMA ClosesKeeps ==
  ASSUME IpInv, TypeOK', NEW d \in Dialogs, Closes(d)
  PROVE  IpInv'
<1> USE DEF IpInv, TypeOK, Closes
<1>1. Shape'
  BY DEF Shape
<1>2. Apart'
  BY DEF Shape, Apart
<1>3. Attachments'
  BY DEF Shape, Apart, ToldOk, Attachments
<1>4. Deletions'
  BY DEF Shape, Apart, Deletions
<1>5. NothingLeftBehind'
  BY DEF Shape, Apart, Attachments, Deletions, NothingLeftBehind
<1> QED BY <1>1, <1>2, <1>3, <1>4, <1>5

LEMMA ServeCreateKeeps ==
  ASSUME IpInv, TypeOK', NEW d \in Dialogs, NEW i \in Ips, ServeCreate(d, i)
  PROVE  IpInv'
<1> USE DEF IpInv, TypeOK
<1>1. /\ stage[d] = "create" /\ ip[d] = None /\ answer[d] = None
      /\ answer'[d] = i /\ alloc'[i] = "pending" /\ attachedBy[i] = None
      /\ UNCHANGED <<stage, ip, polls, attachedBy>>
  BY DEF ServeCreate, Unused, Shape, Attachments
<1>2. /\ \A e \in Dialogs : ip[e] # i /\ answer[e] # i /\ (e # d => answer'[e] = answer[e])
      /\ \A j \in Ips : j # i => alloc'[j] = alloc[j] /\ (j \in silenced' <=> j \in silenced)
  BY DEF ServeCreate, Unused
<1>3. Shape'
  BY <1>1, <1>2 DEF Shape
<1>4. Apart'
  BY <1>1, <1>2 DEF Apart
<1>5. Attachments'
  <2>1. \A e \in Dialogs : ToldOk(e)' <=> ToldOk(e)
    BY <1>1, <1>2 DEF ToldOk
  <2>2. \A e \in Dialogs : ToldOk(e) => ip[e] \in Ips
    BY DEF ToldOk, Shape
  <2> QED BY <1>1, <1>2, <2>1, <2>2 DEF Attachments
<1>6. Deletions'
  BY <1>1, <1>2 DEF Shape, Deletions
<1>7. NothingLeftBehind'
  BY <1>1, <1>2 DEF NothingLeftBehind
<1> QED BY <1>3, <1>4, <1>5, <1>6, <1>7

LEMMA ServeGetKeeps ==
  ASSUME IpInv, TypeOK', NEW d \in Dialogs, ServeGet(d)
  PROVE  IpInv'
<1> USE DEF IpInv, TypeOK, ServeGet
<1>1. Shape'
  BY DEF Shape
<1>2. Apart'
  BY DEF Shape, Apart
<1>3. Attachments'
  BY DEF Shape, Apart, ToldOk, Attachments
<1>4. Deletions'
  BY DEF Shape, Apart, Deletions
<1>5. NothingLeftBehind'
  BY DEF Shape, Apart, Attachments, Deletions, NothingLeftBehind
<1> QED BY <1>1, <1>2, <1>3, <1>4, <1>5

LEMMA ServeAttachKeeps ==
  ASSUME IpInv, TypeOK', NEW d \in Dialogs, ServeAttach(d)
  PROVE  IpInv'
<1> USE DEF IpInv, TypeOK, ServeAttach
<1>1. Shape'
  BY DEF Shape
<1>2. Apart'
  BY DEF Shape, Apart
<1>3. Attachments'
  BY DEF Shape, Apart, ToldOk, Attachments
<1>4. Deletions'
  BY DEF Shape, Apart, Deletions
<1>5. NothingLeftBehind'
  BY DEF Shape, Apart, Attachments, Deletions, NothingLeftBehind
<1> QED BY <1>1, <1>2, <1>3, <1>4, <1>5

LEMMA ServeDeleteKeeps ==
  ASSUME IpInv, TypeOK', NEW d \in Dialogs, ServeDelete(d)
  PROVE  IpInv'
<1> USE DEF IpInv, TypeOK, ServeDelete
<1>1. Shape'
  BY DEF Shape
<1>2. Apart'
  BY DEF Shape, Apart
<1>3. Attachments'
  BY DEF Shape, Apart, ToldOk, Attachments
<1>4. Deletions'
  BY DEF Shape, Apart, Deletions
<1>5. NothingLeftBehind'
  BY DEF Shape, Apart, Attachments, Deletions, NothingLeftBehind
<1> QED BY <1>1, <1>2, <1>3, <1>4, <1>5

LEMMA RefusedKeeps ==
  ASSUME IpInv, TypeOK', NEW d \in Dialogs, Refused(d)
  PROVE  IpInv'
<1> USE DEF IpInv, TypeOK, Refused
<1>1. Shape'
  BY DEF Shape
<1>2. Apart'
  BY DEF Shape, Apart
<1>3. Attachments'
  BY DEF Shape, Apart, ToldOk, Attachments
<1>4. Deletions'
  BY DEF Shape, Apart, Deletions
<1>5. NothingLeftBehind'
  BY DEF Shape, Apart, Attachments, Deletions, NothingLeftBehind
<1> QED BY <1>1, <1>2, <1>3, <1>4, <1>5

LEMMA AnswerLostKeeps ==
  ASSUME IpInv, TypeOK', NEW d \in Dialogs, AnswerLost(d)
  PROVE  IpInv'
<1> USE DEF IpInv, TypeOK, AnswerLost
<1>1. Shape'
  BY DEF Shape
<1>2. Apart'
  BY DEF Shape, Apart
<1>3. Attachments'
  BY DEF Shape, Apart, ToldOk, Attachments
<1>4. Deletions'
  BY DEF Shape, Apart, Deletions
<1>5. NothingLeftBehind'
  BY DEF Shape, Apart, Attachments, Deletions, NothingLeftBehind
<1> QED BY <1>1, <1>2, <1>3, <1>4, <1>5

LEMMA AllocatesKeeps ==
  ASSUME IpInv, TypeOK', NEW i \in Ips, Allocates(i)
  PROVE  IpInv'
<1> USE DEF IpInv, TypeOK, Allocates
<1>1. Shape'
  BY DEF Shape
<1>2. Apart'
  BY DEF Shape, Apart
<1>3. Attachments'
  BY DEF Shape, Apart, ToldOk, Attachments
<1>4. Deletions'
  BY DEF Shape, Apart, Deletions
<1>5. NothingLeftBehind'
  BY DEF Shape, Apart, Attachments, Deletions, NothingLeftBehind
<1> QED BY <1>1, <1>2, <1>3, <1>4, <1>5

LEMMA ReleasedKeeps ==
  ASSUME IpInv, TypeOK', NEW i \in Ips, Released(i)
  PROVE  IpInv'
<1> USE DEF IpInv, TypeOK, Released
<1>1. Shape'
  BY DEF Shape
<1>2. Apart'
  BY DEF Shape, Apart
<1>3. Attachments'
  BY DEF Shape, Apart, ToldOk, Attachments
<1>4. Deletions'
  BY DEF Shape, Apart, Deletions
<1>5. NothingLeftBehind'
  BY DEF Shape, Apart, Attachments, Deletions, NothingLeftBehind
<1> QED BY <1>1, <1>2, <1>3, <1>4, <1>5

LEMMA IpStep == IpInv /\ [Next]_vars => IpInv'
<1> SUFFICES ASSUME IpInv, [Next]_vars PROVE IpInv'
  OBVIOUS
<1>1. TypeOK'
  BY IpTypeStep DEF IpInv
<1>2. CASE UNCHANGED vars
  BY <1>1, <1>2
     DEF vars, IpInv, Shape, Apart, ToldOk, Attachments, Deletions, NothingLeftBehind
<1>3. ASSUME NEW d \in Dialogs,
             \/ Ask(d) \/ CreateArrives(d) \/ GetArrives(d) \/ Wakes(d)
             \/ AttachArrives(d) \/ DeleteArrives(d) \/ Closes(d)
      PROVE  IpInv'
  BY <1>1, <1>3, AskKeeps, CreateArrivesKeeps, GetArrivesKeeps, WakesKeeps, AttachArrivesKeeps,
     DeleteArrivesKeeps, ClosesKeeps
<1>4. ASSUME NEW d \in Dialogs,
             \/ (\E i \in Ips : ServeCreate(d, i))
             \/ ServeGet(d) \/ ServeAttach(d) \/ ServeDelete(d) \/ Refused(d) \/ AnswerLost(d)
      PROVE  IpInv'
  BY <1>1, <1>4, ServeCreateKeeps, ServeGetKeeps, ServeAttachKeeps, ServeDeleteKeeps,
     RefusedKeeps, AnswerLostKeeps
<1>5. ASSUME NEW i \in Ips, Allocates(i) \/ Released(i) PROVE IpInv'
  BY <1>1, <1>5, AllocatesKeeps, ReleasedKeeps
<1> QED BY <1>2, <1>3, <1>4, <1>5 DEF Next

LEMMA IpInvariant == Spec => []IpInv
BY IpInitHolds, IpStep, PTL DEF Spec

-------------------------------------------------------------------------------
(* The results. *)

\* The state of dialogs and service is of its types.
THEOREM IpTypes == Spec => []TypeOK
<1>1. IpInv => TypeOK
  BY DEF IpInv
<1> QED BY IpInvariant, <1>1, PTL

\* No IP is left behind by a mutation that could know of it.
THEOREM IpsAreNotForgotten == Spec => []NothingLeftBehind
<1>1. IpInv => NothingLeftBehind
  BY DEF IpInv
<1> QED BY IpInvariant, <1>1, PTL

\* Success is reported of an attached IP only.
THEOREM SuccessIsTrue == Spec => []SuccessIsAttached
<1>1. IpInv => SuccessIsAttached
  <2> SUFFICES ASSUME IpInv, NEW d \in Dialogs, stage[d] = "attached"
               PROVE  attachedBy[ip[d]] = d /\ alloc[ip[d]] = "allocated"
    BY DEF SuccessIsAttached
  <2>1. ToldOk(d)
    BY DEF ToldOk
  <2> QED BY <2>1 DEF IpInv, Attachments
<1> QED BY IpInvariant, <1>1, PTL

\* Which step takes an attachment back, and what is known of the IP then.
LEMMA UndoneStep ==
  ASSUME IpInv, [Next]_vars, NEW d \in Dialogs, NEW i \in Ips,
         attachedBy[i] # None, attachedBy'[i] = None, stage[d] = "delete", ip[d] = i
  PROVE  attachedBy[i] = d /\ i \in silenced
BY DEF IpInv, Attachments, ToldOk

\* The clean-up undoes an attachment only if its answer was missed.
THEOREM UndoneUnseen == Spec => OnlyUnseenIsUndone
<1>1. IpInv /\ [Next]_vars
        => [\A d \in Dialogs, i \in Ips :
              attachedBy[i] # None /\ attachedBy'[i] = None /\ stage[d] = "delete" /\ ip[d] = i
                => attachedBy[i] = d /\ i \in silenced]_vars
  BY UndoneStep
<1> QED BY IpInvariant, <1>1, PTL DEF Spec, OnlyUnseenIsUndone
===============================================================================
