------------------------------ MODULE PageProofs ------------------------------
(***************************************************************************)
(* The pages over polled records: the subnets of a network, for addresses  *)
(* of any width; the edit forms of storage; the rules of a security group. *)
(* For any number of pages, values and calls.                              *)
(***************************************************************************)
EXTENDS SubnetPlan, StorageEdit, SecurityGroupRules, Integers, TLAPS

-------------------------------------------------------------------------------
(* Blocks. *)

LEMMA BlockBounds ==
  ASSUME NEW c \in Cidrs
  PROVE  /\ StartAddress(c) \in Int /\ EndAddress(c) \in Int
         /\ StartAddress(c) <= EndAddress(c)
<1>1. Size[c.mask] \in Nat \ {0} /\ Size[0] \in Nat \ {0}
  BY SizeAssumption DEF Cidrs
<1>2. c.addr \in Nat
  BY <1>1 DEF Cidrs
<1>3. c.addr % Size[c.mask] \in Nat
  BY <1>1, <1>2
<1> QED BY <1>1, <1>2, <1>3 DEF StartAddress, EndAddress

\* What isSubnetWithinVN accepts lies inside the network.
LEMMA WithinContains ==
  ASSUME NEW c \in Cidrs, IsSubnetWithinVN(c, Network)
  PROVE  Addresses(c) \subseteq Addresses(Network)
BY BlockBounds, PlanAssumption DEF IsSubnetWithinVN, Addresses

\* hasSubnetOverlap misses no common address.
LEMMA NoOverlapDisjoint ==
  ASSUME NEW c \in Cidrs, NEW d \in Cidrs, ~HasOverlap(c, d)
  PROVE  Addresses(c) \cap Addresses(d) = {}
BY BlockBounds DEF HasOverlap, Addresses

-------------------------------------------------------------------------------
(* Types. *)

LEMMA PlanTypeInit == PlanInit => PlanTypeOK
BY PlanAssumption DEF PlanInit, PlanTypeOK, Plans

\* The plan of the subnet that is created next.
LEMMA ServedPlan ==
  ASSUME PlanTypeOK, NEW p \in Planners, ServeSubnet(p)
  PROVE  /\ request[p].plan \in Plans
         /\ made' = made + 1 /\ made + 1 \in 1 .. MaxSubnets
         /\ plan' \in [1 .. made + 1 -> Plans]
         /\ plan'[made + 1] = request[p].plan
         /\ \A i \in 1 .. made : i \in 1 .. made + 1 /\ i # made + 1 /\ plan'[i] = plan[i]
<1> USE PlanAssumption DEF PlanTypeOK, ServeSubnet
<1>1. request[p].plan \in Plans
  OBVIOUS
<1>2. made' = made + 1 /\ made + 1 \in 1 .. MaxSubnets
  OBVIOUS
<1>3. \A i \in 1 .. made + 1 : i # made + 1 => i \in 1 .. made
  OBVIOUS
<1>4. plan' \in [1 .. made + 1 -> Plans]
  BY <1>1, <1>3
<1> QED BY <1>1, <1>2, <1>3, <1>4

LEMMA PlanTypeStep == PlanTypeOK /\ [PlanNext]_planVars => PlanTypeOK'
<1> SUFFICES ASSUME PlanTypeOK, [PlanNext]_planVars PROVE PlanTypeOK'
  OBVIOUS
<1> USE PlanAssumption DEF PlanTypeOK, serverVars, Goto, Answer
<1>1. ASSUME NEW p \in Planners, OpenDialog(p) PROVE PlanTypeOK'
  BY <1>1 DEF OpenDialog
<1>2. ASSUME NEW p \in Planners, CloseDialog(p) PROVE PlanTypeOK'
  BY <1>2 DEF CloseDialog
<1>3. ASSUME NEW p \in Planners, NEW c \in Cidrs, Submit(p, c) PROVE PlanTypeOK'
  <2>1. seen[p] \subseteq Ids
    BY DEF Ids
  <2>2. [plan |-> [cidr |-> c, knew |-> seen[p]], answer |-> "out"]
          \in [plan : Plans, answer : {"out", "yes", "no"}]
    BY <2>1 DEF Plans
  <2> QED BY <1>3, <2>2 DEF Submit
<1>4. ASSUME NEW p \in Planners, ServeSubnet(p) PROVE PlanTypeOK'
  <2>1. /\ made' = made + 1 /\ made' \in 0 .. MaxSubnets
        /\ plan' \in [1 .. made' -> Plans]
    BY <1>4, ServedPlan
  <2>2. 1 .. made \subseteq 1 .. made' /\ made' \in 1 .. made'
    BY <2>1
  <2>3. existing' \subseteq 1 .. made'
    BY <1>4, <2>1, <2>2 DEF ServeSubnet
  <2>4. seen' \in [Planners -> SUBSET (1 .. made')]
    BY <1>4, <2>2 DEF ServeSubnet
  <2>5. request' \in [Planners -> [plan : Plans, answer : {"out", "yes", "no"}] \cup {NoRequest}]
    BY <1>4 DEF ServeSubnet
  <2> QED BY <1>4, <2>1, <2>3, <2>4, <2>5 DEF ServeSubnet
<1>5. ASSUME NEW p \in Planners, RefuseSubnet(p) PROVE PlanTypeOK'
  BY <1>5 DEF RefuseSubnet
<1>6. ASSUME NEW p \in Planners, SubnetCreated(p) PROVE PlanTypeOK'
  BY <1>6 DEF SubnetCreated
<1>7. ASSUME NEW p \in Planners, SubnetRefused(p) PROVE PlanTypeOK'
  BY <1>7 DEF SubnetRefused
<1>8. ASSUME NEW p \in Planners, PollList(p) PROVE PlanTypeOK'
  BY <1>8 DEF PollList
<1>9. ASSUME NEW i \in existing, DeletedElsewhere(i) PROVE PlanTypeOK'
  BY <1>9 DEF DeletedElsewhere
<1>10. CASE UNCHANGED planVars
  BY <1>10 DEF planVars
<1> QED
  BY <1>1, <1>2, <1>3, <1>4, <1>5, <1>6, <1>7, <1>8, <1>9, <1>10 DEF PlanNext

-------------------------------------------------------------------------------
(* What was checked stays true of a plan, on its way and once it is created. *)

\* q was checked against plans it knew of, the first m of pl among them.
Checked(q, pl, m) ==
  /\ IsSubnetWithinVN(q.cidr, Network)
  /\ q.knew \subseteq 1 .. m
  /\ \A i \in q.knew : ~HasOverlap(q.cidr, pl[i].cidr)

PlanInv ==
  /\ PlanTypeOK
  /\ \A p \in Planners : request[p] # NoRequest => Checked(request[p].plan, plan, made)
  /\ \A i \in 1 .. made : Checked(plan[i], plan, made)

LEMMA PlanInitHolds == PlanInit => PlanInv
BY PlanTypeInit DEF PlanInit, PlanInv

LEMMA PlanStep == PlanInv /\ [PlanNext]_planVars => PlanInv'
<1> SUFFICES ASSUME PlanInv, [PlanNext]_planVars PROVE PlanInv'
  OBVIOUS
<1>1. PlanTypeOK /\ PlanTypeOK'
  BY PlanTypeStep DEF PlanInv
<1>2. ASSUME UNCHANGED <<plan, made>>,
             \A p \in Planners :
               request'[p] # NoRequest
                 => \/ request[p] # NoRequest /\ request'[p].plan = request[p].plan
                    \/ Checked(request'[p].plan, plan, made)
      PROVE  PlanInv'
  BY <1>1, <1>2 DEF PlanInv
<1>3. ASSUME NEW p \in Planners, OpenDialog(p) \/ CloseDialog(p) \/ PollList(p) PROVE PlanInv'
  <2>1. UNCHANGED <<plan, made, request>>
    BY <1>3 DEF OpenDialog, CloseDialog, PollList, serverVars
  <2> QED BY <1>2, <2>1
<1>4. ASSUME NEW p \in Planners, NEW c \in Cidrs, Submit(p, c) PROVE PlanInv'
  <2>1. seen[p] \subseteq 1 .. made
    BY <1>1 DEF PlanTypeOK
  <2>2. Checked([cidr |-> c, knew |-> seen[p]], plan, made)
    BY <1>4, <2>1 DEF Submit, Valid, Checked
  <2>3. \A r \in Planners :
          request'[r] = IF r = p THEN [plan |-> [cidr |-> c, knew |-> seen[p]], answer |-> "out"]
                        ELSE request[r]
    BY <1>1, <1>4 DEF Submit, PlanTypeOK
  <2>4. UNCHANGED <<plan, made>>
    BY <1>4 DEF Submit, serverVars
  <2> QED BY <1>2, <2>2, <2>3, <2>4
<1>5. ASSUME NEW p \in Planners, RefuseSubnet(p) PROVE PlanInv'
  <2>1. \A r \in Planners : request'[r] # NoRequest
          => request[r] # NoRequest /\ request'[r].plan = request[r].plan
    BY <1>1, <1>5 DEF RefuseSubnet, Answer, PlanTypeOK
  <2> QED BY <1>2, <1>5, <2>1 DEF RefuseSubnet, serverVars
<1>6. ASSUME NEW p \in Planners, SubnetCreated(p) \/ SubnetRefused(p) PROVE PlanInv'
  <2>1. \A r \in Planners : request'[r] # NoRequest => request'[r] = request[r]
    BY <1>1, <1>6 DEF SubnetCreated, SubnetRefused, PlanTypeOK
  <2>2. UNCHANGED <<plan, made>>
    BY <1>6 DEF SubnetCreated, SubnetRefused, serverVars
  <2> QED BY <1>2, <2>1, <2>2
<1>7. ASSUME NEW p \in Planners, ServeSubnet(p) PROVE PlanInv'
  <2>1. /\ made' = made + 1 /\ made \in Nat
        /\ plan'[made + 1] = request[p].plan
        /\ \A i \in 1 .. made : i \in 1 .. made + 1 /\ plan'[i] = plan[i]
    BY <1>1, <1>7, ServedPlan, PlanAssumption DEF PlanTypeOK
  <2>2. ASSUME NEW q, Checked(q, plan, made) PROVE Checked(q, plan', made')
    BY <2>1, <2>2 DEF Checked
  <2>3. Checked(request[p].plan, plan', made')
    BY <1>7, <2>2 DEF ServeSubnet, PlanInv
  <2>4. \A r \in Planners : request'[r] # NoRequest
          => request[r] # NoRequest /\ request'[r].plan = request[r].plan
    <3>1. PICK a \in {"yes", "no"} : Answer(p, a)
      BY <1>7 DEF ServeSubnet
    <3>2. request \in [Planners -> [plan : Plans, answer : {"out", "yes", "no"}] \cup {NoRequest}]
      BY <1>1 DEF PlanTypeOK
    <3>3. request[p] # NoRequest
      BY <1>7 DEF ServeSubnet
    <3> QED BY <3>1, <3>2, <3>3 DEF Answer
  <2>5. \A r \in Planners : request'[r] # NoRequest => Checked(request'[r].plan, plan', made')
    <3> SUFFICES ASSUME NEW r \in Planners, request'[r] # NoRequest
                 PROVE  Checked(request'[r].plan, plan', made')
      OBVIOUS
    <3>1. Checked(request[r].plan, plan, made)
      BY <2>4 DEF PlanInv
    <3>2. Checked(request[r].plan, plan', made')
      BY <2>2, <3>1
    <3> QED BY <2>4, <3>2
  <2>6. \A i \in 1 .. made + 1 : Checked(plan'[i], plan', made')
    <3>1. \A i \in 1 .. made + 1 : i = made + 1 \/ i \in 1 .. made
      BY <2>1
    <3>2. ASSUME NEW i \in 1 .. made PROVE Checked(plan'[i], plan', made')
      <4>1. Checked(plan[i], plan, made)
        BY DEF PlanInv
      <4>2. Checked(plan[i], plan', made')
        BY <2>2, <4>1
      <4> QED BY <2>1, <4>2
    <3> QED BY <2>1, <2>3, <3>1, <3>2
  <2> QED BY <1>1, <2>1, <2>5, <2>6 DEF PlanInv
<1>8. ASSUME NEW i \in existing, DeletedElsewhere(i) PROVE PlanInv'
  BY <1>2, <1>8 DEF DeletedElsewhere
<1>9. CASE UNCHANGED planVars
  BY <1>2, <1>9 DEF planVars
<1> QED BY <1>3, <1>4, <1>5, <1>6, <1>7, <1>8, <1>9 DEF PlanNext

LEMMA PlanInvariant == PlanSpec => []PlanInv
BY PlanInitHolds, PlanStep, PTL DEF PlanSpec

\* The plans, lists and requests are of their types.
THEOREM PlanTypes == PlanSpec => []PlanTypeOK
<1>1. PlanInv => PlanTypeOK
  BY DEF PlanInv
<1> QED BY PlanInvariant, <1>1, PTL

LEMMA CidrOfExisting ==
  ASSUME PlanInv, NEW i \in existing
  PROVE  i \in 1 .. made /\ plan[i].cidr \in Cidrs
BY DEF PlanInv, PlanTypeOK, Plans

\* Every address of every subnet is one of the network.
THEOREM SubnetsInside == PlanSpec => []InsideNetwork
<1>1. PlanInv => InsideNetwork
  BY CidrOfExisting, WithinContains DEF InsideNetwork, PlanInv, Checked
<1> QED BY PlanInvariant, <1>1, PTL

\* Two subnets overlap only where neither page could know.
THEOREM OverlapsUnseen == PlanSpec => []OverlapsWereUnseen
<1>1. PlanInv => OverlapsWereUnseen
  <2> SUFFICES ASSUME PlanInv, NEW i \in existing, NEW j \in existing, i \in plan[j].knew
               PROVE  Addresses(plan[i].cidr) \cap Addresses(plan[j].cidr) = {}
    BY DEF OverlapsWereUnseen
  <2>1. ~HasOverlap(plan[j].cidr, plan[i].cidr)
    BY CidrOfExisting DEF PlanInv, Checked
  <2>2. Addresses(plan[j].cidr) \cap Addresses(plan[i].cidr) = {}
    BY <2>1, CidrOfExisting, NoOverlapDisjoint
  <2> QED BY <2>2
<1> QED BY PlanInvariant, <1>1, PTL

-------------------------------------------------------------------------------
(* The edit page. *)

LEMMA EditTypeInit == EditInit => EditTypeOK
BY EditAssumption DEF EditInit, EditTypeOK, Contents

\* A form on the page has been filled.
FormIsFilled == Mounted => forms \in 1 .. MaxForms

LEMMA EditTypeStep ==
  EditTypeOK /\ FormIsFilled /\ [EditNext]_editVars => (EditTypeOK /\ FormIsFilled)'
<1> SUFFICES ASSUME EditTypeOK, FormIsFilled, [EditNext]_editVars
             PROVE  EditTypeOK' /\ FormIsFilled'
  BY DEF FormIsFilled, Mounted
<1> USE EditAssumption DEF EditTypeOK, FormIsFilled, Mounted
<1>1. CASE Poll
  BY <1>1 DEF Poll, Contents
<1>2. CASE PollFails
  BY <1>2 DEF PollFails
<1>3. CASE Save
  BY <1>3 DEF Save, Saves, Contents, Mask, LockVersion
<1>4. CASE Leave
  BY <1>4 DEF Leave
<1>5. CASE Confirm
  BY <1>5 DEF Confirm
<1>6. ASSUME NEW f \in Fields, NEW v \in Values, Type(f, v)
      PROVE  EditTypeOK' /\ FormIsFilled'
  BY <1>6 DEF Type
<1>7. ASSUME NEW f \in Fields, NEW v \in Values, WriteElsewhere(f, v)
      PROVE  EditTypeOK' /\ FormIsFilled'
  BY <1>7 DEF WriteElsewhere, Contents
<1>8. ASSUME NEW s \in saves, Accept(s) PROVE EditTypeOK' /\ FormIsFilled'
  BY <1>8 DEF Accept, Answered, Saves, Contents
<1>9. ASSUME NEW s \in saves, Refuse(s) PROVE EditTypeOK' /\ FormIsFilled'
  BY <1>9 DEF Refuse, Answered, Saves
<1>10. ASSUME NEW s \in saves, Saved(s) PROVE EditTypeOK' /\ FormIsFilled'
  BY <1>10 DEF Saved
<1>11. ASSUME NEW s \in saves, SaveFails(s) PROVE EditTypeOK' /\ FormIsFilled'
  BY <1>11 DEF SaveFails
<1>12. CASE UNCHANGED editVars
  BY <1>12 DEF editVars
<1> QED BY <1>1, <1>2, <1>3, <1>4, <1>5, <1>6, <1>7, <1>8, <1>9, <1>10, <1>11, <1>12 DEF EditNext

\* The form was filled from what the record was, the poll is no older, and what the
\* user did not change in the form is what it was filled with.
ReadInOrder ==
  /\ opened.version <= polled.version /\ polled.version <= record.version
  /\ opened.version = record.version => opened = record
  /\ \A f \in Fields \ typed : form[f] = opened.fields[f]

\* A save that names the record's version, from a form filled at that version, sends
\* the record's values where the user changed none.
SavesAreRead ==
  \A s \in saves :
    /\ s.base <= s.version /\ s.version <= record.version
    /\ s.base = record.version
         => \A f \in Fields \ s.typed : s.fields[f] = record.fields[f]

EditInv == EditTypeOK /\ FormIsFilled /\ ReadInOrder /\ SavesAreRead

LEMMA EditInitHolds == EditInit => EditInv
BY EditTypeInit DEF EditInit, EditInv, FormIsFilled, Mounted, ReadInOrder, SavesAreRead,
   EditTypeOK, Contents

LEMMA EditStep == EditInv /\ [EditNext]_editVars => EditInv'
<1> SUFFICES ASSUME EditInv, [EditNext]_editVars PROVE ReadInOrder' /\ SavesAreRead'
  BY EditTypeStep DEF EditInv
<1>0. EditTypeOK'
  BY EditTypeStep DEF EditInv
<1> USE EditAssumption DEF EditInv, ReadInOrder, SavesAreRead, EditTypeOK, Contents
<1>1. CASE Poll
  BY <1>1 DEF Poll
<1>2. CASE PollFails
  BY <1>2 DEF PollFails
<1>3. CASE Save
  BY <1>3 DEF Save, LockVersion
<1>4. CASE Leave
  BY <1>4 DEF Leave
<1>5. CASE Confirm
  BY <1>5 DEF Confirm
<1>6. ASSUME NEW f \in Fields, NEW v \in Values, Type(f, v)
      PROVE  ReadInOrder' /\ SavesAreRead'
  BY <1>6 DEF Type
<1>7. ASSUME NEW f \in Fields, NEW v \in Values, WriteElsewhere(f, v)
      PROVE  ReadInOrder' /\ SavesAreRead'
  BY <1>7 DEF WriteElsewhere, Saves
<1>8. ASSUME NEW s \in saves, Accept(s) PROVE ReadInOrder' /\ SavesAreRead'
  <2>1. /\ record' \in Contents /\ record'.version = record.version + 1
        /\ UNCHANGED <<polled, opened, form, typed>>
    BY <1>0, <1>8 DEF Accept
  <2>2. \A r \in saves' :
          \E q \in saves : r.base = q.base /\ r.version = q.version
    BY <1>8 DEF Accept, Answered, Saves
  <2> QED BY <2>1, <2>2 DEF Saves
<1>9. ASSUME NEW s \in saves, Refuse(s) PROVE ReadInOrder' /\ SavesAreRead'
  BY <1>9 DEF Refuse, Answered, Saves
<1>10. ASSUME NEW s \in saves, Saved(s) PROVE ReadInOrder' /\ SavesAreRead'
  BY <1>10 DEF Saved
<1>11. ASSUME NEW s \in saves, SaveFails(s) PROVE ReadInOrder' /\ SavesAreRead'
  BY <1>11 DEF SaveFails
<1>12. CASE UNCHANGED editVars
  BY <1>12 DEF editVars
<1> QED BY <1>1, <1>2, <1>3, <1>4, <1>5, <1>6, <1>7, <1>8, <1>9, <1>10, <1>11, <1>12 DEF EditNext

LEMMA EditInvariant == EditSpec => []EditInv
BY EditInitHolds, EditStep, PTL DEF EditSpec

\* The form, the record and the saves are of their types.
THEOREM EditTypes == EditSpec => []EditTypeOK
<1>1. EditInv => EditTypeOK
  BY DEF EditInv
<1> QED BY EditInvariant, <1>1, PTL

\* A save from a form filled at the version it names changes only what was typed.
LEMMA SaveKeepsOthers ==
  ASSUME EditInv, NEW s \in saves, Accepted(s), NEW f \in Fields,
         f \notin s.typed, record'.fields[f] # record.fields[f]
  PROVE  s.base < s.version
<1>1. /\ s \in Saves /\ s.base \in 1 .. MaxVersion /\ s.version \in 1 .. MaxVersion
      /\ s.base <= s.version /\ record.version \in 1 .. MaxVersion
  BY EditAssumption DEF EditInv, EditTypeOK, SavesAreRead, Saves, Contents
<1>2. s.version = record.version /\ record'.fields[f] \in {s.fields[f], record.fields[f]}
  BY <1>1 DEF Accepted, Accept
<1>3. s.base # record.version
  BY <1>2 DEF EditInv, SavesAreRead
<1> QED BY <1>1, <1>2, <1>3

\* With no poll between the fill and the save, nothing of the others' is reverted.
THEOREM OnlyPolledReverted == EditSpec => OnlyPolledIsReverted
<1>1. EditInv
        => [\A s \in saves, f \in Fields :
              Accepted(s) /\ f \notin s.typed /\ record'.fields[f] # record.fields[f]
                => s.base < s.version]_editVars
  BY SaveKeepsOthers
<1> QED BY EditInvariant, <1>1, PTL DEF OnlyPolledIsReverted

-------------------------------------------------------------------------------
(* The rules of a security group. *)

Bounded == UNION {[1 .. n -> Rules] : n \in 0 .. MaxRules}

LEMMA BoundedSeqs ==
  /\ \A s \in Bounded : s \in Seq(Rules) /\ Len(s) \in 0 .. MaxRules
  /\ \A s \in Seq(Rules) : Len(s) <= MaxRules => s \in Bounded
<1> USE MaxRulesAssumption
<1>1. ASSUME NEW s \in Bounded PROVE s \in Seq(Rules) /\ Len(s) \in 0 .. MaxRules
  <2>1. PICK n \in 0 .. MaxRules : s \in [1 .. n -> Rules]
    BY DEF Bounded
  <2> QED BY <2>1
<1>2. ASSUME NEW s \in Seq(Rules), Len(s) <= MaxRules PROVE s \in Bounded
  <2>1. s \in [1 .. Len(s) -> Rules] /\ Len(s) \in 0 .. MaxRules
    BY <1>2
  <2> QED BY <2>1 DEF Bounded
<1> QED BY <1>1, <1>2

\* What the dialogs make of a list is a list again.
LEMMA EditedIsList ==
  ASSUME NEW s \in Bounded, NEW g \in Dialogs, g.kind # "none", NEW r,
         g.kind # "delete" => r \in Rules,
         g.kind \in {"edit", "delete"} => g.index \in 1 .. MaxRules
  PROVE  Edited(s, g, r) \in Seq(Rules)
<1>1. s \in Seq(Rules) /\ Len(s) \in Nat
  BY BoundedSeqs
<1>2. CASE g.kind = "add"
  BY <1>1, <1>2 DEF Edited
<1>3. CASE g.kind = "edit"
  <2>1. r \in Rules /\ g.index \in Nat \ {0}
    BY <1>3, MaxRulesAssumption
  <2>2. CASE g.index <= Len(s)
    <3>1. Edited(s, g, r) = [s EXCEPT ![g.index] = r]
      BY <1>3, <2>2 DEF Edited, ReplaceAt
    <3>2. g.index \in 1 .. Len(s)
      BY <1>1, <2>1, <2>2
    <3>3. [s EXCEPT ![g.index] = r] \in Seq(Rules)
      BY <1>1, <2>1, <3>2
    <3> QED BY <3>1, <3>3
  <2>3. CASE ~(g.index <= Len(s))
    <3>1. Edited(s, g, r) = Append(s, r)
      BY <1>3, <2>3 DEF Edited
    <3> QED BY <1>1, <2>1, <3>1
  <2> QED BY <2>2, <2>3
<1>4. CASE g.kind = "delete"
  <2>1. CASE g.index <= Len(s)
    <3>1. Edited(s, g, r) = SubSeq(s, 1, g.index - 1) \o SubSeq(s, g.index + 1, Len(s))
      BY <1>4, <2>1 DEF Edited, RemoveAt
    <3>2. g.index \in Nat \ {0}
      BY <1>4, MaxRulesAssumption
    <3>3. SubSeq(s, 1, g.index - 1) \in Seq(Rules)
      BY <1>1, <2>1, <3>2
    <3>4. SubSeq(s, g.index + 1, Len(s)) \in Seq(Rules)
      BY <1>1, <2>1, <3>2
    <3> QED BY <3>1, <3>3, <3>4
  <2>2. CASE ~(g.index <= Len(s))
    <3>1. Edited(s, g, r) = s
      BY <1>4, <2>2 DEF Edited
    <3> QED BY <1>1, <3>1
  <2> QED BY <2>1, <2>2
<1> QED BY <1>2, <1>3, <1>4 DEF Dialogs

\* A dialog that is open is of a direction, and of a rule unless it adds one; an update
\* is of the page that sent it.
Addressed ==
  /\ \A p \in Pages : dialog[p] # NoDialog =>
       /\ dialog[p].kind # "none" /\ dialog[p].dir \in Dirs
       /\ dialog[p].kind # "add" => dialog[p].index \in 1 .. MaxRules
  /\ \A u \in Updates : update[u].at # "unused" => update[u].page \in Pages

RulesInv == TypeOK /\ Addressed

Fetches == [at : {"idle", "asked", "answered"}, by : Updates \cup {None},
            lists : Lists, missing : SUBSET Pages]

UpdateCalls == [at : {"unused", "sent", "applied", "settling"}, page : Pages \cup {None},
                lists : Lists, rule : Rules \cup {None}, of : Dialogs]

LEMMA TypesByName ==
  TypeOK <=>
    /\ rules \in Lists /\ cache \in [Pages -> Lists] /\ failing \in [Pages -> BOOLEAN]
    /\ fetch \in [Pages -> Fetches] /\ dialog \in [Pages -> Dialogs]
    /\ pending \in [Pages -> Updates \cup {None}] /\ update \in [Updates -> UpdateCalls]
    /\ unseen \in [Pages -> SUBSET Pages] /\ astray \subseteq Pages
BY DEF TypeOK, Fetches, UpdateCalls

LEMMA NoListsType == NoLists \in Lists
<1> DEFINE e == <<>>
<1>1. e \in Seq(Rules) /\ Len(e) = 0
  OBVIOUS
<1>2. NoLists = [d \in Dirs |-> e]
  BY DEF NoLists
<1>3. Len(e) <= MaxRules
  BY <1>1, MaxRulesAssumption
<1> HIDE DEF e
<1>4. e \in Bounded
  BY <1>1, <1>3, BoundedSeqs
<1> QED BY <1>2, <1>4 DEF Lists, Bounded

LEMMA NoDialogType == NoDialog \in Dialogs
BY MaxRulesAssumption DEF NoDialog, Dialogs

LEMMA FetchTypes ==
  /\ IdleFetch \in Fetches /\ \A u \in Updates \cup {None} : AskedBy(u) \in Fetches
  /\ \A f \in Fetches, l \in Lists, m \in SUBSET Pages :
       /\ [f EXCEPT !.at = "answered", !.lists = l] \in Fetches
       /\ [f EXCEPT !.missing = m] \in Fetches
BY NoListsType DEF Fetches, IdleFetch, AskedBy

LEMMA DialogMet ==
  ASSUME NEW g \in Dialogs, NEW m \in SUBSET Pages
  PROVE  /\ [g EXCEPT !.met = m] \in Dialogs
         /\ [g EXCEPT !.met = m].kind = g.kind /\ [g EXCEPT !.met = m].dir = g.dir
         /\ [g EXCEPT !.met = m].index = g.index
BY DEF Dialogs

LEMMA CallTypes ==
  ASSUME NEW c \in UpdateCalls
  PROVE  /\ \A a \in {"applied", "settling"} :
              /\ [c EXCEPT !.at = a] \in UpdateCalls /\ [c EXCEPT !.at = a].page = c.page
         /\ \A m \in SUBSET Pages :
              /\ [c EXCEPT !.of.met = m] \in UpdateCalls
              /\ [c EXCEPT !.of.met = m].at = c.at /\ [c EXCEPT !.of.met = m].page = c.page
<1>1. c.of \in Dialogs
  BY DEF UpdateCalls
<1>2. \A m \in SUBSET Pages : [c EXCEPT !.of.met = m] = [c EXCEPT !.of = [c.of EXCEPT !.met = m]]
  BY DEF UpdateCalls
<1>3. \A m \in SUBSET Pages : [c.of EXCEPT !.met = m] \in Dialogs
  BY <1>1, DialogMet
<1>4. \A g \in Dialogs :
        /\ [c EXCEPT !.of = g] \in UpdateCalls
        /\ [c EXCEPT !.of = g].at = c.at /\ [c EXCEPT !.of = g].page = c.page
  BY DEF UpdateCalls
<1> QED BY <1>2, <1>3, <1>4 DEF UpdateCalls

LEMMA NoUpdateType == NoUpdate \in UpdateCalls /\ NoUpdate.at = "unused"
BY NoListsType, NoDialogType DEF NoUpdate, UpdateCalls

\* What remains of an update once it is applied.
Done(p, k) == [NoUpdate EXCEPT !.at = "applied", !.page = p, !.of.kind = k]

LEMMA DoneType ==
  ASSUME NEW p \in Pages, NEW k \in {"none", "add", "edit", "delete"}
  PROVE  Done(p, k) \in UpdateCalls /\ Done(p, k).page = p
<1> DEFINE g == [NoDialog EXCEPT !.kind = k]
<1>1. g \in Dialogs
  BY MaxRulesAssumption DEF NoDialog, Dialogs
<1>2. NoUpdate.of = NoDialog
  BY DEF NoUpdate
<1>3. Done(p, k) = [NoUpdate EXCEPT !.at = "applied", !.page = p, !.of = g]
  BY <1>2 DEF Done
<1> HIDE DEF g
<1> QED BY <1>1, <1>3, NoListsType DEF UpdateCalls, NoUpdate

LEMMA RulesInit == Init => RulesInv
BY TypesByName, NoListsType, NoDialogType, NoUpdateType, FetchTypes DEF Init, RulesInv, Addressed

\* What an update that is applied does to the pages.
LEMMA ApplyTypes ==
  ASSUME RulesInv, NEW u \in Updates, Apply(u)
  PROVE  /\ rules' \in Lists /\ cache' \in [Pages -> Lists] /\ failing' \in [Pages -> BOOLEAN]
         /\ update[u].page \in Pages
         /\ fetch' \in [Pages -> Fetches]
         /\ dialog' \in [Pages -> Dialogs]
         /\ \A p \in Pages : dialog'[p] # NoDialog =>
              /\ dialog'[p].kind # "none" /\ dialog'[p].dir \in Dirs
              /\ dialog'[p].kind # "add" => dialog'[p].index \in 1 .. MaxRules
         /\ unseen' \in [Pages -> SUBSET Pages]
<1> USE TypesByName DEF RulesInv, Addressed
<1>1. /\ update[u].page \in Pages /\ rules' = update[u].lists /\ cache' = cache
      /\ failing' = failing /\ update[u] \in UpdateCalls
  BY DEF Apply
<1>2. rules' \in Lists
  BY <1>1 DEF UpdateCalls
<1>3. unseen' \in [Pages -> SUBSET Pages]
  BY <1>1 DEF Apply
<1>4. fetch' \in [Pages -> Fetches]
  <2>1. fetch' = [q \in Pages |->
          IF fetch[q].at = "answered"
          THEN [fetch[q] EXCEPT !.missing = fetch[q].missing \cup {update[u].page}]
          ELSE fetch[q]]
    BY DEF Apply
  <2>2. \A q \in Pages : fetch[q] \in Fetches /\ fetch[q].missing \cup {update[u].page} \in SUBSET Pages
    BY <1>1 DEF Fetches
  <2> QED BY <2>1, <2>2, FetchTypes
<1>5. dialog' = [q \in Pages |->
        IF dialog[q] = NoDialog THEN NoDialog
        ELSE [dialog[q] EXCEPT !.met = dialog[q].met \cup {update[u].page}]]
  BY DEF Apply
<1>6. \A q \in Pages : dialog[q] \in Dialogs /\ dialog[q].met \cup {update[u].page} \in SUBSET Pages
  BY <1>1 DEF Dialogs
<1>7. dialog' \in [Pages -> Dialogs]
  BY <1>5, <1>6, DialogMet
<1>8. ASSUME NEW p \in Pages, dialog'[p] # NoDialog
      PROVE  /\ dialog'[p].kind # "none" /\ dialog'[p].dir \in Dirs
             /\ dialog'[p].kind # "add" => dialog'[p].index \in 1 .. MaxRules
  <2>1. /\ dialog[p] # NoDialog
        /\ dialog'[p] = [dialog[p] EXCEPT !.met = dialog[p].met \cup {update[u].page}]
    BY <1>5, <1>8
  <2>2. /\ dialog'[p].kind = dialog[p].kind /\ dialog'[p].dir = dialog[p].dir
        /\ dialog'[p].index = dialog[p].index
    BY <1>6, <2>1, DialogMet
  <2> QED BY <2>1, <2>2
<1> QED BY <1>1, <1>2, <1>3, <1>4, <1>7, <1>8

LEMMA OvertakenTypes ==
  ASSUME RulesInv, NEW u \in Updates, update[u].page \in Pages
  PROVE  /\ Overtaken(u) \in [Updates -> UpdateCalls]
         /\ \A v \in Updates : /\ Overtaken(u)[v].at = update[v].at
                               /\ Overtaken(u)[v].page = update[v].page
<1>1. \A v \in Updates : update[v] \in UpdateCalls /\ update[v].of.met \cup {update[u].page} \in SUBSET Pages
  BY TypesByName DEF RulesInv, UpdateCalls, Dialogs
<1>2. \A v \in Updates :
        Overtaken(u)[v] \in
          {update[v], [update[v] EXCEPT !.of.met = update[v].of.met \cup {update[u].page}]}
  BY DEF Overtaken
<1>3. \A v \in Updates : /\ Overtaken(u)[v] \in UpdateCalls
                         /\ Overtaken(u)[v].at = update[v].at
                         /\ Overtaken(u)[v].page = update[v].page
  <2> SUFFICES ASSUME NEW v \in Updates
               PROVE  /\ Overtaken(u)[v] \in UpdateCalls
                      /\ Overtaken(u)[v].at = update[v].at
                      /\ Overtaken(u)[v].page = update[v].page
    OBVIOUS
  <2> DEFINE c == [update[v] EXCEPT !.of.met = update[v].of.met \cup {update[u].page}]
  <2>1. c \in UpdateCalls /\ c.at = update[v].at /\ c.page = update[v].page
    BY <1>1, CallTypes
  <2>2. Overtaken(u)[v] \in {update[v], c}
    BY <1>2
  <2> HIDE DEF c
  <2> QED BY <1>1, <2>1, <2>2
<1>4. DOMAIN Overtaken(u) = Updates /\ Overtaken(u) = [v \in Updates |-> Overtaken(u)[v]]
  BY DEF Overtaken
<1> QED BY <1>3, <1>4

LEMMA ServedFetch ==
  ASSUME NEW p \in Pages, FetchServed(p)
  PROVE  fetch' = [fetch EXCEPT ![p] = [fetch[p] EXCEPT !.at = "answered", !.lists = rules]]
BY DEF FetchServed

LEMMA RulesStep == RulesInv /\ [Next]_vars => RulesInv'
<1> SUFFICES ASSUME RulesInv, [Next]_vars PROVE RulesInv'
  OBVIOUS
<1>0. /\ RulesInv' <=> TypeOK' /\ Addressed'
      /\ TypeOK' <=>
           /\ rules' \in Lists /\ cache' \in [Pages -> Lists] /\ failing' \in [Pages -> BOOLEAN]
           /\ fetch' \in [Pages -> Fetches] /\ dialog' \in [Pages -> Dialogs]
           /\ pending' \in [Pages -> Updates \cup {None}] /\ update' \in [Updates -> UpdateCalls]
           /\ unseen' \in [Pages -> SUBSET Pages] /\ astray' \subseteq Pages
  BY DEF RulesInv, TypeOK, Fetches, UpdateCalls
<1> USE <1>0, TypesByName DEF RulesInv, Addressed
<1>1. ASSUME NEW p \in Pages, Polls(p) PROVE RulesInv'
  BY <1>1, FetchTypes DEF Polls
<1>2. ASSUME NEW p \in Pages, FetchServed(p) PROVE RulesInv'
  <2>1. fetch' = [fetch EXCEPT ![p] = [fetch[p] EXCEPT !.at = "answered", !.lists = rules]]
    BY <1>2, ServedFetch
  <2>2. [fetch[p] EXCEPT !.at = "answered", !.lists = rules] \in Fetches
    <3>1. fetch[p] \in Fetches /\ rules \in Lists
      OBVIOUS
    <3> QED BY <3>1 DEF Fetches
  <2> QED BY <1>2, <2>1, <2>2 DEF FetchServed
<1>3. ASSUME NEW p \in Pages, FetchArrives(p) PROVE RulesInv'
  <2>1. fetch[p].lists \in Lists /\ fetch[p].missing \in SUBSET Pages
    BY DEF Fetches
  <2> QED BY <1>3, <2>1, FetchTypes DEF FetchArrives
<1>4. ASSUME NEW p \in Pages, FetchFails(p) PROVE RulesInv'
  BY <1>4, FetchTypes DEF FetchFails
<1>5. ASSUME NEW p \in Pages, NEW d \in Dirs, NEW k \in {"add", "edit", "delete"},
             NEW i \in 0 .. MaxRules, k # "add" => i \in 1 .. MaxRules,
             OpensDialog(p, k, d, i)
      PROVE  RulesInv'
  <2>1. cache[p][d] \in Bounded
    BY DEF Lists, Bounded
  <2>2. cache[p][d] \in Seq(Rules)
    BY <2>1, BoundedSeqs
  <2>3. k # "add" => cache[p][d][i] \in Rules
    BY <1>5, <2>2, MaxRulesAssumption DEF OpensDialog
  <2> DEFINE g == [kind |-> k, dir |-> d, index |-> i,
                   target |-> IF k = "add" THEN None ELSE cache[p][d][i], met |-> unseen[p]]
  <2>4. g \in Dialogs
    BY <2>3 DEF Dialogs
  <2>5. dialog' = [dialog EXCEPT ![p] = g]
    BY <1>5 DEF OpensDialog
  <2>6. g.kind = k /\ g.dir = d /\ g.index = i
    OBVIOUS
  <2> HIDE DEF g
  <2> QED BY <1>5, <2>4, <2>5, <2>6 DEF OpensDialog
<1>6. ASSUME NEW p \in Pages, ClosesDialog(p) PROVE RulesInv'
  BY <1>6, NoDialogType DEF ClosesDialog
<1>7. ASSUME NEW p \in Pages, ClosesEarly(p) PROVE RulesInv'
  BY <1>7, NoDialogType DEF ClosesEarly
<1>8. ASSUME NEW p \in Pages, NEW u \in Updates, NEW r \in Rules \cup {None}, Submits(p, u, r)
      PROVE  RulesInv'
  <2> DEFINE g == dialog[p]
             new == Edited(cache[p][g.dir], g, r)
             call == [at |-> "sent", page |-> p, lists |-> [cache[p] EXCEPT ![g.dir] = new],
                      rule |-> r, of |-> g]
  <2>1. g \in Dialogs /\ g.kind # "none" /\ g.dir \in Dirs
        /\ (g.kind # "add" => g.index \in 1 .. MaxRules)
    BY <1>8 DEF Submits
  <2>2. cache[p] \in Lists /\ cache[p][g.dir] \in Bounded
    BY <2>1 DEF Lists, Bounded
  <2>3. g.kind # "delete" => r \in Rules
    BY <1>8 DEF Submits
  <2>4. new \in Seq(Rules)
    BY <2>1, <2>2, <2>3, EditedIsList
  <2>5. Len(new) <= MaxRules
    BY <1>8 DEF Submits
  <2>6. new \in Bounded
    BY <2>4, <2>5, BoundedSeqs
  <2>7. update' = [update EXCEPT ![u] = call]
    BY <1>8 DEF Submits
  <2> HIDE DEF new
  <2>8. [cache[p] EXCEPT ![g.dir] = new] \in Lists
    BY <2>1, <2>2, <2>6 DEF Lists, Bounded
  <2>9. call \in UpdateCalls /\ call.page = p
    BY <2>1, <2>8 DEF UpdateCalls
  <2> HIDE DEF call
  <2> QED BY <1>8, <2>7, <2>9 DEF Submits
<1>9. ASSUME NEW u \in Updates, Serve(u) PROVE RulesInv'
  <2>1. Apply(u)
    BY <1>9 DEF Serve
  <2>2. update[u].page \in Pages
    BY <2>1, ApplyTypes
  <2>3. update[u].of.kind \in {"none", "add", "edit", "delete"}
    BY DEF UpdateCalls, Dialogs
  <2>4. /\ update' = [Overtaken(u) EXCEPT ![u] = Done(update[u].page, update[u].of.kind)]
        /\ UNCHANGED <<pending, astray>>
    BY <1>9 DEF Serve, Done
  <2>5. update' \in [Updates -> UpdateCalls]
    BY <2>2, <2>3, <2>4, DoneType, OvertakenTypes
  <2>6. \A v \in Updates : update'[v].at # "unused" => update'[v].page \in Pages
    <3>1. update'[u].page \in Pages
      BY <2>2, <2>3, <2>4, DoneType, OvertakenTypes
    <3>2. \A v \in Updates \ {u} : update'[v] = Overtaken(u)[v]
      BY <2>2, <2>4, OvertakenTypes
    <3> QED BY <2>2, <3>1, <3>2, OvertakenTypes
  <2> QED BY <2>1, <2>4, <2>5, <2>6, ApplyTypes
<1>10. ASSUME NEW u \in Updates, Refused(u) PROVE RulesInv'
  BY <1>10, NoUpdateType DEF Refused, Released
<1>11. ASSUME NEW u \in Updates, AnswerLost(u) PROVE RulesInv'
  <2>1. Apply(u)
    BY <1>11 DEF AnswerLost
  <2>2. update[u].page \in Pages
    BY <2>1, ApplyTypes
  <2>3. update' = [Overtaken(u) EXCEPT ![u] = NoUpdate]
        /\ pending' \in [Pages -> Updates \cup {None}] /\ astray' \subseteq Pages
    BY <1>11, <2>2 DEF AnswerLost, Released
  <2>4. update' \in [Updates -> UpdateCalls]
    BY <2>2, <2>3, NoUpdateType, OvertakenTypes
  <2>5. \A v \in Updates : update'[v].at # "unused" => update'[v].page \in Pages
    BY <2>2, <2>3, NoUpdateType, OvertakenTypes
  <2> QED BY <2>1, <2>3, <2>4, <2>5, ApplyTypes
<1>12. ASSUME NEW u \in Updates, AnswerArrives(u) PROVE RulesInv'
  <2>1. update' = [update EXCEPT ![u] = [update[u] EXCEPT !.at = "settling"]]
    BY <1>12 DEF AnswerArrives
  <2>2. update' \in [Updates -> UpdateCalls] /\ \A v \in Updates : update'[v].page = update[v].page
    BY <2>1, CallTypes
  <2>3. /\ fetch' = [fetch EXCEPT ![update[u].page] = AskedBy(u)]
        /\ update[u].at = "applied"
        /\ UNCHANGED <<rules, cache, failing, dialog, pending, unseen, astray>>
    BY <1>12 DEF AnswerArrives
  <2>4. \A v \in Updates : v # u => update'[v] = update[v]
    BY <2>1
  <2> QED BY <2>2, <2>3, <2>4, FetchTypes
<1>13. ASSUME NEW u \in Updates, Settles(u) PROVE RulesInv'
  <2>1. update' = [update EXCEPT ![u] = NoUpdate] /\ UNCHANGED <<rules, cache, failing, fetch, unseen, astray>>
    BY <1>13 DEF Settles
  <2>2. \/ dialog' = [dialog EXCEPT ![update[u].page] = NoDialog] \/ dialog' = dialog
    BY <1>13 DEF Settles
  <2>3. \/ pending' = [pending EXCEPT ![update[u].page] = None] \/ pending' = pending
    BY <1>13 DEF Settles
  <2> QED BY <2>1, <2>2, <2>3, NoUpdateType, NoDialogType
<1>14. CASE UNCHANGED vars
  BY <1>14 DEF vars, pageVars
<1> QED
  <2>1. ASSUME NEW p \in Pages, NEW d \in Dirs, OpensDialog(p, "add", d, 0) PROVE RulesInv'
    BY <1>5, <2>1, MaxRulesAssumption
  <2>2. ASSUME NEW p \in Pages, NEW k \in {"edit", "delete"}, NEW d \in Dirs,
               NEW i \in 1 .. MaxRules, OpensDialog(p, k, d, i)
        PROVE  RulesInv'
    BY <1>5, <2>2, MaxRulesAssumption
  <2> QED BY <1>1, <1>2, <1>3, <1>4, <1>6, <1>7, <1>8, <1>9, <1>10, <1>11, <1>12, <1>13, <1>14, <2>1, <2>2
          DEF Next

\* The lists stay lists of rules, whatever indexes the dialogs hold.
THEOREM RuleTypes == Spec => []TypeOK
<1>1. RulesInv => TypeOK
  BY DEF RulesInv
<1> QED BY RulesInit, RulesStep, <1>1, PTL DEF Spec

\* An update of a page that is not astray has the page's dialog waiting for it.
OwnPending ==
  \A p \in Pages \ astray, u \in Updates :
    update[u].at # "unused" /\ update[u].page = p => pending[p] = u /\ dialog[p] # NoDialog

\* Such a page shows data without its own update only until the fetch that the update's
\* answer asks for has ended.
StaleIsPending ==
  \A p \in Pages \ astray :
    p \in unseen[p] /\ ~failing[p] =>
      \E u \in Updates :
        /\ update[u].page = p
        /\ update[u].at = "applied" \/ (update[u].at = "settling" /\ fetch[p].by = u)

\* An answer on its way lacks the page's own update only until the update's answer drops it.
StaleAnswers ==
  /\ \A p \in Pages \ astray :
       p \in fetch[p].missing =>
         \E u \in Updates : update[u].page = p /\ update[u].at = "applied"
  /\ \A p \in Pages :
       /\ fetch[p].at # "answered" => fetch[p].missing = {}
       /\ fetch[p].at = "idle" => fetch[p].by = None

Writes == OwnPending /\ StaleIsPending /\ StaleAnswers

WritesInv == RulesInv /\ Writes

LEMMA WritesInit == Init => WritesInv
BY RulesInit DEF Init, WritesInv, Writes, OwnPending, StaleIsPending, StaleAnswers, IdleFetch, NoUpdate

\* What a step that applies an update leaves of the other updates and of the fetches.
LEMMA ApplyKeeps ==
  ASSUME RulesInv, NEW u \in Updates, Apply(u)
  PROVE  /\ \A p \in Pages : fetch'[p].by = fetch[p].by /\ fetch'[p].at = fetch[p].at
         /\ \A p \in Pages : fetch[p].at # "answered" => fetch'[p].missing = fetch[p].missing
         /\ \A p \in Pages, q \in Pages :
              /\ p # update[u].page /\ p \in unseen'[q] => p \in unseen[q]
              /\ p # update[u].page /\ p \in fetch'[q].missing => p \in fetch[q].missing
         /\ \A p \in Pages : dialog[p] # NoDialog => dialog'[p] # NoDialog
<1> USE TypesByName DEF RulesInv
<1>1. \A p \in Pages : unseen'[p] = unseen[p] \cup {update[u].page}
  BY DEF Apply
<1>2. \A p \in Pages :
        fetch'[p] = IF fetch[p].at = "answered"
                    THEN [fetch[p] EXCEPT !.missing = fetch[p].missing \cup {update[u].page}]
                    ELSE fetch[p]
  BY DEF Apply
<1>3. \A p \in Pages :
        /\ fetch'[p].by = fetch[p].by /\ fetch'[p].at = fetch[p].at
        /\ fetch'[p].missing \in {fetch[p].missing, fetch[p].missing \cup {update[u].page}}
        /\ fetch[p].at # "answered" => fetch'[p].missing = fetch[p].missing
  BY <1>2 DEF Fetches
<1>4. ASSUME NEW p \in Pages, dialog[p] # NoDialog PROVE dialog'[p] # NoDialog
  <2>1. dialog'[p] = [dialog[p] EXCEPT !.met = dialog[p].met \cup {update[u].page}]
    BY <1>4 DEF Apply
  <2>2. dialog[p] \in Dialogs /\ update[u].page \in Pages
    BY ApplyTypes
  <2>3. dialog[p].met \cup {update[u].page} \in SUBSET Pages
    BY <2>2 DEF Dialogs
  <2>4. dialog'[p].kind = dialog[p].kind
    BY <2>1, <2>2, <2>3, DialogMet
  <2>5. NoDialog.kind = "none" /\ dialog[p].kind # "none"
    BY <1>4 DEF NoDialog, Addressed
  <2> QED BY <2>4, <2>5
<1> QED BY <1>1, <1>3, <1>4

LEMMA WritesStep == WritesInv /\ [Next]_vars => WritesInv'
<1> SUFFICES ASSUME WritesInv, [Next]_vars
             PROVE  Writes'
  BY RulesStep DEF WritesInv
<1> USE RuleNamesAssumption, TypesByName
    DEF WritesInv, Writes, RulesInv, OwnPending, StaleIsPending, StaleAnswers
<1>1. ASSUME NEW p \in Pages, Polls(p) PROVE Writes'
  <2>1. /\ fetch'[p].at = "asked" /\ fetch'[p].by = None /\ fetch'[p].missing = {}
        /\ \A q \in Pages \ {p} : fetch'[q] = fetch[q]
        /\ UNCHANGED <<failing, dialog, pending, update, unseen, astray>>
    BY <1>1 DEF Polls, AskedBy, IdleFetch
  <2> QED BY <1>1, <2>1 DEF Polls
<1>2. ASSUME NEW p \in Pages, FetchServed(p) PROVE Writes'
  <2>1. /\ fetch'[p].at = "answered" /\ fetch'[p].by = fetch[p].by
        /\ fetch'[p].missing = fetch[p].missing
        /\ \A q \in Pages \ {p} : fetch'[q] = fetch[q]
        /\ UNCHANGED <<failing, dialog, pending, update, unseen, astray>>
    <3>1. fetch' = [fetch EXCEPT ![p] = [fetch[p] EXCEPT !.at = "answered", !.lists = rules]]
      BY <1>2, ServedFetch
    <3> DEFINE c == [fetch[p] EXCEPT !.at = "answered", !.lists = rules]
    <3>2. c.at = "answered" /\ c.by = fetch[p].by /\ c.missing = fetch[p].missing
      <4>1. fetch[p] \in Fetches
        OBVIOUS
      <4> QED BY <4>1 DEF Fetches
    <3> HIDE DEF c
    <3>3. fetch'[p] = c /\ \A q \in Pages \ {p} : fetch'[q] = fetch[q]
      BY <3>1 DEF c
    <3> QED BY <1>2, <3>2, <3>3 DEF FetchServed
  <2> QED BY <2>1
<1>3. ASSUME NEW p \in Pages, FetchArrives(p) PROVE Writes'
  <2>1. /\ fetch'[p].at = "idle" /\ fetch'[p].by = None /\ fetch'[p].missing = {}
        /\ \A q \in Pages \ {p} : fetch'[q] = fetch[q]
        /\ unseen'[p] = fetch[p].missing
        /\ \A q \in Pages \ {p} : unseen'[q] = unseen[q] /\ failing'[q] = failing[q]
        /\ UNCHANGED <<dialog, pending, update, astray>>
    BY <1>3 DEF FetchArrives, IdleFetch
  <2> QED BY <2>1
<1>4. ASSUME NEW p \in Pages, FetchFails(p) PROVE Writes'
  <2>1. /\ fetch'[p].at = "idle" /\ fetch'[p].by = None /\ fetch'[p].missing = {}
        /\ \A q \in Pages \ {p} : fetch'[q] = fetch[q] /\ failing'[q] = failing[q]
        /\ failing'[p] = TRUE
        /\ UNCHANGED <<dialog, pending, update, unseen, astray>>
    BY <1>4 DEF FetchFails, IdleFetch
  <2> QED BY <2>1
<1>5. ASSUME NEW p \in Pages, NEW d \in Dirs, NEW k \in {"add", "edit", "delete"},
             NEW i \in 0 .. MaxRules, OpensDialog(p, k, d, i)
      PROVE  Writes'
  <2>1. /\ dialog[p] = NoDialog /\ \A q \in Pages \ {p} : dialog'[q] = dialog[q]
        /\ UNCHANGED <<failing, fetch, pending, update, unseen, astray>>
    BY <1>5 DEF OpensDialog
  <2> QED BY <2>1
<1>6. ASSUME NEW p \in Pages, ClosesDialog(p) PROVE Writes'
  <2>1. /\ pending[p] = None /\ \A q \in Pages \ {p} : dialog'[q] = dialog[q]
        /\ UNCHANGED <<failing, fetch, pending, update, unseen, astray>>
    BY <1>6 DEF ClosesDialog
  <2> QED BY <2>1
<1>7. ASSUME NEW p \in Pages, ClosesEarly(p) PROVE Writes'
  <2>1. /\ astray' = astray \cup {p}
        /\ \A q \in Pages \ {p} : dialog'[q] = dialog[q] /\ pending'[q] = pending[q]
        /\ UNCHANGED <<failing, fetch, update, unseen>>
    BY <1>7 DEF ClosesEarly
  <2> QED BY <2>1
<1>8. ASSUME NEW p \in Pages, NEW u \in Updates, NEW r \in Rules \cup {None}, Submits(p, u, r)
      PROVE  Writes'
  <2>1. /\ dialog[p] # NoDialog /\ pending[p] = None /\ update[u].at = "unused"
        /\ update'[u].at = "sent" /\ update'[u].page = p
        /\ \A v \in Updates \ {u} : update'[v] = update[v]
        /\ pending'[p] = u /\ \A q \in Pages \ {p} : pending'[q] = pending[q]
        /\ UNCHANGED <<failing, fetch, dialog, unseen, astray>>
    BY <1>8 DEF Submits, NoUpdate
  <2> QED BY <2>1
<1>9. ASSUME NEW u \in Updates, Serve(u) PROVE Writes'
  <2>1. Apply(u) /\ update[u].page \in Pages /\ update[u].at = "sent" /\ failing' = failing
    BY <1>9, ApplyTypes DEF Serve, Apply
  <2>2. update[u].of.kind \in {"none", "add", "edit", "delete"}
    BY DEF UpdateCalls, Dialogs
  <2>3. /\ update' = [Overtaken(u) EXCEPT ![u] = Done(update[u].page, update[u].of.kind)]
        /\ UNCHANGED <<pending, astray>>
    BY <1>9 DEF Serve, Done
  <2>4. /\ update'[u].page = update[u].page /\ update'[u].at = "applied"
        /\ \A v \in Updates \ {u} :
             update'[v].at = update[v].at /\ update'[v].page = update[v].page
    <3>1. Overtaken(u) \in [Updates -> UpdateCalls]
      BY <2>1, OvertakenTypes
    <3>2. /\ update'[u] = Done(update[u].page, update[u].of.kind)
          /\ \A v \in Updates \ {u} : update'[v] = Overtaken(u)[v]
      BY <2>3, <3>1
    <3>3. Done(update[u].page, update[u].of.kind).at = "applied"
      BY DEF Done, NoUpdate
    <3> QED BY <2>1, <2>2, <3>2, <3>3, DoneType, OvertakenTypes
  <2>5. OwnPending'
    BY <2>1, <2>3, <2>4, ApplyKeeps
  <2>6. StaleIsPending'
    <3> SUFFICES ASSUME NEW p \in Pages \ astray', p \in unseen'[p], ~failing'[p]
                 PROVE  \E v \in Updates :
                        /\ update'[v].page = p
                        /\ \/ update'[v].at = "applied"
                           \/ update'[v].at = "settling" /\ fetch'[p].by = v
      OBVIOUS
    <3>1. CASE p = update[u].page
      BY <2>1, <2>3, <2>4, <3>1
    <3>2. CASE p # update[u].page
      <4>1. p \in Pages \ astray /\ p \in unseen[p] /\ ~failing[p] /\ fetch'[p].by = fetch[p].by
        BY <2>1, <2>3, <2>4, <3>2, ApplyKeeps
      <4>2. PICK v \in Updates : /\ update[v].page = p
                                /\ \/ update[v].at = "applied"
                                   \/ update[v].at = "settling" /\ fetch[p].by = v
        BY <4>1
      <4> QED BY <2>1, <2>3, <2>4, <4>1, <4>2
    <3> QED BY <3>1, <3>2
  <2>7. StaleAnswers'
    <3>1. ASSUME NEW p \in Pages \ astray', p \in fetch'[p].missing
          PROVE  \E v \in Updates : update'[v].page = p /\ update'[v].at = "applied"
      <4>1. CASE p = update[u].page
        BY <2>4, <4>1
      <4>2. CASE p # update[u].page
        <5>1. p \in Pages \ astray /\ p \in fetch[p].missing
          BY <2>1, <2>3, <3>1, <4>2, ApplyKeeps
        <5>2. PICK v \in Updates : update[v].page = p /\ update[v].at = "applied"
          BY <5>1
        <5> QED BY <2>1, <2>4, <5>2
      <4> QED BY <4>1, <4>2
    <3>2. ASSUME NEW p \in Pages
          PROVE  /\ fetch'[p].at # "answered" => fetch'[p].missing = {}
                 /\ fetch'[p].at = "idle" => fetch'[p].by = None
      BY <2>1, ApplyKeeps
    <3> QED BY <3>1, <3>2
  <2> QED BY <2>5, <2>6, <2>7
<1>10. ASSUME NEW u \in Updates, Refused(u) PROVE Writes'
  <2>1. /\ update[u].at = "sent" /\ update'[u].at = "unused"
        /\ \A v \in Updates \ {u} : update'[v] = update[v]
        /\ \A p \in Pages : pending[p] # u => pending'[p] = pending[p]
        /\ UNCHANGED <<failing, fetch, dialog, unseen, astray>>
    BY <1>10 DEF Refused, Released, NoUpdate
  <2> QED BY <2>1
<1>11. ASSUME NEW u \in Updates, AnswerLost(u) PROVE Writes'
  <2>1. Apply(u) /\ update[u].page \in Pages /\ update[u].at = "sent" /\ failing' = failing
    BY <1>11, ApplyTypes DEF AnswerLost, Apply
  <2>2. /\ update' = [Overtaken(u) EXCEPT ![u] = NoUpdate]
        /\ \A p \in Pages : pending[p] # u => pending'[p] = pending[p]
        /\ astray' = astray \cup {update[u].page}
    BY <1>11 DEF AnswerLost, Released
  <2>3. /\ update'[u].at = "unused"
        /\ \A v \in Updates \ {u} :
             update'[v].at = update[v].at /\ update'[v].page = update[v].page
    <3>1. Overtaken(u) \in [Updates -> UpdateCalls]
      BY <2>1, OvertakenTypes
    <3>2. /\ update'[u] = NoUpdate
          /\ \A v \in Updates \ {u} : update'[v] = Overtaken(u)[v]
      BY <2>2, <3>1
    <3> QED BY <2>1, <3>2, NoUpdateType, OvertakenTypes
  <2>4. OwnPending'
    BY <2>1, <2>2, <2>3, ApplyKeeps
  <2>5. StaleIsPending'
    <3> SUFFICES ASSUME NEW p \in Pages \ astray', p \in unseen'[p], ~failing'[p]
                 PROVE  \E v \in Updates :
                        /\ update'[v].page = p
                        /\ \/ update'[v].at = "applied"
                           \/ update'[v].at = "settling" /\ fetch'[p].by = v
      OBVIOUS
    <3>1. p # update[u].page
      BY <2>1, <2>2, <2>3
    <3>2. p \in Pages \ astray /\ p \in unseen[p] /\ ~failing[p] /\ fetch'[p].by = fetch[p].by
      BY <2>1, <2>2, <2>3, <3>1, ApplyKeeps
    <3>3. PICK v \in Updates : /\ update[v].page = p
                              /\ \/ update[v].at = "applied"
                                 \/ update[v].at = "settling" /\ fetch[p].by = v
      BY <3>2
    <3> QED BY <2>1, <2>2, <2>3, <3>2, <3>3
  <2>6. StaleAnswers'
    <3>1. ASSUME NEW p \in Pages \ astray', p \in fetch'[p].missing
          PROVE  \E v \in Updates : update'[v].page = p /\ update'[v].at = "applied"
      <4>1. p # update[u].page /\ p \in Pages \ astray
        BY <2>2, <3>1
      <4>2. p \in fetch[p].missing
        BY <2>1, <3>1, <4>1, ApplyKeeps
      <4>3. PICK v \in Updates : update[v].page = p /\ update[v].at = "applied"
        BY <4>1, <4>2
      <4> QED BY <2>1, <2>3, <4>3
    <3>2. ASSUME NEW p \in Pages
          PROVE  /\ fetch'[p].at # "answered" => fetch'[p].missing = {}
                 /\ fetch'[p].at = "idle" => fetch'[p].by = None
      BY <2>1, ApplyKeeps
    <3> QED BY <3>1, <3>2
  <2> QED BY <2>4, <2>5, <2>6
<1>12. ASSUME NEW u \in Updates, AnswerArrives(u) PROVE Writes'
  <2>1. update' = [update EXCEPT ![u] = [update[u] EXCEPT !.at = "settling"]]
    BY <1>12 DEF AnswerArrives
  <2>2. /\ update'[u].at = "settling" /\ update'[u].page = update[u].page
        /\ \A v \in Updates \ {u} : update'[v] = update[v]
    BY <2>1 DEF UpdateCalls
  <2>3. update[u].at = "applied" /\ update[u].page \in Pages
    BY <1>12 DEF AnswerArrives, Addressed
  <2>4. /\ fetch'[update[u].page] = AskedBy(u)
        /\ \A q \in Pages \ {update[u].page} : fetch'[q] = fetch[q]
        /\ UNCHANGED <<failing, dialog, pending, unseen, astray>>
    BY <1>12, <2>3 DEF AnswerArrives
  <2>5. AskedBy(u).at = "asked" /\ AskedBy(u).by = u /\ AskedBy(u).missing = {}
    BY DEF AskedBy, IdleFetch
  <2> QED BY <2>2, <2>3, <2>4, <2>5
<1>13. ASSUME NEW u \in Updates, Settles(u) PROVE Writes'
  <2>1. /\ update[u].at = "settling" /\ fetch[update[u].page].by # u
        /\ update[u].page \in Pages
        /\ update'[u].at = "unused"
        /\ \A v \in Updates \ {u} : update'[v] = update[v]
        /\ \A q \in Pages \ {update[u].page} : dialog'[q] = dialog[q] /\ pending'[q] = pending[q]
        /\ UNCHANGED <<failing, fetch, unseen, astray>>
    BY <1>13 DEF Settles, NoUpdate, Addressed
  <2> QED BY <2>1
<1>14. CASE UNCHANGED vars
  BY <1>14 DEF vars, pageVars
<1> QED
  <2>1. ASSUME NEW p \in Pages, NEW d \in Dirs, OpensDialog(p, "add", d, 0) PROVE Writes'
    BY <1>5, <2>1, MaxRulesAssumption
  <2>2. ASSUME NEW p \in Pages, NEW k \in {"edit", "delete"}, NEW d \in Dirs,
               NEW i \in 1 .. MaxRules, OpensDialog(p, k, d, i)
        PROVE  Writes'
    BY <1>5, <2>2, MaxRulesAssumption
  <2> HIDE TypesByName DEF Writes, WritesInv
  <2> QED BY <1>1, <1>2, <1>3, <1>4, <1>6, <1>7, <1>8, <1>9, <1>10, <1>11, <1>12, <1>13, <1>14, <2>1, <2>2
          DEF Next

\* Only opening a dialog gives a page that has none one, and only on data that is shown.
LEMMA DialogOpens ==
  ASSUME WritesInv, [Next]_vars, NEW p \in Pages, dialog[p] = NoDialog, dialog'[p] # NoDialog
  PROVE  ~failing[p]
<1> USE TypesByName DEF WritesInv, RulesInv
<1>1. ASSUME NEW q \in Pages, NEW k, NEW d, NEW i, OpensDialog(q, k, d, i) PROVE ~failing[p]
  BY <1>1 DEF OpensDialog
<1>2. ASSUME NEW u \in Updates, Apply(u) PROVE FALSE
  BY <1>2 DEF Apply
<1>3. ASSUME NEW q \in Pages, ClosesDialog(q) \/ ClosesEarly(q) PROVE FALSE
  BY <1>3 DEF ClosesDialog, ClosesEarly
<1>4. ASSUME NEW u \in Updates, Settles(u) PROVE FALSE
  BY <1>4 DEF Settles
<1>5. ASSUME dialog' = dialog PROVE FALSE
  BY <1>5
<1>6. ASSUME NEW q \in Pages,
             Polls(q) \/ FetchServed(q) \/ FetchArrives(q) \/ FetchFails(q)
             \/ \E u \in Updates, r \in Rules \cup {None} : Submits(q, u, r)
      PROVE  FALSE
  BY <1>5, <1>6 DEF Polls, FetchServed, FetchArrives, FetchFails, Submits
<1>7. ASSUME NEW u \in Updates, Refused(u) \/ AnswerArrives(u) PROVE FALSE
  BY <1>5, <1>7 DEF Refused, AnswerArrives
<1>8. ASSUME NEW u \in Updates, Serve(u) \/ AnswerLost(u) PROVE FALSE
  BY <1>2, <1>8 DEF Serve, AnswerLost
<1>9. CASE UNCHANGED vars
  BY <1>5, <1>9 DEF vars, pageVars
<1> QED BY <1>1, <1>3, <1>4, <1>6, <1>7, <1>8, <1>9 DEF Next

\* No failed fetch, poll or early answer has a page offer a dialog on data that lacks an
\* update it was told has succeeded.
THEOREM WritesAreRead == Spec => ReadYourWrites
<1>1. WritesInv /\ [Next]_vars
        => [\A p \in Pages \ astray :
              dialog[p] = NoDialog /\ dialog'[p] # NoDialog => p \notin unseen[p]]_vars
  <2> SUFFICES ASSUME WritesInv, [Next]_vars, NEW p \in Pages \ astray,
                      dialog[p] = NoDialog, dialog'[p] # NoDialog
               PROVE  p \notin unseen[p]
    OBVIOUS
  <2>1. ~failing[p]
    BY DialogOpens
  <2>2. \A u \in Updates : update[u].page = p => update[u].at = "unused"
    BY DEF WritesInv, Writes, OwnPending
  <2> QED BY <2>1, <2>2 DEF WritesInv, Writes, StaleIsPending
<1> QED BY WritesInit, WritesStep, <1>1, PTL DEF Spec, ReadYourWrites

-------------------------------------------------------------------------------
(* What an update is aimed at. *)

LEMMA RemoveAtElements ==
  ASSUME NEW s \in Seq(Rules), NEW i \in 1 .. Len(s)
  PROVE  /\ DOMAIN RemoveAt(s, i) = 1 .. Len(s) - 1
         /\ \A j \in 1 .. Len(s) - 1 : RemoveAt(s, i)[j] = IF j < i THEN s[j] ELSE s[j + 1]
<1> DEFINE a == SubSeq(s, 1, i - 1)  b == SubSeq(s, i + 1, Len(s))
<1>1. Len(s) \in Nat /\ i \in Nat /\ 1 <= i /\ i <= Len(s)
  OBVIOUS
<1>2. a \in Seq(Rules) /\ Len(a) = i - 1 /\ \A j \in 1 .. i - 1 : a[j] = s[j]
  BY <1>1
<1>3. b \in Seq(Rules) /\ Len(b) = Len(s) - i /\ \A j \in 1 .. Len(s) - i : b[j] = s[i + j]
  BY <1>1
<1>4. RemoveAt(s, i) = a \o b
  BY DEF RemoveAt
<1> HIDE DEF a, b
<1>5. Len(a \o b) = Len(s) - 1 /\ DOMAIN (a \o b) = 1 .. Len(s) - 1
  <2>1. a \o b \in Seq(Rules) /\ Len(a \o b) = Len(a) + Len(b)
    <3>1. a \in Seq(Rules) /\ b \in Seq(Rules)
      BY <1>2, <1>3
    <3>2. a \o b \in Seq(Rules)
      BY <3>1
    <3>3. Len(a \o b) = Len(a) + Len(b)
      BY <3>1
    <3> QED BY <3>2, <3>3
  <2>2. Len(a) + Len(b) = Len(s) - 1
    BY <1>1, <1>2, <1>3
  <2>3. DOMAIN (a \o b) = 1 .. Len(a \o b)
    BY <2>1
  <2> QED BY <2>1, <2>2, <2>3
<1>6. ASSUME NEW j \in 1 .. Len(s) - 1
      PROVE  (a \o b)[j] = IF j < i THEN s[j] ELSE s[j + 1]
  <2>1. CASE j < i
    BY <1>1, <1>2, <1>3, <2>1
  <2>2. CASE ~(j < i)
    <3>1. (a \o b)[j] = b[j - (i - 1)]
      BY <1>1, <1>2, <1>3, <2>2
    <3>2. j - (i - 1) \in 1 .. Len(s) - i /\ i + (j - (i - 1)) = j + 1
      BY <1>1, <2>2
    <3> QED BY <1>3, <2>2, <3>1, <3>2
  <2> QED BY <2>1, <2>2
<1> QED BY <1>4, <1>5, <1>6

\* A dialog makes of a list without duplicates another one: a rule that is typed is new.
LEMMA EditedDistinct ==
  ASSUME NEW s \in Bounded, IsInjective(s), NEW g \in Dialogs, g.kind # "none", NEW r,
         g.kind # "delete" => r \in Rules /\ r \notin Range(s),
         g.kind # "add" => g.index \in 1 .. MaxRules
  PROVE  IsInjective(Edited(s, g, r))
<1>1. s \in Seq(Rules) /\ Len(s) \in Nat /\ DOMAIN s = 1 .. Len(s)
  BY BoundedSeqs
<1>2. ASSUME r \in Rules, r \notin Range(s) PROVE IsInjective(Append(s, r))
  <2>1. \A j \in 1 .. Len(s) : s[j] # r
    BY <1>1, <1>2 DEF Range
  <2>2. /\ DOMAIN Append(s, r) = 1 .. Len(s) + 1
        /\ \A j \in 1 .. Len(s) + 1 : Append(s, r)[j] = IF j = Len(s) + 1 THEN r ELSE s[j]
    BY <1>1, <1>2
  <2>3. \A j \in 1 .. Len(s) + 1 : j = Len(s) + 1 \/ j \in 1 .. Len(s)
    BY <1>1
  <2> QED BY <1>1, <2>1, <2>2, <2>3 DEF IsInjective
<1>3. CASE g.kind = "add"
  BY <1>2, <1>3 DEF Edited
<1>4. CASE g.kind = "edit"
  <2>1. CASE g.index <= Len(s)
    <3>1. Edited(s, g, r) = [s EXCEPT ![g.index] = r]
      BY <1>4, <2>1 DEF Edited, ReplaceAt
    <3>2. \A j \in 1 .. Len(s) : s[j] # r
      BY <1>1, <1>4 DEF Range
    <3> QED BY <1>1, <3>1, <3>2 DEF IsInjective
  <2>2. CASE ~(g.index <= Len(s))
    <3>1. Edited(s, g, r) = Append(s, r)
      BY <1>4, <2>2 DEF Edited
    <3> QED BY <1>2, <1>4, <3>1
  <2> QED BY <2>1, <2>2
<1>5. CASE g.kind = "delete"
  <2>1. CASE g.index <= Len(s)
    <3>1. Edited(s, g, r) = RemoveAt(s, g.index)
      BY <1>5, <2>1 DEF Edited
    <3>2. g.index \in 1 .. Len(s)
      BY <1>1, <1>5, <2>1, MaxRulesAssumption
    <3>3. /\ DOMAIN RemoveAt(s, g.index) = 1 .. Len(s) - 1
          /\ \A j \in 1 .. Len(s) - 1 :
               RemoveAt(s, g.index)[j] = IF j < g.index THEN s[j] ELSE s[j + 1]
      BY <1>1, <3>2, RemoveAtElements
    <3>4. \A j \in 1 .. Len(s) - 1 : j \in 1 .. Len(s) /\ j + 1 \in 1 .. Len(s)
      BY <1>1
    <3>5. \A i, j \in 1 .. Len(s) : s[i] = s[j] => i = j
      BY <1>1 DEF IsInjective
    <3>6. ASSUME NEW i \in 1 .. Len(s) - 1, NEW j \in 1 .. Len(s) - 1,
                 RemoveAt(s, g.index)[i] = RemoveAt(s, g.index)[j]
          PROVE  i = j
      BY <1>1, <3>2, <3>3, <3>4, <3>5, <3>6
    <3> QED BY <3>1, <3>3, <3>6 DEF IsInjective
  <2>2. CASE ~(g.index <= Len(s))
    <3>1. Edited(s, g, r) = s
      BY <1>5, <2>2 DEF Edited
    <3> QED BY <3>1
  <2> QED BY <2>1, <2>2
<1> QED BY <1>3, <1>4, <1>5 DEF Dialogs

\* The dialog's index names its rule in the lists l.
OnTarget(l, g) ==
  g.kind # "add" => g.index \in 1 .. Len(l[g.dir]) /\ g.target = l[g.dir][g.index]

\* What a dialog makes of lists its index is right for is what its user means.
LEMMA EditedIsIntended ==
  ASSUME NEW l \in Lists, NEW g \in Dialogs, g.kind # "none", g.dir \in Dirs,
         IsInjective(l[g.dir]), OnTarget(l, g), NEW r
  PROVE  [l EXCEPT ![g.dir] = Edited(l[g.dir], g, r)] = Intended(l, g, r)
<1> DEFINE s == l[g.dir]
<1>1. s \in Seq(Rules) /\ Len(s) \in Nat /\ DOMAIN s = 1 .. Len(s)
  BY BoundedSeqs DEF Lists, Bounded
<1>2. Intended(l, g, r) =
        [l EXCEPT ![g.dir] = CASE g.kind = "add" -> Append(s, r)
                               [] g.kind = "edit" -> ReplaceAll(s, g.target, r)
                               [] OTHER -> RemoveFirst(s, g.target)]
  BY DEF Intended
<1>3. IsInjective(s)
  OBVIOUS
<1>4. g.kind # "add" => g.index \in 1 .. Len(s) /\ g.target = s[g.index]
  BY DEF OnTarget
<1> HIDE DEF s
<1>5. CASE g.kind = "add"
  <2>1. Edited(s, g, r) = Append(s, r)
    BY <1>5 DEF Edited
  <2> QED BY <1>2, <1>5, <2>1 DEF s
<1>6. CASE g.kind = "edit"
  <2>0. g.index <= Len(s)
    BY <1>1, <1>4, <1>6
  <2>1. Edited(s, g, r) = [s EXCEPT ![g.index] = r]
    BY <1>6, <2>0 DEF Edited, ReplaceAt
  <2>2. ReplaceAll(s, g.target, r) = [j \in 1 .. Len(s) |-> IF j = g.index THEN r ELSE s[j]]
    BY <1>1, <1>3, <1>4, <1>6 DEF ReplaceAll, IsInjective
  <2>3. Edited(s, g, r) = ReplaceAll(s, g.target, r)
    BY <1>1, <2>1, <2>2
  <2> QED BY <1>2, <1>6, <2>3 DEF s
<1>7. CASE g.kind = "delete"
  <2>1. Edited(s, g, r) = RemoveAt(s, g.index)
    BY <1>1, <1>4, <1>7 DEF Edited
  <2>2. {j \in 1 .. Len(s) : s[j] = g.target} = {g.index}
    BY <1>1, <1>3, <1>4, <1>7 DEF IsInjective
  <2>3. Min({g.index}) = g.index
    BY <1>1, <1>4, <1>7 DEF Min
  <2>4. SelectInSeq(s, LAMBDA v : v = g.target) = g.index
    BY <2>2, <2>3 DEF SelectInSeq
  <2>5. RemoveFirst(s, g.target) = RemoveAt(s, g.index)
    BY <1>4, <1>7, <2>4 DEF RemoveFirst
  <2> QED BY <1>2, <1>7, <2>1, <2>5 DEF s
<1> QED BY <1>5, <1>6, <1>7 DEF Dialogs

\* The whole of what an update that is applied does to the pages.
LEMMA ApplyEffect ==
  ASSUME RulesInv, NEW u \in Updates, Apply(u)
  PROVE  /\ update[u].at = "sent" /\ update[u].page \in Pages
         /\ rules' = update[u].lists /\ UNCHANGED <<cache, failing>>
         /\ \A q \in Pages : unseen'[q] = unseen[q] \cup {update[u].page}
         /\ \A q \in Pages :
              /\ fetch'[q].at = fetch[q].at /\ fetch'[q].lists = fetch[q].lists
              /\ fetch'[q].missing = IF fetch[q].at = "answered"
                                     THEN fetch[q].missing \cup {update[u].page}
                                     ELSE fetch[q].missing
         /\ \A q \in Pages : dialog'[q] = NoDialog <=> dialog[q] = NoDialog
         /\ \A q \in Pages : dialog[q] # NoDialog =>
              /\ dialog'[q].met = dialog[q].met \cup {update[u].page}
              /\ dialog'[q].kind = dialog[q].kind
<1> USE TypesByName DEF RulesInv
<1>1. /\ update[u].at = "sent" /\ update[u].page \in Pages
      /\ rules' = update[u].lists /\ UNCHANGED <<cache, failing>>
      /\ \A q \in Pages : unseen'[q] = unseen[q] \cup {update[u].page}
  BY ApplyTypes DEF Apply
<1>2. ASSUME NEW q \in Pages
      PROVE  /\ fetch'[q].at = fetch[q].at /\ fetch'[q].lists = fetch[q].lists
             /\ fetch'[q].missing = IF fetch[q].at = "answered"
                                    THEN fetch[q].missing \cup {update[u].page}
                                    ELSE fetch[q].missing
  <2>1. fetch'[q] = IF fetch[q].at = "answered"
                    THEN [fetch[q] EXCEPT !.missing = fetch[q].missing \cup {update[u].page}]
                    ELSE fetch[q]
    BY DEF Apply
  <2>2. fetch[q] \in Fetches
    OBVIOUS
  <2> QED BY <2>1, <2>2 DEF Fetches
<1>3. ASSUME NEW q \in Pages, dialog[q] = NoDialog PROVE dialog'[q] = NoDialog
  BY <1>3 DEF Apply
<1>4. ASSUME NEW q \in Pages, dialog[q] # NoDialog
      PROVE  /\ dialog'[q] # NoDialog /\ dialog'[q].met = dialog[q].met \cup {update[u].page}
             /\ dialog'[q].kind = dialog[q].kind
  <2>1. dialog'[q] = [dialog[q] EXCEPT !.met = dialog[q].met \cup {update[u].page}]
    BY <1>4 DEF Apply
  <2>2. dialog[q] \in Dialogs
    OBVIOUS
  <2>3. /\ dialog'[q].met = dialog[q].met \cup {update[u].page}
        /\ dialog'[q].kind = dialog[q].kind
    BY <2>1, <2>2 DEF Dialogs
  <2> QED BY <1>4, <2>3, ApplyKeeps
<1> QED BY <1>1, <1>2, <1>3, <1>4

\* What it does to the other updates, and what becomes of itself.
LEMMA ServeEffect ==
  ASSUME RulesInv, NEW u \in Updates, Serve(u) \/ AnswerLost(u)
  PROVE  /\ Apply(u)
         /\ update'[u].at # "sent" /\ update'[u].lists = NoLists
         /\ update'[u].at # "unused" =>
              /\ update'[u].at = "applied" /\ update'[u].page = update[u].page
              /\ update'[u].of.kind = update[u].of.kind
         /\ update'[u].at = "unused" => update[u].page \in astray'
         /\ \A v \in Updates \ {u} :
              /\ update'[v].at = update[v].at /\ update'[v].page = update[v].page
              /\ update'[v].lists = update[v].lists /\ update'[v].rule = update[v].rule
              /\ update'[v].of.kind = update[v].of.kind
              /\ update[v].at = "sent"
                   => update'[v].of.met = update[v].of.met \cup {update[u].page}
         /\ \A p \in Pages \ astray' : pending[p] # u => pending'[p] = pending[p]
         /\ astray \subseteq astray'
<1> USE TypesByName DEF RulesInv
<1>1. Apply(u) /\ update[u].page \in Pages
  BY ApplyTypes DEF Serve, AnswerLost
<1>2. Overtaken(u) \in [Updates -> UpdateCalls]
  BY <1>1, OvertakenTypes
<1>3. ASSUME NEW v \in Updates \ {u}
      PROVE  LET c == Overtaken(u)[v] IN
             /\ c.at = update[v].at /\ c.page = update[v].page
             /\ c.lists = update[v].lists /\ c.rule = update[v].rule
             /\ c.of.kind = update[v].of.kind
             /\ update[v].at = "sent" => c.of.met = update[v].of.met \cup {update[u].page}
  <2>1. Overtaken(u)[v] =
          IF update[v].at = "sent"
          THEN [update[v] EXCEPT !.of.met = update[v].of.met \cup {update[u].page}]
          ELSE update[v]
    BY <1>3 DEF Overtaken
  <2>2. update[v] \in UpdateCalls /\ update[v].of \in Dialogs
    BY DEF UpdateCalls
  <2> QED BY <2>1, <2>2 DEF UpdateCalls, Dialogs
<1>4. ASSUME NEW v \in Updates \ {u} PROVE update'[v] = Overtaken(u)[v]
  BY <1>2, <1>4 DEF Serve, AnswerLost
<1>5. CASE Serve(u)
  <2>1. update'[u] = Done(update[u].page, update[u].of.kind)
    BY <1>2, <1>5 DEF Serve, Done
  <2>2. /\ update'[u].at = "applied" /\ update'[u].page = update[u].page
        /\ update'[u].of.kind = update[u].of.kind /\ update'[u].lists = NoLists
    BY <2>1 DEF Done, NoUpdate, NoDialog
  <2>3. UNCHANGED <<pending, astray>>
    BY <1>5 DEF Serve
  <2> QED BY <1>1, <1>3, <1>4, <2>2, <2>3
<1>6. CASE AnswerLost(u)
  <2>1. update'[u] = NoUpdate /\ astray' = astray \cup {update[u].page}
        /\ pending' = Released(u)
    BY <1>2, <1>6 DEF AnswerLost
  <2>2. update'[u].at = "unused" /\ update'[u].lists = NoLists
    BY <2>1 DEF NoUpdate
  <2> QED BY <1>1, <1>3, <1>4, <2>1, <2>2 DEF Released
<1> QED BY <1>5, <1>6

\* What a page sends.
LEMMA SubmitEffect ==
  ASSUME RulesInv, NEW p \in Pages, NEW u \in Updates, NEW r \in Rules \cup {None},
         Submits(p, u, r)
  PROVE  /\ dialog[p] # NoDialog /\ dialog[p] \in Dialogs
         /\ dialog[p].kind # "none" /\ dialog[p].dir \in Dirs
         /\ dialog[p].kind # "add" => dialog[p].index \in 1 .. MaxRules
         /\ dialog[p].kind # "delete" => r \in Rules /\ Unused(r)
         /\ pending[p] = None /\ update[u].at = "unused" /\ pending'[p] = u
         /\ update'[u].at = "sent" /\ update'[u].page = p /\ update'[u].rule = r
         /\ update'[u].of = dialog[p]
         /\ update'[u].lists = [cache[p] EXCEPT ![dialog[p].dir] =
                                  Edited(cache[p][dialog[p].dir], dialog[p], r)]
         /\ \A v \in Updates \ {u} : update'[v] = update[v]
         /\ \A q \in Pages \ {p} : pending'[q] = pending[q]
         /\ UNCHANGED <<rules, cache, failing, fetch, dialog, unseen, astray>>
<1> USE TypesByName DEF RulesInv, Addressed
<1>1. /\ dialog[p] # NoDialog /\ pending[p] = None /\ update[u].at = "unused"
      /\ dialog[p].kind # "delete" => r \in Rules /\ Unused(r)
  BY DEF Submits, NoUpdate
<1>2. update' = [update EXCEPT ![u] =
        [at |-> "sent", page |-> p,
         lists |-> [cache[p] EXCEPT ![dialog[p].dir] =
                      Edited(cache[p][dialog[p].dir], dialog[p], r)],
         rule |-> r, of |-> dialog[p]]]
  BY DEF Submits
<1>3. /\ pending' = [pending EXCEPT ![p] = u]
      /\ UNCHANGED <<rules, cache, failing, fetch, dialog, unseen, astray>>
  BY DEF Submits
<1> QED BY <1>1, <1>2, <1>3

-------------------------------------------------------------------------------
(* No list holds a rule twice. *)

Distinct(l) == \A d \in Dirs : IsInjective(l[d])

ListsDistinct ==
  /\ Distinct(rules)
  /\ \A p \in Pages : Distinct(cache[p]) /\ Distinct(fetch[p].lists)
  /\ \A u \in Updates : Distinct(update[u].lists)

LEMMA NoListsDistinct == Distinct(NoLists)
<1>1. IsInjective(<<>>)
  BY DEF IsInjective
<1> QED BY <1>1 DEF Distinct, NoLists

LEMMA DistinctStep ==
  ASSUME RulesInv, ListsDistinct, [Next]_vars
  PROVE  ListsDistinct'
<1> USE TypesByName, NoListsDistinct DEF RulesInv, ListsDistinct
<1>0. IdleFetch.lists = NoLists /\ AskedBy(None).lists = NoLists
  BY DEF AskedBy, IdleFetch
<1>1. ASSUME NEW p \in Pages, Polls(p) \/ FetchFails(p) PROVE ListsDistinct'
  <2>1. /\ fetch'[p].lists = NoLists /\ \A q \in Pages \ {p} : fetch'[q] = fetch[q]
        /\ UNCHANGED <<rules, cache, update>>
    BY <1>0, <1>1 DEF Polls, FetchFails
  <2> QED BY <2>1
<1>2. ASSUME NEW p \in Pages, FetchServed(p) PROVE ListsDistinct'
  <2>1. fetch' = [fetch EXCEPT ![p] = [fetch[p] EXCEPT !.at = "answered", !.lists = rules]]
    BY <1>2, ServedFetch
  <2>2. fetch[p] \in Fetches
    OBVIOUS
  <2>3. [fetch[p] EXCEPT !.at = "answered", !.lists = rules].lists = rules
    BY <2>2 DEF Fetches
  <2>4. fetch'[p].lists = rules /\ \A q \in Pages \ {p} : fetch'[q] = fetch[q]
    BY <2>1, <2>3
  <2> QED BY <1>2, <2>4 DEF FetchServed
<1>3. ASSUME NEW p \in Pages, FetchArrives(p) PROVE ListsDistinct'
  <2>1. /\ fetch'[p].lists = NoLists /\ \A q \in Pages \ {p} : fetch'[q] = fetch[q]
        /\ cache'[p] = fetch[p].lists /\ \A q \in Pages \ {p} : cache'[q] = cache[q]
        /\ UNCHANGED <<rules, update>>
    BY <1>3 DEF FetchArrives, IdleFetch
  <2> QED BY <2>1
<1>4. ASSUME UNCHANGED <<rules, cache, fetch, update>> PROVE ListsDistinct'
  BY <1>4
<1>5. ASSUME NEW p \in Pages, NEW u \in Updates, NEW r \in Rules \cup {None}, Submits(p, u, r)
      PROVE  ListsDistinct'
  <2> DEFINE g == dialog[p]
  <2>0. RulesInv /\ cache \in [Pages -> Lists] /\ ListsDistinct
    OBVIOUS
  <2> HIDE TypesByName DEF RulesInv, ListsDistinct
  <2>1. /\ g \in Dialogs /\ g.kind # "none" /\ g.dir \in Dirs
        /\ g.kind # "add" => g.index \in 1 .. MaxRules
        /\ g.kind # "delete" => r \in Rules /\ Unused(r)
        /\ update'[u].lists = [cache[p] EXCEPT ![g.dir] = Edited(cache[p][g.dir], g, r)]
        /\ UNCHANGED <<rules, cache, fetch>> /\ \A v \in Updates \ {u} : update'[v] = update[v]
    BY <1>5, <2>0, SubmitEffect
  <2>2. cache[p] \in Lists /\ cache[p][g.dir] \in Bounded
    BY <2>0, <2>1 DEF Lists, Bounded
  <2>3. g.kind # "delete" => r \notin Range(cache[p][g.dir])
    BY <2>1 DEF Unused
  <2>4. IsInjective(Edited(cache[p][g.dir], g, r))
    BY <2>0, <2>1, <2>2, <2>3, EditedDistinct DEF ListsDistinct, Distinct
  <2>5. Distinct([cache[p] EXCEPT ![g.dir] = Edited(cache[p][g.dir], g, r)])
    BY <2>0, <2>2, <2>4 DEF ListsDistinct, Distinct, Lists
  <2> QED BY <2>0, <2>1, <2>5 DEF ListsDistinct
<1>6. ASSUME NEW u \in Updates, Serve(u) \/ AnswerLost(u) PROVE ListsDistinct'
  <2>1. Apply(u) /\ \A v \in Updates : update'[v].lists \in {NoLists, update[v].lists}
    BY <1>6, ServeEffect
  <2> QED BY <2>1, ApplyEffect
<1>7. ASSUME NEW u \in Updates, Refused(u) PROVE ListsDistinct'
  <2>1. /\ update'[u].lists = NoLists /\ \A v \in Updates \ {u} : update'[v] = update[v]
        /\ UNCHANGED <<rules, cache, fetch>>
    BY <1>7 DEF Refused, NoUpdate
  <2> QED BY <2>1
<1>8. ASSUME NEW u \in Updates, AnswerArrives(u) PROVE ListsDistinct'
  <2>1. update[u] \in UpdateCalls /\ update' = [update EXCEPT ![u] = [update[u] EXCEPT !.at = "settling"]]
    BY <1>8 DEF AnswerArrives
  <2>2. \A v \in Updates : update'[v].lists = update[v].lists
    BY <2>1 DEF UpdateCalls
  <2>3. \A q \in Pages : fetch'[q].lists \in {NoLists, fetch[q].lists}
    BY <1>8 DEF AnswerArrives, AskedBy, IdleFetch
  <2> QED BY <1>8, <2>2, <2>3 DEF AnswerArrives
<1>9. ASSUME NEW u \in Updates, Settles(u) PROVE ListsDistinct'
  <2>1. /\ update'[u].lists = NoLists /\ \A v \in Updates \ {u} : update'[v] = update[v]
        /\ UNCHANGED <<rules, cache, fetch>>
    BY <1>9 DEF Settles, NoUpdate
  <2> QED BY <2>1
<1>10. ASSUME NEW p \in Pages, ClosesDialog(p) \/ ClosesEarly(p) PROVE ListsDistinct'
  BY <1>4, <1>10 DEF ClosesDialog, ClosesEarly
<1>11. ASSUME NEW p \in Pages, NEW k, NEW d, NEW i, OpensDialog(p, k, d, i) PROVE ListsDistinct'
  BY <1>4, <1>11 DEF OpensDialog
<1>12. CASE UNCHANGED vars
  BY <1>4, <1>12 DEF vars, pageVars
<1> HIDE TypesByName DEF ListsDistinct
<1> QED BY <1>1, <1>2, <1>3, <1>5, <1>6, <1>7, <1>8, <1>9, <1>10, <1>11, <1>12 DEF Next

-------------------------------------------------------------------------------
(* What a page has seen is what the service has. *)

\* A page nothing happened behind shows the service's lists, an answer nothing happened
\* behind carries them, and what happened behind a page happened behind its dialog.
SeenIsCurrent ==
  \A p \in Pages :
    /\ unseen[p] = {} => cache[p] = rules
    /\ fetch[p].at = "answered" /\ fetch[p].missing = {} => fetch[p].lists = rules
    /\ fetch[p].missing \subseteq unseen[p]
    /\ dialog[p] # NoDialog => unseen[p] \subseteq dialog[p].met

LEMMA SeenStep ==
  ASSUME WritesInv, SeenIsCurrent, [Next]_vars
  PROVE  SeenIsCurrent'
<1>t. /\ RulesInv /\ \A p \in Pages : fetch[p].at # "answered" => fetch[p].missing = {}
      /\ cache \in [Pages -> Lists] /\ fetch \in [Pages -> Fetches]
      /\ dialog \in [Pages -> Dialogs] /\ unseen \in [Pages -> SUBSET Pages]
      /\ update \in [Updates -> UpdateCalls]
  BY TypesByName DEF WritesInv, RulesInv, Writes, StaleAnswers
<1>0. /\ IdleFetch.at = "idle" /\ IdleFetch.missing = {}
      /\ \A x : AskedBy(x).at = "asked" /\ AskedBy(x).missing = {}
  BY DEF AskedBy, IdleFetch
<1>1. ASSUME NEW p \in Pages, Polls(p) \/ FetchFails(p) PROVE SeenIsCurrent'
  <2>1. /\ fetch'[p].at # "answered" /\ fetch'[p].missing = {}
        /\ \A q \in Pages \ {p} : fetch'[q] = fetch[q]
        /\ UNCHANGED <<rules, cache, dialog, unseen>>
    BY <1>0, <1>1, <1>t DEF Polls, FetchFails
  <2> QED BY <2>1 DEF SeenIsCurrent
<1>2. ASSUME NEW p \in Pages, FetchServed(p) PROVE SeenIsCurrent'
  <2>1. fetch' = [fetch EXCEPT ![p] = [fetch[p] EXCEPT !.at = "answered", !.lists = rules]]
    BY <1>2, ServedFetch
  <2> DEFINE c == [fetch[p] EXCEPT !.at = "answered", !.lists = rules]
  <2>2. c.lists = rules /\ c.missing = fetch[p].missing
    BY <1>t DEF Fetches
  <2>3. fetch[p].missing = {}
    BY <1>2, <1>t DEF FetchServed
  <2> HIDE DEF c
  <2>4. /\ fetch'[p] = c /\ \A q \in Pages \ {p} : fetch'[q] = fetch[q]
        /\ UNCHANGED <<rules, cache, dialog, unseen>>
    BY <1>2, <1>t, <2>1 DEF FetchServed, c
  <2> QED BY <2>2, <2>3, <2>4 DEF SeenIsCurrent
<1>3. ASSUME NEW p \in Pages, FetchArrives(p) PROVE SeenIsCurrent'
  <2>1. /\ fetch[p].at = "answered" /\ fetch'[p].at = "idle" /\ fetch'[p].missing = {}
        /\ \A q \in Pages \ {p} : fetch'[q] = fetch[q]
        /\ cache'[p] = fetch[p].lists /\ unseen'[p] = fetch[p].missing
        /\ \A q \in Pages \ {p} : cache'[q] = cache[q] /\ unseen'[q] = unseen[q]
        /\ UNCHANGED <<rules, dialog>>
    BY <1>0, <1>3, <1>t DEF FetchArrives
  <2> QED BY <2>1 DEF SeenIsCurrent
<1>4. ASSUME NEW p \in Pages, NEW k, NEW d, NEW i, OpensDialog(p, k, d, i) PROVE SeenIsCurrent'
  <2>1. /\ dialog'[p].met = unseen[p] /\ \A q \in Pages \ {p} : dialog'[q] = dialog[q]
        /\ UNCHANGED <<rules, cache, fetch, unseen>>
    BY <1>4, <1>t DEF OpensDialog
  <2> QED BY <2>1 DEF SeenIsCurrent
<1>5. ASSUME NEW p \in Pages, ClosesDialog(p) \/ ClosesEarly(p) PROVE SeenIsCurrent'
  <2>1. /\ \A q \in Pages : dialog'[q] \in {dialog[q], NoDialog}
        /\ UNCHANGED <<rules, cache, fetch, unseen>>
    BY <1>5, <1>t DEF ClosesDialog, ClosesEarly
  <2> QED BY <2>1 DEF SeenIsCurrent
<1>6. ASSUME UNCHANGED <<rules, cache, fetch, dialog, unseen>> PROVE SeenIsCurrent'
  BY <1>6 DEF SeenIsCurrent
<1>7. ASSUME NEW u \in Updates, Serve(u) \/ AnswerLost(u) PROVE SeenIsCurrent'
  <2>1. Apply(u)
    BY <1>7 DEF Serve, AnswerLost
  <2>2. /\ \A q \in Pages : unseen'[q] = unseen[q] \cup {update[u].page}
        /\ \A q \in Pages :
             /\ fetch'[q].at = fetch[q].at
             /\ fetch'[q].missing = IF fetch[q].at = "answered"
                                    THEN fetch[q].missing \cup {update[u].page}
                                    ELSE fetch[q].missing
        /\ \A q \in Pages : dialog'[q] = NoDialog <=> dialog[q] = NoDialog
        /\ \A q \in Pages : dialog[q] # NoDialog =>
             dialog'[q].met = dialog[q].met \cup {update[u].page}
    BY <1>t, <2>1, ApplyEffect
  <2> QED BY <2>2 DEF SeenIsCurrent
<1>8. ASSUME NEW u \in Updates, AnswerArrives(u) PROVE SeenIsCurrent'
  <2>1. /\ \A q \in Pages : \/ fetch'[q] = fetch[q]
                            \/ fetch'[q].at = "asked" /\ fetch'[q].missing = {}
        /\ UNCHANGED <<rules, cache, dialog, unseen>>
    BY <1>0, <1>8, <1>t DEF AnswerArrives
  <2> QED BY <2>1 DEF SeenIsCurrent
<1>9. ASSUME NEW u \in Updates, Settles(u) PROVE SeenIsCurrent'
  <2>1. /\ \A q \in Pages : dialog'[q] \in {dialog[q], NoDialog}
        /\ UNCHANGED <<rules, cache, fetch, unseen>>
    BY <1>9, <1>t DEF Settles
  <2> QED BY <2>1 DEF SeenIsCurrent
<1>10. ASSUME NEW p \in Pages, NEW u \in Updates, NEW r \in Rules \cup {None}, Submits(p, u, r)
       PROVE  SeenIsCurrent'
  BY <1>6, <1>10 DEF Submits
<1>11. ASSUME NEW u \in Updates, Refused(u) PROVE SeenIsCurrent'
  BY <1>6, <1>11 DEF Refused
<1>12. CASE UNCHANGED vars
  BY <1>6, <1>12 DEF vars, pageVars
<1> QED BY <1>1, <1>2, <1>3, <1>4, <1>5, <1>7, <1>8, <1>9, <1>10, <1>11, <1>12 DEF Next

-------------------------------------------------------------------------------
(* An index is right, and an update an edit of the service's lists, unless another *)
(* update came behind the dialog.                                                   *)

Aimed ==
  /\ \A p \in Pages : dialog[p] # NoDialog /\ dialog[p].met = {} => OnTarget(rules, dialog[p])
  /\ \A u \in Updates :
       update[u].at = "sent" /\ update[u].of.met = {} =>
         LET g == update[u].of IN
         /\ g.kind # "none" /\ g.dir \in Dirs /\ OnTarget(rules, g)
         /\ update[u].lists = [rules EXCEPT ![g.dir] = Edited(rules[g.dir], g, update[u].rule)]

LEMMA AimedStep ==
  ASSUME RulesInv, SeenIsCurrent, Aimed, [Next]_vars
  PROVE  Aimed'
<1>t. /\ cache \in [Pages -> Lists] /\ rules \in Lists
      /\ dialog \in [Pages -> Dialogs] /\ update \in [Updates -> UpdateCalls]
  BY TypesByName DEF RulesInv
\* Steps that leave the service alone, and have no new dialog and nothing new sent.
<1>1. ASSUME UNCHANGED rules, \A q \in Pages : dialog'[q] \in {dialog[q], NoDialog},
             \A v \in Updates : update'[v] = update[v] \/ update'[v].at # "sent"
      PROVE  Aimed'
  BY <1>1 DEF Aimed
<1>2. ASSUME NEW p \in Pages,
             \/ Polls(p) \/ FetchServed(p) \/ FetchArrives(p) \/ FetchFails(p)
             \/ ClosesDialog(p) \/ ClosesEarly(p)
      PROVE Aimed'
  <2>1. /\ UNCHANGED <<rules, update>> /\ \A q \in Pages : dialog'[q] \in {dialog[q], NoDialog}
    BY <1>2, <1>t
       DEF Polls, FetchServed, FetchArrives, FetchFails, ClosesDialog, ClosesEarly
  <2> QED BY <1>1, <2>1
<1>3. ASSUME NEW p \in Pages, NEW k, NEW d \in Dirs, NEW i, OpensDialog(p, k, d, i) PROVE Aimed'
  <2>1. /\ dialog'[p] = [kind |-> k, dir |-> d, index |-> i,
                         target |-> IF k = "add" THEN None ELSE cache[p][d][i],
                         met |-> unseen[p]]
        /\ k # "add" => i \in 1 .. Len(cache[p][d])
        /\ \A q \in Pages \ {p} : dialog'[q] = dialog[q]
        /\ UNCHANGED <<rules, update>>
    BY <1>3, <1>t DEF OpensDialog
  <2>2. dialog'[p].met = {} => OnTarget(rules, dialog'[p])
    <3>1. dialog'[p].met = {} => cache[p] = rules
      BY <2>1 DEF SeenIsCurrent
    <3> QED BY <2>1, <3>1 DEF OnTarget
  <2> QED BY <2>1, <2>2 DEF Aimed
<1>4. ASSUME NEW p \in Pages, NEW u \in Updates, NEW r \in Rules \cup {None}, Submits(p, u, r)
      PROVE  Aimed'
  <2> DEFINE g == dialog[p]
  <2>1. /\ g # NoDialog /\ g.kind # "none" /\ g.dir \in Dirs
        /\ update'[u].rule = r /\ update'[u].of = g
        /\ update'[u].lists = [cache[p] EXCEPT ![g.dir] = Edited(cache[p][g.dir], g, r)]
        /\ \A v \in Updates \ {u} : update'[v] = update[v]
        /\ UNCHANGED <<rules, dialog>>
    BY <1>4, SubmitEffect
  <2>2. g.met = {} => cache[p] = rules
    BY <2>1 DEF SeenIsCurrent
  <2>3. g.met = {} => OnTarget(rules, g)
    BY <2>1 DEF Aimed
  <2> HIDE DEF g
  <2> QED BY <2>1, <2>2, <2>3 DEF Aimed
<1>5. ASSUME NEW u \in Updates, Serve(u) \/ AnswerLost(u) PROVE Aimed'
  <2>1. /\ Apply(u) /\ update'[u].at # "sent"
        /\ \A v \in Updates \ {u} :
             /\ update'[v].at = update[v].at
             /\ update[v].at = "sent"
                  => update'[v].of.met = update[v].of.met \cup {update[u].page}
    BY <1>5, ServeEffect
  <2>2. /\ \A q \in Pages : dialog'[q] = NoDialog <=> dialog[q] = NoDialog
        /\ \A q \in Pages : dialog[q] # NoDialog =>
             dialog'[q].met = dialog[q].met \cup {update[u].page}
    BY <2>1, ApplyEffect
  <2>3. \A v \in Updates : update'[v].at = "sent" => update'[v].of.met # {}
    BY <2>1
  <2>4. \A q \in Pages : dialog'[q] # NoDialog => dialog'[q].met # {}
    BY <2>2
  <2> QED BY <2>3, <2>4 DEF Aimed
<1>6. ASSUME NEW u \in Updates, Refused(u) PROVE Aimed'
  <2>1. /\ update'[u].at = "unused" /\ \A v \in Updates \ {u} : update'[v] = update[v]
        /\ UNCHANGED <<rules, dialog>>
    BY <1>6, <1>t, NoUpdateType DEF Refused
  <2> QED BY <1>1, <2>1
<1>7. ASSUME NEW u \in Updates, AnswerArrives(u) PROVE Aimed'
  <2>1. update' = [update EXCEPT ![u] = [update[u] EXCEPT !.at = "settling"]]
    BY <1>7 DEF AnswerArrives
  <2>2. update'[u].at = "settling" /\ \A v \in Updates \ {u} : update'[v] = update[v]
    BY <1>t, <2>1 DEF UpdateCalls
  <2> QED BY <1>1, <1>7, <2>2 DEF AnswerArrives
<1>8. ASSUME NEW u \in Updates, Settles(u) PROVE Aimed'
  <2>1. /\ update'[u].at = "unused" /\ \A v \in Updates \ {u} : update'[v] = update[v]
        /\ \A q \in Pages : dialog'[q] \in {dialog[q], NoDialog}
        /\ UNCHANGED rules
    BY <1>8, <1>t, NoUpdateType DEF Settles
  <2> QED BY <1>1, <2>1
<1>9. CASE UNCHANGED vars
  BY <1>1, <1>9 DEF vars, pageVars
<1> QED BY <1>2, <1>3, <1>4, <1>5, <1>6, <1>7, <1>8, <1>9 DEF Next

-------------------------------------------------------------------------------
(* A page that is not astray never overtakes itself. *)

\* Its dialog is of the kind of the update it waits for, so that the update's answer
\* closes it.
OwnKind ==
  \A p \in Pages \ astray, u \in Updates :
    update[u].at # "unused" /\ update[u].page = p
      => (update[u].of.kind = "delete" <=> dialog[p].kind = "delete")

\* Its own updates were not applied behind a dialog, or an update, that can still act.
NotOwn ==
  \A p \in Pages \ astray :
    /\ \A u \in Updates :
         update[u].at = "sent" /\ update[u].page = p => p \notin update[u].of.met
    /\ /\ dialog[p] # NoDialog
       /\ \A u \in Updates : update[u].page = p => update[u].at \notin {"applied", "settling"}
       => p \notin dialog[p].met

Own == OwnKind /\ NotOwn

LEMMA OwnStep ==
  ASSUME WritesInv, Own, [Next]_vars
  PROVE  Own'
<1>t. /\ dialog \in [Pages -> Dialogs] /\ update \in [Updates -> UpdateCalls]
      /\ pending \in [Pages -> Updates \cup {None}]
      /\ RulesInv /\ OwnPending /\ StaleIsPending
  BY TypesByName DEF WritesInv, RulesInv, Writes
<1>o. OwnKind /\ NotOwn
  BY DEF Own
\* Steps that neither apply nor send anything, and close dialogs only of pages that have
\* no update, or that go astray.
<1>1. ASSUME update' = update, astray \subseteq astray',
             \A q \in Pages :
               \/ q \in astray' \/ dialog'[q] = dialog[q]
               \/ /\ dialog'[q] = NoDialog
                  /\ \A v \in Updates : update[v].page = q => update[v].at = "unused"
      PROVE  Own'
  BY <1>1, <1>o DEF Own, OwnKind, NotOwn
<1>2. ASSUME NEW p \in Pages, Polls(p) \/ FetchServed(p) \/ FetchArrives(p) \/ FetchFails(p)
      PROVE  Own'
  BY <1>1, <1>2 DEF Polls, FetchServed, FetchArrives, FetchFails
<1>3. ASSUME NEW p \in Pages, ClosesDialog(p) PROVE Own'
  <2>1. /\ pending[p] = None /\ dialog'[p] = NoDialog
        /\ \A q \in Pages \ {p} : dialog'[q] = dialog[q]
        /\ UNCHANGED <<update, astray>>
    BY <1>3, <1>t DEF ClosesDialog
  <2>2. p \in Pages \ astray => \A v \in Updates : update[v].page = p => update[v].at = "unused"
    BY <1>t, <2>1, RuleNamesAssumption DEF OwnPending
  <2> QED BY <1>1, <2>1, <2>2
<1>4. ASSUME NEW p \in Pages, ClosesEarly(p) PROVE Own'
  <2>1. /\ \A q \in Pages \ {p} : dialog'[q] = dialog[q]
        /\ UNCHANGED update /\ astray' = astray \cup {p}
    BY <1>4, <1>t DEF ClosesEarly
  <2> QED BY <1>1, <2>1
<1>5. ASSUME NEW p \in Pages, NEW k, NEW d, NEW i, OpensDialog(p, k, d, i) PROVE Own'
  <2>1. /\ dialog[p] = NoDialog /\ ~failing[p] /\ dialog'[p].met = unseen[p]
        /\ \A q \in Pages \ {p} : dialog'[q] = dialog[q]
        /\ UNCHANGED <<update, astray>>
    BY <1>5, <1>t DEF OpensDialog
  <2>2. p \in Pages \ astray => \A v \in Updates : update[v].page = p => update[v].at = "unused"
    BY <1>t, <2>1 DEF OwnPending
  <2>3. p \in Pages \ astray => p \notin unseen[p]
    BY <1>t, <2>1, <2>2 DEF StaleIsPending
  <2> QED BY <1>o, <2>1, <2>2, <2>3 DEF Own, OwnKind, NotOwn
<1>6. ASSUME NEW p \in Pages, NEW u \in Updates, NEW r \in Rules \cup {None}, Submits(p, u, r)
      PROVE  Own'
  <2>1. /\ dialog[p] # NoDialog /\ pending[p] = None
        /\ update[u].at = "unused" /\ update'[u].at = "sent"
        /\ update'[u].page = p /\ update'[u].of = dialog[p]
        /\ \A v \in Updates \ {u} : update'[v] = update[v]
        /\ UNCHANGED <<dialog, astray>>
    BY <1>6, <1>t DEF Submits, NoUpdate
  <2>2. p \in Pages \ astray => \A v \in Updates : update[v].page = p => update[v].at = "unused"
    BY <1>t, <2>1, RuleNamesAssumption DEF OwnPending
  <2>3. p \in Pages \ astray => p \notin dialog[p].met
    BY <1>o, <2>1, <2>2 DEF NotOwn
  <2>4. OwnKind'
    BY <1>o, <2>1, <2>2 DEF OwnKind
  <2>5. NotOwn'
    BY <1>o, <2>1, <2>2, <2>3 DEF NotOwn
  <2> QED BY <2>4, <2>5 DEF Own
<1>7. ASSUME NEW u \in Updates, Serve(u) \/ AnswerLost(u) PROVE Own'
  <2> DEFINE a == update[u].page
  <2>1. /\ Apply(u) /\ update'[u].at # "sent" /\ astray \subseteq astray'
        /\ update'[u].at # "unused" =>
             /\ update'[u].at = "applied" /\ update'[u].page = a
             /\ update'[u].of.kind = update[u].of.kind
        /\ update'[u].at = "unused" => a \in astray'
        /\ \A v \in Updates \ {u} :
             /\ update'[v].at = update[v].at /\ update'[v].page = update[v].page
             /\ update'[v].of.kind = update[v].of.kind
             /\ update[v].at = "sent" => update'[v].of.met = update[v].of.met \cup {a}
    BY <1>t, <1>7, ServeEffect
  <2>2. /\ update[u].at = "sent" /\ a \in Pages
        /\ \A q \in Pages : dialog'[q] = NoDialog <=> dialog[q] = NoDialog
        /\ \A q \in Pages : dialog[q] # NoDialog =>
             /\ dialog'[q].met = dialog[q].met \cup {a}
             /\ dialog'[q].kind = dialog[q].kind
    BY <1>t, <2>1, ApplyEffect
  <2>3. \A q \in Pages : dialog'[q].kind = dialog[q].kind
    BY <2>2
  <2>4. a \notin astray =>
          \A v \in Updates \ {u} : update[v].page = a => update[v].at = "unused"
    BY <1>t, <2>2 DEF OwnPending
  <2> HIDE DEF a
  <2>5. OwnKind'
    <3> SUFFICES ASSUME NEW p \in Pages \ astray', NEW v \in Updates,
                        update'[v].at # "unused", update'[v].page = p
                 PROVE  update'[v].of.kind = "delete" <=> dialog'[p].kind = "delete"
      BY DEF OwnKind
    <3>1. update[v].at # "unused" /\ update[v].page = p /\ update'[v].of.kind = update[v].of.kind
      BY <2>1, <2>2 DEF a
    <3>2. p \in Pages \ astray
      BY <2>1
    <3> QED BY <1>o, <2>3, <3>1, <3>2 DEF OwnKind
  <2>6. ASSUME NEW p \in Pages \ astray', NEW v \in Updates,
               update'[v].at = "sent", update'[v].page = p
        PROVE  p \notin update'[v].of.met
    <3>1. v # u /\ p \in Pages \ astray
      BY <2>1, <2>6
    <3>2. update[v].at = "sent" /\ update[v].page = p
      BY <2>1, <2>6, <3>1
    <3>3. p # a
      BY <2>4, <3>1, <3>2
    <3>4. p \notin update[v].of.met
      BY <1>o, <3>1, <3>2 DEF NotOwn
    <3> QED BY <2>1, <3>1, <3>2, <3>3, <3>4
  <2>7. ASSUME NEW p \in Pages \ astray', dialog'[p] # NoDialog,
               \A v \in Updates : update'[v].page = p => update'[v].at \notin {"applied", "settling"}
        PROVE  p \notin dialog'[p].met
    <3>1. p \in Pages \ astray /\ p # a
      BY <2>1, <2>7
    <3>2. \A v \in Updates : update[v].page = p => update[v].at \notin {"applied", "settling"}
      BY <2>1, <2>2, <2>7
    <3>3. dialog[p] # NoDialog /\ dialog'[p].met = dialog[p].met \cup {a}
      BY <2>2, <2>7
    <3>4. p \notin dialog[p].met
      BY <1>o, <3>1, <3>2, <3>3 DEF NotOwn
    <3> QED BY <3>1, <3>3, <3>4
  <2>8. NotOwn'
    BY <2>6, <2>7 DEF NotOwn
  <2> QED BY <2>5, <2>8 DEF Own
<1>8. ASSUME NEW u \in Updates, Refused(u) PROVE Own'
  <2>1. /\ update[u].at = "sent" /\ update'[u].at = "unused"
        /\ \A v \in Updates \ {u} : update'[v] = update[v]
        /\ UNCHANGED <<dialog, astray>>
    BY <1>8, <1>t, NoUpdateType DEF Refused
  <2>2. \A v \in Updates : update[v].at \in {"applied", "settling"} => update'[v] = update[v]
    BY <2>1
  <2> QED BY <1>o, <2>1, <2>2 DEF Own, OwnKind, NotOwn
<1>9. ASSUME NEW u \in Updates, AnswerArrives(u) PROVE Own'
  <2>1. update' = [update EXCEPT ![u] = [update[u] EXCEPT !.at = "settling"]]
        /\ update[u].at = "applied" /\ UNCHANGED <<dialog, astray>>
    BY <1>9 DEF AnswerArrives
  <2>2. /\ update'[u].at = "settling" /\ update'[u].page = update[u].page
        /\ update'[u].of = update[u].of
        /\ \A v \in Updates \ {u} : update'[v] = update[v]
    BY <1>t, <2>1 DEF UpdateCalls
  <2> QED BY <1>o, <2>1, <2>2 DEF Own, OwnKind, NotOwn
<1>10. ASSUME NEW u \in Updates, Settles(u) PROVE Own'
  <2> DEFINE a == update[u].page
  <2>1. /\ update[u].at = "settling" /\ update'[u].at = "unused"
        /\ \A v \in Updates \ {u} : update'[v] = update[v]
        /\ a \in Pages /\ UNCHANGED astray
        /\ \A q \in Pages \ {a} : dialog'[q] = dialog[q]
        /\ (update[u].of.kind = "delete" <=> dialog[a].kind = "delete") => dialog'[a] = NoDialog
    BY <1>10, <1>t, NoUpdateType DEF Settles, RulesInv, Addressed
  <2>2. a \notin astray => dialog'[a] = NoDialog
    BY <1>o, <2>1 DEF OwnKind
  <2>3. a \notin astray =>
          \A v \in Updates \ {u} : update[v].page = a => update[v].at = "unused"
    BY <1>t, <2>1 DEF OwnPending
  <2> HIDE DEF a
  <2>4. OwnKind'
    BY <1>o, <2>1, <2>2, <2>3 DEF OwnKind
  <2>5. NotOwn'
    <3>1. \A p \in Pages \ astray, v \in Updates :
            update'[v].at = "sent" /\ update'[v].page = p => p \notin update'[v].of.met
      BY <1>o, <2>1 DEF NotOwn
    <3>2. ASSUME NEW p \in Pages \ astray, dialog'[p] # NoDialog,
                 \A v \in Updates : update'[v].page = p => update'[v].at \notin {"applied", "settling"}
          PROVE  p \notin dialog'[p].met
      <4>1. p # a /\ dialog'[p] = dialog[p]
        BY <2>1, <2>2, <3>2
      <4>2. \A v \in Updates : update[v].page = p => update[v].at \notin {"applied", "settling"}
        BY <2>1, <3>2, <4>1 DEF a
      <4> QED BY <1>o, <3>2, <4>1, <4>2 DEF NotOwn
    <3> QED BY <2>1, <3>1, <3>2 DEF NotOwn
  <2> QED BY <2>4, <2>5 DEF Own
<1>11. CASE UNCHANGED vars
  BY <1>1, <1>11 DEF vars, pageVars
<1> QED BY <1>2, <1>3, <1>4, <1>5, <1>6, <1>7, <1>8, <1>9, <1>10, <1>11 DEF Next

-------------------------------------------------------------------------------

\* What the result rests on.
TargetInv == WritesInv /\ ListsDistinct /\ SeenIsCurrent /\ Aimed /\ Own

LEMMA TargetInit == Init => TargetInv
<1> SUFFICES ASSUME Init PROVE TargetInv
  OBVIOUS
<1>1. WritesInv
  BY WritesInit
<1>2. ListsDistinct
  BY NoListsDistinct DEF Init, ListsDistinct, Distinct, IdleFetch, NoUpdate
<1>3. SeenIsCurrent /\ Aimed /\ Own
  BY DEF Init, SeenIsCurrent, Aimed, Own, OwnKind, NotOwn, IdleFetch, NoUpdate
<1> QED BY <1>1, <1>2, <1>3 DEF TargetInv

LEMMA TargetStep == TargetInv /\ [Next]_vars => TargetInv'
<1> SUFFICES ASSUME TargetInv, [Next]_vars PROVE TargetInv'
  OBVIOUS
<1>1. WritesInv /\ RulesInv /\ ListsDistinct /\ SeenIsCurrent /\ Aimed /\ Own
  BY DEF TargetInv, WritesInv
<1>2. WritesInv' /\ ListsDistinct' /\ SeenIsCurrent' /\ Aimed' /\ Own'
  BY <1>1, WritesStep, DistinctStep, SeenStep, AimedStep, OwnStep
<1> QED BY <1>2 DEF TargetInv

\* However many pages edit the group, and whatever polls, failures and lost answers come
\* between: an update that no other page came behind does what its user meant.
THEOREM UpdatesHitTheirTarget == Spec => TargetedOnly
<1>1. ASSUME TargetInv, [Next]_vars, NEW u \in Updates,
             update[u].at = "sent", update'[u].at = "applied",
             update[u].page \notin astray, update[u].of.met \subseteq {update[u].page}
      PROVE  rules' = Intended(rules, update[u].of, update[u].rule)
  <2> DEFINE g == update[u].of
  <2>1. Serve(u)
    <3>1. RulesInv /\ update \in [Updates -> UpdateCalls]
      BY <1>1, TypesByName DEF TargetInv, WritesInv, RulesInv
    <3>2. update'[u] # update[u]
      BY <1>1
    <3>3. ASSUME NEW v \in Updates, Serve(v) \/ AnswerLost(v) PROVE v = u /\ Serve(u)
      <4>1. v = u
        BY <1>1, <3>1, <3>3, ServeEffect
      <4>2. ~AnswerLost(u)
        BY <1>1, <3>1, NoUpdateType, OvertakenTypes, ApplyTypes DEF AnswerLost
      <4> QED BY <3>3, <4>1, <4>2
    <3>4. ASSUME NEW v \in Updates, Refused(v) \/ AnswerArrives(v) \/ Settles(v) PROVE FALSE
      BY <1>1, <3>1, <3>4, NoUpdateType DEF Refused, AnswerArrives, Settles, UpdateCalls
    <3>5. ASSUME NEW p \in Pages, NEW v \in Updates, NEW r \in Rules \cup {None}, Submits(p, v, r)
          PROVE  FALSE
      BY <1>1, <3>1, <3>5, SubmitEffect
    <3>6. ASSUME UNCHANGED update PROVE FALSE
      BY <1>1, <3>6
    <3>7. ASSUME NEW p \in Pages,
                 \/ Polls(p) \/ FetchServed(p) \/ FetchArrives(p) \/ FetchFails(p)
                 \/ ClosesDialog(p) \/ ClosesEarly(p)
          PROVE  FALSE
      BY <3>6, <3>7
         DEF Polls, FetchServed, FetchArrives, FetchFails, ClosesDialog, ClosesEarly
    <3>8. ASSUME NEW p \in Pages, NEW k, NEW d, NEW i, OpensDialog(p, k, d, i) PROVE FALSE
      BY <3>6, <3>8 DEF OpensDialog
    <3>9. ~(UNCHANGED vars)
      BY <3>6 DEF vars
    <3> QED BY <1>1, <3>3, <3>4, <3>5, <3>7, <3>8, <3>9 DEF Next
  <2>2. RulesInv /\ Apply(u) /\ rules \in Lists /\ update[u] \in UpdateCalls /\ g \in Dialogs
    BY <1>1, <2>1, TypesByName DEF TargetInv, WritesInv, RulesInv, Serve, UpdateCalls
  <2>3. rules' = update[u].lists /\ update[u].page \in Pages
    BY <2>2, ApplyEffect
  <2>4. g.met = {}
    BY <1>1, <2>3 DEF TargetInv, Own, NotOwn
  <2>5. /\ g.kind # "none" /\ g.dir \in Dirs /\ OnTarget(rules, g)
        /\ update[u].lists = [rules EXCEPT ![g.dir] = Edited(rules[g.dir], g, update[u].rule)]
    BY <1>1, <2>4 DEF TargetInv, Aimed
  <2>6. IsInjective(rules[g.dir])
    BY <1>1, <2>5 DEF TargetInv, ListsDistinct, Distinct
  <2> HIDE DEF g
  <2>7. [rules EXCEPT ![g.dir] = Edited(rules[g.dir], g, update[u].rule)]
          = Intended(rules, g, update[u].rule)
    BY <2>2, <2>5, <2>6, EditedIsIntended
  <2> QED BY <2>3, <2>5, <2>7 DEF g
<1>2. TargetInv /\ [Next]_vars
        => [\A u \in Updates :
              LET p == update[u].page IN
              Applies(u) /\ p \notin astray /\ update[u].of.met \subseteq {p}
                => rules' = Intended(rules, update[u].of, update[u].rule)]_vars
  BY <1>1 DEF Applies
<1> QED BY TargetInit, TargetStep, <1>2, PTL DEF Spec, TargetedOnly
===============================================================================
