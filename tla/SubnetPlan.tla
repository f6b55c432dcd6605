------------------------------ MODULE SubnetPlan ------------------------------
(***************************************************************************)
(* Creating subnets of a virtual network: SubnetCreateModal checks a block *)
(* against the network and against the subnets its page has listed         *)
(* (isSubnetWithinVN, hasSubnetOverlap); the list is polled, empty until   *)
(* it is loaded, and read again after a create.  Several pages create      *)
(* subnets of the same network; what the service checks is left open.      *)
(***************************************************************************)
EXTENDS Naturals, FiniteSets

CONSTANTS
  Planners,
  Bits,       \* of an address: 32 or 128
  Size,       \* Size[m]: how many addresses a prefix of m bits leaves, 2^(Bits - m)
  MaxSubnets, \* bound on the subnets ever created
  NoRequest,
  Network     \* the network's CIDR

ASSUME SizeAssumption ==
  /\ Bits \in Nat
  /\ Size \in [0 .. Bits -> Nat \ {0}]
  /\ \A m, n \in 0 .. Bits : m < n => Size[n] < Size[m]

Ids == 1 .. MaxSubnets

-------------------------------------------------------------------------------
(* Blocks of addresses. *)

\* A CIDR as it is written: the address may have host bits.
Cidrs == [addr : 0 .. Size[0] - 1, mask : 0 .. Bits]

ASSUME PlanAssumption ==
  /\ Network \in Cidrs /\ MaxSubnets \in Nat

StartAddress(c) == c.addr - (c.addr % Size[c.mask])
EndAddress(c) == StartAddress(c) + Size[c.mask] - 1

\* (Bug: the end of the range is not looked at, nor the prefix.)
StartsWithinVN(c, vn) ==
  StartAddress(c) >= StartAddress(vn) /\ StartAddress(c) <= EndAddress(vn)

IsSubnetWithinVN(c, vn) ==
  /\ c.mask >= vn.mask
  /\ StartAddress(c) >= StartAddress(vn) /\ EndAddress(c) <= EndAddress(vn)

\* (Bug: a block that encloses an existing one goes unnoticed.)
StartsInside(c, d) ==
  StartAddress(c) <= EndAddress(d) /\ StartAddress(c) >= StartAddress(d)

HasOverlap(c, d) ==
  StartAddress(c) <= EndAddress(d) /\ EndAddress(c) >= StartAddress(d)

-------------------------------------------------------------------------------
VARIABLES
  plan,      \* per subnet: its CIDR, and the subnets that its page knew of
  made,      \* how many subnets were created
  existing,  \* those that have not been deleted
  seen,      \* per page: the subnets of its list
  planDialog,    \* per page: "closed", "editing" or "submitting"
  request    \* per page: the create it waits for

planVars == <<plan, made, existing, seen, planDialog, request>>

Plans == [cidr : Cidrs, knew : SUBSET Ids]

PlanTypeOK ==
  /\ made \in 0 .. MaxSubnets
  /\ plan \in [1 .. made -> Plans]
  /\ existing \subseteq 1 .. made
  /\ seen \in [Planners -> SUBSET (1 .. made)]
  /\ planDialog \in [Planners -> {"closed", "editing", "submitting"}]
  /\ request \in [Planners -> [plan : Plans, answer : {"out", "yes", "no"}] \cup {NoRequest}]

PlanInit ==
  /\ plan = <<>> /\ made = 0 /\ existing = {}
  /\ seen = [p \in Planners |-> {}]
  /\ planDialog = [p \in Planners |-> "closed"]
  /\ request = [p \in Planners |-> NoRequest]

serverVars == <<plan, made, existing>>

Goto(p, d) == planDialog' = [planDialog EXCEPT ![p] = d]

OpenDialog(p) ==
  /\ planDialog[p] = "closed" /\ Goto(p, "editing")
  /\ UNCHANGED <<serverVars, seen, request>>

CloseDialog(p) ==
  /\ planDialog[p] = "editing" /\ Goto(p, "closed")
  /\ UNCHANGED <<serverVars, seen, request>>

\* The schema: within the network, and over none of the listed subnets.
Valid(p, c) ==
  /\ IsSubnetWithinVN(c, Network)
  /\ \A i \in seen[p] : ~HasOverlap(c, plan[i].cidr)

Submit(p, c) ==
  /\ planDialog[p] = "editing" /\ Valid(p, c)
  /\ Goto(p, "submitting")
  /\ request' = [request EXCEPT
       ![p] = [plan |-> [cidr |-> c, knew |-> seen[p]], answer |-> "out"]]
  /\ UNCHANGED <<serverVars, seen>>

Answer(p, a) == request' = [request EXCEPT ![p].answer = a]

\* The service creates the subnet; its answer arrives, or is lost.
ServeSubnet(p) ==
  /\ request[p] # NoRequest /\ request[p].answer = "out" /\ made < MaxSubnets
  /\ made' = made + 1
  /\ plan' = [i \in 1 .. made + 1 |-> IF i = made + 1 THEN request[p].plan ELSE plan[i]]
  /\ existing' = existing \cup {made + 1}
  /\ Answer(p, "yes") \/ Answer(p, "no")
  /\ UNCHANGED <<seen, planDialog>>

RefuseSubnet(p) ==
  /\ request[p] # NoRequest /\ request[p].answer = "out"
  /\ Answer(p, "no")
  /\ UNCHANGED <<serverVars, seen, planDialog>>

\* The list is read again, or that fails, before the planDialog closes.
SubnetCreated(p) ==
  /\ request[p] # NoRequest /\ request[p].answer = "yes"
  /\ seen' = [seen EXCEPT ![p] = existing] \/ UNCHANGED seen
  /\ Goto(p, "closed")
  /\ request' = [request EXCEPT ![p] = NoRequest]
  /\ UNCHANGED serverVars

SubnetRefused(p) ==
  /\ request[p] # NoRequest /\ request[p].answer = "no"
  /\ Goto(p, "editing")
  /\ request' = [request EXCEPT ![p] = NoRequest]
  /\ UNCHANGED <<serverVars, seen>>

\* The first load and the polls; one that fails leaves the list what it was, empty
\* if it was never loaded.
PollList(p) ==
  /\ seen' = [seen EXCEPT ![p] = existing]
  /\ UNCHANGED <<serverVars, planDialog, request>>

DeletedElsewhere(i) ==
  /\ i \in existing /\ existing' = existing \ {i}
  /\ UNCHANGED <<plan, made, seen, planDialog, request>>

PlanNext ==
  \/ \E p \in Planners :
       \/ OpenDialog(p) \/ CloseDialog(p) \/ (\E c \in Cidrs : Submit(p, c))
       \/ ServeSubnet(p) \/ RefuseSubnet(p) \/ SubnetCreated(p) \/ SubnetRefused(p)
       \/ PollList(p)
  \/ \E i \in existing : DeletedElsewhere(i)

PlanSpec == PlanInit /\ [][PlanNext]_planVars

-------------------------------------------------------------------------------
Addresses(c) == StartAddress(c) .. EndAddress(c)

\* Every subnet made here lies, address by address, inside its network, host bits
\* and prefixes of any length included (isSubnetWithinVN).
InsideNetwork == \A i \in existing : Addresses(plan[i].cidr) \subseteq Addresses(Network)

\* Two subnets share an address only if neither page had the other one in its list
\* when it was submitted: the check misses no overlap it could see, whichever block
\* encloses the other (hasSubnetOverlap).
OverlapsWereUnseen ==
  \A i, j \in existing :
    i # j /\ Addresses(plan[i].cidr) \cap Addresses(plan[j].cidr) # {}
      => i \notin plan[j].knew
===============================================================================
