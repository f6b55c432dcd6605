-------------------------------- MODULE MCStale --------------------------------
(***************************************************************************)
(* Four parts of the system that decide on what they read earlier, checked *)
(* one after the other: they share no state, a behaviour chooses its part  *)
(* first, and the others stay in their initial states.                     *)
(***************************************************************************)
EXTENDS SecurityGroupRules, StorageEdit, SubnetPlan, DiscoveryCache

VARIABLE part

PowersOfTwo == [m \in 0 .. Bits |-> 2 ^ (Bits - m)]

\* The lower half of the addresses, written with a host bit.
LowerHalf == [addr |-> 1, mask |-> 1]

Symmetry ==
  Permutations(Pages) \cup Permutations(Rules) \cup Permutations(Updates)
    \cup Permutations(Planners) \cup Permutations(Calls)

staleVars == <<vars, editVars, planVars, discoveryVars, part>>

StaleInit ==
  /\ part \in {"rules", "edit", "plan", "discovery"}
  /\ Init /\ EditInit /\ PlanInit /\ DiscoveryInit
  \* Of the initial states of the other parts one is enough.
  /\ part # "rules" => \A d \in Dirs : rules[d] = <<>>
  /\ part # "edit" => form = [f \in Fields |-> CHOOSE v \in Values : TRUE]
  /\ part # "discovery" => upstream = [k \in Keys |-> CHOOSE d \in Documents : TRUE]

StaleNext ==
  \/ part = "rules" /\ Next /\ UNCHANGED <<editVars, planVars, discoveryVars, part>>
  \/ part = "edit" /\ EditNext /\ UNCHANGED <<vars, planVars, discoveryVars, part>>
  \/ part = "plan" /\ PlanNext /\ UNCHANGED <<vars, editVars, discoveryVars, part>>
  \/ part = "discovery" /\ DiscoveryNext /\ UNCHANGED <<vars, editVars, planVars, part>>

\* The state of every part is of its types: no stale index, list or version makes a
\* record, a rule list or a plan the code could not handle.
StaleTypeOK == TypeOK /\ EditTypeOK /\ PlanTypeOK /\ DiscoveryTypeOK

StaleSpec == StaleInit /\ [][StaleNext]_staleVars
===============================================================================
