-------------------------- MODULE ConsoleLeaseProofs --------------------------
(* The abstract lease is exclusive, for any clients and resources. *)
EXTENDS ConsoleLease, TLAPS

\* The lease's variables keep their types.
THEOREM LeaseTypes == LeaseSpec => []LeaseTypeOK
<1>1. LeaseInit => LeaseTypeOK
  BY DEF LeaseInit, LeaseTypeOK
<1>2. LeaseTypeOK /\ [LeaseNext]_leaseVars => LeaseTypeOK'
  <2> SUFFICES ASSUME LeaseTypeOK, [LeaseNext]_leaseVars PROVE LeaseTypeOK'
    OBVIOUS
  <2>1. ASSUME NEW c \in Clients, NEW r \in Resources, NEW f \in BOOLEAN, Ask(c, r, f)
        PROVE LeaseTypeOK'
    BY <2>1 DEF LeaseTypeOK, Ask
  <2>2. ASSUME NEW c \in Clients, Take(c) PROVE LeaseTypeOK'
    BY <2>2 DEF LeaseTypeOK, Take
  <2>3. ASSUME NEW S \in SUBSET Clients, Leave(S) PROVE LeaseTypeOK'
    BY <2>3 DEF LeaseTypeOK, Leave
  <2>4. CASE UNCHANGED leaseVars
    BY <2>4 DEF LeaseTypeOK, leaseVars
  <2> QED BY <2>1, <2>2, <2>3, <2>4 DEF LeaseNext
<1> QED BY <1>1, <1>2, PTL DEF LeaseSpec

\* A client that asks has named its resource, and thus one Take changes one
\* resource: with the types, this makes exclusion inductive.
LeaseInv ==
  /\ LeaseTypeOK
  /\ \A c \in Clients : status[c] # "new" => wanted[c] \in Resources
  /\ LeaseExclusive

\* The holder of a resource is the one client that holds it: nobody holds
\* twice, and no client that was robbed or is out holds anything.
THEOREM LeaseIsExclusive ==
  ASSUME Nobody \notin Clients
  PROVE  LeaseSpec => []LeaseExclusive
<1>1. LeaseInit => LeaseInv
  BY DEF LeaseInit, LeaseInv, LeaseTypeOK, LeaseExclusive
<1>2. LeaseInv /\ [LeaseNext]_leaseVars => LeaseInv'
  <2> SUFFICES ASSUME LeaseInv, [LeaseNext]_leaseVars PROVE LeaseInv'
    OBVIOUS
  <2>1. ASSUME NEW c \in Clients, NEW r \in Resources, NEW f \in BOOLEAN, Ask(c, r, f)
        PROVE LeaseInv'
    BY <2>1 DEF LeaseInv, LeaseTypeOK, LeaseExclusive, Ask
  <2>2. ASSUME NEW c \in Clients, Take(c) PROVE LeaseInv'
    <3>1. wanted[c] \in Resources
      BY <2>2 DEF LeaseInv, Take
    <3>2. LeaseTypeOK' /\ \A d \in Clients : status'[d] # "new" => wanted'[d] \in Resources
      BY <2>2, <3>1 DEF LeaseInv, LeaseTypeOK, LeaseExclusive, Take
    <3>3. LeaseExclusive'
      BY <2>2, <3>1 DEF LeaseInv, LeaseTypeOK, LeaseExclusive, Take
    <3> QED BY <3>2, <3>3 DEF LeaseInv
  <2>3. ASSUME NEW S \in SUBSET Clients, Leave(S) PROVE LeaseInv'
    BY <2>3 DEF LeaseInv, LeaseTypeOK, LeaseExclusive, Leave
  <2>4. CASE UNCHANGED leaseVars
    BY <2>4 DEF LeaseInv, LeaseTypeOK, LeaseExclusive, leaseVars
  <2> QED BY <2>1, <2>2, <2>3, <2>4 DEF LeaseNext
<1>3. LeaseInv => LeaseExclusive
  BY DEF LeaseInv
<1> QED BY <1>1, <1>2, <1>3, PTL DEF LeaseSpec
===============================================================================
