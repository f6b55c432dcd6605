----------------------------- MODULE ConsoleLease -----------------------------
(***************************************************************************)
(* What the per-resource Web Lock promises the console hook: an exclusive, *)
(* stealable lease.  A client asks for a resource once; it holds it alone; *)
(* it loses it by leaving or to a client that came to steal; and a client  *)
(* that is out, or was robbed, never holds anything again.                 *)
(***************************************************************************)
CONSTANTS
  Clients,
  Resources,
  Nobody     \* not a client

VARIABLES
  status,    \* per client: "new", "asking", "holding", "robbed" or "out"
  wanted,    \* per client: the resource it asked for
  thief,     \* per client: it may steal
  holder     \* per resource: the client that holds it

leaseVars == <<status, wanted, thief, holder>>

LeaseTypeOK ==
  /\ status \in [Clients -> {"new", "asking", "holding", "robbed", "out"}]
  /\ wanted \in [Clients -> Resources \cup {Nobody}]
  /\ thief \in [Clients -> BOOLEAN]
  /\ holder \in [Resources -> Clients \cup {Nobody}]

LeaseInit ==
  /\ status = [c \in Clients |-> "new"]
  /\ wanted = [c \in Clients |-> Nobody]
  /\ thief = [c \in Clients |-> FALSE]
  /\ holder = [r \in Resources |-> Nobody]

Ask(c, r, f) ==
  /\ status[c] = "new"
  /\ status' = [status EXCEPT ![c] = "asking"]
  /\ wanted' = [wanted EXCEPT ![c] = r]
  /\ thief' = [thief EXCEPT ![c] = f]
  /\ UNCHANGED holder

\* The resource is free, or the client steals it from whoever holds it.
Take(c) ==
  /\ status[c] = "asking"
  /\ thief[c] \/ holder[wanted[c]] = Nobody
  /\ status' = [d \in Clients |-> IF d = c THEN "holding"
                                  ELSE IF d = holder[wanted[c]] THEN "robbed"
                                  ELSE status[d]]
  /\ holder' = [holder EXCEPT ![wanted[c]] = c]
  /\ UNCHANGED <<wanted, thief>>

\* A closed tab takes all its clients along; otherwise S is one client.
Leave(S) ==
  /\ \A c \in S : status[c] # "new"
  /\ status' = [c \in Clients |-> IF c \in S THEN "out" ELSE status[c]]
  /\ holder' = [r \in Resources |-> IF holder[r] \in S THEN Nobody ELSE holder[r]]
  /\ UNCHANGED <<wanted, thief>>

LeaseNext ==
  \/ \E c \in Clients, r \in Resources, f \in BOOLEAN : Ask(c, r, f)
  \/ \E c \in Clients : Take(c)
  \/ \E S \in SUBSET Clients : Leave(S)

LeaseSpec == LeaseInit /\ [][LeaseNext]_leaseVars

\* The holder of a resource and the clients that hold one agree: nobody holds
\* twice, no two clients hold one resource, and no one who is out holds it.
LeaseExclusive ==
  \A c \in Clients, r \in Resources :
    holder[r] = c <=> status[c] = "holding" /\ wanted[c] = r
===============================================================================
