---------------------------- MODULE MCAuthSession -----------------------------
(* Small instances of AuthSession for TLC. *)
EXTENDS AuthSession, TLC

\* Tabs, grants and flows are interchangeable.
Symmetry == Permutations(Tabs) \cup Permutations(Grants) \cup Permutations(Flows)

GrantsAndFlows == Permutations(Grants) \cup Permutations(Flows)
===============================================================================
