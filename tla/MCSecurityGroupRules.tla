------------------------- MODULE MCSecurityGroupRules -------------------------
(* Small instances of SecurityGroupRules for TLC. *)
EXTENDS SecurityGroupRules

\* Pages, rules and update calls are interchangeable.
Symmetry == Permutations(Pages) \cup Permutations(Rules) \cup Permutations(Updates)
===============================================================================
