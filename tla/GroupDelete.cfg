SPECIFICATION Spec
CONSTANTS
  Pages = {p1, p2}
  Dirs = {"ingress"}
  Rules = {r1, r2, r3}
  Updates = {u1, u2}
  None = None
  MaxRules = 2
  Faults = {}
SYMMETRY Symmetry
PROPERTY DeleteRemovesItsRule
