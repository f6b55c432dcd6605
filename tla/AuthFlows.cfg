SPECIFICATION Spec
CONSTANTS
  Tabs = {t1, t2}
  Grants = {g1, g2}
  Flows = {f1, f2}
  None = None
  Rotates = TRUE
  Faults = {"tokenFails", "discoveryFails"}
SYMMETRY Symmetry
PROPERTIES FlowsApart LiveSessionLostForAReason
