SPECIFICATION Spec
CONSTANTS
  Tabs = {t1, t2}
  VMs = {v1}
  Attempts = {a1, a2, a3, a4}
  None = None
  t1 = t1
  t2 = t2
  v1 = v1
  a1 = a1
  a2 = a2
  a3 = a3
  a4 = a4
  MaxClears = 1
  Faults <- NoFaults
SYMMETRY Symmetry
PROPERTY PlainConnectDisturbsNobody
