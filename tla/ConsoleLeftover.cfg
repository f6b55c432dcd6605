SPECIFICATION Spec
CONSTANTS
  Tabs = {t1}
  VMs = {v1}
  Attempts = {a1}
  None = None
  t1 = t1
  v1 = v1
  a1 = a1
  MaxClears = 1
  Faults <- NoFaults
SYMMETRY Symmetry
INVARIANT TicketGoneWhenUnmounted
