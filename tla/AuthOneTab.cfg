SPECIFICATION FairSpec
CONSTANTS
  Tabs = {t1}
  Grants = {g1, g2}
  Flows = {f1, f2}
  None = None
  Rotates = FALSE
  Faults <- FaultNames
INVARIANT TypeOK
PROPERTIES LoadSettles
