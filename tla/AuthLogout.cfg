SPECIFICATION Spec
CONSTANTS
  Tabs = {t1}
  Grants = {g1, g2}
  Flows = {f1}
  None = None
  Rotates = TRUE
  Faults = {}
PROPERTY LogoutEndsProviderSession
