SPECIFICATION Spec
CONSTANTS
  Tabs = {t1, t2}
  VMs = {v1}
  Attempts = {a1, a2, a3}
  None = None
  t1 = t1
  t2 = t2
  v1 = v1
  a1 = a1
  a2 = a2
  a3 = a3
  MaxClears = 1
  Faults <- AllFaults
SYMMETRY Symmetry
INVARIANT TypeOK
INVARIANT LockHasLiveHolder
INVARIANT LockKeepsTabsApart
INVARIANT FailedKeepsNothing
INVARIANT NoStraySocket
PROPERTY LockLostOnlyByReleaseOrSteal
PROPERTY ViewerErrorStays
PROPERTY OnlyOwnFailureShows
PROPERTY ImplementsLease
