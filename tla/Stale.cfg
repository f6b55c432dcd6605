SPECIFICATION StaleSpec
CONSTANTS
  Pages = {p1}
  Dirs = {"ingress"}
  Rules = {r1, r2, r3}
  Updates = {u1, u2}
  None = None
  MaxRules = 2
  Faults = {"refused", "lost", "fetchFails", "closesEarly"}
  Fields = {"description"}
  Values = {a, b}
  OmitsDescription = TRUE
  MaxVersion = 3
  MaxForms = 2
  Planners = {q1, q2}
  Bits = 2
  Size <- PowersOfTwo
  Network <- LowerHalf
  MaxSubnets = 2
  NoRequest = NoRequest
  Calls = {g1, g2}
  Keys = {k1}
  Documents = {d1, d2}
  Retried = {k1}
  TTL = 2
  Timeout = 1
  MaxTime = 5
  NoDocument = NoDocument
SYMMETRY Symmetry
INVARIANTS
  StaleTypeOK
  InsideNetwork OverlapsWereUnseen
PROPERTIES
  TargetedOnly ReadYourWrites
  OnlyPolledIsReverted
  AnswersAreRecent
CHECK_DEADLOCK FALSE
