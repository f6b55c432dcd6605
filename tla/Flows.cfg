SPECIFICATION FlowSpec
CONSTANTS
  Dialogs = {d1, d2}
  Ips = {i1, i2}
  None = None
  MaxPolls = 2
  Faults = {"refusals", "losses", "closes"}
  Sockets = {s1, s2, s3}
  NoSocket = NoSocket
  MaxFrames = 4
  Items = {c1, c2}
  NoItem = NoItem
  Linked = c1
  LastStep = 4
  MaxCreates = 2
  Projects = {p1}
  Filters = {f1}
INVARIANTS
  FlowTypeOK
  NothingLeftBehind SuccessIsAttached
  OnlyTheShownIsLive NoStartIsLost
  WrittenInOrder
  UncheckedWasRetouched MadeOnce
PROPERTIES
  OnlyUnseenIsUndone MutationEnds
  ConnectedEndsByDisconnect ViewerSettles
  EveryFrameIsShown OpenIsNoticed
  PollsDoNotRefill CreateEnds
  SelectionReachesUrl
CHECK_DEADLOCK FALSE
