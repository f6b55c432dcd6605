------------------------- MODULE ConsoleSessionProofs -------------------------
(***************************************************************************)
(* Type correctness and the lock and socket discipline of ConsoleSession,  *)
(* for any number of tabs, VMs and connect attempts.                       *)
(***************************************************************************)
EXTENDS ConsoleSession, TLAPS

USE DEF tabVars, callVars, attemptVars, sharedVars, serverVars

\* The arithmetic of the clear counter, kept apart from everything else.
LEMMA SendClearType ==
  ASSUME clears \in 0..MaxClears, SendClear
  PROVE  clears' \in 0..MaxClears
BY BoundAssumption DEF SendClear

LEMMA ClearCounted ==
  ASSUME clears \in 0..MaxClears, clears > 0, clears' = clears - 1
  PROVE  clears' \in 0..MaxClears
BY BoundAssumption

\* Releasing a handle keeps the lock table's type.
LEMMA ReleaseLockType ==
  ASSUME TypeOK, NEW t \in Tabs, ReleaseLock(t)
  PROVE  /\ lock' \in [VMs -> Attempts \cup {None}]
         /\ lockRef' \in [Tabs -> Attempts \cup {None}]
BY DEF TypeOK, ReleaseLock, Freed

LEMMA CloseSocketType ==
  ASSUME TypeOK, NEW t \in Tabs, CloseSocket(t)
  PROVE  /\ socketRef' \in [Tabs -> Attempts \cup {None}]
         /\ sock' \in [Attempts -> SockStates]
BY DEF TypeOK, CloseSocket, Closing, SockStates

LEMMA StartAttemptType ==
  ASSUME TypeOK, NEW t \in Tabs, NEW f \in BOOLEAN, NEW a \in Attempts,
         StartAttempt(t, f, a), view[t] # "none", view' = [view EXCEPT ![t] = "shown"]
  PROVE  TypeOK'
<1>1. /\ lock' \in [VMs -> Attempts \cup {None}]
      /\ lockRef' \in [Tabs -> Attempts \cup {None}]
  BY ReleaseLockType DEF StartAttempt
<1>2. vm[t] \in VMs
  BY DEF TypeOK, MadeByAView
<1>3. MadeByAView'
  BY <1>2 DEF TypeOK, MadeByAView, StartAttempt
<1> QED BY <1>1, <1>3 DEF TypeOK, StartAttempt, ConnStates, ErrorKinds, Stages

LEMMA ReportViewerErrorType ==
  ASSUME TypeOK, NEW t \in Tabs, ReportViewerError(t), view[t] # "none",
         view' = view \/ view' = [view EXCEPT ![t] = "shown"]
  PROVE  TypeOK'
<1>1. /\ lock' \in [VMs -> Attempts \cup {None}]
      /\ lockRef' \in [Tabs -> Attempts \cup {None}]
  BY ReleaseLockType DEF ReportViewerError
<1>2. /\ socketRef' \in [Tabs -> Attempts \cup {None}]
      /\ sock' \in [Attempts -> SockStates]
  BY CloseSocketType DEF ReportViewerError
<1>3. clears' \in 0..MaxClears
  BY SendClearType DEF ReportViewerError, TypeOK
<1>4. MadeByAView'
  BY DEF TypeOK, MadeByAView, ReportViewerError
<1> QED BY <1>1, <1>2, <1>3, <1>4 DEF TypeOK, ReportViewerError, ShowError, ConnStates, ErrorKinds

LEMMA TypeStep == TypeOK /\ [Next]_vars => TypeOK'
<1> SUFFICES ASSUME TypeOK, [Next]_vars PROVE TypeOK'
  OBVIOUS
<1>1. ASSUME NEW t \in Tabs, NEW v \in VMs, Mount(t, v) PROVE TypeOK'
  <2>1. MadeByAView'
    BY <1>1, NoneAssumption DEF TypeOK, MadeByAView, Mount
  <2> QED BY <1>1, <2>1 DEF TypeOK, Mount, ConnStates, ErrorKinds
<1>2. ASSUME NEW t \in Tabs, Connect(t) PROVE TypeOK'
  <2>1. PICK a \in Attempts : StartAttempt(t, FALSE, a)
    BY <1>2 DEF Connect
  <2>2. view[t] # "none" /\ view' = [view EXCEPT ![t] = "shown"]
    BY <1>2 DEF Connect
  <2> QED BY <2>1, <2>2, StartAttemptType
<1>3. ASSUME NEW t \in Tabs, TakeOver(t) PROVE TypeOK'
  <2>1. PICK a \in Attempts : StartAttempt(t, TRUE, a)
    BY <1>3 DEF TakeOver
  <2>2. view[t] # "none" /\ view' = [view EXCEPT ![t] = "shown"]
    BY <1>3 DEF TakeOver, TypeOK
  <2> QED BY <2>1, <2>2, StartAttemptType
<1>4. ASSUME NEW t \in Tabs, ViewerLoadFails(t) \/ ViewerFails(t) PROVE TypeOK'
  BY <1>4, ReportViewerErrorType DEF ViewerLoadFails, ViewerFails, TypeOK
<1>5. ASSUME NEW t \in Tabs, Unmount(t) PROVE TypeOK'
  <2>1. /\ lock' \in [VMs -> Attempts \cup {None}]
        /\ lockRef' \in [Tabs -> Attempts \cup {None}]
    BY <1>5, ReleaseLockType DEF Unmount
  <2>2. /\ socketRef' \in [Tabs -> Attempts \cup {None}]
        /\ sock' \in [Attempts -> SockStates]
    BY <1>5, CloseSocketType DEF Unmount
  <2>3. clears' \in 0..MaxClears
    BY <1>5, SendClearType DEF Unmount, TypeOK
  <2>4. MadeByAView'
    BY <1>5 DEF TypeOK, MadeByAView, Unmount
  <2> QED BY <1>5, <2>1, <2>2, <2>3, <2>4 DEF TypeOK, Unmount, ConnStates, ErrorKinds
<1>6. ASSUME NEW t \in Tabs, TabCloses(t) PROVE TypeOK'
  <2>1. MadeByAView'
    <3>1. \A u \in Tabs : vm'[u] = None <=> view'[u] = "none"
      BY <1>6 DEF TypeOK, MadeByAView, TabCloses
    <3>2. \A a \in Attempts : stage'[a] = "unused" <=> stage[a] = "unused"
      BY <1>6, NoneAssumption DEF TypeOK, MadeByAView, TabCloses
    <3>3. tabOf' = tabOf /\ vmOf' = vmOf
      BY <1>6 DEF TabCloses
    <3> QED BY <3>1, <3>2, <3>3 DEF TypeOK, MadeByAView
  <2> QED BY <1>6, <2>1 DEF TypeOK, TabCloses, Closing, ConnStates, ErrorKinds, Stages, SockStates
<1>7. ASSUME NEW a \in Attempts,
             \/ LockReply(a) \/ LockRejected(a) \/ LockSuperseded(a)
             \/ LockDenied(a) \/ LockGranted(a)
      PROVE TypeOK'
  BY <1>7 DEF TypeOK, MadeByAView, LockReply, LockRejected, LockSuperseded, LockDenied, LockGranted, Freed,
              ShowError, ConnStates, ErrorKinds, Stages
<1>8. ASSUME NEW a \in Attempts,
             CreateReply(a) \/ CreateRefused(a) \/ CreateSuperseded(a) \/ OpenSocket(a)
      PROVE TypeOK'
  BY <1>8 DEF TypeOK, MadeByAView, CreateReply, CreateRefused, CreateSuperseded, OpenSocket,
              Stages, SockStates
<1>9. ASSUME NEW a \in Attempts, CreateFailed(a) PROVE TypeOK'
  <2>1. clears' \in 0..MaxClears
    BY <1>9, SendClearType DEF CreateFailed, TypeOK
  <2> QED BY <1>9, <2>1 DEF TypeOK, MadeByAView, CreateFailed, ReleaseLock, Freed, ShowError, Stages,
                          ConnStates, ErrorKinds
<1>10. ASSUME NEW a \in Attempts, HandshakeAccepted(a) PROVE TypeOK'
  <2>1. vmOf[cookie] \in VMs \cup {None}
    BY <1>10 DEF TypeOK, HandshakeAccepted
  <2>2. owner' \in [VMs -> Attempts \cup {None}] /\ reach' \in [Attempts -> VMs \cup {None}]
    BY <1>10, <2>1 DEF TypeOK, HandshakeAccepted
  <2>3. sock' \in [Attempts -> SockStates]
    BY <1>10, <2>1 DEF TypeOK, HandshakeAccepted, SockStates
  <2>4. UNCHANGED <<tabVars, stage, callVars, opened, sharedVars>>
    BY <1>10 DEF HandshakeAccepted
  <2> QED BY <2>2, <2>3, <2>4 DEF TypeOK, MadeByAView
<1>14. ASSUME NEW a \in Attempts, HandshakeRefused(a) PROVE TypeOK'
  BY <1>14 DEF TypeOK, MadeByAView, HandshakeRefused, SockStates
<1>15. ASSUME NEW a \in Attempts, OpenEvent(a) PROVE TypeOK'
  <2>1. opened' \in [Attempts -> BOOLEAN] /\ conn' \in [Tabs -> ConnStates]
    BY <1>15 DEF TypeOK, OpenEvent, ConnStates
  <2> QED BY <1>15, <2>1 DEF TypeOK, MadeByAView, OpenEvent, SockStates
<1>16. ASSUME NEW a \in Attempts, ConnectionDrops(a) PROVE TypeOK'
  BY <1>16 DEF TypeOK, MadeByAView, ConnectionDrops, Disowned, SockStates
<1>11. ASSUME NEW a \in Attempts, CloseEvent(a) PROVE TypeOK'
  <2>1. clears' \in 0..MaxClears
    BY <1>11, SendClearType DEF CloseEvent, TypeOK
  <2> QED BY <1>11, <2>1 DEF TypeOK, MadeByAView, CloseEvent, Disowned, ReleaseLock, Freed, ShowError,
                           SockStates, ConnStates, ErrorKinds
<1>12. CASE ClearArrives \/ ClearFails
  <2>1. clears' \in 0..MaxClears
    BY <1>12, ClearCounted DEF ClearArrives, ClearFails, TypeOK
  <2> QED BY <1>12, <2>1 DEF TypeOK, MadeByAView, ClearArrives, ClearFails
<1>13. CASE UNCHANGED vars
  BY <1>13 DEF TypeOK, MadeByAView, vars
<1> QED BY <1>1, <1>2, <1>3, <1>4, <1>5, <1>6, <1>7, <1>8, <1>9, <1>10, <1>11, <1>12, <1>13,
        <1>14, <1>15, <1>16 DEF Next

LEMMA TypeStart == Init => TypeOK
<1> SUFFICES ASSUME Init PROVE TypeOK
  OBVIOUS
<1>1. MadeByAView
  BY DEF Init, MadeByAView
<1>2. webLocks \in BOOLEAN
  BY DEF Init
<1> QED BY <1>1, <1>2, BoundAssumption DEF Init, TypeOK, ConnStates, ErrorKinds, Stages, SockStates

\* Every variable of the console keeps its type.
THEOREM ConsoleTypes == Spec => []TypeOK
<1> QED BY TypeStart, TypeStep, PTL DEF Spec

-------------------------------------------------------------------------------
(* The inductive invariant behind the lock and socket properties. *)

\* Attempts and tabs agree on who made what.
Bookkeeping ==
  /\ \A a \in Attempts : stage[a] = "unused" =>
       tabOf[a] = None /\ vmOf[a] = None /\ sock[a] = "none"
  /\ \A a \in Attempts : stage[a] # "unused" => tabOf[a] \in Tabs /\ vmOf[a] \in VMs
  /\ \A t \in Tabs : session[t] # None => tabOf[session[t]] = t
  /\ \A t \in Tabs : view[t] # "none" => vm[t] \in VMs
  /\ \A t \in Tabs : view[t] # "shown" => session[t] = None
  /\ \A a \in Attempts : sock[a] # "none" => stage[a] = "done"

\* The tab's latest attempt shows "connecting" until its async function ends.
Suspended == {"locking", "locked", "denied", "creating", "created", "refused"}
Pending ==
  \A t \in Tabs : session[t] # None /\ stage[session[t]] \in Suspended =>
    conn[t] = "connecting"

\* A lockRef and a socketRef belong to the latest, live attempt, at a point
\* where its code has set them.
RefsAreLive ==
  /\ \A t \in Tabs : lockRef[t] # None =>
       /\ session[t] = lockRef[t] /\ conn[t] \in {"connecting", "connected"}
       /\ stage[lockRef[t]] \in {"creating", "created", "refused", "done"}
  /\ \A t \in Tabs : socketRef[t] # None =>
       /\ session[t] = socketRef[t] /\ conn[t] \in {"connecting", "connected"}
       /\ sock[socketRef[t]] \in {"dialing", "admitted", "open", "ended"}

\* The browser's lock table and the open sockets are all accounted for.
HolderIsKnown ==
  \A v \in VMs : lock[v] # None =>
    /\ stage[lock[v]] # "unused" /\ vmOf[lock[v]] = v
    /\ stage[lock[v]] = "locked" \/ lockRef[tabOf[lock[v]]] = lock[v]

SocketIsKnown ==
  \A a \in Attempts : sock[a] \in {"dialing", "admitted", "open"} =>
    socketRef[tabOf[a]] = a

Discipline ==
  /\ TypeOK /\ Bookkeeping /\ Pending /\ RefsAreLive /\ HolderIsKnown /\ SocketIsKnown

\* In a browser with Web Locks a granted attempt holds its VM's lock until it is
\* robbed of it.
Granted(a) == stage[a] = "locked" \/ (tabOf[a] # None /\ lockRef[tabOf[a]] = a)
HoldsUnlessRobbed ==
  webLocks => \A a \in Attempts : Granted(a) => lock[vmOf[a]] = a \/ a \in robbed

\* attemptConnect keeps the discipline when it starts from a tab with no refs.
LEMMA StartAttemptDiscipline ==
  ASSUME Discipline, TypeOK', NEW t \in Tabs, NEW f \in BOOLEAN, NEW a \in Attempts,
         StartAttempt(t, f, a), lockRef[t] = None, socketRef[t] = None, vm[t] \in VMs,
         view' = [view EXCEPT ![t] = "shown"]
  PROVE  Discipline'
<1> USE NoneAssumption
<1>0. /\ TypeOK
      /\ UNCHANGED <<lock, lockRef, socketRef, sock>>
  BY DEF Discipline, TypeOK, StartAttempt, ReleaseLock, Freed
<1>1. Bookkeeping'
  BY <1>0 DEF Discipline, Bookkeeping, TypeOK, StartAttempt
<1>2. Pending'
  BY <1>0 DEF Discipline, Bookkeeping, Pending, Suspended, TypeOK, StartAttempt
<1>3. RefsAreLive'
  BY <1>0 DEF Discipline, Bookkeeping, RefsAreLive, TypeOK, StartAttempt
<1>4. HolderIsKnown'
  BY <1>0 DEF Discipline, Bookkeeping, HolderIsKnown, TypeOK, StartAttempt
<1>5. SocketIsKnown'
  BY <1>0 DEF Discipline, Bookkeeping, SocketIsKnown, TypeOK, StartAttempt
<1> QED BY <1>1, <1>2, <1>3, <1>4, <1>5 DEF Discipline

\* Every step of the system keeps the discipline.
LEMMA DisciplineStep == Discipline /\ [Next]_vars => Discipline'
<1> SUFFICES ASSUME Discipline, [Next]_vars PROVE Discipline'
  OBVIOUS
<1> USE NoneAssumption
<1>0. TypeOK /\ TypeOK'
  BY TypeStep DEF Discipline
<1>1. ASSUME NEW t \in Tabs, Connect(t) PROVE Discipline'
  <2>1. PICK a \in Attempts : StartAttempt(t, FALSE, a)
    BY <1>1 DEF Connect
  <2>2. lockRef[t] = None /\ socketRef[t] = None /\ vm[t] \in VMs
    BY <1>0, <1>1 DEF Connect, Discipline, Bookkeeping, RefsAreLive, TypeOK
  <2> QED BY <1>0, <1>1, <2>1, <2>2, StartAttemptDiscipline DEF Connect
<1>2. ASSUME NEW t \in Tabs, TakeOver(t) PROVE Discipline'
  <2>1. PICK a \in Attempts : StartAttempt(t, TRUE, a)
    BY <1>2 DEF TakeOver
  <2>2. lockRef[t] = None /\ socketRef[t] = None /\ vm[t] \in VMs
    BY <1>0, <1>2 DEF TakeOver, Discipline, Bookkeeping, RefsAreLive, TypeOK
  <2>3. view' = [view EXCEPT ![t] = "shown"]
    BY <1>0, <1>2 DEF TakeOver, TypeOK
  <2> QED BY <1>0, <2>1, <2>2, <2>3, StartAttemptDiscipline
<1>3. ASSUME NEW t \in Tabs, NEW v \in VMs, Mount(t, v) PROVE Discipline'
  BY <1>0, <1>3 DEF Discipline, Bookkeeping, Pending, Suspended, RefsAreLive,
     HolderIsKnown, SocketIsKnown, TypeOK, Mount
<1>4. ASSUME NEW t \in Tabs, ViewerLoadFails(t) \/ ViewerFails(t) PROVE Discipline'
  <2>1. Bookkeeping'
    BY <1>0, <1>4 DEF Discipline, Bookkeeping, RefsAreLive, SocketIsKnown, TypeOK,
       ViewerLoadFails, ViewerFails, ReportViewerError, ReleaseLock, Freed,
       CloseSocket, Closing, ShowError
  <2>2. Pending'
    BY <1>0, <1>4 DEF Discipline, Bookkeeping, Pending, Suspended, TypeOK,
       ViewerLoadFails, ViewerFails, ReportViewerError, ReleaseLock, Freed,
       CloseSocket, Closing, ShowError
  <2>3. RefsAreLive'
    BY <1>0, <1>4 DEF Discipline, Bookkeeping, Pending, Suspended, RefsAreLive,
       TypeOK, ViewerLoadFails, ViewerFails, ReportViewerError, ReleaseLock, Freed,
       CloseSocket, Closing, ShowError
  <2>4. HolderIsKnown'
    BY <1>0, <1>4 DEF Discipline, Bookkeeping, RefsAreLive, HolderIsKnown, TypeOK,
       ViewerLoadFails, ViewerFails, ReportViewerError, ReleaseLock, Freed,
       CloseSocket, Closing, ShowError
  <2>5. SocketIsKnown'
    BY <1>0, <1>4 DEF Discipline, Bookkeeping, RefsAreLive, SocketIsKnown, TypeOK,
       ViewerLoadFails, ViewerFails, ReportViewerError, ReleaseLock, Freed,
       CloseSocket, Closing, ShowError
  <2> QED BY <1>0, <2>1, <2>2, <2>3, <2>4, <2>5 DEF Discipline
<1>5. ASSUME NEW t \in Tabs, Unmount(t) PROVE Discipline'
  BY <1>0, <1>5 DEF Discipline, Bookkeeping, Pending, Suspended, RefsAreLive,
     HolderIsKnown, SocketIsKnown, TypeOK, Unmount, ReleaseLock, Freed, CloseSocket,
     Closing
<1>6. ASSUME NEW t \in Tabs, TabCloses(t) PROVE Discipline'
  BY <1>0, <1>6 DEF Discipline, Bookkeeping, Pending, Suspended, RefsAreLive,
     HolderIsKnown, SocketIsKnown, TypeOK, TabCloses, Closing
<1>7. ASSUME NEW a \in Attempts, LockReply(a) PROVE Discipline'
  BY <1>0, <1>7 DEF Discipline, Bookkeeping, Pending, Suspended, RefsAreLive,
     HolderIsKnown, SocketIsKnown, TypeOK, LockReply
<1>22. ASSUME NEW a \in Attempts, LockRejected(a) PROVE Discipline'
  BY <1>0, <1>22 DEF Discipline, Bookkeeping, Pending, Suspended, RefsAreLive,
     HolderIsKnown, SocketIsKnown, TypeOK, LockRejected
<1>8. ASSUME NEW a \in Attempts, LockSuperseded(a) PROVE Discipline'
  BY <1>0, <1>8 DEF Discipline, Bookkeeping, Pending, Suspended, RefsAreLive,
     HolderIsKnown, SocketIsKnown, TypeOK, LockSuperseded, Freed, IsCurrent
<1>9. ASSUME NEW a \in Attempts, LockDenied(a) PROVE Discipline'
  BY <1>0, <1>9 DEF Discipline, Bookkeeping, Pending, Suspended, RefsAreLive,
     HolderIsKnown, SocketIsKnown, TypeOK, LockDenied, IsCurrent, ShowError
<1>10. ASSUME NEW a \in Attempts, LockGranted(a) PROVE Discipline'
  BY <1>0, <1>10 DEF Discipline, Bookkeeping, Pending, Suspended, RefsAreLive,
     HolderIsKnown, SocketIsKnown, TypeOK, LockGranted, IsCurrent
<1>11. ASSUME NEW a \in Attempts, CreateReply(a) PROVE Discipline'
  BY <1>0, <1>11 DEF Discipline, Bookkeeping, Pending, Suspended, RefsAreLive,
     HolderIsKnown, SocketIsKnown, TypeOK, CreateReply
<1>12. ASSUME NEW a \in Attempts, CreateRefused(a) PROVE Discipline'
  BY <1>0, <1>12 DEF Discipline, Bookkeeping, Pending, Suspended, RefsAreLive,
     HolderIsKnown, SocketIsKnown, TypeOK, CreateRefused
<1>13. ASSUME NEW a \in Attempts, CreateSuperseded(a) PROVE Discipline'
  BY <1>0, <1>13 DEF Discipline, Bookkeeping, Pending, Suspended, RefsAreLive,
     HolderIsKnown, SocketIsKnown, TypeOK, CreateSuperseded, IsCurrent
<1>14. ASSUME NEW a \in Attempts, OpenSocket(a) PROVE Discipline'
  BY <1>0, <1>14 DEF Discipline, Bookkeeping, Pending, Suspended, RefsAreLive,
     HolderIsKnown, SocketIsKnown, TypeOK, OpenSocket, IsCurrent
<1>15. ASSUME NEW a \in Attempts, CreateFailed(a) PROVE Discipline'
  BY <1>0, <1>15 DEF Discipline, Bookkeeping, Pending, Suspended, RefsAreLive,
     HolderIsKnown, SocketIsKnown, TypeOK, CreateFailed, IsCurrent, ReleaseLock,
     Freed, ShowError
<1>16. ASSUME NEW a \in Attempts, HandshakeAccepted(a) PROVE Discipline'
  BY <1>0, <1>16 DEF Discipline, Bookkeeping, Pending, Suspended, RefsAreLive,
     HolderIsKnown, SocketIsKnown, TypeOK, HandshakeAccepted
<1>17. ASSUME NEW a \in Attempts, HandshakeRefused(a) PROVE Discipline'
  BY <1>0, <1>17 DEF Discipline, Bookkeeping, Pending, Suspended, RefsAreLive,
     HolderIsKnown, SocketIsKnown, TypeOK, HandshakeRefused
<1>18. ASSUME NEW a \in Attempts, OpenEvent(a) PROVE Discipline'
  BY <1>0, <1>18 DEF Discipline, Bookkeeping, Pending, Suspended, RefsAreLive,
     HolderIsKnown, SocketIsKnown, TypeOK, OpenEvent, IsCurrent
<1>19. ASSUME NEW a \in Attempts, ConnectionDrops(a) PROVE Discipline'
  BY <1>0, <1>19 DEF Discipline, Bookkeeping, Pending, Suspended, RefsAreLive,
     HolderIsKnown, SocketIsKnown, TypeOK, ConnectionDrops
<1>20. ASSUME NEW a \in Attempts, CloseEvent(a) PROVE Discipline'
  <2>1. Bookkeeping' /\ Pending'
    BY <1>0, <1>20 DEF Discipline, Bookkeeping, Pending, Suspended, TypeOK, CloseEvent,
       IsCurrent, ReleaseLock, ShowError
  <2>2. RefsAreLive' /\ SocketIsKnown'
    BY <1>0, <1>20 DEF Discipline, Bookkeeping, RefsAreLive, SocketIsKnown, TypeOK,
       CloseEvent, IsCurrent, ReleaseLock, ShowError
  <2>3. HolderIsKnown'
    BY <1>0, <1>20 DEF Discipline, Bookkeeping, RefsAreLive, HolderIsKnown, TypeOK,
       CloseEvent, ReleaseLock, Freed
  <2> QED BY <1>0, <2>1, <2>2, <2>3 DEF Discipline
<1>21. CASE ClearArrives \/ ClearFails \/ UNCHANGED vars
  BY <1>0, <1>21 DEF Discipline, Bookkeeping, Pending, RefsAreLive, HolderIsKnown,
                  SocketIsKnown, ClearArrives, ClearFails, vars
<1> QED BY <1>1, <1>2, <1>3, <1>4, <1>5, <1>6, <1>7, <1>8, <1>9, <1>10, <1>11, <1>12,
        <1>13, <1>14, <1>15, <1>16, <1>17, <1>18, <1>19, <1>20, <1>21, <1>22 DEF Next
\* The invariant that carries every safety theorem below.
THEOREM ConsoleDiscipline == Spec => []Discipline
<1>1. Init => Discipline
  <2> SUFFICES ASSUME Init PROVE Discipline
    OBVIOUS
  <2>1. TypeOK
    BY TypeStart
  <2> QED BY <2>1 DEF Init, Discipline, Bookkeeping, Pending, RefsAreLive, HolderIsKnown,
                     SocketIsKnown
<1> QED BY <1>1, DisciplineStep, PTL DEF Spec

\* Every Web Lock is held by a live attempt of its tab, or by one whose
\* continuation is about to run: none is left behind.
THEOREM LocksHaveLiveHolders == Spec => []LockHasLiveHolder
<1>1. Discipline => LockHasLiveHolder
  BY NoneAssumption DEF Discipline, TypeOK, Bookkeeping, RefsAreLive, HolderIsKnown,
                        LockHasLiveHolder, Live, IsCurrent
<1> QED BY <1>1, ConsoleDiscipline, PTL

\* A failed or closed console keeps neither a lock nor a socket.
THEOREM FailedConsolesKeepNothing == Spec => []FailedKeepsNothing
<1>1. Discipline => FailedKeepsNothing
  BY DEF Discipline, RefsAreLive, FailedKeepsNothing
<1> QED BY <1>1, ConsoleDiscipline, PTL

\* Every socket that is connecting or open can still be closed by its tab.
THEOREM SocketsAreOwned == Spec => []NoStraySocket
<1>1. Discipline => NoStraySocket
  BY NoneAssumption DEF Discipline, TypeOK, Bookkeeping, RefsAreLive, SocketIsKnown,
                        NoStraySocket, Live, IsCurrent
<1> QED BY <1>1, ConsoleDiscipline, PTL

-------------------------------------------------------------------------------
(* Two tabs are kept apart by the lock unless one was robbed of it. *)

\* Who made an attempt, for which VM and how, is settled when it starts.
LEMMA AttemptRigid ==
  ASSUME TypeOK, [Next]_vars, NEW c \in Attempts, stage[c] # "unused"
  PROVE  force'[c] = force[c] /\ vmOf'[c] = vmOf[c] /\ tabOf'[c] = tabOf[c]
BY DEF TypeOK, Next, vars, Mount, Connect, TakeOver, StartAttempt,
   ViewerLoadFails, ViewerFails, ReportViewerError, Unmount, TabCloses, LockReply,
   LockRejected, LockSuperseded, LockDenied, LockGranted, CreateReply, CreateRefused,
   CreateSuperseded, OpenSocket, CreateFailed, HandshakeAccepted, HandshakeRefused,
   OpenEvent, ConnectionDrops, CloseEvent, ClearArrives, ClearFails

\* Who was robbed is never forgotten, and the browser stays the same.
LEMMA RobbedStays ==
  ASSUME TypeOK, [Next]_vars
  PROVE  webLocks' = webLocks /\ robbed \subseteq robbed'
BY DEF TypeOK, Next, vars, Mount, Connect, TakeOver, StartAttempt,
   ViewerLoadFails, ViewerFails, ReportViewerError, Unmount, TabCloses, LockReply,
   LockRejected, LockSuperseded, LockDenied, LockGranted, CreateReply, CreateRefused,
   CreateSuperseded, OpenSocket, CreateFailed, HandshakeAccepted, HandshakeRefused,
   OpenEvent, ConnectionDrops, CloseEvent, ClearArrives, ClearFails

\* A granted attempt was granted before, or its lock request was just answered.
LEMMA GrantedBefore ==
  ASSUME Discipline, [Next]_vars, NEW b \in Attempts, Granted(b)'
  PROVE  Granted(b) \/ LockReply(b)
<1> USE NoneAssumption
<1>0. TypeOK /\ Bookkeeping /\ RefsAreLive
  BY DEF Discipline
<1>1. ASSUME NEW t \in Tabs, (\E v \in VMs : Mount(t, v)) \/ Connect(t) \/ TakeOver(t)
      PROVE Granted(b)
  BY <1>0, <1>1 DEF TypeOK, Bookkeeping, RefsAreLive, Granted, Mount, Connect, TakeOver,
     StartAttempt, ReleaseLock
<1>2. ASSUME NEW t \in Tabs,
             ViewerLoadFails(t) \/ ViewerFails(t) \/ Unmount(t) \/ TabCloses(t)
      PROVE Granted(b)
  BY <1>0, <1>2 DEF TypeOK, Granted, ViewerLoadFails, ViewerFails, ReportViewerError,
     Unmount, TabCloses, ReleaseLock
<1>3. ASSUME NEW a \in Attempts,
             \/ LockReply(a) \/ LockRejected(a) \/ LockSuperseded(a)
             \/ LockDenied(a) \/ LockGranted(a)
      PROVE Granted(b) \/ LockReply(b)
  BY <1>0, <1>3 DEF TypeOK, Granted, LockReply, LockRejected, LockSuperseded, LockDenied, LockGranted
<1>4. ASSUME NEW a \in Attempts,
             \/ CreateReply(a) \/ CreateRefused(a) \/ CreateSuperseded(a)
             \/ OpenSocket(a) \/ CreateFailed(a)
      PROVE Granted(b)
  BY <1>0, <1>4 DEF TypeOK, Granted, CreateReply, CreateRefused, CreateSuperseded,
     OpenSocket, CreateFailed, ReleaseLock
<1>5. ASSUME NEW a \in Attempts,
             \/ HandshakeAccepted(a) \/ HandshakeRefused(a) \/ OpenEvent(a)
             \/ ConnectionDrops(a)
      PROVE Granted(b)
  BY <1>0, <1>5 DEF TypeOK, Granted, HandshakeAccepted, HandshakeRefused, OpenEvent,
     ConnectionDrops
<1>6. ASSUME NEW a \in Attempts, CloseEvent(a) PROVE Granted(b)
  BY <1>0, <1>6 DEF TypeOK, Granted, CloseEvent, ReleaseLock
<1>7. CASE ClearArrives \/ ClearFails \/ UNCHANGED vars
  BY <1>7 DEF Granted, ClearArrives, ClearFails, vars
<1> QED BY <1>1, <1>2, <1>3, <1>4, <1>5, <1>6, <1>7 DEF Next

\* An attempt that stays granted loses its lock by being robbed of it only.
LEMMA LockKept ==
  ASSUME Discipline, [Next]_vars, NEW b \in Attempts, NEW v \in VMs,
         lock[v] = b, Granted(b)', b \notin robbed'
  PROVE  lock'[v] = b
<1> USE NoneAssumption
<1>0. TypeOK /\ Bookkeeping /\ RefsAreLive /\ HolderIsKnown
  BY DEF Discipline
<1>1. stage[b] # "unused" /\ tabOf[b] \in Tabs /\ vmOf[b] = v
  BY <1>0 DEF TypeOK, Bookkeeping, HolderIsKnown
\* The one place where a tab gives a lock back: it also forgets the handle.
<1>2. ASSUME NEW t \in Tabs, ReleaseLock(t), UNCHANGED tabOf, stage[b] # "locked" => stage'[b] # "locked"
      PROVE lock'[v] = b
  BY <1>0, <1>1, <1>2 DEF TypeOK, Bookkeeping, RefsAreLive, Granted, ReleaseLock, Freed
<1>3. ASSUME NEW t \in Tabs, (\E w \in VMs : Mount(t, w)) \/ TabCloses(t)
      PROVE lock'[v] = b
  BY <1>0, <1>1, <1>3 DEF TypeOK, Granted, Mount, TabCloses
<1>4. ASSUME NEW t \in Tabs, Connect(t) \/ TakeOver(t) PROVE lock'[v] = b
  <2>1. ReleaseLock(t)
    BY <1>4 DEF Connect, TakeOver, StartAttempt
  <2>2. lockRef[t] = None
    <3>1. view[t] = "loading" \/ conn[t] = "error"
      BY <1>4 DEF Connect, TakeOver
    <3> QED BY <1>0, <3>1 DEF TypeOK, Bookkeeping, RefsAreLive
  <2> QED BY <1>0, <2>1, <2>2 DEF TypeOK, ReleaseLock, Freed
<1>5. ASSUME NEW t \in Tabs, ViewerLoadFails(t) \/ ViewerFails(t) \/ Unmount(t)
      PROVE lock'[v] = b
  <2>1. ReleaseLock(t) /\ UNCHANGED <<tabOf, stage>>
    BY <1>5 DEF ViewerLoadFails, ViewerFails, ReportViewerError, Unmount
  <2> QED BY <1>2, <2>1
<1>6. ASSUME NEW a \in Attempts, LockReply(a) PROVE lock'[v] = b
  BY <1>0, <1>6 DEF TypeOK, LockReply
<1>7. ASSUME NEW a \in Attempts, LockSuperseded(a) PROVE lock'[v] = b
  BY <1>0, <1>1, <1>7 DEF TypeOK, Bookkeeping, RefsAreLive, Granted, LockSuperseded, Freed,
     IsCurrent
<1>8. ASSUME NEW a \in Attempts,
             \/ LockRejected(a) \/ LockDenied(a) \/ LockGranted(a) \/ CreateReply(a)
             \/ CreateRefused(a) \/ CreateSuperseded(a) \/ OpenSocket(a)
             \/ HandshakeAccepted(a) \/ HandshakeRefused(a) \/ OpenEvent(a)
             \/ ConnectionDrops(a)
      PROVE lock'[v] = b
  BY <1>8 DEF LockRejected, LockDenied, LockGranted, CreateReply, CreateRefused, CreateSuperseded,
     OpenSocket, HandshakeAccepted, HandshakeRefused, OpenEvent, ConnectionDrops
<1>9. ASSUME NEW a \in Attempts, CreateFailed(a) \/ CloseEvent(a) PROVE lock'[v] = b
  <2>1. CASE UNCHANGED <<lock, lockRef>>
    BY <2>1
  <2>2. CASE ReleaseLock(tabOf[a]) /\ UNCHANGED tabOf
    <3>1. stage[b] # "locked" => stage'[b] # "locked"
      BY <1>0, <1>9 DEF TypeOK, CreateFailed, CloseEvent
    <3>2. tabOf[a] \in Tabs
      BY <1>0, <1>9 DEF Bookkeeping, CreateFailed, CloseEvent
    <3> QED BY <1>2, <2>2, <3>1, <3>2
  <2> QED BY <1>9, <2>1, <2>2 DEF CreateFailed, CloseEvent
<1>10. CASE ClearArrives \/ ClearFails \/ UNCHANGED vars
  BY <1>10 DEF ClearArrives, ClearFails, vars
<1> QED BY <1>3, <1>4, <1>5, <1>6, <1>7, <1>8, <1>9, <1>10 DEF Next

LEMMA HoldStep == Discipline /\ HoldsUnlessRobbed /\ [Next]_vars => HoldsUnlessRobbed'
<1> SUFFICES ASSUME Discipline, HoldsUnlessRobbed, [Next]_vars, webLocks',
                    NEW b \in Attempts, Granted(b)'
             PROVE  (lock[vmOf[b]] = b \/ b \in robbed)'
  BY DEF HoldsUnlessRobbed
<1> USE NoneAssumption
<1>0. /\ TypeOK /\ Bookkeeping /\ RefsAreLive
      /\ webLocks /\ robbed \subseteq robbed'
  BY RobbedStays DEF Discipline
<1>1. Granted(b) \/ LockReply(b)
  BY GrantedBefore
<1>2. stage[b] # "unused" /\ vmOf[b] \in VMs
  BY <1>0, <1>1 DEF TypeOK, Bookkeeping, RefsAreLive, Granted, LockReply
<1>3. vmOf'[b] = vmOf[b]
  BY <1>0, <1>2, AttemptRigid
<1>4. CASE b \in robbed
  BY <1>0, <1>4
<1>5. CASE Granted(b) /\ b \notin robbed
  <2>1. PICK v \in VMs : v = vmOf[b]
    BY <1>2
  <2>2. lock[v] = b
    BY <1>0, <1>5, <2>1 DEF HoldsUnlessRobbed
  <2>3. b \in robbed' \/ lock'[v] = b
    BY <2>2, LockKept
  <2> QED BY <1>3, <2>1, <2>3
<1>6. CASE LockReply(b)
  BY <1>0, <1>2, <1>6 DEF TypeOK, Bookkeeping, RefsAreLive, Granted, LockReply
<1> QED BY <1>1, <1>4, <1>5, <1>6

\* In a browser with Web Locks two tabs have one console at once only if one of
\* them was robbed of its lock (acquireConsoleClientLock, attemptConnect).
THEOREM TabsKeptApart == Spec => []LockKeepsTabsApart
<1>1. Init => HoldsUnlessRobbed
  BY DEF Init, HoldsUnlessRobbed, Granted
<1>2. Discipline /\ HoldsUnlessRobbed => LockKeepsTabsApart
  BY NoneAssumption DEF HoldsUnlessRobbed, Granted, LockKeepsTabsApart, Live
<1>3. Spec => []HoldsUnlessRobbed
  BY <1>1, HoldStep, ConsoleDiscipline, PTL DEF Spec
<1> QED BY <1>2, <1>3, ConsoleDiscipline, PTL

-------------------------------------------------------------------------------
(* What a step may do to a lock and to the state on screen. *)

\* Which step loses a lock, and how: the release of a tab's own handle, by the
\* step that ends its attempt, or another tab's takeOver.
LEMMA LockLost ==
  ASSUME Discipline, [Next]_vars, NEW v \in VMs, NEW a \in Attempts,
         lock[v] = a, lock'[v] # a
  PROVE  IF lock'[v] = None THEN ~(Live(a)') ELSE force[lock'[v]]
<1> USE NoneAssumption
<1>0. /\ TypeOK /\ Bookkeeping /\ RefsAreLive /\ HolderIsKnown
      /\ stage[a] # "unused" /\ tabOf[a] \in Tabs
  BY DEF Discipline, Bookkeeping, HolderIsKnown
<1>1. tabOf'[a] = tabOf[a]
  BY <1>0, AttemptRigid
\* A tab that frees the lock had the attempt in its ref, and lets it go.
<1>2. ASSUME NEW t \in Tabs, ReleaseLock(t), session'[t] = None \/ conn'[t] = "error"
      PROVE  lock'[v] = None /\ ~(Live(a)')
  <2>1. lockRef[t] = a /\ lock'[v] = None
    BY <1>0, <1>2 DEF TypeOK, ReleaseLock, Freed
  <2>2. tabOf[a] = t
    BY <1>0, <2>1 DEF Bookkeeping, RefsAreLive
  <2> QED BY <1>1, <1>2, <2>1, <2>2 DEF Live, IsCurrent
<1>3. ASSUME NEW t \in Tabs, Connect(t) \/ TakeOver(t) PROVE FALSE
  <2>1. ReleaseLock(t)
    BY <1>3 DEF Connect, TakeOver, StartAttempt
  <2>2. lockRef[t] = None
    <3>1. view[t] = "loading" \/ conn[t] = "error"
      BY <1>3 DEF Connect, TakeOver
    <3> QED BY <1>0, <3>1 DEF TypeOK, Bookkeeping, RefsAreLive
  <2> QED BY <1>0, <2>1, <2>2 DEF TypeOK, ReleaseLock, Freed
<1>4. ASSUME NEW t \in Tabs, ViewerLoadFails(t) \/ ViewerFails(t) \/ Unmount(t)
      PROVE  lock'[v] = None /\ ~(Live(a)')
  <2>1. ReleaseLock(t) /\ session'[t] = None
    BY <1>0, <1>4 DEF TypeOK, ViewerLoadFails, ViewerFails, ReportViewerError, Unmount
  <2> QED BY <1>2, <2>1
<1>5. ASSUME NEW t \in Tabs, TabCloses(t) PROVE lock'[v] = None /\ ~(Live(a)')
  BY <1>0, <1>1, <1>5 DEF TypeOK, TabCloses, Live, IsCurrent
<1>6. ASSUME NEW b \in Attempts, LockReply(b) PROVE lock'[v] = b /\ force[b]
  BY <1>0, <1>6 DEF TypeOK, LockReply
<1>7. ASSUME NEW b \in Attempts, LockSuperseded(b) PROVE lock'[v] = None /\ ~(Live(a)')
  BY <1>0, <1>1, <1>7 DEF TypeOK, LockSuperseded, Freed, Live, IsCurrent
<1>8. ASSUME NEW b \in Attempts, CreateFailed(b) \/ CloseEvent(b)
      PROVE  lock'[v] = None /\ ~(Live(a)')
  <2>1. tabOf[b] \in Tabs
    BY <1>0, <1>8 DEF Bookkeeping, CreateFailed, CloseEvent
  <2>2. ReleaseLock(tabOf[b]) /\ conn' = [conn EXCEPT ![tabOf[b]] = "error"]
    BY <1>8 DEF CreateFailed, CloseEvent, ShowError
  <2> QED BY <1>0, <1>2, <2>1, <2>2 DEF TypeOK
<1>9. CASE lock' = lock
  BY <1>9
<1>10. ASSUME NEW b \in Attempts,
              \/ LockRejected(b) \/ LockDenied(b) \/ LockGranted(b) \/ CreateReply(b)
              \/ CreateRefused(b) \/ CreateSuperseded(b) \/ OpenSocket(b)
              \/ HandshakeAccepted(b) \/ HandshakeRefused(b) \/ OpenEvent(b)
              \/ ConnectionDrops(b)
       PROVE  lock' = lock
  BY <1>10 DEF LockRejected, LockDenied, LockGranted, CreateReply, CreateRefused, CreateSuperseded,
     OpenSocket, HandshakeAccepted, HandshakeRefused, OpenEvent, ConnectionDrops
<1>11. ASSUME (\E t \in Tabs, w \in VMs : Mount(t, w)) \/ ClearArrives \/ ClearFails
              \/ UNCHANGED vars
       PROVE  lock' = lock
  BY <1>11 DEF Mount, ClearArrives, ClearFails, vars
<1> QED BY <1>3, <1>4, <1>5, <1>6, <1>7, <1>8, <1>9, <1>10, <1>11 DEF Next

\* A lock is lost to the end of its holder or to a takeOver, and to nothing else
\* (releaseLock, acquireLock with steal).
THEOREM LocksAreLostForAReason == Spec => LockLostOnlyByReleaseOrSteal
<1>1. Discipline /\ [Next]_vars =>
        [\A v \in VMs, a \in Attempts : lock[v] = a /\ lock'[v] # a =>
           IF lock'[v] = None THEN ~Live(a)' ELSE force[lock'[v]]]_vars
  BY LockLost
<1> QED BY <1>1, ConsoleDiscipline, PTL DEF Spec, LockLostOnlyByReleaseOrSteal

\* A view that is loading has tried nothing yet; a viewer error ended its tab's
\* attempt; a socket its tab closed is of an attempt that is over.
LoadingIsIdle == \A t \in Tabs : view[t] = "loading" => conn[t] = "idle"
ViewerErrorEnds ==
  \A t \in Tabs : conn[t] = "error" /\ kind[t] = "viewer" => session[t] = None
ClosingIsOver == \A a \in Attempts : sock[a] = "closing" => ~IsCurrent(a)
Verdicts == LoadingIsIdle /\ ViewerErrorEnds /\ ClosingIsOver

LEMMA VerdictStep == Discipline /\ Verdicts /\ [Next]_vars => Verdicts'
<1> SUFFICES ASSUME Discipline, Verdicts, [Next]_vars PROVE Verdicts'
  OBVIOUS
<1> USE NoneAssumption DEF Verdicts
<1>0. TypeOK /\ Bookkeeping /\ RefsAreLive
  BY DEF Discipline
<1>1. ASSUME NEW t \in Tabs, NEW v \in VMs, Mount(t, v) PROVE Verdicts'
  BY <1>0, <1>1 DEF TypeOK, LoadingIsIdle, ViewerErrorEnds, ClosingIsOver, IsCurrent, Mount
<1>2. ASSUME NEW t \in Tabs, Connect(t) \/ TakeOver(t) PROVE Verdicts'
  <2>1. PICK f \in BOOLEAN, a \in Attempts : StartAttempt(t, f, a)
    BY <1>2 DEF Connect, TakeOver
  <2>2. view' = [view EXCEPT ![t] = "shown"]
    BY <1>0, <1>2 DEF TypeOK, Connect, TakeOver
  <2> QED BY <1>0, <2>1, <2>2 DEF TypeOK, Bookkeeping, LoadingIsIdle, ViewerErrorEnds,
             ClosingIsOver, IsCurrent, StartAttempt
<1>3. ASSUME NEW t \in Tabs, ViewerLoadFails(t) \/ ViewerFails(t) PROVE Verdicts'
  BY <1>0, <1>3 DEF TypeOK, Bookkeeping, RefsAreLive, LoadingIsIdle, ViewerErrorEnds,
     ClosingIsOver, IsCurrent, ViewerLoadFails, ViewerFails, ReportViewerError, CloseSocket,
     Closing, ShowError
<1>4. ASSUME NEW t \in Tabs, Unmount(t) PROVE Verdicts'
  BY <1>0, <1>4 DEF TypeOK, Bookkeeping, RefsAreLive, LoadingIsIdle, ViewerErrorEnds,
     ClosingIsOver, IsCurrent, Unmount, CloseSocket, Closing
<1>5. ASSUME NEW t \in Tabs, TabCloses(t) PROVE Verdicts'
  BY <1>0, <1>5 DEF TypeOK, LoadingIsIdle, ViewerErrorEnds, ClosingIsOver, IsCurrent,
     TabCloses, Closing
<1>6. ASSUME NEW a \in Attempts,
             \/ LockReply(a) \/ LockRejected(a) \/ LockSuperseded(a) \/ LockGranted(a)
             \/ CreateReply(a) \/ CreateRefused(a) \/ CreateSuperseded(a)
      PROVE  Verdicts'
  <2>1. UNCHANGED <<view, conn, kind, session, tabOf, sock>>
    BY <1>6 DEF LockReply, LockRejected, LockSuperseded, LockGranted, CreateReply, CreateRefused,
       CreateSuperseded
  <2> QED BY <2>1 DEF LoadingIsIdle, ViewerErrorEnds, ClosingIsOver, IsCurrent
<1>7. ASSUME NEW a \in Attempts, LockDenied(a) \/ CreateFailed(a) PROVE Verdicts'
  <2>1. IsCurrent(a) /\ tabOf[a] \in Tabs /\ view[tabOf[a]] = "shown"
    BY <1>0, <1>7 DEF TypeOK, Bookkeeping, IsCurrent, LockDenied, CreateFailed
  <2>2. /\ conn' = [conn EXCEPT ![tabOf[a]] = "error"]
        /\ kind' \in {[kind EXCEPT ![tabOf[a]] = k] : k \in {"siblingTabConflict", "generic"}}
        /\ UNCHANGED <<view, session, tabOf, sock>>
    BY <1>7 DEF LockDenied, CreateFailed, ShowError
  <2> QED BY <1>0, <2>1, <2>2 DEF TypeOK, LoadingIsIdle, ViewerErrorEnds, ClosingIsOver,
             IsCurrent
<1>8. ASSUME NEW a \in Attempts, OpenSocket(a) PROVE Verdicts'
  BY <1>0, <1>8 DEF TypeOK, LoadingIsIdle, ViewerErrorEnds, ClosingIsOver, IsCurrent,
     OpenSocket
<1>9. ASSUME NEW a \in Attempts,
             HandshakeAccepted(a) \/ HandshakeRefused(a) \/ ConnectionDrops(a)
      PROVE  Verdicts'
  <2>1. /\ UNCHANGED <<view, conn, kind, session, tabOf>>
        /\ \A b \in Attempts : sock'[b] = "closing" => sock[b] = "closing"
    BY <1>0, <1>9 DEF TypeOK, HandshakeAccepted, HandshakeRefused, ConnectionDrops
  <2> QED BY <2>1 DEF LoadingIsIdle, ViewerErrorEnds, ClosingIsOver, IsCurrent
<1>10. ASSUME NEW a \in Attempts, OpenEvent(a) PROVE Verdicts'
  BY <1>0, <1>10 DEF TypeOK, Bookkeeping, LoadingIsIdle, ViewerErrorEnds, ClosingIsOver,
     IsCurrent, OpenEvent
<1>11. ASSUME NEW a \in Attempts, CloseEvent(a) PROVE Verdicts'
  <2>1. tabOf[a] \in Tabs
    BY <1>0, <1>11 DEF Bookkeeping, CloseEvent
  <2> QED BY <1>0, <1>11, <2>1 DEF TypeOK, Bookkeeping, LoadingIsIdle, ViewerErrorEnds,
             ClosingIsOver, IsCurrent, CloseEvent, ShowError
<1>12. CASE ClearArrives \/ ClearFails \/ UNCHANGED vars
  BY <1>12 DEF LoadingIsIdle, ViewerErrorEnds, ClosingIsOver, IsCurrent, ClearArrives,
     ClearFails, vars
<1> QED BY <1>1, <1>2, <1>3, <1>4, <1>5, <1>6, <1>7, <1>8, <1>9, <1>10, <1>11, <1>12 DEF Next

LEMMA VerdictInvariant == Spec => []Verdicts
<1>1. Init => Verdicts
  BY DEF Init, Verdicts, LoadingIsIdle, ViewerErrorEnds, ClosingIsOver
<1> QED BY <1>1, VerdictStep, ConsoleDiscipline, PTL DEF Spec

\* A viewer's error is final for the attempt it ended: no event of that attempt
\* replaces it on screen (reportViewerError, isCurrentSession).
THEOREM ViewerErrorsStay == Spec => ViewerErrorStays
<1>1. ASSUME Discipline, Verdicts, [Next]_vars, NEW t \in Tabs,
             conn[t] = "error", kind[t] = "viewer", view'[t] = "shown"
      PROVE  conn'[t] = "error" /\ kind'[t] = "viewer"
  <2> USE NoneAssumption
  <2>0. TypeOK /\ Bookkeeping /\ session[t] = None /\ view[t] # "loading"
    BY <1>1 DEF Discipline, Verdicts, ViewerErrorEnds, LoadingIsIdle
  <2>1. ASSUME NEW a \in Attempts, IsCurrent(a) PROVE tabOf[a] # t
    BY <2>0, <2>1 DEF TypeOK, IsCurrent
  <2>2. ASSUME NEW u \in Tabs, NEW v \in VMs, Mount(u, v)
        PROVE  conn'[t] = conn[t] /\ kind'[t] = kind[t]
    BY <1>1, <2>0, <2>2 DEF TypeOK, Mount
  <2>3. ASSUME NEW u \in Tabs, Connect(u) \/ TakeOver(u)
        PROVE  conn'[t] = conn[t] /\ kind'[t] = kind[t]
    BY <1>1, <2>0, <2>3 DEF TypeOK, Connect, TakeOver, StartAttempt
  <2>4. ASSUME NEW u \in Tabs, ViewerLoadFails(u) \/ ViewerFails(u)
        PROVE  conn'[t] = conn[t] /\ kind'[t] = kind[t]
    BY <1>1, <2>0, <2>4 DEF TypeOK, ViewerLoadFails, ViewerFails, ReportViewerError, ShowError
  <2>5. ASSUME NEW u \in Tabs, Unmount(u) \/ TabCloses(u)
        PROVE  conn'[t] = conn[t] /\ kind'[t] = kind[t]
    BY <1>1, <2>0, <2>5 DEF TypeOK, Unmount, TabCloses
  <2>6. ASSUME NEW a \in Attempts,
               LockDenied(a) \/ CreateFailed(a) \/ OpenEvent(a) \/ CloseEvent(a)
        PROVE  conn'[t] = conn[t] /\ kind'[t] = kind[t]
    BY <2>0, <2>1, <2>6 DEF TypeOK, LockDenied, CreateFailed, OpenEvent, CloseEvent, ShowError
  <2>7. ASSUME NEW a \in Attempts,
               \/ LockReply(a) \/ LockRejected(a) \/ LockSuperseded(a) \/ LockGranted(a)
               \/ CreateReply(a) \/ CreateRefused(a) \/ CreateSuperseded(a) \/ OpenSocket(a)
               \/ HandshakeAccepted(a) \/ HandshakeRefused(a) \/ ConnectionDrops(a)
        PROVE  conn'[t] = conn[t] /\ kind'[t] = kind[t]
    BY <2>7 DEF LockReply, LockRejected, LockSuperseded, LockGranted, CreateReply, CreateRefused,
       CreateSuperseded, OpenSocket, HandshakeAccepted, HandshakeRefused, ConnectionDrops
  <2>8. CASE ClearArrives \/ ClearFails \/ UNCHANGED vars
    BY <2>8, <1>1 DEF ClearArrives, ClearFails, vars
  <2> QED BY <1>1, <2>2, <2>3, <2>4, <2>5, <2>6, <2>7, <2>8 DEF Next
<1>2. Discipline /\ Verdicts /\ [Next]_vars =>
        [\A t \in Tabs : conn[t] = "error" /\ kind[t] = "viewer" /\ view'[t] = "shown" =>
           conn'[t] = "error" /\ kind'[t] = "viewer"]_vars
  BY <1>1
<1> QED BY <1>2, ConsoleDiscipline, VerdictInvariant, PTL DEF Spec, ViewerErrorStays

\* A console in use turns to an error by its viewer, or by a refusal or a closed
\* socket of the attempt its tab is on (attemptConnect, onClose).
THEOREM FailuresAreOwn == Spec => OnlyOwnFailureShows
<1>1. ASSUME Discipline, Verdicts, [Next]_vars, NEW t \in Tabs,
             conn[t] \in {"connecting", "connected"}, conn'[t] = "error"
      PROVE  \/ kind'[t] = "viewer"
             \/ /\ session[t] # None /\ session'[t] = session[t]
                /\ stage[session[t]] \in {"denied", "refused"} \/ sock[session[t]] = "ended"
  <2> USE NoneAssumption
  <2>0. TypeOK /\ Bookkeeping /\ conn'[t] # conn[t]
    BY <1>1 DEF Discipline
  <2>1. ASSUME NEW u \in Tabs, (\E v \in VMs : Mount(u, v)) \/ Connect(u) \/ TakeOver(u)
        PROVE  FALSE
    BY <1>1, <2>0, <2>1 DEF TypeOK, Mount, Connect, TakeOver, StartAttempt
  <2>2. ASSUME NEW u \in Tabs, ViewerLoadFails(u) \/ ViewerFails(u)
        PROVE  kind'[t] = "viewer"
    BY <1>1, <2>0, <2>2 DEF TypeOK, ViewerLoadFails, ViewerFails, ReportViewerError, ShowError
  <2>3. ASSUME NEW u \in Tabs, Unmount(u) \/ TabCloses(u) PROVE FALSE
    BY <1>1, <2>0, <2>3 DEF TypeOK, Unmount, TabCloses
  <2>4. ASSUME NEW a \in Attempts, LockDenied(a) \/ CreateFailed(a)
        PROVE  /\ session[t] = a /\ session'[t] = session[t]
               /\ stage[session[t]] \in {"denied", "refused"}
    BY <1>1, <2>0, <2>4 DEF TypeOK, LockDenied, CreateFailed, IsCurrent, ShowError
  <2>5. ASSUME NEW a \in Attempts, CloseEvent(a)
        PROVE  session[t] = a /\ session'[t] = session[t] /\ sock[session[t]] = "ended"
    BY <1>1, <2>0, <2>5 DEF TypeOK, CloseEvent, IsCurrent, ShowError, Verdicts, ClosingIsOver
  <2>6. ASSUME NEW a \in Attempts, OpenEvent(a) PROVE FALSE
    BY <1>1, <2>0, <2>6 DEF TypeOK, OpenEvent
  <2>7. ASSUME NEW a \in Attempts,
               \/ LockReply(a) \/ LockRejected(a) \/ LockSuperseded(a) \/ LockGranted(a)
               \/ CreateReply(a) \/ CreateRefused(a) \/ CreateSuperseded(a) \/ OpenSocket(a)
               \/ HandshakeAccepted(a) \/ HandshakeRefused(a) \/ ConnectionDrops(a)
        PROVE  FALSE
    BY <2>0, <2>7 DEF LockReply, LockRejected, LockSuperseded, LockGranted, CreateReply, CreateRefused,
       CreateSuperseded, OpenSocket, HandshakeAccepted, HandshakeRefused, ConnectionDrops
  <2>8. CASE ClearArrives \/ ClearFails \/ UNCHANGED vars
    BY <2>0, <2>8 DEF ClearArrives, ClearFails, vars
  <2> QED BY <1>1, <2>1, <2>2, <2>3, <2>4, <2>5, <2>6, <2>7, <2>8 DEF Next
<1>2. Discipline /\ Verdicts /\ [Next]_vars =>
        [\A t \in Tabs : conn[t] \in {"connecting", "connected"} /\ conn'[t] = "error" =>
           \/ kind'[t] = "viewer"
           \/ LET a == session[t] IN
                /\ a # None /\ session'[t] = a
                /\ stage[a] \in {"denied", "refused"} \/ sock[a] = "ended"]_vars
  BY <1>1
<1> QED BY <1>2, ConsoleDiscipline, VerdictInvariant, PTL DEF Spec, OnlyOwnFailureShows

-------------------------------------------------------------------------------
(* The console implements the lease, step by step. *)

LeaseBar == [a \in Attempts |-> LeaseStatus(a)]

\* Of what the status of an attempt depends on, nothing changed.
LEMMA StatusKept ==
  ASSUME NEW c \in Attempts, webLocks' = webLocks,
         stage'[c] = stage[c], vmOf'[c] = vmOf[c],
         lock'[vmOf[c]] = c <=> lock[vmOf[c]] = c,
         Live(c)' <=> Live(c)
  PROVE  LeaseStatus(c)' = LeaseStatus(c)
BY DEF LeaseStatus

\* The clients of S leave, each with what it holds, and nothing else happens.
LEMMA LeaveMapped ==
  ASSUME NEW S \in SUBSET Attempts,
         \A c \in S : stage[c] # "unused" /\ LeaseStatus(c)' = "out",
         \A c \in Attempts \ S : LeaseStatus(c)' = LeaseStatus(c),
         lock' = [v \in VMs |-> IF lock[v] \in S THEN None ELSE lock[v]],
         UNCHANGED <<vmOf, force>>
  PROVE  Lease!LeaseNext
<1>1. ASSUME NEW c \in S PROVE LeaseBar[c] # "new"
  BY DEF LeaseBar, LeaseStatus
<1>2. LeaseBar' = [c \in Attempts |-> IF c \in S THEN "out" ELSE LeaseBar[c]]
  BY DEF LeaseBar
<1>3. Lease!Leave(S)
  BY <1>1, <1>2 DEF Lease!Leave, LeaseBar
<1> QED BY <1>3 DEF Lease!LeaseNext

\* No client's status changed, and no lock: the lease stutters.
LEMMA StutterMapped ==
  ASSUME \A c \in Attempts : LeaseStatus(c)' = LeaseStatus(c),
         UNCHANGED <<vmOf, force, lock>>
  PROVE  UNCHANGED Lease!leaseVars
<1>1. LeaseBar' = LeaseBar
  BY DEF LeaseBar
<1> QED BY <1>1 DEF Lease!leaseVars, LeaseBar

\* A new attempt asks for its VM's lease.
LEMMA StartMapped ==
  ASSUME Discipline, NEW t \in Tabs, NEW f \in BOOLEAN, NEW a \in Attempts,
         StartAttempt(t, f, a), lockRef[t] = None, vm[t] \in VMs,
         session[t] = None \/ conn[t] = "error"
  PROVE  Lease!LeaseNext
<1> USE NoneAssumption
<1>0. TypeOK /\ Bookkeeping /\ lock' = lock /\ vm[t] \in VMs
  BY DEF Discipline, TypeOK, StartAttempt, ReleaseLock, Freed
<1>1. stage[a] = "unused" /\ stage' = [stage EXCEPT ![a] = "locking"]
  BY DEF StartAttempt
<1>2. LeaseStatus(a) = "new" /\ LeaseStatus(a)' = "asking"
  BY <1>0, <1>1 DEF TypeOK, LeaseStatus
<1>3. ASSUME NEW c \in Attempts, c # a PROVE LeaseStatus(c)' = LeaseStatus(c)
  <2>1. /\ stage'[c] = stage[c] /\ vmOf'[c] = vmOf[c] /\ tabOf'[c] = tabOf[c]
        /\ webLocks' = webLocks
    BY <1>0, <1>3 DEF TypeOK, StartAttempt
  <2>2. Live(c)' <=> Live(c)
    BY <1>0, <1>3, <2>1 DEF TypeOK, Bookkeeping, StartAttempt, Live, IsCurrent
  <2> QED BY <1>0, <2>1, <2>2, StatusKept
<1>4. LeaseBar' = [LeaseBar EXCEPT ![a] = "asking"]
  BY <1>2, <1>3 DEF LeaseBar
<1>5. /\ vmOf' = [vmOf EXCEPT ![a] = vm[t]]
      /\ force' = [force EXCEPT ![a] = f]
  BY DEF StartAttempt
<1>6. Lease!Ask(a, vm[t], f)
  BY <1>0, <1>2, <1>4, <1>5 DEF Lease!Ask, LeaseBar
<1> QED BY <1>0, <1>6 DEF Lease!LeaseNext

\* A lock request that leaves the lock table alone: the client is turned away,
\* or let in by a browser that has no lease to give.
LEMMA TurnedAwayMapped ==
  ASSUME Discipline, NEW a \in Attempts, stage[a] = "locking",
         UNCHANGED <<tabVars, tabOf, vmOf, force, webLocks, lock>>,
         \/ stage' = [stage EXCEPT ![a] = "denied"]
         \/ ~webLocks /\ stage' = [stage EXCEPT ![a] = "locked"]
  PROVE  Lease!LeaseNext
<1>0. TypeOK /\ Bookkeeping /\ RefsAreLive /\ HolderIsKnown
  BY DEF Discipline
<1>1. vmOf[a] \in VMs /\ \A v \in VMs : lock[v] # a
  BY <1>0, NoneAssumption DEF Bookkeeping, RefsAreLive, HolderIsKnown, TypeOK
<1>2. LeaseStatus(a)' = "out"
  BY <1>0, <1>1 DEF TypeOK, LeaseStatus
<1>3. ASSUME NEW c \in Attempts \ {a} PROVE LeaseStatus(c)' = LeaseStatus(c)
  <2>1. (Live(c)' <=> Live(c)) /\ stage'[c] = stage[c]
    BY <1>0, <1>3 DEF TypeOK, Live, IsCurrent
  <2> QED BY <2>1, StatusKept
<1>4. lock' = [v \in VMs |-> IF lock[v] \in {a} THEN None ELSE lock[v]]
  BY <1>0, <1>1 DEF TypeOK
<1> QED BY <1>2, <1>3, <1>4, LeaveMapped

\* A lock request is answered: the lease is taken, or the client is turned away.
LEMMA ReplyMapped ==
  ASSUME Discipline, NEW a \in Attempts, LockReply(a)
  PROVE  Lease!LeaseNext
<1> USE NoneAssumption
<1>0. TypeOK /\ Bookkeeping /\ RefsAreLive /\ HolderIsKnown
  BY DEF Discipline
<1>1. /\ stage[a] = "locking" /\ vmOf[a] \in VMs
      /\ UNCHANGED <<tabVars, tabOf, vmOf, force, webLocks>>
      /\ \A v \in VMs : lock[v] # a
  BY <1>0 DEF Bookkeeping, RefsAreLive, HolderIsKnown, TypeOK, LockReply
<1>2. \A c \in Attempts : Live(c)' <=> Live(c)
  BY <1>1 DEF Live, IsCurrent
<1>3. CASE /\ webLocks
           /\ force[a] \/ lock[vmOf[a]] = None
           /\ lock' = [lock EXCEPT ![vmOf[a]] = a]
           /\ stage' = [stage EXCEPT ![a] = "locked"]
  <2>1. LeaseStatus(a) = "asking" /\ LeaseStatus(a)' = "holding"
    BY <1>0, <1>1, <1>3 DEF TypeOK, LeaseStatus
  <2>2. ASSUME NEW c \in Attempts, c # a, c = lock[vmOf[a]]
        PROVE  LeaseStatus(c)' = "robbed"
    <3>1. vmOf[c] = vmOf[a] /\ stage[c] # "unused" /\ stage[c] # "locking"
          /\ tabOf[c] \in Tabs
      BY <1>0, <1>1, <2>2 DEF TypeOK, Bookkeeping, RefsAreLive, HolderIsKnown
    <3>2. stage[c] = "locked" \/ (Live(c) /\ stage[c] # "denied")
      BY <1>0, <1>1, <2>2, <3>1 DEF TypeOK, RefsAreLive, HolderIsKnown, Live, IsCurrent
    <3>3. stage'[c] = stage[c] /\ vmOf'[c] = vmOf[c] /\ lock'[vmOf[c]] # c
      BY <1>0, <1>1, <1>3, <2>2, <3>1 DEF TypeOK
    <3> QED BY <1>1, <1>2, <1>3, <3>1, <3>2, <3>3 DEF LeaseStatus
  <2>3. ASSUME NEW c \in Attempts, c # a, c # lock[vmOf[a]]
        PROVE  LeaseStatus(c)' = LeaseStatus(c)
    <3>1. stage'[c] = stage[c] /\ vmOf'[c] = vmOf[c]
      BY <1>0, <1>1, <1>3, <2>3 DEF TypeOK
    <3>2. lock'[vmOf[c]] = c <=> lock[vmOf[c]] = c
      BY <1>0, <1>1, <1>3, <2>3 DEF TypeOK, HolderIsKnown
    <3> QED BY <1>1, <1>2, <3>1, <3>2, StatusKept
  <2>4. LeaseBar' = [c \in Attempts |-> IF c = a THEN "holding"
                                        ELSE IF c = lock[vmOf[a]] THEN "robbed"
                                        ELSE LeaseBar[c]]
    BY <2>1, <2>2, <2>3 DEF LeaseBar
  <2>5. Lease!Take(a)
    BY <1>1, <1>3, <2>1, <2>4 DEF Lease!Take, LeaseBar
  <2> QED BY <2>5 DEF Lease!LeaseNext
<1>4. CASE /\ lock' = lock
           /\ \/ stage' = [stage EXCEPT ![a] = "denied"]
              \/ ~webLocks /\ stage' = [stage EXCEPT ![a] = "locked"]
  BY <1>1, <1>4, TurnedAwayMapped
<1> QED BY <1>3, <1>4 DEF LockReply

\* A tab gives up what it has: its handle is released, and its attempt, if it
\* was past the wait for its lock, is no longer live.
LEMMA GiveUpMapped ==
  ASSUME Discipline, NEW t \in Tabs, ReleaseLock(t),
         session'[t] = None \/ (session'[t] = session[t] /\ conn'[t] = "error"),
         \A u \in Tabs \ {t} : session'[u] = session[u] /\ conn'[u] = conn[u],
         UNCHANGED <<tabOf, vmOf, force, webLocks>>,
         \A c \in Attempts : \/ stage'[c] = stage[c]
                             \/ c = session[t] /\ stage[c] = "refused" /\ stage'[c] = "done"
  PROVE  Lease!LeaseNext \/ UNCHANGED Lease!leaseVars
<1> USE NoneAssumption
<1>0. TypeOK /\ Bookkeeping /\ Pending /\ RefsAreLive /\ HolderIsKnown
  BY DEF Discipline
\* Only the tab's latest attempt is touched.
<1>1. ASSUME NEW c \in Attempts, c # session[t] PROVE LeaseStatus(c)' = LeaseStatus(c)
  <2>1. stage'[c] = stage[c] /\ vmOf'[c] = vmOf[c] /\ tabOf'[c] = tabOf[c]
    BY <1>1
  <2>2. CASE stage[c] = "unused"
    BY <2>1, <2>2 DEF LeaseStatus
  <2>3. CASE stage[c] # "unused"
    <3>1. Live(c)' <=> Live(c)
      BY <1>0, <1>1, <2>1 DEF TypeOK, Live, IsCurrent
    <3>2. lockRef[t] # c /\ vmOf[c] \in VMs
      BY <1>0, <1>1, <2>3 DEF TypeOK, Bookkeeping, RefsAreLive
    <3>3. lock'[vmOf[c]] = c <=> lock[vmOf[c]] = c
      BY <1>0, <3>2 DEF TypeOK, ReleaseLock, Freed
    <3> QED BY <2>1, <3>1, <3>3, StatusKept
  <2> QED BY <2>2, <2>3
<1>2. CASE session[t] = None \/ stage[session[t]] \in {"unused", "locking", "locked", "denied"}
  <2>1. lockRef[t] = None /\ lock' = lock
    BY <1>0, <1>2 DEF TypeOK, RefsAreLive, ReleaseLock, Freed
  <2>2. ASSUME NEW c \in Attempts, c = session[t] PROVE LeaseStatus(c)' = LeaseStatus(c)
    <3>1. stage'[c] = stage[c] /\ stage[c] \in {"unused", "locking", "locked", "denied"}
      BY <1>0, <1>2, <2>2 DEF TypeOK
    <3> QED BY <2>1, <3>1 DEF LeaseStatus
  <2> QED BY <1>1, <2>1, <2>2, StutterMapped
<1>3. CASE session[t] # None /\ stage[session[t]] \in {"creating", "created", "refused", "done"}
  <2>1. PICK a \in Attempts : a = session[t]
    BY <1>0, <1>3 DEF TypeOK
  <2>2. tabOf[a] = t /\ vmOf[a] \in VMs /\ ~(Live(a)')
    BY <1>0, <1>3, <2>1 DEF Bookkeeping, Live, IsCurrent
  <2>3. lock' = [v \in VMs |-> IF lock[v] \in {a} THEN None ELSE lock[v]]
    <3>1. ASSUME NEW v \in VMs PROVE lock[v] = a <=> lockRef[t] # None /\ lock[v] = lockRef[t]
      BY <1>0, <1>3, <2>1, <2>2 DEF TypeOK, RefsAreLive, HolderIsKnown
    <3> QED BY <1>0, <3>1 DEF TypeOK, ReleaseLock, Freed
  <2>4. LeaseStatus(a)' = "out"
    <3>1. stage'[a] \in {"creating", "created", "refused", "done"} /\ vmOf'[a] = vmOf[a]
      BY <1>3, <2>1
    <3>2. lock'[vmOf[a]] # a
      BY <2>2, <2>3
    <3> QED BY <2>2, <3>1, <3>2 DEF LeaseStatus
  <2>5. \A c \in {a} : stage[c] # "unused" /\ LeaseStatus(c)' = "out"
    BY <1>3, <2>1, <2>4
  <2>6. \A c \in Attempts \ {a} : LeaseStatus(c)' = LeaseStatus(c)
    BY <1>1, <2>1
  <2> QED BY <2>3, <2>5, <2>6, LeaveMapped
<1>4. session[t] = None \/ stage[session[t]] \in Stages
  BY <1>0 DEF TypeOK
<1> QED BY <1>2, <1>3, <1>4 DEF Stages

\* A step that leaves the lease alone: stages may move on among those a live
\* attempt passes with its lock, liveness and locks do not change.
LEMMA AsideMapped ==
  ASSUME Discipline,
         UNCHANGED <<tabOf, vmOf, force, webLocks, lock>>,
         \A c \in Attempts : Live(c)' <=> Live(c),
         \A c \in Attempts : \/ stage'[c] = stage[c]
                             \/ /\ stage[c] \in {"creating", "created"}
                                /\ stage'[c] \in {"created", "refused", "done"}
                             \/ /\ stage[c] \in {"created", "refused"} /\ ~Live(c)
                                /\ stage'[c] = "done"
                             \/ /\ stage[c] = "locked" /\ Live(c)
                                /\ stage'[c] = "creating"
  PROVE  UNCHANGED Lease!leaseVars
<1>1. ASSUME NEW c \in Attempts PROVE LeaseStatus(c)' = LeaseStatus(c)
  BY DEF LeaseStatus
<1> QED BY <1>1, StutterMapped

LEMMA LeaseStep ==
  ASSUME Discipline, [Next]_vars
  PROVE  Lease!LeaseNext \/ UNCHANGED Lease!leaseVars
<1> USE NoneAssumption
<1>0. TypeOK /\ Bookkeeping /\ Pending /\ RefsAreLive /\ HolderIsKnown /\ SocketIsKnown
  BY DEF Discipline
<1>1. ASSUME NEW t \in Tabs, NEW v \in VMs, Mount(t, v) PROVE UNCHANGED Lease!leaseVars
  <2>1. session[t] = None /\ UNCHANGED <<session, stage, tabOf, vmOf, force, webLocks, lock>>
    BY <1>0, <1>1 DEF Bookkeeping, Mount
  <2>2. \A c \in Attempts : Live(c)' <=> Live(c)
    BY <1>0, <1>1, <2>1 DEF TypeOK, Mount, Live, IsCurrent
  <2> QED BY <2>1, <2>2, AsideMapped
<1>2. ASSUME NEW t \in Tabs, Connect(t) \/ TakeOver(t) PROVE Lease!LeaseNext
  <2>1. PICK f \in BOOLEAN, a \in Attempts : StartAttempt(t, f, a)
    BY <1>2 DEF Connect, TakeOver
  <2>2. (session[t] = None \/ conn[t] = "error") /\ vm[t] \in VMs
    BY <1>0, <1>2 DEF Bookkeeping, Connect, TakeOver
  <2>3. lockRef[t] = None
    BY <1>0, <2>2 DEF TypeOK, RefsAreLive
  <2> QED BY <2>1, <2>2, <2>3, StartMapped
<1>3. ASSUME NEW t \in Tabs, ViewerLoadFails(t) \/ ViewerFails(t) \/ Unmount(t)
      PROVE  Lease!LeaseNext \/ UNCHANGED Lease!leaseVars
  <2>1. /\ ReleaseLock(t) /\ session'[t] = None
        /\ \A u \in Tabs \ {t} : session'[u] = session[u] /\ conn'[u] = conn[u]
        /\ UNCHANGED <<tabOf, vmOf, force, webLocks, stage>>
    BY <1>0, <1>3 DEF TypeOK, ViewerLoadFails, ViewerFails, ReportViewerError, Unmount,
       ShowError
  <2> QED BY <2>1, GiveUpMapped
<1>4. ASSUME NEW t \in Tabs, TabCloses(t) PROVE Lease!LeaseNext
  <2> DEFINE S == {c \in Attempts : tabOf[c] = t}
  <2>1. UNCHANGED <<tabOf, vmOf, force, webLocks>>
    BY <1>4 DEF TabCloses
  <2>2. lock' = [v \in VMs |-> IF lock[v] \in S THEN None ELSE lock[v]]
    BY <1>0, <1>4 DEF TypeOK, TabCloses
  <2>3. ASSUME NEW c \in S PROVE stage[c] # "unused" /\ LeaseStatus(c)' = "out"
    <3>1. stage[c] # "unused" /\ vmOf[c] \in VMs
      BY <1>0 DEF Bookkeeping
    <3>2. stage'[c] = "done" /\ ~(Live(c)')
      BY <1>0, <1>4, <2>1 DEF TypeOK, TabCloses, Live, IsCurrent
    <3>3. lock'[vmOf[c]] # c
      BY <2>2, <3>1
    <3> QED BY <2>1, <3>1, <3>2, <3>3 DEF LeaseStatus
  <2>4. ASSUME NEW c \in Attempts \ S PROVE LeaseStatus(c)' = LeaseStatus(c)
    <3>1. stage'[c] = stage[c] /\ vmOf'[c] = vmOf[c] /\ (Live(c)' <=> Live(c))
      BY <1>0, <1>4, <2>1 DEF TypeOK, TabCloses, Live, IsCurrent
    <3>2. CASE stage[c] = "unused"
      BY <3>1, <3>2 DEF LeaseStatus
    <3>3. CASE stage[c] # "unused"
      <4>1. vmOf[c] \in VMs
        BY <1>0, <3>3 DEF Bookkeeping
      <4>2. lock'[vmOf[c]] = c <=> lock[vmOf[c]] = c
        BY <2>2, <4>1
      <4> QED BY <2>1, <3>1, <4>2, StatusKept
    <3> QED BY <3>2, <3>3
  <2> HIDE DEF S
  <2>5. S \in SUBSET Attempts
    BY DEF S
  <2> QED BY <2>1, <2>2, <2>3, <2>4, <2>5, LeaveMapped
<1>5. ASSUME NEW a \in Attempts, LockReply(a) \/ LockRejected(a) PROVE Lease!LeaseNext
  BY <1>5, ReplyMapped, TurnedAwayMapped DEF LockRejected
<1>6. ASSUME NEW a \in Attempts, LockSuperseded(a) \/ LockDenied(a) PROVE Lease!LeaseNext
  <2>1. UNCHANGED <<session, tabOf, vmOf, force, webLocks>> /\ stage' = [stage EXCEPT ![a] = "done"]
    BY <1>6 DEF LockSuperseded, LockDenied
  <2>2. stage[a] \in {"locked", "denied"} /\ vmOf[a] \in VMs /\ ~(Live(a)')
    BY <1>0, <1>6, <2>1
       DEF TypeOK, Bookkeeping, LockSuperseded, LockDenied, ShowError, Live, IsCurrent
  <2>3. lock' = [v \in VMs |-> IF lock[v] \in {a} THEN None ELSE lock[v]]
    <3>1. CASE LockSuperseded(a)
      <4>1. a # None
        BY NoneAssumption
      <4> QED BY <3>1, <4>1 DEF LockSuperseded, Freed
    <3>2. CASE LockDenied(a)
      <4>1. stage[a] = "denied" /\ lock' = lock
        BY <3>2 DEF LockDenied, sharedVars
      <4>2. tabOf[a] \in Tabs /\ a # None
        BY <1>0, <4>1, NoneAssumption DEF Bookkeeping
      <4>3. \A v \in VMs : lock[v] # a
        BY <1>0, <4>1, <4>2 DEF RefsAreLive, HolderIsKnown
      <4>4. lock = [v \in VMs |-> lock[v]]
        BY <1>0 DEF TypeOK
      <4> QED BY <4>1, <4>3, <4>4
    <3> QED BY <1>6, <3>1, <3>2
  <2>4. LeaseStatus(a)' = "out"
    BY <1>0, <2>1, <2>2, <2>3 DEF TypeOK, LeaseStatus
  <2>5. ASSUME NEW c \in Attempts \ {a} PROVE LeaseStatus(c)' = LeaseStatus(c)
    <3>1. stage'[c] = stage[c] /\ vmOf'[c] = vmOf[c]
      BY <1>0, <2>1 DEF TypeOK
    <3>2. Live(c)' <=> Live(c)
      BY <1>0, <1>6, <2>1
         DEF TypeOK, LockSuperseded, LockDenied, ShowError, Live, IsCurrent
    <3>3. CASE stage[c] = "unused"
      BY <3>1, <3>3 DEF LeaseStatus
    <3>4. CASE stage[c] # "unused"
      <4>1. vmOf[c] \in VMs
        BY <1>0, <3>4 DEF Bookkeeping
      <4>2. lock'[vmOf[c]] = c <=> lock[vmOf[c]] = c
        BY <2>3, <4>1
      <4> QED BY <2>1, <3>1, <3>2, <4>2, StatusKept
    <3> QED BY <3>3, <3>4
  <2> QED BY <2>1, <2>2, <2>3, <2>4, <2>5, LeaveMapped
<1>7. ASSUME NEW a \in Attempts,
             \/ LockGranted(a) \/ CreateReply(a) \/ CreateRefused(a) \/ CreateSuperseded(a)
             \/ OpenSocket(a)
      PROVE  UNCHANGED Lease!leaseVars
  <2>1. UNCHANGED <<session, conn, tabOf, vmOf, force, webLocks, lock>>
    BY <1>7 DEF LockGranted, CreateReply, CreateRefused, CreateSuperseded, OpenSocket
  <2>2. \A c \in Attempts : Live(c)' <=> Live(c)
    BY <2>1 DEF Live, IsCurrent
  <2>3. ASSUME NEW c \in Attempts, stage'[c] # stage[c]
        PROVE  \/ /\ stage[c] \in {"creating", "created"}
                  /\ stage'[c] \in {"created", "refused", "done"}
               \/ stage[c] \in {"created", "refused"} /\ ~Live(c) /\ stage'[c] = "done"
               \/ stage[c] = "locked" /\ Live(c) /\ stage'[c] = "creating"
    BY <1>0, <1>7, <2>3 DEF TypeOK, Bookkeeping, Pending, Suspended, LockGranted, CreateReply,
       CreateRefused, CreateSuperseded, OpenSocket, Live, IsCurrent
  <2> QED BY <2>1, <2>2, <2>3, AsideMapped
<1>8. ASSUME NEW a \in Attempts, CreateFailed(a) \/ (CloseEvent(a) /\ IsCurrent(a))
      PROVE  Lease!LeaseNext \/ UNCHANGED Lease!leaseVars
  <2>1. tabOf[a] \in Tabs /\ session[tabOf[a]] = a
    BY <1>0, <1>8 DEF Bookkeeping, CreateFailed, CloseEvent, IsCurrent
  <2>2. /\ ReleaseLock(tabOf[a]) /\ conn' = [conn EXCEPT ![tabOf[a]] = "error"]
        /\ UNCHANGED <<session, tabOf, vmOf, force, webLocks>>
        /\ \/ stage' = stage
           \/ stage[a] = "refused" /\ stage' = [stage EXCEPT ![a] = "done"]
    BY <1>8 DEF CreateFailed, CloseEvent, ShowError
  <2>3. \A c \in Attempts : \/ stage'[c] = stage[c]
                            \/ /\ c = session[tabOf[a]]
                               /\ stage[c] = "refused" /\ stage'[c] = "done"
    BY <1>0, <2>1, <2>2 DEF TypeOK
  <2>4. /\ conn'[tabOf[a]] = "error"
        /\ \A u \in Tabs \ {tabOf[a]} : conn'[u] = conn[u]
    BY <1>0, <2>1, <2>2 DEF TypeOK
  <2> QED BY <2>1, <2>2, <2>3, <2>4, GiveUpMapped
<1>9. ASSUME NEW a \in Attempts,
             \/ HandshakeAccepted(a) \/ HandshakeRefused(a) \/ OpenEvent(a)
             \/ ConnectionDrops(a) \/ (CloseEvent(a) /\ ~IsCurrent(a))
      PROVE  UNCHANGED Lease!leaseVars
  <2>1. UNCHANGED <<session, stage, tabOf, vmOf, force, webLocks, lock>>
    BY <1>9 DEF HandshakeAccepted, HandshakeRefused, OpenEvent, ConnectionDrops, CloseEvent
  <2>2. \A c \in Attempts : Live(c)' <=> Live(c)
    BY <1>0, <1>9, <2>1 DEF TypeOK, RefsAreLive, SocketIsKnown, HandshakeAccepted,
       HandshakeRefused, OpenEvent, ConnectionDrops, CloseEvent, Live, IsCurrent
  <2> QED BY <2>1, <2>2, AsideMapped
<1>10. CASE ClearArrives \/ ClearFails \/ UNCHANGED vars
  <2>1. UNCHANGED <<session, conn, stage, tabOf, vmOf, force, webLocks, lock>>
    BY <1>10 DEF ClearArrives, ClearFails, vars
  <2>2. \A c \in Attempts : Live(c)' <=> Live(c)
    BY <2>1 DEF Live, IsCurrent
  <2> QED BY <2>1, <2>2, AsideMapped
<1> QED BY <1>1, <1>2, <1>3, <1>4, <1>5, <1>6, <1>7, <1>8, <1>9, <1>10 DEF Next

\* The hook, the Web Lock and the tabs' bookkeeping implement the lease: every
\* step of the console is one of the lease or leaves it alone (acquireLock,
\* releaseLock, isCurrentSession).
THEOREM ConsoleImplementsLease == Spec => ImplementsLease
<1>1. Init => Lease!LeaseInit
  <2> SUFFICES ASSUME Init PROVE Lease!LeaseInit
    OBVIOUS
  <2>1. [a \in Attempts |-> LeaseStatus(a)] = [a \in Attempts |-> "new"]
    BY DEF Init, LeaseStatus
  <2> QED BY <2>1 DEF Init, Lease!LeaseInit
<1>2. Discipline /\ [Next]_vars => [Lease!LeaseNext]_(Lease!leaseVars)
  BY LeaseStep
<1> QED BY <1>1, <1>2, ConsoleDiscipline, PTL DEF Spec, ImplementsLease, Lease!LeaseSpec

\* Of the attempts for one VM at most one has the lease, and it is the one the
\* browser's lock table names: none that was denied, robbed or ended.
THEOREM ConsoleLeaseIsExclusive == Spec => []Lease!LeaseExclusive
<1>1. Discipline => Lease!LeaseExclusive
  BY NoneAssumption DEF Discipline, TypeOK, Bookkeeping, HolderIsKnown, RefsAreLive,
     Lease!LeaseExclusive, LeaseStatus
<1> QED BY <1>1, ConsoleDiscipline, PTL
===============================================================================
