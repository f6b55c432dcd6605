---------------------------- MODULE ConsoleSession ----------------------------
(***************************************************************************)
(* The remote console of a virtual machine, as the tabs of ONE browser use *)
(* it: the useConsoleSession hook of every tab, the Web Lock and the       *)
(* console-ticket cookie those tabs share, the proxy routes that set,      *)
(* clear and promote that cookie, and the console-proxy behind them.       *)
(*                                                                         *)
(* An element of Attempts is one call of attemptConnect that got past the  *)
(* isRunning test.  It stands for the sessionId it drew, the Web Lock      *)
(* handle it was given, the ticket its Create minted and the WebSocket it  *)
(* opened: the code has at most one of each per call.  sessionIdRef only   *)
(* grows, so "is my sessionId current" becomes "is session[t] this         *)
(* attempt", and None stands for a value no attempt drew (a bump without a *)
(* connect, or a fresh mount).                                             *)
(*                                                                         *)
(* Bounds: Attempts (calls in a behaviour), MaxClears (clear requests in   *)
(* flight; one more is dropped, which the code's empty catch allows).      *)
(***************************************************************************)
EXTENDS Integers

CONSTANTS
  Tabs,        \* tabs of one browser: they share cookies, locks and client id
  VMs,         \* compute instances that have a console
  Attempts,    \* attemptConnect calls
  None,
  MaxClears,   \* bound on clear-ticket requests in flight
  Faults       \* which of "clearFails", "tabCloses", "noWebLocks" (a browser
               \* without the API) and "lockFails" (a rejected request) may happen

ASSUME NoneAssumption == None \notin Tabs \cup VMs \cup Attempts
ASSUME BoundAssumption == MaxClears \in Nat \ {0}
ASSUME FaultsAssumption ==
  Faults \subseteq {"clearFails", "tabCloses", "noWebLocks", "lockFails"}

VARIABLES
  view,       \* per tab: is VmConsoleView mounted, and has its viewer code loaded
  vm,         \* per tab: the resourceId of the mounted view
  conn,       \* per tab: connectionState
  kind,       \* per tab: errorKind
  session,    \* per tab: sessionIdRef
  lockRef,    \* per tab: lockRef
  socketRef,  \* per tab: socketRef (and the webSocket state set with it)
  stage,      \* per attempt: where its async function is suspended
  tabOf, vmOf, force,  \* per attempt: who made it, for what, and plain or takeOver
  webLocks,   \* has this browser the Web Locks API
  robbed,     \* history: the attempts whose lock a takeOver stole from them
  sock,       \* per attempt: its WebSocket
  opened,     \* per attempt: hasOpened
  lock,       \* per VM: the attempt whose handle holds the Web Lock
  cookie,     \* the browser's console-ticket: the attempt whose Create minted it
  clears,     \* clear requests in flight
  owner,      \* console-proxy, per VM: the socket that has the console
  reach       \* per attempt: the VM whose console its socket was given

tabVars     == <<view, vm, conn, kind, session, lockRef, socketRef>>
callVars    == <<tabOf, vmOf, force, webLocks, robbed>>
attemptVars == <<stage, callVars, sock, opened>>
sharedVars  == <<lock, cookie, clears>>
serverVars  == <<owner, reach>>
vars == <<tabVars, attemptVars, sharedVars, serverVars>>

ConnStates == {"idle", "connecting", "connected", "error", "disconnected"}
ErrorKinds == {"generic", "possibleConflict", "siblingTabConflict", "viewer"}
Stages == {"unused", "locking", "locked", "denied", "creating", "created",
           "refused", "done"}
SockStates == {"none", "dialing", "admitted", "open", "ended", "closing", "closed"}

\* A view has its resource as long as it is there, and connects for no other.
MadeByAView ==
  /\ \A t \in Tabs : vm[t] = None <=> view[t] = "none"
  /\ \A a \in Attempts : IF stage[a] = "unused" THEN tabOf[a] = None
                         ELSE tabOf[a] \in Tabs /\ vmOf[a] \in VMs

TypeOK ==
  /\ view \in [Tabs -> {"none", "loading", "shown"}]
  /\ vm \in [Tabs -> VMs \cup {None}]
  /\ conn \in [Tabs -> ConnStates]
  /\ kind \in [Tabs -> ErrorKinds]
  /\ session \in [Tabs -> Attempts \cup {None}]
  /\ lockRef \in [Tabs -> Attempts \cup {None}]
  /\ socketRef \in [Tabs -> Attempts \cup {None}]
  /\ stage \in [Attempts -> Stages]
  /\ tabOf \in [Attempts -> Tabs \cup {None}]
  /\ vmOf \in [Attempts -> VMs \cup {None}]
  /\ force \in [Attempts -> BOOLEAN]
  /\ webLocks \in BOOLEAN /\ robbed \subseteq Attempts
  /\ sock \in [Attempts -> SockStates]
  /\ opened \in [Attempts -> BOOLEAN]
  /\ lock \in [VMs -> Attempts \cup {None}]
  /\ cookie \in Attempts \cup {None}
  /\ clears \in 0..MaxClears
  /\ owner \in [VMs -> Attempts \cup {None}]
  /\ reach \in [Attempts -> VMs \cup {None}]
  /\ MadeByAView

Init ==
  /\ view = [t \in Tabs |-> "none"]
  /\ vm = [t \in Tabs |-> None]
  /\ conn = [t \in Tabs |-> "idle"]
  /\ kind = [t \in Tabs |-> "generic"]
  /\ session = [t \in Tabs |-> None]
  /\ lockRef = [t \in Tabs |-> None]
  /\ socketRef = [t \in Tabs |-> None]
  /\ stage = [a \in Attempts |-> "unused"]
  /\ tabOf = [a \in Attempts |-> None]
  /\ vmOf = [a \in Attempts |-> None]
  /\ force = [a \in Attempts |-> FALSE]
  /\ webLocks \in IF "noWebLocks" \in Faults THEN BOOLEAN ELSE {TRUE}
  /\ robbed = {}
  /\ sock = [a \in Attempts |-> "none"]
  /\ opened = [a \in Attempts |-> FALSE]
  /\ lock = [v \in VMs |-> None]
  /\ cookie = None
  /\ clears = 0
  /\ owner = [v \in VMs |-> None]
  /\ reach = [a \in Attempts |-> None]

-------------------------------------------------------------------------------
(* Helpers of the hook. *)

\* The attempt behind a callback is still the tab's latest one.
IsCurrent(a) == session[tabOf[a]] = a

\* (Bug: the release goes by the lock's name, whoever holds it.)
FreedByName(h) == [v \in VMs |-> IF h # None /\ v = vmOf[h] THEN None ELSE lock[v]]

\* A Web Lock after handle h is released: it is freed only if h still has it,
\* since a stolen handle's release resolves a promise nobody waits for.
Freed(h) == [v \in VMs |-> IF h # None /\ lock[v] = h THEN None ELSE lock[v]]

ReleaseLock(t) ==
  /\ lock' = Freed(lockRef[t])
  /\ lockRef' = [lockRef EXCEPT ![t] = None]

\* clearConsoleTicketCookie: the request leaves; nothing waits for it.
SendClear == clears' = IF clears < MaxClears THEN clears + 1 ELSE clears

\* A socket after close(): nothing to do unless it is still connecting or open.
Closing(s) == IF s \in {"dialing", "admitted", "open"} THEN "closing" ELSE s

\* (Bug: the ref is dropped but the socket is left open.)
CloseSocketForgotten(t) ==
  /\ socketRef' = [socketRef EXCEPT ![t] = None]
  /\ UNCHANGED sock

CloseSocket(t) ==
  /\ socketRef' = [socketRef EXCEPT ![t] = None]
  /\ sock' = [a \in Attempts |-> IF a = socketRef[t] THEN Closing(sock[a]) ELSE sock[a]]

ShowError(t, k) ==
  /\ conn' = [conn EXCEPT ![t] = "error"]
  /\ kind' = [kind EXCEPT ![t] = k]

-------------------------------------------------------------------------------
(* The view and the synchronous entry points of the hook. *)

\* The Console tab of a running VM renders VmConsoleView.
Mount(t, v) ==
  /\ view[t] = "none"
  /\ view' = [view EXCEPT ![t] = "loading"]
  /\ vm' = [vm EXCEPT ![t] = v]
  /\ conn' = [conn EXCEPT ![t] = "idle"]
  /\ kind' = [kind EXCEPT ![t] = "generic"]
  /\ UNCHANGED <<session, lockRef, socketRef, attemptVars, sharedVars, serverVars>>

\* attemptConnect up to its first await.
StartAttempt(t, f, a) ==
  /\ stage[a] = "unused"
  /\ stage' = [stage EXCEPT ![a] = "locking"]
  /\ tabOf' = [tabOf EXCEPT ![a] = t]
  /\ vmOf' = [vmOf EXCEPT ![a] = vm[t]]
  /\ force' = [force EXCEPT ![a] = f]
  /\ session' = [session EXCEPT ![t] = a]
  /\ ReleaseLock(t)
  /\ conn' = [conn EXCEPT ![t] = "connecting"]
  /\ kind' = [kind EXCEPT ![t] = "generic"]
  /\ UNCHANGED <<vm, socketRef, webLocks, robbed, sock, opened, cookie, clears, serverVars>>

\* (Bug: loadThenConnect does not ask whether its view is still there.)
ConnectLate(t) ==
  /\ view[t] # "shown"
  /\ view' = [view EXCEPT ![t] = IF view[t] = "none" THEN "none" ELSE "shown"]
  /\ \E a \in Attempts : StartAttempt(t, FALSE, a)

\* loadThenConnect: the viewer code is there, connect() runs once.
Connect(t) ==
  /\ view[t] = "loading"
  /\ view' = [view EXCEPT ![t] = "shown"]
  /\ \E a \in Attempts : StartAttempt(t, FALSE, a)

\* The "Take over" button, rendered for a sibling-tab conflict only.
TakeOver(t) ==
  /\ view[t] = "shown"
  /\ conn[t] = "error" /\ kind[t] = "siblingTabConflict"
  /\ \E a \in Attempts : StartAttempt(t, TRUE, a)
  /\ UNCHANGED view

\* (Bug: the session is not invalidated first.)
ReportViewerErrorKeepsSession(t) ==
  /\ UNCHANGED session
  /\ ReleaseLock(t)
  /\ CloseSocket(t)
  /\ SendClear
  /\ ShowError(t, "viewer")
  /\ UNCHANGED <<vm, stage, callVars, opened, cookie, serverVars>>

ReportViewerError(t) ==
  /\ session' = [session EXCEPT ![t] = None]
  /\ ReleaseLock(t)
  /\ CloseSocket(t)
  /\ SendClear
  /\ ShowError(t, "viewer")
  /\ UNCHANGED <<vm, stage, callVars, opened, cookie, serverVars>>

\* The viewer code cannot be loaded.
ViewerLoadFails(t) ==
  /\ view[t] = "loading"
  /\ view' = [view EXCEPT ![t] = "shown"]
  /\ ReportViewerError(t)

\* A mounted viewer reports an error (protocol, size or connect timeout).
ViewerFails(t) ==
  /\ view[t] = "shown" /\ conn[t] # "error" /\ socketRef[t] # None
  /\ ReportViewerError(t)
  /\ UNCHANGED view

\* (Bug: the cleanup forgets the Web Lock.)
UnmountKeepsLock(t) ==
  /\ view[t] # "none"
  /\ view' = [view EXCEPT ![t] = "none"]
  /\ vm' = [vm EXCEPT ![t] = None]
  /\ session' = [session EXCEPT ![t] = None]
  /\ CloseSocket(t)
  /\ conn' = [conn EXCEPT ![t] = "disconnected"]
  /\ kind' = [kind EXCEPT ![t] = "generic"]
  /\ SendClear
  /\ UNCHANGED <<lock, lockRef, stage, callVars, opened, cookie, serverVars>>

\* The effect cleanup: the view goes away, the VM stops or the transport changes.
Unmount(t) ==
  /\ view[t] # "none"
  /\ view' = [view EXCEPT ![t] = "none"]
  /\ vm' = [vm EXCEPT ![t] = None]
  /\ session' = [session EXCEPT ![t] = None]
  /\ ReleaseLock(t)
  /\ CloseSocket(t)
  /\ conn' = [conn EXCEPT ![t] = "disconnected"]
  /\ kind' = [kind EXCEPT ![t] = "generic"]
  /\ SendClear
  /\ UNCHANGED <<stage, callVars, opened, cookie, serverVars>>

-------------------------------------------------------------------------------
(* The Web Lock: the browser answers, then the async function continues. *)

\* (Bug: ifAvailable is not asked for, a held lock is handed out again.)
LockReplyAlways(a) ==
  /\ stage[a] = "locking"
  /\ stage' = [stage EXCEPT ![a] = "locked"]
  /\ lock' = IF webLocks THEN [lock EXCEPT ![vmOf[a]] = a] ELSE lock
  /\ UNCHANGED <<tabVars, callVars, sock, opened, cookie, clears, serverVars>>

\* steal always grants; ifAvailable grants a free lock and reports a held one.
\* Without the API every request gets a handle, and no lock is behind it.
LockReply(a) ==
  /\ stage[a] = "locking"
  /\ \/ /\ ~webLocks
        /\ stage' = [stage EXCEPT ![a] = "locked"]
        /\ UNCHANGED <<lock, robbed>>
     \/ /\ webLocks /\ (force[a] \/ lock[vmOf[a]] = None)
        /\ stage' = [stage EXCEPT ![a] = "locked"]
        /\ lock' = [lock EXCEPT ![vmOf[a]] = a]
        /\ robbed' = robbed \cup ({lock[vmOf[a]]} \ {None})
     \/ /\ webLocks /\ ~force[a] /\ lock[vmOf[a]] # None
        /\ stage' = [stage EXCEPT ![a] = "denied"]
        /\ UNCHANGED <<lock, robbed>>
  /\ UNCHANGED <<tabVars, tabOf, vmOf, force, webLocks, sock, opened, cookie, clears,
                 serverVars>>

\* The browser rejects the request, a steal included: the catch makes it null,
\* which reads like a lock another tab has.
LockRejected(a) ==
  /\ "lockFails" \in Faults /\ webLocks
  /\ stage[a] = "locking"
  /\ stage' = [stage EXCEPT ![a] = "denied"]
  /\ UNCHANGED <<tabVars, callVars, sock, opened, sharedVars, serverVars>>

\* (Bug: the superseded attempt returns without giving its lock back.)
LockSupersededKeeps(a) ==
  /\ stage[a] \in {"locked", "denied"} /\ ~IsCurrent(a)
  /\ stage' = [stage EXCEPT ![a] = "done"]
  /\ UNCHANGED <<tabVars, callVars, sock, opened, sharedVars, serverVars>>

\* Superseded while waiting: a lock that came late is given back.
LockSuperseded(a) ==
  /\ stage[a] \in {"locked", "denied"} /\ ~IsCurrent(a)
  /\ lock' = Freed(a)
  /\ stage' = [stage EXCEPT ![a] = "done"]
  /\ UNCHANGED <<tabVars, callVars, sock, opened, cookie, clears, serverVars>>

\* (Bug: an early return that leaves "connecting" on screen.)
LockDeniedSilently(a) ==
  /\ stage[a] = "denied" /\ IsCurrent(a)
  /\ stage' = [stage EXCEPT ![a] = "done"]
  /\ UNCHANGED <<tabVars, callVars, sock, opened, sharedVars, serverVars>>

LockDenied(a) ==
  /\ stage[a] = "denied" /\ IsCurrent(a)
  /\ stage' = [stage EXCEPT ![a] = "done"]
  /\ ShowError(tabOf[a], "siblingTabConflict")
  /\ UNCHANGED <<view, vm, session, lockRef, socketRef, callVars, sock,
                 opened, sharedVars, serverVars>>

LockGranted(a) ==
  /\ stage[a] = "locked" /\ IsCurrent(a)
  /\ stage' = [stage EXCEPT ![a] = "creating"]
  /\ lockRef' = [lockRef EXCEPT ![tabOf[a]] = a]
  /\ UNCHANGED <<view, vm, conn, kind, session, socketRef, callVars, sock,
                 opened, sharedVars, serverVars>>

-------------------------------------------------------------------------------
(* The Create call, and the ticket it leaves in the browser's cookie jar. *)

\* A successful Create: the proxy moves the ticket into Set-Cookie, which the
\* browser stores before the promise continues.  A response without a ticket
\* is passed through and leaves the cookie as it was.
CreateReply(a) ==
  /\ stage[a] = "creating"
  /\ stage' = [stage EXCEPT ![a] = "created"]
  /\ cookie' \in {a, cookie}
  /\ UNCHANGED <<tabVars, callVars, sock, opened, lock, clears, serverVars>>

CreateRefused(a) ==
  /\ stage[a] = "creating"
  /\ stage' = [stage EXCEPT ![a] = "refused"]
  /\ UNCHANGED <<tabVars, callVars, sock, opened, sharedVars, serverVars>>

\* Whoever superseded the attempt has released its lock already.
CreateSuperseded(a) ==
  /\ stage[a] \in {"created", "refused"} /\ ~IsCurrent(a)
  /\ stage' = [stage EXCEPT ![a] = "done"]
  /\ UNCHANGED <<tabVars, callVars, sock, opened, sharedVars, serverVars>>

\* (Bug: no test after the await that the attempt is still current.)
OpenSocketUnchecked(a) ==
  /\ stage[a] = "created"
  /\ stage' = [stage EXCEPT ![a] = "done"]
  /\ sock' = [sock EXCEPT ![a] = "dialing"]
  /\ socketRef' = [socketRef EXCEPT ![tabOf[a]] = a]
  /\ UNCHANGED <<view, vm, conn, kind, session, lockRef, callVars, opened,
                 sharedVars, serverVars>>

OpenSocket(a) ==
  /\ stage[a] = "created" /\ IsCurrent(a)
  /\ stage' = [stage EXCEPT ![a] = "done"]
  /\ sock' = [sock EXCEPT ![a] = "dialing"]
  /\ socketRef' = [socketRef EXCEPT ![tabOf[a]] = a]
  /\ UNCHANGED <<view, vm, conn, kind, session, lockRef, callVars, opened,
                 sharedVars, serverVars>>

\* (Bug: the catch block forgets the lock.)
CreateFailedKeepsLock(a) ==
  /\ stage[a] = "refused" /\ IsCurrent(a)
  /\ stage' = [stage EXCEPT ![a] = "done"]
  /\ SendClear
  /\ ShowError(tabOf[a], "generic")
  /\ UNCHANGED <<view, vm, session, lock, lockRef, socketRef, callVars, sock,
                 opened, cookie, serverVars>>

CreateFailed(a) ==
  /\ stage[a] = "refused" /\ IsCurrent(a)
  /\ stage' = [stage EXCEPT ![a] = "done"]
  /\ ReleaseLock(tabOf[a])
  /\ SendClear
  /\ ShowError(tabOf[a], "generic")
  /\ UNCHANGED <<view, vm, session, socketRef, callVars, sock, opened,
                 cookie, serverVars>>

-------------------------------------------------------------------------------
(* The WebSocket, from the handshake to the close event. *)

\* The upgrade request leaves with whatever ticket the cookie holds NOW; the
\* proxy promotes it to Authorization.  console-proxy gives the ticket's VM to
\* the new socket and ends the one that had it: the client id is the same.
HandshakeAccepted(a) ==
  /\ sock[a] = "dialing" /\ cookie # None
  /\ LET w == vmOf[cookie] IN
       /\ owner' = [owner EXCEPT ![w] = a]
       /\ reach' = [reach EXCEPT ![a] = w]
       /\ sock' = [b \in Attempts |->
                     IF b = a THEN "admitted"
                     ELSE IF b = owner[w] /\ sock[b] \in {"admitted", "open"} THEN "ended"
                     ELSE sock[b]]
  /\ UNCHANGED <<tabVars, stage, callVars, opened, sharedVars>>

\* No ticket, an expired one, a console owned by another user, a network error.
HandshakeRefused(a) ==
  /\ sock[a] = "dialing"
  /\ sock' = [sock EXCEPT ![a] = "ended"]
  /\ UNCHANGED <<tabVars, stage, callVars, opened, sharedVars, serverVars>>

OpenEvent(a) ==
  /\ sock[a] = "admitted"
  /\ sock' = [sock EXCEPT ![a] = "open"]
  /\ IF IsCurrent(a)
     THEN /\ opened' = [opened EXCEPT ![a] = TRUE]
          /\ conn' = [conn EXCEPT ![tabOf[a]] = "connected"]
     ELSE UNCHANGED <<opened, conn>>
  /\ UNCHANGED <<view, vm, kind, session, lockRef, socketRef, stage, callVars,
                 sharedVars, serverVars>>

Disowned(a) == [v \in VMs |-> IF owner[v] = a THEN None ELSE owner[v]]

\* The server side or the network drops an established connection.
ConnectionDrops(a) ==
  /\ sock[a] \in {"admitted", "open"}
  /\ sock' = [sock EXCEPT ![a] = "ended"]
  /\ owner' = Disowned(a)
  /\ UNCHANGED <<tabVars, stage, callVars, opened, sharedVars, reach>>

\* (Bug: a close event is believed without the isCurrentSession test.)
CloseEventUnchecked(a) ==
  /\ sock[a] \in {"ended", "closing"}
  /\ sock' = [sock EXCEPT ![a] = "closed"]
  /\ owner' = Disowned(a)
  /\ socketRef' = [socketRef EXCEPT ![tabOf[a]] = None]
  /\ SendClear
  /\ ReleaseLock(tabOf[a])
  /\ ShowError(tabOf[a], IF opened[a] THEN "generic" ELSE "possibleConflict")
  /\ UNCHANGED <<view, vm, session, stage, callVars, opened, cookie, reach>>

\* (Bug: only a socket that never opened reports its close.)
CloseEventQuiet(a) ==
  /\ sock[a] \in {"ended", "closing"}
  /\ sock' = [sock EXCEPT ![a] = "closed"]
  /\ owner' = Disowned(a)
  /\ IF IsCurrent(a) /\ ~opened[a]
     THEN /\ socketRef' = [socketRef EXCEPT ![tabOf[a]] = None]
          /\ SendClear
          /\ ReleaseLock(tabOf[a])
          /\ ShowError(tabOf[a], "possibleConflict")
     ELSE UNCHANGED <<socketRef, clears, lock, lockRef, conn, kind>>
  /\ UNCHANGED <<view, vm, session, stage, callVars, opened, cookie, reach>>

CloseEvent(a) ==
  /\ sock[a] \in {"ended", "closing"}
  /\ sock' = [sock EXCEPT ![a] = "closed"]
  /\ owner' = Disowned(a)
  /\ IF IsCurrent(a)
     THEN /\ socketRef' = [socketRef EXCEPT ![tabOf[a]] = None]
          /\ SendClear
          /\ ReleaseLock(tabOf[a])
          /\ ShowError(tabOf[a], IF opened[a] THEN "generic" ELSE "possibleConflict")
     ELSE UNCHANGED <<socketRef, clears, lock, lockRef, conn, kind>>
  /\ UNCHANGED <<view, vm, session, stage, callVars, opened, cookie, reach>>

-------------------------------------------------------------------------------
(* The clear route, and what the browser may do on its own. *)

ClearArrives ==
  /\ clears > 0
  /\ clears' = clears - 1
  /\ cookie' = None
  /\ UNCHANGED <<tabVars, attemptVars, lock, serverVars>>

ClearFails ==
  /\ "clearFails" \in Faults /\ clears > 0
  /\ clears' = clears - 1
  /\ UNCHANGED <<tabVars, attemptVars, lock, cookie, serverVars>>

\* The tab is closed, reloaded or crashes: no cleanup runs, the browser frees
\* its locks, abandons its calls and drops its sockets.
TabCloses(t) ==
  /\ "tabCloses" \in Faults /\ view[t] # "none"
  /\ view' = [view EXCEPT ![t] = "none"]
  /\ vm' = [vm EXCEPT ![t] = None]
  /\ conn' = [conn EXCEPT ![t] = "idle"]
  /\ kind' = [kind EXCEPT ![t] = "generic"]
  /\ session' = [session EXCEPT ![t] = None]
  /\ lockRef' = [lockRef EXCEPT ![t] = None]
  /\ socketRef' = [socketRef EXCEPT ![t] = None]
  /\ lock' = [v \in VMs |-> IF lock[v] # None /\ tabOf[lock[v]] = t THEN None ELSE lock[v]]
  /\ stage' = [a \in Attempts |-> IF tabOf[a] = t THEN "done" ELSE stage[a]]
  /\ sock' = [a \in Attempts |-> IF tabOf[a] = t THEN Closing(sock[a]) ELSE sock[a]]
  /\ UNCHANGED <<callVars, opened, cookie, clears, serverVars>>

-------------------------------------------------------------------------------
Next ==
  \/ \E t \in Tabs : \/ \E v \in VMs : Mount(t, v)
                     \/ Connect(t) \/ TakeOver(t) \/ ViewerLoadFails(t)
                     \/ ViewerFails(t) \/ Unmount(t) \/ TabCloses(t)
  \/ \E a \in Attempts : \/ LockReply(a) \/ LockRejected(a) \/ LockSuperseded(a)
                         \/ LockDenied(a) \/ LockGranted(a) \/ CreateReply(a) \/ CreateRefused(a)
                         \/ CreateSuperseded(a) \/ OpenSocket(a) \/ CreateFailed(a)
                         \/ HandshakeAccepted(a) \/ HandshakeRefused(a)
                         \/ OpenEvent(a) \/ ConnectionDrops(a) \/ CloseEvent(a)
  \/ ClearArrives \/ ClearFails

Spec == Init /\ [][Next]_vars

\* The browser answers a lock request, runs a continuation and delivers an
\* event; a fetch or a handshake settles one way or the other; a clear settles.
Fairness ==
  /\ \A a \in Attempts :
       /\ WF_vars(LockReply(a) \/ LockRejected(a))
       /\ WF_vars(LockSuperseded(a) \/ LockDenied(a) \/ LockGranted(a))
       /\ WF_vars(CreateReply(a) \/ CreateRefused(a))
       /\ WF_vars(CreateSuperseded(a) \/ OpenSocket(a) \/ CreateFailed(a))
       /\ WF_vars(HandshakeAccepted(a) \/ HandshakeRefused(a))
       /\ WF_vars(OpenEvent(a))
       /\ WF_vars(CloseEvent(a))
  /\ WF_vars(ClearArrives)

FairSpec == Spec /\ Fairness

-------------------------------------------------------------------------------
(* Safety. *)

\* A console a tab is bringing up or showing: its latest attempt, still wanted.
Live(a) == /\ tabOf[a] # None /\ IsCurrent(a)
           /\ conn[tabOf[a]] \in {"connecting", "connected"}

\* The Web Lock means "a live tab has this console": every holder is a live
\* attempt of its tab that can still release it, or one whose continuation is
\* about to run and will.  A lock left by a superseded, failed or closed
\* attempt would show every sibling a conflict nobody can resolve.
LockHasLiveHolder ==
  \A v \in VMs : lock[v] # None =>
    LET a == lock[v] IN
      /\ vmOf[a] = v
      /\ \/ stage[a] = "locked"
         \/ Live(a) /\ lockRef[tabOf[a]] = a

\* Two tabs never bring up the same console at once by a plain connect: of two
\* that do, one had its lock stolen by a takeOver while it held it, and a takeOver
\* that is over allows nothing to anyone else (useConsoleSession 137-142).
\* Without the Web Locks API nothing is promised (console-websocket 48).
LockKeepsTabsApart ==
  webLocks =>
    \A a, b \in Attempts :
      /\ a # b /\ vmOf[a] = vmOf[b]
      /\ Live(a) /\ lockRef[tabOf[a]] = a
      /\ Live(b) /\ lockRef[tabOf[b]] = b
      => a \in robbed \/ b \in robbed

\* A console that reports an error, or is gone, keeps neither a lock nor a
\* socket, whatever was in flight when it failed (useConsoleSession 115-119).
FailedKeepsNothing ==
  \A t \in Tabs : conn[t] \notin {"connecting", "connected"} =>
    lockRef[t] = None /\ socketRef[t] = None

\* No socket outlives its console: one that is connecting or open is the
\* socketRef of the attempt its tab is on, so that somebody can close it.
NoStraySocket ==
  \A a \in Attempts : sock[a] \in {"dialing", "admitted", "open"} =>
    Live(a) /\ socketRef[tabOf[a]] = a

\* A lock is lost in two ways only: its holder is over, or a takeOver stole it.
\* A tab that was robbed can never free the thief's lock by releasing its own.
LockLostOnlyByReleaseOrSteal ==
  [][\A v \in VMs, a \in Attempts : lock[v] = a /\ lock'[v] # a =>
       IF lock'[v] = None THEN ~Live(a)' ELSE force[lock'[v]]]_vars

\* A viewer failure stays on screen: the close event of its socket, or the rest
\* of its attempt, never replaces it (useConsoleSession 121-124).
ViewerErrorStays ==
  [][\A t \in Tabs : conn[t] = "error" /\ kind[t] = "viewer" /\ view'[t] = "shown" =>
       conn'[t] = "error" /\ kind'[t] = "viewer"]_vars

\* A console fails for a reason of its own: the step that turns it to an error
\* is a viewer error, or a refused lock, Create or socket of its latest attempt.
OnlyOwnFailureShows ==
  [][\A t \in Tabs : conn[t] \in {"connecting", "connected"} /\ conn'[t] = "error" =>
       \/ kind'[t] = "viewer"
       \/ LET a == session[t] IN
            /\ a # None /\ session'[t] = a
            /\ stage[a] \in {"denied", "refused"} \/ sock[a] = "ended"]_vars

(* Liveness. *)

\* "Connecting" never lasts for ever.
ConnectingEnds ==
  \A t \in Tabs : conn[t] = "connecting" ~> conn[t] # "connecting"

\* A tab whose console was given to another socket stops showing it connected.
LoserNotices ==
  \A a \in Attempts : (sock[a] = "ended" /\ Live(a)) ~> ~Live(a)

\* console-proxy gets its console back from every attempt its tab gave up.
GivenUpIsDisowned ==
  \A a \in Attempts, v \in VMs :
    (owner[v] = a /\ ~Live(a)) ~> owner[v] # a

(* What the code's comments promise and its behaviour does not keep. *)

\* connect() works "without disturbing another active session, if any"
\* (useConsoleSession 51-52): a plain connect never ends a connected console.
PlainConnectDisturbsNobody ==
  [][\A v \in VMs :
       LET a == owner[v]  b == owner'[v] IN
         a # None /\ b # None /\ b # a /\ ~force[b] =>
           ~(Live(a) /\ conn[tabOf[a]] = "connected")]_vars

\* connect() "opens the WebSocket for this resource" (useConsoleSession 51).
SocketReachesItsVM ==
  \A a \in Attempts : sock[a] = "open" => reach[a] = vmOf[a]

\* The cleanup clears the ticket cookie when the component unmounts
\* (useConsoleSession 252-254): with every console gone and nothing in flight,
\* no ticket is left in the browser.
Quiet ==
  /\ clears = 0
  /\ \A t \in Tabs : view[t] = "none"
  /\ \A a \in Attempts : stage[a] \in {"unused", "done"} /\ sock[a] \in {"none", "closed"}

TicketGoneWhenUnmounted == Quiet => cookie = None
(* The lease the hook implements with the Web Lock and its own bookkeeping. *)

\* An attempt is done with its lock once it is denied, superseded or failed.
\* Without the API there is no lease: an attempt is out once it has its answer.
LeaseStatus(a) ==
  IF stage[a] = "unused" THEN "new"
  ELSE IF stage[a] = "locking" THEN "asking"
  ELSE IF lock[vmOf[a]] = a THEN "holding"
  ELSE IF webLocks /\ (stage[a] = "locked" \/ (Live(a) /\ stage[a] # "denied"))
       THEN "robbed"
  ELSE "out"

Lease == INSTANCE ConsoleLease WITH
  Clients <- Attempts, Resources <- VMs, Nobody <- None,
  status <- [a \in Attempts |-> LeaseStatus(a)],
  wanted <- vmOf, thief <- force, holder <- lock

\* The hook keeps the lease's promise: the lock goes back in the step that ends
\* an attempt, and an attempt that was denied, robbed or ended never has it.
ImplementsLease == Lease!LeaseSpec
===============================================================================
