----------------------------- MODULE ConsoleViewer -----------------------------
(***************************************************************************)
(* VncConsoleViewer: one effect per console WebSocket loads the noVNC      *)
(* code, waits for the display area to have a size, constructs the RFB     *)
(* client and reports what becomes of it.  Loads cannot be cancelled, so a *)
(* load begun for one socket may end while another is shown; rfbRef is     *)
(* shared by all the effects, everything else belongs to one of them.      *)
(***************************************************************************)
CONSTANTS
  Sockets,  \* the sockets the page is given, one after another
  NoSocket

ASSUME ViewerAssumption == NoSocket \notin Sockets

VARIABLES
  shown,     \* the socket whose effect is mounted
  used,      \* sockets that have been shown
  sized,     \* the display area has a width and a height
  loading,   \* effects with a load in flight (initInFlight)
  rfbRef,    \* the socket of the RFB in rfbRef
  live,      \* sockets of the RFBs constructed and not disconnected
  wire,      \* per socket: how far its RFB came
  initTimer, \* effects whose RFB_INIT_TIMEOUT_MS runs
  connTimer, \* effects whose RFB_CONNECT_TIMEOUT_MS runs
  said       \* per socket: the last thing its effect reported

viewerVars ==
  <<shown, used, sized, loading, rfbRef, live, wire, initTimer, connTimer, said>>

Reports == {"nothing", "connected", "noSize", "loadFailed", "timedOut",
            "disconnected", "neverConnected"}

ViewerTypeOK ==
  /\ shown \in Sockets \cup {NoSocket}
  /\ used \subseteq Sockets
  /\ sized \in BOOLEAN
  /\ loading \subseteq Sockets
  /\ rfbRef \in Sockets \cup {NoSocket}
  /\ live \subseteq Sockets
  /\ wire \in [Sockets -> {"handshake", "connected", "closed"}]
  /\ initTimer \subseteq Sockets
  /\ connTimer \subseteq Sockets
  /\ said \in [Sockets -> Reports]

ViewerInit ==
  /\ shown = NoSocket /\ used = {} /\ sized = FALSE /\ loading = {}
  /\ rfbRef = NoSocket /\ live = {}
  /\ wire = [s \in Sockets |-> "handshake"]
  /\ initTimer = {} /\ connTimer = {}
  /\ said = [s \in Sockets |-> "nothing"]

Say(s, r) == said' = [said EXCEPT ![s] = r]

\* initRfb up to its await, called by the effect of s.
InitRfb(s, hasSize) ==
  loading' = IF rfbRef = NoSocket /\ hasSize THEN loading \cup {s} ELSE loading

\* (Bug: the effect leaves the start to the resize observer.)
ShowWaits(s) ==
  /\ shown = NoSocket /\ s \notin used
  /\ shown' = s /\ used' = used \cup {s}
  /\ initTimer' = initTimer \cup {s}
  /\ sized' \in BOOLEAN
  /\ UNCHANGED <<loading, rfbRef, live, wire, connTimer, said>>

\* The effect of a new socket; the area may or may not be laid out.
Show(s) ==
  /\ shown = NoSocket /\ s \notin used
  /\ shown' = s /\ used' = used \cup {s}
  /\ initTimer' = initTimer \cup {s}
  /\ sized' \in BOOLEAN
  /\ InitRfb(s, sized')
  /\ UNCHANGED <<rfbRef, live, wire, connTimer, said>>

\* The layout gives the area a size, or takes it away (a hidden tab).
Resize ==
  /\ shown # NoSocket
  /\ sized' = ~sized
  /\ InitRfb(shown, sized')
  /\ UNCHANGED <<shown, used, rfbRef, live, wire, initTimer, connTimer, said>>

Construct(s) ==
  /\ rfbRef' = s /\ live' = live \cup {s}
  /\ initTimer' = initTimer \ {s} /\ connTimer' = connTimer \cup {s}

\* (Bug: only the size is checked again after the await.)
LoadedUnmounted(s) ==
  /\ s \in loading
  /\ loading' = loading \ {s}
  /\ IF rfbRef = NoSocket /\ sized
     THEN Construct(s)
     ELSE UNCHANGED <<rfbRef, live, initTimer, connTimer>>
  /\ UNCHANGED <<shown, used, sized, wire, said>>

\* (Bug: no timeout guards the handshake.)
LoadedUntimed(s) ==
  /\ s \in loading
  /\ loading' = loading \ {s}
  /\ IF shown = s /\ rfbRef = NoSocket /\ sized
     THEN rfbRef' = s /\ live' = live \cup {s} /\ initTimer' = initTimer \ {s}
     ELSE UNCHANGED <<rfbRef, live, initTimer>>
  /\ UNCHANGED <<shown, used, sized, wire, connTimer, said>>

\* The load of s ends: everything checked before the await is checked again.
Loaded(s) ==
  /\ s \in loading
  /\ loading' = loading \ {s}
  /\ IF shown = s /\ rfbRef = NoSocket /\ sized
     THEN Construct(s)
     ELSE UNCHANGED <<rfbRef, live, initTimer, connTimer>>
  /\ UNCHANGED <<shown, used, sized, wire, said>>

\* The load, or the RFB's constructor, fails; a later resize tries again.
LoadFails(s) ==
  /\ s \in loading
  /\ loading' = loading \ {s}
  /\ IF shown = s
     THEN initTimer' = initTimer \ {s} /\ Say(s, "loadFailed")
     ELSE UNCHANGED <<initTimer, said>>
  /\ UNCHANGED <<shown, used, sized, rfbRef, live, wire, connTimer>>

InitTimeout(s) ==
  /\ s \in initTimer
  /\ initTimer' = initTimer \ {s}
  /\ IF shown = s /\ rfbRef = NoSocket THEN Say(s, "noSize") ELSE UNCHANGED said
  /\ UNCHANGED <<shown, used, sized, loading, rfbRef, live, wire, connTimer>>

ConnectTimeout(s) ==
  /\ s \in connTimer
  /\ connTimer' = connTimer \ {s}
  /\ IF shown = s /\ rfbRef = s THEN Say(s, "timedOut") ELSE UNCHANGED said
  /\ UNCHANGED <<shown, used, sized, loading, rfbRef, live, wire, initTimer>>

\* (Bug: the timer of the handshake is left running.)
ConnectTimed(s) ==
  /\ s \in live /\ shown = s /\ wire[s] = "handshake"
  /\ wire' = [wire EXCEPT ![s] = "connected"]
  /\ Say(s, "connected")
  /\ UNCHANGED <<shown, used, sized, loading, rfbRef, live, initTimer, connTimer>>

\* noVNC's connect and disconnect events; the listeners go with the effect.
Connect(s) ==
  /\ s \in live /\ shown = s /\ wire[s] = "handshake"
  /\ wire' = [wire EXCEPT ![s] = "connected"]
  /\ connTimer' = connTimer \ {s}
  /\ Say(s, "connected")
  /\ UNCHANGED <<shown, used, sized, loading, rfbRef, live, initTimer>>

Disconnect(s) ==
  /\ s \in live /\ shown = s /\ wire[s] # "closed"
  /\ wire' = [wire EXCEPT ![s] = "closed"]
  /\ connTimer' = connTimer \ {s}
  /\ Say(s, IF wire[s] = "connected" THEN "disconnected" ELSE "neverConnected")
  /\ UNCHANGED <<shown, used, sized, loading, rfbRef, live, initTimer>>

\* The cleanup: the page shows an error, another socket, or is left.
Unmount ==
  /\ shown # NoSocket
  /\ initTimer' = initTimer \ {shown} /\ connTimer' = connTimer \ {shown}
  /\ live' = live \ {rfbRef}
  /\ rfbRef' = NoSocket
  /\ shown' = NoSocket /\ sized' = FALSE
  /\ UNCHANGED <<used, loading, wire, said>>

ViewerNext ==
  \/ \E s \in Sockets :
       \/ Show(s) \/ Loaded(s) \/ LoadFails(s) \/ InitTimeout(s) \/ ConnectTimeout(s)
       \/ Connect(s) \/ Disconnect(s)
  \/ Resize \/ Unmount

ViewerSpec == ViewerInit /\ [][ViewerNext]_viewerVars

\* Timers fire.  A load, the layout and the guest may take for ever.
ViewerFairness ==
  \A s \in Sockets : WF_viewerVars(InitTimeout(s)) /\ WF_viewerVars(ConnectTimeout(s))

-------------------------------------------------------------------------------
\* "initRfb" is asynchronous: an RFB that was constructed and never disconnected
\* is the one of the socket that is shown, whatever loads end late, so no client
\* of an earlier session draws into the area or holds its socket.
OnlyTheShownIsLive == live = {rfbRef} \ {NoSocket} /\ rfbRef \in {shown, NoSocket}

\* No start is lost between the observer, the load in flight and the size: an
\* area that has a size has its RFB, is loading it, or its load was said to fail
\* (or the wait for the size was over, which the page takes as an error).
NoStartIsLost ==
  shown # NoSocket /\ sized /\ rfbRef = NoSocket /\ shown \notin loading
    => said[shown] \in {"loadFailed", "noSize"}

\* A console that has connected is given up for a disconnect only: no timer of
\* its start-up, and no load, reports an error any more.
ConnectedEndsByDisconnect ==
  [][\A s \in Sockets :
       said[s] = "connected" /\ said'[s] # "connected" => said'[s] = "disconnected"]_viewerVars

\* A viewer comes to a result however slow the load, the layout or the guest:
\* the page does not stay on "Connecting" (RFB_INIT_TIMEOUT_MS, RFB_CONNECT_TIMEOUT_MS).
ViewerSettles ==
  \A s \in Sockets : shown = s ~> said[s] # "nothing" \/ shown # s
===============================================================================
