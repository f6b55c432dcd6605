------------------------------ MODULE SerialFeed ------------------------------
(***************************************************************************)
(* SerialConsoleViewer and BlobOnlyAttachAddon: the xterm code is loaded,  *)
(* the addon attached to the socket, and every frame the socket delivers   *)
(* from then on is converted and written by a chain of promises, one frame *)
(* after the other.  A conversion takes its time and may fail.             *)
(***************************************************************************)
EXTENDS Naturals, Sequences

CONSTANT MaxFrames  \* bound on the frames the socket delivers

ASSUME FeedAssumption == MaxFrames \in Nat

VARIABLES
  feedView,   \* the viewer: loading its code, attached, failed, or gone
  socketOpen, \* the socket has opened
  listening,  \* the viewer's "open" listener is registered
  marked,     \* onConnected was called
  arrived,    \* frames the socket delivered
  waiting,    \* frames in writeQueue
  failed,     \* frames whose conversion failed
  written     \* the frames the terminal was given, in that order

feedVars == <<feedView, socketOpen, listening, marked, arrived, waiting, failed, written>>

FeedTypeOK ==
  /\ feedView \in {"loading", "attached", "failed", "gone"}
  /\ socketOpen \in BOOLEAN /\ listening \in BOOLEAN /\ marked \in BOOLEAN
  /\ arrived \in Nat
  /\ waiting \subseteq 1 .. arrived
  /\ failed \subseteq 1 .. arrived
  /\ written \in Seq(1 .. arrived)

FeedInit ==
  /\ feedView = "loading" /\ socketOpen = FALSE /\ listening = FALSE /\ marked = FALSE
  /\ arrived = 0 /\ waiting = {} /\ failed = {} /\ written = <<>>

\* (Bug: waits for the event in any case.)
AttachListens ==
  /\ feedView = "loading"
  /\ feedView' = "attached"
  /\ listening' = TRUE
  /\ UNCHANGED <<socketOpen, marked, arrived, waiting, failed, written>>

\* A socket that is open already has no "open" event to come.
Attach ==
  /\ feedView = "loading"
  /\ feedView' = "attached"
  /\ marked' = socketOpen /\ listening' = ~socketOpen
  /\ UNCHANGED <<socketOpen, arrived, waiting, failed, written>>

AttachFails ==
  /\ feedView = "loading"
  /\ feedView' = "failed"
  /\ UNCHANGED <<socketOpen, listening, marked, arrived, waiting, failed, written>>

SocketOpens ==
  /\ ~socketOpen
  /\ socketOpen' = TRUE
  /\ marked' = (marked \/ listening) /\ listening' = FALSE
  /\ UNCHANGED <<feedView, arrived, waiting, failed, written>>

\* Only an attached addon hears a frame.
Frame ==
  /\ socketOpen /\ arrived < MaxFrames
  /\ arrived' = arrived + 1
  /\ waiting' = IF feedView = "attached" THEN waiting \cup {arrived + 1} ELSE waiting
  /\ UNCHANGED <<feedView, socketOpen, listening, marked, failed, written>>

\* (Bug: every frame is converted on its own.)
IsAny(f) == f \in waiting

\* (Bug: the chain ends at the first failure.)
IsNextOfGood(f) == failed = {} /\ f \in waiting /\ \A g \in waiting : f <= g

\* writeQueue runs the conversions one after the other.
IsNext(f) == f \in waiting /\ \A g \in waiting : f <= g

\* The captured terminal is written to, even when it is disposed of.
Write(f) ==
  /\ IsNext(f)
  /\ waiting' = waiting \ {f}
  /\ written' = Append(written, f)
  /\ UNCHANGED <<feedView, socketOpen, listening, marked, arrived, failed>>

\* The failure is swallowed: the chain goes on.
WriteFails(f) ==
  /\ IsNext(f)
  /\ waiting' = waiting \ {f} /\ failed' = failed \cup {f}
  /\ UNCHANGED <<feedView, socketOpen, listening, marked, arrived, written>>

\* The cleanup removes both listeners; what is queued stays queued.
Dispose ==
  /\ feedView # "gone"
  /\ feedView' = "gone" /\ listening' = FALSE
  /\ UNCHANGED <<socketOpen, marked, arrived, waiting, failed, written>>

Converted(f) == Write(f) \/ WriteFails(f)

FeedNext ==
  \/ Attach \/ AttachFails \/ SocketOpens \/ Frame \/ Dispose
  \/ \E f \in waiting : Converted(f)

FeedSpec == FeedInit /\ [][FeedNext]_feedVars

\* Every conversion settles.
FeedFairness == \A f \in 1 .. MaxFrames : WF_feedVars(Converted(f))

-------------------------------------------------------------------------------
\* Output is shown in the order it arrived, however long each frame's conversion
\* takes (the comment on writeQueue, BlobOnlyAttachAddon.ts 22).
WrittenInOrder ==
  \A i, j \in 1 .. Len(written) : i < j => written[i] < written[j]

\* One bad frame does not stop the output: every frame the terminal could hear is
\* written, but for those that fail themselves (BlobOnlyAttachAddon.ts 32).
EveryFrameIsShown ==
  \A f \in 1 .. MaxFrames : f \in waiting ~> f \notin waiting

\* The page learns that the socket is open whether it opens before or after the
\* terminal is ready.
OpenIsNoticed ==
  feedView = "attached" /\ socketOpen ~> marked \/ feedView = "gone"
===============================================================================
