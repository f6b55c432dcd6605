----------------------------- MODULE ViewerProofs -----------------------------
(***************************************************************************)
(* The graphical and the serial viewer, for any number of sockets and      *)
(* frames: the invariants of ConsoleViewer and SerialFeed.                 *)
(***************************************************************************)
EXTENDS ConsoleViewer, SerialFeed, TLAPS

\* The shown socket has been used, and so has every socket something was said of.
UsedBefore ==
  /\ shown \in used \cup {NoSocket}
  /\ \A s \in Sockets : said[s] # "nothing" => s \in used

\* An effect that has its RFB has no load in flight.
OneStart == rfbRef # NoSocket => rfbRef \notin loading

\* A connected console that is still shown has its RFB and no timer.
ConnectedIsUntimed ==
  \A s \in Sockets :
    said[s] = "connected"
      => wire[s] = "connected" /\ (shown = s => rfbRef = s /\ s \notin connTimer)

ViewerInv ==
  /\ ViewerTypeOK /\ OnlyTheShownIsLive /\ NoStartIsLost
  /\ UsedBefore /\ OneStart /\ ConnectedIsUntimed

LEMMA ViewerInitHolds == ViewerInit => ViewerInv
BY ViewerAssumption
   DEF ViewerInit, ViewerInv, ViewerTypeOK, OnlyTheShownIsLive, NoStartIsLost, UsedBefore,
       OneStart, ConnectedIsUntimed, Reports

LEMMA ViewerTypeStep == ViewerTypeOK /\ [ViewerNext]_viewerVars => ViewerTypeOK'
<1> SUFFICES ASSUME ViewerTypeOK, [ViewerNext]_viewerVars PROVE ViewerTypeOK'
  OBVIOUS
<1> USE DEF ViewerTypeOK, Reports
<1>1. ASSUME NEW s \in Sockets, Show(s) PROVE ViewerTypeOK'
  BY <1>1 DEF Show, InitRfb
<1>2. ASSUME NEW s \in Sockets, Loaded(s) PROVE ViewerTypeOK'
  BY <1>2 DEF Loaded, Construct
<1>3. ASSUME NEW s \in Sockets, LoadFails(s) PROVE ViewerTypeOK'
  BY <1>3 DEF LoadFails, Say
<1>4. ASSUME NEW s \in Sockets, InitTimeout(s) PROVE ViewerTypeOK'
  BY <1>4 DEF InitTimeout, Say
<1>5. ASSUME NEW s \in Sockets, ConnectTimeout(s) PROVE ViewerTypeOK'
  BY <1>5 DEF ConnectTimeout, Say
<1>6. ASSUME NEW s \in Sockets, Connect(s) PROVE ViewerTypeOK'
  BY <1>6 DEF Connect, Say
<1>7. ASSUME NEW s \in Sockets, Disconnect(s) PROVE ViewerTypeOK'
  BY <1>7 DEF Disconnect, Say
<1>8. CASE Resize
  BY <1>8 DEF Resize, InitRfb
<1>9. CASE Unmount
  BY <1>9 DEF Unmount
<1>10. CASE UNCHANGED viewerVars
  BY <1>10 DEF viewerVars
<1> QED BY <1>1, <1>2, <1>3, <1>4, <1>5, <1>6, <1>7, <1>8, <1>9, <1>10 DEF ViewerNext

\* The bookkeeping of one effect's RFB, load and timers.
ViewerRest == OnlyTheShownIsLive /\ NoStartIsLost /\ UsedBefore /\ OneStart /\ ConnectedIsUntimed

LEMMA ViewerStep == ViewerInv /\ [ViewerNext]_viewerVars => ViewerInv'
<1> SUFFICES ASSUME ViewerInv, [ViewerNext]_viewerVars PROVE ViewerInv'
  OBVIOUS
<1>0. ViewerTypeOK'
  BY ViewerTypeStep DEF ViewerInv
<1> USE ViewerAssumption
    DEF ViewerInv, ViewerRest, ViewerTypeOK, OnlyTheShownIsLive, NoStartIsLost, UsedBefore,
        OneStart, ConnectedIsUntimed
<1>1. ASSUME NEW s \in Sockets, Show(s) PROVE ViewerRest'
  BY <1>0, <1>1 DEF Show, InitRfb
<1>2. ASSUME NEW s \in Sockets, Loaded(s) PROVE ViewerRest'
  <2>1. CASE shown = s /\ rfbRef = NoSocket /\ sized
    BY <1>0, <1>2, <2>1 DEF Loaded, Construct
  <2>2. CASE ~(shown = s /\ rfbRef = NoSocket /\ sized)
    BY <1>0, <1>2, <2>2 DEF Loaded
  <2> QED BY <2>1, <2>2
<1>3. ASSUME NEW s \in Sockets, LoadFails(s) PROVE ViewerRest'
  BY <1>0, <1>3 DEF LoadFails, Say
<1>4. ASSUME NEW s \in Sockets, InitTimeout(s) PROVE ViewerRest'
  BY <1>0, <1>4 DEF InitTimeout, Say
<1>5. ASSUME NEW s \in Sockets, ConnectTimeout(s) PROVE ViewerRest'
  BY <1>0, <1>5 DEF ConnectTimeout, Say
<1>6. ASSUME NEW s \in Sockets, Connect(s) PROVE ViewerRest'
  BY <1>0, <1>6 DEF Connect, Say
<1>7. ASSUME NEW s \in Sockets, Disconnect(s) PROVE ViewerRest'
  BY <1>0, <1>7 DEF Disconnect, Say
<1>8. CASE Resize
  BY <1>0, <1>8 DEF Resize, InitRfb
<1>9. CASE Unmount
  BY <1>0, <1>9 DEF Unmount
<1>10. CASE UNCHANGED viewerVars
  BY <1>10 DEF viewerVars
<1> QED
  <2>1. ViewerRest'
    BY <1>1, <1>2, <1>3, <1>4, <1>5, <1>6, <1>7, <1>8, <1>9, <1>10 DEF ViewerNext
  <2> QED BY <1>0, <2>1

LEMMA ViewerInvariant == ViewerSpec => []ViewerInv
BY ViewerInitHolds, ViewerStep, PTL DEF ViewerSpec

\* The state of the viewer is of its types.
THEOREM ViewerTypes == ViewerSpec => []ViewerTypeOK
<1>1. ViewerInv => ViewerTypeOK
  BY DEF ViewerInv
<1> QED BY ViewerInvariant, <1>1, PTL

\* However many loads end late, only the shown socket has a live RFB.
THEOREM OnlyTheShown == ViewerSpec => []OnlyTheShownIsLive
<1>1. ViewerInv => OnlyTheShownIsLive
  BY DEF ViewerInv
<1> QED BY ViewerInvariant, <1>1, PTL

\* No order of effect, observer, load and layout loses the start of a viewer.
THEOREM StartsAreKept == ViewerSpec => []NoStartIsLost
<1>1. ViewerInv => NoStartIsLost
  BY DEF ViewerInv
<1> QED BY ViewerInvariant, <1>1, PTL

\* Only a disconnect takes a connected console's report back.
LEMMA ConnectedStep ==
  ASSUME ViewerInv, [ViewerNext]_viewerVars, NEW s \in Sockets,
         said[s] = "connected", said'[s] # "connected"
  PROVE  said'[s] = "disconnected"
<1> USE ViewerAssumption DEF ViewerInv, ViewerTypeOK, OneStart, ConnectedIsUntimed, Say
<1>1. ASSUME NEW r \in Sockets, Show(r) \/ Loaded(r) PROVE said' = said
  BY <1>1 DEF Show, Loaded
<1>2. ASSUME NEW r \in Sockets, LoadFails(r) PROVE said'[s] = said[s]
  BY <1>2 DEF LoadFails
<1>3. ASSUME NEW r \in Sockets, InitTimeout(r) PROVE said'[s] = said[s]
  BY <1>3 DEF InitTimeout
<1>4. ASSUME NEW r \in Sockets, ConnectTimeout(r) PROVE said'[s] = said[s]
  BY <1>4 DEF ConnectTimeout
<1>5. ASSUME NEW r \in Sockets, Connect(r) PROVE said'[s] = said[s]
  BY <1>5 DEF Connect
<1>6. ASSUME NEW r \in Sockets, Disconnect(r)
      PROVE said'[s] = said[s] \/ said'[s] = "disconnected"
  BY <1>6 DEF Disconnect
<1>7. ASSUME Resize \/ Unmount \/ UNCHANGED viewerVars PROVE said' = said
  BY <1>7 DEF Resize, Unmount, viewerVars
<1> QED BY <1>1, <1>2, <1>3, <1>4, <1>5, <1>6, <1>7 DEF ViewerNext

\* No timer and no late load takes a connected console for a failed one.
THEOREM ConnectedIsKept == ViewerSpec => ConnectedEndsByDisconnect
<1>1. ViewerInv /\ [ViewerNext]_viewerVars
        => [\A s \in Sockets :
              said[s] = "connected" /\ said'[s] # "connected"
                => said'[s] = "disconnected"]_viewerVars
  BY ConnectedStep
<1> QED BY ViewerInvariant, <1>1, PTL DEF ViewerSpec, ConnectedEndsByDisconnect

-------------------------------------------------------------------------------
(* The serial viewer. *)

\* What is written was delivered before what waits; both in order.
FeedInv ==
  /\ FeedTypeOK /\ WrittenInOrder
  /\ \A i \in 1 .. Len(written), f \in waiting : written[i] < f

LEMMA FeedInitHolds == FeedInit => FeedInv
<1> SUFFICES ASSUME FeedInit PROVE FeedInv
  OBVIOUS
<1>1. Len(written) = 0 /\ written \in Seq(1 .. arrived)
  BY DEF FeedInit
<1>2. FeedTypeOK
  BY <1>1 DEF FeedInit, FeedTypeOK
<1> QED BY <1>1, <1>2 DEF FeedInv, WrittenInOrder

LEMMA FeedStep == FeedInv /\ [FeedNext]_feedVars => FeedInv'
<1> SUFFICES ASSUME FeedInv, [FeedNext]_feedVars PROVE FeedInv'
  OBVIOUS
<1> USE DEF FeedInv, FeedTypeOK, WrittenInOrder
<1>1. CASE Attach
  BY <1>1 DEF Attach
<1>2. CASE AttachFails
  BY <1>2 DEF AttachFails
<1>3. CASE SocketOpens
  BY <1>3 DEF SocketOpens
<1>4. CASE Frame
  <2>1. /\ arrived' = arrived + 1 /\ written' = written
        /\ waiting' \subseteq waiting \cup {arrived + 1}
    BY <1>4 DEF Frame
  <2>2. written \in Seq(1 .. arrived') /\ Len(written) \in Nat
    BY <2>1
  <2>3. \A i \in 1 .. Len(written) : written[i] \in 1 .. arrived
    OBVIOUS
  <2> QED BY <1>4, <2>1, <2>2, <2>3 DEF Frame
<1>5. ASSUME NEW f \in waiting, Write(f) PROVE FeedInv'
  <2>1. /\ Len(written) \in Nat
        /\ f \in Nat /\ f \in 1 .. arrived
        /\ \A i \in 1 .. Len(written) : written[i] \in Nat /\ written[i] < f
    <3>1. \A i \in 1 .. Len(written) : written[i] \in 1 .. arrived
      OBVIOUS
    <3> QED BY <3>1
  <2>2. /\ written' \in Seq(1 .. arrived) /\ Len(written') = Len(written) + 1
        /\ written'[Len(written) + 1] = f
        /\ \A i \in 1 .. Len(written) : written'[i] = written[i]
    BY <1>5, <2>1 DEF Write
  <2>3. /\ waiting' = waiting \ {f} /\ UNCHANGED <<feedView, socketOpen, listening, marked, arrived, failed>>
        /\ \A g \in waiting' : f < g
    BY <1>5 DEF Write, IsNext
  <2>4. FeedTypeOK'
    BY <2>2, <2>3
  <2>5. \A i, j \in 1 .. Len(written) + 1 : i < j => written'[i] < written'[j]
    <3>1. SUFFICES ASSUME NEW i \in 1 .. Len(written) + 1, NEW j \in 1 .. Len(written) + 1, i < j
                   PROVE  written'[i] < written'[j]
      OBVIOUS
    <3>2. i \in 1 .. Len(written)
      BY <2>1, <3>1
    <3>3. CASE j = Len(written) + 1
      BY <2>1, <2>2, <3>2, <3>3
    <3>4. CASE j \in 1 .. Len(written)
      BY <2>1, <2>2, <3>1, <3>2, <3>4
    <3> QED BY <2>1, <3>3, <3>4
  <2>6. \A i \in 1 .. Len(written) + 1, g \in waiting' : written'[i] < g
    <3>1. SUFFICES ASSUME NEW i \in 1 .. Len(written) + 1, NEW g \in waiting'
                   PROVE  written'[i] < g
      OBVIOUS
    <3>2. g \in waiting /\ f < g
      BY <2>3
    <3>3. CASE i = Len(written) + 1
      BY <2>2, <3>2, <3>3
    <3>4. CASE i \in 1 .. Len(written)
      BY <2>1, <2>2, <3>2, <3>4
    <3> QED BY <2>1, <3>3, <3>4
  <2> QED BY <2>2, <2>4, <2>5, <2>6
<1>6. ASSUME NEW f \in waiting, WriteFails(f) PROVE FeedInv'
  BY <1>6 DEF WriteFails, IsNext
<1>7. CASE Dispose
  BY <1>7 DEF Dispose
<1>8. CASE UNCHANGED feedVars
  BY <1>8 DEF feedVars
<1> QED BY <1>1, <1>2, <1>3, <1>4, <1>5, <1>6, <1>7, <1>8 DEF FeedNext, Converted

\* The state of the serial viewer is of its types.
THEOREM FeedTypes == FeedSpec => []FeedTypeOK
<1>1. FeedInv => FeedTypeOK
  BY DEF FeedInv
<1> QED BY FeedInitHolds, FeedStep, <1>1, PTL DEF FeedSpec

\* Frames are written in the order they arrived, however many there are.
THEOREM FramesInOrder == FeedSpec => []WrittenInOrder
<1>1. FeedInv => WrittenInOrder
  BY DEF FeedInv
<1> QED BY FeedInitHolds, FeedStep, <1>1, PTL DEF FeedSpec
===============================================================================
