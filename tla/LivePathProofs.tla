---------------------------- MODULE LivePathProofs ----------------------------
(***************************************************************************)
(* What a page shows as live was recent, for any periods and any bound on  *)
(* the network's delay.  The bound grows along the path: a snapshot is     *)
(* read while younger than Fresh, STATE keeps it for the rest of a refresh *)
(* period, and a message that carries it ages with its flight.             *)
(***************************************************************************)
EXTENDS LivePath, TLAPS

Messages == [body : Snapshots, flight : 0..MaxFlight]

\* What is under way was served from a STATE that was recent.
Recent(m) == m.body \in 0..OldAge => m.body < Fresh + Refresh + m.flight

LiveInv ==
  /\ LiveTypeOK
  /\ pushed \in Seq(Messages)
  /\ answers \subseteq Messages
  /\ serving /\ state \in 0..OldAge => state < Fresh + (Refresh - refreshIn)
  /\ \A k \in DOMAIN pushed : Recent(pushed[k])
  /\ \A answer \in answers : Recent(answer)
  /\ LiveWasRecent

LEMMA InitLive == LiveInit => LiveInv
<1>1. SUFFICES ASSUME LiveInit PROVE LiveInv
  OBVIOUS
<1>2. LiveTypeOK
  <2>1. 0 \in 0..Refresh /\ Poll \in 0..Poll /\ Flush \in 0..Flush
    BY FlushAssumption, LivePathAssumption
  <2>2. QED BY <1>1, <2>1, Zenon DEF LiveInit, FileInit, LiveTypeOK, FileTypeOK, Snapshots
<1>3. pushed \in Seq(Messages) /\ \A k \in DOMAIN pushed : Recent(pushed[k])
  BY <1>1 DEF LiveInit
<1>4. LiveWasRecent
  BY <1>1, LivePathAssumption DEF LiveInit, LiveWasRecent, ShowsLive
<1>5. QED
  BY <1>1, <1>2, <1>3, <1>4 DEF LiveInit, LiveInv

\* Ageing stays within the snapshots and adds at most a unit.
LEMMA AgedBounds ==
  ASSUME NEW s \in Snapshots
  PROVE  /\ Aged(s) \in Snapshots
         /\ s \in 0..OldAge => Aged(s) \in 0..OldAge /\ Aged(s) <= s + 1
         /\ s \notin 0..OldAge => Aged(s) = NoSnapshot
  BY FlushAssumption DEF Aged, Snapshots

\* What is served is recent at the start of its flight.
LEMMA SentRecent ==
  ASSUME LiveInv, serving
  PROVE  Sent(state) \in Messages /\ Recent(Sent(state))
  BY LivePathAssumption DEF LiveInv, LiveTypeOK, Messages, Sent, Recent, Snapshots

LEMMA CollectorLive ==
  ASSUME LiveInv, Collector, UNCHANGED <<server, page>>
  PROVE  LiveInv'
<1>1. FileTypeOK'
  <2>1. FileTypeOK /\ 0 \in Snapshots
    BY FlushAssumption DEF LiveInv, LiveTypeOK, Snapshots
  <2>2. CASE StartCollector \/ StopCollector
    <3>1. flushIn' \in 0..Flush
      BY <2>1, <2>2, FlushAssumption DEF StartCollector, StopCollector, FileTypeOK
    <3>2. QED BY <2>1, <2>2, <3>1, Zenon DEF StartCollector, StopCollector, FileTypeOK
  <2>3. CASE WriteTmp
    BY <2>1, <2>3 DEF WriteTmp, WhileWriting, FileTypeOK
  <2>4. CASE Replace
    BY <2>1, <2>4, FlushAssumption DEF Replace, FileTypeOK, Snapshots
  <2>5. QED BY <2>2, <2>3, <2>4 DEF Collector
<1>2. QED
  BY <1>1 DEF LiveInv, LiveTypeOK, LiveWasRecent, ShowsLive, Recent, server, page

LEMMA ServerLive ==
  ASSUME LiveInv, RefreshOnce \/ StopServer \/ StartServer
  PROVE  LiveInv'
<1>1. CASE RefreshOnce
  <2>1. state' \in Snapshots /\ (state' \in 0..OldAge => state' < Fresh)
    BY <1>1, FlushAssumption, LivePathAssumption
    DEF RefreshOnce, ReadFresh, LiveInv, LiveTypeOK, FileTypeOK, Snapshots
  <2>2. QED
    BY <1>1, <2>1, LivePathAssumption
    DEF RefreshOnce, LiveInv, LiveTypeOK, FileTypeOK, LiveWasRecent, ShowsLive, Recent,
        fileVars, page
<1>2. CASE StopServer
  BY <1>2 DEF StopServer, LiveInv, LiveTypeOK, FileTypeOK, LiveWasRecent, ShowsLive, Recent, fileVars
<1>3. CASE StartServer
  BY <1>3, FlushAssumption, LivePathAssumption
  DEF StartServer, LiveInv, LiveTypeOK, FileTypeOK, LiveWasRecent, ShowsLive, Recent, Snapshots,
      fileVars, page
<1>4. QED BY <1>1, <1>2, <1>3

LEMMA SendLive ==
  ASSUME LiveInv, Push \/ LoadPage \/ PollState
  PROVE  LiveInv'
<1>1. CASE Push
  <2>1. Sent(state) \in Messages /\ Recent(Sent(state))
    BY <1>1, SentRecent DEF Push
  <2>2. pushed' \in Seq(Messages) /\ \A k \in DOMAIN pushed' : Recent(pushed'[k])
    BY <1>1, <2>1 DEF Push, LiveInv
  <2>3. QED
    BY <1>1, <2>2, LivePathAssumption
    DEF Push, LiveInv, LiveTypeOK, FileTypeOK, LiveWasRecent, ShowsLive, Recent, fileVars, server
<1>2. CASE LoadPage
  <2>1. Sent(state) \in Messages /\ Recent(Sent(state))
    BY <1>2, SentRecent DEF LoadPage
  <2>2. QED
    BY <1>2, <2>1, LivePathAssumption
    DEF LoadPage, LiveInv, LiveTypeOK, FileTypeOK, LiveWasRecent, ShowsLive, Recent, fileVars, server
<1>3. CASE PollState
  <2>1. answers' \subseteq Messages /\ \A answer \in answers' : Recent(answer)
    <3>1. serving => Sent(state) \in Messages /\ Recent(Sent(state))
      BY SentRecent
    <3>2. QED BY <1>3, <3>1 DEF PollState, LiveInv
  <2>2. QED
    BY <1>3, <2>1, LivePathAssumption
    DEF PollState, LiveInv, LiveTypeOK, FileTypeOK, LiveWasRecent, ShowsLive, Recent, fileVars, server
<1>4. QED BY <1>1, <1>2, <1>3

\* A message that arrives was recent when it left, and has not been under way for long.
LEMMA RenderedIsRecent ==
  ASSUME NEW m \in Messages, Recent(m), m.body \in 0..OldAge
  PROVE  m.body < Fresh + Refresh + MaxFlight
  BY FlushAssumption, LivePathAssumption DEF Messages, Recent

LEMMA PageLive ==
  ASSUME LiveInv, RenderPushed \/ BreakStream \/ OnError \/ RenderAnswer \/ LoseAnswer
  PROVE  LiveInv'
<1>1. CASE RenderPushed
  <2>1. Head(pushed) \in Messages /\ Recent(Head(pushed))
    BY <1>1 DEF RenderPushed, LiveInv
  <2>2. shown' \in Snapshots /\ (shown' \in 0..OldAge => shown' < Fresh + Refresh + MaxFlight)
    BY <1>1, <2>1, RenderedIsRecent DEF RenderPushed, Messages
  <2>3. pushed' \in Seq(Messages) /\ \A k \in DOMAIN pushed' : Recent(pushed'[k])
    BY <1>1 DEF RenderPushed, LiveInv
  <2>4. QED
    BY <1>1, <2>2, <2>3
    DEF RenderPushed, LiveInv, LiveTypeOK, FileTypeOK, LiveWasRecent, ShowsLive, Recent, fileVars, server
<1>2. CASE BreakStream
  BY <1>2 DEF BreakStream, LiveInv, LiveTypeOK, FileTypeOK, LiveWasRecent, ShowsLive, Recent,
              fileVars, server
<1>3. CASE OnError
  BY <1>3, LivePathAssumption
  DEF OnError, AfterError, LiveInv, LiveTypeOK, FileTypeOK, LiveWasRecent, ShowsLive, Recent,
      fileVars, server
<1>4. CASE RenderAnswer
  <2>1. PICK answer \in answers : shown' = answer.body /\ answers' = answers \ {answer}
    BY <1>4 DEF RenderAnswer
  <2>2. shown' \in Snapshots /\ (shown' \in 0..OldAge => shown' < Fresh + Refresh + MaxFlight)
    BY <2>1, RenderedIsRecent DEF LiveInv, Messages
  <2>3. QED
    BY <1>4, <2>1, <2>2
    DEF RenderAnswer, LiveInv, LiveTypeOK, FileTypeOK, LiveWasRecent, ShowsLive, Recent, fileVars, server
<1>5. CASE LoseAnswer
  BY <1>5 DEF LoseAnswer, LiveInv, LiveTypeOK, FileTypeOK, LiveWasRecent, ShowsLive, Recent,
              fileVars, server
<1>6. QED BY <1>1, <1>2, <1>3, <1>4, <1>5

\* A unit of flight makes a message a unit older and its bound a unit wider.
LEMMA UnderWayRecent ==
  ASSUME NEW m \in Messages, Recent(m), m.flight < MaxFlight
  PROVE  UnderWay(m) \in Messages /\ Recent(UnderWay(m))
<1>1. /\ Aged(m.body) \in Snapshots
      /\ m.body \in 0..OldAge => Aged(m.body) \in 0..OldAge /\ Aged(m.body) <= m.body + 1
      /\ m.body \notin 0..OldAge => Aged(m.body) = NoSnapshot
  BY AgedBounds DEF Messages
<1>2. QED
  BY <1>1, FlushAssumption, LivePathAssumption DEF UnderWay, Messages, Recent, Snapshots

LEMMA TickLive ==
  ASSUME LiveInv, Tick
  PROVE  LiveInv'
<1>1. file' \in Snapshots /\ state' \in Snapshots
  BY AgedBounds DEF Tick, FileTick, LiveInv, LiveTypeOK, FileTypeOK
<1>2. serving' /\ state' \in 0..OldAge => state' < Fresh + (Refresh - refreshIn')
  <2>1. SUFFICES ASSUME serving, Aged(state) \in 0..OldAge
                 PROVE  Aged(state) < Fresh + (Refresh - Left(refreshIn))
    BY DEF Tick
  <2>2. state \in 0..OldAge /\ Aged(state) <= state + 1
    BY <2>1, AgedBounds, FlushAssumption DEF LiveInv, LiveTypeOK
  <2>3. refreshIn \in Nat /\ refreshIn > 0 /\ state < Fresh + (Refresh - refreshIn)
    BY <2>1, <2>2 DEF Tick, LiveInv, LiveTypeOK
  <2>4. QED
    BY <2>1, <2>2, <2>3, FlushAssumption, LivePathAssumption DEF Left
<1>3. pushed' \in Seq(Messages) /\ \A k \in DOMAIN pushed' : Recent(pushed'[k])
  <2>1. \A k \in DOMAIN pushed : UnderWay(pushed[k]) \in Messages /\ Recent(UnderWay(pushed[k]))
    BY UnderWayRecent DEF Tick, LiveInv
  <2>2. QED BY <2>1 DEF Tick, LiveInv
<1>4. answers' \subseteq Messages /\ \A answer \in answers' : Recent(answer)
  BY UnderWayRecent DEF Tick, LiveInv
<1>5. LiveTypeOK'
  BY <1>1, FlushAssumption, LivePathAssumption
  DEF Tick, FileTick, LiveInv, LiveTypeOK, FileTypeOK, Left
<1>6. QED
  BY <1>2, <1>3, <1>4, <1>5 DEF Tick, LiveInv, LiveWasRecent, ShowsLive

LEMMA StepLive == LiveInv /\ [LiveNext]_liveVars => LiveInv'
<1>1. SUFFICES ASSUME LiveInv, [LiveNext]_liveVars PROVE LiveInv'
  OBVIOUS
<1>2. CASE UNCHANGED liveVars
  BY <1>1, <1>2 DEF liveVars, fileVars, server, page, LiveInv, LiveTypeOK, FileTypeOK, LiveWasRecent,
                    ShowsLive, Recent
<1>3. QED
  BY <1>1, <1>2, CollectorLive, ServerLive, SendLive, PageLive, TickLive DEF LiveNext

\* The types of the live path, and that a loaded page always has one source of states:
\* its stream until the first error, one poll timer ever after (web/server.py 736-742).
THEOREM LiveTypesHold == LiveSpec => []LiveTypeOK
<1>1. LiveInv => LiveTypeOK
  BY DEF LiveInv
<1>2. QED BY InitLive, StepLive, <1>1, PTL DEF LiveSpec

\* A snapshot that is rendered as live is younger than DZ_FRESH_SECONDS, a refresh
\* period and the longest flight together (_read_fresh and what carries its verdict).
THEOREM LiveIsRecent == LiveSpec => []LiveWasRecent
<1>1. LiveInv => LiveWasRecent
  BY DEF LiveInv
<1>2. QED BY InitLive, StepLive, <1>1, PTL DEF LiveSpec
=============================================================================
