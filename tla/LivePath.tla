------------------------------- MODULE LivePath -------------------------------
(***************************************************************************)
(* From the live collector to a visitor's screen: the snapshot file, the   *)
(* web server's refresh loop and its two ways of serving STATE             *)
(* (web/server.py), and the script of one loaded page, which asks once,    *)
(* listens to /events, and after the first error of that stream closes it  *)
(* and asks every three seconds for as long as it is shown; a browser that *)
(* has no EventSource asks from the start.                                 *)
(*                                                                         *)
(* Time is counted in units; every timer of a process that runs fires      *)
(* within its unit (Tick), and what is under way on the network arrives or *)
(* is lost within MaxFlight units.  Nothing else is said of the order.     *)
(***************************************************************************)
EXTENDS SnapshotFile, Sequences

CONSTANTS
  Fresh,     \* DZ_FRESH_SECONDS
  Refresh,   \* REFRESH_SECONDS, of the refresh loop and of a stream
  Poll,      \* the page's setInterval(poll)
  MaxFlight, \* assumed of the network: the longest a message is under way
  Nothing    \* what the page shows at first

ASSUME LivePathAssumption ==
  /\ Fresh \in Nat /\ Refresh \in Nat \ {0} /\ Poll \in Nat \ {0} /\ MaxFlight \in Nat
  /\ Flush < Fresh /\ Nothing \notin 0..OldAge
  /\ OldAge >= Fresh + Refresh + MaxFlight

VARIABLES
  serving,   \* the web server runs
  state,     \* STATE["dz_live"]: a snapshot, or NoSnapshot for "pending"
  refreshIn, \* the sleep of _refresh_loop
  stream,    \* the page's EventSource: "none" before it is loaded, "open", "broken",
             \* "closed", which stands for a page that opens none as well
  pushIn,    \* the sleep of its generator
  pushed,    \* the stream's messages under way, in their order
  answers,   \* the answers to polls under way, in any order
  pollers,   \* the page's setInterval(poll)s
  pollIn,    \* the time to the next
  shown      \* what the page shows: nothing yet, or a snapshot as old as it then was

server   == <<serving, state, refreshIn>>
page     == <<stream, pushIn, pushed, answers, pollers, pollIn, shown>>
liveVars == <<fileVars, server, page>>

\* renderDzPill, renderLiveFeed
ShowsLive    == shown \in 0..OldAge
ShowsPending == shown = NoSnapshot

Sent(body) == [body |-> body, flight |-> 0]

LiveInit ==
  /\ FileInit
  /\ serving = FALSE /\ state = NoSnapshot /\ refreshIn = 0
  /\ stream = "none" /\ pushIn = 0 /\ pushed = <<>>
  /\ answers = {}
  /\ pollers = 0 /\ pollIn = Poll /\ shown = Nothing

-----------------------------------------------------------------------------
(* The web server. *)

\* Mutant: any snapshot that parses will do.
ReadFreshUnchecked(snapshot) == snapshot

\* _read_fresh
ReadFresh(snapshot) == IF snapshot \in 0..(Fresh - 1) THEN snapshot ELSE NoSnapshot

\* refresh_once, a step of the event loop
RefreshOnce ==
  /\ serving /\ refreshIn = 0
  /\ state' = ReadFresh(file)
  /\ refreshIn' = Refresh
  /\ UNCHANGED <<fileVars, serving, page>>

\* events: a turn of gen()
Push ==
  /\ serving /\ stream = "open" /\ pushIn = 0
  /\ pushed' = Append(pushed, Sent(state))
  /\ pushIn' = Refresh
  /\ UNCHANGED <<fileVars, server, stream, answers, pollers, pollIn, shown>>

\* Its connections go with the process.
StopServer ==
  /\ serving
  /\ serving' = FALSE
  /\ stream' = IF stream = "open" THEN "broken" ELSE stream
  /\ UNCHANGED <<fileVars, state, refreshIn, pushIn, pushed, answers, pollers, pollIn, shown>>

\* STATE as the module defines it; _lifespan starts the refresh loop.
StartServer ==
  /\ ~serving
  /\ serving' = TRUE /\ state' = NoSnapshot /\ refreshIn' = 0
  /\ UNCHANGED <<fileVars, page>>

-----------------------------------------------------------------------------
(* The page and the network. *)

\* The page is served; its script calls poll(), and opens the stream or, in a browser
\* without EventSource, polls from the start.
LoadPage ==
  /\ serving /\ stream = "none"
  /\ answers' = {Sent(state)}
  /\ \/ stream' = "open" /\ pushIn' = 0
        /\ UNCHANGED <<pollers, pollIn>>
     \/ stream' = "closed" /\ pollers' = 1 /\ pollIn' = Poll
        /\ UNCHANGED pushIn
  /\ UNCHANGED <<fileVars, server, pushed, shown>>

\* es.onmessage
RenderPushed ==
  /\ pushed # <<>>
  /\ shown' = Head(pushed).body
  /\ pushed' = Tail(pushed)
  /\ UNCHANGED <<fileVars, server, stream, pushIn, answers, pollers, pollIn>>

BreakStream ==
  /\ stream = "open"
  /\ stream' = "broken"
  /\ UNCHANGED <<fileVars, server, pushIn, pushed, answers, pollers, pollIn, shown>>

\* Mutant: es.close() is missing, and the browser opens the stream again.
AfterErrorOpen == IF serving THEN "open" ELSE "broken"

AfterError == "closed"

\* es.onerror: what the stream had not delivered is gone.
OnError ==
  /\ stream = "broken"
  /\ stream' = AfterError
  /\ pushed' = <<>>
  /\ pollers' = pollers + 1 /\ pollIn' = Poll
  /\ UNCHANGED <<fileVars, server, pushIn, answers, shown>>

\* poll: get_state answers, or nobody does and the error is swallowed.
PollState ==
  /\ pollers > 0 /\ pollIn = 0
  /\ pollIn' = Poll
  /\ answers' = IF serving THEN answers \cup {Sent(state)} ELSE answers
  /\ UNCHANGED <<fileVars, server, stream, pushIn, pushed, pollers, shown>>

RenderAnswer ==
  /\ \E answer \in answers :
       /\ shown' = answer.body
       /\ answers' = answers \ {answer}
  /\ UNCHANGED <<fileVars, server, stream, pushIn, pushed, pollers, pollIn>>

LoseAnswer ==
  /\ \E answer \in answers : answers' = answers \ {answer}
  /\ UNCHANGED <<fileVars, server, stream, pushIn, pushed, pollers, pollIn, shown>>

-----------------------------------------------------------------------------
UnderWay(messages) == [body |-> Aged(messages.body), flight |-> messages.flight + 1]

Tick ==
  /\ FileTick
  /\ serving => refreshIn > 0 /\ (stream = "open" => pushIn > 0)
  /\ stream # "broken"
  /\ pollers > 0 => pollIn > 0
  /\ \A k \in DOMAIN pushed : pushed[k].flight < MaxFlight
  /\ \A answer \in answers : answer.flight < MaxFlight
  /\ state' = Aged(state)
  /\ refreshIn' = Left(refreshIn)
  /\ pushIn' = Left(pushIn)
  /\ pushed' = [k \in DOMAIN pushed |-> UnderWay(pushed[k])]
  /\ answers' = {UnderWay(answer) : answer \in answers}
  /\ pollIn' = Left(pollIn)
  /\ UNCHANGED <<serving, stream, pollers, shown>>

Collector == StartCollector \/ StopCollector \/ WriteTmp \/ Replace

LiveNext ==
  \/ Collector /\ UNCHANGED <<server, page>>
  \/ RefreshOnce \/ Push \/ StopServer \/ StartServer
  \/ LoadPage \/ RenderPushed \/ BreakStream \/ OnError
  \/ PollState \/ RenderAnswer \/ LoseAnswer
  \/ Tick

\* The loops that run go on, the browser reports an error, time passes; and not
\* every answer is lost.
LiveFairness ==
  /\ WF_liveVars((WriteTmp \/ Replace) /\ UNCHANGED <<server, page>>)
  /\ WF_liveVars(RefreshOnce) /\ WF_liveVars(Push) /\ WF_liveVars(RenderPushed)
  /\ WF_liveVars(OnError) /\ WF_liveVars(PollState)
  /\ SF_liveVars(RenderAnswer)
  /\ WF_liveVars(Tick)

LiveSpec == LiveInit /\ [][LiveNext]_liveVars /\ LiveFairness

-----------------------------------------------------------------------------
(* Properties. *)

\* Types; and a loaded page always has one source of states: its stream until the first
\* error, one poll timer ever after (es.onerror, 739) or from the start (741), never both
\* and never neither.
LiveTypeOK ==
  /\ FileTypeOK
  /\ serving \in BOOLEAN /\ state \in Snapshots /\ refreshIn \in 0..Refresh
  /\ stream \in {"none", "open", "broken", "closed"} /\ pushIn \in 0..Refresh
  /\ shown \in Snapshots \cup {Nothing}
  /\ pollIn \in 0..Poll
  /\ pollers = IF stream = "closed" THEN 1 ELSE 0

\* A page that says "feed: live" rendered a snapshot that was then younger than
\* DZ_FRESH_SECONDS, a refresh and a flight: no restart, overtaking answer or stream
\* that lags makes it take an older one for live (_read_fresh, refresh_once, poll).
LiveWasRecent ==
  ShowsLive => shown < Fresh + Refresh + MaxFlight

Works  == collecting /\ ~flooded
Served == serving /\ stream # "none"

\* Where the server stays up, a loaded page ends up showing live if the collector ends up
\* working, and pending if it ends up dead or flooded (the flush of dz_live_feed.py
\* 182, the age check of server.py 53, the stream and its fallback), whatever
\* crashed, broke or was lost before.
PageFollowsTheCollector ==
  /\ <>[](Served /\ Works)  => <>[]ShowsLive
  /\ <>[](Served /\ ~Works) => <>[]ShowsPending
=============================================================================
