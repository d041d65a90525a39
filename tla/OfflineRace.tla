----------------------------- MODULE OfflineRace -----------------------------
(***************************************************************************)
(* The capture-then-replay race (scripts/run_race.py): two capture loops   *)
(* write what arrives on the DoubleZero group and on the public socket to  *)
(* two frame logs; afterwards the DoubleZero log is replayed through the   *)
(* arbiter the live reader uses, which also yields the reference data, the *)
(* public log is put on the same axis, and the two lists of trades are     *)
(* matched (race/match.py) and summarised.                                 *)
(*                                                                         *)
(* A run of the program is a session.  It may be killed at any time, and   *)
(* a later session with the same --out-dir appends to the same two files.  *)
(* Everything but the files is that process's memory.                      *)
(***************************************************************************)
EXTENDS ArmArbiter, FrameLog, RefData, RankStats

CONSTANTS
  Prints,      \* the venue's trades
  MarketOf,    \* the market of each
  PrintOf,     \* its price and count
  MsOf,        \* its exchange stamp in ms, the rest of _key
  Stamped,     \* those with an exchange stamp
  OnPublic,    \* bound: those that may arrive on the public socket
  Usable,      \* the markets whose definition has a usable lot and tick size
  IdMaps,      \* the instrument ids the arms may use: channel -> market -> id
  Shapes,      \* the contents of a DoubleZero frame
  Window,      \* --window-ms
  MaxCells,    \* bound: the cells of the two files, three to a record
  MaxDzCells,  \* bound: those of dz.bin
  MaxCuts,     \* bound: records that a crash cut
  MaxGarbage   \* bound: the length, in cells, that a header read askew can claim

Markets == {MarketOf[i] : i \in Prints}
Ids     == UNION {{map[c][m] : m \in Markets} : map \in IdMaps, c \in Channels}

\* What a frame carries: definitions of markets, trades.
Items == [kind : {"def"}, market : Markets] \cup [kind : {"trade"}, of : Prints]

ASSUME OfflineAssumption ==
  /\ DOMAIN MarketOf = Prints /\ DOMAIN PrintOf = Prints /\ DOMAIN MsOf = Prints
  /\ Stamped \subseteq Prints /\ OnPublic \subseteq Prints /\ Usable \subseteq Markets
  /\ Window \in Nat /\ MaxCells \in Nat /\ MaxDzCells \in Nat /\ MaxCuts \in Nat /\ MaxGarbage \in Nat
  /\ MaxTime \in Nat \ {0} /\ Shapes \subseteq Seq(Items)
  /\ Forced = NoArm   \* run_race.py constructs ArmArbiter()

\* An arm gives its instruments different ids.  An id is a number and a symbol a string, so
\* that the label of an undefined instrument is no market's; the arbiter takes either.
ASSUME NamingAssumption ==
  /\ IdMaps \subseteq [Channels -> [Markets -> Ids]]
  /\ \A map \in IdMaps, c \in Channels, m, n \in Markets : map[c][m] = map[c][n] => m = n
  /\ Ids \cap Markets = {}
  /\ (Ids \cup Markets) \X {PrintOf[i] : i \in Prints} \subseteq Keys

\* What a cut leaves of a record, or a payload read askew, is not taken for a record.
ASSUME GarbageAssumption ==
  /\ Garbage \notin [at : Nat, of : Prints]
  /\ Garbage \notin [at : Nat, ch : Channels,
       msgs : Seq([kind : {"def"}, id : Ids, sym : Markets, usable : BOOLEAN]
                    \cup [kind : {"trade"}, id : Ids, of : Prints])]

VARIABLES
  idOf,               \* the ids in use
  stage,              \* where the run is
  clock,              \* CLOCK_MONOTONIC_RAW
  dzFile, pubFile,    \* dz.bin, public.bin
  todo,               \* the DoubleZero frames still to replay
  registry, events,   \* the decoder's registry, the trades of the frame in hand
  axes,               \* ContractSizes._axes
  dzTrades, pubTrades,\* the two lists of trades on one axis
  next, matched,      \* match_trades: the trade of the public side it is at, the pairs
  report,             \* what is printed
  defined             \* history: the ids each arm's own definition was replayed for

files      == <<dzFile, pubFile>>
captured   == <<idOf, clock, files>>
replay     == <<armVars, todo, registry, events, axes, dzTrades, defined>>
result     == <<pubTrades, next, matched, report>>
offlineVars == <<captured, stage, replay, result>>

NoReport == [n |-> 0]

OfflineInit ==
  /\ ArmInit
  /\ idOf \in IdMaps
  /\ stage = "capture" /\ clock = 1
  /\ dzFile = <<>> /\ pubFile = <<>>
  /\ todo = <<>> /\ registry = EmptyRegistry /\ events = <<>> /\ axes = {}
  /\ dzTrades = <<>> /\ pubTrades = <<>> /\ next = 1 /\ matched = <<>>
  /\ report = NoReport /\ defined = {}

-----------------------------------------------------------------------------
(* _run_captures: both loops stamp what arrives and write it.  That the    *)
(* loops end at a deadline of their own is a matter of which records still *)
(* come in.                                                                *)

WriteAt(t) ==
  /\ stage = "capture"
  /\ Len(dzFile) + Len(pubFile) + 3 <= MaxCells
  /\ t <= MaxTime
  /\ clock' = t
  /\ UNCHANGED <<idOf, stage, replay, result>>

Message(c, item) ==
  IF item.kind = "def"
  THEN [kind |-> "def", id |-> idOf[c][item.market], sym |-> item.market,
        usable |-> item.market \in Usable]
  ELSE [kind |-> "trade", id |-> idOf[c][MarketOf[item.of]], of |-> item.of]

PrintsIn(frame) == {frame.msgs[k].of : k \in {l \in DOMAIN frame.msgs : frame.msgs[l].kind = "trade"}}

\* An arm publishes a trade once.
Unpublished(frame) ==
  \A other \in ToSet(Records(dzFile)) :
    other.ch = frame.ch => PrintsIn(other) \cap PrintsIn(frame) = {}

CaptureDz(c, shape, t) ==
  LET frame == [at |-> t, ch |-> c, msgs |-> [k \in DOMAIN shape |-> Message(c, shape[k])]]
  IN  /\ WriteAt(t)
      /\ Len(dzFile) + 3 <= MaxDzCells
      /\ Unpublished(frame)
      /\ dzFile' = dzFile \o Cells(frame)
      /\ UNCHANGED pubFile

CapturePublic(i, t) ==
  /\ i \in OnPublic
  /\ WriteAt(t)
  /\ \A frame \in ToSet(Records(pubFile)) : frame.of # i
  /\ pubFile' = pubFile \o Cells([at |-> t, of |-> i])
  /\ UNCHANGED dzFile

\* Both loops have ended; ArmArbiter(), DzDecoder() and ContractSizes() are new.
EndCapture ==
  /\ stage = "capture"
  /\ stage' = "load"
  /\ \E g \in 0..MaxGarbage : todo' = ReadFrames(dzFile, g)
  /\ UNCHANGED <<captured, armVars, registry, events, axes, dzTrades, defined, result>>

-----------------------------------------------------------------------------
(* _load_dz_trades: the live reader's loop over the replay. *)

\* frame_channel is None: not a frame we understand.
SkipFrame ==
  /\ todo # <<>> /\ hand = Idle /\ Head(todo) = Garbage
  /\ todo' = Tail(todo)
  /\ UNCHANGED <<captured, stage, armVars, registry, events, axes, dzTrades, defined, result>>

\* What the arbiter takes for one trade.
EventKey(e) == <<e.market, PrintOf[e.of]>>

ReplayFrame ==
  /\ todo # <<>> /\ hand = Idle /\ Head(todo) # Garbage
  /\ LET frame   == Head(todo)
         decoded == Decode(registry, frame)
     IN  /\ NoteFrame(frame.ch, [k \in DOMAIN decoded.events |-> EventKey(decoded.events[k])],
                      frame.at)
         /\ registry' = decoded.registry
         /\ events' = decoded.events
         /\ defined' = defined \cup {<<frame.ch, msg.id>> :
              msg \in {m \in ToSet(frame.msgs) : m.kind = "def"}}
  /\ UNCHANGED <<captured, stage, todo, axes, dzTrades, result>>

ReplayTrade ==
  /\ ObserveTrade
  /\ UNCHANGED <<captured, stage, todo, registry, events, axes, dzTrades, defined, result>>

\* A trade with an exchange stamp asks for its market's axis, and is kept if it gets one.
LoadOne(load, e) ==
  LET known == Learnt(load.axes, registry, e.market)
  IN  IF e.of \notin Stamped THEN load
      ELSE [axes   |-> known,
            loaded |-> IF e.market \notin known THEN load.loaded
                       ELSE Append(load.loaded,
                              [at |-> now, of |-> e.of, market |-> e.market,
                               own |-> <<hand.ch, e.id>> \in defined])]

\* The trades of an accepted frame.
LoadEvents ==
  LET load == FoldLeft(LoadOne, [axes |-> axes, loaded |-> dzTrades], events)
  IN  axes' = load.axes /\ dzTrades' = load.loaded

ReplayVerdict ==
  /\ todo # <<>>
  /\ Accepts
  /\ todo' = Tail(todo)
  /\ events' = <<>>
  /\ IF Accepted THEN LoadEvents ELSE UNCHANGED <<axes, dzTrades>>
  /\ UNCHANGED <<captured, stage, registry, defined, result>>

-----------------------------------------------------------------------------
(* _load_public_trades, once the DoubleZero side has named the markets. *)

\* decode: orjson.loads raises on bytes that are no message, and ends the run.
Undecodable(got) == Garbage \in ToSet(got)

\* The trades of the markets that have an axis by now.
AddOnAxis(kept, frame) == IF MarketOf[frame.of] \in axes THEN Append(kept, frame) ELSE kept

OnAxis(got) == FoldLeft(AddOnAxis, <<>>, got)

LoadPublic ==
  /\ stage = "load" /\ todo = <<>> /\ hand = Idle
  /\ \E g \in 0..MaxGarbage :
       LET got == ReadFrames(pubFile, g)
       IN  \/ Undecodable(got) /\ stage' = "failed" /\ UNCHANGED pubTrades
           \/ ~Undecodable(got) /\ stage' = "match" /\ pubTrades' = OnAxis(got)
  /\ UNCHANGED <<captured, replay, next, matched, report>>

-----------------------------------------------------------------------------
(* match_trades: for each public trade in turn, the nearest DoubleZero     *)
(* trade of its key that is within the window and not yet used.            *)

Distance(i, j) == IF dzTrades[j].at < pubTrades[i].at THEN pubTrades[i].at - dzTrades[j].at
                  ELSE dzTrades[j].at - pubTrades[i].at

SameKey(i, j) ==
  /\ pubTrades[i].of \in Stamped
  /\ <<MarketOf[pubTrades[i].of], PrintOf[pubTrades[i].of]>> = EventKey(dzTrades[j])
  /\ MsOf[pubTrades[i].of] = MsOf[dzTrades[j].of]

UsedDz  == {matched[r].dz : r \in DOMAIN matched}
UsedPub == {matched[r].pub : r \in DOMAIN matched}

Pairable(i, j) == SameKey(i, j) /\ Distance(i, j) <= Window

\* Mutant: `if j in used_b: continue` is missing.
FreeUnchecked(j) == TRUE

Free(j) == j \notin UsedDz

\* `if best_dt is None or dt < best_dt`: of two equally near the first stays.
Nearer(i, j, k) == Distance(i, j) < Distance(i, k) \/ (Distance(i, j) = Distance(i, k) /\ j < k)

MatchOne ==
  /\ stage = "match" /\ next <= Len(pubTrades)
  /\ LET candidates == {j \in DOMAIN dzTrades : Free(j) /\ Pairable(next, j)}
     IN  \/ candidates = {} /\ UNCHANGED matched
         \/ \E j \in candidates :
              /\ \A k \in candidates \ {j} : Nearer(next, j, k)
              /\ matched' = Append(matched, [pub |-> next, dz |-> j,
                              delta |-> dzTrades[j].at - pubTrades[next].at])
  /\ next' = next + 1
  /\ UNCHANGED <<captured, stage, replay, pubTrades, report>>

KeyablePublic == {i \in DOMAIN pubTrades : pubTrades[i].of \in Stamped}

Report ==
  /\ stage = "match" /\ next > Len(pubTrades)
  /\ stage' = "report"
  /\ report' = [n         |-> Len(matched),
                discarded |-> [pub |-> Cardinality(KeyablePublic) - Cardinality(UsedPub),
                               dz  |-> Len(dzTrades) - Cardinality(UsedDz)],
                stats     |-> LatencyStats([r \in DOMAIN matched |-> matched[r].delta])]
  /\ UNCHANGED <<captured, replay, pubTrades, next, matched>>

-----------------------------------------------------------------------------
(* The process: it may die, also half way through a record of either file, *)
(* and may be run again.                                                   *)

\* ArmArbiter() of the new process.
NewArbiter ==
  /\ now' = 1 /\ hand' = Idle /\ selected' = Forced
  /\ pending' = [k \in Keys |-> NoSighting] /\ outcomes' = <<>>
  /\ lastSeen' = [c \in Channels |-> 0] /\ frames' = [c \in Channels |-> 0]
  /\ trades' = [c \in Channels |-> 0] /\ dropped' = [c \in Channels |-> 0]
  /\ winsTotal' = [c \in Channels |-> 0]
  /\ pairs' = 0 /\ stalePairs' = 0 /\ reselections' = 0

StartAgain ==
  /\ stage' = "capture"
  /\ NewArbiter
  /\ todo' = <<>> /\ registry' = EmptyRegistry /\ events' = <<>> /\ axes' = {}
  /\ dzTrades' = <<>> /\ pubTrades' = <<>> /\ next' = 1 /\ matched' = <<>>
  /\ report' = NoReport /\ defined' = {}
  /\ UNCHANGED <<idOf, clock>>

CrashInCapture ==
  /\ stage = "capture"
  /\ \E x, y \in Torn :
       /\ Cuts(dzFile \o x) + Cuts(pubFile \o y) <= MaxCuts
       /\ Len(dzFile \o x) + Len(pubFile \o y) <= MaxCells
       /\ dzFile' = dzFile \o x /\ pubFile' = pubFile \o y
  /\ StartAgain

\* After its report, a failure, or a crash while it loads and matches.
RunAgain ==
  /\ stage # "capture"
  /\ StartAgain
  /\ UNCHANGED files

OfflineNext ==
  \/ \E t \in clock..(clock + MaxGap) :
       \/ \E c \in Channels, shape \in Shapes : CaptureDz(c, shape, t)
       \/ \E i \in Prints : CapturePublic(i, t)
  \/ EndCapture
  \/ SkipFrame \/ ReplayFrame \/ ReplayTrade \/ ReplayVerdict
  \/ LoadPublic
  \/ MatchOne \/ Report
  \/ CrashInCapture \/ RunAgain

OfflineSpec == OfflineInit /\ [][OfflineNext]_offlineVars

-----------------------------------------------------------------------------
(* Properties. *)

OfflineTypeOK ==
  /\ ArmTypeOK
  /\ idOf \in IdMaps /\ clock \in 1..MaxTime
  /\ stage \in {"capture", "load", "match", "report", "failed"}
  /\ axes \subseteq Usable
  /\ \A j \in DOMAIN dzTrades : dzTrades[j].market \in axes /\ dzTrades[j].of \in Stamped
  /\ \A i \in DOMAIN pubTrades : MarketOf[pubTrades[i].of] \in axes
  /\ next \in 1..(Len(pubTrades) + 1)

\* The frame log over crashes and reruns: whatever was written whole is read back
\* in order, up to a cut that a later session wrote behind; and a run fails to load
\* what it captured only behind such a cut (storage.py's two writes and its "ab").
WholeLogReadsBack ==
  /\ stage = "capture" =>   \* no other stage writes
       \A file \in {dzFile, pubFile}, g \in 0..MaxGarbage :
         LET got == ReadFrames(file, g)
         IN  /\ IsPrefix(Intact(file), got)
             /\ CutInside(file) \/ got = Records(file)
  /\ stage = "failed" => CutInside(pubFile)

\* match_trades pairs one to one, within the window and on the venue's own fields;
\* a nearer partner than the one taken was taken before, a free pairable couple is
\* never left over, and what is reported as discarded is what was not paired.
MatchIsSound ==
  /\ \A r, q \in DOMAIN matched :
       r # q => matched[r].pub # matched[q].pub /\ matched[r].dz # matched[q].dz
  /\ \A r \in DOMAIN matched :
       /\ Pairable(matched[r].pub, matched[r].dz)
       /\ \A j \in DOMAIN dzTrades :
            Pairable(matched[r].pub, j) /\ Nearer(matched[r].pub, j, matched[r].dz)
              => \E q \in 1..(r - 1) : matched[q].dz = j
  /\ stage = "report" =>
       /\ \A i \in DOMAIN pubTrades, j \in DOMAIN dzTrades :
            Pairable(i, j) => i \in UsedPub \/ j \in UsedDz
       /\ report.n + report.discarded.pub = Cardinality(KeyablePublic)
       /\ report.n + report.discarded.dz = Len(dzTrades)

\* A pair of two different trades is one of equal prints in one market, or comes
\* from arms that disagree on an instrument id; and then, as soon as the arm's own
\* definition has been read, the disagreement was counted (registry.py:47-52).
WrongPairIsExplained ==
  \A r \in DOMAIN matched :
    LET one   == pubTrades[matched[r].pub].of
        other == dzTrades[matched[r].dz].of
    IN  \/ MarketOf[one] = MarketOf[other] /\ PrintOf[one] = PrintOf[other]
        \/ registry.conflicts > 0
        \/ ~dzTrades[matched[r].dz].own
=============================================================================
