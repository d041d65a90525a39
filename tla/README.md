# Kalshi edge lab: a TLA+ model of the race, the arbiter and the duel

This directory models the concurrent and stateful parts of the repository in
TLA+: what TLC checks on small instances, and what TLAPS proves for every value
of the constants. Paths below are relative to `src/`.

    tlc -workers 2 -config ArmArbiterAuto.cfg MCArmArbiter.tla
    tlapm ArmArbiterProofs.tla

`PROJECT.json` lists the runs, the source lines every definition stands for, the
mutants that show each property can fail, the hazards, findings and theorems.

## 1. Inventory

The program compares two feeds of one venue. A DoubleZero (DZ) multicast feed is
read by a thread from a raw socket; the public WebSocket feed is read in an
asyncio event loop. Both are decoded to one `Event` type and meet in a shared
state under a lock; a third activity (a thread or a task) publishes that state to
a JSON file, which a web server shows.

| Component | State it keeps | Operations | Interacts with | What makes it correct |
|---|---|---|---|---|
| `sources/dz_feed/arms.py` ArmArbiter | selected arm, pending sightings, window of races, last frame per arm, counters; a lock | `note_frame`, `observe_trade` (`_sweep`, `_resolve`), `accepts`, `stats` | called by every DZ reader once per frame | the arm that leads is picked, a silent arm is let go, nothing is lost while undecided, counters reconcile |
| reader loops (`scripts/dz_latency_race.py`, `demo/runner.py`, `scripts/dz_live_feed.py`, `scripts/run_race.py`) | the frame in hand | receive, decode, offer to the arbiter, pass on or drop | arbiter, decoder, sizes, state | a trade both arms carry is passed on once |
| `scripts/dz_latency_race.py` RaceState | two maps of waiting halves, hot and window deques, counters; a lock | `add_dz`, `add_pub`, `snapshot` | DZ thread, event loop, flush thread | each match is one sample, in one place; a file is one consistent cut; the window holds what it says |
| `sources/dz_feed/contract_sizes.py` ContractSizes | cached axis per market | `_learn`, `axis_from`, `get` | written by the DZ thread, read by the public handler | a market's two feeds share one axis |
| `sources/dz_feed/registry.py`, `decoder.py` | instrument definitions, conflicts | `update`, `decode` | the DZ reader | first symbol wins, conflicts counted, torn frames survive |
| `demo/runner.py` DemoState | bots, timeline, intents, duels, scoreboards, headline; a lock | `on_event`, `settle_due`, `snapshot` | DZ thread, public handler, writer task | every decision is judged once, by the right book, and pairs with its twin |
| `demo/fills.py` GroundTruth, Scoreboard | timeline of books per market; totals | `record`, `state_at`, `settle`, `add` | DemoState | ordered timeline; a verdict is final |
| `demo/strategy.py`, `demo/book.py` | top of book, position, cooldown | `on_event`, `apply` | DemoState | cap and cooldown hold; only its own book is read |
| `demo/public_feed.py` PublicFeed | levels per market, last top | `on_message` | ReconnectingWS, DemoState | the top shown is the venue's |
| `common/ws_client.py` ReconnectingWS | back-off, stop flag | `run`, `stop` | event loop | reconnects, resubscribes, backs off, stops |
| `common/storage.py` frame log | the file | `write`, `read_frames` | capture loops, offline race | what is read back is a prefix of what was written |
| `race/match.py`, `scripts/run_race.py` | the lists of one run | capture, replay, `match_trades` | frame logs, arbiter, decoder, sizes | one-to-one, within the window, nearest first, nothing pairable left over |
| `race/stats.py`, `race/report.py` | none | percentiles, PNG | offline race | ranks; output |
| `sources/*/capture.py`, `scripts/verify_capture.py` | the capture loop | receive, write, deadline | frame log | stops, writes what it received |
| `scripts/dz_live_feed.py` LiveState | totals, per-market rows, rates, next flush | `apply`, `tick_rates`, `snapshot`, `run` | arbiter, state file | the file is refreshed |
| `web/server.py` | `STATE`; in the page: the stream, the poll timer, what is shown | `refresh_once`, `/api/state`, `/events`; `poll`, `render`, `onerror` | state files, browsers | stale data is shown as not live, and the page follows |
| clock, config, auth, pages, deployment | - | - | - | thin wrappers or output |

Hard behaviours, in the order in which the modules take them up:

1. arbitration over lossy, reordered copies with a choice that can change between
   two copies of one trade;
2. three threads over one lock whose flush does most of its work outside it;
3. intents judged later by a timeline another thread is still writing;
4. a stateful order book fed through a socket that reconnects;
5. a log that a crash can tear;
6. loops that must publish although what they receive may not be theirs.

`PROJECT.json` "hazards" gives each hazard with its line and the properties aimed
at it.

## 2. Plan

| Order | Modules | Status |
|---|---|---|
| 1 | `ArmArbiter`, `ArmArbiterProofs`; `ArmFeed` composes it with the reader loop, `ArmFeedProofs` | done |
| 2 | `SampleWindow` (abstract), `LatencyRace` (implements it twice), `LatencyRaceProofs` | done |
| 3 | `PrintBot`, `GroundTruth`, `Duel` (composes them), `DuelProofs` | done |
| 4 | `ReconnectingWS`, `PublicFeed`, `PublicPath` (composes them with the venue's book), `PublicPathProofs` | done |
| 5 | `FrameLog`, `RefData` (registry, labels, axes), `RankStats`; `OfflineRace` composes them with `ArmArbiter`, the capture loops and the matcher; `OfflineRaceProofs` | done |
| 6 | `SnapshotFile` (the collector's flush); `LivePath` composes it with the web server and the page; `LivePathProofs` | done |

Every safety invariant that a passing run checks is now also a theorem, and so are
the action properties and both refinements: section 6. `DataInduction` has the lemmas
about sums, folds and recursive functions those proofs share. What remains with TLC is
liveness and the comparison of the two tools' percentiles (`RankStats`); what could
still be proved is how far the four findings reach, each under the hypothesis it
breaks, as `HeadlineOfPairs` does for `duel_twice`.

## 3. The modules

### ArmArbiter (`sources/dz_feed/arms.py`)

Every call is one critical section of the arbiter's lock, so each is one action:
`NoteFrame` (with the frame's arrival), `ObserveTrade` (one trade of the frame in
hand; its four disjuncts are the four ways through the method: first sighting,
same arm again, stale twin, pair) and `Accepts` (release of a silent arm, then the
verdict on the frame). `Swept` is `_sweep`, `Push` the bounded deque, `Resolve`
`_resolve`, `MostCommon` the arm `Counter.most_common(1)` returns, including its
tie-break by age. The variables are the fields of the class; `hand` is the
reader's frame with the trades it still has to offer. All calls for one frame use
one stamp, as in the readers. `stats()` only reads.

### ArmFeed (the reader loops)

The venue prints trades `1..Trades`; each arm publishes them in order, losing some. The
reader offers, asks and passes on; `shown` is the row `LiveState.apply` of
`scripts/dz_live_feed.py` makes of what is passed on. `shownUnder`, `copies`, `judged`
and `choices` are history variables. `fast`, drawn from `Leaders`, is an arm that
publishes every trade first, which is what the arbiter is there to detect, or no arm at
all.

### LatencyRace and SampleWindow (`scripts/dz_latency_race.py`)

`DzStamp`/`PubStamp` read the clocks, outside the lock; `AddDz`/`AddPub` are
`add_dz`/`add_pub` with `_record`, under it. `DzLearn`, `DzSkip`, `PubSkip` are the
axis lookups. The flush is three actions: `FlushStart` (`now = now_ns()` before the
lock), `FlushSwap` (the locked part: expiry, the pointer swap, the counters),
`FlushPublish` (drain, age-out, the file). The wall clock can be set at any time.
Per-market tallies, percentiles and histograms are computed from what is modelled
and left out. `SampleWindow` is what a rolling window promises: samples are taken
in order, and a snapshot counts exactly those of some moment that were not too old
then. The race implements it twice, once for the deltas (`DeltaWindow`) and once
for the absolute legs (`AbsoluteWindow`).

### PrintBot, GroundTruth and Duel (`demo/`)

`PrintBot` is one bot in one market: its book and the rule. `GroundTruth` is the
timeline of DZ books with its replacement of equal stamps and its halving. `Duel` is
`DemoState` with its callers. A reader stamps a message (`Read…`) and then sends its
events through `on_event` one by one, each under the lock (`OnEvent`); the writer reads
its clock (`SettleStart`), takes the lock (`SettleLock`), judges due intents from the
head of the queue (`SettleOne`) and prunes (`SettleEnd`). The public handler and the
writer share the event loop, so neither starts while the other is at work. `MaxStall` is
an assumption about the host, not a constant of the code: how long a reader thread may
hold a message it has stamped. The markets' ticks always exist when an event gets as far
as `on_event` (the comment at `demo/runner.py:126-129`: size and tick come from one
axis). `Heard` lists the feeds a print arrives on, and it arrives there once. While no
arm is selected the DZ reader passes on both arms' copies (`ChoiceDecidesDelivery`);
that the bot does not act on both rests on a cooldown longer than the lag between the
arms. The mark-out value, the forty most recent duels and `snapshot()` read only.

### ReconnectingWS, PublicFeed and PublicPath (the public feed)

`ReconnectingWS` is `run()` cut at its awaits: `Loop` (the test of `_stop`),
`Connect`, `SendSubscribe`, `AfterMessage`, and the two ways a connection ends:
`Fail` (any exception; back-off) and `CleanClose` (the iteration ends; no back-off,
so a venue that accepts and closes in good order is called again at once).
`PublicFeed` is the book of one market: `OnSnapshot`, `OnDelta` and the
change-only `Requote`; `view` is what the bot has been told. `PublicPath` is
`_public_ws`: one `PublicFeed` over all connections, with the venue (external) at
the other end, which answers a subscription with its book and then sends its
changes in order. A message carries the venue's book after it, for the properties
alone. Trades pass through the feed without touching its state and are left out.

### FrameLog, RefData, RankStats and OfflineRace (`scripts/run_race.py`)

`FrameLog` is a capture file as a sequence of cells: two for a header, which can itself
be cut, one for a payload. `ReadFrames` is `read_frames`; where it lands beside a
header, the length it reads is any number of cells up to `MaxGarbage`, and what it
yields is `Garbage`; `ReadOne` is one turn of its loop. `RefData` is the registry both
arms feed, the label the decoder gives a trade, and `_learn`. `OfflineRace` is one run
of the program: `CaptureDz` and `CapturePublic` append; `EndCapture`; per frame
`ReplayFrame`, `ReplayTrade` and `ReplayVerdict`, which are the arbiter's own actions
with the decoder before and the sizes after them; `LoadPublic`, which fails where
`orjson.loads` would; `MatchOne`, the body of the loop over the public trades; `Report`.
`CrashInCapture` leaves a cut record in either file, and it and `RunAgain` start the
program again in the same directory: the files stay (`"ab"`), everything else is new.
The ids an arm uses are drawn from `IdMaps`: the two arms agree, or they use each
other's. A print is its identity; `MarketOf`, `PrintOf` and `MsOf` are its key, of which
the arbiter uses the first two, so equal prints have one key. `RankStats` has the
percentiles of both tools; `MCOfflineRace` compares them by ASSUMEs when the run starts.

### SnapshotFile and LivePath (`scripts/dz_live_feed.py`, `web/server.py`)

A snapshot is its age, from `updated_at`, up to `OldAge`. `WriteTmp` and `Replace` are
the two halves of `_write_atomic`, and a crash can fall between them. `flooded` is an
environment in which every turn of the loop gets a packet that cannot be received, is
foreign, malformed or dropped and `continue`s, so that nothing is flushed. `RefreshOnce`
is one step, for it has no await; `Push` is a turn of the `/events` generator.
`LoadPage` loads the one page, at any time while the server is up: its first poll and
its stream are under way at once; where the browser has no `EventSource` the poll timer
is started instead, and the page is from then on like one whose stream broke. `OnError`
closes the stream and starts the poll timer, for good. The stream keeps its order, the
answers to polls do not. `Tick` is a unit of time: the timers of running loops fire
within their unit, and a message is under way for `MaxFlight` units at the most. That is
an assumption about host and network, not a constant of the code. The clock of the two
processes is one (they share a host) and is not set while they run: setting it back
would keep a dead file fresh for as long. A connection that dies is reported to the
browser: of a stream that stays half open nobody is told, and the page would keep what
it shows.

## 4. The runs

| Run | Bounds | What it shows |
|---|---|---|
| `arms_auto` | 2 arms, 2 keys, 2 trades per frame, 3 frames per arm, gaps up to 3, `MinPairs` 2, `Keep` 3, `PairTtl` 1, `Silence` 2, `SweepAt` 2, time up to 4 | stale pairs, sweeps, eviction from a full window, release and new choice all occur; the choice follows from the window, a sighting is taken by its twin or its age alone, nothing is dropped in the warm-up or without a live rival, counters add up |
| `feed` | 4 trades under keys of their own, 4 frames per arm, any number of them lost (`MaxLost` 4), `Keep` 2, with a leading arm and without | one delivery under one selection, every copy under none; a row is rolled back only across a change of selection; an arm that leads is the one selected, through losses and silence, and costs no trade |
| `race_window` | 2 trades, time up to 3, `KeyTtl` 1, `Window` 1, three settings of the wall clock | hand-over, snapshot, freshness, expiry, and both refinements |
| `race_shared` | 3 trades, two under one key, one market without an axis | a half is used once, and every match gets into a published total |
| `duel` | a buy print on both feeds and two sell prints on DZ, one of the three without a venue stamp; 2 quote messages on DZ and 1 on the public feed; `Reaction` 1, `Markout` 1, `MaxStall` 1, `MaxBooks` 1, `Cooldown` 2, `DuelTtl` 1, `Window` 1; the last message is read at 3 (`MaxRead`), time goes on to 6 | verdicts are final when given and never overdue; positions, queue, boards and headline agree, up to the prints whose intents are dropped; two decisions on one print meet |
| `public` | 3 prices, levels up to 2, 3 changes of the venue's book, back-off 1 to 3 | over any number of connections the book is the venue's, the bot's quotes follow its top, the back-off doubles and is reset, a lost connection comes back |
| `offline` | 5 prints in 2 markets, one of which has no usable axis: three equal ones, one of another millisecond, one of another price and without a stamp; all but the fourth may come on the public socket too (`OnPublic`); up to 3 records in `dz.bin` and 4 in both files, one cut; time up to 3, `Window` 1; `MinPairs` 2, `PairTtl` 2, `Silence` 2 | the log reads back up to the cut, and the load fails only behind one; the matching is one-to-one, nearest first, maximal and adds up; two different trades are paired only with a counted conflict, or before the arm's own definition was read |
| `live` | `Flush` 1, `Fresh` 4, `Refresh` 2, `Poll` 2, `MaxFlight` 2, ages up to 8 | one source of states per page; nothing older than `Fresh + Refresh + MaxFlight` is rendered as live (the bound is reached but for one unit); live and pending end up right |
| `feed_once`, `feed_repeat`, `duel_twice`, `public_partial` | as small as the behaviour allows | the findings of section 7 |

Why the bounds are enough: the thresholds of the code are small, and time goes on beyond
them: sightings, halves, samples and arms are found young enough and too old (`PairTtl`,
`KeyTtl`, `Window`, `Silence`), a bot acts again after its cooldown and does not within
it. In `duel` time goes on for three units after the last message was read, so that what
is read at 1 and at 3 is judged rounds apart: a duel is pruned before the second
decision on its print is judged (`DuelTtl`), a completed row leaves the headline (the
window), and both also stay in time. Every capacity is reached and exceeded (`Keep`,
`SweepAt`, `MaxBooks`), and two trades or two arms are what any of the orderings takes.
`feed_repeat` has no losses (`MaxLost` 0), so that its trace owes nothing to them. The
number of connections is not bounded, only the failures that are told apart. Time and
the number of messages end, so those runs allow deadlock (`CHECK_DEADLOCK FALSE`;
`offline` for the same reason), and `public` does because `run()` ends after `stop()`;
the race runs and `live` check it, because their loops never stop. `ArmSymmetry`
permutes the keys, and the arms, between which the arbiter does not distinguish when
none is forced (a tie is broken by age, not by name).

## 5. Fairness

`race_shared` assumes weak fairness of the three flush steps: `_flush_loop` is a
loop of sleep and `build_and_write` that ends only with the process, one at a time,
and the lock is held for a bounded number of steps. Nothing is assumed of the feeds.

`public` assumes that `run()` goes on after each of its awaits: weak fairness where
nothing can intervene (the test of `_stop`, the sleep), strong fairness of
connecting, subscribing and receiving, which a failure can undo at any time. That
excludes only a venue that fails at every attempt for ever.

`live` assumes weak fairness of the flush, the refresh loop, the generator, the
page's timer and handlers, and of time: loops that run, run on. It assumes strong
fairness of rendering an answer: not every one is lost for ever. Nothing is assumed
of crashes, restarts, floods or broken streams; the property asks only for what
must follow once the server stays up and the collector stays working, or not.

## 6. What is proved

`ArmArbiterProofs`, `ArmFeedProofs`, `LatencyRaceProofs`, `DuelProofs`,
`PublicPathProofs`, `LivePathProofs` and `OfflineRaceProofs` prove their theorems with
no assumption but the ASSUMEs of the modules: any finite set of arms, any keys and
trades, any tuning and periods, any bounds. Where a theorem needs more, it names
it: `AllStamped` (every trade carries a venue stamp), `Unforced`, `TwoArms`, `OwnKeys`
for the arm that leads, `~Unforced` for a forced one, that every print has a key of its
own for the headline of the duel, and that the contract size is known at the start for
the top of the public book. `tlapm` checks every leaf.

**Sums, folds and recursion (`DataInduction`).** The library's induction theorems take
a predicate as a parameter, which the provers cannot instantiate. The lemmas here take
a *set* instead: `InductTo` shows that a set that has 0, and n + 1 with n, has all of
`0..L`. From it follow that a fold over a sequence runs through accumulators
`acc[0], acc[1], ...` (`FoldRuns`), that a recursion over a number has a function
that obeys its equation (`RecursionRuns`), and how a sum over a finite set moves
when one term does. A proof about a loop of the code then has one lemma for a turn of
the loop and one induction over `acc`.

**Arbiter.** The inductive invariant `ArmInv` adds to the types and the two properties
that a waiting sighting was made by an arm and not in the future (without it a pair's
lag could be negative and its winner no arm), and that only a frame has trades to offer.
`RacesAreReal`, `SelectionFollowsTheWindow` and `ArmTypesHold` follow from it;
`WarmUpIsOpen`, `SightingsWait` and `NoDropWithoutARival` are action properties. A
sighting is taken from the map by its twin or was too old to pair (`SightingsWait`); and
from `SelectionIsEarned`, an arm that is selected has won a race of the window, so a
frame of another arm is dropped only while the winner is audible. `CountersAgree` needs
`TallyInv`: summed over the arms, the trades heard are at least twice the pairs, plus
the stale replacements and the sightings that wait, and the wins are the pairs; each
call moves one term of a sum. `ForcedArmStays` covers the forced arm, which no run
instantiates: with `--dz-channel` neither a race nor a silence moves the selection.

**Reader loop.** `FeedInv` adds to `ArmInv` that a trade in hand is the last its arm
sent and was not judged before (`CargoIsFresh`), that the arm a row was shown under has
sent nothing older since (`ShownIsBehind`), and, per trade (`Counted`), how often it
was passed on by the selections its copies were judged under: every judged copy under
none, the selected arm's one under that arm. From the last follows
`DeliveryFollowsTheChoice`; from the other two, since an arm publishes in order,
`NoRollBackUnderOneArm`. For an arm that leads, `LeaderInv` adds that every race in
the window was won by it, and that a sighting of the other arm waits for good: the
leader has by then sent that trade or lost it, and no other trade has its key. So no
race can ever name the other arm (`TheLeaderIsSelected`, `TheLeaderLosesNothing`).
With a forced arm every copy is judged under that arm, so `ForcedArmPassesOnce`: the
hole that `feed_once` shows takes a selection that moves between two copies.
With three arms the two slow ones could race each other over a trade the leader lost,
and with shared keys the arms' roles mix (`feed_repeat`), so both are assumed away.

**Race.** `RaceInv` adds to the types and properties that a flush that has swapped
holds counters copied in the same critical section (`CopiedWithTheSwap`:
`flush.matched` = what it holds + what the window holds + what was aged out), and
that a flush that has not swapped holds nothing (`HoldsNothing`). The
matched counter moves only with an append to the hot deque, the swap moves the
whole deque and copies the counter, and the drain moves its samples to the window
and the aged-out: so no sample is lost (`HandOverIsExact`) and each file reconciles
(`FilesReconcile`), whatever the threads do between the three parts of the flush.
`TwinsMeet` is `NeverBothWaiting`.

**Race: the window.** The window, what a flush holds and what is hot, one after the
other, are one series. `OrderInv` says that each of its two forms (deltas, absolute
legs) is in the order of the stamps and that none is later than now. A step either
leaves the series alone, or appends a sample stamped now (a match under the lock), or
drops a front of it (the publishing flush). So dropping from the left leaves nothing
too old (`WindowStaysFresh`), and a step of the race is a step of `SampleWindow` or a
stutter (`RaceImplementsWindow`): a match is a `Take`, the publishing flush is the
snapshot of the moment of its swap, and what was matched since stays behind it.
`RaceImplementsAbsoluteWindow` is the same for the absolute legs, with the assumption
`AllStamped` that every trade carries a venue stamp: a match without one is counted
nowhere in the absolute series.

**Race: the matching.** `OnceInv` says of each feed that a trade is in the reader's
hand, in the map, or in one race, and in no two of them: the pop of a half under the
lock is what moves it on, so `NoTradeMatchedTwice`, also when keys are shared.
`FateInv` follows a trade with a key of its own from where it was added: it has met
its twin, or still waits under its key with its stamp, or is older than `KeyTtl`. The
flush reads its clock before the lock, so the clock it expires by is never ahead of
now, and a sweep takes only what is too old; together with `TwinsMeet` that is
`OnlyTheTtlLoses`.

**Duel.** Three invariants, one on the other. `BaseInv` has the types and the timeline:
only a DoubleZero quote writes either the bot's book or the timeline, with the same
value and stamp, and the reader's stamps do not go back (`DuelTypesHold`,
`TimelineIsTheBook`; only one thread writes it, so no run is spent on it). `TimeInv` is
about stamps: a message in hand is at most `MaxStall` old, so the queue, though appended
to by two readers with their own stamps, is in order up to `MaxStall`; an entry behind a
head that is not due is therefore overdue by no more than that (`NothingWaitsLonger`),
and a verdict, given `Markout` after the moment it reads the book of, is given after
every book of that moment was recorded, unless a reader was held up for longer
(`VerdictsAreFinal`). `CountInv` follows each decision: it is in a hand, in the queue or
judged, in one of them only, and only finitely many were taken; so the boards are the
verdicts (`BoardsReconcile`) and a bot's position is what is queued or judged, and of
the prints without a venue stamp those it acted on (`PositionsAreBacked`). For a print
with a key of its own, `MeetInv` follows the row of its key: after the first verdict it
holds that one's fill and stamp until the second completes it or `DuelTtl` prunes it,
and the completed row stays in the headline until the window drops it (`DecisionsMeet`).
Each print that both bots have a verdict on makes at most one row (`RowInv`), so the
headline has no more rows than either board has intents (`HeadlineOfPairs`), if no two
prints share a key; with a shared key it fails, which is the finding `duel_twice`.

**Public path.** `PathInv` has an invariant of the feed (`FeedInv`: the top last
emitted is the book's, or the book was never filled) and one of the wire (`WireInv`:
every message continues the one before it, from the last one handled to the venue's
book of now; before the snapshot of this connection was handled it is the next). A
snapshot replaces the whole book, so nothing of an earlier connection survives it, and
each delta then does to the feed's book what it did to the venue's: `BookIsRebuilt`.
`ViewFollows` is the change-only emission. `BackoffIsCapped`: doubling and capping at
every failure comes to `base * 2^k` capped once. `TopInv` has the top last emitted as
that of the book of now: so a connection whose snapshot was applied shows the venue's
top when all that was sent has been handled (`AppliedSnapshotShowsTheTop`), and the one
state in which `public_partial` finds another, a snapshot dropped for want of the
contract size, cannot occur where the size was learnt before (`KnownSizeShowsTheTop`).

**Live path.** `LiveWasRecent` is not inductive: it says nothing of what is still on
its way. `LiveInv` bounds the age at each stage. While the server runs, `STATE` is
younger than `Fresh` plus the part of the refresh period that has passed (a server
that is down ages it without a refresh, but serves nothing, and starts from
"pending"); a message is younger than `Fresh + Refresh` plus its time in flight
(`Recent`). A unit of time adds one to both sides (`UnderWayRecent`), so
`LiveIsRecent` holds for any periods. `LiveTypesHold` has the page's one source of
states.

**Offline race.** `OfflineInv` carries the run from the files to the report, over
crashes and reruns. The files hold records in the order of their stamps, none later
than the clock; what `read_frames` yields are payloads of the file in that order, or
`Garbage` (`ReadKeeps`), so the frames still to replay are in order and never behind
the arbiter's clock, and the replay keeps `ArmInv`. The registry names each id once
and, while it has counted no conflict, as every arm that defined the id does
(`RegistryOK`, kept by `UpdateKeeps`); the trades loaded were labelled by such a
registry (`LoadOK`). The pairs so far are of the public trades already visited, one to
one, nearest first, and what is left unpaired could not be paired (`PairsOK`). The last
two parts are what `MatchingIsSound` and `WrongPairsAreExplained` say of the report.

`WholeLogsReadBack` needs the shape of a file (`Shaped`): each cell but a torn
record's has the other cells of its record next to it. Shapes join (`ShapedJoined`),
so every append and every crash keeps it. `ReaderAt` then says where `read_frames` is
after each turn of its loop: at the header of the next record before the cut, with the
records so far collected (`acc[start - 1]`), or past the cut, which takes a session
that wrote behind it (`CutInside`), with all of them at the front of what it yields.
A torn header and the next record's are not taken for one (`NextHeader`), whatever
length the misread header claims. That bytes of no record are not taken for one is
`GarbageAssumption`; `NamingAssumption` says that an arm gives its instruments
different ids and that an id, a number, is no market's name.
`PercentilesAreNeighbours` is arithmetic: for a sample of any size `_index_for` picks
one of the two ranks between which the offline tool interpolates.

**Only model-checked.** Liveness under fairness (`EveryMatchIsPublished`, `ComesBack`,
`PageFollowsTheCollector`) is out of this prover's reach and stays with TLC, as does
the comparison of the values the two tools report (`SummariesAgree`), which enumerates
samples: it would take what sorting does. The properties
of the four runs that expect a violation are false.

## 7. Findings

| Run | What the code does |
|---|---|
| `feed_once` | a pair that changes the selection is judged under two selections: the trade is dropped on both arms, or, when the window slides over a tie, passed on twice |
| `feed_repeat` | of equal prints in a row the leader's second is ignored while its first waits, the other arm's second waits in turn and wins against the leader's next: the arm that never leads is selected, with no frame lost |
| `duel_twice` | a third fill of a key puts the pair into the headline again |
| `public_partial` | a snapshot dropped before the contract size is known is never asked for again; the deltas after it build a partial book that is quoted |

`PROJECT.json` "findings" quotes the lines each contradicts.

Things the models take as the code has them, and a reader should know of:
prints of one millisecond, price and size share a key, so that halves of different
prints can be matched (`scripts/dz_latency_race.py:280`); the verdict of a duel
reads the book as of the decision plus the reaction time (`demo/fills.py:93`),
later than "the moment that bot decided" of `demo/runner.py:10`; and a side of the
public book that empties emits nothing (`demo/public_feed.py:107`), so the bot keeps
a quote the venue has pulled.

Of the offline race: a run in a directory that was used before races the old
capture along with the new one, and behind a record that a crash cut, it reads
garbage, on which `orjson.loads` ends it (`sources/kalshi_ws/decoder.py:54`) although
"anything else yields nothing" (line 53). A market gets its axis only through a
DZ trade that was accepted (`scripts/run_race.py:88`), so "the DZ capture never
named this market" (line 107) is also true of one it defined: its public trades are
not counted as unmatched. `symbol_conflicts` is counted, and `run_race` drops the
decoder that holds it (line 169). Of the live path: what the browser shows is not
timed out by the browser, so "feed: live" outlives a web server that died; and a
collector that is flooded writes nothing, although the file is to be written "every
--flush-ms" (`scripts/dz_live_feed.py:9`), and shows as pending although it receives.

## 8. Not modelled, and why

Byte layouts, frames cut short inside a message, price and size conversions and
histograms are pure data with unit tests; level sizes of the public book are whole
numbers, so the residue that adding floats can leave (`demo/public_feed.py:84`) is
outside it. A lot or tick size that changes after it was cached
(`sources/dz_feed/contract_sizes.py:57`) would need sizes as data. That the capture
loops end at their deadline, and that a write can be short on a full disk
(`common/storage.py:15`), are left out. Totals and rates of `LiveState`, and the
other two files the web server reads the same way, add nothing to what is modelled.
Sockets, HTML, drawing, PNG, shell scripts, the environment and the signature library
are I/O or external.
