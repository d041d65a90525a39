----------------------------- MODULE LatencyRace -----------------------------
(***************************************************************************)
(* The live latency race (scripts/dz_latency_race.py): the DoubleZero      *)
(* reader thread and the event loop's public WebSocket handler each stamp  *)
(* a trade and then, later and under one lock, offer their half of it to   *)
(* RaceState, which keeps the half that came first until its twin comes    *)
(* and turns the two into a sample.  A third thread publishes the rolling  *)
(* window in a flush of three parts: now_ns() before the lock, a pointer   *)
(* swap under it, everything else after it.                                *)
(*                                                                         *)
(* A trade of the venue has an identity; the program sees only its match   *)
(* key (market, exchange ms, ticks, contracts), KeyOf of the identity, and *)
(* its exchange stamp ExchOf.  `mono` is the monotonic clock and the true  *)
(* time, `step` what the wall clock is off by.                             *)
(***************************************************************************)
EXTENDS Integers, Sequences, FiniteSets

CONSTANTS
  Trades,        \* the venue's trades
  KeyOf,         \* _match_key of each
  ExchOf,        \* exch_ts_ns of each
  MarketOf,      \* the market of each
  Sized,         \* the markets whose definition has a contract size and a tick
  NoHalf,        \* None
  KeyTtl,        \* _KEY_TTL_NS
  Window,        \* _window_ns
  MaxPlausible,  \* _MAX_PLAUSIBLE_MS
  Steps,         \* the offsets the wall clock may be set to
  MaxTime        \* bound: the monotonic clock

Keys    == {KeyOf[i] : i \in Trades}
Markets == {MarketOf[i] : i \in Trades}
Half    == [of : Trades, mono : Nat, wall : Int]
MaybeHalf == Half \cup {NoHalf}

ASSUME TradeAssumption ==
  DOMAIN KeyOf = Trades /\ DOMAIN MarketOf = Trades /\ ExchOf \in [Trades -> Nat]
ASSUME NoHalfAssumption == NoHalf \notin Half
ASSUME LimitAssumption ==
  /\ KeyTtl \in Nat /\ Window \in Nat /\ MaxPlausible \in Nat
  /\ MaxTime \in Nat /\ Steps \subseteq Int

VARIABLES
  mono, step,       \* the clocks
  dzSent, pubSent,  \* the trades that have come in on each feed
  dzHand, pubHand,  \* the half each reader has stamped and not yet added
  axes,             \* ContractSizes._axes: the markets with a known axis
  dz, pub,          \* _dz and _pub
  dzSeen, pubSeen, matched, implausible,  \* the counters
  hot, absHot,      \* _deltas_hot and _abs_hot
  win, absWin,      \* _deltas_win and _abs_win
  flush,            \* the flush thread: its stage and its local variables
  published,        \* the counts in the file last written
  aged, absAged,    \* history: how much _age_out has dropped
  dzAt, pubAt,      \* history: the stamp under which each trade was added, or 0
  races             \* history: which trades were matched with which

clocks   == <<mono, step>>
feeds    == <<dzSent, pubSent>>
counters == <<dzSeen, pubSeen, matched, implausible>>
samples  == <<matched, implausible, hot, absHot, races>>
flusher  == <<win, absWin, flush, published, aged, absAged>>
vars     == <<clocks, feeds, dzHand, pubHand, axes, dz, pub, counters, hot, absHot,
              flusher, dzAt, pubAt, races>>

Sample   == [at : Nat, delta : Int]
AbsRow   == [at : Nat, dzTotal : Int, pubTotal : Int]
Asleep   == [stage |-> "sleep", now |-> 0, hot |-> <<>>, absHot |-> <<>>,
             matched |-> 0, implausible |-> 0]
NothingPublished == [asOf |-> 0, n |-> 0, absN |-> 0, matched |-> 0, implausible |-> 0]

TypeOK ==
  /\ mono \in Nat /\ step \in Int
  /\ dzSent \subseteq Trades /\ pubSent \subseteq Trades
  /\ dzHand \in MaybeHalf /\ pubHand \in MaybeHalf
  /\ axes \subseteq Markets
  /\ dz \in [Keys -> MaybeHalf] /\ pub \in [Keys -> MaybeHalf]
  /\ dzSeen \in Nat /\ pubSeen \in Nat /\ matched \in Nat /\ implausible \in Nat
  /\ hot \in Seq(Sample) /\ win \in Seq(Sample)
  /\ absHot \in Seq(AbsRow) /\ absWin \in Seq(AbsRow)
  /\ flush \in [stage : {"sleep", "started", "swapped"}, now : Nat, hot : Seq(Sample),
                absHot : Seq(AbsRow), matched : Nat, implausible : Nat]
  /\ published \in [asOf : Nat, n : Nat, absN : Nat, matched : Nat, implausible : Nat]
  /\ aged \in Nat /\ absAged \in Nat
  /\ dzAt \in [Trades -> Nat] /\ pubAt \in [Trades -> Nat]
  /\ races \in Seq([dz : Trades, pub : Trades])

Init ==
  /\ mono = 1 /\ step = 0
  /\ dzSent = {} /\ pubSent = {}
  /\ dzHand = NoHalf /\ pubHand = NoHalf
  /\ axes = {}
  /\ dz = [k \in Keys |-> NoHalf] /\ pub = [k \in Keys |-> NoHalf]
  /\ dzSeen = 0 /\ pubSeen = 0 /\ matched = 0 /\ implausible = 0
  /\ hot = <<>> /\ absHot = <<>> /\ win = <<>> /\ absWin = <<>>
  /\ flush = Asleep /\ published = NothingPublished
  /\ aged = 0 /\ absAged = 0
  /\ dzAt = [i \in Trades |-> 0] /\ pubAt = [i \in Trades |-> 0]
  /\ races = <<>>

-----------------------------------------------------------------------------
(* The clocks: time passes, and chrony or the hypervisor may set the wall. *)

Tick ==
  /\ mono < MaxTime
  /\ mono' = mono + 1
  /\ UNCHANGED <<step, feeds, dzHand, pubHand, axes, dz, pub, counters, hot, absHot,
                 flusher, dzAt, pubAt, races>>

SetWall(s) ==
  /\ s # step
  /\ step' = s
  /\ UNCHANGED <<mono, feeds, dzHand, pubHand, axes, dz, pub, counters, hot, absHot,
                 flusher, dzAt, pubAt, races>>

-----------------------------------------------------------------------------
(* _record, under the lock: x is the DoubleZero half and y the public one. *)

Stamped(x, y)   == ExchOf[x.of] # 0 /\ ExchOf[y.of] # 0
Plausible(t)    == 0 <= t /\ t <= MaxPlausible
DzTotal(x)      == x.wall - ExchOf[x.of]
PubTotal(y)     == y.wall - ExchOf[y.of]
BothPlausible(x, y) == Plausible(DzTotal(x)) /\ Plausible(PubTotal(y))

\* Mutant: the sample placed at the trade's arrival, not at the match.
SampleAtArrival(x, y) == [at |-> x.mono, delta |-> x.mono - y.mono]

SampleOf(x, y) == [at |-> mono, delta |-> x.mono - y.mono]
RowOf(x, y)    == [at |-> mono, dzTotal |-> DzTotal(x), pubTotal |-> PubTotal(y)]

Record(x, y) ==
  /\ hot' = Append(hot, SampleOf(x, y))
  /\ matched' = matched + 1
  /\ races' = Append(races, [dz |-> x.of, pub |-> y.of])
  /\ \/ ~Stamped(x, y) /\ UNCHANGED <<absHot, implausible>>
     \/ /\ Stamped(x, y) /\ ~BothPlausible(x, y)
        /\ implausible' = implausible + 1
        /\ UNCHANGED absHot
     \/ /\ Stamped(x, y) /\ BothPlausible(x, y)
        /\ absHot' = Append(absHot, RowOf(x, y))
        /\ UNCHANGED implausible

-----------------------------------------------------------------------------
(* The DoubleZero reader, past the arbiter: stamp, axis_from, add_dz. *)

\* Mutant: the wall clock where the monotonic one belongs.
StampOfWall(i) == [of |-> i, mono |-> mono + step, wall |-> mono + step]

Stamp(i) == [of |-> i, mono |-> mono, wall |-> mono + step]

DzStamp(i) ==
  /\ dzHand = NoHalf /\ i \notin dzSent
  /\ dzHand' = Stamp(i)
  /\ dzSent' = dzSent \cup {i}
  /\ UNCHANGED <<clocks, pubSent, pubHand, axes, dz, pub, counters, hot, absHot,
                 flusher, dzAt, pubAt, races>>

\* axis_from: learnt from the reference data and cached, for both feeds.
DzLearn ==
  /\ dzHand # NoHalf /\ MarketOf[dzHand.of] \in Sized \ axes
  /\ axes' = axes \cup {MarketOf[dzHand.of]}
  /\ UNCHANGED <<clocks, feeds, dzHand, pubHand, dz, pub, counters, hot, absHot,
                 flusher, dzAt, pubAt, races>>

\* The definition gives no axis: the trade is skipped.
DzSkip ==
  /\ dzHand # NoHalf /\ MarketOf[dzHand.of] \notin Sized \cup axes
  /\ dzHand' = NoHalf
  /\ UNCHANGED <<clocks, feeds, pubHand, axes, dz, pub, counters, hot, absHot,
                 flusher, dzAt, pubAt, races>>

\* Mutant: the twin is looked for in the feed's own map.
OfferDzOwnMap(k, half) ==
  /\ dz' = [dz EXCEPT ![k] = half]
  /\ UNCHANGED <<pub, samples>>

\* add_dz's choice: pop the twin and record, or wait for it.
OfferDz(k, half) ==
  \/ /\ pub[k] # NoHalf
     /\ pub' = [pub EXCEPT ![k] = NoHalf]
     /\ Record(half, pub[k])
     /\ UNCHANGED dz
  \/ /\ pub[k] = NoHalf
     /\ dz' = [dz EXCEPT ![k] = half]
     /\ UNCHANGED <<pub, samples>>

AddDz ==
  /\ dzHand # NoHalf /\ MarketOf[dzHand.of] \in axes
  /\ dzSeen' = dzSeen + 1
  /\ OfferDz(KeyOf[dzHand.of], dzHand)
  /\ dzAt' = [dzAt EXCEPT ![dzHand.of] = dzHand.mono]
  /\ dzHand' = NoHalf
  /\ UNCHANGED <<clocks, feeds, pubHand, axes, pubSeen, flusher, pubAt>>

-----------------------------------------------------------------------------
(* The public handler: stamp, axis, add_pub. *)

PubStamp(i) ==
  /\ pubHand = NoHalf /\ i \notin pubSent
  /\ pubHand' = Stamp(i)
  /\ pubSent' = pubSent \cup {i}
  /\ UNCHANGED <<clocks, dzSent, dzHand, axes, dz, pub, counters, hot, absHot,
                 flusher, dzAt, pubAt, races>>

\* Not yet on a common axis with the DoubleZero side: it could not match.
PubSkip ==
  /\ pubHand # NoHalf /\ MarketOf[pubHand.of] \notin axes
  /\ pubHand' = NoHalf
  /\ UNCHANGED <<clocks, feeds, dzHand, axes, dz, pub, counters, hot, absHot,
                 flusher, dzAt, pubAt, races>>

\* Mutant: get where pop belongs, the half stays for another twin.
OfferPubKeeps(k, half) ==
  \/ /\ dz[k] # NoHalf
     /\ Record(dz[k], half)
     /\ UNCHANGED <<dz, pub>>
  \/ /\ dz[k] = NoHalf
     /\ pub' = [pub EXCEPT ![k] = half]
     /\ UNCHANGED <<dz, samples>>

OfferPub(k, half) ==
  \/ /\ dz[k] # NoHalf
     /\ dz' = [dz EXCEPT ![k] = NoHalf]
     /\ Record(dz[k], half)
     /\ UNCHANGED pub
  \/ /\ dz[k] = NoHalf
     /\ pub' = [pub EXCEPT ![k] = half]
     /\ UNCHANGED <<dz, samples>>

AddPub ==
  /\ pubHand # NoHalf /\ MarketOf[pubHand.of] \in axes
  /\ pubSeen' = pubSeen + 1
  /\ OfferPub(KeyOf[pubHand.of], pubHand)
  /\ pubAt' = [pubAt EXCEPT ![pubHand.of] = pubHand.mono]
  /\ pubHand' = NoHalf
  /\ UNCHANGED <<clocks, feeds, dzHand, axes, dzSeen, flusher, dzAt>>

-----------------------------------------------------------------------------
(* The flush thread: snapshot() and the write of its file. *)

FlushStart ==
  /\ flush.stage = "sleep"
  /\ flush' = [flush EXCEPT !.stage = "started", !.now = mono]
  /\ UNCHANGED <<clocks, feeds, dzHand, pubHand, axes, dz, pub, counters, hot, absHot,
                 win, absWin, published, aged, absAged, dzAt, pubAt, races>>

\* Mutant: every waiting half goes, whatever its age.
ExpiredAll(waiting, now) == [k \in Keys |-> NoHalf]

\* _expire_pending, of one of the two maps.
Expired(waiting, now) ==
  [k \in Keys |-> IF waiting[k] # NoHalf /\ waiting[k].mono < now - KeyTtl
                  THEN NoHalf ELSE waiting[k]]

\* Under the lock: two pointer swaps, the bounded sweep, the counters.
FlushSwap ==
  /\ flush.stage = "started"
  /\ flush' = [flush EXCEPT !.stage = "swapped", !.hot = hot, !.absHot = absHot,
                            !.matched = matched, !.implausible = implausible]
  /\ hot' = <<>> /\ absHot' = <<>>
  /\ dz' = Expired(dz, flush.now) /\ pub' = Expired(pub, flush.now)
  /\ UNCHANGED <<clocks, feeds, dzHand, pubHand, axes, counters, win, absWin,
                 published, aged, absAged, dzAt, pubAt, races>>

\* Mutant: one that is exactly as old as the window goes too.
AgesOutAtCutoff(s, n) ==
  /\ \A i \in 1..n : s[i].at <= flush.now - Window
  /\ n < Len(s) => s[n + 1].at > flush.now - Window

\* _age_out drops from the left, while the head is older than the cutoff: n of s.
AgesOut(s, n) ==
  /\ \A i \in 1..n : s[i].at < flush.now - Window
  /\ n < Len(s) => s[n + 1].at >= flush.now - Window

Rest(s, n) == SubSeq(s, n + 1, Len(s))

\* Mutants: the window replaced by what was just drained; the counters read
\* when the file is made; a total of this flush alone.
DrainedAlone     == flush.hot
CountsReadLate   == [matched |-> matched, implausible |-> implausible]
CountsOfOneFlush == [matched |-> Len(flush.hot), implausible |-> flush.implausible]

Drained    == win \o flush.hot
AbsDrained == absWin \o flush.absHot
Counts     == [matched |-> flush.matched, implausible |-> flush.implausible]

\* Unlocked: drain the swapped deques, age out, summarise, write the file.
FlushPublish ==
  /\ flush.stage = "swapped"
  /\ \E n \in 0..Len(Drained) :
       AgesOut(Drained, n) /\ win' = Rest(Drained, n) /\ aged' = aged + n
  /\ \E n \in 0..Len(AbsDrained) :
       AgesOut(AbsDrained, n) /\ absWin' = Rest(AbsDrained, n) /\ absAged' = absAged + n
  /\ published' = [asOf |-> flush.now, n |-> Len(win'), absN |-> Len(absWin'),
                   matched |-> Counts.matched, implausible |-> Counts.implausible]
  /\ flush' = Asleep
  /\ UNCHANGED <<clocks, feeds, dzHand, pubHand, axes, dz, pub, counters, hot, absHot,
                 dzAt, pubAt, races>>

-----------------------------------------------------------------------------

Next ==
  \/ Tick
  \/ \E s \in Steps : SetWall(s)
  \/ \E i \in Trades : DzStamp(i) \/ PubStamp(i)
  \/ DzLearn \/ DzSkip \/ AddDz
  \/ PubSkip \/ AddPub
  \/ FlushStart \/ FlushSwap \/ FlushPublish

Spec == Init /\ [][Next]_vars

\* _flush_loop runs for ever: a sleep, then the next snapshot, never two at once;
\* the lock is held for a bounded time by anyone who takes it.
FlushesForever == WF_vars(FlushStart) /\ WF_vars(FlushSwap) /\ WF_vars(FlushPublish)

FairSpec == Spec /\ FlushesForever

-----------------------------------------------------------------------------
(* Properties. *)

\* The two threads never leave both halves of a key waiting: whichever comes
\* second takes the first away, in whatever order they get the lock.
NeverBothWaiting == \A k \in Keys : dz[k] = NoHalf \/ pub[k] = NoHalf

\* What has passed from the feed threads to the flush thread.
Held    == Len(flush.hot) + Len(win) + aged
AbsHeld == Len(flush.absHot) + Len(absWin) + absAged

AllStamped == \A i \in Trades : ExchOf[i] # 0

\* Every match is in exactly one place of the hand-over from the feed threads to
\* the window -- hot, swapped out, in the window, aged out -- for the deltas and,
\* but for those counted as implausible, for the absolute legs.
NoSampleIsLost ==
  /\ matched = Len(hot) + Held
  /\ AllStamped => matched = implausible + Len(absHot) + AbsHeld

\* The counts of one published file are of one moment, although the counters
\* keep moving while the file is made: n is what matched_total has not aged out.
SnapshotReconciles ==
  /\ published.matched = published.n + aged
  /\ AllStamped => published.matched = published.implausible + published.absN + absAged

\* What was handed to the window stays in the order of the stamps, which is what
\* dropping from the left relies on: after a flush nothing in it is too old, of
\* the deltas and of the absolute legs.
WindowIsFresh ==
  \A i \in DOMAIN win \cup DOMAIN absWin :
    /\ i \in DOMAIN win => win[i].at >= published.asOf - Window
    /\ i \in DOMAIN absWin => absWin[i].at >= published.asOf - Window

\* Every match gets into a published total: the hand-over never strands one.
EveryMatchIsPublished ==
  \A n \in 1..Cardinality(Trades) : matched >= n ~> published.matched >= n

\* Two trades that share no key are matched with each other's twin or not at all,
\* and a trade that both feeds offered goes unmatched only if the half that waited
\* was older than the TTL by the time its twin got the lock.
LostOnlyToTtl ==
  \A i \in Trades :
    /\ dzAt[i] # 0 /\ pubAt[i] # 0
    /\ \A j \in Trades \ {i} : KeyOf[j] # KeyOf[i]
    => \/ \E r \in DOMAIN races : races[r] = [dz |-> i, pub |-> i]
       \/ mono - dzAt[i] > KeyTtl \/ mono - pubAt[i] > KeyTtl

\* "Each trade on each side is matched at most once" (docs/methodology.md:24),
\* also when trades share a key.
MatchedAtMostOnce ==
  \A r, q \in DOMAIN races :
    r # q => races[r].dz # races[q].dz /\ races[r].pub # races[q].pub

\* The flush threads and the feed threads together implement one window that
\* forgets from its old end and shows consistent cuts, for the deltas ...
Stamps(s) == [i \in DOMAIN s |-> s[i].at]

Deltas == INSTANCE SampleWindow WITH
  samples <- Stamps(win \o flush.hot \o hot), taken <- matched, forgotten <- aged,
  shown <- [asOf |-> published.asOf, total |-> published.matched, n |-> published.n]

\* ... and for the absolute legs.
Absolutes == INSTANCE SampleWindow WITH
  samples <- Stamps(absWin \o flush.absHot \o absHot),
  taken <- matched - implausible, forgotten <- absAged,
  shown <- [asOf |-> published.asOf, total |-> published.matched - published.implausible,
            n |-> published.absN]

DeltaWindow    == Deltas!WindowSpec
AbsoluteWindow == Absolutes!WindowSpec
=============================================================================
