----------------------------- MODULE ArmArbiter -----------------------------
(***************************************************************************)
(* The arbiter of a feed that is published twice (sources/dz_feed/arms.py):*)
(* two hosts carry the same trades under different Channel IDs, and one    *)
(* reader thread offers every frame of both to one ArmArbiter.  A frame is *)
(* handled in three kinds of call, each a critical section of the          *)
(* arbiter's lock:                                                         *)
(*                                                                         *)
(*     note_frame(channel, t)                       NoteFrame              *)
(*     observe_trade(channel, key, t)  per trade    ObserveTrade           *)
(*     accepts(channel, t)                          Accepts                *)
(*                                                                         *)
(* All calls of one frame carry the same stamp t, read from a monotonic    *)
(* clock before the first.  A key (market, price, size) is an element of   *)
(* Keys; a stamp is a natural number, 0 being "never" as in the code's     *)
(* last_seen.get(selected, 0).                                             *)
(***************************************************************************)
EXTENDS Integers, Sequences, FiniteSets, FiniteSetsExt

CONSTANTS
  Channels,   \* the frame Channel IDs
  Keys,       \* (market, price, size) of a trade
  NoArm,      \* None
  Forced,     \* --dz-channel: an arm, or NoArm for automatic arbitration
  MinPairs,   \* _MIN_PAIRS
  PairTtl,    \* _PAIR_TTL_NS
  Silence,    \* _SILENCE_NS
  Keep,       \* _KEEP_PAIRS
  SweepAt,    \* 256 in _sweep
  MaxBatch,   \* bound: trades in one frame
  MaxGap,     \* bound: time between two frames
  MaxTime,    \* bound: the last stamp
  MaxFrames   \* bound: frames per arm

\* The Channel ID of a frame is one byte: there are finitely many arms.
ASSUME ArmAssumption ==
  IsFiniteSet(Channels) /\ NoArm \notin Channels /\ Forced \in Channels \cup {NoArm}
ASSUME TuningAssumption ==
  /\ MinPairs \in Nat \ {0} /\ Keep \in Nat \ {0}
  /\ PairTtl \in Nat /\ Silence \in Nat /\ SweepAt \in Nat
ASSUME BoundAssumption ==
  MaxBatch \in Nat /\ MaxGap \in Nat /\ MaxTime \in Nat /\ MaxFrames \in Nat

VARIABLES
  now,           \* the stamp of the latest frame
  hand,          \* the frame the reader is handling: its arm, the trades not yet offered
  selected,      \* _selected
  pending,       \* _pending: the first sighting of each key still waiting for its twin
  outcomes,      \* _outcomes: the last Keep races
  lastSeen,      \* _last_seen
  frames,        \* _frames
  trades,        \* _trades
  dropped,       \* _dropped
  winsTotal,     \* _wins_total
  pairs,         \* _pairs
  stalePairs,    \* _stale_pairs
  reselections   \* _reselections

tallies == <<trades, winsTotal, pairs, stalePairs>>
armVars == <<now, hand, selected, pending, outcomes, lastSeen, frames, trades,
             dropped, winsTotal, pairs, stalePairs, reselections>>

Arms       == Channels \cup {NoArm}
Idle       == [ch |-> NoArm, todo |-> <<>>]   \* the reader is waiting for a packet
NoSighting == [ch |-> NoArm, at |-> 0]
Unforced       == Forced = NoArm
Batches    == UNION {[1..n -> Keys] : n \in 0..MaxBatch}

ArmTypeOK ==
  /\ now \in Nat
  /\ hand \in [ch : Arms, todo : Seq(Keys)]
  /\ selected \in Arms
  /\ pending \in [Keys -> [ch : Arms, at : Nat]]
  /\ outcomes \in Seq([win : Channels, lose : Channels, lag : Nat])
  /\ lastSeen \in [Channels -> Nat]
  /\ frames \in [Channels -> Nat] /\ trades \in [Channels -> Nat]
  /\ dropped \in [Channels -> Nat] /\ winsTotal \in [Channels -> Nat]
  /\ pairs \in Nat /\ stalePairs \in Nat /\ reselections \in Nat

ArmInit ==
  /\ now = 1
  /\ hand = Idle
  /\ selected = Forced
  /\ pending = [k \in Keys |-> NoSighting]
  /\ outcomes = <<>>
  /\ lastSeen = [c \in Channels |-> 0]
  /\ frames = [c \in Channels |-> 0] /\ trades = [c \in Channels |-> 0]
  /\ dropped = [c \in Channels |-> 0] /\ winsTotal = [c \in Channels |-> 0]
  /\ pairs = 0 /\ stalePairs = 0 /\ reselections = 0

-----------------------------------------------------------------------------
(* Helpers: the deque of bounded length, the tally of wins, the sweep. *)

\* deque(maxlen=keep).append
Push(s, e) == IF Len(s) < Keep THEN Append(s, e) ELSE Append(Tail(s), e)

Wins(c, s) == Cardinality({i \in DOMAIN s : s[i].win = c})
Leads(c, s) == \A d \in Channels : Wins(d, s) <= Wins(c, s)

\* Counter(...).most_common(1): of the arms that lead, the one whose first win
\* in the window is the oldest (a Counter keeps the order of insertion).
MostCommon(c, s) ==
  \E i \in DOMAIN s :
    /\ s[i].win = c
    /\ Leads(c, s)
    /\ \A j \in 1..(i - 1) : ~Leads(s[j].win, s)

Waiting == {k \in Keys : pending[k] # NoSighting}

\* Mutant: sightings that could still pair are swept with those that cannot.
SweptAtTtl ==
  IF Cardinality(Waiting) < SweepAt
  THEN pending
  ELSE [k \in Keys |-> IF pending[k].at <= now - PairTtl THEN NoSighting ELSE pending[k]]

\* _sweep: only a map that has grown to SweepAt entries is swept.
Swept ==
  IF Cardinality(Waiting) < SweepAt
  THEN pending
  ELSE [k \in Keys |-> IF pending[k].at < now - PairTtl THEN NoSighting ELSE pending[k]]

-----------------------------------------------------------------------------
(* note_frame, with the arrival of the frame (its arm, its trades, its     *)
(* stamp) as the environment's choice.                                     *)

NoteFrame(c, batch, t) ==
  /\ hand = Idle
  /\ frames[c] < MaxFrames
  /\ t <= MaxTime
  /\ now' = t
  /\ hand' = [ch |-> c, todo |-> batch]
  /\ frames' = [frames EXCEPT ![c] = @ + 1]
  /\ lastSeen' = [lastSeen EXCEPT ![c] = t]
  /\ UNCHANGED <<selected, pending, outcomes, dropped, reselections, tallies>>

-----------------------------------------------------------------------------
(* observe_trade, one call per trade of the frame in hand. *)

Key  == Head(hand.todo)
Prev == Swept[Key]
Mine == [ch |-> hand.ch, at |-> now]

\* Mutant: no age check, as before the 40 s "lag" was seen live.
TooOldUnchecked == FALSE

TooOld == now - Prev.at > PairTtl

\* Mutants: the difference the wrong way round; the latecomer as the winner.
RaceLagReversed == [win |-> Prev.ch, lose |-> hand.ch, lag |-> Prev.at - now]
RaceLateWins    == [win |-> hand.ch, lose |-> Prev.ch, lag |-> now - Prev.at]

Race == [win |-> Prev.ch, lose |-> hand.ch, lag |-> now - Prev.at]

\* Mutant: the total credited to the arm whose frame completed the pair.
CreditLoser == [winsTotal EXCEPT ![hand.ch] = @ + 1]

Credit == [winsTotal EXCEPT ![Prev.ch] = @ + 1]

\* _resolve, once outcomes' is known.
Resolve ==
  \/ /\ ~Unforced \/ Len(outcomes') < MinPairs
     /\ UNCHANGED <<selected, reselections>>
  \/ /\ Unforced /\ Len(outcomes') >= MinPairs
     /\ selected' \in Channels
     /\ MostCommon(selected', outcomes')
     /\ reselections' = IF selected \in {NoArm, selected'} THEN reselections ELSE reselections + 1

FirstSighting ==
  /\ Prev = NoSighting
  /\ pending' = [Swept EXCEPT ![Key] = Mine]
  /\ UNCHANGED <<selected, reselections, outcomes, winsTotal, pairs, stalePairs>>

SameArmAgain ==
  /\ Prev # NoSighting /\ Prev.ch = hand.ch
  /\ pending' = Swept
  /\ UNCHANGED <<selected, reselections, outcomes, winsTotal, pairs, stalePairs>>

StaleSighting ==
  /\ Prev # NoSighting /\ Prev.ch # hand.ch /\ TooOld
  /\ pending' = [Swept EXCEPT ![Key] = Mine]
  /\ stalePairs' = stalePairs + 1
  /\ UNCHANGED <<selected, reselections, outcomes, winsTotal, pairs>>

PairUp ==
  /\ Prev # NoSighting /\ Prev.ch # hand.ch /\ ~TooOld
  /\ pending' = [Swept EXCEPT ![Key] = NoSighting]
  /\ pairs' = pairs + 1
  /\ winsTotal' = Credit
  /\ outcomes' = Push(outcomes, Race)
  /\ Resolve
  /\ UNCHANGED stalePairs

ObserveTrade ==
  /\ hand.todo # <<>>
  /\ hand' = [hand EXCEPT !.todo = Tail(@)]
  /\ trades' = [trades EXCEPT ![hand.ch] = @ + 1]
  /\ FirstSighting \/ SameArmAgain \/ StaleSighting \/ PairUp
  /\ UNCHANGED <<now, lastSeen, frames, dropped>>

-----------------------------------------------------------------------------
(* accepts, and the end of the frame: its events are delivered or not. *)

\* Mutant: a silent arm is never let go.
QuietNever == FALSE

\* The arm we picked has gone quiet.
Quiet == Unforced /\ selected # NoArm /\ now - lastSeen[selected] > Silence

\* Mutants: nothing passes before an arm is selected; everything always does.
AcceptedOnlySelected ==
  IF Unforced THEN Quiet \/ hand.ch = selected ELSE hand.ch = Forced
AcceptedUnfiltered == TRUE

Accepted ==
  IF Unforced THEN selected = NoArm \/ Quiet \/ hand.ch = selected ELSE hand.ch = Forced

\* Mutant: the selection goes, the races it rested on stay.
ReleaseKeepsRaces ==
  /\ selected' = NoArm
  /\ reselections' = reselections + 1
  /\ UNCHANGED outcomes

\* Re-open the choice.
Release ==
  /\ selected' = NoArm
  /\ outcomes' = <<>>
  /\ reselections' = reselections + 1

Accepts ==
  /\ hand.ch # NoArm /\ hand.todo = <<>>
  /\ hand' = Idle
  /\ \/ Quiet /\ Release
     \/ ~Quiet /\ UNCHANGED <<selected, outcomes, reselections>>
  /\ dropped' = IF Accepted THEN dropped ELSE [dropped EXCEPT ![hand.ch] = @ + 1]
  /\ UNCHANGED <<now, pending, lastSeen, frames, tallies>>

ArmNext ==
  \/ \E c \in Channels, batch \in Batches, t \in now..(now + MaxGap) : NoteFrame(c, batch, t)
  \/ ObserveTrade
  \/ Accepts

ArmSpec == ArmInit /\ [][ArmNext]_armVars

-----------------------------------------------------------------------------
(* Properties. *)

\* Every outcome the choice rests on is a race: two different arms, the winner
\* no later than the loser, and by no more than the age at which two sightings
\* stop being one trade, however long ago the first was left pending and
\* whether or not a sweep came in between (observe_trade's age check).
OutcomesAreRaces ==
  \A i \in DOMAIN outcomes :
    /\ outcomes[i].win # outcomes[i].lose
    /\ outcomes[i].lag <= PairTtl

\* Between calls, an automatic selection is always justified by the window that
\* is published next to it: there is one exactly when the window holds at least
\* MinPairs races, and no other arm has won more of them (_resolve, and the
\* reset in accepts that must forget the races of the arm it lets go).
SelectionIsEarned ==
  Unforced => IF Len(outcomes) < MinPairs THEN selected = NoArm
          ELSE selected \in Channels /\ Leads(selected, outcomes)

\* A sighting waits for its twin: until it is too old to pair, nothing takes it from
\* the map or replaces it (not the sweep, not a repeat of its own arm, not another key's
\* trade), except the trade that pairs with it, which credits the arm that made it.
SightingWaitsForItsTwin ==
  [][\A k \in Waiting :
       pending'[k] # pending[k] =>
         \/ now - pending[k].at > PairTtl
         \/ /\ k = Key /\ pairs' = pairs + 1
            /\ winsTotal'[pending[k].ch] = winsTotal[pending[k].ch] + 1]_armVars

\* The published counters agree with one another: no trade is counted as more than
\* one of a sighting that waits, a half of a pair and a stale replacement (the rest
\* are repeats and swept sightings), and the wins, per arm and in total, account for
\* the pairs.
CountersAddUp ==
  /\ 2 * pairs + stalePairs + Cardinality(Waiting)
       <= MapThenSumSet(LAMBDA c : trades[c], Channels)
  /\ MapThenSumSet(LAMBDA c : winsTotal[c], Channels) = pairs
  /\ Len(outcomes) <= pairs
  /\ \A c \in Channels : Wins(c, outcomes) <= winsTotal[c]

\* While the window is too short to choose from, nothing is dropped ("warm-up:
\* no worse than taking everything"), also after a release put it back there.
WarmUpDropsNothing ==
  [][Unforced /\ Len(outcomes) < MinPairs => dropped' = dropped]_armVars

\* A frame is dropped only while another arm, one that has won a race of the
\* window, has been heard within Silence: a retired arm cannot keep the feed dark.
DropNeedsLiveRival ==
  [][Unforced /\ dropped' # dropped =>
       \E c \in Channels \ {hand.ch} :
         now - lastSeen[c] <= Silence /\ Wins(c, outcomes) > 0]_armVars

\* With --dz-channel the arm is pinned whatever the races say: its frames are
\* never dropped, every other arm's are, and nothing is ever reselected.
ForcedArmIsPinned ==
  ~Unforced =>
    /\ selected = Forced /\ reselections = 0
    /\ \A c \in Channels :
         dropped[c] = IF c = Forced THEN 0 ELSE frames[c] - (IF hand.ch = c THEN 1 ELSE 0)
=============================================================================
