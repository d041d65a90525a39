-------------------------- MODULE ArmArbiterProofs --------------------------
(***************************************************************************)
(* What holds of the arbiter for any number of arms and keys, any tuning   *)
(* and any bounds.  ArmInv is the inductive invariant: besides the types   *)
(* and the two properties it needs that a sighting that waits was made by  *)
(* an arm, no later than now, and that only a frame has trades to offer.   *)
(***************************************************************************)
EXTENDS ArmArbiter, DataInduction

Outcome == [win : Channels, lose : Channels, lag : Nat]

SightingsArePast ==
  \A k \in Keys : pending[k] # NoSighting => pending[k].ch \in Channels /\ pending[k].at <= now

FrameHasAnArm == hand.todo # <<>> => hand.ch \in Channels

ArmInv ==
  /\ ArmTypeOK
  /\ SightingsArePast
  /\ FrameHasAnArm
  /\ OutcomesAreRaces
  /\ SelectionIsEarned

\* What the bounded deque does: it never shrinks, and what it holds after an
\* append is the new element and some of the old ones (_outcomes.append).
LEMMA PushFacts ==
  ASSUME NEW S, NEW s \in Seq(S), NEW e \in S
  PROVE  /\ Push(s, e) \in Seq(S)
         /\ Len(Push(s, e)) >= Len(s)
         /\ \A i \in DOMAIN Push(s, e) :
              Push(s, e)[i] = e \/ \E j \in DOMAIN s : Push(s, e)[i] = s[j]
<1>1. CASE Len(s) < Keep
  BY <1>1 DEF Push
<1>2. CASE ~(Len(s) < Keep)
  <2>1. Len(s) > 0 /\ s # <<>>
    BY <1>2, TuningAssumption
  <2>2. /\ Tail(s) \in Seq(S) /\ Len(Tail(s)) = Len(s) - 1
        /\ \A i \in 1..(Len(s) - 1) : Tail(s)[i] = s[i + 1]
    BY <2>1
  <2>3. Push(s, e) = Append(Tail(s), e)
    BY <1>2 DEF Push
  <2> QED BY <2>1, <2>2, <2>3
<1> QED BY <1>1, <1>2

\* The sweep only forgets (_sweep).
LEMMA SweptFacts ==
  ASSUME ArmTypeOK, SightingsArePast
  PROVE  /\ Swept \in [Keys -> [ch : Arms, at : Nat]]
         /\ \A k \in Keys : Swept[k] # NoSighting => Swept[k].ch \in Channels /\ Swept[k].at <= now
<1>1. NoSighting \in [ch : Arms, at : Nat]
  BY DEF NoSighting, Arms
<1> QED BY <1>1 DEF Swept, ArmTypeOK, SightingsArePast

\* An outcome of two arms within the age limit keeps the window a set of races.
LEMMA RacePushed ==
  ASSUME ArmTypeOK, OutcomesAreRaces, NEW e \in Outcome, e.win # e.lose, e.lag <= PairTtl
  PROVE  /\ Push(outcomes, e) \in Seq(Outcome)
         /\ Len(Push(outcomes, e)) >= Len(outcomes)
         /\ \A i \in DOMAIN Push(outcomes, e) :
              /\ Push(outcomes, e)[i].win # Push(outcomes, e)[i].lose
              /\ Push(outcomes, e)[i].lag <= PairTtl
<1>1. outcomes \in Seq(Outcome)
  BY DEF ArmTypeOK, Outcome
<1>2. /\ Push(outcomes, e) \in Seq(Outcome)
      /\ Len(Push(outcomes, e)) >= Len(outcomes)
      /\ \A i \in DOMAIN Push(outcomes, e) :
           Push(outcomes, e)[i] = e \/ \E j \in DOMAIN outcomes : Push(outcomes, e)[i] = outcomes[j]
  BY <1>1, PushFacts
<1> QED BY <1>2 DEF OutcomesAreRaces

LEMMA InvInit == ArmInit => ArmInv
<1> SUFFICES ASSUME ArmInit PROVE ArmInv
  OBVIOUS
<1> USE ArmAssumption, TuningAssumption
<1>1. ArmTypeOK
  BY DEF ArmInit, ArmTypeOK, Idle, NoSighting, Arms
<1>2. SightingsArePast /\ FrameHasAnArm /\ OutcomesAreRaces
  BY DEF ArmInit, SightingsArePast, FrameHasAnArm, OutcomesAreRaces, Idle
<1>3. SelectionIsEarned
  BY DEF ArmInit, SelectionIsEarned, Unforced
<1> QED BY <1>1, <1>2, <1>3 DEF ArmInv

LEMMA NoteFrameKeepsInv ==
  ASSUME ArmInv, NEW c \in Channels, NEW batch \in Seq(Keys), NEW t \in Nat, now <= t,
         NoteFrame(c, batch, t)
  PROVE  ArmInv'
<1> USE DEF ArmInv, NoteFrame, tallies
<1>1. now \in Nat
  BY DEF ArmTypeOK
<1>2. ArmTypeOK'
  <2>1. now' \in Nat /\ hand' \in [ch : Arms, todo : Seq(Keys)]
    BY <1>1 DEF Arms
  <2>2. frames' \in [Channels -> Nat] /\ lastSeen' \in [Channels -> Nat]
    <3>1. frames \in [Channels -> Nat] /\ lastSeen \in [Channels -> Nat]
      BY DEF ArmTypeOK
    <3>2. frames[c] + 1 \in Nat
      BY <3>1
    <3> QED BY <1>1, <3>1, <3>2
  <2> QED BY <2>1, <2>2 DEF ArmTypeOK
<1>3. SightingsArePast'
  BY <1>1 DEF SightingsArePast, ArmTypeOK
<1>4. FrameHasAnArm'
  BY DEF FrameHasAnArm
<1>5. OutcomesAreRaces' /\ SelectionIsEarned'
  BY DEF OutcomesAreRaces, SelectionIsEarned, Leads, Wins
<1> QED BY <1>2, <1>3, <1>4, <1>5

LEMMA ObserveKeepsInv ==
  ASSUME ArmInv, ObserveTrade
  PROVE  ArmInv'
<1> USE ArmAssumption, TuningAssumption
<1>1. /\ hand.ch \in Channels /\ hand \in [ch : Arms, todo : Seq(Keys)]
      /\ Key \in Keys /\ hand' \in [ch : Arms, todo : Seq(Keys)] /\ hand'.ch = hand.ch
  <2>1. hand \in [ch : Arms, todo : Seq(Keys)] /\ hand.todo \in Seq(Keys) /\ hand.todo # <<>>
    BY DEF ArmInv, ArmTypeOK, ObserveTrade
  <2>2. Head(hand.todo) \in Keys /\ Tail(hand.todo) \in Seq(Keys)
    BY <2>1
  <2>3. hand' = [hand EXCEPT !.todo = Tail(hand.todo)]
    BY DEF ObserveTrade
  <2> QED BY <2>1, <2>2, <2>3 DEF ArmInv, FrameHasAnArm, Key
<1>2. /\ Swept \in [Keys -> [ch : Arms, at : Nat]]
      /\ \A k \in Keys : Swept[k] # NoSighting => Swept[k].ch \in Channels /\ Swept[k].at <= now
  BY SweptFacts DEF ArmInv
<1>3. /\ now \in Nat /\ Mine \in [ch : Arms, at : Nat]
      /\ Mine.ch \in Channels /\ Mine.at <= now
      /\ NoSighting \in [ch : Arms, at : Nat]
  <2>1. now \in Nat /\ now <= now
    BY DEF ArmInv, ArmTypeOK
  <2>2. hand.ch \in Arms /\ NoArm \in Arms
    BY <1>1 DEF Arms
  <2> QED BY <1>1, <2>1, <2>2 DEF Mine, NoSighting
<1>4. trades' \in [Channels -> Nat]
  <2>1. trades \in [Channels -> Nat]
    BY DEF ArmInv, ArmTypeOK
  <2>2. trades' = [trades EXCEPT ![hand.ch] = trades[hand.ch] + 1]
    BY DEF ObserveTrade
  <2> QED BY <1>1, <2>1, <2>2
<1>5. FrameHasAnArm'
  BY <1>1 DEF FrameHasAnArm
<1>6. CASE FirstSighting \/ SameArmAgain \/ StaleSighting
  <2>1. \/ pending' = Swept
        \/ pending' = [Swept EXCEPT ![Key] = Mine]
    BY <1>6 DEF FirstSighting, SameArmAgain, StaleSighting
  <2>2. pending' \in [Keys -> [ch : Arms, at : Nat]] /\ SightingsArePast'
    <3>1. now' = now
      BY DEF ObserveTrade
    <3>2. CASE pending' = Swept
      BY <3>1, <3>2, <1>2 DEF SightingsArePast
    <3>3. CASE pending' = [Swept EXCEPT ![Key] = Mine]
      BY <3>1, <3>3, <1>1, <1>2, <1>3 DEF SightingsArePast
    <3> QED BY <2>1, <3>2, <3>3
  <2>3. /\ UNCHANGED <<selected, reselections, outcomes, winsTotal, pairs>>
        /\ stalePairs' \in {stalePairs, stalePairs + 1}
    BY <1>6 DEF FirstSighting, SameArmAgain, StaleSighting
  <2>4. ArmTypeOK'
    <3>1. UNCHANGED <<now, lastSeen, frames, dropped>>
      BY DEF ObserveTrade
    <3>2. ArmTypeOK
      BY DEF ArmInv
    <3>3. now' \in Nat /\ lastSeen' \in [Channels -> Nat] /\ frames' \in [Channels -> Nat]
          /\ dropped' \in [Channels -> Nat]
      BY <3>1, <3>2 DEF ArmTypeOK
    <3>4. /\ selected' \in Arms /\ outcomes' \in Seq([win : Channels, lose : Channels, lag : Nat])
          /\ winsTotal' \in [Channels -> Nat] /\ pairs' \in Nat /\ stalePairs' \in Nat
          /\ reselections' \in Nat
      BY <2>3, <3>2 DEF ArmTypeOK
    <3> QED BY <1>1, <1>4, <2>2, <3>3, <3>4 DEF ArmTypeOK
  <2>5. OutcomesAreRaces' /\ SelectionIsEarned'
    BY <2>3 DEF ArmInv, OutcomesAreRaces, SelectionIsEarned, Leads, Wins
  <2> QED BY <1>5, <2>2, <2>4, <2>5 DEF ArmInv
<1>7. CASE PairUp
  <2>1. /\ Prev \in [ch : Arms, at : Nat] /\ Prev.ch \in Channels
        /\ Prev.ch # hand.ch /\ Prev.at <= now /\ now - Prev.at <= PairTtl
    BY <1>1, <1>2, <1>3, <1>7 DEF PairUp, Prev, TooOld
  <2>2. Race \in Outcome /\ Race.win # Race.lose /\ Race.lag <= PairTtl
    BY <1>1, <1>3, <2>1 DEF Race, Outcome
  <2>3. outcomes' = Push(outcomes, Race)
    BY <1>7 DEF PairUp
  <2>4. outcomes' \in Seq(Outcome) /\ Len(outcomes') >= Len(outcomes) /\ OutcomesAreRaces'
    BY <2>2, <2>3, RacePushed DEF ArmInv, OutcomesAreRaces
  <2>5. pending' \in [Keys -> [ch : Arms, at : Nat]] /\ SightingsArePast'
    BY <1>1, <1>2, <1>3, <1>7 DEF PairUp, SightingsArePast, ObserveTrade
  <2>6. selected' \in Arms /\ reselections' \in Nat /\ SelectionIsEarned'
    <3>1. Len(outcomes) \in Nat /\ Len(outcomes') \in Nat
      BY <2>4 DEF ArmInv, ArmTypeOK
    <3>2. CASE ~Unforced \/ Len(outcomes') < MinPairs
      <4>1. UNCHANGED <<selected, reselections>>
        BY <1>7, <3>2 DEF PairUp, Resolve
      <4>2. Unforced => selected = NoArm
        BY <2>4, <3>1, <3>2 DEF ArmInv, SelectionIsEarned
      <4> QED BY <3>2, <4>1, <4>2 DEF ArmInv, ArmTypeOK, SelectionIsEarned, Unforced
    <3>3. CASE Unforced /\ Len(outcomes') >= MinPairs
      <4>1. /\ selected' \in Channels /\ MostCommon(selected', outcomes')
            /\ reselections' \in {reselections, reselections + 1}
        BY <1>7, <3>1, <3>3 DEF PairUp, Resolve
      <4>2. Leads(selected', outcomes')
        BY <4>1 DEF MostCommon
      <4>3. Leads(selected, outcomes)'
        BY <4>2 DEF Leads, Wins
      <4>4. SelectionIsEarned'
        BY <3>1, <3>3, <4>1, <4>3 DEF SelectionIsEarned
      <4> QED BY <4>1, <4>4 DEF ArmInv, ArmTypeOK, Arms
    <3> QED BY <3>1, <3>2, <3>3
  <2>7. pairs' \in Nat /\ winsTotal' \in [Channels -> Nat] /\ stalePairs' \in Nat
    <3>1. winsTotal \in [Channels -> Nat] /\ pairs \in Nat /\ stalePairs \in Nat
      BY DEF ArmInv, ArmTypeOK
    <3>2. pairs' = pairs + 1 /\ winsTotal' = Credit /\ stalePairs' = stalePairs
      BY <1>7 DEF PairUp
    <3>3. Credit \in [Channels -> Nat]
      BY <2>1, <3>1 DEF Credit
    <3> QED BY <3>1, <3>2, <3>3
  <2>8. ArmTypeOK'
    <3>1. now' \in Nat /\ lastSeen' \in [Channels -> Nat] /\ frames' \in [Channels -> Nat]
          /\ dropped' \in [Channels -> Nat]
      BY DEF ObserveTrade, ArmInv, ArmTypeOK
    <3> QED BY <1>1, <1>4, <2>4, <2>5, <2>6, <2>7, <3>1 DEF ArmTypeOK, Outcome
  <2> QED BY <1>5, <2>4, <2>5, <2>6, <2>8 DEF ArmInv
<1> QED BY <1>6, <1>7 DEF ObserveTrade

LEMMA AcceptsKeepsInv ==
  ASSUME ArmInv, Accepts
  PROVE  ArmInv'
<1> USE ArmAssumption, TuningAssumption DEF Accepts, tallies
<1>1. hand' \in [ch : Arms, todo : Seq(Keys)] /\ FrameHasAnArm'
  BY DEF Idle, Arms, FrameHasAnArm
<1>2. hand.ch \in Channels
  BY DEF ArmInv, ArmTypeOK, Arms
<1>3. dropped' \in [Channels -> Nat]
  BY <1>2 DEF ArmInv, ArmTypeOK
<1>4. SightingsArePast'
  BY DEF ArmInv, SightingsArePast
<1>5. /\ selected' \in Arms /\ outcomes' \in Seq(Outcome) /\ reselections' \in Nat
      /\ OutcomesAreRaces' /\ SelectionIsEarned'
  <2>1. CASE Quiet /\ Release
    BY <2>1 DEF Release, ArmInv, ArmTypeOK, Arms, Outcome, OutcomesAreRaces, SelectionIsEarned
  <2>2. CASE UNCHANGED <<selected, outcomes, reselections>>
    <3>1. OutcomesAreRaces' /\ SelectionIsEarned'
      BY <2>2 DEF ArmInv, OutcomesAreRaces, SelectionIsEarned, Leads, Wins
    <3> QED BY <2>2, <3>1 DEF ArmInv, ArmTypeOK, Outcome
  <2> QED BY <2>1, <2>2
<1>6. ArmTypeOK'
  BY <1>1, <1>3, <1>5 DEF ArmInv, ArmTypeOK, Outcome
<1> QED BY <1>1, <1>4, <1>5, <1>6 DEF ArmInv

LEMMA StepKeepsInv == ArmInv /\ [ArmNext]_armVars => ArmInv'
<1> SUFFICES ASSUME ArmInv, [ArmNext]_armVars PROVE ArmInv'
  OBVIOUS
<1>1. CASE \E c \in Channels, batch \in Batches, t \in now..(now + MaxGap) : NoteFrame(c, batch, t)
  <2>1. Batches \subseteq Seq(Keys)
    BY BoundAssumption DEF Batches
  <2>2. \A t \in now..(now + MaxGap) : t \in Nat /\ now <= t
    BY BoundAssumption DEF ArmInv, ArmTypeOK
  <2> QED BY <1>1, <2>1, <2>2, NoteFrameKeepsInv
<1>2. CASE ObserveTrade
  BY <1>2, ObserveKeepsInv
<1>3. CASE Accepts
  BY <1>3, AcceptsKeepsInv
<1>4. CASE UNCHANGED armVars
  BY <1>4 DEF armVars, ArmInv, ArmTypeOK, SightingsArePast, FrameHasAnArm,
              OutcomesAreRaces, SelectionIsEarned, Leads, Wins
<1> QED BY <1>1, <1>2, <1>3, <1>4 DEF ArmNext

\* The inductive invariant holds in every state of every behaviour.
THEOREM ArmInvariant == ArmSpec => []ArmInv
<1>1. ArmInit => ArmInv
  BY InvInit
<1>2. ArmInv /\ [ArmNext]_armVars => ArmInv'
  BY StepKeepsInv
<1> QED BY <1>1, <1>2, PTL DEF ArmSpec

\* The arbiter's state has the types its declarations give it: in particular a
\* published lag is never negative.
THEOREM ArmTypesHold == ArmSpec => []ArmTypeOK
<1>1. ArmInv => ArmTypeOK
  BY DEF ArmInv
<1> QED BY <1>1, ArmInvariant, PTL

\* No race of the published window is invented: two arms, a lag within the limit.
THEOREM RacesAreReal == ArmSpec => []OutcomesAreRaces
<1>1. ArmInv => OutcomesAreRaces
  BY DEF ArmInv
<1> QED BY <1>1, ArmInvariant, PTL

\* An automatic selection always follows from the published window.
THEOREM SelectionFollowsTheWindow == ArmSpec => []SelectionIsEarned
<1>1. ArmInv => SelectionIsEarned
  BY DEF ArmInv
<1> QED BY <1>1, ArmInvariant, PTL

-----------------------------------------------------------------------------
(* Action properties, each from ArmInv by one step of the arbiter. *)

\* The tally of an arm is a number, and not 0 if the arm won a race.
LEMMA WinsCount ==
  ASSUME NEW s \in Seq(Outcome), NEW c \in Channels
  PROVE  /\ Wins(c, s) \in Nat
         /\ (\E i \in DOMAIN s : s[i].win = c) => Wins(c, s) > 0
<1> DEFINE Won == {i \in DOMAIN s : s[i].win = c}
<1>1. IsFiniteSet(1..Len(s)) /\ Won \subseteq 1..Len(s)
  BY FS_Interval
<1>2. IsFiniteSet(Won)
  BY <1>1, FS_Subset
<1>3. Cardinality(Won) \in Nat /\ (Cardinality(Won) = 0 <=> Won = {})
  BY <1>2, FS_CardinalityType, FS_EmptySet
<1> QED BY <1>3 DEF Wins

\* Nothing but accepts() drops, and only a frame it does not accept.
LEMMA DropIsRefusal ==
  ASSUME ArmInv, [ArmNext]_armVars, dropped' # dropped
  PROVE  hand.ch \in Channels /\ ~Accepted
<1>1. Accepts
  BY DEF ArmNext, armVars, NoteFrame, ObserveTrade
<1> QED BY <1>1 DEF Accepts, ArmInv, ArmTypeOK, Arms

\* While the window is too short to choose from, no frame is dropped.
THEOREM WarmUpIsOpen == ArmSpec => WarmUpDropsNothing
<1>1. ASSUME ArmInv, [ArmNext]_armVars, Unforced, Len(outcomes) < MinPairs
      PROVE  dropped' = dropped
  <2> SUFFICES ASSUME dropped' # dropped PROVE FALSE
    OBVIOUS
  <2>1. selected = NoArm
    BY <1>1 DEF ArmInv, SelectionIsEarned
  <2>2. ~Accepted
    BY <1>1, DropIsRefusal
  <2> QED BY <1>1, <2>1, <2>2 DEF Accepted
<1>2. ArmInv /\ [ArmNext]_armVars =>
        [Unforced /\ Len(outcomes) < MinPairs => dropped' = dropped]_armVars
  BY <1>1
<1> QED BY <1>2, ArmInvariant, PTL DEF ArmSpec, WarmUpDropsNothing

\* A sighting is let go only by the trade that pairs with it or when it is too old to pair.
THEOREM SightingsWait == ArmSpec => SightingWaitsForItsTwin
<1>1. ASSUME ArmInv, [ArmNext]_armVars, NEW k \in Waiting, pending'[k] # pending[k]
      PROVE  \/ now - pending[k].at > PairTtl
             \/ /\ k = Key /\ pairs' = pairs + 1
                /\ winsTotal'[pending[k].ch] = winsTotal[pending[k].ch] + 1
  <2> SUFFICES ASSUME ~(now - pending[k].at > PairTtl)
               PROVE  /\ k = Key /\ pairs' = pairs + 1
                      /\ winsTotal'[pending[k].ch] = winsTotal[pending[k].ch] + 1
    OBVIOUS
  <2>1. ObserveTrade
    BY <1>1 DEF ArmNext, armVars, NoteFrame, Accepts
  <2>2. /\ k \in Keys /\ pending[k] # NoSighting
        /\ now \in Nat /\ pending \in [Keys -> [ch : Arms, at : Nat]]
        /\ winsTotal \in [Channels -> Nat] /\ pending[k].ch \in Channels
    BY <1>1 DEF Waiting, ArmInv, ArmTypeOK, SightingsArePast
  <2>3. Swept \in [Keys -> [ch : Arms, at : Nat]] /\ Swept[k] = pending[k]
    <3>1. ~(pending[k].at < now - PairTtl)
      BY <2>2, TuningAssumption
    <3> QED BY <1>1, <2>2, <3>1, SweptFacts DEF Swept, ArmInv
  <2>4. k = Key
    BY <1>1, <2>1, <2>2, <2>3 DEF ObserveTrade, FirstSighting, SameArmAgain, StaleSighting, PairUp
  <2>5. Prev = pending[k] /\ ~TooOld
    BY <2>3, <2>4 DEF Prev, TooOld
  <2>6. PairUp
    BY <1>1, <2>1, <2>2, <2>3, <2>5 DEF ObserveTrade, FirstSighting, SameArmAgain, StaleSighting
  <2> QED BY <2>2, <2>4, <2>5, <2>6 DEF PairUp, Credit
<1>2. ArmInv /\ [ArmNext]_armVars =>
        [\A k \in Waiting :
           pending'[k] # pending[k] =>
             \/ now - pending[k].at > PairTtl
             \/ /\ k = Key /\ pairs' = pairs + 1
                /\ winsTotal'[pending[k].ch] = winsTotal[pending[k].ch] + 1]_armVars
  BY <1>1
<1> QED BY <1>2, ArmInvariant, PTL DEF ArmSpec, SightingWaitsForItsTwin

\* A frame is dropped only for a rival that was heard lately and has won.
THEOREM NoDropWithoutARival == ArmSpec => DropNeedsLiveRival
<1>1. ASSUME ArmInv, [ArmNext]_armVars, Unforced, dropped' # dropped
      PROVE  \E c \in Channels \ {hand.ch} :
               now - lastSeen[c] <= Silence /\ Wins(c, outcomes) > 0
  <2>1. ~Accepted
    BY <1>1, DropIsRefusal
  <2>2. selected \in Channels \ {hand.ch} /\ ~Quiet /\ selected # NoArm
    BY <1>1, <2>1 DEF Accepted, ArmInv, ArmTypeOK, Arms
  <2>3. now - lastSeen[selected] <= Silence
    <3>1. now \in Nat /\ lastSeen[selected] \in Nat
      BY <1>1, <2>2 DEF ArmInv, ArmTypeOK
    <3> QED BY <1>1, <2>2, <3>1, TuningAssumption DEF Quiet
  <2>4. outcomes \in Seq(Outcome) /\ Len(outcomes) >= MinPairs /\ Leads(selected, outcomes)
    <3>1. outcomes \in Seq(Outcome)
      BY <1>1 DEF ArmInv, ArmTypeOK, Outcome
    <3>2. Len(outcomes) \in Nat /\ MinPairs \in Nat
      BY <3>1, TuningAssumption
    <3>3. ~(Len(outcomes) < MinPairs) /\ Leads(selected, outcomes)
      BY <1>1, <2>2 DEF ArmInv, SelectionIsEarned
    <3> QED BY <3>1, <3>2, <3>3
  <2>5. 1 \in DOMAIN outcomes /\ outcomes[1].win \in Channels
    <3>1. Len(outcomes) \in Nat /\ MinPairs \in Nat /\ MinPairs >= 1
      BY <2>4, TuningAssumption
    <3>2. 1 \in 1..Len(outcomes)
      BY <2>4, <3>1
    <3>3. outcomes[1] \in Outcome
      BY <2>4, <3>2
    <3> QED BY <2>4, <3>2, <3>3 DEF Outcome
  <2>6. Wins(outcomes[1].win, outcomes) > 0 /\ Wins(outcomes[1].win, outcomes) \in Nat
    BY <2>4, <2>5, WinsCount
  <2>7. Wins(selected, outcomes) \in Nat
    BY <2>2, <2>4, WinsCount
  <2>8. Wins(outcomes[1].win, outcomes) <= Wins(selected, outcomes)
    BY <2>4, <2>5 DEF Leads
  <2>9. Wins(selected, outcomes) > 0
    BY <2>6, <2>7, <2>8
  <2> QED BY <2>2, <2>3, <2>9
<1>2. ArmInv /\ [ArmNext]_armVars =>
        [Unforced /\ dropped' # dropped =>
           \E c \in Channels \ {hand.ch} :
             now - lastSeen[c] <= Silence /\ Wins(c, outcomes) > 0]_armVars
  BY <1>1
<1> QED BY <1>2, ArmInvariant, PTL DEF ArmSpec, DropNeedsLiveRival

-----------------------------------------------------------------------------
(* The forced arm. *)

LEMMA NoteFramePins ==
  ASSUME ArmInv, ForcedArmIsPinned, ~Unforced,
         NEW c \in Channels, NEW batch \in Batches, NEW t \in Nat, NoteFrame(c, batch, t)
  PROVE  ForcedArmIsPinned'
<1>1. selected' = selected /\ reselections' = reselections /\ dropped' = dropped
  BY DEF NoteFrame
<1>2. hand.ch = NoArm /\ hand'.ch = c /\ c # NoArm
  BY ArmAssumption DEF NoteFrame, Idle
<1>3. \A d \in Channels : /\ frames[d] \in Nat /\ d # NoArm
                          /\ frames'[d] = IF d = c THEN frames[d] + 1 ELSE frames[d]
  BY ArmAssumption DEF NoteFrame, ArmInv, ArmTypeOK
<1>4. ASSUME NEW d \in Channels
      PROVE  dropped'[d] = IF d = Forced THEN 0 ELSE frames'[d] - (IF hand'.ch = d THEN 1 ELSE 0)
  <2>1. dropped[d] = IF d = Forced THEN 0 ELSE frames[d]
    BY <1>2, <1>3 DEF ForcedArmIsPinned
  <2> QED BY <1>1, <1>2, <1>3, <2>1
<1> QED BY <1>1, <1>4 DEF ForcedArmIsPinned, Unforced

LEMMA AcceptsPins ==
  ASSUME ArmInv, ForcedArmIsPinned, ~Unforced, Accepts
  PROVE  ForcedArmIsPinned'
<1>1. ~Quiet /\ UNCHANGED <<selected, reselections, frames>>
  BY DEF Accepts, Quiet
<1>2. hand'.ch = NoArm /\ hand.ch \in Channels
  BY DEF Accepts, Idle, ArmInv, ArmTypeOK, Arms
<1>3. dropped' = IF hand.ch = Forced THEN dropped ELSE [dropped EXCEPT ![hand.ch] = @ + 1]
  BY DEF Accepts, Accepted
<1>4. ASSUME NEW d \in Channels
      PROVE  dropped'[d] = IF d = Forced THEN 0 ELSE frames'[d] - (IF hand'.ch = d THEN 1 ELSE 0)
  <2>1. dropped[d] = IF d = Forced THEN 0 ELSE frames[d] - (IF hand.ch = d THEN 1 ELSE 0)
    BY DEF ForcedArmIsPinned
  <2>2. d # NoArm /\ frames[d] \in Nat /\ dropped[d] \in Nat /\ frames'[d] = frames[d]
    BY <1>1, ArmAssumption DEF ArmInv, ArmTypeOK
  <2>3. dropped'[d] = IF d = hand.ch /\ hand.ch # Forced THEN dropped[d] + 1 ELSE dropped[d]
    BY <1>3 DEF ArmInv, ArmTypeOK
  <2> QED BY <1>2, <2>1, <2>2, <2>3
<1> QED BY <1>1, <1>4 DEF ForcedArmIsPinned, Unforced

\* With --dz-channel the arm is pinned: no race and no silence moves it, its
\* frames all pass and no other arm's does.
THEOREM ForcedArmStays == ArmSpec => []ForcedArmIsPinned
<1>1. ArmInit => ForcedArmIsPinned
  BY ArmAssumption DEF ArmInit, ForcedArmIsPinned, Idle
<1>2. ASSUME ArmInv, ForcedArmIsPinned, [ArmNext]_armVars PROVE ForcedArmIsPinned'
  <2> SUFFICES ASSUME ~Unforced PROVE ForcedArmIsPinned'
    BY DEF ForcedArmIsPinned, Unforced
  <2>1. CASE \E c \in Channels, batch \in Batches, t \in now..(now + MaxGap) : NoteFrame(c, batch, t)
    <3>1. now..(now + MaxGap) \subseteq Nat
      BY <1>2, BoundAssumption DEF ArmInv, ArmTypeOK
    <3> QED BY <1>2, <2>1, <3>1, NoteFramePins
  <2>2. CASE ObserveTrade
    <3>1. UNCHANGED <<selected, reselections, dropped, frames>> /\ hand'.ch = hand.ch
      BY <1>2, <2>2 DEF ObserveTrade, FirstSighting, SameArmAgain, StaleSighting, PairUp, Resolve,
                        ArmInv, ArmTypeOK
    <3> QED BY <1>2, <3>1 DEF ForcedArmIsPinned
  <2>3. CASE Accepts
    BY <1>2, <2>3, AcceptsPins
  <2>4. CASE UNCHANGED armVars
    BY <1>2, <2>4 DEF armVars, ForcedArmIsPinned
  <2> QED BY <1>2, <2>1, <2>2, <2>3, <2>4 DEF ArmNext
<1> QED BY <1>1, <1>2, ArmInvariant, PTL DEF ArmSpec
-----------------------------------------------------------------------------
(* The counters.  Besides what CountersAddUp says, the invariant needs     *)
(* that only finitely many keys wait at a time, however many there are.    *)

TallyInv ==
  /\ IsFiniteSet(Waiting)
  /\ 2 * pairs + stalePairs + Cardinality(Waiting) <= SumOver(trades, Channels)
  /\ SumOver(winsTotal, Channels) = pairs
  /\ Len(outcomes) <= pairs
  /\ \A c \in Channels : Wins(c, outcomes) <= winsTotal[c]

One(b) == IF b THEN 1 ELSE 0

WonBy(c, s) == {i \in DOMAIN s : s[i].win = c}

LEMMA WonIsFinite ==
  ASSUME NEW s \in Seq(Outcome), NEW c \in Channels
  PROVE  IsFiniteSet(WonBy(c, s)) /\ Wins(c, s) = Cardinality(WonBy(c, s)) /\ Wins(c, s) \in Nat
<1>1. IsFiniteSet(1..Len(s)) /\ WonBy(c, s) \subseteq 1..Len(s)
  BY FS_Interval DEF WonBy
<1>2. IsFiniteSet(WonBy(c, s))
  BY <1>1, FS_Subset
<1> QED BY <1>2, FS_CardinalityType DEF Wins, WonBy

LEMMA WinsOfAppend ==
  ASSUME NEW s \in Seq(Outcome), NEW e \in Outcome, NEW c \in Channels
  PROVE  Wins(c, Append(s, e)) = Wins(c, s) + One(e.win = c)
<1> DEFINE n == Len(s) + 1
<1>1. /\ Append(s, e) \in Seq(Outcome) /\ DOMAIN Append(s, e) = (DOMAIN s) \cup {n}
      /\ Append(s, e)[n] = e /\ n \notin DOMAIN s
      /\ \A i \in DOMAIN s : Append(s, e)[i] = s[i]
  OBVIOUS
<1> HIDE DEF n
<1>2. WonBy(c, Append(s, e)) = WonBy(c, s) \cup (IF e.win = c THEN {n} ELSE {})
  BY <1>1 DEF WonBy
<1>3. /\ IsFiniteSet(WonBy(c, s)) /\ n \notin WonBy(c, s)
      /\ Wins(c, s) = Cardinality(WonBy(c, s)) /\ Wins(c, s) \in Nat
      /\ Wins(c, Append(s, e)) = Cardinality(WonBy(c, Append(s, e)))
  BY <1>1, WonIsFinite DEF WonBy
<1>4. Cardinality(WonBy(c, s) \cup {n}) = Cardinality(WonBy(c, s)) + 1
  BY <1>3, FS_AddElement
<1>5. CASE e.win = c
  BY <1>2, <1>3, <1>4, <1>5 DEF One
<1>6. CASE e.win # c
  BY <1>2, <1>3, <1>6 DEF One
<1> QED BY <1>5, <1>6

LEMMA WinsOfTail ==
  ASSUME NEW s \in Seq(Outcome), s # <<>>, NEW c \in Channels
  PROVE  Wins(c, Tail(s)) <= Wins(c, s)
<1> DEFINE W == WonBy(c, Tail(s))
           later == [i \in W |-> i + 1]
<1>1. /\ Tail(s) \in Seq(Outcome) /\ Len(Tail(s)) = Len(s) - 1 /\ Len(s) \in Nat
      /\ \A i \in DOMAIN Tail(s) : i \in Int /\ i + 1 \in DOMAIN s /\ Tail(s)[i] = s[i + 1]
  OBVIOUS
<1>2. IsFiniteSet(WonBy(c, s)) /\ Wins(c, s) = Cardinality(WonBy(c, s))
  BY WonIsFinite
<1>3. Wins(c, Tail(s)) = Cardinality(W)
  BY <1>1, WonIsFinite
<1>4. later \in Injection(W, WonBy(c, s))
  <2>1. \A i \in W : i \in Int /\ i + 1 \in WonBy(c, s)
    BY <1>1 DEF WonBy
  <2>2. later \in [W -> WonBy(c, s)] /\ \A i, j \in W : later[i] = later[j] => i = j
    <3> HIDE DEF W
    <3> QED BY <2>1
  <2> HIDE DEF W, later
  <2> QED BY <2>2 DEF Injection, IsInjective
<1> HIDE DEF W, later
<1>5. Cardinality(W) <= Cardinality(WonBy(c, s))
  BY <1>2, <1>4, FS_Injection DEF ExistsInjection
<1> QED BY <1>2, <1>3, <1>5

\* The window gains at most the race that is pushed.
LEMMA WinsOfPush ==
  ASSUME NEW s \in Seq(Outcome), NEW e \in Outcome
  PROVE  /\ Len(Push(s, e)) <= Len(s) + 1
         /\ \A c \in Channels : Wins(c, Push(s, e)) <= Wins(c, s) + One(e.win = c)
<1>1. CASE Len(s) < Keep
  <2>1. Push(s, e) = Append(s, e)
    BY <1>1 DEF Push
  <2>2. Append(s, e) \in Seq(Outcome) /\ Len(Append(s, e)) = Len(s) + 1 /\ Len(s) \in Nat
    OBVIOUS
  <2>3. ASSUME NEW c \in Channels PROVE Wins(c, Append(s, e)) <= Wins(c, s) + One(e.win = c)
    <3>1. Wins(c, Append(s, e)) \in Nat
      BY <2>2, WonIsFinite
    <3> QED BY <3>1, WinsOfAppend
  <2> QED BY <2>1, <2>2, <2>3
<1>2. CASE ~(Len(s) < Keep)
  <2>1. Push(s, e) = Append(Tail(s), e) /\ s # <<>>
    BY <1>2, TuningAssumption DEF Push
  <2>2. Tail(s) \in Seq(Outcome) /\ Len(Append(Tail(s), e)) = Len(s) /\ Len(s) \in Nat
    BY <2>1
  <2>3. ASSUME NEW c \in Channels PROVE Wins(c, Append(Tail(s), e)) <= Wins(c, s) + One(e.win = c)
    <3>1. Wins(c, Append(Tail(s), e)) = Wins(c, Tail(s)) + One(e.win = c)
      BY <2>2, WinsOfAppend
    <3>2. Wins(c, Tail(s)) <= Wins(c, s) /\ Wins(c, Tail(s)) \in Nat /\ Wins(c, s) \in Nat
      BY <2>1, <2>2, WinsOfTail, WonIsFinite
    <3>3. One(e.win = c) \in Nat
      BY DEF One
    <3> QED BY <3>1, <3>2, <3>3
  <2> QED BY <2>1, <2>2, <2>3
<1> QED BY <1>1, <1>2

\* A sweep lets waiting keys go and adds none.
LEMMA SweepForgets ==
  ASSUME TallyInv, ArmInv
  PROVE  /\ {k \in Keys : Swept[k] # NoSighting} \subseteq Waiting
         /\ IsFiniteSet({k \in Keys : Swept[k] # NoSighting})
         /\ Cardinality({k \in Keys : Swept[k] # NoSighting}) <= Cardinality(Waiting)
         /\ Cardinality({k \in Keys : Swept[k] # NoSighting}) \in Nat
<1>1. \A k \in Keys : Swept[k] # NoSighting => pending[k] # NoSighting
  BY DEF Swept
<1>2. {k \in Keys : Swept[k] # NoSighting} \subseteq Waiting /\ IsFiniteSet(Waiting)
  BY <1>1 DEF Waiting, TallyInv
<1> QED BY <1>2, FS_Subset, FS_CardinalityType

\* The keys that wait after a trade: those the sweep left, with the trade's key or without.
LEMMA WaitingAfter ==
  ASSUME TallyInv, ArmInv, ObserveTrade
  PROVE  LET kept == {k \in Keys : Swept[k] # NoSighting}
         IN  /\ IsFiniteSet(Waiting')
             /\ FirstSighting => Cardinality(Waiting') <= Cardinality(Waiting) + 1
             /\ SameArmAgain \/ StaleSighting => Cardinality(Waiting') <= Cardinality(Waiting)
             /\ PairUp => Cardinality(Waiting') <= Cardinality(Waiting) - 1
<1> DEFINE kept == {k \in Keys : Swept[k] # NoSighting}
<1>1. /\ IsFiniteSet(kept) /\ Cardinality(kept) \in Nat
      /\ Cardinality(kept) <= Cardinality(Waiting) /\ Cardinality(Waiting) \in Nat
  BY SweepForgets, FS_CardinalityType DEF TallyInv
<1>2. Key \in Keys /\ Mine # NoSighting /\ Swept = [k \in Keys |-> Swept[k]]
  <2>1. hand.todo \in Seq(Keys) /\ hand.todo # <<>>
    BY DEF ArmInv, ArmTypeOK, ObserveTrade
  <2>2. Head(hand.todo) \in Keys
    BY <2>1
  <2>3. hand.ch \in Channels /\ NoArm \notin Channels
    BY <2>1, ArmAssumption DEF ArmInv, FrameHasAnArm
  <2>4. Swept \in [Keys -> [ch : Arms, at : Nat]]
    BY SweptFacts DEF ArmInv
  <2> QED BY <2>2, <2>3, <2>4 DEF Key, Mine, NoSighting
<1>3. CASE FirstSighting
  <2>1. Waiting' = kept \cup {Key} /\ Key \notin kept
    BY <1>2, <1>3 DEF FirstSighting, Prev, Waiting, NoSighting
  <2>2. IsFiniteSet(kept \cup {Key}) /\ Cardinality(kept \cup {Key}) = Cardinality(kept) + 1
    BY <1>1, <2>1, FS_AddElement
  <2>3. ~SameArmAgain /\ ~StaleSighting /\ ~PairUp
    BY <1>3 DEF FirstSighting, SameArmAgain, StaleSighting, PairUp
  <2> QED BY <1>1, <2>1, <2>2, <2>3
<1>4. CASE SameArmAgain
  <2>1. Waiting' = kept
    BY <1>2, <1>4 DEF SameArmAgain, Waiting, NoSighting
  <2> QED BY <1>1, <1>4, <2>1 DEF FirstSighting, SameArmAgain, StaleSighting, PairUp
<1>5. CASE StaleSighting
  <2>1. Waiting' = kept
    BY <1>2, <1>5 DEF StaleSighting, Prev, Waiting, NoSighting
  <2> QED BY <1>1, <1>5, <2>1 DEF FirstSighting, SameArmAgain, StaleSighting, PairUp
<1>6. CASE PairUp
  <2>1. Waiting' = kept \ {Key} /\ Key \in kept
    BY <1>2, <1>6 DEF PairUp, Prev, Waiting, NoSighting
  <2>2. IsFiniteSet(kept \ {Key}) /\ Cardinality(kept \ {Key}) = Cardinality(kept) - 1
    BY <1>1, <2>1, FS_RemoveElement
  <2> QED BY <1>1, <1>6, <2>1, <2>2 DEF FirstSighting, SameArmAgain, StaleSighting, PairUp
<1> QED BY <1>3, <1>4, <1>5, <1>6 DEF ObserveTrade

LEMMA ObserveKeepsTally ==
  ASSUME ArmInv, TallyInv, ObserveTrade
  PROVE  TallyInv'
<1> USE ArmAssumption
<1>1. /\ hand.ch \in Channels
      /\ trades \in [Channels -> Nat] /\ winsTotal \in [Channels -> Nat]
      /\ pairs \in Nat /\ stalePairs \in Nat /\ outcomes \in Seq(Outcome)
  BY DEF ArmInv, ArmTypeOK, FrameHasAnArm, ObserveTrade, Outcome
<1>2. SumOver(trades', Channels) = SumOver(trades, Channels) + 1 /\ SumOver(trades, Channels) \in Nat
  BY <1>1, SumGrows, SumIsNat DEF ObserveTrade
<1>3. /\ 2 * pairs + stalePairs + Cardinality(Waiting) <= SumOver(trades, Channels)
      /\ SumOver(winsTotal, Channels) = pairs
      /\ Len(outcomes) <= pairs
      /\ \A c \in Channels : Wins(c, outcomes) <= winsTotal[c]
  BY DEF TallyInv
<1>4. IsFiniteSet(Waiting') /\ Cardinality(Waiting') \in Nat /\ Cardinality(Waiting) \in Nat
  BY WaitingAfter, FS_CardinalityType DEF TallyInv
<1>5. SUFFICES /\ 2 * pairs' + stalePairs' + Cardinality(Waiting') <= SumOver(trades', Channels)
               /\ SumOver(winsTotal', Channels) = pairs'
               /\ Len(outcomes') <= pairs'
               /\ \A c \in Channels : Wins(c, outcomes') <= winsTotal'[c]
  BY <1>4 DEF TallyInv, Wins
<1>6. CASE FirstSighting
  <2>1. UNCHANGED <<outcomes, winsTotal, pairs, stalePairs>>
    BY <1>6 DEF FirstSighting
  <2>2. Cardinality(Waiting') <= Cardinality(Waiting) + 1
    BY <1>6, WaitingAfter
  <2> QED BY <1>1, <1>2, <1>3, <1>4, <2>1, <2>2
<1>7. CASE SameArmAgain \/ StaleSighting
  <2>1. UNCHANGED <<outcomes, winsTotal, pairs>> /\ stalePairs' \in {stalePairs, stalePairs + 1}
    BY <1>7 DEF SameArmAgain, StaleSighting
  <2>2. Cardinality(Waiting') <= Cardinality(Waiting)
    BY <1>7, WaitingAfter
  <2> QED BY <1>1, <1>2, <1>3, <1>4, <2>1, <2>2
<1>8. CASE PairUp
  <2>1. /\ pairs' = pairs + 1 /\ stalePairs' = stalePairs
        /\ outcomes' = Push(outcomes, Race)
        /\ winsTotal' = [winsTotal EXCEPT ![Prev.ch] = winsTotal[Prev.ch] + 1]
    BY <1>8 DEF PairUp, Credit
  <2>2. Cardinality(Waiting') <= Cardinality(Waiting) - 1
    BY <1>8, WaitingAfter
  <2>3. Race \in Outcome /\ Race.win = Prev.ch
    <3>1. Swept \in [Keys -> [ch : Arms, at : Nat]]
          /\ \A k \in Keys : Swept[k] # NoSighting => Swept[k].ch \in Channels /\ Swept[k].at <= now
      BY SweptFacts DEF ArmInv
    <3>2. hand.todo \in Seq(Keys) /\ hand.todo # <<>> /\ now \in Nat
      BY DEF ArmInv, ArmTypeOK, ObserveTrade
    <3>3. Key \in Keys
      BY <3>2 DEF Key
    <3>4. Prev \in [ch : Arms, at : Nat] /\ Prev.ch \in Channels /\ Prev.at <= now
      BY <1>8, <3>1, <3>3 DEF Prev, PairUp
    <3> QED BY <1>1, <3>2, <3>4 DEF Race, Outcome
  <2>4. Prev.ch \in Channels
    BY <2>3 DEF Outcome
  <2>5. SumOver(winsTotal', Channels) = pairs'
    BY <1>1, <1>3, <2>1, <2>4, SumGrows
  <2>6. /\ Len(Push(outcomes, Race)) <= Len(outcomes) + 1
        /\ \A c \in Channels : Wins(c, Push(outcomes, Race)) <= Wins(c, outcomes) + One(Race.win = c)
    BY <1>1, <2>3, WinsOfPush
  <2>7. Push(outcomes, Race) \in Seq(Outcome)
    BY <1>1, <2>3, PushFacts
  <2>8. Len(outcomes') <= pairs'
    <3>1. Len(outcomes') \in Nat /\ Len(outcomes) \in Nat
      BY <1>1, <2>1, <2>7
    <3> QED BY <1>1, <1>3, <2>1, <2>6, <3>1
  <2>9. ASSUME NEW c \in Channels PROVE Wins(c, outcomes') <= winsTotal'[c]
    <3>1. Wins(c, Push(outcomes, Race)) \in Nat /\ Wins(c, outcomes) \in Nat /\ winsTotal[c] \in Nat
      BY <1>1, <2>7, WonIsFinite
    <3>2. winsTotal'[c] = winsTotal[c] + One(Race.win = c) /\ One(Race.win = c) \in Nat
      BY <1>1, <2>1, <2>3, <2>4 DEF One
    <3>3. Wins(c, outcomes) <= winsTotal[c]
          /\ Wins(c, Push(outcomes, Race)) <= Wins(c, outcomes) + One(Race.win = c)
      BY <1>3, <2>6
    <3> QED BY <2>1, <3>1, <3>2, <3>3
  <2>10. 2 * pairs' + stalePairs' + Cardinality(Waiting') <= SumOver(trades', Channels)
    BY <1>1, <1>2, <1>3, <1>4, <2>1, <2>2
  <2> QED BY <2>5, <2>8, <2>9, <2>10
<1> QED BY <1>6, <1>7, <1>8 DEF ObserveTrade

\* The window of races is no longer than the pairs counted, and no arm has won more of it
\* than it is credited with; the trades account for every pair, replacement and sighting.
THEOREM CountersAgree == ArmSpec => []CountersAddUp
<1>1. ArmInit => TallyInv
  <2> SUFFICES ASSUME ArmInit PROVE TallyInv
    OBVIOUS
  <2>1. Waiting = {}
    BY DEF ArmInit, Waiting
  <2>2. IsFiniteSet(Waiting) /\ Cardinality(Waiting) = 0
    BY <2>1, FS_EmptySet
  <2>3. SumOver(trades, Channels) = 0 /\ SumOver(winsTotal, Channels) = 0
    BY ArmAssumption, SumOfZeros DEF ArmInit
  <2>4. \A c \in Channels : Wins(c, outcomes) = 0
    BY FS_EmptySet DEF ArmInit, Wins
  <2> QED BY <2>2, <2>3, <2>4 DEF TallyInv, ArmInit
<1>2. ASSUME ArmInv, TallyInv, [ArmNext]_armVars PROVE TallyInv'
  <2>1. CASE \E c \in Channels, batch \in Batches, t \in now..(now + MaxGap) : NoteFrame(c, batch, t)
    <3>1. UNCHANGED <<pending, outcomes, trades, winsTotal, pairs, stalePairs>>
      BY <2>1 DEF NoteFrame, tallies
    <3> QED BY <1>2, <3>1 DEF TallyInv, Waiting, Wins
  <2>2. CASE ObserveTrade
    BY <1>2, <2>2, ObserveKeepsTally
  <2>3. CASE Accepts
    <3>1. UNCHANGED <<pending, trades, winsTotal, pairs, stalePairs>> /\ outcomes' \in {outcomes, <<>>}
      BY <2>3 DEF Accepts, Release, tallies
    <3>2. CASE outcomes' = outcomes
      BY <1>2, <3>1, <3>2 DEF TallyInv, Waiting, Wins
    <3>3. CASE outcomes' = <<>>
      <4>1. \A c \in Channels : winsTotal[c] \in Nat /\ pairs \in Nat
        BY <1>2 DEF ArmInv, ArmTypeOK
      <4>2. \A c \in Channels : Wins(c, <<>>) = 0
        BY FS_EmptySet DEF Wins
      <4>3. pairs \in Nat
        BY <1>2 DEF ArmInv, ArmTypeOK
      <4>4. \A c \in Channels : Wins(c, outcomes') <= winsTotal'[c]
        BY <3>1, <3>3, <4>1, <4>2
      <4>5. Len(outcomes') <= pairs'
        BY <3>1, <3>3, <4>3
      <4> QED BY <1>2, <3>1, <4>4, <4>5 DEF TallyInv, Waiting, Wins
    <3> QED BY <3>1, <3>2, <3>3
  <2>4. CASE UNCHANGED armVars
    BY <1>2, <2>4 DEF armVars, TallyInv, Waiting, Wins
  <2> QED BY <1>2, <2>1, <2>2, <2>3, <2>4 DEF ArmNext
<1>3. TallyInv => CountersAddUp
  BY DEF TallyInv, CountersAddUp, SumOver
<1> QED BY <1>1, <1>2, <1>3, ArmInvariant, PTL DEF ArmSpec
=============================================================================
