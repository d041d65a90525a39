---------------------------- MODULE ArmFeedProofs ----------------------------
(***************************************************************************)
(* What the reader's loop delivers, for any number of arms and trades, any *)
(* tuning and any losses.  FeedInv holds of every feed; LeaderInv adds     *)
(* what is true where one of two arms leads and every trade has a key of   *)
(* its own, JudgedUnderForced what is true where an arm is forced.         *)
(***************************************************************************)
EXTENDS ArmFeed, ArmArbiterProofs

FeedTypes ==
  /\ fast \in Arms
  /\ sent \in [Channels -> Nat]
  /\ cargo \in Prints \cup {0}
  /\ shown \in Nat /\ shownUnder \in Arms
  /\ copies \in [Prints -> Nat]
  /\ judged \in [Prints -> SUBSET Channels]
  /\ choices \in [Prints -> SUBSET Arms]

\* A trade in hand is the last its arm sent, and that copy was not judged before.
CargoIsFresh ==
  /\ cargo # 0 => hand.ch \in Channels /\ sent[hand.ch] = cargo /\ hand.ch \notin judged[cargo]
  /\ hand.todo # <<>> => cargo # 0 /\ hand.todo = <<KeyOf[cargo]>>

ForcedIsKept == Unforced \/ selected = Forced

\* What is shown came from the arm it was passed on under, which has sent nothing older
\* since.
ShownIsBehind == shownUnder \in Channels => shown <= sent[shownUnder]

\* How often a trade was passed on, by the selections its copies were judged under.
Counted(i) ==
  /\ \A c \in judged[i] : i <= sent[c]
  /\ IsFiniteSet(judged[i])
  /\ choices[i] \subseteq {NoArm} => copies[i] = Cardinality(judged[i])
  /\ \A c \in Channels :
       choices[i] \subseteq {c} => copies[i] = IF c \in judged[i] THEN 1 ELSE 0

FeedInv ==
  /\ ArmInv
  /\ FeedTypes
  /\ CargoIsFresh
  /\ ForcedIsKept
  /\ ShownIsBehind
  /\ \A i \in Prints : Counted(i)

-----------------------------------------------------------------------------
(* The steps, and what a verdict means. *)

LEMMA FeedInitInv == FeedInit => FeedInv
<1> SUFFICES ASSUME FeedInit PROVE FeedInv
  OBVIOUS
<1>1. ArmInv
  BY InvInit DEF FeedInit
<1>2. FeedTypes
  BY FeedAssumption DEF FeedInit, FeedTypes, Arms
<1>3. CargoIsFresh /\ ForcedIsKept
  BY DEF FeedInit, ArmInit, Idle, CargoIsFresh, ForcedIsKept
<1>4. ShownIsBehind
  BY ArmAssumption DEF FeedInit, ShownIsBehind
<1>5. ASSUME NEW i \in Prints PROVE Counted(i)
  <2>1. judged[i] = {} /\ choices[i] = {} /\ copies[i] = 0
    BY DEF FeedInit
  <2>2. IsFiniteSet({}) /\ Cardinality({}) = 0
    BY FS_EmptySet
  <2> QED BY <2>1, <2>2 DEF Counted
<1> QED BY <1>1, <1>2, <1>3, <1>4, <1>5 DEF FeedInv

\* A frame that is offered, with the trade i it carries or without one.
NewFrame(c, t) ==
  \/ OtherFrame(c, t)
  \/ \E i \in Prints : Publish(c, i, t)

LEMMA FrameStarts ==
  ASSUME FeedInv, NEW c \in Channels, NEW batch \in Seq(Keys), NEW t, NoteFrame(c, batch, t)
  PROVE  /\ hand = Idle /\ hand' \in [ch : Arms, todo : Seq(Keys)] /\ hand'.ch = c /\ c # NoArm
         /\ selected' = selected /\ hand.ch = NoArm /\ cargo = 0
<1>1. c \in Arms /\ c # NoArm
  BY ArmAssumption DEF Arms
<1>2. hand = Idle /\ hand' = [ch |-> c, todo |-> batch] /\ selected' = selected
  BY DEF NoteFrame
<1>3. cargo = 0
  BY <1>2, ArmAssumption DEF FeedInv, CargoIsFresh, Idle
<1> QED BY <1>1, <1>2, <1>3 DEF Idle

LEMMA NewFrameKeepsInv ==
  ASSUME FeedInv, NEW c \in Channels, NEW t \in now..(now + MaxGap), NewFrame(c, t)
  PROVE  FeedInv'
<1> DEFINE Started ==
      /\ hand = Idle /\ hand' \in [ch : Arms, todo : Seq(Keys)] /\ hand'.ch = c /\ c # NoArm
      /\ selected' = selected /\ UNCHANGED <<fast, history>> /\ hand.ch = NoArm
      /\ cargo = 0 /\ ArmInv'
<1>0. t \in Nat /\ now <= t
  BY BoundAssumption DEF FeedInv, ArmInv, ArmTypeOK
<1>1. Started
  <2>1. ASSUME OtherFrame(c, t) PROVE Started
    <3>1. <<>> \in Seq(Keys) /\ NoteFrame(c, <<>>, t)
      BY <2>1 DEF OtherFrame
    <3>2. ArmInv'
      BY <1>0, <3>1, NoteFrameKeepsInv DEF FeedInv
    <3> QED BY <2>1, <3>1, <3>2, FrameStarts DEF OtherFrame, history
  <2>2. ASSUME NEW i \in Prints, Publish(c, i, t) PROVE Started
    <3>1. <<KeyOf[i]>> \in Seq(Keys) /\ NoteFrame(c, <<KeyOf[i]>>, t)
      BY <2>2, FeedAssumption DEF Publish
    <3>2. ArmInv'
      BY <1>0, <3>1, NoteFrameKeepsInv DEF FeedInv
    <3> QED BY <2>2, <3>1, <3>2, FrameStarts DEF Publish, history
  <2> QED BY <2>1, <2>2 DEF NewFrame
<1>2. ForcedIsKept'
  BY <1>1 DEF FeedInv, ForcedIsKept, Unforced
<1>3. CASE OtherFrame(c, t)
  <2>1. UNCHANGED <<sent, cargo>> /\ hand'.todo = <<>>
    BY <1>3 DEF OtherFrame, NoteFrame
  <2>2. FeedTypes' /\ CargoIsFresh' /\ ShownIsBehind' /\ \A i \in Prints : Counted(i)'
    BY <1>1, <2>1 DEF FeedInv, FeedTypes, CargoIsFresh, ShownIsBehind, Counted, history
  <2> QED BY <1>1, <1>2, <2>2 DEF FeedInv
<1>4. ASSUME NEW i \in Prints, Publish(c, i, t) PROVE FeedInv'
  <2>1. /\ i \in Nat /\ i # 0 /\ i > sent[c] /\ sent' = [sent EXCEPT ![c] = i] /\ cargo' = i
        /\ hand'.todo = <<KeyOf[i]>> /\ sent \in [Channels -> Nat]
    <3>1. /\ i \in Nat /\ i # 0 /\ i \in (sent[c] + 1)..(sent[c] + 1 + MaxLost)
          /\ sent \in [Channels -> Nat]
      BY <1>4, FeedAssumption DEF Publish, Prints, FeedInv, FeedTypes
    <3>2. i > sent[c]
      BY <3>1, FeedAssumption
    <3> QED BY <1>4, <3>1, <3>2 DEF Publish, NoteFrame
  <2>2. /\ sent' \in [Channels -> Nat] /\ sent'[c] = i
        /\ \A d \in Channels : sent[d] \in Nat /\ sent'[d] \in Nat /\ sent[d] <= sent'[d]
    BY <2>1
  <2>3. FeedTypes'
    BY <1>1, <2>1, <2>2 DEF FeedInv, FeedTypes, history
  <2>4. c \notin judged[i]
    BY <2>1, <2>2 DEF FeedInv, Counted
  <2>5. CargoIsFresh'
    BY <1>1, <2>1, <2>2, <2>4 DEF CargoIsFresh, history
  <2>6. ShownIsBehind'
    <3>1. shown \in Nat /\ shown' = shown /\ shownUnder' = shownUnder
      BY <1>1 DEF FeedInv, FeedTypes, history
    <3> QED BY <2>2, <3>1 DEF FeedInv, ShownIsBehind
  <2>7. ASSUME NEW j \in Prints PROVE Counted(j)'
    <3>1. /\ judged' = judged /\ choices' = choices /\ copies' = copies
          /\ judged[j] \subseteq Channels /\ j \in Nat
      BY <1>1, FeedAssumption DEF history, FeedInv, FeedTypes, Prints
    <3>2. \A d \in judged[j] : j <= sent'[d]
      BY <2>2, <3>1 DEF FeedInv, Counted
    <3> QED BY <3>1, <3>2 DEF FeedInv, Counted
  <2> QED BY <1>1, <1>2, <2>3, <2>5, <2>6, <2>7 DEF FeedInv
<1> QED BY <1>3, <1>4 DEF NewFrame

LEMMA ObserveFeedKeepsInv ==
  ASSUME FeedInv, Observe
  PROVE  FeedInv'
<1>1. ArmInv' /\ ObserveTrade /\ UNCHANGED <<fast, sent, cargo, history>>
  BY ObserveKeepsInv DEF FeedInv, Observe
<1>2. hand'.ch = hand.ch /\ hand'.todo = <<>> /\ cargo # 0
  <2>1. cargo # 0 /\ hand.todo = <<KeyOf[cargo]>>
    BY <1>1 DEF ObserveTrade, FeedInv, CargoIsFresh
  <2>2. hand' = [hand EXCEPT !.todo = Tail(hand.todo)] /\ hand \in [ch : Arms, todo : Seq(Keys)]
    BY <1>1 DEF ObserveTrade, FeedInv, ArmInv, ArmTypeOK
  <2>3. Tail(<<KeyOf[cargo]>>) = <<>>
    OBVIOUS
  <2> QED BY <2>1, <2>2, <2>3
<1>3. ForcedIsKept'
  BY <1>1 DEF FeedInv, ForcedIsKept, ObserveTrade, FirstSighting, SameArmAgain, StaleSighting,
              PairUp, Resolve, Unforced
<1>4. FeedTypes' /\ CargoIsFresh' /\ ShownIsBehind' /\ \A i \in Prints : Counted(i)'
  BY <1>1, <1>2 DEF FeedInv, FeedTypes, CargoIsFresh, ShownIsBehind, Counted, history
<1> QED BY <1>1, <1>3, <1>4 DEF FeedInv

\* The verdict on a frame follows from the selection the call leaves behind: with none
\* every frame passes, with an arm its frames do (accepts).
LEMMA VerdictFollowsTheChoice ==
  ASSUME FeedInv, Accepts
  PROVE  /\ selected' \in Arms /\ hand.ch \in Channels
         /\ selected' = NoArm => Accepted
         /\ selected' \in Channels => (Accepted <=> hand.ch = selected')
         /\ selected' = NoArm \/ selected' = selected
         /\ ForcedIsKept'
<1>1. selected \in Arms /\ hand.ch \in Channels /\ NoArm \notin Channels
  BY ArmAssumption DEF FeedInv, ArmInv, ArmTypeOK, Accepts, Arms
<1>2. CASE Quiet /\ Release
  BY <1>1, <1>2 DEF Release, Quiet, Accepted, Arms, ForcedIsKept, Unforced
<1>3. CASE ~Quiet /\ UNCHANGED selected
  BY <1>1, <1>3, ArmAssumption DEF FeedInv, Accepted, Arms, ForcedIsKept, Unforced
<1> QED BY <1>2, <1>3 DEF Accepts

LEMMA OneMore ==
  ASSUME NEW S, IsFiniteSet(S), NEW e, e \notin S
  PROVE  IsFiniteSet(S \cup {e}) /\ Cardinality(S \cup {e}) = Cardinality(S) + 1
  BY FS_AddElement

\* One more copy is judged: the counts of the trade go on.
LEMMA CountGoesOn ==
  ASSUME FeedInv, PassOn, cargo # 0
  PROVE  \A i \in Prints : Counted(i)'
<1>1. /\ cargo \in Prints /\ hand.ch \in Channels /\ hand.ch \notin judged[cargo]
      /\ sent[hand.ch] = cargo /\ sent' = sent /\ cargo \in Nat
  BY FeedAssumption DEF FeedInv, FeedTypes, CargoIsFresh, PassOn, Prints
<1>2. /\ judged' = [judged EXCEPT ![cargo] = judged[cargo] \cup {hand.ch}]
      /\ choices' = [choices EXCEPT ![cargo] = choices[cargo] \cup {selected'}]
      /\ copies' = IF Accepted THEN [copies EXCEPT ![cargo] = copies[cargo] + 1] ELSE copies
  BY DEF PassOn, Apply
<1>3. ASSUME NEW i \in Prints, i # cargo PROVE Counted(i)'
  <2>1. judged'[i] = judged[i] /\ choices'[i] = choices[i] /\ copies'[i] = copies[i]
    BY <1>1, <1>2, <1>3 DEF FeedInv, FeedTypes
  <2> QED BY <1>1, <2>1 DEF FeedInv, Counted
<1>4. ASSUME NEW i \in Prints, i = cargo PROVE Counted(i)'
  <2>0. /\ judged'[i] = judged[i] \cup {hand.ch}
        /\ choices'[i] = choices[i] \cup {selected'}
        /\ copies'[i] = IF Accepted THEN copies[i] + 1 ELSE copies[i]
        /\ copies[i] \in Nat
    BY <1>1, <1>2, <1>4 DEF FeedInv, FeedTypes
  <2>1. Counted(i) /\ NoArm \notin Channels /\ hand.ch \notin judged[i] /\ sent[hand.ch] = i
    BY <1>1, <1>4, ArmAssumption DEF FeedInv
  <2>2. /\ selected' = NoArm => Accepted
        /\ selected' \in Channels => (Accepted <=> hand.ch = selected')
    BY VerdictFollowsTheChoice DEF PassOn
  <2>3. \A c \in judged'[i] : i <= sent'[c]
    BY <1>1, <2>0, <2>1 DEF Counted
  <2>4. /\ IsFiniteSet(judged'[i])
        /\ Cardinality(judged'[i]) = Cardinality(judged[i]) + 1
    <3>1. IsFiniteSet(judged[i])
      BY <2>1 DEF Counted
    <3> QED BY <2>0, <2>1, <3>1, OneMore
  <2>5. choices'[i] \subseteq {NoArm} => copies'[i] = Cardinality(judged'[i])
    BY <2>0, <2>1, <2>2, <2>4 DEF Counted
  <2>6. ASSUME NEW c \in Channels, choices'[i] \subseteq {c}
        PROVE  copies'[i] = IF c \in judged'[i] THEN 1 ELSE 0
    <3>1. selected' = c /\ choices[i] \subseteq {c}
      BY <2>0, <2>6
    <3>2. copies[i] = IF c \in judged[i] THEN 1 ELSE 0
      BY <2>1, <3>1 DEF Counted
    <3> QED BY <2>0, <2>1, <2>2, <3>1, <3>2
  <2> QED BY <2>3, <2>4, <2>5, <2>6 DEF Counted
<1> QED BY <1>3, <1>4

LEMMA PassOnKeepsInv ==
  ASSUME FeedInv, PassOn
  PROVE  FeedInv'
<1>1. /\ ArmInv' /\ Accepts /\ hand' = Idle /\ cargo' = 0 /\ fast' = fast /\ sent' = sent
      /\ ForcedIsKept' /\ selected' \in Arms /\ hand.ch \in Channels
  BY AcceptsKeepsInv, VerdictFollowsTheChoice DEF FeedInv, PassOn, Accepts
<1>2. CargoIsFresh'
  BY <1>1 DEF CargoIsFresh, Idle
<1>3. CASE cargo = 0
  <2>1. UNCHANGED history
    BY <1>3 DEF PassOn
  <2>2. FeedTypes' /\ ShownIsBehind' /\ \A i \in Prints : Counted(i)'
    BY <1>1, <2>1 DEF FeedInv, FeedTypes, ShownIsBehind, Counted, history
  <2> QED BY <1>1, <1>2, <2>2 DEF FeedInv
<1>4. CASE cargo # 0
  <2>1. /\ cargo \in Prints /\ cargo \in Nat /\ sent[hand.ch] = cargo
        /\ IF Accepted THEN Apply(cargo) ELSE UNCHANGED <<shown, shownUnder, copies>>
        /\ judged' = [judged EXCEPT ![cargo] = judged[cargo] \cup {hand.ch}]
        /\ choices' = [choices EXCEPT ![cargo] = choices[cargo] \cup {selected'}]
    BY <1>4, FeedAssumption DEF PassOn, Prints, FeedInv, FeedTypes, CargoIsFresh
  <2>2. judged' \in [Prints -> SUBSET Channels] /\ choices' \in [Prints -> SUBSET Arms]
    BY <1>1, <2>1 DEF FeedInv, FeedTypes
  <2>3. shown' \in Nat /\ shownUnder' \in Arms /\ copies' \in [Prints -> Nat]
    BY <1>1, <2>1 DEF FeedInv, FeedTypes, Apply
  <2>4. FeedTypes'
    BY <1>1, <2>2, <2>3 DEF FeedInv, FeedTypes
  <2>5. ShownIsBehind'
    <3>1. CASE Accepted
      <4>1. shown' = cargo /\ shownUnder' = selected'
        BY <2>1, <3>1 DEF Apply
      <4>2. selected' \in Channels => hand.ch = selected'
        BY <1>1, <3>1, VerdictFollowsTheChoice
      <4> QED BY <1>1, <2>1, <4>1, <4>2 DEF ShownIsBehind
    <3>2. CASE ~Accepted
      BY <1>1, <2>1, <3>2 DEF FeedInv, ShownIsBehind
    <3> QED BY <3>1, <3>2
  <2>6. \A i \in Prints : Counted(i)'
    BY <1>4, CountGoesOn
  <2> QED BY <1>1, <1>2, <2>4, <2>5, <2>6 DEF FeedInv
<1> QED BY <1>3, <1>4

LEMMA StutterKeepsInv ==
  ASSUME FeedInv, UNCHANGED feedVars
  PROVE  FeedInv'
<1>1. ArmInv'
  BY StepKeepsInv DEF FeedInv, feedVars
<1>2. UNCHANGED <<hand, selected, fast, sent, cargo, history>>
  BY DEF feedVars, armVars, history
<1> QED BY <1>1, <1>2 DEF FeedInv, FeedTypes, CargoIsFresh, ForcedIsKept, ShownIsBehind, Counted, history

LEMMA FeedStepShapes ==
  ASSUME [FeedNext]_feedVars
  PROVE  \/ \E c \in Channels, t \in now..(now + MaxGap) : NewFrame(c, t)
         \/ Observe \/ PassOn \/ UNCHANGED feedVars
  BY DEF FeedNext, NewFrame

LEMMA FeedStepKeepsInv == FeedInv /\ [FeedNext]_feedVars => FeedInv'
  BY FeedStepShapes, NewFrameKeepsInv, ObserveFeedKeepsInv, PassOnKeepsInv, StutterKeepsInv

\* The inductive invariant of the reader's loop holds in every state of every behaviour.
THEOREM FeedInvariant == FeedSpec => []FeedInv
<1>1. QED BY FeedInitInv, FeedStepKeepsInv, PTL DEF FeedSpec

\* A trade whose copies were all judged under one selection is passed on once, under
\* none as often as it came (accepts over note_frame and observe_trade).
THEOREM DeliveryFollowsTheChoice == FeedSpec => []ChoiceDecidesDelivery
<1>1. ASSUME FeedInv, NEW i \in Prints
      PROVE  /\ HeardOnAllArms(i) /\ (\E c \in Channels : choices[i] = {c}) => copies[i] = 1
             /\ choices[i] = {NoArm} => copies[i] = Cardinality(judged[i])
  BY <1>1 DEF FeedInv, Counted, HeardOnAllArms
<1>2. FeedInv => ChoiceDecidesDelivery
  BY <1>1 DEF ChoiceDecidesDelivery
<1>3. QED BY <1>2, FeedInvariant, PTL

\* While one arm stays selected, what a market shows is never rolled back by the other
\* arm's late copies (LiveState.apply behind accepts).
THEOREM NoRollBackUnderOneArm == FeedSpec => RollsBackOnlyOnAChange
<1>1. ASSUME FeedInv, [FeedNext]_feedVars, shown' < shown
      PROVE  selected' = NoArm \/ selected' # shownUnder
  <2>1. shown \in Nat /\ shown' # shown
    BY <1>1 DEF FeedInv, FeedTypes
  <2>2. PassOn
    BY <1>1, <2>1, FeedStepShapes DEF NewFrame, OtherFrame, Publish, Observe, history, feedVars
  <2>3. cargo # 0 /\ Accepted /\ shown' = cargo
    BY <2>1, <2>2 DEF PassOn, Apply, history
  <2>4. sent[hand.ch] = cargo /\ cargo \in Nat /\ selected' \in Arms
        /\ (selected' \in Channels => hand.ch = selected')
    BY <1>1, <2>2, <2>3, VerdictFollowsTheChoice, FeedAssumption
       DEF FeedInv, FeedTypes, CargoIsFresh, PassOn, Prints
  <2>5. ASSUME selected' \in Channels, selected' = shownUnder PROVE FALSE
    <3>1. shown <= sent[hand.ch]
      BY <1>1, <2>4, <2>5 DEF FeedInv, ShownIsBehind
    <3> QED BY <1>1, <2>1, <2>3, <2>4, <3>1
  <2> QED BY <2>4, <2>5 DEF Arms
<1>2. FeedInv /\ [FeedNext]_feedVars =>
        [shown' < shown => selected' = NoArm \/ selected' # shownUnder]_feedVars
  BY <1>1
<1>3. QED BY <1>2, FeedInvariant, PTL DEF FeedSpec, RollsBackOnlyOnAChange

-----------------------------------------------------------------------------
(* Where one arm leads. *)

TwoArms == \A a, b, c \in Channels : a = b \/ b = c \/ a = c
OwnKeys == \A i, j \in Prints : KeyOf[i] = KeyOf[j] => i = j

\* A sighting of another arm waits for good: the leading arm has sent that trade, or
\* lost it, and has no copy of it to offer any more.
LateSightingsWait ==
  \A i \in Prints :
    pending[KeyOf[i]] # NoSighting /\ pending[KeyOf[i]].ch # fast =>
      i <= sent[fast] /\ ~(hand.todo # <<>> /\ hand.ch = fast /\ cargo = i)

LeaderInv ==
  fast # NoArm =>
    /\ selected \in {NoArm, fast}
    /\ \A n \in DOMAIN outcomes : outcomes[n].win = fast
    /\ cargo # 0 => cargo <= sent[fast]
    /\ LateSightingsWait
    /\ \A i \in Prints : choices[i] \subseteq {NoArm, fast}
    /\ \A i \in Prints : fast \in judged[i] => copies[i] >= 1

LEMMA LeaderInit ==
  ASSUME Unforced, FeedInit
  PROVE  LeaderInv
  BY FeedAssumption DEF FeedInit, ArmInit, LeaderInv, LateSightingsWait, Unforced

LEMMA NewFrameKeepsLeader ==
  ASSUME FeedInv, FeedInv', LeaderInv, NEW c \in Channels, NEW t \in now..(now + MaxGap), NewFrame(c, t)
  PROVE  LeaderInv'
<1> SUFFICES ASSUME fast' # NoArm PROVE LeaderInv'
  BY DEF LeaderInv
<1>1. /\ UNCHANGED <<fast, selected, outcomes, pending, choices, judged, copies>> /\ hand'.ch = c
      /\ fast \in Channels
  BY DEF NewFrame, OtherFrame, Publish, NoteFrame, history, FeedInv, FeedTypes, Arms
<1>2. /\ selected' \in {NoArm, fast'} /\ \A n \in DOMAIN outcomes' : outcomes'[n].win = fast'
      /\ \A i \in Prints : choices'[i] \subseteq {NoArm, fast'}
      /\ \A i \in Prints : fast' \in judged'[i] => copies'[i] >= 1
  BY <1>1 DEF LeaderInv
<1>3. CASE OtherFrame(c, t)
  <2>1. UNCHANGED <<sent, cargo>> /\ hand'.todo = <<>>
    BY <1>3 DEF OtherFrame, NoteFrame
  <2> QED BY <1>1, <1>2, <2>1 DEF LeaderInv, LateSightingsWait
<1>4. ASSUME NEW i \in Prints, Publish(c, i, t) PROVE LeaderInv'
  <2>1. /\ i \in Nat /\ i > sent[c] /\ sent' = [sent EXCEPT ![c] = i] /\ cargo' = i
        /\ c # fast => i <= sent[fast]
        /\ sent \in [Channels -> Nat]
    <3>1. /\ i \in Nat /\ i \in (sent[c] + 1)..(sent[c] + 1 + MaxLost)
          /\ sent \in [Channels -> Nat]
      BY <1>4, FeedAssumption DEF Publish, Prints, FeedInv, FeedTypes
    <3>2. i > sent[c]
      BY <3>1, FeedAssumption
    <3> QED BY <1>1, <1>4, <3>1, <3>2 DEF Publish
  <2>2. /\ sent'[fast] \in Nat /\ sent[fast] \in Nat /\ sent[fast] <= sent'[fast] /\ i <= sent'[fast]
        /\ c = fast => i > sent[fast]
    BY <1>1, <2>1
  <2>3. LateSightingsWait'
    <3> SUFFICES ASSUME NEW j \in Prints, pending[KeyOf[j]] # NoSighting, pending[KeyOf[j]].ch # fast
                 PROVE  j <= sent'[fast] /\ ~(c = fast /\ i = j)
      BY <1>1, <2>1 DEF LateSightingsWait
    <3>1. j <= sent[fast] /\ j \in Nat
      BY <1>1, FeedAssumption DEF LeaderInv, LateSightingsWait, Prints
    <3> QED BY <2>1, <2>2, <3>1
  <2> QED BY <1>1, <1>2, <2>1, <2>2, <2>3 DEF LeaderInv
<1> QED BY <1>3, <1>4 DEF NewFrame

LEMMA ObserveKeepsLeader ==
  ASSUME Unforced, TwoArms, OwnKeys, FeedInv, FeedInv', LeaderInv, Observe
  PROVE  LeaderInv'
<1> SUFFICES ASSUME fast' # NoArm PROVE LeaderInv'
  BY DEF LeaderInv
<1>1. /\ UNCHANGED <<fast, sent, cargo, choices, judged, copies>> /\ ObserveTrade
      /\ fast \in Channels /\ fast # NoArm
  BY DEF Observe, history, FeedInv, FeedTypes, Arms
<1>2. cargo \in Prints /\ hand.todo = <<KeyOf[cargo]>> /\ hand.ch \in Channels /\ cargo <= sent[fast]
  BY <1>1 DEF ObserveTrade, FeedInv, CargoIsFresh, FeedTypes, LeaderInv
<1>3. Key = KeyOf[cargo] /\ KeyOf[cargo] \in Keys /\ hand'.todo = <<>>
  <2>1. hand' = [hand EXCEPT !.todo = Tail(hand.todo)] /\ hand \in [ch : Arms, todo : Seq(Keys)]
    BY <1>1 DEF ObserveTrade, FeedInv, ArmInv, ArmTypeOK
  <2>2. Tail(<<KeyOf[cargo]>>) = <<>> /\ Head(<<KeyOf[cargo]>>) = KeyOf[cargo]
    OBVIOUS
  <2> QED BY <1>2, <2>1, <2>2, FeedAssumption DEF Key
<1>4. \A k \in Keys : Swept[k] \in {pending[k], NoSighting}
  BY DEF Swept, FeedInv, ArmInv, ArmTypeOK
<1>5. \A k \in Keys : k # Key => pending'[k] \in {pending[k], NoSighting}
  <2>1. Swept \in [Keys -> [ch : Arms, at : Nat]]
    BY SweptFacts DEF FeedInv, ArmInv
  <2> QED BY <1>1, <1>4, <2>1 DEF ObserveTrade, FirstSighting, SameArmAgain, StaleSighting, PairUp
<1>6. LateSightingsWait'
  <2> SUFFICES ASSUME NEW i \in Prints, pending'[KeyOf[i]] # NoSighting, pending'[KeyOf[i]].ch # fast
               PROVE  i <= sent[fast]
    BY <1>1, <1>3 DEF LateSightingsWait
  <2>1. CASE i = cargo
    BY <1>2, <2>1
  <2>2. CASE i # cargo
    <3>1. KeyOf[i] # Key /\ KeyOf[i] \in Keys
      BY <1>2, <1>3, <2>2, FeedAssumption DEF OwnKeys
    <3> QED BY <1>1, <1>5, <3>1 DEF LeaderInv, LateSightingsWait
  <2> QED BY <2>1, <2>2
<1>7. /\ selected' \in {NoArm, fast}
      /\ \A n \in DOMAIN outcomes' : outcomes'[n].win = fast
  <2>1. CASE FirstSighting \/ SameArmAgain \/ StaleSighting
    BY <1>1, <2>1 DEF FirstSighting, SameArmAgain, StaleSighting, LeaderInv
  <2>2. CASE PairUp
    <3>1. Prev = pending[KeyOf[cargo]] /\ Prev # NoSighting /\ Prev.ch # hand.ch /\ Prev.ch \in Channels
      BY <1>3, <1>4, <2>2 DEF PairUp, Prev, FeedInv, ArmInv, SightingsArePast
    <3>2. Prev.ch = fast
      <4> SUFFICES ASSUME Prev.ch # fast PROVE FALSE
        OBVIOUS
      <4>1. hand.ch # fast
        BY <1>1, <1>2, <3>1 DEF LeaderInv, LateSightingsWait
      <4> QED BY <1>1, <1>2, <3>1, <4>1 DEF TwoArms
    <3>3. Race \in Outcome /\ Race.win = fast /\ outcomes' = Push(outcomes, Race)
      <4>1. Prev.at \in Nat /\ now \in Nat /\ Prev.at <= now
        BY <1>3, <3>1 DEF FeedInv, ArmInv, ArmTypeOK, SightingsArePast
      <4> QED BY <1>2, <2>2, <3>1, <3>2, <4>1 DEF Race, PairUp, Outcome
    <3>4. \A n \in DOMAIN outcomes' : outcomes'[n].win = fast
      <4>1. outcomes \in Seq(Outcome)
        BY DEF FeedInv, ArmInv, ArmTypeOK, Outcome
      <4>2. \A n \in DOMAIN outcomes' :
              outcomes'[n] = Race \/ \E m \in DOMAIN outcomes : outcomes'[n] = outcomes[m]
        BY <3>3, <4>1, PushFacts
      <4> QED BY <1>1, <3>3, <4>2 DEF LeaderInv
    <3>5. selected' \in {NoArm, fast}
      <4>1. CASE UNCHANGED selected
        BY <1>1, <4>1 DEF LeaderInv
      <4>2. CASE MostCommon(selected', outcomes')
        BY <3>4, <4>2 DEF MostCommon
      <4> QED BY <2>2, <4>1, <4>2 DEF PairUp, Resolve
    <3> QED BY <3>4, <3>5
  <2> QED BY <1>1, <2>1, <2>2 DEF ObserveTrade
<1> QED BY <1>1, <1>2, <1>6, <1>7 DEF LeaderInv

LEMMA PassOnKeepsLeader ==
  ASSUME FeedInv, FeedInv', LeaderInv, PassOn
  PROVE  LeaderInv'
<1> SUFFICES ASSUME fast' # NoArm PROVE LeaderInv'
  BY DEF LeaderInv
<1>1. /\ UNCHANGED <<fast, sent, pending>> /\ Accepts /\ hand' = Idle /\ cargo' = 0
      /\ fast \in Channels /\ fast # NoArm
      /\ selected' = NoArm \/ selected' = selected
      /\ selected' = NoArm => Accepted
      /\ selected' \in Channels => (Accepted <=> hand.ch = selected')
  BY VerdictFollowsTheChoice DEF PassOn, Accepts, FeedInv, FeedTypes, Arms
<1>2. selected' \in {NoArm, fast'} /\ \A n \in DOMAIN outcomes' : outcomes'[n].win = fast'
  <2>1. outcomes' = <<>> \/ outcomes' = outcomes
    BY <1>1 DEF Accepts, Release
  <2> QED BY <1>1, <2>1 DEF LeaderInv
<1>3. LateSightingsWait'
  BY <1>1 DEF LeaderInv, LateSightingsWait, Idle
<1>4. CASE cargo = 0
  BY <1>1, <1>2, <1>3, <1>4 DEF PassOn, history, LeaderInv
<1>5. CASE cargo # 0
  <2>1. /\ judged' = [judged EXCEPT ![cargo] = judged[cargo] \cup {hand.ch}]
        /\ choices' = [choices EXCEPT ![cargo] = choices[cargo] \cup {selected'}]
        /\ copies' = IF Accepted THEN [copies EXCEPT ![cargo] = copies[cargo] + 1] ELSE copies
        /\ judged \in [Prints -> SUBSET Channels] /\ choices \in [Prints -> SUBSET Arms]
        /\ copies \in [Prints -> Nat]
    BY <1>5 DEF PassOn, Apply, FeedInv, FeedTypes
  <2>2. \A i \in Prints : choices'[i] \subseteq {NoArm, fast'}
    BY <1>1, <1>2, <2>1 DEF LeaderInv
  <2>3. ASSUME NEW i \in Prints, fast' \in judged'[i] PROVE copies'[i] >= 1
    <3>1. CASE fast \in judged[i]
      <4>1. copies[i] >= 1 /\ copies[i] \in Nat /\ copies'[i] \in {copies[i], copies[i] + 1}
        BY <1>1, <2>1, <3>1 DEF LeaderInv
      <4> QED BY <4>1
    <3>2. CASE fast \notin judged[i]
      <4>1. i = cargo /\ hand.ch = fast
        BY <1>1, <2>1, <2>3, <3>2
      <4>2. Accepted
        BY <1>1, <1>2, <4>1
      <4> QED BY <2>1, <4>1, <4>2
    <3> QED BY <3>1, <3>2
  <2> QED BY <1>1, <1>2, <1>3, <2>2, <2>3 DEF LeaderInv
<1> QED BY <1>4, <1>5

LEMMA LeaderStep ==
  ASSUME Unforced, TwoArms, OwnKeys, FeedInv, FeedInv', LeaderInv, [FeedNext]_feedVars
  PROVE  LeaderInv'
<1>1. CASE UNCHANGED feedVars
  <2>1. UNCHANGED <<hand, selected, pending, outcomes, fast, sent, cargo, copies, judged, choices>>
    BY <1>1 DEF feedVars, armVars
  <2> QED BY <2>1 DEF LeaderInv, LateSightingsWait
<1> QED BY <1>1, FeedStepShapes, NewFrameKeepsLeader, ObserveKeepsLeader, PassOnKeepsLeader

LEMMA LeaderInvariant ==
  ASSUME Unforced, TwoArms, OwnKeys
  PROVE  FeedSpec => []LeaderInv
<1>1. FeedInit => LeaderInv
  BY LeaderInit
<1>2. FeedInv /\ FeedInv' /\ LeaderInv /\ [FeedNext]_feedVars => LeaderInv'
  BY LeaderStep
<1>3. QED BY <1>1, <1>2, FeedInvariant, PTL DEF FeedSpec

\* Of two arms, one of which leads, no other is ever selected, whatever is lost and
\* however often the choice is made again, where no two trades share a key (_resolve).
THEOREM TheLeaderIsSelected ==
  ASSUME Unforced, TwoArms, OwnKeys
  PROVE  FeedSpec => []LeadingArmIsSelected
<1>1. LeaderInv => LeadingArmIsSelected
  BY DEF LeaderInv, LeadingArmIsSelected
<1>2. QED BY <1>1, LeaderInvariant, PTL

\* ... and no trade that both arms carried is lost to the choice, or passed on twice but
\* while there was none.
THEOREM TheLeaderLosesNothing ==
  ASSUME Unforced, TwoArms, OwnKeys
  PROVE  FeedSpec => []LeadingArmLosesNothing
<1>1. ASSUME FeedInv, LeaderInv, NEW i \in Prints, fast # NoArm, HeardOnAllArms(i)
      PROVE  copies[i] >= 1 /\ (copies[i] > 1 => NoArm \in choices[i])
  <2>1. fast \in Channels /\ fast \in judged[i] /\ copies[i] \in Nat
    BY <1>1 DEF FeedInv, FeedTypes, Arms, HeardOnAllArms
  <2>2. choices[i] \subseteq {fast} => copies[i] = 1
    BY <1>1, <2>1 DEF FeedInv, Counted
  <2>3. copies[i] >= 1 /\ choices[i] \subseteq {NoArm, fast}
    BY <1>1, <2>1 DEF LeaderInv
  <2> QED BY <2>1, <2>2, <2>3
<1>2. FeedInv /\ LeaderInv => LeadingArmLosesNothing
  BY <1>1 DEF LeadingArmLosesNothing
<1>3. QED BY <1>2, FeedInvariant, LeaderInvariant, PTL
-----------------------------------------------------------------------------
(* A forced arm. *)

\* Every copy that went through accepts() was judged under the forced arm.
JudgedUnderForced ==
  \A i \in Prints : choices[i] \subseteq {Forced}

\* With --dz-channel the selection never moves, so a trade that every arm carried is
\* passed on exactly once ("arbitrate, don't merge", arms.py:17): the hole that an
\* automatic choice can leave takes a selection that moves between two copies.
THEOREM ForcedArmPassesOnce ==
  ASSUME ~Unforced
  PROVE  FeedSpec => []SettledTradePassesOnce
<1>1. FeedInit => JudgedUnderForced
  BY DEF FeedInit, JudgedUnderForced
<1>2. ASSUME FeedInv, FeedInv', JudgedUnderForced, [FeedNext]_feedVars
      PROVE  JudgedUnderForced'
  <2>1. CASE PassOn
    <3>1. selected' = Forced
      BY <1>2 DEF FeedInv, ForcedIsKept
    <3>2. CASE cargo = 0
      BY <1>2, <2>1, <3>2 DEF PassOn, history, JudgedUnderForced
    <3>3. CASE cargo # 0
      <4>1. choices' = [choices EXCEPT ![cargo] = @ \cup {Forced}]
        BY <2>1, <3>1, <3>3 DEF PassOn
      <4> QED BY <1>2, <4>1 DEF JudgedUnderForced, FeedInv, FeedTypes
    <3> QED BY <3>2, <3>3
  <2>2. CASE ~PassOn
    BY <1>2, <2>2 DEF FeedNext, OtherFrame, Publish, Observe, history, feedVars, JudgedUnderForced
  <2> QED BY <2>1, <2>2
<1>3. ASSUME FeedInv, JudgedUnderForced PROVE SettledTradePassesOnce
  <2> SUFFICES ASSUME NEW i \in Prints, HeardOnAllArms(i) PROVE copies[i] = 1
    BY DEF SettledTradePassesOnce
  <2>1. Forced \in Channels
    BY ArmAssumption DEF Unforced
  <2> QED BY <1>3, <2>1 DEF FeedInv, Counted, HeardOnAllArms, JudgedUnderForced
<1>4. FeedInv /\ FeedInv' /\ JudgedUnderForced /\ [FeedNext]_feedVars => JudgedUnderForced'
  BY <1>2
<1> QED BY <1>1, <1>3, <1>4, FeedInvariant, PTL DEF FeedSpec
=============================================================================
