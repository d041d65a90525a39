------------------------------- MODULE ArmFeed -------------------------------
(***************************************************************************)
(* The arbiter at work in a reader (scripts/dz_latency_race.py _dz_reader; *)
(* demo/runner.py and scripts/dz_live_feed.py have the same loop): the     *)
(* venue's trades 1..Trades are published by every arm, in order and with  *)
(* losses, one per frame, between frames that carry no trade; the reader   *)
(* offers each frame to the arbiter and passes on the trades of the frames *)
(* it accepts.                                                             *)
(*                                                                         *)
(* `sent` and `cargo` are the wire and the reader's local variables, and   *)
(* `shown` is what dz_live_feed's LiveState has of the trades passed on,   *)
(* the last one; `shownUnder`, `copies`, `judged` and `choices` record,    *)
(* for the properties only, what became of every trade.                    *)
(***************************************************************************)
EXTENDS ArmArbiter

CONSTANTS
  Trades,   \* bound: how many trades the venue prints
  MaxLost,  \* bound: how many trades in a row an arm loses
  KeyOf,    \* the (market, price, size) of each
  Leaders   \* the arms that may lead, or NoArm for none that always does

Prints == 1..Trades

ASSUME FeedAssumption ==
  /\ Trades \in Nat /\ MaxLost \in Nat /\ KeyOf \in [Prints -> Keys]
  /\ Leaders \subseteq Channels \cup {NoArm}

VARIABLES
  fast,      \* the arm that publishes every trade before the others do, or NoArm
  sent,      \* the last trade each arm has published
  cargo,     \* the trade in the frame in hand, 0 if it carries none
  shown,     \* LiveState's last trade of the market, 0 before the first
  shownUnder,\* the selection under which it was passed on
  copies,    \* how often each trade was passed on
  judged,    \* the arms whose copy of it went through accepts()
  choices    \* the selections those calls left behind

feedVars == <<armVars, fast, sent, cargo, shown, shownUnder, copies, judged, choices>>
history  == <<shown, shownUnder, copies, judged, choices>>

FeedInit ==
  /\ ArmInit
  /\ fast \in Leaders
  /\ sent = [c \in Channels |-> 0]
  /\ cargo = 0
  /\ shown = 0 /\ shownUnder = NoArm
  /\ copies = [i \in Prints |-> 0]
  /\ judged = [i \in Prints |-> {}]
  /\ choices = [i \in Prints |-> {}]

\* The frames of an arm come in its own order; those in between were lost.
Publish(c, i, t) ==
  /\ i \in (sent[c] + 1)..(sent[c] + 1 + MaxLost)
  /\ fast \notin {NoArm, c} => i <= sent[fast]
  /\ NoteFrame(c, <<KeyOf[i]>>, t)
  /\ sent' = [sent EXCEPT ![c] = i]
  /\ cargo' = i
  /\ UNCHANGED <<fast, history>>

\* A quote, a heartbeat or a definition: note_frame and accepts, no trade.
OtherFrame(c, t) ==
  /\ NoteFrame(c, <<>>, t)
  /\ UNCHANGED <<fast, sent, cargo, history>>

Observe ==
  /\ ObserveTrade
  /\ UNCHANGED <<fast, sent, cargo, history>>

\* LiveState.apply of a trade: the row of its market shows the last one applied.
Apply(i) ==
  /\ shown' = i
  /\ shownUnder' = selected'
  /\ copies' = [copies EXCEPT ![i] = @ + 1]

\* `if not arbiter.accepts(channel, t): continue`, else the trades go on.
PassOn ==
  /\ Accepts
  /\ cargo' = 0
  /\ IF cargo = 0
     THEN UNCHANGED history
     ELSE /\ IF Accepted THEN Apply(cargo) ELSE UNCHANGED <<shown, shownUnder, copies>>
          /\ judged' = [judged EXCEPT ![cargo] = @ \cup {hand.ch}]
          /\ choices' = [choices EXCEPT ![cargo] = @ \cup {selected'}]
  /\ UNCHANGED <<fast, sent>>

FeedNext ==
  \/ \E c \in Channels, t \in now..(now + MaxGap) :
       OtherFrame(c, t) \/ \E i \in Prints : Publish(c, i, t)
  \/ Observe
  \/ PassOn

FeedSpec == FeedInit /\ [][FeedNext]_feedVars

-----------------------------------------------------------------------------
(* Properties. *)

HeardOnAllArms(i) == judged[i] = Channels

\* What the selection was while a trade's copies were judged decides how often it
\* is passed on: once if they were all judged under one and the same selection, as
\* often as it came if no selection had been made. A hole or a duplicate takes a
\* change of selection between the copies, and a release never loses one.
ChoiceDecidesDelivery ==
  \A i \in Prints :
    /\ HeardOnAllArms(i) /\ (\E c \in Channels : choices[i] = {c}) => copies[i] = 1
    /\ choices[i] = {NoArm} => copies[i] = Cardinality(judged[i])

\* The row a market shows is rolled back to an older trade only across a change of
\* selection: while one arm stays selected the other's late copies never reach it
\* ("applying it on top of a fresher update rolled the book back to a stale top of
\* book in 9.5% of all quotes", scripts/dz_live_feed.py:169).
RollsBackOnlyOnAChange ==
  [][shown' < shown => selected' = NoArm \/ selected' # shownUnder]_feedVars

\* Where one arm always leads, it is the only one ever selected ("picks the arm
\* that is observed to lead"), whatever is lost and however often the choice
\* has to be made again.
LeadingArmIsSelected == fast # NoArm => selected \in {NoArm, fast}

\* ... and then a trade that both arms carried always reaches the reader, and
\* more than once only if a copy of it was judged while no arm was selected.
LeadingArmLosesNothing ==
  \A i \in Prints :
    fast # NoArm /\ HeardOnAllArms(i) =>
      copies[i] >= 1 /\ (copies[i] > 1 => NoArm \in choices[i])

\* Once an arm is selected, a trade that both arms carry is passed on once:
\* "arbitrate, don't merge" (arms.py:17), and it is "the duplicate arm" that is
\* dropped (arms.py:50), not both.
SettledTradePassesOnce ==
  \A i \in Prints : HeardOnAllArms(i) /\ NoArm \notin choices[i] => copies[i] = 1
=============================================================================
