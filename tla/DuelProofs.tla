----------------------------- MODULE DuelProofs -----------------------------
(***************************************************************************)
(* What holds of the duel for any number of prints and markets, any limits *)
(* and any delays.  The invariant comes in layers: BaseInv, the types and  *)
(* the timeline; TimeInv about stamps and the horizon; CountInv about      *)
(* where each decision is; MeetInv about the duel of each print, and on it *)
(* RowInv about the headline.                                              *)
(***************************************************************************)
EXTENDS Duel, SequenceTheorems, FiniteSetTheorems, TLAPS

-----------------------------------------------------------------------------
(* The timeline of one market. *)

Increasing(line) == \A n \in 1..(Len(line) - 1) : line[n].at < line[n + 1].at

\* Dropping from the left keeps the end of a timeline.
LEMMA HalfFacts ==
  ASSUME NEW S, NEW line \in Seq(S), NEW k \in 1..Len(line)
  PROVE  LET rest == SubSeq(line, k, Len(line)) IN
         /\ rest \in Seq(S) /\ Len(rest) = Len(line) - k + 1
         /\ \A n \in 1..Len(rest) : rest[n] = line[n + k - 1]
<1>1. Len(line) \in Nat /\ \A i \in k..Len(line) : line[i] \in S
  BY ElementOfSeq
<1>2. k \in Int /\ Len(line) \in Int /\ k <= Len(line)
  BY <1>1
<1>3. /\ SubSeq(line, k, Len(line)) \in Seq(S)
      /\ Len(SubSeq(line, k, Len(line))) = Len(line) - k + 1
      /\ \A n \in 1..(Len(line) - k + 1) : SubSeq(line, k, Len(line))[n] = line[k + n - 1]
  BY <1>1, <1>2, SubSeqProperties
<1> QED BY <1>2, <1>3

\* A book no older than the last is the last afterwards, in the order of the stamps
\* (GroundTruth.record).
LEMMA RecordFacts ==
  ASSUME NEW line \in Seq(Book), NEW book \in Book, Increasing(line),
         line # <<>> => LastOf(line).at <= book.at
  PROVE  /\ Record(line, book) \in Seq(Book)
         /\ Record(line, book) # <<>> /\ LastOf(Record(line, book)) = book
         /\ Increasing(Record(line, book))
<1> DEFINE longer == Append(line, book)
<1>1. Len(line) \in Nat /\ book.at \in Nat /\ \A n \in 1..Len(line) : line[n] \in Book /\ line[n].at \in Nat
  <2>1. Len(line) \in Nat /\ \A n \in 1..Len(line) : line[n] \in Book
    BY ElementOfSeq
  <2> QED BY <2>1 DEF Book
<1>2. line = <<>> \/ LastOf(line).at \in Nat
  BY <1>1 DEF LastOf
<1>3. CASE line # <<>> /\ book.at = LastOf(line).at
  <2>1. Len(line) \in 1..Len(line) /\ Len(line) > 0
    BY <1>1, <1>3
  <2>2. Record(line, book) = [line EXCEPT ![Len(line)] = book]
    BY <1>1, <1>3 DEF Record
  <2>3. /\ Record(line, book) \in Seq(Book) /\ Len(Record(line, book)) = Len(line)
        /\ \A n \in 1..Len(line) : Record(line, book)[n] = IF n = Len(line) THEN book ELSE line[n]
    BY <2>1, <2>2, ExceptSeq
  <2>4. LastOf(Record(line, book)) = book /\ Record(line, book) # <<>>
    BY <2>1, <2>3 DEF LastOf
  <2>5. \A n \in 1..Len(line) : Record(line, book)[n].at = line[n].at
    BY <1>1, <1>3, <2>3 DEF LastOf
  <2>6. Increasing(Record(line, book))
    BY <1>1, <2>3, <2>5 DEF Increasing
  <2> QED BY <2>3, <2>4, <2>6
<1>4. CASE line = <<>> \/ LastOf(line).at < book.at
  <2>1. /\ longer \in Seq(Book) /\ Len(longer) = Len(line) + 1 /\ longer[Len(longer)] = book
        /\ \A n \in 1..Len(line) : longer[n] = line[n]
    BY <1>1
  <2>2. Increasing(longer)
    <3> SUFFICES ASSUME NEW n \in 1..(Len(longer) - 1) PROVE longer[n].at < longer[n + 1].at
      BY DEF Increasing
    <3>1. CASE n = Len(line)
      BY <1>1, <1>4, <2>1, <3>1 DEF LastOf
    <3>2. CASE n < Len(line)
      <4>1. n \in 1..(Len(line) - 1) /\ n + 1 \in 1..Len(line) /\ n \in 1..Len(line)
        BY <1>1, <3>2
      <4> QED BY <2>1, <4>1 DEF Increasing
    <3> QED BY <1>1, <2>1, <3>1, <3>2
  <2>3. CASE Len(longer) <= MaxBooks
    <3>1. Record(line, book) = longer
      BY <1>1, <1>4, <2>1, <2>3, TimelineAssumption DEF Record, LastOf
    <3> QED BY <1>1, <2>1, <2>2, <3>1 DEF LastOf
  <2>4. CASE Len(longer) > MaxBooks
    <3> DEFINE k == (Len(longer) \div 2) + 1
               rest == SubSeq(longer, k, Len(longer))
    <3>1. Record(line, book) = rest
      <4>1. ~(line # <<>> /\ book.at < LastOf(line).at) /\ ~(line # <<>> /\ book.at = LastOf(line).at)
        BY <1>1, <1>4, <1>2
      <4> QED BY <2>4, <4>1 DEF Record
    <3>2. k \in 1..Len(longer)
      <4>1. Len(longer) \in Nat /\ Len(longer) >= 2
        BY <1>1, <2>1, <2>4, TimelineAssumption
      <4> QED BY <4>1
    <3>3. /\ rest \in Seq(Book) /\ Len(rest) = Len(longer) - k + 1
          /\ \A n \in 1..Len(rest) : rest[n] = longer[n + k - 1]
      BY <2>1, <3>2, HalfFacts
    <3> HIDE DEF k, rest
    <3>4. Len(rest) \in Nat /\ Len(rest) >= 1 /\ rest[Len(rest)] = book
      BY <1>1, <2>1, <3>2, <3>3
    <3>5. Increasing(rest)
      <4> SUFFICES ASSUME NEW n \in 1..(Len(rest) - 1) PROVE rest[n].at < rest[n + 1].at
        BY DEF Increasing
      <4>1. /\ n \in 1..Len(rest) /\ n + 1 \in 1..Len(rest) /\ (n + 1) + k - 1 = (n + k - 1) + 1
            /\ n + k - 1 \in 1..(Len(longer) - 1)
        BY <1>1, <2>1, <3>2, <3>3, <3>4
      <4>2. rest[n] = longer[n + k - 1] /\ rest[n + 1] = longer[(n + k - 1) + 1]
        BY <3>3, <4>1
      <4> QED BY <2>2, <4>1, <4>2 DEF Increasing
    <3> QED BY <3>1, <3>3, <3>4, <3>5 DEF LastOf
  <2> QED BY <1>1, <2>1, <2>3, <2>4, TimelineAssumption
<1> QED BY <1>1, <1>3, <1>4, <1>2
-----------------------------------------------------------------------------
(* Types, and the timeline. *)

BaseInv ==
  /\ DuelTypeOK
  /\ \A f \in Feeds : hand[f].t <= mono
  /\ \A m \in Markets : bots[DZ][m].book.at <= hand[DZ].t
  /\ TruthIsTheDzBook

LEMMA BaseInit == DuelInit => BaseInv
<1> SUFFICES ASSUME DuelInit PROVE BaseInv
  OBVIOUS
<1>1. NewBot \in Bot /\ NewBot.position = 0 /\ NewBot.book.at = 0
  BY DEF NewBot, Bot, Book, Price, NoPrice
<1>2. /\ <<>> \in Seq(Event) /\ <<>> \in Seq(Book) /\ <<>> \in Seq(Intent)
      /\ <<>> \in Seq([at : Nat, dz : BOOLEAN, public : BOOLEAN, lead : Int])
  BY EmptySeq
<1>3. \A f \in Feeds, m \in Markets : bots[f][m].position \in (-MaxPosition)..MaxPosition
  BY <1>1, ConfigAssumption DEF DuelInit
<1>4. NoDuel \in [made : Nat, sides : [Feeds -> Fill]]
  BY DEF NoDuel, NoFill, Fill
<1>5. NoVerdict \in [at : Nat, arrives : Nat, filled : BOOLEAN] /\ Nothing \in [t : Nat, todo : Seq(Event)]
  BY <1>2 DEF NoVerdict, Nothing
<1>6. /\ bots \in [Feeds -> [Markets -> Bot]] /\ counts \in [Feeds -> Nat]
      /\ truth \in [Markets -> Seq(Book)] /\ pending \in Seq(Intent)
      /\ hand \in [Feeds -> [t : Nat, todo : Seq(Event)]] /\ mono \in Nat
  BY <1>1, <1>2, <1>5 DEF DuelInit
<1>7. /\ duels \in [Keys -> [made : Nat, sides : [Feeds -> Fill]]]
      /\ boards \in [Feeds -> [intents : Nat, fills : Nat]]
      /\ settled \in Seq([at : Nat, dz : BOOLEAN, public : BOOLEAN, lead : Int])
      /\ writer \in [stage : {"sleep", "ready", "judging"}, now : Nat]
      /\ verdicts \in [Feeds -> [Prints -> [at : Nat, arrives : Nat, filled : BOOLEAN]]]
      /\ taken \in [Feeds -> SUBSET Prints] /\ quotes \in [Feeds -> Nat]
  BY <1>2, <1>4, <1>5 DEF DuelInit
<1>8. DuelTypeOK
  BY <1>3, <1>6, <1>7 DEF DuelTypeOK
<1>9. TruthIsTheDzBook
  BY DEF DuelInit, TruthIsTheDzBook
<1>10. \A f \in Feeds : hand[f].t <= mono
  BY DEF DuelInit, Nothing
<1>11. DZ \in Feeds /\ \A m \in Markets : bots[DZ][m].book.at <= hand[DZ].t
  BY <1>1 DEF DuelInit, Nothing, Feeds
<1> QED BY <1>8, <1>9, <1>10, <1>11 DEF BaseInv

\* A message's events.
ReadStep(f) ==
  \/ \E events \in (IF f = DZ THEN DzQuotes ELSE PubQuotes) : ReadQuotes(f, events)
  \/ \E i \in Prints : ReadTrade(f, i)

TradeEvent(i) == [kind |-> "trade", market |-> MarketOf[i], price |-> PriceOf[i], of |-> i]

LEMMA QuoteIsEvent == Quote \subseteq Event
  BY DEF Quote, Event

LEMMA TradeIsEvent == \A i \in Prints : TradeEvent(i) \in Event
  BY PrintAssumption DEF TradeEvent, Event, Markets

LEMMA ReadEffect ==
  ASSUME BaseInv, NEW f \in Feeds, ReadStep(f)
  PROVE  /\ hand[f].todo = <<>> /\ (f = PUBLIC => writer.stage = "sleep")
         /\ hand'[f].t = mono /\ \A g \in Feeds : g # f => hand'[g] = hand[g]
         /\ hand' \in [Feeds -> [t : Nat, todo : Seq(Event)]]
         /\ UNCHANGED <<mono, writer, verdicts, state>>
         /\ \/ hand'[f].todo \in Seq(Quote) /\ taken' = taken
            \/ \E i \in Prints \ taken[f] :
                 /\ hand'[f].todo = <<TradeEvent(i)>>
                 /\ taken' = [taken EXCEPT ![f] = taken[f] \cup {i}]
         /\ taken' \in [Feeds -> SUBSET Prints] /\ quotes' \in [Feeds -> Nat]
<1> USE DEF BaseInv, DuelTypeOK
<1>1. mono \in Nat /\ hand \in [Feeds -> [t : Nat, todo : Seq(Event)]]
  OBVIOUS
<1>2. ASSUME NEW events \in Seq(Quote), ReadQuotes(f, events)
      PROVE  /\ Read(f, events) /\ events \in Seq(Event) /\ taken' = taken /\ quotes' \in [Feeds -> Nat]
  BY <1>2, QuoteIsEvent, SeqMonotonic DEF ReadQuotes
<1>3. ASSUME NEW i \in Prints, ReadTrade(f, i)
      PROVE  /\ Read(f, <<TradeEvent(i)>>) /\ <<TradeEvent(i)>> \in Seq(Event)
             /\ i \in Prints \ taken[f] /\ taken' = [taken EXCEPT ![f] = taken[f] \cup {i}]
             /\ taken' \in [Feeds -> SUBSET Prints] /\ quotes' = quotes
  <2>1. TradeEvent(i) \in Event
    BY TradeIsEvent
  <2>2. <<TradeEvent(i)>> \in Seq(Event)
    BY <2>1
  <2>3. /\ Read(f, <<TradeEvent(i)>>) /\ i \notin taken[f] /\ quotes' = quotes
        /\ taken' = [taken EXCEPT ![f] = taken[f] \cup {i}]
    BY <1>3 DEF ReadTrade, TradeEvent
  <2>4. taken' \in [Feeds -> SUBSET Prints]
    <3>1. taken \in [Feeds -> SUBSET Prints]
      OBVIOUS
    <3>2. taken[f] \cup {i} \in SUBSET Prints
      BY <3>1
    <3> HIDE DEF BaseInv, DuelTypeOK
    <3> QED BY <2>3, <3>1, <3>2
  <2> HIDE DEF BaseInv, DuelTypeOK
  <2> QED BY <2>2, <2>3, <2>4
<1>4. ASSUME NEW events \in Seq(Event), Read(f, events)
      PROVE  /\ hand[f].todo = <<>> /\ (f = PUBLIC => writer.stage = "sleep")
             /\ hand'[f].t = mono /\ hand'[f].todo = events
             /\ \A g \in Feeds : g # f => hand'[g] = hand[g]
             /\ hand' \in [Feeds -> [t : Nat, todo : Seq(Event)]]
             /\ UNCHANGED <<mono, writer, verdicts, state>>
  BY <1>1, <1>4 DEF Read, MayRead
<1>5. CASE \E events \in (IF f = DZ THEN DzQuotes ELSE PubQuotes) : ReadQuotes(f, events)
  <2>1. PICK events \in Seq(Quote) : ReadQuotes(f, events)
    BY <1>5, DuelAssumption
  <2> QED BY <2>1, <1>2, <1>4
<1>6. CASE \E i \in Prints : ReadTrade(f, i)
  <2>1. PICK i \in Prints : ReadTrade(f, i)
    BY <1>6
  <2> QED BY <2>1, <1>3, <1>4
<1> QED BY <1>5, <1>6 DEF ReadStep

LEMMA ReadKeepsBase ==
  ASSUME BaseInv, NEW f \in Feeds, ReadStep(f)
  PROVE  BaseInv'
<1>1. /\ hand'[f].t = mono /\ \A g \in Feeds : g # f => hand'[g] = hand[g]
      /\ hand' \in [Feeds -> [t : Nat, todo : Seq(Event)]]
      /\ UNCHANGED <<mono, writer, verdicts, state>>
      /\ taken' \in [Feeds -> SUBSET Prints] /\ quotes' \in [Feeds -> Nat]
  BY ReadEffect
<1>2. DuelTypeOK'
  BY <1>1 DEF BaseInv, DuelTypeOK, state
<1>3. TruthIsTheDzBook'
  BY <1>1 DEF BaseInv, TruthIsTheDzBook, state
<1>4. mono \in Nat /\ \A g \in Feeds : hand[g].t \in Nat /\ hand'[g].t <= mono /\ hand[g].t <= hand'[g].t
  <2>1. mono \in Nat /\ hand \in [Feeds -> [t : Nat, todo : Seq(Event)]]
    BY DEF BaseInv, DuelTypeOK
  <2>2. ASSUME NEW g \in Feeds
        PROVE  hand[g].t \in Nat /\ hand'[g].t <= mono /\ hand[g].t <= hand'[g].t
    <3>1. hand[g].t \in Nat /\ hand[g].t <= mono
      BY <2>1 DEF BaseInv
    <3>2. hand'[g] = hand[g] \/ hand'[g].t = mono
      BY <1>1
    <3> QED BY <2>1, <3>1, <3>2
  <2> QED BY <2>1, <2>2
<1>5. ASSUME NEW m \in Markets PROVE bots'[DZ][m].book.at <= hand'[DZ].t
  <2>1. bots' = bots /\ DZ \in Feeds /\ bots[DZ][m].book.at \in Nat
    BY <1>1 DEF state, Feeds, BaseInv, DuelTypeOK, Bot, Book
  <2>2. hand[DZ].t <= hand'[DZ].t /\ hand[DZ].t \in Nat /\ hand'[DZ].t \in Nat
    BY <1>1, <1>4, <2>1
  <2> QED BY <2>1, <2>2 DEF BaseInv
<1> QED BY <1>1, <1>2, <1>3, <1>4, <1>5 DEF BaseInv
-----------------------------------------------------------------------------
(* on_event *)

EventOf(f) == Head(hand[f].todo)

LEMMA OnEventEffect ==
  ASSUME BaseInv, NEW f \in Feeds, OnEvent(f)
  PROVE  /\ hand[f].todo # <<>> /\ hand[f].todo \in Seq(Event) /\ EventOf(f) \in Event /\ hand[f].t \in Nat
         /\ writer.stage # "judging"
         /\ hand'[f].t = hand[f].t /\ hand'[f].todo = Tail(hand[f].todo)
         /\ \A g \in Feeds : g # f => hand'[g] = hand[g]
         /\ hand' \in [Feeds -> [t : Nat, todo : Seq(Event)]]
         /\ counts' \in [Feeds -> Nat]
         /\ UNCHANGED <<mono, taken, quotes, duels, boards, settled, writer, verdicts>>
         /\ \/ EventOf(f).kind # "trade" /\ OnQuote(f, EventOf(f), hand[f].t)
            \/ EventOf(f).kind = "trade" /\ OnFiring(f, EventOf(f), hand[f].t)
            \/ EventOf(f).kind = "trade" /\ OnIdlePrint(f, EventOf(f), hand[f].t)
<1>1. hand \in [Feeds -> [t : Nat, todo : Seq(Event)]] /\ counts \in [Feeds -> Nat]
  BY DEF BaseInv, DuelTypeOK
<1>2. /\ hand[f].todo # <<>> /\ writer.stage # "judging"
      /\ counts' = [counts EXCEPT ![f] = counts[f] + 1]
      /\ hand' = [hand EXCEPT ![f] = [hand[f] EXCEPT !.todo = Tail(hand[f].todo)]]
      /\ UNCHANGED <<mono, taken, quotes, duels, boards, settled, writer, verdicts>>
  BY DEF OnEvent
<1>3. /\ hand[f] \in [t : Nat, todo : Seq(Event)] /\ hand[f].todo \in Seq(Event) /\ hand[f].t \in Nat
      /\ EventOf(f) \in Event /\ Tail(hand[f].todo) \in Seq(Event)
  BY <1>1, <1>2, HeadTailProperties DEF EventOf
<1>4. [hand[f] EXCEPT !.todo = Tail(hand[f].todo)] \in [t : Nat, todo : Seq(Event)]
  BY <1>3
<1>5. /\ hand'[f].t = hand[f].t /\ hand'[f].todo = Tail(hand[f].todo)
      /\ \A g \in Feeds : g # f => hand'[g] = hand[g]
      /\ hand' \in [Feeds -> [t : Nat, todo : Seq(Event)]]
  BY <1>1, <1>2, <1>3, <1>4
<1>6. counts' \in [Feeds -> Nat]
  <2>1. counts[f] + 1 \in Nat
    BY <1>1
  <2> QED BY <1>1, <1>2, <2>1
<1>7. \/ EventOf(f).kind # "trade" /\ OnQuote(f, EventOf(f), hand[f].t)
      \/ EventOf(f).kind = "trade" /\ OnFiring(f, EventOf(f), hand[f].t)
      \/ EventOf(f).kind = "trade" /\ OnIdlePrint(f, EventOf(f), hand[f].t)
  BY DEF OnEvent, EventOf
<1> QED BY <1>2, <1>3, <1>5, <1>6, <1>7

\* One bot in one market is changed, the others are not.
LEMMA OneBot ==
  ASSUME NEW old \in [Feeds -> [Markets -> Bot]], NEW f \in Feeds, NEW m \in Markets, NEW b \in Bot
  PROVE  LET new == [old EXCEPT ![f] = [old[f] EXCEPT ![m] = b]] IN
         /\ new \in [Feeds -> [Markets -> Bot]] /\ new[f][m] = b
         /\ \A g \in Feeds, n \in Markets : ~(g = f /\ n = m) => new[g][n] = old[g][n]
<1>1. old[f] \in [Markets -> Bot]
  OBVIOUS
<1>2. [old[f] EXCEPT ![m] = b] \in [Markets -> Bot]
  BY <1>1
<1> QED BY <1>1, <1>2

LEMMA QuoteEffect ==
  ASSUME BaseInv, NEW f \in Feeds, NEW e \in Event, NEW t \in Nat, e.kind # "trade", OnQuote(f, e, t)
  PROVE  LET book == Apply(bots[f][e.market].book, e, t) IN
         /\ book \in Book /\ book.at = t /\ e.market \in Markets
         /\ bots' \in [Feeds -> [Markets -> Bot]]
         /\ bots'[f][e.market] = [bots[f][e.market] EXCEPT !.book = book]
         /\ \A g \in Feeds, m \in Markets : ~(g = f /\ m = e.market) => bots'[g][m] = bots[g][m]
         /\ truth' = IF f = DZ THEN [truth EXCEPT ![e.market] = Record(truth[e.market], book)] ELSE truth
         /\ pending' = pending
<1> DEFINE m == e.market
           book == Apply(bots[f][m].book, e, t)
<1>1. bots \in [Feeds -> [Markets -> Bot]] /\ m \in Markets /\ e.price \in Price
  BY DEF BaseInv, DuelTypeOK, Event
<1>2. bots[f][m] \in Bot /\ bots[f][m].book \in Book
  BY <1>1 DEF Bot
<1>3. book \in Book /\ book.at = t
  BY <1>1, <1>2 DEF Apply, Book
<1>4. /\ bots' = [bots EXCEPT ![f] = [bots[f] EXCEPT ![m] = [bots[f][m] EXCEPT !.book = book]]]
      /\ truth' = IF f = DZ THEN [truth EXCEPT ![m] = Record(truth[m], book)] ELSE truth
      /\ pending' = pending
  BY DEF OnQuote
<1> HIDE DEF book
<1>5. [bots[f][m] EXCEPT !.book = book] \in Bot
  BY <1>2, <1>3 DEF Bot
<1> QED BY <1>1, <1>3, <1>4, <1>5, OneBot DEF book

LEMMA FiringEffect ==
  ASSUME BaseInv, NEW f \in Feeds, NEW e \in Event, NEW t \in Nat, OnFiring(f, e, t)
  PROVE  LET old == bots[f][e.market]
             new == Acted(old, SideOf[e.of], t) IN
         /\ e.market \in Markets /\ e.of \in Prints /\ SideOf[e.of] \in {"buy", "sell"}
         /\ old \in Bot /\ new \in Bot /\ new.book = old.book
         /\ new.position = old.position + Signed(SideOf[e.of])
         /\ new.position \in (-MaxPosition)..MaxPosition
         /\ bots' \in [Feeds -> [Markets -> Bot]]
         /\ bots'[f][e.market] = new
         /\ \A g \in Feeds, m \in Markets : ~(g = f /\ m = e.market) => bots'[g][m] = bots[g][m]
         /\ IntentOn(f, e, t) \in Intent
         /\ pending' = IF e.of \in Stamped THEN Append(pending, IntentOn(f, e, t)) ELSE pending
         /\ truth' = truth
<1> DEFINE m == e.market
           s == SideOf[e.of]
           new == Acted(bots[f][m], s, t)
<1>1. bots \in [Feeds -> [Markets -> Bot]] /\ m \in Markets
  BY DEF BaseInv, DuelTypeOK, Event
<1>2. e.of \in Prints /\ s \in {"buy", "sell"}
  BY PrintAssumption DEF OnFiring
<1>3. bots[f][m] \in Bot /\ bots[f][m].book \in Book /\ bots[f][m].position \in Int /\ Signed(s) \in Int
  BY <1>1, ConfigAssumption DEF Bot, Signed
<1>4. /\ Fires(bots[f][m], s, e.price, t)
      /\ bots' = [bots EXCEPT ![f] = [bots[f] EXCEPT ![m] = new]]
      /\ pending' = IF e.of \in Stamped THEN Append(pending, IntentOn(f, e, t)) ELSE pending
      /\ truth' = truth
  BY DEF OnFiring
<1>5. /\ new \in Bot /\ new.book = bots[f][m].book /\ new.position = bots[f][m].position + Signed(s)
      /\ new.position \in (-MaxPosition)..MaxPosition
  <2>1. t + Cooldown \in Nat
    BY ConfigAssumption
  <2>2. /\ new = [bots[f][m] EXCEPT !.position = bots[f][m].position + Signed(s), !.coolUntil = t + Cooldown]
        /\ bots[f][m].position + Signed(s) \in (-MaxPosition)..MaxPosition
    BY <1>4 DEF Acted, Fires
  <2> HIDE DEF new
  <2>3. bots[f][m] \in [book : Book, position : Int, coolUntil : Nat]
    BY <1>3 DEF Bot
  <2>4. bots[f][m].position + Signed(s) \in Int
    BY <1>3
  <2>5. new \in Bot /\ new.book = bots[f][m].book /\ new.position = bots[f][m].position + Signed(s)
    BY <2>1, <2>2, <2>3, <2>4 DEF Bot
  <2> QED BY <2>2, <2>5
<1>6. IntentOn(f, e, t) \in Intent
  <2>1. Target(bots[f][m].book, s) \in Price \ {NoPrice}
    BY <1>3, <1>4 DEF Fires, Takeable, Target, Book
  <2> QED BY <1>2, <2>1 DEF IntentOn, Intent
<1> HIDE DEF new
<1> QED BY <1>1, <1>2, <1>3, <1>4, <1>5, <1>6, OneBot DEF new

LEMMA OnEventKeepsBase ==
  ASSUME BaseInv, NEW f \in Feeds, OnEvent(f)
  PROVE  BaseInv'
<1> DEFINE e == EventOf(f)
           t == hand[f].t
<1>1. /\ e \in Event /\ t \in Nat /\ DZ \in Feeds
      /\ \A g \in Feeds : hand'[g].t = hand[g].t
      /\ hand' \in [Feeds -> [t : Nat, todo : Seq(Event)]]
      /\ counts' \in [Feeds -> Nat]
      /\ UNCHANGED <<mono, taken, quotes, duels, boards, settled, writer, verdicts>>
      /\ \/ e.kind # "trade" /\ OnQuote(f, e, t)
         \/ e.kind = "trade" /\ OnFiring(f, e, t)
         \/ e.kind = "trade" /\ OnIdlePrint(f, e, t)
  BY OnEventEffect DEF Feeds
<1> HIDE DEF e, t
<1>2. /\ bots \in [Feeds -> [Markets -> Bot]] /\ truth \in [Markets -> Seq(Book)] /\ pending \in Seq(Intent)
      /\ \A g \in Feeds, m \in Markets : bots[g][m].position \in (-MaxPosition)..MaxPosition
      /\ \A m \in Markets : bots[DZ][m].book.at <= hand[DZ].t
      /\ TruthIsTheDzBook
  BY DEF BaseInv, DuelTypeOK
<1>3. /\ bots' \in [Feeds -> [Markets -> Bot]] /\ truth' \in [Markets -> Seq(Book)] /\ pending' \in Seq(Intent)
      /\ \A g \in Feeds, m \in Markets : bots'[g][m].position \in (-MaxPosition)..MaxPosition
      /\ \A m \in Markets : bots'[DZ][m].book.at <= hand[DZ].t
      /\ TruthIsTheDzBook'
  <2>1. CASE e.kind # "trade" /\ OnQuote(f, e, t)
    <3> DEFINE m == e.market
               book == Apply(bots[f][m].book, e, t)
    <3>1. /\ book \in Book /\ book.at = t /\ m \in Markets
          /\ bots' \in [Feeds -> [Markets -> Bot]]
          /\ bots'[f][m] = [bots[f][m] EXCEPT !.book = book]
          /\ \A g \in Feeds, n \in Markets : ~(g = f /\ n = m) => bots'[g][n] = bots[g][n]
          /\ truth' = IF f = DZ THEN [truth EXCEPT ![m] = Record(truth[m], book)] ELSE truth
          /\ pending' = pending
      BY <1>1, <2>1, QuoteEffect
    <3> HIDE DEF m, book
    <3>2. bots'[f][m].book = book /\ bots'[f][m].position = bots[f][m].position
      BY <1>2, <3>1 DEF Bot
    <3>3. \A g \in Feeds, n \in Markets : bots'[g][n].position \in (-MaxPosition)..MaxPosition
      <4> SUFFICES ASSUME NEW g \in Feeds, NEW n \in Markets
                   PROVE  bots'[g][n].position = bots[g][n].position
        BY <1>2
      <4> QED BY <3>1, <3>2
    <3>4. CASE f # DZ
      BY <1>1, <1>2, <3>1, <3>3, <3>4 DEF TruthIsTheDzBook
    <3>5. CASE f = DZ
      <4>1. \A n \in Markets : bots'[DZ][n].book.at <= hand[DZ].t
        <5> SUFFICES ASSUME NEW n \in Markets PROVE bots'[DZ][n].book.at <= hand[DZ].t
          OBVIOUS
        <5>1. CASE n = m
          <6>1. t \in Nat /\ t = hand[DZ].t
            BY <1>1, <3>5 DEF t
          <6>2. bots'[DZ][n].book.at = t
            BY <3>1, <3>2, <3>5, <5>1
          <6> QED BY <6>1, <6>2
        <5>2. CASE n # m
          <6>1. bots'[DZ][n] = bots[DZ][n]
            BY <1>1, <3>1, <5>2
          <6> QED BY <1>2, <6>1
        <5> QED BY <5>1, <5>2
      <4>2. /\ truth[m] \in Seq(Book) /\ Increasing(truth[m])
            /\ truth[m] # <<>> => LastOf(truth[m]).at <= book.at
        <5>1. truth[m] \in Seq(Book) /\ bots[DZ][m].book.at <= book.at
          BY <1>2, <3>1, <3>5 DEF t
        <5>2. Increasing(truth[m]) /\ (truth[m] = <<>> \/ LastOf(truth[m]) = bots[DZ][m].book)
          BY <1>2, <3>1 DEF TruthIsTheDzBook, Increasing
        <5> QED BY <5>1, <5>2
      <4>3. /\ Record(truth[m], book) \in Seq(Book) /\ Increasing(Record(truth[m], book))
            /\ LastOf(Record(truth[m], book)) = book
        BY <3>1, <4>2, RecordFacts
      <4>4. truth' = [truth EXCEPT ![m] = Record(truth[m], book)] /\ truth' \in [Markets -> Seq(Book)]
        BY <1>2, <3>1, <3>5, <4>3
      <4>5. \A n \in Markets : truth'[n] = IF n = m THEN Record(truth[m], book) ELSE truth[n]
        BY <1>2, <4>4
      <4>6. ASSUME NEW n \in Markets
            PROVE  Increasing(truth'[n]) /\ (truth'[n] = <<>> \/ LastOf(truth'[n]) = bots'[DZ][n].book)
        <5>1. CASE n = m
          BY <3>2, <3>5, <4>3, <4>5, <5>1
        <5>2. CASE n # m
          BY <1>1, <1>2, <3>1, <4>5, <5>2 DEF TruthIsTheDzBook, Increasing
        <5> QED BY <5>1, <5>2
      <4>7. TruthIsTheDzBook'
        BY <4>6 DEF TruthIsTheDzBook, Increasing, LastOf
      <4> QED BY <1>2, <3>1, <3>3, <4>1, <4>4, <4>7
    <3> QED BY <3>4, <3>5
  <2>2. CASE OnFiring(f, e, t)
    <3> DEFINE m == e.market
               new == Acted(bots[f][m], SideOf[e.of], t)
    <3>1. /\ m \in Markets /\ new.book = bots[f][m].book
          /\ new.position \in (-MaxPosition)..MaxPosition
          /\ bots' \in [Feeds -> [Markets -> Bot]]
          /\ bots'[f][m] = new
          /\ \A g \in Feeds, n \in Markets : ~(g = f /\ n = m) => bots'[g][n] = bots[g][n]
          /\ IntentOn(f, e, t) \in Intent
          /\ pending' = IF e.of \in Stamped THEN Append(pending, IntentOn(f, e, t)) ELSE pending
          /\ truth' = truth
      BY <1>1, <2>2, FiringEffect
    <3> HIDE DEF m, new
    <3>2. pending' \in Seq(Intent)
      BY <1>2, <3>1
    <3>3. \A g \in Feeds, n \in Markets :
            bots'[g][n].book = bots[g][n].book /\ bots'[g][n].position \in (-MaxPosition)..MaxPosition
      BY <1>2, <3>1
    <3>4. TruthIsTheDzBook'
      BY <1>1, <1>2, <3>1, <3>3 DEF TruthIsTheDzBook
    <3> QED BY <1>1, <1>2, <3>1, <3>2, <3>3, <3>4
  <2>3. CASE OnIdlePrint(f, e, t)
    BY <1>2, <2>3 DEF OnIdlePrint, TruthIsTheDzBook
  <2> QED BY <1>1, <2>1, <2>2, <2>3
<1>4. DuelTypeOK'
  BY <1>1, <1>3 DEF BaseInv, DuelTypeOK
<1>5. \A g \in Feeds : hand'[g].t <= mono'
  BY <1>1 DEF BaseInv
<1> QED BY <1>1, <1>3, <1>4, <1>5 DEF BaseInv
-----------------------------------------------------------------------------
(* settle_due *)

Verdict == [at : Nat, arrives : Nat, filled : BOOLEAN]
Row     == [at : Nat, dz : BOOLEAN, public : BOOLEAN, lead : Int]
Pair    == [made : Nat, sides : [Feeds -> Fill]]

LEMMA PairFacts ==
  ASSUME BaseInv, NEW d \in Pair, NEW f \in Feeds, NEW fill \in Fill
  PROVE  /\ Opened(d) \in Pair /\ WithSide(d, f, fill) \in Pair /\ NoDuel \in Pair
         /\ Settlement(d) \in Row
<1>1. writer.now \in Nat
  BY DEF BaseInv, DuelTypeOK
<1>2. NoDuel \in Pair
  BY DEF NoDuel, NoFill, Fill, Pair
<1>3. [NoDuel EXCEPT !.made = writer.now] \in Pair
  BY <1>1, <1>2 DEF Pair
<1>4. Opened(d) \in Pair
  BY <1>3 DEF Opened
<1>5. WithSide(d, f, fill) \in Pair
  <2>1. d.sides \in [Feeds -> Fill] /\ [d.sides EXCEPT ![f] = fill] \in [Feeds -> Fill]
    BY DEF Pair
  <2>2. [d EXCEPT !.sides = [d.sides EXCEPT ![f] = fill]] \in Pair
    BY <2>1 DEF Pair
  <2> QED BY <2>2 DEF WithSide
<1>6. Settlement(d) \in Row
  <2>1. \A g \in Feeds : d.sides[g] \in [t : Nat, filled : BOOLEAN]
    BY DEF Pair, Fill
  <2>2. d.sides[DZ].filled \in BOOLEAN /\ d.sides[PUBLIC].filled \in BOOLEAN
        /\ d.sides[DZ].t \in Nat /\ d.sides[PUBLIC].t \in Nat
    BY <2>1 DEF Feeds
  <2>3. d.sides[PUBLIC].t - d.sides[DZ].t \in Int
    BY <2>2
  <2> QED BY <1>1, <2>2, <2>3 DEF Settlement, Row
<1> QED BY <1>2, <1>4, <1>5, <1>6

LEMMA SettleEffect ==
  ASSUME BaseInv, SettleOne
  PROVE  LET p == Head(pending) IN
         /\ pending # <<>> /\ p \in Intent /\ p = pending[1]
         /\ pending' = Tail(pending) /\ pending' \in Seq(Intent)
         /\ writer.now - p.t > Horizon /\ writer.stage = "judging"
         /\ Judged(p) \in BOOLEAN
         /\ boards' = [boards EXCEPT ![p.by] = Credit(boards[p.by], Judged(p))]
         /\ boards' \in [Feeds -> [intents : Nat, fills : Nat]]
         /\ verdicts' = [verdicts EXCEPT ![p.by] =
              [verdicts[p.by] EXCEPT ![p.of] = [at |-> writer.now, arrives |-> p.t + Reaction, filled |-> Judged(p)]]]
         /\ verdicts' \in [Feeds -> [Prints -> Verdict]]
         /\ duels' \in [Keys -> Pair] /\ settled' \in Seq(Row)
         /\ UNCHANGED <<mono, hand, taken, quotes, counts, bots, truth, writer>>
<1> DEFINE p == Head(pending)
           k == KeyOf[p.of]
           fill == [t |-> p.t, filled |-> Judged(p)]
           duel == WithSide(Opened(duels[k]), p.by, fill)
           v == [at |-> writer.now, arrives |-> p.t + Reaction, filled |-> Judged(p)]
<1>1. /\ pending \in Seq(Intent) /\ boards \in [Feeds -> [intents : Nat, fills : Nat]]
      /\ verdicts \in [Feeds -> [Prints -> Verdict]] /\ duels \in [Keys -> Pair]
      /\ settled \in Seq(Row) /\ writer.now \in Nat
  BY DEF BaseInv, DuelTypeOK, Verdict, Pair, Row
<1>2. /\ pending # <<>> /\ writer.now - p.t > Horizon /\ pending' = Tail(pending) /\ writer.stage = "judging"
      /\ boards' = [boards EXCEPT ![p.by] = Credit(boards[p.by], Judged(p))]
      /\ duels' = [duels EXCEPT ![k] = duel]
      /\ settled' = IF BothActed(duel) THEN Append(settled, Settlement(duel)) ELSE settled
      /\ verdicts' = [verdicts EXCEPT ![p.by] = [verdicts[p.by] EXCEPT ![p.of] = v]]
      /\ UNCHANGED <<mono, hand, taken, quotes, counts, bots, truth, writer>>
  BY DEF SettleOne, HeadIsDue
<1>3. p \in Intent /\ Tail(pending) \in Seq(Intent) /\ p = pending[1]
  BY <1>1, <1>2, HeadTailProperties
<1>4. p.by \in Feeds /\ p.of \in Prints /\ p.t \in Nat /\ k \in Keys
  BY <1>3 DEF Intent, Keys
<1>5. Judged(p) \in BOOLEAN
  BY DEF Judged, Filled, Takeable
<1>6. v \in Verdict /\ fill \in Fill
  <2>1. p.t + Reaction \in Nat
    BY <1>4, DuelAssumption
  <2> QED BY <1>1, <1>4, <1>5, <2>1 DEF Verdict, Fill
<1> HIDE DEF v, fill, k, p
<1>7. boards' \in [Feeds -> [intents : Nat, fills : Nat]]
  <2>1. boards[p.by] \in [intents : Nat, fills : Nat]
    BY <1>1, <1>4
  <2>2. Credit(boards[p.by], Judged(p)) \in [intents : Nat, fills : Nat]
    BY <2>1 DEF Credit
  <2> QED BY <1>1, <1>2, <1>4, <2>2
<1>8. verdicts' \in [Feeds -> [Prints -> Verdict]]
  <2>1. [verdicts[p.by] EXCEPT ![p.of] = v] \in [Prints -> Verdict]
    BY <1>1, <1>4, <1>6
  <2> QED BY <1>1, <1>2, <1>4, <2>1
<1>9. duel \in Pair /\ Settlement(duel) \in Row
  <2>1. duels[k] \in Pair
    BY <1>1, <1>4
  <2>2. Opened(duels[k]) \in Pair
    BY <1>4, <1>6, <2>1, PairFacts
  <2>3. duel \in Pair
    BY <1>4, <1>6, <2>2, PairFacts
  <2> QED BY <1>4, <1>6, <2>3, PairFacts
<1> HIDE DEF duel
<1>10. duels' \in [Keys -> Pair] /\ settled' \in Seq(Row)
  BY <1>1, <1>2, <1>4, <1>9
<1> QED BY <1>2, <1>3, <1>5, <1>7, <1>8, <1>10 DEF v, p

LEMMA SettleOneKeepsBase ==
  ASSUME BaseInv, SettleOne
  PROVE  BaseInv'
<1>1. /\ pending' \in Seq(Intent) /\ boards' \in [Feeds -> [intents : Nat, fills : Nat]]
      /\ verdicts' \in [Feeds -> [Prints -> Verdict]]
      /\ duels' \in [Keys -> Pair] /\ settled' \in Seq(Row)
      /\ UNCHANGED <<mono, hand, taken, quotes, counts, bots, truth, writer>>
  BY SettleEffect
<1>2. DuelTypeOK'
  BY <1>1 DEF BaseInv, DuelTypeOK, Verdict, Pair, Row
<1> QED BY <1>1, <1>2 DEF BaseInv, TruthIsTheDzBook

LEMMA SettleEndKeepsBase ==
  ASSUME BaseInv, SettleEnd
  PROVE  BaseInv'
<1>1. /\ UNCHANGED <<mono, hand, taken, quotes, counts, bots, truth, pending, boards, verdicts>>
      /\ writer' = [writer EXCEPT !.stage = "sleep"]
      /\ duels' = [k \in Keys |-> IF Gone(duels[k]) THEN NoDuel ELSE duels[k]]
  BY DEF SettleEnd
<1>2. /\ settled \in Seq(Row) /\ duels \in [Keys -> Pair]
      /\ writer \in [stage : {"sleep", "ready", "judging"}, now : Nat]
  BY DEF BaseInv, DuelTypeOK, Row, Pair
<1>3. duels' \in [Keys -> Pair]
  <2>1. NoDuel \in Pair
    BY DEF NoDuel, NoFill, Fill, Pair
  <2> QED BY <1>1, <1>2, <2>1
<1>4. settled' \in Seq(Row)
  <2>1. PICK n \in 0..Len(settled) : settled' = SubSeq(settled, n + 1, Len(settled))
    BY DEF SettleEnd
  <2>2. n + 1 \in Int /\ Len(settled) \in Int /\ \A i \in (n + 1)..Len(settled) : settled[i] \in Row
    <3>1. Len(settled) \in Nat /\ \A i \in 1..Len(settled) : settled[i] \in Row
      BY <1>2, ElementOfSeq
    <3> QED BY <3>1
  <2> QED BY <2>1, <2>2, SubSeqProperties
<1>5. writer' \in [stage : {"sleep", "ready", "judging"}, now : Nat]
  BY <1>1, <1>2
<1>6. DuelTypeOK'
  BY <1>1, <1>3, <1>4, <1>5 DEF BaseInv, DuelTypeOK, Row, Pair
<1> QED BY <1>1, <1>6 DEF BaseInv, TruthIsTheDzBook

\* The steps that touch the clock or the writer alone.
ClockStep == Tick \/ SettleStart \/ SettleLock

LEMMA ClockKeepsBase ==
  ASSUME BaseInv, ClockStep
  PROVE  BaseInv' /\ UNCHANGED <<hand, taken, quotes, verdicts, state>> /\ mono' >= mono
<1>1. UNCHANGED <<hand, taken, quotes, verdicts, state>>
  BY DEF ClockStep, Tick, SettleStart, SettleLock
<1>2. mono \in Nat /\ writer \in [stage : {"sleep", "ready", "judging"}, now : Nat]
      /\ \A f \in Feeds : hand[f].t \in Nat
  BY DEF BaseInv, DuelTypeOK
<1>3. mono' \in Nat /\ mono' >= mono /\ writer' \in [stage : {"sleep", "ready", "judging"}, now : Nat]
  BY <1>2 DEF ClockStep, Tick, SettleStart, SettleLock
<1>4. DuelTypeOK'
  BY <1>1, <1>3 DEF BaseInv, DuelTypeOK, state
<1>5. \A f \in Feeds : hand'[f].t <= mono'
  BY <1>1, <1>2, <1>3 DEF BaseInv
<1> QED BY <1>1, <1>3, <1>4, <1>5 DEF BaseInv, TruthIsTheDzBook, state

LEMMA DuelShapes ==
  ASSUME [DuelNext]_vars
  PROVE  \/ ClockStep \/ (\E f \in Feeds : ReadStep(f)) \/ (\E f \in Feeds : OnEvent(f))
         \/ SettleOne \/ SettleEnd \/ UNCHANGED vars
<1>1. DZ \in Feeds /\ PUBLIC \in Feeds /\ PUBLIC # DZ
  BY DEF DZ, PUBLIC, Feeds
<1> QED BY <1>1 DEF DuelNext, ClockStep, ReadStep

LEMMA BaseStep == BaseInv /\ [DuelNext]_vars => BaseInv'
<1> SUFFICES ASSUME BaseInv, [DuelNext]_vars PROVE BaseInv'
  OBVIOUS
<1>1. CASE UNCHANGED vars
  BY <1>1 DEF vars, BaseInv, DuelTypeOK, TruthIsTheDzBook
<1> QED BY <1>1, DuelShapes, ClockKeepsBase, ReadKeepsBase, OnEventKeepsBase, SettleOneKeepsBase, SettleEndKeepsBase

LEMMA BaseHolds == DuelSpec => []BaseInv
<1>1. QED BY BaseInit, BaseStep, PTL DEF DuelSpec

\* The types of the duel's state, in every interleaving of the two readers and the
\* writer: in particular no bot goes past its limit.
THEOREM DuelTypesHold == DuelSpec => []DuelTypeOK
<1>1. BaseInv => DuelTypeOK
  BY DEF BaseInv
<1>2. QED BY <1>1, BaseHolds, PTL

\* The timeline fills are judged against is the DoubleZero bot's book as it changed, in
\* the order of the stamps (GroundTruth.record behind on_event).
THEOREM TimelineIsTheBook == DuelSpec => []TruthIsTheDzBook
<1>1. BaseInv => TruthIsTheDzBook
  BY DEF BaseInv
<1>2. QED BY <1>1, BaseHolds, PTL
-----------------------------------------------------------------------------
(* Stamps and the horizon. *)

\* A stamp is no older than a reader is held up; so the queue is in the order of the
\* stamps but for that much, and a verdict is given a mark-out after the moment it reads.
TimeInv ==
  /\ \A f \in Feeds : hand[f].todo # <<>> => mono <= hand[f].t + MaxStall
  /\ writer.now <= mono
  /\ \A n \in DOMAIN pending : pending[n].t <= mono
  /\ \A m, n \in DOMAIN pending : m < n => pending[m].t <= pending[n].t + MaxStall
  /\ \A f \in Feeds, i \in Prints : IsJudged(f, i) => verdicts[f][i].arrives + Markout < mono
  /\ OverdueIsBounded

LEMMA DelayTypes ==
  /\ Reaction \in Nat /\ Markout \in Nat /\ MaxStall \in Nat /\ Horizon \in Nat
  /\ Horizon = Markout + Reaction
  BY DuelAssumption DEF Horizon

LEMMA TimeTypes ==
  ASSUME BaseInv
  PROVE  /\ mono \in Nat /\ writer.now \in Nat
         /\ \A f \in Feeds : hand[f].t \in Nat /\ hand[f].todo \in Seq(Event)
         /\ pending \in Seq(Intent) /\ Len(pending) \in Nat /\ DOMAIN pending = 1..Len(pending)
         /\ \A n \in DOMAIN pending : pending[n] \in Intent /\ pending[n].t \in Nat
         /\ \A f \in Feeds, i \in Prints : verdicts[f][i].arrives \in Nat
<1>1. /\ mono \in Nat /\ writer \in [stage : {"sleep", "ready", "judging"}, now : Nat]
      /\ hand \in [Feeds -> [t : Nat, todo : Seq(Event)]] /\ pending \in Seq(Intent)
      /\ verdicts \in [Feeds -> [Prints -> [at : Nat, arrives : Nat, filled : BOOLEAN]]]
  BY DEF BaseInv, DuelTypeOK
<1>2. Len(pending) \in Nat /\ DOMAIN pending = 1..Len(pending)
  BY <1>1, LenProperties
<1>3. \A n \in 1..Len(pending) : pending[n] \in Intent
  BY <1>1, ElementOfSeq
<1>4. \A p \in Intent : p.t \in Nat
  BY DEF Intent
<1> QED BY <1>1, <1>2, <1>3, <1>4

LEMMA TimeInit == DuelInit => TimeInv
<1> SUFFICES ASSUME DuelInit PROVE TimeInv
  OBVIOUS
<1>1. /\ \A f \in Feeds : hand[f].todo = <<>>
      /\ \A f \in Feeds, i \in Prints : verdicts[f][i].at = 0
  BY DEF DuelInit, Nothing, NoVerdict
<1>2. mono = 1 /\ writer.now = 0 /\ pending = <<>> /\ DOMAIN pending = {}
  BY DEF DuelInit
<1> QED BY <1>1, <1>2 DEF TimeInv, IsJudged, OverdueIsBounded

LEMMA ClockKeepsTime ==
  ASSUME BaseInv, TimeInv, ClockStep
  PROVE  TimeInv'
<1>1. UNCHANGED <<hand, verdicts, pending>> /\ mono' \in Nat /\ mono' >= mono
  BY ClockKeepsBase DEF state, BaseInv, DuelTypeOK
<1>2. \A f \in Feeds : hand[f].todo # <<>> => mono' <= hand[f].t + MaxStall
  BY TimeTypes, DelayTypes DEF ClockStep, Tick, SettleStart, SettleLock, TimeInv
<1>3. writer'.now <= mono' /\ (writer'.stage = "sleep" => writer' = writer)
  BY <1>1, TimeTypes DEF ClockStep, Tick, SettleStart, SettleLock, TimeInv, BaseInv, DuelTypeOK
<1>4. /\ \A n \in DOMAIN pending : pending[n].t <= mono'
      /\ \A f \in Feeds, i \in Prints : IsJudged(f, i)' => verdicts[f][i].arrives + Markout < mono'
  BY <1>1, TimeTypes, DelayTypes DEF TimeInv, IsJudged
<1>5. OverdueIsBounded'
  BY <1>1, <1>3 DEF TimeInv, OverdueIsBounded
<1> QED BY <1>1, <1>2, <1>3, <1>4, <1>5 DEF TimeInv

LEMMA ReadKeepsTime ==
  ASSUME BaseInv, TimeInv, NEW f \in Feeds, ReadStep(f)
  PROVE  TimeInv'
<1>1. /\ hand'[f].t = mono /\ \A g \in Feeds : g # f => hand'[g] = hand[g]
      /\ UNCHANGED <<mono, writer, verdicts, pending>>
  BY ReadEffect DEF state
<1>2. mono <= mono + MaxStall
  BY TimeTypes, DelayTypes
<1>3. \A g \in Feeds : hand'[g].todo # <<>> => mono <= hand'[g].t + MaxStall
  BY <1>1, <1>2 DEF TimeInv
<1> QED BY <1>1, <1>3 DEF TimeInv, IsJudged, OverdueIsBounded

LEMMA OnEventKeepsTime ==
  ASSUME BaseInv, TimeInv, NEW f \in Feeds, OnEvent(f)
  PROVE  TimeInv'
<1>1. /\ hand[f].todo # <<>> /\ hand[f].t \in Nat /\ EventOf(f) \in Event
      /\ hand'[f].t = hand[f].t /\ \A g \in Feeds : g # f => hand'[g] = hand[g]
      /\ UNCHANGED <<mono, verdicts, writer>>
      /\ \/ EventOf(f).kind # "trade" /\ OnQuote(f, EventOf(f), hand[f].t)
         \/ EventOf(f).kind = "trade" /\ OnFiring(f, EventOf(f), hand[f].t)
         \/ EventOf(f).kind = "trade" /\ OnIdlePrint(f, EventOf(f), hand[f].t)
  BY OnEventEffect
<1>2. hand[f].t <= mono /\ mono <= hand[f].t + MaxStall
  BY <1>1 DEF BaseInv, TimeInv
<1>3. \A g \in Feeds : hand'[g].todo # <<>> => mono <= hand'[g].t + MaxStall
  BY <1>1, <1>2 DEF TimeInv
<1>4. \/ pending' = pending
      \/ \E p \in Intent : p.t = hand[f].t /\ pending' = Append(pending, p)
  <2>1. CASE OnQuote(f, EventOf(f), hand[f].t)
    BY <2>1 DEF OnQuote
  <2>2. CASE OnFiring(f, EventOf(f), hand[f].t)
    <3>1. /\ IntentOn(f, EventOf(f), hand[f].t) \in Intent
          /\ \/ pending' = pending
             \/ pending' = Append(pending, IntentOn(f, EventOf(f), hand[f].t))
      BY <1>1, <2>2, FiringEffect
    <3>2. IntentOn(f, EventOf(f), hand[f].t).t = hand[f].t
      BY DEF IntentOn
    <3> QED BY <3>1, <3>2
  <2>3. CASE OnIdlePrint(f, EventOf(f), hand[f].t)
    BY <2>3 DEF OnIdlePrint
  <2> QED BY <1>1, <2>1, <2>2, <2>3
<1>5. CASE pending' = pending
  BY <1>1, <1>3, <1>5 DEF TimeInv, IsJudged, OverdueIsBounded
<1>6. ASSUME NEW p \in Intent, p.t = hand[f].t, pending' = Append(pending, p) PROVE TimeInv'
  <2>1. /\ Len(pending) \in Nat /\ DOMAIN pending' = 1..(Len(pending) + 1)
        /\ pending'[Len(pending) + 1] = p /\ DOMAIN pending = 1..Len(pending)
        /\ \A n \in 1..Len(pending) : pending'[n] = pending[n] /\ pending[n].t \in Nat
    BY <1>6, TimeTypes
  <2>2. \A n \in DOMAIN pending' : pending'[n].t <= mono
    BY <1>2, <1>6, <2>1 DEF TimeInv
  <2>3. \A m, n \in DOMAIN pending' : m < n => pending'[m].t <= pending'[n].t + MaxStall
    <3> SUFFICES ASSUME NEW m \in DOMAIN pending', NEW n \in DOMAIN pending', m < n
                 PROVE  pending'[m].t <= pending'[n].t + MaxStall
      OBVIOUS
    <3>1. m \in 1..Len(pending) /\ pending'[m] = pending[m]
      BY <2>1
    <3>2. CASE n \in 1..Len(pending)
      BY <2>1, <3>1, <3>2 DEF TimeInv
    <3>3. CASE n = Len(pending) + 1
      <4>1. pending[m].t <= mono /\ pending[m].t \in Nat
        BY <2>1, <3>1 DEF TimeInv
      <4>2. pending'[n].t = hand[f].t
        BY <1>6, <2>1, <3>3
      <4> QED BY <1>1, <1>2, <3>1, <4>1, <4>2, TimeTypes, DelayTypes
    <3> QED BY <2>1, <3>2, <3>3
  <2>4. OverdueIsBounded'
    <3> SUFFICES ASSUME writer.stage = "sleep", NEW n \in DOMAIN pending'
                 PROVE  writer.now - pending'[n].t <= Horizon + MaxStall
      BY <1>1 DEF OverdueIsBounded
    <3>1. CASE n \in 1..Len(pending)
      BY <2>1, <3>1 DEF TimeInv, OverdueIsBounded
    <3>2. CASE n = Len(pending) + 1
      <4>1. pending'[n].t = hand[f].t /\ writer.now <= mono
        BY <1>6, <2>1, <3>2 DEF TimeInv
      <4> QED BY <1>1, <1>2, <4>1, TimeTypes, DelayTypes
    <3> QED BY <2>1, <3>1, <3>2
  <2> QED BY <1>1, <1>3, <2>2, <2>3, <2>4 DEF TimeInv, IsJudged
<1> QED BY <1>4, <1>5, <1>6

LEMMA SettleOneKeepsTime ==
  ASSUME BaseInv, TimeInv, SettleOne
  PROVE  TimeInv'
<1> DEFINE p == Head(pending)
<1>1. /\ pending # <<>> /\ p \in Intent /\ pending' = Tail(pending) /\ writer.now - p.t > Horizon
      /\ verdicts' = [verdicts EXCEPT ![p.by] =
           [verdicts[p.by] EXCEPT ![p.of] = [at |-> writer.now, arrives |-> p.t + Reaction, filled |-> Judged(p)]]]
      /\ UNCHANGED <<mono, hand, writer>> /\ writer.stage = "judging"
  BY SettleEffect
<1> HIDE DEF p
<1>2. /\ Len(pending) \in Nat /\ DOMAIN pending' = 1..(Len(pending) - 1) /\ DOMAIN pending = 1..Len(pending)
      /\ \A n \in 1..(Len(pending) - 1) : pending'[n] = pending[n + 1]
  BY <1>1, TimeTypes
<1>3. \A n \in DOMAIN pending' : pending'[n].t <= mono
  BY <1>2 DEF TimeInv
<1>4. ASSUME NEW m \in DOMAIN pending', NEW n \in DOMAIN pending', m < n
      PROVE  pending'[m].t <= pending'[n].t + MaxStall
  <2>1. m + 1 \in DOMAIN pending /\ n + 1 \in DOMAIN pending /\ m + 1 < n + 1
    BY <1>2, <1>4
  <2> QED BY <1>2, <2>1 DEF TimeInv
<1>5. ASSUME NEW f \in Feeds, NEW i \in Prints, IsJudged(f, i)'
      PROVE  verdicts'[f][i].arrives + Markout < mono
  <2>1. /\ p.by \in Feeds /\ p.of \in Prints /\ p.t \in Nat
        /\ verdicts \in [Feeds -> [Prints -> Verdict]]
    BY <1>1 DEF Intent, BaseInv, DuelTypeOK, Verdict
  <2>2. CASE f = p.by /\ i = p.of
    <3>1. verdicts'[f][i].arrives = p.t + Reaction
      BY <1>1, <2>1, <2>2
    <3> QED BY <1>1, <2>1, <3>1, TimeTypes, DelayTypes DEF TimeInv
  <2>3. CASE ~(f = p.by /\ i = p.of)
    <3>1. verdicts'[f][i] = verdicts[f][i]
      BY <1>1, <2>1, <2>3
    <3> QED BY <1>5, <3>1 DEF TimeInv, IsJudged
  <2> QED BY <2>2, <2>3
<1>6. OverdueIsBounded'
  BY <1>1 DEF OverdueIsBounded
<1> QED BY <1>1, <1>3, <1>4, <1>5, <1>6 DEF TimeInv

LEMMA SettleEndKeepsTime ==
  ASSUME BaseInv, TimeInv, SettleEnd
  PROVE  TimeInv'
<1>1. UNCHANGED <<mono, hand, pending, verdicts>> /\ ~HeadIsDue /\ writer'.now = writer.now
  BY DEF SettleEnd, RoundEnds, BaseInv, DuelTypeOK
<1>2. ASSUME NEW n \in DOMAIN pending PROVE writer.now - pending[n].t <= Horizon + MaxStall
  <2>1. /\ 1 \in DOMAIN pending /\ pending # <<>> /\ Head(pending) = pending[1]
        /\ pending[1].t \in Nat /\ pending[n].t \in Nat /\ writer.now \in Nat /\ n \in Nat /\ n >= 1
    BY <1>2, TimeTypes
  <2>2. writer.now - pending[1].t <= Horizon
    BY <1>1, <2>1, DelayTypes DEF HeadIsDue
  <2>3. n = 1 \/ pending[1].t <= pending[n].t + MaxStall
    BY <1>2, <2>1 DEF TimeInv
  <2> QED BY <2>1, <2>2, <2>3, DelayTypes
<1> QED BY <1>1, <1>2 DEF TimeInv, IsJudged, OverdueIsBounded

LEMMA TimeStep == BaseInv /\ TimeInv /\ [DuelNext]_vars => TimeInv'
<1> SUFFICES ASSUME BaseInv, TimeInv, [DuelNext]_vars PROVE TimeInv'
  OBVIOUS
<1>1. CASE UNCHANGED vars
  BY <1>1 DEF vars, TimeInv, IsJudged, OverdueIsBounded
<1> QED BY <1>1, DuelShapes, ClockKeepsTime, ReadKeepsTime, OnEventKeepsTime, SettleOneKeepsTime, SettleEndKeepsTime

LEMMA TimeHolds == DuelSpec => []TimeInv
<1>1. QED BY TimeInit, TimeStep, BaseHolds, PTL DEF DuelSpec

\* Nothing waits longer past its horizon than a reader was held up, although only the
\* head of the queue is looked at (settle_due).
THEOREM NothingWaitsLonger == DuelSpec => []OverdueIsBounded
<1>1. TimeInv => OverdueIsBounded
  BY DEF TimeInv
<1>2. QED BY <1>1, TimeHolds, PTL

\* No book is recorded at a time a verdict has already read past, while no reader is held
\* up for longer than the mark-out (on_event against settle_due).
THEOREM VerdictsAreFinal == DuelSpec => NothingJudgedTooEarly
<1>1. ASSUME BaseInv, TimeInv, [DuelNext]_vars, MaxStall <= Markout,
             NEW f \in Feeds, NEW i \in Prints, IsJudged(f, i),
             truth'[MarketOf[i]] # truth[MarketOf[i]]
      PROVE  verdicts[f][i].arrives < hand[DZ].t
  <2>1. PICK g \in Feeds : OnEvent(g)
    <3>1. truth' # truth
      BY <1>1
    <3>2. ClockStep => truth' = truth
      BY <1>1, ClockKeepsBase DEF state
    <3>3. \A g \in Feeds : ReadStep(g) => truth' = truth
      BY <1>1, ReadEffect DEF state
    <3>4. (SettleOne \/ SettleEnd \/ UNCHANGED vars) => truth' = truth
      BY DEF SettleOne, SettleEnd, vars
    <3> QED BY <1>1, <3>1, <3>2, <3>3, <3>4, DuelShapes
  <2>2. g = DZ
    <3>1. \/ EventOf(g).kind # "trade" /\ OnQuote(g, EventOf(g), hand[g].t)
          \/ truth' = truth
      BY <1>1, <2>1, OnEventEffect DEF OnFiring, OnIdlePrint
    <3> QED BY <1>1, <3>1 DEF OnQuote
  <2>3. DZ \in Feeds /\ hand[DZ].todo # <<>> /\ mono <= hand[DZ].t + MaxStall
    BY <1>1, <2>1, <2>2, OnEventEffect DEF TimeInv
  <2>4. verdicts[f][i].arrives + Markout < mono
    BY <1>1 DEF TimeInv
  <2> QED BY <1>1, <2>3, <2>4, TimeTypes, DelayTypes
<1>2. BaseInv /\ TimeInv /\ [DuelNext]_vars =>
        [MaxStall <= Markout =>
           \A f \in Feeds, i \in Prints :
             IsJudged(f, i) /\ truth'[MarketOf[i]] # truth[MarketOf[i]] =>
               verdicts[f][i].arrives < hand[DZ].t]_vars
  BY <1>1
<1>3. QED BY <1>2, BaseHolds, TimeHolds, PTL DEF DuelSpec, NothingJudgedTooEarly
-----------------------------------------------------------------------------
(* Where each decision is. *)

Carries(f) ==
  \/ hand[f].todo \in Seq(Quote)
  \/ \E i \in taken[f] : hand[f].todo = <<TradeEvent(i)>> /\ ~IsQueued(f, i) /\ ~IsJudged(f, i)

QueuedOnce ==
  \A m, n \in DOMAIN pending :
    pending[m].by = pending[n].by /\ pending[m].of = pending[n].of => m = n

JudgedOf(f)     == {i \in Prints : IsJudged(f, i)}
FilledOf(f)     == {i \in Prints : verdicts[f][i].filled}
IsDecided(f, i) == IsQueued(f, i) \/ IsJudged(f, i)

\* The prints without a venue stamp that have left the reader's hand, and the ones a bot
\* acted on, of which those in `gone` left no intent.
Passed(f) == {i \in taken[f] \ Stamped : hand[f].todo # <<TradeEvent(i)>>}
ActedOn(f, gone, m, s) ==
  {i \in Prints : MarketOf[i] = m /\ SideOf[i] = s /\ (IsDecided(f, i) \/ i \in gone)}
BackedBy(f, gone) ==
  \A m \in Markets :
    bots[f][m].position =
      OrderSize * (Cardinality(ActedOn(f, gone, m, "buy")) - Cardinality(ActedOn(f, gone, m, "sell")))
Backed(f) == \E gone \in SUBSET Passed(f) : BackedBy(f, gone)

Exclusive == \A f \in Feeds, i \in Prints : ~(IsQueued(f, i) /\ IsJudged(f, i))

BoardOfJudged ==
  \A f \in Feeds : /\ boards[f].intents = Cardinality(JudgedOf(f))
                   /\ boards[f].fills = Cardinality(FilledOf(f))

\* A print is in a reader's hand, in the queue or judged, and in one of them only; what a
\* feed has decided on is among the finitely many prints it has taken.
CountInv ==
  /\ \A f \in Feeds : Carries(f)
  /\ \A f \in Feeds : IsFiniteSet(taken[f])
  /\ \A f \in Feeds, i \in Prints : IsDecided(f, i) => i \in taken[f]
  /\ \A f \in Feeds, i \in Prints : verdicts[f][i].filled => IsJudged(f, i)
  /\ QueuedOnce
  /\ Exclusive
  /\ BoardOfJudged
  /\ \A f \in Feeds : Backed(f)

LEMMA CountInit == DuelInit => CountInv
<1> SUFFICES ASSUME DuelInit PROVE CountInv
  OBVIOUS
<1>1. /\ \A f \in Feeds : hand[f].todo = <<>> /\ taken[f] = {}
      /\ \A f \in Feeds, i \in Prints : verdicts[f][i].at = 0 /\ verdicts[f][i].filled = FALSE
      /\ \A f \in Feeds : boards[f].intents = 0 /\ boards[f].fills = 0
      /\ \A f \in Feeds, m \in Markets : bots[f][m].position = 0
  BY DEF DuelInit, Nothing, NoVerdict, NewBot
<1>2. pending = <<>> /\ DOMAIN pending = {} /\ <<>> \in Seq(Quote)
  BY DEF DuelInit
<1>3. \A f \in Feeds, i \in Prints : ~IsJudged(f, i) /\ ~IsQueued(f, i)
  BY <1>1, <1>2 DEF IsJudged, IsQueued
<1>4. IsFiniteSet({}) /\ Cardinality({}) = 0
  BY FS_EmptySet
<1>5. /\ \A f \in Feeds : JudgedOf(f) = {} /\ FilledOf(f) = {}
      /\ \A f \in Feeds, m \in Markets : ActedOn(f, {}, m, "buy") = {} /\ ActedOn(f, {}, m, "sell") = {}
  BY <1>1, <1>3 DEF JudgedOf, FilledOf, ActedOn, IsDecided
<1>6. BoardOfJudged
  BY <1>1, <1>4, <1>5 DEF BoardOfJudged
<1>7. \A f \in Feeds : Backed(f)
  <2>1. OrderSize * (0 - 0) = 0
    BY ConfigAssumption
  <2>2. \A f \in Feeds : BackedBy(f, {})
    BY <1>1, <1>4, <1>5, <2>1 DEF BackedBy
  <2>3. \A f \in Feeds : {} \in SUBSET Passed(f)
    OBVIOUS
  <2> QED BY <2>2, <2>3 DEF Backed
<1> QED BY <1>1, <1>2, <1>3, <1>4, <1>6, <1>7 DEF CountInv, Carries, QueuedOnce, Exclusive, IsDecided

LEMMA SameDecisions ==
  ASSUME CountInv, UNCHANGED <<pending, verdicts, boards, bots>>
  PROVE  /\ \A f \in Feeds, i \in Prints : /\ IsQueued(f, i)' <=> IsQueued(f, i)
                                           /\ IsJudged(f, i)' <=> IsJudged(f, i)
                                           /\ IsDecided(f, i)' <=> IsDecided(f, i)
         /\ QueuedOnce' /\ Exclusive' /\ BoardOfJudged'
         /\ \A f \in Feeds : \A gone : BackedBy(f, gone) => BackedBy(f, gone)'
         /\ \A f \in Feeds, i \in Prints : verdicts'[f][i].filled => IsJudged(f, i)'
<1>1. \A f \in Feeds, i \in Prints : /\ IsQueued(f, i)' <=> IsQueued(f, i)
                                     /\ IsJudged(f, i)' <=> IsJudged(f, i)
  BY DEF IsQueued, IsJudged
<1>2. \A f \in Feeds, i \in Prints : IsDecided(f, i)' <=> IsDecided(f, i)
  BY <1>1 DEF IsDecided
<1>3. QueuedOnce' /\ Exclusive'
  BY <1>1 DEF CountInv, QueuedOnce, Exclusive
<1>4. BoardOfJudged'
  <2>1. \A f \in Feeds : JudgedOf(f)' = JudgedOf(f) /\ FilledOf(f)' = FilledOf(f)
    BY <1>1 DEF JudgedOf, FilledOf
  <2> QED BY <2>1 DEF CountInv, BoardOfJudged
<1>5. ASSUME NEW f \in Feeds, NEW gone, BackedBy(f, gone) PROVE BackedBy(f, gone)'
  <2>1. \A m \in Markets, s \in {"buy", "sell"} : ActedOn(f, gone, m, s)' = ActedOn(f, gone, m, s)
    BY <1>2 DEF ActedOn
  <2> QED BY <1>5, <2>1 DEF BackedBy
<1> QED BY <1>1, <1>2, <1>3, <1>4, <1>5 DEF CountInv

LEMMA SameCounts ==
  ASSUME CountInv, UNCHANGED <<hand, taken, pending, verdicts, boards, bots>>
  PROVE  CountInv'
<1>1. \A f \in Feeds : Carries(f)'
  BY DEF CountInv, Carries, IsQueued, IsJudged
<1>2. \A f \in Feeds : Backed(f)'
  <2>1. \A f \in Feeds : Passed(f)' = Passed(f)
    BY DEF Passed
  <2> QED BY <2>1, SameDecisions DEF CountInv, Backed
<1> QED BY <1>1, <1>2, SameDecisions DEF CountInv

\* What has left the hand stays so: quotes, or a print that had not come in before, are
\* all that a reader takes up.
LEMMA PassedGrows ==
  ASSUME NEW f \in Feeds, taken[f] \subseteq taken'[f],
         \/ hand'[f].todo \in Seq(Quote)
         \/ hand'[f].todo = hand[f].todo
         \/ \E i \in Prints \ taken[f] : hand'[f].todo = <<TradeEvent(i)>>
  PROVE  Passed(f) \subseteq Passed(f)'
<1> SUFFICES ASSUME NEW j \in taken[f] \ Stamped, hand[f].todo # <<TradeEvent(j)>>,
                    hand'[f].todo = <<TradeEvent(j)>>
             PROVE  FALSE
  BY DEF Passed
<1>1. CASE hand'[f].todo \in Seq(Quote)
  <2>1. TradeEvent(j) \in Quote
    BY <1>1
  <2> QED BY <2>1 DEF Quote, TradeEvent
<1>2. ASSUME NEW i \in Prints \ taken[f], hand'[f].todo = <<TradeEvent(i)>> PROVE FALSE
  <2>1. TradeEvent(i) = TradeEvent(j)
    BY <1>2
  <2>2. i = j
    BY <2>1 DEF TradeEvent
  <2> QED BY <1>2, <2>2
<1> QED BY <1>1, <1>2

LEMMA QueueTypes ==
  ASSUME BaseInv
  PROVE  /\ taken \in [Feeds -> SUBSET Prints] /\ bots \in [Feeds -> [Markets -> Bot]]
         /\ boards \in [Feeds -> [intents : Nat, fills : Nat]]
         /\ verdicts \in [Feeds -> [Prints -> Verdict]]
         /\ \A f \in Feeds : taken[f] \subseteq Prints
         /\ \A f \in Feeds, m \in Markets : bots[f][m].position \in Int
  BY DEF BaseInv, DuelTypeOK, Verdict, Bot

\* What a feed has decided on is a finite set.
LEMMA DecidedIsFinite ==
  ASSUME BaseInv, CountInv, NEW f \in Feeds
  PROVE  /\ IsFiniteSet(JudgedOf(f)) /\ Cardinality(JudgedOf(f)) \in Nat
         /\ IsFiniteSet(FilledOf(f)) /\ Cardinality(FilledOf(f)) \in Nat
         /\ \A gone \in SUBSET taken[f], m \in Markets, s \in {"buy", "sell"} :
              IsFiniteSet(ActedOn(f, gone, m, s)) /\ Cardinality(ActedOn(f, gone, m, s)) \in Nat
<1>1. IsFiniteSet(taken[f])
  BY DEF CountInv
<1>2. /\ JudgedOf(f) \subseteq taken[f] /\ FilledOf(f) \subseteq taken[f]
      /\ \A gone \in SUBSET taken[f], m \in Markets, s \in {"buy", "sell"} :
           ActedOn(f, gone, m, s) \subseteq taken[f]
  BY DEF CountInv, JudgedOf, FilledOf, ActedOn, IsDecided
<1>3. \A S : S \subseteq taken[f] => IsFiniteSet(S) /\ Cardinality(S) \in Nat
  BY <1>1, FS_Subset, FS_CardinalityType
<1> QED BY <1>2, <1>3

LEMMA OneMore ==
  ASSUME NEW S, IsFiniteSet(S), NEW e, e \notin S
  PROVE  IsFiniteSet(S \cup {e}) /\ Cardinality(S \cup {e}) = Cardinality(S) + 1
  BY FS_AddElement

LEMMA ReadKeepsCounts ==
  ASSUME BaseInv, CountInv, NEW f \in Feeds, ReadStep(f)
  PROVE  CountInv'
<1>1. /\ \A g \in Feeds : g # f => hand'[g] = hand[g]
      /\ UNCHANGED <<verdicts, pending, boards, bots>>
      /\ \/ hand'[f].todo \in Seq(Quote) /\ taken' = taken
         \/ \E i \in Prints \ taken[f] :
              /\ hand'[f].todo = <<TradeEvent(i)>>
              /\ taken' = [taken EXCEPT ![f] = taken[f] \cup {i}]
  BY ReadEffect DEF state
<1>2. /\ \A g \in Feeds, i \in Prints : /\ IsQueued(g, i)' <=> IsQueued(g, i)
                                        /\ IsJudged(g, i)' <=> IsJudged(g, i)
                                        /\ IsDecided(g, i)' <=> IsDecided(g, i)
      /\ QueuedOnce' /\ Exclusive' /\ BoardOfJudged'
      /\ \A g \in Feeds : \A gone : BackedBy(g, gone) => BackedBy(g, gone)'
      /\ \A g \in Feeds, i \in Prints : verdicts'[g][i].filled => IsJudged(g, i)'
  BY <1>1, SameDecisions
<1>3. \A g \in Feeds : Backed(g)'
  <2> SUFFICES ASSUME NEW g \in Feeds PROVE Backed(g)'
    OBVIOUS
  <2>1. taken[g] \subseteq taken'[g]
    BY <1>1, QueueTypes
  <2>2. Passed(g) \subseteq Passed(g)'
    BY <1>1, <2>1, PassedGrows
  <2>3. PICK gone \in SUBSET Passed(g) : BackedBy(g, gone)
    BY DEF CountInv, Backed
  <2> QED BY <1>2, <2>2, <2>3 DEF Backed
<1>4. CASE hand'[f].todo \in Seq(Quote) /\ taken' = taken
  <2>1. \A g \in Feeds : Carries(g)'
    <3>1. ASSUME NEW g \in Feeds, g # f PROVE Carries(g)'
      BY <1>1, <1>4, <3>1 DEF CountInv, Carries, IsQueued, IsJudged
    <3>2. Carries(f)'
      BY <1>4 DEF Carries
    <3> QED BY <3>1, <3>2
  <2> QED BY <1>2, <1>4, <1>3, <2>1 DEF CountInv
<1>5. ASSUME NEW i \in Prints \ taken[f], hand'[f].todo = <<TradeEvent(i)>>,
             taken' = [taken EXCEPT ![f] = taken[f] \cup {i}]
      PROVE  CountInv'
  <2>1. /\ taken'[f] = taken[f] \cup {i} /\ \A g \in Feeds : g # f => taken'[g] = taken[g]
        /\ \A g \in Feeds : taken[g] \subseteq taken'[g]
    BY <1>5, QueueTypes
  <2>2. ~IsQueued(f, i) /\ ~IsJudged(f, i)
    BY <1>5 DEF CountInv, IsDecided
  <2>3. \A g \in Feeds : Carries(g)'
    <3>1. ASSUME NEW g \in Feeds, g # f PROVE Carries(g)'
      BY <1>1, <2>1, <3>1 DEF CountInv, Carries, IsQueued, IsJudged
    <3>2. Carries(f)'
      BY <1>2, <1>5, <2>1, <2>2 DEF Carries
    <3> QED BY <3>1, <3>2
  <2>4. \A g \in Feeds : IsFiniteSet(taken'[g])
    BY <1>5, <2>1, OneMore DEF CountInv
  <2> QED BY <1>2, <1>3, <2>1, <2>3, <2>4 DEF CountInv
<1> QED BY <1>1, <1>4, <1>5

LEMMA SettleOneKeepsCounts ==
  ASSUME BaseInv, BaseInv', CountInv, SettleOne
  PROVE  CountInv'
<1>1. PICK p \in Intent, v \in Verdict :
        /\ pending # <<>> /\ p = pending[1] /\ pending' = Tail(pending)
        /\ writer.now - p.t > Horizon /\ v.at = writer.now
        /\ boards' = [boards EXCEPT ![p.by] = Credit(boards[p.by], v.filled)]
        /\ verdicts' = [verdicts EXCEPT ![p.by] = [verdicts[p.by] EXCEPT ![p.of] = v]]
        /\ UNCHANGED <<hand, taken, bots>>
  <2> DEFINE q == Head(pending)
             w == [at |-> writer.now, arrives |-> q.t + Reaction, filled |-> Judged(q)]
  <2>1. /\ pending # <<>> /\ q \in Intent /\ q = pending[1] /\ pending' = Tail(pending)
        /\ writer.now - q.t > Horizon /\ Judged(q) \in BOOLEAN
        /\ boards' = [boards EXCEPT ![q.by] = Credit(boards[q.by], Judged(q))]
        /\ verdicts' = [verdicts EXCEPT ![q.by] = [verdicts[q.by] EXCEPT ![q.of] = w]]
        /\ UNCHANGED <<hand, taken, bots>>
    BY SettleEffect
  <2>2. w \in Verdict /\ w.at = writer.now /\ w.filled = Judged(q)
    <3>1. q.t \in Nat /\ writer.now \in Nat
      BY <2>1, TimeTypes DEF Intent
    <3> QED BY <2>1, <3>1, DelayTypes DEF Verdict
  <2> HIDE DEF q, w
  <2> QED BY <2>1, <2>2
<1>2. p.by \in Feeds /\ p.of \in Prints /\ p.t \in Nat /\ writer.now # 0
  <2>1. p.by \in Feeds /\ p.of \in Prints /\ p.t \in Nat
    BY <1>1 DEF Intent
  <2> QED BY <1>1, <2>1, TimeTypes, DelayTypes
<1>3. v.at # 0 /\ v.filled \in BOOLEAN
  BY <1>1, <1>2 DEF Verdict
<1>4. /\ verdicts'[p.by][p.of] = v
      /\ \A g \in Feeds, i \in Prints : ~(g = p.by /\ i = p.of) => verdicts'[g][i] = verdicts[g][i]
  BY <1>1, <1>2, QueueTypes
<1>5. /\ Len(pending) \in Nat /\ DOMAIN pending' = 1..(Len(pending) - 1) /\ DOMAIN pending = 1..Len(pending)
      /\ \A n \in 1..(Len(pending) - 1) : pending'[n] = pending[n + 1]
      /\ 1 \in DOMAIN pending
  BY <1>1, TimeTypes
<1>6. QueuedOnce'
  <2> SUFFICES ASSUME NEW m \in DOMAIN pending', NEW n \in DOMAIN pending',
                      pending'[m].by = pending'[n].by, pending'[m].of = pending'[n].of
               PROVE  m = n
    BY DEF QueuedOnce
  <2>1. m + 1 \in DOMAIN pending /\ n + 1 \in DOMAIN pending
        /\ pending'[m] = pending[m + 1] /\ pending'[n] = pending[n + 1]
    BY <1>5
  <2>2. m + 1 = n + 1
    BY <2>1 DEF CountInv, QueuedOnce
  <2> QED BY <1>5, <2>2
<1>7. IsQueued(p.by, p.of) /\ ~IsJudged(p.by, p.of)
  BY <1>1, <1>2, <1>5 DEF IsQueued, CountInv, Exclusive
<1>8. /\ ~IsQueued(p.by, p.of)' /\ IsJudged(p.by, p.of)'
  <2>1. IsJudged(p.by, p.of)'
    BY <1>3, <1>4 DEF IsJudged
  <2>2. ASSUME NEW n \in DOMAIN pending', pending'[n].by = p.by, pending'[n].of = p.of PROVE FALSE
    <3>1. n + 1 \in DOMAIN pending /\ pending'[n] = pending[n + 1] /\ n + 1 # 1
      BY <1>5, <2>2
    <3> QED BY <1>1, <1>5, <2>2, <3>1 DEF CountInv, QueuedOnce
  <2> QED BY <2>1, <2>2 DEF IsQueued
<1>9. ASSUME NEW g \in Feeds, NEW i \in Prints, ~(g = p.by /\ i = p.of)
      PROVE  (IsQueued(g, i)' <=> IsQueued(g, i)) /\ (IsJudged(g, i)' <=> IsJudged(g, i))
  <2>1. IsJudged(g, i)' <=> IsJudged(g, i)
    BY <1>4, <1>9 DEF IsJudged
  <2>2. ASSUME NEW n \in DOMAIN pending, pending[n].by = g, pending[n].of = i PROVE IsQueued(g, i)'
    <3>1. n # 1
      BY <1>1, <1>9, <2>2
    <3>2. n - 1 \in DOMAIN pending' /\ pending'[n - 1] = pending[n]
      BY <1>5, <2>2, <3>1
    <3> QED BY <2>2, <3>2 DEF IsQueued
  <2>3. ASSUME NEW n \in DOMAIN pending', pending'[n].by = g, pending'[n].of = i PROVE IsQueued(g, i)
    <3>1. n + 1 \in DOMAIN pending /\ pending'[n] = pending[n + 1]
      BY <1>5, <2>3
    <3> QED BY <2>3, <3>1 DEF IsQueued
  <2> QED BY <2>1, <2>2, <2>3 DEF IsQueued
<1>10. \A g \in Feeds, i \in Prints : IsDecided(g, i)' <=> IsDecided(g, i)
  BY <1>7, <1>8, <1>9 DEF IsDecided
<1>11. Exclusive'
  BY <1>8, <1>9 DEF CountInv, Exclusive
<1>12. \A g \in Feeds, i \in Prints : verdicts'[g][i].filled => IsJudged(g, i)'
  BY <1>4, <1>8, <1>9 DEF CountInv
<1>13. \A g \in Feeds : Carries(g)'
  <2> SUFFICES ASSUME NEW g \in Feeds PROVE Carries(g)'
    OBVIOUS
  <2>1. CASE hand[g].todo \in Seq(Quote)
    BY <1>1, <2>1 DEF Carries
  <2>2. ASSUME NEW i \in taken[g], hand[g].todo = <<TradeEvent(i)>>, ~IsQueued(g, i), ~IsJudged(g, i)
        PROVE  Carries(g)'
    <3>1. i \in Prints
      BY QueueTypes
    <3>2. ~(g = p.by /\ i = p.of)
      BY <1>7, <2>2
    <3> QED BY <1>1, <1>9, <2>2, <3>1, <3>2 DEF Carries
  <2> QED BY <2>1, <2>2 DEF CountInv, Carries
<1>14. BoardOfJudged'
  <2>1. /\ boards[p.by] \in [intents : Nat, fills : Nat]
        /\ boards'[p.by] = Credit(boards[p.by], v.filled)
        /\ \A g \in Feeds : g # p.by => boards'[g] = boards[g]
    BY <1>1, <1>2, QueueTypes
  <2>2. ASSUME NEW g \in Feeds, g # p.by
        PROVE  JudgedOf(g)' = JudgedOf(g) /\ FilledOf(g)' = FilledOf(g)
    BY <1>4, <1>9, <2>2 DEF JudgedOf, FilledOf
  <2>3. JudgedOf(p.by)' = JudgedOf(p.by) \cup {p.of} /\ p.of \notin JudgedOf(p.by)
    BY <1>2, <1>7, <1>8, <1>9 DEF JudgedOf
  <2>4. /\ FilledOf(p.by)' = IF v.filled THEN FilledOf(p.by) \cup {p.of} ELSE FilledOf(p.by)
        /\ p.of \notin FilledOf(p.by)
    <3>1. p.of \notin FilledOf(p.by)
      BY <1>2, <1>7 DEF FilledOf, CountInv
    <3>2. \A i \in Prints : verdicts'[p.by][i].filled =
            IF i = p.of THEN v.filled ELSE verdicts[p.by][i].filled
      BY <1>2, <1>4
    <3> QED BY <1>2, <3>1, <3>2 DEF FilledOf
  <2>5. /\ Cardinality(JudgedOf(p.by)') = Cardinality(JudgedOf(p.by)) + 1
        /\ Cardinality(FilledOf(p.by) \cup {p.of}) = Cardinality(FilledOf(p.by)) + 1
    BY <1>2, <2>3, <2>4, DecidedIsFinite, OneMore
  <2>6. /\ boards'[p.by].intents = Cardinality(JudgedOf(p.by)')
        /\ boards'[p.by].fills = Cardinality(FilledOf(p.by)')
    <3>1. boards[p.by].intents = Cardinality(JudgedOf(p.by)) /\ boards[p.by].fills = Cardinality(FilledOf(p.by))
      BY <1>2 DEF CountInv, BoardOfJudged
    <3> QED BY <2>1, <2>4, <2>5, <3>1 DEF Credit
  <2>7. ASSUME NEW g \in Feeds, g # p.by
        PROVE  /\ boards'[g].intents = Cardinality(JudgedOf(g)')
               /\ boards'[g].fills = Cardinality(FilledOf(g)')
    BY <2>1, <2>2, <2>7 DEF CountInv, BoardOfJudged
  <2> QED BY <2>6, <2>7 DEF BoardOfJudged
<1>15. \A g \in Feeds : Backed(g)'
  <2> SUFFICES ASSUME NEW g \in Feeds PROVE Backed(g)'
    OBVIOUS
  <2>1. PICK gone \in SUBSET Passed(g) : BackedBy(g, gone)
    BY DEF CountInv, Backed
  <2>2. \A m \in Markets, s \in {"buy", "sell"} : ActedOn(g, gone, m, s)' = ActedOn(g, gone, m, s)
    BY <1>10 DEF ActedOn
  <2>3. BackedBy(g, gone)' /\ Passed(g)' = Passed(g)
    BY <1>1, <2>1, <2>2 DEF BackedBy, Passed
  <2> QED BY <2>1, <2>3 DEF Backed
<1>16. \A g \in Feeds, i \in Prints : IsDecided(g, i)' => i \in taken'[g]
  BY <1>1, <1>10 DEF CountInv
<1> QED BY <1>1, <1>6, <1>11, <1>12, <1>13, <1>14, <1>15, <1>16 DEF CountInv
\* A print that makes the bot act: it leaves the hand for the queue.
LEMMA FiringKeepsCounts ==
  ASSUME BaseInv, BaseInv', CountInv, NEW f \in Feeds, OnEvent(f), EventOf(f).kind = "trade",
         OnFiring(f, EventOf(f), hand[f].t)
  PROVE  CountInv'
<1>1. /\ hand[f].todo # <<>> /\ hand[f].todo \in Seq(Event) /\ EventOf(f) \in Event /\ hand[f].t \in Nat
      /\ hand'[f].todo = Tail(hand[f].todo) /\ \A g \in Feeds : g # f => hand'[g] = hand[g]
      /\ UNCHANGED <<taken, boards, verdicts>>
  BY OnEventEffect
<1>2. PICK i \in taken[f] : hand[f].todo = <<TradeEvent(i)>> /\ ~IsQueued(f, i) /\ ~IsJudged(f, i)
  <2>1. hand[f].todo \notin Seq(Quote)
    <3> SUFFICES ASSUME hand[f].todo \in Seq(Quote) PROVE FALSE
      OBVIOUS
    <3>1. EventOf(f) \in Quote
      BY <1>1, HeadTailProperties DEF EventOf
    <3> QED BY <3>1 DEF Quote
  <2> QED BY <2>1 DEF CountInv, Carries
<1>3. /\ EventOf(f) = TradeEvent(i) /\ Tail(hand[f].todo) = <<>> /\ i \in Prints
      /\ EventOf(f).of = i /\ EventOf(f).market = MarketOf[i]
  <2>1. EventOf(f) = TradeEvent(i) /\ Tail(hand[f].todo) = <<>>
    BY <1>2 DEF EventOf
  <2>2. i \in Prints
    BY QueueTypes
  <2> QED BY <2>1, <2>2 DEF TradeEvent
<1>4. PICK p \in Intent :
        /\ p.by = f /\ p.of = i
        /\ pending' = IF i \in Stamped THEN Append(pending, p) ELSE pending
  <2>1. IntentOn(f, EventOf(f), hand[f].t).by = f /\ IntentOn(f, EventOf(f), hand[f].t).of = i
    BY <1>3 DEF IntentOn
  <2>2. /\ IntentOn(f, EventOf(f), hand[f].t) \in Intent
        /\ pending' = IF EventOf(f).of \in Stamped
                      THEN Append(pending, IntentOn(f, EventOf(f), hand[f].t)) ELSE pending
    BY <1>1, FiringEffect
  <2> QED BY <1>3, <2>1, <2>2
<1>5. /\ MarketOf[i] \in Markets /\ SideOf[i] \in {"buy", "sell"}
      /\ bots'[f][MarketOf[i]].position = bots[f][MarketOf[i]].position + Signed(SideOf[i])
      /\ \A g \in Feeds, m \in Markets : ~(g = f /\ m = MarketOf[i]) => bots'[g][m] = bots[g][m]
  BY <1>1, <1>3, FiringEffect
<1>6. /\ Len(pending) \in Nat /\ DOMAIN pending = 1..Len(pending) /\ pending \in Seq(Intent)
  BY TimeTypes
<1>7. \A g \in Feeds, j \in Prints : IsJudged(g, j)' <=> IsJudged(g, j)
  BY <1>1 DEF IsJudged
<1>8. \A g \in Feeds, j \in Prints :
        IsQueued(g, j)' <=> (IsQueued(g, j) \/ (g = f /\ j = i /\ i \in Stamped))
  <2>1. CASE i \notin Stamped
    BY <1>4, <2>1 DEF IsQueued
  <2>2. CASE i \in Stamped
    <3>1. /\ DOMAIN pending' = 1..(Len(pending) + 1) /\ pending'[Len(pending) + 1] = p
          /\ \A n \in 1..Len(pending) : pending'[n] = pending[n]
      BY <1>4, <1>6, <2>2
    <3>2. ASSUME NEW g \in Feeds, NEW j \in Prints, IsQueued(g, j)'
          PROVE  IsQueued(g, j) \/ (g = f /\ j = i)
      <4>1. PICK n \in DOMAIN pending' : pending'[n].by = g /\ pending'[n].of = j
        BY <3>2 DEF IsQueued
      <4>2. CASE n \in 1..Len(pending)
        BY <1>6, <3>1, <4>1, <4>2 DEF IsQueued
      <4>3. CASE n = Len(pending) + 1
        BY <1>4, <3>1, <4>1, <4>3
      <4> QED BY <1>6, <3>1, <4>2, <4>3
    <3>3. ASSUME NEW g \in Feeds, NEW j \in Prints, IsQueued(g, j)
          PROVE  IsQueued(g, j)'
      <4>1. PICK n \in DOMAIN pending : pending[n].by = g /\ pending[n].of = j
        BY <3>3 DEF IsQueued
      <4>2. n \in DOMAIN pending' /\ pending'[n] = pending[n]
        BY <1>6, <3>1, <4>1
      <4> QED BY <4>1, <4>2 DEF IsQueued
    <3>4. IsQueued(f, i)'
      <4>1. Len(pending) + 1 \in DOMAIN pending'
        BY <1>6, <3>1
      <4> QED BY <1>4, <3>1, <4>1 DEF IsQueued
    <3> QED BY <1>3, <2>2, <3>2, <3>3, <3>4
  <2> QED BY <2>1, <2>2
<1>9. QueuedOnce'
  <2>1. CASE i \notin Stamped
    BY <1>4, <2>1 DEF CountInv, QueuedOnce
  <2>2. CASE i \in Stamped
    <3>1. /\ DOMAIN pending' = 1..(Len(pending) + 1) /\ pending'[Len(pending) + 1] = p
          /\ \A n \in 1..Len(pending) : pending'[n] = pending[n]
      BY <1>4, <1>6, <2>2
    <3>2. \A n \in 1..Len(pending) : ~(pending[n].by = f /\ pending[n].of = i)
      BY <1>2, <1>6 DEF IsQueued
    <3> SUFFICES ASSUME NEW m \in DOMAIN pending', NEW n \in DOMAIN pending',
                        pending'[m].by = pending'[n].by, pending'[m].of = pending'[n].of
                 PROVE  m = n
      BY DEF QueuedOnce
    <3>3. CASE m \in 1..Len(pending) /\ n \in 1..Len(pending)
      BY <1>6, <3>1, <3>3 DEF CountInv, QueuedOnce
    <3>4. CASE m = Len(pending) + 1 \/ n = Len(pending) + 1
      BY <1>4, <1>6, <3>1, <3>2, <3>4
    <3> QED BY <1>6, <3>1, <3>3, <3>4
  <2> QED BY <2>1, <2>2
<1>10. Exclusive'
  BY <1>2, <1>7, <1>8 DEF CountInv, Exclusive
<1>11. \A g \in Feeds, j \in Prints : IsDecided(g, j)' => j \in taken'[g]
  BY <1>1, <1>2, <1>7, <1>8 DEF CountInv, IsDecided
<1>12. \A g \in Feeds : Carries(g)'
  <2>1. Carries(f)'
    <3>1. hand'[f].todo = <<>> /\ <<>> \in Seq(Quote)
      BY <1>1, <1>3
    <3> QED BY <3>1 DEF Carries
  <2>2. ASSUME NEW g \in Feeds, g # f PROVE Carries(g)'
    <3>1. CASE hand[g].todo \in Seq(Quote)
      BY <1>1, <2>2, <3>1 DEF Carries
    <3>2. ASSUME NEW j \in taken[g], hand[g].todo = <<TradeEvent(j)>>, ~IsQueued(g, j), ~IsJudged(g, j)
          PROVE  Carries(g)'
      <4>1. j \in Prints
        BY QueueTypes
      <4> QED BY <1>1, <1>7, <1>8, <2>2, <3>2, <4>1 DEF Carries
    <3> QED BY <3>1, <3>2 DEF CountInv, Carries
  <2> QED BY <2>1, <2>2
<1>13. BoardOfJudged'
  <2>1. \A g \in Feeds : JudgedOf(g)' = JudgedOf(g) /\ FilledOf(g)' = FilledOf(g)
    BY <1>1, <1>7 DEF JudgedOf, FilledOf
  <2> QED BY <1>1, <2>1 DEF CountInv, BoardOfJudged
<1>14. ASSUME NEW g \in Feeds PROVE Backed(g)'
  <2>1. PICK gone \in SUBSET Passed(g) : BackedBy(g, gone)
    BY DEF CountInv, Backed
  <2>2. \A h \in Feeds, j \in Prints :
          IsDecided(h, j)' <=> (IsDecided(h, j) \/ (h = f /\ j = i /\ i \in Stamped))
    BY <1>3, <1>7, <1>8 DEF IsDecided
  <2>3. CASE g # f
    <3>1. \A m \in Markets, s \in {"buy", "sell"} : ActedOn(g, gone, m, s)' = ActedOn(g, gone, m, s)
      BY <2>2, <2>3 DEF ActedOn
    <3>2. BackedBy(g, gone)' /\ Passed(g)' = Passed(g)
      BY <1>1, <1>5, <2>1, <2>3, <3>1 DEF BackedBy, Passed
    <3> QED BY <2>1, <3>2 DEF Backed
  <2>4. CASE g = f
    <3> DEFINE left == IF i \in Stamped THEN gone ELSE gone \cup {i}
    <3>1. i \notin gone /\ gone \in SUBSET taken[f]
      BY <1>2, <2>1, <2>4 DEF Passed
    <3>2. Passed(f)' = taken[f] \ Stamped
      <4>1. hand'[f].todo = <<>>
        BY <1>1, <1>3
      <4>2. \A j : <<TradeEvent(j)>> # <<>>
        OBVIOUS
      <4> QED BY <1>1, <4>1, <4>2 DEF Passed
    <3>3. left \in SUBSET Passed(f)'
      BY <1>2, <2>1, <2>4, <3>2 DEF Passed
    <3>4. ~IsDecided(f, i)
      BY <1>2 DEF IsDecided
    <3>5. \A m \in Markets, s \in {"buy", "sell"} :
            ActedOn(f, left, m, s)' = IF m = MarketOf[i] /\ s = SideOf[i]
                                      THEN ActedOn(f, gone, m, s) \cup {i} ELSE ActedOn(f, gone, m, s)
      BY <1>3, <2>2 DEF ActedOn
    <3>6. \A m \in Markets, s \in {"buy", "sell"} :
            /\ i \notin ActedOn(f, gone, m, s)
            /\ Cardinality(ActedOn(f, gone, m, s)) \in Nat
            /\ Cardinality(ActedOn(f, gone, m, s) \cup {i}) = Cardinality(ActedOn(f, gone, m, s)) + 1
      <4>1. \A m \in Markets, s \in {"buy", "sell"} : i \notin ActedOn(f, gone, m, s)
        BY <3>1, <3>4 DEF ActedOn
      <4> QED BY <3>1, <4>1, DecidedIsFinite, OneMore
    <3>7. \A m \in Markets :
            bots[f][m].position =
              OrderSize * (Cardinality(ActedOn(f, gone, m, "buy")) - Cardinality(ActedOn(f, gone, m, "sell")))
      BY <2>1, <2>4 DEF BackedBy
    <3> HIDE DEF left
    <3>8. ASSUME NEW m \in Markets
          PROVE  bots'[f][m].position =
                   OrderSize * (Cardinality(ActedOn(f, left, m, "buy")') - Cardinality(ActedOn(f, left, m, "sell")'))
      <4> DEFINE b == Cardinality(ActedOn(f, gone, m, "buy"))
                 c == Cardinality(ActedOn(f, gone, m, "sell"))
      <4>1. CASE m # MarketOf[i]
        BY <1>5, <3>5, <3>7, <4>1
      <4>2. CASE m = MarketOf[i]
        <5>1. bots'[f][m].position = OrderSize * (b - c) + Signed(SideOf[i])
          BY <1>5, <3>7, <4>2
        <5>2. b \in Nat /\ c \in Nat /\ OrderSize \in Nat
          BY <3>6, ConfigAssumption
        <5>3. CASE SideOf[i] = "buy"
          <6>1. Cardinality(ActedOn(f, left, m, "buy")') = b + 1 /\ Cardinality(ActedOn(f, left, m, "sell")') = c
            BY <3>5, <3>6, <4>2, <5>3
          <6>2. Signed(SideOf[i]) = OrderSize
            BY <5>3 DEF Signed
          <6> HIDE DEF b, c
          <6>3. OrderSize * (b - c) + OrderSize = OrderSize * ((b + 1) - c)
            BY <5>2
          <6> QED BY <5>1, <6>1, <6>2, <6>3
        <5>4. CASE SideOf[i] = "sell"
          <6>1. Cardinality(ActedOn(f, left, m, "buy")') = b /\ Cardinality(ActedOn(f, left, m, "sell")') = c + 1
            BY <3>5, <3>6, <4>2, <5>4
          <6>2. Signed(SideOf[i]) = -OrderSize
            BY <5>4 DEF Signed
          <6> HIDE DEF b, c
          <6>3. OrderSize * (b - c) + (-OrderSize) = OrderSize * (b - (c + 1))
            BY <5>2
          <6> QED BY <5>1, <6>1, <6>2, <6>3
        <5> QED BY <1>5, <5>3, <5>4
      <4> QED BY <4>1, <4>2
    <3>9. BackedBy(f, left)'
      BY <3>8 DEF BackedBy
    <3> QED BY <2>4, <3>3, <3>9 DEF Backed
  <2> QED BY <2>3, <2>4
<1> QED BY <1>1, <1>7, <1>9, <1>10, <1>11, <1>12, <1>13, <1>14 DEF CountInv

LEMMA OnEventKeepsCounts ==
  ASSUME BaseInv, BaseInv', CountInv, NEW f \in Feeds, OnEvent(f)
  PROVE  CountInv'
<1>1. /\ hand[f].todo # <<>> /\ hand[f].todo \in Seq(Event) /\ EventOf(f) \in Event /\ hand[f].t \in Nat
      /\ hand'[f].todo = Tail(hand[f].todo) /\ \A g \in Feeds : g # f => hand'[g] = hand[g]
      /\ UNCHANGED <<taken, boards, verdicts>>
      /\ \/ EventOf(f).kind # "trade" /\ OnQuote(f, EventOf(f), hand[f].t)
         \/ EventOf(f).kind = "trade" /\ OnFiring(f, EventOf(f), hand[f].t)
         \/ EventOf(f).kind = "trade" /\ OnIdlePrint(f, EventOf(f), hand[f].t)
  BY OnEventEffect
<1>2. CASE EventOf(f).kind = "trade" /\ OnFiring(f, EventOf(f), hand[f].t)
  BY <1>2, FiringKeepsCounts
<1>3. CASE \/ EventOf(f).kind # "trade" /\ OnQuote(f, EventOf(f), hand[f].t)
           \/ EventOf(f).kind = "trade" /\ OnIdlePrint(f, EventOf(f), hand[f].t)
  <2>1. /\ pending' = pending
        /\ \A g \in Feeds, m \in Markets : bots'[g][m].position = bots[g][m].position
    <3>1. CASE EventOf(f).kind # "trade" /\ OnQuote(f, EventOf(f), hand[f].t)
      <4> DEFINE m == EventOf(f).market
                 book == Apply(bots[f][m].book, EventOf(f), hand[f].t)
      <4>1. /\ m \in Markets /\ book \in Book /\ pending' = pending
            /\ bots'[f][m] = [bots[f][m] EXCEPT !.book = book]
            /\ \A g \in Feeds, n \in Markets : ~(g = f /\ n = m) => bots'[g][n] = bots[g][n]
        BY <1>1, <3>1, QuoteEffect
      <4> HIDE DEF m, book
      <4>2. bots'[f][m].position = bots[f][m].position
        <5>1. bots[f][m] \in Bot
          BY <4>1, QueueTypes
        <5> QED BY <4>1, <5>1 DEF Bot
      <4> QED BY <4>1, <4>2
    <3>2. CASE OnIdlePrint(f, EventOf(f), hand[f].t)
      BY <3>2 DEF OnIdlePrint
    <3> QED BY <1>3, <3>1, <3>2
  <2>2. \A g \in Feeds : Carries(g)'
    <3>1. CASE hand[f].todo \in Seq(Quote)
      <4>1. Tail(hand[f].todo) \in Seq(Quote)
        BY <1>1, <3>1, HeadTailProperties
      <4> QED BY <1>1, <2>1, <4>1 DEF CountInv, Carries, IsQueued, IsJudged
    <3>2. CASE hand[f].todo \notin Seq(Quote)
      <4>1. PICK i \in taken[f] : hand[f].todo = <<TradeEvent(i)>>
        BY <3>2 DEF CountInv, Carries
      <4>2. Tail(hand[f].todo) = <<>> /\ <<>> \in Seq(Quote)
        BY <4>1
      <4> QED BY <1>1, <2>1, <4>2 DEF CountInv, Carries, IsQueued, IsJudged
    <3> QED BY <3>1, <3>2
  <2>3. /\ \A g \in Feeds, j \in Prints : /\ IsQueued(g, j)' <=> IsQueued(g, j)
                                          /\ IsJudged(g, j)' <=> IsJudged(g, j)
                                          /\ IsDecided(g, j)' <=> IsDecided(g, j)
    BY <1>1, <2>1 DEF IsDecided, IsQueued, IsJudged
  <2>4. QueuedOnce' /\ Exclusive'
    BY <2>1, <2>3 DEF CountInv, QueuedOnce, Exclusive
  <2>5. BoardOfJudged'
    <3>1. \A g \in Feeds : JudgedOf(g)' = JudgedOf(g) /\ FilledOf(g)' = FilledOf(g)
      BY <1>1, <2>3 DEF JudgedOf, FilledOf
    <3> QED BY <1>1, <3>1 DEF CountInv, BoardOfJudged
  <2>6. \A g \in Feeds : Backed(g)'
    <3> SUFFICES ASSUME NEW g \in Feeds PROVE Backed(g)'
      OBVIOUS
    <3>1. PICK gone \in SUBSET Passed(g) : BackedBy(g, gone)
      BY DEF CountInv, Backed
    <3>2. \A m \in Markets, s \in {"buy", "sell"} : ActedOn(g, gone, m, s)' = ActedOn(g, gone, m, s)
      BY <2>3 DEF ActedOn
    <3>3. BackedBy(g, gone)'
      BY <2>1, <3>1, <3>2 DEF BackedBy
    <3>4. hand'[f].todo \in Seq(Quote)
      <4>1. CASE hand[f].todo \in Seq(Quote)
        BY <1>1, <4>1, HeadTailProperties
      <4>2. CASE hand[f].todo \notin Seq(Quote)
        <5>1. PICK i \in taken[f] : hand[f].todo = <<TradeEvent(i)>>
          BY <4>2 DEF CountInv, Carries
        <5> QED BY <1>1, <5>1
      <4> QED BY <4>1, <4>2
    <3>5. Passed(g) \subseteq Passed(g)'
      BY <1>1, <3>4, PassedGrows
    <3> QED BY <3>1, <3>3, <3>5 DEF Backed
  <2> QED BY <1>1, <2>2, <2>3, <2>4, <2>5, <2>6 DEF CountInv
<1> QED BY <1>1, <1>2, <1>3

LEMMA CountStep == BaseInv /\ BaseInv' /\ CountInv /\ [DuelNext]_vars => CountInv'
<1> SUFFICES ASSUME BaseInv, BaseInv', CountInv, [DuelNext]_vars PROVE CountInv'
  OBVIOUS
<1>1. CASE UNCHANGED vars
  BY <1>1, SameCounts DEF vars
<1>2. CASE ClockStep
  BY <1>2, ClockKeepsBase, SameCounts DEF state
<1>3. CASE SettleEnd
  BY <1>3, SameCounts DEF SettleEnd
<1> QED BY <1>1, <1>2, <1>3, DuelShapes, ReadKeepsCounts, OnEventKeepsCounts, SettleOneKeepsCounts

LEMMA CountHolds == DuelSpec => []CountInv
<1>1. QED BY CountInit, CountStep, BaseHolds, PTL DEF DuelSpec

\* A decision is judged once, and the scoreboards show what was judged (settle_due).
THEOREM BoardsReconcile == DuelSpec => []BoardsAddUp
<1>1. CountInv => BoardsAddUp
  BY DEF CountInv, BoardsAddUp, Exclusive, BoardOfJudged, JudgedOf, FilledOf
<1>2. QED BY <1>1, CountHolds, PTL

\* A bot's position is made of the decisions that are queued or judged, each counted
\* once, and of prints without a venue stamp (on_event, settle_due).
THEOREM PositionsAreBacked == DuelSpec => []PositionIsBacked
<1>1. ASSUME CountInv PROVE PositionIsBacked
  <2> SUFFICES ASSUME NEW f \in Feeds
               PROVE  \E gone \in SUBSET (taken[f] \ Stamped) : BackedBy(f, gone)
    BY DEF PositionIsBacked, BackedBy, ActedOn, IsDecided
  <2>1. Passed(f) \subseteq taken[f] \ Stamped
    BY DEF Passed
  <2> QED BY <1>1, <2>1 DEF CountInv, Backed
<1>2. CountInv => PositionIsBacked
  BY <1>1
<1>3. QED BY <1>2, CountHolds, PTL
-----------------------------------------------------------------------------
(* Where two decisions on one print meet. *)

\* The side of a duel that a verdict makes.
FillOf(f, i) == [t |-> verdicts[f][i].arrives - Reaction, filled |-> verdicts[f][i].filled]

\* No stamp is 0, which stands for a side nobody has taken, and no verdict is of later
\* than the writer's clock.
StampInv ==
  /\ mono # 0
  /\ \A f \in Feeds : hand[f].todo # <<>> => hand[f].t # 0
  /\ \A n \in DOMAIN pending : pending[n].t # 0
  /\ \A f \in Feeds, i \in Prints :
       IsJudged(f, i) => FillOf(f, i).t \in Nat \ {0} /\ verdicts[f][i].at <= writer.now

LEMMA StampInit == DuelInit => StampInv
<1> SUFFICES ASSUME DuelInit PROVE StampInv
  OBVIOUS
<1>1. /\ mono = 1 /\ \A f \in Feeds : hand[f].todo = <<>>
      /\ \A f \in Feeds, i \in Prints : verdicts[f][i].at = 0
      /\ pending = <<>> /\ DOMAIN pending = {}
  BY DEF DuelInit, Nothing, NoVerdict
<1> QED BY <1>1 DEF StampInv, IsJudged

LEMMA ClockMovesOn ==
  ASSUME BaseInv, TimeInv, ClockStep
  PROVE  writer.now \in Nat /\ writer'.now \in Nat /\ writer.now <= writer'.now
<1>1. mono \in Nat /\ writer \in [stage : {"sleep", "ready", "judging"}, now : Nat] /\ writer.now <= mono
  BY DEF BaseInv, DuelTypeOK, TimeInv
<1> QED BY <1>1 DEF ClockStep, Tick, SettleStart, SettleLock

LEMMA StampStep == BaseInv /\ BaseInv' /\ TimeInv /\ StampInv /\ [DuelNext]_vars => StampInv'
<1> SUFFICES ASSUME BaseInv, BaseInv', TimeInv, StampInv, [DuelNext]_vars PROVE StampInv'
  OBVIOUS
<1>1. CASE UNCHANGED vars
  BY <1>1 DEF vars, StampInv, IsJudged, FillOf
<1>2. CASE ClockStep
  <2>1. UNCHANGED <<hand, verdicts, pending>> /\ mono' >= mono /\ mono \in Nat /\ mono' \in Nat
    BY <1>2, ClockKeepsBase, TimeTypes DEF state, BaseInv, DuelTypeOK
  <2>2. writer.now \in Nat /\ writer'.now \in Nat /\ writer.now <= writer'.now
    BY <1>2, ClockMovesOn
  <2>3. ASSUME NEW f \in Feeds, NEW i \in Prints, IsJudged(f, i)'
        PROVE  FillOf(f, i)'.t \in Nat \ {0} /\ verdicts'[f][i].at <= writer'.now
    <3>1. FillOf(f, i).t \in Nat \ {0} /\ verdicts[f][i].at <= writer.now /\ verdicts[f][i].at \in Nat
      BY <2>1, <2>3 DEF StampInv, IsJudged, BaseInv, DuelTypeOK
    <3> QED BY <2>1, <2>2, <3>1 DEF FillOf
  <2> QED BY <2>1, <2>3 DEF StampInv
<1>3. ASSUME NEW f \in Feeds, ReadStep(f) PROVE StampInv'
  <2>1. /\ hand'[f].t = mono /\ \A g \in Feeds : g # f => hand'[g] = hand[g]
        /\ UNCHANGED <<mono, writer, verdicts, pending>>
    BY <1>3, ReadEffect DEF state
  <2> QED BY <2>1 DEF StampInv, IsJudged, FillOf
<1>4. ASSUME NEW f \in Feeds, OnEvent(f) PROVE StampInv'
  <2>1. /\ hand[f].todo # <<>> /\ hand'[f].t = hand[f].t
        /\ \A g \in Feeds : g # f => hand'[g] = hand[g]
        /\ UNCHANGED <<mono, writer, verdicts>>
        /\ \/ pending' = pending
           \/ /\ IntentOn(f, EventOf(f), hand[f].t) \in Intent
              /\ pending' = Append(pending, IntentOn(f, EventOf(f), hand[f].t))
    <3>1. /\ EventOf(f) \in Event /\ hand[f].t \in Nat
          /\ hand[f].todo # <<>> /\ hand'[f].t = hand[f].t
          /\ \A g \in Feeds : g # f => hand'[g] = hand[g]
          /\ UNCHANGED <<mono, writer, verdicts>>
          /\ \/ OnQuote(f, EventOf(f), hand[f].t)
             \/ OnFiring(f, EventOf(f), hand[f].t)
             \/ OnIdlePrint(f, EventOf(f), hand[f].t)
      BY <1>4, OnEventEffect
    <3>2. OnQuote(f, EventOf(f), hand[f].t) \/ OnIdlePrint(f, EventOf(f), hand[f].t) => pending' = pending
      BY DEF OnQuote, OnIdlePrint
    <3>3. CASE OnFiring(f, EventOf(f), hand[f].t)
      BY <3>1, <3>3, FiringEffect
    <3> QED BY <3>1, <3>2, <3>3
  <2>2. ASSUME NEW n \in DOMAIN pending' PROVE pending'[n].t # 0
    <3>1. IntentOn(f, EventOf(f), hand[f].t).t # 0
      BY <2>1 DEF StampInv, IntentOn
    <3>2. pending \in Seq(Intent)
      BY TimeTypes
    <3>3. \/ n \in DOMAIN pending /\ pending'[n] = pending[n]
          \/ pending'[n] = IntentOn(f, EventOf(f), hand[f].t)
      BY <2>1, <2>2, <3>2
    <3> QED BY <3>1, <3>3 DEF StampInv
  <2> QED BY <2>1, <2>2 DEF StampInv, IsJudged, FillOf
<1>5. CASE SettleOne
  <2> DEFINE p == Head(pending)
  <2>1. /\ pending # <<>> /\ p \in Intent /\ p = pending[1] /\ pending' = Tail(pending)
        /\ verdicts' = [verdicts EXCEPT ![p.by] =
             [verdicts[p.by] EXCEPT ![p.of] = [at |-> writer.now, arrives |-> p.t + Reaction, filled |-> Judged(p)]]]
        /\ UNCHANGED <<mono, hand, writer>>
    BY <1>5, SettleEffect
  <2> HIDE DEF p
  <2>2. /\ 1 \in DOMAIN pending
        /\ \A n \in DOMAIN pending' : n + 1 \in DOMAIN pending /\ pending'[n] = pending[n + 1]
    BY <2>1, TimeTypes
  <2>3. /\ p.by \in Feeds /\ p.of \in Prints /\ p.t \in Nat \ {0} /\ writer.now \in Nat
        /\ verdicts \in [Feeds -> [Prints -> Verdict]]
    BY <2>1, <2>2, TimeTypes, QueueTypes DEF Intent, StampInv
  <2>4. ASSUME NEW f \in Feeds, NEW i \in Prints, IsJudged(f, i)'
        PROVE  FillOf(f, i)'.t \in Nat \ {0} /\ verdicts'[f][i].at <= writer.now
    <3>1. CASE f = p.by /\ i = p.of
      <4>1. verdicts'[f][i].arrives = p.t + Reaction /\ verdicts'[f][i].at = writer.now
        BY <2>1, <2>3, <3>1
      <4> QED BY <2>3, <4>1, DelayTypes DEF FillOf
    <3>2. CASE ~(f = p.by /\ i = p.of)
      <4>1. verdicts'[f][i] = verdicts[f][i]
        BY <2>1, <2>3, <3>2
      <4> QED BY <2>4, <4>1 DEF StampInv, FillOf, IsJudged
    <3> QED BY <3>1, <3>2
  <2> QED BY <2>1, <2>2, <2>4 DEF StampInv
<1>6. CASE SettleEnd
  <2>1. UNCHANGED <<mono, hand, pending, verdicts>> /\ writer'.now = writer.now
    BY <1>6 DEF SettleEnd, BaseInv, DuelTypeOK
  <2> QED BY <2>1 DEF StampInv, IsJudged, FillOf
<1> QED BY <1>1, <1>2, <1>3, <1>4, <1>5, <1>6, DuelShapes

LEMMA StampHolds == DuelSpec => []StampInv
<1>1. QED BY StampInit, StampStep, BaseHolds, TimeHolds, PTL DEF DuelSpec

DuelOf(i) == duels[KeyOf[i]]
OnlyBy(f, i) == IsJudged(f, i) /\ \A g \in Feeds : IsJudged(g, i) => g = f

\* A side of a print's own duel is the verdict on it; with one verdict given, the duel
\* waits for the other, or has been given up.
Follows(i) ==
  /\ \A f \in Feeds : DuelOf(i).sides[f] # NoFill =>
       IsJudged(f, i) /\ DuelOf(i).sides[f] = FillOf(f, i)
  /\ (\A f \in Feeds : ~IsJudged(f, i)) => DuelOf(i) = NoDuel
  /\ \A f \in Feeds : OnlyBy(f, i) =>
       \/ DuelOf(i).sides[f] = FillOf(f, i) /\ DuelOf(i).made = verdicts[f][i].at
       \/ DuelOf(i) = NoDuel /\ verdicts[f][i].at < writer.now - DuelTtl

Later(m, n) == IF m >= n THEN m ELSE n
Earlier(m, n) == IF m >= n THEN n ELSE m

\* The row two verdicts make.
RowOf(i) ==
  [at     |-> Later(verdicts[DZ][i].at, verdicts[PUBLIC][i].at),
   dz     |-> verdicts[DZ][i].filled,
   public |-> verdicts[PUBLIC][i].filled,
   lead   |-> verdicts[PUBLIC][i].arrives - verdicts[DZ][i].arrives]

Meets(i) ==
  IsJudged(DZ, i) /\ IsJudged(PUBLIC, i) =>
    \/ RowOf(i).at - Earlier(verdicts[DZ][i].at, verdicts[PUBLIC][i].at) > DuelTtl
    \/ RowOf(i).at < writer.now - Window
    \/ \E n \in DOMAIN settled : settled[n] = RowOf(i)

MeetInv == \A i \in Prints : OwnKey(i) => Follows(i) /\ Meets(i)

\* What the property says with Max and Min.
LEMMA TwoOf ==
  ASSUME NEW m \in Nat, NEW n \in Nat
  PROVE  Max({m, n}) = Later(m, n) /\ Min({m, n}) = Earlier(m, n)
<1>1. /\ Later(m, n) \in {m, n} /\ \A y \in {m, n} : Later(m, n) >= y
      /\ \A x \in {m, n} : (\A y \in {m, n} : x >= y) => x = Later(m, n)
  BY DEF Later
<1>2. /\ Earlier(m, n) \in {m, n} /\ \A y \in {m, n} : Earlier(m, n) =< y
      /\ \A x \in {m, n} : (\A y \in {m, n} : x =< y) => x = Earlier(m, n)
  BY DEF Earlier
<1>3. Max({m, n}) = Later(m, n)
  <2> DEFINE S == {m, n}
             top == CHOOSE x \in S : \A y \in S : x >= y
  <2>1. top \in S /\ \A y \in S : top >= y
    BY <1>1
  <2> QED BY <1>1, <2>1 DEF Max
<1>4. Min({m, n}) = Earlier(m, n)
  <2> DEFINE S == {m, n}
             low == CHOOSE x \in S : \A y \in S : x =< y
  <2>1. low \in S /\ \A y \in S : low =< y
    BY <1>2
  <2> QED BY <1>2, <2>1 DEF Min
<1> QED BY <1>3, <1>4

LEMMA TheyMeet == BaseInv /\ MeetInv => BothDecisionsMeet
<1> SUFFICES ASSUME BaseInv, MeetInv, NEW i \in Prints, OwnKey(i), IsJudged(DZ, i), IsJudged(PUBLIC, i)
             PROVE  LET d    == verdicts[DZ][i]
                        p    == verdicts[PUBLIC][i]
                        last == Max({d.at, p.at})
                    IN \/ last - Min({d.at, p.at}) > DuelTtl
                       \/ last < writer.now - Window
                       \/ \E n \in DOMAIN settled :
                            settled[n] = [at |-> last, dz |-> d.filled, public |-> p.filled,
                                          lead |-> p.arrives - d.arrives]
  BY DEF BothDecisionsMeet
<1>1. verdicts[DZ][i].at \in Nat /\ verdicts[PUBLIC][i].at \in Nat
  BY QueueTypes DEF Verdict, Feeds
<1>2. /\ Max({verdicts[DZ][i].at, verdicts[PUBLIC][i].at}) = RowOf(i).at
      /\ Min({verdicts[DZ][i].at, verdicts[PUBLIC][i].at}) =
           Earlier(verdicts[DZ][i].at, verdicts[PUBLIC][i].at)
  BY <1>1, TwoOf DEF RowOf
<1>3. Meets(i)
  BY DEF MeetInv
<1> QED BY <1>2, <1>3 DEF Meets, RowOf

LEMMA MeetInit == DuelInit => MeetInv
<1> SUFFICES ASSUME DuelInit, NEW i \in Prints PROVE Follows(i) /\ Meets(i)
  BY DEF MeetInv
<1>1. \A f \in Feeds : ~IsJudged(f, i)
  BY DEF DuelInit, NoVerdict, IsJudged
<1>2. DuelOf(i) = NoDuel /\ \A f \in Feeds : NoDuel.sides[f] = NoFill
  BY DEF DuelInit, DuelOf, Keys, NoDuel
<1>3. DZ \in Feeds /\ PUBLIC \in Feeds
  BY DEF Feeds
<1> QED BY <1>1, <1>2, <1>3 DEF Follows, Meets, OnlyBy

\* Time passing on the writer's clock, and nothing else, breaks neither.
LEMMA LaterKeepsMeeting ==
  ASSUME BaseInv, BaseInv', MeetInv, UNCHANGED <<duels, verdicts, settled>>, writer.now <= writer'.now
  PROVE  MeetInv'
<1> SUFFICES ASSUME NEW i \in Prints, OwnKey(i) PROVE Follows(i)' /\ Meets(i)'
  BY DEF MeetInv, OwnKey
<1>1. Follows(i) /\ Meets(i)
  BY DEF MeetInv
<1>2. /\ writer.now \in Nat /\ writer'.now \in Nat /\ DuelTtl \in Nat /\ Window \in Nat
      /\ \A f \in Feeds : verdicts[f][i].at \in Nat
      /\ RowOf(i).at \in Nat /\ DZ \in Feeds /\ PUBLIC \in Feeds
  <2>1. /\ writer.now \in Nat /\ writer'.now \in Nat /\ \A f \in Feeds : verdicts[f][i].at \in Nat
    BY QueueTypes DEF Verdict, BaseInv, DuelTypeOK
  <2>2. DZ \in Feeds /\ PUBLIC \in Feeds /\ DuelTtl \in Nat /\ Window \in Nat
    BY DuelAssumption DEF Feeds
  <2> QED BY <2>1, <2>2 DEF RowOf, Later
<1>3. /\ DuelOf(i)' = DuelOf(i) /\ RowOf(i)' = RowOf(i)
      /\ \A f \in Feeds : FillOf(f, i)' = FillOf(f, i) /\ (IsJudged(f, i)' <=> IsJudged(f, i))
  BY DEF DuelOf, RowOf, FillOf, IsJudged
<1>4. \A f \in Feeds : OnlyBy(f, i)' <=> OnlyBy(f, i)
  BY <1>3 DEF OnlyBy
<1>5. Follows(i)'
  <2>1. ASSUME NEW f \in Feeds, OnlyBy(f, i), DuelOf(i) = NoDuel, verdicts[f][i].at < writer.now - DuelTtl
        PROVE  verdicts[f][i].at < writer'.now - DuelTtl
    BY <1>2, <2>1
  <2> QED BY <1>1, <1>3, <1>4, <2>1 DEF Follows
<1>6. Meets(i)'
  <2>1. RowOf(i).at < writer.now - Window => RowOf(i).at < writer'.now - Window
    BY <1>2
  <2> QED BY <1>1, <1>2, <1>3, <2>1 DEF Meets
<1> QED BY <1>5, <1>6

\* The writer's prune: a duel that has waited too long, the rows that have left the window.
LEMMA SettleEndKeepsMeeting ==
  ASSUME BaseInv, MeetInv, SettleEnd
  PROVE  MeetInv'
<1> SUFFICES ASSUME NEW i \in Prints, OwnKey(i) PROVE Follows(i)' /\ Meets(i)'
  BY DEF MeetInv, OwnKey
<1>1. Follows(i) /\ Meets(i)
  BY DEF MeetInv
<1>2. /\ UNCHANGED verdicts /\ writer'.now = writer.now /\ KeyOf[i] \in Keys
      /\ DuelOf(i)' = IF Gone(DuelOf(i)) THEN NoDuel ELSE DuelOf(i)
  BY DEF SettleEnd, BaseInv, DuelTypeOK, DuelOf, Keys
<1>3. /\ RowOf(i)' = RowOf(i)
      /\ \A f \in Feeds : FillOf(f, i)' = FillOf(f, i) /\ (IsJudged(f, i)' <=> IsJudged(f, i))
  BY <1>2 DEF RowOf, FillOf, IsJudged
<1>4. \A f \in Feeds : OnlyBy(f, i)' <=> OnlyBy(f, i)
  BY <1>3 DEF OnlyBy
<1>5. Follows(i)'
  <2>1. \A f \in Feeds : NoDuel.sides[f] = NoFill
    BY DEF NoDuel
  <2>2. Gone(DuelOf(i)) => DuelOf(i).made < writer.now - DuelTtl
    BY DEF Gone
  <2>3. CASE Gone(DuelOf(i))
    <3>1. DuelOf(i)' = NoDuel
      BY <1>2, <2>3
    <3>2. ASSUME NEW f \in Feeds, OnlyBy(f, i) PROVE verdicts[f][i].at < writer.now - DuelTtl
      BY <1>1, <2>2, <2>3, <3>2 DEF Follows
    <3> QED BY <1>2, <1>3, <1>4, <2>1, <3>1, <3>2 DEF Follows
  <2>4. CASE ~Gone(DuelOf(i))
    BY <1>1, <1>2, <1>3, <1>4, <2>4 DEF Follows
  <2> QED BY <2>3, <2>4
<1>6. Meets(i)'
  <2>1. DZ \in Feeds /\ PUBLIC \in Feeds
    BY DEF Feeds
  <2>2. CASE ~\E n \in DOMAIN settled : settled[n] = RowOf(i)
    BY <1>1, <1>2, <1>3, <2>1, <2>2 DEF Meets
  <2>3. ASSUME NEW m \in DOMAIN settled, settled[m] = RowOf(i)
        PROVE  Meets(i)'
    <3>1. settled \in Seq(Row) /\ Len(settled) \in Nat /\ DOMAIN settled = 1..Len(settled)
      BY LenProperties DEF BaseInv, DuelTypeOK, Row
    <3>2. PICK n \in 0..Len(settled) :
            /\ \A k \in 1..n : ~Recent(settled[k])
            /\ settled' = SubSeq(settled, n + 1, Len(settled))
      BY DEF SettleEnd
    <3>3. CASE m \in 1..n
      <4>1. ~Recent(RowOf(i))
        BY <2>3, <3>2, <3>3
      <4>2. RowOf(i).at \in Nat /\ writer.now \in Nat /\ Window \in Nat
        <5>1. RowOf(i) \in Row
          BY <2>3, <3>1, ElementOfSeq
        <5> QED BY <5>1, DuelAssumption DEF Row, BaseInv, DuelTypeOK
      <4>3. RowOf(i).at < writer.now - Window
        BY <4>1, <4>2 DEF Recent
      <4> QED BY <1>2, <1>3, <4>3 DEF Meets
    <3>4. CASE m \notin 1..n
      <4>1. /\ m \in Nat /\ n \in Nat /\ m >= n + 1 /\ m <= Len(settled)
        BY <2>3, <3>1, <3>4
      <4>2. n + 1 \in 1..Len(settled)
        BY <3>1, <4>1
      <4>3. /\ settled' \in Seq(Row) /\ Len(settled') = Len(settled) - (n + 1) + 1
            /\ \A k \in 1..Len(settled') : settled'[k] = settled[k + (n + 1) - 1]
        BY <3>1, <3>2, <4>2, HalfFacts
      <4>4. /\ m - n \in 1..Len(settled') /\ (m - n) + (n + 1) - 1 = m /\ m - n \in DOMAIN settled'
        BY <3>1, <4>1, <4>3
      <4>5. settled'[m - n] = RowOf(i)'
        BY <1>3, <2>3, <4>3, <4>4
      <4> QED BY <4>4, <4>5 DEF Meets
    <3> QED BY <3>3, <3>4
  <2> QED BY <2>2, <2>3
<1> QED BY <1>5, <1>6

LEMMA SettleOneKeepsMeeting ==
  ASSUME BaseInv, BaseInv', CountInv, StampInv, MeetInv, SettleOne
  PROVE  MeetInv'
<1>0. PICK p \in Intent, b \in BOOLEAN : p = Head(pending) /\ b = Judged(p)
  BY SettleEffect
<1> DEFINE k == KeyOf[p.of]
           fill == [t |-> p.t, filled |-> b]
           duel == WithSide(Opened(duels[k]), p.by, fill)
           v == [at |-> writer.now, arrives |-> p.t + Reaction, filled |-> b]
<1>1. /\ pending # <<>> /\ p = pending[1]
      /\ verdicts' = [verdicts EXCEPT ![p.by] = [verdicts[p.by] EXCEPT ![p.of] = v]]
      /\ writer' = writer /\ writer.now - p.t > Horizon
  BY <1>0, SettleEffect
<1>2. /\ duels' = [duels EXCEPT ![k] = duel]
      /\ settled' = IF BothActed(duel) THEN Append(settled, Settlement(duel)) ELSE settled
  BY <1>0 DEF SettleOne
<1>3. /\ p.by \in Feeds /\ p.of \in Prints /\ p.t \in Nat \ {0} /\ k \in Keys /\ writer.now \in Nat \ {0}
      /\ 1 \in DOMAIN pending
  <2>1. 1 \in DOMAIN pending
    BY <1>1, TimeTypes
  <2>2. p.by \in Feeds /\ p.of \in Prints /\ p.t \in Nat
    BY DEF Intent
  <2>3. writer.now > p.t /\ writer.now \in Nat
    BY <1>1, <2>2, TimeTypes, DelayTypes
  <2> QED BY <1>1, <2>1, <2>2, <2>3 DEF StampInv, Keys
<1>4. IsQueued(p.by, p.of) /\ ~IsJudged(p.by, p.of)
  BY <1>1, <1>3 DEF IsQueued, CountInv, Exclusive
<1>5. /\ v.at = writer.now /\ v.filled = b /\ v.arrives = p.t + Reaction
      /\ v.arrives - Reaction = p.t /\ fill # NoFill /\ fill.t = p.t /\ fill.filled = b
  BY <1>3, DelayTypes DEF NoFill
<1>6. settled \in Seq(Row) /\ duels \in [Keys -> Pair] /\ duel \in Pair /\ Settlement(duel) \in Row
  <2>1. settled \in Seq(Row) /\ duels \in [Keys -> Pair] /\ fill \in Fill
    BY <1>3 DEF BaseInv, DuelTypeOK, Row, Pair, Fill
  <2> HIDE DEF k, fill
  <2>2. Opened(duels[k]) \in Pair
    BY <1>3, <2>1, PairFacts
  <2>3. duel \in Pair
    BY <1>3, <2>1, <2>2, PairFacts
  <2>4. Settlement(duel) \in Row
    BY <1>3, <2>1, <2>3, PairFacts
  <2> QED BY <2>1, <2>3, <2>4
<1>7. verdicts \in [Feeds -> [Prints -> Verdict]]
  BY QueueTypes
<1> HIDE DEF k, fill, duel, v
<1>8. /\ verdicts'[p.by][p.of] = v
      /\ \A f \in Feeds, i \in Prints : ~(f = p.by /\ i = p.of) => verdicts'[f][i] = verdicts[f][i]
  BY <1>1, <1>3, <1>7
<1> SUFFICES ASSUME NEW i \in Prints, OwnKey(i) PROVE Follows(i)' /\ Meets(i)'
  BY DEF MeetInv, OwnKey
<1>9. Follows(i) /\ Meets(i)
  BY DEF MeetInv
<1>10. DZ \in Feeds /\ PUBLIC \in Feeds /\ DZ # PUBLIC /\ \A f \in Feeds : f = DZ \/ f = PUBLIC
  BY DEF Feeds, DZ, PUBLIC
<1>11. \A n \in DOMAIN settled : n \in DOMAIN settled' /\ settled'[n] = settled[n]
  BY <1>2, <1>6
<1>12. CASE i # p.of
  <2>1. KeyOf[i] # k
    BY <1>3, <1>12 DEF OwnKey, k
  <2>2. DuelOf(i)' = DuelOf(i)
    BY <1>2, <1>6, <2>1 DEF DuelOf, Keys
  <2>3. \A f \in Feeds : verdicts'[f][i] = verdicts[f][i]
    BY <1>8, <1>12
  <2>4. \A f \in Feeds : FillOf(f, i)' = FillOf(f, i) /\ (IsJudged(f, i)' <=> IsJudged(f, i))
    BY <2>3 DEF FillOf, IsJudged
  <2>5. RowOf(i)' = RowOf(i)
    BY <1>10, <2>3 DEF RowOf
  <2>6. Follows(i)'
    BY <1>1, <1>9, <2>2, <2>3, <2>4 DEF Follows, OnlyBy
  <2>7. Meets(i)'
    BY <1>1, <1>9, <1>10, <1>11, <2>3, <2>4, <2>5 DEF Meets
  <2> QED BY <2>6, <2>7
<1>13. CASE i = p.of
  <2>1. DuelOf(i) = duels[k] /\ DuelOf(i)' = duel /\ DuelOf(i) \in Pair
    BY <1>2, <1>3, <1>6, <1>13 DEF DuelOf, k
  <2>2. /\ IsJudged(p.by, i)' /\ FillOf(p.by, i)' = fill
    <3>1. IsJudged(p.by, i)'
      BY <1>3, <1>5, <1>8, <1>13 DEF IsJudged
    <3>2. FillOf(p.by, i)' = fill
      BY <1>5, <1>8, <1>13 DEF FillOf, fill
    <3> QED BY <3>1, <3>2
  <2>3. \A g \in Feeds : g # p.by =>
          /\ verdicts'[g][i] = verdicts[g][i] /\ FillOf(g, i)' = FillOf(g, i)
          /\ (IsJudged(g, i)' <=> IsJudged(g, i))
    BY <1>8 DEF FillOf, IsJudged
  <2>4. DuelOf(i).sides[p.by] = NoFill
    BY <1>3, <1>4, <1>9, <1>13 DEF Follows
  <2>5. /\ duel.made = (IF DuelOf(i) = NoDuel THEN writer.now ELSE DuelOf(i).made)
        /\ duel.sides[p.by] = fill
        /\ \A g \in Feeds : g # p.by => duel.sides[g] = DuelOf(i).sides[g]
    <3>1. /\ Opened(duels[k]).sides = DuelOf(i).sides
          /\ Opened(duels[k]).made = IF DuelOf(i) = NoDuel THEN writer.now ELSE DuelOf(i).made
      <4>1. [NoDuel EXCEPT !.made = writer.now].sides = NoDuel.sides
            /\ [NoDuel EXCEPT !.made = writer.now].made = writer.now
        BY DEF NoDuel
      <4> QED BY <2>1, <4>1 DEF Opened
    <3>2. Opened(duels[k]) \in Pair
      <4>1. fill \in Fill
        BY <1>3 DEF Fill, fill
      <4> QED BY <1>3, <2>1, <4>1, PairFacts
    <3>3. duel = [Opened(duels[k]) EXCEPT !.sides = [Opened(duels[k]).sides EXCEPT ![p.by] = fill]]
      BY <2>4, <3>1 DEF duel, WithSide
    <3> QED BY <1>3, <3>1, <3>2, <3>3 DEF Pair
  <2>6. CASE \A g \in Feeds : g # p.by => ~IsJudged(g, i)
    <3>1. DuelOf(i) = NoDuel
      BY <1>4, <1>9, <1>13, <2>6 DEF Follows
    <3>2. duel.made = verdicts'[p.by][i].at
      BY <1>5, <1>8, <1>13, <2>5, <3>1
    <3>3. \A g \in Feeds : g # p.by => duel.sides[g] = NoFill
      BY <2>5, <3>1 DEF NoDuel
    <3>4. Follows(i)'
      BY <1>3, <2>1, <2>2, <2>3, <2>5, <2>6, <3>2, <3>3 DEF Follows, OnlyBy
    <3>5. Meets(i)'
      BY <1>10, <2>3, <2>6 DEF Meets
    <3> QED BY <3>4, <3>5
  <2>7. ASSUME NEW g \in Feeds, g # p.by, IsJudged(g, i)
        PROVE  Follows(i)' /\ Meets(i)'
    <3>1. OnlyBy(g, i)
      BY <1>3, <1>4, <1>10, <1>13, <2>7 DEF OnlyBy
    <3>2. Follows(i)'
      <4>1. \A f \in Feeds : f # p.by => (DuelOf(i).sides[f] # NoFill => IsJudged(f, i) /\ DuelOf(i).sides[f] = FillOf(f, i))
        BY <1>9 DEF Follows
      <4>2. ~(\A f \in Feeds : ~IsJudged(f, i)')
        BY <1>3, <2>2
      <4>3. \A f \in Feeds : ~OnlyBy(f, i)'
        BY <1>3, <2>2, <2>3, <2>7 DEF OnlyBy
      <4> QED BY <2>1, <2>2, <2>3, <2>5, <4>1, <4>2, <4>3 DEF Follows
    <3>3. /\ verdicts[g][i].at \in Nat /\ verdicts[g][i].at <= writer.now /\ verdicts'[g][i] = verdicts[g][i]
          /\ verdicts'[p.by][i].at = writer.now /\ writer.now \in Nat /\ DuelTtl \in Nat
          /\ verdicts[g][i].arrives \in Nat /\ FillOf(g, i).t # 0
      BY <1>3, <1>5, <1>7, <1>8, <1>13, <2>7, DuelAssumption DEF Verdict, StampInv
    <3>4. /\ RowOf(i)'.at = writer.now
          /\ Earlier(verdicts'[DZ][i].at, verdicts'[PUBLIC][i].at) = verdicts[g][i].at
      BY <1>3, <1>10, <2>7, <3>3 DEF RowOf, Later, Earlier
    <3>5. CASE DuelOf(i) = NoDuel /\ verdicts[g][i].at < writer.now - DuelTtl
      <4>1. writer.now - verdicts[g][i].at > DuelTtl
        BY <3>3, <3>5
      <4> QED BY <3>2, <3>4, <4>1 DEF Meets
    <3>6. CASE DuelOf(i).sides[g] = FillOf(g, i)
      <4>1. duel.sides[g] = FillOf(g, i) /\ FillOf(g, i) # NoFill /\ duel.sides[p.by] = fill /\ fill # NoFill
        BY <1>5, <2>5, <2>7, <3>3, <3>6 DEF NoFill
      <4>2. BothActed(duel)
        BY <1>3, <1>10, <2>7, <4>1 DEF BothActed
      <4>3. settled' = Append(settled, Settlement(duel))
        BY <1>2, <4>2
      <4>4. Settlement(duel) = RowOf(i)'
        <5>1. /\ verdicts'[p.by][i].filled = fill.filled /\ verdicts'[p.by][i].arrives = fill.t + Reaction
              /\ fill.t \in Nat
          BY <1>3, <1>5, <1>8, <1>13
        <5>2. /\ verdicts'[g][i].filled = FillOf(g, i).filled
              /\ verdicts'[g][i].arrives = FillOf(g, i).t + Reaction /\ FillOf(g, i).t \in Int
          BY <3>3, DelayTypes DEF FillOf
        <5>3. /\ duel.sides[DZ].filled = verdicts'[DZ][i].filled
              /\ duel.sides[PUBLIC].filled = verdicts'[PUBLIC][i].filled
          BY <1>3, <1>10, <2>7, <4>1, <5>1, <5>2
        <5>4. /\ verdicts'[DZ][i].arrives = duel.sides[DZ].t + Reaction /\ duel.sides[DZ].t \in Int
              /\ verdicts'[PUBLIC][i].arrives = duel.sides[PUBLIC].t + Reaction /\ duel.sides[PUBLIC].t \in Int
          BY <1>3, <1>10, <2>7, <4>1, <5>1, <5>2
        <5>5. duel.sides[PUBLIC].t - duel.sides[DZ].t = verdicts'[PUBLIC][i].arrives - verdicts'[DZ][i].arrives
          BY <5>4, DelayTypes
        <5> QED BY <3>4, <5>3, <5>5 DEF Settlement, RowOf
      <4>5. /\ Len(settled) + 1 \in DOMAIN settled' /\ settled'[Len(settled) + 1] = Settlement(duel)
        BY <1>6, <4>3
      <4> QED BY <3>2, <4>4, <4>5 DEF Meets
    <3> QED BY <1>9, <3>1, <3>5, <3>6 DEF Follows
  <2> QED BY <2>6, <2>7
<1> QED BY <1>12, <1>13

LEMMA MeetStep == BaseInv /\ BaseInv' /\ TimeInv /\ CountInv /\ StampInv /\ MeetInv /\ [DuelNext]_vars => MeetInv'
<1> SUFFICES ASSUME BaseInv, BaseInv', TimeInv, CountInv, StampInv, MeetInv, [DuelNext]_vars PROVE MeetInv'
  OBVIOUS
<1>1. writer.now \in Nat
  BY TimeTypes
<1>2. CASE UNCHANGED vars
  BY <1>1, <1>2, LaterKeepsMeeting DEF vars
<1>3. CASE ClockStep
  BY <1>3, ClockKeepsBase, ClockMovesOn, LaterKeepsMeeting DEF state
<1>4. ASSUME NEW f \in Feeds, ReadStep(f) PROVE MeetInv'
  <2>1. UNCHANGED <<writer, verdicts, state>>
    BY <1>4, ReadEffect
  <2> QED BY <1>1, <2>1, LaterKeepsMeeting DEF state
<1>5. ASSUME NEW f \in Feeds, OnEvent(f) PROVE MeetInv'
  <2>1. UNCHANGED <<duels, settled, writer, verdicts>>
    BY <1>5, OnEventEffect
  <2> QED BY <1>1, <2>1, LaterKeepsMeeting
<1> QED BY <1>2, <1>3, <1>4, <1>5, DuelShapes, SettleOneKeepsMeeting, SettleEndKeepsMeeting

LEMMA MeetHolds == DuelSpec => []MeetInv
<1>1. QED BY MeetInit, MeetStep, BaseHolds, TimeHolds, CountHolds, StampHolds, PTL DEF DuelSpec

\* Two decisions on one print end up as one row, whichever was judged first, unless they
\* were judged further apart than a duel lives or the row has left the window (settle_due).
THEOREM DecisionsMeet == DuelSpec => []BothDecisionsMeet
<1>1. QED BY TheyMeet, BaseHolds, MeetHolds, PTL
-----------------------------------------------------------------------------
(* The headline. *)

JudgedByBoth == {i \in Prints : IsJudged(DZ, i) /\ IsJudged(PUBLIC, i)}

\* No more rows than prints both bots have a verdict on.
RowInv == Len(settled) <= Cardinality(JudgedByBoth)

LEMMA BothAreFinite ==
  ASSUME BaseInv, CountInv
  PROVE  /\ IsFiniteSet(JudgedByBoth) /\ Cardinality(JudgedByBoth) \in Nat
         /\ \A f \in Feeds : Cardinality(JudgedByBoth) <= Cardinality(JudgedOf(f))
         /\ Len(settled) \in Nat
<1>1. \A f \in Feeds : JudgedByBoth \subseteq JudgedOf(f)
  BY DEF JudgedByBoth, JudgedOf, Feeds
<1>2. \A f \in Feeds : /\ IsFiniteSet(JudgedByBoth) /\ Cardinality(JudgedByBoth) \in Nat
                       /\ Cardinality(JudgedByBoth) <= Cardinality(JudgedOf(f))
  BY <1>1, DecidedIsFinite, FS_Subset, FS_CardinalityType
<1>3. DZ \in Feeds /\ Len(settled) \in Nat
  BY LenProperties DEF Feeds, BaseInv, DuelTypeOK
<1> QED BY <1>2, <1>3

LEMMA RowStep ==
  ASSUME BaseInv, BaseInv', CountInv, CountInv', MeetInv, RowInv, [DuelNext]_vars, \A i \in Prints : OwnKey(i)
  PROVE  RowInv'
<1>1. CASE UNCHANGED <<settled, verdicts>>
  BY <1>1 DEF RowInv, JudgedByBoth, IsJudged
<1>2. CASE SettleEnd
  <2>1. verdicts' = verdicts /\ JudgedByBoth' = JudgedByBoth
    BY <1>2 DEF SettleEnd, JudgedByBoth, IsJudged
  <2>2. PICK n \in 0..Len(settled) : settled' = SubSeq(settled, n + 1, Len(settled))
    BY <1>2 DEF SettleEnd
  <2>3. settled \in Seq(Row) /\ Len(settled) \in Nat
    BY BothAreFinite DEF BaseInv, DuelTypeOK, Row
  <2>4. Len(settled') <= Len(settled) /\ Len(settled') \in Nat
    <3>1. CASE n = Len(settled)
      BY <2>2, <2>3, <3>1, SubSeqProperties
    <3>2. CASE n < Len(settled)
      <4>1. n + 1 \in 1..Len(settled)
        BY <2>3, <3>2
      <4>2. Len(settled') = Len(settled) - (n + 1) + 1
        BY <2>2, <2>3, <4>1, HalfFacts
      <4> QED BY <2>3, <3>2, <4>2
    <3> QED BY <2>3, <3>1, <3>2
  <2> QED BY <2>1, <2>3, <2>4, BothAreFinite DEF RowInv
<1>3. CASE SettleOne
  <2> DEFINE p == Head(pending)
             duel == WithSide(Opened(duels[KeyOf[p.of]]), p.by, [t |-> p.t, filled |-> Judged(p)])
  <2>1. /\ pending # <<>> /\ p \in Intent /\ p = pending[1] /\ Judged(p) \in BOOLEAN
        /\ verdicts' = [verdicts EXCEPT ![p.by] =
             [verdicts[p.by] EXCEPT ![p.of] = [at |-> writer.now, arrives |-> p.t + Reaction, filled |-> Judged(p)]]]
        /\ writer.now - p.t > Horizon
    BY <1>3, SettleEffect
  <2>2. settled' = IF BothActed(duel) THEN Append(settled, Settlement(duel)) ELSE settled
    BY <1>3 DEF SettleOne
  <2>3. /\ p.by \in Feeds /\ p.of \in Prints /\ p.t \in Nat /\ writer.now # 0 /\ 1 \in DOMAIN pending
        /\ verdicts \in [Feeds -> [Prints -> Verdict]]
    <3>1. p.by \in Feeds /\ p.of \in Prints /\ p.t \in Nat
      BY <2>1 DEF Intent
    <3> QED BY <2>1, <3>1, TimeTypes, DelayTypes, QueueTypes
  <2>4. ~IsJudged(p.by, p.of) /\ OwnKey(p.of) /\ Follows(p.of)
    <3>1. IsQueued(p.by, p.of)
      BY <2>1, <2>3 DEF IsQueued
    <3> QED BY <2>3, <3>1 DEF CountInv, Exclusive, MeetInv
  <2>5. duels[KeyOf[p.of]] \in Pair /\ settled \in Seq(Row) /\ Settlement(duel) \in Row
    <3>1. duels \in [Keys -> Pair] /\ KeyOf[p.of] \in Keys /\ settled \in Seq(Row)
      BY <2>3 DEF Keys, BaseInv, DuelTypeOK, Row, Pair
    <3>2. duels[KeyOf[p.of]] \in Pair /\ [t |-> p.t, filled |-> Judged(p)] \in Fill
      BY <2>1, <2>3, <3>1 DEF Fill
    <3>3. Opened(duels[KeyOf[p.of]]) \in Pair
      BY <2>3, <3>2, PairFacts
    <3>4. duel \in Pair
      BY <2>3, <3>2, <3>3, PairFacts
    <3> QED BY <2>3, <3>1, <3>2, <3>4, PairFacts
  <2>6. ASSUME NEW g \in Feeds, g # p.by, duel.sides[g] # NoFill PROVE IsJudged(g, p.of)
    <3> DEFINE old == duels[KeyOf[p.of]]
    <3>1. Opened(old).sides = old.sides /\ Opened(old) \in Pair
      <4>1. [NoDuel EXCEPT !.made = writer.now].sides = NoDuel.sides
        BY DEF NoDuel
      <4>2. [t |-> p.t, filled |-> Judged(p)] \in Fill
        BY <2>1, <2>3 DEF Fill
      <4> QED BY <2>3, <2>5, <4>1, <4>2, PairFacts DEF Opened
    <3>2. duel.sides[g] = old.sides[g]
      BY <2>3, <2>6, <3>1 DEF WithSide, Pair
    <3> QED BY <2>4, <2>6, <3>2 DEF Follows, DuelOf
  <2>7. PICK q : q = p
    OBVIOUS
  <2>8. \A f \in Feeds, i \in Prints : IsJudged(f, i)' <=> (IsJudged(f, i) \/ (f = q.by /\ i = q.of))
    BY <2>1, <2>3, <2>7 DEF IsJudged
  <2> HIDE DEF p, duel
  <2>9. /\ JudgedByBoth \subseteq JudgedByBoth' /\ JudgedByBoth' \subseteq JudgedByBoth \cup {p.of}
        /\ BothActed(duel) => p.of \in JudgedByBoth' \ JudgedByBoth
    <3>2. DZ \in Feeds /\ PUBLIC \in Feeds /\ \A f \in Feeds : f = DZ \/ f = PUBLIC
      BY DEF Feeds
    <3> QED BY <2>3, <2>4, <2>6, <2>7, <2>8, <3>2 DEF JudgedByBoth, BothActed
  <2>10. /\ IsFiniteSet(JudgedByBoth) /\ Cardinality(JudgedByBoth) \in Nat /\ Len(settled) \in Nat
        /\ IsFiniteSet(JudgedByBoth') /\ Cardinality(JudgedByBoth') \in Nat
    <3>1. IsFiniteSet(JudgedByBoth) /\ Cardinality(JudgedByBoth) \in Nat /\ Len(settled) \in Nat
      BY BothAreFinite
    <3>2. IsFiniteSet(JudgedByBoth \cup {p.of})
      BY <3>1, FS_AddElement
    <3> QED BY <2>9, <3>1, <3>2, FS_Subset, FS_CardinalityType
  <2>11. CASE ~BothActed(duel)
    <3>1. Cardinality(JudgedByBoth) <= Cardinality(JudgedByBoth')
      BY <2>9, <2>10, FS_Subset
    <3> QED BY <2>2, <2>10, <2>11, <3>1 DEF RowInv
  <2>12. CASE BothActed(duel)
    <3>1. /\ Cardinality(JudgedByBoth \cup {p.of}) = Cardinality(JudgedByBoth) + 1
          /\ JudgedByBoth \cup {p.of} \subseteq JudgedByBoth'
      BY <2>9, <2>10, <2>12, OneMore
    <3>2. Cardinality(JudgedByBoth) + 1 <= Cardinality(JudgedByBoth')
      BY <2>10, <3>1, FS_Subset
    <3>3. Len(settled') = Len(settled) + 1
      BY <2>2, <2>5, <2>12
    <3> QED BY <2>10, <3>2, <3>3 DEF RowInv
  <2> QED BY <2>11, <2>12
<1>4. ClockStep => UNCHANGED <<settled, verdicts>>
  BY ClockKeepsBase DEF state
<1>5. \A f \in Feeds : ReadStep(f) => UNCHANGED <<settled, verdicts>>
  BY ReadEffect DEF state
<1>6. \A f \in Feeds : OnEvent(f) => UNCHANGED <<settled, verdicts>>
  BY OnEventEffect
<1>7. UNCHANGED vars => UNCHANGED <<settled, verdicts>>
  BY DEF vars
<1> QED BY <1>1, <1>2, <1>3, <1>4, <1>5, <1>6, <1>7, DuelShapes

\* While no two prints share a duel_key, the headline has no more rows than either bot
\* has judged decisions (settle_due); with a shared key it may.
THEOREM HeadlineOfPairs ==
  ASSUME \A i \in Prints : OwnKey(i)
  PROVE  DuelSpec => []HeadlineIsOfPairs
<1>1. ASSUME DuelInit PROVE RowInv
  <2>1. settled = <<>> /\ JudgedByBoth = {}
    BY <1>1 DEF DuelInit, JudgedByBoth, IsJudged, NoVerdict, Feeds
  <2> QED BY <2>1, FS_EmptySet DEF RowInv
<1>2. DuelInit => RowInv
  BY <1>1
<1>3. BaseInv /\ BaseInv' /\ CountInv /\ CountInv' /\ MeetInv /\ RowInv /\ [DuelNext]_vars => RowInv'
  BY RowStep
<1>4. BaseInv /\ CountInv /\ RowInv => HeadlineIsOfPairs
  <2> SUFFICES ASSUME BaseInv, CountInv, RowInv, NEW f \in Feeds PROVE Len(settled) <= boards[f].intents
    BY DEF HeadlineIsOfPairs
  <2>1. boards[f].intents = Cardinality(JudgedOf(f)) /\ Cardinality(JudgedOf(f)) \in Nat
    BY DecidedIsFinite DEF CountInv, BoardOfJudged
  <2> QED BY <2>1, BothAreFinite DEF RowInv
<1>5. QED BY <1>2, <1>3, <1>4, BaseHolds, CountHolds, MeetHolds, PTL DEF DuelSpec
=============================================================================
