-------------------------------- MODULE Duel --------------------------------
(***************************************************************************)
(* The paper duel (demo/runner.py): DemoState with its two bots, one per   *)
(* feed, its timeline of DoubleZero books and its queue of intents, and    *)
(* the three things that call it: the DoubleZero reader thread, the public *)
(* handler and the writer, the last two in one event loop, so that they    *)
(* never run at the same time.  A message is stamped when it is read and   *)
(* its events go through on_event one by one, each under the lock; the     *)
(* writer reads its clock, takes the lock, judges every intent at the head *)
(* of the queue that is due, and prunes.                                   *)
(*                                                                         *)
(* The venue's prints have an identity; the program sees only their key    *)
(* (duel_key).  `verdicts` records, for the properties only, what became   *)
(* of each bot's decision on each print.  The ring of the last forty duels *)
(* and the mark-out, both only shown, are left out.                        *)
(***************************************************************************)
EXTENDS GroundTruth

CONSTANTS
  Prints,     \* the venue's trades, positive numbers
  KeyOf,      \* duel_key of each
  MarketOf, SideOf, PriceOf,
  Large,      \* those at least min_print_size large
  Stamped,    \* those with a venue time stamp
  DzQuotes,   \* the quote messages of each feed: a market and its events
  PubQuotes,
  Reaction,   \* _reaction_ns
  Markout,    \* _markout_ns
  Window,     \* _window_ns
  DuelTtl,    \* _DUEL_TTL_NS
  MaxStall,   \* environment: how long a reader may hold a message it has stamped
  Heard,      \* bound: the prints that may come in on each feed
  MaxQuotes,  \* bound: how many quote messages of each feed
  MaxRead,    \* bound: when the last message is read
  MaxTime     \* bound: the clock

DZ     == "doublezero"
PUBLIC == "public"
Feeds  == {DZ, PUBLIC}
Markets == {MarketOf[i] : i \in Prints}
Keys    == {KeyOf[i] : i \in Prints}
Horizon == Markout + Reaction

\* One side of the book in a quote message; it is of no print.
Quote == [kind : {"bid", "ask"}, market : Markets, price : Price, of : {0}]

ASSUME PrintAssumption ==
  /\ Prints \subseteq Nat \ {0}
  /\ DOMAIN KeyOf = Prints /\ DOMAIN MarketOf = Prints
  /\ SideOf \in [Prints -> {"buy", "sell"}] /\ PriceOf \in [Prints -> Price \ {NoPrice}]
  /\ Large \subseteq Prints /\ Stamped \subseteq Prints
ASSUME DuelAssumption ==
  /\ {Reaction, Markout, Window, DuelTtl, MaxStall, MaxRead, MaxTime} \subseteq Nat
  /\ Heard \in [Feeds -> SUBSET Prints] /\ MaxQuotes \in [Feeds -> Nat]
  /\ DzQuotes \cup PubQuotes \subseteq Seq(Quote)

VARIABLES
  mono,      \* the monotonic clock
  hand,      \* per feed: the message being handled, its stamp and the events to come
  taken,     \* per feed: the prints that have come in
  quotes,    \* per feed: how many quote messages have come in
  counts,    \* counts
  bots,      \* bots, per feed and market
  truth,     \* truth, per market
  pending,   \* _pending
  duels,     \* _duels: per key, the two sides and when it was made
  boards,    \* boards: intents and fills of each feed
  settled,   \* _settled
  writer,    \* the writer: where settle_due is, and its `now`
  verdicts   \* history: per feed and print, when and how it was judged

vars == <<mono, hand, taken, quotes, counts, bots, truth, pending, duels, boards,
          settled, writer, verdicts>>
state == <<counts, bots, truth, pending, duels, boards, settled>>

Nothing   == [t |-> 0, todo |-> <<>>]
NoFill    == [t |-> 0, filled |-> FALSE]
NoDuel    == [made |-> 0, sides |-> [f \in Feeds |-> NoFill]]
NoVerdict == [at |-> 0, arrives |-> 0, filled |-> FALSE]

Event  == [kind : {"bid", "ask", "trade"}, market : Markets, price : Price, of : Prints \cup {0}]
Fill   == [t : Nat, filled : BOOLEAN]
Intent == [by : Feeds, of : Prints, limit : Price \ {NoPrice}, t : Nat]

DuelTypeOK ==
  /\ mono \in Nat
  /\ hand \in [Feeds -> [t : Nat, todo : Seq(Event)]]
  /\ taken \in [Feeds -> SUBSET Prints] /\ quotes \in [Feeds -> Nat]
  /\ counts \in [Feeds -> Nat]
  /\ bots \in [Feeds -> [Markets -> Bot]]
  /\ \A f \in Feeds, m \in Markets : bots[f][m].position \in (-MaxPosition)..MaxPosition
  /\ truth \in [Markets -> Seq(Book)]
  /\ pending \in Seq(Intent)
  /\ duels \in [Keys -> [made : Nat, sides : [Feeds -> Fill]]]
  /\ boards \in [Feeds -> [intents : Nat, fills : Nat]]
  /\ settled \in Seq([at : Nat, dz : BOOLEAN, public : BOOLEAN, lead : Int])
  /\ writer \in [stage : {"sleep", "ready", "judging"}, now : Nat]
  /\ verdicts \in [Feeds -> [Prints -> [at : Nat, arrives : Nat, filled : BOOLEAN]]]

DuelInit ==
  /\ mono = 1
  /\ hand = [f \in Feeds |-> Nothing]
  /\ taken = [f \in Feeds |-> {}] /\ quotes = [f \in Feeds |-> 0]
  /\ counts = [f \in Feeds |-> 0]
  /\ bots = [f \in Feeds |-> [m \in Markets |-> NewBot]]
  /\ truth = [m \in Markets |-> <<>>]
  /\ pending = <<>>
  /\ duels = [k \in Keys |-> NoDuel]
  /\ boards = [f \in Feeds |-> [intents |-> 0, fills |-> 0]]
  /\ settled = <<>>
  /\ writer = [stage |-> "sleep", now |-> 0]
  /\ verdicts = [f \in Feeds |-> [i \in Prints |-> NoVerdict]]

-----------------------------------------------------------------------------
(* The clock and the two readers. *)

\* Time passes, but a reader does not sit on a message for ever.
Tick ==
  /\ mono < MaxTime
  /\ \A f \in Feeds : hand[f].todo # <<>> => mono < hand[f].t + MaxStall
  /\ mono' = mono + 1
  /\ UNCHANGED <<hand, taken, quotes, writer, verdicts, state>>

\* The event loop is free for the public handler only while the writer sleeps.
MayRead(f) == hand[f].todo = <<>> /\ (f = PUBLIC => writer.stage = "sleep")

Read(f, events) ==
  /\ MayRead(f) /\ mono <= MaxRead
  /\ hand' = [hand EXCEPT ![f] = [t |-> mono, todo |-> events]]
  /\ UNCHANGED <<mono, writer, verdicts, state>>

ReadQuotes(f, events) ==
  /\ quotes[f] < MaxQuotes[f]
  /\ quotes' = [quotes EXCEPT ![f] = @ + 1]
  /\ Read(f, events)
  /\ UNCHANGED taken

\* A print comes in once on a feed.  That is so of DoubleZero while one arm is selected;
\* while none is, both arms' copies go through on_event, and what keeps the bot from
\* acting on both is a cooldown longer than the lag between the arms.
ReadTrade(f, i) ==
  /\ i \in Heard[f] \ taken[f]
  /\ taken' = [taken EXCEPT ![f] = @ \cup {i}]
  /\ Read(f, <<[kind |-> "trade", market |-> MarketOf[i], price |-> PriceOf[i], of |-> i]>>)
  /\ UNCHANGED quotes

-----------------------------------------------------------------------------
(* on_event *)

\* The bot's own book and, for DoubleZero, the timeline.
OnQuote(f, e, t) ==
  LET book == Apply(bots[f][e.market].book, e, t) IN
  /\ bots' = [bots EXCEPT ![f][e.market].book = book]
  /\ truth' = IF f = DZ THEN [truth EXCEPT ![e.market] = Record(@, book)] ELSE truth
  /\ UNCHANGED pending

IntentOn(f, e, t) ==
  [by |-> f, of |-> e.of, limit |-> Target(bots[f][e.market].book, SideOf[e.of]), t |-> t]

\* The bot acts; without a venue stamp the intent has no key and is dropped.
OnFiring(f, e, t) ==
  /\ e.of \in Large /\ Fires(bots[f][e.market], SideOf[e.of], e.price, t)
  /\ bots' = [bots EXCEPT ![f][e.market] = Acted(@, SideOf[e.of], t)]
  /\ pending' = IF e.of \in Stamped THEN Append(pending, IntentOn(f, e, t)) ELSE pending
  /\ UNCHANGED truth

OnIdlePrint(f, e, t) ==
  /\ ~(e.of \in Large /\ Fires(bots[f][e.market], SideOf[e.of], e.price, t))
  /\ UNCHANGED <<bots, pending, truth>>

OnEvent(f) ==
  /\ hand[f].todo # <<>> /\ writer.stage # "judging"
  /\ counts' = [counts EXCEPT ![f] = @ + 1]
  /\ hand' = [hand EXCEPT ![f].todo = Tail(@)]
  /\ LET e == Head(hand[f].todo) IN
     \/ e.kind # "trade" /\ OnQuote(f, e, hand[f].t)
     \/ e.kind = "trade" /\ OnFiring(f, e, hand[f].t)
     \/ e.kind = "trade" /\ OnIdlePrint(f, e, hand[f].t)
  /\ UNCHANGED <<mono, taken, quotes, duels, boards, settled, writer, verdicts>>

-----------------------------------------------------------------------------
(* settle_due, of the writer *)

SettleStart ==
  /\ writer.stage = "sleep" /\ hand[PUBLIC].todo = <<>>
  /\ writer' = [stage |-> "ready", now |-> mono]
  /\ UNCHANGED <<mono, hand, taken, quotes, verdicts, state>>

SettleLock ==
  /\ writer.stage = "ready"
  /\ writer' = [writer EXCEPT !.stage = "judging"]
  /\ UNCHANGED <<mono, hand, taken, quotes, verdicts, state>>

\* Mutant: due as soon as the horizon is reached.
HeadIsDueAtHorizon == pending # <<>> /\ writer.now - Head(pending).t >= Horizon

HeadIsDue == pending # <<>> /\ writer.now - Head(pending).t > Horizon

Judged(intent) ==
  Filled(truth[MarketOf[intent.of]], SideOf[intent.of], intent.limit, intent.t + Reaction)

\* Duel.add: the first fill of a side stays.
WithSide(duel, f, fill) ==
  IF duel.sides[f] = NoFill THEN [duel EXCEPT !.sides[f] = fill] ELSE duel

Opened(duel) == IF duel = NoDuel THEN [NoDuel EXCEPT !.made = writer.now] ELSE duel

\* Mutant: one bot is enough.
AnyActed(duel) == \E f \in Feeds : duel.sides[f] # NoFill

BothActed(duel) == \A f \in Feeds : duel.sides[f] # NoFill

Settlement(duel) ==
  [at |-> writer.now, dz |-> duel.sides[DZ].filled, public |-> duel.sides[PUBLIC].filled,
   lead |-> duel.sides[PUBLIC].t - duel.sides[DZ].t]

\* Mutant: a miss is not counted as an intent.
CreditFillsOnly(board, filled) ==
  IF filled THEN [intents |-> board.intents + 1, fills |-> board.fills + 1] ELSE board

\* Scoreboard.add
Credit(board, filled) ==
  [intents |-> board.intents + 1, fills |-> IF filled THEN board.fills + 1 ELSE board.fills]

SettleOne ==
  /\ writer.stage = "judging" /\ HeadIsDue
  /\ pending' = Tail(pending)
  /\ LET p    == Head(pending)
         k    == KeyOf[p.of]
         duel == WithSide(Opened(duels[k]), p.by, [t |-> p.t, filled |-> Judged(p)])
     IN
     /\ boards' = [boards EXCEPT ![p.by] = Credit(@, Judged(p))]
     /\ duels' = [duels EXCEPT ![k] = duel]
     /\ settled' = IF BothActed(duel) THEN Append(settled, Settlement(duel)) ELSE settled
     /\ verdicts' = [verdicts EXCEPT ![p.by][p.of] =
          [at |-> writer.now, arrives |-> p.t + Reaction, filled |-> Judged(p)]]
  /\ UNCHANGED <<mono, hand, taken, quotes, counts, bots, truth, writer>>

\* Mutants: one intent per round, `if` for `while`; no age check.
RoundMayEnd == TRUE
GoneUnchecked(duel) == TRUE

RoundEnds == ~HeadIsDue
Gone(duel) == duel.made < writer.now - DuelTtl
Recent(row) == row.at >= writer.now - Window

SettleEnd ==
  /\ writer.stage = "judging" /\ RoundEnds
  /\ \E n \in 0..Len(settled) :
       /\ \A i \in 1..n : ~Recent(settled[i])
       /\ n < Len(settled) => Recent(settled[n + 1])
       /\ settled' = SubSeq(settled, n + 1, Len(settled))
  /\ duels' = [k \in Keys |-> IF Gone(duels[k]) THEN NoDuel ELSE duels[k]]
  /\ writer' = [writer EXCEPT !.stage = "sleep"]
  /\ UNCHANGED <<mono, hand, taken, quotes, counts, bots, truth, pending, boards, verdicts>>

-----------------------------------------------------------------------------

DuelNext ==
  \/ Tick
  \/ \E events \in DzQuotes : ReadQuotes(DZ, events)
  \/ \E events \in PubQuotes : ReadQuotes(PUBLIC, events)
  \/ \E f \in Feeds, i \in Prints : ReadTrade(f, i)
  \/ \E f \in Feeds : OnEvent(f)
  \/ SettleStart \/ SettleLock \/ SettleOne \/ SettleEnd

DuelSpec == DuelInit /\ [][DuelNext]_vars

-----------------------------------------------------------------------------
(* Properties. *)

IsJudged(f, i) == verdicts[f][i].at # 0
IsQueued(f, i) == \E n \in DOMAIN pending : pending[n].by = f /\ pending[n].of = i

\* The timeline every fill is judged against is the DoubleZero bot's own book as
\* it changed: in the order of the stamps, and up to date with it.
TruthIsTheDzBook ==
  \A m \in Markets :
    /\ \A n \in 1..(Len(truth[m]) - 1) : truth[m][n].at < truth[m][n + 1].at
    /\ truth[m] = <<>> \/ LastOf(truth[m]) = bots[DZ][m].book

\* A decision is judged once, and what the scoreboards show is what was judged.
BoardsAddUp ==
  \A f \in Feeds :
    /\ \A i \in Prints : ~(IsQueued(f, i) /\ IsJudged(f, i))
    /\ boards[f].intents = Cardinality({i \in Prints : IsJudged(f, i)})
    /\ boards[f].fills = Cardinality({i \in Prints : verdicts[f][i].filled})

\* A bot's position is made of the decisions that are queued or judged, each counted
\* once, and of prints without a venue stamp: their intents are dropped after the bot
\* has acted, so a position may hold what no verdict will ever be read for, but of no
\* other print.
PositionIsBacked ==
  \A f \in Feeds : \E gone \in SUBSET (taken[f] \ Stamped) : \A m \in Markets :
    LET ActedOn(s) == {i \in Prints : /\ MarketOf[i] = m /\ SideOf[i] = s
                                      /\ IsQueued(f, i) \/ IsJudged(f, i) \/ i \in gone}
    IN bots[f][m].position = OrderSize * (Cardinality(ActedOn("buy")) - Cardinality(ActedOn("sell")))

\* A verdict is final: no book is recorded at a time that some verdict has already
\* been read past, although the reader stamps a quote long before it gets the lock
\* and the writer does not wait for it.  This is what judging only after the
\* mark-out is good for, as long as no reader is held up for longer than that.
NothingJudgedTooEarly ==
  [][MaxStall <= Markout =>
       \A f \in Feeds, i \in Prints :
         IsJudged(f, i) /\ truth'[MarketOf[i]] # truth[MarketOf[i]] =>
           verdicts[f][i].arrives < hand[DZ].t]_vars

\* The queue is drained from its head only, and it is not in the order of the
\* stamps: still nothing waits longer past its horizon than a reader was held up.
OverdueIsBounded ==
  writer.stage = "sleep" =>
    \A n \in DOMAIN pending : writer.now - pending[n].t <= Horizon + MaxStall

OwnKey(i) == \A j \in Prints \ {i} : KeyOf[j] # KeyOf[i]

\* Two decisions on one print end up as one row of the headline, whichever was
\* judged first, unless they were judged further apart than a duel lives, or so
\* long ago that the row has left the window.
BothDecisionsMeet ==
  \A i \in Prints :
    OwnKey(i) /\ IsJudged(DZ, i) /\ IsJudged(PUBLIC, i) =>
      LET d    == verdicts[DZ][i]
          p    == verdicts[PUBLIC][i]
          last == Max({d.at, p.at})
      IN \/ last - Min({d.at, p.at}) > DuelTtl
         \/ last < writer.now - Window
         \/ \E n \in DOMAIN settled :
              settled[n] = [at |-> last, dz |-> d.filled, public |-> p.filled,
                            lead |-> p.arrives - d.arrives]

\* The headline is made of duels, of one decision of each bot: it cannot have more
\* rows than either bot has judged decisions ("comes from paired duels only",
\* test_demo_runner.py:114).
HeadlineIsOfPairs == \A f \in Feeds : Len(settled) <= boards[f].intents
=============================================================================
