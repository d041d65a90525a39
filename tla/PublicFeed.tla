----------------------------- MODULE PublicFeed -----------------------------
(***************************************************************************)
(* The public order book of one market (demo/public_feed.py), rebuilt from *)
(* a snapshot and deltas, and the quotes it emits when its top moves.  A   *)
(* book is a size per side and price, 0 where there is no level; markets   *)
(* have nothing in common and one stands for all.  Trades pass through     *)
(* without touching the state.                                             *)
(***************************************************************************)
EXTENDS Integers, FiniteSetsExt

CONSTANTS
  Prices,   \* dollars per contract, positive
  PerUnit,  \* contracts per unit of the underlying: 1 / contract_size
  MaxSize   \* bound: the size of a level

ASSUME PublicAssumption ==
  /\ Prices \subseteq Nat \ {0} /\ Prices # {} /\ IsFiniteSet(Prices)
  /\ PerUnit \in Nat \ {0} /\ MaxSize \in Nat

Sides   == {"bid", "ask"}
NoPrice == 0
Level   == [Sides -> [Prices -> Nat]]
Empty   == [s \in Sides |-> [p \in Prices |-> 0]]
Unset   == [bid |-> -1, ask |-> -1]   \* no entry in _best

VARIABLES
  known,   \* whether contract_size(market) is known yet
  levels,  \* _levels[market]
  best,    \* _best[market]
  view     \* the quotes the bot on this feed has been given

feedVars == <<known, levels, best, view>>

FeedTypeOK ==
  /\ known \in BOOLEAN
  /\ levels \in Level
  /\ best \in [Sides -> {NoPrice, -1} \cup Prices]
  /\ view \in [Sides -> {NoPrice} \cup {p * PerUnit : p \in Prices}]

FeedInit ==
  /\ known \in BOOLEAN
  /\ levels = Empty /\ best = Unset
  /\ view = [s \in Sides |-> NoPrice]

Held(book, s) == {p \in Prices : book[s][p] > 0}

\* max(bids), min(asks)
TopOf(book) ==
  [bid |-> IF Held(book, "bid") = {} THEN NoPrice ELSE Max(Held(book, "bid")),
   ask |-> IF Held(book, "ask") = {} THEN NoPrice ELSE Min(Held(book, "ask"))]

\* Mutant: the ask is forgotten in the comparison.
MovedBidOnly(top) == top.bid # best.bid

Moved(top) == top # best

\* _quotes_if_changed: both sides are emitted, but for one that is empty.
Requote ==
  LET top == TopOf(levels') IN
  \/ ~Moved(top) /\ UNCHANGED <<best, view>>
  \/ /\ Moved(top)
     /\ best' = top
     /\ view' = [s \in Sides |-> IF top[s] = NoPrice THEN view[s] ELSE top[s] * PerUnit]

\* Mutant: the snapshot is laid over what is there.
SnapshotOver(book) ==
  [s \in Sides |-> [p \in Prices |-> Max({levels[s][p], book[s][p]})]]

Replaced(book) == book

OnSnapshot(book) == levels' = Replaced(book) /\ Requote

\* Mutant: a level is kept whatever its size.
SizeUnclipped(s, p, delta) == levels[s][p] + delta

\* A level whose size is not positive is removed.
NewSize(s, p, delta) == Max({levels[s][p] + delta, 0})

\* _delta
OnDelta(s, p, delta) ==
  /\ levels' = [levels EXCEPT ![s][p] = NewSize(s, p, delta)]
  /\ Requote

\* on_message of a book message; while the contract size is unknown it is dropped.
OnBookMessage(m) ==
  /\ \/ ~known /\ UNCHANGED <<levels, best, view>>
     \/ known /\ m.kind = "snapshot" /\ OnSnapshot(m.book)
     \/ known /\ m.kind = "delta" /\ OnDelta(m.side, m.price, m.delta)
  /\ UNCHANGED known

\* The DoubleZero reader learns the contract size from its reference data.
LearnSize ==
  /\ ~known /\ known' = TRUE
  /\ UNCHANGED <<levels, best, view>>

-----------------------------------------------------------------------------
(* Properties. *)

\* Quotes are only emitted when the top moves, and only then: still the bot never
\* holds a price for a side of the book other than its best one, over any number
\* of connections, as long as that side is not empty.
ViewFollowsTheTop ==
  \A s \in Sides : Held(levels, s) # {} => view[s] = TopOf(levels)[s] * PerUnit
=============================================================================
