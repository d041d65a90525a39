---------------------------- MODULE GroundTruth ----------------------------
(***************************************************************************)
(* The shared book timeline of one market and the judgement of an intent   *)
(* against it (demo/fills.py): a sequence of books in the order of their   *)
(* stamps, of which the older half is forgotten when there are too many.   *)
(***************************************************************************)
EXTENDS Integers, Sequences, FiniteSetsExt, PrintBot

CONSTANTS
  MaxBooks  \* max_per_market

ASSUME TimelineAssumption == MaxBooks \in Nat \ {0}

LastOf(line) == line[Len(line)]

\* GroundTruth.record: a late book is dropped, one of the same stamp replaces.
Record(line, book) ==
  IF line # <<>> /\ book.at < LastOf(line).at THEN line
  ELSE IF line # <<>> /\ book.at = LastOf(line).at
  THEN [line EXCEPT ![Len(line)] = book]
  ELSE LET longer == Append(line, book) IN
       IF Len(longer) > MaxBooks
       THEN SubSeq(longer, (Len(longer) \div 2) + 1, Len(longer))
       ELSE longer

NoBook == [bid |-> NoPrice, ask |-> NoPrice, at |-> 0]

KnownBy(line, t) == {i \in DOMAIN line : line[i].at <= t}

\* state_at, by bisection: the last book no later than t.
StateAt(line, t) == IF KnownBy(line, t) = {} THEN NoBook ELSE line[Max(KnownBy(line, t))]

\* settle: the quote the intent aimed at is still at its limit or better.
Filled(line, side, limit, t) == Takeable(StateAt(line, t), side, limit)
=============================================================================
