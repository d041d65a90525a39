------------------------------ MODULE PrintBot ------------------------------
(***************************************************************************)
(* One bot in one market: the book it builds from its own feed             *)
(* (demo/book.py) and the rule it trades by (demo/strategy.py).  A bot is  *)
(* a record; an event is a quote of one side of the book or a print, with  *)
(* the stamp t of the message that carried it.  Prices are positive.       *)
(***************************************************************************)
EXTENDS Integers

CONSTANTS
  OrderSize,    \* order_size
  MaxPosition,  \* max_position
  Cooldown      \* cooldown_ns

ASSUME ConfigAssumption ==
  OrderSize \in Nat /\ MaxPosition \in Nat /\ Cooldown \in Nat

NoPrice == 0
Price   == Nat
Book    == [bid : Price, ask : Price, at : Nat]
Bot     == [book : Book, position : Int, coolUntil : Nat]

NewBot == [book |-> [bid |-> NoPrice, ask |-> NoPrice, at |-> 0], position |-> 0, coolUntil |-> 0]

\* BookState.apply
Apply(book, quote, t) ==
  IF quote.kind = "bid"
  THEN [book EXCEPT !.bid = quote.price, !.at = t]
  ELSE [book EXCEPT !.ask = quote.price, !.at = t]

\* The quote a print of this side and price may take.
Target(book, side) == IF side = "buy" THEN book.ask ELSE book.bid

\* Mutant: a quote that was never seen is taken for one at zero.
TakeableUnseen(book, side, price) ==
  IF side = "buy" THEN book.ask <= price ELSE book.bid >= price

\* _target_quote: it is there, and has not moved past the print.
Takeable(book, side, price) ==
  /\ Target(book, side) # NoPrice
  /\ IF side = "buy" THEN book.ask <= price ELSE book.bid >= price

\* Mutant: a sell counts like a buy.
SignedAbsolute(side) == OrderSize

Signed(side) == IF side = "buy" THEN OrderSize ELSE -OrderSize

\* _on_trade, of a print at least min_print_size large.
Fires(bot, side, price, t) ==
  /\ t >= bot.coolUntil
  /\ Takeable(bot.book, side, price)
  /\ bot.position + Signed(side) \in (-MaxPosition)..MaxPosition

Acted(bot, side, t) ==
  [bot EXCEPT !.position = @ + Signed(side), !.coolUntil = t + Cooldown]
=============================================================================
