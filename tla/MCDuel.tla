------------------------------- MODULE MCDuel -------------------------------
(* Small instances of Duel: one market whose quotes move between two levels, *)
(* with prints that the quotes of the first level let a bot act on.          *)
EXTENDS Duel

OneMarket == [i \in Prints |-> "m"]
OwnKeys   == [i \in Prints |-> i]
OneKey    == [i \in Prints |-> 1]
AllBuys   == [i \in Prints |-> "buy"]
BuyThenSell == [i \in Prints |-> IF i = 1 THEN "buy" ELSE "sell"]
At2       == [i \in Prints |-> 2]

Q(kind, price) == [kind |-> kind, market |-> "m", price |-> price, of |-> 0]

\* Both sides of the book in one frame; the ask, or the bid, moves away.
DzBoth   == {<<Q("bid", 2), Q("ask", 2)>>, <<Q("bid", 1), Q("ask", 3)>>}
DzOnce   == {<<Q("bid", 1), Q("ask", 2)>>}
PubMoves == {<<Q("ask", 2)>>}

All     == [f \in Feeds |-> Prints]
DzAll   == [f \in Feeds |-> IF f = DZ THEN Prints ELSE {1}]
Once    == [f \in Feeds |-> 1]
DzTwice == [f \in Feeds |-> IF f = DZ THEN 2 ELSE 1]
=============================================================================
