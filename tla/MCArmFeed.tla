------------------------------ MODULE MCArmFeed ------------------------------
(* Small instances of ArmFeed: trades that all differ in (market, price,     *)
(* size), and trades that repeat one print.                                  *)
EXTENDS ArmFeed

CONSTANTS A, B

OwnKey    == [i \in Prints |-> i]
RepeatKey == [i \in Prints |-> 1]
=============================================================================
