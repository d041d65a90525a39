----------------------------- MODULE PublicPath -----------------------------
(***************************************************************************)
(* The public path of the duel (demo/runner.py _public_ws): one PublicFeed *)
(* for the whole life of a ReconnectingWS, and the venue at the other end. *)
(* On every subscription the venue sends its book and from then on its     *)
(* changes, in order; what is on the wire is lost with the connection.  A  *)
(* message carries, for the properties only, the venue's book after it.    *)
(***************************************************************************)
EXTENDS ReconnectingWS, PublicFeed, Sequences

CONSTANT MaxChanges  \* bound: changes of the venue's book

ASSUME PathAssumption == MaxChanges \in Nat

VARIABLES
  venue,    \* the venue's book
  changes,  \* how often it has changed
  wire,     \* messages sent on this connection and not yet handled
  snap,     \* what became of this connection's snapshot
  asOf      \* the venue's book after the last message handled

linkVars == <<venue, changes, wire, snap, asOf>>
pathVars == <<wsVars, feedVars, linkVars>>

Message == [kind : {"snapshot", "delta"}, side : Sides, price : Prices, delta : Int, book : Level]

PathTypeOK ==
  /\ WsTypeOK /\ FeedTypeOK
  /\ venue \in Level /\ asOf \in Level
  /\ changes \in 0..MaxChanges
  /\ wire \in Seq(Message)
  /\ snap \in {"awaited", "dropped", "applied"}

PathInit ==
  /\ WsInit /\ FeedInit
  /\ venue = Empty /\ asOf = Empty
  /\ changes = 0 /\ wire = <<>> /\ snap = "awaited"

Snapshot == [kind |-> "snapshot", side |-> "bid", price |-> Min(Prices), delta |-> 0, book |-> venue]

\* Mutant: the subscription is only sent once.
SubscriptionOnce == IF best = Unset THEN <<Snapshot>> ELSE <<>>

Subscription == <<Snapshot>>

\* Bids below asks, as a venue that matches keeps them.
Uncrossed(book) == \A b \in Held(book, "bid"), a \in Held(book, "ask") : b < a

VenueChange(s, p, size) ==
  /\ changes < MaxChanges /\ size # venue[s][p]
  /\ venue' = [venue EXCEPT ![s][p] = size]
  /\ Uncrossed(venue')
  /\ changes' = changes + 1
  /\ wire' = IF stage = "open"
             THEN Append(wire, [kind |-> "delta", side |-> s, price |-> p,
                                delta |-> size - venue[s][p], book |-> venue'])
             ELSE wire
  /\ UNCHANGED <<wsVars, feedVars, snap, asOf>>

Subscribe ==
  /\ SendSubscribe
  /\ wire' = Subscription /\ snap' = "awaited"
  /\ UNCHANGED <<feedVars, venue, changes, asOf>>

Lose ==
  /\ Fail \/ CleanClose
  /\ wire' = <<>> /\ snap' = "awaited"
  /\ UNCHANGED <<feedVars, venue, changes, asOf>>

Learn == LearnSize /\ UNCHANGED <<wsVars, linkVars>>

\* A step of run() between connections, or stop().
Offline(A) == A /\ UNCHANGED <<feedVars, linkVars>>

\* on_message, which has no await in it; after it a stopped client hangs up.
Receive ==
  /\ wire # <<>> /\ AfterMessage
  /\ OnBookMessage(Head(wire))
  /\ asOf' = Head(wire).book
  /\ wire' = IF stopping THEN <<>> ELSE Tail(wire)
  /\ snap' = IF stopping THEN "awaited"
             ELSE IF Head(wire).kind = "delta" THEN snap
             ELSE IF known THEN "applied" ELSE "dropped"
  /\ UNCHANGED <<venue, changes>>

PathNext ==
  \/ \E s \in Sides, p \in Prices, size \in 0..MaxSize : VenueChange(s, p, size)
  \/ Offline(Loop) \/ Offline(Connect) \/ Offline(Wake) \/ Offline(Stop)
  \/ Learn \/ Subscribe \/ Lose \/ Receive

PathSpec == PathInit /\ [][PathNext]_pathVars

\* run() goes on after every await; a venue that goes on refusing, failing or
\* hanging up at every attempt is excluded, one that does so any number of times
\* is not.
PathFairness ==
  /\ WF_pathVars(Offline(Loop)) /\ WF_pathVars(Offline(Wake))
  /\ SF_pathVars(Offline(Connect)) /\ SF_pathVars(Subscribe) /\ SF_pathVars(Receive)

PathFairSpec == PathSpec /\ PathFairness

-----------------------------------------------------------------------------
(* Properties. *)

\* Once this connection's snapshot was applied, the feed's book is the venue's as
\* of the last message, whatever an earlier connection left behind in it.
BookIsTheVenues == snap = "applied" => levels = asOf

\* A connection that was lost is replaced, subscribed again, and its snapshot
\* gets to the feed.
ComesBack == stage = "sleeping" ~> stopping \/ snap # "awaited"

\* "The public top of book has to be rebuilt from orderbook_snapshot +
\* orderbook_delta" (public_feed.py:17): when all that was sent has been handled
\* the top the feed shows is the venue's.
TopIsTheVenues ==
  stage = "open" /\ snap # "awaited" /\ wire = <<>> /\ best # Unset => best = TopOf(venue)
=============================================================================
