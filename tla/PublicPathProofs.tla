-------------------------- MODULE PublicPathProofs --------------------------
(***************************************************************************)
(* What holds of the public path for any prices, sizes, back-offs and      *)
(* number of connections.  The book is the venue's because every message   *)
(* on the wire continues the one before it, from the last one handled to   *)
(* the venue's book of now (WireInv); the bot's quotes follow its top      *)
(* because the top last emitted is never another one than the book's       *)
(* (FeedInv).                                                              *)
(***************************************************************************)
EXTENDS PublicPath, DataInduction

-----------------------------------------------------------------------------
(* The client. *)

LEMMA ClientTypes ==
  ASSUME WsTypeOK,
         Loop \/ Connect \/ SendSubscribe \/ AfterMessage \/ Fail \/ CleanClose \/ Wake \/ Stop
  PROVE  WsTypeOK'
<1>1. CASE Wake
  <2>1. /\ backoff \in Nat /\ backoff >= BaseBackoff /\ backoff <= MaxBackoff
        /\ failures \in Nat /\ backoff * 2 \in Int /\ failures + 1 \in Int
    BY BackoffAssumption, FailureBoundAssumption DEF WsTypeOK
  <2>2. backoff' = IF backoff * 2 <= MaxBackoff THEN backoff * 2 ELSE MaxBackoff
    BY <1>1, <2>1, MinOfTwo, BackoffAssumption DEF Wake
  <2>3. failures' = IF failures + 1 <= MaxFailures THEN failures + 1 ELSE MaxFailures
    BY <1>1, <2>1, MinOfTwo, FailureBoundAssumption DEF Wake
  <2>4. backoff' \in BaseBackoff..MaxBackoff /\ failures' \in 0..MaxFailures
    BY <2>1, <2>2, <2>3, BackoffAssumption, FailureBoundAssumption
  <2>5. stage' \in Stages /\ stopping' \in BOOLEAN
    BY <1>1 DEF Wake, WsTypeOK, Stages
  <2>6. QED BY <2>4, <2>5 DEF WsTypeOK
<1>2. CASE SendSubscribe
  <2>1. backoff' \in BaseBackoff..MaxBackoff /\ failures' \in 0..MaxFailures
    BY <1>2, BackoffAssumption, FailureBoundAssumption DEF SendSubscribe, Reset
  <2>2. stage' \in Stages /\ stopping' \in BOOLEAN
    BY <1>2 DEF SendSubscribe, WsTypeOK, Stages
  <2>3. QED BY <2>1, <2>2 DEF WsTypeOK
<1>3. CASE Loop \/ Connect \/ AfterMessage \/ Fail \/ CleanClose \/ Stop
  BY <1>3, Zenon DEF Loop, Connect, AfterMessage, Fail, CleanClose, Stop, WsTypeOK, Stages
<1>4. QED BY <1>1, <1>2, <1>3

\* What base * 2^k is, step by step.
LEMMA DoubledFacts ==
  /\ \A k \in 0..MaxFailures : Doubled[k] \in Nat
  /\ Doubled[0] = BaseBackoff
  /\ \A k \in 0..MaxFailures : k # 0 => Doubled[k] = 2 * Doubled[k - 1]
<1> USE BackoffAssumption, FailureBoundAssumption
<1> DEFINE st == [q \in Nat \X (1..MaxFailures) |-> 2 * q[1]]
<1>1. st \in [Nat \X (1..MaxFailures) -> Nat]
      /\ \A d \in Nat, n \in 1..MaxFailures : st[<<d, n>>] = 2 * d
  OBVIOUS
<1> HIDE DEF st
<1>2. PICK f \in [0..MaxFailures -> Nat] : Recurs(f, MaxFailures, BaseBackoff, st)
  BY <1>1, RecursionRuns
<1>3. ASSUME NEW n \in 0..MaxFailures
      PROVE  f[n] = IF n = 0 THEN BaseBackoff ELSE 2 * f[n - 1]
  <2>1. CASE n = 0
    BY <1>2, <2>1 DEF Recurs
  <2>2. CASE n # 0
    <3>1. n \in 1..MaxFailures /\ n - 1 \in 0..MaxFailures
      BY <2>2
    <3>2. f[n - 1] \in Nat
      BY <3>1
    <3> QED BY <1>1, <1>2, <2>2, <3>1, <3>2 DEF Recurs
  <2> QED BY <2>1, <2>2
<1>4. f = [n \in 0..MaxFailures |-> IF n = 0 THEN BaseBackoff ELSE 2 * f[n - 1]]
  BY <1>3
<1>5. Doubled = [n \in 0..MaxFailures |-> IF n = 0 THEN BaseBackoff ELSE 2 * Doubled[n - 1]]
  BY <1>4 DEF Doubled
<1>6. \A n \in 0..MaxFailures : Doubled[n] = IF n = 0 THEN BaseBackoff ELSE 2 * Doubled[n - 1]
  BY <1>5
<1> DEFINE Good == {n \in 0..MaxFailures : Doubled[n] \in Nat}
<1>7. 0 \in Good
  BY <1>6
<1>8. \A n \in 0..(MaxFailures - 1) : n \in Good => n + 1 \in Good
  <2> SUFFICES ASSUME NEW n \in 0..(MaxFailures - 1), Doubled[n] \in Nat PROVE n + 1 \in Good
    OBVIOUS
  <2>1. n + 1 \in 0..MaxFailures /\ n + 1 # 0 /\ (n + 1) - 1 = n
    OBVIOUS
  <2>2. Doubled[n + 1] = 2 * Doubled[n]
    BY <1>6, <2>1
  <2> QED BY <2>1, <2>2
<1>9. 0..MaxFailures \subseteq Good
  <2> HIDE DEF Good
  <2> QED BY <1>7, <1>8, InductTo
<1> QED BY <1>6, <1>9

LEMMA ClientDoubles ==
  ASSUME WsTypeOK, BackoffDoubles,
         \/ Loop \/ Connect \/ SendSubscribe \/ AfterMessage \/ Fail \/ CleanClose \/ Wake \/ Stop
         \/ UNCHANGED wsVars
  PROVE  BackoffDoubles'
<1> USE BackoffAssumption, FailureBoundAssumption
<1>1. CASE Wake
  <2>1. backoff \in Nat /\ failures \in 0..MaxFailures /\ failures + 1 \in Int
    BY DEF WsTypeOK
  <2>2. failures' = (IF failures + 1 <= MaxFailures THEN failures + 1 ELSE MaxFailures)
        /\ backoff' = IF backoff * 2 <= MaxBackoff THEN backoff * 2 ELSE MaxBackoff
    BY <1>1, <2>1, MinOfTwo DEF Wake
  <2> SUFFICES ASSUME failures' < MaxFailures PROVE backoff' = Min({Doubled[failures'], MaxBackoff})
    BY DEF BackoffDoubles
  <2>3. failures' = failures + 1 /\ failures < MaxFailures /\ failures' \in 0..MaxFailures
    BY <2>1, <2>2
  <2>4. Doubled[failures'] = 2 * Doubled[failures] /\ Doubled[failures] \in Nat
    <3>1. failures' # 0 /\ failures' - 1 = failures
      BY <2>1, <2>3
    <3> QED BY <2>1, <2>3, <3>1, DoubledFacts
  <2>5. backoff = IF Doubled[failures] <= MaxBackoff THEN Doubled[failures] ELSE MaxBackoff
    BY <2>3, <2>4, MinOfTwo DEF BackoffDoubles
  <2>6. Min({Doubled[failures'], MaxBackoff})
          = IF 2 * Doubled[failures] <= MaxBackoff THEN 2 * Doubled[failures] ELSE MaxBackoff
    BY <2>4, MinOfTwo
  <2> QED BY <2>2, <2>4, <2>5, <2>6
<1>2. CASE SendSubscribe
  <2>1. Min({Doubled[0], MaxBackoff}) = BaseBackoff
    BY DoubledFacts, MinOfTwo
  <2> QED BY <1>2, <2>1 DEF SendSubscribe, Reset, BackoffDoubles
<1>3. CASE UNCHANGED <<backoff, failures>>
  BY <1>3 DEF BackoffDoubles
<1> QED BY <1>1, <1>2, <1>3 DEF Loop, Connect, AfterMessage, Fail, CleanClose, Stop, wsVars

-----------------------------------------------------------------------------
(* The feed. *)

\* The top last emitted is the book's; nothing was emitted for a book never filled.
FeedInv ==
  /\ FeedTypeOK
  /\ best = TopOf(levels) \/ levels = Empty
  /\ \A s \in Sides : best[s] \in Prices => view[s] = best[s] * PerUnit

LEMMA TopFacts ==
  ASSUME NEW book \in Level
  PROVE  /\ TopOf(book) \in [Sides -> {NoPrice} \cup Prices]
         /\ \A s \in Sides : Held(book, s) # {} => TopOf(book)[s] \in Prices
<1>1. \A s \in Sides : Held(book, s) \in SUBSET Nat /\ Held(book, s) \in SUBSET Prices
                       /\ IsFiniteSet(Held(book, s))
  BY PublicAssumption, FS_Subset DEF Held
<1>2. Held(book, "bid") # {} => Max(Held(book, "bid")) \in Prices
  BY <1>1, MaxOfFinite DEF Sides
<1>3. Held(book, "ask") # {} => Min(Held(book, "ask")) \in Prices
  BY <1>1, LeastIsMin DEF Sides
<1>4. QED BY <1>2, <1>3 DEF TopOf, Sides

LEMMA RequoteKeepsInv ==
  ASSUME FeedInv, known' \in BOOLEAN, levels' \in Level, Requote
  PROVE  FeedInv'
<1> DEFINE top == TopOf(levels')
<1>1. top \in [Sides -> {NoPrice} \cup Prices]
  BY TopFacts
<1>2. CASE ~Moved(top)
  BY <1>2 DEF Requote, Moved, FeedInv, FeedTypeOK
<1>3. CASE Moved(top)
  <2>1. /\ best' = top
        /\ view' = [s \in Sides |-> IF top[s] = NoPrice THEN view[s] ELSE top[s] * PerUnit]
    BY <1>3 DEF Requote
  <2>2. \A s \in Sides : top[s] # NoPrice => top[s] \in Prices
    BY <1>1
  <2>3. view' \in [Sides -> {NoPrice} \cup {p * PerUnit : p \in Prices}]
    BY <2>1, <2>2 DEF FeedInv, FeedTypeOK
  <2>4. \A s \in Sides : best'[s] \in Prices => view'[s] = best'[s] * PerUnit
    BY <2>1, PublicAssumption DEF NoPrice
  <2>5. QED BY <1>1, <2>1, <2>3, <2>4 DEF FeedInv, FeedTypeOK
<1>4. QED BY <1>2, <1>3

LEMMA ChangedLevel ==
  ASSUME NEW book \in Level, NEW s \in Sides, NEW p \in Prices, NEW n \in Nat
  PROVE  [book EXCEPT ![s][p] = n] \in Level
  BY DEF Level

LEMMA NewSizeFacts ==
  ASSUME levels \in Level, NEW m \in Message
  PROVE  /\ levels[m.side][m.price] \in Nat /\ m.delta \in Int
         /\ NewSize(m.side, m.price, m.delta) \in Nat
         /\ levels[m.side][m.price] + m.delta >= 0 =>
              NewSize(m.side, m.price, m.delta) = levels[m.side][m.price] + m.delta
<1>1. levels[m.side][m.price] \in Nat /\ m.delta \in Int
  BY DEF Level, Message
<1>2. NewSize(m.side, m.price, m.delta) =
        IF levels[m.side][m.price] + m.delta >= 0 THEN levels[m.side][m.price] + m.delta ELSE 0
  BY <1>1, MaxOfTwo DEF NewSize
<1>3. QED BY <1>1, <1>2

LEMMA MessageKeepsInv ==
  ASSUME FeedInv, NEW m \in Message, OnBookMessage(m)
  PROVE  FeedInv'
<1>1. known' \in BOOLEAN /\ levels \in Level
  BY DEF FeedInv, FeedTypeOK, OnBookMessage
<1>2. CASE ~known /\ UNCHANGED <<levels, best, view>>
  BY <1>1, <1>2 DEF FeedInv, FeedTypeOK, OnBookMessage
<1>3. CASE known /\ m.kind = "snapshot" /\ OnSnapshot(m.book)
  BY <1>1, <1>3, RequoteKeepsInv DEF OnSnapshot, Replaced, Message
<1>4. CASE known /\ m.kind = "delta" /\ OnDelta(m.side, m.price, m.delta)
  <2>1. m.side \in Sides /\ m.price \in Prices /\ NewSize(m.side, m.price, m.delta) \in Nat
    BY <1>1, NewSizeFacts DEF Message
  <2>2. levels' \in Level
    BY <1>1, <1>4, <2>1, ChangedLevel DEF OnDelta
  <2>3. QED BY <1>1, <1>4, <2>2, RequoteKeepsInv DEF OnDelta
<1>5. QED BY <1>2, <1>3, <1>4 DEF OnBookMessage

-----------------------------------------------------------------------------
(* The path. *)

\* A delta that leads from one book of the venue to the message's own.
Follows(m, prior) ==
  /\ m.kind = "delta"
  /\ m.book = [prior EXCEPT ![m.side][m.price] = prior[m.side][m.price] + m.delta]

WireInv ==
  /\ stage # "open" => wire = <<>> /\ snap = "awaited"
  /\ \A k \in DOMAIN wire : k > 1 => Follows(wire[k], wire[k - 1].book)
  /\ wire # <<>> => wire[Len(wire)].book = venue
  /\ stage = "open" /\ snap = "awaited" => wire # <<>> /\ wire[1].kind = "snapshot"
  /\ snap = "applied" => IF wire = <<>> THEN asOf = venue ELSE Follows(wire[1], asOf)

PathInv ==
  /\ PathTypeOK
  /\ FeedInv
  /\ WireInv
  /\ snap = "applied" => known
  /\ BookIsTheVenues

LEMMA EmptyBook == Empty \in Level /\ TopOf(Empty) = [s \in Sides |-> NoPrice]
<1>1. \A s \in Sides : Held(Empty, s) = {}
  BY DEF Held, Empty
<1>2. QED BY <1>1 DEF Empty, Level, TopOf, Sides

LEMMA InitPath == PathInit => PathInv
<1>1. SUFFICES ASSUME PathInit PROVE PathInv
  OBVIOUS
<1>2. WsTypeOK
  <2>1. BaseBackoff \in BaseBackoff..MaxBackoff /\ 0 \in 0..MaxFailures
    BY BackoffAssumption, FailureBoundAssumption
  <2>2. QED BY <1>1, <2>1, Zenon DEF PathInit, WsInit, WsTypeOK, Stages
<1>3. FeedInv
  <2>1. best \in [Sides -> {NoPrice, -1} \cup Prices] /\ levels = Empty
        /\ view \in [Sides -> {NoPrice} \cup {p * PerUnit : p \in Prices}]
    BY <1>1 DEF PathInit, FeedInit, Unset, Sides
  <2>2. \A s \in Sides : best[s] \notin Prices
    BY <1>1, PublicAssumption DEF PathInit, FeedInit, Unset, Sides
  <2>3. known \in BOOLEAN
    BY <1>1, Zenon DEF PathInit, FeedInit
  <2>4. QED BY <2>1, <2>2, <2>3, EmptyBook DEF FeedInv, FeedTypeOK
<1>4. PathTypeOK
  BY <1>1, <1>2, <1>3, EmptyBook, PathAssumption DEF PathInit, PathTypeOK, FeedInv
<1>5. WireInv /\ (snap = "applied" => known) /\ BookIsTheVenues
  BY <1>1 DEF PathInit, WsInit, WireInv, BookIsTheVenues
<1>6. QED BY <1>3, <1>4, <1>5 DEF PathInv

LEMMA VenueChangeKeepsInv ==
  ASSUME PathInv, NEW s \in Sides, NEW p \in Prices, NEW size \in 0..MaxSize, VenueChange(s, p, size)
  PROVE  PathInv'
<1> DEFINE m == [kind |-> "delta", side |-> s, price |-> p,
                 delta |-> size - venue[s][p], book |-> venue']
<1>1. /\ venue \in Level /\ size \in Nat /\ venue' = [venue EXCEPT ![s][p] = size]
      /\ wire \in Seq(Message)
  BY PublicAssumption DEF VenueChange, PathInv, PathTypeOK
<1>2. venue' \in Level
  BY <1>1, ChangedLevel
<1>3. venue[s][p] \in Nat
  BY <1>1 DEF Level
<1>4. m \in Message /\ Follows(m, venue)
  <2>1. size - venue[s][p] \in Int /\ venue[s][p] + (size - venue[s][p]) = size
    BY <1>1, <1>3
  <2>2. QED BY <1>1, <1>2, <2>1 DEF Message, Follows
<1>5. wire' \in Seq(Message)
  BY <1>1, <1>4 DEF VenueChange
<1>6. PathTypeOK' /\ FeedInv' /\ UNCHANGED <<stage, snap, asOf, known, levels>>
  <2>1. changes' \in 0..MaxChanges
    BY PathAssumption DEF VenueChange, PathInv, PathTypeOK
  <2>2. UNCHANGED wsVars /\ UNCHANGED feedVars /\ UNCHANGED <<snap, asOf>>
    BY DEF VenueChange
  <2>3. WsTypeOK' /\ FeedInv' /\ UNCHANGED <<stage, known, levels>>
    BY <2>2, Zenon DEF PathInv, PathTypeOK, WsTypeOK, FeedInv, FeedTypeOK, wsVars, feedVars
  <2>4. QED BY <1>2, <1>5, <2>1, <2>2, <2>3 DEF PathInv, PathTypeOK, FeedInv
<1>7. WireInv'
  <2>1. CASE stage # "open"
    BY <1>6, <2>1 DEF VenueChange, PathInv, WireInv
  <2>2. CASE stage = "open"
    <3>1. /\ wire' = Append(wire, m) /\ Len(wire') = Len(wire) + 1 /\ Len(wire) \in Nat
          /\ wire'[Len(wire) + 1] = m
          /\ \A k \in DOMAIN wire : wire'[k] = wire[k]
          /\ DOMAIN wire' = 1..(Len(wire) + 1) /\ DOMAIN wire = 1..Len(wire)
      BY <1>1, <2>2 DEF VenueChange
    <3>2. \A k \in DOMAIN wire' : k > 1 => Follows(wire'[k], wire'[k - 1].book)
      <4>1. SUFFICES ASSUME NEW k \in DOMAIN wire', k > 1
                     PROVE  Follows(wire'[k], wire'[k - 1].book)
        OBVIOUS
      <4>2. CASE k = Len(wire) + 1
        <5>1. Len(wire) \in DOMAIN wire /\ wire # <<>> /\ k - 1 = Len(wire)
          BY <3>1, <4>1, <4>2
        <5>2. QED BY <1>4, <3>1, <4>2, <5>1 DEF PathInv, WireInv
      <4>3. CASE k # Len(wire) + 1
        <5>1. k \in DOMAIN wire /\ k - 1 \in DOMAIN wire
          BY <3>1, <4>1, <4>3
        <5>2. QED BY <3>1, <4>1, <5>1 DEF PathInv, WireInv
      <4>4. QED BY <4>2, <4>3
    <3>3. wire'[Len(wire')].book = venue' /\ wire' # <<>>
      BY <3>1
    <3>4. snap = "awaited" => wire'[1].kind = "snapshot"
      BY <2>2, <3>1 DEF PathInv, WireInv
    <3>5. snap = "applied" => Follows(wire'[1], asOf)
      <4>1. CASE wire = <<>>
        BY <1>4, <3>1, <4>1 DEF PathInv, WireInv
      <4>2. CASE wire # <<>>
        BY <3>1, <4>2, <1>1 DEF PathInv, WireInv
      <4>3. QED BY <4>1, <4>2
    <3>6. QED BY <1>6, <2>2, <3>2, <3>3, <3>4, <3>5 DEF WireInv
  <2>3. QED BY <2>1, <2>2
<1>8. QED BY <1>6, <1>7 DEF PathInv, BookIsTheVenues

\* What the client does outside a subscription leaves feed and link alone.
LEMMA OfflineKeepsInv ==
  ASSUME PathInv, Offline(Loop) \/ Offline(Connect) \/ Offline(Wake) \/ Offline(Stop)
  PROVE  PathInv'
<1>1. WsTypeOK'
  BY ClientTypes DEF PathInv, PathTypeOK, Offline
<1>2. UNCHANGED feedVars /\ UNCHANGED linkVars
  BY DEF Offline
<1>3. stage' # "open" \/ stage' = stage
  BY DEF Offline, Loop, Connect, Wake, Stop
<1>4. stage' = "open" \/ (wire = <<>> /\ snap = "awaited")
  BY DEF Offline, Loop, Connect, Wake, Stop, PathInv, WireInv
<1>5. FeedInv' /\ PathTypeOK'
  BY <1>1, <1>2, Zenon DEF PathInv, PathTypeOK, FeedInv, FeedTypeOK, feedVars, linkVars
<1>6. WireInv'
  BY <1>2, <1>3, <1>4 DEF PathInv, WireInv, linkVars
<1>7. QED BY <1>2, <1>5, <1>6 DEF PathInv, BookIsTheVenues, feedVars, linkVars

LEMMA LearnKeepsInv ==
  ASSUME PathInv, Learn
  PROVE  PathInv'
<1>1. known' = TRUE /\ UNCHANGED <<levels, best, view>> /\ UNCHANGED wsVars /\ UNCHANGED linkVars
  BY DEF Learn, LearnSize
<1>2. FeedInv' /\ PathTypeOK'
  BY <1>1, Zenon DEF PathInv, PathTypeOK, WsTypeOK, FeedInv, FeedTypeOK, wsVars, linkVars
<1>3. QED BY <1>1, <1>2, Zenon DEF PathInv, WireInv, BookIsTheVenues, wsVars, linkVars

LEMMA SubscribeKeepsInv ==
  ASSUME PathInv, Subscribe
  PROVE  PathInv'
<1>1. WsTypeOK' /\ stage' = "open" /\ UNCHANGED feedVars /\ UNCHANGED <<venue, changes, asOf>>
      /\ wire' = <<Snapshot>> /\ snap' = "awaited"
  BY ClientTypes DEF PathInv, PathTypeOK, Subscribe, SendSubscribe, Subscription
<1>2. Snapshot \in Message /\ Snapshot.kind = "snapshot" /\ Snapshot.book = venue
  BY PublicAssumption, LeastIsMin DEF Snapshot, Message, Sides, PathInv, PathTypeOK
<1>3. wire' \in Seq(Message) /\ Len(wire') = 1 /\ wire'[1] = Snapshot /\ DOMAIN wire' = {1}
  BY <1>1, <1>2
<1>4. FeedInv' /\ PathTypeOK'
  BY <1>1, <1>3, Zenon DEF PathInv, PathTypeOK, FeedInv, FeedTypeOK, feedVars
<1>5. WireInv'
  BY <1>1, <1>2, <1>3 DEF WireInv
<1>6. QED BY <1>1, <1>4, <1>5 DEF PathInv, BookIsTheVenues

LEMMA LoseKeepsInv ==
  ASSUME PathInv, Lose
  PROVE  PathInv'
<1>1. WsTypeOK' /\ stage' # "open" /\ UNCHANGED feedVars /\ UNCHANGED <<venue, changes, asOf>>
      /\ wire' = <<>> /\ snap' = "awaited"
  BY ClientTypes DEF PathInv, PathTypeOK, Lose, Fail, CleanClose
<1>2. FeedInv' /\ PathTypeOK'
  <2>1. wire' \in Seq(Message) /\ snap' \in {"awaited", "dropped", "applied"}
    BY <1>1
  <2>2. QED BY <1>1, <2>1, Zenon DEF PathInv, PathTypeOK, FeedInv, FeedTypeOK, feedVars
<1>3. WireInv'
  BY <1>1 DEF WireInv
<1>4. QED BY <1>1, <1>2, <1>3 DEF PathInv, BookIsTheVenues

\* After a delta that follows the last message the feed has the venue's next book.
LEMMA DeltaIsExact ==
  ASSUME FeedInv, NEW m \in Message, OnBookMessage(m), known, m.kind = "delta",
         Follows(m, levels)
  PROVE  levels' = m.book
<1>1. levels \in Level /\ m.book \in Level /\ m.side \in Sides /\ m.price \in Prices
  BY DEF FeedInv, FeedTypeOK, Message
<1>2. m.book[m.side][m.price] = levels[m.side][m.price] + m.delta
  BY <1>1 DEF Follows, Level
<1>3. levels[m.side][m.price] + m.delta >= 0
  BY <1>1, <1>2 DEF Level
<1>4. NewSize(m.side, m.price, m.delta) = levels[m.side][m.price] + m.delta
  BY <1>1, <1>3, NewSizeFacts
<1>5. QED BY <1>4 DEF OnBookMessage, OnDelta, Follows

LEMMA ReceiveKeepsInv ==
  ASSUME PathInv, Receive
  PROVE  PathInv'
<1> DEFINE m == Head(wire)
<1>1. /\ wire \in Seq(Message) /\ wire # <<>> /\ m \in Message /\ m = wire[1]
      /\ OnBookMessage(m) /\ asOf' = m.book /\ stage = "open"
      /\ known' = known /\ UNCHANGED <<venue, changes>>
  BY DEF Receive, AfterMessage, OnBookMessage, PathInv, PathTypeOK
<1>2. FeedInv' /\ WsTypeOK'
  BY <1>1, MessageKeepsInv, ClientTypes DEF Receive, PathInv, PathTypeOK
<1>3. PathTypeOK'
  <2>1. wire' \in Seq(Message) /\ snap' \in {"awaited", "dropped", "applied"}
    BY <1>1 DEF Receive, PathInv, PathTypeOK
  <2>2. asOf' \in Level
    BY <1>1 DEF Message
  <2>3. QED BY <1>1, <1>2, <2>1, <2>2 DEF PathInv, PathTypeOK, FeedInv
<1>4. CASE stopping
  BY <1>2, <1>3, <1>4 DEF Receive, AfterMessage, PathInv, WireInv, BookIsTheVenues
<1>5. CASE ~stopping
  <2>1. /\ stage' = "open" /\ wire' = Tail(wire)
        /\ snap' = IF m.kind = "delta" THEN snap ELSE IF known THEN "applied" ELSE "dropped"
    BY <1>1, <1>5 DEF Receive, AfterMessage
  <2>2. /\ Len(wire) \in Nat /\ Len(wire) > 0 /\ Len(wire') = Len(wire) - 1
        /\ DOMAIN wire = 1..Len(wire) /\ DOMAIN wire' = 1..(Len(wire) - 1)
        /\ \A k \in DOMAIN wire' : wire'[k] = wire[k + 1]
    BY <1>1, <2>1
  <2>3. \A k \in DOMAIN wire' : k > 1 => Follows(wire'[k], wire'[k - 1].book)
    <3>1. SUFFICES ASSUME NEW k \in DOMAIN wire', k > 1
                   PROVE  Follows(wire'[k], wire'[k - 1].book)
      OBVIOUS
    <3>2. k \in Nat /\ k + 1 \in DOMAIN wire /\ k - 1 \in DOMAIN wire' /\ k + 1 > 1 /\ (k - 1) + 1 = k
          /\ (k + 1) - 1 = k
      BY <2>2, <3>1
    <3>3. wire'[k] = wire[k + 1] /\ wire'[k - 1] = wire[k]
      BY <2>2, <3>2
    <3>4. QED BY <3>2, <3>3 DEF PathInv, WireInv
  <2>4. wire' # <<>> => wire'[Len(wire')].book = venue'
    <3>1. SUFFICES ASSUME wire' # <<>> PROVE wire'[Len(wire')].book = venue
      BY <1>1
    <3>2. Len(wire') \in DOMAIN wire' /\ Len(wire') + 1 = Len(wire)
      BY <1>3, <2>2, <3>1 DEF PathTypeOK
    <3>3. QED BY <1>1, <2>2, <3>2 DEF PathInv, WireInv
  <2>5. snap' # "awaited"
    BY <1>1, <2>1 DEF PathInv, WireInv
  <2>6. ASSUME snap' = "applied"
        PROVE  /\ known' /\ levels' = m.book
               /\ IF wire' = <<>> THEN asOf' = venue' ELSE Follows(wire'[1], asOf')
    <3>1. IF wire' = <<>> THEN asOf' = venue' ELSE Follows(wire'[1], asOf')
      <4>1. CASE wire' = <<>>
        <5>1. Len(wire) = 1
          BY <2>2, <4>1
        <5>2. QED BY <1>1, <4>1, <5>1 DEF PathInv, WireInv
      <4>2. CASE wire' # <<>>
        <5>1. 1 \in DOMAIN wire' /\ 2 \in DOMAIN wire
          BY <1>3, <2>2, <4>2 DEF PathTypeOK
        <5>2. wire'[1] = wire[2] /\ Follows(wire[2], wire[2 - 1].book) /\ 2 - 1 = 1
          BY <2>2, <5>1 DEF PathInv, WireInv
        <5>3. QED BY <1>1, <4>2, <5>2
      <4>3. QED BY <4>1, <4>2
    <3>2. CASE m.kind = "snapshot"
      <4>1. known
        BY <2>1, <2>6, <3>2
      <4>2. QED BY <1>1, <3>1, <3>2, <4>1 DEF OnBookMessage, OnSnapshot, Replaced
    <3>3. CASE m.kind = "delta"
      <4>1. known /\ levels = asOf /\ Follows(m, asOf)
        BY <1>1, <2>1, <2>6, <3>3 DEF PathInv, WireInv, BookIsTheVenues
      <4>2. QED BY <1>1, <3>1, <3>3, <4>1, DeltaIsExact DEF PathInv
    <3>4. QED BY <1>1, <3>2, <3>3 DEF Message
  <2>7. WireInv'
    BY <2>1, <2>3, <2>4, <2>5, <2>6 DEF WireInv
  <2>8. QED BY <1>1, <1>2, <1>3, <2>6, <2>7 DEF PathInv, BookIsTheVenues
<1>6. QED BY <1>4, <1>5

LEMMA StepPath == PathInv /\ [PathNext]_pathVars => PathInv'
<1>1. SUFFICES ASSUME PathInv, [PathNext]_pathVars PROVE PathInv'
  OBVIOUS
<1>2. CASE UNCHANGED pathVars
  BY <1>1, <1>2, Zenon
  DEF pathVars, wsVars, feedVars, linkVars, PathInv, PathTypeOK, WsTypeOK, FeedInv, FeedTypeOK,
      WireInv, BookIsTheVenues
<1>3. QED
  BY <1>1, <1>2, VenueChangeKeepsInv, OfflineKeepsInv, LearnKeepsInv, SubscribeKeepsInv,
     LoseKeepsInv, ReceiveKeepsInv DEF PathNext

\* The types of the client, the feed and the link.
THEOREM PathTypesHold == PathSpec => []PathTypeOK
<1>1. PathInv => PathTypeOK
  BY DEF PathInv
<1>2. QED BY InitPath, StepPath, <1>1, PTL DEF PathSpec

\* Capping the delay at every step comes to capping it once: after k failed attempts since
\* the last subscription it is base * 2^k or the maximum, whatever failed in between.
THEOREM BackoffIsCapped == PathSpec => []BackoffDoubles
<1>1. PathInit => BackoffDoubles
  <2>1. Min({Doubled[0], MaxBackoff}) = BaseBackoff
    BY DoubledFacts, MinOfTwo, BackoffAssumption
  <2> QED BY <2>1 DEF PathInit, WsInit, BackoffDoubles
<1>2. ASSUME PathInv, BackoffDoubles, [PathNext]_pathVars PROVE BackoffDoubles'
  <2>1. \/ Loop \/ Connect \/ SendSubscribe \/ AfterMessage \/ Fail \/ CleanClose \/ Wake \/ Stop
        \/ UNCHANGED wsVars
    BY <1>2 DEF PathNext, VenueChange, Offline, Learn, Subscribe, Lose, Receive, pathVars
  <2> QED BY <1>2, <2>1, ClientDoubles DEF PathInv, PathTypeOK
<1> QED BY <1>1, <1>2, InitPath, StepPath, PTL DEF PathSpec

\* Once a connection's snapshot was applied the feed's book is the venue's as of the
\* last message, whatever an earlier connection or an unknown contract size left behind.
THEOREM BookIsRebuilt == PathSpec => []BookIsTheVenues
<1>1. PathInv => BookIsTheVenues
  BY DEF PathInv
<1>2. QED BY InitPath, StepPath, <1>1, PTL DEF PathSpec

\* Quotes emitted only when the top moves keep the bot at the book's best prices
\* (_quotes_if_changed), over any number of snapshots and connections.
THEOREM ViewFollows == PathSpec => []ViewFollowsTheTop
<1>1. PathInv => ViewFollowsTheTop
  <2>1. SUFFICES ASSUME PathInv, NEW s \in Sides, Held(levels, s) # {}
                 PROVE  view[s] = TopOf(levels)[s] * PerUnit
    BY DEF ViewFollowsTheTop
  <2>2. TopOf(levels)[s] \in Prices
    BY <2>1, TopFacts DEF PathInv, FeedInv, FeedTypeOK
  <2>3. levels # Empty
    BY <2>1 DEF Held, Empty
  <2>4. QED BY <2>1, <2>2, <2>3 DEF PathInv, FeedInv
<1>2. QED BY InitPath, StepPath, <1>1, PTL DEF PathSpec
-----------------------------------------------------------------------------
(* The top the feed shows. *)

\* The last top compared is that of the book of now, once there was one.
TopInv ==
  /\ best # Unset => best = TopOf(levels)
  /\ snap = "applied" => best = TopOf(levels)

\* A step that handles no message leaves book and top alone, and applies no snapshot.
LEMMA BookIsLeftAlone ==
  ASSUME PathNext, ~Receive
  PROVE  UNCHANGED <<levels, best>> /\ snap' \in {snap, "awaited"} /\ (known => known')
<1>1. CASE Learn
  BY <1>1 DEF Learn, LearnSize, linkVars
<1>2. CASE Subscribe \/ Lose
  BY <1>2 DEF Subscribe, Lose, feedVars
<1>3. CASE Offline(Loop) \/ Offline(Connect) \/ Offline(Wake) \/ Offline(Stop)
  BY <1>3 DEF Offline, linkVars, feedVars
<1>4. CASE \E s \in Sides, p \in Prices, size \in 0..MaxSize : VenueChange(s, p, size)
  BY <1>4 DEF VenueChange, feedVars
<1> QED BY <1>1, <1>2, <1>3, <1>4 DEF PathNext

\* A message that is not dropped compares the top with the book it leaves behind.
LEMMA MessageComparesTheTop ==
  ASSUME PathInv, Receive
  PROVE  IF known THEN best' = TopOf(levels') ELSE UNCHANGED <<levels, best>> /\ snap' # "applied"
<1>1. OnBookMessage(Head(wire))
  BY DEF Receive
<1>2. CASE known
  <2>1. Requote
    BY <1>1, <1>2 DEF OnBookMessage, OnSnapshot, OnDelta
  <2> QED BY <1>2, <2>1 DEF Requote, Moved
<1>3. CASE ~known
  BY <1>1, <1>3 DEF Receive, OnBookMessage, PathInv
<1> QED BY <1>2, <1>3

LEMMA TopStep ==
  ASSUME PathInv, TopInv, [PathNext]_pathVars
  PROVE  TopInv'
<1>1. CASE UNCHANGED pathVars
  BY <1>1 DEF pathVars, feedVars, linkVars, TopInv
<1>2. CASE PathNext /\ ~Receive
  BY <1>2, BookIsLeftAlone DEF TopInv
<1>3. CASE Receive
  BY <1>3, MessageComparesTheTop DEF TopInv
<1> QED BY <1>1, <1>2, <1>3

LEMMA TopInvariant == PathSpec => [](PathInv /\ TopInv)
<1>1. PathInit => TopInv
  BY DEF PathInit, FeedInit, TopInv
<1>2. PathInv /\ TopInv /\ [PathNext]_pathVars => TopInv'
  BY TopStep
<1> QED BY <1>1, <1>2, InitPath, StepPath, PTL DEF PathSpec

\* Whatever came before, a snapshot dropped for want of the contract size on an earlier
\* connection included: once this connection's was applied and all that was sent has been
\* handled, the top last emitted is the venue's.
THEOREM AppliedSnapshotShowsTheTop ==
  PathSpec => [](snap = "applied" /\ wire = <<>> => best = TopOf(venue))
<1>1. PathInv /\ TopInv => (snap = "applied" /\ wire = <<>> => best = TopOf(venue))
  BY DEF PathInv, WireInv, BookIsTheVenues, TopInv
<1> QED BY <1>1, TopInvariant, PTL

\* A size that is known stays known, and then no snapshot is dropped.
KnownInv == known /\ snap # "dropped"

\* Where the contract size was learnt before the public path starts, the feed shows the
\* venue's top whenever all that was sent has been handled: the snapshot that on_message
\* drops for want of the size (public_feed.py:52) is all that can part the two.
THEOREM KnownSizeShowsTheTop == PathSpec /\ known => []TopIsTheVenues
<1>1. PathInit /\ known => KnownInv
  BY DEF PathInit, KnownInv
<1>2. ASSUME KnownInv, [PathNext]_pathVars PROVE KnownInv'
  <2>1. CASE UNCHANGED pathVars
    BY <1>2, <2>1 DEF pathVars, feedVars, linkVars, KnownInv
  <2>2. CASE PathNext /\ ~Receive
    BY <1>2, <2>2, BookIsLeftAlone DEF KnownInv
  <2>3. CASE Receive
    BY <1>2, <2>3 DEF Receive, OnBookMessage, KnownInv
  <2> QED BY <1>2, <2>1, <2>2, <2>3
<1>3. ASSUME PathInv, TopInv, KnownInv PROVE TopIsTheVenues
  <2> SUFFICES ASSUME stage = "open", snap # "awaited", wire = <<>>
               PROVE  best = TopOf(venue)
    BY DEF TopIsTheVenues
  <2>1. snap = "applied"
    BY <1>3 DEF KnownInv, PathInv, PathTypeOK
  <2> QED BY <1>3, <2>1 DEF PathInv, WireInv, BookIsTheVenues, TopInv
<1>4. KnownInv /\ [PathNext]_pathVars => KnownInv'
  BY <1>2
<1> QED BY <1>1, <1>3, <1>4, TopInvariant, PTL DEF PathSpec
=============================================================================
