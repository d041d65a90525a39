------------------------- MODULE LatencyRaceProofs -------------------------
(***************************************************************************)
(* What holds of the live race for any trades, keys, limits and clocks, in *)
(* three parts.                                                            *)
(*  - The counts (RaceInv): the two properties of them need to know what   *)
(*    the flush thread holds between its critical section and its file:    *)
(*    nothing outside that interval, and in it exactly as much as the      *)
(*    counters it copied say.                                              *)
(*  - The window: the three threads implement one window, and it is fresh. *)
(*    A series is the window, what the flush thread holds and what is hot, *)
(*    one after the other.  A step leaves it alone, appends a sample       *)
(*    stamped now, or drops what the flush ages out of its front; because  *)
(*    every sample was stamped no earlier than those before it (Ordered),  *)
(*    dropping from the front drops all that is too old.                   *)
(*  - Who is matched with whom: no half twice (OnceInv), and a trade with  *)
(*    a key of its own, seen on both feeds, with itself unless one of its  *)
(*    halves got too old (FateInv).  Both follow a half from the reader's  *)
(*    hand to the map of its feed and from there to a race or into         *)
(*    oblivion.                                                            *)
(***************************************************************************)
EXTENDS LatencyRace, SequenceTheorems, TLAPS

HoldsNothing == flush.stage # "swapped" => flush.hot = <<>> /\ flush.absHot = <<>>

\* What the flush thread copied under the lock is what it swapped out then.
CopiedWithTheSwap ==
  flush.stage = "swapped" =>
    /\ flush.matched = Held
    /\ AllStamped => flush.matched = flush.implausible + AbsHeld

RaceInv ==
  /\ TypeOK
  /\ NeverBothWaiting
  /\ HoldsNothing
  /\ NoSampleIsLost
  /\ CopiedWithTheSwap
  /\ SnapshotReconciles

-----------------------------------------------------------------------------
(* Types. *)

LEMMA StampIsHalf ==
  ASSUME TypeOK, NEW i \in Trades
  PROVE  Stamp(i) \in Half
BY DEF TypeOK, Stamp, Half

LEMMA HalfFacts ==
  ASSUME NEW h \in MaybeHalf, h # NoHalf
  PROVE  /\ h \in Half
         /\ h.of \in Trades /\ h.mono \in Nat /\ h.wall \in Int
         /\ KeyOf[h.of] \in Keys /\ MarketOf[h.of] \in Markets /\ ExchOf[h.of] \in Nat
BY TradeAssumption DEF MaybeHalf, Half, Keys, Markets

\* The numbers the counts are made of.
LEMMA Numbers ==
  ASSUME TypeOK
  PROVE  /\ matched \in Nat /\ implausible \in Nat /\ aged \in Nat /\ absAged \in Nat
         /\ hot \in Seq(Sample) /\ absHot \in Seq(AbsRow)
         /\ win \in Seq(Sample) /\ absWin \in Seq(AbsRow)
         /\ flush.hot \in Seq(Sample) /\ flush.absHot \in Seq(AbsRow)
         /\ flush.matched \in Nat /\ flush.implausible \in Nat /\ flush.now \in Nat
         /\ Len(hot) \in Nat /\ Len(absHot) \in Nat /\ Len(win) \in Nat /\ Len(absWin) \in Nat
         /\ Held \in Nat /\ AbsHeld \in Nat
<1>1. /\ matched \in Nat /\ implausible \in Nat /\ aged \in Nat /\ absAged \in Nat
      /\ hot \in Seq(Sample) /\ absHot \in Seq(AbsRow)
      /\ win \in Seq(Sample) /\ absWin \in Seq(AbsRow)
  BY DEF TypeOK
<1>2. /\ flush.hot \in Seq(Sample) /\ flush.absHot \in Seq(AbsRow)
      /\ flush.matched \in Nat /\ flush.implausible \in Nat /\ flush.now \in Nat
  BY DEF TypeOK
<1> QED BY <1>1, <1>2 DEF Held, AbsHeld

\* What a match adds, and what it leaves as it was (_record).
LEMMA RecordFacts ==
  ASSUME TypeOK, NEW x \in Half, NEW y \in Half, Record(x, y)
  PROVE  /\ hot' \in Seq(Sample) /\ Len(hot') = Len(hot) + 1 /\ matched' = matched + 1
         /\ absHot' \in Seq(AbsRow) /\ implausible' \in Nat
         /\ races' \in Seq([dz : Trades, pub : Trades])
         /\ AllStamped => implausible' + Len(absHot') = implausible + Len(absHot) + 1
<1>1. /\ x.of \in Trades /\ y.of \in Trades /\ x.mono \in Int /\ y.mono \in Int
      /\ x.wall \in Int /\ y.wall \in Int /\ ExchOf[x.of] \in Int /\ ExchOf[y.of] \in Int
  BY TradeAssumption DEF Half
<1>2. SampleOf(x, y) \in Sample /\ RowOf(x, y) \in AbsRow
  <2>1. mono \in Nat
    BY DEF TypeOK
  <2>2. x.mono - y.mono \in Int
    BY <1>1
  <2>3. DzTotal(x) \in Int /\ PubTotal(y) \in Int
    BY <1>1 DEF DzTotal, PubTotal
  <2> QED BY <2>1, <2>2, <2>3 DEF SampleOf, Sample, RowOf, AbsRow
<1>3. hot \in Seq(Sample) /\ absHot \in Seq(AbsRow) /\ implausible \in Nat
  BY DEF TypeOK
<1>4. hot' \in Seq(Sample) /\ Len(hot') = Len(hot) + 1 /\ matched' = matched + 1
  BY <1>2, <1>3 DEF Record
<1>5. races' \in Seq([dz : Trades, pub : Trades])
  BY <1>1 DEF Record, TypeOK
<1>6. CASE ~Stamped(x, y) /\ UNCHANGED <<absHot, implausible>>
  BY <1>1, <1>3, <1>4, <1>5, <1>6 DEF Stamped, AllStamped
<1>7. CASE implausible' = implausible + 1 /\ UNCHANGED absHot
  BY <1>3, <1>4, <1>5, <1>7
<1>8. CASE absHot' = Append(absHot, RowOf(x, y)) /\ UNCHANGED implausible
  BY <1>2, <1>3, <1>4, <1>5, <1>8
<1> QED BY <1>6, <1>7, <1>8 DEF Record

\* A map of waiting halves with one entry set or taken is again such a map.
LEMMA OfferDzFacts ==
  ASSUME TypeOK, NeverBothWaiting, NEW k \in Keys, NEW half \in Half, OfferDz(k, half)
  PROVE  /\ dz' \in [Keys -> MaybeHalf] /\ pub' \in [Keys -> MaybeHalf]
         /\ NeverBothWaiting'
         /\ \/ UNCHANGED samples
            \/ \E x, y \in Half : Record(x, y)
<1>1. half \in MaybeHalf /\ NoHalf \in MaybeHalf
  BY DEF MaybeHalf
<1>2. dz \in [Keys -> MaybeHalf] /\ pub \in [Keys -> MaybeHalf]
  BY DEF TypeOK
<1>3. CASE pub[k] # NoHalf /\ pub' = [pub EXCEPT ![k] = NoHalf] /\ Record(half, pub[k]) /\ UNCHANGED dz
  <2>1. pub[k] \in Half
    BY <1>2, <1>3 DEF MaybeHalf
  <2> QED BY <1>1, <1>2, <1>3, <2>1 DEF NeverBothWaiting
<1>4. CASE pub[k] = NoHalf /\ dz' = [dz EXCEPT ![k] = half] /\ UNCHANGED <<pub, samples>>
  BY <1>1, <1>2, <1>4 DEF NeverBothWaiting
<1> QED BY <1>3, <1>4 DEF OfferDz

LEMMA OfferPubFacts ==
  ASSUME TypeOK, NeverBothWaiting, NEW k \in Keys, NEW half \in Half, OfferPub(k, half)
  PROVE  /\ dz' \in [Keys -> MaybeHalf] /\ pub' \in [Keys -> MaybeHalf]
         /\ NeverBothWaiting'
         /\ \/ UNCHANGED samples
            \/ \E x, y \in Half : Record(x, y)
<1>1. half \in MaybeHalf /\ NoHalf \in MaybeHalf
  BY DEF MaybeHalf
<1>2. dz \in [Keys -> MaybeHalf] /\ pub \in [Keys -> MaybeHalf]
  BY DEF TypeOK
<1>3. CASE dz[k] # NoHalf /\ dz' = [dz EXCEPT ![k] = NoHalf] /\ Record(dz[k], half) /\ UNCHANGED pub
  <2>1. dz[k] \in Half
    BY <1>2, <1>3 DEF MaybeHalf
  <2> QED BY <1>1, <1>2, <1>3, <2>1 DEF NeverBothWaiting
<1>4. CASE dz[k] = NoHalf /\ pub' = [pub EXCEPT ![k] = half] /\ UNCHANGED <<dz, samples>>
  BY <1>1, <1>2, <1>4 DEF NeverBothWaiting
<1> QED BY <1>3, <1>4 DEF OfferPub

\* What an offer does to the samples, whichever feed made it, keeps their types
\* and every sample accounted for.
LEMMA OfferAccounts ==
  ASSUME RaceInv, UNCHANGED flusher, UNCHANGED samples \/ \E x, y \in Half : Record(x, y)
  PROVE  /\ hot' \in Seq(Sample) /\ absHot' \in Seq(AbsRow)
         /\ matched' \in Nat /\ implausible' \in Nat
         /\ races' \in Seq([dz : Trades, pub : Trades])
         /\ HoldsNothing' /\ NoSampleIsLost' /\ CopiedWithTheSwap' /\ SnapshotReconciles'
<1>1. TypeOK
  BY DEF RaceInv
<1>2. HoldsNothing' /\ CopiedWithTheSwap' /\ SnapshotReconciles'
  BY DEF RaceInv, flusher, HoldsNothing, CopiedWithTheSwap, SnapshotReconciles, AllStamped,
         Held, AbsHeld
<1>3. CASE UNCHANGED samples
  <2>1. NoSampleIsLost'
    BY <1>3 DEF RaceInv, flusher, samples, NoSampleIsLost, Held, AbsHeld, AllStamped
  <2> QED BY <1>1, <1>2, <1>3, <2>1 DEF samples, TypeOK
<1>4. CASE \E x, y \in Half : Record(x, y)
  <2>1. /\ hot' \in Seq(Sample) /\ Len(hot') = Len(hot) + 1 /\ matched' = matched + 1
        /\ absHot' \in Seq(AbsRow) /\ implausible' \in Nat
        /\ races' \in Seq([dz : Trades, pub : Trades])
        /\ AllStamped => implausible' + Len(absHot') = implausible + Len(absHot) + 1
    BY <1>1, <1>4, RecordFacts
  <2>2. /\ matched \in Nat /\ implausible \in Nat /\ Held \in Nat /\ AbsHeld \in Nat
        /\ Len(hot) \in Nat /\ Len(absHot) \in Nat
    BY <1>1, Numbers
  <2>3. matched' \in Nat /\ Len(hot') \in Nat /\ Len(absHot') \in Nat
    BY <2>1, <2>2
  <2>4. Held' = Held /\ AbsHeld' = AbsHeld
    BY DEF flusher, Held, AbsHeld
  <2> DEFINE hotN == Len(hot)
             hotNow == Len(hot')
             absN == Len(absHot)
             absNow == Len(absHot')
  <2>5. /\ {hotN, absN, hotNow, absNow, implausible'} \subseteq Nat
        /\ hotNow = hotN + 1 /\ matched' = matched + 1
    BY <2>1, <2>2, <2>3
  <2>6. matched = hotN + Held /\ (AllStamped => matched = implausible + absN + AbsHeld)
    BY DEF RaceInv, NoSampleIsLost
  <2>7. AllStamped => implausible' + absNow = implausible + absN + 1
    BY <2>1
  <2>8. matched' = hotNow + Held /\ (AllStamped => matched' = implausible' + absNow + AbsHeld)
    <3> HIDE DEF hotN, hotNow, absN, absNow
    <3>1. matched' = hotNow + Held
      BY <2>2, <2>5, <2>6
    <3>2. ASSUME AllStamped PROVE matched' = implausible' + absNow + AbsHeld
      <4>1. implausible' + absNow = implausible + absN + 1 /\ matched = implausible + absN + AbsHeld
        BY <2>6, <2>7, <3>2
      <4>2. /\ absN \in Nat /\ absNow \in Nat /\ implausible \in Nat /\ implausible' \in Nat /\ AbsHeld \in Nat
            /\ matched' = matched + 1
        BY <2>2, <2>5
      <4>3. matched' = implausible + absN + AbsHeld + 1
        BY ONLY <4>1, <4>2
      <4>4. matched' = (implausible + absN + 1) + AbsHeld
        BY ONLY <4>2, <4>3
      <4> QED BY ONLY <4>1, <4>4
    <3> QED BY <3>1, <3>2
  <2>9. NoSampleIsLost'
    BY <2>4, <2>8 DEF NoSampleIsLost, AllStamped
  <2> QED BY <1>2, <2>1, <2>3, <2>9
<1> QED BY <1>3, <1>4

-----------------------------------------------------------------------------
(* One lemma per action. *)

\* What is left alone by a step that touches neither samples nor flush.
LEMMA AccountsUntouched ==
  ASSUME RaceInv, UNCHANGED <<samples, flusher>>
  PROVE  HoldsNothing' /\ NoSampleIsLost' /\ CopiedWithTheSwap' /\ SnapshotReconciles'
BY DEF RaceInv, samples, flusher, HoldsNothing, NoSampleIsLost, CopiedWithTheSwap,
       SnapshotReconciles, AllStamped, Held, AbsHeld

LEMMA ClockKeepsInv ==
  ASSUME RaceInv, Tick \/ \E s \in Steps : SetWall(s)
  PROVE  RaceInv'
<1>1. /\ UNCHANGED <<dzHand, pubHand, axes, dz, pub, dzSeen, pubSeen, dzAt, pubAt>>
      /\ UNCHANGED <<feeds, samples, flusher>>
  BY DEF Tick, SetWall, counters, samples
<1>2. mono' \in Nat /\ step' \in Int
  <2>1. mono \in Nat /\ step \in Int /\ Steps \subseteq Int
    BY LimitAssumption DEF RaceInv, TypeOK
  <2> QED BY <2>1 DEF Tick, SetWall, clocks
<1>3. TypeOK'
  BY <1>1, <1>2 DEF RaceInv, TypeOK, feeds, samples, flusher
<1>4. NeverBothWaiting'
  BY <1>1 DEF RaceInv, NeverBothWaiting
<1>5. HoldsNothing' /\ NoSampleIsLost' /\ CopiedWithTheSwap' /\ SnapshotReconciles'
  BY <1>1, AccountsUntouched
<1> QED BY <1>3, <1>4, <1>5 DEF RaceInv

\* Stamping, learning and skipping move a half between a reader's hands and nothing.
LEMMA HandsKeepInv ==
  ASSUME RaceInv,
         \/ \E i \in Trades : DzStamp(i) \/ PubStamp(i)
         \/ DzLearn \/ DzSkip \/ PubSkip
  PROVE  RaceInv'
<1>1. /\ UNCHANGED <<clocks, dz, pub, dzSeen, pubSeen, dzAt, pubAt>>
      /\ UNCHANGED <<samples, flusher>>
  BY DEF DzStamp, PubStamp, DzLearn, DzSkip, PubSkip, counters, samples
<1>2. TypeOK
  BY DEF RaceInv
<1>3. /\ dzSent' \subseteq Trades /\ pubSent' \subseteq Trades
      /\ dzHand' \in MaybeHalf /\ pubHand' \in MaybeHalf /\ axes' \subseteq Markets
  <2>1. /\ dzSent \subseteq Trades /\ pubSent \subseteq Trades
        /\ dzHand \in MaybeHalf /\ pubHand \in MaybeHalf /\ axes \subseteq Markets
        /\ NoHalf \in MaybeHalf
    BY <1>2 DEF TypeOK, MaybeHalf
  <2>2. CASE \E i \in Trades : DzStamp(i) \/ PubStamp(i)
    <3>1. \A i \in Trades : Stamp(i) \in MaybeHalf
      BY <1>2, StampIsHalf DEF MaybeHalf
    <3> QED BY <2>1, <2>2, <3>1 DEF DzStamp, PubStamp, feeds
  <2>3. CASE DzLearn
    <3>1. MarketOf[dzHand.of] \in Markets
      BY <2>1, <2>3, HalfFacts DEF DzLearn
    <3> QED BY <2>1, <2>3, <3>1 DEF DzLearn, feeds
  <2>4. CASE DzSkip \/ PubSkip
    BY <2>1, <2>4 DEF DzSkip, PubSkip, feeds
  <2> QED BY <2>2, <2>3, <2>4
<1>4. TypeOK'
  BY <1>1, <1>2, <1>3 DEF TypeOK, clocks, samples, flusher
<1>5. NeverBothWaiting'
  BY <1>1 DEF RaceInv, NeverBothWaiting
<1>6. HoldsNothing' /\ NoSampleIsLost' /\ CopiedWithTheSwap' /\ SnapshotReconciles'
  BY <1>1, AccountsUntouched
<1> QED BY <1>4, <1>5, <1>6 DEF RaceInv

LEMMA AddKeepsInv ==
  ASSUME RaceInv, AddDz \/ AddPub
  PROVE  RaceInv'
<1>1. TypeOK /\ NeverBothWaiting
  BY DEF RaceInv
<1>2. /\ dz' \in [Keys -> MaybeHalf] /\ pub' \in [Keys -> MaybeHalf]
      /\ NeverBothWaiting'
      /\ UNCHANGED samples \/ \E x, y \in Half : Record(x, y)
      /\ dzSeen' \in Nat /\ pubSeen' \in Nat
      /\ dzHand' \in MaybeHalf /\ pubHand' \in MaybeHalf
      /\ dzAt' \in [Trades -> Nat] /\ pubAt' \in [Trades -> Nat]
  <2>1. /\ dzHand \in MaybeHalf /\ pubHand \in MaybeHalf /\ NoHalf \in MaybeHalf
        /\ dzSeen \in Nat /\ pubSeen \in Nat
        /\ dzAt \in [Trades -> Nat] /\ pubAt \in [Trades -> Nat]
    BY <1>1 DEF TypeOK, MaybeHalf
  <2>2. CASE AddDz
    <3>1. dzHand \in Half /\ dzHand.of \in Trades /\ dzHand.mono \in Nat /\ KeyOf[dzHand.of] \in Keys
      BY <2>1, <2>2, HalfFacts DEF AddDz
    <3>2. OfferDz(KeyOf[dzHand.of], dzHand)
      BY <2>2 DEF AddDz
    <3> QED BY <1>1, <2>1, <2>2, <3>1, <3>2, OfferDzFacts DEF AddDz
  <2>3. CASE AddPub
    <3>1. pubHand \in Half /\ pubHand.of \in Trades /\ pubHand.mono \in Nat /\ KeyOf[pubHand.of] \in Keys
      BY <2>1, <2>3, HalfFacts DEF AddPub
    <3>2. OfferPub(KeyOf[pubHand.of], pubHand)
      BY <2>3 DEF AddPub
    <3> QED BY <1>1, <2>1, <2>3, <3>1, <3>2, OfferPubFacts DEF AddPub
  <2> QED BY <2>2, <2>3
<1>3. UNCHANGED <<clocks, feeds, axes>> /\ UNCHANGED flusher
  BY DEF AddDz, AddPub
<1>4. /\ hot' \in Seq(Sample) /\ absHot' \in Seq(AbsRow)
      /\ matched' \in Nat /\ implausible' \in Nat
      /\ races' \in Seq([dz : Trades, pub : Trades])
      /\ HoldsNothing' /\ NoSampleIsLost' /\ CopiedWithTheSwap' /\ SnapshotReconciles'
  BY <1>2, <1>3, OfferAccounts
<1>5. TypeOK'
  <2>1. /\ mono' \in Nat /\ step' \in Int /\ dzSent' \subseteq Trades /\ pubSent' \subseteq Trades
        /\ axes' \subseteq Markets
    BY <1>1, <1>3 DEF TypeOK, clocks, feeds
  <2>2. /\ win' \in Seq(Sample) /\ absWin' \in Seq(AbsRow) /\ aged' \in Nat /\ absAged' \in Nat
        /\ flush' \in [stage : {"sleep", "started", "swapped"}, now : Nat, hot : Seq(Sample),
                       absHot : Seq(AbsRow), matched : Nat, implausible : Nat]
        /\ published' \in [asOf : Nat, n : Nat, absN : Nat, matched : Nat, implausible : Nat]
    BY <1>1, <1>3 DEF TypeOK, flusher
  <2> QED BY <1>2, <1>4, <2>1, <2>2 DEF TypeOK
<1> QED BY <1>2, <1>4, <1>5 DEF RaceInv

FlushType == [stage : {"sleep", "started", "swapped"}, now : Nat, hot : Seq(Sample),
              absHot : Seq(AbsRow), matched : Nat, implausible : Nat]
FileType  == [asOf : Nat, n : Nat, absN : Nat, matched : Nat, implausible : Nat]

\* The part of the type invariant a flush leaves alone.
LEMMA FlushTypes ==
  ASSUME TypeOK,
         UNCHANGED <<clocks, feeds, dzHand, pubHand, axes, counters, dzAt, pubAt, races>>,
         dz' \in [Keys -> MaybeHalf], pub' \in [Keys -> MaybeHalf],
         hot' \in Seq(Sample), absHot' \in Seq(AbsRow),
         win' \in Seq(Sample), absWin' \in Seq(AbsRow),
         flush' \in FlushType, published' \in FileType, aged' \in Nat, absAged' \in Nat
  PROVE  TypeOK'
BY DEF TypeOK, FlushType, FileType, clocks, feeds, counters

LEMMA FlushStartKeepsInv ==
  ASSUME RaceInv, FlushStart
  PROVE  RaceInv'
<1>1. TypeOK /\ flush \in FlushType /\ mono \in Nat
  BY DEF RaceInv, TypeOK, FlushType
<1>2. /\ flush' \in FlushType /\ flush'.stage = "started"
      /\ flush'.hot = flush.hot /\ flush'.absHot = flush.absHot
      /\ flush.stage = "sleep"
  BY <1>1 DEF FlushStart, FlushType
<1>3. UNCHANGED <<clocks, feeds, dzHand, pubHand, axes, counters, dzAt, pubAt, races>>
      /\ UNCHANGED <<dz, pub, hot, absHot, win, absWin, published, aged, absAged>>
  BY DEF FlushStart
<1>4. TypeOK'
  <2>1. /\ dz \in [Keys -> MaybeHalf] /\ pub \in [Keys -> MaybeHalf]
        /\ hot \in Seq(Sample) /\ absHot \in Seq(AbsRow)
        /\ win \in Seq(Sample) /\ absWin \in Seq(AbsRow)
        /\ published \in FileType /\ aged \in Nat /\ absAged \in Nat
    BY <1>1 DEF TypeOK, FileType
  <2> QED BY <1>1, <1>2, <1>3, <2>1, FlushTypes
<1>5. NeverBothWaiting' /\ SnapshotReconciles'
  BY <1>3 DEF RaceInv, NeverBothWaiting, SnapshotReconciles, AllStamped
<1>6. HoldsNothing'
  BY <1>2 DEF RaceInv, HoldsNothing
<1>7. NoSampleIsLost'
  <2>1. Held' = Held /\ AbsHeld' = AbsHeld /\ UNCHANGED <<matched, implausible, hot, absHot>>
    BY <1>2, <1>3 DEF Held, AbsHeld, counters
  <2> QED BY <2>1 DEF RaceInv, NoSampleIsLost, AllStamped
<1>8. CopiedWithTheSwap'
  BY <1>2 DEF CopiedWithTheSwap
<1> QED BY <1>4, <1>5, <1>6, <1>7, <1>8 DEF RaceInv

LEMMA Zero == ASSUME NEW n \in Nat PROVE 0 + n = n /\ n + 0 = n
OBVIOUS

LEMMA FlushSwapKeepsInv ==
  ASSUME RaceInv, FlushSwap
  PROVE  RaceInv'
<1>1. TypeOK /\ flush \in FlushType /\ flush.stage = "started"
  BY DEF RaceInv, TypeOK, FlushType, FlushSwap
<1>2. /\ matched \in Nat /\ implausible \in Nat /\ aged \in Nat /\ absAged \in Nat
      /\ hot \in Seq(Sample) /\ absHot \in Seq(AbsRow)
      /\ win \in Seq(Sample) /\ absWin \in Seq(AbsRow)
  BY <1>1, Numbers
<1>3. /\ flush' \in FlushType /\ flush'.stage = "swapped"
      /\ flush'.hot = hot /\ flush'.absHot = absHot
      /\ flush'.matched = matched /\ flush'.implausible = implausible
  BY <1>1, <1>2 DEF FlushSwap, FlushType
<1>4. /\ UNCHANGED <<clocks, feeds, dzHand, pubHand, axes, counters, dzAt, pubAt, races>>
      /\ UNCHANGED <<win, absWin, published, aged, absAged>>
      /\ UNCHANGED <<matched, implausible>>
      /\ hot' = <<>> /\ absHot' = <<>>
      /\ dz' = Expired(dz, flush.now) /\ pub' = Expired(pub, flush.now)
  BY DEF FlushSwap, counters
<1>5. dz' \in [Keys -> MaybeHalf] /\ pub' \in [Keys -> MaybeHalf] /\ NeverBothWaiting'
  <2>1. dz \in [Keys -> MaybeHalf] /\ pub \in [Keys -> MaybeHalf] /\ NoHalf \in MaybeHalf
    BY <1>1 DEF TypeOK, MaybeHalf
  <2> QED BY <1>4, <2>1 DEF Expired, RaceInv, NeverBothWaiting
<1>6. TypeOK'
  <2>1. hot' \in Seq(Sample) /\ absHot' \in Seq(AbsRow) /\ published \in FileType
    BY <1>1, <1>4 DEF TypeOK, FileType
  <2> QED BY <1>1, <1>2, <1>3, <1>4, <1>5, <2>1, FlushTypes
<1>7. /\ Len(hot) + Len(win) + aged = Held' /\ Len(absHot) + Len(absWin) + absAged = AbsHeld'
      /\ Held = Len(win) + aged /\ AbsHeld = Len(absWin) + absAged
  <2>1. flush.hot = <<>> /\ flush.absHot = <<>>
    BY <1>1 DEF RaceInv, HoldsNothing
  <2>2. Len(flush.hot) = 0 /\ Len(flush.absHot) = 0
    BY <2>1
  <2>3. Len(win) \in Nat /\ Len(absWin) \in Nat
    BY <1>2
  <2> QED BY <1>2, <1>3, <1>4, <2>2, <2>3 DEF Held, AbsHeld
<1>8. matched = Held' /\ (AllStamped => matched = implausible + AbsHeld')
  <2> DEFINE hotN == Len(hot)
             absN == Len(absHot)
             winN == Len(win)
             absWinN == Len(absWin)
  <2>1. /\ hotN \in Nat /\ absN \in Nat /\ winN \in Nat /\ absWinN \in Nat
        /\ aged \in Nat /\ absAged \in Nat /\ implausible \in Nat /\ matched \in Nat
    BY <1>2
  <2>2. matched = hotN + (winN + aged) /\ Held' = hotN + winN + aged
    BY <1>7 DEF RaceInv, NoSampleIsLost
  <2>3. AllStamped => matched = implausible + absN + (absWinN + absAged)
    BY <1>7 DEF RaceInv, NoSampleIsLost
  <2>4. AbsHeld' = absN + absWinN + absAged
    BY <1>7
  <2> HIDE DEF hotN, absN, winN, absWinN
  <2>5. matched = Held'
    BY ONLY <2>1, <2>2
  <2>6. implausible + absN + (absWinN + absAged) = implausible + (absN + absWinN + absAged)
    BY ONLY <2>1
  <2> QED BY <2>3, <2>4, <2>5, <2>6
<1>9. CopiedWithTheSwap'
  BY <1>3, <1>8 DEF CopiedWithTheSwap, AllStamped
<1>10. NoSampleIsLost'
  <2>1. Len(hot') = 0 /\ Len(absHot') = 0 /\ Held' \in Nat /\ AbsHeld' \in Nat
    <3>1. Len(hot) \in Nat /\ Len(absHot) \in Nat /\ Len(win) \in Nat /\ Len(absWin) \in Nat
      BY <1>2
    <3> QED BY <1>2, <1>4, <1>7, <3>1
  <2>2. matched' = matched /\ implausible' = implausible
    BY <1>4
  <2>3. 0 + Held' = Held' /\ implausible + 0 = implausible
    BY <1>2, <2>1, Zero
  <2> QED BY <1>8, <2>1, <2>2, <2>3 DEF NoSampleIsLost, AllStamped
<1>11. HoldsNothing' /\ SnapshotReconciles'
  BY <1>3, <1>4 DEF RaceInv, HoldsNothing, SnapshotReconciles, AllStamped
<1> QED BY <1>5, <1>6, <1>9, <1>10, <1>11 DEF RaceInv

\* What is drained and aged out of a window adds up.
LEMMA DrainFacts ==
  ASSUME NEW S, NEW w \in Seq(S), NEW h \in Seq(S), NEW n \in 0..Len(w \o h)
  PROVE  /\ Rest(w \o h, n) \in Seq(S)
         /\ Len(Rest(w \o h, n)) + n = Len(h) + Len(w)
<1>1. w \o h \in Seq(S) /\ Len(w \o h) = Len(w) + Len(h) /\ Len(w) \in Nat /\ Len(h) \in Nat
  OBVIOUS
<1>2. n \in Nat /\ n <= Len(w) + Len(h)
  BY <1>1
<1>3. Rest(w \o h, n) \in Seq(S)
  BY <1>1, <1>2 DEF Rest
<1>4. Len(Rest(w \o h, n)) = Len(w) + Len(h) - n
  BY <1>1, <1>2 DEF Rest
<1> QED BY <1>1, <1>2, <1>3, <1>4

LEMMA FlushPublishKeepsInv ==
  ASSUME RaceInv, FlushPublish
  PROVE  RaceInv'
<1>1. TypeOK /\ flush \in FlushType /\ flush.stage = "swapped"
  BY DEF RaceInv, TypeOK, FlushType, FlushPublish
<1>2. /\ matched \in Nat /\ implausible \in Nat /\ aged \in Nat /\ absAged \in Nat
      /\ hot \in Seq(Sample) /\ absHot \in Seq(AbsRow)
      /\ win \in Seq(Sample) /\ absWin \in Seq(AbsRow)
      /\ flush.hot \in Seq(Sample) /\ flush.absHot \in Seq(AbsRow)
      /\ flush.matched \in Nat /\ flush.implausible \in Nat /\ flush.now \in Nat
  BY <1>1, Numbers
<1>3. /\ UNCHANGED <<clocks, feeds, dzHand, pubHand, axes, counters, dzAt, pubAt, races>>
      /\ UNCHANGED <<dz, pub, hot, absHot, matched, implausible>>
      /\ flush' = Asleep
      /\ published' = [asOf |-> flush.now, n |-> Len(win'), absN |-> Len(absWin'),
                       matched |-> flush.matched, implausible |-> flush.implausible]
  BY DEF FlushPublish, counters, Counts
<1>4. /\ win' \in Seq(Sample) /\ aged' \in Nat
      /\ Len(win') + aged' = Held
  <2>1. PICK n \in 0..Len(win \o flush.hot) :
          win' = Rest(win \o flush.hot, n) /\ aged' = aged + n
    BY DEF FlushPublish, Drained
  <2>2. win' \in Seq(Sample) /\ Len(win') + n = Len(flush.hot) + Len(win)
    BY <1>2, <2>1, DrainFacts
  <2> DEFINE l == Len(win')
             a == Len(flush.hot)
             b == Len(win)
  <2>3. l \in Nat /\ a \in Nat /\ b \in Nat /\ n \in Nat /\ aged \in Nat
    BY <1>2, <2>2
  <2>4. l + n = a + b /\ aged' = aged + n /\ Held = a + b + aged
    BY <2>1, <2>2 DEF Held
  <2> HIDE DEF l, a, b
  <2>5. aged' \in Nat /\ l + aged' = Held
    <3>1. l + (aged + n) = (l + n) + aged
      BY ONLY <2>3
    <3> QED BY ONLY <2>3, <2>4, <3>1
  <2> QED BY <2>2, <2>5 DEF l
<1>5. /\ absWin' \in Seq(AbsRow) /\ absAged' \in Nat
      /\ Len(absWin') + absAged' = AbsHeld
  <2>1. PICK n \in 0..Len(absWin \o flush.absHot) :
          absWin' = Rest(absWin \o flush.absHot, n) /\ absAged' = absAged + n
    BY DEF FlushPublish, AbsDrained
  <2>2. absWin' \in Seq(AbsRow) /\ Len(absWin') + n = Len(flush.absHot) + Len(absWin)
    BY <1>2, <2>1, DrainFacts
  <2> DEFINE l == Len(absWin')
             a == Len(flush.absHot)
             b == Len(absWin)
  <2>3. l \in Nat /\ a \in Nat /\ b \in Nat /\ n \in Nat /\ absAged \in Nat
    BY <1>2, <2>2
  <2>4. l + n = a + b /\ absAged' = absAged + n /\ AbsHeld = a + b + absAged
    BY <2>1, <2>2 DEF AbsHeld
  <2> HIDE DEF l, a, b
  <2>5. absAged' \in Nat /\ l + absAged' = AbsHeld
    <3>1. l + (absAged + n) = (l + n) + absAged
      BY ONLY <2>3
    <3> QED BY ONLY <2>3, <2>4, <3>1
  <2> QED BY <2>2, <2>5 DEF l
<1>6. Len(win') \in Nat /\ Len(absWin') \in Nat
  BY <1>4, <1>5
<1>7. /\ flush' \in FlushType /\ published' \in FileType
      /\ published'.n = Len(win') /\ published'.absN = Len(absWin')
      /\ published'.matched = flush.matched /\ published'.implausible = flush.implausible
  BY <1>2, <1>3, <1>6 DEF Asleep, FlushType, FileType
<1>8. TypeOK' /\ NeverBothWaiting'
  <2>1. dz \in [Keys -> MaybeHalf] /\ pub \in [Keys -> MaybeHalf]
    BY <1>1 DEF TypeOK
  <2>2. TypeOK'
    BY <1>1, <1>2, <1>3, <1>4, <1>5, <1>7, <2>1, FlushTypes
  <2> QED BY <1>3, <2>2 DEF RaceInv, NeverBothWaiting
<1>9. HoldsNothing' /\ CopiedWithTheSwap'
  BY <1>3 DEF HoldsNothing, CopiedWithTheSwap, Asleep
<1>10. Held' = Held /\ AbsHeld' = AbsHeld
  <2>1. Len(flush'.hot) = 0 /\ Len(flush'.absHot) = 0
    BY <1>3 DEF Asleep
  <2>2. Held' = 0 + Len(win') + aged' /\ AbsHeld' = 0 + Len(absWin') + absAged'
    BY <2>1 DEF Held, AbsHeld
  <2>3. 0 + Len(win') = Len(win') /\ 0 + Len(absWin') = Len(absWin')
    BY <1>6
  <2> QED BY <1>4, <1>5, <2>2, <2>3
<1>11. NoSampleIsLost'
  BY <1>3, <1>10 DEF RaceInv, NoSampleIsLost, AllStamped
<1>12. SnapshotReconciles'
  <2>1. published'.matched = published'.n + aged'
    BY <1>1, <1>4, <1>7 DEF RaceInv, CopiedWithTheSwap
  <2>2. ASSUME AllStamped
        PROVE  published'.matched = published'.implausible + published'.absN + absAged'
    <3>1. published'.matched = published'.implausible + AbsHeld
      BY <1>1, <1>7, <2>2 DEF RaceInv, CopiedWithTheSwap
    <3> DEFINE i == published'.implausible
               n == published'.absN
    <3>2. i \in Nat /\ n \in Nat /\ absAged' \in Nat /\ n + absAged' = AbsHeld
      BY <1>2, <1>5, <1>6, <1>7
    <3> HIDE DEF i, n
    <3>3. i + (n + absAged') = i + n + absAged'
      BY ONLY <3>2
    <3> QED BY <3>1, <3>2, <3>3 DEF i, n
  <2> QED BY <2>1, <2>2 DEF SnapshotReconciles, AllStamped
<1> QED BY <1>8, <1>9, <1>11, <1>12 DEF RaceInv

-----------------------------------------------------------------------------

LEMMA RaceInvInit == Init => RaceInv
<1> SUFFICES ASSUME Init PROVE RaceInv
  OBVIOUS
<1>1. TypeOK
  <2>1. NoHalf \in MaybeHalf /\ Asleep \in FlushType /\ NothingPublished \in FileType
    BY DEF MaybeHalf, Asleep, FlushType, NothingPublished, FileType
  <2> QED BY <2>1 DEF Init, TypeOK, FlushType, FileType
<1>2. /\ Len(hot) = 0 /\ Len(absHot) = 0 /\ Held = 0 /\ AbsHeld = 0
      /\ matched = 0 /\ implausible = 0
  BY DEF Init, Asleep, Held, AbsHeld
<1>3. NeverBothWaiting /\ HoldsNothing /\ CopiedWithTheSwap
  BY DEF Init, NeverBothWaiting, HoldsNothing, CopiedWithTheSwap, Asleep
<1>4. NoSampleIsLost /\ SnapshotReconciles
  BY <1>2 DEF Init, NoSampleIsLost, SnapshotReconciles, NothingPublished
<1> QED BY <1>1, <1>3, <1>4 DEF RaceInv

LEMMA RaceStepKeepsInv == RaceInv /\ [Next]_vars => RaceInv'
<1> SUFFICES ASSUME RaceInv, [Next]_vars PROVE RaceInv'
  OBVIOUS
<1>1. CASE Tick \/ \E s \in Steps : SetWall(s)
  BY <1>1, ClockKeepsInv
<1>2. CASE \/ \E i \in Trades : DzStamp(i) \/ PubStamp(i)
           \/ DzLearn \/ DzSkip \/ PubSkip
  BY <1>2, HandsKeepInv
<1>3. CASE AddDz \/ AddPub
  BY <1>3, AddKeepsInv
<1>4. CASE FlushStart
  BY <1>4, FlushStartKeepsInv
<1>5. CASE FlushSwap
  BY <1>5, FlushSwapKeepsInv
<1>6. CASE FlushPublish
  BY <1>6, FlushPublishKeepsInv
<1>7. CASE UNCHANGED vars
  <2>1. /\ UNCHANGED <<clocks, feeds, dzHand, pubHand, axes, dz, pub, counters, dzAt, pubAt>>
        /\ UNCHANGED <<samples, flusher>>
    BY <1>7 DEF vars, counters, samples
  <2>2. TypeOK'
    BY <2>1 DEF RaceInv, TypeOK, clocks, feeds, counters, samples, flusher
  <2>3. NeverBothWaiting'
    BY <2>1 DEF RaceInv, NeverBothWaiting
  <2> QED BY <2>1, <2>2, <2>3, AccountsUntouched DEF RaceInv
<1> QED BY <1>1, <1>2, <1>3, <1>4, <1>5, <1>6, <1>7 DEF Next

\* The inductive invariant holds in every state of every behaviour.
THEOREM RaceInvariant == Spec => []RaceInv
<1>1. Init => RaceInv
  BY RaceInvInit
<1>2. RaceInv /\ [Next]_vars => RaceInv'
  BY RaceStepKeepsInv
<1> QED BY <1>1, <1>2, PTL DEF Spec

\* The race's state has the types its declarations give it.
THEOREM RaceTypesHold == Spec => []TypeOK
<1>1. RaceInv => TypeOK
  BY DEF RaceInv
<1> QED BY <1>1, RaceInvariant, PTL

\* In whatever order the two threads get the lock, a key never has both of its
\* halves waiting: the twins that came in are matched, not stranded.
THEOREM TwinsMeet == Spec => []NeverBothWaiting
<1>1. RaceInv => NeverBothWaiting
  BY DEF RaceInv
<1> QED BY <1>1, RaceInvariant, PTL

\* The hand-over between the feed threads and the flush thread loses no sample
\* and counts none twice, at any point between its critical sections.
THEOREM HandOverIsExact == Spec => []NoSampleIsLost
<1>1. RaceInv => NoSampleIsLost
  BY DEF RaceInv
<1> QED BY <1>1, RaceInvariant, PTL

\* The counts of a published file are of one moment.
THEOREM FilesReconcile == Spec => []SnapshotReconciles
<1>1. RaceInv => SnapshotReconciles
  BY DEF RaceInv
<1> QED BY <1>1, RaceInvariant, PTL

-----------------------------------------------------------------------------
(* Sequences of stamped samples. *)

\* No sample is later than the next, and none is later than t.
Ordered(s, t) ==
  \A i \in DOMAIN s : s[i].at <= t /\ \A j \in DOMAIN s : i <= j => s[i].at <= s[j].at

LEMMA StampsFacts ==
  ASSUME NEW S, \A e \in S : e.at \in Nat, NEW s \in Seq(S)
  PROVE  /\ Stamps(s) \in Seq(Nat) /\ Len(Stamps(s)) = Len(s) /\ Len(s) \in Nat
         /\ DOMAIN s = 1..Len(s) /\ \A i \in 1..Len(s) : Stamps(s)[i] = s[i].at /\ s[i].at \in Nat
<1>1. Len(s) \in Nat /\ DOMAIN s = 1..Len(s) /\ \A i \in 1..Len(s) : s[i] \in S
  OBVIOUS
<1>2. Stamps(s) = [i \in 1..Len(s) |-> s[i].at]
  BY <1>1 DEF Stamps
<1>3. Stamps(s) \in [1..Len(s) -> Nat]
  BY <1>1, <1>2
<1>4. Stamps(s) \in Seq(Nat)
  BY <1>1, <1>3, SeqDef
<1>5. Len(Stamps(s)) = Len(s)
  <2>1. DOMAIN Stamps(s) = 1..Len(s) /\ DOMAIN Stamps(s) = 1..Len(Stamps(s)) /\ Len(Stamps(s)) \in Nat
    BY <1>3, <1>4, LenProperties
  <2>2. QED BY <1>1, <2>1
<1>6. QED BY <1>1, <1>2, <1>4, <1>5

LEMMA AppendFacts ==
  ASSUME NEW S, NEW s \in Seq(S), NEW e \in S
  PROVE  /\ Append(s, e) \in Seq(S) /\ Len(Append(s, e)) = Len(s) + 1 /\ Len(s) \in Nat
         /\ Append(s, e)[Len(s) + 1] = e /\ \A i \in 1..Len(s) : Append(s, e)[i] = s[i]
         /\ DOMAIN Append(s, e) = 1..(Len(s) + 1) /\ DOMAIN s = 1..Len(s)
  OBVIOUS

LEMMA LineAppend ==
  ASSUME NEW S, NEW w \in Seq(S), NEW f \in Seq(S), NEW h \in Seq(S), NEW e \in S
  PROVE  w \o f \o Append(h, e) = Append(w \o f \o h, e)
  OBVIOUS

LEMMA OrderedAppend ==
  ASSUME NEW S, \A e \in S : e.at \in Nat, NEW s \in Seq(S), NEW e \in S, Ordered(s, e.at)
  PROVE  Ordered(Append(s, e), e.at)
<1>1. SUFFICES ASSUME NEW i \in 1..(Len(s) + 1)
               PROVE  /\ Append(s, e)[i].at <= e.at
                      /\ \A j \in 1..(Len(s) + 1) : i <= j => Append(s, e)[i].at <= Append(s, e)[j].at
  BY AppendFacts DEF Ordered
<1>2. CASE i = Len(s) + 1
  <2>1. \A j \in 1..(Len(s) + 1) : i <= j => j = i
    BY <1>2, AppendFacts
  <2>2. QED BY <1>2, <2>1, AppendFacts
<1>3. CASE i # Len(s) + 1
  <2>1. i \in 1..Len(s) /\ Append(s, e)[i] = s[i]
    BY <1>1, <1>3, AppendFacts
  <2>2. s[i].at <= e.at /\ \A j \in 1..Len(s) : i <= j => s[i].at <= s[j].at
    BY <2>1, AppendFacts DEF Ordered
  <2>3. \A j \in 1..(Len(s) + 1) : j = Len(s) + 1 \/ j \in 1..Len(s)
    BY AppendFacts
  <2>4. QED BY <2>1, <2>2, <2>3, AppendFacts
<1>4. QED BY <1>2, <1>3

LEMMA OrderedLater ==
  ASSUME NEW S, \A e \in S : e.at \in Nat, NEW s \in Seq(S), NEW t \in Nat, NEW u \in Nat,
         t <= u, Ordered(s, t)
  PROVE  Ordered(s, u)
<1>1. \A i \in DOMAIN s : s[i].at \in Nat
  BY StampsFacts
<1>2. QED BY <1>1 DEF Ordered

LEMMA OrderedRest ==
  ASSUME NEW S, NEW s \in Seq(S), NEW t \in Nat, NEW n \in 0..Len(s), Ordered(s, t)
  PROVE  Ordered(Rest(s, n), t)
<1>1. /\ Len(s) \in Nat /\ n \in Nat /\ DOMAIN s = 1..Len(s)
      /\ DOMAIN Rest(s, n) = 1..(Len(s) - n)
      /\ \A i \in 1..(Len(s) - n) : Rest(s, n)[i] = s[n + i] /\ n + i \in 1..Len(s)
  BY DEF Rest
<1>2. QED BY <1>1 DEF Ordered

\* What is left of the drained part with what is hot is what is left of the series.
LEMMA LineRest ==
  ASSUME NEW S, NEW d \in Seq(S), NEW h \in Seq(S), NEW n \in 0..Len(d)
  PROVE  /\ Rest(d, n) \o <<>> \o h = Rest(d \o h, n)
         /\ n \in 0..Len(d \o h) /\ \A i \in 1..Len(d) : (d \o h)[i] = d[i]
         /\ Len(d \o h) = Len(d) + Len(h) /\ Len(d) \in Nat /\ Len(h) \in Nat
<1>1. /\ Len(d \o h) = Len(d) + Len(h) /\ Len(d) \in Nat /\ Len(h) \in Nat /\ n \in Nat /\ n <= Len(d)
      /\ \A i \in 1..Len(d) : (d \o h)[i] = d[i]
      /\ \A i \in 1..Len(h) : (d \o h)[Len(d) + i] = h[i]
  OBVIOUS
<1>2. Rest(d, n) \in Seq(S) /\ Len(Rest(d, n)) = Len(d) - n
      /\ \A i \in 1..(Len(d) - n) : Rest(d, n)[i] = d[n + i]
  BY <1>1 DEF Rest
<1>3. Rest(d \o h, n) \in Seq(S) /\ Len(Rest(d \o h, n)) = Len(d) + Len(h) - n
      /\ \A i \in 1..(Len(d) + Len(h) - n) : Rest(d \o h, n)[i] = (d \o h)[n + i]
  BY <1>1 DEF Rest
<1>4. Rest(d, n) \o <<>> = Rest(d, n)
  BY <1>2
<1>5. /\ Rest(d, n) \o h \in Seq(S) /\ Len(Rest(d, n) \o h) = Len(d) + Len(h) - n
      /\ \A i \in 1..(Len(d) + Len(h) - n) :
           (Rest(d, n) \o h)[i] = IF i <= Len(d) - n THEN Rest(d, n)[i] ELSE h[i - (Len(d) - n)]
  <2>1. /\ Rest(d, n) \o h \in Seq(S) /\ Len(Rest(d, n) \o h) = Len(Rest(d, n)) + Len(h)
        /\ \A i \in 1..(Len(Rest(d, n)) + Len(h)) :
             (Rest(d, n) \o h)[i] = IF i <= Len(Rest(d, n)) THEN Rest(d, n)[i]
                                    ELSE h[i - Len(Rest(d, n))]
    BY <1>2, ConcatProperties
  <2>2. Len(Rest(d, n)) + Len(h) = Len(d) + Len(h) - n
    BY <1>1, <1>2
  <2>3. QED BY <1>2, <2>1, <2>2
<1>6. \A i \in 1..(Len(d) + Len(h) - n) : (Rest(d, n) \o h)[i] = Rest(d \o h, n)[i]
  <2>1. SUFFICES ASSUME NEW i \in 1..(Len(d) + Len(h) - n)
                 PROVE  (Rest(d, n) \o h)[i] = (d \o h)[n + i]
    BY <1>1, <1>3
  <2>2. CASE i <= Len(d) - n
    <3>1. i \in 1..(Len(d) - n) /\ n + i \in 1..Len(d)
      BY <1>1, <2>1, <2>2
    <3>2. QED BY <1>1, <1>2, <1>5, <2>2, <3>1
  <2>3. CASE ~(i <= Len(d) - n)
    <3>1. i - (Len(d) - n) \in 1..Len(h) /\ n + i = Len(d) + (i - (Len(d) - n))
      BY <1>1, <2>1, <2>3
    <3>2. QED BY <1>1, <1>5, <2>3, <3>1
  <2>4. QED BY <2>2, <2>3
<1>7. Rest(d, n) \o h = Rest(d \o h, n)
  <2>1. Len(Rest(d, n) \o h) = Len(Rest(d \o h, n)) /\ Len(Rest(d, n) \o h) = Len(d) + Len(h) - n
    BY <1>1, <1>3, <1>5
  <2>2. QED BY <1>3, <1>5, <1>6, <2>1, SeqEqual
<1>8. QED BY <1>1, <1>4, <1>7

\* Of an ordered sequence, what is left after ageing out is not too old.
LEMMA RestIsFresh ==
  ASSUME NEW S, \A e \in S : e.at \in Nat, NEW s \in Seq(S), NEW t \in Nat, Ordered(s, t),
         NEW n \in 0..Len(s), AgesOut(s, n), flush.now \in Nat
  PROVE  \A i \in (n + 1)..Len(s) : s[i].at >= flush.now - Window
<1>1. SUFFICES ASSUME NEW i \in (n + 1)..Len(s) PROVE s[i].at >= flush.now - Window
  OBVIOUS
<1>2. /\ Len(s) \in Nat /\ n \in Nat /\ n < Len(s) /\ n + 1 \in 1..Len(s) /\ i \in 1..Len(s) /\ n + 1 <= i
      /\ flush.now - Window \in Int
  BY <1>1, LimitAssumption, StampsFacts
<1>3. s[n + 1].at >= flush.now - Window /\ s[n + 1].at <= s[i].at
  BY <1>2, StampsFacts DEF AgesOut, Ordered
<1>4. s[n + 1].at \in Nat /\ s[i].at \in Nat
  BY <1>2, StampsFacts
<1>5. QED BY <1>2, <1>3, <1>4

-----------------------------------------------------------------------------
(* The two series of the race. *)

Series    == win \o flush.hot \o hot
AbsSeries == absWin \o flush.absHot \o absHot

OrderInv ==
  /\ RaceInv
  /\ Ordered(Series, mono) /\ Ordered(AbsSeries, mono)
  /\ published.asOf <= mono
  /\ flush.stage # "sleep" => published.asOf <= flush.now /\ flush.now <= mono
  /\ WindowIsFresh

LEMMA StampedAt == (\A e \in Sample : e.at \in Nat) /\ (\A e \in AbsRow : e.at \in Nat)
  BY DEF Sample, AbsRow

LEMMA SeriesTypes ==
  ASSUME RaceInv
  PROVE  /\ mono \in Nat /\ published.asOf \in Nat /\ flush.now \in Nat
         /\ published.n \in Nat /\ published.absN \in Nat
         /\ win \in Seq(Sample) /\ flush.hot \in Seq(Sample) /\ hot \in Seq(Sample)
         /\ absWin \in Seq(AbsRow) /\ flush.absHot \in Seq(AbsRow) /\ absHot \in Seq(AbsRow)
         /\ Drained \in Seq(Sample) /\ AbsDrained \in Seq(AbsRow)
         /\ Series \in Seq(Sample) /\ AbsSeries \in Seq(AbsRow)
<1>1. /\ mono \in Nat /\ published.asOf \in Nat /\ flush.now \in Nat
      /\ published.n \in Nat /\ published.absN \in Nat
      /\ win \in Seq(Sample) /\ flush.hot \in Seq(Sample) /\ hot \in Seq(Sample)
      /\ absWin \in Seq(AbsRow) /\ flush.absHot \in Seq(AbsRow) /\ absHot \in Seq(AbsRow)
  BY Numbers DEF RaceInv, TypeOK
<1>2. QED BY <1>1 DEF Drained, AbsDrained, Series, AbsSeries

\* A match appends one sample stamped now, and a row stamped now or an implausible one.
LEMMA RecordTakes ==
  ASSUME RaceInv, NEW x \in Half, NEW y \in Half, Record(x, y)
  PROVE  /\ matched' = matched + 1
         /\ \E e \in Sample : e.at = mono /\ hot' = Append(hot, e)
         /\ \/ UNCHANGED absHot /\ (AllStamped => implausible' = implausible + 1)
            \/ /\ implausible' = implausible
               /\ \E e \in AbsRow : e.at = mono /\ absHot' = Append(absHot, e)
<1>1. /\ x.of \in Trades /\ y.of \in Trades /\ x.mono \in Int /\ y.mono \in Int
      /\ x.wall \in Int /\ y.wall \in Int /\ ExchOf[x.of] \in Int /\ ExchOf[y.of] \in Int
  BY TradeAssumption DEF Half
<1>2. SampleOf(x, y) \in Sample /\ SampleOf(x, y).at = mono
  <2>1. mono \in Nat
    BY SeriesTypes
  <2>2. x.mono - y.mono \in Int
    BY <1>1
  <2>3. QED BY <2>1, <2>2 DEF SampleOf, Sample
<1>3. RowOf(x, y) \in AbsRow /\ RowOf(x, y).at = mono
  <2>1. mono \in Nat
    BY SeriesTypes
  <2>2. DzTotal(x) \in Int /\ PubTotal(y) \in Int
    BY <1>1 DEF DzTotal, PubTotal
  <2>3. QED BY <2>1, <2>2 DEF RowOf, AbsRow
<1>4. matched' = matched + 1 /\ hot' = Append(hot, SampleOf(x, y))
  BY DEF Record
<1>5. CASE ~Stamped(x, y) /\ UNCHANGED <<absHot, implausible>>
  BY <1>1, <1>2, <1>4, <1>5 DEF Stamped, AllStamped
<1>6. CASE implausible' = implausible + 1 /\ UNCHANGED absHot
  BY <1>2, <1>4, <1>6
<1>7. CASE absHot' = Append(absHot, RowOf(x, y)) /\ UNCHANGED implausible
  BY <1>2, <1>3, <1>4, <1>7
<1>8. QED BY <1>5, <1>6, <1>7 DEF Record

\* What a step does that is neither a match nor the flush's last part.
Quiet ==
  /\ Series' = Series /\ AbsSeries' = AbsSeries
  /\ UNCHANGED <<matched, implausible, win, absWin, aged, absAged, published>>

\* A match: the samples of the deltas, and of the absolute legs, grow by one at most.
Match ==
  /\ UNCHANGED <<clocks, flusher>>
  /\ \E x, y \in Half : Record(x, y)

LEMMA StepShapes ==
  ASSUME RaceInv, [Next]_vars
  PROVE  Quiet \/ Match \/ FlushPublish
<1>1. CASE UNCHANGED <<samples, flusher>>
  BY <1>1 DEF Quiet, Series, AbsSeries, samples, flusher
<1>2. CASE \/ Tick \/ \E s \in Steps : SetWall(s)
           \/ \E i \in Trades : DzStamp(i) \/ PubStamp(i)
           \/ DzLearn \/ DzSkip \/ PubSkip \/ UNCHANGED vars
  BY <1>1, <1>2
  DEF Tick, SetWall, DzStamp, PubStamp, DzLearn, DzSkip, PubSkip, counters, samples, vars
<1>3. CASE AddDz \/ AddPub
  <2>1. UNCHANGED <<clocks, flusher>>
    BY <1>3 DEF AddDz, AddPub
  <2>2. UNCHANGED samples \/ \E x, y \in Half : Record(x, y)
    <3>1. TypeOK /\ NeverBothWaiting /\ dzHand \in MaybeHalf /\ pubHand \in MaybeHalf
      BY DEF RaceInv, TypeOK
    <3>2. CASE AddDz
      <4>1. dzHand \in Half /\ KeyOf[dzHand.of] \in Keys /\ OfferDz(KeyOf[dzHand.of], dzHand)
        BY <3>1, <3>2, HalfFacts DEF AddDz
      <4>2. QED BY <3>1, <4>1, OfferDzFacts
    <3>3. CASE AddPub
      <4>1. pubHand \in Half /\ KeyOf[pubHand.of] \in Keys /\ OfferPub(KeyOf[pubHand.of], pubHand)
        BY <3>1, <3>3, HalfFacts DEF AddPub
      <4>2. QED BY <3>1, <4>1, OfferPubFacts
    <3>4. QED BY <1>3, <3>2, <3>3
  <2>3. QED BY <1>1, <2>1, <2>2 DEF Match
<1>4. CASE FlushStart
  <2>1. flush'.hot = flush.hot /\ flush'.absHot = flush.absHot
    BY <1>4 DEF FlushStart, RaceInv, TypeOK
  <2>2. QED BY <1>4, <2>1 DEF FlushStart, Quiet, Series, AbsSeries, counters
<1>5. CASE FlushSwap
  <2>1. /\ flush'.hot = hot /\ flush'.absHot = absHot /\ hot' = <<>> /\ absHot' = <<>>
        /\ UNCHANGED <<matched, implausible, win, absWin, aged, absAged, published>>
    BY <1>5 DEF FlushSwap, RaceInv, TypeOK, counters
  <2>2. flush.hot = <<>> /\ flush.absHot = <<>>
    BY <1>5 DEF FlushSwap, RaceInv, HoldsNothing
  <2>3. win \o <<>> \o hot = win \o hot \o <<>> /\ absWin \o <<>> \o absHot = absWin \o absHot \o <<>>
    BY SeriesTypes
  <2>4. QED BY <2>1, <2>2, <2>3 DEF Quiet, Series, AbsSeries
<1>6. QED BY <1>2, <1>3, <1>4, <1>5 DEF Next

\* The series after a match, and after the flush's last part.
LEMMA MatchSeries ==
  ASSUME RaceInv, Match
  PROVE  /\ matched' = matched + 1
         /\ UNCHANGED <<mono, win, absWin, flush, aged, absAged, published>>
         /\ \E e \in Sample : e.at = mono /\ Series' = Append(Series, e)
         /\ \/ AbsSeries' = AbsSeries /\ (AllStamped => implausible' = implausible + 1)
            \/ /\ implausible' = implausible
               /\ \E e \in AbsRow : e.at = mono /\ AbsSeries' = Append(AbsSeries, e)
<1>1. UNCHANGED <<mono, win, absWin, flush, aged, absAged, published>>
  BY DEF Match, clocks, flusher
<1>2. /\ matched' = matched + 1
      /\ \E e \in Sample : e.at = mono /\ hot' = Append(hot, e)
      /\ \/ UNCHANGED absHot /\ (AllStamped => implausible' = implausible + 1)
         \/ /\ implausible' = implausible
            /\ \E e \in AbsRow : e.at = mono /\ absHot' = Append(absHot, e)
  BY RecordTakes DEF Match
<1>3. \E e \in Sample : e.at = mono /\ Series' = Append(Series, e)
  <2>1. PICK e \in Sample : e.at = mono /\ hot' = Append(hot, e)
    BY <1>2
  <2>2. Series' = win \o flush.hot \o Append(hot, e)
    BY <1>1, <2>1 DEF Series
  <2>3. win \o flush.hot \o Append(hot, e) = Append(Series, e)
    <3>1. win \in Seq(Sample) /\ flush.hot \in Seq(Sample) /\ hot \in Seq(Sample)
      BY SeriesTypes
    <3>2. \A f \in Seq(Sample) : win \o f \o Append(hot, e) = Append(win \o f \o hot, e)
      BY <2>1, <3>1, LineAppend
    <3>3. QED BY <3>1, <3>2, Zenon DEF Series
  <2>4. QED BY <2>1, <2>2, <2>3
<1>4. CASE UNCHANGED absHot /\ (AllStamped => implausible' = implausible + 1)
  BY <1>1, <1>2, <1>3, <1>4 DEF AbsSeries
<1>5. CASE /\ implausible' = implausible
           /\ \E e \in AbsRow : e.at = mono /\ absHot' = Append(absHot, e)
  <2>1. \E e \in AbsRow : e.at = mono /\ AbsSeries' = Append(AbsSeries, e)
    <3>1. PICK e \in AbsRow : e.at = mono /\ absHot' = Append(absHot, e)
      BY <1>5
    <3>2. AbsSeries' = absWin \o flush.absHot \o Append(absHot, e)
      BY <1>1, <3>1 DEF AbsSeries
    <3>3. absWin \o flush.absHot \o Append(absHot, e) = Append(AbsSeries, e)
      <4>1. /\ absWin \in Seq(AbsRow) /\ flush.absHot \in Seq(AbsRow) /\ absHot \in Seq(AbsRow)
        BY SeriesTypes
      <4>2. \A f \in Seq(AbsRow) :
              absWin \o f \o Append(absHot, e) = Append(absWin \o f \o absHot, e)
        BY <3>1, <4>1, LineAppend
      <4>3. QED BY <4>1, <4>2, Zenon DEF AbsSeries
    <3>4. QED BY <3>1, <3>2, <3>3
  <2>2. QED BY <1>1, <1>2, <1>3, <1>5, <2>1
<1>6. QED BY <1>2, <1>4, <1>5

LEMMA PublishSeries ==
  ASSUME RaceInv, FlushPublish
  PROVE  /\ UNCHANGED <<mono, matched, implausible>> /\ flush.stage = "swapped"
         /\ flush'.stage = "sleep" /\ published'.asOf = flush.now
         /\ published'.matched = flush.matched /\ published'.implausible = flush.implausible
         /\ published'.n = Len(win') /\ published'.absN = Len(absWin')
         /\ \E n \in 0..Len(Drained) :
              /\ AgesOut(Drained, n) /\ win' = Rest(Drained, n) /\ aged' = aged + n
              /\ Series = Drained \o hot /\ Series' = Rest(Series, n)
         /\ \E n \in 0..Len(AbsDrained) :
              /\ AgesOut(AbsDrained, n) /\ absWin' = Rest(AbsDrained, n) /\ absAged' = absAged + n
              /\ AbsSeries = AbsDrained \o absHot /\ AbsSeries' = Rest(AbsSeries, n)
<1>1. /\ UNCHANGED <<mono, matched, implausible, hot, absHot>> /\ flush.stage = "swapped"
      /\ flush'.stage = "sleep" /\ flush'.hot = <<>> /\ flush'.absHot = <<>>
      /\ published'.asOf = flush.now
      /\ published'.matched = flush.matched /\ published'.implausible = flush.implausible
      /\ published'.n = Len(win') /\ published'.absN = Len(absWin')
  BY DEF FlushPublish, clocks, counters, Asleep, Counts
<1>2. \E n \in 0..Len(Drained) :
        /\ AgesOut(Drained, n) /\ win' = Rest(Drained, n) /\ aged' = aged + n
        /\ Series = Drained \o hot /\ Series' = Rest(Series, n)
  <2>1. PICK n \in 0..Len(Drained) :
          AgesOut(Drained, n) /\ win' = Rest(Drained, n) /\ aged' = aged + n
    BY DEF FlushPublish
  <2>2. Series = Drained \o hot /\ Series' = Rest(Drained, n) \o <<>> \o hot
    BY <1>1, <2>1 DEF Series, Drained
  <2>3. Series' = Rest(Series, n)
    BY <2>2, SeriesTypes, LineRest
  <2>4. QED BY <2>1, <2>2, <2>3
<1>3. \E n \in 0..Len(AbsDrained) :
        /\ AgesOut(AbsDrained, n) /\ absWin' = Rest(AbsDrained, n) /\ absAged' = absAged + n
        /\ AbsSeries = AbsDrained \o absHot /\ AbsSeries' = Rest(AbsSeries, n)
  <2>1. PICK n \in 0..Len(AbsDrained) :
          AgesOut(AbsDrained, n) /\ absWin' = Rest(AbsDrained, n) /\ absAged' = absAged + n
    BY DEF FlushPublish
  <2>2. AbsSeries = AbsDrained \o absHot /\ AbsSeries' = Rest(AbsDrained, n) \o <<>> \o absHot
    BY <1>1, <2>1 DEF AbsSeries, AbsDrained
  <2>3. AbsSeries' = Rest(AbsSeries, n)
    BY <2>2, SeriesTypes, LineRest
  <2>4. QED BY <2>1, <2>2, <2>3
<1>4. QED BY <1>1, <1>2, <1>3

\* The drained part of an ordered series is ordered, and its rest is fresh.
LEMMA DrainedIsFresh ==
  ASSUME NEW S, \A e \in S : e.at \in Nat, NEW d \in Seq(S), NEW h \in Seq(S), NEW t \in Nat,
         Ordered(d \o h, t), NEW n \in 0..Len(d), AgesOut(d, n), flush.now \in Nat
  PROVE  \A i \in DOMAIN Rest(d, n) : Rest(d, n)[i].at >= flush.now - Window
<1>1. /\ \A i \in 1..Len(d) : (d \o h)[i] = d[i]
      /\ Len(d) \in Nat /\ Len(h) \in Nat /\ Len(d \o h) = Len(d) + Len(h)
  BY LineRest
<1>2. Ordered(d, t)
  <2>1. DOMAIN d = 1..Len(d) /\ DOMAIN (d \o h) = 1..(Len(d) + Len(h))
    BY <1>1
  <2>2. \A i \in 1..Len(d) : i \in 1..(Len(d) + Len(h))
    BY <1>1
  <2>3. QED BY <1>1, <2>1, <2>2 DEF Ordered
<1>3. \A i \in (n + 1)..Len(d) : d[i].at >= flush.now - Window
  BY <1>2, RestIsFresh
<1>4. /\ DOMAIN Rest(d, n) = 1..(Len(d) - n)
      /\ \A i \in 1..(Len(d) - n) : Rest(d, n)[i] = d[n + i] /\ n + i \in (n + 1)..Len(d)
  BY <1>1 DEF Rest
<1>5. QED BY <1>3, <1>4

LEMMA OrderInit == Init => OrderInv
<1>1. SUFFICES ASSUME Init PROVE OrderInv
  OBVIOUS
<1>2. Series = <<>> /\ AbsSeries = <<>>
  BY <1>1 DEF Init, Series, AbsSeries, Asleep
<1>3. QED
  BY <1>1, <1>2, RaceInvInit DEF Init, OrderInv, Ordered, WindowIsFresh, Asleep, NothingPublished

LEMMA ClockFacts ==
  ASSUME RaceInv, [Next]_vars
  PROVE  mono' \in Nat /\ mono <= mono'
<1>1. mono \in Nat
  BY SeriesTypes
<1>2. mono' = mono \/ mono' = mono + 1
  BY DEF Next, vars, clocks, Tick, SetWall, DzStamp, PubStamp, DzLearn, DzSkip, AddDz, PubSkip,
         AddPub, FlushStart, FlushSwap, FlushPublish
<1>3. QED BY <1>1, <1>2

\* The flush's clock reading lies between the last file's and now.
LEMMA FlushClock ==
  ASSUME OrderInv, [Next]_vars
  PROVE  /\ published'.asOf <= mono'
         /\ flush'.stage # "sleep" => published'.asOf <= flush'.now /\ flush'.now <= mono'
<1>1. /\ mono \in Nat /\ mono' \in Nat /\ mono <= mono' /\ published.asOf \in Nat /\ flush.now \in Nat
  BY SeriesTypes, ClockFacts DEF OrderInv
<1>2. CASE UNCHANGED <<flush, published>>
  BY <1>1, <1>2 DEF OrderInv
<1>3. CASE FlushStart
  <2>1. flush'.now = mono /\ published' = published
    BY <1>3 DEF FlushStart, OrderInv, RaceInv, TypeOK
  <2>2. QED BY <1>1, <2>1 DEF OrderInv
<1>4. CASE FlushSwap
  <2>1. flush'.now = flush.now /\ flush.stage # "sleep" /\ published' = published
    BY <1>4 DEF FlushSwap, OrderInv, RaceInv, TypeOK
  <2>2. QED BY <1>1, <2>1 DEF OrderInv
<1>5. CASE FlushPublish
  BY <1>1, <1>5, PublishSeries DEF OrderInv
<1>6. QED
  BY <1>2, <1>3, <1>4, <1>5
  DEF Next, vars, flusher, Tick, SetWall, DzStamp, PubStamp, DzLearn, DzSkip, AddDz, PubSkip, AddPub

LEMMA OrderStep == OrderInv /\ [Next]_vars => OrderInv'
<1>1. SUFFICES ASSUME OrderInv, [Next]_vars PROVE OrderInv'
  OBVIOUS
<1>2. RaceInv /\ RaceInv'
  BY <1>1, RaceStepKeepsInv DEF OrderInv
<1>3. /\ mono \in Nat /\ mono' \in Nat /\ mono <= mono' /\ Series \in Seq(Sample)
      /\ AbsSeries \in Seq(AbsRow) /\ Ordered(Series, mono) /\ Ordered(AbsSeries, mono)
  BY <1>1, <1>2, SeriesTypes, ClockFacts DEF OrderInv
<1>4. Ordered(Series', mono') /\ Ordered(AbsSeries', mono') /\ WindowIsFresh'
  <2>1. CASE Quiet
    <3>1. Ordered(Series', mono') /\ Ordered(AbsSeries', mono')
      BY <1>3, <2>1, OrderedLater, StampedAt DEF Quiet
    <3>2. QED BY <1>1, <2>1, <3>1 DEF Quiet, OrderInv, WindowIsFresh
  <2>2. CASE Match
    <3>1. /\ UNCHANGED <<mono, win, absWin, published>>
          /\ \E e \in Sample : e.at = mono /\ Series' = Append(Series, e)
          /\ \/ AbsSeries' = AbsSeries
             \/ \E e \in AbsRow : e.at = mono /\ AbsSeries' = Append(AbsSeries, e)
      BY <1>2, <2>2, MatchSeries
    <3>2. Ordered(Series', mono')
      BY <1>3, <3>1, OrderedAppend, StampedAt
    <3>3. Ordered(AbsSeries', mono')
      BY <1>3, <3>1, OrderedAppend, StampedAt
    <3>4. QED BY <1>1, <3>1, <3>2, <3>3 DEF OrderInv, WindowIsFresh
  <2>3. CASE FlushPublish
    <3>1. PICK n \in 0..Len(Drained) :
            /\ AgesOut(Drained, n) /\ win' = Rest(Drained, n)
            /\ Series = Drained \o hot /\ Series' = Rest(Series, n)
      BY <1>2, <2>3, PublishSeries
    <3>2. PICK k \in 0..Len(AbsDrained) :
            /\ AgesOut(AbsDrained, k) /\ absWin' = Rest(AbsDrained, k)
            /\ AbsSeries = AbsDrained \o absHot /\ AbsSeries' = Rest(AbsSeries, k)
      BY <1>2, <2>3, PublishSeries
    <3>3. mono' = mono /\ published'.asOf = flush.now /\ flush.now \in Nat
      BY <1>2, <2>3, PublishSeries, SeriesTypes
    <3>4. Drained \in Seq(Sample) /\ AbsDrained \in Seq(AbsRow) /\ hot \in Seq(Sample)
          /\ absHot \in Seq(AbsRow)
      BY <1>2, SeriesTypes
    <3>5. n \in 0..Len(Series) /\ k \in 0..Len(AbsSeries)
      BY <3>1, <3>2, <3>4, LineRest
    <3>6. Ordered(Series', mono') /\ Ordered(AbsSeries', mono')
      BY <1>3, <3>1, <3>2, <3>3, <3>5, OrderedRest
    <3>7. \A i \in DOMAIN win' : win'[i].at >= published'.asOf - Window
      BY <1>3, <3>1, <3>3, <3>4, StampedAt, DrainedIsFresh
    <3>8. \A i \in DOMAIN absWin' : absWin'[i].at >= published'.asOf - Window
      BY <1>3, <3>2, <3>3, <3>4, StampedAt, DrainedIsFresh
    <3>9. QED BY <3>6, <3>7, <3>8 DEF WindowIsFresh
  <2>4. QED BY <1>1, <1>2, <2>1, <2>2, <2>3, StepShapes
<1>5. QED BY <1>1, <1>2, <1>4, FlushClock DEF OrderInv

\* Whatever is hot, in a flush's hands or in the window is in the order of its stamps, and
\* no sample is stamped later than now: what the two theorems below rest on.
THEOREM OrderHolds == Spec => []OrderInv
<1>1. QED BY OrderInit, OrderStep, PTL DEF Spec

\* After a flush nothing in the window is too old for it, of the deltas and of the
\* absolute legs (_age_out drops from the left only).
THEOREM WindowStaysFresh == Spec => []WindowIsFresh
<1>1. OrderInv => WindowIsFresh
  BY DEF OrderInv
<1>2. QED BY OrderHolds, <1>1, PTL

-----------------------------------------------------------------------------
(* The refinements. *)

\* A sample appended to an ordered series is taken by the window.
LEMMA TakesOne ==
  ASSUME NEW S, \A e \in S : e.at \in Nat, NEW s \in Seq(S), NEW e \in S, Ordered(s, e.at)
  PROVE  /\ Len(Stamps(Append(s, e))) = Len(Stamps(s)) + 1
         /\ SubSeq(Stamps(Append(s, e)), 1, Len(Stamps(s))) = Stamps(s)
         /\ Len(Stamps(s)) > 0 =>
              Stamps(Append(s, e))[Len(Stamps(s)) + 1] >= Stamps(s)[Len(Stamps(s))]
<1>1. /\ Append(s, e) \in Seq(S) /\ Len(Append(s, e)) = Len(s) + 1 /\ Len(s) \in Nat
      /\ Append(s, e)[Len(s) + 1] = e /\ \A i \in 1..Len(s) : Append(s, e)[i] = s[i]
      /\ DOMAIN s = 1..Len(s)
  BY AppendFacts
<1>2. /\ Stamps(s) \in Seq(Nat) /\ Len(Stamps(s)) = Len(s)
      /\ \A i \in 1..Len(s) : Stamps(s)[i] = s[i].at
  BY StampsFacts
<1>3. /\ Stamps(Append(s, e)) \in Seq(Nat) /\ Len(Stamps(Append(s, e))) = Len(s) + 1
      /\ \A i \in 1..(Len(s) + 1) : Stamps(Append(s, e))[i] = Append(s, e)[i].at
  BY <1>1, StampsFacts
<1>4. SubSeq(Stamps(Append(s, e)), 1, Len(s)) = Stamps(s)
  <2>1. \A i \in 1..Len(s) : Stamps(Append(s, e))[i] = Stamps(s)[i] /\ Stamps(s)[i] \in Nat
    <3>1. \A i \in 1..Len(s) : i \in 1..(Len(s) + 1)
      BY <1>1
    <3>2. QED BY <1>1, <1>2, <1>3, <3>1, StampsFacts
  <2>2. /\ SubSeq(Stamps(Append(s, e)), 1, Len(s)) \in Seq(Nat)
        /\ Len(SubSeq(Stamps(Append(s, e)), 1, Len(s))) = Len(s)
        /\ \A i \in 1..Len(s) : SubSeq(Stamps(Append(s, e)), 1, Len(s))[i] = Stamps(Append(s, e))[i]
    BY <1>1, <1>3
  <2>3. QED BY <1>2, <2>1, <2>2, SeqEqual
<1>5. Len(s) > 0 => Stamps(Append(s, e))[Len(s) + 1] >= Stamps(s)[Len(s)]
  <2>1. SUFFICES ASSUME Len(s) > 0 PROVE Stamps(Append(s, e))[Len(s) + 1] >= Stamps(s)[Len(s)]
    OBVIOUS
  <2>2. Len(s) \in 1..Len(s) /\ Len(s) + 1 \in 1..(Len(s) + 1)
    BY <1>1, <2>1
  <2>3. s[Len(s)].at <= e.at /\ s[Len(s)].at \in Nat /\ e.at \in Nat
    BY <1>1, <2>2, StampsFacts DEF Ordered
  <2>4. QED BY <1>1, <1>2, <1>3, <2>2, <2>3
<1>6. QED BY <1>2, <1>3, <1>4, <1>5

\* The front that the flush ages out is forgotten and the rest of the drained part shown.
LEMMA ShowsTheRest ==
  ASSUME NEW S, \A e \in S : e.at \in Nat, NEW d \in Seq(S), NEW h \in Seq(S), NEW t \in Nat,
         Ordered(d \o h, t), NEW n \in 0..Len(d), AgesOut(d, n), flush.now \in Nat
  PROVE  /\ \A i \in 1..n : Stamps(d \o h)[i] < flush.now - Window
         /\ \A i \in (n + 1)..(n + Len(Rest(d, n))) : Stamps(d \o h)[i] >= flush.now - Window
         /\ Stamps(Rest(d \o h, n)) = SubSeq(Stamps(d \o h), n + 1, Len(Stamps(d \o h)))
         /\ n \in 0..Len(Stamps(d \o h))
         /\ Len(Rest(d, n)) \in 0..(Len(Stamps(d \o h)) - n)
<1>1. /\ \A i \in 1..Len(d) : (d \o h)[i] = d[i]
      /\ Len(d) \in Nat /\ Len(h) \in Nat /\ Len(d \o h) = Len(d) + Len(h) /\ n \in Nat /\ n <= Len(d)
      /\ d \o h \in Seq(S)
  BY LineRest
<1>2. /\ Stamps(d \o h) \in Seq(Nat) /\ Len(Stamps(d \o h)) = Len(d) + Len(h)
      /\ \A i \in 1..(Len(d) + Len(h)) : Stamps(d \o h)[i] = (d \o h)[i].at
  BY <1>1, StampsFacts
<1>3. \A i \in 1..Len(d) : Stamps(d \o h)[i] = d[i].at
  <2>1. \A i \in 1..Len(d) : i \in 1..(Len(d) + Len(h))
    BY <1>1
  <2>2. QED BY <1>1, <1>2, <2>1
<1>4. Len(Rest(d, n)) = Len(d) - n /\ \A i \in 1..(Len(d) - n) : Rest(d, n)[i] = d[n + i]
      /\ DOMAIN Rest(d, n) = 1..(Len(d) - n)
  BY <1>1 DEF Rest
<1>5. \A i \in 1..n : Stamps(d \o h)[i] < flush.now - Window
  <2>1. \A i \in 1..n : i \in 1..Len(d)
    BY <1>1
  <2>2. QED BY <1>3, <2>1 DEF AgesOut
<1>6. \A i \in (n + 1)..(n + Len(Rest(d, n))) : Stamps(d \o h)[i] >= flush.now - Window
  <2>1. \A i \in DOMAIN Rest(d, n) : Rest(d, n)[i].at >= flush.now - Window
    BY DrainedIsFresh
  <2>2. SUFFICES ASSUME NEW i \in (n + 1)..Len(d) PROVE Stamps(d \o h)[i] >= flush.now - Window
    BY <1>1, <1>4
  <2>3. i \in 1..Len(d) /\ i - n \in 1..(Len(d) - n) /\ n + (i - n) = i
    BY <1>1, <2>2
  <2>4. QED BY <1>3, <1>4, <2>1, <2>3
<1>7. Stamps(Rest(d \o h, n)) = SubSeq(Stamps(d \o h), n + 1, Len(Stamps(d \o h)))
  <2> DEFINE len == Len(d) + Len(h)
  <2>1. /\ Rest(d \o h, n) \in Seq(S) /\ Len(Rest(d \o h, n)) = len - n
        /\ \A i \in 1..(len - n) : Rest(d \o h, n)[i] = (d \o h)[n + i] /\ n + i \in 1..len
    BY <1>1 DEF Rest
  <2>2. /\ Stamps(Rest(d \o h, n)) \in Seq(Nat) /\ Len(Stamps(Rest(d \o h, n))) = len - n
        /\ \A i \in 1..(len - n) : Stamps(Rest(d \o h, n))[i] = Rest(d \o h, n)[i].at
    BY <2>1, StampsFacts
  <2>3. /\ SubSeq(Stamps(d \o h), n + 1, len) \in Seq(Nat)
        /\ Len(SubSeq(Stamps(d \o h), n + 1, len)) = len - n
        /\ \A i \in 1..(len - n) : SubSeq(Stamps(d \o h), n + 1, len)[i] = Stamps(d \o h)[n + i]
    BY <1>1, <1>2
  <2>4. \A i \in 1..(len - n) :
          Stamps(Rest(d \o h, n))[i] = SubSeq(Stamps(d \o h), n + 1, len)[i]
    BY <1>2, <2>1, <2>2, <2>3
  <2>5. Stamps(Rest(d \o h, n)) = SubSeq(Stamps(d \o h), n + 1, len)
    BY <2>2, <2>3, <2>4, SeqEqual
  <2>6. QED BY <1>2, <2>5
<1>8. n \in 0..Len(Stamps(d \o h)) /\ Len(Rest(d, n)) \in 0..(Len(Stamps(d \o h)) - n)
  BY <1>1, <1>2, <1>4
<1>9. QED BY <1>5, <1>6, <1>7, <1>8

LEMMA RestLength ==
  ASSUME NEW S, NEW d \in Seq(S), NEW n \in 0..Len(d)
  PROVE  Len(Rest(d, n)) + n = Len(d)
<1>1. Len(d) \in Nat /\ n \in Nat /\ n <= Len(d)
  OBVIOUS
<1>2. Len(Rest(d, n)) = Len(d) - n
  BY <1>1 DEF Rest
<1>3. QED BY <1>1, <1>2

LEMMA DeltaInit == Init => Deltas!WindowInit
<1>1. SUFFICES ASSUME Init PROVE Deltas!WindowInit
  OBVIOUS
<1>2. Series = <<>>
  BY <1>1 DEF Init, Series, Asleep
<1>3. Stamps(Series) = <<>>
  <2>1. Stamps(<<>>) = [i \in {} |-> <<>>[i].at]
    BY DEF Stamps
  <2>2. QED BY <1>2, <2>1
<1>4. QED BY <1>1, <1>3 DEF Series, Init, Deltas!WindowInit, NothingPublished

LEMMA DeltaStep ==
  ASSUME OrderInv, OrderInv', [Next]_vars
  PROVE  [Deltas!WindowNext]_(Deltas!windowVars)
<1>1. RaceInv /\ Series \in Seq(Sample) /\ Ordered(Series, mono) /\ mono \in Nat
  BY SeriesTypes DEF OrderInv
<1>2. CASE Quiet
  <2>1. Stamps(Series)' = Stamps(Series)
    BY <1>2 DEF Quiet, Stamps
  <2>2. QED BY <1>2, <2>1 DEF Quiet, Series, Deltas!windowVars
<1>3. CASE Match
  <2>1. PICK e \in Sample : e.at = mono /\ Series' = Append(Series, e)
    BY <1>1, <1>3, MatchSeries
  <2>2. matched' = matched + 1 /\ UNCHANGED <<aged, published>>
    BY <1>1, <1>3, MatchSeries
  <2>3. /\ Len(Stamps(Append(Series, e))) = Len(Stamps(Series)) + 1
        /\ SubSeq(Stamps(Append(Series, e)), 1, Len(Stamps(Series))) = Stamps(Series)
        /\ Len(Stamps(Series)) > 0 =>
             Stamps(Append(Series, e))[Len(Stamps(Series)) + 1] >= Stamps(Series)[Len(Stamps(Series))]
    BY <1>1, <2>1, StampedAt, TakesOne
  <2>4. Stamps(Series)' = Stamps(Append(Series, e))
    BY <2>1 DEF Stamps
  <2>5. Deltas!Take
    BY <2>2, <2>3, <2>4 DEF Series, Deltas!Take, Deltas!Last
  <2>6. QED BY <2>5 DEF Deltas!WindowNext
<1>4. CASE FlushPublish
  <2>1. PICK n \in 0..Len(Drained) :
          /\ AgesOut(Drained, n) /\ win' = Rest(Drained, n) /\ aged' = aged + n
          /\ Series = Drained \o hot /\ Series' = Rest(Series, n)
    BY <1>1, <1>4, PublishSeries
  <2>2. /\ matched' = matched /\ published'.asOf = flush.now /\ published'.matched = flush.matched
        /\ published'.n = Len(win') /\ flush.stage = "swapped"
    BY <1>1, <1>4, PublishSeries
  <2>3. Drained \in Seq(Sample) /\ hot \in Seq(Sample) /\ flush.now \in Nat
        /\ published.asOf \in Nat /\ published'.asOf >= published.asOf
    BY <1>1, <2>2, SeriesTypes DEF OrderInv
  <2>4. /\ \A i \in 1..n : Stamps(Series)[i] < flush.now - Window
        /\ \A i \in (n + 1)..(n + Len(win')) : Stamps(Series)[i] >= flush.now - Window
        /\ Stamps(Rest(Series, n)) = SubSeq(Stamps(Series), n + 1, Len(Stamps(Series)))
        /\ n \in 0..Len(Stamps(Series)) /\ Len(win') \in 0..(Len(Stamps(Series)) - n)
    BY <1>1, <2>1, <2>3, StampedAt, ShowsTheRest
  <2>5. published'.matched = aged' + Len(win')
    <3>1. published'.matched = published'.n + aged' /\ published'.n \in Nat /\ aged' \in Nat
      BY DEF OrderInv, RaceInv, SnapshotReconciles, TypeOK
    <3>2. QED BY <2>2, <3>1
  <2>6. Stamps(Series)' = Stamps(Rest(Series, n))
    BY <2>1 DEF Stamps
  <2>7. Deltas!Show(n, Len(win'))
    BY <2>1, <2>2, <2>3, <2>4, <2>5, <2>6 DEF Series, Deltas!Show, Deltas!Last
  <2>8. QED BY <2>4, <2>7 DEF Series, Deltas!WindowNext, Deltas!Last
<1>5. QED BY <1>1, <1>2, <1>3, <1>4, StepShapes

\* The threads, buffers and locks of the race implement one rolling window of deltas:
\* each flush shows a consistent cut of it.
THEOREM RaceImplementsWindow == Spec => DeltaWindow
<1>1. QED BY DeltaInit, DeltaStep, OrderHolds, PTL DEF Spec, DeltaWindow, Deltas!WindowSpec

LEMMA AbsoluteInit == Init => Absolutes!WindowInit
<1>1. SUFFICES ASSUME Init PROVE Absolutes!WindowInit
  OBVIOUS
<1>2. AbsSeries = <<>>
  BY <1>1 DEF Init, AbsSeries, Asleep
<1>3. Stamps(AbsSeries) = <<>>
  <2>1. Stamps(<<>>) = [i \in {} |-> <<>>[i].at]
    BY DEF Stamps
  <2>2. QED BY <1>2, <2>1
<1>4. matched - implausible = 0 /\ published.matched - published.implausible = 0
  BY <1>1 DEF Init, NothingPublished
<1>5. QED BY <1>1, <1>3, <1>4 DEF AbsSeries, Init, Absolutes!WindowInit, NothingPublished

LEMMA AbsoluteStep ==
  ASSUME AllStamped, OrderInv, OrderInv', [Next]_vars
  PROVE  [Absolutes!WindowNext]_(Absolutes!windowVars)
<1>1. RaceInv /\ AbsSeries \in Seq(AbsRow) /\ Ordered(AbsSeries, mono) /\ mono \in Nat
  BY SeriesTypes DEF OrderInv
<1>2. matched \in Nat /\ implausible \in Nat
  BY Numbers DEF OrderInv, RaceInv
<1>3. CASE Quiet
  <2>1. Stamps(AbsSeries)' = Stamps(AbsSeries)
    BY <1>3 DEF Quiet, Stamps
  <2>2. QED BY <1>3, <2>1 DEF Quiet, AbsSeries, Absolutes!windowVars
<1>4. CASE Match
  <2>1. matched' = matched + 1 /\ UNCHANGED <<absAged, published>>
    BY <1>1, <1>4, MatchSeries
  <2>2. CASE AbsSeries' = AbsSeries /\ implausible' = implausible + 1
    <3>1. matched' - implausible' = matched - implausible
      BY <1>2, <2>1, <2>2
    <3>2. Stamps(AbsSeries)' = Stamps(AbsSeries)
      BY <2>2 DEF Stamps
    <3>3. QED BY <2>1, <3>1, <3>2 DEF AbsSeries, Absolutes!windowVars
  <2>3. CASE /\ implausible' = implausible
             /\ \E e \in AbsRow : e.at = mono /\ AbsSeries' = Append(AbsSeries, e)
    <3>1. PICK e \in AbsRow : e.at = mono /\ AbsSeries' = Append(AbsSeries, e)
      BY <2>3
    <3>2. /\ Len(Stamps(Append(AbsSeries, e))) = Len(Stamps(AbsSeries)) + 1
          /\ SubSeq(Stamps(Append(AbsSeries, e)), 1, Len(Stamps(AbsSeries))) = Stamps(AbsSeries)
          /\ Len(Stamps(AbsSeries)) > 0 =>
               Stamps(Append(AbsSeries, e))[Len(Stamps(AbsSeries)) + 1]
                 >= Stamps(AbsSeries)[Len(Stamps(AbsSeries))]
      BY <1>1, <3>1, StampedAt, TakesOne
    <3>3. Stamps(AbsSeries)' = Stamps(Append(AbsSeries, e))
      BY <3>1 DEF Stamps
    <3>4. matched' - implausible' = (matched - implausible) + 1
      BY <1>2, <2>1, <2>3
    <3>5. Absolutes!Take
      BY <2>1, <3>2, <3>3, <3>4 DEF AbsSeries, Absolutes!Take, Absolutes!Last
    <3>6. QED BY <3>5 DEF Absolutes!WindowNext
  <2>4. QED BY <1>1, <1>4, <2>2, <2>3, MatchSeries
<1>5. CASE FlushPublish
  <2>1. PICK n \in 0..Len(AbsDrained) :
          /\ AgesOut(AbsDrained, n) /\ absWin' = Rest(AbsDrained, n) /\ absAged' = absAged + n
          /\ AbsSeries = AbsDrained \o absHot /\ AbsSeries' = Rest(AbsSeries, n)
    BY <1>1, <1>5, PublishSeries
  <2>2. /\ matched' = matched /\ implausible' = implausible /\ published'.asOf = flush.now
        /\ published'.absN = Len(absWin') /\ flush.stage = "swapped"
    BY <1>1, <1>5, PublishSeries
  <2>3. AbsDrained \in Seq(AbsRow) /\ absHot \in Seq(AbsRow) /\ flush.now \in Nat
        /\ published.asOf \in Nat /\ published'.asOf >= published.asOf
    BY <1>1, <2>2, SeriesTypes DEF OrderInv
  <2>4. /\ \A i \in 1..n : Stamps(AbsSeries)[i] < flush.now - Window
        /\ \A i \in (n + 1)..(n + Len(absWin')) : Stamps(AbsSeries)[i] >= flush.now - Window
        /\ Stamps(Rest(AbsSeries, n)) = SubSeq(Stamps(AbsSeries), n + 1, Len(Stamps(AbsSeries)))
        /\ n \in 0..Len(Stamps(AbsSeries)) /\ Len(absWin') \in 0..(Len(Stamps(AbsSeries)) - n)
    BY <1>1, <2>1, <2>3, StampedAt, ShowsTheRest
  <2>5. published'.matched - published'.implausible = absAged' + Len(absWin')
    <3>1. /\ published'.matched = published'.implausible + published'.absN + absAged'
          /\ published'.implausible \in Nat /\ published'.absN \in Nat /\ absAged' \in Nat
      BY DEF OrderInv, RaceInv, SnapshotReconciles, TypeOK, AllStamped
    <3>2. published'.matched - published'.implausible = absAged' + published'.absN
      BY <3>1
    <3>3. QED BY <2>2, <3>2
  <2>6. Stamps(AbsSeries)' = Stamps(Rest(AbsSeries, n))
    BY <2>1 DEF Stamps
  <2>7. matched' - implausible' = matched - implausible
    BY <2>2
  <2>8. Absolutes!Show(n, Len(absWin'))
    BY <2>1, <2>2, <2>3, <2>4, <2>5, <2>6, <2>7 DEF AbsSeries, Absolutes!Show, Absolutes!Last
  <2>9. QED BY <2>4, <2>8 DEF AbsSeries, Absolutes!WindowNext, Absolutes!Last
<1>6. QED BY <1>1, <1>3, <1>4, <1>5, StepShapes

\* Where both feeds stamp every trade, the absolute legs are such a window too; the
\* matches that are not in it are those counted as implausible.
THEOREM RaceImplementsAbsoluteWindow ==
  ASSUME AllStamped
  PROVE  Spec => AbsoluteWindow
<1>1. [Next]_vars /\ OrderInv /\ OrderInv' => [Absolutes!WindowNext]_(Absolutes!windowVars)
  BY AbsoluteStep
<1>2. QED BY AbsoluteInit, <1>1, OrderHolds, PTL DEF Spec, AbsoluteWindow, Absolutes!WindowSpec
-----------------------------------------------------------------------------
(* Who is matched with whom. *)

Maps == [Keys -> MaybeHalf]

\* The trades one feed has put into races: side is the races' half of that feed.  Each
\* trade is in one place at the most: in the hand, in the map, or in one race.
Once(hand, sent, waiting, side) ==
  /\ hand # NoHalf =>
       /\ hand.of \in sent
       /\ \A k \in Keys : waiting[k] # NoHalf => waiting[k].of # hand.of
       /\ \A r \in 1..Len(side) : side[r] # hand.of
  /\ \A k \in Keys : waiting[k] # NoHalf =>
       /\ waiting[k].of \in sent /\ KeyOf[waiting[k].of] = k
       /\ \A r \in 1..Len(side) : side[r] # waiting[k].of
  /\ \A r \in 1..Len(side) : side[r] \in sent
  /\ \A r, q \in 1..Len(side) : r # q => side[r] # side[q]

LEMMA OnceStamped ==
  ASSUME NEW sent, NEW w \in Maps, NEW side \in Seq(Trades), NEW h \in Half,
         Once(NoHalf, sent, w, side), h.of \notin sent
  PROVE  Once(h, sent \cup {h.of}, w, side)
  BY DEF Once

LEMMA OnceDropped ==
  ASSUME NEW sent, NEW w \in Maps, NEW side \in Seq(Trades), NEW h, Once(h, sent, w, side)
  PROVE  Once(NoHalf, sent, w, side)
  BY DEF Once

LEMMA OnceExpired ==
  ASSUME NEW sent, NEW w \in Maps, NEW side \in Seq(Trades), NEW h, Once(h, sent, w, side),
         NEW v \in Maps, \A k \in Keys : v[k] = w[k] \/ v[k] = NoHalf
  PROVE  Once(h, sent, v, side)
  BY DEF Once

LEMMA OnceWaiting ==
  ASSUME NEW sent, NEW w \in Maps, NEW side \in Seq(Trades), NEW h \in Half, h # NoHalf,
         Once(h, sent, w, side)
  PROVE  Once(NoHalf, sent, [w EXCEPT ![KeyOf[h.of]] = h], side)
<1> DEFINE v == [w EXCEPT ![KeyOf[h.of]] = h]
<1>1. \A k \in Keys : v[k] = IF k = KeyOf[h.of] THEN h ELSE w[k]
  BY DEF Maps
<1>2. QED BY <1>1 DEF Once

LEMMA OnceHandMatched ==
  ASSUME NEW sent, NEW w \in Maps, NEW side \in Seq(Trades), NEW h \in Half, h # NoHalf,
         Once(h, sent, w, side)
  PROVE  Once(NoHalf, sent, w, Append(side, h.of))
<1>1. h.of \in Trades
  BY DEF Half
<1>2. /\ Len(Append(side, h.of)) = Len(side) + 1 /\ Len(side) \in Nat
      /\ \A r \in 1..(Len(side) + 1) :
           Append(side, h.of)[r] = IF r \in 1..Len(side) THEN side[r] ELSE h.of
      /\ \A r \in 1..(Len(side) + 1) : r \notin 1..Len(side) => r = Len(side) + 1
  BY <1>1
<1>3. QED BY <1>2 DEF Once

LEMMA OnceWaiterMatched ==
  ASSUME NEW sent, NEW w \in Maps, NEW side \in Seq(Trades), NEW h, NEW k \in Keys, w[k] # NoHalf,
         Once(h, sent, w, side)
  PROVE  Once(h, sent, [w EXCEPT ![k] = NoHalf], Append(side, w[k].of))
<1> DEFINE v == [w EXCEPT ![k] = NoHalf]
           of == w[k].of
<1>1. \A j \in Keys : v[j] = IF j = k THEN NoHalf ELSE w[j]
  BY DEF Maps
<1>2. of \in Trades
  BY DEF Maps, MaybeHalf, Half
<1>3. /\ Len(Append(side, of)) = Len(side) + 1 /\ Len(side) \in Nat
      /\ \A r \in 1..(Len(side) + 1) :
           Append(side, of)[r] = IF r \in 1..Len(side) THEN side[r] ELSE of
      /\ \A r \in 1..(Len(side) + 1) : r \notin 1..Len(side) => r = Len(side) + 1
  BY <1>2
<1>4. /\ of \in sent /\ \A r \in 1..Len(side) : side[r] # of
      /\ h # NoHalf => of # h.of
      /\ \A j \in Keys : v[j] # NoHalf => v[j] = w[j] /\ v[j].of # of
  BY <1>1 DEF Once
<1> DEFINE more == Append(side, of)
<1> HIDE DEF v, of, more
<1>5. h # NoHalf =>
        /\ h.of \in sent
        /\ \A j \in Keys : v[j] # NoHalf => v[j].of # h.of
        /\ \A r \in 1..Len(more) : more[r] # h.of
  BY <1>3, <1>4 DEF Once, more
<1>6. \A j \in Keys : v[j] # NoHalf =>
        /\ v[j].of \in sent /\ KeyOf[v[j].of] = j
        /\ \A r \in 1..Len(more) : more[r] # v[j].of
  BY <1>3, <1>4 DEF Once, more
<1>7. \A r \in 1..Len(more) : more[r] \in sent
  BY <1>3, <1>4 DEF Once, more
<1>8. \A r, q \in 1..Len(more) : r # q => more[r] # more[q]
  BY <1>3, <1>4 DEF Once, more
<1>9. Once(h, sent, v, more)
  BY <1>5, <1>6, <1>7, <1>8 DEF Once
<1>10. QED BY <1>9 DEF v, of, more

-----------------------------------------------------------------------------
(* Of the race. *)

DzSide  == [r \in DOMAIN races |-> races[r].dz]
PubSide == [r \in DOMAIN races |-> races[r].pub]

OnceInv ==
  /\ RaceInv
  /\ Once(dzHand, dzSent, dz, DzSide)
  /\ Once(pubHand, pubSent, pub, PubSide)

LEMMA SideFacts ==
  ASSUME NEW s \in Seq([dz : Trades, pub : Trades])
  PROVE  /\ [r \in DOMAIN s |-> s[r].dz] \in Seq(Trades)
         /\ [r \in DOMAIN s |-> s[r].pub] \in Seq(Trades)
         /\ Len([r \in DOMAIN s |-> s[r].dz]) = Len(s) /\ Len([r \in DOMAIN s |-> s[r].pub]) = Len(s)
         /\ DOMAIN s = 1..Len(s) /\ Len(s) \in Nat
<1>1. Len(s) \in Nat /\ DOMAIN s = 1..Len(s) /\ \A i \in 1..Len(s) : s[i].dz \in Trades /\ s[i].pub \in Trades
  <2>1. Len(s) \in Nat /\ DOMAIN s = 1..Len(s) /\ \A i \in 1..Len(s) : s[i] \in [dz : Trades, pub : Trades]
    BY LenProperties, ElementOfSeq
  <2>2. QED BY <2>1
<1> DEFINE a == [r \in DOMAIN s |-> s[r].dz]
           b == [r \in DOMAIN s |-> s[r].pub]
<1>2. a \in [1..Len(s) -> Trades] /\ b \in [1..Len(s) -> Trades]
  BY <1>1
<1>3. a \in Seq(Trades) /\ b \in Seq(Trades)
  BY <1>1, <1>2, SeqDef
<1>4. Len(a) = Len(s) /\ Len(b) = Len(s)
  <2>1. DOMAIN a = 1..Len(s) /\ DOMAIN a = 1..Len(a) /\ Len(a) \in Nat
    BY <1>2, <1>3, LenProperties
  <2>2. DOMAIN b = 1..Len(s) /\ DOMAIN b = 1..Len(b) /\ Len(b) \in Nat
    BY <1>2, <1>3, LenProperties
  <2>3. QED BY <1>1, <2>1, <2>2
<1>5. QED BY <1>1, <1>3, <1>4

LEMMA SidesGrow ==
  ASSUME RaceInv, NEW i \in Trades, NEW j \in Trades, races' = Append(races, [dz |-> i, pub |-> j])
  PROVE  DzSide' = Append(DzSide, i) /\ PubSide' = Append(PubSide, j)
<1>1. races \in Seq([dz : Trades, pub : Trades]) /\ [dz |-> i, pub |-> j] \in [dz : Trades, pub : Trades]
  BY DEF RaceInv, TypeOK
<1>2. /\ races' \in Seq([dz : Trades, pub : Trades]) /\ Len(races') = Len(races) + 1
      /\ Len(races) \in Nat /\ DOMAIN races' = 1..(Len(races) + 1) /\ DOMAIN races = 1..Len(races)
      /\ races'[Len(races) + 1] = [dz |-> i, pub |-> j]
      /\ \A r \in 1..Len(races) : races'[r] = races[r]
  BY <1>1
<1>3. /\ DzSide \in Seq(Trades) /\ Len(DzSide) = Len(races)
      /\ PubSide \in Seq(Trades) /\ Len(PubSide) = Len(races)
  BY <1>1, SideFacts DEF DzSide, PubSide
<1>4. /\ DzSide' \in Seq(Trades) /\ Len(DzSide') = Len(races) + 1
      /\ PubSide' \in Seq(Trades) /\ Len(PubSide') = Len(races) + 1
  BY <1>2, SideFacts DEF DzSide, PubSide
<1>5. \A r \in 1..(Len(races) + 1) :
        /\ DzSide'[r] = IF r = Len(races) + 1 THEN i ELSE DzSide[r]
        /\ PubSide'[r] = IF r = Len(races) + 1 THEN j ELSE PubSide[r]
  <2>1. SUFFICES ASSUME NEW r \in 1..(Len(races) + 1)
                 PROVE  /\ DzSide'[r] = IF r = Len(races) + 1 THEN i ELSE DzSide[r]
                        /\ PubSide'[r] = IF r = Len(races) + 1 THEN j ELSE PubSide[r]
    OBVIOUS
  <2>2. r # Len(races) + 1 => r \in 1..Len(races)
    BY <1>2, <2>1
  <2>3. DzSide'[r] = races'[r].dz /\ PubSide'[r] = races'[r].pub
    BY <1>2 DEF DzSide, PubSide
  <2>4. r \in 1..Len(races) => DzSide[r] = races[r].dz /\ PubSide[r] = races[r].pub
    BY <1>2 DEF DzSide, PubSide
  <2>5. QED BY <1>2, <2>2, <2>3, <2>4
<1>6. /\ Append(DzSide, i) \in Seq(Trades) /\ Len(Append(DzSide, i)) = Len(races) + 1
      /\ \A r \in 1..(Len(races) + 1) :
           Append(DzSide, i)[r] = IF r = Len(races) + 1 THEN i ELSE DzSide[r]
  BY <1>2, <1>3
<1>7. /\ Append(PubSide, j) \in Seq(Trades) /\ Len(Append(PubSide, j)) = Len(races) + 1
      /\ \A r \in 1..(Len(races) + 1) :
           Append(PubSide, j)[r] = IF r = Len(races) + 1 THEN j ELSE PubSide[r]
  BY <1>2, <1>3
<1>8. DzSide' = Append(DzSide, i)
  BY <1>4, <1>5, <1>6, SeqEqual
<1>9. PubSide' = Append(PubSide, j)
  BY <1>4, <1>5, <1>7, SeqEqual
<1>10. QED BY <1>8, <1>9

LEMMA OnceTypes ==
  ASSUME RaceInv
  PROVE  /\ dz \in Maps /\ pub \in Maps /\ DzSide \in Seq(Trades) /\ PubSide \in Seq(Trades)
         /\ dzHand \in MaybeHalf /\ pubHand \in MaybeHalf /\ NoHalf \in MaybeHalf
         /\ Len(races) \in Nat /\ DOMAIN races = 1..Len(races)
         /\ Len(DzSide) = Len(races) /\ Len(PubSide) = Len(races)
<1>1. races \in Seq([dz : Trades, pub : Trades])
  BY DEF RaceInv, TypeOK
<1>2. QED BY <1>1, SideFacts DEF RaceInv, TypeOK, Maps, DzSide, PubSide, MaybeHalf

LEMMA OnceInit == Init => OnceInv
<1>1. SUFFICES ASSUME Init PROVE OnceInv
  OBVIOUS
<1>2. RaceInv
  BY <1>1, RaceInvInit
<1>3. races = <<>> /\ Len(DzSide) = 0 /\ Len(PubSide) = 0
  BY <1>1, <1>2, OnceTypes DEF Init
<1>4. QED BY <1>1, <1>2, <1>3 DEF Init, OnceInv, Once

\* A match takes the reader's half and the one that waited.
LEMMA OnceAddDz ==
  ASSUME OnceInv, AddDz
  PROVE  Once(dzHand', dzSent', dz', DzSide') /\ Once(pubHand', pubSent', pub', PubSide')
<1> DEFINE k == KeyOf[dzHand.of]
<1>1. /\ dzHand \in Half /\ dzHand # NoHalf /\ k \in Keys /\ dzHand.of \in Trades
      /\ OfferDz(k, dzHand) /\ dzHand' = NoHalf /\ UNCHANGED <<dzSent, pubSent, pubHand>>
      /\ dz \in Maps /\ pub \in Maps /\ DzSide \in Seq(Trades) /\ PubSide \in Seq(Trades)
  BY OnceTypes, HalfFacts DEF AddDz, OnceInv, feeds
<1>2. Once(dzHand, dzSent, dz, DzSide) /\ Once(pubHand, pubSent, pub, PubSide)
  BY DEF OnceInv
<1>3. CASE pub[k] # NoHalf /\ pub' = [pub EXCEPT ![k] = NoHalf] /\ Record(dzHand, pub[k]) /\ UNCHANGED dz
  <2>1. pub[k].of \in Trades
    BY <1>1, <1>3, HalfFacts DEF Maps
  <2>2. races' = Append(races, [dz |-> dzHand.of, pub |-> pub[k].of])
    BY <1>3 DEF Record
  <2>3. DzSide' = Append(DzSide, dzHand.of) /\ PubSide' = Append(PubSide, pub[k].of)
    BY <1>1, <2>1, <2>2, SidesGrow DEF OnceInv
  <2>4. Once(NoHalf, dzSent, dz, Append(DzSide, dzHand.of))
    BY <1>1, <1>2, OnceHandMatched
  <2>5. Once(pubHand, pubSent, [pub EXCEPT ![k] = NoHalf], Append(PubSide, pub[k].of))
    BY <1>1, <1>2, <1>3, OnceWaiterMatched
  <2>6. QED BY <1>1, <1>3, <2>3, <2>4, <2>5
<1>4. CASE pub[k] = NoHalf /\ dz' = [dz EXCEPT ![k] = dzHand] /\ UNCHANGED <<pub, samples>>
  <2>1. DzSide' = DzSide /\ PubSide' = PubSide
    BY <1>4 DEF DzSide, PubSide, samples
  <2>2. Once(NoHalf, dzSent, [dz EXCEPT ![k] = dzHand], DzSide)
    BY <1>1, <1>2, OnceWaiting
  <2>3. QED BY <1>1, <1>2, <1>4, <2>1, <2>2
<1>5. QED BY <1>1, <1>3, <1>4 DEF OfferDz

LEMMA OnceAddPub ==
  ASSUME OnceInv, AddPub
  PROVE  Once(dzHand', dzSent', dz', DzSide') /\ Once(pubHand', pubSent', pub', PubSide')
<1> DEFINE k == KeyOf[pubHand.of]
<1>1. /\ pubHand \in Half /\ pubHand # NoHalf /\ k \in Keys /\ pubHand.of \in Trades
      /\ OfferPub(k, pubHand) /\ pubHand' = NoHalf /\ UNCHANGED <<dzSent, pubSent, dzHand>>
      /\ dz \in Maps /\ pub \in Maps /\ DzSide \in Seq(Trades) /\ PubSide \in Seq(Trades)
  BY OnceTypes, HalfFacts DEF AddPub, OnceInv, feeds
<1>2. Once(dzHand, dzSent, dz, DzSide) /\ Once(pubHand, pubSent, pub, PubSide)
  BY DEF OnceInv
<1>3. CASE dz[k] # NoHalf /\ dz' = [dz EXCEPT ![k] = NoHalf] /\ Record(dz[k], pubHand) /\ UNCHANGED pub
  <2>1. dz[k].of \in Trades
    BY <1>1, <1>3, HalfFacts DEF Maps
  <2>2. races' = Append(races, [dz |-> dz[k].of, pub |-> pubHand.of])
    BY <1>3 DEF Record
  <2>3. DzSide' = Append(DzSide, dz[k].of) /\ PubSide' = Append(PubSide, pubHand.of)
    BY <1>1, <2>1, <2>2, SidesGrow DEF OnceInv
  <2>4. Once(NoHalf, pubSent, pub, Append(PubSide, pubHand.of))
    BY <1>1, <1>2, OnceHandMatched
  <2>5. Once(dzHand, dzSent, [dz EXCEPT ![k] = NoHalf], Append(DzSide, dz[k].of))
    BY <1>1, <1>2, <1>3, OnceWaiterMatched
  <2>6. QED BY <1>1, <1>3, <2>3, <2>4, <2>5
<1>4. CASE dz[k] = NoHalf /\ pub' = [pub EXCEPT ![k] = pubHand] /\ UNCHANGED <<dz, samples>>
  <2>1. DzSide' = DzSide /\ PubSide' = PubSide
    BY <1>4 DEF DzSide, PubSide, samples
  <2>2. Once(NoHalf, pubSent, [pub EXCEPT ![k] = pubHand], PubSide)
    BY <1>1, <1>2, OnceWaiting
  <2>3. QED BY <1>1, <1>2, <1>4, <2>1, <2>2
<1>5. QED BY <1>1, <1>3, <1>4 DEF OfferPub

LEMMA OnceHands ==
  ASSUME OnceInv, \/ \E i \in Trades : DzStamp(i) \/ PubStamp(i)
                  \/ DzSkip \/ PubSkip
  PROVE  Once(dzHand', dzSent', dz', DzSide') /\ Once(pubHand', pubSent', pub', PubSide')
<1>1. /\ dz \in Maps /\ pub \in Maps /\ DzSide \in Seq(Trades) /\ PubSide \in Seq(Trades)
      /\ Once(dzHand, dzSent, dz, DzSide) /\ Once(pubHand, pubSent, pub, PubSide)
  BY OnceTypes DEF OnceInv
<1>2. \A i \in Trades : Stamp(i) \in Half /\ Stamp(i).of = i
  BY StampIsHalf DEF OnceInv, RaceInv, Stamp
<1>3. UNCHANGED <<dz, pub, races>>
  BY DEF DzStamp, PubStamp, DzSkip, PubSkip
<1>4. DzSide' = DzSide /\ PubSide' = PubSide
  BY <1>3 DEF DzSide, PubSide
<1>5. ASSUME NEW i \in Trades, DzStamp(i)
      PROVE  Once(dzHand', dzSent', dz, DzSide) /\ UNCHANGED <<pubHand, pubSent>>
  <2>1. dzHand = NoHalf /\ i \notin dzSent /\ dzHand' = Stamp(i) /\ dzSent' = dzSent \cup {i}
        /\ UNCHANGED <<pubHand, pubSent>>
    BY <1>5 DEF DzStamp
  <2>2. Once(Stamp(i), dzSent \cup {Stamp(i).of}, dz, DzSide)
    BY <1>1, <1>2, <2>1, OnceStamped
  <2>3. QED BY <1>2, <2>1, <2>2
<1>6. ASSUME NEW i \in Trades, PubStamp(i)
      PROVE  Once(pubHand', pubSent', pub, PubSide) /\ UNCHANGED <<dzHand, dzSent>>
  <2>1. pubHand = NoHalf /\ i \notin pubSent /\ pubHand' = Stamp(i) /\ pubSent' = pubSent \cup {i}
        /\ UNCHANGED <<dzHand, dzSent>>
    BY <1>6 DEF PubStamp
  <2>2. Once(Stamp(i), pubSent \cup {Stamp(i).of}, pub, PubSide)
    BY <1>1, <1>2, <2>1, OnceStamped
  <2>3. QED BY <1>2, <2>1, <2>2
<1>7. CASE DzSkip \/ PubSkip
  BY <1>1, <1>3, <1>4, <1>7, OnceDropped DEF DzSkip, PubSkip, feeds
<1>8. QED BY <1>1, <1>3, <1>4, <1>5, <1>6, <1>7

LEMMA OnceStep == OnceInv /\ [Next]_vars => OnceInv'
<1>1. SUFFICES ASSUME OnceInv, [Next]_vars
               PROVE  Once(dzHand', dzSent', dz', DzSide') /\ Once(pubHand', pubSent', pub', PubSide')
  BY RaceStepKeepsInv DEF OnceInv
<1>2. CASE UNCHANGED <<dzHand, pubHand, dzSent, pubSent, dz, pub, races>>
  BY <1>1, <1>2 DEF OnceInv, DzSide, PubSide
<1>3. CASE FlushSwap
  <2>1. /\ dz \in Maps /\ pub \in Maps /\ DzSide \in Seq(Trades) /\ PubSide \in Seq(Trades)
        /\ Once(dzHand, dzSent, dz, DzSide) /\ Once(pubHand, pubSent, pub, PubSide)
        /\ NoHalf \in MaybeHalf
    BY <1>1, OnceTypes DEF OnceInv
  <2>2. UNCHANGED <<dzHand, pubHand, dzSent, pubSent, races>> /\ DzSide' = DzSide /\ PubSide' = PubSide
        /\ dz' = Expired(dz, flush.now) /\ pub' = Expired(pub, flush.now)
    BY <1>3 DEF FlushSwap, feeds, DzSide, PubSide
  <2>3. /\ dz' \in Maps /\ \A k \in Keys : dz'[k] = dz[k] \/ dz'[k] = NoHalf
        /\ pub' \in Maps /\ \A k \in Keys : pub'[k] = pub[k] \/ pub'[k] = NoHalf
    BY <2>1, <2>2 DEF Expired, Maps
  <2>4. QED BY <2>1, <2>2, <2>3, OnceExpired
<1>4. CASE Tick \/ (\E s \in Steps : SetWall(s)) \/ DzLearn \/ FlushStart \/ FlushPublish \/ UNCHANGED vars
  BY <1>2, <1>4 DEF Tick, SetWall, DzLearn, FlushStart, FlushPublish, feeds, vars
<1>5. QED BY <1>1, <1>3, <1>4, OnceAddDz, OnceAddPub, OnceHands DEF Next

\* No trade is matched twice, whatever keys trades share and whichever thread gets the
\* lock first (the pops of add_dz and add_pub).
THEOREM NoTradeMatchedTwice == Spec => []MatchedAtMostOnce
<1>1. OnceInv => MatchedAtMostOnce
  <2>1. SUFFICES ASSUME OnceInv, NEW r \in DOMAIN races, NEW q \in DOMAIN races, r # q
                 PROVE  races[r].dz # races[q].dz /\ races[r].pub # races[q].pub
    BY DEF MatchedAtMostOnce
  <2>2. /\ DzSide[r] = races[r].dz /\ DzSide[q] = races[q].dz
        /\ PubSide[r] = races[r].pub /\ PubSide[q] = races[q].pub
    BY DEF DzSide, PubSide
  <2>3. r \in 1..Len(DzSide) /\ q \in 1..Len(DzSide) /\ r \in 1..Len(PubSide) /\ q \in 1..Len(PubSide)
    BY <2>1, OnceTypes DEF OnceInv
  <2>4. QED BY <2>1, <2>2, <2>3 DEF OnceInv, Once
<1>2. QED BY OnceInit, OnceStep, <1>1, PTL DEF Spec

-----------------------------------------------------------------------------
(* Who is lost. *)

Alone(i) == \A j \in Trades \ {i} : KeyOf[j] # KeyOf[i]
Met(i)   == \E r \in DOMAIN races : races[r] = [dz |-> i, pub |-> i]

\* What can have become of trade i, added with the stamp `at` to a feed's map.
Fate(i, at, waiting) ==
  at # 0 =>
    \/ Met(i)
    \/ /\ waiting[KeyOf[i]] # NoHalf
       /\ waiting[KeyOf[i]].of = i /\ waiting[KeyOf[i]].mono = at
    \/ mono - at > KeyTtl

FateInv ==
  /\ OrderInv /\ OnceInv
  /\ \A i \in Trades : Alone(i) => Fate(i, dzAt[i], dz) /\ Fate(i, pubAt[i], pub)

LEMMA FateTypes ==
  ASSUME RaceInv
  PROVE  /\ mono \in Nat /\ KeyTtl \in Nat /\ flush.now \in Nat
         /\ dzAt \in [Trades -> Nat] /\ pubAt \in [Trades -> Nat]
         /\ \A i \in Trades : KeyOf[i] \in Keys
         /\ dz \in Maps /\ pub \in Maps
  BY SeriesTypes, LimitAssumption DEF RaceInv, TypeOK, Maps, Keys

LEMMA MetForGood ==
  ASSUME RaceInv, NEW i, Met(i),
         \/ UNCHANGED races
         \/ \E e \in [dz : Trades, pub : Trades] : races' = Append(races, e)
  PROVE  Met(i)'
<1>1. races \in Seq([dz : Trades, pub : Trades])
  BY DEF RaceInv, TypeOK
<1>2. PICK r \in DOMAIN races : races[r] = [dz |-> i, pub |-> i]
  BY DEF Met
<1>3. CASE UNCHANGED races
  BY <1>2, <1>3 DEF Met
<1>4. CASE \E e \in [dz : Trades, pub : Trades] : races' = Append(races, e)
  <2>1. PICK e \in [dz : Trades, pub : Trades] : races' = Append(races, e)
    BY <1>4
  <2>2. r \in DOMAIN races' /\ races'[r] = races[r]
    BY <1>1, <1>2, <2>1
  <2>3. QED BY <1>2, <2>2 DEF Met
<1>5. QED BY <1>3, <1>4

LEMMA MetNow ==
  ASSUME RaceInv, NEW i \in Trades, races' = Append(races, [dz |-> i, pub |-> i])
  PROVE  Met(i)'
<1>1. races \in Seq([dz : Trades, pub : Trades]) /\ [dz |-> i, pub |-> i] \in [dz : Trades, pub : Trades]
  BY DEF RaceInv, TypeOK
<1>2. Len(races) + 1 \in DOMAIN races' /\ races'[Len(races) + 1] = [dz |-> i, pub |-> i]
  BY <1>1
<1>3. QED BY <1>2 DEF Met

LEMMA StillOlder ==
  ASSUME NEW a \in Nat, NEW now \in Nat, NEW later \in Nat, NEW ttl \in Nat, now <= later,
         now - a > ttl
  PROVE  later - a > ttl
  OBVIOUS

\* A trade whose half is left where it was meets the same fate later.
LEMMA FateLater ==
  ASSUME RaceInv, [Next]_vars, NEW i \in Trades, NEW at \in Nat, NEW waiting, Fate(i, at, waiting),
         NEW later, later[KeyOf[i]] = waiting[KeyOf[i]],
         \/ UNCHANGED races
         \/ \E e \in [dz : Trades, pub : Trades] : races' = Append(races, e)
  PROVE  at # 0 =>
           \/ Met(i)'
           \/ /\ later[KeyOf[i]] # NoHalf
              /\ later[KeyOf[i]].of = i /\ later[KeyOf[i]].mono = at
           \/ mono' - at > KeyTtl
<1>1. mono \in Nat /\ mono' \in Nat /\ mono <= mono' /\ KeyTtl \in Nat
  BY ClockFacts, FateTypes
<1>2. mono - at > KeyTtl => mono' - at > KeyTtl
  <2>1. at \in Nat
    OBVIOUS
  <2>2. QED BY <1>1, <2>1, StillOlder
<1>3. QED BY <1>2, MetForGood DEF Fate

LEMMA FateInit == Init => FateInv
<1>1. SUFFICES ASSUME Init PROVE FateInv
  OBVIOUS
<1>2. \A i \in Trades : dzAt[i] = 0 /\ pubAt[i] = 0
  BY <1>1 DEF Init
<1>3. QED BY <1>1, <1>2, OrderInit, OnceInit DEF FateInv, Fate

LEMMA FateAddDz ==
  ASSUME FateInv, [Next]_vars, AddDz, NEW i \in Trades, Alone(i)
  PROVE  Fate(i, dzAt[i], dz)' /\ Fate(i, pubAt[i], pub)'
<1> DEFINE a == dzHand.of
           k == KeyOf[a]
<1>1. /\ RaceInv /\ OnceInv /\ a \in Trades /\ k \in Keys /\ dzHand \in Half
      /\ OfferDz(k, dzHand) /\ dzAt' = [dzAt EXCEPT ![a] = dzHand.mono] /\ pubAt' = pubAt
  BY OnceTypes, HalfFacts DEF AddDz, FateInv, OnceInv
<1>2. /\ dz \in Maps /\ pub \in Maps /\ KeyOf[i] \in Keys /\ dzAt \in [Trades -> Nat]
      /\ pubAt \in [Trades -> Nat] /\ dzHand.mono \in Nat
      /\ Fate(i, dzAt[i], dz) /\ Fate(i, pubAt[i], pub)
  BY <1>1, FateTypes DEF FateInv, Half
<1>3. i # a => KeyOf[i] # k
  BY <1>1 DEF Alone
<1>4. CASE pub[k] # NoHalf /\ pub' = [pub EXCEPT ![k] = NoHalf] /\ Record(dzHand, pub[k]) /\ UNCHANGED dz
  <2>1. pub[k].of \in Trades /\ KeyOf[pub[k].of] = k
    BY <1>1, <1>2, <1>4, HalfFacts DEF Maps, OnceInv, Once
  <2>2. races' = Append(races, [dz |-> a, pub |-> pub[k].of])
    BY <1>4 DEF Record
  <2>3. CASE i = a
    <3>1. pub[k].of = i
      BY <2>1, <2>3 DEF Alone
    <3>2. Met(i)'
      BY <1>1, <2>2, <2>3, <3>1, MetNow
    <3>3. QED BY <3>2 DEF Fate
  <2>4. CASE i # a
    <3>1. /\ dz'[KeyOf[i]] = dz[KeyOf[i]] /\ pub'[KeyOf[i]] = pub[KeyOf[i]]
          /\ dzAt'[i] = dzAt[i] /\ pubAt'[i] = pubAt[i]
      BY <1>1, <1>2, <1>3, <1>4, <2>4 DEF Maps
    <3>2. \E e \in [dz : Trades, pub : Trades] : races' = Append(races, e)
      BY <1>1, <2>1, <2>2
    <3>3. dzAt[i] \in Nat /\ pubAt[i] \in Nat
      BY <1>2
    <3>4. Fate(i, dzAt[i], dz)'
      BY <1>1, <1>2, <3>1, <3>2, <3>3, FateLater DEF Fate
    <3>5. Fate(i, pubAt[i], pub)'
      BY <1>1, <1>2, <3>1, <3>2, <3>3, FateLater DEF Fate
    <3>6. QED BY <3>4, <3>5
  <2>5. QED BY <2>3, <2>4
<1>5. CASE pub[k] = NoHalf /\ dz' = [dz EXCEPT ![k] = dzHand] /\ UNCHANGED <<pub, samples>>
  <2>1. UNCHANGED races /\ pub' = pub /\ pubAt'[i] = pubAt[i] /\ pubAt[i] \in Nat /\ dzAt[i] \in Nat
    BY <1>1, <1>2, <1>5 DEF samples
  <2>2. Fate(i, pubAt[i], pub)'
    BY <1>1, <1>2, <2>1, FateLater DEF Fate
  <2>3. Fate(i, dzAt[i], dz)'
    <3>1. CASE i = a
      <4>1. dz'[KeyOf[i]] = dzHand /\ dzAt'[i] = dzHand.mono /\ dzHand.of = i /\ dzHand # NoHalf
        BY <1>1, <1>2, <1>5, <3>1 DEF Maps, AddDz
      <4>2. QED BY <4>1 DEF Fate
    <3>2. CASE i # a
      <4>1. dz'[KeyOf[i]] = dz[KeyOf[i]] /\ dzAt'[i] = dzAt[i]
        BY <1>1, <1>2, <1>3, <1>5, <3>2 DEF Maps
      <4>2. QED BY <1>1, <1>2, <2>1, <4>1, FateLater DEF Fate
    <3>3. QED BY <3>1, <3>2
  <2>4. QED BY <2>2, <2>3
<1>6. QED BY <1>1, <1>4, <1>5 DEF OfferDz

LEMMA FateAddPub ==
  ASSUME FateInv, [Next]_vars, AddPub, NEW i \in Trades, Alone(i)
  PROVE  Fate(i, dzAt[i], dz)' /\ Fate(i, pubAt[i], pub)'
<1> DEFINE a == pubHand.of
           k == KeyOf[a]
<1>1. /\ RaceInv /\ OnceInv /\ a \in Trades /\ k \in Keys /\ pubHand \in Half
      /\ OfferPub(k, pubHand) /\ pubAt' = [pubAt EXCEPT ![a] = pubHand.mono] /\ dzAt' = dzAt
  BY OnceTypes, HalfFacts DEF AddPub, FateInv, OnceInv
<1>2. /\ dz \in Maps /\ pub \in Maps /\ KeyOf[i] \in Keys /\ dzAt \in [Trades -> Nat]
      /\ pubAt \in [Trades -> Nat] /\ pubHand.mono \in Nat
      /\ Fate(i, dzAt[i], dz) /\ Fate(i, pubAt[i], pub)
  BY <1>1, FateTypes DEF FateInv, Half
<1>3. i # a => KeyOf[i] # k
  BY <1>1 DEF Alone
<1>4. CASE dz[k] # NoHalf /\ dz' = [dz EXCEPT ![k] = NoHalf] /\ Record(dz[k], pubHand) /\ UNCHANGED pub
  <2>1. dz[k].of \in Trades /\ KeyOf[dz[k].of] = k
    BY <1>1, <1>2, <1>4, HalfFacts DEF Maps, OnceInv, Once
  <2>2. races' = Append(races, [dz |-> dz[k].of, pub |-> a])
    BY <1>4 DEF Record
  <2>3. CASE i = a
    <3>1. dz[k].of = i
      BY <2>1, <2>3 DEF Alone
    <3>2. Met(i)'
      BY <1>1, <2>2, <2>3, <3>1, MetNow
    <3>3. QED BY <3>2 DEF Fate
  <2>4. CASE i # a
    <3>1. /\ dz'[KeyOf[i]] = dz[KeyOf[i]] /\ pub'[KeyOf[i]] = pub[KeyOf[i]]
          /\ dzAt'[i] = dzAt[i] /\ pubAt'[i] = pubAt[i]
      BY <1>1, <1>2, <1>3, <1>4, <2>4 DEF Maps
    <3>2. \E e \in [dz : Trades, pub : Trades] : races' = Append(races, e)
      BY <1>1, <2>1, <2>2
    <3>3. dzAt[i] \in Nat /\ pubAt[i] \in Nat
      BY <1>2
    <3>4. Fate(i, dzAt[i], dz)'
      BY <1>1, <1>2, <3>1, <3>2, <3>3, FateLater DEF Fate
    <3>5. Fate(i, pubAt[i], pub)'
      BY <1>1, <1>2, <3>1, <3>2, <3>3, FateLater DEF Fate
    <3>6. QED BY <3>4, <3>5
  <2>5. QED BY <2>3, <2>4
<1>5. CASE dz[k] = NoHalf /\ pub' = [pub EXCEPT ![k] = pubHand] /\ UNCHANGED <<dz, samples>>
  <2>1. UNCHANGED races /\ dz' = dz /\ dzAt'[i] = dzAt[i] /\ pubAt[i] \in Nat /\ dzAt[i] \in Nat
    BY <1>1, <1>2, <1>5 DEF samples
  <2>2. Fate(i, dzAt[i], dz)'
    BY <1>1, <1>2, <2>1, FateLater DEF Fate
  <2>3. Fate(i, pubAt[i], pub)'
    <3>1. CASE i = a
      <4>1. pub'[KeyOf[i]] = pubHand /\ pubAt'[i] = pubHand.mono /\ pubHand.of = i /\ pubHand # NoHalf
        BY <1>1, <1>2, <1>5, <3>1 DEF Maps, AddPub
      <4>2. QED BY <4>1 DEF Fate
    <3>2. CASE i # a
      <4>1. pub'[KeyOf[i]] = pub[KeyOf[i]] /\ pubAt'[i] = pubAt[i]
        BY <1>1, <1>2, <1>3, <1>5, <3>2 DEF Maps
      <4>2. QED BY <1>1, <1>2, <2>1, <4>1, FateLater DEF Fate
    <3>3. QED BY <3>1, <3>2
  <2>4. QED BY <2>2, <2>3
<1>6. QED BY <1>1, <1>4, <1>5 DEF OfferPub

\* The sweep removes only what is older than the TTL, for the flush read the clock before.
LEMMA FateSwept ==
  ASSUME FateInv, FlushSwap, NEW i \in Trades, NEW at \in Nat,
         NEW waiting \in Maps, Fate(i, at, waiting)
  PROVE  at # 0 =>
           \/ Met(i)
           \/ /\ Expired(waiting, flush.now)[KeyOf[i]] # NoHalf
              /\ Expired(waiting, flush.now)[KeyOf[i]].of = i
              /\ Expired(waiting, flush.now)[KeyOf[i]].mono = at
           \/ mono - at > KeyTtl
<1>1. /\ mono \in Nat /\ KeyTtl \in Nat /\ flush.now \in Nat /\ KeyOf[i] \in Keys
      /\ flush.now <= mono
  BY FateTypes DEF FateInv, OrderInv, FlushSwap
<1>2. Expired(waiting, flush.now)[KeyOf[i]] =
        IF waiting[KeyOf[i]] # NoHalf /\ waiting[KeyOf[i]].mono < flush.now - KeyTtl
        THEN NoHalf ELSE waiting[KeyOf[i]]
  BY <1>1 DEF Expired
<1>3. at < flush.now - KeyTtl => mono - at > KeyTtl
  BY <1>1
<1>4. QED BY <1>2, <1>3 DEF Fate

LEMMA FateStep == FateInv /\ [Next]_vars => FateInv'
<1>1. SUFFICES ASSUME FateInv, [Next]_vars, NEW i \in Trades, Alone(i)
               PROVE  Fate(i, dzAt[i], dz)' /\ Fate(i, pubAt[i], pub)'
  BY OrderStep, OnceStep DEF FateInv, Alone
<1>2. /\ RaceInv /\ dzAt[i] \in Nat /\ pubAt[i] \in Nat /\ dz \in Maps /\ pub \in Maps
      /\ Fate(i, dzAt[i], dz) /\ Fate(i, pubAt[i], pub)
  BY <1>1, FateTypes DEF FateInv, OnceInv
<1>3. CASE UNCHANGED <<dz, pub, races, dzAt, pubAt>>
  <2>1. Fate(i, dzAt[i], dz)'
    BY <1>1, <1>2, <1>3, FateLater DEF Fate
  <2>2. Fate(i, pubAt[i], pub)'
    BY <1>1, <1>2, <1>3, FateLater DEF Fate
  <2>3. QED BY <2>1, <2>2
<1>4. CASE FlushSwap
  <2>1. /\ UNCHANGED <<mono, races, dzAt, pubAt>>
        /\ dz' = Expired(dz, flush.now) /\ pub' = Expired(pub, flush.now)
    BY <1>4 DEF FlushSwap, clocks
  <2>2. Fate(i, dzAt[i], dz)'
    BY <1>1, <1>2, <1>4, <2>1, FateSwept DEF Fate, Met
  <2>3. Fate(i, pubAt[i], pub)'
    BY <1>1, <1>2, <1>4, <2>1, FateSwept DEF Fate, Met
  <2>4. QED BY <2>2, <2>3
<1>5. CASE \/ Tick \/ (\E s \in Steps : SetWall(s)) \/ \E j \in Trades : DzStamp(j) \/ PubStamp(j)
           \/ DzLearn \/ DzSkip \/ PubSkip \/ FlushStart \/ FlushPublish \/ UNCHANGED vars
  BY <1>3, <1>5
  DEF Tick, SetWall, DzStamp, PubStamp, DzLearn, DzSkip, PubSkip, FlushStart, FlushPublish, vars
<1>6. QED BY <1>1, <1>4, <1>5, FateAddDz, FateAddPub DEF Next

\* A trade that shares its key with no other and was added on both feeds is matched with
\* itself, unless one half was older than the TTL (_expire_pending): no order of the
\* threads, the sweep and the clock loses it sooner.
THEOREM OnlyTheTtlLoses == Spec => []LostOnlyToTtl
<1>1. FateInv => LostOnlyToTtl
  <2>1. SUFFICES ASSUME FateInv, NEW i \in Trades, dzAt[i] # 0, pubAt[i] # 0,
                        \A j \in Trades \ {i} : KeyOf[j] # KeyOf[i]
                 PROVE  \/ \E r \in DOMAIN races : races[r] = [dz |-> i, pub |-> i]
                        \/ mono - dzAt[i] > KeyTtl \/ mono - pubAt[i] > KeyTtl
    BY DEF LostOnlyToTtl
  <2>2. Fate(i, dzAt[i], dz) /\ Fate(i, pubAt[i], pub)
    BY <2>1 DEF FateInv, Alone
  <2>3. dz[KeyOf[i]] = NoHalf \/ pub[KeyOf[i]] = NoHalf
    BY <2>1, FateTypes DEF FateInv, OnceInv, RaceInv, NeverBothWaiting
  <2>4. QED BY <2>1, <2>2, <2>3 DEF Fate, Met
<1>2. QED BY FateInit, FateStep, <1>1, PTL DEF Spec
=============================================================================
