--------------------------- MODULE DataInduction ---------------------------
(***************************************************************************)
(* Lemmas about data the proofs of several components rest on: extrema,    *)
(* induction over the naturals, and with it what folds and sums compute.   *)
(*                                                                         *)
(* The induction theorems of the library take the formula as an operator   *)
(* parameter.  Here it is a set of naturals, {n \in Nat : P(n)}, and the   *)
(* step of a fold is a function, so that no lemma has such a parameter.    *)
(***************************************************************************)
EXTENDS Integers, Sequences, SequencesExt, FiniteSetTheorems, WellFoundedInduction, TLAPS

-----------------------------------------------------------------------------
(* Maxima and minima. *)

\* A set of naturals has a least element.
LEMMA LeastNatural ==
  ASSUME NEW T \in SUBSET Nat, T # {}
  PROVE  \E x \in T : \A y \in T : x <= y
<1>1. PICK x \in T : \A y \in T : ~(<<y, x>> \in OpToRel(<, Nat))
  BY NatLessThanWellFounded, WFMin
<1>2. \A y \in T : ~(y < x)
  BY <1>1 DEF OpToRel
<1>3. QED BY <1>2

LEMMA MaxOfFinite ==
  ASSUME NEW S \in SUBSET Nat, IsFiniteSet(S), S # {}
  PROVE  Max(S) \in S /\ \A y \in S : Max(S) >= y
<1> DEFINE Above(x) == {y \in S : y > x}
           N == {Cardinality(Above(x)) : x \in S}
<1>1. \A x \in S : IsFiniteSet(Above(x)) /\ Cardinality(Above(x)) \in Nat
  BY FS_Subset, FS_CardinalityType
<1>2. PICK x \in S : \A z \in S : Cardinality(Above(x)) <= Cardinality(Above(z))
  <2>1. N \in SUBSET Nat /\ N # {}
    BY <1>1
  <2>2. PICK n \in N : \A m \in N : n <= m
    BY <2>1, LeastNatural
  <2>3. QED BY <2>2
<1>3. \A y \in S : x >= y
  <2>1. SUFFICES ASSUME NEW y \in S, y > x PROVE FALSE
    OBVIOUS
  <2>2. Above(y) \in SUBSET Above(x) /\ y \in Above(x) /\ y \notin Above(y)
    <3>1. x \in Nat /\ y \in Nat /\ y > x
      BY <2>1
    <3>2. \A z \in S : z > y => z > x
      BY <3>1
    <3>3. y \in Above(x) /\ ~(y > y)
      BY <3>1
    <3>4. QED BY <3>2, <3>3
  <2>3. Cardinality(Above(y)) <= Cardinality(Above(x)) /\ Cardinality(Above(x)) # Cardinality(Above(y))
    BY <1>1, <2>2, FS_Subset
  <2>4. QED BY <1>1, <1>2, <2>3
<1>4. QED BY <1>3 DEF Max

LEMMA LeastIsMin ==
  ASSUME NEW S \in SUBSET Nat, S # {}
  PROVE  Min(S) \in S
  BY LeastNatural DEF Min

LEMMA MaxOfTwo ==
  ASSUME NEW a \in Int, NEW b \in Int
  PROVE  Max({a, b}) = IF a >= b THEN a ELSE b
<1>1. CASE a >= b
  <2>1. a \in {a, b} /\ \A y \in {a, b} : a >= y
    BY <1>1
  <2>2. \A x \in {a, b} : (\A y \in {a, b} : x >= y) => x = a
    BY <1>1
  <2>3. QED BY <1>1, <2>1, <2>2 DEF Max
<1>2. CASE ~(a >= b)
  <2>1. b \in {a, b} /\ \A y \in {a, b} : b >= y
    BY <1>2
  <2>2. \A x \in {a, b} : (\A y \in {a, b} : x >= y) => x = b
    BY <1>2
  <2>3. QED BY <1>2, <2>1, <2>2 DEF Max
<1>3. QED BY <1>1, <1>2

LEMMA MinOfTwo ==
  ASSUME NEW a \in Int, NEW b \in Int
  PROVE  Min({a, b}) = IF a <= b THEN a ELSE b
<1>1. CASE a <= b
  <2>1. a \in {a, b} /\ \A y \in {a, b} : a <= y
    BY <1>1
  <2>2. \A x \in {a, b} : (\A y \in {a, b} : x <= y) => x = a
    BY <1>1
  <2>3. QED BY <1>1, <2>1, <2>2 DEF Min
<1>2. CASE ~(a <= b)
  <2>1. b \in {a, b} /\ \A y \in {a, b} : b <= y
    BY <1>2
  <2>2. \A x \in {a, b} : (\A y \in {a, b} : x <= y) => x = b
    BY <1>2
  <2>3. QED BY <1>2, <2>1, <2>2 DEF Min
<1>3. QED BY <1>1, <1>2

-----------------------------------------------------------------------------
(* Induction. *)

\* What holds of 0 and of n + 1 whenever of n holds of every natural number.
LEMMA Induct ==
  ASSUME NEW S \in SUBSET Nat, 0 \in S, \A n \in S : n + 1 \in S
  PROVE  S = Nat
<1> SUFFICES ASSUME S # Nat PROVE FALSE
  OBVIOUS
<1> DEFINE T == Nat \ S
<1>1. T \in SUBSET Nat /\ T # {}
  OBVIOUS
<1>2. PICK m \in T : \A n \in T : m <= n
  <2> HIDE DEF T
  <2> QED BY <1>1, LeastNatural
<1>3. m \in Nat /\ m # 0 /\ m - 1 \in Nat
  OBVIOUS
<1>4. m - 1 \in S
  BY <1>2, <1>3
<1> QED BY <1>3, <1>4

\* The same up to a limit.
LEMMA InductTo ==
  ASSUME NEW L \in Nat, NEW S, 0 \in S, \A n \in 0..(L - 1) : n \in S => n + 1 \in S
  PROVE  0..L \subseteq S
<1> DEFINE Good == {n \in Nat : n <= L => n \in S}
<1>1. Good \in SUBSET Nat /\ 0 \in Good
  OBVIOUS
<1>2. \A n \in Good : n + 1 \in Good
  OBVIOUS
<1>3. Good = Nat
  <2> HIDE DEF Good
  <2> QED BY <1>1, <1>2, Induct
<1> QED BY <1>3

\* Downwards from a limit.
LEMMA InductDown ==
  ASSUME NEW L \in Nat, NEW S, L \in S, \A n \in 1..L : n \in S => n - 1 \in S
  PROVE  0..L \subseteq S
<1> DEFINE Up == {n \in 0..L : L - n \in S}
<1>1. 0 \in Up
  OBVIOUS
<1>2. ASSUME NEW n \in 0..(L - 1), n \in Up PROVE n + 1 \in Up
  <2>1. L - n \in 1..L /\ L - n \in S /\ (L - n) - 1 = L - (n + 1)
    BY <1>2
  <2> QED BY <1>2, <2>1
<1>3. 0..L \subseteq Up
  <2> HIDE DEF Up
  <2> QED BY <1>1, <1>2, InductTo
<1>4. ASSUME NEW n \in 0..L PROVE n \in S
  <2>1. L - n \in 0..L /\ L - (L - n) = n
    OBVIOUS
  <2> QED BY <1>3, <2>1
<1> QED BY <1>4
-----------------------------------------------------------------------------
(* Folds. *)

\* Which element is taken out first, and what it is to go through all of them so.
Takes(take, D) == \A u \in SUBSET D : u # {} => take[u] \in u

Runs(it, D, take, base, st) ==
  \A u \in SUBSET D : it[u] = IF u = {} THEN base ELSE st[<<it[u \ {take[u]}], take[u]>>]

\* A recursion that takes one element out of a finite set after the other has a solution
\* with values in T, whatever element `take` says comes first.
LEMMA TakeOut ==
  ASSUME NEW D, IsFiniteSet(D), NEW T, NEW base \in T,
         NEW take, Takes(take, D), NEW st \in [T \X D -> T]
  PROVE  \E it \in [SUBSET D -> T] : Runs(it, D, take, base, st)
<1> DEFINE Upto(k) == {u \in SUBSET D : Cardinality(u) <= k}
           Next(it, u) == IF u = {} THEN base ELSE st[<<it[u \ {take[u]}], take[u]>>]
           Ok == {k \in Nat : \E it \in [Upto(k) -> T] : \A u \in Upto(k) : it[u] = Next(it, u)}
<1>1. \A u \in SUBSET D : IsFiniteSet(u) /\ Cardinality(u) \in Nat
  BY FS_Subset, FS_CardinalityType
<1>2. \A u \in SUBSET D : u # {} =>
        /\ take[u] \in u /\ take[u] \in D /\ u \ {take[u]} \in SUBSET D
        /\ Cardinality(u \ {take[u]}) = Cardinality(u) - 1
  BY <1>1, FS_RemoveElement DEF Takes
<1>3. 0 \in Ok
  <2>1. \A u \in Upto(0) : u = {}
    BY <1>1, FS_EmptySet
  <2>2. [u \in Upto(0) |-> base] \in [Upto(0) -> T]
    OBVIOUS
  <2>3. \A u \in Upto(0) : [v \in Upto(0) |-> base][u] = Next([v \in Upto(0) |-> base], u)
    BY <2>1
  <2> QED BY <2>2, <2>3
<1>4. ASSUME NEW k \in Ok PROVE k + 1 \in Ok
  <2>1. k \in Nat /\ k + 1 \in Nat
    OBVIOUS
  <2>2. PICK it \in [Upto(k) -> T] : \A u \in Upto(k) : it[u] = Next(it, u)
    OBVIOUS
  <2> DEFINE more == [u \in Upto(k + 1) |-> Next(it, u)]
  <2>3. ASSUME NEW u \in Upto(k + 1), u # {}
        PROVE  u \ {take[u]} \in Upto(k) /\ take[u] \in D
    BY <1>1, <1>2, <2>1, <2>3
  <2>4. \A u \in Upto(k + 1) : Next(it, u) \in T
    <3> SUFFICES ASSUME NEW u \in Upto(k + 1), u # {} PROVE st[<<it[u \ {take[u]}], take[u]>>] \in T
      OBVIOUS
    <3>1. it[u \ {take[u]}] \in T /\ take[u] \in D
      BY <2>3
    <3> QED BY <3>1
  <2>5. \A u \in Upto(k) : u \in Upto(k + 1) /\ more[u] = it[u]
    BY <1>1, <2>1, <2>2
  <2>6. more \in [Upto(k + 1) -> T]
    BY <2>4
  <2>7. \A u \in Upto(k + 1) : more[u] = Next(more, u)
    <3> SUFFICES ASSUME NEW u \in Upto(k + 1) PROVE more[u] = Next(more, u)
      OBVIOUS
    <3>1. CASE u = {}
      BY <3>1
    <3>2. CASE u # {}
      <4>1. more[u \ {take[u]}] = it[u \ {take[u]}]
        BY <2>3, <2>5, <3>2
      <4> QED BY <4>1
    <3> QED BY <3>1, <3>2
  <2> HIDE DEF more
  <2> QED BY <2>1, <2>6, <2>7
<1>5. Cardinality(D) \in Ok
  <2>1. Ok = Nat
    <3>1. Ok \in SUBSET Nat
      OBVIOUS
    <3> HIDE DEF Ok
    <3> QED BY <1>3, <1>4, <3>1, Induct
  <2> HIDE DEF Ok
  <2> QED BY <1>1, <2>1
<1>6. Upto(Cardinality(D)) = SUBSET D
  BY <1>1, FS_Subset
<1>7. PICK it \in [SUBSET D -> T] : \A u \in SUBSET D : it[u] = Next(it, u)
  BY <1>5, <1>6
<1> QED BY <1>7 DEF Runs

LEMMA MaxOfPrefix ==
  ASSUME NEW L \in Nat, NEW u \in SUBSET (1..L), u # {}
  PROVE  Max(u) \in u
<1>1. IsFiniteSet(1..L)
  BY FS_Interval
<1>2. IsFiniteSet(u)
  BY <1>1, FS_Subset
<1>3. u \in SUBSET Nat
  OBVIOUS
<1> QED BY <1>2, <1>3, MaxOfFinite

\* The first n positions of a sequence, as FoldLeft takes them apart.
LEMMA PrefixFacts ==
  ASSUME NEW n \in Nat \ {0}
  PROVE  /\ 1..n # {} /\ Max(1..n) = n /\ (1..n) \ {Max(1..n)} = 1..(n - 1)
         /\ 1..0 = {} /\ 1..n \in SUBSET Nat
<1>1. IsFiniteSet(1..n) /\ 1..n \in SUBSET Nat /\ n \in 1..n
  BY FS_Interval
<1>2. Max(1..n) \in 1..n /\ \A y \in 1..n : Max(1..n) >= y
  BY <1>1, MaxOfFinite
<1>3. Max(1..n) = n
  BY <1>1, <1>2
<1> QED BY <1>1, <1>3

FoldsTo(it, L, base, st) ==
  it = [u \in SUBSET (1..L) |-> IF u = {} THEN base ELSE st[<<it[u \ {Max(u)}], Max(u)>>]]

Recurs(f, L, base, st) ==
  f = [n \in 0..L |-> IF n = 0 THEN base ELSE st[<<f[n - 1], n>>]]

\* A fold from the left has a solution with values in T: st takes the accumulator and
\* the position of the next element.
LEMMA FoldRuns ==
  ASSUME NEW L \in Nat, NEW T, NEW base \in T, NEW st \in [T \X (1..L) -> T]
  PROVE  \E it \in [SUBSET (1..L) -> T] : FoldsTo(it, L, base, st)
<1> DEFINE take == [u \in SUBSET (1..L) |-> Max(u)]
<1>1. IsFiniteSet(1..L) /\ \A u \in SUBSET (1..L) : IsFiniteSet(u) /\ u \in SUBSET Nat
  <2>1. IsFiniteSet(1..L)
    BY FS_Interval
  <2>2. \A u \in SUBSET (1..L) : IsFiniteSet(u)
    BY <2>1, FS_Subset
  <2> QED BY <2>1, <2>2
<1>2. \A u \in SUBSET (1..L) : take[u] = Max(u)
  OBVIOUS
<1> HIDE DEF take
<1>3. Takes(take, 1..L)
  BY <1>1, <1>2, MaxOfFinite DEF Takes
<1>4. PICK it \in [SUBSET (1..L) -> T] : Runs(it, 1..L, take, base, st)
  BY <1>1, <1>3, TakeOut
<1>5. it = [u \in SUBSET (1..L) |-> IF u = {} THEN base ELSE st[<<it[u \ {Max(u)}], Max(u)>>]]
  BY <1>2, <1>4 DEF Runs
<1> QED BY <1>5 DEF FoldsTo

\* So has a recursion over the numbers up to a limit.
LEMMA RecursionRuns ==
  ASSUME NEW L \in Nat, NEW T, NEW base \in T, NEW st \in [T \X (1..L) -> T]
  PROVE  \E f \in [0..L -> T] : Recurs(f, L, base, st)
<1>1. PICK it \in [SUBSET (1..L) -> T] : FoldsTo(it, L, base, st)
  BY FoldRuns
<1> DEFINE f == [n \in 0..L |-> it[1..n]]
<1>2. \A n \in 0..L : 1..n \in SUBSET (1..L)
  OBVIOUS
<1>3. f \in [0..L -> T] /\ \A n \in 0..L : f[n] = it[1..n]
  BY <1>2
<1>4. ASSUME NEW n \in 0..L PROVE f[n] = IF n = 0 THEN base ELSE st[<<f[n - 1], n>>]
  <2>1. CASE n = 0
    <3>1. 1..n = {} /\ {} \in SUBSET (1..L)
      BY <2>1
    <3> HIDE DEF f
    <3> QED BY <1>1, <1>3, <2>1, <3>1 DEF FoldsTo
  <2>2. CASE n # 0
    <3>1. n \in Nat \ {0} /\ n - 1 \in 0..L
      BY <2>2
    <3>2. 1..n # {} /\ Max(1..n) = n /\ (1..n) \ {Max(1..n)} = 1..(n - 1)
      BY <3>1, PrefixFacts
    <3> HIDE DEF f
    <3>3. it[1..n] = st[<<it[1..(n - 1)], n>>]
      BY <1>1, <1>2, <3>2 DEF FoldsTo
    <3> QED BY <1>3, <2>2, <3>1, <3>3
  <2> QED BY <2>1, <2>2
<1>5. f = [n \in 0..L |-> IF n = 0 THEN base ELSE st[<<f[n - 1], n>>]]
  <2> DEFINE g == [n \in 0..L |-> IF n = 0 THEN base ELSE st[<<f[n - 1], n>>]]
  <2>1. f = [n \in 0..L |-> f[n]]
    OBVIOUS
  <2> HIDE DEF f
  <2> QED BY <1>4, <2>1
<1> HIDE DEF f
<1> QED BY <1>3, <1>5 DEF Recurs

-----------------------------------------------------------------------------
(* Sums. *)

SumOver(f, S) == MapThenSumSet(LAMBDA c : f[c], S)

SumFrom(f, u, before) == IF u = {} THEN 0 ELSE f[CHOOSE x \in u : TRUE] + before[u \ {CHOOSE x \in u : TRUE}]

\* A sum is what its recursion says.
LEMMA SumRuns ==
  ASSUME NEW S, IsFiniteSet(S), NEW f \in [S -> Nat]
  PROVE  \E it \in [SUBSET S -> Nat] :
           /\ \A u \in SUBSET S : it[u] = SumFrom(f, u, it)
           /\ SumOver(f, S) = it[S]
<1> DEFINE take == [u \in SUBSET S |-> CHOOSE x \in u : TRUE]
           st == [q \in Nat \X S |-> f[q[2]] + q[1]]
           it == CHOOSE it : it = [u \in SUBSET S |->
                   IF u = {} THEN 0 ELSE f[CHOOSE x \in u : TRUE] + it[u \ {CHOOSE x \in u : TRUE}]]
<1>1. /\ Takes(take, S)
      /\ \A u \in SUBSET S : take[u] = CHOOSE x \in u : TRUE
  BY DEF Takes
<1>2. /\ st \in [Nat \X S -> Nat]
      /\ \A n \in Nat, x \in S : st[<<n, x>>] = f[x] + n
  OBVIOUS
<1>3. SumOver(f, S) = it[S]
  BY DEF SumOver, MapThenSumSet, MapThenFoldSet
<1> HIDE DEF take, st
<1>4. PICK sol \in [SUBSET S -> Nat] : Runs(sol, S, take, 0, st)
  <2>1. 0 \in Nat /\ Takes(take, S) /\ st \in [Nat \X S -> Nat]
    BY <1>1, <1>2
  <2> HIDE DEF it
  <2> QED BY <2>1, TakeOut
<1>5. ASSUME NEW u \in SUBSET S
      PROVE  sol[u] = IF u = {} THEN 0 ELSE f[CHOOSE x \in u : TRUE] + sol[u \ {CHOOSE x \in u : TRUE}]
  <2>1. CASE u = {}
    BY <1>4, <2>1 DEF Runs
  <2>2. CASE u # {}
    <3>1. take[u] \in S /\ sol[u \ {take[u]}] \in Nat
      BY <1>1, <2>2 DEF Takes
    <3>2. sol[u] = st[<<sol[u \ {take[u]}], take[u]>>]
      BY <1>4, <2>2 DEF Runs
    <3>3. sol[u] = f[take[u]] + sol[u \ {take[u]}]
      BY <1>2, <3>1, <3>2
    <3> QED BY <1>1, <2>2, <3>3
  <2> QED BY <2>1, <2>2
<1>6. sol = [u \in SUBSET S |-> IF u = {} THEN 0 ELSE f[CHOOSE x \in u : TRUE] + sol[u \ {CHOOSE x \in u : TRUE}]]
  BY <1>5
<1>7. it = [u \in SUBSET S |-> IF u = {} THEN 0 ELSE f[CHOOSE x \in u : TRUE] + it[u \ {CHOOSE x \in u : TRUE}]]
  BY <1>6
<1> HIDE DEF it
<1>8. \A u \in SUBSET S : it[u] = SumFrom(f, u, it)
  BY <1>7 DEF SumFrom
<1>9. \A u \in SUBSET S : it[u] = sol[u]
  <2> DEFINE Same == {n \in Nat : \A u \in SUBSET S : Cardinality(u) = n => it[u] = sol[u]}
  <2>1. \A u \in SUBSET S : IsFiniteSet(u) /\ Cardinality(u) \in Nat
    BY FS_Subset, FS_CardinalityType
  <2>2. 0 \in Same
    BY <1>5, <1>8, <2>1, FS_EmptySet DEF SumFrom
  <2>3. ASSUME NEW n \in Same PROVE n + 1 \in Same
    <3> SUFFICES ASSUME NEW u \in SUBSET S, Cardinality(u) = n + 1 PROVE it[u] = sol[u]
      OBVIOUS
    <3> DEFINE x == CHOOSE x \in u : TRUE
    <3>1. u # {} /\ x \in u
      <4>1. n \in Nat /\ Cardinality(u) # 0
        OBVIOUS
      <4>2. u # {}
        BY <4>1, FS_EmptySet
      <4> QED BY <4>2
    <3>2. u \ {x} \in SUBSET S /\ Cardinality(u \ {x}) = n
      <4>1. n \in Nat /\ IsFiniteSet(u)
        BY <2>1
      <4> HIDE DEF x
      <4>2. Cardinality(u \ {x}) = Cardinality(u) - 1
        BY <3>1, <4>1, FS_RemoveElement
      <4> QED BY <4>1, <4>2
    <3>3. it[u \ {x}] = sol[u \ {x}]
      BY <3>2
    <3> QED BY <1>5, <1>8, <3>1, <3>3 DEF SumFrom
  <2>4. Same = Nat
    <3>1. Same \in SUBSET Nat
      OBVIOUS
    <3> HIDE DEF Same
    <3> QED BY <2>2, <2>3, <3>1, Induct
  <2> QED BY <2>1, <2>4
<1>10. it \in [SUBSET S -> Nat]
  <2>1. \A u \in SUBSET S : it[u] \in Nat
    BY <1>9
  <2>2. it = [u \in SUBSET S |-> it[u]]
    BY <1>7
  <2> QED BY <2>1, <2>2
<1> QED BY <1>3, <1>8, <1>10

\* What is added to one value is added to the sum.
LEMMA SumGrows ==
  ASSUME NEW S, IsFiniteSet(S), NEW f \in [S -> Nat], NEW c \in S
  PROVE  SumOver([f EXCEPT ![c] = f[c] + 1], S) = SumOver(f, S) + 1
<1> DEFINE g == [f EXCEPT ![c] = f[c] + 1]
           one(u) == IF c \in u THEN 1 ELSE 0
<1>1. g \in [S -> Nat] /\ \A x \in S : g[x] = f[x] + one({x})
  OBVIOUS
<1> HIDE DEF g
<1>2. PICK itf \in [SUBSET S -> Nat] :
        (\A u \in SUBSET S : itf[u] = SumFrom(f, u, itf)) /\ SumOver(f, S) = itf[S]
  BY SumRuns
<1>3. PICK itg \in [SUBSET S -> Nat] :
        (\A u \in SUBSET S : itg[u] = SumFrom(g, u, itg)) /\ SumOver(g, S) = itg[S]
  BY <1>1, SumRuns
<1> DEFINE Ok == {n \in Nat : \A u \in SUBSET S : Cardinality(u) = n => itg[u] = itf[u] + one(u)}
<1>4. \A u \in SUBSET S : IsFiniteSet(u) /\ Cardinality(u) \in Nat
  BY FS_Subset, FS_CardinalityType
<1>5. 0 \in Ok
  <2>1. \A u \in SUBSET S : Cardinality(u) = 0 => u = {}
    BY <1>4, FS_EmptySet
  <2>2. itf[{}] = 0 /\ itg[{}] = 0 /\ one({}) = 0
    BY <1>2, <1>3 DEF SumFrom
  <2>3. ASSUME NEW u \in SUBSET S, Cardinality(u) = 0 PROVE itg[u] = itf[u] + one(u)
    <3>1. u = {}
      BY <2>1, <2>3
    <3>2. itg[u] = 0 /\ itf[u] = 0 /\ c \notin u
      BY <2>2, <3>1
    <3> QED BY <3>2
  <2> QED BY <2>3
<1>6. ASSUME NEW n \in Ok PROVE n + 1 \in Ok
  <2> SUFFICES ASSUME NEW u \in SUBSET S, Cardinality(u) = n + 1 PROVE itg[u] = itf[u] + one(u)
    OBVIOUS
  <2> DEFINE x == CHOOSE x \in u : TRUE
  <2>1. u # {}
    <3>1. n \in Nat /\ Cardinality(u) # 0
      OBVIOUS
    <3> QED BY <3>1, FS_EmptySet
  <2>2. x \in u /\ x \in S
    BY <2>1
  <2>3. itg[u] = g[x] + itg[u \ {x}] /\ itf[u] = f[x] + itf[u \ {x}]
    BY <1>2, <1>3, <2>1 DEF SumFrom
  <2> HIDE DEF x
  <2>4. u \ {x} \in SUBSET S /\ Cardinality(u \ {x}) = n
    BY <1>4, <2>2, FS_RemoveElement
  <2>5. itg[u \ {x}] = itf[u \ {x}] + one(u \ {x}) /\ itf[u \ {x}] \in Nat
    BY <2>4
  <2>6. one({x}) + one(u \ {x}) = one(u) /\ one({x}) \in Nat /\ one(u \ {x}) \in Nat
    BY <2>2
  <2> QED BY <1>1, <2>2, <2>3, <2>5, <2>6
<1>7. Ok = Nat
  <2>1. Ok \in SUBSET Nat
    OBVIOUS
  <2> HIDE DEF Ok
  <2> QED BY <1>5, <1>6, <2>1, Induct
<1>8. itg[S] = itf[S] + 1
  BY <1>4, <1>7
<1> QED BY <1>2, <1>3, <1>8 DEF g

LEMMA SumIsNat ==
  ASSUME NEW S, IsFiniteSet(S), NEW f \in [S -> Nat]
  PROVE  SumOver(f, S) \in Nat
<1>1. PICK it \in [SUBSET S -> Nat] : SumOver(f, S) = it[S]
  BY SumRuns
<1>2. S \in SUBSET S
  OBVIOUS
<1> QED BY <1>1, <1>2

\* Nothing added up is nothing.
LEMMA SumOfZeros ==
  ASSUME NEW S, IsFiniteSet(S)
  PROVE  SumOver([c \in S |-> 0], S) = 0
<1> DEFINE f == [c \in S |-> 0]
<1>1. f \in [S -> Nat] /\ \A x \in S : f[x] = 0
  OBVIOUS
<1> HIDE DEF f
<1>2. PICK it \in [SUBSET S -> Nat] :
        (\A u \in SUBSET S : it[u] = SumFrom(f, u, it)) /\ SumOver(f, S) = it[S]
  BY <1>1, SumRuns
<1> DEFINE Ok == {n \in Nat : \A u \in SUBSET S : Cardinality(u) = n => it[u] = 0}
<1>3. \A u \in SUBSET S : IsFiniteSet(u) /\ Cardinality(u) \in Nat
  BY FS_Subset, FS_CardinalityType
<1>4. 0 \in Ok
  BY <1>2, <1>3, FS_EmptySet DEF SumFrom
<1>5. ASSUME NEW n \in Ok PROVE n + 1 \in Ok
  <2> SUFFICES ASSUME NEW u \in SUBSET S, Cardinality(u) = n + 1 PROVE it[u] = 0
    OBVIOUS
  <2> DEFINE x == CHOOSE x \in u : TRUE
  <2>1. u # {}
    <3>1. n \in Nat /\ Cardinality(u) # 0
      OBVIOUS
    <3> QED BY <3>1, FS_EmptySet
  <2>2. x \in u /\ x \in S
    BY <2>1
  <2>3. it[u] = f[x] + it[u \ {x}]
    BY <1>2, <2>1 DEF SumFrom
  <2> HIDE DEF x
  <2>4. u \ {x} \in SUBSET S /\ Cardinality(u \ {x}) = n
    BY <1>3, <2>2, FS_RemoveElement
  <2> QED BY <1>1, <2>2, <2>3, <2>4
<1>6. Ok = Nat
  <2>1. Ok \in SUBSET Nat
    OBVIOUS
  <2> HIDE DEF Ok
  <2> QED BY <1>4, <1>5, <2>1, Induct
<1>7. it[S] = 0
  BY <1>3, <1>6
<1> QED BY <1>2, <1>7 DEF f
=============================================================================
