------------------------- MODULE PrefixSumsProofs -------------------------
(***************************************************************************)
(* Facts that the proofs of several modules rest on: induction over the    *)
(* naturals by the least-number principle (a property that fails for some  *)
(* natural number fails for a least one), the largest and the smallest     *)
(* element of a set, and SumTo.                                            *)
(***************************************************************************)
EXTENDS PrefixSums, FiniteSetsExt, FiniteSetTheorems, WellFoundedInduction, TLAPS

(* Every non-empty set of naturals has a least element. *)
LEMMA NatLeast ==
  ASSUME NEW T, T \subseteq Nat, T # {}
  PROVE  \E m \in T : \A k \in T : m <= k
<1>1. PICK m \in T : \A k \in T : ~ (<<k, m>> \in OpToRel(<, Nat))
  BY NatLessThanWellFounded, WFMin, Zenon
<1>2. \A x, y \in Nat : x < y => <<x, y>> \in OpToRel(<, Nat)
  BY DEF OpToRel
<1>3. \A k \in T : ~ (k < m)
  BY <1>1, <1>2, Zenon
<1> QED BY <1>3

(* Induction over the naturals, for a predicate given as a set. *)
LEMMA NatSetInduction ==
  ASSUME NEW S, 0 \in S, \A n \in Nat : n \in S => n + 1 \in S
  PROVE  \A n \in Nat : n \in S
<1> DEFINE T == { n \in Nat : n \notin S }
<1> SUFFICES ASSUME T # {} PROVE FALSE
  OBVIOUS
<1>1. PICK m \in T : \A k \in T : m <= k
  BY NatLeast
<1>2. m - 1 \in Nat /\ m - 1 \notin T
  BY <1>1
<1>3. m \in S
  BY <1>2
<1> QED BY <1>3

-----------------------------------------------------------------------------
(* The largest and the smallest element *)

LEMMA MaxOfTwo ==
  ASSUME NEW x \in Int, NEW y \in Int
  PROVE  Max({x, y}) = IF x >= y THEN x ELSE y
<1> DEFINE m == IF x >= y THEN x ELSE y
<1>1. m \in {x, y} /\ \A k \in {x, y} : m >= k
  OBVIOUS
<1>2. \A k \in {x, y} : (\A j \in {x, y} : k >= j) => k = m
  OBVIOUS
<1> HIDE DEF m
<1>3. Max({x, y}) = m
  BY <1>1, <1>2 DEF Max
<1> QED BY <1>3 DEF m

LEMMA MinOfTwo ==
  ASSUME NEW x \in Int, NEW y \in Int
  PROVE  Min({x, y}) \in {x, y} /\ Min({x, y}) <= x /\ Min({x, y}) <= y
<1> DEFINE m == IF x <= y THEN x ELSE y
<1>1. m \in {x, y} /\ \A k \in {x, y} : m <= k
  OBVIOUS
<1> HIDE DEF m
<1>2. Min({x, y}) \in {x, y} /\ \A k \in {x, y} : Min({x, y}) <= k
  BY <1>1 DEF Min
<1> QED BY <1>2

LEMMA MinOfInterval ==
  ASSUME NEW x \in Int, NEW y \in Int, x <= y
  PROVE  Min(x..y) = x
<1>1. x \in x..y /\ \A k \in x..y : x <= k
  OBVIOUS
<1>2. \A m \in x..y : (\A k \in x..y : m <= k) => m = x
  OBVIOUS
<1> QED BY <1>1, <1>2 DEF Min

(* A non-empty bounded set of naturals has a largest element. *)
LEMMA MaxOfBounded ==
  ASSUME NEW S, S \subseteq Nat, S # {}, NEW n \in Nat, \A k \in S : k <= n
  PROVE  Max(S) \in S /\ \A k \in S : k <= Max(S)
<1> DEFINE T == { m \in Nat : \A k \in S : k <= m }
<1>1. PICK m \in T : \A j \in T : m <= j
  BY NatLeast
<1>2. m \in S
  <2> SUFFICES ASSUME m \notin S PROVE FALSE
    OBVIOUS
  <2>1. \A k \in S : k <= m - 1
    BY <1>1
  <2>2. PICK k \in S : TRUE
    OBVIOUS
  <2>3. m - 1 \in T
    BY <2>1, <2>2
  <2> QED BY <1>1, <2>3
<1>3. \A k \in S : m >= k
  BY <1>1
<1> HIDE DEF T
<1>4. Max(S) \in S /\ \A k \in S : Max(S) >= k
  BY <1>2, <1>3 DEF Max
<1> QED BY <1>4

LEMMA MinOfNats ==
  ASSUME NEW S, S \subseteq Nat, S # {}
  PROVE  Min(S) \in S /\ \A k \in S : Min(S) <= k
<1>1. \E m \in S : \A k \in S : m <= k
  BY NatLeast
<1> QED BY <1>1 DEF Min

(* A non-empty finite set of naturals has a largest element. *)
LEMMA MaxOfFinite ==
  ASSUME NEW S, S \subseteq Nat, S # {}, IsFiniteSet(S)
  PROVE  Max(S) \in S /\ \A k \in S : k <= Max(S)
<1>1. PICK n \in Nat : ExistsBijection(1..n, S)
  BY FS_NatBijection
<1>2. PICK f \in [1..n -> S] : \A k \in S : \E i \in 1..n : f[i] = k
  BY <1>1 DEF ExistsBijection, Bijection, Surjection
<1> DEFINE B == { m \in Nat : m <= n => \E c \in Nat : \A i \in 1..m : f[i] <= c }
<1>3. 0 \in B
  OBVIOUS
<1>4. ASSUME NEW m \in Nat, m \in B PROVE m + 1 \in B
  <2> SUFFICES ASSUME m + 1 <= n
               PROVE  \E c \in Nat : \A i \in 1..(m + 1) : f[i] <= c
    OBVIOUS
  <2>1. PICK c \in Nat : \A i \in 1..m : f[i] <= c
    BY <1>4
  <2>2. \A i \in 1..n : f[i] \in Nat
    BY <1>2
  <2>3. PICK d \in Nat : c <= d /\ f[m + 1] <= d
    BY <2>2
  <2>4. ASSUME NEW i \in 1..(m + 1) PROVE f[i] <= d
    <3>1. f[i] \in Nat
      BY <2>2
    <3> QED BY <3>1, <2>1, <2>3
  <2> QED BY <2>4
<1> HIDE DEF B
<1>5. n \in B
  <2> \A m \in Nat : m \in B
    BY <1>3, <1>4, NatSetInduction
  <2> QED OBVIOUS
<1>6. PICK c \in Nat : \A i \in 1..n : f[i] <= c
  BY <1>5 DEF B
<1>7. \A k \in S : k <= c
  BY <1>2, <1>6
<1> QED BY <1>7, MaxOfBounded

-----------------------------------------------------------------------------

(* Partial(w, g, n): g holds the partial sums of w up to n. *)
Partial(w, g, n) ==
  /\ g \in [0 .. n -> Int]
  /\ g[0] = 0
  /\ \A k \in 1 .. n : g[k] = g[k - 1] + w[k]

LEMMA PartialExists ==
  ASSUME NEW w \in [Nat -> Int]
  PROVE  \A n \in Nat : \E g : Partial(w, g, n)
<1> DEFINE S == { n \in Nat : \E g : Partial(w, g, n) }
<1>1. 0 \in S
  <2>1. Partial(w, [k \in 0 .. 0 |-> 0], 0)
    BY DEF Partial
  <2> QED BY <2>1
<1>2. ASSUME NEW n \in Nat, n \in S PROVE n + 1 \in S
  <2>1. PICK g : Partial(w, g, n)
    BY <1>2
  <2> DEFINE h == [k \in 0 .. n + 1 |-> IF k = n + 1 THEN g[n] + w[n + 1] ELSE g[k]]
  <2>2. h \in [0 .. n + 1 -> Int] /\ h[0] = 0
    BY <2>1 DEF Partial
  <2>3. ASSUME NEW k \in 1 .. n + 1 PROVE h[k] = h[k - 1] + w[k]
    <3>1. CASE k = n + 1
      BY <3>1, <2>1 DEF Partial
    <3>2. CASE k # n + 1
      <4>1. k \in 1 .. n /\ k - 1 \in 0 .. n /\ k - 1 # n + 1 /\ k \in 0 .. n + 1
        BY <3>2
      <4>2. g[k] = g[k - 1] + w[k]
        BY <4>1, <2>1 DEF Partial
      <4> QED BY <4>1, <4>2, <3>2
    <3> QED BY <3>1, <3>2
  <2>4. Partial(w, h, n + 1)
    BY <2>2, <2>3 DEF Partial
  <2> QED BY <2>4
<1>3. \A n \in Nat : n \in S
  <2> HIDE DEF S
  <2> QED BY <1>1, <1>2, NatSetInduction
<1> QED BY <1>3

LEMMA PartialUnique ==
  ASSUME NEW w \in [Nat -> Int], NEW m \in Nat, NEW n \in Nat,
         NEW g, NEW h, Partial(w, g, m), Partial(w, h, n)
  PROVE  \A k \in Nat : k <= m /\ k <= n => g[k] = h[k]
<1> DEFINE S == { k \in Nat : k <= m /\ k <= n => g[k] = h[k] }
<1>1. 0 \in S
  BY DEF Partial
<1>2. ASSUME NEW k \in Nat, k \in S PROVE k + 1 \in S
  <2> SUFFICES ASSUME k + 1 <= m, k + 1 <= n PROVE g[k + 1] = h[k + 1]
    OBVIOUS
  <2>1. g[k] = h[k] /\ k + 1 \in 1 .. m /\ k + 1 \in 1 .. n /\ (k + 1) - 1 = k
    BY <1>2
  <2> QED BY <2>1 DEF Partial
<1>3. \A k \in Nat : k \in S
  <2> HIDE DEF S
  <2> QED BY <1>1, <1>2, NatSetInduction
<1> QED BY <1>3

(* The recursive definition of SumFcn really defines the partial sums. *)
LEMMA SumFcnDef ==
  ASSUME NEW w \in [Nat -> Int]
  PROVE  SumFcn(w) = [k \in Nat |-> IF k = 0 THEN 0 ELSE SumFcn(w)[k - 1] + w[k]]
<1> DEFINE G(n) == CHOOSE g : Partial(w, g, n)
           F == [n \in Nat |-> G(n)[n]]
<1>1. \A n \in Nat : Partial(w, G(n), n)
  BY PartialExists
<1> HIDE DEF G
<1>2. F[0] = 0
  BY <1>1 DEF Partial
<1>3. ASSUME NEW n \in Nat, n # 0 PROVE F[n] = F[n - 1] + w[n]
  <2>1. n - 1 \in Nat /\ n \in 1 .. n
    BY <1>3
  <2>2. G(n)[n] = G(n)[n - 1] + w[n]
    BY <2>1, <1>1 DEF Partial
  <2>3. G(n)[n - 1] = G(n - 1)[n - 1]
    BY <2>1, <1>1, PartialUnique
  <2> QED BY <2>1, <2>2, <2>3
<1>4. F = [k \in Nat |-> IF k = 0 THEN 0 ELSE F[k - 1] + w[k]]
  BY <1>2, <1>3
<1> HIDE DEF F
<1>5. \E s : s = [k \in Nat |-> IF k = 0 THEN 0 ELSE s[k - 1] + w[k]]
  BY <1>4
<1> QED BY <1>5 DEF SumFcn

(* The two equations the rest of the development uses. *)
LEMMA SumStep ==
  ASSUME NEW w \in [Nat -> Int], NEW n \in Nat
  PROVE  /\ SumTo(w, n) \in Int
         /\ SumTo(w, 0) = 0
         /\ SumTo(w, n + 1) = SumTo(w, n) + w[n + 1]
<1> DEFINE S == { k \in Nat : SumFcn(w)[k] \in Int }
<1>1. /\ SumFcn(w)[0] = 0
      /\ \A k \in Nat : SumFcn(w)[k + 1] = SumFcn(w)[k] + w[k + 1]
  BY SumFcnDef
<1>2. 0 \in S /\ \A k \in Nat : k \in S => k + 1 \in S
  BY <1>1
<1>3. \A k \in Nat : k \in S
  <2> HIDE DEF S
  <2> QED BY <1>2, NatSetInduction
<1> QED BY <1>1, <1>3 DEF SumTo

(* A sum depends only on the weights it adds up. *)
LEMMA SumAgree ==
  ASSUME NEW v \in [Nat -> Int], NEW w \in [Nat -> Int], NEW n \in Nat,
         \A i \in 1 .. n : v[i] = w[i]
  PROVE  SumTo(v, n) = SumTo(w, n)
<1> DEFINE S == { j \in Nat : j <= n => SumTo(v, j) = SumTo(w, j) }
<1>1. 0 \in S
  BY SumStep
<1>2. ASSUME NEW j \in Nat, j \in S PROVE j + 1 \in S
  <2> SUFFICES ASSUME j + 1 <= n PROVE SumTo(v, (j + 1)) = SumTo(w, (j + 1))
    OBVIOUS
  <2>1. j + 1 \in 1 .. n /\ SumTo(v, j) = SumTo(w, j)
    BY <1>2
  <2> QED BY <2>1, SumStep
<1>3. \A j \in Nat : j \in S
  <2> HIDE DEF S
  <2> QED BY <1>1, <1>2, NatSetInduction
<1> QED BY <1>3

(* Sums add up point by point. *)
LEMMA SumAdd ==
  ASSUME NEW u \in [Nat -> Int], NEW v \in [Nat -> Int], NEW w \in [Nat -> Int], NEW n \in Nat,
         \A i \in 1 .. n : u[i] = v[i] + w[i]
  PROVE  SumTo(u, n) = SumTo(v, n) + SumTo(w, n)
<1> DEFINE S == { j \in Nat : j <= n => SumTo(u, j) = SumTo(v, j) + SumTo(w, j) }
<1>1. 0 \in S
  BY SumStep
<1>2. ASSUME NEW j \in Nat, j \in S PROVE j + 1 \in S
  <2> SUFFICES ASSUME j + 1 <= n PROVE SumTo(u, (j + 1)) = SumTo(v, (j + 1)) + SumTo(w, (j + 1))
    OBVIOUS
  <2>1. j + 1 \in 1 .. n /\ SumTo(u, j) = SumTo(v, j) + SumTo(w, j)
    BY <1>2
  <2> QED BY <2>1, SumStep
<1>3. \A j \in Nat : j \in S
  <2> HIDE DEF S
  <2> QED BY <1>1, <1>2, NatSetInduction
<1> QED BY <1>3

(* Sums are monotone in the weights. *)
LEMMA SumMono ==
  ASSUME NEW v \in [Nat -> Int], NEW w \in [Nat -> Int], NEW n \in Nat,
         \A i \in 1 .. n : v[i] <= w[i]
  PROVE  SumTo(v, n) <= SumTo(w, n)
<1> DEFINE S == { j \in Nat : j <= n => SumTo(v, j) <= SumTo(w, j) }
<1>1. 0 \in S
  BY SumStep
<1>2. ASSUME NEW j \in Nat, j \in S PROVE j + 1 \in S
  <2> SUFFICES ASSUME j + 1 <= n PROVE SumTo(v, (j + 1)) <= SumTo(w, (j + 1))
    OBVIOUS
  <2>1. j + 1 \in 1 .. n /\ SumTo(v, j) <= SumTo(w, j)
    BY <1>2
  <2> QED BY <2>1, SumStep
<1>3. \A j \in Nat : j \in S
  <2> HIDE DEF S
  <2> QED BY <1>1, <1>2, NatSetInduction
<1> QED BY <1>3

(* Zero weights sum up to zero. *)
LEMMA SumZero ==
  ASSUME NEW w \in [Nat -> Int], NEW n \in Nat,
         \A i \in 1 .. n : w[i] = 0
  PROVE  SumTo(w, n) = 0
<1> DEFINE S == { j \in Nat : j <= n => SumTo(w, j) = 0 }
<1>1. 0 \in S
  BY SumStep
<1>2. ASSUME NEW j \in Nat, j \in S PROVE j + 1 \in S
  <2> SUFFICES ASSUME j + 1 <= n PROVE SumTo(w, (j + 1)) = 0
    OBVIOUS
  <2>1. j + 1 \in 1 .. n /\ SumTo(w, j) = 0
    BY <1>2
  <2> QED BY <2>1, SumStep
<1>3. \A j \in Nat : j \in S
  <2> HIDE DEF S
  <2> QED BY <1>1, <1>2, NatSetInduction
<1> QED BY <1>3
=============================================================================
