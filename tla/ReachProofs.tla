------------------------------- MODULE ReachProofs -----------------------------
(***************************************************************************)
(* What Spread computes, for any set of pairs and any depth.  The library's*)
(* induction theorems take an operator as a parameter; here induction on a *)
(* natural number is stated of a set, and follows from its least element.  *)
(***************************************************************************)
EXTENDS Reach, WellFoundedInduction, FiniteSetTheorems, TLAPS

-----------------------------------------------------------------------------
(* Induction.                                                              *)

LEMMA LeastNumber ==
  ASSUME NEW T, T \subseteq Nat, T # {}
  PROVE  \E n \in T : \A m \in T : n <= m
<1> DEFINE Less == {ss \in Nat \X Nat : ss[1] < ss[2]}
<1>1. IsWellFoundedOn(Less, Nat)
  BY NatLessThanWellFounded DEF OpToRel
<1> HIDE DEF Less
<1>2. PICK n \in T : \A m \in T : ~(<<m, n>> \in Less)
  BY <1>1, WFMin
<1>3. ASSUME NEW m \in T PROVE n <= m
  <2>1. <<m, n>> \in Nat \X Nat /\ ~(<<m, n>> \in Less)
    BY <1>2
  <2>2. ~(m < n)
    BY <2>1 DEF Less
  <2> QED BY <2>2, m \in Nat, n \in Nat
<1> QED BY <1>3

(* A set of numbers with 0 and with the successor of each is all of Nat.   *)
LEMMA Induction ==
  ASSUME NEW T, 0 \in T, \A n \in Nat : n \in T => n + 1 \in T
  PROVE  Nat \subseteq T
<1> SUFFICES ASSUME Nat \ T # {} PROVE FALSE
  OBVIOUS
<1>1. PICK n \in Nat \ T : \A m \in Nat \ T : n <= m
  BY LeastNumber
<1>2. n # 0 /\ n - 1 \in Nat
  OBVIOUS
<1>3. n - 1 \in T
  BY <1>1, <1>2
<1> QED BY <1>2, <1>3

-----------------------------------------------------------------------------
(* The recursive function exists and is unique.                            *)

(* f is the function Within of Spread(S, R, n).                            *)
Spreads(f, S, R, n) == f = [k \in 0..n |-> IF k = 0 THEN S ELSE Step(f[k-1], R)]

LEMMA SpreadsExist ==
  ASSUME NEW S, NEW R
  PROVE  \A n \in Nat : \E f : Spreads(f, S, R, n)
<1> DEFINE T == {n \in Nat : \E f : Spreads(f, S, R, n)}
<1>1. 0 \in T
  <2> DEFINE f == [k \in 0..0 |-> S]
  <2>1. Spreads(f, S, R, 0)
    BY DEF Spreads
  <2> QED BY <2>1
<1>2. ASSUME NEW n \in Nat, n \in T PROVE n + 1 \in T
  <2>1. PICK f : Spreads(f, S, R, n)
    BY <1>2
  <2> DEFINE g == [k \in 0..(n+1) |-> IF k = n + 1 THEN Step(f[n], R) ELSE f[k]]
  <2>2. ASSUME NEW k \in 0..(n+1)
        PROVE  g[k] = IF k = 0 THEN S ELSE Step(g[k-1], R)
    <3>1. CASE k = n + 1
      BY <3>1, g[n] = f[n]
    <3>2. CASE k \in 0..n
      <4>1. f[k] = IF k = 0 THEN S ELSE Step(f[k-1], R)
        BY <2>1, <3>2 DEF Spreads
      <4>2. k # 0 => g[k-1] = f[k-1]
        BY <3>2
      <4> QED BY <3>2, <4>1, <4>2
    <3> QED BY <3>1, <3>2
  <2>3. Spreads(g, S, R, n+1)
    BY <2>2 DEF Spreads
  <2> QED BY <2>3
<1> HIDE DEF T
<1>3. Nat \subseteq T
  BY <1>1, <1>2, Induction
<1> QED BY <1>3 DEF T

LEMMA SpreadsAgree ==
  ASSUME NEW S, NEW R, NEW n \in Nat, NEW m \in Nat, n <= m,
         NEW f, NEW g, Spreads(f, S, R, n), Spreads(g, S, R, m)
  PROVE  \A k \in 0..n : f[k] = g[k]
<1> DEFINE T == {k \in Nat : k \in 0..n => f[k] = g[k]}
<1>1. 0 \in T
  BY DEF Spreads
<1>2. ASSUME NEW k \in Nat, k \in T PROVE k + 1 \in T
  <2> SUFFICES ASSUME k + 1 \in 0..n PROVE f[k+1] = g[k+1]
    OBVIOUS
  <2>1. f[k+1] = Step(f[k], R) /\ g[k+1] = Step(g[k], R)
    <3>1. k + 1 \in 0..m /\ k + 1 # 0 /\ (k + 1) - 1 = k
      OBVIOUS
    <3> QED BY <3>1 DEF Spreads
  <2>2. f[k] = g[k]
    BY <1>2
  <2> QED BY <2>1, <2>2
<1> HIDE DEF T
<1>3. Nat \subseteq T
  BY <1>1, <1>2, Induction
<1> QED BY <1>3 DEF T

LEMMA SpreadIs ==
  ASSUME NEW S, NEW R, NEW n \in Nat, NEW f, Spreads(f, S, R, n)
  PROVE  Spread(S, R, n) = f[n]
<1> DEFINE W == CHOOSE g : Spreads(g, S, R, n)
<1>1. Spreads(W, S, R, n)
  OBVIOUS
<1>2. W[n] = f[n]
  BY <1>1, SpreadsAgree
<1> QED BY <1>2 DEF Spread, Spreads

(* The two equations of the recursion.                                     *)
LEMMA SpreadZero ==
  ASSUME NEW S, NEW R
  PROVE  Spread(S, R, 0) = S
<1>1. PICK f : Spreads(f, S, R, 0)
  BY SpreadsExist
<1>2. f[0] = S
  BY <1>1 DEF Spreads
<1> QED BY <1>1, <1>2, SpreadIs

LEMMA SpreadNext ==
  ASSUME NEW S, NEW R, NEW n \in Nat
  PROVE  Spread(S, R, n+1) = Step(Spread(S, R, n), R)
<1>1. PICK f : Spreads(f, S, R, n)
  BY SpreadsExist
<1>2. PICK g : Spreads(g, S, R, n+1)
  BY SpreadsExist
<1>3. g[n+1] = Step(g[n], R)
  BY <1>2 DEF Spreads
<1>4. g[n] = f[n]
  BY <1>1, <1>2, SpreadsAgree
<1> QED BY <1>1, <1>2, <1>3, <1>4, SpreadIs

LEMMA InStep ==
  ASSUME NEW X, NEW R, NEW y
  PROVE  y \in Step(X, R) <=> y \in X \/ \E r \in R : r[1] \in X /\ y = r[2]
BY DEF Step

-----------------------------------------------------------------------------
(* What is reached.                                                        *)

(* The first step, or the last pair.                                       *)
LEMMA SpreadLast ==
  ASSUME NEW S, NEW R, NEW n \in Nat, NEW y
  PROVE  y \in Spread(S, R, n+1) <=>
           y \in Spread(S, R, n) \/ \E r \in R : r[1] \in Spread(S, R, n) /\ y = r[2]
BY SpreadNext, InStep

(* More from more, over more pairs, and in more steps.                     *)
LEMMA SpreadMonotonic ==
  ASSUME NEW S, NEW U, NEW R, NEW Q, S \subseteq U, R \subseteq Q, NEW n \in Nat
  PROVE  Spread(S, R, n) \subseteq Spread(U, Q, n)
<1> DEFINE T == {k \in Nat : Spread(S, R, k) \subseteq Spread(U, Q, k)}
<1>1. 0 \in T
  BY SpreadZero
<1>2. ASSUME NEW k \in Nat, k \in T PROVE k + 1 \in T
  <2>1. Spread(S, R, k) \subseteq Spread(U, Q, k)
    BY <1>2
  <2>2. ASSUME NEW y \in Spread(S, R, k+1) PROVE y \in Spread(U, Q, k+1)
    BY <2>1, SpreadLast
  <2> QED BY <2>2
<1> HIDE DEF T
<1>3. Nat \subseteq T
  BY <1>1, <1>2, Induction
<1> QED BY <1>3 DEF T

LEMMA SpreadDeeper ==
  ASSUME NEW S, NEW R, NEW n \in Nat, NEW m \in Nat, n <= m
  PROVE  Spread(S, R, n) \subseteq Spread(S, R, m)
<1> DEFINE T == {k \in Nat : Spread(S, R, n) \subseteq Spread(S, R, n + k)}
<1>1. 0 \in T
  BY n + 0 = n
<1>2. ASSUME NEW k \in Nat, k \in T PROVE k + 1 \in T
  <2>1. Spread(S, R, n + k) \subseteq Spread(S, R, (n + k) + 1)
    BY SpreadLast, n + k \in Nat
  <2>2. (n + k) + 1 = n + (k + 1)
    OBVIOUS
  <2>3. Spread(S, R, n) \subseteq Spread(S, R, n + k)
    BY <1>2
  <2>4. Spread(S, R, n) \subseteq Spread(S, R, n + (k + 1))
    BY <2>1, <2>2, <2>3
  <2> QED BY <2>4
<1> HIDE DEF T
<1>3. Nat \subseteq T
  BY <1>1, <1>2, Induction
<1>4. m - n \in Nat /\ n + (m - n) = m
  OBVIOUS
<1>5. m - n \in T
  BY <1>3, <1>4
<1>6. Spread(S, R, n) \subseteq Spread(S, R, n + (m - n))
  BY <1>5 DEF T
<1> QED BY <1>4, <1>6

(* What is reached stays within a set that no pair leads out of.           *)
LEMMA SpreadWithin ==
  ASSUME NEW S, NEW R, NEW n \in Nat, NEW U, S \subseteq U,
         \A r \in R : r[1] \in U => r[2] \in U
  PROVE  Spread(S, R, n) \subseteq U
<1> DEFINE T == {k \in Nat : Spread(S, R, k) \subseteq U}
<1>1. 0 \in T
  BY SpreadZero
<1>2. ASSUME NEW k \in Nat, k \in T PROVE k + 1 \in T
  <2>1. Spread(S, R, k) \subseteq U
    BY <1>2
  <2>2. ASSUME NEW y \in Spread(S, R, k+1) PROVE y \in U
    BY <2>1, SpreadLast
  <2> QED BY <2>2
<1> HIDE DEF T
<1>3. Nat \subseteq T
  BY <1>1, <1>2, Induction
<1> QED BY <1>3 DEF T

(* Two walks make one.                                                     *)
LEMMA SpreadJoin ==
  ASSUME NEW S, NEW U, NEW z, NEW R, NEW n \in Nat, NEW m \in Nat,
         U \subseteq Spread(S, R, n), z \in Spread(U, R, m)
  PROVE  z \in Spread(S, R, n + m)
<1>1. ASSUME NEW k \in Nat, NEW w
      PROVE  w \in Spread(U, R, k+1) <=>
               w \in Spread(U, R, k) \/ \E r \in R : r[1] \in Spread(U, R, k) /\ w = r[2]
  BY SpreadLast
<1>2. ASSUME NEW k \in Nat, NEW w
      PROVE  w \in Spread(S, R, n + (k+1)) <=>
               \/ w \in Spread(S, R, n + k)
               \/ \E r \in R : r[1] \in Spread(S, R, n + k) /\ w = r[2]
  <2>1. n + k \in Nat /\ (n + k) + 1 = n + (k + 1)
    OBVIOUS
  <2>2. w \in Spread(S, R, (n + k) + 1) <=>
          \/ w \in Spread(S, R, n + k)
          \/ \E r \in R : r[1] \in Spread(S, R, n + k) /\ w = r[2]
    BY <2>1, SpreadLast
  <2> QED BY <2>1, <2>2
<1> DEFINE A(k) == Spread(U, R, k)
           B(k) == Spread(S, R, n + k)
           T == {k \in Nat : A(k) \subseteq B(k)}
<1>3. A(0) = U /\ U \subseteq B(0)
  BY SpreadZero, n + 0 = n
<1>4. ASSUME NEW k \in Nat, NEW w
      PROVE  /\ w \in A(k+1) <=> w \in A(k) \/ \E r \in R : r[1] \in A(k) /\ w = r[2]
             /\ w \in B(k+1) <=> w \in B(k) \/ \E r \in R : r[1] \in B(k) /\ w = r[2]
  BY <1>1, <1>2
<1>5. z \in A(m)
  OBVIOUS
<1> HIDE DEF A, B
<1>6. 0 \in T
  BY <1>3
<1>7. ASSUME NEW k \in Nat, k \in T PROVE k + 1 \in T
  BY <1>4, <1>7
<1> HIDE DEF T
<1>8. m \in T
  BY <1>6, <1>7, Induction
<1>9. z \in B(m)
  BY <1>5, <1>8 DEF T
<1> QED BY <1>9 DEF B

(* A pair is a walk.                                                       *)
LEMMA SpreadPair ==
  ASSUME NEW R, NEW x, NEW y, <<x, y>> \in R
  PROVE  y \in Spread({x}, R, 1)
<1>1. x \in Spread({x}, R, 0)
  BY SpreadZero
<1>2. y \in Spread({x}, R, 0 + 1)
  BY <1>1, SpreadLast
<1> QED BY <1>2

(* A walk that was not there before a pair was added goes through the pair:*)
(* before its first use and after its last it takes old pairs only.        *)
LEMMA SpreadThrough ==
  ASSUME NEW R, NEW a, NEW b, NEW S, NEW n \in Nat, NEW y,
         y \in Spread(S, R \cup {<<a, b>>}, n), y \notin Spread(S, R, n)
  PROVE  \E j, k \in Nat : /\ j + 1 + k <= n
                           /\ a \in Spread(S, R, j) /\ y \in Spread({b}, R, k)
<1> DEFINE Q == R \cup {<<a, b>>}
           New(l) == Spread(S, Q, l)
           Old(l) == Spread(S, R, l)
           B == {b}
           From(k) == Spread(B, R, k)
           Through(z, l) == \E j, k \in Nat :
                              j + 1 + k <= l /\ a \in Old(j) /\ z \in From(k)
           T == {l \in Nat : \A z \in New(l) : z \in Old(l) \/ Through(z, l)}
<1>1. New(0) = S /\ Old(0) = S /\ b \in From(0)
  BY SpreadZero
<1>2. ASSUME NEW l \in Nat, NEW z
      PROVE  /\ z \in New(l+1) <=> z \in New(l) \/ \E r \in Q : r[1] \in New(l) /\ z = r[2]
             /\ z \in Old(l+1) <=> z \in Old(l) \/ \E r \in R : r[1] \in Old(l) /\ z = r[2]
             /\ z \in From(l+1) <=> z \in From(l) \/ \E r \in R : r[1] \in From(l) /\ z = r[2]
  <2> HIDE DEF B, Q
  <2>1. z \in Spread(S, Q, l+1) <=>
          z \in Spread(S, Q, l) \/ \E r \in Q : r[1] \in Spread(S, Q, l) /\ z = r[2]
    BY ONLY l \in Nat, SpreadLast
  <2>2. z \in Spread(S, R, l+1) <=>
          z \in Spread(S, R, l) \/ \E r \in R : r[1] \in Spread(S, R, l) /\ z = r[2]
    BY ONLY l \in Nat, SpreadLast
  <2>3. z \in Spread(B, R, l+1) <=>
          z \in Spread(B, R, l) \/ \E r \in R : r[1] \in Spread(B, R, l) /\ z = r[2]
    BY ONLY l \in Nat, SpreadLast
  <2> QED BY <2>1, <2>2, <2>3
<1>3. y \in New(n) /\ y \notin Old(n)
  OBVIOUS
<1>4. \A q \in Q : q \in R \/ (q[1] = a /\ q[2] = b)
  OBVIOUS
<1> HIDE DEF Q, New, Old, From
<1>5. 0 \in T
  BY <1>1
<1>6. ASSUME NEW l \in Nat, l \in T PROVE l + 1 \in T
  <2> SUFFICES ASSUME NEW z \in New(l + 1) PROVE z \in Old(l + 1) \/ Through(z, l + 1)
    OBVIOUS
  <2>1. \A w \in New(l) : w \in Old(l) \/ Through(w, l)
    BY <1>6
  <2>2. CASE z \in New(l)
    <3>1. Through(z, l) => Through(z, l + 1)
      OBVIOUS
    <3> HIDE DEF Through
    <3> QED BY <1>2, <2>1, <2>2, <3>1
  <2>3. ASSUME NEW q \in R, q[1] \in New(l), z = q[2]
        PROVE  z \in Old(l + 1) \/ Through(z, l + 1)
    <3>1. CASE q[1] \in Old(l)
      BY <1>2, <2>3, <3>1
    <3>2. CASE Through(q[1], l)
      <4>1. PICK j, k \in Nat : j + 1 + k <= l /\ a \in Old(j) /\ q[1] \in From(k)
        BY <3>2
      <4>2. z \in From(k + 1)
        BY <1>2, <2>3, <4>1
      <4>3. k + 1 \in Nat /\ j + 1 + (k + 1) <= l + 1
        BY <4>1
      <4> QED BY <4>1, <4>2, <4>3
    <3> QED BY <2>1, <2>3, <3>1, <3>2
  <2>4. ASSUME a \in New(l), z = b PROVE Through(z, l + 1)
    <3>1. PICK j \in Nat : j <= l /\ a \in Old(j)
      BY <2>1, <2>4
    <3>2. 0 \in Nat /\ j + 1 + 0 <= l + 1 /\ z \in From(0)
      BY <1>1, <2>4, <3>1
    <3> QED BY <3>1, <3>2
  <2> HIDE DEF Through
  <2>5. z \in New(l) \/ \E q \in Q : q[1] \in New(l) /\ z = q[2]
    BY <1>2
  <2>6. CASE \E q \in Q : q[1] \in New(l) /\ z = q[2]
    <3>1. PICK q \in Q : q[1] \in New(l) /\ z = q[2]
      BY <2>6
    <3> QED BY <1>4, <2>3, <2>4, <3>1
  <2> QED BY <2>2, <2>5, <2>6
<1> HIDE DEF T
<1>7. n \in T
  BY <1>5, <1>6, Induction
<1>8. Through(y, n)
  BY <1>3, <1>7 DEF T
<1> QED BY <1>8 DEF Old, From

(* In a finite set, as many pairs as it has elements reach all there is to *)
(* reach: before that every step but the last adds an element.             *)
LEMMA SpreadSettles ==
  ASSUME NEW U, IsFiniteSet(U), NEW S, S \subseteq U, S # {},
         NEW R, \A r \in R : r[1] \in U => r[2] \in U
  PROVE  \A r \in R : r[1] \in Spread(S, R, Cardinality(U)) => r[2] \in Spread(S, R, Cardinality(U))
<1> DEFINE A(k) == Spread(S, R, k)
           Closed(k) == \A r \in R : r[1] \in A(k) => r[2] \in A(k)
           T == {k \in Nat : Closed(k) \/ Cardinality(A(k)) > k}
           N == Cardinality(U)
<1>1. N \in Nat
  BY FS_CardinalityType
<1>2. ASSUME NEW k \in Nat
      PROVE  A(k) \subseteq U /\ IsFiniteSet(A(k)) /\ Cardinality(A(k)) \in Nat
             /\ Cardinality(A(k)) <= N
  <2>1. A(k) \subseteq U
    BY SpreadWithin
  <2> QED BY <2>1, FS_Subset, FS_CardinalityType
<1>3. A(0) = S
  BY SpreadZero
<1>4. ASSUME NEW k \in Nat, NEW y
      PROVE  y \in A(k+1) <=> y \in A(k) \/ \E r \in R : r[1] \in A(k) /\ y = r[2]
  BY SpreadLast
<1> HIDE DEF A
<1>5. 0 \in T
  <2>1. Cardinality(A(0)) # 0
    BY <1>2, <1>3, FS_EmptySet
  <2> QED BY <1>2, <2>1
<1>6. ASSUME NEW k \in Nat, k \in T PROVE k + 1 \in T
  <2>1. CASE Closed(k)
    <3>1. A(k+1) = A(k)
      <4>1. ASSUME NEW y PROVE y \in A(k+1) <=> y \in A(k)
        BY <1>4, <2>1
      <4> DEFINE X == A(k+1)  Y == A(k)
      <4>2. \A y : y \in X <=> y \in Y
        BY <4>1
      <4> HIDE DEF X, Y
      <4>3. X = Y
        BY ONLY <4>2
      <4> QED BY <4>3 DEF X, Y
    <3>2. Closed(k+1)
      BY <2>1, <3>1
    <3> QED BY <3>2
  <2>2. CASE ~Closed(k)
    <3>1. A(k) \subseteq A(k+1) /\ A(k) # A(k+1)
      BY <1>4, <2>2
    <3>2. Cardinality(A(k)) <= Cardinality(A(k+1)) /\ Cardinality(A(k)) # Cardinality(A(k+1))
      BY <1>2, <3>1, FS_Subset
    <3>3. Cardinality(A(k)) > k
      BY <1>6, <2>2
    <3>4. Cardinality(A(k+1)) > k + 1
      BY <1>2, <3>2, <3>3
    <3> QED BY <3>4
  <2> QED BY <2>1, <2>2
<1>7. N \in T
  <2> HIDE DEF T
  <2> QED BY <1>1, <1>5, <1>6, Induction
<1>8. Closed(N)
  BY <1>1, <1>2, <1>7
<1> QED BY <1>8 DEF A
=============================================================================
