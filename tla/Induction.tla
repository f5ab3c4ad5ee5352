------------------------------ MODULE Induction ------------------------------
(***************************************************************************)
(* Induction over the natural numbers, stated of sets: where the library's *)
(* theorems speak of every predicate, these speak of every set, which is   *)
(* what the provers can instantiate.  The proofs of SPI transfers and of   *)
(* linked lists use them for what holds byte by byte and record by record, *)
(* and for the recursive functions that say so.                            *)
(***************************************************************************)
EXTENDS Integers, WellFoundedInduction, TLAPS

\* A set of natural numbers that is not empty has a least element.
LEMMA LeastElement ==
    ASSUME NEW T, T \subseteq Nat, T # {}
    PROVE  \E n \in T : \A m \in T : n <= m
<1> DEFINE R == OpToRel(<, Nat)
<1>1. IsWellFoundedOn(R, Nat)
  BY NatLessThanWellFounded
<1>2. ASSUME NEW m \in Nat, NEW n \in Nat, m < n PROVE <<m, n>> \in R
  BY <1>2 DEF OpToRel
<1> HIDE DEF R
<1>3. PICK n \in T : \A m \in T : ~ (<<m, n>> \in R)
  BY <1>1, WFMin
<1>4. ASSUME NEW m \in T PROVE n <= m
  <2>1. m \in Nat /\ n \in Nat /\ ~ (<<m, n>> \in R)
    BY <1>3
  <2>2. ~ (m < n)
    BY <2>1, <1>2
  <2>3. QED
    BY <2>1, <2>2
<1>5. QED
  BY <1>4

\* A set that holds 0, and with each number below N the next, holds all up to N.
LEMMA UpTo ==
    ASSUME NEW N \in Nat, NEW S, 0 \in S,
           \A n \in 0..(N - 1) : n \in S => n + 1 \in S
    PROVE  0..N \subseteq S
<1> DEFINE T == {n \in 0..N : n \notin S}
<1>1. SUFFICES ASSUME T # {} PROVE FALSE
  OBVIOUS
<1>2. T \subseteq Nat
  OBVIOUS
<1> HIDE DEF T
<1>3. PICK n \in T : \A m \in T : n <= m
  BY <1>1, <1>2, LeastElement
<1>4. n \in 1..N /\ n \notin S
  BY <1>3 DEF T
<1>5. n - 1 \in 0..(N - 1) /\ (n - 1) + 1 = n
  BY <1>4
<1>6. n - 1 \notin T
  BY <1>3, <1>4
<1>7. n - 1 \in S
  BY <1>5, <1>6 DEF T
<1>8. QED
  BY <1>4, <1>5, <1>7

\* The function over 0..N that begins with b and goes on by g
Iteration(f, N, S, b, g) ==
    f \in [0..N -> S] /\ f[0] = b /\ \A k \in 1..N : f[k] = g[k][f[k - 1]]

\* There is one, which makes a recursive function what its definition says.
LEMMA Iterates ==
    ASSUME NEW N \in Nat, NEW S, NEW b \in S, NEW g \in [1..N -> [S -> S]]
    PROVE  \E f : Iteration(f, N, S, b, g)
<1> DEFINE Upto(n, f) == f[0] = b /\ \A k \in 1..n : f[k] = g[k][f[k - 1]]
           T == {n \in 0..N : \E f \in [0..n -> S] : Upto(n, f)}
<1>1. 0 \in T
  <2> DEFINE z == [k \in 0..0 |-> b]
  <2>1. z \in [0..0 -> S] /\ Upto(0, z)
    OBVIOUS
  <2> HIDE DEF z
  <2>2. \E f \in [0..0 -> S] : Upto(0, f)
    BY <2>1
  <2>3. 0 \in 0..N
    OBVIOUS
  <2> HIDE DEF Upto
  <2>4. QED
    BY <2>2, <2>3
<1>2. ASSUME NEW n \in 0..(N - 1), n \in T PROVE n + 1 \in T
  <2>1. PICK f \in [0..n -> S] : Upto(n, f)
    BY <1>2
  <2> DEFINE h == [k \in 0..(n + 1) |-> IF k <= n THEN f[k] ELSE g[n + 1][f[n]]]
  <2>2. f[n] \in S /\ n + 1 \in 1..N
    OBVIOUS
  <2>3. g[n + 1][f[n]] \in S
    BY <2>2
  <2>4. h \in [0..(n + 1) -> S]
    BY <2>3
  <2>5. h[0] = b
    BY <2>1
  <2>6. ASSUME NEW k \in 1..(n + 1) PROVE h[k] = g[k][h[k - 1]]
    <3>1. k - 1 \in 0..n /\ h[k - 1] = f[k - 1]
      OBVIOUS
    <3>2. CASE k <= n
      BY <2>1, <3>1, <3>2
    <3>3. CASE k = n + 1
      BY <3>1, <3>3
    <3>4. QED
      BY <3>2, <3>3
  <2> HIDE DEF h
  <2>7. Upto(n + 1, h) /\ n + 1 \in 0..N
    BY <2>5, <2>6
  <2>8. QED
    BY <2>4, <2>7
<1> HIDE DEF T
<1>3. 0..N \subseteq T
  BY <1>1, <1>2, UpTo
<1>4. N \in T
  BY <1>3
<1>5. QED
  BY <1>4 DEF T, Iteration
=============================================================================
