----------------------------- MODULE Iteration -----------------------------
(***************************************************************************)
(* Loops as functions of their passes, f[0] what they begin with and f[k]  *)
(* the outcome of the k-th pass. Such a function is there, and what every  *)
(* pass keeps holds at the end: by the least pass that would break it.     *)
(***************************************************************************)
EXTENDS Integers, WellFoundedInduction, NaturalsInduction, TLAPS

\* Every non-empty set of numbers has a least one.
LEMMA Least ==
  ASSUME NEW T \in SUBSET Nat, T # {}
  PROVE  \E x \in T : \A y \in T : x <= y
<1> DEFINE R == OpToRel(<, Nat)
<1>1. IsWellFoundedOn(R, Nat)
  BY NatLessThanWellFounded
<1>2. PICK x \in T : \A y \in T : ~ (<<y, x>> \in R)
  BY <1>1, WFMin
<1>3. \A y \in T : <<y, x>> \in R <=> y < x
  BY DEF OpToRel
<1> HIDE DEF R
<1>4. \A y \in T : x <= y
  <2> TAKE y \in T
  <2>1. ~ (y < x) /\ x \in Nat /\ y \in Nat
    BY <1>2, <1>3
  <2> QED BY <2>1
<1> QED BY <1>4

\* Where the beginning is in S[0], and a pass leads from S[k - 1] to S[k], every pass is.
LEMMA KeptAt ==
  ASSUME NEW S, NEW f, NEW n \in Nat, f[0] \in S[0],
         \A k \in 1 .. n : f[k - 1] \in S[k - 1] => f[k] \in S[k]
  PROVE  \A k \in 0 .. n : f[k] \in S[k]
<1> DEFINE T == {k \in 0 .. n : f[k] \notin S[k]}
<1> SUFFICES ASSUME T # {} PROVE FALSE
  OBVIOUS
<1>1. T \in SUBSET Nat
  OBVIOUS
<1>2. PICK x \in T : \A y \in T : x <= y
  BY <1>1, Least
<1>3. x # 0
  OBVIOUS
<1>4. x \in 1 .. n /\ x - 1 \in 0 .. n /\ x - 1 < x
  BY <1>3
<1>5. x - 1 \notin T
  BY <1>2, <1>4
<1>6. f[x - 1] \in S[x - 1]
  BY <1>4, <1>5
<1> QED BY <1>4, <1>6

\* What the beginning has and every pass keeps, the end has.
LEMMA Kept ==
  ASSUME NEW S, NEW f, NEW n \in Nat, f[0] \in S,
         \A k \in 1 .. n : f[k - 1] \in S => f[k] \in S
  PROVE  \A k \in 0 .. n : f[k] \in S
<1> DEFINE C == [k \in 0 .. n |-> S]
<1>1. \A k \in 0 .. n : C[k] = S
  OBVIOUS
<1>2. \A k \in 1 .. n : k - 1 \in 0 .. n /\ k \in 0 .. n
  OBVIOUS
<1> HIDE DEF C
<1>3. f[0] \in C[0] /\ \A k \in 1 .. n : f[k - 1] \in C[k - 1] => f[k] \in C[k]
  BY <1>1, <1>2
<1>4. \A k \in 0 .. n : f[k] \in C[k]
  BY <1>3, KeptAt
<1> QED BY <1>1, <1>4

\* f is what n passes of the loop G, from b on, lead to.
Runs(f, n, S, b, G) ==
  f \in [0 .. n -> S] /\ f[0] = b /\ \A k \in 1 .. n : f[k] = G[<<k, f[k - 1]>>]

\* The passes of a loop make a function.
LEMMA Passes ==
  ASSUME NEW S, NEW b \in S, NEW n \in Nat, NEW G \in [(1 .. n) \X S -> S]
  PROVE  \E f : Runs(f, n, S, b, G)
<1> DEFINE Good(m, f) == f \in [0 .. m -> S] /\ f[0] = b /\ \A k \in 1 .. m : f[k] = G[<<k, f[k - 1]>>]
           T == {m \in 0 .. n : ~ \E f \in [0 .. m -> S] : Good(m, f)}
<1>1. T = {}
  <2> SUFFICES ASSUME T # {} PROVE FALSE
    OBVIOUS
  <2>1. T \in SUBSET Nat
    OBVIOUS
  <2>2. PICK m \in T : \A y \in T : m <= y
    BY <2>1, Least
  <2>3. m # 0
    <3> DEFINE z == [k \in 0 .. 0 |-> b]
    <3>1. z \in [0 .. 0 -> S] /\ z[0] = b
      OBVIOUS
    <3>2. Good(0, z)
      BY <3>1
    <3> QED BY <3>1, <3>2
  <2>4. m \in 1 .. n /\ m - 1 \in 0 .. n /\ m - 1 < m
    BY <2>3
  <2>5. m - 1 \notin T
    BY <2>2, <2>4
  <2>6. PICK f \in [0 .. m - 1 -> S] : Good(m - 1, f)
    BY <2>4, <2>5
  <2> DEFINE g == [k \in 0 .. m |-> IF k = m THEN G[<<m, f[m - 1]>>] ELSE f[k]]
  <2>7. f[m - 1] \in S /\ G[<<m, f[m - 1]>>] \in S
    BY <2>4
  <2>8. g \in [0 .. m -> S]
    <3>1. \A k \in 0 .. m : k # m => k \in 0 .. m - 1
      BY <2>4
    <3> QED BY <2>7, <3>1
  <2>9. g[0] = b
    BY <2>4, <2>6
  <2>10. ASSUME NEW k \in 1 .. m PROVE g[k] = G[<<k, g[k - 1]>>]
    <3>1. k \in 0 .. m /\ k - 1 \in 0 .. m /\ k - 1 # m
      BY <2>4
    <3>2. g[k - 1] = f[k - 1]
      BY <3>1
    <3>3. CASE k = m
      BY <3>1, <3>2, <3>3
    <3>4. CASE k # m
      <4>1. k \in 1 .. m - 1
        BY <2>4, <3>4
      <4>2. f[k] = G[<<k, f[k - 1]>>]
        BY <2>6, <4>1
      <4> QED BY <3>1, <3>2, <3>4, <4>2
    <3> QED BY <3>3, <3>4
  <2>11. Good(m, g)
    BY <2>8, <2>9, <2>10
  <2> QED BY <2>8, <2>11, <2>2
<1>2. n \notin T
  BY <1>1
<1>3. PICK f \in [0 .. n -> S] : Good(n, f)
  BY <1>2
<1> QED BY <1>3 DEF Runs
=============================================================================
