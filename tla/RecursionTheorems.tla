------------------------- MODULE RecursionTheorems --------------------------
(***************************************************************************)
(* Induction over the prefixes of a list, in a form the provers can use:   *)
(* the property is a set of indices and the step of a fold is a function,  *)
(* so that nothing has to be instantiated by an operator.  The loops of    *)
(* the code are modelled as recursive functions on 0..N; these lemmas show *)
(* that such a function exists and what holds of it.                       *)
(***************************************************************************)
EXTENDS Integers, TLAPS, WellFoundedInduction

\* Every nonempty set of naturals has a least element.
LEMMA LeastNatural ==
  ASSUME NEW T, T \subseteq Nat, T # {}
  PROVE  \E n \in T : \A m \in T : n <= m
<1> DEFINE Less == {ss \in Nat \X Nat : ss[1] < ss[2]}
<1>1. IsWellFoundedOn(Less, Nat)
  BY NatLessThanWellFounded, Zenon DEF OpToRel
<1> HIDE DEF Less
<1>2. PICK x \in T : \A y \in T : ~(<<y, x>> \in Less)
  BY <1>1, WFMin
<1>3. \A y \in T : ~(y < x)
  BY <1>2 DEF Less
<1> QED
  BY <1>3

\* A set that contains 0 and, with each index, the next one contains all indices.
LEMMA PrefixInduction ==
  ASSUME NEW N \in Nat, NEW T, 0 \in T, \A i \in 1..N : i - 1 \in T => i \in T
  PROVE  \A i \in 0..N : i \in T
<1> DEFINE U == {i \in 0..N : i \notin T}
<1> SUFFICES ASSUME U # {} PROVE FALSE
  OBVIOUS
<1>1. PICK n \in U : \A m \in U : n <= m
  <2>1. U \subseteq Nat
    OBVIOUS
  <2> HIDE DEF U
  <2> QED
    BY <2>1, LeastNatural
<1>2. n \in 1..N /\ n - 1 \in 0..N
  OBVIOUS
<1>3. n - 1 \notin U
  <2> HIDE DEF U
  <2> QED
    BY <1>1, <1>2
<1> QED
  BY <1>2, <1>3

\* A nonempty set of indices has a greatest element.
LEMMA GreatestIndex ==
  ASSUME NEW N \in Nat, NEW T, T \subseteq 1..N, T # {}
  PROVE  \E n \in T : \A m \in T : m <= n
<1> DEFINE U == {N - i : i \in T}
<1>1. U \subseteq Nat /\ U # {}
  <2>1. \A i \in T : N - i \in Nat
    OBVIOUS
  <2>2. PICK i \in T : TRUE
    OBVIOUS
  <2>3. N - i \in U
    OBVIOUS
  <2> QED
    BY <2>1, <2>3
<1>2. PICK n \in U : \A m \in U : n <= m
  <2> HIDE DEF U
  <2> QED
    BY <1>1, LeastNatural
<1>3. PICK i \in T : n = N - i
  OBVIOUS
<1>4. \A m \in T : m <= i
  <2> SUFFICES ASSUME NEW m \in T PROVE m <= i
    OBVIOUS
  <2>1. N - m \in U
    OBVIOUS
  <2>2. n <= N - m
    <3> HIDE DEF U
    <3> QED
      BY <1>2, <2>1
  <2> QED
    BY <1>3, <2>2
<1> QED
  BY <1>4

\* do can be folded over N steps, from e.
HasFold(N, A, do, e) ==
  \E f \in [0..N -> A] : f[0] = e /\ \A i \in 1..N : f[i] = do[<<f[i - 1], i>>]

\* A fold over N steps exists.
LEMMA FoldExists ==
  ASSUME NEW N \in Nat, NEW A, NEW do \in [A \X (1..N) -> A], NEW e \in A
  PROVE  HasFold(N, A, do, e)
<1> DEFINE Good(n) == \E f \in [0..n -> A] :
                        f[0] = e /\ \A i \in 1..n : f[i] = do[<<f[i - 1], i>>]
           T == {n \in 0..N : Good(n)}
<1>1. 0 \in T
  <2> DEFINE f == [i \in 0..0 |-> e]
  <2>1. f \in [0..0 -> A] /\ f[0] = e /\ \A i \in 1..0 : f[i] = do[<<f[i - 1], i>>]
    OBVIOUS
  <2> HIDE DEF f
  <2>2. Good(0)
    BY <2>1
  <2> QED
    BY <2>2
<1>2. ASSUME NEW n \in 1..N, n - 1 \in T PROVE n \in T
  <2>1. PICK g \in [0..(n - 1) -> A] :
          g[0] = e /\ \A i \in 1..(n - 1) : g[i] = do[<<g[i - 1], i>>]
    BY <1>2
  <2> DEFINE f == [i \in 0..n |-> IF i < n THEN g[i] ELSE do[<<g[n - 1], n>>]]
  <2>2. do[<<g[n - 1], n>>] \in A
    <3>1. g[n - 1] \in A
      OBVIOUS
    <3>2. <<g[n - 1], n>> \in A \X (1..N)
      BY <3>1
    <3> QED
      BY <3>2
  <2>3. f \in [0..n -> A]
    <3>1. \A i \in 0..n : i < n => g[i] \in A
      OBVIOUS
    <3> QED
      BY <2>2, <3>1
  <2>4. f[0] = e
    BY <2>1
  <2>5. ASSUME NEW i \in 1..n PROVE f[i] = do[<<f[i - 1], i>>]
    <3>1. f[i - 1] = g[i - 1]
      OBVIOUS
    <3>2. i < n => g[i] = do[<<g[i - 1], i>>]
      BY <2>1
    <3>3. ~(i < n) => i = n
      OBVIOUS
    <3>4. f[i] = IF i < n THEN g[i] ELSE do[<<g[n - 1], n>>]
      OBVIOUS
    <3> HIDE DEF f
    <3> QED
      BY <3>1, <3>2, <3>3, <3>4
  <2> HIDE DEF f
  <2>6. Good(n)
    BY <2>3, <2>4, <2>5
  <2> QED
    BY <2>6
<1>3. N \in T
  <2> HIDE DEF T
  <2> QED
    BY <1>1, <1>2, PrefixInduction
<1> QED
  BY <1>3 DEF HasFold
=============================================================================
