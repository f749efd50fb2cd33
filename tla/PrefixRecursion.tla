--------------------------- MODULE PrefixRecursion ---------------------------
(***************************************************************************)
(* Induction over the natural numbers and over the positions of a          *)
(* sequence, said of sets, and what a function computes that is defined by *)
(* recursion over those positions: the lemmas under the proofs about the   *)
(* model's recursive functions.                                            *)
(***************************************************************************)
EXTENDS Integers, Sequences, WellFoundedInduction, TLAPS

Less == {p \in Nat \X Nat : p[1] < p[2]}

LEMMA LessIsWellFounded == IsWellFoundedOn(Less, Nat)
BY NatLessThanWellFounded DEF OpToRel, Less

\* A set of natural numbers has a least element.
LEMMA LeastElement ==
  ASSUME NEW S, S \subseteq Nat, S # {}
  PROVE  \E x \in S : \A y \in S : x <= y
<1>1. PICK x \in S : \A y \in S : <<y, x>> \notin Less
  BY LessIsWellFounded, WFMin
<1>2. ASSUME NEW y \in S PROVE x <= y
  <2>1. x \in Nat /\ y \in Nat /\ <<y, x>> \notin Less
    BY <1>1
  <2>2. ~ (y < x)
    BY <2>1 DEF Less
  <2> QED BY <2>1, <2>2
<1> QED BY <1>2

LEMMA NatSetInduction ==
  ASSUME NEW T, 0 \in T, \A n \in Nat : n \in T => n + 1 \in T
  PROVE  Nat \subseteq T
<1> SUFFICES ASSUME Nat \ T # {} PROVE FALSE
  OBVIOUS
<1>1. PICK x \in Nat \ T : \A y \in Nat \ T : x <= y
  BY LeastElement
<1>2. x # 0 /\ x - 1 \in Nat /\ (x - 1) + 1 = x /\ ~ (x <= x - 1)
  BY <1>1
<1>3. x - 1 \in T
  BY <1>1, <1>2
<1> QED BY <1>1, <1>2, <1>3

\* The same up to a bound.
LEMMA PrefixInduction ==
  ASSUME NEW N \in Nat, NEW T, 0 \in T, \A n \in 0 .. N - 1 : n \in T => n + 1 \in T
  PROVE  0 .. N \subseteq T
<1> DEFINE U == {n \in Nat : n <= N => n \in T}
<1>1. 0 \in U
  OBVIOUS
<1>2. \A n \in Nat : n \in U => n + 1 \in U
  OBVIOUS
<1>3. Nat \subseteq U
  <2> HIDE DEF U
  <2> QED BY <1>1, <1>2, NatSetInduction
<1> QED BY <1>3

-----------------------------------------------------------------------------
(* Functions on 0 .. N defined by recursion.  "step" is a function of a     *)
(* position and the value before it.                                        *)

StaysIn(S, N, step) == \A n \in 1 .. N : \A x \in S : step[<<n, x>>] \in S

Iterates(f, N, S, base, step) ==
  /\ f \in [0 .. N -> S]
  /\ f[0] = base
  /\ \A n \in 1 .. N : f[n] = step[<<n, f[n - 1]>>]

\* The function exists.
LEMMA IterationExists ==
  ASSUME NEW N \in Nat, NEW S, NEW base \in S, NEW step, StaysIn(S, N, step)
  PROVE  \E f : Iterates(f, N, S, base, step)
<1> DEFINE T == {k \in 0 .. N : \E f : Iterates(f, k, S, base, step)}
<1>1. 0 \in T
  <2>1. Iterates([i \in 0 .. 0 |-> base], 0, S, base, step)
    BY DEF Iterates
  <2> QED BY <2>1
<1>2. ASSUME NEW k \in 0 .. N - 1, k \in T PROVE k + 1 \in T
  <2>1. PICK f : Iterates(f, k, S, base, step)
    BY <1>2
  <2> DEFINE g == [i \in 0 .. k + 1 |-> IF i <= k THEN f[i] ELSE step[<<k + 1, f[k]>>]]
  <2>2. k + 1 \in 1 .. N /\ f[k] \in S /\ k \in Nat /\ f \in [0 .. k -> S]
    BY <2>1 DEF Iterates
  <2>3. step[<<k + 1, f[k]>>] \in S
    BY <2>2 DEF StaysIn
  <2>4. g \in [0 .. k + 1 -> S]
    BY <2>2, <2>3
  <2>5. g[0] = base
    BY <2>1, <2>2 DEF Iterates
  <2>6. ASSUME NEW n \in 1 .. k + 1 PROVE g[n] = step[<<n, g[n - 1]>>]
    <3>1. CASE n = k + 1
      <4>1. n - 1 = k /\ g[n] = step[<<k + 1, f[k]>>] /\ g[k] = f[k]
        BY <3>1, <2>2
      <4> QED BY <4>1, <3>1
    <3>2. CASE n # k + 1
      <4>1. n \in 1 .. k /\ g[n] = f[n] /\ g[n - 1] = f[n - 1]
        BY <3>2, <2>2
      <4> QED BY <4>1, <2>1 DEF Iterates
    <3> QED BY <3>1, <3>2
  <2>7. Iterates(g, k + 1, S, base, step)
    <3> HIDE DEF g
    <3> QED BY <2>4, <2>5, <2>6 DEF Iterates
  <2> QED BY <2>2, <2>7
<1>3. 0 .. N \subseteq T
  <2> HIDE DEF T
  <2> QED BY <1>1, <1>2, PrefixInduction
<1> QED BY <1>3

\* Whatever satisfies the recursion's equations is that function.
LEMMA IterationIsTyped ==
  ASSUME NEW N \in Nat, NEW S, NEW base \in S, NEW step, StaysIn(S, N, step),
         NEW f, f = [n \in 0 .. N |-> f[n]], f[0] = base,
         \A n \in 1 .. N : f[n - 1] \in S => f[n] = step[<<n, f[n - 1]>>]
  PROVE  Iterates(f, N, S, base, step)
<1> DEFINE T == {n \in 0 .. N : f[n] \in S}
<1>1. 0 \in T
  OBVIOUS
<1>2. ASSUME NEW n \in 0 .. N - 1, n \in T PROVE n + 1 \in T
  <2>1. n + 1 \in 1 .. N /\ (n + 1) - 1 = n /\ f[n] \in S
    BY <1>2
  <2>2. f[n + 1] = step[<<n + 1, f[n]>>]
    BY <2>1
  <2> QED BY <2>1, <2>2 DEF StaysIn
<1>3. 0 .. N \subseteq T
  <2> HIDE DEF T
  <2> QED BY <1>1, <1>2, PrefixInduction
<1>4. \A n \in 1 .. N : n - 1 \in 0 .. N
  OBVIOUS
<1>5. \A n \in 0 .. N : f[n] \in S
  BY <1>3
<1>6. f \in [0 .. N -> S]
  BY <1>5
<1> QED BY <1>4, <1>5, <1>6 DEF Iterates

=============================================================================
