------------------------------- MODULE Iteration -------------------------------
(***************************************************************************)
(* Facts about the natural numbers that the proofs of several modules      *)
(* need: a set of them has a least element, so a counterexample has a      *)
(* least one, and a loop that is run n times defines a function of n.      *)
(***************************************************************************)
EXTENDS Integers, WellFoundedInduction, TLAPS

LEMMA LeastExists ==
    ASSUME NEW S, S \subseteq Nat, S # {}
    PROVE  \E x \in S : \A y \in S : x <= y
<1>1. PICK x \in S : \A y \in S : ~(<<y, x>> \in OpToRel(<, Nat))
  BY NatLessThanWellFounded, WFMin, Zenon
<1>2. \A y \in S : <<y, x>> \in OpToRel(<, Nat) <=> y < x
  BY DEF OpToRel
<1>3. \A y \in S : ~(y < x)
  BY <1>1, <1>2, Zenon
<1>. QED BY <1>3

(* Induction: what holds of 0 and passes on to the next number leaves no
   number out. *)
LEMMA NoLeastMissing ==
    ASSUME NEW S, 0 \in S, \A n \in Nat : n \in S => n + 1 \in S
    PROVE  Nat \subseteq S
<1>. SUFFICES ASSUME Nat \ S # {} PROVE FALSE
  OBVIOUS
<1>1. PICK n \in Nat \ S : \A m \in Nat \ S : n <= m
  BY LeastExists
<1>2. n - 1 \in Nat /\ n - 1 \in S
  BY <1>1
<1>. QED BY <1>1, <1>2

-----------------------------------------------------------------------------
(* f is what a loop has made of base after up to n iterations. *)
Iterates(f, n, S, base, next) ==
    /\ f \in [0..n -> S]
    /\ f[0] = base
    /\ \A k \in Nat : k < n => f[k + 1] = next[<<k, f[k]>>]

LEMMA IteratesOnce ==
    ASSUME NEW S, NEW base \in S, NEW next \in [Nat \X S -> S],
           NEW n \in Nat, NEW f, Iterates(f, n, S, base, next)
    PROVE  \E g : Iterates(g, n + 1, S, base, next)
<1>. DEFINE g == [k \in 0..(n + 1) |-> IF k = n + 1 THEN next[<<n, f[n]>>] ELSE f[k]]
<1>1. f[n] \in S /\ next[<<n, f[n]>>] \in S
  BY DEF Iterates
<1>2. \A k \in 0..(n + 1) : k # n + 1 => k \in 0..n /\ f[k] \in S
  BY DEF Iterates
<1>3. g \in [0..(n + 1) -> S]
  BY <1>1, <1>2
<1>4. g[0] = base
  BY DEF Iterates
<1>5. ASSUME NEW k \in Nat, k < n + 1 PROVE g[k + 1] = next[<<k, g[k]>>]
  <2>1. k \in 0..(n + 1) /\ k + 1 \in 0..(n + 1) /\ k # n + 1
    BY <1>5
  <2>2. g[k] = f[k]
    BY <2>1
  <2>3. CASE k = n
    BY <2>1, <2>2, <2>3
  <2>4. CASE k < n
    <3>1. g[k + 1] = f[k + 1]
      BY <2>1, <2>4
    <3>. QED BY <2>2, <2>4, <3>1 DEF Iterates
  <2>. QED BY <1>5, <2>3, <2>4
<1>6. Iterates(g, n + 1, S, base, next)
  <2>. HIDE DEF g
  <2>. QED BY <1>3, <1>4, <1>5 DEF Iterates
<1>. QED BY <1>6

LEMMA IteratesExist ==
    ASSUME NEW S, NEW base \in S, NEW next \in [Nat \X S -> S]
    PROVE  \A n \in Nat : \E f : Iterates(f, n, S, base, next)
<1>. DEFINE Reached == {n \in Nat : \E f : Iterates(f, n, S, base, next)}
<1>1. 0 \in Reached
  <2>1. Iterates([k \in 0..0 |-> base], 0, S, base, next)
    BY DEF Iterates
  <2>. QED BY <2>1
<1>2. \A n \in Nat : n \in Reached => n + 1 \in Reached
  BY IteratesOnce
<1>3. Nat \subseteq Reached
  <2>. HIDE DEF Reached
  <2>. QED BY <1>1, <1>2, NoLeastMissing
<1>. QED BY <1>3

LEMMA IteratesAgree ==
    ASSUME NEW S, NEW base, NEW next, NEW n \in Nat, NEW m \in Nat, NEW f, NEW g,
           Iterates(f, n, S, base, next), Iterates(g, m, S, base, next)
    PROVE  \A k \in Nat : k <= n /\ k <= m => f[k] = g[k]
<1>. DEFINE Agreed == {k \in Nat : k <= n /\ k <= m => f[k] = g[k]}
<1>1. 0 \in Agreed
  BY DEF Iterates
<1>2. ASSUME NEW k \in Nat, k \in Agreed PROVE k + 1 \in Agreed
  <2>1. ASSUME k + 1 <= n, k + 1 <= m PROVE f[k + 1] = g[k + 1]
    <3>1. k < n /\ k < m /\ k <= n /\ k <= m
      BY <2>1
    <3>2. f[k] = g[k]
      BY <1>2, <3>1
    <3>3. f[k + 1] = next[<<k, f[k]>>] /\ g[k + 1] = next[<<k, g[k]>>]
      BY <3>1 DEF Iterates
    <3>. QED BY <3>2, <3>3
  <2>. QED BY <2>1
<1>3. Nat \subseteq Agreed
  <2>. HIDE DEF Agreed
  <2>. QED BY <1>1, <1>2, NoLeastMissing
<1>. QED BY <1>3

(* A loop defines a function of the number of its iterations. *)
IsIteration(f, S, base, next) ==
    /\ f \in [Nat -> S]
    /\ f[0] = base
    /\ \A n \in Nat : f[n + 1] = next[<<n, f[n]>>]

LEMMA IterationExists ==
    ASSUME NEW S, NEW base \in S, NEW next \in [Nat \X S -> S]
    PROVE  \E f : IsIteration(f, S, base, next)
<1>. DEFINE upTo(n) == CHOOSE g : Iterates(g, n, S, base, next)
            f       == [n \in Nat |-> upTo(n)[n]]
<1>1. \A n \in Nat : Iterates(upTo(n), n, S, base, next)
  BY IteratesExist
<1>. HIDE DEF upTo
<1>2. \A n \in Nat : upTo(n)[n] \in S
  BY <1>1 DEF Iterates
<1>3. f \in [Nat -> S] /\ f[0] = base
  BY <1>1, <1>2 DEF Iterates
<1>4. ASSUME NEW n \in Nat PROVE f[n + 1] = next[<<n, f[n]>>]
  <2>1. upTo(n + 1)[n + 1] = next[<<n, upTo(n + 1)[n]>>]
    <3>1. Iterates(upTo(n + 1), n + 1, S, base, next)
      BY <1>1
    <3>. QED BY <3>1 DEF Iterates
  <2>2. upTo(n + 1)[n] = upTo(n)[n]
    <3>1. Iterates(upTo(n + 1), n + 1, S, base, next) /\ Iterates(upTo(n), n, S, base, next)
      BY <1>1
    <3>2. n + 1 \in Nat /\ n <= n + 1 /\ n <= n
      OBVIOUS
    <3>. QED BY <3>1, <3>2, IteratesAgree
  <2>. QED BY <2>1, <2>2
<1>5. IsIteration(f, S, base, next)
  <2>. HIDE DEF f
  <2>. QED BY <1>3, <1>4 DEF IsIteration
<1>. QED BY <1>5
=============================================================================
