---------------------------- MODULE ChainsProofs ----------------------------
(* What a list is that is followed from its first member, and what can be  *)
(* reached by the steps of a relation.                                     *)
EXTENDS Chains, Walks, Sequences, FiniteSetTheorems, WellFoundedInduction, TLAPS

\* A set of numbers has a least one.
LEMMA NatLeast ==
  ASSUME NEW T \in SUBSET Nat, T # {}
  PROVE  \E x \in T : \A y \in T : x <= y
<1> DEFINE R == OpToRel(<, Nat)
<1>1. IsWellFoundedOn(R, Nat)
  BY NatLessThanWellFounded
<1>2. R = {ss \in Nat \X Nat : ss[1] < ss[2]}
  BY DEF OpToRel
<1> HIDE DEF R
<1>3. PICK x \in T : \A y \in T : ~(<<y, x>> \in R)
  BY <1>1, WFMin
<1>4. \A y \in T : x <= y
  <2> TAKE y \in T
  <2>1. x \in Nat /\ y \in Nat /\ ~(<<y, x>> \in R)
    BY <1>3
  <2>2. <<y, x>> \in Nat \X Nat
    BY <2>1
  <2>3. ~(y < x)
    BY <2>1, <2>2, <1>2
  <2> QED BY <2>1, <2>3
<1> QED BY <1>4

\* What holds of a number when it holds of all smaller ones holds of all.
LEMMA NatComplete ==
  ASSUME NEW P \in SUBSET Nat,
         \A m \in Nat : (\A k \in Nat : k < m => k \in P) => m \in P
  PROVE  P = Nat
<1> SUFFICES ASSUME Nat \ P # {} PROVE FALSE
  OBVIOUS
<1>1. PICK m \in Nat \ P : \A k \in Nat \ P : m <= k
  BY NatLeast
<1>2. \A k \in Nat : k < m => k \in P
  BY <1>1
<1> QED BY <1>1, <1>2

\* Each stage is made of the one before it.
Stages(at, n, first, step) ==
  at = [i \in 0 .. n |-> IF i = 0 THEN first ELSE step[i][at[i - 1]]]

LEMMA StagesExist ==
  ASSUME NEW first, NEW step, NEW n \in Nat
  PROVE  \E at : Stages(at, n, first, step)
<1> USE DEF Stages
<1> DEFINE P == {m \in Nat : \E at :
                   at = [i \in 0 .. m |-> IF i = 0 THEN first ELSE step[i][at[i - 1]]]}
<1>1. ASSUME NEW m \in Nat, \A k \in Nat : k < m => k \in P
      PROVE  \E at : at = [i \in 0 .. m |-> IF i = 0 THEN first ELSE step[i][at[i - 1]]]
  <2>1. CASE m = 0
    <3> DEFINE g == [i \in 0 .. m |-> first]
    <3>1. g = [i \in 0 .. m |-> IF i = 0 THEN first ELSE step[i][g[i - 1]]]
      BY <2>1
    <3> QED BY <3>1
  <2>2. CASE m # 0
    <3>1. m - 1 \in Nat /\ m - 1 < m
      BY <2>2
    <3>2. PICK g : g = [i \in 0 .. m - 1 |-> IF i = 0 THEN first ELSE step[i][g[i - 1]]]
      BY <1>1, <3>1
    <3> DEFINE h == [i \in 0 .. m |-> IF i = m THEN step[m][g[m - 1]] ELSE g[i]]
    <3>3. ASSUME NEW i \in 0 .. m
          PROVE  h[i] = IF i = 0 THEN first ELSE step[i][h[i - 1]]
      <4>1. CASE i = 0
        BY <4>1, <2>2, <3>2
      <4>2. CASE i # 0 /\ i # m
        <5>1. i \in 0 .. m - 1 /\ i - 1 \in 0 .. m - 1 /\ i - 1 # m /\ i - 1 \in 0 .. m
          BY <4>2
        <5>2. h[i] = g[i] /\ h[i - 1] = g[i - 1]
          BY <4>2, <5>1
        <5>3. g[i] = step[i][g[i - 1]]
          BY <3>2, <4>2, <5>1
        <5> QED BY <4>2, <5>2, <5>3
      <4>3. CASE i = m
        <5>1. i - 1 \in 0 .. m /\ i - 1 # m
          BY <2>2, <4>3
        <5>2. h[i] = step[m][g[m - 1]] /\ h[i - 1] = g[m - 1]
          BY <4>3, <5>1
        <5> QED BY <2>2, <4>3, <5>2
      <4> QED BY <4>1, <4>2, <4>3
    <3>4. h = [i \in 0 .. m |-> h[i]]
      OBVIOUS
    <3> HIDE DEF h
    <3>5. h = [i \in 0 .. m |-> IF i = 0 THEN first ELSE step[i][h[i - 1]]]
      BY <3>3, <3>4
    <3> QED BY <3>5
  <2> QED BY <2>1, <2>2
<1>2. \A m \in Nat : (\A k \in Nat : k < m => k \in P) => m \in P
  BY <1>1
<1>3. P \in SUBSET Nat
  OBVIOUS
<1>4. n \in P
  <2> HIDE DEF P
  <2> QED BY <1>2, <1>3, NatComplete
<1> QED BY <1>4

Follows(at, n, first, step) ==
  at = [i \in 0 .. n |-> IF i = 0 THEN first ELSE step[at[i - 1]]]

LEMMA IteratesExist ==
  ASSUME NEW first, NEW step, NEW n \in Nat
  PROVE  \E at : Follows(at, n, first, step)
<1>1. PICK steps : steps = [i \in 1 .. n |-> step]
  OBVIOUS
<1>2. PICK at : Stages(at, n, first, steps)
  BY StagesExist
<1>3. \A i \in 0 .. n : i # 0 => steps[i] = step
  BY <1>1
<1>4. Follows(at, n, first, step)
  BY <1>2, <1>3 DEF Stages, Follows
<1> QED BY <1>4

\* The equations of Iterates.
LEMMA IteratesAre ==
  ASSUME NEW first, NEW step, NEW n \in Nat
  PROVE  /\ Iterates(n, first, step)[0] = first
         /\ \A i \in 1 .. n :
              Iterates(n, first, step)[i] = step[Iterates(n, first, step)[i - 1]]
<1> DEFINE at == Iterates(n, first, step)
<1>1. at = CHOOSE g : Follows(g, n, first, step)
  BY DEF Iterates, Follows
<1>2. \E g : Follows(g, n, first, step)
  BY IteratesExist
<1>3. at = [i \in 0 .. n |-> IF i = 0 THEN first ELSE step[at[i - 1]]]
  <2>1. Follows(at, n, first, step)
    BY <1>1, <1>2
  <2> HIDE DEF at
  <2> QED BY <2>1 DEF Follows
<1> HIDE DEF at
<1>4. at[0] = first /\ \A i \in 1 .. n : at[i] = step[at[i - 1]]
  <2>1. 0 \in 0 .. n /\ \A i \in 1 .. n : i \in 0 .. n /\ i # 0
    OBVIOUS
  <2> QED BY <1>3, <2>1
<1> QED BY <1>4 DEF at

\* A sequence without repetitions is no longer than the set of its members.
LEMMA Short ==
  ASSUME NEW S, IsFiniteSet(S), NEW q \in Seq(S),
         \A i, j \in 1 .. Len(q) : q[i] = q[j] => i = j
  PROVE  Len(q) <= Cardinality(S)
<1>1. Len(q) \in Nat /\ q \in [1 .. Len(q) -> S]
  OBVIOUS
<1>2. q \in Injection(1 .. Len(q), S)
  BY <1>1 DEF Injection, IsInjective
<1>3. Cardinality(1 .. Len(q)) <= Cardinality(S)
  BY <1>2, FS_Injection
<1>4. Cardinality(1 .. Len(q)) = Len(q)
  BY <1>1, FS_Interval
<1> QED BY <1>3, <1>4

\* q is what is listed from first on when step leads through it to null.
LEMMA ListIs ==
  ASSUME NEW n \in Nat, NEW S, NEW null, null \notin S, NEW step, step[null] = null,
         NEW q \in Seq(S), Len(q) <= n,
         NEW first, q = <<>> => first = null, q # <<>> => first = q[1],
         \A i \in 1 .. Len(q) - 1 : step[q[i]] = q[i + 1],
         q # <<>> => step[q[Len(q)]] = null
  PROVE  Listed(n, first, step, null) = q
<1> DEFINE at == Iterates(n, first, step)
           len == Cardinality({k \in 0 .. n - 1 : at[k] # null})
<1>1. /\ at[0] = first
      /\ \A i \in 1 .. n : at[i] = step[at[i - 1]]
  BY IteratesAre
<1>2. Listed(n, first, step, null) = [i \in 1 .. len |-> at[i - 1]]
  BY DEF Listed
<1>3. /\ Len(q) \in Nat /\ q = [i \in 1 .. Len(q) |-> q[i]]
      /\ \A i \in 1 .. Len(q) : q[i] \in S
      /\ q = <<>> <=> Len(q) = 0
  OBVIOUS
<1> HIDE DEF at
<1>4. \A i \in 0 .. n : at[i] = IF i < Len(q) THEN q[i + 1] ELSE null
  <2> DEFINE P == {m \in Nat : m <= n => at[m] = IF m < Len(q) THEN q[m + 1] ELSE null}
  <2>1. ASSUME NEW m \in Nat, \A k \in Nat : k < m => k \in P, m <= n
        PROVE  at[m] = IF m < Len(q) THEN q[m + 1] ELSE null
    <3>1. CASE m = 0
      BY <3>1, <1>1, <1>3
    <3>2. CASE m # 0
      <4>1. m - 1 \in Nat /\ m - 1 < m /\ m \in 1 .. n /\ m - 1 <= n
        BY <2>1, <3>2
      <4>2. at[m - 1] = IF m - 1 < Len(q) THEN q[m] ELSE null
        <5>1. m - 1 \in P
          BY <2>1, <4>1
        <5> QED BY <4>1, <5>1
      <4>3. at[m] = step[at[m - 1]]
        BY <1>1, <4>1
      <4>4. CASE m < Len(q)
        <5>1. m \in 1 .. Len(q) - 1 /\ m - 1 < Len(q)
          BY <4>1, <4>4, <1>3
        <5> QED BY <4>2, <4>3, <4>4, <5>1
      <4>5. CASE m = Len(q)
        <5>1. q # <<>> /\ m - 1 < Len(q)
          BY <4>1, <4>5, <1>3, <3>2
        <5> QED BY <4>2, <4>3, <4>5, <5>1
      <4>6. CASE m > Len(q)
        <5>1. ~(m - 1 < Len(q)) /\ ~(m < Len(q))
          BY <4>1, <4>6, <1>3
        <5> QED BY <4>2, <4>3, <5>1
      <4> QED BY <4>4, <4>5, <4>6, <1>3
    <3> QED BY <3>1, <3>2
  <2>2. \A m \in Nat : (\A k \in Nat : k < m => k \in P) => m \in P
    BY <2>1
  <2>3. P = Nat
    <3>1. P \in SUBSET Nat
      OBVIOUS
    <3> HIDE DEF P
    <3> QED BY <2>2, <3>1, NatComplete
  <2> QED BY <2>3
<1>5. len = Len(q)
  <2>1. {k \in 0 .. n - 1 : at[k] # null} = 0 .. Len(q) - 1
    <3>1. \A k \in 0 .. n - 1 : at[k] # null <=> k < Len(q)
      <4> TAKE k \in 0 .. n - 1
      <4>1. k \in 0 .. n
        OBVIOUS
      <4>2. CASE k < Len(q)
        <5>1. k + 1 \in 1 .. Len(q)
          BY <4>2, <1>3
        <5>2. at[k] = q[k + 1]
          BY <4>1, <4>2, <1>4
        <5> QED BY <4>2, <5>1, <5>2, <1>3
      <4>3. CASE ~(k < Len(q))
        BY <4>1, <4>3, <1>4
      <4> QED BY <4>2, <4>3
    <3> QED BY <3>1, <1>3
  <2>2. Cardinality(0 .. Len(q) - 1) = Len(q)
    <3>1. 0 \in Int /\ Len(q) - 1 \in Int
      BY <1>3
    <3>2. Cardinality(0 .. Len(q) - 1)
            = IF 0 <= Len(q) - 1 THEN (Len(q) - 1) - 0 + 1 ELSE 0
      BY ONLY <3>1, FS_Interval
    <3> QED BY <1>3, <3>2
  <2> QED BY <2>1, <2>2
<1> HIDE DEF len
<1>6. \A i \in 1 .. Len(q) : at[i - 1] = q[i]
  <2> TAKE i \in 1 .. Len(q)
  <2>1. i - 1 \in 0 .. n /\ i - 1 < Len(q) /\ (i - 1) + 1 = i
    BY <1>3
  <2> QED BY <2>1, <1>4
<1> QED BY <1>2, <1>3, <1>5, <1>6

-----------------------------------------------------------------------------
(* Reach.                                                                  *)

LEMMA ReachIn == ASSUME NEW U, NEW start, NEW step PROVE Reach(U, start, step) \subseteq U
BY DEF Reach

LEMMA ReachStart ==
  ASSUME NEW U, NEW start, NEW step, NEW x \in start, x \in U
  PROVE  x \in Reach(U, start, step)
BY DEF Reach

LEMMA ReachClosed ==
  ASSUME NEW U, NEW start, NEW step, NEW x \in Reach(U, start, step),
         NEW y \in U, <<x, y>> \in step
  PROVE  y \in Reach(U, start, step)
<1> SUFFICES ASSUME NEW S \in SUBSET (U \ {y}), start \subseteq S
             PROVE  \E p \in step : p[1] \in S /\ p[2] \notin S
  BY DEF Reach
<1>1. CASE x \in S
  <2>1. <<x, y>>[1] \in S /\ <<x, y>>[2] \notin S
    BY <1>1
  <2> QED BY <2>1
<1>2. CASE x \notin S
  <2>1. S \in SUBSET (U \ {x})
    BY <1>2
  <2> QED BY <2>1 DEF Reach
<1> QED BY <1>1, <1>2

LEMMA ReachLeast ==
  ASSUME NEW U, NEW start \in SUBSET U, NEW step \in SUBSET (U \X U), NEW T,
         start \subseteq T,
         \A p \in step : p[1] \in T => p[2] \in T
  PROVE  Reach(U, start, step) \subseteq T
<1> SUFFICES ASSUME NEW x \in Reach(U, start, step), x \notin T PROVE FALSE
  OBVIOUS
<1>1. T \cap U \in SUBSET (U \ {x}) /\ start \subseteq T \cap U
  OBVIOUS
<1>2. PICK p \in step : p[1] \in T \cap U /\ p[2] \notin T \cap U
  BY <1>1 DEF Reach
<1>3. p[2] \in U
  BY <1>2
<1> QED BY <1>2, <1>3

LEMMA ReachFrom ==
  ASSUME NEW U, NEW start, NEW step \in SUBSET (U \X U),
         NEW x \in Reach(U, start, step), x \notin start,
         start \subseteq U
  PROVE  \E y \in Reach(U, start, step) : <<y, x>> \in step
<1> DEFINE R == Reach(U, start, step)
           S == R \ {x}
<1>1. S \in SUBSET (U \ {x}) /\ start \subseteq S
  BY ReachIn, ReachStart
<1>2. PICK p \in step : p[1] \in S /\ p[2] \notin S
  BY <1>1 DEF Reach
<1>3. p = <<p[1], p[2]>> /\ p[1] \in U /\ p[2] \in U
  BY <1>2
<1>4. p[2] \in R
  BY <1>2, <1>3, ReachClosed
<1>5. p[2] = x
  BY <1>2, <1>4
<1> QED BY <1>2, <1>3, <1>5
=============================================================================
