---------------------------- MODULE NatInduction ----------------------------
(***************************************************************************)
(* Induction over the natural numbers with sets instead of predicates,     *)
(* from the well-foundedness of the finite sets of natural numbers, and    *)
(* from it the existence of functions defined by recursion.                *)
(***************************************************************************)
EXTENDS Integers, TLAPS, FiniteSetTheorems, WellFoundedInduction

\* Every set of natural numbers that is not empty has a least member.
LEMMA Least ==
  ASSUME NEW S \in SUBSET Nat, S # {}
  PROVE  \E x \in S : \A y \in S : x <= y
<1> DEFINE Below(x) == 0 .. x
           T == {Below(x) : x \in S}
<1>1. \A x \in Nat : Below(x) \in FiniteSubsetsOf(Nat) /\ Below(x) \in SUBSET Nat
  BY FS_Interval DEF FiniteSubsetsOf
<1>2. T \subseteq FiniteSubsetsOf(Nat) /\ T # {}
  BY <1>1
<1>3. PICK t \in T : \A u \in T : <<u, t>> \notin StrictSubsetOrdering(Nat)
  BY <1>2, FS_StrictSubsetOrderingWellFounded, WFMin
<1>4. PICK x \in S : t = Below(x)
  BY <1>3
<1>5. ASSUME NEW y \in S PROVE ~(y < x)
  <2> SUFFICES ASSUME y < x PROVE FALSE
    OBVIOUS
  <2>1. Below(y) \subseteq Below(x) /\ Below(y) # Below(x)
    OBVIOUS
  <2>2. <<Below(y), Below(x)>> \in StrictSubsetOrdering(Nat)
    BY <1>1, <2>1 DEF StrictSubsetOrdering
  <2>3. QED
    BY <1>3, <1>4, <2>2
<1>6. QED
  BY <1>5

\* A set of natural numbers with 0 and the successor of each of its members.
LEMMA Induction ==
  ASSUME NEW S \in SUBSET Nat, 0 \in S, \A n \in S : n + 1 \in S
  PROVE  S = Nat
<1> SUFFICES ASSUME Nat \ S # {} PROVE FALSE
  OBVIOUS
<1>1. PICK x \in Nat \ S : \A y \in Nat \ S : x <= y
  BY Least
<1>2. x # 0 /\ x - 1 \in Nat /\ x - 1 \notin Nat \ S
  BY <1>1
<1>3. QED
  BY <1>2

\* The values of f from m to n are base and what step makes of each for the next.
Iterates(f, m, n, base, step) ==
  \A i \in m .. n : (i = m => f[i] = base) /\ (i # m => f[i] = step[i][f[i - 1]])

\* A function that is defined by its first value and by the step from each value to
\* the next one exists, with its values where they should be.
LEMMA Recursion ==
  ASSUME NEW m \in Nat, NEW n \in Nat, NEW V, NEW base \in V, NEW step \in [m .. n -> [V -> V]]
  PROVE  \E f \in [m .. n -> V] : Iterates(f, m, n, base, step)
<1> DEFINE Rule(f, i) == IF i = m THEN base ELSE step[i][f[i - 1]]
           Upto(k) == \E f \in [m .. k -> V] : \A i \in m .. k : f[i] = Rule(f, i)
           S == {k \in Nat : k <= n => Upto(k)}
<1>1. 0 \in S
  <2>1. CASE m = 0
    <3> DEFINE f == [i \in m .. 0 |-> base]
    <3>1. \A i \in m .. 0 : f[i] = Rule(f, i)
      BY <2>1
    <3>2. f \in [m .. 0 -> V]
      OBVIOUS
    <3> HIDE DEF f
    <3>3. QED
      BY <3>1, <3>2
  <2>2. CASE m # 0
    <3> DEFINE f == [i \in m .. 0 |-> base]
    <3>1. \A i \in m .. 0 : f[i] = Rule(f, i)
      BY <2>2
    <3>2. f \in [m .. 0 -> V]
      OBVIOUS
    <3> HIDE DEF f
    <3>3. QED
      BY <3>1, <3>2
  <2>3. QED
    BY <2>1, <2>2
<1>2. ASSUME NEW k \in S PROVE k + 1 \in S
  <2> SUFFICES ASSUME k + 1 <= n PROVE Upto(k + 1)
    OBVIOUS
  <2>1. PICK f \in [m .. k -> V] : \A i \in m .. k : f[i] = Rule(f, i)
    BY <1>2
  <2> DEFINE g == [i \in m .. k + 1 |-> IF i = m THEN base
                                        ELSE IF i = k + 1 THEN step[i][f[k]] ELSE f[i]]
  <2>2. ASSUME NEW i \in m .. k + 1 PROVE g[i] = Rule(g, i) /\ g[i] \in V
    <3>1. CASE i = m
      BY <3>1
    <3>2. CASE i # m /\ i # k + 1
      <4>1. i \in m .. k /\ i - 1 \in m .. k /\ i - 1 # k + 1 /\ i - 1 \in m .. k + 1
        BY <3>2
      <4>2. g[i] = f[i] /\ f[i] = Rule(f, i)
        BY <2>1, <3>2, <4>1
      <4>3. g[i - 1] = f[i - 1]
        BY <2>1, <4>1
      <4>4. QED
        BY <2>1, <3>2, <4>1, <4>2, <4>3
    <3>3. CASE i # m /\ i = k + 1
      <4>1. k \in m .. k /\ k \in m .. k + 1 /\ i - 1 = k /\ i \in m .. n
        BY <3>3
      <4>2. g[k] = f[k] /\ f[k] \in V
        BY <2>1, <4>1
      <4>3. g[i] = step[i][f[k]]
        BY <3>3
      <4>4. QED
        BY <3>3, <4>1, <4>2, <4>3
    <3>4. QED
      BY <3>1, <3>2, <3>3
  <2>3. (\A i \in m .. k + 1 : g[i] = Rule(g, i)) /\ g \in [m .. k + 1 -> V]
    BY <2>2
  <2> HIDE DEF g
  <2>4. QED
    BY <2>3
<1>3. S = Nat
  BY <1>1, <1>2, Induction
<1>4. n \in S
  BY <1>3
<1> HIDE DEF Upto
<1>5. Upto(n)
  BY <1>4
<1>6. QED
  BY <1>5 DEF Upto, Iterates
=============================================================================
