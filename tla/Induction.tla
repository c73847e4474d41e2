----------------------------- MODULE Induction -----------------------------
(***************************************************************************)
(* Induction over the natural numbers, and over the rounds of a loop.  The  *)
(* induction theorems of the library are about operators; those below are   *)
(* about sets and functions, and rest on its theorem that less-than on the  *)
(* natural numbers is well-founded.                                         *)
(***************************************************************************)
EXTENDS Iteration, TLAPS, WellFoundedInduction

Less == {p \in Nat \X Nat : p[1] < p[2]}

LEMMA LessIsWellFounded == IsWellFoundedOn(Less, Nat)
  BY NatLessThanWellFounded DEF Less, OpToRel

\* A nonempty set of natural numbers has a least element.
LEMMA Least ==
  ASSUME NEW T \in SUBSET Nat, T # {}
  PROVE  \E x \in T : \A y \in T : x <= y
<1>1. PICK x \in T : \A y \in T : ~(<<y, x>> \in Less)
  BY LessIsWellFounded, WFMin
<1>2. ASSUME NEW y \in T PROVE x <= y
  <2>1. x \in Nat /\ y \in Nat
    OBVIOUS
  <2>2. <<y, x>> \notin Less
    BY <1>1
  <2>3. ~(y < x)
    BY <2>1, <2>2 DEF Less
  <2>4. QED BY <2>1, <2>3
<1>3. QED
  BY <1>2

\* A set that has 0 and, with each number, the next has all.
LEMMA SetInduction ==
  ASSUME NEW S, 0 \in S, \A n \in Nat : n \in S => n + 1 \in S
  PROVE  Nat \subseteq S
<1> DEFINE T == {n \in Nat : n \notin S}
<1> SUFFICES ASSUME T # {} PROVE FALSE
  OBVIOUS
<1>1. PICK x \in T : \A y \in T : x <= y
  BY Least
<1>2. x # 0 /\ x - 1 \in Nat /\ x \in Nat /\ (x - 1) + 1 = x
  OBVIOUS
<1>3. x - 1 \in S
  BY <1>1, <1>2
<1>4. QED
  BY <1>2, <1>3

\* The same up to n.
LEMMA UpTo ==
  ASSUME NEW n \in Nat, NEW S, 0 \in S, \A i \in 0 .. n - 1 : i \in S => i + 1 \in S
  PROVE  0 .. n \subseteq S
<1> DEFINE T == {i \in Nat : i <= n => i \in S}
<1>1. 0 \in T
  OBVIOUS
<1>2. \A i \in Nat : i \in T => i + 1 \in T
  OBVIOUS
<1>3. Nat \subseteq T
  <2> HIDE DEF T
  <2> QED BY <1>1, <1>2, SetInduction
<1>4. QED
  BY <1>3
-----------------------------------------------------------------------------
(* Loops *)

\* The rounds of a loop with states in V.
Steps(V, n) == [1 .. n -> [V -> V]]
SameSteps(V, step, next, m) == \A v \in V : \A i \in 1 .. m : step[i][v] = next[i][v]

\* What a loop has computed after each round.
IsRun(f, V, a, step, n) ==
  /\ f \in [0 .. n -> V]
  /\ f[0] = a
  /\ \A i \in 0 .. n - 1 : f[i + 1] = step[i + 1][f[i]]

\* A loop has a run: the recursive definition of Iterate defines something.
LEMMA RunsExist ==
  ASSUME NEW n \in Nat, NEW V, NEW a \in V, NEW step \in Steps(V, n)
  PROVE  \E f : IsRun(f, V, a, step, n)
<1> USE DEF Steps, IsRun
<1> DEFINE S == {m \in 0 .. n : \E f : IsRun(f, V, a, step, m)}
<1>1. 0 \in S
  <2>1. IsRun([i \in 0 .. 0 |-> a], V, a, step, 0)
    OBVIOUS
  <2> HIDE DEF IsRun
  <2>2. \E f : IsRun(f, V, a, step, 0)
    BY <2>1
  <2>3. QED
    BY <2>2
<1>2. ASSUME NEW m \in 0 .. n - 1, m \in S PROVE m + 1 \in S
  <2>1. PICK f : IsRun(f, V, a, step, m)
    BY <1>2
  <2> DEFINE g == [i \in 0 .. m + 1 |-> IF i = m + 1 THEN step[m + 1][f[m]] ELSE f[i]]
  <2>2. step[m + 1][f[m]] \in V
    BY <2>1
  <2>3. g \in [0 .. m + 1 -> V] /\ g[0] = a
    BY <2>1, <2>2
  <2>4. ASSUME NEW i \in 0 .. m PROVE g[i + 1] = step[i + 1][g[i]]
    <3>1. g[i] = f[i] /\ i \in 0 .. m
      OBVIOUS
    <3>2. CASE i = m
      BY <3>1, <3>2
    <3>3. CASE i # m
      <4>1. i \in 0 .. m - 1 /\ g[i + 1] = f[i + 1]
        BY <3>3
      <4>2. QED BY <2>1, <3>1, <4>1
    <3>4. QED BY <3>2, <3>3
  <2> HIDE DEF g
  <2>5. IsRun(g, V, a, step, m + 1)
    BY <2>3, <2>4
  <2>6. QED BY <2>5
<1>3. 0 .. n \subseteq S
  <2> HIDE DEF S
  <2> QED BY <1>1, <1>2, UpTo
<1>4. QED
  BY <1>3

IsIterate(f, a, step, n) ==
  f = [i \in 0 .. n |-> IF i = 0 THEN a ELSE step[i][f[i - 1]]]

LEMMA IterateIsChosen ==
  ASSUME NEW n, NEW a, NEW step, NEW g, IsIterate(g, a, step, n)
  PROVE  IsIterate(Iterate(a, step, n), a, step, n)
  BY DEF IsIterate, Iterate

\* What Iterate is.
LEMMA Iterates ==
  ASSUME NEW n \in Nat, NEW V, NEW a \in V, NEW step \in Steps(V, n)
  PROVE  IsRun(Iterate(a, step, n), V, a, step, n)
<1> DEFINE f == Iterate(a, step, n)
<1>1. IsIterate(f, a, step, n)
  <2>1. PICK g : IsRun(g, V, a, step, n)
    BY RunsExist
  <2>2. ASSUME NEW i \in 0 .. n PROVE g[i] = IF i = 0 THEN a ELSE step[i][g[i - 1]]
    <3>1. CASE i = 0
      BY <2>1, <3>1 DEF IsRun
    <3>2. CASE i # 0
      <4>1. i - 1 \in 0 .. n - 1 /\ (i - 1) + 1 = i
        BY <3>2
      <4>2. QED BY <2>1, <3>2, <4>1 DEF IsRun
    <3>3. QED BY <3>1, <3>2
  <2>3. IsIterate(g, a, step, n)
    BY <2>1, <2>2 DEF IsRun, IsIterate
  <2>4. QED BY <2>3, IterateIsChosen
<1> HIDE DEF f
<1>2. f = [i \in 0 .. n |-> IF i = 0 THEN a ELSE step[i][f[i - 1]]]
  BY <1>1 DEF IsIterate
<1>3. /\ DOMAIN f = 0 .. n /\ f[0] = a
      /\ \A i \in 0 .. n - 1 : f[i + 1] = step[i + 1][f[i]]
  <2>1. DOMAIN f = 0 .. n
    BY <1>2
  <2>2. f[0] = a
    BY <1>2
  <2>3. ASSUME NEW i \in 0 .. n - 1 PROVE f[i + 1] = step[i + 1][f[i]]
    <3>1. i + 1 \in 0 .. n /\ i + 1 # 0 /\ (i + 1) - 1 = i
      OBVIOUS
    <3>2. \A j \in 0 .. n : f[j] = IF j = 0 THEN a ELSE step[j][f[j - 1]]
      BY <1>2
    <3>3. f[i + 1] = step[i + 1][f[(i + 1) - 1]]
      BY <3>1, <3>2
    <3>4. QED BY <3>1, <3>3
  <2>4. QED BY <2>1, <2>2, <2>3
<1> DEFINE S == {i \in 0 .. n : f[i] \in V}
<1>4. 0 \in S
  BY <1>3
<1>5. \A i \in 0 .. n - 1 : i \in S => i + 1 \in S
  BY <1>3 DEF Steps
<1>6. 0 .. n \subseteq S
  <2> HIDE DEF S
  <2> QED BY <1>4, <1>5, UpTo
<1>7. IsRun(f, V, a, step, n)
  BY <1>2, <1>3, <1>6 DEF IsRun
<1>8. QED
  BY <1>7 DEF f

Agree(f, g, m) == \A i \in 0 .. m : f[i] = g[i]

\* Loops with the same first rounds have computed the same after these.
LEMMA SameRounds ==
  ASSUME NEW m \in Nat, NEW n \in Nat, m <= n, NEW V, NEW a \in V,
         NEW step, NEW next, SameSteps(V, step, next, m),
         NEW f, NEW g, IsRun(f, V, a, step, m), IsRun(g, V, a, next, n)
  PROVE  Agree(f, g, m)
<1> DEFINE S == {i \in 0 .. m : f[i] = g[i]}
<1>1. 0 \in S
  BY DEF IsRun
<1>2. \A i \in 0 .. m - 1 : i \in S => i + 1 \in S
  BY DEF IsRun, SameSteps
<1>3. 0 .. m \subseteq S
  <2> HIDE DEF S
  <2> QED BY <1>1, <1>2, UpTo
<1>4. QED
  BY <1>3 DEF Agree
-----------------------------------------------------------------------------
(* Powers *)

\* The rounds of Power.
Multiply(b, n) == [i \in 1 .. n |-> [p \in Nat |-> p * b]]

LEMMA PowerRuns ==
  ASSUME NEW b \in Nat, NEW n \in Nat
  PROVE  /\ IsRun(Iterate(1, Multiply(b, n), n), Nat, 1, Multiply(b, n), n)
         /\ Power(b, n) = Iterate(1, Multiply(b, n), n)[n]
<1>1. Multiply(b, n) \in Steps(Nat, n) /\ 1 \in Nat
  BY DEF Multiply, Steps
<1>2. QED
  BY <1>1, Iterates DEF Power, Multiply

LEMMA PowerType ==
  ASSUME NEW b \in Nat, NEW n \in Nat
  PROVE  Power(b, n) \in Nat
<1>1. /\ IsRun(Iterate(1, Multiply(b, n), n), Nat, 1, Multiply(b, n), n)
      /\ Power(b, n) = Iterate(1, Multiply(b, n), n)[n]
  BY PowerRuns
<1>2. QED
  BY <1>1 DEF IsRun

LEMMA PowerZero ==
  ASSUME NEW b \in Nat
  PROVE  Power(b, 0) = 1
  BY PowerRuns DEF IsRun

LEMMA PowerNext ==
  ASSUME NEW b \in Nat, NEW n \in Nat
  PROVE  Power(b, n + 1) = Power(b, n) * b
<1> DEFINE f == Iterate(1, Multiply(b, n), n)
           g == Iterate(1, Multiply(b, n + 1), n + 1)
<1>1. /\ IsRun(f, Nat, 1, Multiply(b, n), n) /\ Power(b, n) = f[n]
      /\ IsRun(g, Nat, 1, Multiply(b, n + 1), n + 1) /\ Power(b, n + 1) = g[n + 1]
  <2>1. n + 1 \in Nat
    OBVIOUS
  <2>2. QED BY <2>1, PowerRuns
<1>2. SameSteps(Nat, Multiply(b, n), Multiply(b, n + 1), n)
  BY DEF SameSteps, Multiply
<1> HIDE DEF f, g
<1>3. f[n] = g[n]
  <2>1. ASSUME NEW k \in Nat, n <= k, NEW next, SameSteps(Nat, Multiply(b, n), next, n),
               IsRun(g, Nat, 1, next, k)
        PROVE  Agree(f, g, n)
    <3>1. 1 \in Nat /\ IsRun(f, Nat, 1, Multiply(b, n), n)
      BY <1>1
    <3>2. QED BY <2>1, <3>1, SameRounds
  <2>2. n + 1 \in Nat /\ n <= n + 1 /\ n \in 0 .. n
    OBVIOUS
  <2>3. QED BY <1>1, <1>2, <2>1, <2>2 DEF Agree
<1>4. g[n + 1] = Multiply(b, n + 1)[n + 1][g[n]] /\ g[n] \in Nat
  BY <1>1 DEF IsRun
<1>5. QED
  BY <1>1, <1>3, <1>4 DEF Multiply

LEMMA PowerPlus ==
  ASSUME NEW b \in Nat, NEW m \in Nat, NEW k \in Nat
  PROVE  Power(b, m + k) = Power(b, m) * Power(b, k)
<1> DEFINE S == {i \in Nat : Power(b, m + i) = Power(b, m) * Power(b, i)}
<1>1. 0 \in S
  <2>1. Power(b, m) \in Nat
    BY PowerType
  <2>2. Power(b, 0) = 1 /\ m + 0 = m
    BY PowerZero
  <2>3. QED BY <2>1, <2>2
<1>2. ASSUME NEW i \in Nat, i \in S PROVE i + 1 \in S
  <2>1. m + i \in Nat /\ m + (i + 1) = (m + i) + 1
    OBVIOUS
  <2>2. Power(b, (m + i) + 1) = Power(b, m + i) * b /\ Power(b, i + 1) = Power(b, i) * b
    BY <2>1, PowerNext
  <2>3. Power(b, m) \in Nat /\ Power(b, i) \in Nat
    BY PowerType
  <2>4. Power(b, m + (i + 1)) = (Power(b, m) * Power(b, i)) * b
    BY <1>2, <2>1, <2>2
  <2>5. \A x, y \in Nat : (x * y) * b = x * (y * b)
    OBVIOUS
  <2>6. Power(b, m + (i + 1)) = Power(b, m) * Power(b, i + 1)
    BY <2>2, <2>3, <2>4, <2>5
  <2>7. QED BY <2>6
<1>3. Nat \subseteq S
  <2> HIDE DEF S
  <2> QED BY <1>1, <1>2, SetInduction
<1>4. QED
  BY <1>3

LEMMA PowerPositive ==
  ASSUME NEW b \in Nat \ {0}, NEW n \in Nat
  PROVE  Power(b, n) \in Nat /\ Power(b, n) >= 1
<1> DEFINE S == {i \in Nat : Power(b, i) >= 1}
<1>1. 0 \in S
  BY PowerZero
<1>2. ASSUME NEW i \in Nat, i \in S PROVE i + 1 \in S
  <2>1. Power(b, i + 1) = Power(b, i) * b /\ Power(b, i) \in Nat
    BY PowerNext, PowerType
  <2>2. \A x \in Nat : x >= 1 => x * b >= 1
    OBVIOUS
  <2>3. Power(b, i + 1) >= 1
    BY <1>2, <2>1, <2>2
  <2>4. QED BY <2>3
<1>3. Nat \subseteq S
  <2> HIDE DEF S
  <2> QED BY <1>1, <1>2, SetInduction
<1>4. QED
  BY <1>3, PowerType

LEMMA PowerGrows ==
  ASSUME NEW b \in Nat \ {0}, NEW m \in Nat, NEW n \in Nat, m <= n
  PROVE  Power(b, m) <= Power(b, n)
<1>1. n - m \in Nat /\ m + (n - m) = n
  OBVIOUS
<1>2. Power(b, m + (n - m)) = Power(b, m) * Power(b, n - m)
  BY <1>1, PowerPlus
<1>3. /\ Power(b, m) \in Nat
      /\ Power(b, n - m) \in Nat /\ Power(b, n - m) >= 1
  BY <1>1, PowerPositive
<1>4. \A x, y \in Nat : y >= 1 => x <= x * y
  OBVIOUS
<1>5. QED
  BY <1>1, <1>2, <1>3, <1>4

LEMMA PowerTimes ==
  ASSUME NEW b \in Nat, NEW m \in Nat, NEW k \in Nat
  PROVE  Power(Power(b, m), k) = Power(b, m * k)
<1> DEFINE c == Power(b, m)
           S == {i \in Nat : Power(c, i) = Power(b, m * i)}
<1>1. c \in Nat
  BY PowerType
<1>2. 0 \in S
  <2>1. m * 0 = 0
    OBVIOUS
  <2>2. Power(c, 0) = 1 /\ Power(b, 0) = 1
    <3> HIDE DEF c
    <3> QED BY <1>1, PowerZero
  <2> HIDE DEF c
  <2>3. QED BY <2>1, <2>2
<1>3. ASSUME NEW i \in Nat, i \in S PROVE i + 1 \in S
  <2>1. m * i \in Nat /\ m * (i + 1) = m * i + m
    OBVIOUS
  <2>2. Power(c, i + 1) = Power(c, i) * c
    <3> HIDE DEF c
    <3> QED BY <1>1, PowerNext
  <2>3. Power(b, m * i + m) = Power(b, m * i) * c
    BY <2>1, PowerPlus
  <2>4. Power(c, i) = Power(b, m * i)
    BY <1>3
  <2> HIDE DEF c
  <2>5. Power(c, i + 1) = Power(b, m * (i + 1))
    BY <2>1, <2>2, <2>3, <2>4
  <2>6. QED BY <2>5
<1>4. Nat \subseteq S
  <2> HIDE DEF S
  <2> QED BY <1>2, <1>3, SetInduction
<1>5. QED
  BY <1>4
=============================================================================
