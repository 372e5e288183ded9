------------------------------ MODULE SumProofs ------------------------------
(***************************************************************************)
(* Sums of a function over a finite set, as FoldFunctionOnSet defines them:*)
(* they exist, do not depend on the order, follow an update of the function*)
(* and keep order.  Induction is over a set of subsets, since the induction*)
(* theorems of the library take an operator.                               *)
(***************************************************************************)
EXTENDS FiniteSetTheorems, TLAPS

SumOver(f, S) == FoldFunctionOnSet(+, 0, f, S)

SumPick(s) == CHOOSE x \in s : TRUE

(* The recursion that the fold runs through.                                *)
SumStep(f, g, s) == IF s = {} THEN 0 ELSE f[SumPick(s)] + g[s \ {SumPick(s)}]
Tabulates(g, f, S) == g = [s \in SUBSET S |-> SumStep(f, g, s)]
SumTable(f, S) == CHOOSE g : Tabulates(g, f, S)

Summable(f, S) == \A x \in S : f[x] \in Int

LEMMA SumIsTable ==
  ASSUME NEW f, NEW S
  PROVE  SumOver(f, S) = SumTable(f, S)[S]
BY DEF SumOver, SumTable, Tabulates, SumStep, SumPick, FoldFunctionOnSet, MapThenFoldSet

LEMMA PickIn == ASSUME NEW s, s # {} PROVE SumPick(s) \in s
BY DEF SumPick

-----------------------------------------------------------------------------
(* Induction over the subsets of a finite set.                              *)
LEMMA SubsetInduction ==
  ASSUME NEW S, IsFiniteSet(S), NEW Q \in SUBSET SUBSET S,
         \A T \in SUBSET S : (\A x \in T : T \ {x} \in Q) => T \in Q
  PROVE  \A T \in SUBSET S : T \in Q
<1> DEFINE Missing == (SUBSET S) \ Q
<1> SUFFICES ASSUME Missing # {} PROVE FALSE
  OBVIOUS
<1>1. Missing \in SUBSET FiniteSubsetsOf(S)
  BY FS_Subset DEF FiniteSubsetsOf
<1>2. PICK T \in Missing : \A U \in Missing : ~(<<U, T>> \in StrictSubsetOrdering(S))
  <2>1. IsWellFoundedOn(StrictSubsetOrdering(S), FiniteSubsetsOf(S))
    BY FS_StrictSubsetOrderingWellFounded
  <2> HIDE DEF Missing
  <2> QED BY <1>1, <2>1, WFMin
<1>3. ASSUME NEW x \in T PROVE T \ {x} \in Q
  <2>1. T \ {x} \in SUBSET S /\ T \ {x} \subseteq T /\ T \ {x} # T
    BY <1>2
  <2>2. <<T \ {x}, T>> \in StrictSubsetOrdering(S)
    BY <1>2, <2>1 DEF StrictSubsetOrdering
  <2> QED BY <1>2, <2>1, <2>2
<1> QED BY <1>2, <1>3

NatBelow == {p \in Nat \X Nat : p[1] < p[2]}

LEMMA LeastNatural == \A T \in SUBSET Nat : T # {} => \E x \in T : \A y \in T : x <= y
<1>1. IsWellFoundedOn(NatBelow, Nat)
  BY NatLessThanWellFounded DEF OpToRel, NatBelow
<1>2. ASSUME NEW T \in SUBSET Nat, T # {} PROVE \E x \in T : \A y \in T : x <= y
  <2>1. PICK x \in T : \A y \in T : ~(<<y, x>> \in NatBelow)
    BY <1>1, <1>2, WFMin
  <2>2. ASSUME NEW y \in T PROVE x <= y
    <3>1. x \in Nat /\ y \in Nat /\ ~(<<y, x>> \in NatBelow)
      BY <1>2, <2>1
    <3> QED BY <3>1 DEF NatBelow
  <2> QED BY <2>2
<1> QED BY <1>2

LEMMA NaturalInduction ==
  ASSUME NEW N \in SUBSET Nat, 0 \in N, \A n \in N : n + 1 \in N
  PROVE  N = Nat
<1> DEFINE Missing == Nat \ N
<1> SUFFICES ASSUME Missing # {} PROVE FALSE
  OBVIOUS
<1>1. PICK m \in Missing : \A k \in Missing : ~(<<k, m>> \in NatBelow)
  <2>1. IsWellFoundedOn(NatBelow, Nat)
    BY NatLessThanWellFounded DEF OpToRel, NatBelow
  <2>2. Missing \in SUBSET Nat
    OBVIOUS
  <2> HIDE DEF Missing
  <2> QED BY <2>1, <2>2, WFMin
<1>2. m \in Nat /\ m # 0 /\ m - 1 \in Nat /\ m - 1 < m /\ (m - 1) + 1 = m
  BY <1>1
<1>3. <<m - 1, m>> \in NatBelow
  BY <1>2 DEF NatBelow
<1> QED BY <1>1, <1>2, <1>3

-----------------------------------------------------------------------------
(* The table of the sums exists and is unique.                              *)
LEMMA SumTableExists ==
  ASSUME NEW S, IsFiniteSet(S), NEW f, Summable(f, S)
  PROVE  \E g \in [SUBSET S -> Int] : Tabulates(g, f, S)
<1> DEFINE Solves(g, n) == \A s \in SUBSET S : Cardinality(s) <= n => g[s] = SumStep(f, g, s)
           N == {n \in Nat : \E g \in [SUBSET S -> Int] : Solves(g, n)}
<1>s. \A s \in SUBSET S : IsFiniteSet(s) /\ Cardinality(s) \in Nat
  BY FS_Subset, FS_CardinalityType
<1>z. \A s \in SUBSET S : Cardinality(s) = 0 <=> s = {}
  BY <1>s, FS_EmptySet
<1>p. \A s \in SUBSET S : s # {} =>
        /\ f[SumPick(s)] \in Int
        /\ s \ {SumPick(s)} \in SUBSET S
        /\ Cardinality(s \ {SumPick(s)}) = Cardinality(s) - 1
  <2> SUFFICES ASSUME NEW s \in SUBSET S, s # {}
               PROVE  /\ f[SumPick(s)] \in Int
                      /\ s \ {SumPick(s)} \in SUBSET S
                      /\ Cardinality(s \ {SumPick(s)}) = Cardinality(s) - 1
    OBVIOUS
  <2>1. SumPick(s) \in s
    BY PickIn
  <2> QED BY <1>s, <2>1, FS_RemoveElement DEF Summable
<1>1. 0 \in N
  <2> DEFINE g == [s \in SUBSET S |-> 0]
  <2>1. g \in [SUBSET S -> Int]
    OBVIOUS
  <2>2. ASSUME NEW s \in SUBSET S, Cardinality(s) <= 0 PROVE g[s] = SumStep(f, g, s)
    <3>1. s = {}
      BY <1>s, <1>z, <2>2
    <3> QED BY <3>1 DEF SumStep
  <2>3. Solves(g, 0)
    BY <2>2
  <2> QED BY <2>1, <2>3
<1>2. ASSUME NEW n \in N PROVE n + 1 \in N
  <2>1. n \in Nat
    OBVIOUS
  <2>2. PICK g \in [SUBSET S -> Int] : Solves(g, n)
    OBVIOUS
  <2> DEFINE h == [s \in SUBSET S |-> IF Cardinality(s) = n + 1 THEN SumStep(f, g, s) ELSE g[s]]
  <2>3. ASSUME NEW s \in SUBSET S PROVE SumStep(f, g, s) \in Int
    <3>1. CASE s = {}
      BY <3>1 DEF SumStep
    <3>2. CASE s # {}
      <4>1. f[SumPick(s)] \in Int /\ g[s \ {SumPick(s)}] \in Int
        BY <1>p, <3>2
      <4> QED BY <3>2, <4>1 DEF SumStep
    <3> QED BY <3>1, <3>2
  <2>4. h \in [SUBSET S -> Int]
    BY <2>3
  <2>5. ASSUME NEW s \in SUBSET S, Cardinality(s) <= n + 1 PROVE h[s] = SumStep(f, h, s)
    <3>1. SumStep(f, h, s) = SumStep(f, g, s)
      <4>1. CASE s = {}
        BY <4>1 DEF SumStep
      <4>2. CASE s # {}
        <5> DEFINE r == s \ {SumPick(s)}
        <5>1. r \in SUBSET S /\ Cardinality(r) # n + 1
          BY <1>s, <1>p, <2>1, <2>5, <4>2
        <5>2. h[r] = g[r]
          BY <5>1
        <5> QED BY <4>2, <5>2 DEF SumStep
      <4> QED BY <4>1, <4>2
    <3>2. h[s] = SumStep(f, g, s)
      <4>1. CASE Cardinality(s) = n + 1
        BY <4>1
      <4>2. CASE Cardinality(s) # n + 1
        <5>1. Cardinality(s) <= n
          BY <1>s, <2>1, <2>5, <4>2
        <5> QED BY <2>2, <4>2, <5>1
      <4> QED BY <4>1, <4>2
    <3> QED BY <3>1, <3>2
  <2>6. Solves(h, n + 1)
    BY <2>5
  <2> HIDE DEF h
  <2> QED BY <2>1, <2>4, <2>6
<1>3. N = Nat
  <2>1. N \in SUBSET Nat
    OBVIOUS
  <2> HIDE DEF N
  <2> QED BY <1>1, <1>2, <2>1, NaturalInduction
<1>4. PICK g \in [SUBSET S -> Int] : Solves(g, Cardinality(S))
  BY <1>3, <1>s
<1>5. ASSUME NEW s \in SUBSET S PROVE g[s] = SumStep(f, g, s)
  BY <1>4, FS_Subset
<1>6. Tabulates(g, f, S)
  BY <1>5 DEF Tabulates
<1> QED BY <1>6

(* Whatever satisfies the recursion below S agrees with it below a part.    *)
LEMMA SumTableUnique ==
  ASSUME NEW S, IsFiniteSet(S), NEW T \in SUBSET S, NEW f,
         NEW g, Tabulates(g, f, S),
         NEW h, Tabulates(h, f, T)
  PROVE  \A s \in SUBSET T : g[s] = h[s]
<1> DEFINE Q == {s \in SUBSET T : g[s] = h[s]}
<1>1. ASSUME NEW s \in SUBSET T, \A x \in s : s \ {x} \in Q PROVE g[s] = h[s]
  <2>1. g[s] = SumStep(f, g, s) /\ h[s] = SumStep(f, h, s)
    BY DEF Tabulates
  <2>2. CASE s = {}
    BY <2>1, <2>2 DEF SumStep
  <2>3. CASE s # {}
    <3>1. s \ {SumPick(s)} \in Q
      BY <1>1, <2>3, PickIn
    <3> QED BY <2>1, <2>3, <3>1 DEF SumStep
  <2> QED BY <2>2, <2>3
<1>2. IsFiniteSet(T) /\ Q \in SUBSET SUBSET T
  BY FS_Subset
<1>3. \A s \in SUBSET T : (\A x \in s : s \ {x} \in Q) => s \in Q
  BY <1>1
<1>4. \A s \in SUBSET T : s \in Q
  <2> HIDE DEF Q
  <2> QED BY <1>2, <1>3, SubsetInduction
<1> QED BY <1>4

LEMMA SumTableSolves ==
  ASSUME NEW S, IsFiniteSet(S), NEW f, Summable(f, S)
  PROVE  /\ Tabulates(SumTable(f, S), f, S)
         /\ SumTable(f, S) \in [SUBSET S -> Int]
<1>1. PICK g \in [SUBSET S -> Int] : Tabulates(g, f, S)
  BY SumTableExists
<1>2. Tabulates(SumTable(f, S), f, S)
  BY <1>1 DEF SumTable
<1>3. \A s \in SUBSET S : SumTable(f, S)[s] = g[s]
  BY <1>1, <1>2, SumTableUnique
<1>4. SumTable(f, S) = [s \in SUBSET S |-> g[s]]
  <2>1. SumTable(f, S) = [s \in SUBSET S |-> SumTable(f, S)[s]]
    BY <1>2 DEF Tabulates
  <2> QED BY <1>3, <2>1
<1> QED BY <1>2, <1>4

(* The sum over a part of S is in the table of S.                           *)
LEMMA SumInTable ==
  ASSUME NEW S, IsFiniteSet(S), NEW T \in SUBSET S, NEW f, Summable(f, S)
  PROVE  SumOver(f, T) = SumTable(f, S)[T]
<1>1. IsFiniteSet(T) /\ T \in SUBSET T /\ Summable(f, T)
  BY FS_Subset DEF Summable
<1>2. Tabulates(SumTable(f, T), f, T) /\ Tabulates(SumTable(f, S), f, S)
  BY <1>1, SumTableSolves
<1>3. SumTable(f, S)[T] = SumTable(f, T)[T]
  BY <1>1, <1>2, SumTableUnique
<1> QED BY <1>3, SumIsTable

-----------------------------------------------------------------------------
(* What a sum is.                                                           *)
LEMMA SumIsInt ==
  ASSUME NEW S, IsFiniteSet(S), NEW f, Summable(f, S)
  PROVE  SumOver(f, S) \in Int
BY SumIsTable, SumTableSolves

LEMMA SumEmpty == ASSUME NEW f PROVE SumOver(f, {}) = 0
<1>1. IsFiniteSet({}) /\ Summable(f, {})
  BY FS_EmptySet DEF Summable
<1>2. Tabulates(SumTable(f, {}), f, {})
  BY <1>1, SumTableSolves
<1>3. SumTable(f, {})[{}] = SumStep(f, SumTable(f, {}), {})
  BY <1>2 DEF Tabulates
<1> QED BY <1>3, SumIsTable DEF SumStep

(* Any element may be taken out first.                                      *)
LEMMA SumRemove ==
  ASSUME NEW S, IsFiniteSet(S), NEW f, Summable(f, S)
  PROVE  \A x \in S : SumOver(f, S) = f[x] + SumOver(f, S \ {x})
<1> DEFINE t == SumTable(f, S)
           Q == {T \in SUBSET S : \A x \in T : t[T] = f[x] + t[T \ {x}]}
<1>1. /\ t \in [SUBSET S -> Int]
      /\ \A T \in SUBSET S : T # {} => t[T] = f[SumPick(T)] + t[T \ {SumPick(T)}]
  <2>1. Tabulates(t, f, S) /\ t \in [SUBSET S -> Int]
    BY SumTableSolves
  <2> HIDE DEF t
  <2>2. \A T \in SUBSET S : t[T] = SumStep(f, t, T)
    BY <2>1 DEF Tabulates
  <2> QED BY <2>1, <2>2 DEF SumStep
<1>2. \A T \in SUBSET S : SumOver(f, T) = t[T]
  BY SumInTable
<1> HIDE DEF t
<1>3. ASSUME NEW T \in SUBSET S, \A x \in T : T \ {x} \in Q, NEW x \in T
      PROVE  t[T] = f[x] + t[T \ {x}]
  <2> DEFINE y == SumPick(T)
  <2>1. y \in T /\ t[T] = f[y] + t[T \ {y}]
    BY <1>1, PickIn
  <2> HIDE DEF y
  <2>2. CASE x = y
    BY <2>1, <2>2
  <2>3. CASE x # y
    <3> DEFINE r == (T \ {x}) \ {y}
    <3>1. (T \ {y}) \ {x} = r /\ x \in T \ {y} /\ y \in T \ {x} /\ r \in SUBSET S
      BY <2>1, <2>3
    <3>2. t[T \ {y}] = f[x] + t[r] /\ t[T \ {x}] = f[y] + t[r]
      BY <1>3, <2>1, <3>1
    <3>3. f[x] \in Int /\ f[y] \in Int /\ t[r] \in Int
      BY <1>1, <2>1, <3>1 DEF Summable
    <3> QED BY <2>1, <3>2, <3>3
  <2> QED BY <2>2, <2>3
<1>4. \A T \in SUBSET S : (\A x \in T : T \ {x} \in Q) => T \in Q
  BY <1>3
<1>5. \A T \in SUBSET S : T \in Q
  <2>1. Q \in SUBSET SUBSET S
    OBVIOUS
  <2> HIDE DEF Q
  <2> QED BY <1>4, <2>1, SubsetInduction
<1>6. S \in Q
  BY <1>5
<1> QED BY <1>2, <1>6

(* Functions that agree on S have one sum.                                  *)
LEMMA SumAlike ==
  ASSUME NEW S, IsFiniteSet(S), NEW f, Summable(f, S), NEW g, \A x \in S : g[x] = f[x]
  PROVE  SumOver(g, S) = SumOver(f, S)
<1> DEFINE Q == {T \in SUBSET S : SumOver(g, T) = SumOver(f, T)}
<1>1. ASSUME NEW T \in SUBSET S, \A x \in T : T \ {x} \in Q PROVE T \in Q
  <2>1. IsFiniteSet(T) /\ Summable(f, T) /\ Summable(g, T)
    BY FS_Subset DEF Summable
  <2>2. CASE T = {}
    BY <2>2, SumEmpty
  <2>3. CASE T # {}
    <3>1. PICK x \in T : TRUE
      BY <2>3
    <3>2. SumOver(f, T) = f[x] + SumOver(f, T \ {x}) /\ SumOver(g, T) = g[x] + SumOver(g, T \ {x})
      BY <2>1, SumRemove
    <3> QED BY <1>1, <3>2
  <2> QED BY <2>2, <2>3
<1>2. Q \in SUBSET SUBSET S
  OBVIOUS
<1>3. S \in Q
  <2> HIDE DEF Q
  <2> QED BY <1>1, <1>2, SubsetInduction
<1> QED BY <1>3

(* The sum of differences: f reduced by d and increased by c.               *)
LEMMA SumMoved ==
  ASSUME NEW S, IsFiniteSet(S), NEW f, Summable(f, S), NEW d, Summable(d, S), NEW c, Summable(c, S),
         NEW g, \A x \in S : g[x] = f[x] - d[x] + c[x]
  PROVE  SumOver(g, S) = SumOver(f, S) - SumOver(d, S) + SumOver(c, S)
<1> DEFINE Q == {T \in SUBSET S : SumOver(g, T) = SumOver(f, T) - SumOver(d, T) + SumOver(c, T)}
<1>1. ASSUME NEW T \in SUBSET S, \A x \in T : T \ {x} \in Q PROVE T \in Q
  <2>1. IsFiniteSet(T) /\ Summable(f, T) /\ Summable(d, T) /\ Summable(c, T) /\ Summable(g, T)
    BY FS_Subset DEF Summable
  <2>2. CASE T = {}
    BY <2>2, SumEmpty
  <2>3. CASE T # {}
    <3>1. PICK x \in T : TRUE
      BY <2>3
    <3> DEFINE r == T \ {x}
    <3>2. /\ SumOver(f, T) = f[x] + SumOver(f, r) /\ SumOver(g, T) = g[x] + SumOver(g, r)
          /\ SumOver(d, T) = d[x] + SumOver(d, r) /\ SumOver(c, T) = c[x] + SumOver(c, r)
      BY <2>1, SumRemove
    <3>3. IsFiniteSet(r) /\ Summable(f, r) /\ Summable(d, r) /\ Summable(c, r)
      BY <2>1, FS_Subset DEF Summable
    <3>4. /\ SumOver(f, r) \in Int /\ SumOver(d, r) \in Int /\ SumOver(c, r) \in Int
          /\ f[x] \in Int /\ d[x] \in Int /\ c[x] \in Int /\ g[x] = f[x] - d[x] + c[x]
      BY <3>3, SumIsInt DEF Summable
    <3>5. SumOver(g, r) = SumOver(f, r) - SumOver(d, r) + SumOver(c, r)
      BY <1>1
    <3>6. SumOver(g, T) = SumOver(f, T) - SumOver(d, T) + SumOver(c, T)
      <4> HIDE DEF r
      <4> QED BY <3>2, <3>4, <3>5
    <3> QED BY <3>6
  <2> QED BY <2>2, <2>3
<1>2. Q \in SUBSET SUBSET S
  OBVIOUS
<1>3. S \in Q
  <2> HIDE DEF Q
  <2> QED BY <1>1, <1>2, SubsetInduction
<1> QED BY <1>3

LEMMA SumOfNothing ==
  ASSUME NEW S, IsFiniteSet(S), NEW f, \A x \in S : f[x] = 0
  PROVE  SumOver(f, S) = 0
<1> DEFINE Q == {T \in SUBSET S : SumOver(f, T) = 0}
<1>1. ASSUME NEW T \in SUBSET S, \A x \in T : T \ {x} \in Q PROVE T \in Q
  <2>1. CASE T = {}
    BY <2>1, SumEmpty
  <2>2. CASE T # {}
    <3>1. PICK x \in T : TRUE
      BY <2>2
    <3>2. IsFiniteSet(T) /\ Summable(f, T)
      BY FS_Subset DEF Summable
    <3>3. SumOver(f, T) = f[x] + SumOver(f, T \ {x})
      BY <3>2, SumRemove
    <3>4. f[x] = 0 /\ SumOver(f, T \ {x}) = 0
      BY <1>1
    <3> QED BY <3>3, <3>4
  <2> QED BY <2>1, <2>2
<1>2. Q \in SUBSET SUBSET S
  OBVIOUS
<1>3. S \in Q
  <2> HIDE DEF Q
  <2> QED BY <1>1, <1>2, SubsetInduction
<1> QED BY <1>3

(* A function that changes at one place.                                    *)
LEMMA SumChanged ==
  ASSUME NEW S, IsFiniteSet(S), NEW f, Summable(f, S), NEW x \in S,
         NEW g, g[x] \in Int, \A y \in S \ {x} : g[y] = f[y]
  PROVE  SumOver(g, S) = SumOver(f, S) - f[x] + g[x]
<1> DEFINE r == S \ {x}
<1>1. Summable(g, S) /\ IsFiniteSet(r) /\ Summable(f, r)
  BY FS_Subset DEF Summable
<1>2. SumOver(f, S) = f[x] + SumOver(f, r) /\ SumOver(g, S) = g[x] + SumOver(g, r)
  BY <1>1, SumRemove
<1>3. SumOver(g, r) = SumOver(f, r) /\ SumOver(f, r) \in Int
  BY <1>1, SumAlike, SumIsInt
<1>4. f[x] \in Int /\ g[x] \in Int
  BY DEF Summable
<1> HIDE DEF r
<1> QED BY <1>2, <1>3, <1>4

(* One amount at one place, and nothing elsewhere.                          *)
LEMMA SumOfOne ==
  ASSUME NEW S, IsFiniteSet(S), NEW x \in S, NEW n \in Int,
         NEW f, \A y \in S : f[y] = IF y = x THEN n ELSE 0
  PROVE  SumOver(f, S) = n
<1> DEFINE z == [y \in S |-> 0]
<1>1. Summable(z, S) /\ SumOver(z, S) = 0
  BY SumOfNothing DEF Summable
<1>2. f[x] = n /\ z[x] = 0 /\ \A y \in S \ {x} : f[y] = z[y]
  OBVIOUS
<1> HIDE DEF z
<1>3. SumOver(f, S) = SumOver(z, S) - z[x] + f[x]
  BY <1>1, <1>2, SumChanged
<1> QED BY <1>1, <1>2, <1>3

(* The sum of two functions.                                                *)
LEMMA SumAdded ==
  ASSUME NEW S, IsFiniteSet(S), NEW a, Summable(a, S), NEW b, Summable(b, S),
         NEW f, \A x \in S : f[x] = a[x] + b[x]
  PROVE  SumOver(f, S) = SumOver(a, S) + SumOver(b, S)
<1> DEFINE z == [y \in S |-> 0]
<1>1. Summable(z, S) /\ SumOver(z, S) = 0
  BY SumOfNothing DEF Summable
<1>2. \A x \in S : f[x] = a[x] - z[x] + b[x]
  BY DEF Summable
<1> HIDE DEF z
<1>3. SumOver(f, S) = SumOver(a, S) - SumOver(z, S) + SumOver(b, S)
  BY <1>1, <1>2, SumMoved
<1>4. SumOver(a, S) \in Int /\ SumOver(b, S) \in Int
  BY SumIsInt
<1> QED BY <1>1, <1>3, <1>4

(* A function that counts only under a condition.                           *)
LEMMA SumWhen ==
  ASSUME NEW S, IsFiniteSet(S), NEW f, Summable(f, S), NEW P \in BOOLEAN,
         NEW g, \A x \in S : g[x] = IF P THEN f[x] ELSE 0
  PROVE  SumOver(g, S) = IF P THEN SumOver(f, S) ELSE 0
<1>1. CASE P
  BY <1>1, SumAlike
<1>2. CASE ~P
  BY <1>2, SumOfNothing
<1> QED BY <1>1, <1>2

(* A larger function over a larger set has a larger sum.                    *)
LEMMA SumOrdered ==
  ASSUME NEW S, IsFiniteSet(S), NEW f, Summable(f, S), NEW g, Summable(g, S),
         \A x \in S : f[x] <= g[x]
  PROVE  SumOver(f, S) <= SumOver(g, S)
<1> DEFINE Q == {T \in SUBSET S : SumOver(f, T) <= SumOver(g, T)}
<1>1. ASSUME NEW T \in SUBSET S, \A x \in T : T \ {x} \in Q PROVE T \in Q
  <2>1. IsFiniteSet(T) /\ Summable(f, T) /\ Summable(g, T)
    BY FS_Subset DEF Summable
  <2>2. CASE T = {}
    BY <2>2, SumEmpty
  <2>3. CASE T # {}
    <3>1. PICK x \in T : TRUE
      BY <2>3
    <3> DEFINE r == T \ {x}
    <3>2. SumOver(f, T) = f[x] + SumOver(f, r) /\ SumOver(g, T) = g[x] + SumOver(g, r)
      BY <2>1, SumRemove
    <3>3. IsFiniteSet(r) /\ Summable(f, r) /\ Summable(g, r)
      BY <2>1, FS_Subset DEF Summable
    <3>4. /\ SumOver(f, r) \in Int /\ SumOver(g, r) \in Int
          /\ f[x] \in Int /\ g[x] \in Int /\ f[x] <= g[x]
      BY <3>3, SumIsInt DEF Summable
    <3>5. SumOver(f, r) <= SumOver(g, r)
      BY <1>1
    <3>6. SumOver(f, T) <= SumOver(g, T)
      <4> HIDE DEF r
      <4> QED BY <3>2, <3>4, <3>5
    <3> QED BY <3>6
  <2> QED BY <2>2, <2>3
<1>2. Q \in SUBSET SUBSET S
  OBVIOUS
<1>3. S \in Q
  <2> HIDE DEF Q
  <2> QED BY <1>1, <1>2, SubsetInduction
<1> QED BY <1>3

LEMMA SumOfPart ==
  ASSUME NEW S, IsFiniteSet(S), NEW T \in SUBSET S,
         NEW f, Summable(f, S), \A x \in S : f[x] >= 0
  PROVE  SumOver(f, T) <= SumOver(f, S)
<1> DEFINE Q == {U \in SUBSET S : SumOver(f, U \cap T) <= SumOver(f, U)}
<1>1. ASSUME NEW U \in SUBSET S, \A x \in U : U \ {x} \in Q PROVE U \in Q
  <2>1. /\ IsFiniteSet(U) /\ Summable(f, U)
        /\ IsFiniteSet(U \cap T) /\ Summable(f, U \cap T)
    BY FS_Subset DEF Summable
  <2>2. CASE U = {}
    BY <2>2, SumEmpty
  <2>3. CASE U # {}
    <3>1. PICK x \in U : TRUE
      BY <2>3
    <3> DEFINE r == U \ {x}
    <3>2. SumOver(f, U) = f[x] + SumOver(f, r)
      BY <2>1, SumRemove
    <3>3. IsFiniteSet(r) /\ Summable(f, r) /\ IsFiniteSet(r \cap T) /\ Summable(f, r \cap T)
      BY <2>1, FS_Subset DEF Summable
    <3>4. SumOver(f, r) \in Int /\ SumOver(f, r \cap T) \in Int /\ f[x] \in Int /\ f[x] >= 0
      BY <3>3, SumIsInt DEF Summable
    <3>5. SumOver(f, r \cap T) <= SumOver(f, r)
      BY <1>1
    <3>6. CASE x \in T
      <4>1. (U \cap T) \ {x} = r \cap T /\ x \in U \cap T
        BY <3>6
      <4>2. SumOver(f, U \cap T) = f[x] + SumOver(f, r \cap T)
        BY <2>1, <4>1, SumRemove
      <4> HIDE DEF r
      <4>3. SumOver(f, U \cap T) <= SumOver(f, U)
        BY <3>2, <3>4, <3>5, <4>2
      <4> QED BY <4>3
    <3>7. CASE x \notin T
      <4>1. U \cap T = r \cap T
        BY <3>7
      <4>2. SumOver(f, r \cap T) <= SumOver(f, U)
        <5> HIDE DEF r
        <5> QED BY <3>2, <3>4, <3>5
      <4> QED BY <4>1, <4>2
    <3> QED BY <3>6, <3>7
  <2> QED BY <2>2, <2>3
<1>2. Q \in SUBSET SUBSET S
  OBVIOUS
<1>3. S \in Q
  <2> HIDE DEF Q
  <2> QED BY <1>1, <1>2, SubsetInduction
<1>4. S \cap T = T
  OBVIOUS
<1> QED BY <1>3, <1>4

LEMMA SumNotNegative ==
  ASSUME NEW S, IsFiniteSet(S), NEW f, \A x \in S : f[x] \in Nat
  PROVE  SumOver(f, S) \in Nat
<1>1. Summable(f, S) /\ {} \in SUBSET S /\ \A x \in S : f[x] >= 0
  BY DEF Summable
<1>2. SumOver(f, {}) <= SumOver(f, S)
  BY <1>1, SumOfPart
<1> QED BY <1>1, <1>2, SumEmpty, SumIsInt

(* Counting is adding ones.                                                 *)
LEMMA SumOfOnes ==
  ASSUME NEW S, IsFiniteSet(S), NEW f, \A x \in S : f[x] = 1
  PROVE  SumOver(f, S) = Cardinality(S)
<1> DEFINE Q == {T \in SUBSET S : SumOver(f, T) = Cardinality(T)}
<1>1. ASSUME NEW T \in SUBSET S, \A x \in T : T \ {x} \in Q PROVE T \in Q
  <2>1. IsFiniteSet(T) /\ Summable(f, T)
    BY FS_Subset DEF Summable
  <2>2. CASE T = {}
    BY <2>2, SumEmpty, FS_EmptySet
  <2>3. CASE T # {}
    <3>1. PICK x \in T : TRUE
      BY <2>3
    <3>2. SumOver(f, T) = f[x] + SumOver(f, T \ {x}) /\ f[x] = 1
      BY <2>1, SumRemove
    <3>3. Cardinality(T \ {x}) = Cardinality(T) - 1 /\ Cardinality(T) \in Nat
      BY <2>1, FS_RemoveElement, FS_CardinalityType
    <3>4. SumOver(f, T \ {x}) = Cardinality(T \ {x})
      BY <1>1
    <3> QED BY <3>2, <3>3, <3>4
  <2> QED BY <2>2, <2>3
<1>2. Q \in SUBSET SUBSET S
  OBVIOUS
<1>3. S \in Q
  <2> HIDE DEF Q
  <2> QED BY <1>1, <1>2, SubsetInduction
<1> QED BY <1>3

(* An element that joins or leaves the set.                                 *)
LEMMA SumWith ==
  ASSUME NEW S, IsFiniteSet(S), NEW f, Summable(f, S), NEW x, x \notin S, f[x] \in Int
  PROVE  SumOver(f, S \cup {x}) = SumOver(f, S) + f[x]
<1> DEFINE T == S \cup {x}
<1>1. IsFiniteSet(T) /\ Summable(f, T) /\ x \in T /\ T \ {x} = S
  BY FS_AddElement DEF Summable
<1> HIDE DEF T
<1>2. SumOver(f, T) = f[x] + SumOver(f, S)
  BY <1>1, SumRemove
<1>3. SumOver(f, S) \in Int
  BY SumIsInt
<1> QED BY <1>2, <1>3 DEF T
=============================================================================
