------------------------------ MODULE RowSumsProofs ------------------------------
(***************************************************************************)
(* Facts about SumFunctionOnSet, the sum of a column over a finite set of  *)
(* rows, that the proofs about plans and budgets cite.                     *)
(*                                                                         *)
(* An induction is a family of sets here, closed under what it inducts on: *)
(* a set can be handed to a lemma, which an operator cannot.               *)
(***************************************************************************)
EXTENDS Integers, FiniteSets, Functions, FiniteSetTheorems, WellFoundedInduction, TLAPS

(* Induction *)

\* A set of numbers that is not empty has a least one.
LEMMA LeastOf ==
    ASSUME NEW T \in SUBSET Nat, T # {} PROVE \E n \in T : \A m \in T : n <= m
<1>1. IsWellFoundedOn(OpToRel(<, Nat), Nat)
  BY NatLessThanWellFounded
<1>2. PICK n \in T : \A m \in T : <<m, n>> \notin OpToRel(<, Nat)
  BY <1>1, WFMin
<1>3. \A m \in T : ~(m < n)
  BY <1>2 DEF OpToRel
<1> QED
  BY <1>3

\* Numbers that 0 and each successor belong to are all numbers.
LEMMA NumbersFrom0 ==
    ASSUME NEW T \in SUBSET Nat, 0 \in T, \A n \in T : n + 1 \in T PROVE T = Nat
<1> SUFFICES ASSUME Nat \ T # {} PROVE FALSE
  OBVIOUS
<1>1. PICK n \in Nat \ T : \A m \in Nat \ T : n <= m
  BY LeastOf
<1>2. n - 1 \in Nat /\ n - 1 \notin Nat \ T
  BY <1>1
<1> QED
  BY <1>1, <1>2

\* A family that the empty set is in, and with each set the one that has an
\* element more, holds every finite set.
LEMMA FiniteFamily ==
    ASSUME NEW R, IsFiniteSet(R), NEW F, {} \in F,
           \A S \in SUBSET R, x \in R : S \in F /\ x \notin S => S \cup {x} \in F
    PROVE  R \in F
<1> DEFINE Holds(n) == \A S \in SUBSET R : Cardinality(S) = n => S \in F
<1>0. \A S \in SUBSET R : IsFiniteSet(S)
  BY FS_Subset
<1>1. Holds(0)
  BY <1>0, FS_EmptySet
<1>2. ASSUME NEW n \in Nat, Holds(n) PROVE Holds(n + 1)
  <2>1. ASSUME NEW S \in SUBSET R, Cardinality(S) = n + 1 PROVE S \in F
    <3>1. IsFiniteSet(S) /\ Cardinality({}) = 0
      BY <1>0, FS_EmptySet
    <3>2. PICK x \in R : x \in S
      BY <2>1, <3>1
    <3>3. Cardinality(S \ {x}) = Cardinality(S) - 1
      BY <3>1, <3>2, FS_RemoveElement
    <3>4. S \ {x} \in SUBSET R /\ S \ {x} \in F
      BY <1>2, <2>1, <3>3
    <3>5. (S \ {x}) \cup {x} \in F
      BY <3>2, <3>4
    <3>6. (S \ {x}) \cup {x} = S
      BY <3>2
    <3> QED
      BY <3>5, <3>6
  <2> QED
    BY <2>1
<1> HIDE DEF Holds
<1> DEFINE T == {n \in Nat : Holds(n)}
<1>3. \A n \in Nat : Holds(n)
  <2>1. T \in SUBSET Nat /\ 0 \in T
    BY <1>1
  <2>2. \A n \in T : n + 1 \in T
    BY <1>2
  <2>3. T = Nat
    <3> HIDE DEF T
    <3> QED
      BY <2>1, <2>2, NumbersFrom0
  <2> QED
    BY <2>3
<1>4. Cardinality(R) \in Nat
  BY FS_CardinalityType
<1>5. Holds(Cardinality(R))
  BY <1>3, <1>4
<1> QED
  BY <1>5 DEF Holds

-----------------------------------------------------------------------------
(* The recursion that defines a sum has a solution, and but one *)

Pick(S) == CHOOSE x \in S : TRUE
Summed(v, f, S) == IF S = {} THEN 0 ELSE v[Pick(S)] + f[S \ {Pick(S)}]
Solves(v, f, R) == \A S \in SUBSET R : f[S] = Summed(v, f, S)

SmallSets(R, n) == {S \in SUBSET R : Cardinality(S) <= n}
SolvesSmall(v, f, R, n) == \A S \in SmallSets(R, n) : f[S] = Summed(v, f, S)

LEMMA PickIn == ASSUME NEW S, S # {} PROVE Pick(S) \in S
BY DEF Pick

LEMMA SmallerByPick ==
    ASSUME NEW R, IsFiniteSet(R), NEW S \in SUBSET R
    PROVE  /\ Cardinality(S) \in Nat
           /\ S # {} => /\ Pick(S) \in S /\ S \ {Pick(S)} \in SUBSET R
                        /\ Cardinality(S \ {Pick(S)}) = Cardinality(S) - 1
           /\ Cardinality(S) = 0 <=> S = {}
<1>1. IsFiniteSet(S)
  BY FS_Subset
<1>2. Cardinality(S) \in Nat /\ (Cardinality(S) = 0 <=> S = {})
  BY <1>1, FS_CardinalityType, FS_EmptySet
<1>3. S # {} => Cardinality(S \ {Pick(S)}) = Cardinality(S) - 1
  BY <1>1, FS_RemoveElement, PickIn
<1> QED
  BY <1>2, <1>3, PickIn

LEMMA SmallSolution ==
    ASSUME NEW R, IsFiniteSet(R), NEW v, \A r \in R : v[r] \in Int, NEW n \in Nat,
           NEW f \in [SmallSets(R, n) -> Int], SolvesSmall(v, f, R, n)
    PROVE  \E g \in [SmallSets(R, n + 1) -> Int] : SolvesSmall(v, g, R, n + 1)
<1> DEFINE g == [S \in SmallSets(R, n + 1) |-> IF S \in SmallSets(R, n) THEN f[S] ELSE Summed(v, f, S)]
<1>1. ASSUME NEW S \in SmallSets(R, n + 1), S # {}
      PROVE  /\ S \ {Pick(S)} \in SmallSets(R, n) /\ S \ {Pick(S)} \in SmallSets(R, n + 1)
             /\ v[Pick(S)] \in Int
  <2>1. S \in SUBSET R /\ Cardinality(S) <= n + 1
    BY DEF SmallSets
  <2>2. /\ Cardinality(S) \in Nat /\ Pick(S) \in S /\ S \ {Pick(S)} \in SUBSET R
        /\ Cardinality(S \ {Pick(S)}) = Cardinality(S) - 1
    BY <1>1, <2>1, SmallerByPick
  <2>3. Cardinality(S \ {Pick(S)}) <= n /\ Cardinality(S \ {Pick(S)}) <= n + 1
    BY <2>1, <2>2
  <2> QED
    BY <2>1, <2>2, <2>3 DEF SmallSets
<1>2. g \in [SmallSets(R, n + 1) -> Int]
  BY <1>1 DEF Summed
<1>3. ASSUME NEW S \in SmallSets(R, n + 1) PROVE g[S] = Summed(v, g, S)
  <2>1. g[S] = Summed(v, f, S)
    BY DEF SolvesSmall
  <2>2. S # {} => g[S \ {Pick(S)}] = f[S \ {Pick(S)}]
    BY <1>1
  <2> QED
    BY <2>1, <2>2 DEF Summed
<1> HIDE DEF g
<1> QED
  BY <1>2, <1>3 DEF SolvesSmall

LEMMA SolutionExists ==
    ASSUME NEW R, IsFiniteSet(R), NEW v, \A r \in R : v[r] \in Int
    PROVE  \E f \in [SUBSET R -> Int] : Solves(v, f, R)
<1> DEFINE Holds(n) == \E f \in [SmallSets(R, n) -> Int] : SolvesSmall(v, f, R, n)
<1>1. Holds(0)
  <2> DEFINE f == [S \in SmallSets(R, 0) |-> 0]
  <2>1. ASSUME NEW S \in SmallSets(R, 0) PROVE S = {}
    <3>1. S \in SUBSET R /\ Cardinality(S) <= 0
      BY DEF SmallSets
    <3>2. Cardinality(S) \in Nat /\ (Cardinality(S) = 0 <=> S = {})
      BY <3>1, SmallerByPick
    <3> QED
      BY <3>1, <3>2
  <2>2. f \in [SmallSets(R, 0) -> Int] /\ SolvesSmall(v, f, R, 0)
    BY <2>1 DEF SolvesSmall, Summed
  <2> QED
    BY <2>2
<1>2. ASSUME NEW n \in Nat, Holds(n) PROVE Holds(n + 1)
  BY <1>2, SmallSolution
<1> HIDE DEF Holds
<1> DEFINE T == {n \in Nat : Holds(n)}
<1>3. \A n \in Nat : Holds(n)
  <2>1. T \in SUBSET Nat /\ 0 \in T
    BY <1>1
  <2>2. \A n \in T : n + 1 \in T
    BY <1>2
  <2>3. T = Nat
    <3> HIDE DEF T
    <3> QED
      BY <2>1, <2>2, NumbersFrom0
  <2> QED
    BY <2>3
<1>4. Cardinality(R) \in Nat
  BY FS_CardinalityType
<1>5. SmallSets(R, Cardinality(R)) = SUBSET R
  BY FS_Subset DEF SmallSets
<1> QED
  BY <1>3, <1>4, <1>5 DEF Holds, Solves, SolvesSmall

\* Two solutions agree wherever both are defined.
LEMMA SolutionsAgree ==
    ASSUME NEW R, IsFiniteSet(R), NEW U \in SUBSET R, NEW v, NEW f, NEW g, Solves(v, f, R), Solves(v, g, U)
    PROVE  f[U] = g[U]
<1> DEFINE Holds(n) == \A S \in SUBSET U : Cardinality(S) = n => f[S] = g[S]
<1>0. IsFiniteSet(U)
  BY FS_Subset
<1>1. Holds(0)
  BY <1>0, SmallerByPick DEF Solves, Summed
<1>2. ASSUME NEW n \in Nat, Holds(n) PROVE Holds(n + 1)
  <2>1. ASSUME NEW S \in SUBSET U, Cardinality(S) = n + 1 PROVE f[S] = g[S]
    <3>1. S # {} /\ S \ {Pick(S)} \in SUBSET U /\ Cardinality(S \ {Pick(S)}) = n
      BY <1>0, <2>1, SmallerByPick
    <3>2. f[S \ {Pick(S)}] = g[S \ {Pick(S)}]
      BY <1>2, <3>1
    <3>3. S \in SUBSET R
      OBVIOUS
    <3> QED
      BY <3>1, <3>2, <3>3 DEF Solves, Summed
  <2> QED
    BY <2>1
<1> HIDE DEF Holds
<1> DEFINE T == {n \in Nat : Holds(n)}
<1>3. \A n \in Nat : Holds(n)
  <2>1. T \in SUBSET Nat /\ 0 \in T
    BY <1>1
  <2>2. \A n \in T : n + 1 \in T
    BY <1>2
  <2>3. T = Nat
    <3> HIDE DEF T
    <3> QED
      BY <2>1, <2>2, NumbersFrom0
  <2> QED
    BY <2>3
<1>4. Cardinality(U) \in Nat
  BY <1>0, FS_CardinalityType
<1>5. Holds(Cardinality(U))
  BY <1>3, <1>4
<1>6. U \in SUBSET U
  OBVIOUS
<1> QED
  BY <1>5, <1>6 DEF Holds

-----------------------------------------------------------------------------
(* Sums *)

Integral(v, S) == \A r \in S : v[r] \in Int

\* What SumFunctionOnSet stands for.
LEMMA SumSolves ==
    ASSUME NEW S, IsFiniteSet(S), NEW v, Integral(v, S)
    PROVE  \E f \in [SUBSET S -> Int] : Solves(v, f, S) /\ SumFunctionOnSet(v, S) = f[S]
<1> DEFINE Right(f) == [U \in SUBSET S |-> Summed(v, f, U)]
           sum == CHOOSE f : f = Right(f)
<1>1. PICK f \in [SUBSET S -> Int] : Solves(v, f, S)
  BY SolutionExists DEF Integral
<1>2. f = Right(f)
  BY <1>1 DEF Solves
<1>3. sum = Right(sum)
  BY <1>2
<1>4. SumFunctionOnSet(v, S) = sum[S]
  BY DEF SumFunctionOnSet, FoldFunctionOnSet, MapThenFoldSet, Summed, Pick
<1>5. Solves(v, sum, S)
  BY <1>3 DEF Solves
<1>6. sum[S] = f[S]
  BY <1>1, <1>5, SolutionsAgree
<1> QED
  BY <1>1, <1>4, <1>6

LEMMA SumInt ==
    ASSUME NEW S, IsFiniteSet(S), NEW v, Integral(v, S) PROVE SumFunctionOnSet(v, S) \in Int
<1>1. PICK f \in [SUBSET S -> Int] : SumFunctionOnSet(v, S) = f[S]
  BY SumSolves
<1>2. f[S] \in Int
  OBVIOUS
<1> QED
  BY <1>1, <1>2

LEMMA SumEmpty == ASSUME NEW v PROVE SumFunctionOnSet(v, {}) = 0
<1>1. IsFiniteSet({}) /\ Integral(v, {}) /\ {} \in SUBSET {}
  BY FS_EmptySet DEF Integral
<1> QED
  BY <1>1, SumSolves DEF Solves, Summed

LEMMA SumPick ==
    ASSUME NEW S, IsFiniteSet(S), S # {}, NEW v, Integral(v, S)
    PROVE  SumFunctionOnSet(v, S) = v[Pick(S)] + SumFunctionOnSet(v, S \ {Pick(S)})
<1> DEFINE U == S \ {Pick(S)}
<1>1. U \in SUBSET S /\ S \in SUBSET S /\ IsFiniteSet(U) /\ Integral(v, U)
  BY FS_Subset DEF Integral
<1>2. PICK f \in [SUBSET S -> Int] : Solves(v, f, S) /\ SumFunctionOnSet(v, S) = f[S]
  BY SumSolves
<1>3. PICK g \in [SUBSET U -> Int] : Solves(v, g, U) /\ SumFunctionOnSet(v, U) = g[U]
  BY <1>1, SumSolves
<1>4. f[U] = g[U]
  BY <1>1, <1>2, <1>3, SolutionsAgree
<1>5. f[S] = v[Pick(S)] + f[U]
  BY <1>1, <1>2 DEF Solves, Summed
<1> QED
  BY <1>2, <1>3, <1>4, <1>5

\* In whichever order its terms are added, a sum is the same.
LEMMA SumRemove ==
    ASSUME NEW S, IsFiniteSet(S), NEW x \in S, NEW v, Integral(v, S)
    PROVE  SumFunctionOnSet(v, S) = v[x] + SumFunctionOnSet(v, S \ {x})
<1> DEFINE Agrees(U) == \A y \in U : SumFunctionOnSet(v, U) = v[y] + SumFunctionOnSet(v, U \ {y})
           Holds(n) == \A U \in SUBSET S : Cardinality(U) = n => Agrees(U)
<1>0. \A U \in SUBSET S : IsFiniteSet(U) /\ Integral(v, U) /\ SumFunctionOnSet(v, U) \in Int
  BY FS_Subset, SumInt DEF Integral
<1>1. Holds(0)
  BY SmallerByPick
<1>2. ASSUME NEW n \in Nat, Holds(n) PROVE Holds(n + 1)
  <2>1. ASSUME NEW U \in SUBSET S, Cardinality(U) = n + 1, NEW y \in U
        PROVE  SumFunctionOnSet(v, U) = v[y] + SumFunctionOnSet(v, U \ {y})
    <3> DEFINE p == Pick(U)
    <3>1. /\ IsFiniteSet(U) /\ p \in U /\ U \ {p} \in SUBSET S /\ Cardinality(U \ {p}) = n
          /\ SumFunctionOnSet(v, U) = v[p] + SumFunctionOnSet(v, U \ {p})
      <4>1. IsFiniteSet(U) /\ Integral(v, U) /\ U # {}
        BY <1>0
      <4>2. SumFunctionOnSet(v, U) = v[p] + SumFunctionOnSet(v, U \ {p})
        BY <4>1, SumPick
      <4>3. p \in U /\ U \ {p} \in SUBSET S /\ Cardinality(U \ {p}) = n
        BY <2>1, <4>1, SmallerByPick
      <4> QED
        BY <4>1, <4>2, <4>3
    <3>2. U \ {y} \in SUBSET S /\ Cardinality(U \ {y}) = n
      BY <2>1, <3>1, FS_RemoveElement
    <3>3. CASE y = p
      BY <3>1, <3>3
    <3>4. CASE y # p
      <4>1. SumFunctionOnSet(v, U \ {p}) = v[y] + SumFunctionOnSet(v, (U \ {p}) \ {y})
        BY <1>2, <3>1, <3>4
      <4>2. SumFunctionOnSet(v, U \ {y}) = v[p] + SumFunctionOnSet(v, (U \ {y}) \ {p})
        BY <1>2, <3>1, <3>2, <3>4
      <4>3. (U \ {p}) \ {y} = (U \ {y}) \ {p} /\ (U \ {p}) \ {y} \in SUBSET S
        OBVIOUS
      <4>4. v[y] \in Int /\ v[p] \in Int /\ SumFunctionOnSet(v, (U \ {p}) \ {y}) \in Int
        BY <1>0, <3>1, <4>3 DEF Integral
      <4>5. SumFunctionOnSet(v, (U \ {y}) \ {p}) = SumFunctionOnSet(v, (U \ {p}) \ {y})
        BY <4>3
      <4> QED
        BY <3>1, <4>1, <4>2, <4>4, <4>5
    <3> QED
      BY <3>3, <3>4
  <2> QED
    BY <2>1
<1> HIDE DEF Holds
<1> DEFINE T == {n \in Nat : Holds(n)}
<1>3. \A n \in Nat : Holds(n)
  <2>1. T \in SUBSET Nat /\ 0 \in T
    BY <1>1
  <2>2. \A n \in T : n + 1 \in T
    BY <1>2
  <2>3. T = Nat
    <3> HIDE DEF T
    <3> QED
      BY <2>1, <2>2, NumbersFrom0
  <2> QED
    BY <2>3
<1>4. Cardinality(S) \in Nat /\ S \in SUBSET S
  BY FS_CardinalityType
<1> QED
  BY <1>3, <1>4 DEF Holds

\* The same column, the same sum.
LEMMA SumSame ==
    ASSUME NEW S, IsFiniteSet(S), NEW v, NEW u, Integral(v, S), \A r \in S : u[r] = v[r]
    PROVE  SumFunctionOnSet(u, S) = SumFunctionOnSet(v, S)
<1> DEFINE F == {U \in SUBSET S : SumFunctionOnSet(u, U) = SumFunctionOnSet(v, U)}
<1>1. {} \in F
  BY SumEmpty
<1>2. ASSUME NEW U \in SUBSET S, NEW x \in S, U \in F, x \notin U PROVE U \cup {x} \in F
  <2> DEFINE W == U \cup {x}
  <2>1. W \in SUBSET S /\ x \in W /\ W \ {x} = U
    BY <1>2
  <2>2. IsFiniteSet(W) /\ Integral(v, W) /\ Integral(u, W)
    BY <2>1, FS_Subset DEF Integral
  <2>3. SumFunctionOnSet(u, W) = u[x] + SumFunctionOnSet(u, U)
    BY <2>1, <2>2, SumRemove
  <2>4. SumFunctionOnSet(v, W) = v[x] + SumFunctionOnSet(v, U)
    BY <2>1, <2>2, SumRemove
  <2>5. SumFunctionOnSet(u, U) = SumFunctionOnSet(v, U)
    BY <1>2
  <2> QED
    BY <2>1, <2>3, <2>4, <2>5
<1> HIDE DEF F
<1>3. S \in F
  BY <1>1, <1>2, FiniteFamily
<1> QED
  BY <1>3 DEF F

\* A sum of amounts is an amount.
Natural(v, S) == \A r \in S : v[r] \in Nat

LEMMA SumNat ==
    ASSUME NEW S, IsFiniteSet(S), NEW v, Natural(v, S) PROVE SumFunctionOnSet(v, S) \in Nat
<1> DEFINE F == {U \in SUBSET S : SumFunctionOnSet(v, U) \in Nat}
<1>1. {} \in F
  BY SumEmpty
<1>2. ASSUME NEW U \in SUBSET S, NEW x \in S, U \in F, x \notin U PROVE U \cup {x} \in F
  <2> DEFINE W == U \cup {x}
  <2>1. W \in SUBSET S /\ x \in W /\ W \ {x} = U
    BY <1>2
  <2>2. IsFiniteSet(W) /\ Integral(v, W)
    BY <2>1, FS_Subset DEF Integral, Natural
  <2>3. SumFunctionOnSet(v, W) = v[x] + SumFunctionOnSet(v, U)
    BY <2>1, <2>2, SumRemove
  <2>4. SumFunctionOnSet(v, U) \in Nat /\ v[x] \in Nat
    BY <1>2 DEF Natural
  <2> QED
    BY <2>1, <2>3, <2>4
<1> HIDE DEF F
<1>3. S \in F
  BY <1>1, <1>2, FiniteFamily
<1> QED
  BY <1>3 DEF F

\* Fewer amounts add up to no more.
LEMMA SumFewer ==
    ASSUME NEW S, IsFiniteSet(S), NEW U \in SUBSET S, NEW v, Natural(v, S)
    PROVE  SumFunctionOnSet(v, U) <= SumFunctionOnSet(v, S)
<1> DEFINE F == {W \in SUBSET (S \ U) : SumFunctionOnSet(v, U) <= SumFunctionOnSet(v, U \cup W)}
<1>0. \A W \in SUBSET S : IsFiniteSet(W) /\ Natural(v, W) /\ Integral(v, W) /\ SumFunctionOnSet(v, W) \in Nat
  BY FS_Subset, SumNat DEF Natural, Integral
<1>1. {} \in F
  <2>1. U \cup {} = U /\ SumFunctionOnSet(v, U) \in Nat
    BY <1>0
  <2> QED
    BY <2>1
<1>2. ASSUME NEW W \in SUBSET (S \ U), NEW x \in S \ U, W \in F, x \notin W PROVE W \cup {x} \in F
  <2> DEFINE X == U \cup (W \cup {x})
  <2>1. X \in SUBSET S /\ x \in X /\ X \ {x} = U \cup W /\ U \cup W \in SUBSET S
    BY <1>2
  <2>2. SumFunctionOnSet(v, X) = v[x] + SumFunctionOnSet(v, U \cup W)
    BY <1>0, <2>1, SumRemove
  <2>3. v[x] \in Nat /\ SumFunctionOnSet(v, U) \in Nat /\ SumFunctionOnSet(v, U \cup W) \in Nat
    BY <1>0, <2>1 DEF Natural
  <2>4. SumFunctionOnSet(v, U) <= SumFunctionOnSet(v, U \cup W)
    BY <1>2
  <2>5. SumFunctionOnSet(v, U) <= SumFunctionOnSet(v, X)
    BY <2>2, <2>3, <2>4
  <2> QED
    BY <2>5
<1>3. S \ U \in F
  <2> HIDE DEF F
  <2>1. IsFiniteSet(S \ U)
    BY FS_Subset
  <2> QED
    BY <1>1, <1>2, <2>1, FiniteFamily
<1>4. U \cup (S \ U) = S
  OBVIOUS
<1> QED
  BY <1>3, <1>4

\* One row, in a table that is otherwise the same.
LEMMA SumWithout ==
    ASSUME NEW S, IsFiniteSet(S), NEW x, NEW v, Integral(v, S)
    PROVE  SumFunctionOnSet(v, S) = SumFunctionOnSet(v, S \ {x}) + (IF x \in S THEN v[x] ELSE 0)
<1>1. S \ {x} \in SUBSET S /\ IsFiniteSet(S \ {x}) /\ Integral(v, S \ {x})
  BY FS_Subset DEF Integral
<1>2. SumFunctionOnSet(v, S \ {x}) \in Int
  BY <1>1, SumInt
<1>3. CASE x \in S
  BY <1>2, <1>3, SumRemove DEF Integral
<1>4. CASE x \notin S
  <2>1. S \ {x} = S
    BY <1>4
  <2>2. SumFunctionOnSet(v, S \ {x}) = SumFunctionOnSet(v, S)
    BY <2>1
  <2> QED
    BY <1>2, <1>4, <2>2
<1> QED
  BY <1>3, <1>4

\* A sum after one row changed, or was added or taken away.
LEMMA SumPut ==
    ASSUME NEW W, IsFiniteSet(W), NEW x, NEW u, Integral(u, W), NEW v,
           \A r \in W \ {x} : u[r] = v[r]
    PROVE  SumFunctionOnSet(u, W) = SumFunctionOnSet(v, W \ {x}) + (IF x \in W THEN u[x] ELSE 0)
<1>1. SumFunctionOnSet(u, W) = SumFunctionOnSet(u, W \ {x}) + (IF x \in W THEN u[x] ELSE 0)
  BY SumWithout
<1>2. IsFiniteSet(W \ {x}) /\ Integral(v, W \ {x})
  BY FS_Subset DEF Integral
<1>3. SumFunctionOnSet(u, W \ {x}) = SumFunctionOnSet(v, W \ {x})
  BY <1>2, SumSame
<1> QED
  BY <1>1, <1>3

\* One row changed, in its amount or in whether it counts.
LEMMA SumMoved ==
    ASSUME NEW R, IsFiniteSet(R), NEW k \in R, NEW v, Integral(v, R), NEW u, Integral(u, R),
           \A r \in R \ {k} : u[r] = v[r],
           NEW S \in SUBSET R, NEW T \in SUBSET R, \A r \in R \ {k} : r \in S <=> r \in T
    PROVE  SumFunctionOnSet(u, T) + (IF k \in S THEN v[k] ELSE 0) = SumFunctionOnSet(v, S) + (IF k \in T THEN u[k] ELSE 0)
<1>1. PICK V : V = S \ {k}
  OBVIOUS
<1>2. V = T \ {k}
  BY <1>1
<1>3. IsFiniteSet(S) /\ IsFiniteSet(T) /\ IsFiniteSet(V)
  BY <1>1, FS_Subset
<1>4. Integral(v, S) /\ Integral(u, T) /\ Integral(v, V)
  BY <1>1 DEF Integral
<1>5. SumFunctionOnSet(v, S) = SumFunctionOnSet(v, V) + (IF k \in S THEN v[k] ELSE 0)
  BY <1>1, <1>3, <1>4, SumWithout
<1>6. \A r \in T \ {k} : u[r] = v[r]
  OBVIOUS
<1>7. SumFunctionOnSet(u, T) = SumFunctionOnSet(v, T \ {k}) + (IF k \in T THEN u[k] ELSE 0)
  BY <1>3, <1>4, <1>6, SumPut
<1>8. SumFunctionOnSet(v, V) \in Int /\ v[k] \in Int /\ u[k] \in Int
  BY <1>3, <1>4, SumInt DEF Integral
<1>9. SumFunctionOnSet(v, T \ {k}) = SumFunctionOnSet(v, V)
  BY <1>2
<1> QED
  BY <1>5, <1>7, <1>8, <1>9

\* Nothing adds up to nothing.
LEMMA SumZeros ==
    ASSUME NEW S, IsFiniteSet(S), NEW v, \A r \in S : v[r] = 0 PROVE SumFunctionOnSet(v, S) = 0
<1> DEFINE F == {U \in SUBSET S : SumFunctionOnSet(v, U) = 0}
<1>1. {} \in F
  BY SumEmpty
<1>2. ASSUME NEW U \in SUBSET S, NEW x \in S, U \in F, x \notin U PROVE U \cup {x} \in F
  <2> DEFINE W == U \cup {x}
  <2>1. W \in SUBSET S /\ x \in W /\ W \ {x} = U
    BY <1>2
  <2>2. IsFiniteSet(W) /\ Integral(v, W)
    BY <2>1, FS_Subset DEF Integral
  <2>3. SumFunctionOnSet(v, W) = v[x] + SumFunctionOnSet(v, U)
    BY <2>1, <2>2, SumRemove
  <2> QED
    BY <1>2, <2>1, <2>3
<1> HIDE DEF F
<1>3. S \in F
  BY <1>1, <1>2, FiniteFamily
<1> QED
  BY <1>3 DEF F

=============================================================================
