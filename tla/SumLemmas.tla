----------------------------- MODULE SumLemmas -----------------------------
(***************************************************************************)
(* Sums of an integer-valued function over a finite set: what the proofs   *)
(* about balances need of SumFunctionOnSet.                                *)
(*                                                                         *)
(* The induction principles are stated for a set of values instead of a    *)
(* predicate, so that first-order provers can use them.                    *)
(***************************************************************************)
EXTENDS Functions, FiniteSets, FiniteSetTheorems, WellFoundedInduction, TLAPS

(* A nonempty set of natural numbers has a least element. *)
LEMMA NatLeast ==
    ASSUME NEW T \in SUBSET Nat, T # {}
    PROVE  \E x \in T : \A y \in T : x <= y
  <1>1. IsWellFoundedOn(OpToRel(<, Nat), Nat)
    BY NatLessThanWellFounded, Zenon
  <1>2. PICK x \in T : \A y \in T : ~(<<y, x>> \in OpToRel(<, Nat))
    BY <1>1, WFMin, Zenon
  <1>3. \A y \in T : <<y, x>> \in OpToRel(<, Nat) <=> y < x
    BY Zenon DEF OpToRel
  <1>4. \A y \in T : ~(y < x)
    BY <1>2, <1>3, Zenon
  <1>5. x \in Nat /\ \A y \in T : y \in Nat
    OBVIOUS
  <1>6. \A y \in T : x <= y
    BY ONLY <1>4, <1>5
  <1> QED
    BY <1>6

LEMMA NatInd ==
    ASSUME NEW S, 0 \in S, \A n \in Nat : n \in S => n + 1 \in S
    PROVE  Nat \subseteq S
  <1> DEFINE T == Nat \ S
  <1> SUFFICES ASSUME T # {} PROVE FALSE
    OBVIOUS
  <1>1. PICK x \in T : \A y \in T : x <= y
    BY NatLeast
  <1>2. x # 0 /\ x - 1 \in Nat
    OBVIOUS
  <1>3. x - 1 \in S
    BY <1>1, <1>2
  <1>4. (x - 1) + 1 \in S
    BY <1>2, <1>3
  <1> QED
    BY <1>4

(* Induction over the subsets of a finite set. *)
LEMMA SubsetInd ==
    ASSUME NEW S, IsFiniteSet(S), NEW U,
           \A T \in SUBSET S : (\A x \in T : T \ {x} \in U) => T \in U
    PROVE  SUBSET S \subseteq U
  <1> DEFINE Bad == (SUBSET S) \ U
             Sizes == {Cardinality(T) : T \in Bad}
  <1> SUFFICES ASSUME Bad # {} PROVE FALSE
    OBVIOUS
  <1>1. \A T \in SUBSET S : IsFiniteSet(T) /\ Cardinality(T) \in Nat
    BY FS_Subset, FS_CardinalityType
  <1>2. Sizes \in SUBSET Nat /\ Sizes # {}
    BY <1>1
  <1>3. PICK n \in Sizes : \A m \in Sizes : n <= m
    BY ONLY <1>2, NatLeast
  <1>4. PICK T \in Bad : Cardinality(T) = n
    BY <1>3
  <1>5. ASSUME NEW x \in T PROVE T \ {x} \in U
    <2>1. Cardinality(T \ {x}) = n - 1 /\ T \ {x} \in SUBSET S
      BY <1>1, <1>4, FS_RemoveElement
    <2>2. n \in Nat
      BY <1>2, <1>3
    <2>3. ~(n <= n - 1)
      BY <2>2
    <2>4. Cardinality(T \ {x}) \notin Sizes
      BY <1>3, <2>1, <2>3
    <2> QED
      BY <2>1, <2>4
  <1>6. T \in U
    BY <1>5
  <1> QED
    BY <1>6

-----------------------------------------------------------------------------

(* F is the recursive function of MapThenFoldSet that sums f over S. *)
Pick(s) == CHOOSE x \in s : TRUE
IsSum(F, f, S) ==
    F = [s \in SUBSET S |-> IF s = {} THEN 0 ELSE f[Pick(s)] + F[s \ {Pick(s)}]]

LEMMA SumDef ==
    ASSUME NEW f, NEW S
    PROVE  SumFunctionOnSet(f, S) = (CHOOSE F : IsSum(F, f, S))[S]
  BY DEF SumFunctionOnSet, FoldFunctionOnSet, MapThenFoldSet, IsSum, Pick

LEMMA PickIn == ASSUME NEW s, s # {} PROVE Pick(s) \in s
  BY Zenon DEF Pick

(* The recursion has a solution on a finite set: one on the subsets with   *)
(* at most n elements, for every n.                                        *)
LEMMA SumExists ==
    ASSUME NEW f, NEW S, IsFiniteSet(S)
    PROVE  \E F : IsSum(F, f, S)
  <1> DEFINE D(n) == {s \in SUBSET S : Cardinality(s) <= n}
             Solves(F, n) == F = [s \in D(n) |-> IF s = {} THEN 0
                                                ELSE f[Pick(s)] + F[s \ {Pick(s)}]]
             N == {n \in Nat : \E F : Solves(F, n)}
  <1>0. ASSUME NEW s \in SUBSET S
        PROVE  /\ IsFiniteSet(s) /\ Cardinality(s) \in Nat
               /\ Cardinality(s) <= Cardinality(S)
               /\ Cardinality(s) = 0 <=> s = {}
    BY FS_Subset, FS_CardinalityType, FS_EmptySet
  <1>d. \A n : \A s : s \in D(n) <=> s \in SUBSET S /\ Cardinality(s) <= n
    OBVIOUS
  <1> HIDE DEF D
  <1>1. 0 \in N
    <2>1. ASSUME NEW s \in D(0) PROVE s = {}
      <3>1. s \in SUBSET S /\ Cardinality(s) <= 0
        BY <1>d
      <3>2. Cardinality(s) \in Nat
        BY <1>0, <3>1
      <3>3. Cardinality(s) = 0
        BY <3>1, <3>2
      <3> QED
        BY <1>0, <3>1, <3>3
    <2> DEFINE F == [s \in D(0) |-> 0]
    <2>2. Solves(F, 0)
      BY <2>1
    <2> QED
      BY <2>2
  <1>2. ASSUME NEW n \in Nat, n \in N PROVE n + 1 \in N
    <2>1. PICK F : Solves(F, n)
      BY <1>2
    <2> DEFINE G == [s \in D(n + 1) |-> IF s = {} THEN 0 ELSE f[Pick(s)] + F[s \ {Pick(s)}]]
    <2>2. ASSUME NEW s \in D(n + 1), s # {} PROVE s \ {Pick(s)} \in D(n)
      <3>0. s \in SUBSET S /\ Cardinality(s) <= n + 1
        BY <1>d
      <3>1. Pick(s) \in s
        BY <2>2, PickIn
      <3>2. IsFiniteSet(s) /\ Cardinality(s) \in Nat
        BY <1>0, <3>0
      <3>3. Cardinality(s \ {Pick(s)}) = Cardinality(s) - 1
        BY ONLY <3>1, <3>2, FS_RemoveElement
      <3>4. Cardinality(s) - 1 <= n
        BY <3>0, <3>2
      <3> QED
        BY <1>d, <3>0, <3>3, <3>4
    <2>3. ASSUME NEW s \in D(n) PROVE G[s] = F[s]
      <3>0. s \in SUBSET S /\ Cardinality(s) <= n
        BY <1>d
      <3>1. s \in D(n + 1)
        <4>1. Cardinality(s) \in Nat
          BY <1>0, <3>0
        <4>2. Cardinality(s) <= n + 1
          BY <3>0, <4>1
        <4> QED
          BY <1>d, <3>0, <4>2
      <3>2. F[s] = IF s = {} THEN 0 ELSE f[Pick(s)] + F[s \ {Pick(s)}]
        BY <2>1, <2>3
      <3>3. G[s] = IF s = {} THEN 0 ELSE f[Pick(s)] + F[s \ {Pick(s)}]
        BY <3>1
      <3> QED
        BY ONLY <3>2, <3>3
    <2>4. G = [s \in D(n + 1) |-> IF s = {} THEN 0 ELSE f[Pick(s)] + G[s \ {Pick(s)}]]
      <3>1. \A s \in D(n + 1) : s # {} => F[s \ {Pick(s)}] = G[s \ {Pick(s)}]
        BY <2>2, <2>3
      <3> QED
        BY <3>1
    <2>5. Solves(G, n + 1)
      BY <2>4
    <2>6. n + 1 \in Nat
      OBVIOUS
    <2> HIDE DEF Solves
    <2> QED
      BY <2>5, <2>6
  <1>3. Cardinality(S) \in Nat
    BY FS_CardinalityType
  <1>4. Nat \subseteq N
    <2> HIDE DEF N
    <2> QED
      BY <1>1, <1>2, NatInd
  <1>5. PICK F : Solves(F, Cardinality(S))
    BY <1>3, <1>4
  <1>6. D(Cardinality(S)) = SUBSET S
    BY <1>0, <1>d
  <1> QED
    BY <1>5, <1>6 DEF IsSum

LEMMA SumSolves ==
    ASSUME NEW f, NEW S, IsFiniteSet(S)
    PROVE  \E F : IsSum(F, f, S) /\ SumFunctionOnSet(f, S) = F[S]
  <1>1. IsSum(CHOOSE F : IsSum(F, f, S), f, S)
    BY SumExists, Zenon
  <1> QED
    BY <1>1, SumDef, Zenon

(* The solutions are integer-valued, agree where they overlap, and do not  *)
(* depend on the order of the elements.                                    *)
LEMMA SolutionInt ==
    ASSUME NEW S, IsFiniteSet(S), NEW f, \A x \in S : f[x] \in Int, NEW F, IsSum(F, f, S)
    PROVE  \A s \in SUBSET S : F[s] \in Int
  <1> DEFINE U == {s \in SUBSET S : F[s] \in Int}
  <1>1. ASSUME NEW s \in SUBSET S, \A x \in s : s \ {x} \in U PROVE s \in U
    <2>1. F[s] = IF s = {} THEN 0 ELSE f[Pick(s)] + F[s \ {Pick(s)}]
      BY DEF IsSum
    <2>2. CASE s = {}
      BY <2>1, <2>2
    <2>3. CASE s # {}
      <3>1. Pick(s) \in s
        BY <2>3, PickIn
      <3>2. f[Pick(s)] \in Int /\ F[s \ {Pick(s)}] \in Int
        BY <1>1, <3>1
      <3> QED
        BY <2>1, <2>3, <3>2
    <2> QED
      BY <2>2, <2>3
  <1>2. SUBSET S \subseteq U
    <2> HIDE DEF U
    <2> QED
      BY <1>1, SubsetInd
  <1> QED
    BY <1>2

LEMMA SolutionsAgree ==
    ASSUME NEW S, IsFiniteSet(S), NEW T \in SUBSET S, NEW f, NEW F, NEW G,
           IsSum(F, f, S), IsSum(G, f, T)
    PROVE  G[T] = F[T]
  <1> DEFINE U == {s \in SUBSET T : G[s] = F[s]}
  <1>0. IsFiniteSet(T)
    BY FS_Subset
  <1>1. ASSUME NEW s \in SUBSET T, \A x \in s : s \ {x} \in U PROVE s \in U
    <2>1. /\ F[s] = IF s = {} THEN 0 ELSE f[Pick(s)] + F[s \ {Pick(s)}]
          /\ G[s] = IF s = {} THEN 0 ELSE f[Pick(s)] + G[s \ {Pick(s)}]
      BY DEF IsSum
    <2>2. s # {} => Pick(s) \in s
      BY PickIn
    <2>3. s # {} => G[s \ {Pick(s)}] = F[s \ {Pick(s)}]
      BY <1>1, <2>2
    <2> QED
      BY <2>1, <2>3
  <1>2. SUBSET T \subseteq U
    <2> HIDE DEF U
    <2> QED
      BY <1>0, <1>1, SubsetInd
  <1> QED
    BY <1>2

LEMMA SolutionRemove ==
    ASSUME NEW S, IsFiniteSet(S), NEW f, \A x \in S : f[x] \in Int, NEW F, IsSum(F, f, S)
    PROVE  \A s \in SUBSET S : \A x \in s : F[s] = f[x] + F[s \ {x}]
  <1> DEFINE U == {s \in SUBSET S : \A x \in s : F[s] = f[x] + F[s \ {x}]}
  <1>1. ASSUME NEW s \in SUBSET S, \A x \in s : s \ {x} \in U PROVE s \in U
    <2> SUFFICES ASSUME NEW x \in s PROVE F[s] = f[x] + F[s \ {x}]
      OBVIOUS
    <2> DEFINE c == Pick(s)
    <2>1. c \in s
      BY PickIn
    <2>2. F[s] = f[c] + F[s \ {c}]
      BY DEF IsSum
    <2> HIDE DEF c
    <2>3. CASE x = c
      BY <2>2, <2>3
    <2>4. CASE x # c
      <3>1. F[s \ {c}] = f[x] + F[(s \ {c}) \ {x}]
        BY <1>1, <2>1, <2>4
      <3>2. F[s \ {x}] = f[c] + F[(s \ {x}) \ {c}]
        BY <1>1, <2>1, <2>4
      <3>3. (s \ {c}) \ {x} = (s \ {x}) \ {c}
        OBVIOUS
      <3>4. f[x] \in Int /\ f[c] \in Int /\ F[(s \ {x}) \ {c}] \in Int
        BY <2>1, SolutionInt
      <3>5. \A i, j, k \in Int : i + (j + k) = j + (i + k)
        OBVIOUS
      <3>6. f[c] + (f[x] + F[(s \ {x}) \ {c}]) = f[x] + (f[c] + F[(s \ {x}) \ {c}])
        BY ONLY <3>4, <3>5
      <3> QED
        BY ONLY <2>2, <3>1, <3>2, <3>3, <3>6, Zenon
    <2> QED
      BY <2>3, <2>4
  <1>2. SUBSET S \subseteq U
    <2> HIDE DEF U
    <2> QED
      BY <1>1, SubsetInd
  <1> QED
    BY <1>2

-----------------------------------------------------------------------------
(* What a sum is. *)

LEMMA SumEmpty == ASSUME NEW f PROVE SumFunctionOnSet(f, {}) = 0
  <1>1. IsFiniteSet({})
    BY FS_EmptySet
  <1>2. PICK F : IsSum(F, f, {}) /\ SumFunctionOnSet(f, {}) = F[{}]
    BY <1>1, SumSolves
  <1> QED
    BY <1>2 DEF IsSum

LEMMA SumInt ==
    ASSUME NEW S, IsFiniteSet(S), NEW f, \A x \in S : f[x] \in Int
    PROVE  SumFunctionOnSet(f, S) \in Int
  <1>1. PICK F : IsSum(F, f, S) /\ SumFunctionOnSet(f, S) = F[S]
    BY SumSolves
  <1> QED
    BY <1>1, SolutionInt

LEMMA SumRemove ==
    ASSUME NEW S, IsFiniteSet(S), NEW f, \A x \in S : f[x] \in Int, NEW x \in S
    PROVE  SumFunctionOnSet(f, S) = f[x] + SumFunctionOnSet(f, S \ {x})
  <1>0. IsFiniteSet(S \ {x})
    BY FS_RemoveElement
  <1>1. PICK F : IsSum(F, f, S) /\ SumFunctionOnSet(f, S) = F[S]
    BY SumSolves
  <1>2. PICK G : IsSum(G, f, S \ {x}) /\ SumFunctionOnSet(f, S \ {x}) = G[S \ {x}]
    BY <1>0, SumSolves
  <1>3. G[S \ {x}] = F[S \ {x}]
    BY <1>1, <1>2, S \ {x} \in SUBSET S, SolutionsAgree
  <1>4. F[S] = f[x] + F[S \ {x}]
    BY <1>1, SolutionRemove
  <1> QED
    BY <1>1, <1>2, <1>3, <1>4

(* A larger function has a larger sum. *)
LEMMA SumMonotonic ==
    ASSUME NEW S, IsFiniteSet(S), NEW f, NEW g,
           \A x \in S : f[x] \in Int /\ g[x] \in Int /\ f[x] <= g[x]
    PROVE  SumFunctionOnSet(f, S) <= SumFunctionOnSet(g, S)
  <1> DEFINE U == {s \in SUBSET S : SumFunctionOnSet(f, s) <= SumFunctionOnSet(g, s)}
  <1>1. ASSUME NEW s \in SUBSET S, \A x \in s : s \ {x} \in U PROVE s \in U
    <2>0. IsFiniteSet(s)
      BY FS_Subset
    <2>1. CASE s = {}
      <3>1. SumFunctionOnSet(f, {}) = 0 /\ SumFunctionOnSet(g, {}) = 0
        BY SumEmpty
      <3> QED
        BY <2>1, <3>1
    <2>2. CASE s # {}
      <3>1. PICK x \in s : TRUE
        BY <2>2
      <3>2. SumFunctionOnSet(f, s) = f[x] + SumFunctionOnSet(f, s \ {x})
        BY <2>0, SumRemove
      <3>3. SumFunctionOnSet(g, s) = g[x] + SumFunctionOnSet(g, s \ {x})
        BY <2>0, SumRemove
      <3>4. IsFiniteSet(s \ {x})
        BY <2>0, FS_RemoveElement
      <3>5. SumFunctionOnSet(f, s \ {x}) \in Int /\ SumFunctionOnSet(g, s \ {x}) \in Int
        BY <3>4, SumInt
      <3>6. SumFunctionOnSet(f, s \ {x}) <= SumFunctionOnSet(g, s \ {x})
        BY <1>1
      <3>7. f[x] \in Int /\ g[x] \in Int /\ f[x] <= g[x]
        OBVIOUS
      <3>8. SumFunctionOnSet(f, s) <= SumFunctionOnSet(g, s)
        BY ONLY <3>2, <3>3, <3>5, <3>6, <3>7
      <3> QED
        BY <3>8
    <2> QED
      BY <2>1, <2>2
  <1>2. SUBSET S \subseteq U
    <2> HIDE DEF U
    <2> QED
      BY <1>1, SubsetInd
  <1> QED
    BY <1>2

LEMMA SumEqual ==
    ASSUME NEW S, IsFiniteSet(S), NEW f, NEW g,
           \A x \in S : f[x] \in Int /\ g[x] = f[x]
    PROVE  SumFunctionOnSet(g, S) = SumFunctionOnSet(f, S)
  <1>1. \A x \in S : f[x] \in Int /\ g[x] \in Int /\ f[x] <= g[x] /\ g[x] <= f[x]
    OBVIOUS
  <1>2. SumFunctionOnSet(f, S) <= SumFunctionOnSet(g, S)
    BY <1>1, SumMonotonic
  <1>3. SumFunctionOnSet(g, S) <= SumFunctionOnSet(f, S)
    BY <1>1, SumMonotonic
  <1>4. SumFunctionOnSet(f, S) \in Int /\ SumFunctionOnSet(g, S) \in Int
    BY <1>1, SumInt
  <1> QED
    BY ONLY <1>2, <1>3, <1>4

(* One value changes. *)
LEMMA SumChange ==
    ASSUME NEW S, IsFiniteSet(S), NEW f, NEW g, NEW r \in S, g[r] \in Int,
           \A x \in S : f[x] \in Int, \A x \in S : x # r => g[x] = f[x]
    PROVE  SumFunctionOnSet(g, S) = SumFunctionOnSet(f, S) + g[r] - f[r]
  <1>0. IsFiniteSet(S \ {r})
    BY FS_RemoveElement
  <1>1. SumFunctionOnSet(f, S) = f[r] + SumFunctionOnSet(f, S \ {r})
    BY SumRemove
  <1>2. \A x \in S : g[x] \in Int
    OBVIOUS
  <1>3. SumFunctionOnSet(g, S) = g[r] + SumFunctionOnSet(g, S \ {r})
    BY <1>2, SumRemove
  <1>4. SumFunctionOnSet(g, S \ {r}) = SumFunctionOnSet(f, S \ {r})
    <2>1. \A x \in S \ {r} : f[x] \in Int /\ g[x] = f[x]
      OBVIOUS
    <2> QED
      BY <1>0, <2>1, SumEqual
  <1>5. SumFunctionOnSet(f, S \ {r}) \in Int
    BY <1>0, SumInt
  <1> QED
    BY <1>1, <1>3, <1>4, <1>5, f[r] \in Int, g[r] \in Int

(* The elements whose value is zero do not count. *)
LEMMA SumSupport ==
    ASSUME NEW S, IsFiniteSet(S), NEW T \in SUBSET S, NEW f,
           \A x \in S : f[x] \in Int, \A x \in S \ T : f[x] = 0
    PROVE  SumFunctionOnSet(f, S) = SumFunctionOnSet(f, T)
  <1> DEFINE U == {s \in SUBSET S : T \subseteq s =>
                       SumFunctionOnSet(f, s) = SumFunctionOnSet(f, T)}
  <1>1. ASSUME NEW s \in SUBSET S, \A x \in s : s \ {x} \in U PROVE s \in U
    <2> SUFFICES ASSUME T \subseteq s PROVE SumFunctionOnSet(f, s) = SumFunctionOnSet(f, T)
      OBVIOUS
    <2>1. CASE s = T
      BY <2>1
    <2>2. CASE s # T
      <3>0. IsFiniteSet(s) /\ IsFiniteSet(T)
        BY FS_Subset
      <3>1. PICK x \in s : x \notin T
        BY <2>2
      <3>2. SumFunctionOnSet(f, s) = f[x] + SumFunctionOnSet(f, s \ {x})
        BY <3>0, SumRemove
      <3>3. SumFunctionOnSet(f, s \ {x}) = SumFunctionOnSet(f, T)
        BY <1>1, <3>1
      <3>4. SumFunctionOnSet(f, T) \in Int
        BY <3>0, SumInt
      <3>5. f[x] = 0
        BY <3>1
      <3> QED
        BY ONLY <3>2, <3>3, <3>4, <3>5
    <2> QED
      BY <2>1, <2>2
  <1>2. SUBSET S \subseteq U
    <2> HIDE DEF U
    <2> QED
      BY <1>1, SubsetInd
  <1> QED
    BY <1>2

LEMMA SumNonnegative ==
    ASSUME NEW S, IsFiniteSet(S), NEW f, \A x \in S : f[x] \in Int /\ f[x] >= 0
    PROVE  SumFunctionOnSet(f, S) >= 0
  <1> DEFINE zero == [x \in S |-> 0]
  <1>1. \A x \in S : zero[x] = 0
    OBVIOUS
  <1> HIDE DEF zero
  <1>2. SumFunctionOnSet(zero, S) = SumFunctionOnSet(zero, {})
    BY <1>1, SumSupport
  <1>3. SumFunctionOnSet(zero, {}) = 0
    BY SumEmpty
  <1>4. SumFunctionOnSet(zero, S) <= SumFunctionOnSet(f, S)
    BY <1>1, SumMonotonic
  <1>5. SumFunctionOnSet(f, S) \in Int
    BY SumInt
  <1> QED
    BY <1>2, <1>3, <1>4, <1>5
=============================================================================
