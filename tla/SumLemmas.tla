----------------------------- MODULE SumLemmas -----------------------------
(* Lemmas about SumFunctionOnSet, the sum of the values a function takes   *)
(* on a finite set.  The vault's books and the claims of an earner are     *)
(* such sums.  The induction principles are stated with sets in the place  *)
(* of predicates, so that they can be instantiated.                        *)
EXTENDS Functions, FiniteSets, FiniteSetTheorems, WellFoundedInduction, TLAPS

-----------------------------------------------------------------------------
(* A set of naturals with 0 and the successor of each of its elements has  *)
(* them all.                                                               *)
LEMMA NatInductive ==
    ASSUME NEW A \in SUBSET Nat, 0 \in A, \A n \in A : n + 1 \in A
    PROVE  A = Nat
<1> SUFFICES ASSUME Nat \ A # {} PROVE FALSE
  OBVIOUS
<1> DEFINE Less == {ss \in Nat \X Nat : ss[1] < ss[2]}
<1>1. PICK x \in Nat \ A : \A y \in Nat \ A : ~(<<y, x>> \in Less)
  <2>1. IsWellFoundedOn(Less, Nat)
    BY NatLessThanWellFounded DEF OpToRel
  <2> HIDE DEF Less
  <2> QED BY <2>1, WFMin
<1>2. \A y \in Nat \ A : ~(y < x)
  BY <1>1
<1>3. x # 0 /\ x - 1 \in Nat \ A
  OBVIOUS
<1> QED BY <1>2, <1>3

(* A family of subsets of S that has every subset whose elements can be    *)
(* removed without leaving the family has S.                               *)
LEMMA SubsetInductive ==
    ASSUME NEW S, IsFiniteSet(S), NEW A \in SUBSET SUBSET S,
           \A T \in SUBSET S : (\A x \in T : T \ {x} \in A) => T \in A
    PROVE  A = SUBSET S
<1> DEFINE N == {n \in Nat : \A T \in SUBSET S : Cardinality(T) = n => T \in A}
<1>1. \A T \in SUBSET S : IsFiniteSet(T) /\ Cardinality(T) \in Nat
  BY FS_Subset, FS_CardinalityType
<1>2. 0 \in N
  <2> SUFFICES ASSUME NEW T \in SUBSET S, Cardinality(T) = 0 PROVE T \in A
    OBVIOUS
  <2>1. T = {}
    BY <1>1, FS_EmptySet
  <2> QED BY <2>1
<1>3. ASSUME NEW n \in N PROVE n + 1 \in N
  <2> SUFFICES ASSUME NEW T \in SUBSET S, Cardinality(T) = n + 1 PROVE T \in A
    OBVIOUS
  <2>1. ASSUME NEW x \in T PROVE T \ {x} \in A
    <3>1. Cardinality(T \ {x}) = Cardinality(T) - 1
      BY <1>1, FS_RemoveElement
    <3>2. Cardinality(T \ {x}) = n
      BY <3>1
    <3> QED BY <3>2
  <2> QED BY <2>1
<1>4. N = Nat
  <2> HIDE DEF N
  <2>1. N \in SUBSET Nat
    BY DEF N
  <2> QED BY <1>2, <1>3, <2>1, NatInductive
<1> QED BY <1>1, <1>4

-----------------------------------------------------------------------------
(* The sums of f on the subsets of S, element by element.                  *)
Pick(T) == CHOOSE x \in T : TRUE

OneMore(f, D, g) == [T \in D |-> IF T = {} THEN 0 ELSE f[Pick(T)] + g[T \ {Pick(T)}]]

Partial(f, S) == CHOOSE g : g = OneMore(f, SUBSET S, g)

LEMMA SumIsPartial ==
    ASSUME NEW f, NEW S
    PROVE  SumFunctionOnSet(f, S) = Partial(f, S)[S]
BY DEF SumFunctionOnSet, FoldFunctionOnSet, MapThenFoldSet, Partial, OneMore, Pick

(* One such function exists: it is built up by the size of the subsets.    *)
LEMMA PartialExists ==
    ASSUME NEW f, NEW S, IsFiniteSet(S)
    PROVE  \E g : g = OneMore(f, SUBSET S, g)
<1> DEFINE UpTo(n) == {T \in SUBSET S : Cardinality(T) <= n}
           Good(n) == \E g : g = OneMore(f, UpTo(n), g)
           N == {n \in Nat : Good(n)}
<1>1. \A T \in SUBSET S : IsFiniteSet(T) /\ Cardinality(T) \in Nat
  BY FS_Subset, FS_CardinalityType
<1>2. ASSUME NEW T \in SUBSET S, T # {}
      PROVE  /\ T \ {Pick(T)} \in SUBSET S
             /\ Cardinality(T \ {Pick(T)}) = Cardinality(T) - 1
             /\ Pick(T) \in T
  <2>1. Pick(T) \in T
    BY <1>2 DEF Pick
  <2> QED BY <1>1, <2>1, FS_RemoveElement
<1>3. 0 \in N
  <2> DEFINE g == [T \in UpTo(0) |-> 0]
  <2>1. \A T \in UpTo(0) : T = {}
    BY <1>1, FS_EmptySet
  <2>2. g = OneMore(f, UpTo(0), g)
    BY <2>1 DEF OneMore
  <2>3. Good(0)
    <3> HIDE DEF g, UpTo
    <3> QED BY <2>2
  <2> QED BY <2>3
<1>4. ASSUME NEW n \in N PROVE n + 1 \in N
  <2>1. PICK g : g = OneMore(f, UpTo(n), g)
    OBVIOUS
  <2> DEFINE h == OneMore(f, UpTo(n + 1), g)
  <2>2. ASSUME NEW T \in UpTo(n + 1), T # {}
        PROVE  h[T \ {Pick(T)}] = g[T \ {Pick(T)}]
    <3> DEFINE U == T \ {Pick(T)}
    <3>1. U \in UpTo(n) /\ U \in UpTo(n + 1)
      BY <1>1, <1>2, <2>2
    <3>2. g[U] = IF U = {} THEN 0 ELSE f[Pick(U)] + g[U \ {Pick(U)}]
      <4> HIDE DEF U, UpTo
      <4> QED BY <2>1, <3>1 DEF OneMore
    <3>3. h[U] = IF U = {} THEN 0 ELSE f[Pick(U)] + g[U \ {Pick(U)}]
      <4> HIDE DEF U, UpTo
      <4> QED BY <3>1 DEF OneMore
    <3> HIDE DEF h
    <3> QED BY <3>2, <3>3
  <2>3. h = OneMore(f, UpTo(n + 1), h)
    <3> HIDE DEF UpTo
    <3> QED BY <2>2 DEF OneMore
  <2>4. Good(n + 1)
    <3> HIDE DEF h, UpTo
    <3> QED BY <2>3
  <2> HIDE DEF Good
  <2> QED BY <2>4
<1>5. N = Nat
  <2> HIDE DEF N
  <2>1. N \in SUBSET Nat
    BY DEF N
  <2> QED BY <1>3, <1>4, <2>1, NatInductive
<1>6. Good(Cardinality(S))
  BY <1>1, <1>5
<1>7. UpTo(Cardinality(S)) = SUBSET S
  BY FS_Subset
<1> HIDE DEF UpTo
<1> QED BY <1>6, <1>7

LEMMA PartialDef ==
    ASSUME NEW f, NEW S, IsFiniteSet(S), NEW T \in SUBSET S
    PROVE  Partial(f, S)[T] = IF T = {} THEN 0
                              ELSE f[Pick(T)] + Partial(f, S)[T \ {Pick(T)}]
<1>1. \E g : g = OneMore(f, SUBSET S, g)
  BY PartialExists
<1>2. Partial(f, S) = OneMore(f, SUBSET S, Partial(f, S))
  BY <1>1 DEF Partial
<1> QED BY <1>2 DEF OneMore

(* On a subset, the sums of S agree with its own.                          *)
LEMMA PartialAgrees ==
    ASSUME NEW f, NEW S, IsFiniteSet(S), NEW U \in SUBSET S
    PROVE  \A T \in SUBSET U : Partial(f, S)[T] = Partial(f, U)[T]
<1> DEFINE A == {T \in SUBSET U : Partial(f, S)[T] = Partial(f, U)[T]}
<1>1. IsFiniteSet(U)
  BY FS_Subset
<1>2. ASSUME NEW T \in SUBSET U, \A x \in T : T \ {x} \in A
      PROVE  T \in A
  <2>1. CASE T = {}
    BY <1>1, <2>1, PartialDef
  <2>2. CASE T # {}
    <3>1. Pick(T) \in T
      BY <2>2 DEF Pick
    <3>2. Partial(f, S)[T \ {Pick(T)}] = Partial(f, U)[T \ {Pick(T)}]
      BY <1>2, <3>1
    <3>3. Partial(f, S)[T] = f[Pick(T)] + Partial(f, S)[T \ {Pick(T)}]
      BY <2>2, PartialDef
    <3>4. Partial(f, U)[T] = f[Pick(T)] + Partial(f, U)[T \ {Pick(T)}]
      BY <1>1, <2>2, PartialDef
    <3> QED BY <3>2, <3>3, <3>4
  <2> QED BY <2>1, <2>2
<1>3. A = SUBSET U
  <2> HIDE DEF A
  <2>1. A \in SUBSET SUBSET U
    BY DEF A
  <2> QED BY <1>1, <1>2, <2>1, SubsetInductive
<1> QED BY <1>3

-----------------------------------------------------------------------------
(* The sum over nothing is 0, and any other one takes an element off.      *)
LEMMA SumEmpty ==
    ASSUME NEW f
    PROVE  SumFunctionOnSet(f, {}) = 0
BY SumIsPartial, PartialDef, FS_EmptySet

LEMMA SumPick ==
    ASSUME NEW f, NEW S, IsFiniteSet(S), S # {}
    PROVE  /\ Pick(S) \in S
           /\ SumFunctionOnSet(f, S) = f[Pick(S)] + SumFunctionOnSet(f, S \ {Pick(S)})
<1> DEFINE U == S \ {Pick(S)}
<1>1. Pick(S) \in S
  BY DEF Pick
<1>2. Partial(f, S)[S] = f[Pick(S)] + Partial(f, S)[U]
  BY PartialDef
<1>3. Partial(f, S)[U] = Partial(f, U)[U]
  BY PartialAgrees
<1> QED BY <1>1, <1>2, <1>3, SumIsPartial

(* The sum of integers is an integer, and of naturals a natural.           *)
LEMMA SumType ==
    ASSUME NEW S, IsFiniteSet(S), NEW f, \A x \in S : f[x] \in Int
    PROVE  SumFunctionOnSet(f, S) \in Int
<1> DEFINE A == {T \in SUBSET S : SumFunctionOnSet(f, T) \in Int}
<1>1. ASSUME NEW T \in SUBSET S, \A x \in T : T \ {x} \in A
      PROVE  T \in A
  <2>1. CASE T = {}
    BY <2>1, SumEmpty
  <2>2. CASE T # {}
    <3>1. IsFiniteSet(T)
      BY FS_Subset
    <3>2. /\ Pick(T) \in T
          /\ SumFunctionOnSet(f, T) = f[Pick(T)] + SumFunctionOnSet(f, T \ {Pick(T)})
      BY <2>2, <3>1, SumPick
    <3> QED BY <1>1, <3>2
  <2> QED BY <2>1, <2>2
<1>2. A = SUBSET S
  <2> HIDE DEF A
  <2>1. A \in SUBSET SUBSET S
    BY DEF A
  <2> QED BY <1>1, <2>1, SubsetInductive
<1> QED BY <1>2

LEMMA SumNat ==
    ASSUME NEW S, IsFiniteSet(S), NEW f, \A x \in S : f[x] \in Nat
    PROVE  SumFunctionOnSet(f, S) \in Nat
<1> DEFINE A == {T \in SUBSET S : SumFunctionOnSet(f, T) \in Nat}
<1>1. ASSUME NEW T \in SUBSET S, \A x \in T : T \ {x} \in A
      PROVE  T \in A
  <2>1. CASE T = {}
    BY <2>1, SumEmpty
  <2>2. CASE T # {}
    <3>1. IsFiniteSet(T)
      BY FS_Subset
    <3>2. /\ Pick(T) \in T
          /\ SumFunctionOnSet(f, T) = f[Pick(T)] + SumFunctionOnSet(f, T \ {Pick(T)})
      BY <2>2, <3>1, SumPick
    <3> QED BY <1>1, <3>2
  <2> QED BY <2>1, <2>2
<1>2. A = SUBSET S
  <2> HIDE DEF A
  <2>1. A \in SUBSET SUBSET S
    BY DEF A
  <2> QED BY <1>1, <2>1, SubsetInductive
<1> QED BY <1>2

(* Any element can be the one that is taken off.                           *)
LEMMA SumRemove ==
    ASSUME NEW S, IsFiniteSet(S), NEW f, \A x \in S : f[x] \in Int, NEW y \in S
    PROVE  SumFunctionOnSet(f, S) = f[y] + SumFunctionOnSet(f, S \ {y})
<1> DEFINE A == {T \in SUBSET S : \A x \in T :
                    SumFunctionOnSet(f, T) = f[x] + SumFunctionOnSet(f, T \ {x})}
<1>1. ASSUME NEW T \in SUBSET S, \A x \in T : T \ {x} \in A
      PROVE  T \in A
  <2> SUFFICES ASSUME NEW x \in T
               PROVE  SumFunctionOnSet(f, T) = f[x] + SumFunctionOnSet(f, T \ {x})
    OBVIOUS
  <2> DEFINE c == Pick(T)
             R == T \ {x, c}
  <2>1. IsFiniteSet(T) /\ IsFiniteSet(R)
    BY FS_Subset
  <2>2. c \in T /\ SumFunctionOnSet(f, T) = f[c] + SumFunctionOnSet(f, T \ {c})
    BY <2>1, SumPick
  <2> HIDE DEF c
  <2>3. CASE c = x
    BY <2>2, <2>3
  <2>4. CASE c # x
    <3>1. T \ {c} \in A /\ T \ {x} \in A
      BY <1>1, <2>2
    <3>2. /\ (T \ {c}) \ {x} = R /\ (T \ {x}) \ {c} = R
          /\ x \in T \ {c} /\ c \in T \ {x}
      BY <2>2, <2>4
    <3>3. /\ SumFunctionOnSet(f, T \ {c}) = f[x] + SumFunctionOnSet(f, R)
          /\ SumFunctionOnSet(f, T \ {x}) = f[c] + SumFunctionOnSet(f, R)
      BY <3>1, <3>2
    <3>4. f[x] \in Int /\ f[c] \in Int /\ SumFunctionOnSet(f, R) \in Int
      BY <2>1, <2>2, SumType
    <3> QED BY <2>2, <3>3, <3>4
  <2> QED BY <2>3, <2>4
<1>2. A = SUBSET S
  <2> HIDE DEF A
  <2>1. A \in SUBSET SUBSET S
    BY DEF A
  <2> QED BY <1>1, <2>1, SubsetInductive
<1> QED BY <1>2

(* The sum looks at nothing but the values on the set.                     *)
LEMMA SumAgrees ==
    ASSUME NEW S, IsFiniteSet(S), NEW f, NEW g, \A x \in S : f[x] = g[x]
    PROVE  SumFunctionOnSet(f, S) = SumFunctionOnSet(g, S)
<1> DEFINE A == {T \in SUBSET S : SumFunctionOnSet(f, T) = SumFunctionOnSet(g, T)}
<1>1. ASSUME NEW T \in SUBSET S, \A x \in T : T \ {x} \in A
      PROVE  T \in A
  <2>1. CASE T = {}
    BY <2>1, SumEmpty
  <2>2. CASE T # {}
    <3>1. IsFiniteSet(T)
      BY FS_Subset
    <3>2. /\ Pick(T) \in T
          /\ SumFunctionOnSet(f, T) = f[Pick(T)] + SumFunctionOnSet(f, T \ {Pick(T)})
          /\ SumFunctionOnSet(g, T) = g[Pick(T)] + SumFunctionOnSet(g, T \ {Pick(T)})
      BY <2>2, <3>1, SumPick
    <3> QED BY <1>1, <3>2
  <2> QED BY <2>1, <2>2
<1>2. A = SUBSET S
  <2> HIDE DEF A
  <2>1. A \in SUBSET SUBSET S
    BY DEF A
  <2> QED BY <1>1, <2>1, SubsetInductive
<1> QED BY <1>2

(* A change of one value changes the sum by as much.                       *)
LEMMA SumChange ==
    ASSUME NEW S, IsFiniteSet(S), NEW f, NEW g, NEW y \in S,
           \A x \in S : f[x] \in Int /\ g[x] \in Int,
           \A x \in S \ {y} : f[x] = g[x]
    PROVE  SumFunctionOnSet(g, S) = SumFunctionOnSet(f, S) + g[y] - f[y]
<1>1. IsFiniteSet(S \ {y})
  BY FS_Subset
<1>2. SumFunctionOnSet(f, S \ {y}) = SumFunctionOnSet(g, S \ {y})
  BY <1>1, SumAgrees
<1>3. SumFunctionOnSet(f, S \ {y}) \in Int
  BY <1>1, SumType
<1>4. SumFunctionOnSet(f, S) = f[y] + SumFunctionOnSet(f, S \ {y})
  BY SumRemove
<1>5. SumFunctionOnSet(g, S) = g[y] + SumFunctionOnSet(g, S \ {y})
  BY SumRemove
<1>6. f[y] \in Int /\ g[y] \in Int
  OBVIOUS
<1> QED BY <1>2, <1>3, <1>4, <1>5, <1>6

(* The sum of naturals over fewer indices is no larger.                    *)
LEMMA SumSubset ==
    ASSUME NEW S, IsFiniteSet(S), NEW f, \A x \in S : f[x] \in Nat, NEW U \in SUBSET S
    PROVE  SumFunctionOnSet(f, U) <= SumFunctionOnSet(f, S)
<1> DEFINE A == {T \in SUBSET S : SumFunctionOnSet(f, U \cap T) <= SumFunctionOnSet(f, T)}
<1>1. ASSUME NEW T \in SUBSET S, \A x \in T : T \ {x} \in A
      PROVE  T \in A
  <2>1. CASE T = {}
    <3>1. U \cap T = {}
      BY <2>1
    <3> QED BY <2>1, <3>1, SumEmpty
  <2>2. CASE T # {}
    <3>1. PICK y \in T : TRUE
      BY <2>2
    <3> DEFINE V == T \ {y}
    <3>2. IsFiniteSet(T) /\ IsFiniteSet(V) /\ IsFiniteSet(U \cap T) /\ IsFiniteSet(U \cap V)
      BY FS_Subset
    <3>3. SumFunctionOnSet(f, U \cap V) <= SumFunctionOnSet(f, V)
      BY <1>1
    <3>4. SumFunctionOnSet(f, T) = f[y] + SumFunctionOnSet(f, V)
      BY <3>2, SumRemove
    <3>5. /\ f[y] \in Nat /\ SumFunctionOnSet(f, V) \in Nat
          /\ SumFunctionOnSet(f, U \cap V) \in Nat
      BY <3>2, SumNat
    <3>6. CASE y \in U
      <4>1. (U \cap T) \ {y} = U \cap V /\ y \in U \cap T
        BY <3>6
      <4>2. \A x \in U \cap T : f[x] \in Int
        OBVIOUS
      <4>3. SumFunctionOnSet(f, U \cap T) = f[y] + SumFunctionOnSet(f, (U \cap T) \ {y})
        BY <3>2, <4>1, <4>2, SumRemove
      <4>4. SumFunctionOnSet(f, U \cap T) = f[y] + SumFunctionOnSet(f, U \cap V)
        BY <4>1, <4>3
      <4>5. SumFunctionOnSet(f, U \cap T) <= SumFunctionOnSet(f, T)
        <5> HIDE DEF V
        <5> QED BY <3>3, <3>4, <3>5, <4>4
      <4> QED BY <4>5
    <3>7. CASE y \notin U
      <4>1. U \cap T = U \cap V
        BY <3>7
      <4>2. SumFunctionOnSet(f, U \cap T) = SumFunctionOnSet(f, U \cap V)
        BY <4>1
      <4>3. SumFunctionOnSet(f, U \cap T) <= SumFunctionOnSet(f, T)
        <5> HIDE DEF V
        <5> QED BY <3>3, <3>4, <3>5, <4>2
      <4> QED BY <4>3
    <3> QED BY <3>6, <3>7
  <2> QED BY <2>1, <2>2
<1>2. A = SUBSET S
  <2> HIDE DEF A
  <2>1. A \in SUBSET SUBSET S
    BY DEF A
  <2> QED BY <1>1, <2>1, SubsetInductive
<1>3. U \cap S = U
  OBVIOUS
<1> QED BY <1>2, <1>3

(* The sum grows with every value.                                         *)
LEMMA SumMonotone ==
    ASSUME NEW S, IsFiniteSet(S), NEW f, NEW g,
           \A x \in S : f[x] \in Int /\ g[x] \in Int /\ f[x] <= g[x]
    PROVE  SumFunctionOnSet(f, S) <= SumFunctionOnSet(g, S)
<1> DEFINE A == {T \in SUBSET S : SumFunctionOnSet(f, T) <= SumFunctionOnSet(g, T)}
<1>1. ASSUME NEW T \in SUBSET S, \A x \in T : T \ {x} \in A
      PROVE  T \in A
  <2>1. CASE T = {}
    BY <2>1, SumEmpty
  <2>2. CASE T # {}
    <3>1. IsFiniteSet(T)
      BY FS_Subset
    <3>2. /\ Pick(T) \in T
          /\ SumFunctionOnSet(f, T) = f[Pick(T)] + SumFunctionOnSet(f, T \ {Pick(T)})
          /\ SumFunctionOnSet(g, T) = g[Pick(T)] + SumFunctionOnSet(g, T \ {Pick(T)})
      BY <2>2, <3>1, SumPick
    <3> PICK y \in T : y = Pick(T)
      BY <3>2
    <3> DEFINE V == T \ {y}
    <3>3. SumFunctionOnSet(f, V) <= SumFunctionOnSet(g, V)
      BY <1>1
    <3>4. IsFiniteSet(V)
      BY FS_Subset
    <3>5. SumFunctionOnSet(f, V) \in Int /\ SumFunctionOnSet(g, V) \in Int
      BY <3>4, SumType
    <3>6. SumFunctionOnSet(f, T) <= SumFunctionOnSet(g, T)
      <4>1. f[y] \in Int /\ g[y] \in Int /\ f[y] <= g[y]
        OBVIOUS
      <4> HIDE DEF V
      <4>2. /\ SumFunctionOnSet(f, T) = f[y] + SumFunctionOnSet(f, V)
            /\ SumFunctionOnSet(g, T) = g[y] + SumFunctionOnSet(g, V)
        BY <3>2 DEF V
      <4> QED BY <3>3, <3>5, <4>1, <4>2
    <3> QED BY <3>6
  <2> QED BY <2>1, <2>2
<1>2. A = SUBSET S
  <2> HIDE DEF A
  <2>1. A \in SUBSET SUBSET S
    BY DEF A
  <2> QED BY <1>1, <2>1, SubsetInductive
<1> QED BY <1>2

(* The sum of zeros is 0.                                                  *)
LEMMA SumZero ==
    ASSUME NEW S, IsFiniteSet(S), NEW f, \A x \in S : f[x] = 0
    PROVE  SumFunctionOnSet(f, S) = 0
<1> DEFINE A == {T \in SUBSET S : SumFunctionOnSet(f, T) = 0}
<1>1. ASSUME NEW T \in SUBSET S, \A x \in T : T \ {x} \in A
      PROVE  T \in A
  <2>1. CASE T = {}
    BY <2>1, SumEmpty
  <2>2. CASE T # {}
    <3>1. IsFiniteSet(T)
      BY FS_Subset
    <3>2. /\ Pick(T) \in T
          /\ SumFunctionOnSet(f, T) = f[Pick(T)] + SumFunctionOnSet(f, T \ {Pick(T)})
      BY <2>2, <3>1, SumPick
    <3> QED BY <1>1, <3>2
  <2> QED BY <2>1, <2>2
<1>2. A = SUBSET S
  <2> HIDE DEF A
  <2>1. A \in SUBSET SUBSET S
    BY DEF A
  <2> QED BY <1>1, <2>1, SubsetInductive
<1> QED BY <1>2
=============================================================================
