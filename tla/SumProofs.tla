----------------------------- MODULE SumProofs ------------------------------
(***************************************************************************)
(* Lemmas about the sum of the values of a function over a finite set, the *)
(* way ItemEvents counts messages and Metrics counts requests.             *)
(*                                                                         *)
(* SumFunctionOnSet is a fold, a recursive function over the subsets of    *)
(* the set. That there is such a function is shown by giving one without   *)
(* recursion: the number of pairs <<x, i>> with i in 1 .. f[x]. That it is *)
(* the only one follows from a smallest subset on which two would differ.  *)
(***************************************************************************)
EXTENDS Integers, FiniteSets, Functions, FunctionTheorems, FiniteSetTheorems, WellFoundedInduction, TLAPS

Column(f, x) == {x} \X (1 .. f[x])
Tokens(f, S) == UNION {Column(f, x) : x \in S}

\* A column is as high as the value it stands for.
LEMMA ColumnSize ==
  ASSUME NEW f, NEW x, f[x] \in Nat
  PROVE  IsFiniteSet(Column(f, x)) /\ Cardinality(Column(f, x)) = f[x]
<1> DEFINE b == [i \in 1 .. f[x] |-> <<x, i>>]
<1>1. b \in Bijection(1 .. f[x], Column(f, x))
  <2>1. b \in [1 .. f[x] -> Column(f, x)]
    BY DEF Column
  <2>2. \A i, j \in 1 .. f[x] : b[i] = b[j] => i = j
    OBVIOUS
  <2>3. \A t \in Column(f, x) : \E i \in 1 .. f[x] : b[i] = t
    BY DEF Column
  <2> QED
    BY <2>1, <2>2, <2>3, Fun_IsBij
<1>2. IsFiniteSet(1 .. f[x]) /\ Cardinality(1 .. f[x]) = f[x]
  BY FS_Interval
<1> QED
  BY <1>1, <1>2, FS_Bijection DEF ExistsBijection

\* Finitely many columns are finitely many tokens.
LEMMA TokensFinite ==
  ASSUME NEW S, IsFiniteSet(S), NEW f, \A x \in S : f[x] \in Nat
  PROVE  IsFiniteSet(Tokens(f, S))
<1> DEFINE C == {Column(f, x) : x \in S}
           c == [x \in S |-> Column(f, x)]
<1>1. c \in Surjection(S, C)
  BY DEF Surjection
<1>2. IsFiniteSet(C)
  BY <1>1, FS_Surjection
<1>3. \A T \in C : IsFiniteSet(T)
  BY ColumnSize
<1> QED
  BY <1>2, <1>3, FS_UNION DEF Tokens

\* Taking away one element takes away its column.
LEMMA TokensSplit ==
  ASSUME NEW S, IsFiniteSet(S), NEW f, \A x \in S : f[x] \in Nat, NEW x \in S
  PROVE  /\ Cardinality(Tokens(f, S)) = f[x] + Cardinality(Tokens(f, S \ {x}))
         /\ Cardinality(Tokens(f, S \ {x})) \in Nat
<1> DEFINE R == Tokens(f, S \ {x})
<1>1. Tokens(f, S) = Column(f, x) \cup R
  BY DEF Tokens
<1>2. Column(f, x) \cap R = {}
  BY DEF Tokens, Column
<1>3. IsFiniteSet(S \ {x})
  BY FS_RemoveElement
<1>4. IsFiniteSet(R)
  BY <1>3, TokensFinite
<1>5. IsFiniteSet(Column(f, x)) /\ Cardinality(Column(f, x)) = f[x]
  BY ColumnSize
<1>6. Cardinality(Column(f, x) \cup R) = Cardinality(Column(f, x)) + Cardinality(R) - Cardinality(Column(f, x) \cap R)
  BY <1>4, <1>5, FS_Union
<1>7. Cardinality({}) = 0 /\ Cardinality(R) \in Nat
  BY <1>4, FS_EmptySet, FS_CardinalityType
<1>8. f[x] \in Nat
  OBVIOUS
<1>9. Cardinality(Tokens(f, S)) = f[x] + Cardinality(R) - 0
  BY <1>1, <1>2, <1>5, <1>6, <1>7
<1> QED
  BY <1>7, <1>8, <1>9

\* The equation of the fold, at each of its subsets.
SumEquation(g, f, S) ==
  g = [s \in SUBSET S |-> IF s = {} THEN 0
                          ELSE f[CHOOSE x \in s : TRUE] + g[s \ {CHOOSE x \in s : TRUE}]]

\* A function that solves the equation: count the tokens.
LEMMA SumExists ==
  ASSUME NEW S, IsFiniteSet(S), NEW f, \A x \in S : f[x] \in Nat
  PROVE  SumEquation([s \in SUBSET S |-> Cardinality(Tokens(f, s))], f, S)
<1> DEFINE g == [s \in SUBSET S |-> Cardinality(Tokens(f, s))]
<1> SUFFICES ASSUME NEW s \in SUBSET S
             PROVE  g[s] = IF s = {} THEN 0 ELSE f[CHOOSE x \in s : TRUE] + g[s \ {CHOOSE x \in s : TRUE}]
  BY DEF SumEquation
<1>1. CASE s = {}
  <2>1. Tokens(f, {}) = {}
    BY DEF Tokens
  <2> QED
    BY <1>1, <2>1, FS_EmptySet
<1>2. CASE s # {}
  <2> DEFINE x == CHOOSE y \in s : TRUE
  <2>1. x \in s /\ IsFiniteSet(s)
    BY <1>2, FS_Subset
  <2>2. Cardinality(Tokens(f, s)) = f[x] + Cardinality(Tokens(f, s \ {x}))
    BY <2>1, TokensSplit
  <2>3. s \ {x} \in SUBSET S
    OBVIOUS
  <2> QED
    BY <1>2, <2>2, <2>3
<1> QED
  BY <1>1, <1>2

\* No two functions solve it.
LEMMA SumUnique ==
  ASSUME NEW S, IsFiniteSet(S), NEW f, NEW g, NEW h, SumEquation(g, f, S), SumEquation(h, f, S)
  PROVE  g[S] = h[S]
<1> DEFINE Different == {s \in SUBSET S : g[s] # h[s]}
<1> SUFFICES ASSUME Different # {} PROVE FALSE
  OBVIOUS
<1>1. IsWellFoundedOn(StrictSubsetOrdering(S), SUBSET S)
  BY FS_StrictSubsetOrderingWellFounded, FS_FiniteSubsetsOfFinite
<1>2. PICK s \in Different : \A t \in Different : <<t, s>> \notin StrictSubsetOrdering(S)
  BY <1>1, WFMin
<1> DEFINE x == CHOOSE y \in s : TRUE
<1>3. s \in SUBSET S /\ g[s] # h[s]
  OBVIOUS
<1>4. /\ g[s] = IF s = {} THEN 0 ELSE f[x] + g[s \ {x}]
      /\ h[s] = IF s = {} THEN 0 ELSE f[x] + h[s \ {x}]
  BY <1>3 DEF SumEquation
<1>5. s # {} /\ x \in s
  BY <1>3, <1>4
<1>6. <<s \ {x}, s>> \in StrictSubsetOrdering(S)
  BY <1>3, <1>5 DEF StrictSubsetOrdering
<1>7. g[s \ {x}] = h[s \ {x}]
  BY <1>2, <1>3, <1>6
<1> QED
  BY <1>3, <1>4, <1>5, <1>7

\* The sum of a function over a set is the number of its tokens.
LEMMA SumIsTokens ==
  ASSUME NEW S, IsFiniteSet(S), NEW f, \A x \in S : f[x] \in Nat
  PROVE  SumFunctionOnSet(f, S) = Cardinality(Tokens(f, S))
<1> DEFINE g == [s \in SUBSET S |-> Cardinality(Tokens(f, s))]
<1>1. SumEquation(g, f, S)
  BY SumExists
<1>2. PICK h : SumEquation(h, f, S) /\ SumFunctionOnSet(f, S) = h[S]
  <2>1. \E h : SumEquation(h, f, S)
    BY <1>1
  <2> HIDE DEF g
  <2> QED
    BY <2>1 DEF SumEquation, SumFunctionOnSet, FoldFunctionOnSet, MapThenFoldSet
<1>3. g[S] = h[S]
  BY <1>1, <1>2, SumUnique
<1> QED
  BY <1>2, <1>3

-----------------------------------------------------------------------------
(* What the other modules cite.                                            *)

\* A sum of naturals is one, and takes its elements one by one.
LEMMA SumRemove ==
  ASSUME NEW S, IsFiniteSet(S), NEW f, \A y \in S : f[y] \in Nat, NEW x \in S
  PROVE  /\ SumFunctionOnSet(f, S \ {x}) \in Nat
         /\ SumFunctionOnSet(f, S) = f[x] + SumFunctionOnSet(f, S \ {x})
<1>1. IsFiniteSet(S \ {x})
  BY FS_RemoveElement
<1>2. SumFunctionOnSet(f, S \ {x}) = Cardinality(Tokens(f, S \ {x}))
  BY <1>1, SumIsTokens
<1>3. SumFunctionOnSet(f, S) = Cardinality(Tokens(f, S))
  BY SumIsTokens
<1> QED
  BY <1>2, <1>3, TokensSplit

\* A sum of naturals is a natural number.
LEMMA SumType ==
  ASSUME NEW S, IsFiniteSet(S), NEW f, \A y \in S : f[y] \in Nat
  PROVE  SumFunctionOnSet(f, S) \in Nat
  BY SumIsTokens, TokensFinite, FS_CardinalityType

\* The sum looks at the values in the set only.
LEMMA SumSame ==
  ASSUME NEW S, IsFiniteSet(S), NEW f, \A y \in S : f[y] \in Nat, NEW h, \A y \in S : h[y] = f[y]
  PROVE  SumFunctionOnSet(h, S) = SumFunctionOnSet(f, S)
<1>1. Tokens(h, S) = Tokens(f, S)
  BY DEF Tokens, Column
<1>2. \A y \in S : h[y] \in Nat
  OBVIOUS
<1>3. SumFunctionOnSet(h, S) = Cardinality(Tokens(h, S))
  BY <1>2, SumIsTokens
<1> QED
  BY <1>1, <1>3, SumIsTokens

\* When one value changes the sum changes by as much.
LEMMA SumChanges ==
  ASSUME NEW S, IsFiniteSet(S), NEW f, \A y \in S : f[y] \in Nat, NEW x \in S,
         NEW h, h[x] \in Nat, \A y \in S \ {x} : h[y] = f[y]
  PROVE  /\ SumFunctionOnSet(h, S) \in Nat /\ SumFunctionOnSet(f, S) \in Nat
         /\ SumFunctionOnSet(h, S) + f[x] = SumFunctionOnSet(f, S) + h[x]
<1>1. IsFiniteSet(S \ {x})
  BY FS_RemoveElement
<1>2. SumFunctionOnSet(h, S \ {x}) = SumFunctionOnSet(f, S \ {x})
  BY <1>1, SumSame
<1>3. \A y \in S : h[y] \in Nat
  OBVIOUS
<1>4. SumFunctionOnSet(h, S) = h[x] + SumFunctionOnSet(h, S \ {x})
  BY <1>3, SumRemove
<1>5. SumFunctionOnSet(f, S) = f[x] + SumFunctionOnSet(f, S \ {x}) /\ SumFunctionOnSet(f, S \ {x}) \in Nat
  BY SumRemove
<1>6. f[x] \in Nat
  OBVIOUS
<1> QED
  BY <1>2, <1>4, <1>5, <1>6

\* Zeros have the sum zero.
LEMMA SumOfZeros ==
  ASSUME NEW S, IsFiniteSet(S), NEW f, \A y \in S : f[y] = 0
  PROVE  SumFunctionOnSet(f, S) = 0
<1>1. Tokens(f, S) = {}
  BY DEF Tokens, Column
<1> QED
  BY <1>1, SumIsTokens, FS_EmptySet

\* A sum of numbers up to a bound is at most the bound times their number.
LEMMA SumBounded ==
  ASSUME NEW S, IsFiniteSet(S), NEW n \in Nat, NEW f, \A y \in S : f[y] \in 0 .. n
  PROVE  SumFunctionOnSet(f, S) <= n * Cardinality(S)
<1>1. \A y \in S : f[y] \in Nat
  OBVIOUS
<1>2. Tokens(f, S) \in SUBSET (S \X (1 .. n))
  BY DEF Tokens, Column
<1>3. IsFiniteSet(1 .. n) /\ Cardinality(1 .. n) = n
  BY FS_Interval
<1>4. IsFiniteSet(S \X (1 .. n)) /\ Cardinality(S \X (1 .. n)) = Cardinality(S) * Cardinality(1 .. n)
  BY <1>3, FS_Product
<1>5. Cardinality(Tokens(f, S)) <= Cardinality(S) * n
  BY <1>2, <1>3, <1>4, FS_Subset
<1>6. Cardinality(S) * n = n * Cardinality(S)
  BY FS_CardinalityType
<1> QED
  BY <1>1, <1>5, <1>6, SumIsTokens

\* A sum of naturals is at least the number of those that are not zero.
LEMMA SumCountsPositives ==
  ASSUME NEW S, IsFiniteSet(S), NEW f, \A y \in S : f[y] \in Nat
  PROVE  Cardinality({y \in S : f[y] > 0}) <= SumFunctionOnSet(f, S)
<1> DEFINE P == {y \in S : f[y] > 0}
           b == [y \in P |-> <<y, 1>>]
<1>1. \A y \in P : <<y, 1>> \in Tokens(f, S)
  BY DEF Tokens, Column
<1>2. b \in Injection(P, Tokens(f, S))
  <2>1. b \in [P -> Tokens(f, S)]
    BY <1>1
  <2>2. \A y, z \in P : b[y] = b[z] => y = z
    OBVIOUS
  <2> QED
    BY <2>1, <2>2, Fun_IsInj
<1>3. IsFiniteSet(Tokens(f, S))
  BY TokensFinite
<1>4. Cardinality(P) <= Cardinality(Tokens(f, S))
  BY <1>2, <1>3, FS_Injection DEF ExistsInjection
<1> QED
  BY <1>4, SumIsTokens
=============================================================================
