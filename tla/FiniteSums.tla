----------------------------- MODULE FiniteSums -----------------------------
(***************************************************************************)
(* Sums over finite sets, for the proofs of the modules that add up the    *)
(* rows of a table (MapThenSumSet).  The induction theorems of the library *)
(* are about a predicate, which the provers here cannot instantiate; what  *)
(* follows is about sets of sets and functions instead.  A module that     *)
(* sums an expression shows that it is Total of a function once, and then  *)
(* uses the facts about Total.  At the end: folds that are not sums, and   *)
(* numbers up to n.                                                        *)
(***************************************************************************)
EXTENDS Integers, FiniteSets, FiniteSetTheorems, WellFoundedInduction, TLAPS

\* Induction over the subsets of a finite set: G is the set of the good ones.
LEMMA SubsetInduction ==
    ASSUME NEW S, IsFiniteSet(S), NEW G,
           \A T \in SUBSET S : (\A U \in SUBSET T : U # T => U \in G) => T \in G
    PROVE  S \in G
<1> DEFINE Bad == {T \in SUBSET S : T \notin G}
<1>1. IsWellFoundedOn(StrictSubsetOrdering(S), SUBSET S)
  BY FS_StrictSubsetOrderingWellFounded, FS_FiniteSubsetsOfFinite
<1>2. SUFFICES ASSUME Bad # {} PROVE FALSE
  BY DEF Bad
<1>3. Bad \subseteq SUBSET S
  OBVIOUS
<1> HIDE DEF Bad
<1>4. PICK T \in Bad : \A U \in Bad : <<U, T>> \notin StrictSubsetOrdering(S)
  BY <1>1, <1>2, <1>3, WFMin
<1>5. T \in SUBSET S /\ T \notin G
  BY DEF Bad
<1>6. ASSUME NEW U \in SUBSET T, U # T PROVE U \in G
  <2>1. <<U, T>> \in StrictSubsetOrdering(S)
    BY <1>5, <1>6 DEF StrictSubsetOrdering
  <2>2. U \in SUBSET S
    BY <1>5
  <2> QED
    BY <1>4, <2>1, <2>2 DEF Bad
<1> QED
  BY <1>5, <1>6

-----------------------------------------------------------------------------
(* The table of the sums over all the subsets of a set.                    *)

Pick(T) == CHOOSE x \in T : TRUE
IsTable(g, f, S) ==
    g = [T \in SUBSET S |-> IF T = {} THEN 0 ELSE f[Pick(T)] + g[T \ {Pick(T)}]]
Table(f, S) == CHOOSE g : IsTable(g, f, S)
\* The sum of f over S.
Total(f, S) == Table(f, S)[S]

LEMMA PickIn == ASSUME NEW T, T # {} PROVE Pick(T) \in T
  BY DEF Pick

\* One table, and the same for functions that agree on S.
LEMMA TableUnique ==
    ASSUME NEW S, IsFiniteSet(S), NEW f, NEW e, \A x \in S : f[x] = e[x],
           NEW g, NEW h, IsTable(g, f, S), IsTable(h, e, S)
    PROVE  g = h
<1> DEFINE G == {T \in SUBSET S : g[T] = h[T]}
<1>1. ASSUME NEW W \in SUBSET S PROVE W \in G
  <2>1. ASSUME NEW T \in SUBSET W, \A U \in SUBSET T : U # T => U \in G
        PROVE  T \in G
    <3>0. T \in SUBSET S
      OBVIOUS
    <3>1. CASE T = {}
      BY <3>0, <3>1 DEF IsTable
    <3>2. CASE T # {}
      <4>1. Pick(T) \in T /\ f[Pick(T)] = e[Pick(T)]
        BY <3>0, <3>2, PickIn
      <4>2. T \ {Pick(T)} \in G
        BY <2>1, <4>1
      <4>3. /\ g[T] = f[Pick(T)] + g[T \ {Pick(T)}]
            /\ h[T] = e[Pick(T)] + h[T \ {Pick(T)}]
        BY <3>0, <3>2 DEF IsTable
      <4> QED
        BY <3>0, <4>1, <4>2, <4>3
    <3> QED
      BY <3>1, <3>2
  <2>2. IsFiniteSet(W)
    BY FS_Subset
  <2> HIDE DEF G
  <2> QED
    BY <2>1, <2>2, SubsetInduction
<1>2. \A T \in SUBSET S : g[T] = h[T]
  BY <1>1
<1>3. /\ g = [T \in SUBSET S |-> g[T]] /\ h = [T \in SUBSET S |-> h[T]]
  BY DEF IsTable
<1> QED
  BY <1>2, <1>3

\* A part of a table is the table of a part.
LEMMA TableOfPart ==
    ASSUME NEW S, NEW f, NEW g, IsTable(g, f, S), NEW T \in SUBSET S
    PROVE  IsTable([U \in SUBSET T |-> g[U]], f, T)
<1> DEFINE k == [U \in SUBSET T |-> g[U]]
<1>1. ASSUME NEW U \in SUBSET T
      PROVE  k[U] = IF U = {} THEN 0 ELSE f[Pick(U)] + k[U \ {Pick(U)}]
  <2>1. U \in SUBSET S /\ U \ {Pick(U)} \in SUBSET T
    OBVIOUS
  <2>2. g[U] = IF U = {} THEN 0 ELSE f[Pick(U)] + g[U \ {Pick(U)}]
    BY <2>1 DEF IsTable
  <2> QED
    BY <2>1, <2>2
<1> QED
  BY <1>1 DEF IsTable

LEMMA TableExists ==
    ASSUME NEW S, IsFiniteSet(S), NEW f, \A x \in S : f[x] \in Int
    PROVE  \E g \in [SUBSET S -> Int] : IsTable(g, f, S)
<1> DEFINE G == {T \in SUBSET S : \E g \in [SUBSET T -> Int] : IsTable(g, f, T)}
<1>1. ASSUME NEW T \in SUBSET S, \A U \in SUBSET T : U # T => U \in G
      PROVE  T \in G
  <2>1. CASE T = {}
    <3>1. [U \in SUBSET T |-> 0] \in [SUBSET T -> Int]
      OBVIOUS
    <3>2. IsTable([U \in SUBSET T |-> 0], f, T)
      BY <2>1 DEF IsTable
    <3> QED
      BY <3>1, <3>2
  <2>2. CASE T # {}
    <3> DEFINE Q == T \ {Pick(T)}
               TableFor(U) == CHOOSE g : g \in [SUBSET U -> Int] /\ IsTable(g, f, U)
               At(U) == TableFor(U)[U]
               k == [U \in SUBSET T |-> IF U = T THEN f[Pick(T)] + At(Q) ELSE At(U)]
    <3>1. Pick(T) \in T
      BY <2>2, PickIn
    <3>2. ASSUME NEW U \in SUBSET T, U # T
          PROVE  TableFor(U) \in [SUBSET U -> Int] /\ IsTable(TableFor(U), f, U)
      <4>1. \E g : g \in [SUBSET U -> Int] /\ IsTable(g, f, U)
        BY <1>1, <3>2
      <4> QED
        BY <4>1
    <3> HIDE DEF TableFor
    <3>3. ASSUME NEW U \in SUBSET T, U # T PROVE At(U) \in Int
      BY <3>2, <3>3
    <3>4. Q \in SUBSET T /\ Q # T
      BY <3>1
    <3>5. k \in [SUBSET T -> Int]
      <4>1. f[Pick(T)] \in Int
        BY <3>1
      <4> QED
        BY <3>3, <3>4, <4>1
    <3>6. ASSUME NEW U \in SUBSET T, U # T, U # {}
          PROVE  At(U) = f[Pick(U)] + At(U \ {Pick(U)})
      <4> DEFINE V == U \ {Pick(U)}
      <4>1. Pick(U) \in U
        BY <3>6, PickIn
      <4>2. V \in SUBSET U /\ V \in SUBSET T /\ V # T
        BY <4>1, <3>6
      <4>3. IsTable(TableFor(U), f, U) /\ IsTable(TableFor(V), f, V)
        BY <3>2, <3>6, <4>2
      <4>4. IsTable([W \in SUBSET V |-> TableFor(U)[W]], f, V)
        BY <4>2, <4>3, TableOfPart
      <4>5. IsFiniteSet(V)
        BY <4>2, FS_Subset
      <4>6. TableFor(V) = [W \in SUBSET V |-> TableFor(U)[W]]
        BY <4>3, <4>4, <4>5, TableUnique
      <4>7. TableFor(V)[V] = TableFor(U)[V]
        BY <4>6
      <4>8. TableFor(U)[U] = f[Pick(U)] + TableFor(U)[V]
        BY <3>6, <4>3 DEF IsTable
      <4> QED
        BY <4>7, <4>8
    <3>7. ASSUME NEW U \in SUBSET T, U = {} PROVE At(U) = 0
      <4>1. U # T
        BY <2>2, <3>7
      <4>2. IsTable(TableFor(U), f, U)
        BY <3>2, <4>1
      <4> QED
        BY <4>2, <3>7 DEF IsTable
    <3>8. IsTable(k, f, T)
      <4>1. ASSUME NEW U \in SUBSET T
            PROVE  k[U] = IF U = {} THEN 0 ELSE f[Pick(U)] + k[U \ {Pick(U)}]
        <5>1. CASE U = T
          BY <2>2, <3>4, <5>1
        <5>2. CASE U # T /\ U = {}
          BY <3>7, <5>2
        <5>3. CASE U # T /\ U # {}
          <6>1. U \ {Pick(U)} \in SUBSET T /\ U \ {Pick(U)} # T
            BY <5>3, PickIn
          <6> HIDE DEF At
          <6> QED
            BY <3>6, <5>3, <6>1
        <5> QED
          BY <5>1, <5>2, <5>3
      <4> HIDE DEF At
      <4> QED
        BY <4>1 DEF IsTable
    <3> QED
      BY <3>5, <3>8
  <2> QED
    BY <2>1, <2>2
<1>2. S \in G
  <2> HIDE DEF G
  <2> QED
    BY <1>1, SubsetInduction
<1> QED
  BY <1>2

-----------------------------------------------------------------------------
(* What a proof uses of Total.                                             *)

\* The table there is, and that what a part of it says is the sum over that part.
LEMMA TableHolds ==
    ASSUME NEW S, IsFiniteSet(S), NEW f, \A x \in S : f[x] \in Int
    PROVE  /\ IsTable(Table(f, S), f, S)
           /\ Table(f, S) \in [SUBSET S -> Int]
           /\ \A T \in SUBSET S : Total(f, T) = Table(f, S)[T]
<1>1. ASSUME NEW T \in SUBSET S
      PROVE  IsTable(Table(f, T), f, T) /\ Table(f, T) \in [SUBSET T -> Int]
  <2>0. IsFiniteSet(T)
    BY FS_Subset
  <2>1. PICK g \in [SUBSET T -> Int] : IsTable(g, f, T)
    BY <2>0, TableExists
  <2>2. IsTable(Table(f, T), f, T)
    BY <2>1 DEF Table
  <2> QED
    BY <2>0, <2>1, <2>2, TableUnique
<1>2. ASSUME NEW T \in SUBSET S PROVE Total(f, T) = Table(f, S)[T]
  <2>0. IsFiniteSet(T)
    BY FS_Subset
  <2>1. IsTable([U \in SUBSET T |-> Table(f, S)[U]], f, T)
    <3>1. S \in SUBSET S
      OBVIOUS
    <3>2. IsTable(Table(f, S), f, S)
      BY <1>1, <3>1
    <3> QED
      BY <3>2, TableOfPart
  <2>2. Table(f, T) = [U \in SUBSET T |-> Table(f, S)[U]]
    BY <1>1, <2>0, <2>1, TableUnique
  <2> QED
    BY <2>2 DEF Total
<1> QED
  BY <1>1, <1>2

\* Nothing adds up to zero.
THEOREM TotalEmpty == ASSUME NEW f PROVE Total(f, {}) = 0
<1>1. IsFiniteSet({})
  BY FS_EmptySet
<1>2. IsTable(Table(f, {}), f, {})
  BY <1>1, TableHolds
<1> QED
  BY <1>2 DEF Total, IsTable

\* The sum of integers is an integer.
THEOREM TotalType ==
    ASSUME NEW S, IsFiniteSet(S), NEW f, \A x \in S : f[x] \in Int
    PROVE  Total(f, S) \in Int
  BY TableHolds DEF Total

\* The sum is the value at any element and the sum over the others.
THEOREM TotalOf ==
    ASSUME NEW S, IsFiniteSet(S), NEW f, \A x \in S : f[x] \in Int, NEW x \in S
    PROVE  Total(f, S) = f[x] + Total(f, S \ {x})
<1> DEFINE g == Table(f, S)
           G == {T \in SUBSET S : \A y \in T : g[T] = f[y] + g[T \ {y}]}
<1>1. IsTable(g, f, S) /\ g \in [SUBSET S -> Int]
  BY TableHolds
<1> HIDE DEF g
<1>2. ASSUME NEW T \in SUBSET S, \A U \in SUBSET T : U # T => U \in G
      PROVE  T \in G
  <2> SUFFICES ASSUME NEW y \in T PROVE g[T] = f[y] + g[T \ {y}]
    OBVIOUS
  <2> DEFINE c == Pick(T)
  <2>1. c \in T
    BY PickIn
  <2>2. g[T] = f[c] + g[T \ {c}]
    BY <1>1 DEF IsTable
  <2>3. CASE c = y
    BY <2>2, <2>3
  <2>4. CASE c # y
    <3>1. T \ {c} \in G /\ T \ {y} \in G
      BY <1>2, <2>1
    <3>2. y \in T \ {c} /\ c \in T \ {y}
      BY <2>1, <2>4
    <3>3. /\ g[T \ {c}] = f[y] + g[(T \ {c}) \ {y}]
          /\ g[T \ {y}] = f[c] + g[(T \ {y}) \ {c}]
      BY <3>1, <3>2
    <3>4. (T \ {c}) \ {y} = (T \ {y}) \ {c}
      OBVIOUS
    <3>5. f[c] \in Int /\ f[y] \in Int /\ g[(T \ {c}) \ {y}] \in Int
      BY <1>1, <2>1
    <3>6. g[T \ {y}] = f[c] + g[(T \ {c}) \ {y}]
      BY <3>3, <3>4
    <3>7. \A i, j, k \in Int : i + (j + k) = j + (i + k)
      OBVIOUS
    <3>8. f[c] + (f[y] + g[(T \ {c}) \ {y}]) = f[y] + (f[c] + g[(T \ {c}) \ {y}])
      BY <3>5, <3>7
    <3> QED
      BY <2>2, <3>3, <3>6, <3>8
  <2> QED
    BY <2>3, <2>4
<1>3. S \in G
  <2> HIDE DEF G
  <2> QED
    BY <1>2, SubsetInduction
<1>4. g[S] = f[x] + g[S \ {x}]
  BY <1>3
<1>5. Total(f, S) = g[S] /\ Total(f, S \ {x}) = g[S \ {x}]
  BY TableHolds DEF g
<1> QED
  BY <1>4, <1>5

\* One more element adds its value.
THEOREM TotalAdd ==
    ASSUME NEW S, IsFiniteSet(S), NEW f, NEW x, x \notin S, \A y \in S \cup {x} : f[y] \in Int
    PROVE  Total(f, S \cup {x}) = f[x] + Total(f, S)
<1>1. IsFiniteSet(S \cup {x})
  BY FS_AddElement
<1>2. (S \cup {x}) \ {x} = S
  OBVIOUS
<1> QED
  BY <1>1, <1>2, TotalOf

\* Functions that agree on a set have one sum over it.
THEOREM TotalSame ==
    ASSUME NEW S, IsFiniteSet(S), NEW f, \A x \in S : f[x] \in Int,
           NEW e, \A x \in S : f[x] = e[x]
    PROVE  Total(f, S) = Total(e, S)
<1>1. IsTable(Table(f, S), f, S) /\ IsTable(Table(e, S), e, S)
  BY TableHolds
<1>2. Table(f, S) = Table(e, S)
  BY <1>1, TableUnique
<1> QED
  BY <1>2 DEF Total

\* A smaller function has a smaller sum.
THEOREM TotalMonotone ==
    ASSUME NEW S, IsFiniteSet(S), NEW f, \A x \in S : f[x] \in Int,
           NEW e, \A x \in S : e[x] \in Int, \A x \in S : f[x] <= e[x]
    PROVE  Total(f, S) <= Total(e, S)
<1> DEFINE G == {T \in SUBSET S : Total(f, T) <= Total(e, T)}
<1>1. ASSUME NEW T \in SUBSET S, \A U \in SUBSET T : U # T => U \in G
      PROVE  T \in G
  <2>0. IsFiniteSet(T)
    BY FS_Subset
  <2>1. CASE T = {}
    BY <2>1, TotalEmpty
  <2>2. CASE T # {}
    <3>1. PICK x \in T : TRUE
      BY <2>2
    <3>2. T \ {x} \in G /\ IsFiniteSet(T \ {x})
      BY <1>1, <2>0, FS_Subset
    <3>3. /\ Total(f, T) = f[x] + Total(f, T \ {x})
          /\ Total(e, T) = e[x] + Total(e, T \ {x})
      BY <2>0, TotalOf
    <3>4. Total(f, T \ {x}) \in Int /\ Total(e, T \ {x}) \in Int
      BY <3>2, TotalType
    <3>5. f[x] \in Int /\ e[x] \in Int /\ f[x] <= e[x]
      OBVIOUS
    <3> QED
      BY <3>2, <3>3, <3>4, <3>5
  <2> QED
    BY <2>1, <2>2
<1> HIDE DEF G
<1>2. S \in G
  BY <1>1, SubsetInduction
<1> QED
  BY <1>2 DEF G

\* The sum over a set and over one more, disjoint from it.
THEOREM TotalUnion ==
    ASSUME NEW S, IsFiniteSet(S), NEW R, IsFiniteSet(R), S \cap R = {},
           NEW f, \A x \in S \cup R : f[x] \in Int
    PROVE  Total(f, S \cup R) = Total(f, S) + Total(f, R)
<1> DEFINE G == {T \in SUBSET R : Total(f, S \cup T) = Total(f, S) + Total(f, T)}
<1>1. ASSUME NEW T \in SUBSET R, \A U \in SUBSET T : U # T => U \in G
      PROVE  T \in G
  <2>0. IsFiniteSet(T) /\ IsFiniteSet(S \cup T)
    BY FS_Subset, FS_Union
  <2>1. CASE T = {}
    <3>1. S \cup T = S
      BY <2>1
    <3> QED
      BY <2>1, <3>1, TotalEmpty, TotalType
  <2>2. CASE T # {}
    <3>1. PICK x \in T : TRUE
      BY <2>2
    <3>2. T \ {x} \in G /\ IsFiniteSet(T \ {x})
      BY <1>1, <2>0, FS_Subset
    <3>3. (S \cup T) \ {x} = S \cup (T \ {x})
      OBVIOUS
    <3>4. Total(f, S \cup T) = f[x] + Total(f, (S \cup T) \ {x})
      <4>1. \A y \in S \cup T : f[y] \in Int
        OBVIOUS
      <4> QED
        BY <2>0, <4>1, TotalOf
    <3>5. Total(f, T) = f[x] + Total(f, T \ {x})
      BY <2>0, TotalOf
    <3>6. Total(f, S) \in Int /\ Total(f, T \ {x}) \in Int /\ f[x] \in Int
      BY <3>2, TotalType
    <3>7. Total(f, S \cup (T \ {x})) = Total(f, S) + Total(f, T \ {x})
      BY <3>2
    <3> HIDE DEF G
    <3>8. Total(f, S \cup T) = f[x] + (Total(f, S) + Total(f, T \ {x}))
      BY <3>3, <3>4, <3>7
    <3>9. \A i, j, k \in Int : i + (j + k) = j + (i + k)
      OBVIOUS
    <3>10. Total(f, S \cup T) = Total(f, S) + Total(f, T)
      BY <3>5, <3>6, <3>8, <3>9
    <3> QED
      BY <3>10 DEF G
  <2> QED
    BY <2>1, <2>2
<1> HIDE DEF G
<1>2. R \in G
  BY <1>1, SubsetInduction
<1> QED
  BY <1>2 DEF G

\* A sum of numbers that are not negative is not, and grows with its set.
THEOREM TotalNat ==
    ASSUME NEW S, IsFiniteSet(S), NEW f, \A x \in S : f[x] \in Nat
    PROVE  Total(f, S) \in Nat
<1> DEFINE G == {T \in SUBSET S : Total(f, T) \in Nat}
<1>1. ASSUME NEW T \in SUBSET S, \A U \in SUBSET T : U # T => U \in G
      PROVE  T \in G
  <2>0. IsFiniteSet(T)
    BY FS_Subset
  <2>1. CASE T = {}
    BY <2>1, TotalEmpty
  <2>2. CASE T # {}
    <3>1. PICK x \in T : TRUE
      BY <2>2
    <3>2. T \ {x} \in G
      BY <1>1
    <3>3. Total(f, T) = f[x] + Total(f, T \ {x})
      BY <2>0, TotalOf
    <3>4. f[x] \in Nat
      OBVIOUS
    <3> QED
      BY <3>2, <3>3, <3>4
  <2> QED
    BY <2>1, <2>2
<1> HIDE DEF G
<1>2. S \in G
  BY <1>1, SubsetInduction
<1> QED
  BY <1>2 DEF G

\* A part of a set has no larger a sum, when no value is negative.
THEOREM TotalOfPart ==
    ASSUME NEW S, IsFiniteSet(S), NEW f, \A x \in S : f[x] \in Nat, NEW T \in SUBSET S
    PROVE  Total(f, T) <= Total(f, S)
<1>1. IsFiniteSet(T) /\ IsFiniteSet(S \ T)
  BY FS_Subset
<1>2. T \cup (S \ T) = S /\ T \cap (S \ T) = {}
  OBVIOUS
<1>3. Total(f, S) = Total(f, T) + Total(f, S \ T)
  <2>1. \A x \in T \cup (S \ T) : f[x] \in Int
    OBVIOUS
  <2> QED
    BY <1>1, <1>2, <2>1, TotalUnion
<1>4. Total(f, T) \in Nat /\ Total(f, S \ T) \in Nat
  BY <1>1, TotalNat
<1> QED
  BY <1>3, <1>4

\* Elements that count for nothing may be left out.
THEOREM TotalSupport ==
    ASSUME NEW S, IsFiniteSet(S), NEW f, \A x \in S : f[x] \in Int,
           NEW T \in SUBSET S, \A x \in S \ T : f[x] = 0
    PROVE  Total(f, S) = Total(f, T)
<1> DEFINE G == {R \in SUBSET (S \ T) : Total(f, R) = 0}
<1>0. IsFiniteSet(T) /\ IsFiniteSet(S \ T)
  BY FS_Subset
<1>1. ASSUME NEW R \in SUBSET (S \ T), \A U \in SUBSET R : U # R => U \in G
      PROVE  R \in G
  <2>0. IsFiniteSet(R)
    BY <1>0, FS_Subset
  <2>1. CASE R = {}
    BY <2>1, TotalEmpty
  <2>2. CASE R # {}
    <3>1. PICK x \in R : TRUE
      BY <2>2
    <3>2. R \ {x} \in G
      BY <1>1
    <3>3. Total(f, R) = f[x] + Total(f, R \ {x})
      BY <2>0, TotalOf
    <3> QED
      BY <3>2, <3>3
  <2> QED
    BY <2>1, <2>2
<1> HIDE DEF G
<1>2. S \ T \in G
  BY <1>0, <1>1, SubsetInduction
<1>3. Total(f, S \ T) = 0
  BY <1>2 DEF G
<1>4. T \cup (S \ T) = S /\ T \cap (S \ T) = {}
  OBVIOUS
<1>5. Total(f, S) = Total(f, T) + Total(f, S \ T)
  <2>1. \A x \in T \cup (S \ T) : f[x] \in Int
    OBVIOUS
  <2> QED
    BY <1>0, <1>4, <2>1, TotalUnion
<1>6. Total(f, T) \in Int
  BY <1>0, TotalType
<1> QED
  BY <1>3, <1>5, <1>6

\* A change at one element changes the sum by as much.
THEOREM TotalChange ==
    ASSUME NEW S, IsFiniteSet(S), NEW x \in S,
           NEW f, \A y \in S : f[y] \in Int, NEW e, \A y \in S : e[y] \in Int,
           \A y \in S \ {x} : f[y] = e[y]
    PROVE  Total(e, S) = Total(f, S) + (e[x] - f[x])
<1>1. IsFiniteSet(S \ {x})
  BY FS_Subset
<1>2. Total(f, S \ {x}) = Total(e, S \ {x}) /\ Total(f, S \ {x}) \in Int
  BY <1>1, TotalSame, TotalType
<1>3. Total(f, S) = f[x] + Total(f, S \ {x}) /\ Total(e, S) = e[x] + Total(e, S \ {x})
  BY TotalOf
<1>4. f[x] \in Int /\ e[x] \in Int
  OBVIOUS
<1> QED
  BY <1>2, <1>3, <1>4

-----------------------------------------------------------------------------
(* A sum and its image.                                                    *)

Image(m, S) == {m[x] : x \in S}

LEMMA ImageFinite == ASSUME NEW S, IsFiniteSet(S), NEW m PROVE IsFiniteSet(Image(m, S))
<1> DEFINE k == [x \in S |-> m[x]]
<1>1. k \in Surjection(S, Image(m, S))
  <2>1. k \in [S -> Image(m, S)]
    BY DEF Image
  <2>2. \A y \in Image(m, S) : \E x \in S : k[x] = y
    BY DEF Image
  <2> QED
    BY <2>1, <2>2 DEF Surjection
<1> QED
  BY <1>1, FS_Surjection

\* The sum over a set is the sum over its image under a map that keeps apart
\* what is different and keeps the values.
THEOREM TotalOfImage ==
    ASSUME NEW S, IsFiniteSet(S), NEW m, \A x, y \in S : m[x] = m[y] => x = y,
           NEW f, \A x \in S : f[x] \in Int, NEW e, \A x \in S : e[m[x]] = f[x]
    PROVE  Total(e, Image(m, S)) = Total(f, S)
<1> DEFINE G == {T \in SUBSET S : Total(e, Image(m, T)) = Total(f, T)}
<1>1. ASSUME NEW T \in SUBSET S, \A U \in SUBSET T : U # T => U \in G
      PROVE  T \in G
  <2>0. IsFiniteSet(T) /\ IsFiniteSet(Image(m, T))
    BY FS_Subset, ImageFinite
  <2>1. CASE T = {}
    <3>1. Image(m, T) = {}
      BY <2>1 DEF Image
    <3> QED
      BY <2>1, <3>1, TotalEmpty
  <2>2. CASE T # {}
    <3>1. PICK x \in T : TRUE
      BY <2>2
    <3>2. T \ {x} \in G
      BY <1>1
    <3>3. Image(m, T \ {x}) = Image(m, T) \ {m[x]}
      BY DEF Image
    <3>4. m[x] \in Image(m, T)
      BY DEF Image
    <3>5. \A y \in Image(m, T) : e[y] \in Int
      BY DEF Image
    <3>6. Total(e, Image(m, T)) = e[m[x]] + Total(e, Image(m, T) \ {m[x]})
      BY <2>0, <3>4, <3>5, TotalOf
    <3>7. Total(f, T) = f[x] + Total(f, T \ {x})
      BY <2>0, TotalOf
    <3>8. e[m[x]] = f[x]
      OBVIOUS
    <3> QED
      BY <3>2, <3>3, <3>6, <3>7, <3>8
  <2> QED
    BY <2>1, <2>2
<1> HIDE DEF G
<1>2. S \in G
  BY <1>1, SubsetInduction
<1> QED
  BY <1>2 DEF G

\* Functions that cancel have sums that cancel.
THEOREM TotalCancels ==
    ASSUME NEW S, IsFiniteSet(S), NEW f, \A x \in S : f[x] \in Int,
           NEW e, \A x \in S : e[x] = -f[x]
    PROVE  Total(e, S) = -Total(f, S)
<1> DEFINE G == {T \in SUBSET S : Total(e, T) = -Total(f, T)}
<1>1. ASSUME NEW T \in SUBSET S, \A U \in SUBSET T : U # T => U \in G
      PROVE  T \in G
  <2>0. IsFiniteSet(T)
    BY FS_Subset
  <2>1. CASE T = {}
    BY <2>1, TotalEmpty
  <2>2. CASE T # {}
    <3>1. PICK x \in T : TRUE
      BY <2>2
    <3>2. T \ {x} \in G /\ IsFiniteSet(T \ {x})
      BY <1>1, <2>0, FS_Subset
    <3>3. \A y \in T : e[y] \in Int
      OBVIOUS
    <3>4. Total(f, T) = f[x] + Total(f, T \ {x}) /\ Total(e, T) = e[x] + Total(e, T \ {x})
      BY <2>0, <3>3, TotalOf
    <3>5. Total(f, T \ {x}) \in Int /\ f[x] \in Int /\ e[x] = -f[x]
      BY <3>2, TotalType
    <3>6. Total(e, T \ {x}) = -Total(f, T \ {x})
      BY <3>2
    <3>7. \A i, j \in Int : -i + -j = -(i + j)
      OBVIOUS
    <3> HIDE DEF G
    <3>8. Total(e, T) = -Total(f, T)
      BY <3>4, <3>5, <3>6, <3>7
    <3> QED
      BY <3>8 DEF G
  <2> QED
    BY <2>1, <2>2
<1> HIDE DEF G
<1>2. S \in G
  BY <1>1, SubsetInduction
<1> QED
  BY <1>2 DEF G

-----------------------------------------------------------------------------
(* Folds: what is chosen from a set matters, and what is done with it is not  *)
(* a sum.  F[T] is what is done with the fold over the rest of T, m[T] the    *)
(* element that is chosen.                                                    *)

IsFold(g, F, m, S) ==
    g = [T \in SUBSET S |-> IF T = {} THEN 0 ELSE F[T][g[T \ {m[T]}]]]
Chooses(m, S) == \A T \in SUBSET S : T # {} => m[T] \in T

LEMMA FoldUnique ==
    ASSUME NEW S, IsFiniteSet(S), NEW F, NEW m, Chooses(m, S),
           NEW g, NEW h, IsFold(g, F, m, S), IsFold(h, F, m, S)
    PROVE  g = h
<1> DEFINE G == {T \in SUBSET S : g[T] = h[T]}
<1>1. ASSUME NEW W \in SUBSET S PROVE W \in G
  <2>1. ASSUME NEW T \in SUBSET W, \A U \in SUBSET T : U # T => U \in G
        PROVE  T \in G
    <3>0. T \in SUBSET S
      OBVIOUS
    <3>1. CASE T = {}
      BY <3>0, <3>1 DEF IsFold
    <3>2. CASE T # {}
      <4>1. m[T] \in T
        BY <3>0, <3>2 DEF Chooses
      <4>2. T \ {m[T]} \in G
        BY <2>1, <4>1
      <4>3. g[T] = F[T][g[T \ {m[T]}]] /\ h[T] = F[T][h[T \ {m[T]}]]
        BY <3>0, <3>2 DEF IsFold
      <4> QED
        BY <3>0, <4>2, <4>3
    <3> QED
      BY <3>1, <3>2
  <2>2. IsFiniteSet(W)
    BY FS_Subset
  <2> HIDE DEF G
  <2> QED
    BY <2>1, <2>2, SubsetInduction
<1>2. \A T \in SUBSET S : g[T] = h[T]
  BY <1>1
<1>3. g = [T \in SUBSET S |-> g[T]] /\ h = [T \in SUBSET S |-> h[T]]
  BY DEF IsFold
<1> QED
  BY <1>2, <1>3

\* A part of a fold is the fold of a part.
PartOf(g, T) == [U \in SUBSET T |-> g[U]]
LEMMA FoldOfPart ==
    ASSUME NEW S, NEW F, NEW m, NEW g, IsFold(g, F, m, S), NEW T \in SUBSET S
    PROVE  IsFold(PartOf(g, T), F, m, T)
<1> DEFINE k == PartOf(g, T)
<1>1. ASSUME NEW U \in SUBSET T
      PROVE  k[U] = IF U = {} THEN 0 ELSE F[U][k[U \ {m[U]}]]
  <2>1. U \in SUBSET S /\ U \ {m[U]} \in SUBSET T
    OBVIOUS
  <2>2. g[U] = IF U = {} THEN 0 ELSE F[U][g[U \ {m[U]}]]
    BY <2>1 DEF IsFold
  <2> QED
    BY <2>1, <2>2 DEF PartOf
<1> QED
  BY <1>1 DEF IsFold, PartOf

LEMMA FoldExists ==
    ASSUME NEW S, IsFiniteSet(S), NEW m, Chooses(m, S),
           NEW F, \A T \in SUBSET S : T # {} => F[T] \in [Int -> Int]
    PROVE  \E g \in [SUBSET S -> Int] : IsFold(g, F, m, S)
<1> DEFINE G == {T \in SUBSET S : \E g \in [SUBSET T -> Int] : IsFold(g, F, m, T)}
<1>1. ASSUME NEW T \in SUBSET S, \A U \in SUBSET T : U # T => U \in G
      PROVE  T \in G
  <2>1. CASE T = {}
    <3>1. [U \in SUBSET T |-> 0] \in [SUBSET T -> Int]
      OBVIOUS
    <3>2. IsFold([U \in SUBSET T |-> 0], F, m, T)
      BY <2>1 DEF IsFold
    <3> QED
      BY <3>1, <3>2
  <2>2. CASE T # {}
    <3> DEFINE FoldFor(U) == CHOOSE g : g \in [SUBSET U -> Int] /\ IsFold(g, F, m, U)
               At(U) == FoldFor(U)[U]
               Rest == T \ {m[T]}
               k == [U \in SUBSET T |-> IF U = T THEN F[T][At(Rest)] ELSE At(U)]
    <3>1. \A U \in SUBSET T : U # {} => m[U] \in U
      BY DEF Chooses
    <3>2. ASSUME NEW U \in SUBSET T, U # T
          PROVE  FoldFor(U) \in [SUBSET U -> Int] /\ IsFold(FoldFor(U), F, m, U)
      <4>1. \E g : g \in [SUBSET U -> Int] /\ IsFold(g, F, m, U)
        BY <1>1, <3>2
      <4> QED
        BY <4>1
    <3> HIDE DEF FoldFor
    <3>3. ASSUME NEW U \in SUBSET T, U # T PROVE At(U) \in Int
      BY <3>2, <3>3
    <3>4. Rest \in SUBSET T /\ Rest # T
      BY <2>2, <3>1
    <3>5. k \in [SUBSET T -> Int]
      <4>1. F[T][At(Rest)] \in Int
        BY <2>2, <3>3, <3>4
      <4> HIDE DEF At
      <4> QED
        BY <3>3, <4>1
    <3>6. ASSUME NEW U \in SUBSET T, U # T, U # {}
          PROVE  At(U) = F[U][At(U \ {m[U]})]
      <4> DEFINE V == U \ {m[U]}
      <4>1. m[U] \in U
        BY <3>1, <3>6
      <4>2. V \in SUBSET U /\ V \in SUBSET T /\ V # T
        BY <4>1, <3>6
      <4>3. IsFold(FoldFor(U), F, m, U) /\ IsFold(FoldFor(V), F, m, V)
        BY <3>2, <3>6, <4>2
      <4> HIDE DEF V
      <4>4. IsFold(PartOf(FoldFor(U), V), F, m, V)
        BY <4>2, <4>3, FoldOfPart
      <4>5. IsFiniteSet(V) /\ Chooses(m, V)
        <5>1. IsFiniteSet(U) /\ IsFiniteSet(V)
          BY <4>2, FS_Subset
        <5> QED
          BY <4>2, <5>1 DEF Chooses
      <4>6. FoldFor(V) = PartOf(FoldFor(U), V)
        BY <4>3, <4>4, <4>5, FoldUnique
      <4>7. FoldFor(V)[V] = FoldFor(U)[V]
        BY <4>6 DEF PartOf
      <4>8. FoldFor(U)[U] = F[U][FoldFor(U)[V]]
        BY <3>6, <4>3 DEF IsFold, V
      <4> QED
        BY <4>7, <4>8 DEF V
    <3>7. ASSUME NEW U \in SUBSET T, U = {} PROVE At(U) = 0
      <4>1. U # T
        BY <2>2, <3>7
      <4>2. IsFold(FoldFor(U), F, m, U)
        BY <3>2, <4>1
      <4> QED
        BY <4>2, <3>7 DEF IsFold
    <3>8. IsFold(k, F, m, T)
      <4>1. ASSUME NEW U \in SUBSET T
            PROVE  k[U] = IF U = {} THEN 0 ELSE F[U][k[U \ {m[U]}]]
        <5>1. CASE U = T
          BY <2>2, <3>4, <5>1
        <5>2. CASE U # T /\ U = {}
          BY <3>7, <5>2
        <5>3. CASE U # T /\ U # {}
          <6>1. U \ {m[U]} \in SUBSET T /\ U \ {m[U]} # T
            BY <3>1, <5>3
          <6> HIDE DEF At
          <6> QED
            BY <3>6, <5>3, <6>1
        <5> QED
          BY <5>1, <5>2, <5>3
      <4> HIDE DEF At
      <4> QED
        BY <4>1 DEF IsFold
    <3> QED
      BY <3>5, <3>8
  <2> QED
    BY <2>1, <2>2
<1>2. S \in G
  <2> HIDE DEF G
  <2> QED
    BY <1>1, SubsetInduction
<1> QED
  BY <1>2

-----------------------------------------------------------------------------
(* Numbers from 1 to n.                                                       *)

\* Induction up to n: G is the set of the good numbers.
LEMMA UpToInduction ==
    ASSUME NEW n \in Nat, NEW G, 0 \in G, \A k \in 1..n : k - 1 \in G => k \in G
    PROVE  \A k \in 0..n : k \in G
<1> SUFFICES ASSUME NEW z \in 0..n PROVE z \in G
  OBVIOUS
<1> DEFINE D == 1..z
           H == {T \in SUBSET D : \A k \in 0..z : T = 1..k => k \in G}
<1>1. ASSUME NEW T \in SUBSET D, \A U \in SUBSET T : U # T => U \in H
      PROVE  T \in H
  <2> SUFFICES ASSUME NEW k \in 0..z, T = 1..k PROVE k \in G
    OBVIOUS
  <2>1. CASE k = 0
    BY <2>1
  <2>2. CASE k # 0
    <3>1. k - 1 \in 0..z /\ k \in 1..n /\ k \in 1..k
      BY <2>2
    <3>2. 1..(k - 1) \in SUBSET T /\ k \notin 1..(k - 1)
      BY <3>1
    <3>3. 1..(k - 1) \in H
      BY <1>1, <3>1, <3>2
    <3>4. k - 1 \in G
      BY <3>1, <3>3
    <3> QED
      BY <3>1, <3>4
  <2> QED
    BY <2>1, <2>2
<1>2. IsFiniteSet(D)
  BY FS_Interval
<1>3. D \in H
  <2> HIDE DEF H, D
  <2> QED
    BY <1>1, <1>2, SubsetInduction
<1> QED
  BY <1>3

\* A set of them has a largest member.
LEMMA LargestThere ==
    ASSUME NEW n \in Nat, NEW T \in SUBSET (1..n), T # {}
    PROVE  \E x \in T : \A y \in T : x >= y
<1> DEFINE G == {k \in 0..n : \A U \in SUBSET (1..k) : U # {} => \E x \in U : \A y \in U : x >= y}
<1>1. 0 \in G
  <2>1. 0 \in 0..n /\ \A U \in SUBSET (1..0) : ~(U # {})
    <3>1. 1..0 = {} /\ 0 \in 0..n
      OBVIOUS
    <3> QED
      BY <3>1
  <2>2. \A U \in SUBSET (1..0) : U # {} => \E x \in U : \A y \in U : x >= y
    BY <2>1, Zenon
  <2> QED
    BY <2>1, <2>2
<1>2. ASSUME NEW k \in 1..n, k - 1 \in G PROVE k \in G
  <2> SUFFICES ASSUME NEW U \in SUBSET (1..k), U # {} PROVE \E x \in U : \A y \in U : x >= y
    OBVIOUS
  <2>1. CASE k \in U
    <3>1. \A y \in U : y \in 1..k
      OBVIOUS
    <3>2. \A y \in U : k >= y
      BY <3>1
    <3> QED
      BY <2>1, <3>2
  <2>2. CASE k \notin U
    <3>1. \A y \in U : y \in 1..(k - 1)
      BY <2>2
    <3>2. U \in SUBSET (1..(k - 1))
      BY <3>1
    <3> QED
      BY <1>2, <3>2
  <2> QED
    BY <2>1, <2>2
<1> HIDE DEF G
<1>3. n \in G
  BY <1>1, <1>2, UpToInduction
<1> QED
  BY <1>3 DEF G

=============================================================================
