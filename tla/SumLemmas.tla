------------------------------ MODULE SumLemmas -------------------------------
(* Sums over finite sets, as the folds of the community modules define      *)
(* them: what the proofs about budgets and about costs rest on.             *)
EXTENDS FiniteSetsExt, FiniteSetTheorems, TLAPS

(***************************************************************************)
(* Induction.  The theorems of the library take the induction predicate as *)
(* an operator; these take the set of what satisfies it.                   *)
(***************************************************************************)

LEMMA NatInduct ==
  ASSUME NEW N, 0 \in N, \A n \in Nat : n \in N => n + 1 \in N
  PROVE  Nat \subseteq N
<1> DEFINE T == Nat \ N
<1>1. SUFFICES ASSUME T # {} PROVE FALSE
  OBVIOUS
<1>2. PICK n \in T : \A m \in T : <<m, n>> \notin OpToRel(<, Nat)
  <2> HIDE DEF T
  <2>1. T \subseteq Nat
    BY DEF T
  <2> QED
    BY <1>1, <2>1, NatLessThanWellFounded, WFMin
<1>3. n # 0 /\ n - 1 \in Nat /\ n - 1 \in T
  OBVIOUS
<1>4. <<n - 1, n>> \in OpToRel(<, Nat)
  BY <1>3 DEF OpToRel
<1> QED
  BY <1>2, <1>3, <1>4

(* A family of subsets that has a set when it has all its strict subsets.  *)
LEMMA SubsetInduct ==
  ASSUME NEW S, IsFiniteSet(S), NEW P,
         \A T \in SUBSET S : (\A U \in SUBSET T : U # T => U \in P) => T \in P
  PROVE  \A T \in SUBSET S : T \in P
<1> DEFINE N == {n \in Nat : \A T \in SUBSET S : Cardinality(T) <= n => T \in P}
<1>0. \A T \in SUBSET S : IsFiniteSet(T) /\ Cardinality(T) \in Nat
  BY FS_Subset, FS_CardinalityType
<1>1. \A T \in SUBSET S : \A U \in SUBSET T : U # T => Cardinality(U) < Cardinality(T)
  <2> TAKE T \in SUBSET S
  <2> TAKE U \in SUBSET T
  <2>1. Cardinality(U) <= Cardinality(T) /\ (Cardinality(T) = Cardinality(U) => T = U)
    BY <1>0, FS_Subset
  <2>2. Cardinality(U) \in Nat /\ Cardinality(T) \in Nat
    BY <1>0
  <2> QED
    BY <2>1, <2>2
<1>2. 0 \in N
  <2> SUFFICES ASSUME NEW T \in SUBSET S, Cardinality(T) <= 0 PROVE T \in P
    OBVIOUS
  <2>1. T = {}
    BY <1>0, FS_EmptySet
  <2> QED
    BY <2>1
<1>3. \A n \in Nat : n \in N => n + 1 \in N
  <2> SUFFICES ASSUME NEW n \in Nat, n \in N,
                      NEW T \in SUBSET S, Cardinality(T) <= n + 1
               PROVE  T \in P
    OBVIOUS
  <2>1. ASSUME NEW U \in SUBSET T, U # T PROVE U \in P
    <3>1. U \in SUBSET S /\ Cardinality(U) < Cardinality(T)
      BY <1>1, <2>1
    <3>2. Cardinality(U) <= n
      BY <1>0, <3>1
    <3> QED
      BY <3>1, <3>2
  <2> QED
    BY <2>1
<1>4. Nat \subseteq N
  <2> HIDE DEF N
  <2> QED
    BY <1>2, <1>3, NatInduct
<1>5. Cardinality(S) \in N
  BY <1>0, <1>4
<1> QED
  BY <1>0, <1>5, FS_Subset

(* A family of subsets that has a set when it has it less any one element. *)
LEMMA ElementInduct ==
  ASSUME NEW S, IsFiniteSet(S), NEW P, {} \in P,
         \A T \in SUBSET S : \A x \in T : T \ {x} \in P => T \in P
  PROVE  S \in P
<1>1. ASSUME NEW T \in SUBSET S, \A U \in SUBSET T : U # T => U \in P
      PROVE  T \in P
  <2>1. CASE T = {}
    BY <2>1
  <2>2. CASE T # {}
    <3>1. PICK x \in T : TRUE
      BY <2>2
    <3>2. T \ {x} \in P
      BY <1>1, <3>1
    <3> QED
      BY <3>1, <3>2
  <2> QED
    BY <2>1, <2>2
<1> QED
  BY <1>1, SubsetInduct

(***************************************************************************)
(* The sum of the weights of a finite set, as it is defined by the fold.   *)
(***************************************************************************)

First(T) == CHOOSE x \in T : TRUE

Total(f, S) == MapThenSumSet(LAMBDA x : f[x], S)

TotalAt(h, f, T) == IF T = {} THEN 0 ELSE f[First(T)] + h[T \ {First(T)}]

Totals(h, f, S) == h = [T \in SUBSET S |-> TotalAt(h, f, T)]

LEMMA FirstIn == \A T : T # {} => First(T) \in T
BY DEF First

(* The fold is the value of a function that satisfies its equation, if one *)
(* does, ...                                                               *)
LEMMA TotalDef ==
  ASSUME NEW f, NEW S, NEW g, Totals(g, f, S)
  PROVE  \E h : Totals(h, f, S) /\ Total(f, S) = h[S]
BY DEF Total, Totals, TotalAt, First, MapThenSumSet, MapThenFoldSet

(* ... one does, ...                                                       *)
LEMMA TotalsExist ==
  ASSUME NEW S, IsFiniteSet(S), NEW f
  PROVE  \E h : Totals(h, f, S)
<1> DEFINE Upto(h, n) == \A T \in SUBSET S : Cardinality(T) <= n => h[T] = TotalAt(h, f, T)
           N == {n \in Nat : \E h : Upto(h, n)}
<1>0. \A T \in SUBSET S : IsFiniteSet(T) /\ Cardinality(T) \in Nat
  BY FS_Subset, FS_CardinalityType
<1>1. 0 \in N
  <2> DEFINE z == [T \in SUBSET S |-> 0]
  <2>1. \A T \in SUBSET S : Cardinality(T) <= 0 => T = {}
    BY <1>0, FS_EmptySet
  <2>2. Upto(z, 0)
    BY <2>1 DEF TotalAt
  <2> QED
    BY <2>2
<1>2. \A n \in Nat : n \in N => n + 1 \in N
  <2> SUFFICES ASSUME NEW n \in Nat, NEW h, Upto(h, n) PROVE \E k : Upto(k, n + 1)
    OBVIOUS
  <2> DEFINE k == [T \in SUBSET S |-> TotalAt(h, f, T)]
  <2>1. ASSUME NEW T \in SUBSET S, Cardinality(T) <= n + 1, T # {}
        PROVE  k[T \ {First(T)}] = h[T \ {First(T)}]
    <3>1. First(T) \in T
      BY <2>1, FirstIn
    <3>2. Cardinality(T \ {First(T)}) = Cardinality(T) - 1
      BY <1>0, <3>1, FS_RemoveElement
    <3>3. T \ {First(T)} \in SUBSET S /\ Cardinality(T \ {First(T)}) <= n
      BY <1>0, <2>1, <3>2
    <3> QED
      BY <3>3
  <2>2. Upto(k, n + 1)
    BY <2>1 DEF TotalAt
  <2> QED
    BY <2>2
<1>3. PICK h : Upto(h, Cardinality(S))
  <2>1. Nat \subseteq N
    <3> HIDE DEF N
    <3> QED
      BY <1>1, <1>2, NatInduct
  <2>2. Cardinality(S) \in N
    BY <1>0, <2>1
  <2> QED
    BY <2>2
<1> DEFINE g == [T \in SUBSET S |-> h[T]]
<1>4. \A T \in SUBSET S : h[T] = TotalAt(h, f, T)
  BY <1>0, <1>3, FS_Subset
<1>5. \A T \in SUBSET S : TotalAt(h, f, T) = TotalAt(g, f, T)
  BY FirstIn DEF TotalAt
<1>6. g = [T \in SUBSET S |-> TotalAt(g, f, T)]
  BY <1>4, <1>5
<1> QED
  BY <1>6 DEF Totals

(* ... and any other that does for a larger set and weights that are the   *)
(* same here has the same values.                                          *)
LEMMA TotalsSame ==
  ASSUME NEW R, NEW S, S \subseteq R, IsFiniteSet(S), NEW f, NEW g,
         \A x \in S : f[x] = g[x],
         NEW h, Totals(h, f, R), NEW k, Totals(k, g, S)
  PROVE  \A T \in SUBSET S : h[T] = k[T]
<1> DEFINE P == {T \in SUBSET S : h[T] = k[T]}
<1>1. ASSUME NEW T \in SUBSET S, \A U \in SUBSET T : U # T => U \in P
      PROVE  T \in P
  <2>1. h[T] = TotalAt(h, f, T) /\ k[T] = TotalAt(k, g, T)
    BY DEF Totals
  <2>2. T # {} => First(T) \in T /\ T \ {First(T)} \in P
    BY <1>1, FirstIn
  <2> QED
    BY <2>1, <2>2 DEF TotalAt
<1>2. \A T \in SUBSET S : T \in P
  <2> HIDE DEF P
  <2> QED
    BY <1>1, SubsetInduct
<1> QED
  BY <1>2

LEMMA TotalOfSubset ==
  ASSUME NEW S, IsFiniteSet(S), NEW f, NEW h, Totals(h, f, S)
  PROVE  \A T \in SUBSET S : Total(f, T) = h[T]
<1> TAKE T \in SUBSET S
<1>1. IsFiniteSet(T)
  BY FS_Subset
<1>2. PICK k : Totals(k, f, T) /\ Total(f, T) = k[T]
  BY <1>1, TotalsExist, TotalDef
<1> QED
  BY <1>1, <1>2, TotalsSame

LEMMA TotalSame ==
  ASSUME NEW S, IsFiniteSet(S), NEW f, NEW g, \A x \in S : f[x] = g[x]
  PROVE  Total(f, S) = Total(g, S)
<1>1. PICK h : Totals(h, f, S) /\ Total(f, S) = h[S]
  BY TotalsExist, TotalDef
<1>2. PICK k : Totals(k, g, S) /\ Total(g, S) = k[S]
  BY TotalsExist, TotalDef
<1>3. h[S] = k[S]
  <2>1. \A T \in SUBSET S : h[T] = k[T]
    BY <1>1, <1>2, TotalsSame
  <2> QED
    BY <2>1
<1> QED
  BY <1>1, <1>2, <1>3

LEMMA TotalStep ==
  ASSUME NEW S, IsFiniteSet(S), NEW f
  PROVE  /\ Total(f, {}) = 0
         /\ S # {} => Total(f, S) = f[First(S)] + Total(f, S \ {First(S)})
<1>1. PICK h : Totals(h, f, S)
  BY TotalsExist
<1>2. \A T \in SUBSET S : Total(f, T) = h[T] /\ h[T] = TotalAt(h, f, T)
  BY <1>1, TotalOfSubset DEF Totals
<1> QED
  BY <1>2 DEF TotalAt

LEMMA TotalType ==
  ASSUME NEW S, IsFiniteSet(S), NEW f, \A x \in S : f[x] \in Nat
  PROVE  Total(f, S) \in Nat
<1> DEFINE P == {T \in SUBSET S : Total(f, T) \in Nat}
<1>1. ASSUME NEW T \in SUBSET S, \A U \in SUBSET T : U # T => U \in P
      PROVE  T \in P
  <2>1. IsFiniteSet(T)
    BY FS_Subset
  <2>2. T # {} => First(T) \in T /\ T \ {First(T)} \in P
    BY <1>1, FirstIn
  <2>3. CASE T = {}
    BY <2>3, FS_EmptySet, TotalStep
  <2>4. CASE T # {}
    <3>1. Total(f, T) = f[First(T)] + Total(f, T \ {First(T)})
      BY <2>1, <2>4, TotalStep
    <3>2. f[First(T)] \in Nat /\ Total(f, T \ {First(T)}) \in Nat
      BY <2>2, <2>4
    <3> QED
      BY <3>1, <3>2
  <2> QED
    BY <2>3, <2>4
<1>2. S \in P
  <2> HIDE DEF P
  <2> QED
    BY <1>1, SubsetInduct
<1> QED
  BY <1>2

(* The sum does not depend on the order the fold takes the elements in.    *)
LEMMA TotalRemove ==
  ASSUME NEW S, IsFiniteSet(S), NEW f, \A x \in S : f[x] \in Nat, NEW x \in S
  PROVE  Total(f, S) = f[x] + Total(f, S \ {x})
<1> DEFINE P == {T \in SUBSET S : \A y \in T : Total(f, T) = f[y] + Total(f, T \ {y})}
<1>1. ASSUME NEW T \in SUBSET S, \A U \in SUBSET T : U # T => U \in P, NEW y \in T
      PROVE  Total(f, T) = f[y] + Total(f, T \ {y})
  <2> DEFINE c == First(T)
  <2>1. c \in T /\ Total(f, T) = f[c] + Total(f, T \ {c})
    BY FirstIn, FS_Subset, TotalStep
  <2>2. CASE y = c
    BY <2>1, <2>2
  <2>3. CASE y # c
    <3> HIDE DEF c
    <3>1. T \ {c} \in P /\ T \ {y} \in P
      BY <1>1, <2>1
    <3>2. /\ Total(f, T \ {c}) = f[y] + Total(f, (T \ {c}) \ {y})
          /\ Total(f, T \ {y}) = f[c] + Total(f, (T \ {y}) \ {c})
      BY <2>1, <2>3, <3>1
    <3>3. (T \ {c}) \ {y} = (T \ {y}) \ {c}
      OBVIOUS
    <3>4. IsFiniteSet((T \ {y}) \ {c}) /\ \A z \in (T \ {y}) \ {c} : f[z] \in Nat
      BY FS_Subset
    <3>5. Total(f, (T \ {y}) \ {c}) \in Nat
      BY <3>4, TotalType
    <3>6. f[y] \in Nat /\ f[c] \in Nat
      BY <2>1
    <3> QED
      BY <2>1, <3>2, <3>3, <3>5, <3>6
  <2> QED
    BY <2>2, <2>3
<1>2. S \in P
  <2>1. \A T \in SUBSET S : (\A U \in SUBSET T : U # T => U \in P) => T \in P
    BY <1>1
  <2> HIDE DEF P
  <2> QED
    BY <2>1, SubsetInduct
<1> QED
  BY <1>2

LEMMA TotalAdd ==
  ASSUME NEW S, IsFiniteSet(S), NEW x, x \notin S, NEW f, \A y \in S \cup {x} : f[y] \in Nat
  PROVE  Total(f, S \cup {x}) = f[x] + Total(f, S)
<1>1. IsFiniteSet(S \cup {x})
  BY FS_AddElement
<1>2. Total(f, S \cup {x}) = f[x] + Total(f, (S \cup {x}) \ {x})
  BY <1>1, TotalRemove
<1>3. (S \cup {x}) \ {x} = S
  OBVIOUS
<1> QED
  BY <1>2, <1>3

LEMMA TotalUnion ==
  ASSUME NEW S, IsFiniteSet(S), NEW R, IsFiniteSet(R), S \cap R = {},
         NEW f, \A x \in S \cup R : f[x] \in Nat
  PROVE  Total(f, S \cup R) = Total(f, S) + Total(f, R)
<1> DEFINE P == {T \in SUBSET R : Total(f, S \cup T) = Total(f, S) + Total(f, T)}
<1>0. \A T \in SUBSET R : IsFiniteSet(T) /\ IsFiniteSet(S \cup T)
  BY FS_Subset, FS_Union
<1>1. Total(f, S) \in Nat /\ \A T \in SUBSET R : Total(f, T) \in Nat
  BY <1>0, TotalType
<1>2. {} \in P
  <2>1. S \cup {} = S /\ Total(f, {}) = 0
    BY TotalStep
  <2> QED
    BY <1>1, <2>1
<1>3. ASSUME NEW T \in SUBSET R, NEW x \in T, T \ {x} \in P
      PROVE  T \in P
  <2>1. Total(f, T) = f[x] + Total(f, T \ {x})
    BY <1>0, TotalRemove
  <2>2. Total(f, S \cup T) = f[x] + Total(f, (S \cup T) \ {x})
    BY <1>0, TotalRemove
  <2>3. (S \cup T) \ {x} = S \cup (T \ {x})
    OBVIOUS
  <2>4. Total(f, S \cup (T \ {x})) = Total(f, S) + Total(f, T \ {x})
    BY <1>3
  <2>5. f[x] \in Nat /\ Total(f, T \ {x}) \in Nat
    BY <1>1
  <2>6. Total(f, S \cup T) = f[x] + (Total(f, S) + Total(f, T \ {x}))
    BY <2>2, <2>3, <2>4, Zenon
  <2>7. Total(f, S \cup T) = Total(f, S) + Total(f, T)
    BY <1>1, <2>1, <2>5, <2>6
  <2> QED
    BY <2>7
<1>4. R \in P
  <2> HIDE DEF P
  <2> QED
    BY <1>2, <1>3, ElementInduct
<1> QED
  BY <1>4

(* A part weighs no more than the whole.                                   *)
LEMMA TotalMonotone ==
  ASSUME NEW S, IsFiniteSet(S), NEW f, \A x \in S : f[x] \in Nat, NEW R \in SUBSET S
  PROVE  Total(f, R) <= Total(f, S)
<1>1. IsFiniteSet(R) /\ IsFiniteSet(S \ R) /\ R \cup (S \ R) = S /\ R \cap (S \ R) = {}
  BY FS_Subset
<1>2. Total(f, R) \in Nat /\ Total(f, S \ R) \in Nat
  BY <1>1, TotalType
<1>3. Total(f, R \cup (S \ R)) = Total(f, R) + Total(f, S \ R)
  BY <1>1, TotalUnion
<1>4. Total(f, S) = Total(f, R) + Total(f, S \ R)
  BY <1>1, <1>3, Zenon
<1> QED
  BY <1>2, <1>4

(* The totals of the parts, of which class[x] says in which x is, add up   *)
(* to the total of the whole.                                              *)
Part(S, class, c) == {x \in S : class[x] = c}

LEMMA TotalOfParts ==
  ASSUME NEW S, IsFiniteSet(S), NEW f, \A x \in S : f[x] \in Nat,
         NEW class, NEW C, IsFiniteSet(C), \A x \in S : class[x] \in C,
         NEW t, \A c \in C : t[c] = Total(f, Part(S, class, c))
  PROVE  Total(t, C) = Total(f, S)
<1> DEFINE Of(D) == {x \in S : class[x] \in D}
           P == {D \in SUBSET C : Total(t, D) = Total(f, Of(D))}
<1>0. /\ \A D \in SUBSET C : IsFiniteSet(D) /\ IsFiniteSet(Of(D))
      /\ \A c \in C : IsFiniteSet(Part(S, class, c))
  BY FS_Subset DEF Part
<1>1. \A c \in C : t[c] \in Nat
  BY <1>0, TotalType DEF Part
<1>2. {} \in P
  <2>1. Of({}) = {} /\ Total(t, {}) = 0 /\ Total(f, {}) = 0
    BY TotalStep, FS_EmptySet
  <2> QED
    BY <2>1
<1>3. ASSUME NEW D \in SUBSET C, NEW c \in D, D \ {c} \in P
      PROVE  D \in P
  <2> DEFINE part == Part(S, class, c)
             rest == Of(D \ {c})
  <2>1. Of(D) = part \cup rest /\ part \cap rest = {}
    BY DEF Part
  <2>2. IsFiniteSet(D) /\ IsFiniteSet(part) /\ IsFiniteSet(rest)
    BY <1>0
  <2>3. Total(t, D) = t[c] + Total(t, D \ {c})
    BY <1>1, <2>2, TotalRemove
  <2>4. Total(t, D \ {c}) = Total(f, rest)
    BY <1>3
  <2>5. \A x \in part \cup rest : f[x] \in Nat
    BY DEF Part
  <2>6. Total(f, part \cup rest) = Total(f, part) + Total(f, rest)
    <3> HIDE DEF part, rest
    <3> QED
      BY <2>1, <2>2, <2>5, TotalUnion
  <2>7. t[c] = Total(f, part)
    OBVIOUS
  <2>8. Total(t, D) = Total(f, Of(D))
    <3> HIDE DEF part, rest, Of
    <3> QED
      BY <2>1, <2>3, <2>4, <2>6, <2>7
  <2> QED
    BY <2>8
<1>4. C \in P
  <2> HIDE DEF P
  <2> QED
    BY <1>2, <1>3, ElementInduct
<1>5. Of(C) = S
  OBVIOUS
<1> QED
  BY <1>4, <1>5

(* Sums through another set: that of what a one-to-one function makes of it. *)
LEMMA TotalOfImage ==
  ASSUME NEW S, IsFiniteSet(S), NEW k, \A x, y \in S : k[x] = k[y] => x = y,
         NEW f, NEW g, \A x \in S : f[x] \in Nat /\ g[k[x]] = f[x]
  PROVE  Total(g, {k[x] : x \in S}) = Total(f, S)
<1> DEFINE Image(T) == {k[x] : x \in T}
           P == {T \in SUBSET S : IsFiniteSet(Image(T)) /\ Total(g, Image(T)) = Total(f, T)}
<1>1. {} \in P
  <2>1. Image({}) = {} /\ IsFiniteSet({})
    BY FS_EmptySet
  <2>2. Total(g, {}) = 0 /\ Total(f, {}) = 0
    BY <2>1, TotalStep
  <2> QED
    BY <2>1, <2>2
<1>2. ASSUME NEW T \in SUBSET S, NEW x \in T, T \ {x} \in P
      PROVE  T \in P
  <2> DEFINE R == T \ {x}
  <2>1. IsFiniteSet(R) /\ IsFiniteSet(Image(R)) /\ Total(g, Image(R)) = Total(f, R)
    BY <1>2, FS_Subset
  <2>2. Image(T) = Image(R) \cup {k[x]} /\ k[x] \notin Image(R) /\ T = R \cup {x} /\ x \notin R
    OBVIOUS
  <2>3. Total(f, T) = f[x] + Total(f, R)
    <3>1. \A y \in R \cup {x} : f[y] \in Nat
      BY <2>2
    <3> HIDE DEF R
    <3> QED
      BY <2>1, <2>2, <3>1, TotalAdd
  <2>4. Total(g, Image(T)) = g[k[x]] + Total(g, Image(R))
    <3>1. \A y \in Image(R) \cup {k[x]} : g[y] \in Nat
      BY <2>2
    <3> HIDE DEF R, Image
    <3> QED
      BY <2>1, <2>2, <3>1, TotalAdd
  <2>5. IsFiniteSet(Image(T))
    <3> HIDE DEF R, Image
    <3> QED
      BY <2>1, <2>2, FS_AddElement
  <2>6. g[k[x]] = f[x]
    OBVIOUS
  <2> QED
    BY <2>1, <2>3, <2>4, <2>5, <2>6
<1>3. S \in P
  <2> HIDE DEF P
  <2> QED
    BY <1>1, <1>2, ElementInduct
<1> QED
  BY <1>3

(***************************************************************************)
(* Sums of costs.                                                          *)
(***************************************************************************)

Costs(S) == [r \in S |-> r.cost]

CostTotals(h, S) ==
  h = [T \in SUBSET S |->
         IF T = {} THEN 0 ELSE (CHOOSE r \in T : TRUE).cost + h[T \ {CHOOSE r \in T : TRUE}]]

LEMMA CostFold ==
  ASSUME NEW S
  PROVE  MapThenSumSet(LAMBDA r : r.cost, S) = (CHOOSE h : CostTotals(h, S))[S]
BY DEF CostTotals, MapThenSumSet, MapThenFoldSet

LEMMA CostTotalsAre ==
  ASSUME NEW S, NEW h
  PROVE  CostTotals(h, S) <=> Totals(h, Costs(S), S)
<1>1. \A T \in SUBSET S : T # {} => Costs(S)[First(T)] = First(T).cost
  BY FirstIn DEF Costs
<1> QED
  BY <1>1 DEF CostTotals, Totals, TotalAt, First

LEMMA CostIsTotal ==
  ASSUME NEW R, IsFiniteSet(R), NEW S \in SUBSET R
  PROVE  MapThenSumSet(LAMBDA r : r.cost, S) = Total(Costs(R), S)
<1>0. IsFiniteSet(S)
  BY FS_Subset
<1>1. \E h : CostTotals(h, S)
  BY <1>0, TotalsExist, CostTotalsAre
<1>2. Totals(CHOOSE h : CostTotals(h, S), Costs(S), S)
  BY <1>1, CostTotalsAre
<1>3. MapThenSumSet(LAMBDA r : r.cost, S) = Total(Costs(S), S)
  BY <1>0, <1>2, CostFold, TotalOfSubset
<1>4. Total(Costs(S), S) = Total(Costs(R), S)
  BY <1>0, TotalSame DEF Costs
<1> QED
  BY <1>3, <1>4
===============================================================================
