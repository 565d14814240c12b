---------------------------- MODULE FiguresProofs ----------------------------
(***************************************************************************)
(* Proofs about LedgerFigures, PlanFigures and SpendingFigures: what the   *)
(* pages show is what was recorded, for any record of the bank, any        *)
(* targets and prices, any transactions and days of the calendar. The      *)
(* figures are folds; that a fold over a finite set or a sequence is a     *)
(* sum, whatever the order of its terms, is proved first.                  *)
(***************************************************************************)
EXTENDS LedgerFigures, PlanFigures, SpendingFigures, FiniteSetsExt,
        WellFoundedInduction, FiniteSetTheorems, SequenceTheorems, TLAPS

(***************************************************************************)
(* Sums over finite sets. An induction theorem of the library cannot be    *)
(* used, since it takes an operator as a parameter; a set as the           *)
(* parameter, and the least element of what is not in it, do.              *)
(***************************************************************************)

\* A set of natural numbers has a least one.
LEMMA NatLeast ==
  ASSUME NEW T \in SUBSET Nat, T # {}
  PROVE  \E n \in T : \A m \in T : n <= m
<1>1. IsWellFoundedOn(OpToRel(<, Nat), Nat)
  BY NatLessThanWellFounded
<1>2. PICK x \in T : \A y \in T : <<y, x>> \notin OpToRel(<, Nat)
  BY <1>1, WFMin, Zenon
<1>3. \A y \in T : ~ (y < x)
  BY <1>2 DEF OpToRel
<1> QED BY <1>3

\* A set that contains 0 and the successors of its numbers contains all of Nat.
LEMMA NatSteps ==
  ASSUME NEW T, 0 \in T, \A n \in Nat : n \in T => n + 1 \in T
  PROVE  \A n \in Nat : n \in T
<1> SUFFICES ASSUME NEW k \in Nat, k \notin T PROVE FALSE
  OBVIOUS
<1> DEFINE U == {n \in Nat : n \notin T}
<1>1. U \in SUBSET Nat /\ U # {}
  OBVIOUS
<1>2. PICK n \in U : \A m \in U : n <= m
  BY <1>1, NatLeast
<1>3. n # 0 /\ n - 1 \in Nat /\ n - 1 \notin U
  BY <1>2
<1> QED BY <1>3, <1>2

\* Induction on finite sets, for a set of them.
LEMMA SubsetStepsAll ==
  ASSUME NEW D, IsFiniteSet(D), NEW F, {} \in F,
         \A s \in SUBSET D : s # {} /\ (\A x \in s : s \ {x} \in F) => s \in F
  PROVE  \A s \in SUBSET D : s \in F
<1> DEFINE T == {n \in Nat : \A s \in SUBSET D : Cardinality(s) = n => s \in F}
<1>1. \A s \in SUBSET D : IsFiniteSet(s) /\ Cardinality(s) \in Nat
  BY FS_Subset, FS_CardinalityType
<1>2. 0 \in T
  <2>1. ASSUME NEW s \in SUBSET D, Cardinality(s) = 0 PROVE s \in F
    BY <1>1, <2>1, FS_EmptySet
  <2> QED BY <2>1
<1>3. ASSUME NEW n \in Nat, n \in T PROVE n + 1 \in T
  <2>1. ASSUME NEW s \in SUBSET D, Cardinality(s) = n + 1 PROVE s \in F
    <3>1. s # {}
      BY <1>1, <2>1, FS_EmptySet
    <3>2. ASSUME NEW x \in s PROVE s \ {x} \in F
      <4>1. Cardinality(s \ {x}) = n
        BY <1>1, <2>1, FS_RemoveElement
      <4> QED BY <1>3, <4>1
    <3> QED BY <3>1, <3>2
  <2> QED BY <2>1
<1>4. \A n \in Nat : n \in T
  <2> HIDE DEF T
  <2> QED BY <1>2, <1>3, NatSteps
<1> QED BY <1>1, <1>4

\* ... or when any one of its elements may be added last.
LEMMA SubsetSteps ==
  ASSUME NEW D, IsFiniteSet(D), NEW F, {} \in F,
         \A s \in SUBSET D : \A x \in s : s \ {x} \in F => s \in F
  PROVE  \A s \in SUBSET D : s \in F
<1>1. \A s \in SUBSET D : s # {} /\ (\A x \in s : s \ {x} \in F) => s \in F
  OBVIOUS
<1> QED BY <1>1, SubsetStepsAll

\* ch takes an element of every set.
Chooses(ch, D) == \A s \in SUBSET D : s # {} => ch[s] \in s

\* The recursive functions by which the folds of the community modules are defined.
FoldStep(it, D, g, ch, base) ==
  it = [s \in SUBSET D |-> IF s = {} THEN base ELSE g[ch[s]] + it[s \ {ch[s]}]]

\* There is such a function, for every finite set.
LEMMA FoldExists ==
  ASSUME NEW D, IsFiniteSet(D), NEW g, \A x \in D : g[x] \in Int, NEW base \in Int,
         NEW ch, Chooses(ch, D)
  PROVE  \E it : FoldStep(it, D, g, ch, base)
<1> DEFINE Fits(h, s) == h[s] = IF s = {} THEN base ELSE g[ch[s]] + h[s \ {ch[s]}]
           T == {n \in Nat : \E h \in [SUBSET D -> Int] :
                   \A s \in SUBSET D : Cardinality(s) <= n => Fits(h, s)}
<1>1. \A s \in SUBSET D : IsFiniteSet(s) /\ Cardinality(s) \in Nat
  BY FS_Subset, FS_CardinalityType
<1>2. 0 \in T
  <2> DEFINE h == [s \in SUBSET D |-> base]
  <2>1. h \in [SUBSET D -> Int]
    OBVIOUS
  <2>2. ASSUME NEW s \in SUBSET D, Cardinality(s) <= 0 PROVE Fits(h, s)
    <3>1. s = {}
      BY <1>1, <2>2, FS_EmptySet
    <3> QED BY <3>1
  <2> QED BY <2>1, <2>2
<1>3. ASSUME NEW n \in Nat, n \in T PROVE n + 1 \in T
  <2>1. PICK h \in [SUBSET D -> Int] : \A s \in SUBSET D : Cardinality(s) <= n => Fits(h, s)
    BY <1>3
  <2> DEFINE k == [s \in SUBSET D |-> IF Cardinality(s) <= n THEN h[s]
                                       ELSE g[ch[s]] + h[s \ {ch[s]}]]
  <2>2. \A s \in SUBSET D : Cardinality(s) > n => s # {}
    BY <1>1, FS_EmptySet
  <2>3. k \in [SUBSET D -> Int]
    <3>1. ASSUME NEW s \in SUBSET D, Cardinality(s) > n
          PROVE  g[ch[s]] + h[s \ {ch[s]}] \in Int
      <4>1. ch[s] \in s /\ s \ {ch[s]} \in SUBSET D
        BY <2>2, <3>1 DEF Chooses
      <4> QED BY <4>1
    <3>2. ASSUME NEW s \in SUBSET D PROVE k[s] \in Int
      BY <1>1, <3>1, <3>2
    <3> QED BY <3>2
  <2>4. ASSUME NEW s \in SUBSET D, Cardinality(s) <= n + 1 PROVE Fits(k, s)
    <3>1. CASE s = {}
      <4>1. Cardinality(s) <= n
        BY <3>1, FS_EmptySet
      <4> QED BY <2>1, <3>1, <4>1
    <3>2. CASE s # {}
      <4>1. ch[s] \in s /\ s \ {ch[s]} \in SUBSET D
        BY <3>2 DEF Chooses
      <4>2. Cardinality(s \ {ch[s]}) = Cardinality(s) - 1
        BY <1>1, <4>1, FS_RemoveElement
      <4>3. k[s \ {ch[s]}] = h[s \ {ch[s]}]
        BY <1>1, <2>4, <4>1, <4>2
      <4>4. k[s] = g[ch[s]] + h[s \ {ch[s]}]
        BY <1>1, <2>1, <3>2
      <4> QED BY <4>3, <4>4, <3>2
    <3> QED BY <3>1, <3>2
  <2>5. \E f \in [SUBSET D -> Int] : \A s \in SUBSET D : Cardinality(s) <= n + 1 => Fits(f, s)
    <3> HIDE DEF Fits, k
    <3> QED BY <2>3, <2>4
  <2> HIDE DEF Fits
  <2> QED BY <2>5
<1>4. Cardinality(D) \in T
  <2> HIDE DEF T
  <2> QED BY <1>1, <1>2, <1>3, NatSteps
<1>5. PICK h \in [SUBSET D -> Int] : \A s \in SUBSET D : Cardinality(s) <= Cardinality(D) => Fits(h, s)
  BY <1>4
<1>6. \A s \in SUBSET D : Fits(h, s)
  BY <1>1, <1>5, FS_Subset
<1>7. FoldStep(h, D, g, ch, base)
  BY <1>5, <1>6 DEF FoldStep
<1> QED BY <1>7

\* it may take any of the numbers first.
TakesAny(it, g, D) == \A s \in SUBSET D : it[s] \in Int /\ \A x \in s : it[s] = g[x] + it[s \ {x}]

\* Whatever the order in which it takes the elements, it may take any of them first.
LEMMA FoldAnyFirst ==
  ASSUME NEW D, IsFiniteSet(D), NEW g, \A x \in D : g[x] \in Int, NEW base \in Int,
         NEW ch, Chooses(ch, D),
         NEW it, FoldStep(it, D, g, ch, base)
  PROVE  TakesAny(it, g, D)
<1> DEFINE Fits(s) == it[s] \in Int /\ \A x \in s : it[s] = g[x] + it[s \ {x}]
           T == {n \in Nat : \A s \in SUBSET D : Cardinality(s) <= n => Fits(s)}
<1>1. \A s \in SUBSET D : IsFiniteSet(s) /\ Cardinality(s) \in Nat
  BY FS_Subset, FS_CardinalityType
<1>2. it[{}] = base
  BY DEF FoldStep
<1>3. \A s \in SUBSET D : s # {} => it[s] = g[ch[s]] + it[s \ {ch[s]}]
  BY DEF FoldStep
<1>4. 0 \in T
  <2>2. ASSUME NEW s \in SUBSET D, Cardinality(s) <= 0 PROVE Fits(s)
    <3>1. s = {}
      BY <1>1, <2>2, FS_EmptySet
    <3> QED BY <3>1, <1>2
  <2> QED BY <2>2
<1>5. ASSUME NEW n \in Nat, n \in T PROVE n + 1 \in T
  <2>0. \A s \in SUBSET D : Cardinality(s) <= n => Fits(s)
    <3> HIDE DEF Fits
    <3> QED BY <1>5
  <2>1. ASSUME NEW s \in SUBSET D, Cardinality(s) <= n + 1 PROVE Fits(s)
    <3>1. CASE s = {}
      BY <3>1, <1>2
    <3>2. CASE s # {}
      <4>1. PICK y \in s : y = ch[s]
        BY <3>2 DEF Chooses
      <4>2. y \in s /\ s \ {y} \in SUBSET D /\ Cardinality(s \ {y}) = Cardinality(s) - 1
        BY <1>1, <3>2, <4>1, FS_RemoveElement
      <4>3. Fits(s \ {y})
        <5> HIDE DEF Fits
        <5> QED BY <1>1, <2>0, <2>1, <4>2
      <4>4. it[s] = g[y] + it[s \ {y}] /\ it[s] \in Int
        <5>1. it[s] = g[y] + it[s \ {y}]
          BY <1>3, <3>2, <4>1
        <5>2. g[y] \in Int /\ it[s \ {y}] \in Int
          BY <4>2, <4>3
        <5> QED BY <5>1, <5>2
      <4>5. ASSUME NEW x \in s, x # y PROVE it[s] = g[x] + it[s \ {x}]
        <5>1. s \ {x} \in SUBSET D /\ Cardinality(s \ {x}) = Cardinality(s) - 1 /\ y \in s \ {x}
          BY <1>1, <4>2, <4>5, FS_RemoveElement
        <5>2. Fits(s \ {x})
          <6> HIDE DEF Fits
          <6> QED BY <1>1, <2>0, <2>1, <5>1
        <5>3. it[s \ {x}] = g[y] + it[(s \ {x}) \ {y}]
          BY <5>1, <5>2
        <5>4. x \in s \ {y} /\ it[s \ {y}] = g[x] + it[(s \ {y}) \ {x}]
          BY <4>3, <4>5
        <5>5. (s \ {x}) \ {y} = (s \ {y}) \ {x}
          OBVIOUS
        <5>6. (s \ {x}) \ {y} \in SUBSET D /\ Cardinality((s \ {x}) \ {y}) = Cardinality(s) - 2
          <6>1. PICK t \in SUBSET D : t = s \ {x}
            BY <5>1
          <6>2. Cardinality(t \ {y}) = Cardinality(t) - 1
            BY <1>1, <5>1, <6>1, FS_RemoveElement
          <6> QED BY <1>1, <5>1, <6>1, <6>2
        <5>7. it[(s \ {x}) \ {y}] \in Int
          BY <1>1, <2>0, <2>1, <5>6
        <5>8. g[x] \in Int /\ g[y] \in Int
          BY <4>2
        <5>9. it[s \ {y}] = g[x] + it[(s \ {x}) \ {y}]
          BY <5>4, <5>5
        <5>10. \A a, b, c, r, u, v \in Int : a = b + u /\ u = c + r /\ v = b + r => a = c + v
          OBVIOUS
        <5>11. it[s \ {x}] \in Int /\ it[s \ {y}] \in Int
          BY <4>3, <5>2
        <5> QED BY <4>4, <5>3, <5>7, <5>8, <5>9, <5>10, <5>11
      <4> QED BY <4>4, <4>5
    <3> QED BY <3>1, <3>2
  <2> QED BY <2>1
<1>6. Cardinality(D) \in T
  <2> HIDE DEF T
  <2> QED BY <1>1, <1>4, <1>5, NatSteps
<1> QED BY <1>1, <1>6, FS_Subset DEF TakesAny
\* What such a function gives is a number, ...
LEMMA TakesInt ==
  ASSUME NEW D, NEW g, NEW it, TakesAny(it, g, D), NEW s \in SUBSET D
  PROVE  it[s] \in Int
BY DEF TakesAny

\* ... of which any element is a term.
LEMMA TakesOne ==
  ASSUME NEW D, NEW g, NEW it, TakesAny(it, g, D), NEW s \in SUBSET D, NEW x \in s
  PROVE  it[s] = g[x] + it[s \ {x}]
BY DEF TakesAny

\* Two folds of the same numbers differ by what they start with.
LEMMA FoldsDiffer ==
  ASSUME NEW D, IsFiniteSet(D), NEW E \in SUBSET D, NEW g, \A x \in D : g[x] \in Int,
         NEW h, \A x \in E : h[x] = g[x],
         NEW it, TakesAny(it, g, D),
         NEW jt, TakesAny(jt, h, E)
  PROVE  it[E] - it[{}] = jt[E] - jt[{}]
<1>1. IsFiniteSet(E)
  BY FS_Subset
<1> DEFINE F == {s \in SUBSET E : it[s] - it[{}] = jt[s] - jt[{}]}
<1>2. {} \in F
  <2>1. it[{}] \in Int /\ jt[{}] \in Int
    BY TakesInt
  <2> QED BY <2>1
<1>3. ASSUME NEW s \in SUBSET E, NEW x \in s, s \ {x} \in F PROVE s \in F
  <2>0. s \in SUBSET D /\ s \ {x} \in SUBSET D /\ s \ {x} \in SUBSET E /\ {} \in SUBSET D
    OBVIOUS
  <2>1. it[s] = g[x] + it[s \ {x}] /\ jt[s] = g[x] + jt[s \ {x}]
    BY <2>0, TakesOne
  <2>2. g[x] \in Int /\ it[s \ {x}] \in Int /\ jt[s \ {x}] \in Int /\ it[{}] \in Int /\ jt[{}] \in Int
    BY <2>0, TakesInt
  <2> QED BY <1>3, <2>1, <2>2
<1>4. \A s \in SUBSET E : s \in F
  <2> HIDE DEF F
  <2> QED BY <1>1, <1>2, <1>3, SubsetSteps
<1> QED BY <1>4

\* The sum of numbers is such a fold.
AnyElement(D) == [s \in SUBSET D |-> CHOOSE x \in s : TRUE]

\* The sum of the community modules is such a function.
LEMMA SumFolds ==
  ASSUME NEW S, IsFiniteSet(S), NEW g, \A x \in S : g[x] \in Int
  PROVE  \E it : TakesAny(it, g, S) /\ it[{}] = 0 /\ SumFunctionOnSet(g, S) = it[S]
<1> DEFINE it == CHOOSE it : it = [s \in SUBSET S |-> IF s = {} THEN 0
                                     ELSE g[CHOOSE x \in s : TRUE] + it[s \ {CHOOSE x \in s : TRUE}]]
<1>0. PICK zero \in Int : zero = 0
  OBVIOUS
<1>1. Chooses(AnyElement(S), S)
  BY DEF AnyElement, Chooses
<1>2. \E f : FoldStep(f, S, g, AnyElement(S), zero)
  BY <1>1, FoldExists
<1>3. \E f : f = [s \in SUBSET S |-> IF s = {} THEN 0
                    ELSE g[CHOOSE x \in s : TRUE] + f[s \ {CHOOSE x \in s : TRUE}]]
  <2>1. PICK f : FoldStep(f, S, g, AnyElement(S), zero)
    BY <1>2
  <2>2. f = [s \in SUBSET S |-> IF s = {} THEN 0
                    ELSE g[CHOOSE x \in s : TRUE] + f[s \ {CHOOSE x \in s : TRUE}]]
    BY <1>0, <2>1 DEF FoldStep, AnyElement
  <2> QED BY <2>2
<1>4. it = [s \in SUBSET S |-> IF s = {} THEN 0
                    ELSE g[CHOOSE x \in s : TRUE] + it[s \ {CHOOSE x \in s : TRUE}]]
  BY <1>3
<1>5. SumFunctionOnSet(g, S) = it[S]
  BY DEF SumFunctionOnSet, FoldFunctionOnSet, MapThenFoldSet
<1>6. FoldStep(it, S, g, AnyElement(S), zero)
  <2> HIDE DEF it
  <2> QED BY <1>0, <1>4 DEF FoldStep, AnyElement
<1>7. it[{}] = 0
  <2> HIDE DEF it
  <2> QED BY <1>4
<1>8. TakesAny(it, g, S)
  <2> HIDE DEF it
  <2> QED BY <1>1, <1>6, FoldAnyFirst
<1> HIDE DEF it
<1> QED BY <1>5, <1>7, <1>8

\* The sums of one set of numbers within another agree.
LEMMA SumsAgree ==
  ASSUME NEW D, IsFiniteSet(D), NEW g, \A x \in D : g[x] \in Int,
         NEW it, TakesAny(it, g, D),
         NEW E \in SUBSET D, NEW h, \A x \in E : h[x] = g[x]
  PROVE  it[E] = it[{}] + SumFunctionOnSet(h, E)
<1>1. IsFiniteSet(E) /\ \A x \in E : h[x] \in Int
  BY FS_Subset
<1>2. PICK jt : TakesAny(jt, h, E) /\ jt[{}] = 0 /\ SumFunctionOnSet(h, E) = jt[E]
  BY <1>1, SumFolds
<1>3. TakesAny(jt, h, E)
  BY <1>2
<1>4. it[E] - it[{}] = jt[E] - jt[{}]
  BY <1>3, FoldsDiffer
<1>5. {} \in SUBSET D /\ E \in SUBSET E
  OBVIOUS
<1>6. it[E] \in Int /\ it[{}] \in Int
  BY <1>5, TakesInt
<1>7. jt[E] \in Int
  BY <1>3, <1>5, TakesInt
<1> QED BY <1>2, <1>4, <1>6, <1>7

\* A fold that starts at base is base and the sum.
LEMMA FoldSums ==
  ASSUME NEW D, IsFiniteSet(D), NEW g, \A x \in D : g[x] \in Int, NEW base \in Int,
         NEW ch, Chooses(ch, D),
         NEW it, FoldStep(it, D, g, ch, base)
  PROVE  it[D] = base + SumFunctionOnSet(g, D)
<1>1. it[{}] = base
  BY DEF FoldStep
<1>2. TakesAny(it, g, D)
  BY FoldAnyFirst
<1>3. D \in SUBSET D /\ \A x \in D : g[x] = g[x]
  OBVIOUS
<1> QED BY <1>1, <1>2, <1>3, SumsAgree

\* A sum of integers is one, ...
LEMMA SumType ==
  ASSUME NEW S, IsFiniteSet(S), NEW g, \A x \in S : g[x] \in Int
  PROVE  SumFunctionOnSet(g, S) \in Int
<1>1. PICK it : TakesAny(it, g, S) /\ it[{}] = 0 /\ SumFunctionOnSet(g, S) = it[S]
  BY SumFolds
<1>2. TakesAny(it, g, S) /\ S \in SUBSET S
  BY <1>1
<1> QED BY <1>1, <1>2, TakesInt

\* ... of nothing is 0, ...
LEMMA SumEmpty ==
  ASSUME NEW g
  PROVE  SumFunctionOnSet(g, {}) = 0
<1>1. PICK it : TakesAny(it, g, {}) /\ it[{}] = 0 /\ SumFunctionOnSet(g, {}) = it[{}]
  BY SumFolds, FS_EmptySet
<1> QED BY <1>1

\* ... depends on nothing but its terms, ...
LEMMA SumSame ==
  ASSUME NEW S, IsFiniteSet(S), NEW g, \A x \in S : g[x] \in Int, NEW h, \A x \in S : h[x] = g[x]
  PROVE  SumFunctionOnSet(h, S) = SumFunctionOnSet(g, S)
<1>1. PICK it : TakesAny(it, g, S) /\ it[{}] = 0 /\ SumFunctionOnSet(g, S) = it[S]
  BY SumFolds
<1>2. TakesAny(it, g, S) /\ S \in SUBSET S
  BY <1>1
<1>3. it[S] = it[{}] + SumFunctionOnSet(h, S)
  BY <1>2, SumsAgree
<1>4. SumFunctionOnSet(h, S) \in Int
  BY SumType
<1> QED BY <1>1, <1>3, <1>4

\* ... may be taken of any term first ...
LEMMA SumTake ==
  ASSUME NEW S, IsFiniteSet(S), NEW g, \A x \in S : g[x] \in Int, NEW x \in S
  PROVE  SumFunctionOnSet(g, S) = g[x] + SumFunctionOnSet(g, S \ {x})
<1>1. PICK it : TakesAny(it, g, S) /\ it[{}] = 0 /\ SumFunctionOnSet(g, S) = it[S]
  BY SumFolds
<1>2. /\ TakesAny(it, g, S) /\ S \in SUBSET S
      /\ S \ {x} \in SUBSET S /\ \A y \in S \ {x} : g[y] = g[y]
  BY <1>1
<1>3. it[S] = g[x] + it[S \ {x}]
  BY <1>2, TakesOne
<1>4. it[S \ {x}] = it[{}] + SumFunctionOnSet(g, S \ {x})
  BY <1>2, SumsAgree
<1>5. IsFiniteSet(S \ {x}) /\ \A y \in S \ {x} : g[y] \in Int
  BY FS_Subset
<1>6. SumFunctionOnSet(g, S \ {x}) \in Int
  BY <1>5, SumType
<1> QED BY <1>1, <1>3, <1>4, <1>6

\* ... or last, ...
LEMMA SumAdd ==
  ASSUME NEW S, IsFiniteSet(S), NEW x, x \notin S, NEW g, \A y \in S \cup {x} : g[y] \in Int
  PROVE  SumFunctionOnSet(g, S \cup {x}) = g[x] + SumFunctionOnSet(g, S)
<1>1. IsFiniteSet(S \cup {x}) /\ x \in S \cup {x} /\ (S \cup {x}) \ {x} = S
  BY FS_AddElement
<1> QED BY <1>1, SumTake

\* ... and in parts.
LEMMA SumUnion ==
  ASSUME NEW S, IsFiniteSet(S), NEW R \in SUBSET S, NEW g, \A x \in S : g[x] \in Int
  PROVE  SumFunctionOnSet(g, S) = SumFunctionOnSet(g, R) + SumFunctionOnSet(g, S \ R)
<1> DEFINE F == {s \in SUBSET R : SumFunctionOnSet(g, s \cup (S \ R))
                    = SumFunctionOnSet(g, s) + SumFunctionOnSet(g, S \ R)}
<1>1. IsFiniteSet(R) /\ IsFiniteSet(S \ R)
  BY FS_Subset
<1>2. {} \in F
  <2>1. SumFunctionOnSet(g, {}) = 0 /\ SumFunctionOnSet(g, S \ R) \in Int
    BY <1>1, SumEmpty, SumType
  <2>2. {} \cup (S \ R) = S \ R
    OBVIOUS
  <2> QED BY <2>1, <2>2
<1>3. ASSUME NEW s \in SUBSET R, NEW x \in s, s \ {x} \in F PROVE s \in F
  <2>1. IsFiniteSet(s) /\ IsFiniteSet(s \cup (S \ R)) /\ s \subseteq S /\ s \cup (S \ R) \subseteq S
    BY <1>1, FS_Subset
  <2>2. SumFunctionOnSet(g, s) = g[x] + SumFunctionOnSet(g, s \ {x})
    BY <2>1, SumTake
  <2>3. x \in s \cup (S \ R) /\ (s \cup (S \ R)) \ {x} = (s \ {x}) \cup (S \ R)
    OBVIOUS
  <2>4. SumFunctionOnSet(g, s \cup (S \ R)) = g[x] + SumFunctionOnSet(g, (s \ {x}) \cup (S \ R))
    BY <2>1, <2>3, SumTake
  <2>5. /\ SumFunctionOnSet(g, s \ {x}) \in Int /\ SumFunctionOnSet(g, S \ R) \in Int
        /\ g[x] \in Int
    BY <1>1, <2>1, FS_Subset, SumType
  <2> QED BY <1>3, <2>2, <2>4, <2>5
<1>4. R \in F
  <2> HIDE DEF F
  <2> QED BY <1>1, <1>2, <1>3, SubsetSteps
<1>5. R \cup (S \ R) = S
  OBVIOUS
<1> QED BY <1>4, <1>5

\* Nothing adds up to nothing.
LEMMA SumOfZeros ==
  ASSUME NEW S, IsFiniteSet(S), NEW g, \A x \in S : g[x] = 0
  PROVE  SumFunctionOnSet(g, S) = 0
<1> DEFINE F == {s \in SUBSET S : SumFunctionOnSet(g, s) = 0}
<1>1. {} \in F
  BY SumEmpty
<1>2. ASSUME NEW s \in SUBSET S, NEW x \in s, s \ {x} \in F PROVE s \in F
  <2>1. SumFunctionOnSet(g, s) = g[x] + SumFunctionOnSet(g, s \ {x})
    BY FS_Subset, SumTake
  <2> QED BY <1>2, <2>1
<1>3. \A s \in SUBSET S : s \in F
  <2> HIDE DEF F
  <2> QED BY <1>1, <1>2, SubsetSteps
<1> QED BY <1>3

\* Larger terms have a larger sum.
LEMMA SumAtMost ==
  ASSUME NEW S, IsFiniteSet(S), NEW g, \A x \in S : g[x] \in Int,
         NEW h, \A x \in S : h[x] \in Int /\ g[x] <= h[x]
  PROVE  SumFunctionOnSet(g, S) <= SumFunctionOnSet(h, S)
<1> DEFINE F == {s \in SUBSET S : SumFunctionOnSet(g, s) <= SumFunctionOnSet(h, s)}
<1>1. {} \in F
  BY SumEmpty
<1>2. ASSUME NEW s \in SUBSET S, NEW x \in s, s \ {x} \in F PROVE s \in F
  <2>0. IsFiniteSet(s) /\ IsFiniteSet(s \ {x})
    BY FS_Subset
  <2>1. /\ SumFunctionOnSet(g, s) = g[x] + SumFunctionOnSet(g, s \ {x})
        /\ SumFunctionOnSet(h, s) = h[x] + SumFunctionOnSet(h, s \ {x})
    BY <2>0, SumTake
  <2>2. SumFunctionOnSet(g, s \ {x}) \in Int /\ SumFunctionOnSet(h, s \ {x}) \in Int
    BY <2>0, SumType
  <2>3. g[x] \in Int /\ h[x] \in Int /\ g[x] <= h[x]
    OBVIOUS
  <2> QED BY <1>2, <2>1, <2>2, <2>3
<1>3. \A s \in SUBSET S : s \in F
  <2> HIDE DEF F
  <2> QED BY <1>1, <1>2, SubsetSteps
<1> QED BY <1>3

\* Numbers may be counted under keys: key by key they add up to the same.
LEMMA SumByKeys ==
  ASSUME NEW S, IsFiniteSet(S), NEW g, \A x \in S : g[x] \in Int,
         NEW K, IsFiniteSet(K), NEW key, \A x \in S : key[x] \in K,
         NEW t, \A k \in K : t[k] = SumFunctionOnSet(g, {x \in S : key[x] = k})
  PROVE  SumFunctionOnSet(t, K) = SumFunctionOnSet(g, S)
<1> DEFINE With(s, k) == {x \in s : key[x] = k}
           Under(s) == [k \in K |-> SumFunctionOnSet(g, With(s, k))]
           F == {s \in SUBSET S : SumFunctionOnSet(Under(s), K) = SumFunctionOnSet(g, s)}
<1>1. \A s \in SUBSET S : /\ IsFiniteSet(s) /\ \A x \in s : g[x] \in Int
                          /\ \A k \in K : IsFiniteSet(With(s, k)) /\ With(s, k) \in SUBSET s
  BY FS_Subset
<1>2. \A s \in SUBSET S : \A k \in K : SumFunctionOnSet(g, With(s, k)) \in Int
  <2> SUFFICES ASSUME NEW s \in SUBSET S, NEW k \in K
               PROVE  SumFunctionOnSet(g, With(s, k)) \in Int
    OBVIOUS
  <2>1. IsFiniteSet(With(s, k)) /\ \A x \in With(s, k) : g[x] \in Int
    BY <1>1
  <2> HIDE DEF With
  <2> QED BY <2>1, SumType
<1>3. {} \in F
  <2>1. \A k \in K : With({}, k) = {}
    OBVIOUS
  <2>2. \A k \in K : Under({})[k] = 0
    BY <2>1, SumEmpty
  <2>3. SumFunctionOnSet(Under({}), K) = 0
    <3> HIDE DEF Under
    <3> QED BY <2>2, SumOfZeros
  <2> QED BY <2>3, SumEmpty
<1>4. ASSUME NEW s \in SUBSET S, NEW x \in s, s \ {x} \in F PROVE s \in F
  <2> DEFINE u == Under(s)  v == Under(s \ {x})  c == key[x]
  <2>1. c \in K /\ g[x] \in Int
    OBVIOUS
  <2>2. \A k \in K : u[k] \in Int /\ v[k] \in Int
    <3>1. s \ {x} \in SUBSET S
      OBVIOUS
    <3> HIDE DEF With
    <3> QED BY <1>2, <3>1
  <2>3. \A k \in K \ {c} : u[k] = v[k]
    <3>1. \A k \in K \ {c} : With(s, k) = With(s \ {x}, k)
      OBVIOUS
    <3> HIDE DEF With
    <3> QED BY <3>1
  <2>4. u[c] = g[x] + v[c]
    <3>1. x \in With(s, c) /\ With(s, c) \ {x} = With(s \ {x}, c)
      OBVIOUS
    <3>2. IsFiniteSet(With(s, c)) /\ \A y \in With(s, c) : g[y] \in Int
      BY <1>1, <2>1
    <3> HIDE DEF With
    <3>3. SumFunctionOnSet(g, With(s, c)) = g[x] + SumFunctionOnSet(g, With(s, c) \ {x})
      BY <3>1, <3>2, SumTake
    <3>4. u[c] = SumFunctionOnSet(g, With(s, c)) /\ v[c] = SumFunctionOnSet(g, With(s \ {x}, c))
      BY <2>1
    <3> QED BY <3>1, <3>3, <3>4
  <2>5. SumFunctionOnSet(g, s) = g[x] + SumFunctionOnSet(g, s \ {x})
    BY <1>1, SumTake
  <2>6. SumFunctionOnSet(g, s \ {x}) = SumFunctionOnSet(v, K)
    BY <1>4
  <2> HIDE DEF u, v, c
  <2>7. /\ SumFunctionOnSet(u, K) = u[c] + SumFunctionOnSet(u, K \ {c})
        /\ SumFunctionOnSet(v, K) = v[c] + SumFunctionOnSet(v, K \ {c})
    BY <2>1, <2>2, SumTake
  <2>8. IsFiniteSet(K \ {c}) /\ (\A k \in K \ {c} : v[k] \in Int)
    BY <2>2, FS_Subset
  <2>9. SumFunctionOnSet(u, K \ {c}) = SumFunctionOnSet(v, K \ {c})
    BY <2>8, <2>3, SumSame
  <2>10. SumFunctionOnSet(v, K \ {c}) \in Int /\ v[c] \in Int
    BY <2>1, <2>2, <2>8, SumType
  <2>11. SumFunctionOnSet(u, K) = SumFunctionOnSet(g, s)
    BY <2>1, <2>4, <2>5, <2>6, <2>7, <2>9, <2>10
  <2> QED BY <2>11 DEF u
<1>5. SumFunctionOnSet(Under(S), K) = SumFunctionOnSet(g, S)
  <2>1. \A s \in SUBSET S : s \in F
    <3> HIDE DEF F
    <3> QED BY <1>3, <1>4, SubsetSteps
  <2>2. S \in F
    <3> HIDE DEF F
    <3> QED BY <2>1
  <2> QED BY <2>2
<1>6. SumFunctionOnSet(t, K) = SumFunctionOnSet(Under(S), K)
  <2>1. \A k \in K : t[k] = Under(S)[k] /\ Under(S)[k] \in Int
    <3> HIDE DEF With
    <3>1. S \in SUBSET S
      OBVIOUS
    <3>2. \A k \in K : t[k] = SumFunctionOnSet(g, With(S, k))
      BY DEF With
    <3> QED BY <1>2, <3>1, <3>2
  <2> HIDE DEF Under
  <2> QED BY <2>1, SumSame
<1> QED BY <1>5, <1>6

\* The elements with a key.
Keyed(S, key, k) == {x \in S : key[x] = k}

\* A sum is the sum of the sums of each key.
LEMMA SumByKeyed ==
  ASSUME NEW S, IsFiniteSet(S), NEW g, \A x \in S : g[x] \in Int,
         NEW K, IsFiniteSet(K), NEW key, \A x \in S : key[x] \in K,
         NEW t, \A k \in K : t[k] = SumFunctionOnSet(g, Keyed(S, key, k))
  PROVE  SumFunctionOnSet(t, K) = SumFunctionOnSet(g, S)
<1>1. ASSUME NEW k \in K PROVE t[k] = SumFunctionOnSet(g, {x \in S : key[x] = k})
  BY DEF Keyed
<1> QED BY <1>1, SumByKeys

\* Adding one number as often as the set has elements multiplies it.
LEMMA SumOfSame ==
  ASSUME NEW S, IsFiniteSet(S), NEW v \in Int, NEW g, \A x \in S : g[x] = v
  PROVE  SumFunctionOnSet(g, S) = Cardinality(S) * v
<1> DEFINE F == {s \in SUBSET S : SumFunctionOnSet(g, s) = Cardinality(s) * v}
<1>1. {} \in F
  <2>1. Cardinality({}) = 0 /\ 0 * v = 0
    BY FS_EmptySet
  <2> QED BY <2>1, SumEmpty
<1>2. ASSUME NEW s \in SUBSET S, NEW x \in s, s \ {x} \in F PROVE s \in F
  <2>0. IsFiniteSet(s) /\ IsFiniteSet(s \ {x}) /\ \A y \in s : g[y] \in Int
    BY FS_Subset
  <2>1. SumFunctionOnSet(g, s) = g[x] + SumFunctionOnSet(g, s \ {x})
    BY <2>0, SumTake
  <2>2. PICK k \in Nat : k = Cardinality(s \ {x})
    BY <2>0, FS_CardinalityType
  <2>3. Cardinality(s) = k + 1
    <3>1. (s \ {x}) \cup {x} = s /\ x \notin s \ {x}
      OBVIOUS
    <3> QED BY <2>0, <2>2, <3>1, FS_AddElement
  <2>4. SumFunctionOnSet(g, s) = v + k * v
    BY <1>2, <2>1, <2>2
  <2>5. v + k * v = (k + 1) * v
    OBVIOUS
  <2> QED BY <2>3, <2>4, <2>5
<1>3. \A s \in SUBSET S : s \in F
  <2> HIDE DEF F
  <2> QED BY <1>1, <1>2, SubsetSteps
<1> QED BY <1>3

(***************************************************************************)
(* Sums over sequences                                                     *)
(***************************************************************************)

\* The largest of some numbers up to n.
LEMMA Largest ==
  ASSUME NEW n \in Nat, NEW T \in SUBSET (0..n), T # {}
  PROVE  \E k \in T : \A j \in T : j <= k
<1> DEFINE U == {n - k : k \in T}
<1>1. U \in SUBSET Nat /\ U # {}
  <2>1. \A k \in T : n - k \in Nat
    OBVIOUS
  <2>2. U \subseteq Nat
    BY <2>1
  <2> QED BY <2>2
<1>2. PICK u \in U : \A v \in U : u <= v
  BY <1>1, NatLeast
<1>3. PICK k \in T : u = n - k
  BY <1>2
<1>4. ASSUME NEW j \in T PROVE j <= k
  <2>1. n - j \in U /\ j \in Int /\ k \in Int
    OBVIOUS
  <2> QED BY <1>2, <1>3, <2>1
<1> QED BY <1>4

\* Max is the largest of some indexes.
LEMMA MaxIsIn ==
  ASSUME NEW n \in Nat, NEW T \in SUBSET (1..n), T # {}
  PROVE  Max(T) \in T /\ \A j \in T : j <= Max(T)
<1>1. PICK k \in T : \A j \in T : j <= k
  <2>1. T \in SUBSET (0..n)
    OBVIOUS
  <2> QED BY <2>1, Largest
<1>2. \A j \in T : k >= j
  BY <1>1
<1>3. Max(T) \in T /\ \A j \in T : Max(T) >= j
  BY <1>2 DEF Max
<1>4. \A j \in T : j \in Int
  OBVIOUS
<1> QED BY <1>3, <1>4

\* The choice of the folds over sequences.
LastIndex(D) == [s \in SUBSET D |-> Max(s)]

LEMMA LastIndexIsIn ==
  ASSUME NEW n \in Nat
  PROVE  Chooses(LastIndex(1..n), 1..n)
BY MaxIsIn DEF LastIndex, Chooses

\* Folding with + from the left adds the sum.
LEMMA FoldLeftSums ==
  ASSUME NEW seq, NEW n \in Nat, DOMAIN seq = 1..n, \A i \in 1..n : seq[i] \in Int
  PROVE  FoldLeft(+, 0, seq) = SumFunctionOnSet(seq, 1..n)
<1> DEFINE it == CHOOSE it : it = [s \in SUBSET DOMAIN seq |-> IF s = {} THEN 0
                                     ELSE it[s \ {Max(s)}] + seq[Max(s)]]
<1>0. IsFiniteSet(1..n) /\ Chooses(LastIndex(1..n), 1..n)
  BY LastIndexIsIn, FS_Interval
<1>1. PICK zero \in Int : zero = 0
  OBVIOUS
<1>2. PICK f : FoldStep(f, 1..n, seq, LastIndex(1..n), zero)
  BY <1>0, FoldExists
<1>3. \A s \in SUBSET (1..n) : f[s] \in Int
  BY <1>0, <1>2, FoldAnyFirst DEF TakesAny
<1>4. f = [s \in SUBSET DOMAIN seq |-> IF s = {} THEN 0
                                     ELSE f[s \ {Max(s)}] + seq[Max(s)]]
  <2>1. f = [s \in SUBSET (1..n) |-> f[s]]
    BY <1>2 DEF FoldStep
  <2>2. ASSUME NEW s \in SUBSET (1..n), s # {} PROVE f[s] = f[s \ {Max(s)}] + seq[Max(s)]
    <3>1. f[s] = seq[Max(s)] + f[s \ {Max(s)}]
      BY <1>2, <2>2 DEF FoldStep, LastIndex
    <3>2. PICK m \in s : m = Max(s)
      BY <2>2, MaxIsIn
    <3>3. PICK t \in SUBSET (1..n) : t = s \ {m}
      OBVIOUS
    <3>4. seq[m] \in Int /\ f[t] \in Int
      BY <1>3
    <3> QED BY <3>1, <3>2, <3>3, <3>4
  <2>3. f[{}] = 0
    BY <1>1, <1>2 DEF FoldStep
  <2> QED BY <2>1, <2>2, <2>3
<1>5. it = [s \in SUBSET DOMAIN seq |-> IF s = {} THEN 0
                                     ELSE it[s \ {Max(s)}] + seq[Max(s)]]
  BY <1>4
<1>6. FoldLeft(+, 0, seq) = it[DOMAIN seq]
  BY DEF FoldLeft, MapThenFoldSet
<1> HIDE DEF it
<1>7. \A s \in SUBSET (1..n) : it[s] \in Int
  <2> DEFINE F == {s \in SUBSET (1..n) : it[s] \in Int}
  <2>1. {} \in F
    BY <1>5
  <2>2. ASSUME NEW s \in SUBSET (1..n), s # {}, \A x \in s : s \ {x} \in F PROVE s \in F
    <3>1. PICK m \in s : m = Max(s)
      BY <2>2, MaxIsIn
    <3>2. it[s] = it[s \ {m}] + seq[m]
      BY <1>5, <2>2, <3>1
    <3>3. seq[m] \in Int /\ it[s \ {m}] \in Int
      BY <2>2
    <3> QED BY <3>2, <3>3
  <2>3. \A s \in SUBSET (1..n) : s \in F
    <3> HIDE DEF F
    <3>1. \A s \in SUBSET (1..n) : s # {} /\ (\A x \in s : s \ {x} \in F) => s \in F
      BY <2>2
    <3>2. IsFiniteSet(1..n)
      BY <1>0
    <3> QED BY ONLY <2>1, <3>1, <3>2, SubsetStepsAll
  <2> QED BY <2>3
<1>8. FoldStep(it, 1..n, seq, LastIndex(1..n), zero)
  <2>1. it = [s \in SUBSET (1..n) |-> it[s]]
    BY <1>5
  <2>2. ASSUME NEW s \in SUBSET (1..n), s # {} PROVE it[s] = seq[Max(s)] + it[s \ {Max(s)}]
    <3>1. it[s] = it[s \ {Max(s)}] + seq[Max(s)]
      BY <1>5, <2>2
    <3>2. PICK m \in s : m = Max(s)
      BY <2>2, MaxIsIn
    <3>3. PICK t \in SUBSET (1..n) : t = s \ {m}
      OBVIOUS
    <3>4. seq[m] \in Int /\ it[t] \in Int
      BY <1>7
    <3> QED BY <3>1, <3>2, <3>3, <3>4
  <2>3. it[{}] = zero
    BY <1>1, <1>5
  <2> QED BY <2>1, <2>2, <2>3 DEF FoldStep, LastIndex
<1>9. it[1..n] = zero + SumFunctionOnSet(seq, 1..n)
  BY <1>0, <1>8, FoldSums
<1>10. SumFunctionOnSet(seq, 1..n) \in Int
  BY <1>0, SumType
<1>11. FoldLeft(+, 0, seq) = it[1..n]
  BY <1>6
<1>12. it[1..n] = SumFunctionOnSet(seq, 1..n)
  BY <1>1, <1>9, <1>10
<1> QED BY <1>11, <1>12, Zenon

(***************************************************************************)
(* Division                                                                *)
(***************************************************************************)

LEMMA DivFacts ==
  ASSUME NEW n \in Int, NEW d \in Nat \ {0}
  PROVE  /\ n \div d \in Int /\ n % d \in Int
         /\ n = d * (n \div d) + (n % d)
         /\ 0 <= n % d /\ n % d < d
OBVIOUS

LEMMA DivAtLeast ==
  ASSUME NEW n \in Int, NEW d \in Nat \ {0}, NEW k \in Int, d * k <= n
  PROVE  k <= n \div d
OBVIOUS

LEMMA DivNat ==
  ASSUME NEW n \in Nat, NEW d \in Nat \ {0}
  PROVE  n \div d \in Nat
OBVIOUS

LEMMA FactorOrder ==
  ASSUME NEW a \in Int, NEW b \in Int, NEW d \in Nat \ {0}, d * a < d * b
  PROVE  a < b
OBVIOUS

(***************************************************************************)
(* The balance of an account                                               *)
(***************************************************************************)

\* The sum of one term is that term.
LEMMA SumOfOne ==
  ASSUME NEW x, NEW g, g[x] \in Int
  PROVE  SumFunctionOnSet(g, {x}) = g[x]
<1>1. IsFiniteSet({x}) /\ \A y \in {x} : g[y] \in Int
  BY FS_Singleton
<1>2. x \in {x} /\ {x} \ {x} = {}
  OBVIOUS
<1>3. SumFunctionOnSet(g, {x}) = g[x] + SumFunctionOnSet(g, {x} \ {x})
  BY <1>1, <1>2, SumTake
<1> QED BY <1>2, <1>3, SumEmpty

\* A sum is the same under other names of its terms.
LEMMA SumReindexed ==
  ASSUME NEW N, IsFiniteSet(N), NEW K, IsFiniteSet(K), NEW f, \A k \in K : f[k] \in Int,
         NEW mv, \A n \in N : mv[n] \in K, \A n, m \in N : mv[n] = mv[m] => n = m,
         \A k \in K : \E n \in N : mv[n] = k,
         NEW g, \A n \in N : g[n] = f[mv[n]]
  PROVE  SumFunctionOnSet(g, N) = SumFunctionOnSet(f, K)
<1>1. \A n \in N : g[n] \in Int
  OBVIOUS
<1>2. ASSUME NEW k \in K PROVE f[k] = SumFunctionOnSet(g, Keyed(N, mv, k))
  <2>1. PICK n \in N : mv[n] = k
    OBVIOUS
  <2>2. Keyed(N, mv, k) = {n} /\ g[n] = f[k] /\ g[n] \in Int
    BY <2>1 DEF Keyed
  <2> QED BY <2>2, SumOfOne
<1>3. SumFunctionOnSet(f, K) = SumFunctionOnSet(g, N)
  BY <1>1, <1>2, SumByKeyed
<1> QED BY <1>3

\* Only what is counted counts.
LEMMA SumWhere ==
  ASSUME NEW S, IsFiniteSet(S), NEW R \in SUBSET S, NEW g, \A x \in S : g[x] \in Int,
         \A x \in S \ R : g[x] = 0
  PROVE  SumFunctionOnSet(g, S) = SumFunctionOnSet(g, R)
<1>1. IsFiniteSet(R) /\ IsFiniteSet(S \ R)
  BY FS_Subset
<1>2. SumFunctionOnSet(g, S \ R) = 0
  BY <1>1, SumOfZeros
<1>3. SumFunctionOnSet(g, R) \in Int
  BY <1>1, SumType
<1>4. SumFunctionOnSet(g, S) = SumFunctionOnSet(g, R) + SumFunctionOnSet(g, S \ R)
  BY SumUnion
<1> QED BY <1>2, <1>3, <1>4

\* The movement of each row, and its signed amount.
BalanceMoves == [n \in DOMAIN ledger |-> ledger[n].movement]
Amounts == [n \in DOMAIN ledger |-> Signed[ledger[n].movement]]

\* What a row of the ledger is made of.
LEMMA RowFacts ==
  ASSUME LedgerFiguresTypeOK
  PROVE  /\ Len(ledger) \in Nat /\ DOMAIN ledger = 1..Len(ledger)
         /\ \A n \in DOMAIN ledger :
              /\ ledger[n].movement \in 1..Len(Days) /\ ledger[n].stated \in BOOLEAN
              /\ Signed[ledger[n].movement] \in Int /\ DayOf(ledger[n]) \in Nat
         /\ \A k \in 1..Len(Days) : Signed[k] \in Int
         /\ Len(Days) \in Nat
<1>1. /\ Len(Days) \in Nat /\ Len(ledger) \in Nat /\ DOMAIN ledger = 1..Len(ledger)
      /\ DOMAIN Days = 1..Len(Days) /\ DOMAIN Signed = 1..Len(Days)
  BY MovementsAssumption DEF LedgerFiguresTypeOK
<1>2. \A k \in 1..Len(Days) : Signed[k] \in Int /\ Days[k] \in Nat
  BY <1>1, MovementsAssumption
<1>3. ASSUME NEW n \in DOMAIN ledger
      PROVE  ledger[n].movement \in 1..Len(Days) /\ ledger[n].stated \in BOOLEAN
  <2>1. ledger[n] \in LedgerRow
    BY DEF LedgerFiguresTypeOK
  <2> QED BY <1>1, <2>1 DEF LedgerRow, Movements
<1> QED BY <1>1, <1>2, <1>3 DEF DayOf

\* The balance after a movement is the sum of all up to it.
LEMMA RunningSum ==
  ASSUME NEW k \in 0..Len(Days)
  PROVE  Running(k) = SumFunctionOnSet(Signed, 1..k)
<1> DEFINE part == SubSeq(Signed, 1, k)
<1>1. /\ k \in Nat /\ DOMAIN part = 1..k /\ \A i \in 1..k : part[i] = Signed[i]
      /\ \A i \in 1..k : part[i] \in Int
  BY MovementsAssumption
<1> HIDE DEF part
<1>2. FoldLeft(+, 0, part) = SumFunctionOnSet(part, 1..k)
  BY <1>1, FoldLeftSums
<1>3. SumFunctionOnSet(part, 1..k) = SumFunctionOnSet(Signed, 1..k)
  <2>1. IsFiniteSet(1..k)
    BY <1>1, FS_Interval
  <2>2. \A i \in 1..k : Signed[i] \in Int
    BY <1>1
  <2> QED BY <1>1, <2>1, <2>2, SumSame
<1>4. Running(k) = FoldLeft(+, 0, part)
  BY DEF Running, part
<1> QED BY <1>2, <1>3, <1>4, Zenon

\* The rows with a stated balance, those current_balance adds to the last of them, and
\* what it starts from.
Stated == {n \in DOMAIN ledger : ledger[n].stated}
Counted == IF Stated = {} THEN DOMAIN ledger
                          ELSE {n \in DOMAIN ledger : Newer(n, Anchor(Stated))}
Start == IF Stated = {} THEN 0 ELSE Running(ledger[Anchor(Stated)].movement)

\* current_balance starts from the last stated balance and adds the rows after it.
LEMMA BalanceSum ==
  ASSUME LedgerFiguresTypeOK, Start \in Int
  PROVE  CurrentBalance = Start + SumFunctionOnSet(Amounts, Counted)
<1> DEFINE rows == [i \in DOMAIN ledger |-> i]
           N == DOMAIN ledger
           it == CHOOSE it : it = [s \in SUBSET DOMAIN rows |-> IF s = {} THEN Start
                   ELSE IF rows[Max(s)] \in Counted
                          THEN it[s \ {Max(s)}] + Signed[ledger[rows[Max(s)]].movement]
                          ELSE it[s \ {Max(s)}]]
           g == [n \in DOMAIN ledger |-> IF n \in Counted THEN Amounts[n] ELSE 0]
<1>0. /\ IsFiniteSet(N) /\ N = 1..Len(ledger) /\ Len(ledger) \in Nat
      /\ Chooses(LastIndex(N), N)
  BY RowFacts, LastIndexIsIn, FS_Interval
<1>1. /\ \A n \in N : g[n] \in Int /\ Amounts[n] \in Int
      /\ \A n \in N : g[n] = IF n \in Counted THEN Signed[ledger[n].movement] ELSE 0
      /\ \A n \in N : n \in Counted => g[n] = Amounts[n]
      /\ Counted \in SUBSET N
  BY RowFacts DEF Amounts, Counted
<1>2. CurrentBalance = it[DOMAIN rows]
  BY DEF CurrentBalance, FoldLeftDomain, FoldLeft, MapThenFoldSet, Counted, Start, Stated
<1>3. DOMAIN rows = N /\ \A i \in N : rows[i] = i
  OBVIOUS
<1> HIDE DEF rows
<1>4. PICK f : FoldStep(f, N, g, LastIndex(N), Start)
  <2> HIDE DEF g, N
  <2> QED BY <1>0, <1>1, FoldExists
<1>5. \A s \in SUBSET N : f[s] \in Int
  <2> HIDE DEF g, N
  <2>1. TakesAny(f, g, N)
    BY <1>0, <1>1, <1>4, FoldAnyFirst
  <2> QED BY <2>1, TakesInt
<1>6. \A s \in SUBSET N : s # {} => Max(s) \in s
  BY <1>0, MaxIsIn
<1> HIDE DEF N
<1>7. f = [s \in SUBSET DOMAIN rows |-> IF s = {} THEN Start
                   ELSE IF rows[Max(s)] \in Counted
                          THEN f[s \ {Max(s)}] + Signed[ledger[rows[Max(s)]].movement]
                          ELSE f[s \ {Max(s)}]]
  <2> HIDE DEF g
  <2>1. f = [s \in SUBSET N |-> f[s]]
    BY <1>4 DEF FoldStep
  <2>2. ASSUME NEW s \in SUBSET N, s # {}
        PROVE  f[s] = IF rows[Max(s)] \in Counted
                        THEN f[s \ {Max(s)}] + Signed[ledger[rows[Max(s)]].movement]
                        ELSE f[s \ {Max(s)}]
    <3>1. PICK m \in s : m = Max(s)
      BY <1>6, <2>2
    <3>2. PICK t \in SUBSET N : t = s \ {m}
      OBVIOUS
    <3>3. f[s] = g[m] + f[t]
      BY <1>4, <2>2, <3>1, <3>2 DEF FoldStep, LastIndex
    <3>4. f[t] \in Int /\ g[m] \in Int /\ rows[m] = m
      BY <1>1, <1>3, <1>5
    <3>5. f[s] = IF m \in Counted THEN f[t] + Signed[ledger[m].movement] ELSE f[t]
      BY <1>1, <3>3, <3>4
    <3> QED BY <3>1, <3>2, <3>4, <3>5
  <2>3. f[{}] = Start
    BY <1>4 DEF FoldStep
  <2> QED BY <1>3, <2>1, <2>2, <2>3
<1>8. it = [s \in SUBSET DOMAIN rows |-> IF s = {} THEN Start
                   ELSE IF rows[Max(s)] \in Counted
                          THEN it[s \ {Max(s)}] + Signed[ledger[rows[Max(s)]].movement]
                          ELSE it[s \ {Max(s)}]]
  BY <1>7
<1> HIDE DEF it, g
<1>9. it = f
  <2> DEFINE F == {s \in SUBSET N : it[s] = f[s]}
  <2>1. {} \in F
    BY <1>7, <1>8
  <2>2. ASSUME NEW s \in SUBSET N, s # {}, \A x \in s : s \ {x} \in F PROVE s \in F
    <3>1. PICK m \in s : m = Max(s)
      BY <1>6, <2>2
    <3>2. s \in SUBSET DOMAIN rows
      BY <1>3
    <3>3. /\ it[s] = IF rows[m] \in Counted THEN it[s \ {m}] + Signed[ledger[rows[m]].movement] ELSE it[s \ {m}]
          /\ f[s] = IF rows[m] \in Counted THEN f[s \ {m}] + Signed[ledger[rows[m]].movement] ELSE f[s \ {m}]
      BY <1>7, <1>8, <2>2, <3>1, <3>2
    <3>4. it[s \ {m}] = f[s \ {m}]
      BY <2>2
    <3> QED BY <3>3, <3>4
  <2>3. \A s \in SUBSET N : s \in F
    <3> HIDE DEF F
    <3>1. \A s \in SUBSET N : s # {} /\ (\A x \in s : s \ {x} \in F) => s \in F
      BY <2>2
    <3>2. IsFiniteSet(N)
      BY <1>0
    <3> QED BY ONLY <2>1, <3>1, <3>2, SubsetStepsAll
  <2>4. \A s \in SUBSET DOMAIN rows : it[s] = f[s]
    BY <1>3, <2>3
  <2>5. it = [s \in SUBSET DOMAIN rows |-> it[s]] /\ f = [s \in SUBSET DOMAIN rows |-> f[s]]
    BY <1>7, <1>8
  <2> QED BY <2>4, <2>5
<1>10. f[N] = Start + SumFunctionOnSet(g, N)
  BY <1>0, <1>1, <1>4, FoldSums
<1>11. SumFunctionOnSet(g, N) = SumFunctionOnSet(g, Counted)
  <2>1. \A n \in N \ Counted : g[n] = 0
    BY <1>1
  <2> QED BY <1>0, <1>1, <2>1, SumWhere
<1>12. SumFunctionOnSet(g, Counted) = SumFunctionOnSet(Amounts, Counted)
  <2>1. IsFiniteSet(Counted) /\ \A n \in Counted : g[n] = Amounts[n] /\ Amounts[n] \in Int
    BY <1>0, <1>1, FS_Subset
  <2> QED BY <2>1, SumSame
<1> QED BY <1>2, <1>3, <1>9, <1>10, <1>11, <1>12

\* When rows are recorded in the order of their days, the newer row is of the later movement.
LEMMA NewerIsLater ==
  ASSUME LedgerFiguresTypeOK, DaysInOrder,
         NEW n \in DOMAIN ledger, NEW m \in DOMAIN ledger, n # m
  PROVE  Newer(n, m) <=> ledger[m].movement < ledger[n].movement
<1> DEFINE a == ledger[n].movement  b == ledger[m].movement
<1>1. a \in Movements /\ b \in Movements /\ Movements = 1..Len(Days)
  BY RowFacts, MovementsAssumption DEF Movements
<1>2. n \in Nat /\ m \in Nat /\ Days[a] \in Nat /\ Days[b] \in Nat /\ a \in Nat /\ b \in Nat
  BY <1>1, RowFacts DEF DayOf
<1>3. (a < b => Days[a] <= Days[b]) /\ (b < a => Days[b] <= Days[a])
  BY <1>1, MovementsAssumption
<1>4. Days[a] = Days[b] => (n < m => a < b) /\ (m < n => b < a)
  BY DEF DaysInOrder, DayOf
<1>5. Newer(n, m) <=> Days[a] > Days[b] \/ (Days[a] = Days[b] /\ n > m)
  BY DEF Newer, DayOf
<1> HIDE DEF a, b
<1>6. Newer(n, m) <=> b < a
  BY <1>2, <1>3, <1>4, <1>5
<1> QED BY <1>6 DEF a, b

\* When they are recorded in this order, no movement has two rows.
LEMMA MovementsApart ==
  ASSUME DaysInOrder, LedgerFiguresTypeOK, NEW n \in DOMAIN ledger, NEW m \in DOMAIN ledger,
         ledger[n].movement = ledger[m].movement
  PROVE  n = m
<1>1. n \in Nat /\ m \in Nat /\ ledger[n].movement \in Int
  BY RowFacts
<1>2. n < m => ledger[n].movement < ledger[m].movement
  BY DEF DaysInOrder, DayOf
<1>3. m < n => ledger[m].movement < ledger[n].movement
  BY DEF DaysInOrder, DayOf
<1> QED BY <1>1, <1>2, <1>3

\* The last of some movements is one of them.
LEMMA LastOfFacts ==
  ASSUME NEW n \in Nat, NEW T \in SUBSET (0..n), T # {}
  PROVE  LastOf(T) \in T /\ \A j \in T : j <= LastOf(T)
<1>1. \E k \in T : \A j \in T : j <= k
  BY Largest
<1> QED BY <1>1 DEF LastOf

\* The last stated balance is that of the last movement with one.
LEMMA AnchorFacts ==
  ASSUME LedgerFiguresTypeOK, DaysInOrder, Stated # {}
  PROVE  /\ Anchor(Stated) \in Stated
         /\ \A m \in Stated : ledger[m].movement <= ledger[Anchor(Stated)].movement
<1> DEFINE T == {ledger[n].movement : n \in Stated}
<1>1. T \in SUBSET (0..Len(Days)) /\ T # {} /\ Len(Days) \in Nat
  BY RowFacts DEF Stated
<1>2. PICK k \in T : \A j \in T : j <= k
  BY <1>1, Largest
<1>3. PICK n \in Stated : ledger[n].movement = k
  BY <1>2
<1>4. ASSUME NEW m \in Stated \ {n} PROVE Newer(n, m)
  <2>1. n \in DOMAIN ledger /\ m \in DOMAIN ledger /\ n # m
    BY <1>4 DEF Stated
  <2>2. ledger[m].movement <= ledger[n].movement /\ ledger[m].movement # ledger[n].movement
    BY <1>2, <1>3, <2>1, MovementsApart
  <2>3. ledger[m].movement \in Int /\ ledger[n].movement \in Int
    BY <2>1, RowFacts
  <2> QED BY <2>1, <2>2, <2>3, NewerIsLater
<1>5. Anchor(Stated) \in Stated /\ \A m \in Stated \ {Anchor(Stated)} : Newer(Anchor(Stated), m)
  <2>1. \E c \in Stated : \A m \in Stated \ {c} : Newer(c, m)
    BY <1>4
  <2> QED BY <2>1 DEF Anchor
<1>6. ASSUME NEW m \in Stated PROVE ledger[m].movement <= ledger[Anchor(Stated)].movement
  <2>1. Anchor(Stated) \in DOMAIN ledger /\ m \in DOMAIN ledger
    BY <1>5 DEF Stated
  <2>2. ledger[m].movement \in Int /\ ledger[Anchor(Stated)].movement \in Int
    BY <2>1, RowFacts
  <2>3. CASE m = Anchor(Stated)
    BY <2>2, <2>3
  <2>4. CASE m # Anchor(Stated)
    <3>1. Newer(Anchor(Stated), m)
      BY <1>5, <2>4
    <3> QED BY <2>1, <2>2, <2>4, <3>1, NewerIsLater
  <2> QED BY <2>3, <2>4
<1> QED BY <1>5, <1>6

\* The rows that count are those of the movements after the last one stated.
LEMMA CountedFacts ==
  ASSUME LedgerFiguresTypeOK, DaysInOrder, ledger # <<>>
  PROVE  /\ LastStated \in 0..Len(Days) /\ LastOf(Recorded) \in 1..Len(Days)
         /\ LastStated <= LastOf(Recorded)
         /\ \A k \in Recorded : k \in 1..LastOf(Recorded)
         /\ Counted = {n \in DOMAIN ledger : LastStated < ledger[n].movement}
         /\ Start = Running(LastStated)
<1> DEFINE T == {ledger[n].movement : n \in Stated} \cup {0}
<1>1. Len(Days) \in Nat /\ T \in SUBSET (0..Len(Days)) /\ T # {}
  BY RowFacts DEF Stated
<1>2. LastStated = LastOf(T)
  BY DEF LastStated, Stated
<1>3. LastStated \in T /\ \A j \in T : j <= LastStated
  <2> HIDE DEF T
  <2> QED BY <1>1, <1>2, LastOfFacts
<1>4. Recorded \in SUBSET (0..Len(Days)) /\ Recorded # {} /\ Recorded \subseteq 1..Len(Days)
  <2>1. 1 \in DOMAIN ledger
    BY RowFacts, ledger # <<>> DEF LedgerFiguresTypeOK
  <2> QED BY <2>1, RowFacts DEF Recorded
<1>5. LastOf(Recorded) \in Recorded /\ \A j \in Recorded : j <= LastOf(Recorded)
  BY <1>1, <1>4, LastOfFacts
<1>6. LastStated <= LastOf(Recorded)
  <2>1. T \subseteq Recorded \cup {0}
    BY DEF Recorded, Stated
  <2>2. LastStated \in Recorded \/ LastStated = 0
    BY <1>3, <2>1
  <2>3. LastOf(Recorded) \in 1..Len(Days)
    BY <1>4, <1>5
  <2> QED BY <1>1, <1>5, <2>2, <2>3
<1>7. \A k \in Recorded : k \in 1..LastOf(Recorded)
  BY <1>1, <1>4, <1>5
<1>8. CASE Stated = {}
  <2>1. LastStated = 0
    BY <1>3, <1>8
  <2>2. Counted = DOMAIN ledger /\ Start = 0
    BY <1>8 DEF Counted, Start
  <2>3. Running(0) = 0
    <3>1. 0 \in 0..Len(Days) /\ 1..0 = {}
      BY <1>1
    <3>2. Running(0) = SumFunctionOnSet(Signed, 1..0)
      BY <3>1, RunningSum
    <3> QED BY <3>1, <3>2, SumEmpty
  <2>4. \A n \in DOMAIN ledger : 0 < ledger[n].movement
    BY RowFacts
  <2> QED BY <1>1, <1>3, <1>4, <1>5, <1>6, <1>7, <2>1, <2>2, <2>3, <2>4
<1>9. CASE Stated # {}
  <2>1. /\ Anchor(Stated) \in Stated
        /\ \A m \in Stated : ledger[m].movement <= ledger[Anchor(Stated)].movement
    BY <1>9, AnchorFacts
  <2>2. Anchor(Stated) \in DOMAIN ledger
    BY <2>1 DEF Stated
  <2>3. LastStated = ledger[Anchor(Stated)].movement
    <3>1. ledger[Anchor(Stated)].movement \in T /\ ledger[Anchor(Stated)].movement \in 1..Len(Days)
      BY <2>1, <2>2, RowFacts
    <3>2. \A j \in T : j <= ledger[Anchor(Stated)].movement
      BY <1>1, <2>1, <3>1
    <3> HIDE DEF T
    <3> QED BY <1>1, <1>3, <3>1, <3>2
  <2>4. ASSUME NEW n \in DOMAIN ledger
        PROVE  Newer(n, Anchor(Stated)) <=> LastStated < ledger[n].movement
    <3>1. CASE n = Anchor(Stated)
      <4>1. ~ Newer(n, n)
        BY RowFacts DEF Newer
      <4>2. ~ (LastStated < ledger[n].movement)
        BY <2>3, <3>1, RowFacts
      <4> QED BY <3>1, <4>1, <4>2
    <3>2. CASE n # Anchor(Stated)
      BY <2>2, <2>3, <3>2, NewerIsLater
    <3> QED BY <3>1, <3>2
  <2>5. Counted = {n \in DOMAIN ledger : LastStated < ledger[n].movement}
    BY <1>9, <2>4 DEF Counted
  <2>6. Start = Running(LastStated)
    BY <1>9, <2>3 DEF Start
  <2> QED BY <1>1, <1>3, <1>4, <1>5, <1>6, <1>7, <2>5, <2>6
<1> QED BY <1>8, <1>9

\* Whatever rows state a balance, what they leave open adds up to what the bank has.
LEMMA Balanced ==
  ASSUME LedgerFiguresTypeOK
  PROVE  BalanceAsStated
<1> SUFFICES ASSUME ledger # <<>>, DaysInOrder, NothingMissing
             PROVE  CurrentBalance = Running(LastOf(Recorded))
  BY DEF BalanceAsStated
<1> DEFINE A == LastStated  L == LastOf(Recorded)  after == (A + 1)..L
<1>1. /\ A \in 0..Len(Days) /\ L \in 1..Len(Days) /\ A <= L /\ Len(Days) \in Nat
      /\ \A k \in Recorded : k \in 1..L
      /\ Counted = {n \in DOMAIN ledger : A < ledger[n].movement}
      /\ Start = Running(A)
  BY CountedFacts, RowFacts
<1>2. Running(A) = SumFunctionOnSet(Signed, 1..A) /\ Running(L) = SumFunctionOnSet(Signed, 1..L)
  <2>1. L \in 0..Len(Days)
    BY <1>1
  <2> HIDE DEF A, L
  <2> QED BY <1>1, <2>1, RunningSum
<1>3. \A k \in 1..L : Signed[k] \in Int
  BY <1>1, RowFacts
<1>4. IsFiniteSet(1..L) /\ IsFiniteSet(1..A) /\ IsFiniteSet(after)
  <2> HIDE DEF A, L
  <2>1. A \in Int /\ L \in Int /\ A + 1 \in Int
    BY <1>1
  <2> QED BY <2>1, FS_Interval
<1>5. 1..A \in SUBSET (1..L) /\ (1..L) \ (1..A) = after
  <2> HIDE DEF A, L
  <2> QED BY <1>1
<1>6. SumFunctionOnSet(Signed, 1..L)
        = SumFunctionOnSet(Signed, 1..A) + SumFunctionOnSet(Signed, after)
  <2> HIDE DEF A, L, after
  <2>1. SumFunctionOnSet(Signed, 1..L)
        = SumFunctionOnSet(Signed, 1..A) + SumFunctionOnSet(Signed, (1..L) \ (1..A))
    BY <1>3, <1>4, <1>5, SumUnion
  <2> QED BY <1>5, <2>1
<1>7. Start \in Int
  <2>1. \A k \in 1..A : Signed[k] \in Int
    BY <1>3, <1>5
  <2>2. SumFunctionOnSet(Signed, 1..A) \in Int
    BY <1>4, <2>1, SumType
  <2> QED BY <1>1, <1>2, <2>2
<1>8. CurrentBalance = Start + SumFunctionOnSet(Amounts, Counted)
  BY <1>7, BalanceSum
<1>9. SumFunctionOnSet(Amounts, Counted) = SumFunctionOnSet(Signed, after)
  <2>1. Counted \subseteq DOMAIN ledger /\ IsFiniteSet(Counted)
    <3>1. IsFiniteSet(DOMAIN ledger)
      BY RowFacts, FS_Interval
    <3> QED BY <1>1, <3>1, FS_Subset
  <2>2. \A n \in Counted : BalanceMoves[n] \in after /\ Amounts[n] = Signed[BalanceMoves[n]]
    <3>1. \A n \in DOMAIN ledger : ledger[n].movement \in Recorded
      BY DEF Recorded
    <3>2. \A n \in DOMAIN ledger : BalanceMoves[n] = ledger[n].movement /\ Amounts[n] = Signed[ledger[n].movement]
      BY DEF BalanceMoves, Amounts
    <3> HIDE DEF A, L
    <3> QED BY <1>1, <3>1, <3>2
  <2>3. \A n, m \in Counted : BalanceMoves[n] = BalanceMoves[m] => n = m
    BY <2>1, MovementsApart DEF BalanceMoves
  <2>4. ASSUME NEW k \in after PROVE \E n \in Counted : BalanceMoves[n] = k
    <3>1. k \in Movements /\ LastStated < k /\ k <= LastOf(Recorded)
      BY <1>1, MovementsAssumption DEF Movements
    <3>2. k \in Recorded
      BY <3>1 DEF NothingMissing
    <3>3. PICK n \in DOMAIN ledger : ledger[n].movement = k
      BY <3>2 DEF Recorded
    <3> QED BY <1>1, <3>1, <3>3 DEF BalanceMoves
  <2>5. \A k \in after : Signed[k] \in Int
    BY <1>3, <1>5
  <2> HIDE DEF after
  <2> QED BY <1>4, <2>1, <2>2, <2>3, <2>4, <2>5, SumReindexed
<1> QED BY <1>1, <1>2, <1>6, <1>8, <1>9

\* Statements, movements and removals keep the rows of the ledger of their type.
LEMMA LedgerStep ==
  ASSUME LedgerFiguresTypeOK, LedgerFiguresNext
  PROVE  LedgerFiguresTypeOK'
<1>1. ASSUME NEW first \in Movements, NEW last \in Movements, NEW newestFirst \in BOOLEAN,
             ApproveStatement(first, last, newestFirst)
      PROVE  LedgerFiguresTypeOK'
  <2> DEFINE fresh == {k \in first..last : ~Known(k)}
  <2>1. PICK listed \in [1..Cardinality(fresh) -> fresh] :
          /\ Len(ledger) + Len(listed) <= MaxRows
          /\ ledger' = ledger \o [i \in DOMAIN listed |-> [movement |-> listed[i], stated |-> TRUE]]
    BY <1>1 DEF ApproveStatement
  <2>2. fresh \subseteq Movements /\ IsFiniteSet(fresh)
    <3>1. first \in Int /\ last \in Int /\ Movements = 1..Len(Days) /\ Len(Days) \in Nat
      BY MovementsAssumption DEF Movements
    <3>2. IsFiniteSet(first..last)
      BY <3>1, FS_Interval
    <3> QED BY <3>1, <3>2, FS_Subset
  <2>3. Cardinality(fresh) \in Nat
    BY <2>2, FS_CardinalityType
  <2> HIDE DEF fresh
  <2>4. listed \in Seq(Movements)
    BY <2>2, <2>3
  <2> DEFINE rows == [i \in DOMAIN listed |-> [movement |-> listed[i], stated |-> TRUE]]
  <2>5. rows \in Seq(LedgerRow) /\ Len(rows) = Len(listed)
    <3>1. \A i \in DOMAIN listed : listed[i] \in Movements
      BY <2>2
    <3>2. \A i \in DOMAIN listed : [movement |-> listed[i], stated |-> TRUE] \in LedgerRow
      BY <3>1 DEF LedgerRow
    <3>3. DOMAIN listed = 1..Len(listed) /\ Len(listed) \in Nat
      BY <2>4
    <3>4. rows \in [1..Len(listed) -> LedgerRow]
      BY <3>2, <3>3
    <3> HIDE DEF rows
    <3> QED BY <3>3, <3>4
  <2> HIDE DEF rows
  <2>6. ledger' = ledger \o rows
    BY <2>1 DEF rows
  <2>7. ledger \in Seq(LedgerRow) /\ Len(ledger \o rows) = Len(ledger) + Len(rows)
    BY <2>5, ConcatProperties DEF LedgerFiguresTypeOK
  <2>8. ledger \o rows \in Seq(LedgerRow)
    BY <2>5, <2>7, ConcatProperties
  <2> QED BY <2>1, <2>5, <2>6, <2>7, <2>8 DEF LedgerFiguresTypeOK
<1>2. ASSUME NEW k \in Movements, RecordMovement(k)
      PROVE  LedgerFiguresTypeOK'
  BY <1>2, MovementsAssumption DEF RecordMovement, LedgerFiguresTypeOK, LedgerRow
<1>3. ASSUME NEW n \in DOMAIN ledger, DeleteRow(n)
      PROVE  LedgerFiguresTypeOK'
  <2>1. ledger' = SubSeq(ledger, 1, n - 1) \o SubSeq(ledger, n + 1, Len(ledger))
    BY <1>3 DEF DeleteRow, RemoveAt
  <2>2. n \in 1..Len(ledger) /\ ledger \in Seq(LedgerRow) /\ Len(ledger) <= MaxRows
    BY DEF LedgerFiguresTypeOK
  <2>3. /\ SubSeq(ledger, 1, n - 1) \in Seq(LedgerRow)
        /\ Len(SubSeq(ledger, 1, n - 1)) = n - 1
    BY <2>2
  <2>4. /\ SubSeq(ledger, n + 1, Len(ledger)) \in Seq(LedgerRow)
        /\ Len(SubSeq(ledger, n + 1, Len(ledger))) = Len(ledger) - n
    BY <2>2
  <2>5. ledger' \in Seq(LedgerRow) /\ Len(ledger') = Len(ledger) - 1
    <3> DEFINE head == SubSeq(ledger, 1, n - 1)  tail == SubSeq(ledger, n + 1, Len(ledger))
    <3> HIDE DEF head, tail
    <3>1. /\ head \in Seq(LedgerRow) /\ tail \in Seq(LedgerRow) /\ ledger' = head \o tail
          /\ Len(head) = n - 1 /\ Len(tail) = Len(ledger) - n
      BY <2>1, <2>3, <2>4 DEF head, tail
    <3>2. head \o tail \in Seq(LedgerRow) /\ Len(head \o tail) = Len(head) + Len(tail)
      BY <3>1, ConcatProperties
    <3>3. n \in Int /\ Len(ledger) \in Int
      BY <2>2
    <3>4. Len(ledger') = (n - 1) + (Len(ledger) - n)
      BY <3>1, <3>2
    <3> QED BY <3>1, <3>2, <3>3, <3>4
  <2> QED BY <2>2, <2>5, MovementsAssumption DEF LedgerFiguresTypeOK
<1> QED BY <1>1, <1>2, <1>3 DEF LedgerFiguresNext

\* Rows are of movements of the bank, whatever is approved, entered and removed.
THEOREM LedgerFiguresTyping == LedgerFiguresSpec => []LedgerFiguresTypeOK
<1>1. LedgerInit => LedgerFiguresTypeOK
  BY MovementsAssumption DEF LedgerInit, LedgerFiguresTypeOK
<1>2. LedgerFiguresTypeOK /\ [LedgerFiguresNext]_ledger => LedgerFiguresTypeOK'
  <2>1. LedgerFiguresTypeOK /\ UNCHANGED ledger => LedgerFiguresTypeOK'
    BY DEF LedgerFiguresTypeOK
  <2> QED BY <2>1, LedgerStep
<1> QED BY <1>1, <1>2, PTL DEF LedgerFiguresSpec

\* current_balance of core/models/bank_account.py: for any record of the bank, of any length,
\* the balance shown is the bank's once rows were recorded in order and none is missing.
THEOREM BalanceStated == LedgerFiguresSpec => []BalanceAsStated
BY LedgerFiguresTyping, Balanced, PTL

(***************************************************************************)
(* The figures of a plan                                                   *)
(***************************************************************************)

\* A percentage is at most half a hundredth away from the share of its target.
LEMMA RoundUpFacts ==
  ASSUME NEW t \in Nat, NEW c \in Nat \ {0}, t <= c, NEW r, r = RoundHalfUp(t * Percent100, c)
  PROVE  /\ r \in 0..Percent100
         /\ -c < 2 * (c * r) - 20000 * t /\ 2 * (c * r) - 20000 * t <= c
<1> DEFINE n == 20000 * t + c  d == 2 * c
<1>1. n \in Nat /\ d \in Nat \ {0} /\ n \in Int
  OBVIOUS
<1>2. r = n \div d
  BY DEF RoundHalfUp, Percent100
<1>3. r \in Nat
  <2> HIDE DEF n, d
  <2> QED BY <1>1, <1>2, DivNat
<1>4. d * r <= n /\ n < d * r + d
  <2> HIDE DEF n, d
  <2> DEFINE m == n % d  p == d * r
  <2>1. n = p + m /\ 0 <= m /\ m < d /\ m \in Int
    BY <1>1, <1>2, DivFacts
  <2>2. p \in Int
    BY <1>1, <1>3
  <2> HIDE DEF m, p
  <2>3. p <= n /\ n < p + d
    BY <1>1, <2>1, <2>2
  <2> QED BY <2>3 DEF p
<1>5. d * r = 2 * (c * r)
  BY <1>3
<1>6. c * r \in Int
  BY <1>3
<1>7. -c < 2 * (c * r) - 20000 * t /\ 2 * (c * r) - 20000 * t <= c
  BY <1>4, <1>5, <1>6
<1>8. c * r < c * 10001
  <2>1. PICK y \in Int : y = c * r
    BY <1>6
  <2>2. y < 10001 * c
    BY <1>7, <2>1
  <2> QED BY <2>1, <2>2
<1>9. r < 10001
  <2>1. PICK b \in Int : b = 10001
    OBVIOUS
  <2>2. r \in Int /\ c * r < c * b
    BY <1>3, <1>8, <2>1
  <2>3. r < b
    BY <2>2, FactorOrder
  <2> QED BY <2>1, <2>3
<1>10. r \in 0..10000
  <2>1. PICK k \in Nat : k = r
    BY <1>3
  <2>2. k < 10001
    BY <1>9, <2>1
  <2>3. k \in 0..10000
    BY ONLY <2>2, k \in Nat
  <2> QED BY <2>1, <2>3
<1>11. r \in 0..Percent100
  BY <1>10 DEF Percent100
<1> QED BY <1>7, <1>11

\* Rounding half to even is at most one half away.
LEMMA RoundEvenFacts ==
  ASSUME NEW x \in Int, NEW e, e = RoundHalfEven(x, Percent100)
  PROVE  e \in Int /\ 2 * x - 10000 <= 20000 * e /\ 20000 * e <= 2 * x + 10000
<1> DEFINE q == x \div 10000  m == x % 10000
<1>1. q \in Int /\ m \in Int /\ x = 10000 * q + m /\ 0 <= m /\ m < 10000
  OBVIOUS
<1>2. e = IF 2 * m > 10000 \/ (2 * m = 10000 /\ q % 2 = 1) THEN q + 1 ELSE q
  BY DEF RoundHalfEven, Percent100
<1> HIDE DEF q, m
<1> QED BY <1>1, <1>2

\* What an amount pays for is worth no more than it.
LEMMA WorthAtMost ==
  ASSUME NEW n \in Nat, NEW d \in Nat \ {0}, NEW t \in Nat, n <= t * d
  PROVE  RoundHalfEven(n, d) <= t
<1> DEFINE q == n \div d  m == n % d
<1>1. q \in Int /\ m \in Int /\ n = d * q + m /\ 0 <= m /\ m < d
  BY DivFacts
<1>2. RoundHalfEven(n, d) = IF 2 * m > d \/ (2 * m = d /\ q % 2 = 1) THEN q + 1 ELSE q
  BY DEF RoundHalfEven
<1> HIDE DEF q, m
<1>3. d * q < d * (t + 1)
  BY <1>1
<1>4. q < t + 1
  BY <1>1, <1>3, FactorOrder
<1>5. CASE q = t
  <2>1. m = 0
    BY <1>1, <1>5
  <2>2. ~ (2 * m > d) /\ 2 * m # d
    BY <2>1
  <2> QED BY <1>2, <1>5, <2>2
<1>6. CASE q # t
  BY <1>1, <1>2, <1>4, <1>6
<1> QED BY <1>5, <1>6

\* max_affordable_quantity() is the most a target pays for, in whole increments.
LEMMA AffordableFacts ==
  ASSUME NEW good \in Goods, NEW target \in Nat, NEW price \in Nat \ {0}
  PROVE  /\ Affordable(good, target, price) \in Nat
         /\ \A quantity \in Nat : quantity % Increment[good] = 0 /\ quantity * price <= target * Grain
              => quantity <= Affordable(good, target, price)
<1> DEFINE i == Increment[good]  d == price * i  n == target * Grain  w == n \div d
<1>1. i \in Nat \ {0} /\ Grain \in Nat \ {0}
  BY FiguresAssumption
<1>2. n \in Nat /\ d \in Nat \ {0}
  BY <1>1
<1>3. Affordable(good, target, price) = w * i
  BY DEF Affordable
<1>4. w \in Nat
  BY <1>2, DivNat
<1>5. ASSUME NEW quantity \in Nat, quantity % i = 0, quantity * price <= n
      PROVE  quantity <= w * i
  <2> DEFINE k == quantity \div i
  <2>1. k \in Nat /\ quantity = i * k
    <3> HIDE DEF i
    <3>1. quantity = i * k + (quantity % i) /\ k \in Nat
      BY <1>1, DivFacts, DivNat
    <3> HIDE DEF k
    <3> QED BY <1>1, <1>5, <3>1
  <2>2. d * k <= n
    <3> HIDE DEF k, i, n
    <3> QED BY <1>1, <1>5, <2>1
  <2>3. k <= w
    <3> HIDE DEF k, d, n
    <3>1. n \in Int /\ k \in Int
      BY <1>2, <2>1
    <3> QED BY <1>2, <2>2, <3>1, DivAtLeast
  <2> HIDE DEF k, w, i
  <2> QED BY <1>1, <1>4, <2>1, <2>3
<1>6. w * i \in Nat
  <2> HIDE DEF w, i
  <2> QED BY <1>1, <1>4
<1> QED BY <1>3, <1>5, <1>6

\* The sum of a sequence, its last term first.
LEMMA SumNext ==
  ASSUME NEW n \in Nat \ {0}, NEW f, \A i \in 1..n : f[i] \in Int
  PROVE  SumFunctionOnSet(f, 1..n) = f[n] + SumFunctionOnSet(f, 1..(n - 1))
<1>1. IsFiniteSet(1..n) /\ n \in 1..n /\ (1..n) \ {n} = 1..(n - 1)
  BY FS_Interval
<1> QED BY <1>1, SumTake

\* The numbers of a plan's items, added up one after the other.
LEMMA SumsOfThree ==
  ASSUME NEW n \in 0..3, NEW f, DOMAIN f = 1..n, \A i \in 1..n : f[i] \in Int
  PROVE  SumOf(f) = (IF n >= 1 THEN f[1] ELSE 0) + (IF n >= 2 THEN f[2] ELSE 0)
                      + (IF n >= 3 THEN f[3] ELSE 0)
<1>1. n \in Nat
  OBVIOUS
<1>2. SumOf(f) = SumFunctionOnSet(f, 1..n)
  BY <1>1, FoldLeftSums DEF SumOf
<1>3. SumFunctionOnSet(f, 1..0) = 0
  BY SumEmpty
<1>4. n >= 1 => SumFunctionOnSet(f, 1..1) = f[1] + SumFunctionOnSet(f, 1..0)
  <2>1. n >= 1 => \A i \in 1..1 : f[i] \in Int
    OBVIOUS
  <2>2. 1 \in Nat \ {0} /\ 1 - 1 = 0
    OBVIOUS
  <2> QED BY <2>1, <2>2, SumNext
<1>5. n >= 2 => SumFunctionOnSet(f, 1..2) = f[2] + SumFunctionOnSet(f, 1..1)
  <2>1. n >= 2 => \A i \in 1..2 : f[i] \in Int
    OBVIOUS
  <2>2. 2 \in Nat \ {0} /\ 2 - 1 = 1
    OBVIOUS
  <2> QED BY <2>1, <2>2, SumNext
<1>6. n >= 3 => SumFunctionOnSet(f, 1..3) = f[3] + SumFunctionOnSet(f, 1..2)
  <2>1. n >= 3 => \A i \in 1..3 : f[i] \in Int
    OBVIOUS
  <2>2. 3 \in Nat \ {0} /\ 3 - 1 = 2
    OBVIOUS
  <2> QED BY <2>1, <2>2, SumNext
<1>7. n = 0 \/ n = 1 \/ n = 2 \/ n = 3
  OBVIOUS
<1>8. n >= 1 => f[1] \in Int
  OBVIOUS
<1>9. n >= 2 => f[2] \in Int
  OBVIOUS
<1>10. n >= 3 => f[3] \in Int
  OBVIOUS
<1>11. CASE n = 0
  BY <1>2, <1>3, <1>11
<1>12. CASE n = 1
  BY <1>2, <1>3, <1>4, <1>8, <1>12
<1>13. CASE n = 2
  BY <1>2, <1>3, <1>4, <1>5, <1>8, <1>9, <1>13
<1>14. CASE n = 3
  BY <1>2, <1>3, <1>4, <1>5, <1>6, <1>8, <1>9, <1>10, <1>14
<1> QED BY <1>7, <1>11, <1>12, <1>13, <1>14

\* A percentage p of the confirmed total c gives the target t back, as the contract checks it.
GivesBack(c, p, t) == Abs(t - RoundHalfEven(c * p, Percent100)) <= MONEY_TOLERANCE

\* Half a hundredth of a percent of c, k times: what r is away from t's share.
Near(c, r, t, k) == 0 - k * c <= 2 * (c * r) - 20000 * t /\ 2 * (c * r) - 20000 * t <= k * c

\* Percentages in hundredths are natural numbers.
LEMMA PercentIsNat ==
  ASSUME NEW x \in 0..Percent100
  PROVE  x \in Nat
<1>1. PICK w \in Nat : w = Percent100
  BY DEF Percent100
<1>2. x \in 0..w
  BY <1>1
<1>3. x \in Nat
  BY ONLY <1>2, w \in Nat
<1> QED BY <1>3

\* A share rounded by itself gives its target back to the cent.
LEMMA OwnShare ==
  ASSUME NEW c \in Nat \ {0}, c <= 20000, NEW t \in Nat, t <= c,
         NEW r, r = RoundHalfUp(t * Percent100, c)
  PROVE  /\ r \in 0..Percent100 /\ r \in Nat
         /\ Near(c, r, t, 1) /\ GivesBack(c, r, t)
<1>1. r \in 0..Percent100 /\ r \in Nat
  BY RoundUpFacts, PercentIsNat
<1>2. -c < 2 * (c * r) - 20000 * t /\ 2 * (c * r) - 20000 * t <= c
  BY RoundUpFacts
<1>3. PICK x \in Int : x = c * r
  BY <1>1
<1>4. PICK e \in Int : e = RoundHalfEven(x, Percent100)
  BY <1>3, RoundEvenFacts
<1>5. 2 * x - 10000 <= 20000 * e /\ 20000 * e <= 2 * x + 10000
  <2> HIDE <1>3
  <2> QED BY <1>4, RoundEvenFacts
<1>6. -2 <= t - e /\ t - e <= 2
  BY <1>2, <1>3, <1>4, <1>5
<1>7. GivesBack(c, r, t)
  BY <1>3, <1>4, <1>6 DEF GivesBack, Abs, MONEY_TOLERANCE
<1>8. Near(c, r, t, 1)
  <2>1. -c <= 2 * x - 20000 * t /\ 2 * x - 20000 * t <= c /\ 1 * c = c
    BY <1>2, <1>3
  <2> QED BY <1>3, <2>1 DEF Near
<1> QED BY <1>1, <1>7, <1>8

\* What the rounded shares leave the last item gives its target back to two cents.
LEMMA LastShare ==
  ASSUME NEW c \in Nat \ {0}, c <= 20000, NEW others \in Nat, NEW t \in Nat \ {0}, t + others = c,
         NEW used \in Nat, Near(c, used, others, 2)
  PROVE  /\ Percent100 - used \in 0..Percent100
         /\ GivesBack(c, Percent100 - used, t)
<1>1. PICK p \in Int : p = 10000 - used
  OBVIOUS
<1>2. PICK x \in Int : x = c * p
  OBVIOUS
<1>3. PICK y \in Int : y = c * used
  OBVIOUS
<1>4. x = 10000 * c - y
  BY <1>1, <1>2, <1>3
<1>5. 20000 * t - 2 * c <= 2 * x /\ 2 * x <= 20000 * t + 2 * c
  BY <1>3, <1>4 DEF Near
<1>6. 0 <= p /\ p <= 10000
  <2>1. PICK m \in Int : m = -1
    OBVIOUS
  <2>2. c * m = -c
    BY <2>1
  <2>3. c * m < c * p
    BY <1>2, <1>5, <2>2
  <2>4. m < p
    BY <2>3, FactorOrder
  <2> QED BY <1>1, <2>1, <2>4
<1>7. PICK e \in Int : e = RoundHalfEven(x, Percent100)
  BY RoundEvenFacts
<1>8. 2 * x - 10000 <= 20000 * e /\ 20000 * e <= 2 * x + 10000
  BY <1>7, RoundEvenFacts
<1>9. -2 <= t - e /\ t - e <= 2
  BY <1>5, <1>7, <1>8
<1>10. PICK w \in Int : w = Percent100 /\ w = 10000
  BY DEF Percent100
<1>11. w - used = p /\ p \in 0..w
  BY <1>1, <1>6, <1>10
<1>12. Abs(t - e) <= MONEY_TOLERANCE
  BY <1>9, <1>7 DEF Abs, MONEY_TOLERANCE
<1>13. GivesBack(c, p, t)
  BY <1>2, <1>7, <1>12 DEF GivesBack
<1>14. w - used \in 0..w /\ GivesBack(c, w - used, t)
  BY <1>11, <1>13
<1> QED BY <1>10, <1>14

\* The errors of two rounded shares add up.
LEMMA TwoShares ==
  ASSUME NEW c \in Nat \ {0}, NEW t \in Nat, NEW u \in Nat, NEW r \in Nat, NEW s \in Nat,
         Near(c, r, t, 1), Near(c, s, u, 1)
  PROVE  Near(c, r + s, t + u, 2)
<1>1. PICK x \in Int, y \in Int : x = c * r /\ y = c * s
  OBVIOUS
<1>2. c * (r + s) = x + y
  BY <1>1
<1>3. /\ -c <= 2 * x - 20000 * t /\ 2 * x - 20000 * t <= c
      /\ -c <= 2 * y - 20000 * u /\ 2 * y - 20000 * u <= c
  BY <1>1 DEF Near
<1>4. PICK z \in Int : z = c * (r + s)
  OBVIOUS
<1>5. 0 - 2 * c <= 2 * z - 20000 * (t + u) /\ 2 * z - 20000 * (t + u) <= 2 * c
  BY <1>2, <1>3, <1>4
<1> QED BY <1>4, <1>5 DEF Near

\* A plan has up to three items, and its confirmed total is what their targets add up to.
LEMMA PlanFacts ==
  ASSUME NEW items \in Seq(PlanFigure), Len(items) \in 1..3
  PROVE  /\ DOMAIN items = 1..Len(items)
         /\ \A i \in 1..Len(items) : items[i] \in PlanFigure /\ items[i].target \in Nat \ {0}
         /\ Confirmed(items) = items[1].target + (IF Len(items) >= 2 THEN items[2].target ELSE 0)
                                 + (IF Len(items) >= 3 THEN items[3].target ELSE 0)
         /\ Confirmed(items) \in Nat \ {0}
         /\ \A i \in 1..Len(items) : items[i].target <= Confirmed(items)
<1> DEFINE f == [i \in DOMAIN items |-> items[i].target]
<1>1. PICK n \in 1..3 : n = Len(items)
  OBVIOUS
<1>2. DOMAIN items = 1..n
  BY <1>1
<1>3. \A i \in 1..n : items[i] \in PlanFigure
  BY <1>1
<1>4. \A i \in 1..n : items[i].target \in Sums
  BY <1>3 DEF PlanFigure
<1>5. \A i \in 1..n : items[i].target \in Nat \ {0}
  BY <1>4, FiguresAssumption
<1>6. DOMAIN f = 1..n /\ \A i \in 1..n : f[i] = items[i].target
  BY <1>2
<1>7. Confirmed(items) = SumOf(f)
  BY DEF Confirmed
<1> HIDE DEF f
<1>8. n \in 0..3 /\ \A i \in 1..n : f[i] \in Int
  BY <1>5, <1>6
<1>9. SumOf(f) = (IF n >= 1 THEN f[1] ELSE 0) + (IF n >= 2 THEN f[2] ELSE 0)
                      + (IF n >= 3 THEN f[3] ELSE 0)
  BY <1>6, <1>8, SumsOfThree
<1>10. Confirmed(items) = items[1].target + (IF n >= 2 THEN items[2].target ELSE 0)
                                 + (IF n >= 3 THEN items[3].target ELSE 0)
  <2>1. n >= 1 /\ f[1] = items[1].target
    BY <1>6
  <2>2. n >= 2 => f[2] = items[2].target
    BY <1>6
  <2>3. n >= 3 => f[3] = items[3].target
    BY <1>6
  <2> QED BY <1>7, <1>9, <2>1, <2>2, <2>3
<1>11. items[1].target \in Nat \ {0}
  BY <1>5
<1>12. n >= 2 => items[2].target \in Nat \ {0}
  BY <1>5
<1>13. n >= 3 => items[3].target \in Nat \ {0}
  BY <1>5
<1>14. Confirmed(items) \in Nat \ {0}
  BY <1>10, <1>11, <1>12, <1>13
<1>15. items[1].target <= Confirmed(items)
  BY <1>10, <1>11, <1>12, <1>13
<1>16. n >= 2 => items[2].target <= Confirmed(items)
  BY <1>10, <1>11, <1>12, <1>13
<1>17. n >= 3 => items[3].target <= Confirmed(items)
  BY <1>10, <1>11, <1>12, <1>13
<1>18. \A i \in 1..n : items[i].target <= Confirmed(items)
  <2>1. SUFFICES ASSUME NEW i \in 1..n PROVE items[i].target <= Confirmed(items)
    OBVIOUS
  <2>2. i = 1 \/ (i = 2 /\ n >= 2) \/ (i = 3 /\ n >= 3)
    OBVIOUS
  <2> QED BY <1>15, <1>16, <1>17, <2>2
<1> QED BY <1>1, <1>2, <1>3, <1>5, <1>10, <1>14, <1>18

\* The rounded share of every item, before the last is given the rest.
Shared(items) == [i \in 1..Len(items) |-> RoundHalfUp(items[i].target * Percent100, Confirmed(items))]

\* The percentages of a small plan give every target back and add up to the whole.
LEMMA SharesFit ==
  ASSUME NEW items \in Seq(PlanFigure), Len(items) \in 1..3, Small(items)
  PROVE  /\ DOMAIN Percentages(items) = 1..Len(items)
         /\ \A i \in 1..Len(items) :
              /\ Percentages(items)[i] \in 0..Percent100
              /\ GivesBack(Confirmed(items), Percentages(items)[i], items[i].target)
         /\ SumOf(Percentages(items)) = Percent100
<1>1. PICK n \in 1..3 : n = Len(items)
  OBVIOUS
<1>2. PICK c \in Nat \ {0} : c = Confirmed(items)
  BY PlanFacts
<1>3. c <= 20000
  BY <1>2 DEF Small, MONEY_TOLERANCE, Percent100
<1> DEFINE r == Shared(items)
           part == [i \in 1..(n - 1) |-> r[i]]
           used == SumOf(part)
           p == Percentages(items)
           T(i) == items[i].target
<1>4. /\ DOMAIN items = 1..n
      /\ \A i \in 1..n : T(i) \in Nat \ {0} /\ T(i) <= c /\ r[i] = RoundHalfUp(T(i) * Percent100, c)
      /\ c = T(1) + (IF n >= 2 THEN T(2) ELSE 0) + (IF n >= 3 THEN T(3) ELSE 0)
  BY <1>1, <1>2, PlanFacts DEF Shared
<1>5. p = [i \in 1..n |-> IF i = n THEN Percent100 - used ELSE r[i]]
  <2>1. \A i \in 1..n : RoundHalfUp(items[i].target * Percent100, Confirmed(items)) = r[i]
    BY <1>1 DEF Shared
  <2>2. [i \in 1..(n - 1) |-> RoundHalfUp(items[i].target * Percent100, Confirmed(items))] = part
    BY <2>1
  <2> QED BY <1>1, <1>4, <2>1, <2>2 DEF Percentages
<1>6. DOMAIN part = 1..(n - 1) /\ \A i \in 1..(n - 1) : part[i] = r[i]
  OBVIOUS
<1> HIDE DEF r, part, p, T
<1>7. ASSUME NEW i \in 1..n
      PROVE  r[i] \in 0..Percent100 /\ r[i] \in Nat /\ Near(c, r[i], T(i), 1) /\ GivesBack(c, r[i], T(i))
  <2>1. T(i) \in Nat /\ T(i) <= c /\ r[i] = RoundHalfUp(T(i) * Percent100, c)
    BY <1>4
  <2> QED BY <1>3, <2>1, OwnShare
<1>8. used = (IF n >= 2 THEN r[1] ELSE 0) + (IF n >= 3 THEN r[2] ELSE 0)
  <2>1. PICK m \in 0..3 : m = n - 1
    OBVIOUS
  <2>2. DOMAIN part = 1..m /\ \A i \in 1..m : part[i] = r[i]
    BY <1>6, <2>1
  <2>3. \A i \in 1..m : i \in 1..n
    BY <2>1
  <2>4. \A i \in 1..m : part[i] \in Int
    BY <1>7, <2>2, <2>3
  <2>5. used = (IF m >= 1 THEN part[1] ELSE 0) + (IF m >= 2 THEN part[2] ELSE 0)
                      + (IF m >= 3 THEN part[3] ELSE 0)
    BY <2>2, <2>4, SumsOfThree
  <2>6. m = 0 \/ m = 1 \/ m = 2
    BY <2>1
  <2>7. m >= 1 => part[1] = r[1] /\ r[1] \in Int
    BY <2>2, <2>4
  <2>8. m >= 2 => part[2] = r[2] /\ r[2] \in Int
    BY <2>2, <2>4
  <2> QED BY <2>1, <2>5, <2>6, <2>7, <2>8
<1> DEFINE others == (IF n >= 2 THEN T(1) ELSE 0) + (IF n >= 3 THEN T(2) ELSE 0)
<1>9. used \in Nat /\ others \in Nat /\ T(n) + others = c /\ Near(c, used, others, 2)
  <2> HIDE DEF used
  <2>1. CASE n = 1
    <3>1. used = 0 /\ others = 0 /\ T(1) \in Nat /\ T(1) = c
      BY <1>4, <1>8, <2>1
    <3>2. Near(c, 0, 0, 2)
      BY DEF Near
    <3> HIDE DEF others
    <3> QED BY <2>1, <3>1, <3>2
  <2>2. CASE n = 2
    <3>1. used = r[1] /\ others = T(1) /\ T(1) \in Nat /\ T(2) \in Nat /\ T(1) + T(2) = c /\ r[1] \in Nat
      BY <1>4, <1>7, <1>8, <2>2
    <3>2. Near(c, r[1], T(1), 1) /\ Near(c, 0, 0, 1)
      BY <1>7, <2>2 DEF Near
    <3>3. Near(c, r[1] + 0, T(1) + 0, 2)
      BY <3>1, <3>2, TwoShares
    <3> HIDE DEF others
    <3>4. r[1] + 0 = r[1] /\ T(1) + 0 = T(1) /\ T(2) + T(1) = c
      BY <3>1
    <3> QED BY <2>2, <3>1, <3>3, <3>4
  <2>3. CASE n = 3
    <3>1. /\ used = r[1] + r[2] /\ others = T(1) + T(2)
          /\ T(1) \in Nat /\ T(2) \in Nat /\ T(3) \in Nat /\ T(1) + T(2) + T(3) = c
          /\ r[1] \in Nat /\ r[2] \in Nat
      BY <1>4, <1>7, <1>8, <2>3
    <3>2. Near(c, r[1], T(1), 1) /\ Near(c, r[2], T(2), 1)
      BY <1>7, <2>3
    <3>3. Near(c, r[1] + r[2], T(1) + T(2), 2)
      BY <3>1, <3>2, TwoShares
    <3>4. T(3) + (T(1) + T(2)) = c /\ r[1] + r[2] \in Nat /\ T(1) + T(2) \in Nat
      <4>1. PICK a \in Nat, b \in Nat, d \in Nat : a = T(1) /\ b = T(2) /\ d = T(3)
        BY <3>1
      <4>2. PICK u \in Nat, v \in Nat : u = r[1] /\ v = r[2]
        BY <3>1
      <4>3. a + b + d = c
        BY <3>1, <4>1
      <4>4. d + (a + b) = c /\ u + v \in Nat /\ a + b \in Nat
        BY <4>3
      <4> QED BY <4>1, <4>2, <4>4
    <3> HIDE DEF others
    <3> QED BY <2>3, <3>1, <3>3, <3>4
  <2> QED BY <2>1, <2>2, <2>3
<1> HIDE DEF used, others
<1>10. n \in 1..n /\ T(n) \in Nat \ {0}
  BY <1>4
<1>11. Percent100 - used \in 0..Percent100 /\ GivesBack(c, Percent100 - used, T(n))
  BY <1>3, <1>9, <1>10, LastShare
<1>12. p[n] = Percent100 - used /\ \A i \in 1..n : i # n => p[i] = r[i]
  BY <1>5, <1>10
<1>13. ASSUME NEW i \in 1..n
       PROVE  p[i] \in 0..Percent100 /\ GivesBack(c, p[i], T(i))
  <2>1. CASE i = n
    BY <1>11, <1>12, <2>1
  <2>2. CASE i # n
    BY <1>7, <1>12, <2>2
  <2> QED BY <2>1, <2>2
<1>14. SumOf(p) = Percent100
  <2>1. DOMAIN p = 1..n /\ n \in 0..3
    BY <1>5
  <2>2. \A i \in 1..n : p[i] \in Int
    BY <1>13, PercentIsNat
  <2>3. SumOf(p) = (IF n >= 1 THEN p[1] ELSE 0) + (IF n >= 2 THEN p[2] ELSE 0)
                      + (IF n >= 3 THEN p[3] ELSE 0)
    BY <2>1, <2>2, SumsOfThree
  <2>4. PICK w \in Int : w = Percent100
    BY DEF Percent100
  <2>5. p[n] = w - used /\ used \in Int
    BY <1>9, <1>12, <2>4
  <2>6. CASE n = 1
    <3>1. p[1] \in Int /\ used = 0 /\ p[1] = w - used
      BY <1>8, <2>2, <2>5, <2>6
    <3> QED BY <2>3, <2>4, <2>6, <3>1
  <2>7. CASE n = 2
    <3>1. p[1] \in Int /\ p[2] \in Int /\ r[1] \in Int /\ used = r[1] /\ p[1] = r[1] /\ p[2] = w - used
      BY <1>7, <1>8, <1>12, <2>2, <2>5, <2>7
    <3> QED BY <2>3, <2>4, <2>7, <3>1
  <2>8. CASE n = 3
    <3>1. /\ p[1] \in Int /\ p[2] \in Int /\ p[3] \in Int /\ r[1] \in Int /\ r[2] \in Int
          /\ used = r[1] + r[2] /\ p[1] = r[1] /\ p[2] = r[2] /\ p[3] = w - used
      BY <1>7, <1>8, <1>12, <2>2, <2>5, <2>8
    <3> QED BY <2>3, <2>4, <2>8, <3>1
  <2> QED BY <2>6, <2>7, <2>8
<1>15. DOMAIN p = 1..n
  BY <1>5
<1> QED BY <1>1, <1>2, <1>13, <1>14, <1>15 DEF p, T

\* Recalculating replaces the percentages and nothing else.
LEMMA RecalculatedFacts ==
  ASSUME NEW items \in Seq(PlanFigure)
  PROVE  /\ DOMAIN Recalculated(items) = 1..Len(items) /\ Len(Recalculated(items)) = Len(items)
         /\ \A i \in 1..Len(items) :
              /\ Recalculated(items)[i] = [items[i] EXCEPT !.percentage = Percentages(items)[i]]
              /\ Recalculated(items)[i].percentage = Percentages(items)[i]
              /\ Recalculated(items)[i].good = items[i].good
              /\ Recalculated(items)[i].target = items[i].target
              /\ Recalculated(items)[i].price = items[i].price
              /\ Recalculated(items)[i].quantity = items[i].quantity
              /\ Percentages(items)[i] \in 0..Percent100 => Recalculated(items)[i] \in PlanFigure
         /\ Confirmed(Recalculated(items)) = Confirmed(items)
<1> DEFINE R == Recalculated(items)  p == Percentages(items)
<1>1. PICK n \in Nat : n = Len(items) /\ DOMAIN items = 1..n
  OBVIOUS
<1>2. R = [i \in 1..n |-> [items[i] EXCEPT !.percentage = p[i]]]
  BY <1>1 DEF Recalculated
<1>3. \A i \in 1..n : items[i] \in PlanFigure
  BY <1>1
<1> HIDE DEF R, p
<1>4. ASSUME NEW i \in 1..n
      PROVE  /\ R[i] = [items[i] EXCEPT !.percentage = p[i]]
             /\ R[i].percentage = p[i] /\ R[i].good = items[i].good
             /\ R[i].target = items[i].target /\ R[i].price = items[i].price
             /\ R[i].quantity = items[i].quantity
             /\ p[i] \in 0..Percent100 => R[i] \in PlanFigure
  <2>1. R[i] = [items[i] EXCEPT !.percentage = p[i]] /\ items[i] \in PlanFigure
    BY <1>2, <1>3
  <2>2. PICK w \in Nat : w = Percent100
    BY DEF Percent100
  <2>3. /\ R[i].percentage = p[i] /\ R[i].good = items[i].good
        /\ R[i].target = items[i].target /\ R[i].price = items[i].price
        /\ R[i].quantity = items[i].quantity
    BY <2>1 DEF PlanFigure
  <2>4. p[i] \in 0..Percent100 => R[i] \in PlanFigure
    BY <2>1 DEF PlanFigure
  <2> QED BY <2>1, <2>3, <2>4
<1>5. DOMAIN R = 1..n /\ Len(R) = n
  <2>1. DOMAIN R = 1..n
    BY <1>2
  <2> QED BY <1>1, <1>2
<1>6. [i \in DOMAIN R |-> R[i].target] = [i \in DOMAIN items |-> items[i].target]
  BY <1>1, <1>4, <1>5
<1>7. Confirmed(R) = Confirmed(items)
  BY <1>6 DEF Confirmed
<1> QED BY <1>1, <1>4, <1>5, <1>7 DEF R, p

\* Percentages depend on nothing but the targets.
LEMMA PercentagesOfTargets ==
  ASSUME NEW items, NEW other, DOMAIN items = DOMAIN other, Len(items) = Len(other),
         Len(items) \in Nat, DOMAIN items = 1..Len(items),
         \A i \in DOMAIN items : items[i].target = other[i].target
  PROVE  Percentages(items) = Percentages(other)
<1>1. [i \in DOMAIN items |-> items[i].target] = [i \in DOMAIN other |-> other[i].target]
  OBVIOUS
<1>2. Confirmed(items) = Confirmed(other)
  BY <1>1 DEF Confirmed
<1> DEFINE c == Confirmed(items)
<1> HIDE DEF c
<1>3. [i \in 1..(Len(items) - 1) |-> RoundHalfUp(items[i].target * Percent100, c)]
        = [i \in 1..(Len(other) - 1) |-> RoundHalfUp(other[i].target * Percent100, c)]
  OBVIOUS
<1> DEFINE used == SumOf([i \in 1..(Len(items) - 1) |-> RoundHalfUp(items[i].target * Percent100, c)])
<1>4. used = SumOf([i \in 1..(Len(other) - 1) |-> RoundHalfUp(other[i].target * Percent100, c)])
  BY <1>3
<1> HIDE DEF used
<1>5. Percentages(items) = [i \in DOMAIN items |-> IF i = Len(items) THEN Percent100 - used
                              ELSE RoundHalfUp(items[i].target * Percent100, c)]
  BY DEF Percentages, c, used
<1>6. Percentages(other) = [i \in DOMAIN other |-> IF i = Len(other) THEN Percent100 - used
                              ELSE RoundHalfUp(other[i].target * Percent100, c)]
  BY <1>2, <1>4 DEF Percentages, c
<1> QED BY <1>5, <1>6

\* A recalculated plan is what recalculating it makes of it.
LEMMA RecalculatedTwice ==
  ASSUME NEW items \in Seq(PlanFigure)
  PROVE  Recalculated(Recalculated(items)) = Recalculated(items)
<1> DEFINE R == Recalculated(items)  p == Percentages(items)  n == Len(items)
<1>1. DOMAIN R = 1..n /\ Len(R) = n /\ n \in Nat /\ DOMAIN items = 1..n
  BY RecalculatedFacts
<1>2. \A i \in 1..n : R[i].target = items[i].target
  BY RecalculatedFacts
<1>3. R = [i \in 1..n |-> [items[i] EXCEPT !.percentage = p[i]]] /\ \A i \in 1..n : items[i] \in PlanFigure
  BY <1>1 DEF Recalculated
<1> HIDE DEF R, p, n
<1>4. Percentages(R) = p
  <2>1. Percentages(R) = Percentages(items)
    BY <1>1, <1>2, PercentagesOfTargets DEF n
  <2> QED BY <2>1 DEF p
<1>5. Recalculated(R) = [i \in 1..n |-> [R[i] EXCEPT !.percentage = p[i]]]
  BY <1>1, <1>4 DEF Recalculated
<1>6. ASSUME NEW i \in 1..n PROVE [R[i] EXCEPT !.percentage = p[i]] = R[i]
  <2>1. R[i] = [items[i] EXCEPT !.percentage = p[i]] /\ items[i] \in PlanFigure
    BY <1>3
  <2> QED BY <2>1 DEF PlanFigure
<1>7. Recalculated(R) = [i \in 1..n |-> R[i]]
  BY <1>5, <1>6
<1>8. R = [i \in 1..n |-> R[i]]
  BY <1>3
<1> QED BY <1>7, <1>8 DEF R

\* What is accepted can be saved: its percentages are percentages.
LEMMA AcceptedTyped ==
  ASSUME NEW items \in Seq(PlanFigure), Accepted(items)
  PROVE  Recalculated(items) \in Seq(PlanFigure) /\ Len(Recalculated(items)) <= MaxItems
<1> DEFINE R == Recalculated(items)
<1>1. PICK n \in Nat : n = Len(items) /\ DOMAIN R = 1..n /\ Len(R) = n
  BY RecalculatedFacts
<1>2. Valid(R)
  BY DEF Accepted
<1>3. Len(R) \in 1..MaxItems /\ \A item \in ToSet(R) : item.percentage \in 0..Percent100
  BY <1>2 DEF Valid
<1>4. \A i \in 1..n : R[i].percentage \in 0..Percent100
  BY <1>1, <1>3 DEF ToSet
<1>5. \A i \in 1..n : R[i] \in PlanFigure
  BY <1>1, <1>4, RecalculatedFacts
<1>6. R = [i \in 1..n |-> R[i]]
  BY <1>1 DEF Recalculated
<1> HIDE DEF R
<1>7. R \in Seq(PlanFigure)
  BY <1>5, <1>6
<1> QED BY <1>3, <1>7, FiguresAssumption DEF R

\* A small plan with nothing wrong with its items passes the contract.
LEMMA SmallAccepted ==
  ASSUME NEW items \in Seq(PlanFigure), Len(items) \in 1..MaxItems, WellFormed(items), Small(items)
  PROVE  Accepted(items)
<1> DEFINE R == Recalculated(items)  p == Percentages(items)
<1>1. PICK n \in 1..3 : n = Len(items) /\ DOMAIN items = 1..n
  <2>1. PICK m \in 1..3 : m = MaxItems
    BY FiguresAssumption
  <2>2. Len(items) \in 1..m /\ DOMAIN items = 1..Len(items)
    BY <2>1
  <2>3. Len(items) \in 1..3
    BY <2>2
  <2> QED BY <2>2, <2>3
<1>2. /\ DOMAIN R = 1..n /\ Len(R) = n /\ Confirmed(R) = Confirmed(items)
      /\ \A i \in 1..n :
           /\ R[i].percentage = p[i] /\ R[i].good = items[i].good
           /\ R[i].target = items[i].target /\ R[i].price = items[i].price
           /\ R[i].quantity = items[i].quantity
  BY <1>1, RecalculatedFacts
<1>3. /\ DOMAIN p = 1..n /\ SumOf(p) = Percent100
      /\ \A i \in 1..n : p[i] \in 0..Percent100 /\ GivesBack(Confirmed(items), p[i], items[i].target)
  BY <1>1, SharesFit
<1> HIDE DEF R, p
<1>4. ASSUME NEW i \in 1..n
      PROVE  /\ items[i].good \in curated
             /\ items[i].quantity % Increment[items[i].good] = 0
             /\ Worth(items[i]) <= items[i].target
             /\ items[i].quantity <= Affordable(items[i].good, items[i].target, items[i].price)
  <2>1. /\ items[i].good \in curated
        /\ items[i].quantity % Increment[items[i].good] = 0
        /\ items[i].quantity * items[i].price <= items[i].target * Grain
    BY <1>1 DEF WellFormed, ToSet
  <2>2. items[i] \in PlanFigure
    BY <1>1
  <2>3. PICK good \in Goods, t \in Nat, price \in Nat \ {0}, q \in Nat :
          good = items[i].good /\ t = items[i].target /\ price = items[i].price /\ q = items[i].quantity
    <3>1. items[i].good \in Goods /\ items[i].target \in Sums /\ items[i].price \in Prices /\ items[i].quantity \in Nat
      BY <2>2 DEF PlanFigure
    <3> QED BY <3>1, FiguresAssumption
  <2>4. q <= Affordable(good, t, price)
    <3>1. q % Increment[good] = 0 /\ q * price <= t * Grain
      BY <2>1, <2>3
    <3> QED BY <3>1, AffordableFacts
  <2>5. RoundHalfEven(q * price, Grain) <= t
    <3>1. PICK m \in Nat : m = q * price
      BY <2>3
    <3>2. m <= t * Grain /\ Grain \in Nat \ {0}
      BY <2>1, <2>3, <3>1, FiguresAssumption
    <3>3. RoundHalfEven(m, Grain) <= t
      BY <3>2, WorthAtMost
    <3> QED BY <3>1, <3>3
  <2>6. Worth(items[i]) = RoundHalfEven(q * price, Grain)
    BY <2>3 DEF Worth
  <2> QED BY <2>1, <2>3, <2>4, <2>5, <2>6
<1>5. ASSUME NEW item \in ToSet(items)
      PROVE  item.quantity % Increment[item.good] = 0 /\ Worth(item) <= item.target
  <2>1. PICK i \in 1..n : item = items[i]
    BY <1>1 DEF ToSet
  <2> QED BY <1>4, <2>1
<1>6. ASSUME NEW item \in ToSet(R)
      PROVE  /\ item.good \in curated
             /\ item.percentage \in 0..Percent100
             /\ Abs(item.target - RoundHalfEven(Confirmed(R) * item.percentage, Percent100))
                  <= MONEY_TOLERANCE
             /\ item.quantity <= Affordable(item.good, item.target, item.price)
             /\ item.quantity % Increment[item.good] = 0
  <2>1. PICK i \in 1..n : item = R[i]
    BY <1>2 DEF ToSet
  <2>2. GivesBack(Confirmed(R), R[i].percentage, R[i].target)
    BY <1>2, <1>3
  <2>3. /\ R[i].good \in curated /\ R[i].percentage \in 0..Percent100
        /\ R[i].quantity <= Affordable(R[i].good, R[i].target, R[i].price)
        /\ R[i].quantity % Increment[R[i].good] = 0
    BY <1>2, <1>3, <1>4
  <2> QED BY <2>1, <2>2, <2>3 DEF GivesBack
<1>7. [i \in DOMAIN R |-> R[i].percentage] = p
  <2>1. p = [i \in 1..n |-> p[i]]
    <3>1. DOMAIN items = 1..n
      BY <1>1
    <3> QED BY <3>1 DEF p, Percentages
  <2> QED BY <1>2, <2>1
<1>8. SumOf([i \in DOMAIN R |-> R[i].percentage]) = Percent100
  BY <1>3, <1>7
<1>9. Valid(R)
  <2>1. Len(R) \in 1..MaxItems
    BY <1>1, <1>2
  <2> QED BY <1>6, <1>8, <2>1 DEF Valid
<1>10. items # <<>>
  BY <1>1
<1> QED BY <1>5, <1>9, <1>10 DEF Accepted, R

\* What a target pays for is a number of units.
LEMMA AffordableNat ==
  ASSUME NEW good \in Goods, NEW target \in Sums, NEW price \in Prices
  PROVE  Affordable(good, target, price) \in Nat
<1>1. target \in Nat /\ price \in Nat \ {0}
  BY FiguresAssumption
<1> QED BY <1>1, AffordableFacts

\* An edited plan is a plan of as many items, ...
LEMMA DraftedTyped ==
  ASSUME FiguresTypeOK, NEW i \in DOMAIN figures, NEW change \in Changes
  PROVE  Drafted(i, change) \in Seq(PlanFigure) /\ Len(Drafted(i, change)) = Len(figures)
<1> DEFINE item == figures[i]
           target == IF change.target = Kept THEN item.target ELSE change.target
           price == IF change.price = Kept THEN item.price ELSE change.price
           quantity == IF change.quantity # Kept THEN change.quantity
                       ELSE Affordable(item.good, target, price)
<1>1. item \in PlanFigure
  BY DEF FiguresTypeOK
<1>2. change.target \in Sums \cup {Kept} /\ change.price \in Prices \cup {Kept} /\ change.quantity \in Measures \cup {Kept}
  BY DEF Changes, Change, Kept
<1>3. item.good \in Goods /\ target \in Sums /\ price \in Prices
  BY <1>1, <1>2 DEF PlanFigure
<1>4. quantity \in Nat
  <2>1. change.quantity # Kept => change.quantity \in Nat
    BY <1>2, FiguresAssumption
  <2> QED BY <1>3, <2>1, AffordableNat
<1>5. Changed(item, change) = [item EXCEPT !.target = target, !.price = price, !.quantity = quantity]
  BY DEF Changed
<1> HIDE DEF target, price, quantity
<1>6. Changed(item, change) \in PlanFigure
  BY <1>1, <1>3, <1>4, <1>5 DEF PlanFigure
<1>7. Drafted(i, change) = [figures EXCEPT ![i] = Changed(item, change)]
  BY DEF Drafted
<1> QED BY <1>6, <1>7 DEF FiguresTypeOK

\* ... and so is, with one less, one from which an item is removed.
LEMMA RemovedTyped ==
  ASSUME FiguresTypeOK, NEW n \in DOMAIN figures
  PROVE  RemoveAt(figures, n) \in Seq(PlanFigure) /\ Len(RemoveAt(figures, n)) = Len(figures) - 1
<1>1. RemoveAt(figures, n) = SubSeq(figures, 1, n - 1) \o SubSeq(figures, n + 1, Len(figures))
  BY DEF RemoveAt
<1>2. n \in 1..Len(figures) /\ figures \in Seq(PlanFigure)
  BY DEF FiguresTypeOK
<1>3. /\ SubSeq(figures, 1, n - 1) \in Seq(PlanFigure)
      /\ Len(SubSeq(figures, 1, n - 1)) = n - 1
  BY <1>2
<1>4. /\ SubSeq(figures, n + 1, Len(figures)) \in Seq(PlanFigure)
      /\ Len(SubSeq(figures, n + 1, Len(figures))) = Len(figures) - n
  BY <1>2
<1> DEFINE head == SubSeq(figures, 1, n - 1)  tail == SubSeq(figures, n + 1, Len(figures))
<1> HIDE DEF head, tail
<1>5. /\ head \in Seq(PlanFigure) /\ tail \in Seq(PlanFigure) /\ RemoveAt(figures, n) = head \o tail
      /\ Len(head) = n - 1 /\ Len(tail) = Len(figures) - n
  BY <1>1, <1>3, <1>4 DEF head, tail
<1>6. head \o tail \in Seq(PlanFigure) /\ Len(head \o tail) = Len(head) + Len(tail)
  BY <1>5, ConcatProperties
<1>7. n \in Int /\ Len(figures) \in Int
  BY <1>2
<1>8. (n - 1) + (Len(figures) - n) = Len(figures) - 1
  BY <1>7
<1> QED BY <1>5, <1>6, <1>8

\* update_saved_allocation and remove_saved_allocation keep the rows of a plan.
LEMMA FiguresStep ==
  ASSUME FiguresTypeOK, [FiguresNext]_figuresVars
  PROVE  FiguresTypeOK'
<1>1. ASSUME NEW i \in DOMAIN figures, NEW change \in Changes, EditItem(i, change)
      PROVE  FiguresTypeOK'
  BY <1>1, DraftedTyped, AcceptedTyped DEF EditItem, FiguresTypeOK
<1>2. ASSUME NEW i \in DOMAIN figures, RemoveItem(i)
      PROVE  FiguresTypeOK'
  <2> DEFINE remaining == RemoveAt(figures, i)
  <2>1. remaining \in Seq(PlanFigure)
    BY RemovedTyped
  <2>2. CASE remaining = <<>>
    <3>1. figures' = <<>> /\ curated' = curated
      BY <1>2, <2>2 DEF RemoveItem
    <3>2. PICK m \in 1..3 : m = MaxItems
      BY FiguresAssumption
    <3>3. <<>> \in Seq(PlanFigure) /\ Len(<<>>) <= m
      OBVIOUS
    <3> QED BY <3>1, <3>2, <3>3 DEF FiguresTypeOK
  <2>3. CASE remaining # <<>>
    <3>1. Accepted(remaining) /\ figures' = Recalculated(remaining) /\ curated' = curated
      BY <1>2, <2>3 DEF RemoveItem
    <3> HIDE DEF remaining
    <3>2. Recalculated(remaining) \in Seq(PlanFigure) /\ Len(Recalculated(remaining)) <= MaxItems
      BY <2>1, <3>1, AcceptedTyped
    <3> QED BY <3>1, <3>2 DEF FiguresTypeOK
  <2> QED BY <2>2, <2>3
<1>3. ASSUME NEW good \in Goods, Curate(good)
      PROVE  FiguresTypeOK'
  BY <1>3 DEF Curate, FiguresTypeOK
<1>4. ASSUME UNCHANGED figuresVars
      PROVE  FiguresTypeOK'
  BY <1>4 DEF figuresVars, FiguresTypeOK
<1> QED BY <1>1, <1>2, <1>3, <1>4 DEF FiguresNext

\* Plans are stored as generate_scenarios() makes them.
LEMMA FiguresBegin ==
  ASSUME FiguresInit
  PROVE  FiguresTypeOK
<1>0. PICK goods \in SeqOf(Goods, MaxItems) :
        \E targets \in [DOMAIN goods -> Sums], price \in Prices :
          figures = Recalculated([i \in DOMAIN goods |-> PlanItem(goods[i], targets[i], price)])
  BY DEF FiguresInit
<1>1. PICK targets \in [DOMAIN goods -> Sums], price \in Prices :
        figures = Recalculated([i \in DOMAIN goods |-> PlanItem(goods[i], targets[i], price)])
  BY <1>0
<1> DEFINE base == [i \in DOMAIN goods |-> PlanItem(goods[i], targets[i], price)]
<1>2. PICK n \in Nat : DOMAIN goods = 1..n /\ goods \in [1..n -> Goods]
  <2>1. PICK n \in 0..MaxItems : goods \in [1..n -> Goods]
    BY DEF SeqOf
  <2>2. n \in Nat
    BY FiguresAssumption
  <2> QED BY <2>1, <2>2
<1>3. ASSUME NEW i \in 1..n PROVE PlanItem(goods[i], targets[i], price) \in PlanFigure
  <2>1. goods[i] \in Goods /\ targets[i] \in Sums
    BY <1>2
  <2>2. Affordable(goods[i], targets[i], price) \in Nat
    BY <2>1, AffordableNat
  <2>3. PICK w \in Nat : w = Percent100
    BY DEF Percent100
  <2>4. 0 \in 0..w
    OBVIOUS
  <2> QED BY <2>1, <2>2, <2>3, <2>4 DEF PlanItem, PlanFigure
<1>4. base \in Seq(PlanFigure)
  BY <1>2, <1>3
<1> HIDE DEF base
<1>5. figures = Recalculated(base)
  BY <1>1 DEF base
<1>6. Accepted(figures) /\ curated = Goods
  BY DEF FiguresInit
<1>7. Valid(Recalculated(base))
  BY <1>4, <1>5, <1>6, RecalculatedTwice DEF Accepted
<1> DEFINE R == Recalculated(base)
<1>8. PICK m \in Nat : m = Len(base) /\ DOMAIN R = 1..m /\ Len(R) = m
  BY <1>4, RecalculatedFacts
<1>9. Len(R) \in 1..MaxItems /\ \A item \in ToSet(R) : item.percentage \in 0..Percent100
  BY <1>7 DEF Valid
<1>10. \A i \in 1..m : R[i].percentage \in 0..Percent100
  BY <1>8, <1>9 DEF ToSet
<1>11. \A i \in 1..m : R[i] \in PlanFigure
  BY <1>4, <1>8, <1>10, RecalculatedFacts
<1>12. R = [i \in 1..m |-> R[i]]
  BY <1>8 DEF Recalculated
<1> HIDE DEF R
<1>13. R \in Seq(PlanFigure)
  BY <1>11, <1>12
<1>14. Len(R) <= MaxItems
  BY <1>9, FiguresAssumption
<1> QED BY <1>5, <1>6, <1>13, <1>14 DEF FiguresTypeOK, R

\* However it is edited, a plan keeps rows of percentages, targets and quantities.
THEOREM FiguresTyping == FiguresSpec => []FiguresTypeOK
<1>1. FiguresTypeOK /\ [FiguresNext]_figuresVars => FiguresTypeOK'
  BY FiguresStep
<1> QED BY <1>1, FiguresBegin, PTL DEF FiguresSpec

\* No edit of a small plan is refused for what recalculating it does.
LEMMA EditsOfSmallPlans ==
  ASSUME FiguresTypeOK
  PROVE  EditsOfSmallPlansPass
<1>1. /\ figures \in Seq(PlanFigure) /\ Len(figures) \in Nat /\ Len(figures) <= MaxItems
      /\ DOMAIN figures = 1..Len(figures) /\ MaxItems \in Int
  BY FiguresAssumption DEF FiguresTypeOK
<1>2. ASSUME NEW i \in DOMAIN figures, NEW change \in Changes,
             WellFormed(Drafted(i, change)), Small(Drafted(i, change))
      PROVE  Accepted(Drafted(i, change))
  <2>1. Drafted(i, change) \in Seq(PlanFigure) /\ Len(Drafted(i, change)) = Len(figures)
    BY DraftedTyped
  <2>2. Len(figures) \in 1..MaxItems
    BY <1>1
  <2> QED BY <1>2, <2>1, <2>2, SmallAccepted
<1>3. ASSUME NEW i \in DOMAIN figures, RemoveAt(figures, i) # <<>>,
             WellFormed(RemoveAt(figures, i)), Small(RemoveAt(figures, i))
      PROVE  Accepted(RemoveAt(figures, i))
  <2> DEFINE remaining == RemoveAt(figures, i)
  <2>1. remaining \in Seq(PlanFigure) /\ Len(remaining) = Len(figures) - 1
    BY RemovedTyped
  <2> HIDE DEF remaining
  <2>2. Len(remaining) # 0
    BY <1>3, <2>1 DEF remaining
  <2>3. Len(remaining) \in 1..MaxItems
    BY <1>1, <2>1, <2>2
  <2> QED BY <1>3, <2>1, <2>3, SmallAccepted DEF remaining
<1> QED BY <1>2, <1>3 DEF EditsOfSmallPlansPass

\* What the code rounds by itself the contract accepts: for any targets, prices and units,
\* an edit of a plan of up to 200 pounds, with nothing wrong with it, passes.
THEOREM SmallPlansEditable == FiguresSpec => []EditsOfSmallPlansPass
BY FiguresTyping, EditsOfSmallPlans, PTL

(***************************************************************************)
(* Days, months and windows                                                *)
(***************************************************************************)

\* The parts of a day of the calendar.
LEMMA IsDayFacts ==
  ASSUME NEW d, IsDay(d)
  PROVE  /\ d.year \in Nat /\ 1901 <= d.year /\ d.month \in 1..12 /\ d.day \in 1..31
         /\ d.day <= DaysIn(d.year, d.month) /\ d = Date(d.year, d.month, d.day)
BY DEF IsDay, Date

\* Days of the year before the first of the month.
Ahead(year, month) == DaysBefore[month] + (IF year % 4 = 0 /\ month > 2 THEN 1 ELSE 0)
NewYear(year) == 365 * year + (year - 1) \div 4

\* Each month begins when the one before it has ended, and the year ends with December.
LEMMA AheadFacts ==
  ASSUME NEW year \in Int, NEW month \in 1..12
  PROVE  /\ Ahead(year, month) \in Nat /\ DaysIn(year, month) \in 28..31
         /\ month < 12 => Ahead(year, month) + DaysIn(year, month) = Ahead(year, month + 1)
         /\ month = 12 => Ahead(year, month) + DaysIn(year, month)
                            = 365 + (IF year % 4 = 0 THEN 1 ELSE 0)
         /\ month = 1 => Ahead(year, month) = 0
<1>1. /\ DaysBefore[1] = 0 /\ DaysBefore[2] = 31 /\ DaysBefore[3] = 59 /\ DaysBefore[4] = 90
      /\ DaysBefore[5] = 120 /\ DaysBefore[6] = 151 /\ DaysBefore[7] = 181 /\ DaysBefore[8] = 212
      /\ DaysBefore[9] = 243 /\ DaysBefore[10] = 273 /\ DaysBefore[11] = 304 /\ DaysBefore[12] = 334
  BY DEF DaysBefore
<1>2. \/ month = 1 \/ month = 2 \/ month = 3 \/ month = 4 \/ month = 5 \/ month = 6
      \/ month = 7 \/ month = 8 \/ month = 9 \/ month = 10 \/ month = 11 \/ month = 12
  OBVIOUS
<1> HIDE DEF DaysBefore
<1> QED BY <1>1, <1>2 DEF Ahead, DaysIn

\* Months later in a year begin after those before them have ended.
LEMMA MonthsInOrder ==
  ASSUME NEW year \in Int, NEW m \in 1..12, NEW n \in 1..12, m < n
  PROVE  Ahead(year, m) + DaysIn(year, m) <= Ahead(year, n)
<1> DEFINE T == {k \in Nat : k <= 11 /\ m + k <= 11 => Ahead(year, m) + DaysIn(year, m) <= Ahead(year, m + 1 + k)}
<1>1. 0 \in T
  <2>1. m + 1 + 0 = m + 1
    OBVIOUS
  <2>2. m <= 11 => Ahead(year, m) + DaysIn(year, m) = Ahead(year, m + 1) /\ Ahead(year, m + 1) \in Int
    <3>1. SUFFICES ASSUME m <= 11
                   PROVE  Ahead(year, m) + DaysIn(year, m) = Ahead(year, m + 1) /\ Ahead(year, m + 1) \in Int
      OBVIOUS
    <3>2. PICK j \in 1..12 : j = m + 1 /\ m < 12
      BY <3>1
    <3>3. Ahead(year, m) + DaysIn(year, m) = Ahead(year, m + 1)
      BY <3>2, AheadFacts
    <3>4. Ahead(year, j) \in Nat
      BY AheadFacts
    <3> QED BY <3>2, <3>3, <3>4
  <2>3. m + 0 <= 11 => Ahead(year, m) + DaysIn(year, m) <= Ahead(year, m + 1 + 0)
    <3>1. SUFFICES ASSUME m + 0 <= 11
                   PROVE  Ahead(year, m) + DaysIn(year, m) <= Ahead(year, m + 1)
      BY <2>1
    <3>2. m <= 11
      BY <3>1
    <3> QED BY <2>2, <3>2
  <2> QED BY <2>3
<1>2. ASSUME NEW k \in Nat, k \in T PROVE k + 1 \in T
  <2>1. SUFFICES ASSUME m + (k + 1) <= 11
                 PROVE  Ahead(year, m) + DaysIn(year, m) <= Ahead(year, m + 1 + (k + 1))
    OBVIOUS
  <2>2. PICK j \in 1..12 : j = m + 1 + k /\ j < 12 /\ j + 1 = m + 1 + (k + 1)
    BY <2>1
  <2>3. Ahead(year, m) + DaysIn(year, m) <= Ahead(year, j)
    BY <1>2, <2>1, <2>2
  <2>4. Ahead(year, j) + DaysIn(year, j) = Ahead(year, j + 1) /\ Ahead(year, j) \in Nat /\ DaysIn(year, j) \in 28..31
    <3>1. Ahead(year, j) \in Nat /\ DaysIn(year, j) \in 28..31
      BY AheadFacts
    <3>2. j < 12 => Ahead(year, j) + DaysIn(year, j) = Ahead(year, j + 1)
      BY AheadFacts
    <3> QED BY <2>2, <3>1, <3>2
  <2>5. Ahead(year, m) \in Nat /\ DaysIn(year, m) \in 28..31
    BY AheadFacts
  <2> QED BY <2>2, <2>3, <2>4, <2>5
<1>3. \A k \in Nat : k \in T
  <2> HIDE DEF T
  <2> QED BY <1>1, <1>2, NatSteps
<1>4. PICK k \in Nat : k = n - m - 1
  OBVIOUS
<1>5. k \in T /\ k <= 11 /\ m + k <= 11 /\ m + 1 + k = n
  BY <1>3, <1>4
<1> QED BY <1>5

\* Each year begins when the one before it has ended, ...
LEMMA NewYearStep ==
  ASSUME NEW year \in Int
  PROVE  /\ NewYear(year) \in Int
         /\ NewYear(year) + 365 + (IF year % 4 = 0 THEN 1 ELSE 0) = NewYear(year + 1)
<1>1. year + 1 - 1 = year
  OBVIOUS
<1>2. year \div 4 = (year - 1) \div 4 + (IF year % 4 = 0 THEN 1 ELSE 0)
  OBVIOUS
<1> QED BY <1>1, <1>2 DEF NewYear

\* ... and so do all after it.
LEMMA YearsInOrder ==
  ASSUME NEW y \in Int, NEW z \in Int, y < z
  PROVE  NewYear(y) + 365 + (IF y % 4 = 0 THEN 1 ELSE 0) <= NewYear(z)
<1>1. NewYear(y + 1) <= NewYear(z)
  <2>1. (y + 1 - 1) \div 4 <= (z - 1) \div 4
    OBVIOUS
  <2> QED BY <2>1 DEF NewYear
<1> QED BY <1>1, NewYearStep

\* The number of a day counts those of the years and months before it.
LEMMA NumberOf ==
  ASSUME NEW d, d.year \in Int, d.month \in 1..12, d.day \in Int
  PROVE  /\ Number(d) = NewYear(d.year) + Ahead(d.year, d.month) + d.day
         /\ Number(d) \in Int
<1>1. NewYear(d.year) \in Int /\ Ahead(d.year, d.month) \in Nat
  BY AheadFacts, NewYearStep
<1>2. DaysBefore[d.month] \in Int
  BY DEF DaysBefore
<1>3. Number(d) = NewYear(d.year) + Ahead(d.year, d.month) + d.day
  <2> HIDE DEF DaysBefore
  <2> QED BY <1>2 DEF Number, NewYear, Ahead
<1> QED BY <1>1, <1>3

\* A day of some year, also of one outside the calendar.
InYear(d) == /\ d.year \in Int /\ d.month \in 1..12 /\ d.day \in 1..31
             /\ d.day <= DaysIn(d.year, d.month)

\* A later day has a larger number.
LEMMA NumbersInOrder ==
  ASSUME NEW d, InYear(d), NEW e, InYear(e), Before(d, e)
  PROVE  Number(d) < Number(e)
<1>1. /\ Number(d) = NewYear(d.year) + Ahead(d.year, d.month) + d.day
      /\ Number(e) = NewYear(e.year) + Ahead(e.year, e.month) + e.day
  BY NumberOf DEF InYear
<1>2. PICK y \in Int, z \in Int, m \in 1..12, n \in 1..12, i \in 1..31, j \in 1..31 :
        y = d.year /\ z = e.year /\ m = d.month /\ n = e.month /\ i = d.day /\ j = e.day
  BY DEF InYear
<1>3. i <= DaysIn(y, m) /\ j <= DaysIn(z, n)
  BY <1>2 DEF InYear
<1>4. \/ y < z \/ (y = z /\ m < n) \/ (y = z /\ m = n /\ i < j)
  BY <1>2 DEF Before
<1>5. /\ Ahead(y, m) \in Nat /\ Ahead(z, n) \in Nat /\ DaysIn(y, m) \in 28..31
      /\ NewYear(y) \in Int /\ NewYear(z) \in Int
  <2>1. Ahead(y, m) \in Nat /\ DaysIn(y, m) \in 28..31
    BY AheadFacts
  <2>2. Ahead(z, n) \in Nat
    BY AheadFacts
  <2>3. NewYear(y) \in Int /\ NewYear(z) \in Int
    BY NewYearStep
  <2> QED BY <2>1, <2>2, <2>3
<1>6. CASE y < z
  <2>1. NewYear(y) + 365 + (IF y % 4 = 0 THEN 1 ELSE 0) <= NewYear(z)
    BY <1>6, YearsInOrder
  <2>2. Ahead(y, m) + DaysIn(y, m) <= 365 + (IF y % 4 = 0 THEN 1 ELSE 0)
    <3>1. 12 \in 1..12
      OBVIOUS
    <3>2. Ahead(y, 12) + DaysIn(y, 12) = 365 + (IF y % 4 = 0 THEN 1 ELSE 0) /\ DaysIn(y, 12) \in 28..31
          /\ Ahead(y, 12) \in Nat
      BY <3>1, AheadFacts
    <3>3. m < 12 => Ahead(y, m) + DaysIn(y, m) <= Ahead(y, 12)
      BY <3>1, MonthsInOrder
    <3> QED BY <1>5, <3>2, <3>3
  <2> QED BY <1>1, <1>2, <1>3, <1>5, <2>1, <2>2
<1>7. CASE y = z /\ m < n
  <2>1. Ahead(y, m) + DaysIn(y, m) <= Ahead(y, n)
    BY <1>7, MonthsInOrder
  <2> QED BY <1>1, <1>2, <1>3, <1>5, <1>7, <2>1
<1>8. CASE y = z /\ m = n /\ i < j
  BY <1>1, <1>2, <1>5, <1>8
<1> QED BY <1>4, <1>6, <1>7, <1>8

\* No earlier day has a larger one.
LEMMA NumbersUpTo ==
  ASSUME NEW d, InYear(d), NEW e, InYear(e), UpTo(d, e)
  PROVE  Number(d) <= Number(e) /\ Number(d) \in Int /\ Number(e) \in Int
<1>1. Number(d) \in Int /\ Number(e) \in Int
  BY NumberOf DEF InYear
<1> QED BY <1>1, NumbersInOrder DEF UpTo

\* Days are in order.
LEMMA UpToChain ==
  ASSUME NEW c, NEW d, NEW e, InYear(c), InYear(d), InYear(e), UpTo(c, d), UpTo(d, e)
  PROVE  UpTo(c, e)
BY DEF UpTo, Before, InYear

\* Rows, goal and clock are on days of the calendar.
LEMMA SpendingFacts ==
  ASSUME SpendingTypeOK
  PROVE  /\ IsDay(today) /\ IsDay(savings.since) /\ IsFiniteSet(entries)
         /\ \A e \in entries : e \in Entries /\ IsDay(e.on) /\ e.amount \in Nat /\ e.kind \in Kinds
BY SpendingAssumption DEF SpendingTypeOK

\* The days of the calendar are such days.
LEMMA DaysAreInYear ==
  ASSUME NEW d, IsDay(d)
  PROVE  InYear(d)
BY IsDayFacts DEF InYear

\* A day as its year, month and day.
LEMMA DayParts ==
  ASSUME NEW d, IsDay(d)
  PROVE  \E dy \in Int, dm \in 1..12, dd \in 1..31 :
           dy = d.year /\ dm = d.month /\ dd = d.day /\ d = Date(dy, dm, dd) /\ dd <= DaysIn(dy, dm)
<1>1. d.year \in Int /\ d.month \in 1..12 /\ d.day \in 1..31
  BY IsDayFacts
<1>2. d = Date(d.year, d.month, d.day) /\ d.day <= DaysIn(d.year, d.month)
  BY IsDayFacts
<1> DEFINE y == d.year  m == d.month  i == d.day
<1>3. y \in Int /\ m \in 1..12 /\ i \in 1..31
  BY <1>1
<1>4. y = d.year /\ m = d.month /\ i = d.day /\ d = Date(y, m, i) /\ i <= DaysIn(y, m)
  BY <1>2
<1> HIDE DEF y, m, i
<1> QED BY <1>3, <1>4

\* A day is in a month or later when it is not before the first of it, ...
LEMMA FromFirst ==
  ASSUME NEW d, IsDay(d), NEW y \in Int, NEW m \in 1..12
  PROVE  UpTo(Date(y, m, 1), d) <=> y < d.year \/ (y = d.year /\ m <= d.month)
<1>1. PICK dy \in Int, dm \in 1..12, dd \in 1..31 :
        dy = d.year /\ dm = d.month /\ dd = d.day /\ d = Date(dy, dm, dd)
  BY DayParts
<1>2. Date(y, m, 1) = Date(dy, dm, dd) <=> y = dy /\ m = dm /\ dd = 1
  BY DEF Date
<1>3. Before(Date(y, m, 1), d) <=> y < dy \/ (y = dy /\ m < dm) \/ (y = dy /\ m = dm /\ 1 < dd)
  BY <1>1 DEF Before, Date
<1> QED BY <1>1, <1>2, <1>3 DEF UpTo

\* ... and in it or earlier when it is not after its last.
LEMMA UntilLast ==
  ASSUME NEW d, IsDay(d), NEW y \in Int, NEW m \in 1..12
  PROVE  UpTo(d, Date(y, m, DaysIn(y, m))) <=> d.year < y \/ (d.year = y /\ d.month <= m)
<1>1. PICK dy \in Int, dm \in 1..12, dd \in 1..31 :
        dy = d.year /\ dm = d.month /\ dd = d.day /\ d = Date(dy, dm, dd) /\ dd <= DaysIn(dy, dm)
  BY DayParts
<1>2. PICK last \in 28..31 : last = DaysIn(y, m)
  BY AheadFacts
<1>3. Date(dy, dm, dd) = Date(y, m, last) <=> y = dy /\ m = dm /\ dd = last
  BY DEF Date
<1>4. Before(d, Date(y, m, last)) <=> dy < y \/ (y = dy /\ dm < m) \/ (y = dy /\ m = dm /\ dd < last)
  BY <1>1 DEF Before, Date
<1>5. y = dy /\ m = dm => dd <= last
  BY <1>1, <1>2
<1> QED BY <1>1, <1>2, <1>3, <1>4, <1>5 DEF UpTo

\* An earlier day is in no later month.
LEMMA UpToMonths ==
  ASSUME NEW d, IsDay(d), NEW e, IsDay(e), UpTo(d, e)
  PROVE  d.year < e.year \/ (d.year = e.year /\ d.month <= e.month)
BY IsDayFacts DEF UpTo, Before

\* The first month of each of the windows that end today.
FirstMonth(period) ==
  CASE period = "last_3_months" ->
         IF today.month <= 3 THEN Date(today.year - 1, today.month + 9, 1)
                             ELSE Date(today.year, today.month - 3, 1)
    [] period = "this_year"    -> Date(today.year, 1, 1)
    [] period = "last_5_years" -> Date(today.year - 4, 1, 1)
    [] OTHER                   -> Date(today.year, today.month, 1)

\* All windows but the last month's begin with a month and end today.
LEMMA WindowsUpToToday ==
  ASSUME IsDay(today), NEW period \in Periods \ {"last_month"}
  PROVE  \E y \in Int, m \in 1..12 :
           /\ Window(period) = [start |-> Date(y, m, 1), end |-> today]
           /\ FirstMonth(period) = Date(y, m, 1)
           /\ y < today.year \/ (y = today.year /\ m <= today.month)
<1>1. PICK ty \in Int, tm \in 1..12 : ty = today.year /\ tm = today.month
  BY IsDayFacts
<1>2. CASE period = "this_month"
  BY <1>1, <1>2 DEF Window, Since, FirstMonth
<1>3. CASE period = "this_year"
  <2>1. Window(period) = [start |-> Date(ty, 1, 1), end |-> today] /\ FirstMonth(period) = Date(ty, 1, 1)
    BY <1>1, <1>3 DEF Window, Since, FirstMonth
  <2>2. 1 \in 1..12 /\ 1 <= tm
    OBVIOUS
  <2> QED BY <1>1, <2>1, <2>2
<1>4. CASE period = "last_5_years"
  <2>1. /\ Window(period) = [start |-> Date(ty - 4, 1, 1), end |-> today]
        /\ FirstMonth(period) = Date(ty - 4, 1, 1)
    BY <1>1, <1>4 DEF Window, Since, FirstMonth
  <2>2. ty - 4 \in Int /\ 1 \in 1..12 /\ ty - 4 < ty
    OBVIOUS
  <2> QED BY <1>1, <2>1, <2>2
<1>5. CASE period = "last_3_months" /\ tm <= 3
  <2>1. /\ Window(period) = [start |-> Date(ty - 1, tm + 9, 1), end |-> today]
        /\ FirstMonth(period) = Date(ty - 1, tm + 9, 1)
    BY <1>1, <1>5 DEF Window, Since, FirstMonth
  <2>2. ty - 1 \in Int /\ tm + 9 \in 1..12 /\ ty - 1 < ty
    BY <1>5
  <2> QED BY <1>1, <2>1, <2>2
<1>6. CASE period = "last_3_months" /\ ~ tm <= 3
  <2>1. /\ Window(period) = [start |-> Date(ty, tm - 3, 1), end |-> today]
        /\ FirstMonth(period) = Date(ty, tm - 3, 1)
    BY <1>1, <1>6 DEF Window, Since, FirstMonth
  <2>2. tm - 3 \in 1..12 /\ tm - 3 <= tm
    BY <1>6
  <2> QED BY <1>1, <2>1, <2>2
<1> QED BY <1>2, <1>3, <1>4, <1>5, <1>6 DEF Periods

\* The last month's window is the month before this, whatever the year.
LEMMA LastMonth ==
  ASSUME IsDay(today)
  PROVE  \E y \in Int, m \in 1..12 :
           /\ Window("last_month") = [start |-> Date(y, m, 1), end |-> Date(y, m, DaysIn(y, m))]
           /\ 12 * (today.year - y) + (today.month - m) = 1
<1>1. PICK ty \in Int, tm \in 1..12 : ty = today.year /\ tm = today.month
  BY IsDayFacts
<1>2. CASE tm = 1
  <2>1. Window("last_month") = [start |-> Date(ty - 1, 12, 1), end |-> Date(ty - 1, 12, DaysIn(ty - 1, 12))]
    BY <1>1, <1>2 DEF Window, WholeMonth
  <2>2. ty - 1 \in Int /\ 12 \in 1..12 /\ 12 * (ty - (ty - 1)) + (tm - 12) = 1
    BY <1>2
  <2> QED BY <1>1, <2>1, <2>2
<1>3. CASE tm # 1
  <2>1. Window("last_month") = [start |-> Date(ty, tm - 1, 1), end |-> Date(ty, tm - 1, DaysIn(ty, tm - 1))]
    BY <1>1, <1>3 DEF Window, WholeMonth
  <2>2. tm - 1 \in 1..12 /\ 12 * (ty - ty) + (tm - (tm - 1)) = 1
    BY <1>3
  <2> QED BY <1>1, <2>1, <2>2
<1> QED BY <1>2, <1>3

\* The first and the last of a month are days.
LEMMA FirstIsInYear ==
  ASSUME NEW y \in Int, NEW m \in 1..12
  PROVE  /\ InYear(Date(y, m, 1)) /\ InYear(Date(y, m, DaysIn(y, m)))
         /\ UpTo(Date(y, m, 1), Date(y, m, DaysIn(y, m)))
<1>1. PICK last \in 28..31 : last = DaysIn(y, m)
  BY AheadFacts
<1>2. InYear(Date(y, m, 1)) /\ InYear(Date(y, m, last))
  BY <1>1 DEF InYear, Date
<1>3. UpTo(Date(y, m, 1), Date(y, m, last))
  BY DEF UpTo, Before, Date
<1> QED BY <1>1, <1>2, <1>3

\* A window begins before it ends.
LEMMA WindowFacts ==
  ASSUME IsDay(today), NEW period \in Periods
  PROVE  /\ InYear(Window(period).start) /\ InYear(Window(period).end)
         /\ UpTo(Window(period).start, Window(period).end)
<1>1. CASE period = "last_month"
  <2>1. PICK y \in Int, m \in 1..12 :
           Window("last_month") = [start |-> Date(y, m, 1), end |-> Date(y, m, DaysIn(y, m))]
    BY LastMonth
  <2> QED BY <1>1, <2>1, FirstIsInYear
<1>2. CASE period # "last_month"
  <2>1. PICK y \in Int, m \in 1..12 :
           /\ Window(period) = [start |-> Date(y, m, 1), end |-> today]
           /\ y < today.year \/ (y = today.year /\ m <= today.month)
    BY <1>2, WindowsUpToToday
  <2>2. UpTo(Date(y, m, 1), today)
    BY <2>1, FromFirst
  <2> QED BY <2>1, <2>2, FirstIsInYear, DaysAreInYear
<1> QED BY <1>1, <1>2

\* A window and the span before it share no day, so that no row counts in both.
LEMMA WindowsApart ==
  ASSUME SpendingTypeOK
  PROVE  WindowsDoNotOverlap
<1> SUFFICES ASSUME NEW period \in Periods
             PROVE  /\ Length(Window(period)) > 0
                    /\ Preceding(Window(period)) \cap Within(Window(period)) = {}
  BY DEF WindowsDoNotOverlap
<1> DEFINE start == Window(period).start  end == Window(period).end
<1>1. IsDay(today) /\ InYear(start) /\ InYear(end) /\ UpTo(start, end)
  BY SpendingFacts, WindowFacts
<1>2. Number(start) <= Number(end) /\ Number(start) \in Int /\ Number(end) \in Int
  <2> HIDE DEF start, end
  <2> QED BY <1>1, NumbersUpTo
<1>3. Length(Window(period)) = Number(end) - Number(start) + 1
  BY DEF Length
<1>4. ASSUME NEW e \in entries, e \in Within(Window(period)) PROVE e \notin Preceding(Window(period))
  <2>1. UpTo(start, e.on) /\ InYear(e.on)
    BY <1>4, SpendingFacts, DaysAreInYear DEF Within
  <2>2. Number(start) <= Number(e.on) /\ Number(e.on) \in Int
    <3> HIDE DEF start
    <3> QED BY <1>1, <2>1, NumbersUpTo
  <2>3. PICK low \in Int : low = Number(start) - 1 - Length(Window(period)) + 1
    <3> HIDE DEF start, end
    <3> QED BY <1>2, <1>3
  <2>4. Preceding(Window(period)) = {f \in entries : Number(f.on) \in low..(Number(start) - 1)}
    BY <2>3 DEF Preceding
  <2>5. ~ (Number(e.on) \in low..(Number(start) - 1))
    <3> HIDE DEF start
    <3> QED BY <1>2, <2>2
  <2> QED BY <2>4, <2>5
<1>5. Length(Window(period)) > 0
  <2> HIDE DEF start, end
  <2> QED BY <1>2, <1>3
<1>6. Within(Window(period)) \subseteq entries
  BY DEF Within
<1> QED BY <1>4, <1>5, <1>6

(***************************************************************************)
(* The summaries, the envelopes, the savings goal and the score            *)
(***************************************************************************)

\* The amount of each transaction.
Amount == [e \in Entries |-> e.amount]

\* A page's total is a sum of amounts, ...
LEMMA TotalSum ==
  ASSUME NEW rows \in SUBSET Entries, IsFiniteSet(rows)
  PROVE  Total(rows) = SumFunctionOnSet(Amount, rows) /\ Total(rows) \in Nat
<1> DEFINE f == [e \in rows |-> e.amount]
<1>1. DOMAIN f = rows /\ \A e \in rows : f[e] = e.amount /\ Amount[e] = e.amount
  BY DEF Amount
<1>2. \A e \in rows : e.amount \in Nat
  BY SpendingAssumption
<1> HIDE DEF f
<1>3. Total(rows) = SumFunctionOnSet(f, rows)
  BY <1>1 DEF Total, SumFunction, f
<1>4. \A e \in rows : Amount[e] \in Int /\ f[e] = Amount[e] /\ 0 <= Amount[e]
  BY <1>1, <1>2
<1>5. SumFunctionOnSet(f, rows) = SumFunctionOnSet(Amount, rows)
  BY <1>4, SumSame
<1> DEFINE z == [e \in rows |-> 0]
<1>6. \A e \in rows : z[e] = 0
  OBVIOUS
<1> HIDE DEF z
<1>7. SumFunctionOnSet(z, rows) = 0
  BY <1>6, SumOfZeros
<1>8. SumFunctionOnSet(z, rows) <= SumFunctionOnSet(Amount, rows)
  <2>1. \A e \in rows : z[e] \in Int
    BY <1>6
  <2>2. \A e \in rows : Amount[e] \in Int /\ z[e] <= Amount[e]
    BY <1>4, <1>6
  <2> QED BY <2>1, <2>2, SumAtMost
<1>9. SumFunctionOnSet(Amount, rows) \in Int
  BY <1>4, SumType
<1> QED BY <1>3, <1>5, <1>7, <1>8, <1>9

\* More rows add up to more.
LEMMA TotalOfPart ==
  ASSUME NEW rows \in SUBSET Entries, IsFiniteSet(rows), NEW part \in SUBSET rows
  PROVE  IsFiniteSet(part) /\ Total(part) <= Total(rows)
<1>1. IsFiniteSet(part) /\ IsFiniteSet(rows \ part)
  BY FS_Subset
<1>2. \A e \in rows : Amount[e] \in Int
  BY SpendingAssumption DEF Amount
<1>3. SumFunctionOnSet(Amount, rows) = SumFunctionOnSet(Amount, part) + SumFunctionOnSet(Amount, rows \ part)
  BY <1>2, SumUnion
<1>4. /\ Total(rows) = SumFunctionOnSet(Amount, rows)
      /\ Total(part) = SumFunctionOnSet(Amount, part) /\ Total(part) \in Nat
  BY <1>1, TotalSum
<1>5. Total(rows \ part) = SumFunctionOnSet(Amount, rows \ part) /\ Total(rows \ part) \in Nat
  BY <1>1, TotalSum
<1> QED BY <1>1, <1>3, <1>4, <1>5

\* The months with transactions are finitely many.
LEMMA SummarizedFinite ==
  ASSUME SpendingTypeOK, NEW months \in SUBSET Summarized
  PROVE  IsFiniteSet(months)
<1>1. IsFiniteSet(entries)
  BY SpendingFacts
<1>2. IsFiniteSet(Summarized)
  <2> DEFINE f == [e \in entries |-> Month(e.on)]
  <2>1. f \in Surjection(entries, Summarized)
    BY DEF Surjection, Summarized
  <2> QED BY <1>1, <2>1, FS_Surjection
<1> QED BY <1>2, FS_Subset

\* The rows of some months and kinds, and those of one month.
OfMonths(months, kinds) == {e \in entries : Month(e.on) \in months /\ e.kind \in kinds}
OfKinds(m, kinds) == {e \in InMonth(m.year, m.month) : e.kind \in kinds}

\* The sums of some months' rows add up to the sum of the rows of these months.
LEMMA SumOfMonths ==
  ASSUME SpendingTypeOK, NEW months \in SUBSET Summarized, NEW kinds
  PROVE  SumFunction([m \in months |-> Total(OfKinds(m, kinds))]) = Total(OfMonths(months, kinds))
<1> DEFINE S == OfMonths(months, kinds)
           key == [e \in entries |-> Month(e.on)]
           t == [m \in months |-> Total(OfKinds(m, kinds))]
<1>1. S \in SUBSET entries /\ entries \in SUBSET Entries /\ IsFiniteSet(entries)
  BY SpendingFacts DEF OfMonths
<1>2. IsFiniteSet(S) /\ IsFiniteSet(months)
  BY <1>1, SummarizedFinite, FS_Subset
<1>3. \A e \in S : Amount[e] \in Int
  BY <1>1, SpendingAssumption DEF Amount
<1>4. \A e \in S : key[e] \in months
  BY DEF OfMonths
<1>5. ASSUME NEW k \in months PROVE t[k] = SumFunctionOnSet(Amount, {e \in S : key[e] = k})
  <2>1. PICK d \in entries : k = Month(d.on)
    BY DEF Summarized
  <2>2. \A e \in entries : Month(e.on) = k <=> e.on.year = k.year /\ e.on.month = k.month
    BY <2>1 DEF Month
  <2>3. OfKinds(k, kinds) = {e \in S : key[e] = k}
    BY <2>2 DEF OfKinds, InMonth, OfMonths
  <2>4. OfKinds(k, kinds) \in SUBSET entries
    BY DEF OfKinds, InMonth
  <2>5. IsFiniteSet(OfKinds(k, kinds)) /\ OfKinds(k, kinds) \in SUBSET Entries
    BY <1>1, <2>4, FS_Subset
  <2>6. Total(OfKinds(k, kinds)) = SumFunctionOnSet(Amount, OfKinds(k, kinds))
    BY <2>5, TotalSum
  <2> QED BY <2>3, <2>6
<1> HIDE DEF S, key, t
<1>6. SumFunctionOnSet(t, months) = SumFunctionOnSet(Amount, S)
  <2>1. \A k \in months : t[k] = SumFunctionOnSet(Amount, Keyed(S, key, k))
    BY <1>5 DEF Keyed
  <2> QED BY <1>2, <1>3, <1>4, <2>1, SumByKeyed
<1>7. Total(S) = SumFunctionOnSet(Amount, S)
  BY <1>1, <1>2, TotalSum
<1>8. SumFunction(t) = SumFunctionOnSet(t, months)
  <2>1. DOMAIN t = months
    BY DEF t
  <2> QED BY <2>1 DEF SumFunction
<1> QED BY <1>6, <1>7, <1>8 DEF S, t

\* The kinds that are spending, and those that are inflow.
Outflow == {"debit", "fee"}
Income == {"credit"}

\* The summaries of some months add up to the totals of their rows.
LEMMA SummariesAddUp ==
  ASSUME SpendingTypeOK, NEW months \in SUBSET Summarized,
         NEW rows, rows = {e \in entries : Month(e.on) \in months}
  PROVE  Spend(rows) = SpendOf(months) /\ Inflow(rows) = InflowOf(months)
<1>1. \A m \in months : Summary(m).spend = Total(OfKinds(m, Outflow))
  BY DEF Summary, Spend, OfKinds, Outflow
<1>2. \A m \in months : Summary(m).inflow = Total(OfKinds(m, Income))
  <2>1. \A m \in months : {e \in InMonth(m.year, m.month) : e.kind = "credit"} = OfKinds(m, Income)
    BY DEF OfKinds, Income
  <2> QED BY <2>1 DEF Summary, Inflow
<1>3. SpendOf(months) = Total(OfMonths(months, Outflow))
  BY <1>1, SumOfMonths DEF SpendOf
<1>4. InflowOf(months) = Total(OfMonths(months, Income))
  BY <1>2, SumOfMonths DEF InflowOf
<1>5. {e \in rows : e.kind \in {"debit", "fee"}} = OfMonths(months, Outflow)
  BY DEF OfMonths, Outflow
<1>6. {e \in rows : e.kind = "credit"} = OfMonths(months, Income)
  BY DEF OfMonths, Income
<1> QED BY <1>3, <1>4, <1>5, <1>6 DEF Spend, Inflow

\* A window holds the rows of its months.
LEMMA WindowIsMonths ==
  ASSUME SpendingTypeOK, NEW period \in Periods, period = "last_month" \/ NoneAhead,
         NEW e \in entries
  PROVE  e \in Within(Window(period)) <=> Month(e.on) \in MonthsOf(period)
<1>1. IsDay(today) /\ IsDay(e.on)
  BY SpendingFacts
<1>2. PICK ey \in Int, em \in 1..12 : ey = e.on.year /\ em = e.on.month
  BY <1>1, IsDayFacts
<1>3. PICK ty \in Int, tm \in 1..12 : ty = today.year /\ tm = today.month
  BY <1>1, IsDayFacts
<1>4. Month(e.on) \in Summarized /\ Month(e.on).year = ey /\ Month(e.on).month = em
  BY <1>2 DEF Summarized, Month
<1>5. Ago(Month(e.on)) = 12 * (ty - ey) + (tm - em)
  BY <1>3, <1>4 DEF Ago
<1>6. CASE period = "last_month"
  <2>1. PICK y \in Int, m \in 1..12 :
           /\ Window("last_month") = [start |-> Date(y, m, 1), end |-> Date(y, m, DaysIn(y, m))]
           /\ 12 * (ty - y) + (tm - m) = 1
    BY <1>1, <1>3, LastMonth
  <2>2. e \in Within(Window(period)) <=> ey = y /\ em = m
    <3>1. UpTo(Date(y, m, 1), e.on) <=> y < ey \/ (y = ey /\ m <= em)
      BY <1>1, <1>2, FromFirst
    <3>2. UpTo(e.on, Date(y, m, DaysIn(y, m))) <=> ey < y \/ (ey = y /\ em <= m)
      BY <1>1, <1>2, UntilLast
    <3>3. e \in Within(Window(period))
            <=> UpTo(Date(y, m, 1), e.on) /\ UpTo(e.on, Date(y, m, DaysIn(y, m)))
      BY <1>6, <2>1 DEF Within
    <3> QED BY <3>1, <3>2, <3>3
  <2>3. Month(e.on) \in MonthsOf(period) <=> Ago(Month(e.on)) = 1
    BY <1>4, <1>6 DEF MonthsOf
  <2>4. Ago(Month(e.on)) = 1 <=> ey = y /\ em = m
    BY <1>5, <2>1
  <2> QED BY <2>2, <2>3, <2>4
<1>7. CASE period # "last_month"
  <2>1. PICK y \in Int, m \in 1..12 :
           /\ Window(period) = [start |-> Date(y, m, 1), end |-> today]
           /\ FirstMonth(period) = Date(y, m, 1)
    BY <1>1, <1>7, WindowsUpToToday
  <2>2. UpTo(e.on, today)
    BY <1>7 DEF NoneAhead
  <2>3. ey < ty \/ (ey = ty /\ em <= tm)
    BY <1>1, <1>2, <1>3, <2>2, UpToMonths
  <2>4. e \in Within(Window(period)) <=> y < ey \/ (y = ey /\ m <= em)
    <3>1. UpTo(Date(y, m, 1), e.on) <=> y < ey \/ (y = ey /\ m <= em)
      BY <1>1, <1>2, FromFirst
    <3>2. e \in Within(Window(period)) <=> UpTo(Date(y, m, 1), e.on)
      BY <2>1, <2>2 DEF Within
    <3> QED BY <3>1, <3>2
  <2>5. y = FirstMonth(period).year /\ m = FirstMonth(period).month
    BY <2>1 DEF Date
  <2>6. CASE period = "this_month"
    <3>1. Month(e.on) \in MonthsOf(period) <=> Ago(Month(e.on)) = 0
      BY <1>4, <2>6 DEF MonthsOf
    <3>2. y = ty /\ m = tm
      BY <1>3, <2>5, <2>6 DEF FirstMonth, Date
    <3> QED BY <1>5, <2>3, <2>4, <3>1, <3>2
  <2>7. CASE period = "this_year"
    <3>1. Month(e.on) \in MonthsOf(period) <=> ey = ty
      BY <1>3, <1>4, <2>7 DEF MonthsOf
    <3>2. y = ty /\ m = 1
      BY <1>3, <2>5, <2>7 DEF FirstMonth, Date
    <3> QED BY <2>3, <2>4, <3>1, <3>2
  <2>8. CASE period = "last_5_years"
    <3>1. Month(e.on) \in MonthsOf(period) <=> ey \in (ty - 4)..ty
      BY <1>3, <1>4, <2>8 DEF MonthsOf
    <3>2. y = ty - 4 /\ m = 1
      BY <1>3, <2>5, <2>8 DEF FirstMonth, Date
    <3> QED BY <2>3, <2>4, <3>1, <3>2
  <2>9. CASE period = "last_3_months"
    <3>1. Month(e.on) \in MonthsOf(period) <=> Ago(Month(e.on)) \in 0..3
      BY <1>4, <2>9 DEF MonthsOf
    <3>2. (tm <= 3 /\ y = ty - 1 /\ m = tm + 9) \/ (tm > 3 /\ y = ty /\ m = tm - 3)
      <4>1. CASE tm <= 3
        BY <1>3, <2>5, <2>9, <4>1 DEF FirstMonth, Date
      <4>2. CASE ~ tm <= 3
        BY <1>3, <2>5, <2>9, <4>2 DEF FirstMonth, Date
      <4> QED BY <4>1, <4>2
    <3>3. Ago(Month(e.on)) \in 0..3 <=> y < ey \/ (y = ey /\ m <= em)
      BY <1>5, <2>3, <3>2
    <3> QED BY <2>4, <3>1, <3>3
  <2> QED BY <1>7, <2>6, <2>7, <2>8, <2>9 DEF Periods
<1> QED BY <1>6, <1>7

\* The dashboard shows what the summaries of its months add up to.
LEMMA WindowsFit ==
  ASSUME SpendingTypeOK
  PROVE  WindowsFitSummaries
<1> SUFFICES ASSUME NEW period \in Periods, period = "last_month" \/ NoneAhead
             PROVE  /\ Spend(Within(Window(period))) = SpendOf(MonthsOf(period))
                    /\ Inflow(Within(Window(period))) = InflowOf(MonthsOf(period))
  BY DEF WindowsFitSummaries
<1>1. MonthsOf(period) \in SUBSET Summarized
  BY DEF MonthsOf
<1>2. Within(Window(period)) \subseteq entries
  BY DEF Within
<1>3. Within(Window(period)) = {e \in entries : Month(e.on) \in MonthsOf(period)}
  BY <1>2, WindowIsMonths
<1> QED BY <1>1, <1>3, SummariesAddUp

\* Without rows ahead, this month's window is the month.
LEMMA ThisMonth ==
  ASSUME SpendingTypeOK, NoneAhead
  PROVE  Within(Window("this_month")) = InMonth(today.year, today.month)
<1>1. ASSUME NEW e \in entries
      PROVE  e \in Within(Window("this_month")) <=> e.on.year = today.year /\ e.on.month = today.month
  <2>1. "this_month" \in Periods
    BY DEF Periods
  <2>2. e \in Within(Window("this_month")) <=> Month(e.on) \in MonthsOf("this_month")
    BY <2>1, WindowIsMonths
  <2>3. IsDay(today) /\ IsDay(e.on)
    BY SpendingFacts
  <2>4. PICK ey \in Int, em \in 1..12, ty \in Int, tm \in 1..12 :
          ey = e.on.year /\ em = e.on.month /\ ty = today.year /\ tm = today.month
    BY <2>3, IsDayFacts
  <2>5. Month(e.on) \in MonthsOf("this_month") <=> Ago(Month(e.on)) = 0
    BY DEF MonthsOf, Summarized
  <2>6. Ago(Month(e.on)) = 12 * (ty - ey) + (tm - em)
    BY <2>4 DEF Ago, Month
  <2>7. Ago(Month(e.on)) = 0 <=> ey = ty /\ em = tm
    <3>1. 12 * (ty - ey) + (tm - em) = 0 => ey = ty
      OBVIOUS
    <3>2. 12 * (ty - ey) + (tm - em) = 0 <=> ey = ty /\ em = tm
      BY <3>1
    <3> QED BY <2>6, <3>2
  <2> QED BY <2>2, <2>4, <2>5, <2>7
<1> QED BY <1>1 DEF InMonth, Within

\* Dashboard, progress and breakdown say the same of an envelope.
LEMMA EnvelopesFit ==
  ASSUME SpendingTypeOK
  PROVE  EnvelopesAgree
<1> DEFINE month == Month(today)
           rows == InMonth(month.year, month.month)
<1> SUFFICES ASSUME NoneAhead, NEW c \in DOMAIN Envelopes
             PROVE  /\ EnvelopeStatus(c, Within(Window("this_month"))) = EnvelopeStatus(c, rows)
                    /\ (c \in DOMAIN Breakdown(month) /\ \A e \in Of(c, rows) : e.kind \in {"debit", "fee"})
                         => Breakdown(month)[c] = Actual(c, rows)
  BY DEF EnvelopesAgree
<1>1. Within(Window("this_month")) = rows
  BY ThisMonth DEF Month
<1>2. ASSUME c \in DOMAIN Breakdown(month), \A e \in Of(c, rows) : e.kind \in {"debit", "fee"}
      PROVE  Breakdown(month)[c] = Actual(c, rows)
  <2> HIDE DEF month
  <2> DEFINE listed == {e \in rows : e.category # "none"}
  <2>1. Breakdown(month) = [d \in {e.category : e \in listed} |-> Total(Of(d, listed))]
    BY DEF Breakdown
  <2> HIDE DEF listed
  <2>2. c \in {e.category : e \in listed}
    BY <1>2, <2>1
  <2>3. Breakdown(month)[c] = Total(Of(c, listed)) /\ c # "none"
    BY <2>1, <2>2 DEF listed
  <2>4. Of(c, listed) = Of(c, rows)
    BY <2>3 DEF Of, listed
  <2>5. {e \in Of(c, rows) : e.kind \in {"debit", "fee"}} = Of(c, rows)
    BY <1>2
  <2> QED BY <2>3, <2>4, <2>5 DEF Actual, Spend
<1> QED BY <1>1, <1>2

\* The rows since the goal was set.
SinceGoal(rows) == {e \in rows : UpTo(savings.since, e.on)}

\* Since the first of a month, what was saved is what the summaries add up to.
LEMMA SavedFromSummaries ==
  ASSUME SpendingTypeOK, savings.since.day = 1,
         NEW months, months = {m \in Summarized : UpTo(savings.since, Date(m.year, m.month, 1))}
  PROVE  SavedSoFar(entries) = Positive(InflowOf(months) - SpendOf(months))
<1>1. IsDay(savings.since)
  BY SpendingFacts
<1>2. PICK y \in Int, m \in 1..12 : savings.since = Date(y, m, 1)
  BY <1>1, DayParts
<1>3. ASSUME NEW e \in entries
      PROVE  UpTo(savings.since, e.on) <=> Month(e.on) \in months
  <2>1. IsDay(e.on) /\ Month(e.on) \in Summarized
    BY SpendingFacts DEF Summarized
  <2>2. PICK ey \in Int, em \in 1..12 : ey = e.on.year /\ em = e.on.month
    BY <2>1, IsDayFacts
  <2>3. Month(e.on).year = ey /\ Month(e.on).month = em
    BY <2>2 DEF Month
  <2>4. IsDay(Date(ey, em, 1))
    <3>1. ey \in Nat /\ 1901 <= ey /\ ey <= 2099
      BY <2>1, <2>2 DEF IsDay
    <3>2. DaysIn(ey, em) \in 28..31
      BY AheadFacts
    <3> QED BY <3>1, <3>2 DEF IsDay, Date
  <2>5. Date(ey, em, 1).year = ey /\ Date(ey, em, 1).month = em
    BY DEF Date
  <2>6. UpTo(Date(y, m, 1), Date(ey, em, 1)) <=> y < ey \/ (y = ey /\ m <= em)
    BY <2>4, <2>5, FromFirst
  <2>7. UpTo(Date(y, m, 1), e.on) <=> y < ey \/ (y = ey /\ m <= em)
    BY <2>1, <2>2, FromFirst
  <2> QED BY <1>2, <2>1, <2>3, <2>6, <2>7
<1>4. SinceGoal(entries) = {e \in entries : Month(e.on) \in months}
  BY <1>3 DEF SinceGoal
<1>5. Spend(SinceGoal(entries)) = SpendOf(months) /\ Inflow(SinceGoal(entries)) = InflowOf(months)
  <2>1. months \in SUBSET Summarized
    OBVIOUS
  <2> QED BY <1>4, <2>1, SummariesAddUp
<1> QED BY <1>5 DEF SavedSoFar, SinceGoal

\* Spending and inflow are amounts.
LEMMA FlowTypes ==
  ASSUME NEW rows \in SUBSET Entries, IsFiniteSet(rows)
  PROVE  Spend(rows) \in Nat /\ Inflow(rows) \in Nat
<1>1. /\ {e \in rows : e.kind \in {"debit", "fee"}} \in SUBSET rows
      /\ {e \in rows : e.kind = "credit"} \in SUBSET rows
  OBVIOUS
<1>2. \A part \in SUBSET rows : IsFiniteSet(part) /\ part \in SUBSET Entries
  BY FS_Subset
<1>3. \A part \in SUBSET rows : Total(part) \in Nat
  BY <1>2, TotalSum
<1> QED BY <1>1, <1>3 DEF Spend, Inflow

\* More income is more saved.
LEMMA SavedGrows ==
  ASSUME SpendingTypeOK, NEW e \in Entries, e.kind = "credit"
  PROVE  /\ SavedSoFar(entries) \in Nat /\ SavedSoFar(entries \cup {e}) \in Nat
         /\ SavedSoFar(entries) <= SavedSoFar(entries \cup {e})
<1> DEFINE rows == SinceGoal(entries)  more == SinceGoal(entries \cup {e})
<1>1. IsFiniteSet(entries) /\ entries \in SUBSET Entries
  BY SpendingFacts
<1>2. IsFiniteSet(entries \cup {e}) /\ entries \cup {e} \in SUBSET Entries
  BY <1>1, FS_AddElement
<1>3. rows \in SUBSET entries /\ more \in SUBSET (entries \cup {e}) /\ rows \in SUBSET more
  BY DEF SinceGoal
<1>4. IsFiniteSet(rows) /\ IsFiniteSet(more) /\ rows \in SUBSET Entries /\ more \in SUBSET Entries
  BY <1>1, <1>2, <1>3, FS_Subset
<1>5. {d \in rows : d.kind \in {"debit", "fee"}} = {d \in more : d.kind \in {"debit", "fee"}}
  BY DEF SinceGoal
<1>6. Spend(rows) = Spend(more)
  BY <1>5 DEF Spend
<1> HIDE DEF rows, more
<1>7. Inflow(rows) <= Inflow(more)
  <2> DEFINE part == {d \in rows : d.kind = "credit"}  all == {d \in more : d.kind = "credit"}
  <2>1. part \in SUBSET all /\ all \in SUBSET more
    BY <1>3
  <2>2. IsFiniteSet(all) /\ all \in SUBSET Entries
    BY <1>4, <2>1, FS_Subset
  <2>3. Inflow(rows) = Total(part) /\ Inflow(more) = Total(all)
    BY DEF Inflow
  <2> HIDE DEF part, all
  <2> QED BY <2>1, <2>2, <2>3, TotalOfPart
<1>8. /\ Spend(rows) \in Nat /\ Spend(more) \in Nat /\ Inflow(rows) \in Nat /\ Inflow(more) \in Nat
  BY <1>4, FlowTypes
<1>9. /\ SavedSoFar(entries) = Positive(Inflow(rows) - Spend(rows))
      /\ SavedSoFar(entries \cup {e}) = Positive(Inflow(more) - Spend(more))
  BY DEF SavedSoFar, rows, more, SinceGoal
<1> QED BY <1>6, <1>7, <1>8, <1>9 DEF Positive

\* The more has been saved, the fewer days are needed for the rest.
LEMMA FasterWithMore ==
  ASSUME NEW target \in Nat, NEW s \in Nat \ {0}, NEW t \in Nat \ {0}, s <= t, t < target,
         NEW days \in Nat \ {0}
  PROVE  /\ (2 * (target - t) * days + t) \div (2 * t) \in Nat
         /\ (2 * (target - t) * days + t) \div (2 * t) <= (2 * (target - s) * days + s) \div (2 * s)
<1> DEFINE a == 2 * (target - t) * days + t  b == 2 * (target - s) * days + s
           c == 2 * t  d == 2 * s  k == a \div c
<1>1. PICK x \in Nat, y \in Nat, z \in Int : x = (target - t) * days /\ y = (target - s) * days /\ z = target * days
  <2>1. target - t \in Nat /\ target - s \in Nat
    OBVIOUS
  <2> QED BY <2>1
<1>2. PICK u \in Int, v \in Int : u = t * days /\ v = s * days
  OBVIOUS
<1>3. x = z - u /\ y = z - v
  BY <1>1, <1>2
<1>4. a = 2 * x + t /\ b = 2 * y + s
  <2>1. 2 * (target - t) * days = 2 * x /\ 2 * (target - s) * days = 2 * y
    BY <1>1
  <2> QED BY <2>1
<1>5. a \in Nat /\ b \in Nat /\ c \in Nat \ {0} /\ d \in Nat \ {0}
  <2> HIDE DEF a, b
  <2> QED BY <1>4
<1> HIDE DEF a, b, c, d, k
<1>6. k \in Nat /\ a = c * k + (a % c) /\ 0 <= a % c /\ a % c \in Int
  <2>1. a \in Int
    BY <1>5
  <2> QED BY <1>5, <2>1, DivFacts, DivNat DEF k
<1>7. PICK p \in Int, q \in Int : p = t * k /\ q = s * k
  BY <1>6
<1>8. c * k = 2 * p /\ d * k = 2 * q
  BY <1>6, <1>7 DEF c, d
<1>9. 2 * p <= 2 * z - 2 * u + t
  BY <1>3, <1>4, <1>6, <1>7, <1>8
<1>10. t * (2 * k + 2 * days - 1) = 2 * p + 2 * u - t /\ s * (2 * k + 2 * days - 1) = 2 * q + 2 * v - s
  BY <1>2, <1>6, <1>7
<1>11. PICK w \in Nat : w = 2 * k + 2 * days - 1
  BY <1>6
<1>12. s * w <= t * w
  BY <1>11
<1>13. 2 * q + 2 * v - s <= 2 * p + 2 * u - t
  BY <1>10, <1>11, <1>12
<1>14. 2 * q <= 2 * z - 2 * v + s
  BY <1>7, <1>9, <1>13, <1>2
<1>15. d * k <= b
  BY <1>3, <1>4, <1>8, <1>14, <1>7
<1>16. k <= b \div d
  <2>1. b \in Int /\ k \in Int
    BY <1>5, <1>6
  <2> QED BY <1>5, <1>15, <2>1, DivAtLeast
<1> QED BY <1>6, <1>16 DEF a, b, c, d, k

\* More income takes no goal off its track.
LEMMA OnTrackStays ==
  ASSUME SpendingTypeOK, NEW e \in Entries, e.kind = "credit", OnTrack(entries)
  PROVE  OnTrack(entries \cup {e})
<1> DEFINE more == entries \cup {e}
           deadline == Number(savings.since) + 30 * savings.months
           elapsed == IF MonthsElapsed < 1 THEN 1 ELSE MonthsElapsed
<1>1. /\ SavedSoFar(entries) \in Nat /\ SavedSoFar(more) \in Nat
      /\ SavedSoFar(entries) <= SavedSoFar(more)
  BY SavedGrows
<1> HIDE DEF more
<1>2. PICK s \in Nat, t \in Nat : s = SavedSoFar(entries) /\ t = SavedSoFar(more) /\ s <= t
  BY <1>1
<1>3. PICK target \in Nat : target = savings.target
  BY DEF SpendingTypeOK
<1>4. IsDay(today) /\ IsDay(savings.since) /\ savings.months \in Nat
  BY SpendingFacts DEF SpendingTypeOK
<1>5. PICK now \in Int, end \in Int : now = Number(today) /\ end = deadline
  <2>1. Number(today) \in Int /\ Number(savings.since) \in Int
    BY <1>4, DaysAreInYear, NumbersUpTo DEF UpTo
  <2>2. deadline \in Int
    BY <1>4, <2>1
  <2> QED BY <2>1, <2>2
<1>6. PICK days \in Nat \ {0} : days = elapsed * 30
  <2>1. MonthsElapsed \in Int
    <3>1. /\ today.year \in Int /\ today.month \in Int
          /\ savings.since.year \in Int /\ savings.since.month \in Int
      BY <1>4, IsDayFacts
    <3> QED BY <3>1 DEF MonthsElapsed
  <2>2. elapsed \in Nat \ {0}
    BY <2>1
  <2> QED BY <2>2
<1> HIDE DEF deadline, elapsed
<1>7. \A rows : DaysNeeded(rows) = (2 * (target - SavedSoFar(rows)) * elapsed * 30 + SavedSoFar(rows))
                                      \div (2 * SavedSoFar(rows))
  BY <1>3 DEF DaysNeeded, elapsed
<1>8. \A rows : OnTrack(rows) <=>
                 \/ SavedSoFar(rows) >= target /\ now <= end
                 \/ /\ SavedSoFar(rows) < target /\ SavedSoFar(rows) > 0
                    /\ now + DaysNeeded(rows) <= end
  BY <1>3, <1>5 DEF OnTrack, deadline
<1>9. ASSUME s < target PROVE DaysNeeded(entries) = (2 * (target - s) * days + s) \div (2 * s)
  <2>1. elapsed \in Int
    BY <1>4, IsDayFacts DEF elapsed, MonthsElapsed
  <2>2. PICK k \in Int : k = elapsed /\ days = k * 30
    BY <1>6, <2>1
  <2>3. 2 * (target - s) * k * 30 = 2 * (target - s) * (k * 30)
    OBVIOUS
  <2>4. 2 * (target - s) * elapsed * 30 = 2 * (target - s) * days
    BY <2>2, <2>3
  <2> QED BY <1>2, <1>7, <2>4
<1>10. ASSUME t < target PROVE DaysNeeded(more) = (2 * (target - t) * days + t) \div (2 * t)
  <2>1. elapsed \in Int
    BY <1>4, IsDayFacts DEF elapsed, MonthsElapsed
  <2>2. PICK k \in Int : k = elapsed /\ days = k * 30
    BY <1>6, <2>1
  <2>3. 2 * (target - t) * k * 30 = 2 * (target - t) * (k * 30)
    OBVIOUS
  <2>4. 2 * (target - t) * elapsed * 30 = 2 * (target - t) * days
    BY <2>2, <2>3
  <2> QED BY <1>2, <1>7, <2>4
<1>11. \/ s >= target /\ now <= end
       \/ s < target /\ s > 0 /\ now + DaysNeeded(entries) <= end
  BY <1>2, <1>8
<1>12. CASE s >= target
  <2>1. t >= target /\ now <= end
    BY <1>2, <1>11, <1>12
  <2> QED BY <1>2, <1>8, <2>1 DEF more
<1>13. CASE s < target /\ t >= target
  <2>1. PICK n \in Nat : n = DaysNeeded(entries)
    <3>1. s \in Nat \ {0}
      BY <1>11, <1>13
    <3>2. (2 * (target - s) * days + s) \div (2 * s) \in Nat
      BY <1>13, <3>1, FasterWithMore
    <3> QED BY <1>9, <1>13, <3>2
  <2>2. now <= end
    BY <1>11, <1>13, <2>1
  <2> QED BY <1>2, <1>8, <1>13, <2>2 DEF more
<1>14. CASE s < target /\ t < target
  <2>1. s \in Nat \ {0} /\ t \in Nat \ {0} /\ now + DaysNeeded(entries) <= end
    BY <1>2, <1>11, <1>14
  <2>2. PICK n \in Nat, m \in Int : n = DaysNeeded(more) /\ m = DaysNeeded(entries) /\ n <= m
    <3>1. /\ (2 * (target - t) * days + t) \div (2 * t) \in Nat
          /\ (2 * (target - t) * days + t) \div (2 * t) <= (2 * (target - s) * days + s) \div (2 * s)
      BY <1>2, <1>14, <2>1, FasterWithMore
    <3>2. (2 * (target - s) * days + s) \div (2 * s) \in Nat
      BY <1>14, <2>1, FasterWithMore
    <3> QED BY <1>9, <1>10, <1>14, <3>1, <3>2
  <2>3. now + n <= end
    BY <2>1, <2>2
  <2>4. SavedSoFar(more) < target /\ SavedSoFar(more) > 0 /\ now + DaysNeeded(more) <= end
    BY <1>2, <1>14, <2>1, <2>2, <2>3
  <2> QED BY <1>8, <2>4 DEF more
<1> QED BY <1>12, <1>13, <1>14

\* 48 months of the calendar have on average 1461 days, and the first of a month
\* is never more than two days away from its place in this average.
NearAverage(y, m, first) ==
  1461 * (12 * y + m) - 1599 <= 48 * first /\ 48 * first <= 1461 * (12 * y + m) - 1443

\* The first of every month is that near to its place.
LEMMA FirstInAverage ==
  ASSUME NEW y \in Int, NEW m \in 1..12
  PROVE  NearAverage(y, m, NewYear(y) + Ahead(y, m)) /\ NewYear(y) + Ahead(y, m) \in Int
<1>1. PICK n \in Int, a \in Int : n = NewYear(y) /\ a = Ahead(y, m)
  <2>1. NewYear(y) \in Int /\ Ahead(y, m) \in Nat
    BY NewYearStep, AheadFacts
  <2> QED BY <2>1
<1>2. 17532 * y - 48 <= 48 * n /\ 48 * n <= 17532 * y - 12
  <2>1. PICK q \in Int : q = (y - 1) \div 4
    OBVIOUS
  <2>2. 4 * q <= y - 1 /\ y - 1 <= 4 * q + 3
    BY <2>1
  <2>3. n = 365 * y + q
    BY <1>1, <2>1 DEF NewYear
  <2> QED BY <2>2, <2>3
<1>3. 1461 * m - 1551 <= 48 * a /\ 48 * a <= 1461 * m - 1431
  <2>1. /\ DaysBefore[1] = 0 /\ DaysBefore[2] = 31 /\ DaysBefore[3] = 59 /\ DaysBefore[4] = 90
        /\ DaysBefore[5] = 120 /\ DaysBefore[6] = 151 /\ DaysBefore[7] = 181 /\ DaysBefore[8] = 212
        /\ DaysBefore[9] = 243 /\ DaysBefore[10] = 273 /\ DaysBefore[11] = 304 /\ DaysBefore[12] = 334
    BY DEF DaysBefore
  <2>2. \/ m = 1 \/ m = 2 \/ m = 3 \/ m = 4 \/ m = 5 \/ m = 6
        \/ m = 7 \/ m = 8 \/ m = 9 \/ m = 10 \/ m = 11 \/ m = 12
    OBVIOUS
  <2>3. a = DaysBefore[m] \/ (m > 2 /\ a = DaysBefore[m] + 1)
    <3>1. DaysBefore[m] \in Int
      BY DEF DaysBefore
    <3> HIDE DEF DaysBefore
    <3> QED BY <1>1, <3>1 DEF Ahead
  <2> HIDE DEF DaysBefore
  <2> QED BY <2>1, <2>2, <2>3
<1>4. n + a \in Int /\ NearAverage(y, m, n + a)
  BY <1>2, <1>3 DEF NearAverage
<1> QED BY <1>1, <1>4

\* How many days may be between days of months that are k months apart.
LEMMA DaysApart ==
  ASSUME NEW d, IsDay(d), NEW e, IsDay(e), NEW k, k = 12 * (e.year - d.year) + (e.month - d.month)
  PROVE  /\ k \in Int /\ Number(d) \in Int /\ Number(e) \in Int
         /\ 48 * (Number(e) - Number(d)) <= 1461 * k + 1596
         /\ 1461 * k - 1596 <= 48 * (Number(e) - Number(d))
<1>1. PICK y \in Int, m \in 1..12, i \in 1..31 : y = d.year /\ m = d.month /\ i = d.day
  BY DayParts
<1>2. PICK z \in Int, n \in 1..12, j \in 1..31 : z = e.year /\ n = e.month /\ j = e.day
  BY DayParts
<1>3. PICK a \in Int : a = NewYear(y) + Ahead(y, m) /\ NearAverage(y, m, a)
  BY FirstInAverage
<1>5. PICK b \in Int : b = NewYear(z) + Ahead(z, n) /\ NearAverage(z, n, b)
  BY FirstInAverage
<1>4. Number(d) = a + i /\ Number(e) = b + j
  <2>1. InYear(d) /\ InYear(e)
    BY DaysAreInYear
  <2>2. /\ Number(d) = NewYear(y) + Ahead(y, m) + i
        /\ Number(e) = NewYear(z) + Ahead(z, n) + j
    BY <1>1, <1>2, <2>1, NumberOf DEF InYear
  <2> QED BY <1>3, <1>5, <2>2
<1>6. k = 12 * (z - y) + (n - m)
  BY <1>1, <1>2
<1>7. PICK g \in Int : g = k
  BY <1>6
<1>8. g = 12 * (z - y) + (n - m)
  BY <1>6, <1>7
<1>9. /\ 48 * ((b + j) - (a + i)) <= 1461 * g + 1596
      /\ 1461 * g - 1596 <= 48 * ((b + j) - (a + i))
  BY <1>3, <1>5, <1>8 DEF NearAverage
<1> QED BY <1>4, <1>7, <1>9

\* A goal of up to five years that is reached with two months left is on track, and none
\* that is on track is long after its time.
LEMMA GoalsInTime ==
  ASSUME SpendingTypeOK
  PROVE  /\ savings.months <= 60 /\ SavedSoFar(entries) >= savings.target /\ MonthsRemaining >= 2
              => OnTrack(entries)
         /\ OnTrack(entries) => MonthsElapsed <= savings.months + 1
<1>1. PICK months \in Nat, target \in Nat : months = savings.months /\ target = savings.target
  BY DEF SpendingTypeOK
<1>2. IsDay(today) /\ IsDay(savings.since)
  BY SpendingFacts
<1>3. PICK k \in Int, since \in Int, now \in Int :
        /\ k = MonthsElapsed /\ since = Number(savings.since) /\ now = Number(today)
        /\ 48 * (now - since) <= 1461 * k + 1596 /\ 1461 * k - 1596 <= 48 * (now - since)
  <2>1. MonthsElapsed = 12 * (today.year - savings.since.year) + (today.month - savings.since.month)
    <3>1. PICK y \in Int, m \in Int, z \in Int, n \in Int :
            y = today.year /\ m = today.month /\ z = savings.since.year /\ n = savings.since.month
      BY <1>2, IsDayFacts
    <3>2. (y - z) * 12 + (m - n) = 12 * (y - z) + (m - n)
      OBVIOUS
    <3> QED BY <3>1, <3>2 DEF MonthsElapsed
  <2> QED BY <1>2, <2>1, DaysApart
<1>4. SavedSoFar(entries) \in Nat
  <2>1. IsFiniteSet(SinceGoal(entries)) /\ SinceGoal(entries) \in SUBSET Entries
    <3>1. SinceGoal(entries) \in SUBSET entries /\ IsFiniteSet(entries) /\ entries \in SUBSET Entries
      BY SpendingFacts DEF SinceGoal
    <3> QED BY <3>1, FS_Subset
  <2>2. Spend(SinceGoal(entries)) \in Nat /\ Inflow(SinceGoal(entries)) \in Nat
    BY <2>1, FlowTypes
  <2>3. SavedSoFar(entries) = Positive(Inflow(SinceGoal(entries)) - Spend(SinceGoal(entries)))
    BY DEF SavedSoFar, SinceGoal
  <2> QED BY <2>2, <2>3 DEF Positive
<1>5. PICK saved \in Nat : saved = SavedSoFar(entries)
  BY <1>4
<1>6. ASSUME months <= 60, saved >= target, MonthsRemaining >= 2 PROVE OnTrack(entries)
  <2>1. months - k >= 2
    BY <1>1, <1>3, <1>6 DEF MonthsRemaining, Positive
  <2>2. now <= since + 30 * months
    BY <1>3, <1>6, <2>1
  <2> QED BY <1>1, <1>3, <1>5, <1>6, <2>2 DEF OnTrack
<1>7. ASSUME OnTrack(entries) PROVE k <= months + 1
  <2>1. now <= since + 30 * months
    <3>1. CASE saved >= target
      BY <1>1, <1>3, <1>5, <1>7, <3>1 DEF OnTrack
    <3>2. CASE saved < target
      <4>1. saved > 0 /\ now + DaysNeeded(entries) <= since + 30 * months
        BY <1>1, <1>3, <1>5, <1>7, <3>2 DEF OnTrack
      <4>2. PICK elapsed \in Nat \ {0} : elapsed = IF MonthsElapsed < 1 THEN 1 ELSE MonthsElapsed
        BY <1>3
      <4>3. PICK x \in Nat : x = (target - saved) * elapsed
        <5>1. target - saved \in Nat
          BY <3>2
        <5> QED BY <5>1
      <4>4. 2 * (target - saved) * elapsed * 30 + saved = 60 * x + saved
        <5>1. PICK b \in Nat : b = target - saved
          BY <3>2
        <5>2. 2 * b * elapsed * 30 = 60 * (b * elapsed)
          OBVIOUS
        <5>3. 60 * (b * elapsed) = 60 * x
          BY <4>3, <5>1
        <5>4. 2 * (target - saved) * elapsed * 30 = 60 * x
          BY <5>1, <5>2, <5>3
        <5> QED BY <5>4
      <4>5. DaysNeeded(entries) = (60 * x + saved) \div (2 * saved)
        BY <1>1, <1>5, <4>2, <4>4 DEF DaysNeeded
      <4>6. PICK n \in Nat : n = DaysNeeded(entries)
        <5>1. 60 * x + saved \in Nat /\ 2 * saved \in Nat \ {0}
          BY <4>1
        <5> QED BY <4>5, <5>1, DivNat
      <4> QED BY <1>1, <4>1, <4>6
    <3> QED BY <3>1, <3>2
  <2> QED BY <1>3, <2>1
<1> QED BY <1>1, <1>3, <1>5, <1>6, <1>7

\* The two pages about the savings goal fit together, and the summaries with them.
LEMMA SavingsFit ==
  ASSUME SpendingTypeOK
  PROVE  SavingsFitSummaries
<1>1. savings.since.day = 1 =>
         LET months == {m \in Summarized : UpTo(savings.since, Date(m.year, m.month, 1))}
         IN  SavedSoFar(entries) = Positive(InflowOf(months) - SpendOf(months))
  BY SavedFromSummaries
<1>2. \A e \in Entries : e.kind = "credit" /\ OnTrack(entries) => OnTrack(entries \cup {e})
  BY OnTrackStays
<1> QED BY <1>1, <1>2, GoalsInTime DEF SavingsFitSummaries

\* The months with a credit, their order, and those after a month.
CreditMonths == {Month(e.on) : e \in {f \in entries : f.kind = "credit"}}
Index(m) == 12 * m.year + m.month
LaterThan(m) == {n \in CreditMonths : n.year > m.year \/ (n.year = m.year /\ n.month > m.month)}

\* The months of the score are the last six of these.
LEMMA IncomeMonthsAre ==
  IncomeMonths = {m \in CreditMonths : Cardinality(LaterThan(m)) < 6}
BY DEF IncomeMonths, CreditMonths, LaterThan

\* They are months of the calendar, finitely many.
LEMMA CreditMonthFacts ==
  ASSUME SpendingTypeOK
  PROVE  /\ CreditMonths \in SUBSET Summarized /\ IsFiniteSet(CreditMonths)
         /\ \A m \in CreditMonths : m.year \in 1901..2099 /\ m.month \in 1..12
<1>1. CreditMonths \in SUBSET Summarized
  BY DEF CreditMonths, Summarized
<1>2. \A e \in entries : IsDay(e.on)
  BY SpendingFacts
<1>3. ASSUME NEW e \in entries PROVE Month(e.on).year \in 1901..2099 /\ Month(e.on).month \in 1..12
  <2>1. /\ e.on.year \in Nat /\ 1901 <= e.on.year /\ e.on.year <= 2099 /\ e.on.month \in 1..12
    <3>1. IsDay(e.on)
      BY <1>2
    <3>2. e.on.year <= 2099
      BY <3>1 DEF IsDay
    <3> QED BY <3>1, <3>2, IsDayFacts
  <2>2. Month(e.on).year = e.on.year /\ Month(e.on).month = e.on.month
    BY DEF Month
  <2> QED BY <2>1, <2>2
<1> QED BY <1>1, <1>3, SummarizedFinite DEF CreditMonths

\* One of some months is the latest.
LEMMA LatestMonth ==
  ASSUME SpendingTypeOK, NEW months \in SUBSET CreditMonths, months # {}
  PROVE  \E m \in months : months \cap LaterThan(m) = {}
<1>1. \A m \in months : m.year \in 1901..2099 /\ m.month \in 1..12
  BY CreditMonthFacts
<1>2. PICK w \in Nat : w = 25200
  OBVIOUS
<1> DEFINE T == {Index(m) : m \in months}
<1>3. T \in SUBSET (0..w) /\ T # {}
  <2>1. ASSUME NEW m \in months PROVE Index(m) \in 0..w
    <3>1. PICK y \in 1901..2099, a \in 1..12 : y = m.year /\ a = m.month
      BY <1>1
    <3>2. 12 * y + a \in 0..w
      BY <1>2
    <3> QED BY <3>1, <3>2 DEF Index
  <2> QED BY <2>1
<1>4. PICK k \in T : \A j \in T : j <= k
  <2> HIDE DEF T
  <2> QED BY <1>3, Largest
<1>5. PICK m \in months : k = Index(m)
  BY <1>4
<1>6. ASSUME NEW n \in months PROVE n \notin LaterThan(m)
  <2>1. Index(n) <= Index(m)
    BY <1>4, <1>5
  <2>2. PICK y \in 1901..2099, a \in 1..12 : y = m.year /\ a = m.month
    BY <1>1
  <2>3. PICK z \in 1901..2099, b \in 1..12 : z = n.year /\ b = n.month
    BY <1>1
  <2>4. 12 * z + b <= 12 * y + a
    BY <2>1, <2>2, <2>3 DEF Index
  <2>5. ~ (z > y \/ (z = y /\ b > a))
    BY <2>4
  <2> QED BY <2>2, <2>3, <2>5 DEF LaterThan
<1> QED BY <1>6

\* Of two months or more with a credit, the score is about two at least.
LEMMA TwoIncomeMonths ==
  ASSUME SpendingTypeOK, Cardinality(CreditMonths) >= 2
  PROVE  Cardinality(IncomeMonths) >= 2
<1>1. IsFiniteSet(CreditMonths) /\ Cardinality(CreditMonths) \in Nat
  BY CreditMonthFacts, FS_CardinalityType
<1>2. CreditMonths # {}
  BY <1>1, FS_EmptySet
<1>3. PICK a \in CreditMonths : LaterThan(a) = {}
  <2>1. PICK a \in CreditMonths : CreditMonths \cap LaterThan(a) = {}
    BY <1>2, LatestMonth
  <2> QED BY <2>1 DEF LaterThan
<1>4. CreditMonths \ {a} # {}
  <2>1. SUFFICES ASSUME CreditMonths = {a} PROVE FALSE
    OBVIOUS
  <2> QED BY <1>1, <2>1, FS_Singleton
<1>5. PICK b \in CreditMonths \ {a} : (CreditMonths \ {a}) \cap LaterThan(b) = {}
  BY <1>4, LatestMonth
<1>6. LaterThan(b) \in SUBSET {a}
  BY <1>5 DEF LaterThan
<1>7. Cardinality({}) = 0 /\ IsFiniteSet({a}) /\ Cardinality({a}) = 1
  BY FS_EmptySet, FS_Singleton
<1>8. Cardinality(LaterThan(b)) <= 1 /\ Cardinality(LaterThan(b)) \in Nat
  <2>1. IsFiniteSet(LaterThan(b)) /\ Cardinality(LaterThan(b)) <= 1
    BY <1>6, <1>7, FS_Subset
  <2> QED BY <2>1, FS_CardinalityType
<1>9. a \in IncomeMonths /\ b \in IncomeMonths
  BY <1>3, <1>5, <1>7, <1>8, IncomeMonthsAre
<1>10. IsFiniteSet({a} \cup {b}) /\ Cardinality({a} \cup {b}) = 2
  <2>1. b \notin {a}
    BY <1>5
  <2> QED BY <1>7, <2>1, FS_AddElement
<1>11. IsFiniteSet(IncomeMonths) /\ Cardinality(IncomeMonths) \in Nat
  <2>1. IncomeMonths \in SUBSET CreditMonths
    BY IncomeMonthsAre
  <2> QED BY <1>1, <2>1, FS_Subset, FS_CardinalityType
<1>12. {a} \cup {b} \in SUBSET IncomeMonths
  BY <1>9
<1> QED BY <1>10, <1>11, <1>12, FS_Subset

\* The months whose summary shows inflow.
PaidMonths == {m \in Summarized : Summary(m).inflow > 0}

\* A month with inflow has a credit.
LEMMA PaidByCredit ==
  ASSUME SpendingTypeOK
  PROVE  PaidMonths \in SUBSET CreditMonths
<1> SUFFICES ASSUME NEW m \in Summarized, m \notin CreditMonths
             PROVE  ~ (Summary(m).inflow > 0)
  BY DEF PaidMonths
<1>1. PICK e \in entries : m = Month(e.on)
  BY DEF Summarized
<1>2. {f \in InMonth(m.year, m.month) : f.kind = "credit"} = {}
  <2>1. ASSUME NEW f \in entries, f.on.year = m.year, f.on.month = m.month, f.kind = "credit"
        PROVE  FALSE
    <3>1. Month(f.on) = m
      BY <1>1, <2>1 DEF Month
    <3> QED BY <2>1, <3>1 DEF CreditMonths
  <2> QED BY <2>1 DEF InMonth
<1>3. Summary(m).inflow = Total({})
  BY <1>2 DEF Summary, Inflow
<1>4. Total({}) = 0
  <2>1. {} \in SUBSET Entries /\ IsFiniteSet({})
    BY FS_EmptySet
  <2>2. Total({}) = SumFunctionOnSet(Amount, {})
    BY <2>1, TotalSum
  <2> QED BY <2>2, SumEmpty
<1> QED BY <1>3, <1>4

\* A summary's inflow is an amount.
LEMMA InflowTypes ==
  ASSUME SpendingTypeOK, NEW m
  PROVE  Summary(m).inflow \in Nat
<1>1. InMonth(m.year, m.month) \in SUBSET Entries /\ IsFiniteSet(InMonth(m.year, m.month))
  <2>1. InMonth(m.year, m.month) \in SUBSET entries /\ IsFiniteSet(entries) /\ entries \in SUBSET Entries
    BY SpendingFacts DEF InMonth
  <2> QED BY <2>1, FS_Subset
<1>2. Inflow(InMonth(m.year, m.month)) \in Nat
  BY <1>1, FlowTypes
<1> QED BY <1>2 DEF Summary

\* The deviations of the inflow, and what it takes to be stable.
Deviation(n, sum) == [m \in IncomeMonths |-> Square(n * Summary(m).inflow - sum)]
Reaches70(n, sum) ==
  sum # 0 /\ SumFunction(Deviation(n, sum)) * Square(2000) <= n * Square((2000 - (20 * 70 - 1)) * sum)

\* The same inflow in every month does not deviate from its mean.
LEMMA SameIsStable ==
  ASSUME SpendingTypeOK, Cardinality(IncomeMonths) >= 2,
         NEW v \in Nat \ {0}, \A m \in IncomeMonths : Summary(m).inflow = v
  PROVE  ScoreReaches(70)
<1>1. IsFiniteSet(IncomeMonths)
  <2>1. IncomeMonths \in SUBSET CreditMonths
    BY IncomeMonthsAre
  <2> QED BY <2>1, CreditMonthFacts, FS_Subset
<1>2. PICK n \in Nat : n = Cardinality(IncomeMonths) /\ n >= 2
  BY <1>1, FS_CardinalityType
<1>3. InflowOf(IncomeMonths) = n * v
  <2> DEFINE t == [m \in IncomeMonths |-> Summary(m).inflow]
  <2>1. DOMAIN t = IncomeMonths /\ \A m \in IncomeMonths : t[m] = v
    OBVIOUS
  <2>2. InflowOf(IncomeMonths) = SumFunctionOnSet(t, IncomeMonths)
    BY DEF InflowOf, SumFunction
  <2> HIDE DEF t
  <2> QED BY <1>1, <1>2, <2>1, <2>2, SumOfSame
<1>4. PICK sum \in Int : sum = n * v /\ sum # 0
  <2>1. n * v \in Int /\ n * v # 0
    BY <1>2
  <2> QED BY <2>1
<1>5. SumFunction(Deviation(n, sum)) = 0
  <2> DEFINE t == Deviation(n, sum)
  <2>1. DOMAIN t = IncomeMonths
    BY DEF Deviation
  <2>2. ASSUME NEW m \in IncomeMonths PROVE t[m] = 0
    <3>1. t[m] = Square(n * Summary(m).inflow - sum)
      BY DEF Deviation
    <3>2. n * Summary(m).inflow - sum = 0
      BY <1>4
    <3> QED BY <3>1, <3>2 DEF Square
  <2>3. SumFunction(t) = SumFunctionOnSet(t, IncomeMonths)
    BY <2>1 DEF SumFunction
  <2> HIDE DEF t
  <2>4. SumFunction(t) = 0
    BY <1>1, <2>2, <2>3, SumOfZeros
  <2> QED BY <2>4 DEF t
<1>6. 0 * Square(2000) <= n * Square(601 * sum)
  <2>1. PICK z \in Int : z = 601 * sum
    BY <1>4
  <2>2. PICK q \in Nat : q = z * z
    <3>1. z * z \in Nat
      OBVIOUS
    <3> QED BY <3>1
  <2>3. n * q >= 0
    OBVIOUS
  <2>4. 0 * Square(2000) = 0
    BY DEF Square
  <2> QED BY <2>1, <2>2, <2>3, <2>4 DEF Square
<1>7. 2000 - (20 * 70 - 1) = 601
  OBVIOUS
<1>8. ScoreReaches(70) <=> Reaches70(Cardinality(IncomeMonths), InflowOf(IncomeMonths))
  BY Zenon DEF ScoreReaches, Deviation, Reaches70
<1>9. Cardinality(IncomeMonths) = n /\ InflowOf(IncomeMonths) = sum
  BY <1>2, <1>3, <1>4
<1>10. Reaches70(n, sum)
  <2> QED BY <1>4, <1>5, <1>6, <1>7 DEF Reaches70
<1> QED BY <1>8, <1>9, <1>10

\* The score and the summaries fit together.
LEMMA StabilityFits ==
  ASSUME SpendingTypeOK
  PROVE  StabilityFitsSummaries
<1>1. ASSUME Cardinality(PaidMonths) >= 2 PROVE Cardinality(IncomeMonths) >= 2
  <2>1. PaidMonths \in SUBSET CreditMonths /\ IsFiniteSet(CreditMonths)
    BY PaidByCredit, CreditMonthFacts
  <2>2. IsFiniteSet(PaidMonths) /\ Cardinality(PaidMonths) <= Cardinality(CreditMonths)
    BY <2>1, FS_Subset
  <2>3. Cardinality(PaidMonths) \in Nat /\ Cardinality(CreditMonths) \in Nat
    BY <2>1, <2>2, FS_CardinalityType
  <2>4. Cardinality(CreditMonths) >= 2
    BY <1>1, <2>2, <2>3
  <2> QED BY <2>4, TwoIncomeMonths
<1>2. ASSUME Cardinality(IncomeMonths) >= 2
      PROVE  StabilityLabel # "insufficient_data" /\ (ScoreReaches(70) => StabilityLabel = "stable")
  <2>1. ~ (Cardinality(IncomeMonths) < 2)
    <3>1. IncomeMonths \in SUBSET CreditMonths
      BY IncomeMonthsAre
    <3>2. Cardinality(IncomeMonths) \in Nat
      BY <3>1, CreditMonthFacts, FS_Subset, FS_CardinalityType
    <3> QED BY <1>2, <3>2
  <2> QED BY <2>1 DEF StabilityLabel
<1>3. ASSUME Cardinality(PaidMonths) >= 2, PaidMonths = IncomeMonths,
             Cardinality({Summary(m).inflow : m \in PaidMonths}) = 1
      PROVE  ScoreReaches(70)
  <2>1. Cardinality(IncomeMonths) >= 2
    BY <1>1, <1>3
  <2>2. PICK v : {Summary(m).inflow : m \in PaidMonths} = {v}
    <3>1. IsFiniteSet({Summary(m).inflow : m \in PaidMonths})
      <4> DEFINE f == [m \in PaidMonths |-> Summary(m).inflow]
                 V == {Summary(m).inflow : m \in PaidMonths}
      <4>1. f \in Surjection(PaidMonths, V)
        BY DEF Surjection
      <4>2. IsFiniteSet(PaidMonths)
        BY PaidByCredit, CreditMonthFacts, FS_Subset
      <4> HIDE DEF f
      <4> QED BY <4>1, <4>2, FS_Surjection
    <3> QED BY <1>3, <3>1, FS_Singleton
  <2>3. \A m \in IncomeMonths : Summary(m).inflow = v
    BY <1>3, <2>2
  <2>4. v \in Nat \ {0}
    <3>1. PICK m \in PaidMonths : v = Summary(m).inflow
      BY <2>2
    <3> QED BY <3>1, InflowTypes DEF PaidMonths
  <2> QED BY <2>1, <2>3, <2>4, SameIsStable
<1> QED BY <1>1, <1>2, <1>3, Zenon DEF StabilityFitsSummaries, PaidMonths

\* Rows, goal and clock are of their types, and no goal was set after today.
THEOREM SpendingTyping == SpendingSpec => []SpendingTypeOK
<1>1. SpendingInit => SpendingTypeOK
  <2> SUFFICES ASSUME SpendingInit PROVE SpendingTypeOK
    OBVIOUS
  <2>1. IsFiniteSet(entries) /\ today \in Dates /\ IsDay(today)
    BY FS_EmptySet, SpendingAssumption DEF SpendingInit
  <2>2. savings.target = 0 /\ savings.months = 0 /\ savings.since = Date(1901, 1, 1)
    BY DEF SpendingInit, NoSavings
  <2>3. IsDay(Date(1901, 1, 1))
    <3>1. DaysIn(1901, 1) = 31 /\ 1901 \in Nat /\ 1 \in 1..12 /\ 1 \in 1..31
      BY DEF DaysIn
    <3> QED BY <3>1 DEF IsDay, Date
  <2>4. UpTo(Date(1901, 1, 1), today)
    <3>1. today.year \in Nat /\ 1901 <= today.year /\ today.month \in 1..12
      BY <2>1, IsDayFacts
    <3>2. 1901 \in Int /\ 1 \in 1..12
      OBVIOUS
    <3>3. 1901 < today.year \/ (1901 = today.year /\ 1 <= today.month)
      BY <3>1
    <3> QED BY <2>1, <3>2, <3>3, FromFirst
  <2> QED BY <2>1, <2>2, <2>3, <2>4 DEF SpendingTypeOK, SpendingInit
<1>2. SpendingTypeOK /\ [SpendingNext]_spendingVars => SpendingTypeOK'
  <2> SUFFICES ASSUME SpendingTypeOK, [SpendingNext]_spendingVars PROVE SpendingTypeOK'
    OBVIOUS
  <2>1. ASSUME NEW e \in Entries, RecordEntry(e) PROVE SpendingTypeOK'
    BY <2>1, FS_AddElement DEF RecordEntry, SpendingTypeOK
  <2>2. ASSUME NEW e \in Entries, RemoveEntry(e) PROVE SpendingTypeOK'
    BY <2>2, FS_Subset DEF RemoveEntry, SpendingTypeOK
  <2>3. ASSUME NEW g \in Goals, SetSavings(g) PROVE SpendingTypeOK'
    <3>1. g.target \in Nat /\ g.months \in Nat /\ IsDay(today)
      BY SpendingAssumption, SpendingFacts
    <3>2. /\ savings'.target = g.target /\ savings'.months = g.months
          /\ savings'.since = today \/ savings'.since = savings.since
      BY <2>3 DEF SetSavings
    <3>3. UpTo(today, today)
      BY DEF UpTo
    <3> QED BY <2>3, <3>1, <3>2, <3>3 DEF SetSavings, SpendingTypeOK
  <2>4. ASSUME DropSavings PROVE SpendingTypeOK'
    <3>1. savings'.target = 0 /\ savings'.months = 0 /\ savings'.since = Date(1901, 1, 1)
      BY <2>4 DEF DropSavings, NoSavings
    <3>2. IsDay(Date(1901, 1, 1)) /\ UpTo(Date(1901, 1, 1), today)
      <4>1. DaysIn(1901, 1) = 31 /\ 1901 \in Nat /\ 1 \in 1..12 /\ 1 \in 1..31
        BY DEF DaysIn
      <4>2. IsDay(Date(1901, 1, 1))
        BY <4>1 DEF IsDay, Date
      <4>3. today.year \in Nat /\ 1901 <= today.year /\ today.month \in 1..12 /\ IsDay(today)
        BY SpendingFacts, IsDayFacts
      <4>4. 1901 < today.year \/ (1901 = today.year /\ 1 <= today.month)
        BY <4>3
      <4>5. 1901 \in Int
        OBVIOUS
      <4> QED BY <4>1, <4>2, <4>3, <4>4, <4>5, FromFirst
    <3> QED BY <2>4, <3>1, <3>2 DEF DropSavings, SpendingTypeOK
  <2>5. ASSUME NEW d \in Dates, DayComes(d) PROVE SpendingTypeOK'
    <3>1. IsDay(d) /\ IsDay(today) /\ IsDay(savings.since)
      BY SpendingAssumption, SpendingFacts
    <3>2. UpTo(savings.since, today) /\ UpTo(today, d)
      BY <2>5 DEF SpendingTypeOK, DayComes, UpTo
    <3>3. UpTo(savings.since, d)
      BY <3>1, <3>2, DaysAreInYear, UpToChain
    <3> QED BY <2>5, <3>3 DEF DayComes, SpendingTypeOK
  <2>6. CASE UNCHANGED spendingVars
    BY <2>6 DEF spendingVars, SpendingTypeOK
  <2> QED BY <2>1, <2>2, <2>3, <2>4, <2>5, <2>6 DEF SpendingNext
<1> QED BY <1>1, <1>2, PTL DEF SpendingSpec

\* In all such states the pages agree.
LEMMA AllAgree ==
  ASSUME SpendingTypeOK
  PROVE  PagesAgree
BY WindowsFit, WindowsApart, EnvelopesFit, SavingsFit, StabilityFits DEF PagesAgree

\* However transactions are recorded and removed, goals set and days go by: the pages, each
\* with its own filters, say the same of spending, envelopes, savings and stability.
THEOREM PagesAlwaysAgree == SpendingSpec => []PagesAgree
BY SpendingTyping, AllAgree, PTL
==============================================================================
