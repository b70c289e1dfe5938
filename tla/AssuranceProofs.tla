--------------------------- MODULE AssuranceProofs ---------------------------
(***************************************************************************)
(* Theorems about Assurance, for any checks, findings, weights and         *)
(* thresholds: what a verdict says was not checked, what ACCEPT means,     *)
(* which bounds its risk keeps, and that a finding more never helps.       *)
(*                                                                         *)
(* The scores are sums and products over sets of findings.  They are       *)
(* folds, which take the elements in an order of their own; the first part *)
(* shows that the order does not matter, the second what a finding more    *)
(* does to the product and to the sum, the third what rounding, weighing   *)
(* and taking the greatest make of it.  The last two are about sessions.   *)
(***************************************************************************)
EXTENDS Assurance, FiniteSetTheorems, WellFoundedInduction, TLAPS

(* Induction over the subsets of a finite set.                             *)
LEMMA SubsetInduction ==
    ASSUME NEW S, IsFiniteSet(S), NEW Good,
           \A T \in SUBSET S : (\A x \in T : T \ {x} \in Good) => T \in Good
    PROVE  S \in Good
<1> DEFINE Bad == {T \in SUBSET S : T \notin Good}
<1> SUFFICES ASSUME S \notin Good PROVE FALSE
    OBVIOUS
<1>1. \E T \in Bad : \A A \in Bad : ~ (<<A, T>> \in StrictSubsetOrdering(S))
    <2>1. Bad # {} /\ Bad \subseteq FiniteSubsetsOf(S)
        BY FS_FiniteSubsetsOfFinite
    <2> HIDE DEF Bad
    <2> QED
        BY <2>1, FS_StrictSubsetOrderingWellFounded, WFMin, Zenon
<1>2. PICK T \in Bad : \A A \in Bad : ~ (<<A, T>> \in StrictSubsetOrdering(S))
    BY <1>1
<1>3. PICK x \in T : T \ {x} \notin Good
    BY <1>2
<1>4. T \ {x} \in Bad /\ <<T \ {x}, T>> \in StrictSubsetOrdering(S)
    <2>1. T \in SUBSET S /\ T \ {x} \in SUBSET S /\ T \ {x} # T
        BY <1>2, <1>3
    <2> QED
        BY <1>3, <2>1 DEF StrictSubsetOrdering
<1> QED
    BY <1>2, <1>4

(* A sum or a product of f over the subsets of S, one element after the    *)
(* other.                                                                  *)
Some(s) == CHOOSE x \in s : TRUE
Unit(op) == IF op = "sum" THEN 0 ELSE 1
With(op, x, y) == IF op = "sum" THEN x + y ELSE x * y

Folds(g, op, f, S) ==
    g = [s \in SUBSET S |-> IF s = {} THEN Unit(op) ELSE With(op, f[Some(s)], g[s \ {Some(s)}])]

Folded(op, f, S) == (CHOOSE g : Folds(g, op, f, S))[S]

(* The element taken first is one of the set.                              *)
LEMMA SomeIsIn == \A s : s # {} => Some(s) \in s
BY DEF Some

(* The first element is taken, then the others.                            *)
LEMMA FoldsOne ==
    ASSUME NEW op, NEW S, NEW f, NEW g, Folds(g, op, f, S), NEW s \in SUBSET S
    PROVE  /\ s = {} => g[s] = Unit(op)
           /\ s # {} => Some(s) \in s /\ g[s] = With(op, f[Some(s)], g[s \ {Some(s)}])
<1>1. g[s] = IF s = {} THEN Unit(op) ELSE With(op, f[Some(s)], g[s \ {Some(s)}])
    BY Zenon DEF Folds
<1> QED
    BY <1>1, SomeIsIn

(* Of no elements, the unit is left.                                       *)
LEMMA FoldsNone ==
    ASSUME NEW op, NEW S, NEW f, NEW g, Folds(g, op, f, S), NEW s \in SUBSET S, s = {}
    PROVE  g[s] = Unit(op)
BY FoldsOne

(* There is no more than one such function, also of functions that agree.  *)
LEMMA FoldsAgree ==
    ASSUME NEW op, NEW S, NEW T, NEW f, NEW e, NEW g, NEW h, Folds(g, op, f, S), Folds(h, op, e, T),
           NEW r \in SUBSET S, r \in SUBSET T, IsFiniteSet(r), \A x \in r : f[x] = e[x]
    PROVE  g[r] = h[r]
<1> DEFINE Good == {s \in SUBSET r : g[s] = h[s]}
<1>1. ASSUME NEW s \in SUBSET r, \A x \in s : s \ {x} \in Good
      PROVE  s \in Good
    <2>1. CASE s = {}
        <3>1. s \in SUBSET S /\ s \in SUBSET T
            OBVIOUS
        <3> HIDE DEF Good
        <3>2. g[s] = Unit(op)
            BY <2>1, <3>1, FoldsNone
        <3>3. h[s] = Unit(op)
            BY <2>1, <3>1, FoldsNone
        <3> QED
            BY <3>2, <3>3 DEF Good
    <2>2. CASE s # {}
        <3>1. /\ g[s] = With(op, f[Some(s)], g[s \ {Some(s)}])
              /\ h[s] = With(op, e[Some(s)], h[s \ {Some(s)}])
            BY <2>2, FoldsOne
        <3>2. g[s \ {Some(s)}] = h[s \ {Some(s)}] /\ f[Some(s)] = e[Some(s)]
            BY <1>1, <2>2, SomeIsIn
        <3> QED
            BY <3>1, <3>2
    <2> QED
        BY <2>1, <2>2
<1> HIDE DEF Good
<1>2. r \in Good
    BY <1>1, SubsetInduction
<1> QED
    BY <1>2 DEF Good

(* Folding a part of the set is what the function gives for that part.     *)
LEMMA FoldedIs ==
    ASSUME NEW op, NEW S, NEW f, NEW g, Folds(g, op, f, S), NEW s \in SUBSET S, IsFiniteSet(s)
    PROVE  Folded(op, f, s) = g[s]
<1> DEFINE part == [r \in SUBSET s |-> g[r]]
<1>1. Folds(part, op, f, s)
    <2>1. ASSUME NEW r \in SUBSET s
          PROVE  part[r] = IF r = {} THEN Unit(op) ELSE With(op, f[Some(r)], part[r \ {Some(r)}])
        <3>1. r \in SUBSET S /\ part[r] = g[r] /\ part[r \ {Some(r)}] = g[r \ {Some(r)}]
            OBVIOUS
        <3> HIDE DEF part
        <3>2. /\ r = {} => g[r] = Unit(op)
              /\ r # {} => g[r] = With(op, f[Some(r)], g[r \ {Some(r)}])
            BY <3>1, FoldsOne
        <3> QED
            BY <3>1, <3>2
    <2> QED
        BY <2>1, Zenon DEF Folds
<1> HIDE DEF part
<1>2. PICK h : Folds(h, op, f, s) /\ Folded(op, f, s) = h[s]
    BY <1>1, Zenon DEF Folded
<1> QED
    BY <1>2, FoldsAgree

(* There is such a function for every finite set.                          *)
LEMMA FoldExists ==
    ASSUME NEW op, NEW S, IsFiniteSet(S), NEW f
    PROVE  \E g : Folds(g, op, f, S)
<1> DEFINE Good == {T \in SUBSET S : \E g : Folds(g, op, f, T)}
<1>1. ASSUME NEW T \in SUBSET S, \A x \in T : T \ {x} \in Good
      PROVE  T \in Good
    <2> DEFINE g == [s \in SUBSET T |->
                       IF s = {} THEN Unit(op)
                       ELSE With(op, f[Some(s)], Folded(op, f, s \ {Some(s)}))]
    <2>1. ASSUME NEW s \in SUBSET T, s # {}
          PROVE  g[s \ {Some(s)}] = Folded(op, f, s \ {Some(s)})
        <3> DEFINE r == s \ {Some(s)}
        <3>1. Some(s) \in T /\ r \in SUBSET (T \ {Some(s)}) /\ r \in SUBSET T
            BY <2>1, SomeIsIn
        <3>2. PICK h : Folds(h, op, f, T \ {Some(s)})
            BY <1>1, <3>1
        <3>3. IsFiniteSet(r) /\ IsFiniteSet(r \ {Some(r)})
            BY <3>1, FS_Subset
        <3> HIDE DEF r
        <3>4. Folded(op, f, r) = h[r]
            BY <3>1, <3>2, <3>3, FoldedIs
        <3>5. Folded(op, f, r \ {Some(r)}) = h[r \ {Some(r)}]
            BY <3>1, <3>2, <3>3, FoldedIs
        <3>6. h[r] = IF r = {} THEN Unit(op) ELSE With(op, f[Some(r)], h[r \ {Some(r)}])
            BY <3>1, <3>2, FoldsOne
        <3>7. g[r] = IF r = {} THEN Unit(op) ELSE With(op, f[Some(r)], Folded(op, f, r \ {Some(r)}))
            BY <3>1
        <3> QED
            BY <3>4, <3>5, <3>6, <3>7 DEF r
    <2>2. ASSUME NEW s \in SUBSET T
          PROVE  g[s] = IF s = {} THEN Unit(op) ELSE With(op, f[Some(s)], g[s \ {Some(s)}])
        BY <2>1
    <2>3. Folds(g, op, f, T)
        BY <2>2, Zenon DEF Folds
    <2> QED
        BY <2>3
<1> HIDE DEF Good
<1>2. S \in Good
    BY <1>1, SubsetInduction
<1> QED
    BY <1>2 DEF Good

(* The sums and products of the scores are folded so.                      *)
LEMMA SumIsFolded ==
    ASSUME NEW S, IsFiniteSet(S), NEW f
    PROVE  SumFunctionOnSet(f, S) = Folded("sum", f, S)
<1> DEFINE Sums(g) == g = [s \in SUBSET S |-> IF s = {} THEN 0 ELSE f[Some(s)] + g[s \ {Some(s)}]]
<1>1. SumFunctionOnSet(f, S) = (CHOOSE g : Sums(g))[S]
    <2>1. SumFunctionOnSet(f, S) =
            (CHOOSE g : g = [s \in SUBSET S |->
               IF s = {} THEN 0 ELSE f[CHOOSE x \in s : TRUE] + g[s \ {CHOOSE x \in s : TRUE}]])[S]
        BY DEF SumFunctionOnSet, FoldFunctionOnSet, MapThenFoldSet
    <2> QED
        BY <2>1 DEF Some
<1>2. \A g : Folds(g, "sum", f, S) <=> Sums(g)
    BY DEF Folds, Unit, With
<1>3. PICK g : Folds(g, "sum", f, S)
    BY FoldExists
<1> HIDE DEF Sums
<1>4. PICK h : Sums(h) /\ SumFunctionOnSet(f, S) = h[S]
    BY <1>1, <1>2, <1>3, Zenon
<1> QED
    BY <1>2, <1>4, FoldedIs

(* So is a product.                                                        *)
LEMMA ProductIsFolded ==
    ASSUME NEW f, IsFiniteSet(DOMAIN f)
    PROVE  Product(f) = Folded("product", f, DOMAIN f)
<1> DEFINE S == DOMAIN f
           Products(g) ==
               g = [s \in SUBSET S |-> IF s = {} THEN 1 ELSE f[Some(s)] * g[s \ {Some(s)}]]
<1>1. Product(f) = (CHOOSE g : Products(g))[S]
    <2>1. Product(f) =
            (CHOOSE g : g = [s \in SUBSET S |->
               IF s = {} THEN 1 ELSE f[CHOOSE x \in s : TRUE] * g[s \ {CHOOSE x \in s : TRUE}]])[S]
        BY DEF Product, FoldFunction, FoldFunctionOnSet, MapThenFoldSet
    <2> QED
        BY <2>1 DEF Some
<1>2. \A g : Folds(g, "product", f, S) <=> Products(g)
    BY DEF Folds, Unit, With
<1>3. PICK g : Folds(g, "product", f, S)
    BY FoldExists
<1> HIDE DEF Products
<1>4. PICK h : Products(h) /\ Product(f) = h[S]
    BY <1>1, <1>2, <1>3, Zenon
<1> QED
    BY <1>2, <1>4, FoldedIs

(* What is folded is the first element with the others folded.             *)
LEMMA FoldedFirst ==
    ASSUME NEW op, NEW S, IsFiniteSet(S), NEW f
    PROVE  /\ S = {} => Folded(op, f, S) = Unit(op)
           /\ S # {} => Folded(op, f, S) = With(op, f[Some(S)], Folded(op, f, S \ {Some(S)}))
<1>1. PICK g : Folds(g, op, f, S)
    BY FoldExists
<1>2. IsFiniteSet(S \ {Some(S)}) /\ S \ {Some(S)} \in SUBSET S /\ S \in SUBSET S
    BY FS_Subset
<1>3. Folded(op, f, S) = g[S]
    BY <1>1, <1>2, FoldedIs
<1>4. Folded(op, f, S \ {Some(S)}) = g[S \ {Some(S)}]
    BY <1>1, <1>2, FoldedIs
<1>5. S = {} => g[S] = Unit(op)
    BY <1>1, <1>2, FoldsNone
<1>6. S # {} => g[S] = With(op, f[Some(S)], g[S \ {Some(S)}])
    BY <1>1, <1>2, FoldsOne
<1> QED
    BY <1>3, <1>4, <1>5, <1>6

(* Sums and products of integers are integers.                             *)
LEMMA FoldedType ==
    ASSUME NEW op, NEW S, IsFiniteSet(S), NEW f, \A x \in S : f[x] \in Int
    PROVE  Folded(op, f, S) \in Int
<1> DEFINE Good == {T \in SUBSET S : Folded(op, f, T) \in Int}
<1>1. ASSUME NEW T \in SUBSET S, \A x \in T : T \ {x} \in Good
      PROVE  T \in Good
    <2>1. IsFiniteSet(T)
        BY FS_Subset
    <2>2. CASE T = {}
        <3>1. Folded(op, f, T) = Unit(op)
            BY <2>1, <2>2, FoldedFirst
        <3> QED
            BY <3>1 DEF Unit
    <2>3. CASE T # {}
        <3>1. Folded(op, f, T \ {Some(T)}) \in Int /\ f[Some(T)] \in Int
            BY <1>1, <2>3, SomeIsIn
        <3>2. Folded(op, f, T) = With(op, f[Some(T)], Folded(op, f, T \ {Some(T)}))
            BY <2>1, <2>3, FoldedFirst
        <3>3. Folded(op, f, T) \in Int
            BY <3>1, <3>2 DEF With
        <3> QED
            BY <3>3
    <2> QED
        BY <2>2, <2>3
<1> HIDE DEF Good
<1>2. S \in Good
    BY <1>1, SubsetInduction
<1> QED
    BY <1>2 DEF Good

(* The order of two operands does not matter.                              *)
LEMMA WithSwaps ==
    ASSUME NEW op, NEW x \in Int, NEW y \in Int, NEW z \in Int
    PROVE  With(op, x, With(op, y, z)) = With(op, y, With(op, x, z))
<1>1. x + (y + z) = y + (x + z)
    OBVIOUS
<1>2. x * (y * z) = y * (x * z)
    OBVIOUS
<1> QED
    BY <1>1, <1>2 DEF With

(* Nor does the order of the elements: any may be taken first.             *)
LEMMA FoldedWithout ==
    ASSUME NEW op, NEW S, IsFiniteSet(S), NEW f, \A x \in S : f[x] \in Int, NEW y \in S
    PROVE  Folded(op, f, S) = With(op, f[y], Folded(op, f, S \ {y}))
<1> DEFINE F(T) == Folded(op, f, T)
           Good == {T \in SUBSET S : \A x \in T : F(T) = With(op, f[x], F(T \ {x}))}
<1>1. ASSUME NEW T \in SUBSET S, \A x \in T : T \ {x} \in Good
      PROVE  T \in Good
    <2> SUFFICES ASSUME NEW x \in T
                 PROVE  F(T) = With(op, f[x], F(T \ {x}))
        OBVIOUS
    <2> DEFINE z == Some(T)
    <2>1. /\ IsFiniteSet(T) /\ IsFiniteSet((T \ {x}) \ {z})
          /\ z \in T /\ f[x] \in Int /\ f[z] \in Int
        BY FS_Subset, SomeIsIn
    <2>2. F(T) = With(op, f[z], F(T \ {z}))
        BY <2>1, FoldedFirst
    <2>3. CASE x = z
        BY <2>2, <2>3
    <2>4. CASE x # z
        <3> HIDE DEF z
        <3>1. F(T \ {z}) = With(op, f[x], F((T \ {z}) \ {x}))
            BY <1>1, <2>1, <2>4
        <3>2. F(T \ {x}) = With(op, f[z], F((T \ {x}) \ {z}))
            BY <1>1, <2>1, <2>4
        <3>3. (T \ {z}) \ {x} = (T \ {x}) \ {z}
            OBVIOUS
        <3>4. F((T \ {x}) \ {z}) \in Int
            BY <2>1, FoldedType
        <3>5. F(T) = With(op, f[z], With(op, f[x], F((T \ {x}) \ {z})))
            BY <2>2, <3>1, <3>3
        <3> QED
            BY <2>1, <3>2, <3>4, <3>5, WithSwaps
    <2> QED
        BY <2>3, <2>4
<1> HIDE DEF Good
<1>2. S \in Good
    BY <1>1, SubsetInduction
<1> QED
    BY <1>2 DEF Good

(* Functions that agree on the set give the same.                          *)
LEMMA FoldedSame ==
    ASSUME NEW op, NEW S, IsFiniteSet(S), NEW f, NEW e, \A x \in S : f[x] = e[x]
    PROVE  Folded(op, f, S) = Folded(op, e, S)
<1>1. PICK g : Folds(g, op, f, S)
    BY FoldExists
<1>2. PICK h : Folds(h, op, e, S)
    BY FoldExists
<1>3. Folded(op, f, S) = g[S]
    BY <1>1, FoldedIs
<1>4. Folded(op, e, S) = h[S]
    BY <1>2, FoldedIs
<1>5. g[S] = h[S]
    BY <1>1, <1>2, FoldsAgree
<1> QED
    BY <1>3, <1>4, <1>5

-----------------------------------------------------------------------------
(* A product of positive numbers is positive.                              *)
LEMMA ProductPositive ==
    ASSUME NEW S, IsFiniteSet(S), NEW f, \A x \in S : f[x] \in Nat \ {0}
    PROVE  Folded("product", f, S) \in Nat \ {0}
<1> DEFINE Good == {T \in SUBSET S : Folded("product", f, T) \in Nat \ {0}}
<1>1. ASSUME NEW T \in SUBSET S, \A x \in T : T \ {x} \in Good
      PROVE  T \in Good
    <2>1. IsFiniteSet(T)
        BY FS_Subset
    <2>2. CASE T = {}
        <3>1. Folded("product", f, T) = Unit("product")
            BY <2>1, <2>2, FoldedFirst
        <3> QED
            BY <3>1 DEF Unit
    <2>3. CASE T # {}
        <3>1. Folded("product", f, T \ {Some(T)}) \in Nat \ {0} /\ f[Some(T)] \in Nat \ {0}
            BY <1>1, <2>3, SomeIsIn
        <3>2. Folded("product", f, T) = f[Some(T)] * Folded("product", f, T \ {Some(T)})
            BY <2>1, <2>3, FoldedFirst DEF With
        <3>3. \A p, q \in Nat \ {0} : p * q \in Nat \ {0}
            OBVIOUS
        <3>4. Folded("product", f, T) \in Nat \ {0}
            BY <3>1, <3>2, <3>3
        <3> QED
            BY <3>4
    <2> QED
        BY <2>2, <2>3
<1> HIDE DEF Good
<1>2. S \in Good
    BY <1>1, SubsetInduction
<1> QED
    BY <1>2 DEF Good

(* The powers of a thousand.                                               *)
LEMMA ThousandsIsFolded ==
    ASSUME NEW n \in Nat
    PROVE  /\ IsFiniteSet(1..n)
           /\ Thousands(n) = Folded("product", [k \in 1..n |-> 1000], 1..n)
<1>1. IsFiniteSet(1..n)
    BY FS_Interval
<1>2. DOMAIN [k \in 1..n |-> 1000] = 1..n
    OBVIOUS
<1> QED
    BY <1>1, <1>2, ProductIsFolded DEF Thousands

(* They are positive.                                                      *)
LEMMA ThousandsPositive ==
    ASSUME NEW n \in Nat
    PROVE  Thousands(n) \in Nat \ {0}
<1> DEFINE f == [k \in 1..n |-> 1000]
<1>1. \A k \in 1..n : f[k] \in Nat \ {0}
    OBVIOUS
<1>2. IsFiniteSet(1..n) /\ Thousands(n) = Folded("product", f, 1..n)
    BY ThousandsIsFolded
<1> HIDE DEF f
<1> QED
    BY <1>1, <1>2, ProductPositive

(* The first is one.                                                       *)
LEMMA ThousandsOfNone == Thousands(0) = 1
<1>1. 1..0 = {}
    OBVIOUS
<1>2. Folded("product", [k \in 1..0 |-> 1000], 1..0) = Unit("product")
    BY <1>1, FS_EmptySet, FoldedFirst
<1> QED
    BY <1>2, ThousandsIsFolded DEF Unit

(* Each is a thousand of the one before.                                   *)
LEMMA ThousandsOfOneMore ==
    ASSUME NEW n \in Nat
    PROVE  Thousands(n + 1) = 1000 * Thousands(n)
<1> DEFINE f == [k \in 1..(n + 1) |-> 1000]
           e == [k \in 1..n |-> 1000]
           S == 1..(n + 1)
           m == n + 1
<1>1. /\ m \in S /\ S \ {m} = 1..n /\ f[m] = 1000
      /\ \A k \in S : f[k] \in Int
      /\ \A k \in 1..n : f[k] = e[k]
    OBVIOUS
<1>2. IsFiniteSet(1..n) /\ Thousands(n) = Folded("product", e, 1..n)
    BY ThousandsIsFolded
<1>3. IsFiniteSet(S) /\ Thousands(m) = Folded("product", f, S)
    BY ThousandsIsFolded
<1> HIDE DEF f, e, S, m
<1>4. Folded("product", f, S) = With("product", f[m], Folded("product", f, S \ {m}))
    BY <1>1, <1>3, FoldedWithout
<1>5. Folded("product", f, 1..n) = Folded("product", e, 1..n)
    BY <1>1, <1>2, FoldedSame
<1>6. Folded("product", f, S \ {m}) = Thousands(n)
    BY <1>1, <1>2, <1>5
<1>7. Thousands(m) = With("product", f[m], Thousands(n))
    BY <1>3, <1>4, <1>6
<1> QED
    BY <1>1, <1>7 DEF With, m

-----------------------------------------------------------------------------
(* The scores.                                                             *)

(* The risk of a finding lies between 0 and 1.                             *)
LEMMA FindingRiskType ==
    ASSUME NEW f \in Finding
    PROVE  FindingRisk(f) \in 0..1000
<1>1. Detail[f].severity \in Severity /\ Detail[f].confidence \in 0..100
    BY DetailAssumption DEF Details
<1>2. SeverityWeight(Detail[f].severity) \in 0..10
    BY <1>1 DEF Severity, SeverityWeight
<1>3. \A w \in 0..10, c \in 0..100 : w * c \in 0..1000
    OBVIOUS
<1> QED
    BY <1>1, <1>2, <1>3 DEF FindingRisk

(* What is left of the confidence in the asset after the findings fs, and  *)
(* what their risks add up to.                                             *)
Left == [f \in Finding |-> 1000 - FindingRisk(f)]
Risk == [f \in Finding |-> FindingRisk(f)]

LeftAfter(fs) == Folded("product", Left, fs)
RiskOf(fs) == Folded("sum", Risk, fs)
Whole(fs) == Thousands(Cardinality(fs))

(* Both are integers.                                                      *)
LEMMA LeftAndRiskTyped == \A f \in Finding : Left[f] \in Int /\ Risk[f] \in Int
<1> SUFFICES ASSUME NEW f \in Finding PROVE Left[f] \in Int /\ Risk[f] \in Int
    OBVIOUS
<1>1. FindingRisk(f) \in 0..1000
    BY FindingRiskType
<1> QED
    BY <1>1 DEF Left, Risk

(* These are the product and the sum that Assurance computes.              *)
LEMMA ScoreParts ==
    ASSUME NEW fs \in SUBSET Finding
    PROVE  /\ IsFiniteSet(fs)
           /\ Product([f \in fs |-> 1000 - FindingRisk(f)]) = LeftAfter(fs)
           /\ SumFunction([f \in fs |-> FindingRisk(f)]) = RiskOf(fs)
<1>1. IsFiniteSet(fs)
    BY DetailAssumption, FS_Subset
<1> DEFINE left == [f \in fs |-> 1000 - FindingRisk(f)]
           risk == [f \in fs |-> FindingRisk(f)]
<1>2. /\ DOMAIN left = fs /\ DOMAIN risk = fs
      /\ \A f \in fs : left[f] = Left[f]
      /\ \A f \in fs : risk[f] = Risk[f]
    BY DEF Left, Risk
<1> HIDE DEF left, risk
<1>3. Product(left) = Folded("product", left, fs)
    BY <1>1, <1>2, ProductIsFolded
<1>4. SumFunction(risk) = Folded("sum", risk, fs)
    BY <1>1, <1>2, SumIsFolded DEF SumFunction
<1>5. Folded("product", left, fs) = Folded("product", Left, fs)
    BY <1>1, <1>2, FoldedSame
<1>6. Folded("sum", risk, fs) = Folded("sum", Risk, fs)
    BY <1>1, <1>2, FoldedSame
<1> QED
    BY <1>1, <1>3, <1>4, <1>5, <1>6 DEF left, risk, LeftAfter, RiskOf

(* All of them are integers, and the whole is positive.                    *)
LEMMA PartsTyped ==
    ASSUME NEW fs \in SUBSET Finding
    PROVE  /\ Cardinality(fs) \in Nat
           /\ LeftAfter(fs) \in Int /\ RiskOf(fs) \in Int /\ Whole(fs) \in Nat \ {0}
<1>1. IsFiniteSet(fs) /\ Cardinality(fs) \in Nat
    BY ScoreParts, FS_CardinalityType
<1>2. \A f \in fs : Left[f] \in Int /\ Risk[f] \in Int
    BY LeftAndRiskTyped
<1>3. LeftAfter(fs) \in Int
    BY <1>1, <1>2, FoldedType DEF LeftAfter
<1>4. RiskOf(fs) \in Int
    BY <1>1, <1>2, FoldedType DEF RiskOf
<1> QED
    BY <1>1, <1>3, <1>4, ThousandsPositive DEF Whole

(* Without findings everything is left.                                    *)
LEMMA PartsOfNone ==
    LeftAfter({}) = 1 /\ RiskOf({}) = 0 /\ Whole({}) = 1 /\ Cardinality({}) = 0
<1>1. Folded("product", Left, {}) = Unit("product")
    BY FS_EmptySet, FoldedFirst
<1>2. Folded("sum", Risk, {}) = Unit("sum")
    BY FS_EmptySet, FoldedFirst
<1> QED
    BY <1>1, <1>2, ThousandsOfNone, FS_EmptySet DEF LeftAfter, RiskOf, Whole, Unit

(* What one finding more does to them.                                     *)
LEMMA PartsWithout ==
    ASSUME NEW fs \in SUBSET Finding, NEW f \in fs
    PROVE  /\ LeftAfter(fs) = (1000 - FindingRisk(f)) * LeftAfter(fs \ {f})
           /\ RiskOf(fs) = FindingRisk(f) + RiskOf(fs \ {f})
           /\ Whole(fs) = 1000 * Whole(fs \ {f})
           /\ Cardinality(fs) = Cardinality(fs \ {f}) + 1
<1>1. IsFiniteSet(fs) /\ Cardinality(fs) \in Nat /\ Cardinality(fs \ {f}) \in Nat
    BY ScoreParts, FS_CardinalityType, FS_RemoveElement
<1>2. \A g \in fs : Left[g] \in Int /\ Risk[g] \in Int
    BY LeftAndRiskTyped
<1>3. Left[f] = 1000 - FindingRisk(f) /\ Risk[f] = FindingRisk(f)
    BY DEF Left, Risk
<1>4. Folded("product", Left, fs) = With("product", Left[f], Folded("product", Left, fs \ {f}))
    BY <1>1, <1>2, FoldedWithout
<1>5. Folded("sum", Risk, fs) = With("sum", Risk[f], Folded("sum", Risk, fs \ {f}))
    BY <1>1, <1>2, FoldedWithout
<1>6. Cardinality(fs) = Cardinality(fs \ {f}) + 1
    <2>1. Cardinality(fs \ {f}) = Cardinality(fs) - 1
        BY <1>1, FS_RemoveElement
    <2> QED
        BY <1>1, <2>1
<1>7. Thousands(Cardinality(fs)) = 1000 * Thousands(Cardinality(fs \ {f}))
    BY <1>1, <1>6, ThousandsOfOneMore
<1>8. LeftAfter(fs) = (1000 - FindingRisk(f)) * LeftAfter(fs \ {f})
    BY <1>3, <1>4 DEF With, LeftAfter
<1>9. RiskOf(fs) = FindingRisk(f) + RiskOf(fs \ {f})
    BY <1>3, <1>5 DEF With, RiskOf
<1> QED
    BY <1>6, <1>7, <1>8, <1>9 DEF Whole

(* The risk is never above what the single risks add up to: left is what   *)
(* they leave of whole, sum is their sum in thousandths.                   *)
AddsUp(left, sum, whole) ==
    /\ 0 <= left /\ left <= whole /\ 0 <= sum
    /\ 1000 * (whole - left) <= sum * whole

(* What a finding of risk r more makes of the three.                       *)
OneMore(r, left, sum, whole, left1, sum1, whole1) ==
    /\ r \in 0..1000 /\ left \in Int /\ sum \in Int /\ whole \in Nat \ {0}
    /\ left1 = (1000 - r) * left /\ sum1 = r + sum /\ whole1 = 1000 * whole

(* One finding more keeps it so.                                           *)
LEMMA AddsUpWithOneMore ==
    ASSUME NEW r, NEW left, NEW sum, NEW whole, NEW left1, NEW sum1, NEW whole1,
           OneMore(r, left, sum, whole, left1, sum1, whole1), AddsUp(left, sum, whole)
    PROVE  AddsUp(left1, sum1, whole1)
<1> USE DEF OneMore
<1> DEFINE rl == r * left
           rw == r * whole
           sw == sum * whole
<1>1. /\ 0 <= left /\ left <= whole /\ 0 <= sum
      /\ 1000 * (whole - left) <= sum * whole
    BY DEF AddsUp
<1>2. 0 <= rl /\ 0 <= left1
    BY <1>1
<1>3. 0 <= r * (whole - left)
    BY <1>1
<1>4. r * (whole - left) = rw - rl
    OBVIOUS
<1>5. left1 = 1000 * left - rl /\ sum1 * whole1 = 1000 * rw + 1000 * sw
    OBVIOUS
<1>6. rl \in Int /\ rw \in Int /\ sw \in Int /\ 1000 * (whole - left) <= sw
    BY <1>1
<1>7. left1 \in Int /\ sum1 \in Int /\ whole1 \in Int /\ whole1 = 1000 * whole /\ 0 <= sum1
    BY <1>1
<1> HIDE DEF rl, rw, sw
<1>8. left1 <= whole1
    BY <1>1, <1>2, <1>5, <1>6, <1>7
<1>9. 1000 * (whole1 - left1) <= 1000 * rw + 1000 * sw
    BY <1>1, <1>2, <1>3, <1>4, <1>5, <1>6, <1>7
<1> QED
    BY <1>2, <1>5, <1>7, <1>8, <1>9 DEF AddsUp

(* It is so for the findings fs.                                            *)
Bounded(fs) == AddsUp(LeftAfter(fs), RiskOf(fs), Whole(fs))

(* It is so for any findings.                                              *)
LEMMA RiskIsBounded ==
    ASSUME NEW fs \in SUBSET Finding
    PROVE  Bounded(fs)
<1> DEFINE Good == {T \in SUBSET fs : Bounded(T)}
<1>1. ASSUME NEW T \in SUBSET fs, \A x \in T : T \ {x} \in Good
      PROVE  T \in Good
    <2>1. CASE T = {}
        BY <2>1, PartsOfNone DEF Bounded, AddsUp
    <2>2. CASE T # {}
        <3>1. PICK f \in T : Bounded(T \ {f})
            BY <1>1, <2>2
        <3>2. FindingRisk(f) \in 0..1000
            BY FindingRiskType
        <3>3. LeftAfter(T \ {f}) \in Int /\ RiskOf(T \ {f}) \in Int /\ Whole(T \ {f}) \in Nat \ {0}
            BY PartsTyped
        <3>4. /\ LeftAfter(T) = (1000 - FindingRisk(f)) * LeftAfter(T \ {f})
              /\ RiskOf(T) = FindingRisk(f) + RiskOf(T \ {f})
              /\ Whole(T) = 1000 * Whole(T \ {f})
            BY PartsWithout
        <3>5. AddsUp(LeftAfter(T \ {f}), RiskOf(T \ {f}), Whole(T \ {f}))
            BY <3>1 DEF Bounded
        <3>6. OneMore(FindingRisk(f), LeftAfter(T \ {f}), RiskOf(T \ {f}), Whole(T \ {f}),
                      LeftAfter(T), RiskOf(T), Whole(T))
            BY <3>2, <3>3, <3>4 DEF OneMore
        <3>7. AddsUp(LeftAfter(T), RiskOf(T), Whole(T))
            BY <3>5, <3>6, AddsUpWithOneMore
        <3>8. Bounded(T)
            BY <3>7 DEF Bounded
        <3> QED
            BY <3>8
    <2> QED
        BY <2>1, <2>2
<1>2. IsFiniteSet(fs)
    BY ScoreParts
<1> HIDE DEF Good
<1>3. fs \in Good
    BY <1>1, <1>2, SubsetInduction
<1> QED
    BY <1>3 DEF Good

-----------------------------------------------------------------------------
(* The rounding of a quotient.                                             *)
LEMMA NearestIsNear ==
    ASSUME NEW n \in Int, NEW d \in Nat \ {0}, NEW q \in Nearest(n, d)
    PROVE  /\ q \in Int /\ n \div d \in Int /\ n \div d <= q
           /\ 2 * (n - q * d) \in -d..d
<1>1. n \div d \in Int
    OBVIOUS
<1>2. q \in {n \div d, n \div d + 1} /\ 2 * (n - q * d) \in -d..d
    BY DEF Nearest
<1> QED
    BY <1>1, <1>2

(* A positive factor may be cancelled.                                     *)
LEMMA Cancel ==
    ASSUME NEW t \in Nat \ {0}, NEW a \in Int, NEW b \in Int, a * t <= b * t
    PROVE  a <= b
<1> SUFFICES ASSUME b + 1 <= a PROVE FALSE
    OBVIOUS
<1>1. (b + 1) * t <= a * t
    OBVIOUS
<1>2. (b + 1) * t = b * t + t
    OBVIOUS
<1>3. b * t \in Int /\ a * t \in Int
    OBVIOUS
<1> QED
    BY <1>1, <1>2, <1>3

(* q is the risk, in ten-thousandths, that leaves left of whole.           *)
Near(q, left, whole) ==
    /\ q \in Int /\ left \in Int /\ whole \in Nat \ {0}
    /\ 2 * (10000 * (whole - left) - q * whole) \in -whole..whole

(* The score of some findings is the risk they make, rounded.              *)
LEMMA ScoreIsNear ==
    ASSUME NEW fs \in SUBSET Finding, NEW q \in NoisyOr(fs)
    PROVE  Near(q, LeftAfter(fs), Whole(fs))
<1> DEFINE n == Cardinality(fs)
           left == LeftAfter(fs)
           whole == Whole(fs)
<1>1. n \in Nat /\ left \in Int /\ whole \in Nat \ {0} /\ whole = Thousands(n)
    BY PartsTyped DEF Whole
<1>2. q \in CASE n = 0 -> {0}
              [] n = 1 -> {10 * (1000 - left)}
              [] OTHER -> Nearest(Thousands(n) - left, 100 * Thousands(n - 2))
    <2> DEFINE none == Product([f \in fs |-> 1000 - FindingRisk(f)])
    <2>1. q \in CASE n = 0 -> {0}
                  [] n = 1 -> {10 * (1000 - none)}
                  [] OTHER -> Nearest(Thousands(n) - none, 100 * Thousands(n - 2))
        BY DEF NoisyOr
    <2>2. none = left
        BY ScoreParts
    <2> HIDE DEF none, left, n
    <2> QED
        BY <2>1, <2>2
<1>3. n = 0 => left = 1
    BY ScoreParts, FS_EmptySet, PartsOfNone
<1> HIDE DEF n, left, whole
<1>4. CASE n = 0
    <2>1. whole = 1 /\ left = 1 /\ q = 0
        BY <1>1, <1>2, <1>3, <1>4, ThousandsOfNone
    <2> QED
        BY <2>1 DEF Near, left, whole
<1>5. CASE n = 1
    <2>1. Thousands(0 + 1) = 1000 * Thousands(0)
        BY ThousandsOfOneMore
    <2>2. whole = 1000 /\ q = 10 * (1000 - left)
        BY <1>1, <1>2, <1>5, <2>1, ThousandsOfNone
    <2>3. Near(q, left, whole)
        BY <1>1, <2>2 DEF Near
    <2> QED
        BY <2>3 DEF left, whole
<1>6. CASE n # 0 /\ n # 1
    <2> DEFINE m == n - 2
               d == Thousands(m)
    <2>1. m \in Nat /\ m + 1 \in Nat /\ (m + 1) + 1 = n
        BY <1>1, <1>6
    <2> HIDE DEF m
    <2>2. d \in Nat \ {0}
        BY <2>1, ThousandsPositive
    <2>3. Thousands(m + 1) = 1000 * d
        BY <2>1, ThousandsOfOneMore
    <2>4. Thousands((m + 1) + 1) = 1000 * Thousands(m + 1)
        BY <2>1, ThousandsOfOneMore
    <2>5. q \in Nearest(whole - left, 100 * d)
        BY <1>1, <1>2, <1>6 DEF m
    <2> HIDE DEF d
    <2>6. whole = 1000000 * d
        BY <1>1, <2>1, <2>2, <2>3, <2>4
    <2>7. 100 * d \in Nat \ {0} /\ whole - left \in Int
        BY <1>1, <2>2
    <2>8. q \in Int /\ 2 * ((whole - left) - q * (100 * d)) \in -(100 * d)..(100 * d)
        BY <2>5, <2>7, NearestIsNear
    <2>9. q * whole = 1000000 * (q * d) /\ q * (100 * d) = 100 * (q * d) /\ q * d \in Int
        BY <2>2, <2>6, <2>8
    <2>10. Near(q, left, whole)
        BY <1>1, <2>2, <2>6, <2>8, <2>9 DEF Near
    <2> QED
        BY <2>10 DEF left, whole
<1> QED
    BY <1>4, <1>5, <1>6

(* A score lies between 0 and 1, and within the sum of the single risks.   *)
LEMMA ScoreInRange ==
    ASSUME NEW q, NEW left, NEW sum \in Int, NEW whole,
           Near(q, left, whole), AddsUp(left, sum, whole)
    PROVE  q \in 0..10000 /\ q <= 10 * sum
<1> DEFINE qw == q * whole
           sw == sum * whole
<1>1. /\ q \in Int /\ left \in Int /\ whole \in Nat \ {0} /\ qw \in Int /\ sw \in Int
      /\ 2 * (10000 * (whole - left) - qw) <= whole
      /\ -whole <= 2 * (10000 * (whole - left) - qw)
      /\ 0 <= left /\ left <= whole /\ 1000 * (whole - left) <= sw
    BY DEF Near, AddsUp
<1>2. (2 * q) * whole = 2 * qw /\ (20 * sum + 1) * whole = 20 * sw + whole
    BY <1>1
<1> HIDE DEF qw, sw
<1>3. (2 * q) * whole <= (20 * sum + 1) * whole
    BY <1>1, <1>2
<1>4. (2 * q) * whole <= 20001 * whole
    BY <1>1, <1>2
<1>5. (-1) * whole <= (2 * q) * whole
    BY <1>1, <1>2
<1>6. 2 * q <= 20 * sum + 1
    BY <1>1, <1>3, Cancel
<1>7. 2 * q <= 20001
    BY <1>1, <1>4, Cancel
<1>8. -1 <= 2 * q
    BY <1>1, <1>5, Cancel
<1> QED
    BY <1>1, <1>6, <1>7, <1>8

(* The scores of the same findings differ by the rounding only.            *)
LEMMA ScoresOfSame ==
    ASSUME NEW p, NEW q, NEW left, NEW whole, Near(p, left, whole), Near(q, left, whole)
    PROVE  p <= q + 1
<1> DEFINE pw == p * whole
           qw == q * whole
<1>1. /\ p \in Int /\ q \in Int /\ left \in Int /\ whole \in Nat \ {0} /\ pw \in Int /\ qw \in Int
      /\ -whole <= 2 * (10000 * (whole - left) - pw)
      /\ 2 * (10000 * (whole - left) - qw) <= whole
    BY DEF Near
<1>2. (q + 1) * whole = qw + whole
    BY <1>1
<1> HIDE DEF pw, qw
<1>3. pw <= (q + 1) * whole
    BY <1>1, <1>2
<1> QED
    BY <1>1, <1>3, Cancel DEF pw

(* A finding less does not raise the score, but for the rounding.          *)
LEMMA ScoreOfLess ==
    ASSUME NEW p, NEW q, NEW r, NEW left, NEW sum, NEW whole, NEW left1, NEW sum1, NEW whole1,
           Near(p, left, whole), Near(q, left1, whole1), 0 <= left,
           OneMore(r, left, sum, whole, left1, sum1, whole1)
    PROVE  p <= q + 1
<1> DEFINE pw == p * whole
           qw == q * whole
           rl == r * left
<1>1. /\ p \in Int /\ q \in Int /\ left \in Int /\ whole \in Nat \ {0} /\ pw \in Int /\ qw \in Int
      /\ r \in 0..1000 /\ rl \in Int /\ 0 <= rl
      /\ whole1 = 1000 * whole /\ left1 = (1000 - r) * left
      /\ -whole <= 2 * (10000 * (whole - left) - pw)
      /\ 2 * (10000 * (whole1 - left1) - q * whole1) <= whole1
    BY DEF Near, OneMore
<1>2. (q + 1) * whole = qw + whole /\ q * whole1 = 1000 * qw /\ left1 = 1000 * left - rl
    BY <1>1
<1> HIDE DEF pw, qw, rl
<1>3. 2 * (10000 * (1000 * whole - (1000 * left - rl)) - 1000 * qw) <= 1000 * whole
    BY <1>1, <1>2
<1>4. pw <= qw + whole
    BY <1>1, <1>3
<1>5. pw <= (q + 1) * whole
    BY <1>2, <1>4
<1> QED
    BY <1>1, <1>5, Cancel DEF pw

(* So does the score of any findings.                                      *)
LEMMA ScoreTyped ==
    ASSUME NEW fs \in SUBSET Finding, NEW q \in NoisyOr(fs)
    PROVE  q \in 0..10000 /\ q <= 10 * RiskOf(fs)
<1>1. Near(q, LeftAfter(fs), Whole(fs)) /\ AddsUp(LeftAfter(fs), RiskOf(fs), Whole(fs))
    BY ScoreIsNear, RiskIsBounded DEF Bounded
<1>2. RiskOf(fs) \in Int
    BY PartsTyped
<1> QED
    BY <1>1, <1>2, ScoreInRange

(* Nor does it for the score of any findings.                              *)
LEMMA ScoreWithout ==
    ASSUME NEW fs \in SUBSET Finding, NEW f \in Finding,
           NEW p \in NoisyOr(fs \ {f}), NEW q \in NoisyOr(fs)
    PROVE  p <= q + 1
<1>1. Near(p, LeftAfter(fs \ {f}), Whole(fs \ {f})) /\ Near(q, LeftAfter(fs), Whole(fs))
    BY ScoreIsNear
<1>2. CASE f \in fs
    <2>1. OneMore(FindingRisk(f), LeftAfter(fs \ {f}), RiskOf(fs \ {f}), Whole(fs \ {f}),
                  LeftAfter(fs), RiskOf(fs), Whole(fs))
        BY <1>2, FindingRiskType, PartsTyped, PartsWithout DEF OneMore
    <2>2. 0 <= LeftAfter(fs \ {f})
        BY RiskIsBounded DEF Bounded, AddsUp
    <2> QED
        BY <1>1, <2>1, <2>2, ScoreOfLess
<1>3. CASE f \notin fs
    <2>1. fs \ {f} = fs
        BY <1>3
    <2> QED
        BY <1>1, <2>1, ScoresOfSame
<1> QED
    BY <1>2, <1>3

(* The sum of the single risks does not shrink with more findings.         *)
LEMMA RiskOfSubset ==
    ASSUME NEW fs \in SUBSET Finding, NEW part \in SUBSET fs
    PROVE  RiskOf(part) <= RiskOf(fs)
<1> DEFINE Good == {T \in SUBSET fs : \A s \in SUBSET T : RiskOf(s) <= RiskOf(T)}
<1>1. ASSUME NEW T \in SUBSET fs, \A x \in T : T \ {x} \in Good
      PROVE  T \in Good
    <2> SUFFICES ASSUME NEW s \in SUBSET T PROVE RiskOf(s) <= RiskOf(T)
        OBVIOUS
    <2>1. RiskOf(s) \in Int /\ RiskOf(T) \in Int
        BY PartsTyped
    <2>2. CASE s = T
        BY <2>1, <2>2
    <2>3. CASE s # T
        <3>1. PICK f \in T : f \notin s
            BY <2>3
        <3>2. RiskOf(s) <= RiskOf(T \ {f})
            BY <1>1, <3>1
        <3>3. RiskOf(T) = FindingRisk(f) + RiskOf(T \ {f}) /\ RiskOf(T \ {f}) \in Int
            BY PartsWithout, PartsTyped
        <3>4. FindingRisk(f) \in 0..1000
            BY FindingRiskType
        <3> QED
            BY <2>1, <3>2, <3>3, <3>4
    <2> QED
        BY <2>2, <2>3
<1>2. IsFiniteSet(fs)
    BY ScoreParts
<1> HIDE DEF Good
<1>3. fs \in Good
    BY <1>1, <1>2, SubsetInduction
<1> QED
    BY <1>3 DEF Good

-----------------------------------------------------------------------------
(* The greatest of finitely many integers.                                 *)
LEMMA FiniteMax ==
    ASSUME NEW S \in SUBSET Int, IsFiniteSet(S), S # {}
    PROVE  Max(S) \in S /\ \A y \in S : y <= Max(S)
<1> DEFINE Good == {T \in SUBSET S : T # {} => \E x \in T : \A y \in T : x >= y}
<1>1. ASSUME NEW T \in SUBSET S, \A x \in T : T \ {x} \in Good
      PROVE  T \in Good
    <2> SUFFICES ASSUME T # {} PROVE \E x \in T : \A y \in T : x >= y
        OBVIOUS
    <2>1. PICK z \in T : TRUE
        OBVIOUS
    <2>2. T \ {z} \in Good
        BY <1>1
    <2>3. CASE T \ {z} = {}
        <3>1. \A y \in T : z >= y
            BY <2>3
        <3> QED
            BY <3>1
    <2>4. CASE \E x \in T \ {z} : \A y \in T \ {z} : x >= y
        <3>1. PICK x \in T \ {z} : \A y \in T \ {z} : x >= y
            BY <2>4
        <3>2. CASE x >= z
            <4>1. \A y \in T : x >= y
                BY <3>1, <3>2
            <4> QED
                BY <4>1
        <3>3. CASE ~(x >= z)
            <4>1. \A y \in T : z >= y
                BY <3>1, <3>3
            <4> QED
                BY <4>1
        <3> QED
            BY <3>2, <3>3
    <2> QED
        BY <2>2, <2>3, <2>4
<1> HIDE DEF Good
<1>2. S \in Good
    BY <1>1, SubsetInduction
<1>3. \E x \in S : \A y \in S : x >= y
    BY <1>2 DEF Good
<1> QED
    BY <1>3 DEF Max

(* The sum over the dimensions, written out.                               *)
LEMMA SumOfDimensions ==
    ASSUME NEW f \in [Dimension -> Int]
    PROVE  /\ SumFunction(f) \in Int
           /\ SumFunction(f) = f["data_integrity"] + f["model_integrity"]
                                 + f["inference_provenance"] + f["distribution_shift"]
<1> DEFINE S1 == {"distribution_shift"}
           S2 == S1 \cup {"inference_provenance"}
           S3 == S2 \cup {"model_integrity"}
           Sum(S) == Folded("sum", f, S)
<1>1. IsFiniteSet({}) /\ IsFiniteSet(S1)
    BY FS_EmptySet, FS_Singleton
<1>2. IsFiniteSet(S2)
    BY <1>1, FS_AddElement
<1>3. IsFiniteSet(S3)
    BY <1>2, FS_AddElement
<1>4. IsFiniteSet(Dimension)
    <2>1. Dimension = S3 \cup {"data_integrity"}
        BY DEF Dimension
    <2> QED
        BY <1>3, <2>1, FS_AddElement
<1>5. SumFunction(f) = Sum(Dimension)
    BY <1>4, SumIsFolded DEF SumFunction
<1>6. \A S \in SUBSET Dimension : \A x \in S : f[x] \in Int
    OBVIOUS
<1>7. Sum(Dimension) = With("sum", f["data_integrity"], Sum(S3))
    <2>1. "data_integrity" \in Dimension /\ Dimension \ {"data_integrity"} = S3
        BY DEF Dimension
    <2> QED
        BY <1>4, <1>6, <2>1, FoldedWithout
<1>8. Sum(S3) = With("sum", f["model_integrity"], Sum(S2))
    <2>1. "model_integrity" \in S3 /\ S3 \ {"model_integrity"} = S2 /\ S3 \in SUBSET Dimension
        BY DEF Dimension
    <2> HIDE DEF S3, S2
    <2> QED
        BY <1>3, <1>6, <2>1, FoldedWithout
<1>9. Sum(S2) = With("sum", f["inference_provenance"], Sum(S1))
    <2>1. "inference_provenance" \in S2 /\ S2 \ {"inference_provenance"} = S1
          /\ S2 \in SUBSET Dimension
        BY DEF Dimension
    <2> HIDE DEF S2, S1
    <2> QED
        BY <1>2, <1>6, <2>1, FoldedWithout
<1>10. Sum(S1) = With("sum", f["distribution_shift"], Sum({}))
    <2>1. "distribution_shift" \in S1 /\ S1 \ {"distribution_shift"} = {}
          /\ S1 \in SUBSET Dimension
        BY DEF Dimension
    <2> HIDE DEF S1
    <2> QED
        BY <1>1, <1>6, <2>1, FoldedWithout
<1>11. Sum({}) = 0
    BY <1>1, FoldedFirst DEF Unit
<1>12. \A d \in {"data_integrity", "model_integrity", "inference_provenance",
                 "distribution_shift"} : f[d] \in Int
    BY DEF Dimension
<1> HIDE DEF Sum, S1, S2, S3
<1>13. \A x, y : With("sum", x, y) = x + y
    BY DEF With
<1>14. SumFunction(f) = f["data_integrity"] + (f["model_integrity"]
                          + (f["inference_provenance"] + (f["distribution_shift"] + 0)))
    BY <1>5, <1>7, <1>8, <1>9, <1>10, <1>11, <1>13
<1> QED
    BY <1>12, <1>14

-----------------------------------------------------------------------------
(* The composite risk and what it is made of.                              *)

Weighted(score) == SumFunction([d \in Dimension |-> DimensionWeight[d] * score[d]])
Individual(fs) == Max({0} \cup { 1000 * FindingRisk(f) : f \in fs })
Floor(fs) == IF VetoTriggered(fs) THEN 100 * QuarantineAt ELSE 0

(* The weighted sum, written out.                                          *)
LEMMA WeightedIs ==
    ASSUME NEW score, \A d \in Dimension : score[d] \in Int
    PROVE  /\ Weighted(score) \in Int
           /\ Weighted(score) =
                DimensionWeight["data_integrity"] * score["data_integrity"]
                + DimensionWeight["model_integrity"] * score["model_integrity"]
                + DimensionWeight["inference_provenance"] * score["inference_provenance"]
                + DimensionWeight["distribution_shift"] * score["distribution_shift"]
<1> DEFINE f == [d \in Dimension |-> DimensionWeight[d] * score[d]]
<1>1. \A d \in Dimension : f[d] = DimensionWeight[d] * score[d] /\ f[d] \in Int
    BY WeightAssumption
<1>2. f \in [Dimension -> Int]
    BY <1>1
<1>3. Weighted(score) = SumFunction(f)
    BY DEF Weighted
<1>4. /\ "data_integrity" \in Dimension /\ "model_integrity" \in Dimension
      /\ "inference_provenance" \in Dimension /\ "distribution_shift" \in Dimension
    BY DEF Dimension
<1> HIDE DEF f
<1>5. /\ SumFunction(f) \in Int
      /\ SumFunction(f) = f["data_integrity"] + f["model_integrity"]
                            + f["inference_provenance"] + f["distribution_shift"]
    BY <1>2, SumOfDimensions
<1> QED
    BY <1>1, <1>3, <1>4, <1>5

(* The weights add up to 100.                                              *)
LEMMA WeightsAre ==
    /\ \A d \in Dimension : DimensionWeight[d] \in Nat
    /\ DimensionWeight["data_integrity"] + DimensionWeight["model_integrity"]
         + DimensionWeight["inference_provenance"] + DimensionWeight["distribution_shift"] = 100
<1>1. DimensionWeight \in [Dimension -> Int]
    BY WeightAssumption
<1> QED
    BY <1>1, WeightAssumption, SumOfDimensions

(* Weighing does not exceed the greatest score.                            *)
LEMMA WeightedBelow ==
    ASSUME NEW score, NEW b \in Int,
           \A d \in Dimension : score[d] \in Int /\ 0 <= score[d] /\ score[d] <= b
    PROVE  Weighted(score) \in Int /\ 0 <= Weighted(score) /\ Weighted(score) <= 100 * b
<1> DEFINE a(d) == DimensionWeight[d] * score[d]
           m(d) == DimensionWeight[d] * b
<1>1. ASSUME NEW d \in Dimension
      PROVE  a(d) \in Int /\ m(d) \in Int /\ 0 <= a(d) /\ a(d) <= m(d)
    <2>1. DimensionWeight[d] \in Nat /\ score[d] \in Int /\ 0 <= score[d] /\ score[d] <= b
        BY WeightsAre
    <2>2. \A w \in Nat, s \in Int : 0 <= s /\ s <= b => 0 <= w * s /\ w * s <= w * b
        OBVIOUS
    <2> QED
        BY <2>1, <2>2
<1>2. /\ "data_integrity" \in Dimension /\ "model_integrity" \in Dimension
      /\ "inference_provenance" \in Dimension /\ "distribution_shift" \in Dimension
    BY DEF Dimension
<1>3. Weighted(score) \in Int
      /\ Weighted(score) = a("data_integrity") + a("model_integrity")
                             + a("inference_provenance") + a("distribution_shift")
    BY WeightedIs
<1>4. m("data_integrity") + m("model_integrity") + m("inference_provenance")
        + m("distribution_shift") = 100 * b
    <2> DEFINE p == DimensionWeight["data_integrity"]
               q == DimensionWeight["model_integrity"]
               r == DimensionWeight["inference_provenance"]
               s == DimensionWeight["distribution_shift"]
    <2>1. p \in Int /\ q \in Int /\ r \in Int /\ s \in Int /\ p + q + r + s = 100
        BY <1>2, WeightsAre
    <2> HIDE DEF p, q, r, s
    <2>2. (p + q + r + s) * b = p * b + q * b + r * b + s * b
        BY <2>1
    <2>3. p * b + q * b + r * b + s * b = 100 * b
        BY <2>1, <2>2
    <2> QED
        BY <2>3 DEF p, q, r, s
<1> HIDE DEF a, m
<1>5. /\ a("data_integrity") \in Int /\ m("data_integrity") \in Int
      /\ 0 <= a("data_integrity") /\ a("data_integrity") <= m("data_integrity")
    BY <1>1, <1>2
<1>6. /\ a("model_integrity") \in Int /\ m("model_integrity") \in Int
      /\ 0 <= a("model_integrity") /\ a("model_integrity") <= m("model_integrity")
    BY <1>1, <1>2
<1>7. /\ a("inference_provenance") \in Int /\ m("inference_provenance") \in Int
      /\ 0 <= a("inference_provenance") /\ a("inference_provenance") <= m("inference_provenance")
    BY <1>1, <1>2
<1>8. /\ a("distribution_shift") \in Int /\ m("distribution_shift") \in Int
      /\ 0 <= a("distribution_shift") /\ a("distribution_shift") <= m("distribution_shift")
    BY <1>1, <1>2
<1> QED
    BY <1>3, <1>4, <1>5, <1>6, <1>7, <1>8

(* Scores that differ by the rounding weigh the same but for a hundredth   *)
(* of it in all.                                                           *)
LEMMA WeightedClose ==
    ASSUME NEW score, NEW other,
           \A d \in Dimension :
               score[d] \in Int /\ other[d] \in Int /\ score[d] <= other[d] + 1
    PROVE  Weighted(score) <= Weighted(other) + 100
<1> DEFINE w(d) == DimensionWeight[d]
           a(d) == w(d) * score[d]
           e(d) == w(d) * other[d]
<1>1. ASSUME NEW d \in Dimension
      PROVE  w(d) \in Int /\ a(d) \in Int /\ e(d) \in Int /\ a(d) <= e(d) + w(d)
    <2>1. w(d) \in Nat /\ score[d] \in Int /\ other[d] \in Int /\ score[d] <= other[d] + 1
        BY WeightsAre
    <2>2. \A x \in Nat, s, t \in Int : s <= t + 1 => x * s <= x * t + x
        <3> SUFFICES ASSUME NEW x \in Nat, NEW s \in Int, NEW t \in Int, s <= t + 1
                     PROVE  x * s <= x * t + x
            OBVIOUS
        <3>1. x * s <= x * (t + 1)
            OBVIOUS
        <3>2. x * (t + 1) = x * t + x
            OBVIOUS
        <3> QED
            BY <3>1, <3>2
    <2> QED
        BY <2>1, <2>2
<1>2. /\ "data_integrity" \in Dimension /\ "model_integrity" \in Dimension
      /\ "inference_provenance" \in Dimension /\ "distribution_shift" \in Dimension
    BY DEF Dimension
<1>3. Weighted(score) = a("data_integrity") + a("model_integrity")
                          + a("inference_provenance") + a("distribution_shift")
    BY WeightedIs
<1>4. Weighted(other) = e("data_integrity") + e("model_integrity")
                          + e("inference_provenance") + e("distribution_shift")
    BY WeightedIs
<1>5. w("data_integrity") + w("model_integrity") + w("inference_provenance")
        + w("distribution_shift") = 100
    BY WeightsAre
<1> HIDE DEF w, a, e
<1>6. /\ w("data_integrity") \in Int /\ a("data_integrity") \in Int /\ e("data_integrity") \in Int
      /\ a("data_integrity") <= e("data_integrity") + w("data_integrity")
    BY <1>1, <1>2
<1>7. /\ w("model_integrity") \in Int /\ a("model_integrity") \in Int
      /\ e("model_integrity") \in Int
      /\ a("model_integrity") <= e("model_integrity") + w("model_integrity")
    BY <1>1, <1>2
<1>8. /\ w("inference_provenance") \in Int /\ a("inference_provenance") \in Int
      /\ e("inference_provenance") \in Int
      /\ a("inference_provenance") <= e("inference_provenance") + w("inference_provenance")
    BY <1>1, <1>2
<1>9. /\ w("distribution_shift") \in Int /\ a("distribution_shift") \in Int
      /\ e("distribution_shift") \in Int
      /\ a("distribution_shift") <= e("distribution_shift") + w("distribution_shift")
    BY <1>1, <1>2
<1> QED
    BY <1>3, <1>4, <1>5, <1>6, <1>7, <1>8, <1>9

(* The greatest single risk.                                               *)
LEMMA IndividualIs ==
    ASSUME NEW fs \in SUBSET Finding
    PROVE  /\ Individual(fs) \in Int /\ 0 <= Individual(fs)
           /\ \A f \in fs : 1000 * FindingRisk(f) <= Individual(fs)
           /\ Individual(fs) = 0 \/ \E f \in fs : Individual(fs) = 1000 * FindingRisk(f)
<1> DEFINE risks == { 1000 * FindingRisk(f) : f \in fs }
           S == risks \cup {0}
<1>1. IsFiniteSet(fs)
    BY ScoreParts
<1>2. IsFiniteSet(risks)
    <2> DEFINE scale == [f \in fs |-> 1000 * FindingRisk(f)]
    <2>1. scale \in [fs -> risks] /\ \A r \in risks : \E f \in fs : scale[f] = r
        OBVIOUS
    <2> HIDE DEF scale, risks
    <2>2. scale \in Surjection(fs, risks)
        BY <2>1 DEF Surjection
    <2> QED
        BY <1>1, <2>2, FS_Surjection
<1>3. IsFiniteSet(S)
    BY <1>2, FS_AddElement
<1>4. \A f \in fs : FindingRisk(f) \in 0..1000
    BY FindingRiskType
<1>5. S \in SUBSET Int /\ 0 \in S /\ \A f \in fs : 1000 * FindingRisk(f) \in S
    BY <1>4
<1>6. \A x \in S : x = 0 \/ \E f \in fs : x = 1000 * FindingRisk(f)
    OBVIOUS
<1>7. {0} \cup risks = S
    OBVIOUS
<1>8. Individual(fs) = Max(S)
    BY <1>7 DEF Individual
<1> HIDE DEF S
<1>9. Max(S) \in S /\ \A y \in S : y <= Max(S)
    BY <1>3, <1>5, FiniteMax
<1>10. Individual(fs) \in Int /\ 0 <= Individual(fs)
    BY <1>5, <1>8, <1>9
<1>11. ASSUME NEW f \in fs PROVE 1000 * FindingRisk(f) <= Individual(fs)
    <2>1. 1000 * FindingRisk(f) \in S
        BY <1>5
    <2> QED
        BY <1>8, <1>9, <2>1
<1>12. Individual(fs) = 0 \/ \E f \in fs : Individual(fs) = 1000 * FindingRisk(f)
    BY <1>6, <1>8, <1>9
<1> QED
    BY <1>10, <1>11, <1>12

(* The composite risk is the greatest of the three, rounded.               *)
LEMMA CompositeIs ==
    ASSUME NEW fs \in SUBSET Finding, NEW score, Weighted(score) \in Int,
           NEW risk \in Composite(fs, score)
    PROVE  \E m \in {Individual(fs), Weighted(score), Floor(fs)} :
             /\ m \in Int
             /\ Individual(fs) <= m /\ Weighted(score) <= m /\ Floor(fs) <= m
             /\ risk \in Int /\ m \div 100 <= risk /\ 2 * (m - risk * 100) \in -100..100
<1> DEFINE S == {Individual(fs), Weighted(score), Floor(fs)}
<1>1. Individual(fs) \in Int
    BY IndividualIs
<1>2. Floor(fs) \in Int
    BY ConfigAssumption DEF Floor
<1>3. S \in SUBSET Int /\ S # {}
    BY <1>1, <1>2
<1>4. IsFiniteSet(S)
    <2>1. IsFiniteSet({Floor(fs)})
        BY FS_Singleton
    <2>2. IsFiniteSet({Floor(fs)} \cup {Weighted(score)})
        BY <2>1, FS_AddElement
    <2>3. IsFiniteSet(({Floor(fs)} \cup {Weighted(score)}) \cup {Individual(fs)})
        BY <2>2, FS_AddElement
    <2>4. S = ({Floor(fs)} \cup {Weighted(score)}) \cup {Individual(fs)}
        OBVIOUS
    <2> QED
        BY <2>3, <2>4
<1>5. risk \in Nearest(Max(S), 100)
    BY DEF Composite, Individual, Weighted, Floor
<1>6. Individual(fs) \in S /\ Weighted(score) \in S /\ Floor(fs) \in S
    OBVIOUS
<1> HIDE DEF S
<1>7. Max(S) \in S /\ \A y \in S : y <= Max(S)
    BY <1>3, <1>4, FiniteMax
<1>8. Max(S) \in Int
    BY <1>3, <1>7
<1>9. risk \in Int /\ Max(S) \div 100 <= risk /\ 2 * (Max(S) - risk * 100) \in -100..100
    <2> DEFINE n == Max(S)
               d == 100
    <2>1. n \in Int /\ d \in Nat \ {0} /\ risk \in Nearest(n, d)
        BY <1>5, <1>8
    <2> HIDE DEF n, d
    <2>2. risk \in Int /\ n \div d <= risk /\ 2 * (n - risk * d) \in -d..d
        BY <2>1, NearestIsNear
    <2> QED
        BY <2>2 DEF n, d
<1> QED
    BY <1>6, <1>7, <1>9, <1>8 DEF S

(* The findings of one dimension.                                          *)
InDimension(fs, d) == { f \in fs : DimensionOf(f) = d }

(* The score of a dimension is the one of its findings.                    *)
LEMMA ScoresAre ==
    ASSUME NEW fs \in SUBSET Finding, NEW score \in DimensionScores(fs), NEW d \in Dimension
    PROVE  score[d] \in NoisyOr(InDimension(fs, d))
<1> DEFINE near == [e \in Dimension |-> NoisyOr({ f \in fs : DimensionOf(f) = e })]
<1>1. \A e \in Dimension : score[e] \in near[e]
    BY DEF DimensionScores
<1>2. near[d] = NoisyOr({ f \in fs : DimensionOf(f) = d })
    OBVIOUS
<1> HIDE DEF near
<1> QED
    BY <1>1, <1>2 DEF InDimension

(* It lies between 0 and 1, and within the sum of all single risks.        *)
LEMMA ScoresInRange ==
    ASSUME NEW fs \in SUBSET Finding, NEW score \in DimensionScores(fs), NEW d \in Dimension
    PROVE  score[d] \in Int /\ 0 <= score[d] /\ score[d] <= 10000 /\ score[d] <= 10 * RiskOf(fs)
<1> DEFINE part == InDimension(fs, d)
<1>1. part \in SUBSET fs /\ part \in SUBSET Finding
    BY DEF InDimension
<1>2. score[d] \in NoisyOr(part)
    BY ScoresAre
<1> HIDE DEF part
<1>3. score[d] \in 0..10000 /\ score[d] <= 10 * RiskOf(part)
    BY <1>1, <1>2, ScoreTyped
<1>4. RiskOf(part) <= RiskOf(fs)
    BY <1>1, RiskOfSubset
<1>5. RiskOf(part) \in Int /\ RiskOf(fs) \in Int
    BY <1>1, PartsTyped
<1> DEFINE s == score[d]
           a == RiskOf(part)
           b == RiskOf(fs)
<1>6. s \in 0..10000 /\ s <= 10 * a /\ a <= b /\ a \in Int /\ b \in Int
    BY <1>3, <1>4, <1>5
<1> HIDE DEF s, a, b
<1>7. s \in Int /\ 0 <= s /\ s <= 10000 /\ s <= 10 * b
    BY <1>6
<1> QED
    BY <1>7 DEF s, b

(* The sum of the single risks is at least each of them.                   *)
LEMMA RiskCoversEach ==
    ASSUME NEW fs \in SUBSET Finding
    PROVE  /\ RiskOf(fs) \in Int /\ 0 <= RiskOf(fs)
           /\ \A f \in fs : FindingRisk(f) <= RiskOf(fs)
<1>1. RiskOf(fs) \in Int /\ 0 <= RiskOf(fs)
    BY PartsTyped, RiskIsBounded DEF Bounded, AddsUp
<1>2. ASSUME NEW f \in fs
      PROVE  FindingRisk(f) <= RiskOf(fs)
    <2>1. RiskOf(fs \ {f}) \in Int /\ 0 <= RiskOf(fs \ {f})
        BY PartsTyped, RiskIsBounded DEF Bounded, AddsUp
    <2>2. RiskOf(fs) = FindingRisk(f) + RiskOf(fs \ {f}) /\ FindingRisk(f) \in 0..1000
        BY PartsWithout, FindingRiskType
    <2> QED
        BY <2>1, <2>2
<1> QED
    BY <1>1, <1>2

(* The bounds of the composite risk.                                       *)
LEMMA RiskBounds ==
    ASSUME NEW fs \in SUBSET Finding, NEW risk \in CompositeRisks(fs)
    PROVE  /\ risk \in 0..10000
           /\ \A f \in fs : risk >= 10 * FindingRisk(f)
           /\ VetoTriggered(fs) \/ risk <= 10 * RiskOf(fs)
<1>1. PICK score \in DimensionScores(fs) : risk \in Composite(fs, score)
    BY DEF CompositeRisks
<1>2. ASSUME NEW d \in Dimension
      PROVE  score[d] \in Int /\ 0 <= score[d] /\ score[d] <= 10000 /\ score[d] <= 10 * RiskOf(fs)
    BY ScoresInRange
<1>3. RiskOf(fs) \in Int /\ 0 <= RiskOf(fs) /\ \A f \in fs : FindingRisk(f) <= RiskOf(fs)
    BY RiskCoversEach
<1>4. Weighted(score) \in Int /\ 0 <= Weighted(score) /\ Weighted(score) <= 1000000
    <2> DEFINE b == 10000
    <2>1. b \in Int /\ \A d \in Dimension : score[d] \in Int /\ 0 <= score[d] /\ score[d] <= b
        BY <1>2
    <2> HIDE DEF b
    <2>2. Weighted(score) <= 100 * b /\ Weighted(score) \in Int /\ 0 <= Weighted(score)
        BY <2>1, WeightedBelow
    <2> QED
        BY <2>2 DEF b
<1>5. Weighted(score) <= 1000 * RiskOf(fs)
    <2> DEFINE b == 10 * RiskOf(fs)
    <2>1. b \in Int /\ \A d \in Dimension : score[d] \in Int /\ 0 <= score[d] /\ score[d] <= b
        BY <1>2, <1>3
    <2> HIDE DEF b
    <2>2. Weighted(score) <= 100 * b
        BY <2>1, WeightedBelow
    <2> QED
        BY <1>3, <1>4, <2>1, <2>2 DEF b
<1>6. /\ Individual(fs) \in Int /\ 0 <= Individual(fs)
      /\ Individual(fs) <= 1000000 /\ Individual(fs) <= 1000 * RiskOf(fs)
    <2>1. CASE Individual(fs) = 0
        BY <1>3, <2>1
    <2>2. CASE \E f \in fs : Individual(fs) = 1000 * FindingRisk(f)
        <3>1. PICK f \in fs : Individual(fs) = 1000 * FindingRisk(f)
            BY <2>2
        <3>2. FindingRisk(f) \in 0..1000 /\ FindingRisk(f) <= RiskOf(fs)
            BY <1>3, FindingRiskType
        <3> QED
            BY <1>3, <3>1, <3>2
    <2> QED
        BY <2>1, <2>2, IndividualIs
<1>7. Floor(fs) \in Int /\ 0 <= Floor(fs) /\ Floor(fs) <= 1000000
      /\ (~VetoTriggered(fs) => Floor(fs) = 0)
    <2>1. 100 * QuarantineAt \in Int /\ 0 <= 100 * QuarantineAt /\ 100 * QuarantineAt <= 1000000
        BY ConfigAssumption
    <2>2. CASE VetoTriggered(fs)
        <3>1. Floor(fs) = 100 * QuarantineAt
            BY <2>2 DEF Floor
        <3> QED
            BY <2>1, <2>2, <3>1
    <2>3. CASE ~VetoTriggered(fs)
        <3>1. Floor(fs) = 0
            BY <2>3 DEF Floor
        <3> QED
            BY <3>1
    <2> QED
        BY <2>2, <2>3
<1>8. PICK m \in {Individual(fs), Weighted(score), Floor(fs)} :
         /\ m \in Int
         /\ Individual(fs) <= m /\ Weighted(score) <= m /\ Floor(fs) <= m
         /\ risk \in Int /\ m \div 100 <= risk /\ 2 * (m - risk * 100) \in -100..100
    BY <1>1, <1>4, CompositeIs
<1>9. m \in Int /\ 0 <= m /\ m <= 1000000
    <2>1. m \in Int
        BY <1>8
    <2>2. CASE m = Individual(fs)
        BY <1>6, <2>1, <2>2
    <2>3. CASE m = Weighted(score)
        BY <1>4, <2>1, <2>3
    <2>4. CASE m = Floor(fs)
        BY <1>7, <2>1, <2>4
    <2> QED
        BY <2>2, <2>3, <2>4
<1>10. risk \in 0..10000
    BY <1>8, <1>9
<1>11. ASSUME NEW f \in fs
       PROVE  risk >= 10 * FindingRisk(f)
    <2>1. FindingRisk(f) \in 0..1000 /\ 1000 * FindingRisk(f) <= Individual(fs)
        BY FindingRiskType, IndividualIs
    <2>2. 1000 * FindingRisk(f) <= m
        BY <1>6, <1>8, <2>1
    <2>3. 10 * FindingRisk(f) <= m \div 100
        BY <1>9, <2>1, <2>2
    <2>4. m \div 100 \in Int
        BY <1>9
    <2> DEFINE k == m \div 100
    <2>5. k \in Int /\ 10 * FindingRisk(f) <= k /\ k <= risk /\ risk \in Int
        BY <1>8, <2>3, <2>4
    <2> HIDE DEF k
    <2> QED
        BY <2>1, <2>5
<1>12. ASSUME ~VetoTriggered(fs)
       PROVE  risk <= 10 * RiskOf(fs)
    <2>1. /\ Individual(fs) <= 1000 * RiskOf(fs) /\ Weighted(score) <= 1000 * RiskOf(fs)
          /\ Floor(fs) <= 1000 * RiskOf(fs)
        BY <1>3, <1>5, <1>6, <1>7, <1>12
    <2>2. m <= 1000 * RiskOf(fs)
        BY <2>1
    <2> QED
        BY <1>3, <1>8, <2>2
<1> QED
    BY <1>10, <1>11, <1>12

(* One finding less does not raise the risk, but for the rounding.         *)
LEMMA RiskWithout ==
    ASSUME NEW fs \in SUBSET Finding, NEW f \in fs,
           NEW less \in CompositeRisks(fs \ {f}), NEW risk \in CompositeRisks(fs)
    PROVE  less <= risk + Rounding
<1> DEFINE part == fs \ {f}
<1>1. part \in SUBSET Finding /\ part \in SUBSET fs
    OBVIOUS
<1>2. PICK other \in DimensionScores(part) : less \in Composite(part, other)
    BY DEF CompositeRisks
<1>3. PICK score \in DimensionScores(fs) : risk \in Composite(fs, score)
    BY DEF CompositeRisks
<1>4. \A d \in Dimension : InDimension(part, d) = InDimension(fs, d) \ {f}
    BY DEF InDimension
<1> HIDE DEF part
<1>5. ASSUME NEW d \in Dimension
      PROVE  other[d] \in Int /\ score[d] \in Int /\ other[d] <= score[d] + 1
    <2> DEFINE gs == InDimension(fs, d)
    <2>1. other[d] \in Int /\ score[d] \in Int
        BY <1>1, ScoresInRange
    <2>2. other[d] \in NoisyOr(gs \ {f}) /\ score[d] \in NoisyOr(gs)
        BY <1>1, <1>4, ScoresAre
    <2>3. gs \in SUBSET Finding /\ f \in Finding
        BY DEF InDimension
    <2> HIDE DEF gs
    <2>4. other[d] <= score[d] + 1
        BY <2>2, <2>3, ScoreWithout
    <2> QED
        BY <2>1, <2>4
<1>6. Weighted(other) <= Weighted(score) + 100
    BY <1>5, WeightedClose
<1>7. Weighted(other) \in Int /\ Weighted(score) \in Int
    BY <1>5, WeightedIs
<1>8. /\ Individual(part) \in Int /\ Individual(fs) \in Int
      /\ Individual(part) <= Individual(fs)
    <2>1. Individual(part) \in Int /\ Individual(fs) \in Int /\ 0 <= Individual(fs)
        BY <1>1, IndividualIs
    <2>2. CASE Individual(part) = 0
        BY <2>1, <2>2
    <2>3. CASE \E g \in part : Individual(part) = 1000 * FindingRisk(g)
        <3>1. PICK g \in part : Individual(part) = 1000 * FindingRisk(g)
            BY <2>3
        <3>2. 1000 * FindingRisk(g) <= Individual(fs)
            BY <1>1, <3>1, IndividualIs
        <3> QED
            BY <2>1, <3>1, <3>2
    <2> QED
        BY <1>1, <2>2, <2>3, IndividualIs
<1>9. Floor(part) \in Int /\ Floor(fs) \in Int /\ Floor(part) <= Floor(fs)
    BY <1>1, ConfigAssumption DEF Floor, VetoTriggered
<1>10. PICK n \in {Individual(part), Weighted(other), Floor(part)} :
         /\ n \in Int /\ less \in Int /\ 2 * (n - less * 100) \in -100..100
    BY <1>1, <1>2, <1>7, CompositeIs
<1>11. PICK m \in {Individual(fs), Weighted(score), Floor(fs)} :
         /\ m \in Int
         /\ Individual(fs) <= m /\ Weighted(score) <= m /\ Floor(fs) <= m
         /\ risk \in Int /\ 2 * (m - risk * 100) \in -100..100
    BY <1>3, <1>7, CompositeIs
<1>12. n <= m + 100
    BY <1>6, <1>7, <1>8, <1>9, <1>10, <1>11
<1> QED
    BY <1>10, <1>11, <1>12 DEF Rounding

-----------------------------------------------------------------------------
(* The session's lists agree with what became of the checks, findings of   *)
(* checks come from checks that ran, and the contributor check runs        *)
(* whether or not it was requested.                                        *)
Bookkeeping ==
    /\ \A c \in Check :
         /\ c \in executed <=> fate[c] \in {"ran", "unrecorded"}
         /\ c \in skipped <=>
              \/ fate[c] \in {"failed", "unrecorded"}
              \/ fate[c] \in {"notRequested", "notApplicable"} /\ c # Contributor
    /\ \A f \in findings : Detail[f].threat \in Check => Detail[f].threat \in executed
    /\ fate[Contributor] # "notRequested"

(* A verdict was computed on the session as it stands.                     *)
VerdictCurrent ==
    verdict # NoVerdict => verdict \in Aggregate(findings, executed, skipped)

IInv == SessionTyped /\ Bookkeeping /\ VerdictCurrent

-----------------------------------------------------------------------------
(* A finding has a dimension, the one of the module its threat belongs to. *)
LEMMA DimensionOfFinding ==
    ASSUME NEW f \in Finding
    PROVE  /\ DimensionOf(f) = "data_integrity" <=>
                 Detail[f].threat \in DatasetCheck \cup {Contributor}
           /\ DimensionOf(f) = "model_integrity" <=> Detail[f].threat \in ModelCheck
           /\ DimensionOf(f) = "inference_provenance" <=> Detail[f].threat \in RecordThreat
<1>1. Detail[f].threat \in Check \cup RecordThreat
    BY DetailAssumption DEF Details
<1> QED
    BY <1>1, CheckAssumption DEF DimensionOf, Check

(* What the members of Aggregate have in common.                           *)
LEMMA AggregateParts ==
    ASSUME NEW fs, NEW ex, NEW sk, NEW v \in Aggregate(fs, ex, sk)
    PROVE  /\ v.unsupported = Unsupported(fs, ex, sk)
           /\ v.disposition = DispositionOf(v.risk, fs, Unsupported(fs, ex, sk))
BY DEF Aggregate

(* The risk of a verdict is one its findings allow.                        *)
LEMMA AggregateRisk ==
    ASSUME NEW fs, NEW ex, NEW sk, NEW v \in Aggregate(fs, ex, sk)
    PROVE  v.risk \in CompositeRisks(fs)
BY DEF Aggregate

(* A module that runs leaves the books in order.                           *)
LEMMA RunModuleKeepsBooks ==
    ASSUME SessionTyped, Bookkeeping,
           NEW own \in SUBSET Check, NEW dimension,
           \A f \in Finding : DimensionOf(f) = dimension <=> Detail[f].threat \in own,
           NEW outcome \in Outcomes(own), NEW fs \in SUBSET Finding,
           Contributor \in own => outcome[Contributor] # "notRequested",
           RunModule(own, dimension, outcome, fs)
    PROVE  SessionTyped' /\ Bookkeeping'
<1> USE DEF SessionTyped
<1>1. /\ executed' = (executed \ own) \cup Executed(outcome)
      /\ skipped' = (skipped \ own) \cup Skipped(outcome)
      /\ findings' = { f \in findings : DimensionOf(f) # dimension } \cup fs
      /\ fate' = [c \in Check |-> IF c \in own THEN outcome[c] ELSE fate[c]]
      /\ \A f \in fs : Detail[f].threat \in Executed(outcome)
    BY DEF RunModule, Merge, ReportedBy
<1>2. /\ DOMAIN outcome = own
      /\ \A c \in own : outcome[c] \in Fates
      /\ Executed(outcome) \subseteq own /\ Skipped(outcome) \subseteq own
    BY DEF Outcomes, Executed, Skipped
<1>3. SessionTyped'
    <2>1. executed' \in SUBSET Analysis /\ skipped' \in SUBSET Check
        BY <1>1, <1>2 DEF Analysis
    <2>2. findings' \in SUBSET Finding
        BY <1>1
    <2>3. fate' \in [Check -> Fates]
        BY <1>1, <1>2
    <2> QED
        BY <2>1, <2>2, <2>3
<1>4. ASSUME NEW c \in Check
      PROVE  /\ c \in executed' <=> fate'[c] \in {"ran", "unrecorded"}
             /\ c \in skipped' <=>
                  \/ fate'[c] \in {"failed", "unrecorded"}
                  \/ fate'[c] \in {"notRequested", "notApplicable"} /\ c # Contributor
    <2>1. CASE c \in own
        <3>1. fate'[c] = outcome[c]
            BY <1>1, <2>1
        <3>2. (c \in executed' <=> c \in Executed(outcome))
              /\ (c \in skipped' <=> c \in Skipped(outcome))
            BY <1>1, <2>1
        <3> QED
            BY <1>2, <2>1, <3>1, <3>2 DEF Executed, Skipped
    <2>2. CASE c \notin own
        <3>1. fate'[c] = fate[c]
            BY <1>1, <2>2
        <3>2. (c \in executed' <=> c \in executed) /\ (c \in skipped' <=> c \in skipped)
            BY <1>1, <1>2, <2>2
        <3> QED
            BY <3>1, <3>2 DEF Bookkeeping
    <2> QED
        BY <2>1, <2>2
<1>5. ASSUME NEW f \in findings', Detail[f].threat \in Check
      PROVE  Detail[f].threat \in executed'
    <2>1. CASE f \in fs
        BY <1>1, <2>1
    <2>2. CASE f \notin fs
        <3>1. f \in findings /\ DimensionOf(f) # dimension
            BY <1>1, <2>2
        <3>2. Detail[f].threat \in executed /\ Detail[f].threat \notin own
            BY <1>5, <3>1 DEF Bookkeeping
        <3> QED
            BY <1>1, <3>2
    <2> QED
        BY <2>1, <2>2
<1>6. fate'[Contributor] # "notRequested"
    <2>1. Contributor \in Check
        BY DEF Check
    <2> QED
        BY <1>1, <2>1 DEF Bookkeeping
<1> QED
    BY <1>3, <1>4, <1>5, <1>6 DEF Bookkeeping

(* It holds in a new session.                                              *)
LEMMA InitInv == Init => IInv
BY DEF Init, IInv, SessionTyped, Bookkeeping, VerdictCurrent, Fates, Check

(* The dataset module keeps it.                                            *)
LEMMA RunDatasetStep ==
    ASSUME IInv, NEW outcome \in Outcomes(DatasetCheck \cup {Contributor}),
           NEW fs \in FindingsOn(DatasetCheck \cup {Contributor}), RunDataset(outcome, fs)
    PROVE  IInv'
<1> DEFINE own == DatasetCheck \cup {Contributor}
<1>1. own \in SUBSET Check /\ fs \in SUBSET Finding
    BY DEF Check, FindingsOn
<1>2. \A f \in Finding : DimensionOf(f) = "data_integrity" <=> Detail[f].threat \in own
    BY DimensionOfFinding
<1>3. RunModule(own, "data_integrity", outcome, fs) /\ outcome[Contributor] # "notRequested"
    BY DEF RunDataset
<1>4. SessionTyped' /\ Bookkeeping'
    BY <1>1, <1>2, <1>3, RunModuleKeepsBooks DEF IInv
<1>5. VerdictCurrent'
    BY <1>3 DEF RunModule, VerdictCurrent
<1> QED
    BY <1>4, <1>5 DEF IInv

(* The model module keeps it.                                              *)
LEMMA RunModelStep ==
    ASSUME IInv, NEW outcome \in Outcomes(ModelCheck), NEW fs \in FindingsOn(ModelCheck),
           RunModel(outcome, fs)
    PROVE  IInv'
<1>1. ModelCheck \in SUBSET Check /\ fs \in SUBSET Finding /\ Contributor \notin ModelCheck
    BY CheckAssumption DEF Check, FindingsOn
<1>2. \A f \in Finding : DimensionOf(f) = "model_integrity" <=> Detail[f].threat \in ModelCheck
    BY DimensionOfFinding
<1>3. RunModule(ModelCheck, "model_integrity", outcome, fs)
    BY DEF RunModel
<1>4. SessionTyped' /\ Bookkeeping'
    BY <1>1, <1>2, <1>3, RunModuleKeepsBooks DEF IInv
<1>5. VerdictCurrent'
    BY <1>3 DEF RunModule, VerdictCurrent
<1> QED
    BY <1>4, <1>5 DEF IInv

(* Verifying a record keeps it.                                            *)
LEMMA VerifyRecordStep ==
    ASSUME IInv, NEW fs \in FindingsOn(RecordThreat), VerifyRecord(fs)
    PROVE  IInv'
<1> USE DEF SessionTyped
<1>1. /\ executed' = (executed \ {InferenceProvenance}) \cup {InferenceProvenance}
      /\ skipped' = skipped \ {InferenceProvenance}
      /\ findings' = { f \in findings : DimensionOf(f) # "inference_provenance" } \cup fs
      /\ fate' = fate
      /\ verdict' = NoVerdict
    BY DEF VerifyRecord, Merge
<1>2. /\ fs \in SUBSET Finding
      /\ \A f \in fs : Detail[f].threat \notin Check
    BY CheckAssumption DEF FindingsOn
<1>3. \A c \in Check : (c \in executed' <=> c \in executed) /\ (c \in skipped' <=> c \in skipped)
    BY <1>1, CheckAssumption
<1>4. SessionTyped'
    BY <1>1, <1>2 DEF IInv, Analysis
<1>5. Bookkeeping'
    <2>1. \A c \in Check :
             /\ c \in executed' <=> fate'[c] \in {"ran", "unrecorded"}
             /\ c \in skipped' <=>
                  \/ fate'[c] \in {"failed", "unrecorded"}
                  \/ fate'[c] \in {"notRequested", "notApplicable"} /\ c # Contributor
        BY <1>1, <1>3 DEF IInv, Bookkeeping
    <2>2. \A f \in findings' : Detail[f].threat \in Check => Detail[f].threat \in executed'
        BY <1>1, <1>2, <1>3 DEF IInv, Bookkeeping
    <2>3. fate'[Contributor] # "notRequested"
        BY <1>1 DEF IInv, Bookkeeping
    <2> QED
        BY <2>1, <2>2, <2>3 DEF Bookkeeping
<1>6. VerdictCurrent'
    BY <1>1 DEF VerdictCurrent
<1> QED
    BY <1>4, <1>5, <1>6 DEF IInv

(* Assessing the session keeps it, and so does a step that changes nothing.*)
LEMMA AssessStep ==
    ASSUME IInv, Assess \/ UNCHANGED vars
    PROVE  IInv'
<1>1. UNCHANGED << executed, skipped, findings, fate >>
    BY DEF Assess, vars
<1>2. SessionTyped' /\ Bookkeeping'
    BY <1>1 DEF IInv, SessionTyped, Bookkeeping
<1>3. VerdictCurrent'
    <2>1. CASE Assess
        BY <1>1, <2>1 DEF Assess, VerdictCurrent
    <2>2. CASE UNCHANGED vars
        BY <2>2 DEF vars, IInv, VerdictCurrent
    <2> QED
        BY <2>1, <2>2
<1> QED
    BY <1>2, <1>3 DEF IInv

(* Every step keeps it.                                                    *)
LEMMA NextStep == IInv /\ [Next]_vars => IInv'
BY RunDatasetStep, RunModelStep, VerifyRecordStep, AssessStep DEF Next

(* Whatever modules run, in whatever order, and however their checks fare, *)
(* the session's lists stay in agreement with it.                          *)
THEOREM Invariance == Spec => []IInv
<1>1. Init => IInv
    BY InitInv
<1>2. IInv /\ [Next]_vars => IInv'
    BY NextStep
<1> QED
    BY <1>1, <1>2, PTL DEF Spec

-----------------------------------------------------------------------------
(* What a verdict on an orderly session leaves unsupported.                *)
LEMMA UnsupportedChecks ==
    ASSUME IInv, verdict # NoVerdict
    PROVE  CoverageTold
<1> DEFINE undone == { c \in Check :
                \/ fate[c] = "failed"
                \/ fate[c] \in {"notRequested", "notApplicable"} /\ c # Contributor }
<1>1. verdict.unsupported = skipped \ (executed \cup { Detail[f].threat : f \in findings })
    BY AggregateParts DEF IInv, VerdictCurrent, Unsupported
<1>2. ASSUME NEW c \in Check
      PROVE  c \in verdict.unsupported <=> c \in undone
    <2>1. c \in { Detail[f].threat : f \in findings } => c \in executed
        BY DEF IInv, Bookkeeping
    <2>2. c \in verdict.unsupported <=> c \in skipped /\ c \notin executed
        BY <1>1, <2>1
    <2>3. fate[c] \in Fates
        BY DEF IInv, SessionTyped
    <2>4. c \in skipped /\ c \notin executed <=> c \in undone
        BY <2>3 DEF IInv, Bookkeeping, Fates
    <2> QED
        BY <2>2, <2>4
<1>3. verdict.unsupported \subseteq Check
    BY <1>1 DEF IInv, SessionTyped
<1> QED
    BY <1>2, <1>3 DEF CoverageTold

(* For any checks and findings: a verdict names exactly the checks that    *)
(* did not come to their end when their module last ran.                   *)
THEOREM CoverageAlwaysTold == Spec => []CoverageTold
<1>1. IInv => CoverageTold
    BY UnsupportedChecks DEF CoverageTold
<1> QED
    BY <1>1, Invariance, PTL

(* For any weights and thresholds: ACCEPT means that every check of the    *)
(* modules that ran came to its end and no finding asks for more.          *)
THEOREM AcceptAlwaysClean == Spec => []AcceptMeansClean
<1>1. ASSUME IInv, verdict # NoVerdict, verdict.disposition = "ACCEPT"
      PROVE  /\ \A c \in Check :
                  \/ fate[c] \in {"never", "ran", "unrecorded"}
                  \/ c = Contributor /\ fate[c] = "notApplicable"
             /\ \A f \in findings :
                  /\ Detail[f].recommended # "REVIEW"
                  /\ VetoEnabled => ~Vetoes(f)
    <2>1. "ACCEPT" = DispositionOf(verdict.risk, findings,
                                   Unsupported(findings, executed, skipped))
          /\ verdict.unsupported = Unsupported(findings, executed, skipped)
        BY <1>1, AggregateParts DEF IInv, VerdictCurrent
    <2>2. /\ ~VetoTriggered(findings)
          /\ verdict.unsupported = {}
          /\ ~ \E f \in findings : Detail[f].recommended = "REVIEW"
        BY <2>1 DEF DispositionOf
    <2>3. \A c \in Check : fate[c] \in Fates
        BY <1>1 DEF IInv, SessionTyped
    <2>4. verdict.unsupported = { c \in Check :
                \/ fate[c] = "failed"
                \/ fate[c] \in {"notRequested", "notApplicable"} /\ c # Contributor }
        BY <1>1, UnsupportedChecks DEF CoverageTold
    <2>5. ASSUME NEW c \in Check
          PROVE  \/ fate[c] \in {"never", "ran", "unrecorded"}
                 \/ c = Contributor /\ fate[c] = "notApplicable"
        <3>1. /\ fate[c] # "failed"
              /\ fate[c] \in {"notRequested", "notApplicable"} => c = Contributor
            BY <2>2, <2>4
        <3>2. c = Contributor => fate[c] # "notRequested"
            BY <1>1 DEF IInv, Bookkeeping
        <3> QED
            BY <2>3, <3>1, <3>2 DEF Fates
    <2>6. ASSUME NEW f \in findings
          PROVE  Detail[f].recommended # "REVIEW" /\ (VetoEnabled => ~Vetoes(f))
        BY <2>2 DEF VetoTriggered
    <2> QED
        BY <2>5, <2>6
<1>2. IInv => AcceptMeansClean
    BY <1>1 DEF AcceptMeansClean
<1> QED
    BY <1>2, Invariance, PTL

-----------------------------------------------------------------------------
(* For any weights and thresholds, whatever is found: everything has its   *)
(* type, and the risk of a verdict lies between 0 and 1.                   *)
THEOREM TypeCorrect == Spec => []TypeOK
<1>1. ASSUME IInv
      PROVE  TypeOK
    <2>1. SessionTyped
        BY <1>1 DEF IInv
    <2>2. CASE verdict = NoVerdict
        BY <2>1, <2>2 DEF TypeOK
    <2>3. CASE verdict # NoVerdict
        <3>1. verdict \in Aggregate(findings, executed, skipped)
            BY <1>1, <2>3 DEF IInv, VerdictCurrent
        <3>2. PICK risk \in CompositeRisks(findings) :
                 verdict = [risk |-> risk,
                            disposition |-> DispositionOf(risk, findings,
                                              Unsupported(findings, executed, skipped)),
                            contributing |-> ContributingFindings(findings),
                            unsupported |-> Unsupported(findings, executed, skipped)]
            BY <3>1 DEF Aggregate
        <3>3. findings \in SUBSET Finding /\ skipped \in SUBSET Check
            BY <2>1 DEF SessionTyped
        <3>4. risk \in 0..10000
            BY <3>3, RiskBounds
        <3>5. DispositionOf(risk, findings, Unsupported(findings, executed, skipped))
                \in Disposition
            BY DEF DispositionOf, Disposition
        <3>6. ContributingFindings(findings) \in SUBSET Finding
            BY <3>3 DEF ContributingFindings
        <3>7. Unsupported(findings, executed, skipped) \in SUBSET Analysis
            BY <3>3 DEF Unsupported, Analysis
        <3>8. verdict \in Verdicts
            BY <3>2, <3>4, <3>5, <3>6, <3>7 DEF Verdicts
        <3> QED
            BY <2>1, <3>8 DEF TypeOK
    <2> QED
        BY <2>2, <2>3
<1> QED
    BY <1>1, Invariance, PTL

(* For any weights and thresholds, and any number of findings: those that  *)
(* weigh little do not dilute one that weighs much, and without a veto the *)
(* risk is never above what the single risks add up to.                    *)
THEOREM RiskAlwaysWithinBounds == Spec => []RiskWithinBounds
<1>1. ASSUME IInv, verdict # NoVerdict
      PROVE  /\ \A f \in findings : verdict.risk >= 10 * FindingRisk(f)
             /\ \/ VetoTriggered(findings)
                \/ verdict.risk <= 10 * SumFunction([f \in findings |-> FindingRisk(f)]) + 1
    <2> DEFINE risk == verdict.risk
               sum == SumFunction([f \in findings |-> FindingRisk(f)])
    <2>1. findings \in SUBSET Finding
        BY <1>1 DEF IInv, SessionTyped
    <2>2. risk \in CompositeRisks(findings)
        BY <1>1, AggregateRisk DEF IInv, VerdictCurrent
    <2>3. sum = RiskOf(findings) /\ sum \in Int
        BY <2>1, ScoreParts, PartsTyped
    <2> HIDE DEF risk, sum
    <2>4. /\ risk \in 0..10000
          /\ \A f \in findings : risk >= 10 * FindingRisk(f)
          /\ VetoTriggered(findings) \/ risk <= 10 * RiskOf(findings)
        BY <2>1, <2>2, RiskBounds
    <2>5. VetoTriggered(findings) \/ risk <= 10 * sum + 1
        BY <2>3, <2>4
    <2> QED
        BY <2>4, <2>5 DEF risk, sum
<1>2. IInv => RiskWithinBounds
    BY <1>1 DEF RiskWithinBounds
<1> QED
    BY <1>2, Invariance, PTL

(* A disposition is as strict as its risk and its findings make it.        *)
LEMMA DispositionWithout ==
    ASSUME NEW fs \in SUBSET Finding, NEW f \in fs, NEW unsupported,
           NEW less \in Int, NEW risk \in Int, less <= risk
    PROVE  Rank(DispositionOf(less, fs \ {f}, unsupported))
             <= Rank(DispositionOf(risk, fs, unsupported))
<1>1. QuarantineAt \in Int /\ ReviewAt \in Int
    BY ConfigAssumption
<1>2. Rank("ACCEPT") = 0 /\ Rank("REVIEW") = 1 /\ Rank("QUARANTINE") = 2
    BY DEF Rank
<1>3. VetoTriggered(fs \ {f}) => VetoTriggered(fs)
    BY DEF VetoTriggered
<1>4. (\E g \in fs \ {f} : Detail[g].recommended = "REVIEW")
        => \E g \in fs : Detail[g].recommended = "REVIEW"
    OBVIOUS
<1>5. CASE VetoTriggered(fs) \/ risk >= QuarantineAt
    <2>1. DispositionOf(risk, fs, unsupported) = "QUARANTINE"
        BY <1>5 DEF DispositionOf
    <2>2. DispositionOf(less, fs \ {f}, unsupported) \in {"ACCEPT", "REVIEW", "QUARANTINE"}
        BY DEF DispositionOf
    <2> QED
        BY <1>2, <2>1, <2>2
<1>6. CASE ~(VetoTriggered(fs) \/ risk >= QuarantineAt)
    <2>1. ~(VetoTriggered(fs \ {f}) \/ less >= QuarantineAt)
        BY <1>1, <1>3, <1>6
    <2>2. CASE \/ risk >= ReviewAt \/ unsupported # {}
               \/ \E g \in fs : Detail[g].recommended = "REVIEW"
        <3>1. DispositionOf(risk, fs, unsupported) = "REVIEW"
            BY <1>6, <2>2 DEF DispositionOf
        <3>2. DispositionOf(less, fs \ {f}, unsupported) \in {"ACCEPT", "REVIEW"}
            BY <2>1 DEF DispositionOf
        <3> QED
            BY <1>2, <3>1, <3>2
    <2>3. CASE ~(\/ risk >= ReviewAt \/ unsupported # {}
                 \/ \E g \in fs : Detail[g].recommended = "REVIEW")
        <3>1. ~(\/ less >= ReviewAt \/ unsupported # {}
                \/ \E g \in fs \ {f} : Detail[g].recommended = "REVIEW")
            BY <1>1, <1>4, <2>3
        <3>2. DispositionOf(risk, fs, unsupported) = "ACCEPT"
            BY <1>6, <2>3 DEF DispositionOf
        <3>3. DispositionOf(less, fs \ {f}, unsupported) = "ACCEPT"
            BY <2>1, <3>1 DEF DispositionOf
        <3> QED
            BY <1>2, <3>2, <3>3
    <2> QED
        BY <2>2, <2>3
<1> QED
    BY <1>5, <1>6

(* For any weights and thresholds: with one of its findings left out, the  *)
(* session gets no stricter disposition, nor, up to the rounding, a higher *)
(* risk.                                                                   *)
THEOREM ReportingCannotHelp == Spec => []ReportingNeverHelps
<1>1. ASSUME IInv, verdict # NoVerdict, NEW f \in findings,
             NEW without \in Aggregate(findings \ {f}, executed, skipped)
      PROVE  /\ without.risk <= verdict.risk + Rounding
             /\ \/ Rank(without.disposition) <= Rank(verdict.disposition)
                \/ without.risk > verdict.risk
    <2> DEFINE less == without.risk
               risk == verdict.risk
               open == Unsupported(findings, executed, skipped)
    <2>1. findings \in SUBSET Finding /\ findings \ {f} \in SUBSET Finding
          /\ skipped \in SUBSET Check
        BY <1>1 DEF IInv, SessionTyped
    <2>2. verdict \in Aggregate(findings, executed, skipped)
        BY <1>1 DEF IInv, VerdictCurrent
    <2>3. less \in CompositeRisks(findings \ {f}) /\ risk \in CompositeRisks(findings)
        BY <1>1, <2>2, AggregateRisk
    <2>4. Unsupported(findings \ {f}, executed, skipped) = open
        <3>1. \A c \in skipped : c \in { Detail[g].threat : g \in findings } => c \in executed
            BY <1>1, <2>1 DEF IInv, Bookkeeping
        <3> QED
            BY <3>1 DEF Unsupported
    <2>5. /\ verdict.disposition = DispositionOf(risk, findings, open)
          /\ without.disposition = DispositionOf(less, findings \ {f}, open)
        BY <1>1, <2>2, <2>4, AggregateParts
    <2> HIDE DEF less, risk, open
    <2>6. less \in Int /\ risk \in Int
        <3>1. less \in 0..10000 /\ risk \in 0..10000
            BY <2>1, <2>3, RiskBounds
        <3> QED
            BY <3>1
    <2>7. less <= risk + Rounding
        BY <1>1, <2>1, <2>3, RiskWithout
    <2>8. CASE less <= risk
        <3>1. Rank(DispositionOf(less, findings \ {f}, open))
                <= Rank(DispositionOf(risk, findings, open))
            BY <2>1, <2>6, <2>8, DispositionWithout, Zenon
        <3>2. Rank(without.disposition) <= Rank(verdict.disposition)
            BY <2>5, <3>1
        <3> QED
            BY <2>7, <3>2 DEF less, risk
    <2>9. CASE ~(less <= risk)
        <3>1. less > risk
            BY <2>6, <2>9
        <3> QED
            BY <2>7, <3>1 DEF less, risk
    <2> QED
        BY <2>8, <2>9
<1>2. IInv => ReportingNeverHelps
    BY <1>1 DEF ReportingNeverHelps
<1> QED
    BY <1>2, Invariance, PTL

=============================================================================
