---------------------------- MODULE Funds_proofs ----------------------------
(***************************************************************************)
(* Sums over finite sets, and what the transfers of Funds do to the        *)
(* balances: what the proofs about both contracts share.                   *)
(***************************************************************************)
EXTENDS Funds, FiniteSetTheorems, TLAPS

\* A set of numbers that holds 0, and the successor of each of its members, is
\* Nat: induction, stated on sets, from the least element that WFMin gives.
LEMMA SetInduction ==
  ASSUME NEW T \in SUBSET Nat, 0 \in T, \A n \in Nat : n \in T => n + 1 \in T
  PROVE  T = Nat
<1> SUFFICES ASSUME Nat \ T # {} PROVE FALSE
  OBVIOUS
<1> DEFINE R == {ss \in Nat \X Nat : ss[1] < ss[2]}
<1>1. IsWellFoundedOn(R, Nat)
  BY NatLessThanWellFounded DEF OpToRel
<1>a. (Nat \ T) \subseteq Nat OBVIOUS
<1> HIDE DEF R
<1>2. PICK x \in Nat \ T : \A y \in Nat \ T : ~(<<y, x>> \in R)
  BY <1>1, <1>a, WFMin
<1>3. x # 0 /\ x - 1 \in Nat
  OBVIOUS
<1>4. x - 1 \notin T
  BY <1>3
<1>5. <<x - 1, x>> \in R
  BY <1>3 DEF R
<1>6. QED
  BY <1>2, <1>3, <1>4, <1>5

\* The element a sum takes next, and what makes f the table of the sums of g.
Picked(s) == CHOOSE x \in s : TRUE
Adds(g, f, s) == IF s = {} THEN 0 ELSE g[Picked(s)] + f[s \ {Picked(s)}]
IsTable(g, f, S) == f = [s \in SUBSET S |-> Adds(g, f, s)]

\* A sum is looked up in the table of the sums over every subset.
LEMMA SumChosen ==
  ASSUME NEW g, NEW S
  PROVE  SumFunctionOnSet(g, S) = (CHOOSE f : IsTable(g, f, S))[S]
BY DEF SumFunctionOnSet, FoldFunctionOnSet, MapThenFoldSet, IsTable, Adds, Picked

\* A finite set without one of its members has one member fewer.
LEMMA TakesOne ==
  ASSUME NEW s, IsFiniteSet(s), s # {}, NEW x \in s
  PROVE  /\ IsFiniteSet(s \ {x})
         /\ Cardinality(s \ {x}) \in Nat
         /\ Cardinality(s) = Cardinality(s \ {x}) + 1
BY FS_RemoveElement, FS_CardinalityType

\* A finite set has a table of sums.
LEMMA TableExists ==
  ASSUME NEW g, NEW S, IsFiniteSet(S)
  PROVE  \E f : IsTable(g, f, S)
<1> DEFINE Upto(f, n) == \A s \in SUBSET S : Cardinality(s) <= n => f[s] = Adds(g, f, s)
           T == {n \in Nat : \E f : Upto(f, n)}
<1>1. \A s \in SUBSET S : IsFiniteSet(s) /\ Cardinality(s) \in Nat
  BY FS_Subset, FS_CardinalityType
<1>2. 0 \in T
  <2> DEFINE f0 == [s \in SUBSET S |-> 0]
  <2>1. \A s \in SUBSET S : Cardinality(s) <= 0 => s = {}
    BY <1>1, FS_EmptySet
  <2>2. Upto(f0, 0)
    BY <2>1 DEF Adds
  <2>3. QED
    BY <2>2
<1>3. ASSUME NEW n \in Nat, n \in T PROVE n + 1 \in T
  <2>1. PICK f : Upto(f, n)
    BY <1>3
  <2> DEFINE h == [s \in SUBSET S |-> Adds(g, f, s)]
  <2>2. ASSUME NEW s \in SUBSET S, Cardinality(s) <= n + 1, s # {}
        PROVE  f[s \ {Picked(s)}] = h[s \ {Picked(s)}]
    <3>1. Picked(s) \in s
      BY <2>2 DEF Picked
    <3>2. Cardinality(s \ {Picked(s)}) <= n
      BY <1>1, <2>2, <3>1, TakesOne
    <3>3. s \ {Picked(s)} \in SUBSET S
      OBVIOUS
    <3>4. QED
      BY <2>1, <3>2, <3>3
  <2>3. Upto(h, n + 1)
    BY <2>2 DEF Adds
  <2> HIDE DEF Upto
  <2>4. n + 1 \in Nat
    OBVIOUS
  <2>5. QED
    BY <2>3, <2>4
<1>4. T = Nat
  <2>1. T \subseteq Nat
    OBVIOUS
  <2> HIDE DEF T
  <2>2. QED
    BY <1>2, <1>3, <2>1, SetInduction
<1>5. PICK f : Upto(f, Cardinality(S))
  <2>1. Cardinality(S) \in T
    BY <1>1, <1>4
  <2>2. QED
    BY <2>1
<1> DEFINE h == [s \in SUBSET S |-> f[s]]
<1>6. \A s \in SUBSET S : f[s] = Adds(g, f, s)
  BY <1>1, <1>5, FS_Subset
<1>7. ASSUME NEW s \in SUBSET S PROVE Adds(g, f, s) = Adds(g, h, s)
  BY DEF Adds
<1>8. IsTable(g, h, S)
  <2>1. \A s \in SUBSET S : h[s] = Adds(g, h, s)
    BY <1>6, <1>7
  <2>2. h = [s \in SUBSET S |-> h[s]]
    OBVIOUS
  <2> HIDE DEF h
  <2>3. QED
    BY <2>1, <2>2 DEF IsTable
<1>9. QED
  BY <1>8

\* Addition, as the step that swaps two summands needs it.
LEMMA AddInAnyOrder ==
  ASSUME NEW p \in Int, NEW q \in Int, NEW u \in Int,
         NEW a, NEW b, NEW c, a = p + b, b = q + u, c = p + u
  PROVE  a = q + c
OBVIOUS

\* What holds of the empty set, and of every set when it holds of that set
\* without any one of its members, holds of every subset of a finite set.
LEMMA SubsetInduction ==
  ASSUME NEW S, IsFiniteSet(S), NEW T, {} \in T,
         \A s \in SUBSET S : s # {} /\ (\A x \in s : s \ {x} \in T) => s \in T
  PROVE  \A s \in SUBSET S : s \in T
<1> DEFINE N == {n \in Nat : \A s \in SUBSET S : Cardinality(s) = n => s \in T}
<1>1. \A s \in SUBSET S : IsFiniteSet(s) /\ Cardinality(s) \in Nat
  BY FS_Subset, FS_CardinalityType
<1>2. 0 \in N
  BY <1>1, FS_EmptySet
<1>3. ASSUME NEW n \in Nat, n \in N PROVE n + 1 \in N
  <2>1. ASSUME NEW s \in SUBSET S, Cardinality(s) = n + 1 PROVE s \in T
    <3>1. s # {}
      <4>1. Cardinality({}) = 0
        BY FS_EmptySet
      <4>2. QED
        BY <2>1, <4>1
    <3>2. ASSUME NEW x \in s PROVE s \ {x} \in T
      <4>1. Cardinality(s) = Cardinality(s \ {x}) + 1 /\ Cardinality(s \ {x}) \in Nat
        BY <1>1, <3>1, TakesOne
      <4>2. Cardinality(s \ {x}) = n
        BY <2>1, <4>1
      <4>3. QED
        BY <1>3, <4>2
    <3>3. QED
      BY <3>1, <3>2
  <2>2. n + 1 \in Nat
    OBVIOUS
  <2>3. QED
    BY <2>1, <2>2
<1>4. N = Nat
  <2>1. N \subseteq Nat
    OBVIOUS
  <2> HIDE DEF N
  <2>2. QED
    BY <1>2, <1>3, <2>1, SetInduction
<1>5. QED
  BY <1>1, <1>4

\* Two tables of the same sums agree wherever both have an entry.
LEMMA TableUnique ==
  ASSUME NEW g, NEW S, NEW R, IsFiniteSet(S),
         NEW f, NEW h, IsTable(g, f, S), IsTable(g, h, R)
  PROVE  \A s \in SUBSET S : s \in SUBSET R => f[s] = h[s]
<1> DEFINE T == {s \in SUBSET S : s \in SUBSET R => f[s] = h[s]}
<1>1. \A s \in SUBSET S : f[s] = Adds(g, f, s)
  BY DEF IsTable
<1>2. \A s \in SUBSET R : h[s] = Adds(g, h, s)
  BY DEF IsTable
<1>3. {} \in T
  BY <1>1, <1>2 DEF Adds
<1>4. ASSUME NEW s \in SUBSET S, s # {}, \A x \in s : s \ {x} \in T PROVE s \in T
  <2>1. Picked(s) \in s
    BY <1>4 DEF Picked
  <2>2. s \in SUBSET R => f[s \ {Picked(s)}] = h[s \ {Picked(s)}]
    BY <1>4, <2>1
  <2>3. QED
    BY <1>1, <1>2, <2>2 DEF Adds
<1> HIDE DEF T
<1>5. \A s \in SUBSET S : s \in T
  BY <1>3, <1>4, SubsetInduction
<1>6. QED
  BY <1>5 DEF T

\* A sum is the element picked first, and the sum of the others.
LEMMA SumStep ==
  ASSUME NEW g, NEW S, IsFiniteSet(S)
  PROVE  SumFunctionOnSet(g, S) =
           IF S = {} THEN 0 ELSE g[Picked(S)] + SumFunctionOnSet(g, S \ {Picked(S)})
<1> DEFINE f == CHOOSE f : IsTable(g, f, S)
           R == S \ {Picked(S)}
           h == CHOOSE h : IsTable(g, h, R)
<1>1. IsFiniteSet(R)
  BY FS_Difference
<1>2. IsTable(g, f, S)
  BY TableExists
<1>3. IsTable(g, h, R)
  BY <1>1, TableExists
<1>4. SumFunctionOnSet(g, S) = f[S] /\ SumFunctionOnSet(g, R) = h[R]
  BY SumChosen
<1> HIDE DEF f, h
<1>5. f[S] = Adds(g, f, S)
  BY <1>2 DEF IsTable
<1>6. f[R] = h[R]
  BY <1>1, <1>2, <1>3, TableUnique
<1>7. QED
  BY <1>4, <1>5, <1>6 DEF Adds

\* The sum of integers is an integer.
LEMMA SumType ==
  ASSUME NEW g, NEW S, IsFiniteSet(S), \A x \in S : g[x] \in Int
  PROVE  SumFunctionOnSet(g, S) \in Int
<1> DEFINE Sum(s) == SumFunctionOnSet(g, s)
           T == {s \in SUBSET S : Sum(s) \in Int}
<1>1. ASSUME NEW s \in SUBSET S
      PROVE  Sum(s) = IF s = {} THEN 0 ELSE g[Picked(s)] + Sum(s \ {Picked(s)})
  <2>1. IsFiniteSet(s)
    BY FS_Subset
  <2>2. QED
    BY <2>1, SumStep
<1> HIDE DEF Sum
<1>2. {} \in T
  <2>1. Sum({}) = 0
    BY <1>1
  <2>2. QED
    BY <2>1
<1>3. ASSUME NEW s \in SUBSET S, s # {}, \A x \in s : s \ {x} \in T PROVE s \in T
  <2>1. Picked(s) \in s
    BY <1>3 DEF Picked
  <2>2. g[Picked(s)] \in Int /\ Sum(s \ {Picked(s)}) \in Int
    BY <1>3, <2>1
  <2>3. QED
    BY <1>1, <1>3, <2>2
<1> HIDE DEF T
<1>4. \A s \in SUBSET S : s \in T
  BY <1>2, <1>3, SubsetInduction
<1>5. QED
  BY <1>4 DEF T, Sum

\* Integers may be summed in any order: any element may be taken first.
LEMMA SumRemove ==
  ASSUME NEW g, NEW S, IsFiniteSet(S), \A x \in S : g[x] \in Int
  PROVE  \A x \in S : SumFunctionOnSet(g, S) = g[x] + SumFunctionOnSet(g, S \ {x})
<1> DEFINE Sum(s) == SumFunctionOnSet(g, s)
           T == {s \in SUBSET S : \A x \in s : Sum(s) = g[x] + Sum(s \ {x})}
<1>1. ASSUME NEW s \in SUBSET S
      PROVE  /\ Sum(s) \in Int
             /\ s # {} => Sum(s) = g[Picked(s)] + Sum(s \ {Picked(s)})
  <2>1. IsFiniteSet(s)
    BY FS_Subset
  <2>2. QED
    BY <2>1, SumStep, SumType
<1> HIDE DEF Sum
<1>2. {} \in T
  OBVIOUS
<1>3. ASSUME NEW s \in SUBSET S, s # {}, \A x \in s : s \ {x} \in T PROVE s \in T
  <2> DEFINE c == Picked(s)
  <2>1. c \in s
    BY <1>3 DEF Picked
  <2>2. Sum(s) = g[c] + Sum(s \ {c})
    BY <1>1, <1>3
  <2> HIDE DEF c
  <2>3. ASSUME NEW x \in s, x # c PROVE Sum(s) = g[x] + Sum(s \ {x})
    <3>1. Sum(s \ {c}) = g[x] + Sum((s \ {c}) \ {x})
      BY <1>3, <2>1, <2>3
    <3>2. Sum(s \ {x}) = g[c] + Sum((s \ {x}) \ {c})
      BY <1>3, <2>1, <2>3
    <3>3. (s \ {x}) \ {c} = (s \ {c}) \ {x}
      OBVIOUS
    <3>4. Sum((s \ {c}) \ {x}) \in Int /\ g[x] \in Int /\ g[c] \in Int
      BY <1>1, <2>1
    <3>5. Sum(s \ {x}) = g[c] + Sum((s \ {c}) \ {x})
      BY <3>2, <3>3
    <3>6. QED
      BY <2>2, <3>1, <3>4, <3>5, AddInAnyOrder
  <2>4. QED
    BY <2>2, <2>3
<1> HIDE DEF T
<1>4. \A s \in SUBSET S : s \in T
  BY <1>2, <1>3, SubsetInduction
<1>5. QED
  BY <1>4 DEF T, Sum

\* On S, f is h, and on the part R of S more than h by d.
IsMore(f, h, d, S, R) ==
  /\ R \subseteq S
  /\ \A x \in S : f[x] \in Int /\ h[x] \in Int
  /\ \A x \in S \ R : f[x] = h[x]
  /\ \A x \in R : d[x] \in Int /\ f[x] = h[x] + d[x]

\* The sum of f is then that of h, and that of d over the part.
LEMMA SumMore ==
  ASSUME NEW f, NEW h, NEW d, NEW S, IsFiniteSet(S), NEW R, IsMore(f, h, d, S, R)
  PROVE  /\ SumFunctionOnSet(f, S) = SumFunctionOnSet(h, S) + SumFunctionOnSet(d, R)
         /\ SumFunctionOnSet(f, S) \in Int /\ SumFunctionOnSet(h, S) \in Int
         /\ SumFunctionOnSet(d, R) \in Int
<1>a. \A x \in S : f[x] \in Int /\ h[x] \in Int
  BY DEF IsMore
<1>b. \A x \in S \ R : f[x] = h[x]
  BY DEF IsMore
<1>c. \A x \in S \cap R : d[x] \in Int /\ f[x] = h[x] + d[x]
  BY DEF IsMore
<1>d. S \cap R = R
  BY DEF IsMore
<1> DEFINE F(s) == SumFunctionOnSet(f, s)
           H(s) == SumFunctionOnSet(h, s)
           D(s) == SumFunctionOnSet(d, s)
           T == {s \in SUBSET S : F(s) = H(s) + D(s \cap R)}
<1>1. ASSUME NEW s \in SUBSET S
      PROVE  /\ F(s) \in Int /\ H(s) \in Int /\ D(s \cap R) \in Int
             /\ \A x \in s : F(s) = f[x] + F(s \ {x})
             /\ \A x \in s : H(s) = h[x] + H(s \ {x})
             /\ \A x \in s \cap R : D(s \cap R) = d[x] + D((s \cap R) \ {x})
  <2>1. IsFiniteSet(s) /\ IsFiniteSet(s \cap R)
    BY FS_Subset
  <2>2. F(s) \in Int /\ H(s) \in Int /\ D(s \cap R) \in Int
    BY <1>a, <1>c, <2>1, SumType
  <2>3. \A x \in s : F(s) = f[x] + F(s \ {x})
    BY <1>a, <2>1, SumRemove
  <2>4. \A x \in s : H(s) = h[x] + H(s \ {x})
    BY <1>a, <2>1, SumRemove
  <2>5. \A x \in s \cap R : D(s \cap R) = d[x] + D((s \cap R) \ {x})
    BY <1>c, <2>1, SumRemove
  <2>6. QED
    BY <2>2, <2>3, <2>4, <2>5
<1>2. {} \in T
  <2>1. F({}) = 0 /\ H({}) = 0 /\ D({}) = 0
    BY FS_EmptySet, SumStep
  <2>2. {} \cap R = {}
    OBVIOUS
  <2>3. QED
    BY <2>1, <2>2
<1> HIDE DEF F, H, D
<1>3. ASSUME NEW s \in SUBSET S, s # {}, \A x \in s : s \ {x} \in T PROVE s \in T
  <2>1. PICK x \in s : TRUE
    BY <1>3
  <2>2. F(s \ {x}) = H(s \ {x}) + D((s \ {x}) \cap R)
    BY <1>3
  <2>3. F(s) = f[x] + F(s \ {x}) /\ H(s) = h[x] + H(s \ {x})
    BY <1>1
  <2>4. s \ {x} \in SUBSET S
    OBVIOUS
  <2>5. F(s \ {x}) \in Int /\ H(s \ {x}) \in Int /\ D((s \ {x}) \cap R) \in Int
    BY <1>1, <2>4
  <2>6. CASE x \in R
    <3>1. (s \cap R) \ {x} = (s \ {x}) \cap R
      OBVIOUS
    <3>2. D(s \cap R) = d[x] + D((s \ {x}) \cap R)
      BY <1>1, <2>6, <3>1
    <3>3. d[x] \in Int /\ f[x] = h[x] + d[x] /\ h[x] \in Int
      BY <1>a, <1>c, <2>6
    <3>4. QED
      BY <2>2, <2>3, <2>5, <3>2, <3>3
  <2>7. CASE x \notin R
    <3>1. s \cap R = (s \ {x}) \cap R
      BY <2>7
    <3>2. f[x] = h[x] /\ h[x] \in Int
      BY <1>a, <1>b, <2>7
    <3>3. F(s \ {x}) = H(s \ {x}) + D(s \cap R)
      BY <2>2, <3>1
    <3>4. D(s \cap R) \in Int
      BY <2>5, <3>1
    <3>5. F(s) = H(s) + D(s \cap R)
      BY <2>3, <2>5, <3>2, <3>3, <3>4
    <3>6. QED
      BY <3>5
  <2>8. QED
    BY <2>6, <2>7
<1> HIDE DEF T
<1>4. \A s \in SUBSET S : s \in T
  BY <1>2, <1>3, SubsetInduction
<1>5. QED
  BY <1>d, <1>1, <1>4 DEF T, F, H, D

\* Nothing adds nothing.
LEMMA SumEmpty ==
  ASSUME NEW f
  PROVE  SumFunctionOnSet(f, {}) = 0
BY FS_EmptySet, SumStep

\* Equal summands have equal sums.
LEMMA SumSame ==
  ASSUME NEW f, NEW h, NEW S, IsFiniteSet(S), \A x \in S : f[x] \in Int /\ f[x] = h[x]
  PROVE  SumFunctionOnSet(f, S) = SumFunctionOnSet(h, S)
<1>1. IsMore(f, h, f, S, {})
  BY DEF IsMore
<1>2. /\ SumFunctionOnSet(f, S) = SumFunctionOnSet(h, S) + SumFunctionOnSet(f, {})
      /\ SumFunctionOnSet(h, S) \in Int
  BY <1>1, SumMore
<1>3. SumFunctionOnSet(f, {}) = 0
  BY SumEmpty
<1>4. QED
  BY <1>2, <1>3

\* Zeros add nothing.
LEMMA SumZero ==
  ASSUME NEW f, NEW S, IsFiniteSet(S), \A x \in S : f[x] = 0
  PROVE  SumFunctionOnSet(f, S) = 0
<1>1. IsMore(f, f, f, S, S)
  BY DEF IsMore
<1>2. /\ SumFunctionOnSet(f, S) = SumFunctionOnSet(f, S) + SumFunctionOnSet(f, S)
      /\ SumFunctionOnSet(f, S) \in Int
  BY <1>1, SumMore
<1>3. \A n \in Int : n = n + n => n = 0
  OBVIOUS
<1>4. QED
  BY <1>2, <1>3, Zenon

\* Elements that add nothing may be left out.
LEMMA SumWithin ==
  ASSUME NEW f, NEW d, NEW S, IsFiniteSet(S), NEW R, R \subseteq S,
         \A x \in R : d[x] \in Int /\ f[x] = d[x],
         \A x \in S \ R : f[x] = 0
  PROVE  SumFunctionOnSet(f, S) = SumFunctionOnSet(d, R)
<1>1. PICK z : \A x \in S : z[x] = 0
  <2> DEFINE w == [x \in S |-> 0]
  <2>1. \A x \in S : w[x] = 0
    OBVIOUS
  <2> HIDE DEF w
  <2>2. QED
    BY <2>1
<1>2. SumFunctionOnSet(z, S) = 0
  BY <1>1, SumZero
<1>3. IsMore(f, z, d, S, R)
  BY <1>1 DEF IsMore
<1>4. /\ SumFunctionOnSet(f, S) = SumFunctionOnSet(z, S) + SumFunctionOnSet(d, R)
      /\ SumFunctionOnSet(d, R) \in Int
  BY <1>3, SumMore
<1>5. QED
  BY <1>2, <1>4

\* A sum of one summand.
LEMMA SumSingle ==
  ASSUME NEW f, NEW x, f[x] \in Int
  PROVE  SumFunctionOnSet(f, {x}) = f[x]
<1>1. IsFiniteSet({x})
  BY FS_Singleton
<1>2. SumFunctionOnSet(f, {x}) = f[x] + SumFunctionOnSet(f, {x} \ {x})
  BY <1>1, SumRemove
<1>3. {x} \ {x} = {}
  OBVIOUS
<1>4. SumFunctionOnSet(f, {x} \ {x}) = 0
  BY <1>3, SumEmpty
<1>5. QED
  BY <1>2, <1>4

\* Sums that differ in one summand differ by as much.
LEMMA SumDiffers ==
  ASSUME NEW f, NEW h, NEW S, IsFiniteSet(S), NEW x \in S,
         \A y \in S : f[y] \in Int /\ h[y] \in Int,
         \A y \in S \ {x} : f[y] = h[y]
  PROVE  /\ SumFunctionOnSet(f, S) + h[x] = SumFunctionOnSet(h, S) + f[x]
         /\ SumFunctionOnSet(f, S) \in Int /\ SumFunctionOnSet(h, S) \in Int
<1>1. IsFiniteSet(S \ {x})
  BY FS_Difference
<1>2. SumFunctionOnSet(f, S \ {x}) = SumFunctionOnSet(h, S \ {x})
  BY <1>1, SumSame
<1>3. SumFunctionOnSet(h, S \ {x}) \in Int
  BY <1>1, SumType
<1>4. /\ SumFunctionOnSet(f, S) = f[x] + SumFunctionOnSet(f, S \ {x})
      /\ SumFunctionOnSet(h, S) = h[x] + SumFunctionOnSet(h, S \ {x})
  BY SumRemove
<1>5. QED
  BY <1>2, <1>3, <1>4

-----------------------------------------------------------------------------
(* A transfer between the contract and an account.                         *)

\* A transfer that is covered leaves well typed funds and touches only the
\* two balances it names.
LEMMA MoveEffect ==
  ASSUME NEW b \in Bank, NEW t \in Token, NEW from \in Holder, NEW to \in Holder,
         from # to, NEW n \in Nat, b[t][from] >= n
  PROVE  /\ Move(b, t, from, to, n) \in Bank
         /\ Move(b, t, from, to, n)[t][from] = b[t][from] - n
         /\ Move(b, t, from, to, n)[t][to] = b[t][to] + n
         /\ \A u \in Token, h \in Holder :
              (u # t \/ h \notin {from, to}) => Move(b, t, from, to, n)[u][h] = b[u][h]
<1> DEFINE f == b[t]
           g == [f EXCEPT ![from] = @ - n, ![to] = @ + n]
<1>1. f \in [Holder -> Nat]  BY DEF Bank
<1>2. /\ g \in [Holder -> Nat]
      /\ g[from] = f[from] - n /\ g[to] = f[to] + n
      /\ \A h \in Holder \ {from, to} : g[h] = f[h]
  BY <1>1
<1>3. Move(b, t, from, to, n) = [b EXCEPT ![t] = g]
  BY DEF Move, Bank
<1> HIDE DEF g
<1>4. QED  BY <1>2, <1>3 DEF Bank

\* A payment from an account to the contract.
LEMMA PayInEffect ==
  ASSUME NEW b \in Bank, NEW t \in Token, NEW a \in Account, NEW n \in Nat,
         CanPayIn(b, t, a, n)
  PROVE  /\ PayIn(b, t, a, n) \in Bank
         /\ PayIn(b, t, a, n)[t][Contract] = b[t][Contract] + n
         /\ \A u \in Token \ {t} : PayIn(b, t, a, n)[u][Contract] = b[u][Contract]
         /\ \A u \in Token, c \in Account : PayIn(b, t, a, n)[u][c] <= b[u][c]
<1>1. Contract \in Holder /\ a \in Holder /\ a # Contract
  BY FundsAssumption DEF Holder
<1>2. b[t][a] >= n  BY DEF CanPayIn, Covers
<1>3. /\ Move(b, t, a, Contract, n) \in Bank
      /\ Move(b, t, a, Contract, n)[t][a] = b[t][a] - n
      /\ Move(b, t, a, Contract, n)[t][Contract] = b[t][Contract] + n
      /\ \A u \in Token, h \in Holder :
           (u # t \/ h \notin {a, Contract}) => Move(b, t, a, Contract, n)[u][h] = b[u][h]
  BY <1>1, <1>2, MoveEffect
<1>4. \A u \in Token, h \in Holder : b[u][h] \in Nat  BY DEF Bank
<1>5. \A c \in Account : c \in Holder /\ c # Contract  BY FundsAssumption DEF Holder
<1>6. QED  BY <1>1, <1>3, <1>4, <1>5 DEF PayIn

\* A payment from the contract to an account.
LEMMA PayOutEffect ==
  ASSUME NEW b \in Bank, NEW t \in Token, NEW a \in Account, NEW n \in Nat,
         CanPayOut(b, t, a, n)
  PROVE  /\ PayOut(b, t, a, n) \in Bank
         /\ PayOut(b, t, a, n)[t][Contract] + n = b[t][Contract]
         /\ PayOut(b, t, a, n)[t][a] = b[t][a] + n
         /\ \A u \in Token \ {t} : PayOut(b, t, a, n)[u][Contract] = b[u][Contract]
         /\ \A u \in Token, c \in Account :
              (u # t \/ c # a) => PayOut(b, t, a, n)[u][c] = b[u][c]
<1>1. Contract \in Holder /\ a \in Holder /\ a # Contract
  BY FundsAssumption DEF Holder
<1>2. \A u \in Token, h \in Holder : b[u][h] \in Nat  BY DEF Bank
<1>3. b[t][Contract] >= n  BY <1>1, <1>2 DEF CanPayOut, Covers
<1>4. /\ Move(b, t, Contract, a, n) \in Bank
      /\ Move(b, t, Contract, a, n)[t][Contract] = b[t][Contract] - n
      /\ Move(b, t, Contract, a, n)[t][a] = b[t][a] + n
      /\ \A u \in Token, h \in Holder :
           (u # t \/ h \notin {a, Contract}) => Move(b, t, Contract, a, n)[u][h] = b[u][h]
  BY <1>1, <1>3, MoveEffect
<1>5. \A c \in Account : c \in Holder /\ c # Contract  BY FundsAssumption DEF Holder
<1>6. QED  BY <1>1, <1>2, <1>4, <1>5 DEF PayOut
=============================================================================
