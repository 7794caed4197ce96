------------------------------ MODULE ShareProofs ------------------------------
(***************************************************************************)
(* Proofs about a module's shares, for any number of children: how they    *)
(* are worked out (Allocation) and how they are written (HandoffWrites).   *)
(*                                                                         *)
(* A split gives out the target or all that there is, nobody more than its *)
(* own limit, by max-min fairness, for any racks, weights and targets.     *)
(* Written, what the children hold together never exceeds what a split may *)
(* while a plan lands, twice that under the first plan of a task, what     *)
(* they put out exceeds it by drift only if they respond between plans,    *)
(* and the servo's approach is held while growth is.                       *)
(*                                                                         *)
(* Both rest on sums over a finite set, which are folds.  What is needed   *)
(* of them is shown first, by the least number of members for which it     *)
(* would fail.                                                             *)
(***************************************************************************)
EXTENDS HandoffWrites, Allocation, FiniteSetTheorems, WellFoundedInduction, TLAPS

-----------------------------------------------------------------------------
(* Sums over a finite set *)

\* Every nonempty set of naturals has a least member.
LEMMA LeastMember ==
  ASSUME NEW T, T \subseteq Nat, T # {}
  PROVE  \E x \in T : \A y \in T : x <= y
<1> DEFINE R == OpToRel(<, Nat)
<1>1. IsWellFoundedOn(R, Nat)
  BY NatLessThanWellFounded
<1> HIDE DEF R
<1>2. PICK x \in T : \A y \in T : ~ (<<y, x>> \in R)
  BY <1>1, WFMin
<1>3. \A y \in T : ~ (y < x)
  BY <1>2 DEF R, OpToRel
<1> QED
  BY <1>3

\* The member a fold over T takes first.
One(T) == CHOOSE x \in T : TRUE

\* A turn goes on with a smaller set.
LEMMA Smaller ==
  ASSUME NEW S, IsFiniteSet(S), NEW T \in SUBSET S, T # {}
  PROVE  /\ One(T) \in T
         /\ T \ {One(T)} \in SUBSET S
         /\ IsFiniteSet(T)
         /\ Cardinality(T) \in Nat
         /\ Cardinality(T \ {One(T)}) = Cardinality(T) - 1
<1>1. One(T) \in T
  BY DEF One
<1>2. IsFiniteSet(T)
  BY FS_Subset
<1> QED
  BY <1>1, <1>2, FS_RemoveElement, FS_CardinalityType

\* Induction over the subsets of a finite set, in the order a fold takes them.
LEMMA Peeling ==
  ASSUME NEW S, IsFiniteSet(S), NEW G, {} \in G,
         \A T \in SUBSET S : T # {} /\ T \ {One(T)} \in G => T \in G
  PROVE  \A T \in SUBSET S : T \in G
<1> DEFINE Bad == {n \in Nat : \E T \in SUBSET S : Cardinality(T) = n /\ T \notin G}
<1>1. Bad = {}
  <2> SUFFICES ASSUME Bad # {} PROVE FALSE
    OBVIOUS
  <2>1. PICK n \in Bad : \A i \in Bad : n <= i
    BY LeastMember
  <2>2. PICK T \in SUBSET S : Cardinality(T) = n /\ T \notin G
    OBVIOUS
  <2>3. T # {}
    BY <2>2
  <2>4. /\ T \ {One(T)} \in SUBSET S
        /\ Cardinality(T \ {One(T)}) = n - 1
        /\ IsFiniteSet(T \ {One(T)})
    BY <2>2, <2>3, Smaller, FS_Subset
  <2>5. n - 1 \in Nat /\ n - 1 < n
    BY <2>2, <2>4, FS_CardinalityType
  <2>6. T \ {One(T)} \in G
    BY <2>1, <2>4, <2>5
  <2> QED
    BY <2>2, <2>3, <2>6
<1>2. \A T \in SUBSET S : Cardinality(T) \in Nat
  BY FS_Subset, FS_CardinalityType
<1> QED
  BY <1>1, <1>2

\* One turn of the sum over T, given the sums g over smaller sets.
Turn(f, g, T) == IF T = {} THEN 0 ELSE f[One(T)] + g[T \ {One(T)}]

\* g is the sum of f over each subset of S.
AddsUp(f, g, S) == g = [T \in SUBSET S |-> Turn(f, g, T)]

\* There is such a g: the one right up to n members is, taken one turn further,
\* right up to n + 1.
LEMMA SumExists == ASSUME NEW f, NEW S, IsFiniteSet(S) PROVE \E g : AddsUp(f, g, S)
<1> DEFINE Good(g, n) == \A T \in SUBSET S : Cardinality(T) <= n => g[T] = Turn(f, g, T)
           Fun(g) == [T \in SUBSET S |-> Turn(f, g, T)]
           Bad == {n \in Nat : ~ \E g : Good(g, n)}
<1>0. \A T \in SUBSET S : Cardinality(T) \in Nat /\ (Cardinality(T) = 0 => T = {})
  BY FS_Subset, FS_CardinalityType, FS_EmptySet
<1>1. ASSUME NEW n \in Nat, NEW g, Good(g, n) PROVE Good(Fun(g), n + 1)
  <2> SUFFICES ASSUME NEW T \in SUBSET S, Cardinality(T) <= n + 1
               PROVE  Fun(g)[T] = Turn(f, Fun(g), T)
    OBVIOUS
  <2>1. CASE T = {}
    BY <2>1 DEF Turn
  <2>2. CASE T # {}
    <3> DEFINE U == T \ {One(T)}
    <3>1. U \in SUBSET S /\ Cardinality(U) <= n
      BY <2>2, Smaller
    <3>2. g[U] = Fun(g)[U]
      BY <3>1, <1>1
    <3> QED
      BY <2>2, <3>2 DEF Turn
  <2> QED
    BY <2>1, <2>2
<1>2. Good([T \in SUBSET S |-> 0], 0)
  BY <1>0 DEF Turn
<1> HIDE DEF Good, Fun
<1>3. Bad = {}
  <2> SUFFICES ASSUME Bad # {} PROVE FALSE
    OBVIOUS
  <2>1. PICK n \in Bad : \A m \in Bad : n <= m
    BY LeastMember
  <2>2. n # 0
    BY <1>2
  <2>3. n - 1 \in Nat /\ n - 1 \notin Bad
    BY <2>1, <2>2
  <2>4. PICK g : Good(g, n - 1)
    BY <2>3
  <2>5. Good(Fun(g), (n - 1) + 1)
    BY <2>3, <2>4, <1>1
  <2> QED
    BY <2>5
<1>4. PICK g : Good(g, Cardinality(S))
  BY <1>3, <1>0
<1>5. \A T \in SUBSET S : g[T] = Turn(f, g, T)
  BY <1>4, FS_Subset DEF Good
<1>6. \A T \in SUBSET S : Turn(f, g, T) = Turn(f, Fun(g), T)
  <2> TAKE T \in SUBSET S
  <2>1. CASE T = {}
    BY <2>1 DEF Turn
  <2>2. CASE T # {}
    <3>1. T \ {One(T)} \in SUBSET S
      OBVIOUS
    <3>2. g[T \ {One(T)}] = Fun(g)[T \ {One(T)}]
      BY <3>1, <1>5 DEF Fun
    <3> QED
      BY <2>2, <3>2 DEF Turn
  <2> QED
    BY <2>1, <2>2
<1>7. Fun(g) = [T \in SUBSET S |-> Turn(f, Fun(g), T)]
  BY <1>6 DEF Fun
<1> QED
  BY <1>7 DEF AddsUp

\* Sum is one.
LEMMA SumChosen ==
  ASSUME NEW f, NEW S, IsFiniteSet(S)
  PROVE  \E g : AddsUp(f, g, S) /\ Sum(f, S) = g[S]
<1>1. AddsUp(f, CHOOSE g : AddsUp(f, g, S), S)
  BY SumExists
<1>2. Sum(f, S) = (CHOOSE g : AddsUp(f, g, S))[S]
  BY DEF Sum, MapThenSumSet, MapThenFoldSet, AddsUp, Turn, One
<1> QED
  BY <1>1, <1>2

\* And they agree, so any of them is Sum.
LEMMA SumIs ==
  ASSUME NEW f, NEW S, IsFiniteSet(S), NEW g, AddsUp(f, g, S), NEW T \in SUBSET S
  PROVE  Sum(f, T) = g[T]
<1>0. IsFiniteSet(T)
  BY FS_Subset
<1>1. PICK h : AddsUp(f, h, T) /\ Sum(f, T) = h[T]
  BY <1>0, SumChosen
<1> DEFINE G == {U \in SUBSET T : g[U] = h[U]}
<1>2. \A U \in SUBSET T : g[U] = Turn(f, g, U) /\ h[U] = Turn(f, h, U)
  BY <1>1 DEF AddsUp
<1>3. {} \in G
  BY <1>2 DEF Turn
<1>4. ASSUME NEW U \in SUBSET T, U # {}, U \ {One(U)} \in G PROVE U \in G
  BY <1>2, <1>4 DEF Turn
<1> HIDE DEF G
<1>5. T \in G
  BY <1>0, <1>3, <1>4, Peeling
<1> QED
  BY <1>1, <1>5 DEF G

\* A sum, turn by turn.
LEMMA SumTurn ==
  ASSUME NEW f, NEW S, IsFiniteSet(S)
  PROVE  /\ Sum(f, {}) = 0
         /\ S # {} => Sum(f, S) = f[One(S)] + Sum(f, S \ {One(S)})
<1>1. PICK g : AddsUp(f, g, S)
  BY SumExists
<1>2. \A T \in SUBSET S : Sum(f, T) = g[T] /\ g[T] = Turn(f, g, T)
  <2> TAKE T \in SUBSET S
  <2>1. Sum(f, T) = g[T]
    BY <1>1, SumIs
  <2> QED
    BY <1>1, <2>1 DEF AddsUp
<1> QED
  BY <1>2 DEF Turn

\* A sum over nothing.
LEMMA SumEmpty == ASSUME NEW f PROVE Sum(f, {}) = 0
<1>1. IsFiniteSet({})
  BY FS_EmptySet
<1> QED
  BY <1>1, SumTurn

\* A sum of naturals is one.
LEMMA SumNat ==
  ASSUME NEW f, NEW S, IsFiniteSet(S), \A x \in S : f[x] \in Nat
  PROVE  Sum(f, S) \in Nat
<1> DEFINE G == {T \in SUBSET S : Sum(f, T) \in Nat}
<1>1. {} \in G
  BY SumEmpty
<1>2. ASSUME NEW T \in SUBSET S, T # {}, T \ {One(T)} \in G PROVE T \in G
  <2>1. One(T) \in T /\ IsFiniteSet(T)
    BY <1>2, Smaller
  <2>2. Sum(f, T) = f[One(T)] + Sum(f, T \ {One(T)})
    BY <1>2, <2>1, SumTurn
  <2> QED
    BY <1>2, <2>1, <2>2
<1> HIDE DEF G
<1>3. S \in G
  BY <1>1, <1>2, Peeling
<1> QED
  BY <1>3 DEF G

\* Summands compared one by one.
LEMMA SumCompare ==
  ASSUME NEW S, IsFiniteSet(S), NEW a, NEW b, NEW d,
         \A x \in S : a[x] \in Nat /\ b[x] \in Nat /\ d[x] \in Nat,
         NEW k \in Nat, NEW l \in Nat, NEW m \in Nat,
         \A x \in S : k * a[x] <= l * b[x] + m * d[x]
  PROVE  k * Sum(a, S) <= l * Sum(b, S) + m * Sum(d, S)
<1> DEFINE Holds(T) == k * Sum(a, T) <= l * Sum(b, T) + m * Sum(d, T)
           G == {T \in SUBSET S : Holds(T)}
<1>1. {} \in G
  BY SumEmpty
<1>2. ASSUME NEW T \in SUBSET S, T # {}, T \ {One(T)} \in G PROVE T \in G
  <2> DEFINE x == One(T)
             U == T \ {x}
  <2>1. x \in S /\ IsFiniteSet(T) /\ IsFiniteSet(U) /\ U \in SUBSET S
    BY <1>2, Smaller, FS_Subset
  <2>2. Sum(a, T) = a[x] + Sum(a, U)
    BY <1>2, <2>1, SumTurn
  <2>3. Sum(b, T) = b[x] + Sum(b, U)
    BY <1>2, <2>1, SumTurn
  <2>4. Sum(d, T) = d[x] + Sum(d, U)
    BY <1>2, <2>1, SumTurn
  <2>5. Sum(a, U) \in Nat /\ Sum(b, U) \in Nat /\ Sum(d, U) \in Nat
    BY <2>1, SumNat
  <2>6. Holds(U)
    BY <1>2
  <2>7. k * a[x] <= l * b[x] + m * d[x] /\ a[x] \in Nat /\ b[x] \in Nat /\ d[x] \in Nat
    BY <2>1
  <2> HIDE DEF x, U
  <2>8. /\ k * Sum(a, T) = k * a[x] + k * Sum(a, U)
        /\ l * Sum(b, T) = l * b[x] + l * Sum(b, U)
        /\ m * Sum(d, T) = m * d[x] + m * Sum(d, U)
    BY <2>2, <2>3, <2>4, <2>5, <2>7
  <2>9. Holds(T)
    BY <2>5, <2>6, <2>7, <2>8
  <2> QED
    BY <2>9
<1> HIDE DEF G
<1>3. S \in G
  BY <1>1, <1>2, Peeling
<1> QED
  BY <1>3 DEF G

\* The order does not matter: any member can be taken first.
LEMMA SumTake ==
  ASSUME NEW f, NEW S, IsFiniteSet(S), \A x \in S : f[x] \in Nat, NEW x \in S
  PROVE  Sum(f, S) = f[x] + Sum(f, S \ {x})
<1> DEFINE Holds(T) == \A y \in T : Sum(f, T) = f[y] + Sum(f, T \ {y})
           Bad == {n \in Nat : \E T \in SUBSET S : Cardinality(T) = n /\ ~Holds(T)}
<1>1. Bad = {}
  <2> SUFFICES ASSUME Bad # {} PROVE FALSE
    OBVIOUS
  <2>1. PICK n \in Bad : \A i \in Bad : n <= i
    BY LeastMember
  <2>2. PICK T \in SUBSET S : Cardinality(T) = n /\ ~Holds(T)
    OBVIOUS
  <2>3. PICK y \in T : Sum(f, T) # f[y] + Sum(f, T \ {y})
    BY <2>2
  <2> DEFINE z == One(T)
  <2>4. /\ z \in T /\ IsFiniteSet(T)
        /\ T \ {z} \in SUBSET S /\ Cardinality(T \ {z}) = n - 1
        /\ Sum(f, T) = f[z] + Sum(f, T \ {z})
    BY <2>2, <2>3, Smaller, SumTurn
  <2> HIDE DEF z
  <2>5. y # z
    BY <2>3, <2>4
  <2>6. T \ {y} \in SUBSET S /\ Cardinality(T \ {y}) = n - 1 /\ n - 1 \in Nat /\ n - 1 < n
    <3>1. Cardinality(T \ {y}) = n - 1 /\ IsFiniteSet(T \ {y})
      BY <2>2, <2>3, <2>4, FS_RemoveElement
    <3> QED
      BY <3>1, FS_CardinalityType
  <2>7. Holds(T \ {y}) /\ Holds(T \ {z})
    BY <2>1, <2>4, <2>6
  <2>8. (T \ {y}) \ {z} = (T \ {z}) \ {y}
    OBVIOUS
  <2>9. /\ Sum(f, T \ {y}) = f[z] + Sum(f, (T \ {z}) \ {y})
        /\ Sum(f, T \ {z}) = f[y] + Sum(f, (T \ {z}) \ {y})
    BY <2>3, <2>4, <2>5, <2>7, <2>8
  <2>10. f[y] \in Nat /\ f[z] \in Nat /\ Sum(f, (T \ {z}) \ {y}) \in Nat
    <3>1. IsFiniteSet((T \ {z}) \ {y})
      BY <2>4, FS_Subset
    <3>2. \A v \in (T \ {z}) \ {y} : f[v] \in Nat
      OBVIOUS
    <3> QED
      BY <2>3, <2>4, <3>1, <3>2, SumNat
  <2> QED
    BY <2>3, <2>4, <2>9, <2>10
<1>2. Cardinality(S) \in Nat
  BY FS_CardinalityType
<1>3. Holds(S)
  BY <1>1, <1>2
<1> QED
  BY <1>3

\* A sum over a set, split in two.
LEMMA SumSplit ==
  ASSUME NEW f, NEW S, IsFiniteSet(S), \A x \in S : f[x] \in Nat, NEW T \in SUBSET S
  PROVE  Sum(f, S) = Sum(f, T) + Sum(f, S \ T)
<1> DEFINE G == {U \in SUBSET S : Sum(f, S) = Sum(f, U) + Sum(f, S \ U)}
<1>1. {} \in G
  <2>1. Sum(f, {}) = 0 /\ Sum(f, S) \in Nat /\ S \ {} = S
    BY SumEmpty, SumNat
  <2> QED
    BY <2>1
<1>2. ASSUME NEW U \in SUBSET S, U # {}, U \ {One(U)} \in G PROVE U \in G
  <2> DEFINE x == One(U)
             V == U \ {x}
  <2>1. /\ x \in U /\ x \in S
        /\ IsFiniteSet(U) /\ IsFiniteSet(V) /\ IsFiniteSet(S \ U) /\ IsFiniteSet(S \ V)
    BY <1>2, Smaller, FS_Subset
  <2>2. Sum(f, U) = f[x] + Sum(f, V)
    BY <1>2, <2>1, SumTurn
  <2>3. (S \ V) \ {x} = S \ U /\ x \in S \ V
    BY <2>1
  <2>4. Sum(f, S \ V) = f[x] + Sum(f, S \ U)
    BY <2>1, <2>3, SumTake
  <2>5. Sum(f, V) \in Nat /\ Sum(f, S \ U) \in Nat /\ f[x] \in Nat
    <3>1. (\A y \in V : f[y] \in Nat) /\ (\A y \in S \ U : f[y] \in Nat)
      OBVIOUS
    <3> QED
      BY <2>1, <3>1, SumNat
  <2>6. Sum(f, S) = Sum(f, V) + Sum(f, S \ V)
    BY <1>2
  <2> QED
    BY <2>2, <2>4, <2>5, <2>6
<1> HIDE DEF G
<1>3. T \in G
  BY <1>1, <1>2, Peeling
<1> QED
  BY <1>3 DEF G

\* What is part of a sum is no more than it.
LEMMA SumPart ==
  ASSUME NEW f, NEW S, IsFiniteSet(S), \A x \in S : f[x] \in Nat, NEW T \in SUBSET S
  PROVE  /\ Sum(f, S) \in Nat /\ Sum(f, T) \in Nat /\ Sum(f, S \ T) \in Nat
         /\ Sum(f, S) = Sum(f, T) + Sum(f, S \ T)
<1>1. IsFiniteSet(T) /\ IsFiniteSet(S \ T)
  BY FS_Subset
<1>2. Sum(f, S) \in Nat
  BY SumNat
<1>3. Sum(f, T) \in Nat
  <2>1. \A x \in T : f[x] \in Nat
    OBVIOUS
  <2> QED
    BY <1>1, <2>1, SumNat
<1>4. Sum(f, S \ T) \in Nat
  <2>1. \A x \in S \ T : f[x] \in Nat
    OBVIOUS
  <2> QED
    BY <1>1, <2>1, SumNat
<1> QED
  BY <1>2, <1>3, <1>4, SumSplit

\* A member of a sum is no more than it.
LEMMA SumMember ==
  ASSUME NEW f, NEW S, IsFiniteSet(S), \A x \in S : f[x] \in Nat, NEW x \in S
  PROVE  f[x] <= Sum(f, S)
<1>1. Sum(f, S) = f[x] + Sum(f, S \ {x})
  BY SumTake
<1>2. Sum(f, S \ {x}) \in Nat
  BY SumPart
<1> QED
  BY <1>1, <1>2

\* A sum of nothings.
LEMMA SumZero ==
  ASSUME NEW f, NEW S, IsFiniteSet(S), \A x \in S : f[x] = 0
  PROVE  Sum(f, S) = 0
<1>1. \A x \in S : f[x] \in Nat
  OBVIOUS
<1>2. \A x \in S : 1 * f[x] <= 0 * f[x] + 0 * f[x]
  OBVIOUS
<1>3. 1 * Sum(f, S) <= 0 * Sum(f, S) + 0 * Sum(f, S)
  BY <1>1, <1>2, SumCompare
<1>4. Sum(f, S) \in Nat
  BY <1>1, SumNat
<1> QED
  BY <1>3, <1>4

\* Summands in one proportion.
LEMMA SumScale ==
  ASSUME NEW S, IsFiniteSet(S), NEW a, NEW b, NEW r \in Nat,
         \A x \in S : b[x] \in Nat /\ a[x] = r * b[x]
  PROVE  Sum(a, S) = r * Sum(b, S)
<1>1. \A x \in S : a[x] \in Nat /\ b[x] \in Nat
  OBVIOUS
<1>2. Sum(a, S) \in Nat /\ Sum(b, S) \in Nat
  BY <1>1, SumNat
<1>3. 1 * Sum(a, S) <= r * Sum(b, S) + 0 * Sum(b, S)
  <2>1. \A x \in S : 1 * a[x] <= r * b[x] + 0 * b[x]
    BY <1>1
  <2> QED
    BY <1>1, <2>1, SumCompare
<1>4. r * Sum(b, S) <= 1 * Sum(a, S) + 0 * Sum(a, S)
  <2>1. \A x \in S : r * b[x] <= 1 * a[x] + 0 * a[x]
    BY <1>1
  <2> QED
    BY <1>1, <2>1, SumCompare
<1>5. r * Sum(b, S) \in Nat
  BY <1>2
<1> QED
  BY <1>2, <1>3, <1>4, <1>5

\* Equal summands.
LEMMA SumSame ==
  ASSUME NEW S, IsFiniteSet(S), NEW a, NEW b,
         \A x \in S : b[x] \in Nat /\ a[x] = b[x]
  PROVE  Sum(a, S) = Sum(b, S)
<1>1. \A x \in S : b[x] \in Nat /\ a[x] = 1 * b[x]
  OBVIOUS
<1>2. Sum(a, S) = 1 * Sum(b, S)
  BY <1>1, SumScale
<1>3. Sum(b, S) \in Nat
  BY SumNat
<1> QED
  BY <1>2, <1>3

\* OnBus is the sum of the magnitudes.
LEMMA OnBusIsSum ==
  ASSUME NEW s
  PROVE  OnBus(s) = Sum([c \in Children |-> Abs(s[c])], Children)
<1> DEFINE f == [c \in Children |-> Abs(s[c])]
           Fold(g) == g = [T \in SUBSET Children |->
                             IF T = {} THEN 0 ELSE Abs(s[One(T)]) + g[T \ {One(T)}]]
<1>1. \A T \in SUBSET Children : T # {} => f[One(T)] = Abs(s[One(T)])
  BY DEF One
<1>2. ASSUME NEW g PROVE Fold(g) <=> AddsUp(f, g, Children)
  BY <1>1 DEF AddsUp, Turn
<1>3. PICK g : AddsUp(f, g, Children)
  BY HandoffAssumptions, SumExists
<1>4. Fold(CHOOSE h : Fold(h))
  <2>1. Fold(g)
    BY <1>2, <1>3
  <2> HIDE DEF Fold
  <2> QED
    BY <2>1
<1>5. OnBus(s) = (CHOOSE h : Fold(h))[Children]
  BY DEF OnBus, MapThenSumSet, MapThenFoldSet, One
<1> HIDE DEF Fold, f
<1>6. AddsUp(f, CHOOSE h : Fold(h), Children)
  BY <1>2, <1>4
<1>7. Sum(f, Children) = (CHOOSE h : Fold(h))[Children]
  BY <1>6, HandoffAssumptions, SumIs
<1> QED
  BY <1>5, <1>7 DEF f

\* Summands compared one by one.
LEMMA OnBusCompare ==
  ASSUME NEW k \in Nat, NEW m \in Nat, NEW a, NEW b, NEW d,
         \A c \in Children : a[c] \in Int /\ b[c] \in Int /\ d[c] \in Int,
         \A c \in Children : k * Abs(a[c]) <= k * Abs(b[c]) + m * Abs(d[c])
  PROVE  /\ OnBus(a) \in Nat /\ OnBus(b) \in Nat /\ OnBus(d) \in Nat
         /\ k * OnBus(a) <= k * OnBus(b) + m * OnBus(d)
<1> DEFINE mag(s) == [c \in Children |-> Abs(s[c])]
<1>1. \A c \in Children : mag(a)[c] \in Nat /\ mag(b)[c] \in Nat /\ mag(d)[c] \in Nat
  BY DEF Abs
<1>2. \A c \in Children : k * mag(a)[c] <= k * mag(b)[c] + m * mag(d)[c]
  OBVIOUS
<1>3. OnBus(a) = Sum(mag(a), Children)
  BY OnBusIsSum
<1>4. OnBus(b) = Sum(mag(b), Children)
  BY OnBusIsSum
<1>5. OnBus(d) = Sum(mag(d), Children)
  BY OnBusIsSum
<1>6. IsFiniteSet(Children)
  BY HandoffAssumptions
<1> HIDE DEF mag
<1>7. Sum(mag(a), Children) \in Nat
  BY <1>1, <1>6, SumNat
<1>8. Sum(mag(b), Children) \in Nat
  BY <1>1, <1>6, SumNat
<1>9. Sum(mag(d), Children) \in Nat
  BY <1>1, <1>6, SumNat
<1>10. k * Sum(mag(a), Children) <= k * Sum(mag(b), Children) + m * Sum(mag(d), Children)
  BY <1>1, <1>2, <1>6, SumCompare
<1> QED
  BY <1>3, <1>4, <1>5, <1>7, <1>8, <1>9, <1>10

\* More of each is more of all.
LEMMA OnBusMonotone ==
  ASSUME NEW a, NEW b,
         \A c \in Children : a[c] \in Int /\ b[c] \in Int /\ Abs(a[c]) <= Abs(b[c])
  PROVE  OnBus(a) \in Nat /\ OnBus(b) \in Nat /\ OnBus(a) <= OnBus(b)
<1>1. \A c \in Children : Abs(a[c]) \in Int /\ Abs(b[c]) \in Int
  BY DEF Abs
<1>2. \A c \in Children : 1 * Abs(a[c]) <= 1 * Abs(b[c]) + 0 * Abs(a[c])
  BY <1>1
<1>3. /\ OnBus(a) \in Nat /\ OnBus(b) \in Nat
      /\ 1 * OnBus(a) <= 1 * OnBus(b) + 0 * OnBus(a)
  <2> HIDE DEF Abs
  <2> QED
    BY <1>2, OnBusCompare
<1> QED
  BY <1>3

-----------------------------------------------------------------------------
(* Arithmetic of a turn *)

\* Multiplying by a natural keeps the order ...
LEMMA Times ==
  ASSUME NEW a \in Int, NEW b \in Int, NEW c \in Nat, a <= b
  PROVE  a * c <= b * c
OBVIOUS

\* ... and so does dividing by a positive one.
LEMMA Cancel ==
  ASSUME NEW a \in Int, NEW b \in Int, NEW c \in Nat, c > 0, c * a <= c * b
  PROVE  a <= b
OBVIOUS

\* Caps of capK W that d proposes to reach by weights of wK out of W are no
\* more than d.
LEMMA CapsFit ==
  ASSUME NEW d \in Nat, NEW W \in Nat, W > 0, NEW wK \in Nat, wK <= W,
         NEW capK \in Nat, W * capK <= d * wK
  PROVE  capK <= d
<1>1. wK * d <= W * d
  BY Times
<1>2. W * capK <= W * d
  BY <1>1
<1> QED
  BY <1>2, Cancel

\* Taking them out lowers nobody's share of what is left below the cap x of a
\* child with weight w.
LEMMA LevelRises ==
  ASSUME NEW d \in Nat, NEW W \in Nat, W > 0, NEW wK \in Nat, wK <= W,
         NEW capK \in Nat, W * capK <= d * wK,
         NEW x \in Nat, NEW w \in Nat, x * W <= d * w
  PROVE  x * (W - wK) <= (d - capK) * w
<1>1. (x * W) * (W - wK) <= (d * w) * (W - wK)
  <2>1. W - wK \in Nat /\ x * W \in Int /\ d * w \in Int
    OBVIOUS
  <2> QED
    BY <2>1, Times
<1>2. (d * W - d * wK) * w <= (d * W - W * capK) * w
  <2>1. d * W - d * wK <= d * W - W * capK
    OBVIOUS
  <2> QED
    BY <2>1, Times
<1>3. (d * w) * (W - wK) = (d * W - d * wK) * w
  OBVIOUS
<1>4. (d * W - W * capK) * w = W * ((d - capK) * w)
  OBVIOUS
<1>5. (x * W) * (W - wK) = W * (x * (W - wK))
  OBVIOUS
<1>6. W * (x * (W - wK)) <= W * ((d - capK) * w)
  BY <1>1, <1>2, <1>3, <1>4, <1>5
<1>7. x * (W - wK) \in Int /\ (d - capK) * w \in Int
  OBVIOUS
<1> QED
  BY <1>6, <1>7, Cancel

-----------------------------------------------------------------------------
(* The inductive invariant of a split *)

\* Kids that have their cap.
Closed == eligible \ open

\* What a turn works on is what the inputs, which stand still, give.
ReadInv ==
    /\ total \in Totals
    /\ rack \in [Kids -> Racks]
    /\ binding \in Bindings
    /\ pc \in {"read", "split", "told", "held"}
    /\ pc \in {"split", "told"} =>
         /\ eligible = {c \in Mine : Eligible(c)}
         /\ cap = [c \in Kids |-> IF AtFloor(c) THEN 0 ELSE Headroom(c)]
         /\ weight \in [Kids -> Nat]
         /\ open \subseteq eligible
         /\ demand \in Nat

\* d W are left for the open children, and by weight that is, for each of
\* them, no less than any closed child has.
Spread(d) ==
    /\ Sum(cap, Closed) + d = Magnitude(total)
    /\ Sum(weight, open) > 0 =>
         \A e \in Closed : cap[e] * Sum(weight, open) <= d * weight[e]

\* Nothing has been given to the open children yet ...
Unspent ==
    /\ \A c \in open : share[c] = Frac(0, 1)
    /\ Spread(demand)

\* ... or all that was left, r W, by weight and less than their caps.
Spent(r) ==
    /\ demand = 0
    /\ open # {}
    /\ \A c \in open :
         /\ share[c] = Frac(r * TurnWeight[c], Sum(TurnWeight, open))
         /\ r * TurnWeight[c] < cap[c] * Sum(TurnWeight, open)
    /\ Spread(r)

SplitInv ==
    pc \in {"split", "told"} =>
        /\ \A c \in Closed : share[c] = Frac(cap[c], 1)
        /\ Unspent \/ \E r \in Nat : Spent(r)
        /\ pc = "told" =>
             /\ DOMAIN share = Mine
             /\ \A c \in Mine \ eligible : share[c] = Frac(0, 1)
             /\ demand = 0 \/ open = {}

\* A child's headroom is a number of W.
LEMMA HeadroomType ==
  ASSUME AllocationConstants, rack \in [Kids -> Racks], NEW c \in Kids
  PROVE  Headroom(c) \in Nat
<1>1. /\ rack[c].charge \in Nat /\ rack[c].discharge \in Nat
      /\ rack[c].maxCharge \in Int \cup {Missing} /\ rack[c].maxDischarge \in Int \cup {Missing}
  <2>1. rack[c] \in Racks
    OBVIOUS
  <2> QED
    BY <2>1 DEF AllocationConstants
<1> QED
  BY <1>1 DEF Headroom, Least, Most

\* A module's children are devices there are.
LEMMA MineAreKids ==
  ASSUME AllocationConstants, binding \in Bindings
  PROVE  Mine \subseteq Kids
<1>1. binding.children \subseteq Kids
  BY DEF AllocationConstants
<1> QED
  BY <1>1 DEF Mine

\* Weights and caps are numbers, and there are finitely many.
LEMMA SplitTypes ==
  ASSUME AllocationConstants, ReadInv, pc \in {"split", "told"}
  PROVE  /\ IsFiniteSet(eligible) /\ eligible \subseteq Mine /\ Mine \subseteq Kids
         /\ cap \in [Kids -> Nat] /\ weight \in [Kids -> Nat]
         /\ TurnWeight \in [Kids -> Nat]
         /\ open \subseteq eligible /\ demand \in Nat
<1>1. eligible \subseteq Mine /\ Mine \subseteq Kids
  BY MineAreKids DEF ReadInv
<1>2. IsFiniteSet(Kids)
  BY DEF AllocationConstants, IsFiniteSet, IsFiniteSet
<1>3. IsFiniteSet(eligible)
  BY <1>1, <1>2, FS_Subset
<1>4. cap \in [Kids -> Nat]
  <2>1. \A c \in Kids : Headroom(c) \in Nat
    BY HeadroomType DEF ReadInv
  <2> QED
    BY <2>1 DEF ReadInv
<1>5. weight \in [Kids -> Nat] /\ open \subseteq eligible /\ demand \in Nat
  BY DEF ReadInv
<1>6. TurnWeight \in [Kids -> Nat]
  BY <1>5 DEF TurnWeight
<1> QED
  BY <1>1, <1>3, <1>4, <1>5, <1>6

\* The weights of a turn add up to something.
LEMMA TurnWeightPositive ==
  ASSUME AllocationConstants, ReadInv, pc \in {"split", "told"}, open # {}
  PROVE  /\ Sum(TurnWeight, open) \in Nat
         /\ Sum(TurnWeight, open) > 0
<1>1. IsFiniteSet(open) /\ open \subseteq Kids /\ TurnWeight \in [Kids -> Nat]
      /\ weight \in [Kids -> Nat]
  BY SplitTypes, FS_Subset
<1>2. Sum(TurnWeight, open) \in Nat
  <2>1. \A x \in open : TurnWeight[x] \in Nat
    BY <1>1
  <2> QED
    BY <1>1, <2>1, SumNat
<1>3. CASE Sum(weight, open) > 0
  BY <1>2, <1>3 DEF TurnWeight
<1>4. CASE ~(Sum(weight, open) > 0)
  <2>1. TurnWeight = [c \in Kids |-> 1]
    BY <1>4 DEF TurnWeight
  <2>2. PICK x \in open : TRUE
    OBVIOUS
  <2>3. TurnWeight[x] = 1 /\ \A y \in open : TurnWeight[y] \in Nat
    BY <2>1, <1>1
  <2>4. TurnWeight[x] <= Sum(TurnWeight, open)
    BY <1>1, <2>3, SumMember
  <2> QED
    BY <1>2, <2>3, <2>4
<1> QED
  BY <1>2, <1>3, <1>4

\* What is read stays as it is.
LEMMA ReadStep ==
  ASSUME AllocationConstants, ReadInv, [AllocationNext]_allocationVars,
         pc = "split" /\ CapSome => Sum(cap, Capped) \in Nat /\ Sum(cap, Capped) <= demand
  PROVE  ReadInv'
<1>1. CASE Hold
  BY <1>1 DEF Hold, inputs, ReadInv
<1>2. CASE Read
  <2>1. /\ UNCHANGED <<total, policy, rack, binding>>
        /\ pc' = "split"
        /\ eligible' = {c \in Mine : Eligible(c)}
        /\ cap' = [c \in Kids |-> IF AtFloor(c) THEN 0 ELSE Headroom(c)]
        /\ open' = eligible'
        /\ demand' = Magnitude(total)
        /\ weight' = PolicyWeights(eligible')
    BY <1>2 DEF Read, inputs
  <2>2. \A c \in Kids : rack[c].soc \in 0..100
    <3> TAKE c \in Kids
    <3>1. rack[c] \in Racks
      BY DEF ReadInv
    <3> QED
      BY <3>1 DEF AllocationConstants
  <2>3. PolicyWeights(eligible') \in [Kids -> Nat]
    <3> DEFINE raw == [c \in Kids |-> IF total < 0 THEN 100 - rack[c].soc ELSE rack[c].soc]
    <3>1. raw \in [Kids -> Nat]
      BY <2>2
    <3>2. PolicyWeights(eligible') \in {raw, [c \in Kids |-> 1]}
      BY DEF PolicyWeights
    <3> QED
      BY <3>1, <3>2
  <2>4. Magnitude(total) \in Nat
    <3>1. total \in Int
      BY DEF ReadInv, AllocationConstants
    <3> QED BY <3>1 DEF Magnitude
  <2>5. Mine' = Mine /\ \A c \in Kids : /\ Eligible(c)' = Eligible(c)
                                                /\ AtFloor(c)' = AtFloor(c)
                                                /\ Headroom(c)' = Headroom(c)
    BY <2>1 DEF Mine, Eligible, AtFloor, Headroom, Floor, OperatorFloor
  <2>6. Mine \subseteq Kids
    BY MineAreKids DEF ReadInv
  <2> QED
    BY <2>1, <2>3, <2>4, <2>5, <2>6 DEF ReadInv
<1>3. ASSUME UNCHANGED <<total, policy, rack, binding, eligible, cap, weight>>,
             pc = "split", pc' \in {"split", "told"}, open' \subseteq open, demand' \in Nat
      PROVE  ReadInv'
  <2>1. Mine' = Mine /\ \A c \in Kids : /\ Eligible(c)' = Eligible(c)
                                                /\ AtFloor(c)' = AtFloor(c)
                                                /\ Headroom(c)' = Headroom(c)
    BY <1>3 DEF Mine, Eligible, AtFloor, Headroom, Floor, OperatorFloor
  <2>2. Mine \subseteq Kids
    BY MineAreKids DEF ReadInv
  <2> QED
    BY <1>3, <2>1, <2>2 DEF ReadInv
<1>4. CASE CapSome
  <2>1. demand \in Nat /\ pc = "split"
    BY <1>4 DEF ReadInv, CapSome, Running
  <2>2. demand' \in Nat
    BY <2>1, <1>4 DEF CapSome
  <2> QED
    BY <1>3, <1>4, <2>1, <2>2 DEF CapSome, inputs
<1>5. CASE GiveRest
  BY <1>3, <1>5 DEF GiveRest, Running, inputs
<1>6. CASE Tell
  BY <1>3, <1>6 DEF Tell, inputs, ReadInv
<1>7. CASE Return \/ UNCHANGED allocationVars
  <2>1. UNCHANGED <<total, policy, rack, binding, pc, eligible, cap, weight, open, demand, share>>
    BY <1>7 DEF Return, allocationVars, inputs
  <2>2. Mine' = Mine /\ \A c \in Kids : /\ Eligible(c)' = Eligible(c)
                                                /\ AtFloor(c)' = AtFloor(c)
                                                /\ Headroom(c)' = Headroom(c)
    BY <2>1 DEF Mine, Eligible, AtFloor, Headroom, Floor, OperatorFloor
  <2>3. Mine \subseteq Kids
    BY MineAreKids DEF ReadInv
  <2> QED
    BY <2>1, <2>2, <2>3 DEF ReadInv
<1> QED
  BY <1>1, <1>2, <1>4, <1>5, <1>6, <1>7 DEF AllocationNext

\* The caps a turn's proposals reach are no more than there is to give.
LEMMA CappedFits ==
  ASSUME AllocationConstants, ReadInv, Running
  PROVE  /\ Capped \subseteq open
         /\ Sum(cap, Capped) \in Nat
         /\ Sum(TurnWeight, Capped) \in Nat
         /\ Sum(TurnWeight, Capped) <= Sum(TurnWeight, open)
         /\ Sum(TurnWeight, open) * Sum(cap, Capped)
              <= demand * Sum(TurnWeight, Capped)
         /\ Sum(cap, Capped) <= demand
<1> DEFINE K == Capped
           tw == TurnWeight
           W == Sum(tw, open)
<1>1. pc = "split" /\ open # {}
  BY DEF Running
<1>2. /\ IsFiniteSet(open) /\ open \subseteq Kids /\ cap \in [Kids -> Nat]
      /\ tw \in [Kids -> Nat] /\ demand \in Nat
  BY <1>1, SplitTypes, FS_Subset
<1>3. W \in Nat /\ W > 0
  BY <1>1, TurnWeightPositive
<1>4. K \subseteq open /\ \A c \in K : W * cap[c] <= demand * tw[c]
  <2>1. \A c \in K : c \in open /\ demand * tw[c] >= cap[c] * W
    BY DEF Capped
  <2> HIDE DEF K, tw, W
  <2>2. \A c \in open : cap[c] \in Nat /\ tw[c] \in Nat
    BY <1>2
  <2> QED
    BY <1>2, <1>3, <2>1, <2>2
<1> HIDE DEF K, tw, W
<1>5. IsFiniteSet(K) /\ \A c \in K : cap[c] \in Nat /\ tw[c] \in Nat
  BY <1>2, <1>4, FS_Subset
<1>6. Sum(cap, K) \in Nat /\ Sum(tw, K) \in Nat
  BY <1>5, SumNat
<1>7. Sum(tw, K) <= W
  <2>1. \A c \in open : tw[c] \in Nat
    BY <1>2
  <2>2. /\ Sum(tw, open) = Sum(tw, K) + Sum(tw, open \ K)
        /\ Sum(tw, open \ K) \in Nat
    <3>1. K \in SUBSET open /\ IsFiniteSet(open)
      BY <1>2, <1>4
    <3>2. Sum(tw, open) = Sum(tw, K) + Sum(tw, open \ K)
      BY <2>1, <3>1, SumSplit
    <3>3. IsFiniteSet(open \ K) /\ \A c \in open \ K : tw[c] \in Nat
      BY <2>1, <3>1, FS_Subset
    <3> QED
      BY <3>2, <3>3, SumNat
  <2> QED
    BY <1>6, <2>2 DEF W
<1>8. W * Sum(cap, K) <= demand * Sum(tw, K)
  <2>1. \A c \in K : W * cap[c] <= demand * tw[c] + 0 * tw[c]
    BY <1>4, <1>5, <1>2
  <2>2. W * Sum(cap, K) <= demand * Sum(tw, K) + 0 * Sum(tw, K)
    BY <1>2, <1>3, <1>5, <2>1, SumCompare
  <2> QED
    BY <1>2, <1>6, <2>2
<1>9. Sum(cap, K) <= demand
  BY <1>2, <1>3, <1>6, <1>7, <1>8, CapsFit
<1> QED
  BY <1>4, <1>6, <1>7, <1>8, <1>9 DEF K, tw, W

\* A turn that closes children leaves the rest at no lower a level.
LEMMA CapSomeStep ==
  ASSUME AllocationConstants, ReadInv, SplitInv, CapSome
  PROVE  SplitInv'
<1> DEFINE K == Capped
           tw == TurnWeight
           W == Sum(tw, open)
<1>1. /\ Running /\ pc = "split" /\ open # {} /\ demand > 0
      /\ share' = [c \in eligible |-> IF c \in K THEN Frac(cap[c], 1) ELSE share[c]]
      /\ demand' = demand - Sum(cap, K)
      /\ open' = open \ K
      /\ UNCHANGED <<total, pc, eligible, cap, weight>>
  BY DEF CapSome, Running, inputs
<1>2. /\ IsFiniteSet(eligible) /\ eligible \subseteq Kids /\ cap \in [Kids -> Nat]
      /\ weight \in [Kids -> Nat] /\ demand \in Nat /\ open \subseteq eligible
  BY <1>1, SplitTypes
<1>3. W \in Nat /\ W > 0
  BY <1>1, TurnWeightPositive
<1>4. /\ K \subseteq open
      /\ Sum(cap, K) \in Nat
      /\ Sum(tw, K) \in Nat
      /\ Sum(tw, K) <= W
      /\ W * Sum(cap, K) <= demand * Sum(tw, K)
  BY <1>1, CappedFits
<1>5. \A c \in K : cap[c] * W <= demand * tw[c]
  BY <1>2, <1>3 DEF Capped
<1>6. Unspent /\ \A c \in Closed : share[c] = Frac(cap[c], 1)
  BY <1>1 DEF SplitInv, Spent
<1>7. Closed' = Closed \cup K /\ Closed' \ K = Closed /\ K \subseteq Closed'
  BY <1>1, <1>2, <1>4 DEF Closed
<1> HIDE DEF K, tw, W
<1>8. \A c \in Closed' : share'[c] = Frac(cap'[c], 1)
  <2> TAKE c \in Closed'
  <2>1. c \in eligible
    BY <1>1 DEF Closed
  <2>2. c \in K \/ c \in Closed
    BY <1>7
  <2> QED
    BY <1>1, <1>6, <2>1, <2>2 DEF Frac
<1>9. \A c \in open' : share'[c] = Frac(0, 1)
  BY <1>1, <1>2, <1>6 DEF Unspent, Frac
<1>10. Sum(cap, Closed') = Sum(cap, K) + Sum(cap, Closed) /\ Sum(cap, Closed) \in Nat
  <2>0. PICK C : C = Closed'
    OBVIOUS
  <2>1. IsFiniteSet(C) /\ (\A c \in C : cap[c] \in Nat) /\ K \in SUBSET C
    BY <1>1, <1>2, <1>7, <2>0, FS_Subset DEF Closed
  <2>2. Sum(cap, C) = Sum(cap, K) + Sum(cap, C \ K) /\ Sum(cap, C \ K) \in Nat
    BY <2>1, SumPart
  <2> QED
    BY <1>7, <2>0, <2>2
<1>11. Sum(cap, Closed') + demand' = Magnitude(total)
  BY <1>1, <1>2, <1>4, <1>6, <1>10 DEF Unspent, Spread
<1>12. ASSUME Sum(weight, open') > 0, NEW e \in Closed'
       PROVE  cap[e] * Sum(weight, open') <= demand' * weight[e]
  <2>1. /\ Sum(weight, open) = Sum(weight, K) + Sum(weight, open')
        /\ Sum(weight, K) \in Nat /\ Sum(weight, open') \in Nat /\ Sum(weight, open) \in Nat
    <3>1. IsFiniteSet(open) /\ (\A c \in open : weight[c] \in Nat) /\ K \in SUBSET open
      BY <1>2, <1>4, FS_Subset
    <3>2. /\ Sum(weight, open) = Sum(weight, K) + Sum(weight, open \ K)
          /\ Sum(weight, K) \in Nat /\ Sum(weight, open \ K) \in Nat
          /\ Sum(weight, open) \in Nat
      BY <3>1, SumPart
    <3> QED
      BY <1>1, <3>2
  <2>2. Sum(weight, open) > 0
    BY <1>12, <2>1
  <2>3. tw = weight /\ W = Sum(weight, open)
    BY <2>2 DEF tw, W, TurnWeight
  <2>4. cap[e] * W <= demand * weight[e]
    <3>1. CASE e \in K
      BY <3>1, <1>5, <2>3
    <3>2. CASE e \in Closed
      BY <3>2, <1>6, <2>2, <2>3 DEF Unspent, Spread
    <3> QED
      BY <1>7, <3>1, <3>2
  <2>5. cap[e] \in Nat /\ weight[e] \in Nat
    BY <1>1, <1>2 DEF Closed
  <2>6. cap[e] * (W - Sum(tw, K)) <= (demand - Sum(cap, K)) * weight[e]
    BY <1>2, <1>3, <1>4, <2>4, <2>5, LevelRises
  <2>7. W - Sum(tw, K) = Sum(weight, open')
    BY <2>1, <2>3
  <2> QED
    BY <1>1, <2>6, <2>7
<1>13. Unspent'
  <2>1. Sum(cap', Closed') + demand' = Magnitude(total')
    BY <1>1, <1>11
  <2>2. Sum(weight', open') > 0 =>
           \A e \in Closed' : cap'[e] * Sum(weight', open') <= demand' * weight'[e]
    BY <1>1, <1>12
  <2> QED
    BY <1>9, <2>1, <2>2 DEF Unspent, Spread
<1> QED
  BY <1>1, <1>8, <1>13 DEF SplitInv

\* The last turn gives out what is left.
LEMMA GiveRestStep ==
  ASSUME AllocationConstants, ReadInv, SplitInv, GiveRest
  PROVE  SplitInv'
<1>1. /\ Running /\ pc = "split" /\ open # {} /\ demand > 0 /\ Capped = {}
      /\ share' = [c \in eligible |->
            IF c \in open THEN Frac(demand * TurnWeight[c], Sum(TurnWeight, open))
            ELSE share[c]]
      /\ demand' = 0
      /\ UNCHANGED <<total, pc, eligible, cap, weight, open>>
  BY DEF GiveRest, Running, inputs
<1>2. /\ open \subseteq eligible /\ demand \in Nat /\ eligible \subseteq Kids
      /\ cap \in [Kids -> Nat] /\ TurnWeight \in [Kids -> Nat]
  BY <1>1, SplitTypes
<1>3. Sum(TurnWeight, open) \in Nat
  BY <1>1, TurnWeightPositive
<1>4. Unspent /\ \A c \in Closed : share[c] = Frac(cap[c], 1)
  BY <1>1 DEF SplitInv, Spent
<1>5. TurnWeight' = TurnWeight /\ Closed' = Closed
  BY <1>1 DEF TurnWeight, Closed
<1>6. \A c \in open : demand * TurnWeight[c] < cap[c] * Sum(TurnWeight, open)
  <2> TAKE c \in open
  <2>1. ~(demand * TurnWeight[c] >= cap[c] * Sum(TurnWeight, open))
    BY <1>1 DEF Capped
  <2>2. cap[c] \in Nat /\ TurnWeight[c] \in Nat
    BY <1>2
  <2> HIDE DEF TurnWeight
  <2> QED
    BY <1>2, <1>3, <2>1, <2>2
<1>7. \A c \in Closed' : share'[c] = Frac(cap'[c], 1)
  BY <1>1, <1>4, <1>5 DEF Closed, Frac
<1>8. PICK r \in Nat : r = demand
  BY <1>2
<1>9. Spread(r)'
  <2>1. Sum(cap', Closed') + r = Magnitude(total')
    BY <1>1, <1>4, <1>5, <1>8 DEF Unspent, Spread
  <2>2. Sum(weight', open') > 0 =>
           \A e \in Closed' : cap'[e] * Sum(weight', open') <= r * weight'[e]
    BY <1>1, <1>4, <1>5, <1>8 DEF Unspent, Spread
  <2> QED
    BY <2>1, <2>2 DEF Spread
<1>10. \A c \in open' :
         /\ share'[c] = Frac(r * TurnWeight'[c], Sum(TurnWeight', open'))
         /\ r * TurnWeight'[c] < cap'[c] * Sum(TurnWeight', open')
  <2> TAKE c \in open'
  <2>1. c \in open /\ c \in eligible
    BY <1>1, <1>2
  <2>2. share'[c] = Frac(demand * TurnWeight[c], Sum(TurnWeight, open))
    BY <1>1, <2>1
  <2> QED
    BY <1>1, <1>5, <1>6, <1>8, <2>1, <2>2
<1>11. Spent(r)'
  BY <1>1, <1>9, <1>10 DEF Spent
<1> QED
  BY <1>1, <1>7, <1>8, <1>11 DEF SplitInv

\* A fraction is its two parts.
LEMMA FracParts ==
  ASSUME NEW n, NEW d
  PROVE  Frac(n, d).num = n /\ Frac(n, d).den = d
BY DEF Frac

\* Every step of compute_shares keeps the level.
LEMMA SplitStep ==
  ASSUME AllocationConstants, ReadInv, SplitInv, [AllocationNext]_allocationVars
  PROVE  SplitInv'
<1>1. CASE Hold
  BY <1>1 DEF Hold, SplitInv
<1>2. CASE Read
  <2>1. /\ pc' = "split" /\ open' = eligible' /\ demand' = Magnitude(total) /\ total' = total
        /\ share' = [c \in eligible' |-> Frac(0, 1)]
    BY <1>2 DEF Read, inputs
  <2>2. Closed' = {}
    BY <2>1 DEF Closed
  <2>3. Magnitude(total) \in Nat
    <3>1. total \in Int
      BY DEF ReadInv, AllocationConstants
    <3> QED BY <3>1 DEF Magnitude
  <2>4. Sum(cap', Closed') = 0
    BY <2>2, SumEmpty
  <2>5. Unspent'
    BY <2>1, <2>2, <2>3, <2>4 DEF Unspent, Spread
  <2> QED
    BY <2>1, <2>2, <2>5 DEF SplitInv
<1>3. CASE CapSome
  BY <1>3, CapSomeStep
<1>4. CASE GiveRest
  BY <1>4, GiveRestStep
<1>5. CASE Tell
  <2>1. /\ pc = "split" /\ ~Running /\ pc' = "told"
        /\ share' = [c \in Mine |-> IF c \in eligible THEN share[c] ELSE Frac(0, 1)]
        /\ UNCHANGED <<total, rack, binding, eligible, cap, weight, open, demand>>
    BY <1>5 DEF Tell, inputs
  <2>2. open \subseteq eligible /\ eligible \subseteq Mine /\ demand \in Nat
    BY <2>1, SplitTypes
  <2>3. Closed' = Closed /\ Closed \subseteq eligible /\ Mine' = Mine /\ TurnWeight' = TurnWeight
    BY <2>1 DEF Closed, Mine, TurnWeight
  <2>4. \A c \in eligible : share'[c] = share[c]
    BY <2>1, <2>2
  <2>5. \A c \in Closed' : share'[c] = Frac(cap'[c], 1)
    BY <2>1, <2>3, <2>4 DEF SplitInv
  <2>6. CASE Unspent
    <3>1. Unspent'
      BY <2>1, <2>2, <2>3, <2>4, <2>6 DEF Unspent, Spread
    <3> QED
      BY <2>1, <2>2, <2>3, <2>5, <3>1 DEF SplitInv, Running
  <2>7. ASSUME NEW r \in Nat, Spent(r) PROVE SplitInv'
    <3>1. Spread(r)'
      BY <2>1, <2>3, <2>7 DEF Spent, Spread
    <3>2. Spent(r)'
      BY <2>1, <2>2, <2>3, <2>4, <2>7, <3>1 DEF Spent
    <3> QED
      BY <2>1, <2>2, <2>3, <2>5, <3>2 DEF SplitInv, Running
  <2> QED
    BY <2>1, <2>6, <2>7 DEF SplitInv
<1>6. CASE Return \/ UNCHANGED allocationVars
  <2>1. UNCHANGED <<total, policy, rack, binding, pc, eligible, cap, weight, open, demand, share>>
    BY <1>6 DEF Return, allocationVars, inputs
  <2>2. Closed' = Closed /\ Mine' = Mine /\ TurnWeight' = TurnWeight
    BY <2>1 DEF Closed, Mine, TurnWeight
  <2>3. Unspent' = Unspent /\ \A r : Spent(r)' = Spent(r)
    BY <2>1, <2>2 DEF Unspent, Spent, Spread
  <2> QED
    BY <2>1, <2>2, <2>3 DEF SplitInv
<1> QED
  BY <1>1, <1>2, <1>3, <1>4, <1>5, <1>6 DEF AllocationNext

\* Every reachable state of a split.
LEMMA SplitInvariant == ASSUME AllocationConstants PROVE AllocationSpec => [](ReadInv /\ SplitInv)
<1>1. AllocationInit => ReadInv /\ SplitInv
  BY DEF AllocationInit, ReadInv, SplitInv
<1>2. ReadInv /\ SplitInv /\ [AllocationNext]_allocationVars => (ReadInv /\ SplitInv)'
  <2> SUFFICES ASSUME ReadInv, SplitInv, [AllocationNext]_allocationVars PROVE ReadInv' /\ SplitInv'
    OBVIOUS
  <2>1. SplitInv'
    BY SplitStep
  <2>2. CapSome => Sum(cap, Capped) \in Nat /\ Sum(cap, Capped) <= demand
    BY CappedFits DEF CapSome
  <2>3. ReadInv'
    BY <2>2, ReadStep
  <2> QED
    BY <2>1, <2>3
<1> QED
  BY <1>1, <1>2, PTL DEF AllocationSpec

-----------------------------------------------------------------------------
(* What the invariant of a split says when the loop is left *)

\* A child that is below its cap is still open, and it has its part of what
\* was left.
LEMMA LevelIsFair ==
  ASSUME AllocationConstants, ReadInv, SplitInv
  PROVE  MaxMinFair
<1> SUFFICES ASSUME pc = "told", NEW c \in eligible, NEW e \in eligible,
                    share[c] # Frac(cap[c], 1), weight[c] > 0
             PROVE  share[e].num * share[c].den * weight[c]
                       <= share[c].num * share[e].den * weight[e]
  BY DEF MaxMinFair, Done
<1>1. /\ open \subseteq eligible /\ eligible \subseteq Kids /\ IsFiniteSet(open)
      /\ cap \in [Kids -> Nat] /\ weight \in [Kids -> Nat] /\ demand \in Nat
  BY SplitTypes, FS_Subset
<1>2. c \in open
  BY DEF SplitInv, Closed
<1>3. Sum(weight, open) \in Nat /\ Sum(weight, open) > 0
  <2>1. \A x \in open : weight[x] \in Nat
    BY <1>1
  <2>2. Sum(weight, open) \in Nat
    BY <1>1, <2>1, SumNat
  <2>3. weight[c] <= Sum(weight, open)
    BY <1>1, <1>2, <2>1, SumMember
  <2>4. weight[c] \in Nat
    BY <1>1
  <2> QED
    BY <2>2, <2>3, <2>4
<1>4. TurnWeight = weight
  BY <1>3 DEF TurnWeight
<1> DEFINE W == Sum(weight, open)
<1>5. cap[e] \in Nat /\ weight[e] \in Nat /\ cap[c] \in Nat /\ weight[c] \in Nat
  BY <1>1
<1>6. e \notin open => e \in Closed /\ share[e].num = cap[e] /\ share[e].den = 1
  <2>1. e \notin open => e \in Closed /\ share[e] = Frac(cap[e], 1)
    BY DEF SplitInv, Closed
  <2> QED
    BY <2>1, FracParts
<1>7. CASE Unspent
  <2>1. demand = 0 /\ share[c].num = 0 /\ share[c].den = 1
    BY <1>2, <1>7 DEF SplitInv, Unspent, Frac
  <2>2. CASE e \in open
    <3>1. share[e].num = 0 /\ share[e].den = 1
      BY <2>2, <1>7 DEF Unspent, Frac
    <3> QED
      BY <2>1, <3>1, <1>5
  <2>3. CASE e \notin open
    <3>1. cap[e] * W <= 0 * weight[e]
      BY <1>3, <1>6, <1>7, <2>1, <2>3 DEF Unspent, Spread
    <3> HIDE DEF W
    <3>2. W \in Nat /\ W > 0
      BY <1>3 DEF W
    <3>3. cap[e] = 0
      BY <1>5, <3>1, <3>2
    <3> QED
      BY <1>5, <1>6, <2>1, <2>3, <3>3
  <2> QED
    BY <2>2, <2>3
<1>8. ASSUME NEW r \in Nat, Spent(r)
      PROVE  share[e].num * share[c].den * weight[c]
                <= share[c].num * share[e].den * weight[e]
  <2>1. share[c].num = r * weight[c] /\ share[c].den = W
    <3>1. share[c] = Frac(r * weight[c], W)
      BY <1>2, <1>4, <1>8 DEF Spent
    <3> QED
      BY <3>1, FracParts
  <2>2. CASE e \in open
    <3>1. share[e].num = r * weight[e] /\ share[e].den = W
      <4>1. share[e] = Frac(r * weight[e], W)
        BY <1>4, <1>8, <2>2 DEF Spent
      <4> QED
        BY <4>1, FracParts
    <3>2. W \in Nat
      BY <1>3
    <3> HIDE DEF W
    <3>3. (r * weight[e]) * W * weight[c] = (r * weight[c]) * W * weight[e]
      BY <1>5, <3>2
    <3> QED
      BY <1>5, <2>1, <3>1, <3>2, <3>3
  <2>3. CASE e \notin open
    <3>1. cap[e] * W <= r * weight[e]
      BY <1>3, <1>6, <1>8, <2>3 DEF Spent, Spread
    <3>2. W \in Nat
      BY <1>3
    <3> HIDE DEF W
    <3>3. (cap[e] * W) * weight[c] <= (r * weight[e]) * weight[c]
      <4>1. cap[e] * W \in Int /\ r * weight[e] \in Int
        BY <1>5, <3>2
      <4> QED
        BY <1>5, <3>1, <4>1, Times
    <3>4. (r * weight[e]) * weight[c] = (r * weight[c]) * 1 * weight[e]
      BY <1>5
    <3> QED
      BY <1>6, <2>1, <2>3, <3>3, <3>4
  <2> QED
    BY <2>2, <2>3
<1> QED
  BY <1>7, <1>8 DEF SplitInv

\* compute_shares splits by max-min fairness, whatever the racks, the weights
\* and the target: a child below its cap has, per weight, at least what any
\* other has.
THEOREM SplitIsFair == AllocationSpec => []MaxMinFair
<1>1. ReadInv /\ SplitInv => MaxMinFair
  BY AllocationAssumptions, LevelIsFair
<1> QED
  BY <1>1, AllocationAssumptions, SplitInvariant, PTL

\* When the loop is left, the target is given out, or all that there is.
LEMMA AllGiven ==
  ASSUME AllocationConstants, ReadInv, SplitInv, pc = "told"
  PROVE  /\ Given(Least(Magnitude(total), Sum(cap, eligible)))
         /\ \A c \in eligible : share[c].num \in Nat /\ share[c].num <= cap[c] * share[c].den
<1> DEFINE nums == [x \in Mine |-> share[x].num]
           part == eligible \ Full
           w == Least(Magnitude(total), Sum(cap, eligible))
<1>1. /\ open \subseteq eligible /\ eligible \subseteq Mine /\ Mine \subseteq Kids
      /\ IsFiniteSet(eligible) /\ IsFiniteSet(open) /\ IsFiniteSet(Closed) /\ IsFiniteSet(part)
      /\ cap \in [Kids -> Nat] /\ TurnWeight \in [Kids -> Nat] /\ demand \in Nat
  BY SplitTypes, FS_Subset DEF Closed
<1>2. /\ Sum(cap, eligible) \in Nat /\ Sum(cap, open) \in Nat /\ Sum(cap, Closed) \in Nat
      /\ Sum(cap, eligible) = Sum(cap, open) + Sum(cap, Closed)
  <2>1. open \in SUBSET eligible /\ \A x \in eligible : cap[x] \in Nat
    BY <1>1
  <2> QED
    BY <1>1, <2>1, SumPart DEF Closed
<1>3. Closed \subseteq Full /\ \A c \in Closed : share[c] = Frac(cap[c], 1)
  BY DEF SplitInv, Closed, Full
<1>4. \A c \in Closed : share[c].num \in Nat /\ share[c].num <= cap[c] * share[c].den
  <2> TAKE c \in Closed
  <2>1. share[c].num = cap[c] /\ share[c].den = 1
    BY <1>3, FracParts
  <2>2. cap[c] \in Nat
    BY <1>1 DEF Closed
  <2> QED
    BY <2>1, <2>2
<1>5. ASSUME NEW r \in Nat, Spent(r)
      PROVE  /\ Given(w)
             /\ \A c \in open : share[c].num \in Nat /\ share[c].num <= cap[c] * share[c].den
  <2> DEFINE tw == TurnWeight
             W == Sum(tw, open)
  <2>1. W \in Nat /\ W > 0 /\ open # {}
    BY <1>5, TurnWeightPositive DEF Spent
  <2>2. \A c \in open : /\ share[c] = Frac(r * tw[c], W) /\ r * tw[c] < cap[c] * W
                        /\ tw[c] \in Nat /\ cap[c] \in Nat
    BY <1>1, <1>5 DEF Spent
  <2> HIDE DEF tw, W
  <2>3. \A c \in open : share[c].num = r * tw[c] /\ share[c].den = W
    BY <2>2, FracParts
  <2>4. \A c \in open : share[c].num \in Nat /\ share[c].num <= cap[c] * share[c].den
    <3> TAKE c \in open
    <3>1. r * tw[c] \in Nat /\ cap[c] * W \in Nat
      BY <2>1, <2>2
    <3> QED
      BY <2>2, <2>3, <3>1
  <2>5. \A c \in open : share[c] # Frac(cap[c], 1)
    <3> SUFFICES ASSUME NEW c \in open, share[c] = Frac(cap[c], 1) PROVE FALSE
      OBVIOUS
    <3>1. r * tw[c] = cap[c] /\ W = 1
      BY <2>3, FracParts
    <3> QED
      BY <2>2, <3>1
  <2>6. Full = Closed /\ part = open
    BY <1>1, <1>3, <2>5 DEF Full, Closed
  <2>7. Sum(nums, open) = r * W
    <3>1. \A c \in open : tw[c] \in Nat /\ nums[c] = r * tw[c]
      BY <1>1, <2>2, <2>3
    <3> HIDE DEF nums
    <3> QED
      BY <1>1, <3>1, SumScale DEF W
  <2>8. r <= Sum(cap, open)
    <3>1. \A c \in open : r * tw[c] <= W * cap[c] + 0 * cap[c]
      <4> TAKE c \in open
      <4>1. r * tw[c] \in Nat /\ cap[c] * W \in Nat /\ W * cap[c] = cap[c] * W
        BY <2>1, <2>2
      <4> QED
        BY <2>2, <4>1
    <3>2. \A c \in open : tw[c] \in Nat /\ cap[c] \in Nat
      BY <2>2
    <3>3. r * Sum(tw, open) <= W * Sum(cap, open) + 0 * Sum(cap, open)
      BY <1>1, <2>1, <3>1, <3>2, SumCompare
    <3>4. W * r <= W * Sum(cap, open)
      BY <1>2, <2>1, <3>3 DEF W
    <3> QED
      BY <1>2, <2>1, <3>4, Cancel
  <2>9. Sum(cap, Closed) + r = Magnitude(total)
    BY <1>5 DEF Spent, Spread
  <2>10. w = Sum(cap, Closed) + r
    BY <1>2, <2>8, <2>9 DEF Least
  <2> HIDE DEF nums, w
  <2>11. Sum(cap, Closed) * W + Sum(nums, open) = w * W
    BY <1>2, <2>1, <2>7, <2>10
  <2>12. Given(w)
    <3>1. \A c \in part : Sum(cap, Full) * share[c].den + Sum(nums, part) = w * share[c].den
      BY <2>3, <2>6, <2>11
    <3>2. part # {}
      BY <2>1, <2>6
    <3> QED
      BY <3>1, <3>2 DEF Given, nums
  <2> QED
    BY <2>4, <2>12
<1>6. CASE Unspent
  <2>1. \A c \in open : share[c] = Frac(0, 1)
    BY <1>6 DEF Unspent
  <2>2. \A c \in open : share[c].num = 0 /\ share[c].den = 1
    BY <2>1, FracParts
  <2>3. \A c \in open : share[c].num \in Nat /\ share[c].num <= cap[c] * share[c].den
    <3> TAKE c \in open
    <3>1. cap[c] \in Nat
      BY <1>1
    <3> QED
      BY <2>2, <3>1
  <2>4. Sum(cap, Closed) + demand = Magnitude(total) /\ (demand = 0 \/ open = {})
    BY <1>6 DEF Unspent, Spread, SplitInv
  <2>5. w = Sum(cap, Closed)
    <3>1. CASE demand = 0
      BY <1>2, <2>4, <3>1 DEF Least
    <3>2. CASE open = {}
      <4>1. Sum(cap, open) = 0
        BY <3>2, SumEmpty
      <4> QED
        BY <1>1, <1>2, <2>4, <4>1 DEF Least
    <3> QED
      BY <2>4, <3>1, <3>2
  <2>6. Sum(cap, Full) = Sum(cap, Closed)
    <3> DEFINE Z == Full \ Closed
    <3>1. \A c \in Z : cap[c] = 0
      <4> TAKE c \in Z
      <4>1. c \in open /\ share[c] = Frac(cap[c], 1)
        BY DEF Full, Closed
      <4>2. share[c].num = cap[c]
        BY <4>1, FracParts
      <4> QED
        BY <2>2, <4>1, <4>2
    <3>2. IsFiniteSet(Z) /\ IsFiniteSet(Full) /\ \A x \in Full : cap[x] \in Nat
      BY <1>1, FS_Subset DEF Full
    <3>3. Sum(cap, Z) = 0
      BY <3>1, <3>2, SumZero
    <3>4. Sum(cap, Full) = Sum(cap, Closed) + Sum(cap, Z)
      <4>1. Closed \in SUBSET Full
        BY <1>3
      <4> QED
        BY <3>2, <4>1, SumSplit
    <3> QED
      BY <1>2, <3>3, <3>4
  <2>7. \A c \in part : c \in open /\ share[c].num = 0 /\ share[c].den = 1
    BY <1>3, <2>2 DEF Closed
  <2>8. Sum(nums, part) = 0
    <3>1. \A c \in part : nums[c] = 0
      BY <1>1, <2>7
    <3> HIDE DEF nums, part
    <3> QED
      BY <1>1, <3>1, SumZero
  <2> HIDE DEF nums, w
  <2>9. \A c \in part : Sum(cap, Full) * share[c].den + Sum(nums, part) = w * share[c].den
    BY <1>2, <2>5, <2>6, <2>7, <2>8
  <2>10. Given(w)
    BY <2>5, <2>6, <2>9 DEF Given, nums
  <2> QED
    BY <1>4, <2>3, <2>10 DEF Closed, w
<1>7. CASE \E r \in Nat : Spent(r)
  BY <1>4, <1>5, <1>7 DEF Closed
<1> QED
  BY <1>6, <1>7 DEF SplitInv

\* The larger of 0 and what both limits allow, found by search.
LEMMA HeadroomIsMost ==
  ASSUME NEW static \in Nat, NEW live, live \in Int \cup {Missing}
  PROVE  Max({0} \cup {x \in 0..static : live = Missing \/ x <= live})
           = IF live = Missing THEN static ELSE Least(static, Most(live, 0))
<1> DEFINE T == {0} \cup {x \in 0..static : live = Missing \/ x <= live}
           m == IF live = Missing THEN static ELSE Least(static, Most(live, 0))
<1>1. m \in T /\ T \subseteq Int /\ \A y \in T : m >= y
  BY DEF Least, Most
<1> HIDE DEF T, m
<1>2. \A x \in T : (\A y \in T : x >= y) => x = m
  <2> SUFFICES ASSUME NEW x \in T, \A y \in T : x >= y PROVE x = m
    OBVIOUS
  <2>1. x >= m /\ m >= x /\ x \in Int /\ m \in Int
    BY <1>1
  <2> QED
    BY <2>1
<1>3. Max(T) = CHOOSE x \in T : \A y \in T : x >= y
  BY DEF Max
<1>4. Max(T) = m
  BY <1>1, <1>2, <1>3
<1> QED
  BY <1>4 DEF T, m

\* A whole percentage rounded down, against the product it stands for.
LEMMA PercentRounds ==
  ASSUME NEW a \in Int, NEW b \in Nat, b > 0, NEW s \in Nat
  PROVE  a \div b \in Int /\ (s <= a \div b <=> s * b <= a)
OBVIOUS

\* A charge at the higher of two floors, rounded or not.
LEMMA FloorIs ==
  ASSUME AllocationConstants, binding \in Bindings, rack \in [Kids -> Racks],
         NEW c \in Kids
  PROVE  AtFloor(c) <=>
           /\ total > 0
           /\ \/ binding.supplier # Missing /\ rack[c].soc <= binding.supplier
              \/ /\ binding.reserve # Missing
                 /\ binding.capacity \notin {Missing, 0}
                 /\ rack[c].soc * binding.capacity <= 100 * Most(binding.reserve, 0)
<1> DEFINE s == rack[c].soc
           cp == binding.capacity
           rv == binding.reserve
           sp == binding.supplier
           of == OperatorFloor
<1>1. /\ s \in Nat /\ s <= 100 /\ cp \in Nat \cup {Missing} /\ rv \in Int \cup {Missing}
      /\ sp \in (0..100) \cup {Missing} /\ Missing \notin Int
  <2>1. rack[c] \in Racks
    OBVIOUS
  <2> QED
    BY <2>1 DEF AllocationConstants
<1>2. OperatorFloor = IF cp \in {Missing, 0} \/ rv = Missing THEN Missing
                        ELSE Least(100, Most(0, (rv * 100) \div cp))
  BY DEF OperatorFloor
<1>3. AtFloor(c) <=> Floor # Missing /\ total > 0 /\ s <= Floor
  BY DEF AtFloor
<1>4. Floor = IF sp = Missing THEN of ELSE IF of = Missing THEN sp ELSE Most(sp, of)
  BY DEF Floor
<1> HIDE DEF s, cp, rv, sp, of
<1>5. CASE rv = Missing \/ cp \in {Missing, 0}
  <2>1. of = Missing
    BY <1>2, <1>5 DEF of
  <2>2. Floor = sp
    BY <1>4, <2>1
  <2> QED
    BY <1>3, <1>5, <2>2 DEF s, sp, rv, cp
<1>6. CASE ~(rv = Missing \/ cp \in {Missing, 0})
  <2>1. rv \in Int /\ cp \in Nat /\ cp > 0
    BY <1>1, <1>6
  <2> DEFINE q == (rv * 100) \div cp
  <2>2. q \in Int /\ (s <= q <=> s * cp <= rv * 100)
    BY <1>1, <2>1, PercentRounds
  <2>3. of = Least(100, Most(0, q))
    BY <1>2, <1>6 DEF of
  <2> HIDE DEF q
  <2>4. of \in Int /\ of # Missing /\ (s <= of <=> s <= 0 \/ s <= q)
    BY <1>1, <2>2, <2>3 DEF Least, Most
  <2>5. s * cp <= 100 * Most(rv, 0) <=> s <= of
    <3>1. CASE s = 0
      <4>1. s * cp = 0 /\ Most(rv, 0) \in Nat
        BY <2>1, <3>1 DEF Most
      <4> QED
        BY <3>1, <2>4, <4>1
    <3>2. CASE s > 0
      <4>1. s * cp \in Nat /\ s * cp > 0
        BY <1>1, <2>1, <3>2
      <4>2. Most(rv, 0) = IF rv < 0 THEN 0 ELSE rv
        BY DEF Most
      <4> QED
        BY <1>1, <2>1, <2>2, <2>4, <3>2, <4>1, <4>2
    <3> QED
      BY <1>1, <3>1, <3>2
  <2>6. s <= Floor /\ Floor # Missing <=> (sp # Missing /\ s <= sp) \/ s <= of
    BY <1>1, <1>4, <2>4 DEF Most
  <2> QED
    BY <1>3, <1>6, <2>5, <2>6 DEF s, sp, rv, cp
<1> QED
  BY <1>5, <1>6

\* So the shares fit the limits worked out anew.
LEMMA FitsLimits ==
  ASSUME AllocationConstants, ReadInv, SplitInv
  PROVE  GivesAllItCan
<1> SUFFICES ASSUME pc = "told" PROVE GivesAllItCan
  BY DEF GivesAllItCan, Done
<1> DEFINE fit == {c \in Mine : ~rack[c].quiet /\ rack[c].state \notin {"FAULT", "OFFLINE"}}
           low(c) == /\ total > 0
                     /\ \/ binding.supplier # Missing /\ rack[c].soc <= binding.supplier
                        \/ /\ binding.reserve # Missing
                           /\ binding.capacity \notin {Missing, 0}
                           /\ rack[c].soc * binding.capacity <= 100 * Most(binding.reserve, 0)
           static(c) == IF total < 0 THEN rack[c].charge ELSE rack[c].discharge
           live(c) == IF total < 0 THEN rack[c].maxCharge ELSE rack[c].maxDischarge
           most == [c \in Kids |->
               IF c \notin fit \/ low(c) THEN 0
               ELSE Max({0} \cup {x \in 0..static(c) : live(c) = Missing \/ x <= live(c)})]
<1>1. /\ eligible \subseteq Mine /\ Mine \subseteq Kids
      /\ IsFiniteSet(eligible) /\ IsFiniteSet(Mine)
      /\ cap \in [Kids -> Nat]
  <2>1. IsFiniteSet(Kids)
    BY DEF AllocationConstants, IsFiniteSet, IsFiniteSet
  <2> QED
    BY <2>1, SplitTypes, FS_Subset
<1>2. fit = eligible
  BY DEF ReadInv, Eligible
<1>3. \A c \in Mine : most[c] = IF c \in eligible THEN cap[c] ELSE 0
  <2> TAKE c \in Mine
  <2>1. c \in Kids /\ rack[c] \in Racks
    BY <1>1 DEF ReadInv
  <2>2. low(c) <=> AtFloor(c)
    BY <2>1, FloorIs DEF ReadInv
  <2>3. static(c) \in Nat /\ live(c) \in Int \cup {Missing}
    BY <2>1 DEF AllocationConstants
  <2>4. Headroom(c) = IF live(c) = Missing THEN static(c)
                        ELSE Least(static(c), Most(live(c), 0))
    BY DEF Headroom
  <2>5. cap[c] = IF AtFloor(c) THEN 0 ELSE Headroom(c)
    BY <2>1 DEF ReadInv
  <2>6. most[c] = IF c \notin fit \/ low(c) THEN 0
                  ELSE Max({0} \cup {x \in 0..static(c) : live(c) = Missing \/ x <= live(c)})
    BY <2>1
  <2> HIDE DEF low, static, live, fit, most
  <2>7. Max({0} \cup {x \in 0..static(c) : live(c) = Missing \/ x <= live(c)}) = Headroom(c)
    BY <2>3, <2>4, HeadroomIsMost
  <2> QED
    BY <1>2, <2>2, <2>5, <2>6, <2>7
<1>4. DOMAIN share = Mine /\ \A c \in Mine \ eligible : share[c] = Frac(0, 1)
  BY DEF SplitInv
<1>5. /\ Given(Least(Magnitude(total), Sum(cap, eligible)))
      /\ \A c \in eligible : share[c].num \in Nat /\ share[c].num <= cap[c] * share[c].den
  BY AllGiven
<1>6. \A c \in Mine : 0 <= share[c].num /\ Leq(share[c], Frac(most[c], 1))
  <2> HIDE DEF most
  <2> TAKE c \in Mine
  <2>1. Leq(share[c], Frac(most[c], 1)) <=> share[c].num * 1 <= most[c] * share[c].den
    BY FracParts DEF Leq
  <2>2. CASE c \in eligible
    BY <1>3, <1>5, <2>1, <2>2
  <2>3. CASE c \notin eligible
    <3>1. share[c].num = 0 /\ share[c].den = 1 /\ most[c] = 0
      BY <1>3, <1>4, <2>3, FracParts
    <3> QED
      BY <2>1, <3>1
  <2> QED
    BY <2>2, <2>3
<1>7. Sum(most, Mine) = Sum(cap, eligible)
  <2> HIDE DEF most
  <2>1. \A c \in Mine : most[c] \in Nat
    BY <1>1, <1>3
  <2>2. Sum(most, Mine) = Sum(most, eligible) + Sum(most, Mine \ eligible)
    <3>1. eligible \in SUBSET Mine
      BY <1>1
    <3> QED
      BY <1>1, <2>1, <3>1, SumSplit
  <2>3. Sum(most, Mine \ eligible) = 0
    <3>1. IsFiniteSet(Mine \ eligible) /\ \A c \in Mine \ eligible : most[c] = 0
      BY <1>1, <1>3, FS_Subset
    <3> QED
      BY <3>1, SumZero
  <2>4. \A c \in eligible : cap[c] \in Nat /\ most[c] = cap[c]
    BY <1>1, <1>3
  <2>5. Sum(most, eligible) = Sum(cap, eligible)
    BY <1>1, <2>4, SumSame
  <2>6. Sum(cap, eligible) \in Nat
    BY <1>1, <2>4, SumNat
  <2> QED
    BY <2>2, <2>3, <2>5, <2>6
<1> QED
  <2>1. Given(Least(Magnitude(total), Sum(most, Mine)))
    BY <1>5, <1>7
  <2> QED
    BY <1>4, <1>6, <2>1 DEF GivesAllItCan

\* A bound by what the racks can give is within what they can give and what
\* the bound overstates.
LEMMA WithinBound ==
  ASSUME AllocationConstants, ReadInv, SplitInv
  PROVE  BoundIsDeliverable
<1> SUFFICES ASSUME pc = "told", Magnitude(total) <= ModuleRoom
             PROVE  \E w \in 0..Magnitude(total) : Given(w) /\ Magnitude(total) - w <= Overstated
  BY DEF BoundIsDeliverable, Done
<1> DEFINE room == [c \in Kids |-> Headroom(c)]
           unfit == {c \in Mine : ~Eligible(c) \/ AtFloor(c)}
           w == Least(Magnitude(total), Sum(cap, eligible))
<1>1. eligible \subseteq Mine /\ Mine \subseteq Kids /\ IsFiniteSet(eligible) /\ IsFiniteSet(Mine)
  <2>1. IsFiniteSet(Kids)
    BY DEF AllocationConstants
  <2> QED
    BY <2>1, SplitTypes, FS_Subset
<1>2. StaticBound \in Nat /\ Magnitude(total) \in Nat
  <2>1. binding \in Bindings /\ total \in Totals
    BY DEF ReadInv
  <2>2. binding.charge \in Nat /\ binding.discharge \in Nat
    BY <2>1 DEF AllocationConstants
  <2>3. total \in Int
    BY <2>1 DEF AllocationConstants
  <2> QED
    BY <2>2, <2>3 DEF Magnitude, StaticBound
<1>3. Given(w)
  BY AllGiven
<1>4. \A c \in Kids : room[c] \in Nat /\ cap[c] \in Nat
  BY HeadroomType, SplitTypes DEF ReadInv
<1>5. Sum(cap, eligible) \in Nat
  BY <1>1, <1>4, SumNat
<1>6. w \in 0..Magnitude(total) /\ w \in Nat /\ w \in {Magnitude(total), Sum(cap, eligible)}
  BY <1>2, <1>5 DEF Least
<1>7. CASE binding.children = {}
  BY <1>2, <1>3, <1>6, <1>7 DEF ModuleRoom, Overstated
<1>8. CASE binding.children # {}
  <2>1. Mine \ unfit \in SUBSET eligible /\ \A c \in Mine \ unfit : cap[c] = room[c]
    BY <1>1 DEF ReadInv
  <2>2. ModuleRoom = Least(StaticBound, Sum(room, Mine)) /\ Overstated = Sum(room, unfit)
    BY <1>8 DEF ModuleRoom, Overstated, RacksRoom
  <2>3. unfit \in SUBSET Mine
    OBVIOUS
  <2> HIDE DEF room, unfit, w
  <2>4. /\ Sum(room, Mine) \in Nat /\ Sum(room, unfit) \in Nat /\ Sum(room, Mine \ unfit) \in Nat
        /\ Sum(room, Mine) = Sum(room, unfit) + Sum(room, Mine \ unfit)
    <3>1. PICK M, f, T : M = Mine /\ f = room /\ T = unfit
      OBVIOUS
    <3>2. IsFiniteSet(M) /\ (\A c \in M : f[c] \in Nat) /\ T \in SUBSET M
      BY <1>1, <1>4, <2>3, <3>1
    <3>3. Sum(f, M) = Sum(f, T) + Sum(f, M \ T)
      BY ONLY <3>2, SumSplit
    <3>4. Sum(f, M \ T) \in Nat
      BY ONLY <3>2, SumPart
    <3>5. Sum(f, M) \in Nat
      BY ONLY <3>2, SumNat
    <3>6. Sum(f, T) \in Nat
      BY ONLY <3>2, SumPart
    <3> QED
      BY <3>1, <3>3, <3>4, <3>5, <3>6
  <2>5. Sum(cap, Mine \ unfit) = Sum(room, Mine \ unfit)
    <3>1. IsFiniteSet(Mine \ unfit) /\ \A c \in Mine \ unfit : room[c] \in Nat
      BY <1>1, <1>4, FS_Subset
    <3> QED
      BY <2>1, <3>1, SumSame
  <2>6. Sum(cap, Mine \ unfit) <= Sum(cap, eligible)
    <3> DEFINE T == Mine \ unfit
    <3>1. /\ IsFiniteSet(eligible) /\ T \in SUBSET eligible
          /\ \A c \in eligible : cap[c] \in Nat
      BY <1>1, <1>4, <2>1
    <3> HIDE DEF T
    <3>2. /\ Sum(cap, T) \in Nat /\ Sum(cap, eligible \ T) \in Nat
          /\ Sum(cap, eligible) = Sum(cap, T) + Sum(cap, eligible \ T)
      BY ONLY <3>1, SumPart
    <3>3. Sum(cap, T) <= Sum(cap, eligible)
      BY <3>2
    <3> QED
      BY <3>3 DEF T
  <2>7. Magnitude(total) <= Sum(room, Mine)
    BY <1>2, <2>2, <2>4 DEF Least
  <2>8. Magnitude(total) - w <= Overstated
    BY <1>2, <1>5, <1>6, <2>2, <2>4, <2>5, <2>6, <2>7
  <2> QED
    BY <1>3, <1>6, <2>8
<1> QED
  BY <1>7, <1>8

\* It gives out the target or, if that is less, all that the children fit to be
\* used can give, nobody more than its limits and floors allow, and tells every
\* child not locked out.
THEOREM TargetIsGivenOut == AllocationSpec => []GivesAllItCan
<1>1. ReadInv /\ SplitInv => GivesAllItCan
  BY AllocationAssumptions, FitsLimits
<1> QED
  BY <1>1, AllocationAssumptions, SplitInvariant, PTL

\* A target within modules_with_bounds is given out, but for what racks that are
\* silent, in fault, offline or at their floor count for in it, and all of it in
\* a module without racks.
THEOREM BoundsAreDelivered == AllocationSpec => []BoundIsDeliverable
<1>1. ReadInv /\ SplitInv => BoundIsDeliverable
  BY AllocationAssumptions, WithinBound
<1> QED
  BY <1>1, AllocationAssumptions, SplitInvariant, PTL

-----------------------------------------------------------------------------
(* The inductive invariant of a handoff *)

\* Child by child, the larger of two setpoints.
Larger(a, b) == [c \in Children |-> IF Abs(a[c]) < Abs(b[c]) THEN b[c] ELSE a[c]]

\* Types, that a split fits on the bus, and that the task remembers all its
\* children or none.
Types ==
    /\ shares \in [Children -> Shares]
    /\ \/ last \in [Children -> Shares]
       \/ last = [c \in Children |-> Never]
    /\ reg \in [Children -> Shares]
    /\ out \in [Children -> Shares]
    /\ faults \in Nat
    /\ tick \in {"idle", "write"}
    /\ OnBus(shares) <= Limit

\* A plan in the writing: it covers every child and re-asserts what it does
\* not change.
PlanInv ==
    tick = "write" =>
        /\ plan \in [Children -> Shares]
        /\ batch \subseteq Children
        /\ todo \subseteq Children
        /\ \A c \in Children \ batch : plan[c] = last[c]

\* A task with no memory writes one split over another.
BlindInv ==
    Blind =>
        /\ tick = "idle" => OnBus(reg) <= Limit
        /\ tick = "write" =>
             /\ OnBus(plan) <= Limit
             /\ \E b \in [Children -> Shares] :
                   /\ OnBus(b) <= Limit
                   /\ \A c \in Children : reg[c] = IF c \in todo THEN b[c] ELSE plan[c]

\* Which children hold the plan already, and that they are not the ones
\* that grow while one that shrinks is still to be written.
RegInv ==
    ~Blind =>
        /\ tick = "idle" => reg = last
        /\ tick = "write" =>
             /\ \A c \in Children : reg[c] = IF c \in todo THEN last[c] ELSE plan[c]
             /\ \A c \in batch \ todo, e \in batch \cap todo :
                   Abs(plan[c]) - Previous(c) <= Abs(plan[e]) - Previous(e)

\* Before and after the plan the children fit on the bus.
FitInv ==
    ~Blind =>
        /\ OnBus(last) <= Limit
        /\ tick = "write" => OnBus(plan) <= Limit

\* So do outputs that have or have not followed, but for the drift.
LagInv ==
    ~loose =>
        /\ tick = "idle" => 100 * OnBus(Larger(out, reg)) <= 101 * Limit
        /\ tick = "write" =>
             /\ ~Blind
             /\ \A c \in Children : out[c] \in {last[c], plan[c]}
             /\ 100 * OnBus(Larger(last, plan)) <= 101 * Limit

\* What holds as long as every write has landed and every child is up.
Sound == (\A c \in Children : health[c] = "up") /\ BlindInv /\ RegInv /\ FitInv /\ LagInv

IInv == Types /\ PlanInv /\ (faults = 0 => Sound)

\* A growth that completes is no longer held back.
GateInv == (completes => ~deferred) /\ HoldCoversHandoff

-----------------------------------------------------------------------------

\* A task that is not blind remembers a setpoint for every child.
LEMMA Remembers ==
  ASSUME Types, ~Blind
  PROVE  /\ last \in [Children -> Shares]
         /\ \A c \in Children : last[c] \in Int /\ Previous(c) = Abs(last[c])
<1> USE HandoffAssumptions
<1>1. last \in [Children -> Shares]
  <2>1. CASE Children = {}
    BY <2>1 DEF Types
  <2>2. CASE Children # {}
    BY <2>2 DEF Types, Blind
  <2> QED
    BY <2>1, <2>2
<1> QED
  BY <1>1 DEF Previous

\* A blind one none.
LEMMA Forgets ==
  ASSUME Types, Blind
  PROVE  \A c \in Children : last[c] = Never
BY HandoffAssumptions DEF Types, Blind

\* The task starts over setpoints that fit.
LEMMA InitIInv == Init => IInv /\ GateInv
<1> SUFFICES ASSUME Init PROVE IInv /\ GateInv
  OBVIOUS
<1> USE HandoffAssumptions
<1>1. Types
  BY DEF Init, Types, Splits
<1>2. OnBus(reg) <= Limit /\ out = reg /\ tick = "idle" /\ loose = FALSE /\ reg \in [Children -> Shares]
  BY DEF Init
<1>3. RegInv /\ FitInv
  <2>1. ASSUME ~Blind PROVE Children = {}
    BY <2>1 DEF Init, Blind
  <2>2. ASSUME Children = {} PROVE last = reg
    BY <1>2, <2>2 DEF Init
  <2> QED
    BY <1>2, <2>1, <2>2 DEF RegInv, FitInv
<1>4. LagInv
  <2> DEFINE w == Larger(out, reg)
  <2>1. \A c \in Children : w[c] \in Int /\ reg[c] \in Int /\ Abs(w[c]) <= Abs(reg[c])
    <3> TAKE c \in Children
    <3>1. reg[c] \in Int
      BY <1>2
    <3> QED
      BY <1>2, <3>1 DEF Larger, Abs
  <2> HIDE DEF w
  <2>2. OnBus(w) \in Nat /\ OnBus(reg) \in Nat /\ OnBus(w) <= OnBus(reg)
    BY <2>1, OnBusMonotone
  <2>3. 100 * OnBus(w) <= 101 * Limit
    BY <1>2, <2>2
  <2> QED
    BY <1>2, <2>3 DEF LagInv, w
<1>5. Sound
  BY <1>2, <1>3, <1>4 DEF Init, Sound, BlindInv
<1>6. PlanInv /\ GateInv
  BY DEF Init, PlanInv, GateInv, HoldCoversHandoff
<1> QED
  BY <1>1, <1>5, <1>6 DEF IInv

\* A plan covers every child.
LEMMA PlanCovers ==
  ASSUME Types
  PROVE  /\ Batch \subseteq Children
         /\ Batch \cup Reasserts = Children
         /\ Blind => \A c \in Children : c \in Batch
         /\ \A c \in Children \ Batch : last[c] \in Shares
<1> USE HandoffAssumptions
<1>1. Batch \subseteq Children /\ Reasserts \subseteq Children
  BY DEF Batch, Changed, Reasserts
<1>2. CASE Blind
  <2>1. \A c \in Children : last[c] = Never /\ shares[c] \in Int /\ shares[c] # Never
    BY <1>2, Forgets DEF Types
  <2>2. \A c \in Children : c \in Changed /\ ~MaterialShrink(c)
    <3> TAKE c \in Children
    <3>1. Previous(c) = 0 /\ Growth(c) = Abs(shares[c]) - 0
      BY <2>1 DEF Previous, Growth
    <3>2. Abs(shares[c]) \in Nat
      BY <2>1 DEF Abs
    <3> QED
      BY <2>1, <3>1, <3>2 DEF Changed, MaterialShrink
  <2>3. ~HoldBack
    BY <2>2 DEF HoldBack, Changed
  <2> QED
    BY <1>1, <2>2, <2>3 DEF Batch
<1>3. CASE ~Blind
  <2>1. last \in [Children -> Shares]
    BY <1>3, Remembers
  <2> QED
    BY <1>1, <1>3, <2>1 DEF Reasserts
<1> QED
  BY <1>2, <1>3

\* A plan fits on the bus when it has landed, and its change of outputs does,
\* but for the drift, unless it writes a growth that was held back.
LEMMA PlanFits ==
  ASSUME Types, FitInv, ~Blind, NEW P,
         \A c \in Children : P[c] = IF c \in Batch THEN shares[c] ELSE last[c]
  PROVE  /\ OnBus(P) <= Limit
         /\ ~deferred => 100 * OnBus(Larger(last, P)) <= 101 * Limit
<1> DEFINE H == last
           W == Larger(last, P)
<1>1. \A c \in Children : /\ H[c] \in Int /\ P[c] \in Int /\ shares[c] \in Int /\ W[c] \in Int
                          /\ Abs(H[c]) \in Nat /\ Abs(P[c]) \in Nat /\ Previous(c) = Abs(H[c])
                          /\ Abs(W[c]) = IF Abs(H[c]) < Abs(P[c]) THEN Abs(P[c]) ELSE Abs(H[c])
  <2>1. \A c \in Children : H[c] \in Int /\ P[c] \in Int /\ shares[c] \in Int /\ Previous(c) = Abs(H[c])
    BY Remembers, HandoffAssumptions DEF Types
  <2> QED
    BY <2>1 DEF Larger, Abs
<1>2. OnBus(H) <= Limit /\ OnBus(shares) <= Limit
  BY DEF FitInv, Types
<1>3. CASE HoldBack
  <2>1. \A c \in Children : Abs(P[c]) <= Abs(H[c])
    BY <1>1, <1>3 DEF Batch, Growth
  <2>2. \A c \in Children : Abs(W[c]) <= Abs(H[c])
    BY <1>1, <2>1
  <2> HIDE DEF H, W
  <2>3. OnBus(P) \in Nat /\ OnBus(H) \in Nat /\ OnBus(P) <= OnBus(H)
    BY <1>1, <2>1, OnBusMonotone
  <2>4. OnBus(W) \in Nat /\ OnBus(W) <= OnBus(H)
    BY <1>1, <2>2, OnBusMonotone
  <2> QED
    BY <1>2, <2>3, <2>4, HandoffAssumptions DEF W, H
<1>4. CASE ~HoldBack
  <2>1. \A c \in Children : P[c] = shares[c]
    BY <1>4, HandoffAssumptions DEF Batch, Changed
  <2>2. OnBus(P) \in Nat /\ OnBus(P) <= Limit
    <3>1. \A c \in Children : Abs(P[c]) <= Abs(shares[c])
      BY <1>1, <2>1
    <3>2. OnBus(P) \in Nat /\ OnBus(P) <= OnBus(shares) /\ OnBus(shares) \in Nat
      BY <1>1, <3>1, OnBusMonotone
    <3> QED
      BY <1>2, <3>2, HandoffAssumptions
  <2>3. ASSUME ~deferred PROVE 100 * OnBus(W) <= 101 * Limit
    <3>1. CASE \A c \in Changed : ~MaterialShrink(c)
      <4>1. \A c \in Children : 100 * Abs(W[c]) <= 100 * Abs(P[c]) + 1 * Abs(H[c])
        <5> TAKE c \in Children
        <5>1. CASE c \in Changed
          BY <5>1, <3>1, <1>1, <2>1 DEF MaterialShrink, Growth
        <5>2. CASE c \notin Changed
          <6>1. Abs(H[c]) = Abs(P[c])
            BY <5>2, <2>1, <1>1, HandoffAssumptions DEF Changed
          <6> QED
            BY <6>1, <1>1
        <5> QED
          BY <5>1, <5>2
      <4> HIDE DEF H, W
      <4>2. /\ OnBus(W) \in Nat /\ OnBus(P) \in Nat /\ OnBus(H) \in Nat
            /\ 100 * OnBus(W) <= 100 * OnBus(P) + 1 * OnBus(H)
        BY <1>1, <4>1, OnBusCompare
      <4> QED
        BY <4>2, <1>2, <2>2, HandoffAssumptions DEF H
    <3>2. CASE \A c \in Changed : Growth(c) <= 0
      <4>1. \A c \in Children : Abs(W[c]) <= Abs(H[c])
        <5> TAKE c \in Children
        <5>1. CASE c \in Changed
          BY <5>1, <3>2, <1>1, <2>1 DEF Growth
        <5>2. CASE c \notin Changed
          <6>1. Abs(H[c]) = Abs(P[c])
            BY <5>2, <2>1, <1>1, HandoffAssumptions DEF Changed
          <6> QED
            BY <6>1, <1>1
        <5> QED
          BY <5>1, <5>2
      <4> HIDE DEF H, W
      <4>2. OnBus(W) \in Nat /\ OnBus(H) \in Nat /\ OnBus(W) <= OnBus(H)
        BY <1>1, <4>1, OnBusMonotone
      <4> QED
        BY <4>2, <1>2, HandoffAssumptions DEF H
    <3>3. \A c \in Changed : Growth(c) \in Int
      BY <1>1 DEF Changed, Growth, Abs
    <3> QED
      BY <1>4, <2>3, <3>1, <3>2, <3>3 DEF HoldBack
  <2> QED
    BY <2>2, <2>3
<1> QED
  BY <1>3, <1>4

-----------------------------------------------------------------------------
(* One step per action *)

\* Nothing Sound speaks of moves, but for the split.
LEMMA SoundKept ==
  ASSUME PlanInv, UNCHANGED <<last, reg, out, health, tick, plan, batch, todo, loose>>
  PROVE  PlanInv' /\ (Sound => Sound')
<1>1. Blind' = Blind /\ Larger(out, reg)' = Larger(out, reg)
      /\ Larger(last, plan)' = Larger(last, plan)
  BY DEF Blind, Larger
<1>2. \A c \in Children : Previous(c)' = Previous(c)
  BY DEF Previous
<1>3. PlanInv'
  BY DEF PlanInv
<1> SUFFICES ASSUME Sound PROVE Sound'
  BY <1>3
<1>4. RegInv'
  <2>1. ASSUME ~Blind, tick = "write", NEW c \in batch \ todo, NEW e \in batch \cap todo
        PROVE  Abs(plan[c]) - Previous(c)' <= Abs(plan[e]) - Previous(e)'
    <3>1. c \in Children /\ e \in Children
      BY <2>1 DEF PlanInv
    <3> QED
      BY <1>2, <2>1, <3>1 DEF Sound, RegInv
  <2>2. ~Blind /\ tick = "write" =>
           \A c \in Children : reg[c] = IF c \in todo THEN last[c] ELSE plan[c]
    BY DEF Sound, RegInv
  <2>3. ~Blind /\ tick = "idle" => reg = last
    BY DEF Sound, RegInv
  <2> QED
    BY <1>1, <2>1, <2>2, <2>3 DEF RegInv
<1>5. FitInv'
  BY <1>1 DEF Sound, FitInv
<1>6. LagInv'
  BY <1>1 DEF Sound, LagInv
<1>7. BlindInv'
  BY <1>1 DEF Sound, BlindInv
<1> QED
  BY <1>4, <1>5, <1>6, <1>7 DEF Sound

\* A tick makes a plan that fits.
LEMMA TickStep == ASSUME IInv, Tick PROVE IInv'
<1> USE HandoffAssumptions
<1>1. Types'
  BY DEF IInv, Types, Tick, deviceVars, boundVars
<1>2. /\ last' = last /\ reg' = reg /\ out' = out /\ health' = health /\ tick = "idle"
      /\ tick' = "write" /\ batch' = Batch /\ todo' = Batch \cup Reasserts /\ loose' = Loose
      /\ plan' = [c \in Batch \cup Reasserts |-> IF c \in Batch THEN shares[c] ELSE last[c]]
      /\ faults' = faults
  BY DEF Tick, deviceVars, boundVars
<1>3. Types
  BY DEF IInv
<1>4. /\ Batch \subseteq Children /\ Batch \cup Reasserts = Children
      /\ Blind => \A c \in Children : c \in Batch
      /\ \A c \in Children \ Batch : last[c] \in Shares
  BY <1>3, PlanCovers
<1>5. plan' \in [Children -> Shares]
  BY <1>2, <1>3, <1>4 DEF Types
<1>6. \A c \in Children : plan'[c] = IF c \in Batch THEN shares[c] ELSE last[c]
  BY <1>2, <1>4
<1>7. PlanInv'
  BY <1>2, <1>4, <1>5, <1>6 DEF PlanInv
<1> SUFFICES ASSUME faults' = 0 PROVE Sound'
  BY <1>1, <1>7 DEF IInv
<1>8. faults = 0 /\ Sound
  BY <1>2 DEF IInv
<1>9. Blind' = Blind
  BY <1>2 DEF Blind
<1>10. RegInv'
  BY <1>8, <1>2, <1>4, <1>9 DEF RegInv, Sound
<1>11. ASSUME ~Blind
       PROVE  /\ OnBus(plan') <= Limit
              /\ ~deferred => 100 * OnBus(Larger(last, plan')) <= 101 * Limit
  <2> DEFINE P == plan'
  <2>1. FitInv
    BY <1>8 DEF Sound
  <2> HIDE DEF P
  <2>2. \A c \in Children : P[c] = IF c \in Batch THEN shares[c] ELSE last[c]
    BY <1>6 DEF P
  <2> QED
    BY <1>3, <1>11, <2>1, <2>2, PlanFits DEF P
<1>12. FitInv'
  BY <1>8, <1>9, <1>2, <1>11 DEF FitInv, Sound
<1>13. LagInv'
  <2> SUFFICES ASSUME ~Loose PROVE LagInv'
    BY <1>2 DEF LagInv
  <2>1. ~Blind /\ ~deferred /\ out = reg
    BY DEF Loose
  <2>2. reg = last
    BY <1>2, <1>8, <2>1 DEF Sound, RegInv
  <2>3. Larger(last, plan)' = Larger(last, plan')
    BY <1>2 DEF Larger
  <2> QED
    BY <1>2, <1>9, <1>11, <2>1, <2>2, <2>3 DEF LagInv
<1>14. BlindInv'
  <2> SUFFICES ASSUME Blind PROVE BlindInv'
    BY <1>9 DEF BlindInv
  <2>1. OnBus(reg) <= Limit /\ reg \in [Children -> Shares]
    BY <1>2, <1>3, <1>8 DEF Sound, BlindInv, Types
  <2>2. OnBus(plan') <= Limit
    <3> DEFINE P == plan'
    <3>1. \A c \in Children : P[c] = shares[c] /\ shares[c] \in Int
      BY <1>3, <1>4, <1>6 DEF Types
    <3>2. \A c \in Children : P[c] \in Int /\ shares[c] \in Int /\ Abs(P[c]) <= Abs(shares[c])
      BY <3>1 DEF Abs
    <3> HIDE DEF P
    <3>3. OnBus(P) \in Nat /\ OnBus(shares) \in Nat /\ OnBus(P) <= OnBus(shares)
      BY <3>2, OnBusMonotone
    <3>4. OnBus(P) <= Limit
      BY <1>3, <3>3 DEF Types
    <3> QED
      BY <3>4 DEF P
  <2>3. \A c \in Children : reg'[c] = IF c \in todo' THEN reg[c] ELSE plan'[c]
    BY <1>2, <1>4
  <2> QED
    BY <1>2, <2>1, <2>2, <2>3 DEF BlindInv
<1> QED
  BY <1>8, <1>2, <1>10, <1>12, <1>13, <1>14 DEF Sound

\* A write takes the child whose share grows least.
LEMMA WriteStep == ASSUME IInv, NEW c \in Children, Write(c) PROVE IInv'
<1> USE HandoffAssumptions
<1>1. /\ tick = "write" /\ tick' = tick /\ c \in todo /\ todo' = todo \ {c}
      /\ reg' = [reg EXCEPT ![c] = plan[c]] /\ last' = last /\ out' = out /\ shares' = shares
      /\ plan' = plan /\ batch' = batch /\ health' = health /\ loose' = loose /\ faults' = faults
  BY DEF Write, IsNext, boundVars
<1>2. Types /\ PlanInv
  BY DEF IInv
<1>3. plan \in [Children -> Shares] /\ plan[c] \in Shares
  BY <1>1, <1>2 DEF PlanInv
<1>4. Types'
  BY <1>1, <1>2, <1>3 DEF Types
<1>5. PlanInv'
  BY <1>1, <1>2 DEF PlanInv
<1>6. ASSUME faults = 0 PROVE Sound'
  <2>1. Sound
    BY <1>6 DEF IInv
  <2>2. Blind' = Blind /\ Larger(last, plan)' = Larger(last, plan)
    BY <1>1 DEF Blind, Larger
  <2>3. ASSUME NEW b, \A d \in Children : reg[d] = IF d \in todo THEN b[d] ELSE plan[d]
        PROVE  \A d \in Children : reg'[d] = IF d \in todo' THEN b[d] ELSE plan'[d]
    <3> TAKE d \in Children
    <3>1. reg'[d] = IF d = c THEN plan[c] ELSE reg[d]
      BY <1>1, <1>2 DEF Types
    <3> QED
      BY <1>1, <2>3, <3>1
  <2>4. BlindInv'
    <3> SUFFICES ASSUME Blind PROVE BlindInv'
      BY <2>2 DEF BlindInv
    <3>1. OnBus(plan) <= Limit
      BY <1>1, <2>1 DEF Sound, BlindInv
    <3>2. PICK b \in [Children -> Shares] :
             /\ OnBus(b) <= Limit
             /\ \A d \in Children : reg[d] = IF d \in todo THEN b[d] ELSE plan[d]
      BY <1>1, <2>1 DEF Sound, BlindInv
    <3>3. \A d \in Children : reg'[d] = IF d \in todo' THEN b[d] ELSE plan'[d]
      BY <2>3, <3>2
    <3> QED
      BY <1>1, <3>1, <3>2, <3>3 DEF BlindInv
  <2>6. RegInv'
    <3> SUFFICES ASSUME ~Blind PROVE RegInv'
      BY <2>2 DEF RegInv
    <3>1. \A d \in Children : reg'[d] = IF d \in todo' THEN last[d] ELSE plan'[d]
      BY <1>1, <2>1, <2>3 DEF Sound, RegInv
    <3>2. ASSUME NEW d \in batch' \ todo', NEW e \in batch' \cap todo'
          PROVE  Abs(plan'[d]) - Previous(d)' <= Abs(plan'[e]) - Previous(e)'
      <4>1. Previous(d)' = Previous(d) /\ Previous(e)' = Previous(e)
        BY <1>1 DEF Previous
      <4>2. CASE d # c
        BY <1>1, <2>1, <4>1, <4>2 DEF Sound, RegInv
      <4>3. CASE d = c
        <5>1. ~(Abs(plan[e]) - Previous(e) < Abs(plan[c]) - Previous(c))
          BY <1>1, <4>3 DEF Write, IsNext, Before
        <5>2. e \in Children /\ plan[e] \in Shares
          BY <1>1, <1>2, <1>3 DEF PlanInv
        <5>3. \A x \in {c, e} : plan[x] \in Int /\ last[x] \in Int /\ Previous(x) = Abs(last[x])
          BY <1>2, <1>3, <5>2, Remembers
        <5>4. \A x \in {c, e} : Abs(plan[x]) \in Int /\ Previous(x) \in Int
          BY <5>3 DEF Abs
        <5> QED
          BY <1>1, <4>1, <4>3, <5>1, <5>4
      <4> QED
        BY <4>2, <4>3
    <3> QED
      BY <1>1, <3>1, <3>2 DEF RegInv
  <2>7. FitInv'
    BY <1>1, <2>1, <2>2 DEF Sound, FitInv
  <2>8. LagInv'
    BY <1>1, <2>1, <2>2 DEF Sound, LagInv
  <2> QED
    BY <1>1, <2>1, <2>4, <2>6, <2>7, <2>8 DEF Sound
<1> QED
  BY <1>1, <1>4, <1>5, <1>6 DEF IInv

\* A plan that landed is what the children hold, and remembered.
LEMMA LandedStep == ASSUME IInv, Landed PROVE IInv'
<1> USE HandoffAssumptions
<1>1. /\ tick = "write" /\ tick' = "idle" /\ todo = {} /\ shares' = shares
      /\ last' = [c \in Children |-> IF c \in DOMAIN plan THEN plan[c] ELSE last[c]]
      /\ reg' = reg /\ out' = out /\ health' = health /\ loose' = loose /\ faults' = faults
  BY DEF Landed, EndTick, deviceVars, boundVars
<1>2. Types /\ PlanInv
  BY DEF IInv
<1>3. plan \in [Children -> Shares] /\ last' = plan
  <2>1. plan \in [Children -> Shares]
    BY <1>1, <1>2 DEF PlanInv
  <2> QED
    BY <1>1, <2>1
<1>4. Types'
  BY <1>1, <1>2, <1>3 DEF Types
<1>5. PlanInv'
  BY <1>1 DEF PlanInv
<1>6. ~Blind'
  BY <1>3 DEF Blind
<1>7. ASSUME faults = 0 PROVE Sound'
  <2>1. Sound
    BY <1>7 DEF IInv
  <2>2. reg = plan
    <3>1. \A c \in Children : reg[c] = plan[c]
      BY <1>1, <2>1 DEF Sound, RegInv, BlindInv
    <3> QED
      BY <1>2, <1>3, <3>1 DEF Types
  <2>3. OnBus(plan) <= Limit
    BY <1>1, <2>1 DEF Sound, FitInv, BlindInv
  <2>4. RegInv' /\ FitInv' /\ BlindInv'
    BY <1>1, <1>3, <1>6, <2>2, <2>3 DEF RegInv, FitInv, BlindInv
  <2>6. ASSUME ~loose PROVE 100 * OnBus(Larger(out, reg)) <= 101 * Limit
    <3> DEFINE a == Larger(out, reg)
               b == Larger(last, plan)
    <3>1. ~Blind /\ 100 * OnBus(b) <= 101 * Limit
      BY <1>1, <2>1, <2>6 DEF Sound, LagInv
    <3>2. \A c \in Children : a[c] \in Int /\ b[c] \in Int /\ Abs(a[c]) <= Abs(b[c])
      <4> TAKE c \in Children
      <4>1. last[c] \in Int /\ plan[c] \in Int
        BY <1>2, <1>3, <3>1, Remembers
      <4>2. out[c] \in {last[c], plan[c]} /\ reg[c] = plan[c]
        BY <1>1, <2>1, <2>2, <2>6 DEF Sound, LagInv
      <4> QED
        BY <4>1, <4>2 DEF Larger, Abs
    <3> HIDE DEF a, b
    <3>3. OnBus(a) \in Nat /\ OnBus(b) \in Nat /\ OnBus(a) <= OnBus(b)
      BY <3>2, OnBusMonotone
    <3>4. 100 * OnBus(a) <= 101 * Limit
      BY <3>1, <3>3
    <3> QED
      BY <3>4 DEF a
  <2>7. LagInv'
    <3>1. Larger(out, reg)' = Larger(out, reg)
      BY <1>1 DEF Larger
    <3> QED
      BY <1>1, <2>6, <3>1 DEF LagInv
  <2> QED
    BY <1>1, <2>1, <2>4, <2>7 DEF Sound
<1> QED
  BY <1>1, <1>4, <1>5, <1>7 DEF IInv

\* A new task remembers nothing; its children keep what fits.
LEMMA RespawnStep == ASSUME IInv, Respawn PROVE IInv'
<1> USE HandoffAssumptions
<1>1. /\ tick = "idle" /\ last' = [c \in Children |-> Never]
      /\ UNCHANGED <<shares, tick, plan, batch, todo, loose, reg, out, health, faults>>
  BY DEF Respawn, planVars, deviceVars
<1>2. Types' /\ PlanInv'
  BY <1>1 DEF IInv, Types, PlanInv
<1>3. ASSUME faults = 0 PROVE Sound'
  <2>1. Sound
    BY <1>3 DEF IInv
  <2>2. OnBus(reg) <= Limit
    BY <1>1, <2>1 DEF Sound, BlindInv, RegInv, FitInv
  <2>3. CASE Children # {}
    <3>1. Blind'
      BY <1>1, <2>3 DEF Blind
    <3>2. Larger(out, reg)' = Larger(out, reg)
      BY <1>1 DEF Larger
    <3>3. LagInv'
      BY <1>1, <2>1, <3>2 DEF Sound, LagInv
    <3> QED
      BY <1>1, <2>1, <2>2, <3>1, <3>3 DEF Sound, BlindInv, RegInv, FitInv
  <2>4. CASE Children = {}
    <3>1. last' = last
      BY <1>1, <2>4 DEF IInv, Types
    <3> QED
      BY <1>1, <2>1, <3>1, SoundKept DEF IInv
  <2> QED
    BY <2>3, <2>4
<1> QED
  BY <1>1, <1>2, <1>3 DEF IInv

\* An output follows its setpoint.
LEMMA RespondStep == ASSUME IInv, NEW c \in Children, Respond(c) PROVE IInv'
<1> USE HandoffAssumptions
<1>1. /\ out' = [out EXCEPT ![c] = reg[c]]
      /\ UNCHANGED <<shares, last, tick, plan, batch, todo, loose, reg, health, faults>>
  BY DEF Respond, planVars, boundVars
<1>2. Types /\ PlanInv
  BY DEF IInv
<1>3. Types' /\ PlanInv'
  BY <1>1, <1>2 DEF Types, PlanInv
<1>4. \A d \in Children : out'[d] = IF d = c THEN reg[c] ELSE out[d]
  BY <1>1, <1>2 DEF Types
<1>5. ASSUME faults = 0 PROVE Sound'
  <2>1. Sound
    BY <1>5 DEF IInv
  <2>2. Blind' = Blind /\ Larger(last, plan)' = Larger(last, plan)
    BY <1>1 DEF Blind, Larger
  <2>3. \A d \in Children : Previous(d)' = Previous(d)
    BY <1>1 DEF Previous
  <2>4. RegInv'
    <3>1. tick' = "write" => batch \subseteq Children
      BY <1>1, <1>2 DEF PlanInv
    <3> QED
      BY <1>1, <2>1, <2>2, <2>3, <3>1 DEF Sound, RegInv
  <2>5. FitInv' /\ BlindInv'
    BY <1>1, <2>1, <2>2 DEF Sound, FitInv, BlindInv
  <2>6. ASSUME tick = "idle", ~loose PROVE 100 * OnBus(Larger(out', reg)) <= 101 * Limit
    <3> DEFINE a == Larger(out', reg)
               b == Larger(out, reg)
    <3>1. 100 * OnBus(b) <= 101 * Limit
      BY <2>1, <2>6 DEF Sound, LagInv
    <3>2. \A d \in Children : a[d] \in Int /\ b[d] \in Int /\ Abs(a[d]) <= Abs(b[d])
      <4> TAKE d \in Children
      <4>1. out[d] \in Int /\ reg[d] \in Int
        BY <1>2 DEF Types
      <4> QED
        BY <1>4, <4>1 DEF Larger, Abs
    <3> HIDE DEF a, b
    <3>3. OnBus(a) \in Nat /\ OnBus(b) \in Nat /\ OnBus(a) <= OnBus(b)
      BY <3>2, OnBusMonotone
    <3>4. 100 * OnBus(a) <= 101 * Limit
      BY <3>1, <3>3
    <3> QED
      BY <3>4 DEF a
  <2>7. ASSUME tick = "write", ~loose
        PROVE  /\ ~Blind
               /\ \A d \in Children : out'[d] \in {last[d], plan[d]}
               /\ 100 * OnBus(Larger(last, plan)) <= 101 * Limit
    <3>1. /\ ~Blind /\ 100 * OnBus(Larger(last, plan)) <= 101 * Limit
          /\ \A d \in Children : out[d] \in {last[d], plan[d]}
      BY <2>1, <2>7 DEF Sound, LagInv
    <3>2. \A d \in Children : reg[d] \in {last[d], plan[d]}
      BY <2>1, <2>7, <3>1 DEF Sound, RegInv
    <3> QED
      BY <1>4, <3>1, <3>2
  <2>8. LagInv'
    <3>1. Larger(out, reg)' = Larger(out', reg)
      BY <1>1 DEF Larger
    <3> QED
      BY <1>1, <2>2, <2>6, <2>7, <3>1 DEF LagInv
  <2> QED
    BY <1>1, <2>1, <2>4, <2>5, <2>8 DEF Sound
<1> QED
  BY <1>1, <1>3, <1>5 DEF IInv

\* Steps that leave setpoints, outputs and plan alone, the split perhaps not.
LEMMA CalmStep ==
  ASSUME IInv, UNCHANGED <<last, reg, out, health, tick, plan, batch, todo, loose, faults>>,
         shares' = shares \/ shares' \in Splits
  PROVE  IInv'
<1>1. Types'
  BY DEF IInv, Types, Splits
<1> QED
  BY <1>1, SoundKept DEF IInv

\* Steps that are, or follow, a fault.
LEMMA FaultStep ==
  ASSUME IInv, Types', PlanInv', faults' # 0
  PROVE  IInv'
BY DEF IInv

\* Every step of the task, the devices and the site keeps the invariant.
LEMMA StepIInv == IInv /\ [Next]_vars => IInv'
<1> SUFFICES ASSUME IInv, [Next]_vars PROVE IInv'
  OBVIOUS
<1> USE HandoffAssumptions
<1>0. Types /\ PlanInv /\ faults \in Nat /\ (faults = 0 => \A c \in Children : health[c] = "up")
  BY DEF IInv, Types, Sound
<1>1. CASE Tick
  BY <1>1, TickStep
<1>2. CASE TickHolds
  BY <1>2, CalmStep DEF TickHolds, planVars, deviceVars, boundVars
<1>3. ASSUME NEW c \in Children, Write(c) PROVE IInv'
  BY <1>3, WriteStep
<1>4. ASSUME NEW c \in Children, WriteFails(c) PROVE IInv'
  <2>1. faults' # 0 /\ faults' \in Nat
    BY <1>0, <1>4 DEF WriteFails
  <2>2. Types' /\ PlanInv'
    BY <1>0, <1>4, <2>1 DEF WriteFails, EndTick, deviceVars, Types, PlanInv
  <2> QED
    BY <2>1, <2>2, FaultStep
<1>5. CASE Landed
  BY <1>5, LandedStep
<1>6. CASE Reading
  BY <1>6, CalmStep DEF Reading, planVars, deviceVars, boundVars
<1>7. ASSUME NEW s \in Splits, Move(s) PROVE IInv'
  BY <1>7, CalmStep DEF Move, planVars, deviceVars
<1>8. ASSUME NEW c \in Children, Respond(c) PROVE IInv'
  BY <1>8, RespondStep
<1>9. ASSUME NEW c \in Children, Die(c) PROVE IInv'
  <2>1. faults' # 0 /\ faults' \in Nat
    BY <1>0, <1>9 DEF Die
  <2>2. Types' /\ PlanInv'
    BY <1>0, <1>9, <2>1 DEF Die, planVars, Types, PlanInv
  <2> QED
    BY <2>1, <2>2, FaultStep
<1>10. ASSUME NEW c \in Children, GoQuiet(c) PROVE IInv'
  <2>1. faults' # 0 /\ faults' = faults
    BY <1>0, <1>10 DEF GoQuiet, boundVars
  <2>2. Types' /\ PlanInv'
    BY <1>0, <1>10, <2>1 DEF GoQuiet, planVars, Types, PlanInv, Splits
  <2> QED
    BY <2>1, <2>2, FaultStep
<1>11. ASSUME NEW c \in Children, NEW s \in Shares, Reboot(c, s) PROVE IInv'
  <2>1. faults' # 0 /\ faults' \in Nat
    BY <1>0, <1>11 DEF Reboot
  <2>2. Types' /\ PlanInv'
    BY <1>0, <1>11, <2>1 DEF Reboot, planVars, Types, PlanInv
  <2> QED
    BY <2>1, <2>2, FaultStep
<1>12. CASE UNCHANGED vars
  BY <1>12, CalmStep DEF vars, planVars, deviceVars, boundVars
<1>13. CASE Respawn
  BY <1>13, RespawnStep
<1> QED
  BY <1>1, <1>2, <1>3, <1>4, <1>5, <1>6, <1>7, <1>8, <1>9, <1>10, <1>11, <1>12, <1>13
     DEF Next, TaskStep

-----------------------------------------------------------------------------

\* While a plan is written, either nothing that grew has landed, or nothing
\* that shrinks is left.
LEMMA NoOverlap == IInv => WritesNeverOverlap
<1> SUFFICES ASSUME IInv, faults = 0
             PROVE  OnBus(reg) <= IF Blind THEN 2 * Limit ELSE Limit
  BY DEF WritesNeverOverlap
<1> USE HandoffAssumptions
<1>1. Types /\ PlanInv /\ BlindInv /\ RegInv /\ FitInv
  BY DEF IInv, Sound
<1>2. CASE tick = "idle" /\ ~Blind
  BY <1>1, <1>2 DEF RegInv, FitInv
<1>3. CASE tick = "write" /\ ~Blind
  <2> SUFFICES OnBus(reg) <= Limit
    BY <1>3
  <2>0. plan \in [Children -> Shares]
    BY <1>1, <1>3 DEF PlanInv
  <2>1. \A c \in Children : /\ last[c] \in Int /\ plan[c] \in Int /\ reg[c] \in Int
                            /\ Abs(last[c]) \in Nat /\ Abs(plan[c]) \in Nat
                            /\ Previous(c) = Abs(last[c])
    <3>1. \A c \in Children : last[c] \in Int /\ plan[c] \in Int /\ reg[c] \in Int
                              /\ Previous(c) = Abs(last[c])
      BY <1>1, <1>3, <2>0, Remembers DEF Types
    <3> QED
      BY <3>1 DEF Abs
  <2>2. ASSUME NEW a, OnBus(a) <= Limit,
               \A c \in Children : a[c] \in Int /\ Abs(reg[c]) <= Abs(a[c])
        PROVE  OnBus(reg) <= Limit
    <3>1. OnBus(reg) \in Nat /\ OnBus(a) \in Nat /\ OnBus(reg) <= OnBus(a)
      BY <2>1, <2>2, OnBusMonotone
    <3> QED
      BY <2>2, <3>1
  <2>3. \A c \in Children : c \notin batch => plan[c] = last[c]
    BY <1>1, <1>3 DEF PlanInv
  <2>4. \A c \in Children : reg[c] = IF c \in todo THEN last[c] ELSE plan[c]
    BY <1>1, <1>3 DEF RegInv
  <2>5. \A c \in batch : c \in Children
    BY <1>1, <1>3 DEF PlanInv
  <2>6. CASE \A c \in batch \ todo : Abs(plan[c]) <= Abs(last[c])
    <3>1. \A c \in Children : Abs(reg[c]) <= Abs(last[c])
      BY <2>1, <2>3, <2>4, <2>6
    <3> QED
      BY <1>1, <1>3, <2>1, <2>2, <3>1 DEF FitInv
  <2>7. CASE \E w \in batch \ todo : Abs(plan[w]) > Abs(last[w])
    <3>1. PICK w \in batch \ todo : Abs(plan[w]) > Abs(last[w])
      BY <2>7
    <3>2. \A e \in batch \cap todo : Abs(last[e]) <= Abs(plan[e])
      <4> TAKE e \in batch \cap todo
      <4>1. Abs(plan[w]) - Previous(w) <= Abs(plan[e]) - Previous(e)
        BY <1>1, <1>3 DEF RegInv
      <4> QED
        BY <2>1, <2>5, <3>1, <4>1
    <3>3. \A c \in Children : Abs(reg[c]) <= Abs(plan[c])
      BY <2>1, <2>3, <2>4, <2>5, <3>2
    <3> QED
      BY <1>1, <1>3, <2>1, <2>2, <3>3 DEF FitInv
  <2> QED
    BY <2>1, <2>5, <2>6, <2>7
<1>4. CASE Blind
  <2>1. PICK a \in [Children -> Shares], b \in [Children -> Shares] :
           /\ OnBus(a) <= Limit /\ OnBus(b) <= Limit
           /\ \A c \in Children : reg[c] \in {a[c], b[c]}
    <3>1. CASE tick = "idle"
      BY <1>1, <1>4, <3>1 DEF BlindInv, Types
    <3>2. CASE tick = "write"
      <4>1. plan \in [Children -> Shares] /\ OnBus(plan) <= Limit
        BY <1>1, <1>4, <3>2 DEF BlindInv, PlanInv
      <4>2. PICK b \in [Children -> Shares] :
               /\ OnBus(b) <= Limit
               /\ \A c \in Children : reg[c] = IF c \in todo THEN b[c] ELSE plan[c]
        BY <1>1, <1>4, <3>2 DEF BlindInv
      <4> QED
        BY <4>1, <4>2
    <3> QED
      BY <1>1, <3>1, <3>2 DEF Types
  <2>2. \A c \in Children : reg[c] \in Int /\ a[c] \in Int /\ b[c] \in Int
    BY <1>1, <2>1 DEF Types
  <2>3. \A c \in Children : 1 * Abs(reg[c]) <= 1 * Abs(a[c]) + 1 * Abs(b[c])
    BY <2>1, <2>2 DEF Abs
  <2>4. /\ OnBus(reg) \in Nat /\ OnBus(a) \in Nat /\ OnBus(b) \in Nat
        /\ 1 * OnBus(reg) <= 1 * OnBus(a) + 1 * OnBus(b)
    BY <2>2, <2>3, OnBusCompare
  <2> QED
    BY <1>4, <2>1, <2>4
<1> QED
  BY <1>1, <1>2, <1>3, <1>4 DEF Types

\* Each output is what its child held before the plan or holds after it.
LEMMA OnlyDrift == IInv => OutputsOverlapOnlyDrift
<1> SUFFICES ASSUME IInv, faults = 0, ~loose PROVE 100 * OnBus(out) <= 101 * Limit
  BY DEF OutputsOverlapOnlyDrift
<1> USE HandoffAssumptions
<1>1. Types /\ PlanInv /\ LagInv
  BY DEF IInv, Sound
<1>2. ASSUME NEW a, 100 * OnBus(a) <= 101 * Limit,
             \A c \in Children : a[c] \in Int /\ Abs(out[c]) <= Abs(a[c])
      PROVE  100 * OnBus(out) <= 101 * Limit
  <2>1. \A c \in Children : out[c] \in Int
    BY <1>1 DEF Types
  <2>2. OnBus(out) \in Nat /\ OnBus(a) \in Nat /\ OnBus(out) <= OnBus(a)
    BY <1>2, <2>1, OnBusMonotone
  <2> QED
    BY <1>2, <2>2
<1>3. CASE tick = "idle"
  <2>1. \A c \in Children : Larger(out, reg)[c] \in Int /\ Abs(out[c]) <= Abs(Larger(out, reg)[c])
    <3> TAKE c \in Children
    <3>1. out[c] \in Int /\ reg[c] \in Int
      BY <1>1 DEF Types
    <3> QED
      BY <3>1 DEF Larger, Abs
  <2> QED
    BY <1>1, <1>2, <1>3, <2>1 DEF LagInv
<1>4. CASE tick = "write"
  <2>0. plan \in [Children -> Shares] /\ ~Blind
    BY <1>1, <1>4 DEF PlanInv, LagInv
  <2>1. \A c \in Children : /\ Larger(last, plan)[c] \in Int
                            /\ Abs(out[c]) <= Abs(Larger(last, plan)[c])
    <3> TAKE c \in Children
    <3>1. last[c] \in Int /\ plan[c] \in Int
      BY <1>1, <2>0, Remembers
    <3>2. out[c] \in {last[c], plan[c]}
      BY <1>1, <1>4 DEF LagInv
    <3> QED
      BY <3>1, <3>2 DEF Larger, Abs
  <2> QED
    BY <1>1, <1>2, <1>4, <2>1 DEF LagInv
<1> QED
  BY <1>1, <1>3, <1>4 DEF Types

\* Only a plan that no longer holds growth back lets the approach go.
LEMMA StepGate == GateInv /\ [Next]_vars => GateInv'
<1> SUFFICES ASSUME GateInv, [Next]_vars PROVE GateInv'
  OBVIOUS
<1> USE DEF GateInv, HoldCoversHandoff
<1>1. deferred => Taken = "deferred"
  BY DEF Taken, Counts
<1>2. CASE Tick
  BY <1>1, <1>2 DEF Tick, HoldBack
<1>3. CASE TickHolds
  BY <1>1, <1>3 DEF TickHolds, planVars
<1>4. ASSUME NEW c \in Children, Write(c) \/ WriteFails(c) PROVE GateInv'
  BY <1>4 DEF Write, WriteFails, EndTick, gateVars
<1>5. CASE Landed
  BY <1>5 DEF Landed, EndTick, gateVars
<1>6. CASE Reading
  BY <1>6 DEF Reading, planVars
<1>7. ASSUME NEW s \in Splits, Move(s) PROVE GateInv'
  BY <1>7 DEF Move, planVars, gateVars
<1>8. ASSUME NEW c \in Children, Respond(c) \/ Die(c) \/ GoQuiet(c) PROVE GateInv'
  BY <1>8 DEF Respond, Die, GoQuiet, planVars, gateVars
<1>9. ASSUME NEW c \in Children, NEW s \in Shares, Reboot(c, s) PROVE GateInv'
  BY <1>9 DEF Reboot, planVars, gateVars
<1>10. CASE UNCHANGED vars
  BY <1>10 DEF vars, planVars, gateVars
<1>11. CASE Respawn
  BY <1>11 DEF Respawn, planVars
<1> QED
  BY <1>2, <1>3, <1>4, <1>5, <1>6, <1>7, <1>8, <1>9, <1>10, <1>11 DEF Next, TaskStep

\* write_order.rs: ordering the writes by growth keeps the children from holding
\* more between them than one split allows, at every moment of a plan of a task
\* that has landed one; of a task just started, from holding more than two.
THEOREM HandoffsNeverOverlap == Spec => []WritesNeverOverlap
<1>1. Init => IInv
  BY InitIInv
<1>2. IInv /\ [Next]_vars => IInv'
  BY StepIInv
<1>3. IInv => WritesNeverOverlap
  BY NoOverlap
<1> QED
  BY <1>1, <1>2, <1>3, PTL DEF Spec

\* writes.rs handoff_batch: holding growth back for a tick keeps outputs that
\* follow their setpoints late from adding up to more than 1 % over it, under
\* every plan made with a memory, on children that had responded, and not right
\* after a held-back one.
THEOREM OutputsOverlapByDriftOnly == Spec => []OutputsOverlapOnlyDrift
<1>1. Init => IInv
  BY InitIInv
<1>2. IInv /\ [Next]_vars => IInv'
  BY StepIInv
<1>3. IInv => OutputsOverlapOnlyDrift
  BY OnlyDrift
<1> QED
  BY <1>1, <1>2, <1>3, PTL DEF Spec

\* poi_gate.rs: the servo's approach is held as long as growth is held back,
\* whatever fails, moves or dies meanwhile.
THEOREM HandoffsAreHeld == Spec => []HoldCoversHandoff
<1>1. Init => GateInv
  BY InitIInv
<1>2. GateInv /\ [Next]_vars => GateInv'
  BY StepGate
<1>3. GateInv => HoldCoversHandoff
  BY DEF GateInv
<1> QED
  BY <1>1, <1>2, <1>3, PTL DEF Spec
=============================================================================
