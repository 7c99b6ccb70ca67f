---- MODULE Arithmetic ----
(***************************************************************************)
(* Lemmas about the numbers contracts compute with: what Min, a product    *)
(* and a quotient rounded down are, what a loop adds up, and how a sum     *)
(* over a finite set changes with its summands.                            *)
(*                                                                         *)
(* Nothing here is proved by induction over an operator: where one would   *)
(* be needed, a counterexample that is least, or a set of them that has no *)
(* smaller one, is refuted instead.                                        *)
(***************************************************************************)
EXTENDS Integers, FiniteSetsExt, FiniteSetTheorems, WellFoundedInduction, TLAPS

\* The smallest of two numbers.
LEMMA MinOfTwo ==
  ASSUME NEW x \in Int, NEW y \in Int
  PROVE  /\ Min({x, y}) \in {x, y}
         /\ Min({x, y}) <= x /\ Min({x, y}) <= y
<1>1. \E m \in {x, y} : \A n \in {x, y} : m <= n
  <2>1. CASE x <= y
    BY <2>1
  <2>2. CASE ~(x <= y)
    BY <2>2
  <2>3. QED
    BY <2>1, <2>2
<1>2. QED
  BY <1>1 DEF Min

\* The same for three numbers.
LEMMA MinOfThree ==
  ASSUME NEW x \in Int, NEW y \in Int, NEW z \in Int
  PROVE  /\ Min({x, y, z}) \in {x, y, z}
         /\ Min({x, y, z}) <= x /\ Min({x, y, z}) <= y /\ Min({x, y, z}) <= z
<1>1. \E m \in {x, y, z} : \A n \in {x, y, z} : m <= n
  <2>1. CASE x <= y /\ x <= z
    BY <2>1
  <2>2. CASE y <= x /\ y <= z
    BY <2>2
  <2>3. CASE z <= x /\ z <= y
    BY <2>3
  <2>4. QED
    BY <2>1, <2>2, <2>3
<1>2. QED
  BY <1>1 DEF Min

\* The quotient of two natural numbers is one, however it is rounded down.
LEMMA QuotientIsNat ==
  ASSUME NEW x \in Nat, NEW y \in Nat \ {0}
  PROVE  x \div y \in Nat
OBVIOUS

\* The product of two natural numbers is one.
LEMMA ProductIsNat ==
  ASSUME NEW x \in Nat, NEW y \in Nat
  PROVE  x * y \in Nat
OBVIOUS

\* Rounding a quotient down leaves at most the dividend.
LEMMA RoundedDown ==
  ASSUME NEW x \in Nat, NEW y \in Nat \ {0}
  PROVE  (x \div y) * y <= x
OBVIOUS

\* Who has all the votes has all that is shared by votes.
LEMMA WholeShare ==
  ASSUME NEW a \in Nat, NEW v \in Nat \ {0}
  PROVE  (v * a) \div v = a
OBVIOUS

\* Whoever takes at most a share in proportion to b of v votes leaves the
\* others what they had per vote.
LEMMA FairShare ==
  ASSUME NEW a \in Nat, NEW v \in Nat, NEW b \in Nat, NEW share \in Nat,
         share * v <= b * a
  PROVE  (a - share) * v >= a * (v - b)
<1>1. (a - share) * v = a * v - share * v
  OBVIOUS
<1>2. a * (v - b) = a * v - b * a
  OBVIOUS
<1>3. a * v \in Int /\ share * v \in Int /\ b * a \in Int
  OBVIOUS
<1>4. QED
  BY <1>1, <1>2, <1>3
-----------------------------------------------------------------------------
(***************************************************************************)
(* Loops.  A function gives the total after each pass.                     *)
(***************************************************************************)
\* A non-empty set of natural numbers has a least element.
LEMMA LeastElement ==
  ASSUME NEW T, T \subseteq Nat, T # {}
  PROVE  \E m \in T : \A k \in T : m <= k
<1>1. PICK m \in T : \A k \in T : ~(<<k, m>> \in OpToRel(<, Nat))
  BY WFMin, NatLessThanWellFounded
<1>2. ASSUME NEW k \in T PROVE m <= k
  <2>1. k \in Nat /\ m \in Nat
    OBVIOUS
  <2>2. <<k, m>> \notin OpToRel(<, Nat)
    BY <1>1
  <2>3. ~(k < m)
    BY <2>1, <2>2 DEF OpToRel
  <2>4. QED
    BY <2>1, <2>3
<1>3. QED
  BY <1>2

\* There is a function that gives the total after each pass.
LEMMA LoopExists ==
  ASSUME NEW n \in Nat, NEW share \in [1..n -> Nat]
  PROVE  \E f \in [0..n -> Nat] :
           f[0] = 0 /\ \A i \in 1..n : f[i] = f[i-1] + share[i]
<1> DEFINE Runs(f, m) == f[0] = 0 /\ \A i \in 1..m : f[i] = f[i-1] + share[i]
           Bad == {m \in 0..n : ~ \E f \in [0..m -> Nat] : Runs(f, m)}
<1>1. ASSUME Bad # {} PROVE FALSE
  <2>1. PICK m \in Bad : \A k \in Bad : m <= k
    <3>1. Bad \subseteq Nat
      OBVIOUS
    <3>2. QED
      BY <1>1, <3>1, LeastElement
  <2>2. m \in 0..n /\ ~ \E f \in [0..m -> Nat] : Runs(f, m)
    OBVIOUS
  <2>3. m # 0
    <3>1. [i \in 0..0 |-> 0] \in [0..0 -> Nat] /\ Runs([i \in 0..0 |-> 0], 0)
      OBVIOUS
    <3>2. QED
      BY <2>2, <3>1
  <2>4. m - 1 \in 0..n /\ m - 1 \notin Bad
    <3>1. m - 1 \in 0..n /\ ~(m <= m - 1)
      BY <2>2, <2>3
    <3>2. QED
      BY <2>1, <3>1
  <2>5. PICK f \in [0..(m-1) -> Nat] : Runs(f, m - 1)
    BY <2>4
  <2> DEFINE g == [i \in 0..m |-> IF i = m THEN f[m-1] + share[m] ELSE f[i]]
  <2>6. m - 1 \in 0..(m-1) /\ f[m-1] \in Nat /\ share[m] \in Nat
    BY <2>2, <2>3
  <2>7. g \in [0..m -> Nat]
    BY <2>2, <2>6
  <2>8. g[0] = 0
    BY <2>2, <2>3, <2>5
  <2>9. ASSUME NEW i \in 1..m PROVE g[i] = g[i-1] + share[i]
    <3>1. CASE i = m
      BY <2>2, <2>3, <3>1
    <3>2. CASE i # m
      <4>1. i \in 1..(m-1) /\ i \in 0..m /\ i - 1 \in 0..m /\ i - 1 # m
        BY <2>2, <3>2
      <4>2. QED
        BY <2>5, <3>2, <4>1
    <3>3. QED
      BY <3>1, <3>2
  <2>10. QED
    BY <2>2, <2>7, <2>8, <2>9
<1>2. n \in 0..n /\ Bad = {}
  BY <1>1
<1>3. QED
  BY <1>2

\* Such a function is the one a recursive definition of the totals denotes.
LEMMA LoopDefined ==
  ASSUME NEW n \in Nat, NEW share \in [1..n -> Nat]
  PROVE  \E f : f = [i \in 0..n |-> IF i = 0 THEN 0 ELSE f[i-1] + share[i]]
<1>1. PICK f \in [0..n -> Nat] :
           f[0] = 0 /\ \A i \in 1..n : f[i] = f[i-1] + share[i]
  BY LoopExists
<1>2. ASSUME NEW i \in 0..n
      PROVE  f[i] = IF i = 0 THEN 0 ELSE f[i-1] + share[i]
  BY <1>1
<1>3. f = [i \in 0..n |-> f[i]]
  OBVIOUS
<1>4. f = [i \in 0..n |-> IF i = 0 THEN 0 ELSE f[i-1] + share[i]]
  BY <1>2, <1>3
<1>5. QED
  BY <1>4

\* The totals are natural numbers: this is what the loop of NounsPool.withdraw
\* (Nouns.sol:337-409) accumulates.
LEMMA TotalsOfLoop ==
  ASSUME NEW n \in Nat, NEW share \in [1..n -> Nat], NEW total,
         total = [i \in 0..n |-> total[i]],
         \A i \in 0..n : total[i] = IF i = 0 THEN 0 ELSE total[i-1] + share[i]
  PROVE  /\ total \in [0..n -> Nat]
         /\ total[0] = 0
         /\ \A i \in 1..n : total[i] = total[i-1] + share[i]
<1>1. DOMAIN total = 0..n /\ total = [i \in 0..n |-> total[i]]
  OBVIOUS
<1>2. ASSUME NEW i \in 0..n
      PROVE  total[i] = IF i = 0 THEN 0 ELSE total[i-1] + share[i]
  OBVIOUS
<1>3. total[0] = 0 /\ \A i \in 1..n : total[i] = total[i-1] + share[i]
  <2>1. 0 \in 0..n /\ \A i \in 1..n : i \in 0..n /\ i # 0
    OBVIOUS
  <2>2. total[0] = 0
    BY <1>2, <2>1
  <2>3. QED
    BY <1>2, <2>1, <2>2
<1> DEFINE Odd == {m \in 0..n : total[m] \notin Nat}
<1>4. ASSUME Odd # {} PROVE FALSE
  <2>1. PICK m \in Odd : \A k \in Odd : m <= k
    <3>1. Odd \subseteq Nat
      OBVIOUS
    <3>2. QED
      BY <1>4, <3>1, LeastElement
  <2>2. m \in 1..n
    BY <1>3
  <2>3. m - 1 \in 0..n /\ ~(m <= m - 1)
    BY <2>2
  <2>4. total[m-1] \in Nat
    BY <2>1, <2>3
  <2>5. share[m] \in Nat
    BY <2>2
  <2>6. total[m] = total[m-1] + share[m]
    BY <1>3, <2>2
  <2>7. total[m] \in Nat
    BY <2>4, <2>5, <2>6
  <2>8. QED
    BY <2>7
<1>5. \A m \in 0..n : total[m] \in Nat
  BY <1>4
<1>6. QED
  BY <1>1, <1>3, <1>5
-----------------------------------------------------------------------------
(***************************************************************************)
(* Sums over finite sets.                                                  *)
(***************************************************************************)
\* Among finite sets there is one that has no other of them as a subset.
LEMMA SmallestSet ==
  ASSUME NEW S, IsFiniteSet(S), NEW Sets \in SUBSET SUBSET S, Sets # {}
  PROVE  \E T \in Sets : \A U \in SUBSET T : U # T => U \notin Sets
<1>1. \A T \in Sets : IsFiniteSet(T) /\ Cardinality(T) \in Nat
  BY FS_Subset, FS_CardinalityType
<1> DEFINE Sizes == {Cardinality(T) : T \in Sets}
<1>2. Sizes \subseteq Nat /\ Sizes # {}
  BY <1>1
<1>3. PICK m \in Sizes : \A k \in Sizes : m <= k
  BY <1>2, LeastElement
<1>4. PICK T \in Sets : Cardinality(T) = m
  OBVIOUS
<1>5. ASSUME NEW U \in SUBSET T, U # T, U \in Sets
      PROVE  FALSE
  <2>1. Cardinality(U) <= m /\ Cardinality(U) # m
    BY <1>1, <1>4, <1>5, FS_Subset
  <2>2. Cardinality(U) \in Nat /\ m \in Nat /\ m <= Cardinality(U)
    BY <1>1, <1>3, <1>4, <1>5
  <2>3. QED
    BY <2>1, <2>2
<1>6. QED
  BY <1>5

\* The element by which a sum over T starts.
First(T) == CHOOSE x \in T : TRUE

\* sum[T] is the sum of f over each T of a collection of sets.
SumsUp(f, sum, Sets) ==
  \A T \in Sets :
    sum[T] = IF T = {} THEN 0 ELSE f[First(T)] + sum[T \ {First(T)}]

\* Such a function gives the sums of f over the subsets of S.
Totals(f, sum, S) ==
  /\ sum \in [SUBSET S -> Int]
  /\ SumsUp(f, sum, SUBSET S)
  /\ \A T \in SUBSET S : SumFunctionOnSet(f, T) = sum[T]

\* It is one of its elements.
LEMMA FirstIsElement ==
  ASSUME NEW T, T # {}
  PROVE  First(T) \in T
BY DEF First

\* A function that sums up exists.
LEMMA SumExists ==
  ASSUME NEW S, IsFiniteSet(S), NEW f, \A x \in S : f[x] \in Int
  PROVE  \E sum \in [SUBSET S -> Int] : SumsUp(f, sum, SUBSET S)
<1> DEFINE Small(m) == {T \in SUBSET S : Cardinality(T) <= m}
           n == Cardinality(S)
           Bad == {m \in 0..n : ~ \E sum \in [Small(m) -> Int] : SumsUp(f, sum, Small(m))}
<1>1. n \in Nat /\ \A T \in SUBSET S : IsFiniteSet(T) /\ Cardinality(T) \in 0..n
  BY FS_Subset, FS_CardinalityType
<1>2. \A T \in SUBSET S : Cardinality(T) = 0 <=> T = {}
  BY <1>1, FS_EmptySet
<1>3. \A T \in SUBSET S : T # {} =>
        /\ First(T) \in S /\ T \ {First(T)} \in SUBSET S
        /\ Cardinality(T \ {First(T)}) = Cardinality(T) - 1
  BY <1>1, FirstIsElement, FS_RemoveElement
<1> HIDE DEF n
<1>4. ASSUME Bad # {} PROVE FALSE
  <2>1. PICK m \in Bad : \A k \in Bad : m <= k
    <3>1. Bad \subseteq Nat
      BY <1>1
    <3>2. QED
      BY <1>4, <3>1, LeastElement
  <2>2. m \in 0..n /\ ~ \E sum \in [Small(m) -> Int] : SumsUp(f, sum, Small(m))
    OBVIOUS
  <2>3. m # 0
    <3> DEFINE zero == [T \in Small(0) |-> 0]
    <3>1. \A T \in Small(0) : T = {}
      BY <1>1, <1>2
    <3>2. zero \in [Small(0) -> Int] /\ SumsUp(f, zero, Small(0))
      BY <3>1 DEF SumsUp
    <3>3. QED
      BY <2>2, <3>2
  <2>4. m - 1 \in 0..n /\ m - 1 \notin Bad
    <3>1. m - 1 \in 0..n /\ ~(m <= m - 1)
      BY <1>1, <2>2, <2>3
    <3>2. QED
      BY <2>1, <3>1
  <2>5. PICK sum \in [Small(m-1) -> Int] : SumsUp(f, sum, Small(m-1))
    BY <2>4
  <2> DEFINE next == [T \in Small(m) |->
                        IF T = {} THEN 0 ELSE f[First(T)] + sum[T \ {First(T)}]]
  <2>6. ASSUME NEW T \in Small(m), T # {}
        PROVE  /\ First(T) \in S
               /\ T \ {First(T)} \in Small(m-1) /\ T \ {First(T)} \in Small(m)
    BY <1>1, <1>3, <2>2, <2>6
  <2>7. next \in [Small(m) -> Int]
    BY <2>6
  <2>8. ASSUME NEW T \in Small(m-1) PROVE next[T] = sum[T]
    <3>1. T \in Small(m)
      BY <1>1, <2>2
    <3>2. QED
      BY <3>1, <2>5 DEF SumsUp
  <2>9. SumsUp(f, next, Small(m))
    BY <2>6, <2>8 DEF SumsUp
  <2>10. QED
    BY <2>2, <2>7, <2>9
<1>5. n \in 0..n
  BY <1>1
<1>6. \E sum \in [Small(n) -> Int] : SumsUp(f, sum, Small(n))
  BY <1>4, <1>5
<1>7. Small(n) = SUBSET S
  BY <1>1
<1>8. QED
  BY <1>6, <1>7

\* There is only one.
LEMMA SumUnique ==
  ASSUME NEW S, IsFiniteSet(S), NEW f,
         NEW sum, NEW other, NEW R \in SUBSET S,
         SumsUp(f, sum, SUBSET S), SumsUp(f, other, SUBSET R)
  PROVE  other[R] = sum[R]
<1> DEFINE Bad == {T \in SUBSET R : other[T] # sum[T]}
<1>1. ASSUME Bad # {} PROVE FALSE
  <2>1. PICK T \in Bad : \A U \in SUBSET T : U # T => U \notin Bad
    <3>1. Bad \in SUBSET SUBSET S
      OBVIOUS
    <3> HIDE DEF Bad
    <3>2. QED
      BY <1>1, <3>1, SmallestSet
  <2>2. T \in SUBSET R /\ T \in SUBSET S /\ other[T] # sum[T]
    OBVIOUS
  <2>3. T # {}
    BY <2>2 DEF SumsUp
  <2> DEFINE U == T \ {First(T)}
  <2>4. U \in SUBSET T /\ U # T /\ U \in SUBSET R
    BY <2>2, <2>3, FirstIsElement
  <2>5. other[U] = sum[U]
    BY <2>1, <2>4
  <2>6. QED
    BY <2>2, <2>3, <2>5 DEF SumsUp
<1>2. QED
  BY <1>1

\* SumFunctionOnSet is that function.
LEMMA SumIs ==
  ASSUME NEW S, IsFiniteSet(S), NEW f, \A x \in S : f[x] \in Int
  PROVE  \E sum : Totals(f, sum, S)
<1>1. PICK sum \in [SUBSET S -> Int] : SumsUp(f, sum, SUBSET S)
  BY SumExists
<1>2. ASSUME NEW R \in SUBSET S
      PROVE  SumFunctionOnSet(f, R) = sum[R]
  <2> DEFINE Iter(g) == g = [T \in SUBSET R |->
                               IF T = {} THEN 0
                               ELSE f[First(T)] + g[T \ {First(T)}]]
             iter == CHOOSE g : Iter(g)
  <2>1. SumFunctionOnSet(f, R) = iter[R]
    BY DEF SumFunctionOnSet, FoldFunctionOnSet, MapThenFoldSet, First
  <2>2. \E g : Iter(g)
    <3> DEFINE g == [T \in SUBSET R |-> sum[T]]
    <3>1. g = [T \in SUBSET R |->
                 IF T = {} THEN 0 ELSE f[First(T)] + g[T \ {First(T)}]]
      BY <1>1, FirstIsElement DEF SumsUp
    <3>2. QED
      BY <3>1
  <2>3. Iter(iter)
    BY <2>2
  <2>4. SumsUp(f, iter, SUBSET R)
    <3> HIDE DEF iter
    <3>1. QED
      BY <2>3 DEF SumsUp
  <2>5. iter[R] = sum[R]
    BY <1>1, <2>4, SumUnique
  <2>6. QED
    BY <2>1, <2>5
<1>3. QED
  BY <1>1, <1>2 DEF Totals

\* The sum over nothing.
LEMMA SumOfNone == ASSUME NEW f PROVE SumFunctionOnSet(f, {}) = 0
<1>1. IsFiniteSet({}) /\ {} \in SUBSET {} /\ \A x \in {} : f[x] \in Int
  BY FS_EmptySet
<1>2. PICK sum : Totals(f, sum, {})
  BY <1>1, SumIs
<1>3. QED
  BY <1>1, <1>2 DEF Totals, SumsUp

\* A sum of integers is one.
LEMMA SumIsInt ==
  ASSUME NEW S, IsFiniteSet(S), NEW f, \A x \in S : f[x] \in Int
  PROVE  SumFunctionOnSet(f, S) \in Int
<1>1. PICK sum : Totals(f, sum, S)
  BY SumIs
<1>2. S \in SUBSET S
  OBVIOUS
<1>3. QED
  BY <1>1, <1>2 DEF Totals

\* A sum can start with any of its elements.
LEMMA SumTakeOut ==
  ASSUME NEW S, IsFiniteSet(S), NEW f, \A x \in S : f[x] \in Int, NEW y \in S
  PROVE  SumFunctionOnSet(f, S) = f[y] + SumFunctionOnSet(f, S \ {y})
<1>0. PICK sum : Totals(f, sum, S)
  BY SumIs
<1>1. /\ sum \in [SUBSET S -> Int]
      /\ SumsUp(f, sum, SUBSET S)
      /\ \A T \in SUBSET S : SumFunctionOnSet(f, T) = sum[T]
  BY <1>0 DEF Totals
<1> DEFINE Bad == {T \in SUBSET S : \E x \in T : sum[T] # f[x] + sum[T \ {x}]}
<1>2. ASSUME Bad # {} PROVE FALSE
  <2>1. PICK T \in Bad : \A U \in SUBSET T : U # T => U \notin Bad
    <3>1. Bad \in SUBSET SUBSET S
      OBVIOUS
    <3> HIDE DEF Bad
    <3>2. QED
      BY <1>2, <3>1, SmallestSet
  <2>2. T \in SUBSET S
    OBVIOUS
  <2>3. PICK x \in T : sum[T] # f[x] + sum[T \ {x}]
    OBVIOUS
  <2> DEFINE z == First(T)
  <2>4. z \in T
    BY <2>3, FirstIsElement
  <2>5. sum[T] = f[z] + sum[T \ {z}]
    BY <1>1, <2>2, <2>3 DEF SumsUp
  <2> HIDE DEF z
  <2>6. x # z
    BY <2>3, <2>5
  <2>7. sum[T \ {z}] = f[x] + sum[(T \ {z}) \ {x}]
    <3>1. T \ {z} \in SUBSET T /\ T \ {z} # T /\ x \in T \ {z}
      BY <2>4, <2>6
    <3>2. T \ {z} \in SUBSET S
      BY <2>2
    <3>3. QED
      BY <2>1, <3>1, <3>2
  <2>8. sum[T \ {x}] = f[z] + sum[(T \ {x}) \ {z}]
    <3>1. T \ {x} \in SUBSET T /\ T \ {x} # T /\ z \in T \ {x}
      BY <2>3, <2>4, <2>6
    <3>2. T \ {x} \in SUBSET S
      BY <2>2
    <3>3. QED
      BY <2>1, <3>1, <3>2
  <2> DEFINE rest == sum[(T \ {z}) \ {x}]
  <2>9. (T \ {z}) \ {x} = (T \ {x}) \ {z}
    OBVIOUS
  <2>10. rest \in Int /\ f[x] \in Int /\ f[z] \in Int
    <3>1. (T \ {z}) \ {x} \in SUBSET S /\ x \in S /\ z \in S
      BY <2>2, <2>4
    <3>2. QED
      BY <1>1, <3>1
  <2>11. sum[T] = f[z] + (f[x] + rest) /\ sum[T \ {x}] = f[z] + rest
    BY <2>5, <2>7, <2>8, <2>9
  <2> HIDE DEF rest
  <2>12. QED
    BY <2>3, <2>10, <2>11
<1>3. S \in SUBSET S /\ S \ {y} \in SUBSET S
  OBVIOUS
<1>4. sum[S] = f[y] + sum[S \ {y}]
  BY <1>2, <1>3
<1>5. QED
  BY <1>1, <1>3, <1>4

\* The sum over one more element.
LEMMA SumAdd ==
  ASSUME NEW S, IsFiniteSet(S), NEW f, \A x \in S : f[x] \in Int,
         NEW y, y \notin S, f[y] \in Int
  PROVE  SumFunctionOnSet(f, S \cup {y}) = f[y] + SumFunctionOnSet(f, S)
<1> DEFINE T == S \cup {y}
<1>1. IsFiniteSet(T) /\ (\A x \in T : f[x] \in Int) /\ y \in T /\ T \ {y} = S
  BY FS_AddElement
<1> HIDE DEF T
<1>2. SumFunctionOnSet(f, T) = f[y] + SumFunctionOnSet(f, S)
  BY <1>1, SumTakeOut
<1>3. QED
  BY <1>2 DEF T

\* Sums over disjoint sets add up.
LEMMA SumOfUnion ==
  ASSUME NEW S, IsFiniteSet(S), NEW R, IsFiniteSet(R), S \cap R = {},
         NEW f, \A x \in S \cup R : f[x] \in Int
  PROVE  SumFunctionOnSet(f, S \cup R)
           = SumFunctionOnSet(f, S) + SumFunctionOnSet(f, R)
<1> DEFINE Sum(T) == SumFunctionOnSet(f, T)
           Bad == {T \in SUBSET S : Sum(T \cup R) # Sum(T) + Sum(R)}
<1>1. \A T \in SUBSET S : Sum(T) \in Int /\ IsFiniteSet(T)
  BY SumIsInt, FS_Subset
<1>2. Sum(R) \in Int
  BY SumIsInt
<1>3. \A T \in SUBSET S : IsFiniteSet(T \cup R)
  BY <1>1, FS_Union
<1>4. ASSUME NEW T \in SUBSET S, NEW x \in T
      PROVE  /\ Sum(T) = f[x] + Sum(T \ {x})
             /\ Sum(T \cup R) = f[x] + Sum((T \ {x}) \cup R)
  <2>1. (T \cup R) \ {x} = (T \ {x}) \cup R /\ x \in T \cup R
    OBVIOUS
  <2>2. IsFiniteSet(T) /\ IsFiniteSet(T \cup R)
    BY <1>1, <1>3
  <2>3. \A y \in T \cup R : f[y] \in Int
    OBVIOUS
  <2>4. Sum(T) = f[x] + Sum(T \ {x})
    BY <2>2, <2>3, SumTakeOut
  <2>5. Sum(T \cup R) = f[x] + Sum((T \cup R) \ {x})
    BY <2>1, <2>2, <2>3, SumTakeOut
  <2>6. QED
    BY <2>1, <2>4, <2>5
<1>5. Sum({}) = 0
  BY SumOfNone
<1> HIDE DEF Sum
<1>6. ASSUME Bad # {} PROVE FALSE
  <2>1. PICK T \in Bad : \A U \in SUBSET T : U # T => U \notin Bad
    <3>1. Bad \in SUBSET SUBSET S
      OBVIOUS
    <3> HIDE DEF Bad
    <3>2. QED
      BY <1>6, <3>1, SmallestSet
  <2>2. T \in SUBSET S /\ Sum(T \cup R) # Sum(T) + Sum(R)
    OBVIOUS
  <2>3. T # {}
    <3>1. {} \cup R = R
      OBVIOUS
    <3>2. Sum({} \cup R) = Sum({}) + Sum(R)
      BY <1>2, <1>5, <3>1
    <3>3. QED
      BY <2>2, <3>2
  <2>4. PICK x \in T : TRUE
    BY <2>3
  <2> DEFINE U == T \ {x}
  <2>5. U \in SUBSET T /\ U # T /\ U \in SUBSET S
    BY <2>2, <2>4
  <2>6. Sum(U \cup R) = Sum(U) + Sum(R)
    BY <2>1, <2>5
  <2>7. Sum(T) = f[x] + Sum(U) /\ Sum(T \cup R) = f[x] + Sum(U \cup R)
    BY <1>4, <2>2, <2>4
  <2>8. f[x] \in Int /\ Sum(U) \in Int
    BY <1>1, <2>2, <2>4, <2>5
  <2> HIDE DEF U
  <2>9. QED
    BY <1>2, <2>2, <2>6, <2>7, <2>8
<1>7. S \in SUBSET S
  OBVIOUS
<1>8. Sum(S \cup R) = Sum(S) + Sum(R)
  BY <1>6, <1>7
<1>9. QED
  BY <1>8 DEF Sum

\* What is nowhere larger has no larger sum.
LEMMA SumMonotone ==
  ASSUME NEW S, IsFiniteSet(S), NEW f, NEW g,
         \A x \in S : f[x] \in Int /\ g[x] \in Int /\ f[x] <= g[x]
  PROVE  SumFunctionOnSet(f, S) <= SumFunctionOnSet(g, S)
<1> DEFINE F(T) == SumFunctionOnSet(f, T)
           G(T) == SumFunctionOnSet(g, T)
           Bad == {T \in SUBSET S : ~(F(T) <= G(T))}
<1>1. \A T \in SUBSET S : IsFiniteSet(T) /\ F(T) \in Int /\ G(T) \in Int
  BY SumIsInt, FS_Subset
<1>2. \A T \in SUBSET S : \A x \in T :
        F(T) = f[x] + F(T \ {x}) /\ G(T) = g[x] + G(T \ {x})
  BY <1>1, SumTakeOut
<1>3. F({}) = 0 /\ G({}) = 0
  BY SumOfNone
<1> HIDE DEF F, G
<1>4. ASSUME Bad # {} PROVE FALSE
  <2>1. PICK T \in Bad : \A U \in SUBSET T : U # T => U \notin Bad
    <3>1. Bad \in SUBSET SUBSET S
      OBVIOUS
    <3> HIDE DEF Bad
    <3>2. QED
      BY <1>4, <3>1, SmallestSet
  <2>2. T \in SUBSET S /\ ~(F(T) <= G(T))
    OBVIOUS
  <2>3. T # {}
    BY <1>3, <2>2
  <2>4. PICK x \in T : TRUE
    BY <2>3
  <2> DEFINE U == T \ {x}
  <2>5. U \in SUBSET T /\ U # T /\ U \in SUBSET S
    BY <2>2, <2>4
  <2>6. F(U) <= G(U)
    BY <2>1, <2>5
  <2>7. F(T) = f[x] + F(U) /\ G(T) = g[x] + G(U)
    BY <1>2, <2>2, <2>4
  <2>8. /\ f[x] \in Int /\ g[x] \in Int /\ f[x] <= g[x]
        /\ F(U) \in Int /\ G(U) \in Int
    BY <1>1, <2>2, <2>4, <2>5
  <2> HIDE DEF U
  <2>9. QED
    BY <2>2, <2>6, <2>7, <2>8
<1>5. S \in SUBSET S
  OBVIOUS
<1>6. F(S) <= G(S)
  BY <1>4, <1>5
<1>7. QED
  BY <1>6 DEF F, G

\* A sum of natural numbers is one.
LEMMA SumIsNat ==
  ASSUME NEW S, IsFiniteSet(S), NEW f, \A x \in S : f[x] \in Nat
  PROVE  SumFunctionOnSet(f, S) \in Nat
<1> DEFINE F(T) == SumFunctionOnSet(f, T)
           Bad == {T \in SUBSET S : F(T) \notin Nat}
<1>1. \A T \in SUBSET S : IsFiniteSet(T)
  BY FS_Subset
<1>2. \A T \in SUBSET S : \A x \in T : F(T) = f[x] + F(T \ {x})
  BY <1>1, SumTakeOut
<1>3. F({}) = 0
  BY SumOfNone
<1> HIDE DEF F
<1>4. ASSUME Bad # {} PROVE FALSE
  <2>1. PICK T \in Bad : \A U \in SUBSET T : U # T => U \notin Bad
    <3>1. Bad \in SUBSET SUBSET S
      OBVIOUS
    <3> HIDE DEF Bad
    <3>2. QED
      BY <1>4, <3>1, SmallestSet
  <2>2. T \in SUBSET S /\ F(T) \notin Nat
    OBVIOUS
  <2>3. T # {}
    BY <1>3, <2>2
  <2>4. PICK x \in T : TRUE
    BY <2>3
  <2> DEFINE U == T \ {x}
  <2>5. U \in SUBSET T /\ U # T /\ U \in SUBSET S
    BY <2>2, <2>4
  <2>6. F(U) \in Nat /\ f[x] \in Nat
    BY <2>1, <2>2, <2>4, <2>5
  <2>7. F(T) = f[x] + F(U)
    BY <1>2, <2>2, <2>4
  <2> HIDE DEF U
  <2>8. QED
    BY <2>2, <2>6, <2>7
<1>5. S \in SUBSET S
  OBVIOUS
<1>6. F(S) \in Nat
  BY <1>4, <1>5
<1>7. QED
  BY <1>6 DEF F

\* Equal summands, equal sums.
LEMMA SumOfEquals ==
  ASSUME NEW S, IsFiniteSet(S), NEW f, NEW g,
         \A x \in S : f[x] \in Int /\ g[x] = f[x]
  PROVE  SumFunctionOnSet(g, S) = SumFunctionOnSet(f, S)
<1>1. /\ SumFunctionOnSet(f, S) <= SumFunctionOnSet(g, S)
      /\ SumFunctionOnSet(g, S) <= SumFunctionOnSet(f, S)
  BY SumMonotone
<1>2. SumFunctionOnSet(f, S) \in Int /\ SumFunctionOnSet(g, S) \in Int
  BY SumIsInt
<1>3. QED
  BY <1>1, <1>2

\* When one summand changes, the sum changes by as much.
LEMMA SumOfChanged ==
  ASSUME NEW S, IsFiniteSet(S), NEW f, NEW g, NEW y \in S,
         \A x \in S : f[x] \in Int /\ g[x] \in Int,
         \A x \in S : x # y => g[x] = f[x]
  PROVE  SumFunctionOnSet(g, S) = SumFunctionOnSet(f, S) + (g[y] - f[y])
<1> DEFINE R == S \ {y}
<1>1. IsFiniteSet(R)
  BY FS_RemoveElement
<1>2. SumFunctionOnSet(g, R) = SumFunctionOnSet(f, R)
  BY <1>1, SumOfEquals
<1>3. /\ SumFunctionOnSet(f, S) = f[y] + SumFunctionOnSet(f, R)
      /\ SumFunctionOnSet(g, S) = g[y] + SumFunctionOnSet(g, R)
  BY SumTakeOut
<1>4. SumFunctionOnSet(f, R) \in Int
  BY <1>1, SumIsInt
<1> HIDE DEF R
<1>5. QED
  BY <1>2, <1>3, <1>4

\* Part of a sum of natural numbers is no more than all of it.
LEMMA SumOfPart ==
  ASSUME NEW S, IsFiniteSet(S), NEW R \in SUBSET S,
         NEW f, \A x \in S : f[x] \in Nat
  PROVE  SumFunctionOnSet(f, R) <= SumFunctionOnSet(f, S)
<1> DEFINE Q == S \ R
<1>1. IsFiniteSet(R) /\ IsFiniteSet(Q) /\ R \cap Q = {} /\ R \cup Q = S
  BY FS_Subset
<1>2. SumFunctionOnSet(f, R) \in Nat /\ SumFunctionOnSet(f, Q) \in Nat
  BY <1>1, SumIsNat
<1>3. SumFunctionOnSet(f, S) = SumFunctionOnSet(f, R) + SumFunctionOnSet(f, Q)
  <2>1. \A x \in R \cup Q : f[x] \in Int
    BY <1>1
  <2> HIDE DEF Q
  <2>2. QED
    BY <1>1, <2>1, SumOfUnion
<1> HIDE DEF Q
<1>4. QED
  BY <1>2, <1>3

\* Summands that are 0 can be left out.
LEMMA SumWithoutZeros ==
  ASSUME NEW S, IsFiniteSet(S), NEW R \in SUBSET S,
         NEW f, \A x \in S : f[x] \in Int, \A x \in S \ R : f[x] = 0
  PROVE  SumFunctionOnSet(f, S) = SumFunctionOnSet(f, R)
<1> DEFINE Bad == {T \in SUBSET (S \ R) : SumFunctionOnSet(f, T) # 0}
<1>1. Bad = {}
  <2> SUFFICES ASSUME Bad # {} PROVE FALSE
    OBVIOUS
  <2>1. PICK T \in Bad : \A U \in SUBSET T : U # T => U \notin Bad
    <3>1. Bad \in SUBSET SUBSET S
      OBVIOUS
    <3> HIDE DEF Bad
    <3>2. QED
      BY <3>1, SmallestSet
  <2>2. T \in SUBSET (S \ R) /\ SumFunctionOnSet(f, T) # 0
    OBVIOUS
  <2>3. IsFiniteSet(T)
    BY <2>2, FS_Subset
  <2>4. PICK x \in T : TRUE
    BY <2>2, SumOfNone
  <2>5. SumFunctionOnSet(f, T) = f[x] + SumFunctionOnSet(f, T \ {x})
    BY <2>2, <2>3, <2>4, SumTakeOut
  <2>6. T \ {x} \in SUBSET T /\ T \ {x} # T /\ T \ {x} \in SUBSET (S \ R)
    BY <2>2, <2>4
  <2>7. SumFunctionOnSet(f, T \ {x}) = 0
    BY <2>1, <2>6
  <2>8. f[x] = 0
    BY <2>2, <2>4
  <2>9. QED
    BY <2>2, <2>5, <2>7, <2>8
<1> DEFINE Q == S \ R
<1>2. IsFiniteSet(R) /\ IsFiniteSet(Q) /\ R \cap Q = {} /\ R \cup Q = S
  BY FS_Subset
<1>3. SumFunctionOnSet(f, Q) = 0
  BY <1>1
<1>4. SumFunctionOnSet(f, S) = SumFunctionOnSet(f, R) + SumFunctionOnSet(f, Q)
  <2>1. \A x \in R \cup Q : f[x] \in Int
    BY <1>2
  <2> HIDE DEF Q
  <2>2. QED
    BY <1>2, <2>1, SumOfUnion
<1>5. SumFunctionOnSet(f, R) \in Int
  BY <1>2, SumIsInt
<1>6. QED
  BY <1>3, <1>4, <1>5

\* What a sum over part of a set adds up, with 0 for the rest of the set.
LEMMA SumOfSelected ==
  ASSUME NEW S, IsFiniteSet(S), NEW R \in SUBSET S, NEW f, NEW g,
         \A x \in R : f[x] \in Int,
         \A x \in S : g[x] = IF x \in R THEN f[x] ELSE 0
  PROVE  SumFunctionOnSet(f, R) = SumFunctionOnSet(g, S)
<1>1. IsFiniteSet(R)
  BY FS_Subset
<1>2. \A x \in R : f[x] \in Int /\ g[x] = f[x]
  OBVIOUS
<1>3. SumFunctionOnSet(g, R) = SumFunctionOnSet(f, R)
  BY <1>1, <1>2, SumOfEquals
<1>4. (\A x \in S : g[x] \in Int) /\ (\A x \in S \ R : g[x] = 0)
  BY <1>2
<1>5. SumFunctionOnSet(g, S) = SumFunctionOnSet(g, R)
  BY <1>4, SumWithoutZeros
<1>6. QED
  BY <1>3, <1>5

\* Summands taken from different places are summed where they come from.
LEMMA SumOfImage ==
  ASSUME NEW S, IsFiniteSet(S), NEW h,
         \A x, y \in S : h[x] = h[y] => x = y,
         NEW f, NEW g, \A x \in S : f[x] \in Int /\ g[h[x]] = f[x]
  PROVE  SumFunctionOnSet(g, {h[x] : x \in S}) = SumFunctionOnSet(f, S)
<1> DEFINE Image(T) == {h[x] : x \in T}
           F(T) == SumFunctionOnSet(f, T)
           G(T) == SumFunctionOnSet(g, Image(T))
           Bad == {T \in SUBSET S : G(T) # F(T)}
<1>1. \A T \in SUBSET S : /\ IsFiniteSet(T) /\ IsFiniteSet(Image(T))
                          /\ \A z \in Image(T) : g[z] \in Int
  <2> TAKE T \in SUBSET S
  <2>1. IsFiniteSet(T)
    BY FS_Subset
  <2>2. [x \in T |-> h[x]] \in Surjection(T, Image(T))
    BY DEF Surjection
  <2>3. IsFiniteSet(Image(T))
    BY <2>1, <2>2, FS_Surjection
  <2>4. QED
    BY <2>1, <2>3
<1>2. \A T \in SUBSET S : \A x \in T : F(T) = f[x] + F(T \ {x})
  BY <1>1, SumTakeOut
<1>3. \A T \in SUBSET S : \A x \in T : G(T) = f[x] + G(T \ {x})
  <2> TAKE T \in SUBSET S
  <2> TAKE x \in T
  <2>1. Image(T) \ {h[x]} = Image(T \ {x})
    OBVIOUS
  <2>2. h[x] \in Image(T) /\ g[h[x]] = f[x]
    OBVIOUS
  <2>3. IsFiniteSet(Image(T)) /\ \A z \in Image(T) : g[z] \in Int
    BY <1>1
  <2> HIDE DEF Image
  <2>4. SumFunctionOnSet(g, Image(T)) = g[h[x]] + SumFunctionOnSet(g, Image(T) \ {h[x]})
    BY <2>2, <2>3, SumTakeOut
  <2>5. QED
    BY <2>1, <2>2, <2>4
<1>4. F({}) = 0 /\ G({}) = 0
  <2>1. Image({}) = {}
    OBVIOUS
  <2>2. QED
    BY <2>1, SumOfNone
<1> HIDE DEF F, G
<1>5. ASSUME Bad # {} PROVE FALSE
  <2>1. PICK T \in Bad : \A U \in SUBSET T : U # T => U \notin Bad
    <3>1. Bad \in SUBSET SUBSET S
      OBVIOUS
    <3> HIDE DEF Bad
    <3>2. QED
      BY <1>5, <3>1, SmallestSet
  <2>2. T \in SUBSET S /\ G(T) # F(T)
    OBVIOUS
  <2>3. PICK x \in T : TRUE
    BY <1>4, <2>2
  <2>4. T \ {x} \in SUBSET T /\ T \ {x} # T /\ T \ {x} \in SUBSET S
    BY <2>2, <2>3
  <2>5. G(T \ {x}) = F(T \ {x})
    BY <2>1, <2>4
  <2>6. QED
    BY <1>2, <1>3, <2>2, <2>3, <2>5
<1>6. S \in SUBSET S
  OBVIOUS
<1>7. F(S) = G(S)
  BY <1>5, <1>6
<1>8. QED
  BY <1>7 DEF F, G
====
