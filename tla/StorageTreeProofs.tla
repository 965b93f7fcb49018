--------------------------- MODULE StorageTreeProofs ---------------------------
(***************************************************************************)
(* For any tree, any limits, any number of workers and any order of their  *)
(* results: the rows of a report add up to its totals, a complete report   *)
(* has the totals of the tree and lists its largest files, and no          *)
(* goroutine waits for a channel that nobody serves.                       *)
(***************************************************************************)
EXTENDS StorageTree, TLAPS, FiniteSetTheorems

-----------------------------------------------------------------------------
(* Weights: the sum of a function as the number of its units               *)

\* The sum of the values of a function, in units that are counted.
Units(f) == UNION {{i} \X (1..f[i]) : i \in DOMAIN f}
Weight(f) == Cardinality(Units(f))

\* A sum that stays at the largest integer, as saturatingAdd does.
Capped(n) == IF n > MaxInt64 THEN MaxInt64 ELSE n

LEMMA Column ==
    ASSUME NEW i, NEW n \in Nat
    PROVE  IsFiniteSet({i} \X (1..n)) /\ Cardinality({i} \X (1..n)) = n
<1>1. IsFiniteSet(1..n) /\ Cardinality(1..n) = n
  <2>1. IsFiniteSet(1..n) /\ Cardinality(1..n) = IF 1 > n THEN 0 ELSE n - 1 + 1
    BY FS_Interval
  <2> QED
    BY <2>1
<1>2. IsFiniteSet({i}) /\ Cardinality({i}) = 1
  BY FS_Singleton
<1>3. Cardinality({i} \X (1..n)) = 1 * n
  BY <1>1, <1>2, FS_Product
<1>4. IsFiniteSet({i} \X (1..n))
  BY <1>1, <1>2, FS_Product
<1>5. 1 * n = n
  OBVIOUS
<1> QED
  BY <1>3, <1>4, <1>5

LEMMA WeightType ==
    ASSUME NEW D, IsFiniteSet(D), NEW f \in [D -> Nat]
    PROVE  IsFiniteSet(Units(f)) /\ Weight(f) \in Nat
<1> DEFINE columns == {{i} \X (1..f[i]) : i \in D}
           column == [i \in D |-> {i} \X (1..f[i])]
<1>1. column \in Surjection(D, columns)
  BY DEF Surjection
<1>2. IsFiniteSet(columns)
  BY <1>1, FS_Surjection
<1>3. \A T \in columns : IsFiniteSet(T)
  <2>1. ASSUME NEW i \in D PROVE IsFiniteSet({i} \X (1..f[i]))
    <3>1. f[i] \in Nat
      OBVIOUS
    <3> QED
      BY <3>1, Column
  <2> QED
    BY <2>1
<1>4. IsFiniteSet(UNION columns)
  BY <1>2, <1>3, FS_UNION
<1>5. IsFiniteSet(Units(f))
  BY <1>4 DEF Units
<1> QED
  BY <1>5, FS_CardinalityType DEF Weight

\* A set in two parts, and functions with the same values on a set.
Parts(S, A, B) == S = A \cup B /\ A \cap B = {}
Agree(f, g, S) == \A i \in S : f[i] = g[i]

LEMMA WeightSplit ==
    ASSUME NEW D, IsFiniteSet(D), NEW f \in [D -> Nat],
           NEW A, NEW B, Parts(D, A, B),
           NEW g \in [A -> Nat], NEW h \in [B -> Nat], Agree(f, g, A), Agree(f, h, B)
    PROVE  Weight(f) = Weight(g) + Weight(h) /\ Weight(g) \in Nat /\ Weight(h) \in Nat
<1>1. D = A \cup B /\ A \cap B = {} /\ (\A i \in A : g[i] = f[i]) /\ \A i \in B : h[i] = f[i]
  BY DEF Parts, Agree
<1>2. IsFiniteSet(A) /\ IsFiniteSet(B)
  BY <1>1, FS_Subset
<1>3. /\ IsFiniteSet(Units(f)) /\ IsFiniteSet(Units(g)) /\ IsFiniteSet(Units(h))
      /\ Weight(f) \in Nat /\ Weight(g) \in Nat /\ Weight(h) \in Nat
  BY <1>2, WeightType
<1>4. Units(f) = Units(g) \cup Units(h)
  <2>1. ASSUME NEW u \in Units(f) PROVE u \in Units(g) \cup Units(h)
    <3>1. PICK i \in D : u \in {i} \X (1..f[i])
      BY DEF Units
    <3>2. CASE i \in A
      BY <1>1, <3>1, <3>2 DEF Units
    <3>3. CASE i \in B
      BY <1>1, <3>1, <3>3 DEF Units
    <3> QED
      BY <1>1, <3>2, <3>3
  <2>2. ASSUME NEW u \in Units(g) \cup Units(h) PROVE u \in Units(f)
    <3>1. CASE u \in Units(g)
      <4>1. PICK i \in A : u \in {i} \X (1..g[i])
        BY <3>1 DEF Units
      <4> QED
        BY <1>1, <4>1 DEF Units
    <3>2. CASE u \in Units(h)
      <4>1. PICK i \in B : u \in {i} \X (1..h[i])
        BY <3>2 DEF Units
      <4> QED
        BY <1>1, <4>1 DEF Units
    <3> QED
      BY <3>1, <3>2
  <2> QED
    BY <2>1, <2>2
<1>5. Units(g) \cap Units(h) = {}
  <2>1. ASSUME NEW u, u \in Units(g), u \in Units(h) PROVE FALSE
    <3>1. PICK i \in A : u \in {i} \X (1..g[i])
      BY <2>1 DEF Units
    <3>2. PICK j \in B : u \in {j} \X (1..h[j])
      BY <2>1 DEF Units
    <3> QED
      BY <1>1, <3>1, <3>2
  <2> QED
    BY <2>1
<1>6. Cardinality(Units(g) \cup Units(h))
      = Cardinality(Units(g)) + Cardinality(Units(h)) - Cardinality(Units(g) \cap Units(h))
  BY <1>3, FS_Union
<1>7. Cardinality(Units(g) \cap Units(h)) = 0
  BY <1>5, FS_EmptySet
<1> QED
  BY <1>3, <1>4, <1>6, <1>7 DEF Weight

LEMMA WeightOfNone ==
    ASSUME NEW f, DOMAIN f = {}
    PROVE  Weight(f) = 0
<1>1. Units(f) = {}
  BY DEF Units
<1> QED
  BY <1>1, FS_EmptySet DEF Weight

LEMMA WeightOfOne ==
    ASSUME NEW x, NEW f \in [{x} -> Nat]
    PROVE  Weight(f) = f[x]
<1>1. Units(f) = {x} \X (1..f[x])
  BY DEF Units
<1> QED
  BY <1>1, Column DEF Weight

\* One value more.
OneMore(E, D, x) == E = D \cup {x} /\ x \notin D

LEMMA WeightAdd ==
    ASSUME NEW D, IsFiniteSet(D), NEW f \in [D -> Nat], NEW x,
           NEW E, OneMore(E, D, x), NEW g \in [E -> Nat], Agree(f, g, D)
    PROVE  Weight(g) = Weight(f) + g[x] /\ Weight(f) \in Nat /\ g[x] \in Nat
<1>1. IsFiniteSet(E) /\ x \in E /\ Parts(E, D, {x})
  BY FS_AddElement DEF Parts, OneMore
<1>2. PICK h : h = [i \in {x} |-> g[i]]
  OBVIOUS
<1>3. h \in [{x} -> Nat] /\ h[x] = g[x] /\ Agree(g, h, {x}) /\ Agree(g, f, D)
  BY <1>1, <1>2 DEF Agree
<1>4. Weight(h) = g[x]
  BY <1>3, WeightOfOne
<1>5. Weight(g) = Weight(f) + Weight(h)
  BY <1>1, <1>3, WeightSplit
<1>6. Weight(f) \in Nat
  BY WeightType
<1> QED
  BY <1>1, <1>4, <1>5, <1>6

\* Another value.
LEMMA WeightChange ==
    ASSUME NEW D, IsFiniteSet(D), NEW f \in [D -> Nat], NEW x \in D,
           NEW g \in [D -> Nat], Agree(f, g, D \ {x})
    PROVE  \E rest \in Nat : Weight(f) = rest + f[x] /\ Weight(g) = rest + g[x]
<1>1. PICK R : R = D \ {x}
  OBVIOUS
<1>2. PICK h : h = [i \in R |-> f[i]]
  OBVIOUS
<1>3. IsFiniteSet(R) /\ OneMore(D, R, x) /\ h \in [R -> Nat]
  BY <1>1, <1>2, FS_Subset DEF OneMore
<1>4. Agree(h, f, R) /\ Agree(h, g, R)
  BY <1>1, <1>2 DEF Agree
<1>5. Weight(f) = Weight(h) + f[x] /\ Weight(h) \in Nat
  BY <1>3, <1>4, WeightAdd
<1>6. Weight(g) = Weight(h) + g[x]
  BY <1>3, <1>4, WeightAdd
<1> QED
  BY <1>5, <1>6

\* The same values under other names.
Renames(b, f, g) == \A i \in DOMAIN b : g[b[i]] = f[i]

LEMMA WeightRenamed ==
    ASSUME NEW D, IsFiniteSet(D), NEW E, NEW b \in Bijection(D, E),
           NEW f \in [D -> Nat], NEW g \in [E -> Nat], Renames(b, f, g)
    PROVE  Weight(f) = Weight(g)
<1>1. /\ b \in [D -> E] /\ \A i, j \in D : b[i] = b[j] => i = j
      /\ \A k \in E : \E i \in D : b[i] = k
      /\ \A i \in D : g[b[i]] = f[i]
  BY DEF Bijection, Injection, IsInjective, Surjection, Renames
<1> DEFINE c == [u \in Units(f) |-> <<b[u[1]], u[2]>>]
<1>2. ASSUME NEW u \in Units(f) PROVE u[1] \in D /\ u[2] \in 1..f[u[1]] /\ u = <<u[1], u[2]>>
  <2>1. PICK i \in D : u \in {i} \X (1..f[i])
    BY DEF Units
  <2> QED
    BY <2>1
<1>3. ASSUME NEW u \in Units(f) PROVE c[u] \in Units(g)
  <2>1. b[u[1]] \in E /\ g[b[u[1]]] = f[u[1]]
    BY <1>1, <1>2
  <2>2. c[u] \in {b[u[1]]} \X (1..g[b[u[1]]])
    BY <1>2, <2>1
  <2> QED
    BY <2>1, <2>2 DEF Units
<1>4. ASSUME NEW u \in Units(f), NEW v \in Units(f), c[u] = c[v] PROVE u = v
  <2>1. b[u[1]] = b[v[1]] /\ u[2] = v[2]
    BY <1>4
  <2> QED
    BY <1>1, <1>2, <2>1
<1>5. ASSUME NEW w \in Units(g) PROVE \E u \in Units(f) : c[u] = w
  <2>1. PICK k \in E : w \in {k} \X (1..g[k])
    BY DEF Units
  <2>2. PICK i \in D : b[i] = k
    BY <1>1
  <2>3. w[2] \in 1..f[i] /\ w = <<k, w[2]>>
    BY <1>1, <2>1, <2>2
  <2>4. <<i, w[2]>> \in Units(f)
    BY <2>3 DEF Units
  <2>5. c[<<i, w[2]>>] = w
    BY <2>2, <2>3, <2>4
  <2> QED
    BY <2>4, <2>5
<1>6. c \in Bijection(Units(f), Units(g))
  <2> HIDE DEF c
  <2>1. c \in [Units(f) -> Units(g)]
    BY <1>3 DEF c
  <2> QED
    BY <1>4, <1>5, <2>1 DEF Bijection, Injection, IsInjective, Surjection
<1>7. ExistsBijection(Units(f), Units(g))
  BY <1>6 DEF ExistsBijection
<1> QED
  BY <1>7, WeightType, FS_Bijection DEF Weight

-----------------------------------------------------------------------------
LEMMA LargestOfSome ==
    ASSUME NEW n \in Nat, NEW S \in SUBSET (1..n), S # {}
    PROVE  Max(S) \in S
<1> DEFINE T == {n - i : i \in S}
<1>1. T \in SUBSET Nat /\ T # {}
  <2>1. \A i \in S : i \in 1..n
    OBVIOUS
  <2>2. \A i \in 1..n : n - i \in Nat
    OBVIOUS
  <2>3. \A i \in S : n - i \in Nat
    BY <2>1, <2>2
  <2>4. PICK i : i \in S
    OBVIOUS
  <2>5. n - i \in T
    BY <2>4
  <2> QED
    BY <2>3, <2>5
<1>2. PICK t \in T : \A u \in T : ~ <<u, t>> \in OpToRel(<, Nat)
  BY <1>1, NatLessThanWellFounded, WFMin
<1>3. \A u \in T : ~ (u < t)
  BY <1>1, <1>2 DEF OpToRel
<1>4. PICK m \in S : t = n - m
  OBVIOUS
<1>5. \A i \in S : m >= i
  <2>1. ASSUME NEW i \in S PROVE m >= i
    <3>1. n - i \in T
      OBVIOUS
    <3>2. ~ (n - i < n - m)
      BY <1>3, <1>4, <3>1
    <3> HIDE DEF T
    <3> QED
      BY <3>2
  <2> QED
    BY <2>1
<1> QED
  BY <1>4, <1>5 DEF Max

LEMMA SumOfOneMore ==
    ASSUME NEW D, IsFiniteSet(D), NEW s \in [D -> Nat], NEW S \in SUBSET D, NEW m \in S
    PROVE  Capped(Weight([i \in S |-> s[i]]))
           = SaturatingAdd(Capped(Weight([i \in S \ {m} |-> s[i]])), s[m])
<1>1. PICK R : R = S \ {m}
  OBVIOUS
<1>2. PICK f : f = [i \in R |-> s[i]]
  OBVIOUS
<1>3. PICK g : g = [i \in S |-> s[i]]
  OBVIOUS
<1>4. IsFiniteSet(R)
  BY <1>1, FS_Subset
<1>5. OneMore(S, R, m)
  BY <1>1 DEF OneMore
<1>6. f \in [R -> Nat] /\ g \in [S -> Nat] /\ Agree(f, g, R)
  BY <1>1, <1>2, <1>3 DEF Agree
<1>7. g[m] = s[m] /\ s[m] \in Nat
  BY <1>3
<1>8. Weight(g) = Weight(f) + g[m] /\ Weight(f) \in Nat
  BY <1>4, <1>5, <1>6, WeightAdd
<1>9. SaturatingAdd(Capped(Weight(f)), s[m]) = Capped(Weight(g))
  BY <1>7, <1>8, SizesAssumption DEF SaturatingAdd, Capped
<1> QED
  BY <1>1, <1>2, <1>3, <1>9

LEMMA SaturatingSumIsWeight ==
    ASSUME NEW n \in Nat, NEW s \in [1..n -> Nat]
    PROVE  SaturatingSum(s) = Capped(Weight(s))
<1> DEFINE Body(f, S) == IF S = {} THEN 0 ELSE SaturatingAdd(f[S \ {Max(S)}], s[Max(S)])
           iter == CHOOSE f : f = [S \in SUBSET (1..n) |-> Body(f, S)]
           sum == [S \in SUBSET (1..n) |-> Capped(Weight([i \in S |-> s[i]]))]
<1>1. SaturatingSum(s) = iter[1..n]
  BY DEF SaturatingSum, FoldLeft, MapThenFoldSet
<1>2. ASSUME NEW S \in SUBSET (1..n) PROVE sum[S] = Body(sum, S)
  <2>1. CASE S = {}
    <3>1. Weight([i \in S |-> s[i]]) = 0
      BY <2>1, WeightOfNone
    <3> QED
      BY <2>1, <3>1, SizesAssumption DEF Capped
  <2>2. CASE S # {}
    <3>1. Max(S) \in S
      BY <2>2, LargestOfSome
    <3>2. sum[S \ {Max(S)}] = Capped(Weight([i \in S \ {Max(S)} |-> s[i]]))
      OBVIOUS
    <3>3. sum[S] = SaturatingAdd(sum[S \ {Max(S)}], s[Max(S)])
      <4>1. IsFiniteSet(1..n)
        BY FS_Interval
      <4> QED
        BY <3>1, <3>2, <4>1, SumOfOneMore
    <3> HIDE DEF sum
    <3> QED
      BY <2>2, <3>3
  <2> QED
    BY <2>1, <2>2
<1>3. sum = [S \in SUBSET (1..n) |-> Body(sum, S)]
  BY <1>2
<1>4. iter = [S \in SUBSET (1..n) |-> Body(iter, S)]
  <2> HIDE DEF sum
  <2> QED
    BY <1>3
<1>5. \A S \in SUBSET (1..n) : iter[S] = Body(iter, S)
  BY <1>4
<1>6. iter[1..n] = sum[1..n]
  <2> DEFINE wrong == {Cardinality(S) : S \in {S \in SUBSET (1..n) : iter[S] # sum[S]}}
  <2>1. SUFFICES ASSUME iter[1..n] # sum[1..n] PROVE FALSE
    OBVIOUS
  <2> HIDE DEF iter, sum, Body
  <2>2. ASSUME NEW S \in SUBSET (1..n) PROVE IsFiniteSet(S) /\ Cardinality(S) \in Nat
    <3>1. IsFiniteSet(1..n)
      BY FS_Interval
    <3> QED
      BY <3>1, FS_Subset, FS_CardinalityType
  <2>3. wrong # {} /\ wrong \subseteq Nat
    BY <2>1, <2>2
  <2>4. PICK c \in wrong : \A d \in wrong : ~ <<d, c>> \in OpToRel(<, Nat)
    BY <2>3, NatLessThanWellFounded, WFMin
  <2>5. c \in Nat /\ \A d \in wrong : ~ (d < c)
    BY <2>3, <2>4 DEF OpToRel
  <2>6. PICK S \in SUBSET (1..n) : iter[S] # sum[S] /\ c = Cardinality(S)
    OBVIOUS
  <2>7. S # {}
    BY <1>2, <1>5, <2>6 DEF Body
  <2> DEFINE R == S \ {Max(S)}
  <2>8. Max(S) \in S
    BY <2>7, LargestOfSome
  <2>9. Cardinality(R) = c - 1 /\ R \in SUBSET (1..n)
    BY <2>2, <2>6, <2>8, FS_RemoveElement
  <2>10. iter[R] = sum[R]
    <3>1. c - 1 \notin wrong
      BY <2>5
    <3> QED
      BY <2>9, <3>1
  <2> QED
    BY <1>2, <1>5, <2>6, <2>7, <2>10 DEF Body
<1>7. sum[1..n] = Capped(Weight(s))
  <2>1. s = [i \in 1..n |-> s[i]]
    OBVIOUS
  <2> QED
    BY <2>1
<1> HIDE DEF iter, sum
<1> QED
  BY <1>1, <1>6, <1>7

-----------------------------------------------------------------------------
(* Sequences that list a set, and the order of rows                        *)

LEMMA BetweenAsBijection ==
    ASSUME NEW S, IsFiniteSet(S), NEW n \in Nat, n = Cardinality(S), NEW t \in [1..n -> S],
           \A i, j \in 1..n : t[i] = t[j] => i = j
    PROVE  t \in Bijection(1..n, S)
<1>1. IsFiniteSet(1..n) /\ Cardinality(1..n) = n
  <2>1. 1 \in Int /\ n \in Int
    OBVIOUS
  <2>2. IsFiniteSet(1..n) /\ Cardinality(1..n) = IF 1 > n THEN 0 ELSE n - 1 + 1
    BY <2>1, FS_Interval
  <2> QED
    BY <2>2
<1>2. t \in Injection(1..n, S)
  BY DEF Injection, IsInjective
<1>3. t \in Surjection(1..n, S)
  BY <1>1, <1>2, FS_Injection
<1> QED
  BY <1>2, <1>3 DEF Bijection

LEMMA SetAsSequence ==
    ASSUME NEW S, IsFiniteSet(S)
    PROVE  SetToSeq(S) \in Bijection(1..Cardinality(S), S)
<1>1. Cardinality(S) \in Nat /\ ExistsBijection(1..Cardinality(S), S)
  BY FS_CardinalityType
<1>2. PICK b \in [1..Cardinality(S) -> S] : IsInjective(b)
  BY <1>1 DEF ExistsBijection, Bijection, Injection
<1>3. SetToSeq(S) \in [1..Cardinality(S) -> S] /\ IsInjective(SetToSeq(S))
  BY <1>2 DEF SetToSeq
<1>4. \A i, j \in 1..Cardinality(S) : SetToSeq(S)[i] = SetToSeq(S)[j] => i = j
  BY <1>3 DEF IsInjective
<1> QED
  BY <1>1, <1>3, <1>4, BetweenAsBijection

\* The sum over a set taken as a sequence, in whatever order.
LEMMA SumInAnyOrder ==
    ASSUME NEW S, IsFiniteSet(S), NEW n \in Nat, NEW t \in Bijection(1..n, S),
           NEW v \in [S -> Nat], NEW s \in [1..n -> Nat], Renames(t, s, v)
    PROVE  SaturatingSum(s) = Capped(Weight(v))
<1>1. IsFiniteSet(1..n)
  BY FS_Interval
<1>2. Weight(s) = Weight(v)
  BY <1>1, WeightRenamed
<1> QED
  BY <1>2, SaturatingSumIsWeight

-----------------------------------------------------------------------------
(* Rows                                                                    *)

\* The rows of a report.
RowKinds == {"directory", "file", "extension", "other"}
SomeRows == [kind : RowKinds, name : Nat, size : Nat, files : Nat, directories : Nat]

LEMMA OrderOfRows ==
    ASSUME NEW S \in SUBSET SomeRows, IsFiniteSet(S),
           \A r, s \in S : r.name = s.name => r = s
    PROVE  Descending(S) \in Bijection(1..Cardinality(S), S)
<1> DEFINE c == Cardinality(S)
           place == [i \in 1..c |-> CHOOSE row \in S : Cardinality(Before(S, row)) = i - 1]
<1>1. c \in Nat
  BY FS_CardinalityType
<1>2. /\ \A r \in S : ~ Precedes(r, r)
      /\ \A r, s, t \in S : Precedes(r, s) /\ Precedes(s, t) => Precedes(r, t)
      /\ \A r, s \in S : r # s => Precedes(r, s) \/ Precedes(s, r)
  <2>1. \A r \in S : r.size \in Nat /\ r.name \in Nat
    BY DEF SomeRows
  <2> QED
    BY <2>1 DEF Precedes
<1>3. ASSUME NEW r \in S PROVE /\ Before(S, r) \in SUBSET S /\ r \notin Before(S, r)
                               /\ IsFiniteSet(Before(S, r))
                               /\ Cardinality(Before(S, r)) \in 0..(c - 1)
  <2>1. Before(S, r) \in SUBSET S /\ r \notin Before(S, r)
    BY <1>2 DEF Before
  <2>2. IsFiniteSet(Before(S, r)) /\ Cardinality(Before(S, r)) <= c
        /\ Cardinality(Before(S, r)) # c
    BY <2>1, FS_Subset
  <2>3. Cardinality(Before(S, r)) \in Nat
    BY <2>2, FS_CardinalityType
  <2> QED
    BY <1>1, <2>1, <2>2, <2>3
<1>4. ASSUME NEW r \in S, NEW s \in S, Precedes(r, s)
      PROVE  Cardinality(Before(S, r)) # Cardinality(Before(S, s))
  <2>1. Before(S, r) \in SUBSET Before(S, s) /\ r \in Before(S, s) /\ r \notin Before(S, r)
    BY <1>2, <1>3, <1>4 DEF Before
  <2> QED
    BY <1>3, <2>1, FS_Subset
<1> DEFINE rank == [r \in S |-> Cardinality(Before(S, r))]
<1>5. rank \in Injection(S, 0..(c - 1))
  <2>1. rank \in [S -> 0..(c - 1)]
    BY <1>3
  <2>2. \A r, s \in S : r # s => rank[r] # rank[s]
    BY <1>2, <1>4
  <2> QED
    BY <2>1, <2>2 DEF Injection, IsInjective
<1>6. IsFiniteSet(0..(c - 1)) /\ Cardinality(0..(c - 1)) = c
  <2>1. 0 \in Int /\ c - 1 \in Int
    BY <1>1
  <2>2. /\ IsFiniteSet(0..(c - 1))
        /\ Cardinality(0..(c - 1)) = IF 0 > c - 1 THEN 0 ELSE c - 1 - 0 + 1
    BY <2>1, FS_Interval
  <2> QED
    BY <1>1, <2>2
<1>7. rank \in Surjection(S, 0..(c - 1))
  BY <1>5, <1>6, FS_Injection
<1>8. ASSUME NEW i \in 1..c
      PROVE  place[i] \in S /\ Cardinality(Before(S, place[i])) = i - 1
  <2>1. i - 1 \in 0..(c - 1)
    BY <1>1
  <2>2. PICK r \in S : rank[r] = i - 1
    BY <1>7, <2>1 DEF Surjection
  <2> QED
    BY <2>2
<1>9. place \in [1..c -> S]
  BY <1>8
<1>10. \A i, j \in 1..c : place[i] = place[j] => i = j
  <2> SUFFICES ASSUME NEW i \in 1..c, NEW j \in 1..c, place[i] = place[j] PROVE i = j
    OBVIOUS
  <2>1. i - 1 = j - 1
    BY <1>8
  <2> QED
    BY <1>1, <2>1
<1>11. place \in Bijection(1..c, S)
  <2> HIDE DEF place
  <2> QED
    BY <1>1, <1>9, <1>10, BetweenAsBijection
<1> QED
  BY <1>11 DEF Descending

\* A part of the values may be added up first.
Shortened(q, x, A, s, t, b, B) ==
  /\ IsFiniteSet(DOMAIN s) /\ s \in [DOMAIN s -> Nat] /\ Parts(DOMAIN s, A, B)
  /\ IsFiniteSet(DOMAIN t) /\ t \in [DOMAIN t -> Nat]
  /\ b \in Bijection(DOMAIN t, B) /\ Renames(b, t, s)
  /\ q \in [DOMAIN q -> Nat] /\ OneMore(DOMAIN q, A, x) /\ Agree(s, q, A)
  /\ q[x] = Capped(Weight(t))

LEMMA PartFirst ==
    ASSUME NEW q, NEW x, NEW A, NEW s, NEW t, NEW b, NEW B, Shortened(q, x, A, s, t, b, B)
    PROVE  Capped(Weight(q)) = Capped(Weight(s))
<1>1. PICK D : D = DOMAIN s
  OBVIOUS
<1>2. PICK E : E = DOMAIN t
  OBVIOUS
<1>3. PICK F : F = DOMAIN q
  OBVIOUS
<1>4. /\ IsFiniteSet(D) /\ s \in [D -> Nat] /\ Parts(D, A, B)
      /\ IsFiniteSet(E) /\ t \in [E -> Nat]
      /\ b \in Bijection(E, B) /\ Renames(b, t, s)
      /\ q \in [F -> Nat] /\ OneMore(F, A, x) /\ Agree(s, q, A)
      /\ q[x] = Capped(Weight(t))
  BY <1>1, <1>2, <1>3 DEF Shortened
<1>5. PICK p : p = [i \in A |-> s[i]]
  OBVIOUS
<1>6. PICK h : h = [i \in B |-> s[i]]
  OBVIOUS
<1>7. /\ p \in [A -> Nat] /\ h \in [B -> Nat] /\ IsFiniteSet(A) /\ IsFiniteSet(B)
      /\ Agree(s, p, A) /\ Agree(s, h, B)
  BY <1>4, <1>5, <1>6, FS_Subset DEF Parts, Agree
<1>8. Weight(s) = Weight(p) + Weight(h)
  BY <1>4, <1>7, WeightSplit
<1>9. Renames(b, t, h)
  BY <1>4, <1>6 DEF Bijection, Injection, Parts, Renames
<1>10. Weight(t) = Weight(h)
  BY <1>4, <1>7, <1>9, WeightRenamed
<1>11. Agree(p, q, A)
  BY <1>4, <1>7 DEF Agree
<1>12. Weight(q) = Weight(p) + q[x]
  BY <1>4, <1>7, <1>11, WeightAdd
<1>13. Weight(p) \in Nat /\ Weight(t) \in Nat
  BY <1>4, <1>7, WeightType
<1> QED
  BY <1>4, <1>8, <1>10, <1>12, <1>13, SizesAssumption DEF Capped

\* The last of a list beyond a limit may be added up first.
Cut(q, s, t, m, n) ==
  /\ n \in Nat /\ m \in 1..n
  /\ s \in [1..n -> Nat]
  /\ t \in [1..(n - m + 1) -> Nat] /\ \A i \in 1..(n - m + 1) : t[i] = s[i + m - 1]
  /\ q = [i \in 1..m |-> q[i]] /\ \A i \in 1..(m - 1) : q[i] = s[i]
  /\ q[m] = SaturatingSum(t)

LEMMA SumType ==
    ASSUME NEW n \in Nat, NEW s \in [1..n -> Nat]
    PROVE  SaturatingSum(s) \in Nat
<1>1. IsFiniteSet(1..n)
  BY FS_Interval
<1>2. Weight(s) \in Nat
  BY <1>1, WeightType
<1> QED
  BY <1>2, SaturatingSumIsWeight, SizesAssumption DEF Capped

LEMMA OmittedFirst ==
    ASSUME NEW n, NEW m, NEW s, NEW t, NEW q, Cut(q, s, t, m, n)
    PROVE  SaturatingSum(q) = SaturatingSum(s)
<1>1. PICK N \in Nat : N = n
  BY DEF Cut
<1>2. PICK M \in Nat \ {0} : M = m /\ M <= N
  BY <1>1 DEF Cut
<1>3. /\ s \in [1..N -> Nat]
      /\ t \in [1..(N - M + 1) -> Nat] /\ \A i \in 1..(N - M + 1) : t[i] = s[i + M - 1]
      /\ q = [i \in 1..M |-> q[i]] /\ \A i \in 1..(M - 1) : q[i] = s[i]
      /\ q[M] = SaturatingSum(t)
  BY <1>1, <1>2, Zenon DEF Cut
<1>4. N - M + 1 \in Nat /\ M - 1 \in Nat /\ M \in 1..N
  BY <1>2
<1>5. q \in [1..M -> Nat]
  <2>1. SaturatingSum(t) \in Nat
    BY <1>2, <1>3, <1>4, SumType
  <2>2. \A i \in 1..M : i \in 1..(M - 1) \/ i = m
    BY <1>2, <1>3, <1>4
  <2>3. \A i \in 1..(M - 1) : s[i] \in Nat
    BY <1>2, <1>3, <1>4
  <2>4. \A i \in 1..M : q[i] \in Nat
    BY <1>2, <1>3, <1>4, <2>1, <2>2, <2>3
  <2> QED
    BY <1>2, <1>3, <1>4, <2>4
<1>6. PICK E : E = 1..(N - M + 1)
  OBVIOUS
<1>7. PICK A : A = 1..(M - 1)
  OBVIOUS
<1>8. PICK B : B = M..N
  OBVIOUS
<1>9. PICK D : D = 1..N
  OBVIOUS
<1>10. PICK b : b = [i \in E |-> i + M - 1]
  OBVIOUS
<1>11. IsFiniteSet(D) /\ IsFiniteSet(E)
  <2>1. 1 \in Int /\ N \in Int /\ N - M + 1 \in Int
    OBVIOUS
  <2> QED
    BY <1>6, <1>9, <2>1, FS_Interval
<1>12. b \in Bijection(E, B)
  <2>1. b \in [E -> B] /\ (\A i, j \in E : b[i] = b[j] => i = j)
    <3>1. ASSUME NEW i \in E PROVE b[i] = i + M - 1 /\ b[i] \in B
      BY <1>2, <1>6, <1>8, <1>10
    <3>2. \A i, j \in E : b[i] = b[j] => i = j
      <4> SUFFICES ASSUME NEW i \in E, NEW j \in E, b[i] = b[j] PROVE i = j
        OBVIOUS
      <4>1. i + M - 1 = j + M - 1
        BY <3>1
      <4> QED
        BY <1>6, <1>4, <4>1
    <3>3. b = [i \in E |-> b[i]]
      BY <1>10
    <3> QED
      BY <3>1, <3>2, <3>3
  <2>2. \A k \in B : \E i \in E : b[i] = k
    <3> SUFFICES ASSUME NEW k \in B PROVE \E i \in E : b[i] = k
      OBVIOUS
    <3>1. k - M + 1 \in E
      BY <1>2, <1>3, <1>4, <1>6, <1>8
    <3>2. b[k - M + 1] = k
      BY <1>2, <1>3, <1>4, <1>8, <1>10, <3>1
    <3> QED
      BY <3>1, <3>2
  <2> QED
    BY <2>1, <2>2 DEF Bijection, Injection, IsInjective, Surjection
<1>13. Renames(b, t, s)
  BY <1>2, <1>3, <1>4, <1>6, <1>10 DEF Renames
<1>14. PICK F : F = 1..M
  OBVIOUS
<1>15. /\ s \in [D -> Nat] /\ t \in [E -> Nat] /\ q \in [F -> Nat]
       /\ Parts(D, A, B) /\ OneMore(F, A, M) /\ Agree(s, q, A)
  <2>1. s \in [D -> Nat] /\ t \in [E -> Nat] /\ q \in [F -> Nat]
    BY <1>3, <1>5, <1>6, <1>9, <1>14
  <2>2. Parts(D, A, B)
    <3>1. D = A \cup B
      BY <1>2, <1>7, <1>8, <1>9
    <3>2. A \cap B = {}
      BY <1>2, <1>7, <1>8
    <3> QED
      BY <3>1, <3>2 DEF Parts
  <2>3. OneMore(F, A, M)
    <3>1. F = A \cup {M}
      BY <1>2, <1>7, <1>14
    <3>2. M \notin A
      BY <1>2, <1>7
    <3> QED
      BY <3>1, <3>2 DEF OneMore
  <2>4. Agree(s, q, A)
    BY <1>3, <1>7 DEF Agree
  <2> QED
    BY <2>1, <2>2, <2>3, <2>4
<1>16. q[M] = Capped(Weight(t))
  BY <1>2, <1>3, <1>4, SaturatingSumIsWeight
<1>17. Capped(Weight(q)) = Capped(Weight(s))
  <2>1. Shortened(q, M, A, s, t, b, B)
    <3>1. DOMAIN s = D /\ DOMAIN t = E /\ DOMAIN q = F
      BY <1>2, <1>3, <1>4, <1>5, <1>6, <1>9, <1>14
    <3> QED
      BY <1>11, <1>12, <1>13, <1>15, <1>16, <3>1 DEF Shortened
  <2> QED
    BY <2>1, PartFirst
<1> QED
  BY <1>2, <1>3, <1>4, <1>5, <1>17, SaturatingSumIsWeight

-----------------------------------------------------------------------------
(* Lists cut at a limit                                                    *)

\* A list cut at a limit, with one row for the others.
LimitedTo(limit, rows, name) ==
  Append(SubSeq(rows, 1, limit - 1), Row("other", name, Omitted(SubSeq(rows, limit, Len(rows)))))

\* The fields of a row that are added up.
Fields == {"size", "files", "directories"}

\* What a row "other" says of the first n rows.
FieldSum(rows, n, field) == SaturatingSum([i \in 1..n |-> rows[i][field]])

LEMMA FieldSums ==
    ASSUME NEW rows, NEW n, DOMAIN rows = 1..n
    PROVE  \A field \in Fields : Omitted(rows)[field] = FieldSum(rows, n, field)
<1>1. Omitted(rows)["size"] = FieldSum(rows, n, "size")
  <2>1. Sizes(rows) = [i \in 1..n |-> rows[i]["size"]]
    BY DEF Sizes
  <2> QED
    BY <2>1 DEF Omitted, FieldSum
<1>2. Omitted(rows)["files"] = FieldSum(rows, n, "files")
  BY DEF Omitted, FieldSum
<1>3. Omitted(rows)["directories"] = FieldSum(rows, n, "directories")
  BY DEF Omitted, FieldSum
<1> QED
  BY <1>1, <1>2, <1>3 DEF Fields

LEMMA SameSums ==
    ASSUME NEW rows \in Seq(SomeRows), NEW m \in Nat \ {0}, m < Len(rows), NEW name
    PROVE  Omitted(LimitedTo(m, rows, name)) = Omitted(rows)
<1>1. PICK n \in Nat : n = Len(rows)
  OBVIOUS
<1>2. PICK tail : tail = SubSeq(rows, m, n)
  OBVIOUS
<1>3. PICK cut : cut = LimitedTo(m, rows, name)
  OBVIOUS
<1>4. DOMAIN rows = 1..n /\ \A i \in 1..n : rows[i] \in SomeRows
  BY <1>1
<1>5. /\ DOMAIN tail = 1..(n - m + 1)
      /\ \A i \in 1..(n - m + 1) : tail[i] = rows[i + m - 1] /\ tail[i] \in SomeRows
  BY <1>1, <1>2, <1>4
<1>6. PICK other : other = Row("other", name, Omitted(tail))
  OBVIOUS
<1>7. \A field \in Fields : other[field] = Omitted(tail)[field]
  BY <1>6 DEF Row, Fields
<1>8. /\ DOMAIN cut = 1..m
      /\ \A i \in 1..(m - 1) : cut[i] = rows[i]
      /\ cut[m] = other
  <2>1. PICK front : front = SubSeq(rows, 1, m - 1)
    OBVIOUS
  <2>2. front \in Seq(SomeRows) /\ Len(front) = m - 1 /\ \A i \in 1..(m - 1) : front[i] = rows[i]
    BY <1>1, <1>4, <2>1
  <2>3. cut = Append(front, other)
    BY <1>1, <1>2, <1>3, <1>6, <2>1 DEF LimitedTo
  <2> QED
    BY <2>2, <2>3
<1>9. m \in 1..n /\ n - m + 1 \in Nat
  BY <1>1
<1>10. \A field \in Fields : Omitted(tail)[field] = FieldSum(tail, n - m + 1, field)
  BY <1>5, FieldSums
<1>11. ASSUME NEW field \in Fields
       PROVE  FieldSum(cut, m, field) = FieldSum(rows, n, field)
  <2>1. PICK t : t = [i \in 1..(n - m + 1) |-> tail[i][field]]
    OBVIOUS
  <2>2. PICK s : s = [i \in 1..n |-> rows[i][field]]
    OBVIOUS
  <2>3. PICK q : q = [i \in 1..m |-> cut[i][field]]
    OBVIOUS
  <2>4. t \in [1..(n - m + 1) -> Nat] /\ s \in [1..n -> Nat]
    BY <1>4, <1>5, <2>1, <2>2 DEF SomeRows, Fields
  <2>5. \A i \in 1..(n - m + 1) : t[i] = s[i + m - 1]
    BY <1>5, <1>9, <2>1, <2>2
  <2>6. q[m] = SaturatingSum(t)
    <3>1. q[m] = other[field]
      BY <1>8, <1>9, <2>3
    <3>2. FieldSum(tail, n - m + 1, field) = SaturatingSum(t)
      BY <2>1 DEF FieldSum
    <3> QED
      BY <1>7, <1>10, <3>1, <3>2
  <2>7. \A i \in 1..(m - 1) : q[i] = s[i]
    BY <1>8, <1>9, <2>2, <2>3
  <2>8. q = [i \in 1..m |-> q[i]]
    BY <2>3
  <2>9. Cut(q, s, t, m, n)
    BY <1>9, <2>4, <2>5, <2>6, <2>7, <2>8 DEF Cut
  <2> QED
    BY <2>2, <2>3, <2>9, OmittedFirst DEF FieldSum
<1>12. \A field \in Fields : Omitted(cut)[field] = Omitted(rows)[field]
  BY <1>4, <1>8, <1>11, FieldSums
<1> QED
  BY <1>3, <1>12 DEF Omitted, Fields

\* The sums over the fields of a set of rows.
RowSum(S, field) == Weight([r \in S |-> r[field]])

SizeOf(S) == RowSum(S, "size")
FilesIn(S) == RowSum(S, "files")
DirectoriesIn(S) == RowSum(S, "directories")

LEMMA SumsOfRows ==
    ASSUME NEW S \in SUBSET SomeRows, IsFiniteSet(S),
           \A r, s \in S : r.name = s.name => r = s
    PROVE  /\ Descending(S) \in Seq(SomeRows)
           /\ Len(Descending(S)) = Cardinality(S)
           /\ Omitted(Descending(S)).size = Capped(SizeOf(S))
           /\ Omitted(Descending(S)).files = Capped(FilesIn(S))
           /\ Omitted(Descending(S)).directories = Capped(DirectoriesIn(S))
<1>1. PICK n \in Nat : n = Cardinality(S)
  BY FS_CardinalityType
<1>2. PICK t : t = Descending(S)
  OBVIOUS
<1>3. t \in Bijection(1..n, S)
  BY <1>1, <1>2, OrderOfRows
<1>4. t \in [1..n -> S]
  BY <1>3 DEF Bijection, Injection
<1>5. t \in Seq(SomeRows) /\ Len(t) = n /\ DOMAIN t = 1..n
  BY <1>4
<1>6. ASSUME NEW field \in Fields
      PROVE  Omitted(t)[field] = Capped(RowSum(S, field))
  <2>1. PICK v : v = [r \in S |-> r[field]]
    OBVIOUS
  <2>2. PICK s : s = [i \in 1..n |-> t[i][field]]
    OBVIOUS
  <2>3. v \in [S -> Nat] /\ s \in [1..n -> Nat] /\ Renames(t, s, v)
    BY <1>4, <2>1, <2>2 DEF Renames, SomeRows, Fields
  <2>4. SaturatingSum(s) = Capped(Weight(v))
    BY <1>3, <2>3, SumInAnyOrder
  <2>5. Omitted(t)[field] = FieldSum(t, n, field)
    BY <1>5, FieldSums
  <2> QED
    BY <2>1, <2>2, <2>4, <2>5 DEF RowSum, FieldSum
<1> QED
  BY <1>1, <1>2, <1>5, <1>6 DEF SizeOf, FilesIn, DirectoriesIn, Fields

-----------------------------------------------------------------------------
(* Values put into a map                                                   *)

LEMMA SaturatingAddCaps ==
    ASSUME NEW x \in Nat, NEW y \in Nat
    PROVE  SaturatingAdd(x, y) = Capped(x + y) /\ Capped(x + y) \in 0..MaxInt64
  BY SizesAssumption DEF SaturatingAdd, Capped

\* One value of a function set, whether it had one or not.
Replaced(f, k) == IF k \in DOMAIN f THEN f[k] ELSE 0

\* g is f with a value for k.
WithOne(f, g, k) == /\ IsFiniteSet(DOMAIN f) /\ f \in [DOMAIN f -> Nat]
                    /\ DOMAIN g = DOMAIN f \cup {k} /\ g \in [DOMAIN g -> Nat]
                    /\ \A i \in DOMAIN f : i # k => f[i] = g[i]

LEMMA WeightPut ==
    ASSUME NEW f, NEW g, NEW k, WithOne(f, g, k)
    PROVE  \E rest \in Nat : Weight(f) = rest + Replaced(f, k) /\ Weight(g) = rest + g[k]
<1>1. PICK D : D = DOMAIN f
  OBVIOUS
<1>2. PICK E : E = DOMAIN g
  OBVIOUS
<1>3. /\ IsFiniteSet(D) /\ f \in [D -> Nat] /\ E = D \cup {k} /\ g \in [E -> Nat]
      /\ Agree(f, g, D \ {k})
  BY <1>1, <1>2 DEF WithOne, Agree
<1>4. CASE k \in D
  <2>1. E = D
    BY <1>3, <1>4
  <2>2. g \in [D -> Nat]
    BY <1>3, <2>1
  <2> QED
    BY <1>1, <1>3, <1>4, <2>2, WeightChange DEF Replaced
<1>5. CASE k \notin D
  <2>1. OneMore(E, D, k) /\ Agree(f, g, D)
    BY <1>3, <1>5 DEF OneMore, Agree
  <2>2. Weight(g) = Weight(f) + g[k] /\ Weight(f) \in Nat
    BY <1>3, <2>1, WeightAdd
  <2> QED
    BY <1>1, <1>5, <2>2 DEF Replaced
<1> QED
  BY <1>4, <1>5

-----------------------------------------------------------------------------
(* Groups of entries                                                       *)

\* Maps of some keys.
Maps(K, V) == {m \in UNION {[D -> V] : D \in SUBSET K} : IsFiniteSet(DOMAIN m)}

LEMMA MapsAre ==
    ASSUME NEW K, NEW V, NEW m
    PROVE  m \in Maps(K, V) <=> DOMAIN m \in SUBSET K /\ IsFiniteSet(DOMAIN m) /\ m \in [DOMAIN m -> V]
  BY DEF Maps

\* What the values of a map add up to, field by field.
SumOf(m, field) == Weight([k \in DOMAIN m |-> m[k][field]])

SizesOf(m) == SumOf(m, "size")
FilesOf(m) == SumOf(m, "files")
DirectoriesOf(m) == SumOf(m, "directories")

\* p is m with the value x for k.
Inserted(p, m, k, x) == /\ DOMAIN p = DOMAIN m \cup {k} /\ p[k] = x
                        /\ \A j \in DOMAIN m \ {k} : p[j] = m[j]

LEMMA PutIntoMap ==
    ASSUME NEW K, NEW V, NEW m \in Maps(K, V), NEW k \in K, NEW x \in V
    PROVE  Put(m, k, x) \in Maps(K, V) /\ Inserted(Put(m, k, x), m, k, x)
<1>1. DOMAIN m \in SUBSET K /\ IsFiniteSet(DOMAIN m) /\ m \in [DOMAIN m -> V]
  BY MapsAre
<1>2. PICK p : p = Put(m, k, x)
  OBVIOUS
<1>3. p = [j \in DOMAIN m \cup {k} |-> IF j = k THEN x ELSE m[j]]
  BY <1>2 DEF Put
<1>4. IsFiniteSet(DOMAIN m \cup {k})
  BY <1>1, FS_AddElement
<1>5. DOMAIN p = DOMAIN m \cup {k} /\ p[k] = x /\ (\A j \in DOMAIN m \ {k} : p[j] = m[j])
      /\ p \in [DOMAIN m \cup {k} -> V]
  BY <1>1, <1>3
<1>6. DOMAIN p \in SUBSET K /\ IsFiniteSet(DOMAIN p) /\ p \in [DOMAIN p -> V]
  BY <1>1, <1>4, <1>5
<1>7. p \in Maps(K, V)
  BY <1>6, MapsAre
<1>8. Inserted(p, m, k, x)
  BY <1>5 DEF Inserted
<1> QED
  BY <1>2, <1>7, <1>8

\* A sum over a map after a value is put into it.
LEMMA SumPut ==
    ASSUME NEW field, NEW K, NEW V, \A x \in V : x[field] \in Nat,
           NEW m \in Maps(K, V), NEW k \in K, NEW x \in V
    PROVE  \E rest \in Nat : /\ SumOf(m, field) = rest + IF k \in DOMAIN m THEN m[k][field] ELSE 0
                             /\ SumOf(Put(m, k, x), field) = rest + x[field]
<1>1. DOMAIN m \in SUBSET K /\ IsFiniteSet(DOMAIN m) /\ m \in [DOMAIN m -> V]
  BY MapsAre
<1>2. PICK p : p = Put(m, k, x)
  OBVIOUS
<1>3. p \in Maps(K, V) /\ DOMAIN p = DOMAIN m \cup {k} /\ p[k] = x
      /\ \A j \in DOMAIN m \ {k} : p[j] = m[j]
  <2>1. p \in Maps(K, V) /\ Inserted(p, m, k, x)
    BY <1>2, PutIntoMap
  <2> QED
    BY <2>1 DEF Inserted
<1>4. p \in [DOMAIN p -> V]
  BY <1>3, MapsAre
<1>5. PICK f : f = [j \in DOMAIN m |-> m[j][field]]
  OBVIOUS
<1>6. PICK g : g = [j \in DOMAIN p |-> p[j][field]]
  OBVIOUS
<1>7. DOMAIN f = DOMAIN m /\ DOMAIN g = DOMAIN p /\ (\A j \in DOMAIN m : f[j] = m[j][field])
      /\ \A j \in DOMAIN p : g[j] = p[j][field]
  BY <1>5, <1>6
<1>8. WithOne(f, g, k)
  <2>1. f \in [DOMAIN f -> Nat] /\ g \in [DOMAIN g -> Nat]
    BY <1>1, <1>4, <1>5, <1>6, <1>7
  <2> QED
    BY <1>1, <1>3, <1>7, <2>1 DEF WithOne
<1>9. PICK rest \in Nat : Weight(f) = rest + Replaced(f, k) /\ Weight(g) = rest + g[k]
  BY <1>8, WeightPut
<1>10. Replaced(f, k) = IF k \in DOMAIN m THEN m[k][field] ELSE 0
  BY <1>7 DEF Replaced
<1>11. g[k] = x[field]
  BY <1>3, <1>7
<1> QED
  BY <1>2, <1>5, <1>6, <1>9, <1>10, <1>11 DEF SumOf

LEMMA SizePut ==
    ASSUME NEW K, NEW V, \A x \in V : x.size \in Nat,
           NEW m \in Maps(K, V), NEW k \in K, NEW x \in V
    PROVE  \E rest \in Nat : /\ SizesOf(m) = rest + IF k \in DOMAIN m THEN m[k].size ELSE 0
                             /\ SizesOf(Put(m, k, x)) = rest + x.size
  BY SumPut DEF SizesOf

LEMMA FilesPut ==
    ASSUME NEW K, NEW V, \A x \in V : x.files \in Nat,
           NEW m \in Maps(K, V), NEW k \in K, NEW x \in V
    PROVE  \E rest \in Nat : /\ FilesOf(m) = rest + IF k \in DOMAIN m THEN m[k].files ELSE 0
                             /\ FilesOf(Put(m, k, x)) = rest + x.files
  BY SumPut DEF FilesOf

LEMMA DirectoriesPut ==
    ASSUME NEW K, NEW V, \A x \in V : x.directories \in Nat,
           NEW m \in Maps(K, V), NEW k \in K, NEW x \in V
    PROVE  \E rest \in Nat : /\ DirectoriesOf(m) = rest + IF k \in DOMAIN m THEN m[k].directories ELSE 0
                             /\ DirectoriesOf(Put(m, k, x)) = rest + x.directories
  BY SumPut DEF DirectoriesOf

-----------------------------------------------------------------------------
(* Accounts in balance                                                     *)

\* The values of the maps of aggregates and of extensions.
Group == [size : Nat, files : Nat, directories : Nat]
FileGroup == [size : Nat, files : Nat]

\* The totals of a scan, without the limits of its maps.
Accounts == [entries : Nat, skipped : Nat, total : Nat, files : Nat, directories : Nat,
             aggregates : Maps(Nodes, Group), overflow : Group,
             extensions : Maps(Nat, FileGroup), otherExtensions : FileGroup,
             directFiles : SUBSET Nodes, directBytes : Nat, directCount : Nat,
             largest : SUBSET Nodes]

\* The bytes of some files.
Bytes(files) == Weight([f \in files |-> Size[f]])

\* Every byte, file and directory that was counted is in one group of the
\* first kind and in one of the second; the files of the root are listed
\* with no more bytes than they have.
Balanced(a) ==
  /\ a.total = Capped(SizesOf(a.aggregates) + a.overflow.size + a.directBytes)
  /\ a.directories = DirectoriesOf(a.aggregates) + a.overflow.directories
  /\ a.total = Capped(SizesOf(a.extensions) + a.otherExtensions.size)
  /\ a.files = FilesOf(a.extensions) + a.otherExtensions.files
  /\ a.otherExtensions.files = 0 => a.otherExtensions.size = 0
  /\ a.directBytes <= MaxInt64
  /\ Capped(Bytes(a.directFiles)) <= a.directBytes
  /\ Cardinality(a.directFiles) <= a.directCount
  /\ a.skipped + a.files + a.directories = a.entries
  /\ a.entries <= MaxEntries

\* An account that is in balance.
Sound(a) == a \in Accounts /\ Balanced(a)

LEMMA GroupSumType ==
    ASSUME NEW K, NEW V, NEW m \in Maps(K, V), NEW field, \A x \in V : x[field] \in Nat
    PROVE  SumOf(m, field) \in Nat
<1>1. IsFiniteSet(DOMAIN m) /\ m \in [DOMAIN m -> V]
  BY MapsAre
<1>2. PICK D : D = DOMAIN m
  OBVIOUS
<1>3. PICK f : f = [j \in D |-> m[j][field]]
  OBVIOUS
<1>4. f \in [D -> Nat] /\ IsFiniteSet(D)
  BY <1>1, <1>2, <1>3
<1>5. Weight(f) \in Nat
  BY <1>4, WeightType
<1> QED
  BY <1>2, <1>3, <1>5 DEF SumOf

LEMMA MapSums ==
    ASSUME NEW K, NEW V, NEW m \in Maps(K, V), \A x \in V : x.size \in Nat /\ x.files \in Nat
    PROVE  SizesOf(m) \in Nat /\ FilesOf(m) \in Nat
  BY GroupSumType DEF SizesOf, FilesOf

LEMMA MapDirectories ==
    ASSUME NEW K, NEW V, NEW m \in Maps(K, V), \A x \in V : x.directories \in Nat
    PROVE  DirectoriesOf(m) \in Nat
  BY GroupSumType DEF DirectoriesOf

LEMMA NothingIsSound == Sound(Empty)
<1>1. PICK e : e = << >>
  OBVIOUS
<1>2. DOMAIN e = {}
  BY <1>1
<1>3. \A K, V : e \in Maps(K, V)
  <2> SUFFICES ASSUME NEW K, NEW V PROVE e \in Maps(K, V)
    OBVIOUS
  <2>1. e \in [{} -> V]
    BY <1>1
  <2>2. DOMAIN e \in SUBSET K /\ IsFiniteSet(DOMAIN e)
    BY <1>2, FS_EmptySet
  <2>3. e \in [DOMAIN e -> V]
    BY <1>2, <2>1
  <2> QED
    BY <2>2, <2>3, MapsAre
<1>4. SizesOf(e) = 0 /\ FilesOf(e) = 0 /\ DirectoriesOf(e) = 0
  <2>1. \A field : DOMAIN [k \in DOMAIN e |-> e[k][field]] = {}
    BY <1>2
  <2>2. \A field : SumOf(e, field) = 0
    BY <2>1, WeightOfNone DEF SumOf
  <2> QED
    BY <2>2 DEF SizesOf, FilesOf, DirectoriesOf
<1>5. Bytes({}) = 0
  BY WeightOfNone DEF Bytes
<1>6. Empty \in Accounts
  BY <1>1, <1>3 DEF Empty, Accounts, Group, FileGroup, NoAggregate
<1>7. Balanced(Empty)
  <2>1. Cardinality({}) = 0
    BY FS_EmptySet
  <2>2. Capped(0) = 0
    BY SizesAssumption DEF Capped
  <2> QED
    BY <1>1, <1>4, <1>5, <2>1, <2>2, SizesAssumption, LimitsAssumption
    DEF Balanced, Empty, NoAggregate
<1> QED
  BY <1>6, <1>7 DEF Sound

\* A skipped entry.
LEMMA SkipSound ==
    ASSUME NEW a, Sound(a), ~ Full(a)
    PROVE  Sound(Skip(a))
<1>1. PICK b : b = Skip(a)
  OBVIOUS
<1>2. a \in Accounts /\ Balanced(a) /\ a.entries < MaxEntries
  BY LimitsAssumption DEF Sound, Full, Accounts
<1>3. b \in Accounts
  <2>1. PICK n \in Nat : n = a.entries + 1
    BY <1>2 DEF Accounts
  <2>2. PICK m \in Nat : m = a.skipped + 1
    BY <1>2 DEF Accounts
  <2>3. b = [a EXCEPT !.entries = n, !.skipped = m]
    BY <1>1, <2>1, <2>2 DEF Skip
  <2> QED
    BY <1>2, <2>3 DEF Accounts
<1>4. /\ b.entries = a.entries + 1 /\ b.skipped = a.skipped + 1
      /\ b.total = a.total /\ b.files = a.files /\ b.directories = a.directories
      /\ b.aggregates = a.aggregates /\ b.overflow = a.overflow
      /\ b.extensions = a.extensions /\ b.otherExtensions = a.otherExtensions
      /\ b.directFiles = a.directFiles /\ b.directBytes = a.directBytes
      /\ b.directCount = a.directCount /\ b.largest = a.largest
  BY <1>1, <1>2 DEF Skip, Accounts
<1>5. a.entries \in Nat /\ a.skipped \in Nat /\ a.files \in Nat /\ a.directories \in Nat
  BY <1>2 DEF Accounts
<1>6. Balanced(b)
  BY <1>2, <1>4, <1>5, LimitsAssumption DEF Balanced
<1> QED
  BY <1>1, <1>3, <1>6 DEF Sound

-----------------------------------------------------------------------------
(* What a file adds                                                        *)

\* All fields but some are the same.
SameBut(b, a, changed) ==
  \A k \in {"entries", "skipped", "total", "files", "directories", "aggregates", "overflow",
            "extensions", "otherExtensions", "directFiles", "directBytes", "directCount",
            "largest"} \ changed : b[k] = a[k]

LEMMA NodeSize == ASSUME NEW n \in Nodes PROVE Size[n] \in Nat /\ Extension[n] \in Nat
  BY SizesAssumption, NamesAssumption

LEMMA CappedSum ==
    ASSUME NEW x \in Nat, NEW y \in Nat
    PROVE  /\ Capped(x + y) \in Nat /\ Capped(x + y) <= MaxInt64
           /\ SaturatingAdd(x, y) = Capped(x + y)
<1>1. Capped(x + y) \in 0..MaxInt64 /\ SaturatingAdd(x, y) = Capped(x + y)
  BY SaturatingAddCaps
<1> QED
  BY <1>1, SizesAssumption

LEMMA FileAdded ==
    ASSUME NEW s \in Nat, NEW g \in FileGroup
    PROVE  /\ AddFile(g, s) \in FileGroup
           /\ AddFile(g, s).size = Capped(g.size + s) /\ AddFile(g, s).files = g.files + 1
<1>1. g.size \in Nat /\ g.files \in Nat
  BY DEF FileGroup
<1>2. PICK z \in Nat : z = Capped(g.size + s) /\ z = SaturatingAdd(g.size, s)
  BY <1>1, CappedSum
<1>3. PICK m \in Nat : m = g.files + 1
  BY <1>1
<1>4. AddFile(g, s) = [g EXCEPT !.size = z, !.files = m]
  BY <1>2, <1>3 DEF AddFile
<1> QED
  BY <1>2, <1>3, <1>4 DEF FileGroup

LEMMA FileAddedToDirectory ==
    ASSUME NEW s \in Nat, NEW g \in Group
    PROVE  /\ AddFile(g, s) \in Group
           /\ AddFile(g, s).size = Capped(g.size + s) /\ AddFile(g, s).files = g.files + 1
           /\ AddFile(g, s).directories = g.directories
<1>1. g.size \in Nat /\ g.files \in Nat
  BY DEF Group
<1>2. PICK z \in Nat : z = Capped(g.size + s) /\ z = SaturatingAdd(g.size, s)
  BY <1>1, CappedSum
<1>3. PICK m \in Nat : m = g.files + 1
  BY <1>1
<1>4. AddFile(g, s) = [g EXCEPT !.size = z, !.files = m]
  BY <1>2, <1>3 DEF AddFile
<1> QED
  BY <1>2, <1>3, <1>4 DEF Group

\* A sum that saturates, and one of its parts.
LEMMA ExtensionSums ==
    ASSUME NEW a \in Accounts, NEW f \in Nodes, NEW c, c = AddExtension(a, f)
    PROVE  /\ c \in Accounts
           /\ SameBut(c, a, {"extensions", "otherExtensions"})
           /\ Capped(SizesOf(c.extensions) + c.otherExtensions.size)
              = Capped(SizesOf(a.extensions) + a.otherExtensions.size + Size[f])
           /\ FilesOf(c.extensions) + c.otherExtensions.files
              = FilesOf(a.extensions) + a.otherExtensions.files + 1
           /\ (a.otherExtensions.files = 0 => a.otherExtensions.size = 0)
              => (c.otherExtensions.files = 0 => c.otherExtensions.size = 0)
<1>1. PICK s \in Nat : s = Size[f]
  BY NodeSize
<1>2. PICK ext \in Nat : ext = Extension[f]
  BY NodeSize
<1>3. PICK m \in Maps(Nat, FileGroup) : m = a.extensions
  BY DEF Accounts
<1>4. PICK other \in FileGroup : other = a.otherExtensions
  BY DEF Accounts
<1>5. SizesOf(m) \in Nat /\ FilesOf(m) \in Nat /\ other.size \in Nat /\ other.files \in Nat
  <2>1. \A v \in FileGroup : v.size \in Nat /\ v.files \in Nat
    BY DEF FileGroup
  <2>2. SizesOf(m) \in Nat /\ FilesOf(m) \in Nat
    BY <2>1, MapSums
  <2> QED
    BY <2>1, <2>2
<1>6. PICK old : old = IF ext \in DOMAIN m THEN m[ext] ELSE [size |-> 0, files |-> 0]
  OBVIOUS
<1>7. old \in FileGroup
  <2>1. m \in [DOMAIN m -> FileGroup]
    BY MapsAre
  <2> QED
    BY <1>6, <2>1 DEF FileGroup
<1>8. PICK known : known = (ext \in DOMAIN m \/ Cardinality(DOMAIN m) < MaxExtensions)
  OBVIOUS
<1>9. CASE known
  <2>1. PICK x : x = AddFile(old, s)
    OBVIOUS
  <2>2. x \in FileGroup /\ x.size = Capped(old.size + s) /\ x.files = old.files + 1
    BY <1>7, <2>1, FileAdded
  <2>3. PICK p : p = Put(m, ext, x)
    OBVIOUS
  <2>4. p \in Maps(Nat, FileGroup)
    BY <2>2, <2>3, PutIntoMap
  <2>5. c = [a EXCEPT !.extensions = p]
    BY <1>1, <1>2, <1>3, <1>6, <1>8, <1>9, <2>1, <2>3 DEF AddExtension
  <2>6. c \in Accounts /\ c.extensions = p /\ c.otherExtensions = other
        /\ SameBut(c, a, {"extensions", "otherExtensions"})
    BY <1>4, <2>4, <2>5 DEF Accounts, SameBut
  <2>7. \E rest \in Nat : SizesOf(m) = rest + old.size /\ SizesOf(p) = rest + x.size
    <3>1. \A v \in FileGroup : v.size \in Nat
      BY DEF FileGroup
    <3>2. PICK rest \in Nat : /\ SizesOf(m) = rest + IF ext \in DOMAIN m THEN m[ext].size ELSE 0
                              /\ SizesOf(p) = rest + x.size
      BY <2>2, <2>3, <3>1, SizePut
    <3> QED
      BY <1>6, <3>2
  <2>8. \E rest \in Nat : FilesOf(m) = rest + old.files /\ FilesOf(p) = rest + x.files
    <3>1. \A v \in FileGroup : v.files \in Nat
      BY DEF FileGroup
    <3>2. PICK rest \in Nat : /\ FilesOf(m) = rest + IF ext \in DOMAIN m THEN m[ext].files ELSE 0
                              /\ FilesOf(p) = rest + x.files
      BY <2>2, <2>3, <3>1, FilesPut
    <3> QED
      BY <1>6, <3>2
  <2>9. old.size \in Nat /\ old.files \in Nat
    BY <1>7 DEF FileGroup
  <2>10. Capped(SizesOf(p) + other.size) = Capped(SizesOf(m) + other.size + s)
    <3>1. PICK rest \in Nat : SizesOf(m) = rest + old.size /\ SizesOf(p) = rest + x.size
      BY <2>7
    <3>2. Capped(rest + Capped(old.size + s) + other.size)
          = Capped(rest + old.size + other.size + s)
      <4>1. PICK p1 \in Nat : p1 = old.size
        BY <2>9
      <4>2. PICK p2 \in Nat : p2 = other.size
        BY <1>5
      <4>3. Capped(rest + Capped(p1 + s) + p2) = Capped(rest + p1 + p2 + s)
        BY SizesAssumption DEF Capped
      <4> QED
        BY <4>1, <4>2, <4>3
    <3>3. rest + old.size + other.size + s = SizesOf(m) + other.size + s
      BY <3>1
    <3> QED
      BY <2>2, <3>1, <3>2, <3>3
  <2>11. FilesOf(p) + other.files = FilesOf(m) + other.files + 1
    BY <1>5, <2>2, <2>8, <2>9
  <2> QED
    BY <1>1, <1>3, <1>4, <2>6, <2>10, <2>11
<1>10. CASE ~ known
  <2>1. PICK x : x = AddFile(other, s)
    OBVIOUS
  <2>2. x \in FileGroup /\ x.size = Capped(other.size + s) /\ x.files = other.files + 1
    BY <2>1, FileAdded
  <2>3. c = [a EXCEPT !.otherExtensions = x]
    BY <1>1, <1>2, <1>3, <1>4, <1>6, <1>8, <1>10, <2>1 DEF AddExtension
  <2>4. c \in Accounts /\ c.extensions = m /\ c.otherExtensions = x
        /\ SameBut(c, a, {"extensions", "otherExtensions"})
    BY <1>3, <2>2, <2>3 DEF Accounts, SameBut
  <2>5. Capped(SizesOf(m) + x.size) = Capped(SizesOf(m) + other.size + s)
    BY <1>5, <2>2, SizesAssumption DEF Capped
  <2>6. FilesOf(m) + x.files = FilesOf(m) + other.files + 1 /\ x.files # 0
    BY <1>5, <2>2
  <2> QED
    BY <1>1, <1>3, <1>4, <2>4, <2>5, <2>6
<1> QED
  BY <1>8, <1>9, <1>10

-----------------------------------------------------------------------------
(* The visit of a directory                                                *)

\* A value replaced in a map is put there.
LEMMA ReplacedIsPut ==
    ASSUME NEW K, NEW V, NEW m \in Maps(K, V), NEW k \in DOMAIN m, NEW x
    PROVE  [m EXCEPT ![k] = x] = Put(m, k, x)
<1>1. m \in [DOMAIN m -> V]
  BY MapsAre
<1>2. DOMAIN m \cup {k} = DOMAIN m
  OBVIOUS
<1> QED
  BY <1>1, <1>2 DEF Put

LEMMA GroupFields ==
    /\ \A x \in Group : x.size \in Nat /\ x.files \in Nat /\ x.directories \in Nat
    /\ \A x \in FileGroup : x.size \in Nat /\ x.files \in Nat
  BY DEF Group, FileGroup

\* What an account says of directories, after one more.
LEMMA DirectoryBalance ==
    ASSUME NEW a, Sound(a), ~ Full(a), NEW b \in Accounts,
           SameBut(b, a, {"entries", "directories", "aggregates", "overflow"}),
           b.entries = a.entries + 1, b.directories = a.directories + 1,
           SizesOf(b.aggregates) + b.overflow.size = SizesOf(a.aggregates) + a.overflow.size,
           DirectoriesOf(b.aggregates) + b.overflow.directories
           = DirectoriesOf(a.aggregates) + a.overflow.directories + 1
    PROVE  Sound(b)
<1>1. a \in Accounts /\ Balanced(a) /\ a.entries < MaxEntries
  BY LimitsAssumption DEF Sound, Full, Accounts
<1>2. /\ b.skipped = a.skipped /\ b.total = a.total /\ b.files = a.files
      /\ b.extensions = a.extensions /\ b.otherExtensions = a.otherExtensions
      /\ b.directFiles = a.directFiles /\ b.directBytes = a.directBytes
      /\ b.directCount = a.directCount
  BY DEF SameBut
<1>3. a.entries \in Nat /\ a.skipped \in Nat /\ a.files \in Nat /\ a.directories \in Nat
  BY <1>1 DEF Accounts
<1>4. b.total = Capped(SizesOf(b.aggregates) + b.overflow.size + b.directBytes)
  BY <1>1, <1>2 DEF Balanced
<1>5. b.directories = DirectoriesOf(b.aggregates) + b.overflow.directories
  BY <1>1 DEF Balanced
<1>6. b.skipped + b.files + b.directories = b.entries /\ b.entries <= MaxEntries
  BY <1>1, <1>2, <1>3, LimitsAssumption DEF Balanced
<1>7. Balanced(b)
  BY <1>1, <1>2, <1>4, <1>5, <1>6 DEF Balanced
<1> QED
  BY <1>7 DEF Sound

LEMMA VisitDirectorySound ==
    ASSUME NEW a, Sound(a), ~ Full(a), NEW dir \in Nodes \ {Root}, dir \notin DOMAIN a.aggregates,
           NEW b, b = VisitDirectory([a EXCEPT !.entries = @ + 1], dir)
    PROVE  /\ Sound(b)
           /\ SameBut(b, a, {"entries", "directories", "aggregates", "overflow"})
           /\ b.directories = a.directories + 1
           /\ DOMAIN b.aggregates \subseteq DOMAIN a.aggregates \cup {dir}
<1>1. a \in Accounts
  BY DEF Sound
<1>2. PICK m \in Maps(Nodes, Group) : m = a.aggregates
  BY <1>1 DEF Accounts
<1>3. PICK overflow \in Group : overflow = a.overflow
  BY <1>1 DEF Accounts
<1>4. PICK e \in Nat : e = a.entries + 1
  BY <1>1 DEF Accounts
<1>5. PICK d \in Nat : d = a.directories + 1
  BY <1>1 DEF Accounts
<1>6. PICK first : first = First[dir]
  OBVIOUS
<1>7. PICK c : c = [a EXCEPT !.entries = e, !.directories = d]
  OBVIOUS
<1>8. /\ c \in Accounts /\ c.aggregates = m /\ c.overflow = overflow
      /\ c.entries = e /\ c.directories = d /\ SameBut(c, a, {"entries", "directories"})
  BY <1>1, <1>2, <1>3, <1>7 DEF Accounts, SameBut
<1>9. b = IF Direct(dir) /\ Cardinality(DOMAIN m) < MaxDirectories
          THEN [c EXCEPT !.aggregates = Put(@, dir, [NoAggregate EXCEPT !.directories = 1])]
          ELSE IF first \in DOMAIN m
          THEN [c EXCEPT !.aggregates[first].directories = @ + 1]
          ELSE [c EXCEPT !.overflow.directories = @ + 1]
  <2>1. PICK z : z = [a EXCEPT !.entries = @ + 1]
    OBVIOUS
  <2>2. z.aggregates = m /\ [z EXCEPT !.directories = @ + 1] = c
    BY <1>1, <1>2, <1>4, <1>5, <1>7, <2>1 DEF Accounts
  <2> QED
    BY <1>6, <2>1, <2>2 DEF VisitDirectory
<1>10. /\ SizesOf(m) \in Nat /\ DirectoriesOf(m) \in Nat
       /\ overflow.size \in Nat /\ overflow.directories \in Nat
  BY MapSums, MapDirectories, GroupFields
<1>11. m \in [DOMAIN m -> Group] /\ DOMAIN m \subseteq Nodes
  BY MapsAre
<1>12. ASSUME NEW k \in Nodes, NEW x \in Group, b = [c EXCEPT !.aggregates = Put(m, k, x)],
              k \in DOMAIN m => x.size = m[k].size /\ x.directories = m[k].directories + 1,
              k \notin DOMAIN m => k = dir /\ x.size = 0 /\ x.directories = 1
       PROVE  /\ Sound(b)
              /\ SameBut(b, a, {"entries", "directories", "aggregates", "overflow"})
              /\ b.directories = a.directories + 1
              /\ DOMAIN b.aggregates \subseteq DOMAIN a.aggregates \cup {dir}
  <2>1. PICK p : p = Put(m, k, x)
    OBVIOUS
  <2>2. p \in Maps(Nodes, Group) /\ DOMAIN p = DOMAIN m \cup {k}
    <3>1. p \in Maps(Nodes, Group) /\ Inserted(p, m, k, x)
      BY <2>1, PutIntoMap
    <3> QED
      BY <3>1 DEF Inserted
  <2>3. /\ b \in Accounts /\ b.aggregates = p /\ b.overflow = overflow
        /\ b.entries = e /\ b.directories = d
        /\ SameBut(b, a, {"entries", "directories", "aggregates", "overflow"})
    BY <1>8, <1>12, <2>1, <2>2 DEF Accounts, SameBut
  <2>4. x.size \in Nat /\ x.directories \in Nat
    BY GroupFields
  <2>5. SizesOf(p) = SizesOf(m)
    <3>1. PICK rest \in Nat : /\ SizesOf(m) = rest + IF k \in DOMAIN m THEN m[k].size ELSE 0
                              /\ SizesOf(p) = rest + x.size
      BY <2>1, GroupFields, SizePut
    <3> QED
      BY <1>12, <2>4, <3>1
  <2>6. DirectoriesOf(p) = DirectoriesOf(m) + 1
    <3>1. PICK rest \in Nat :
            /\ DirectoriesOf(m) = rest + IF k \in DOMAIN m THEN m[k].directories ELSE 0
            /\ DirectoriesOf(p) = rest + x.directories
      BY <2>1, GroupFields, DirectoriesPut
    <3>2. k \in DOMAIN m => m[k].directories \in Nat
      BY <1>11, GroupFields
    <3> QED
      BY <1>12, <2>4, <3>1, <3>2
  <2>7. DirectoriesOf(p) + overflow.directories = DirectoriesOf(m) + overflow.directories + 1
    BY <1>10, <2>6
  <2>8. Sound(b)
    BY <1>2, <1>3, <1>4, <1>5, <2>3, <2>5, <2>7, DirectoryBalance
  <2> QED
    BY <1>2, <1>5, <1>12, <2>2, <2>3, <2>8
<1>13. CASE Direct(dir) /\ Cardinality(DOMAIN m) < MaxDirectories
  <2>1. PICK x : x = [NoAggregate EXCEPT !.directories = 1]
    OBVIOUS
  <2>2. x \in Group /\ x.size = 0 /\ x.directories = 1
    BY <2>1 DEF NoAggregate, Group
  <2>3. b = [c EXCEPT !.aggregates = Put(m, dir, x)]
    BY <1>8, <1>9, <1>13, <2>1
  <2> QED
    BY <1>2, <1>12, <2>2, <2>3
<1>14. CASE ~ (Direct(dir) /\ Cardinality(DOMAIN m) < MaxDirectories) /\ first \in DOMAIN m
  <2>1. PICK old \in Group : old = m[first]
    BY <1>11, <1>14
  <2>2. PICK n \in Nat : n = old.directories + 1
    BY GroupFields
  <2>3. PICK x : x = [old EXCEPT !.directories = n]
    OBVIOUS
  <2>4. x \in Group /\ x.size = old.size /\ x.directories = n
    BY <2>3 DEF Group
  <2>5. b = [c EXCEPT !.aggregates = [m EXCEPT ![first] = x]]
    BY <1>8, <1>9, <1>14, <2>1, <2>2, <2>3
  <2>6. [m EXCEPT ![first] = x] = Put(m, first, x)
    BY <1>14, ReplacedIsPut
  <2> QED
    BY <1>11, <1>12, <1>14, <2>1, <2>2, <2>4, <2>5, <2>6
<1>15. CASE ~ (Direct(dir) /\ Cardinality(DOMAIN m) < MaxDirectories) /\ first \notin DOMAIN m
  <2>1. PICK n \in Nat : n = overflow.directories + 1
    BY GroupFields
  <2>2. PICK x : x = [overflow EXCEPT !.directories = n]
    OBVIOUS
  <2>3. x \in Group /\ x.size = overflow.size /\ x.directories = n
    BY <2>2 DEF Group
  <2>4. b = [c EXCEPT !.overflow = x]
    BY <1>8, <1>9, <1>15, <2>1, <2>2
  <2>5. /\ b \in Accounts /\ b.aggregates = m /\ b.overflow = x
        /\ b.entries = e /\ b.directories = d
        /\ SameBut(b, a, {"entries", "directories", "aggregates", "overflow"})
    BY <1>8, <2>3, <2>4 DEF Accounts, SameBut
  <2>6. DirectoriesOf(m) + x.directories = DirectoriesOf(m) + overflow.directories + 1
    BY <1>10, <2>1, <2>3
  <2>7. Sound(b)
    BY <1>2, <1>3, <1>4, <1>5, <2>3, <2>5, <2>6, DirectoryBalance
  <2> QED
    BY <1>2, <1>5, <2>5, <2>7
<1> QED
  BY <1>13, <1>14, <1>15

-----------------------------------------------------------------------------
(* The largest files                                                       *)

\* The bytes of some files.
LEMMA BytesType ==
    ASSUME NEW S \in SUBSET Nodes
    PROVE  IsFiniteSet(S) /\ Bytes(S) \in Nat /\ Cardinality(S) \in Nat
<1>1. IsFiniteSet(S)
  BY TreeAssumption, FS_Subset
<1>2. PICK f : f = [n \in S |-> Size[n]]
  OBVIOUS
<1>3. f \in [S -> Nat]
  BY <1>2, SizesAssumption
<1> QED
  BY <1>1, <1>2, <1>3, WeightType, FS_CardinalityType DEF Bytes

LEMMA BytesOfMore ==
    ASSUME NEW S \in SUBSET Nodes, NEW x \in Nodes \ S
    PROVE  Bytes(S \cup {x}) = Bytes(S) + Size[x]
<1>1. IsFiniteSet(S)
  BY BytesType
<1>2. PICK E : E = S \cup {x}
  OBVIOUS
<1>3. PICK f : f = [n \in S |-> Size[n]]
  OBVIOUS
<1>4. PICK g : g = [n \in E |-> Size[n]]
  OBVIOUS
<1>5. f \in [S -> Nat] /\ g \in [E -> Nat] /\ Agree(f, g, S) /\ g[x] = Size[x]
  BY <1>2, <1>3, <1>4, SizesAssumption DEF Agree
<1>6. OneMore(E, S, x)
  BY <1>2 DEF OneMore
<1>7. Weight(g) = Weight(f) + g[x]
  BY <1>1, <1>5, <1>6, WeightAdd
<1> QED
  BY <1>2, <1>3, <1>4, <1>5, <1>7 DEF Bytes

LEMMA BytesOfFewer ==
    ASSUME NEW S \in SUBSET Nodes, NEW T \in SUBSET S
    PROVE  Bytes(T) <= Bytes(S)
<1>1. IsFiniteSet(S)
  BY BytesType
<1>2. PICK U : U = S \ T
  OBVIOUS
<1>3. PICK f : f = [n \in S |-> Size[n]]
  OBVIOUS
<1>4. PICK g : g = [n \in T |-> Size[n]]
  OBVIOUS
<1>5. PICK h : h = [n \in U |-> Size[n]]
  OBVIOUS
<1>6. /\ f \in [S -> Nat] /\ g \in [T -> Nat] /\ h \in [U -> Nat]
      /\ Agree(f, g, T) /\ Agree(f, h, U)
  BY <1>2, <1>3, <1>4, <1>5, SizesAssumption DEF Agree
<1>7. Parts(S, T, U)
  BY <1>2 DEF Parts
<1>8. Weight(f) = Weight(g) + Weight(h) /\ Weight(g) \in Nat /\ Weight(h) \in Nat
  BY <1>1, <1>6, <1>7, WeightSplit
<1> QED
  BY <1>3, <1>4, <1>8 DEF Bytes

LEMMA PushedWithin ==
    ASSUME NEW S \in SUBSET Nodes, NEW x \in Nodes, NEW limit
    PROVE  PushLargest(S, x, limit) \in SUBSET (S \cup {x})
  BY DEF PushLargest

LEMMA PushedBounds ==
    ASSUME NEW S \in SUBSET Nodes, NEW x \in Nodes, NEW T \in SUBSET (S \cup {x})
    PROVE  /\ T \in SUBSET Nodes
           /\ Bytes(T) <= Bytes(S) + Size[x] /\ Cardinality(T) <= Cardinality(S) + 1
<1>1. PICK E : E = S \cup {x}
  OBVIOUS
<1>2. E \in SUBSET Nodes /\ T \in SUBSET E /\ T \in SUBSET Nodes
  BY <1>1
<1>3. /\ IsFiniteSet(S) /\ Bytes(S) \in Nat /\ Cardinality(S) \in Nat
      /\ IsFiniteSet(E) /\ Bytes(E) \in Nat /\ Cardinality(E) \in Nat
      /\ Bytes(T) \in Nat /\ Cardinality(T) \in Nat /\ Size[x] \in Nat
  BY <1>2, BytesType, NodeSize
<1>4. Bytes(E) <= Bytes(S) + Size[x]
  <2>1. CASE x \in S
    BY <1>1, <1>3, <2>1
  <2>2. CASE x \notin S
    BY <1>1, <1>3, <2>2, BytesOfMore
  <2> QED
    BY <2>1, <2>2
<1>5. Cardinality(E) <= Cardinality(S) + 1
  BY <1>1, <1>3, FS_AddElement
<1>6. Bytes(T) <= Bytes(E)
  BY <1>2, BytesOfFewer
<1>7. Cardinality(T) <= Cardinality(E)
  BY <1>2, <1>3, FS_Subset
<1> QED
  BY <1>2, <1>3, <1>4, <1>5, <1>6, <1>7

-----------------------------------------------------------------------------

\* An account b is an account a with one more file of some size.
FileCounted(b, a, s) ==
  /\ b.entries = a.entries + 1 /\ b.files = a.files + 1
  /\ b.skipped = a.skipped /\ b.directories = a.directories
  /\ b.total = Capped(a.total + s)
  /\ Capped(SizesOf(b.extensions) + b.otherExtensions.size)
     = Capped(SizesOf(a.extensions) + a.otherExtensions.size + s)
  /\ FilesOf(b.extensions) + b.otherExtensions.files
     = FilesOf(a.extensions) + a.otherExtensions.files + 1
  /\ b.otherExtensions.files = 0 => b.otherExtensions.size = 0
  /\ Capped(SizesOf(b.aggregates) + b.overflow.size + b.directBytes)
     = Capped(SizesOf(a.aggregates) + a.overflow.size + a.directBytes + s)
  /\ DirectoriesOf(b.aggregates) + b.overflow.directories
     = DirectoriesOf(a.aggregates) + a.overflow.directories
  /\ b.directBytes <= MaxInt64
  /\ Capped(Bytes(b.directFiles)) <= b.directBytes
  /\ Cardinality(b.directFiles) <= b.directCount

LEMMA CappedTwice ==
    ASSUME NEW x \in Nat, NEW s \in Nat, NEW y, y = Capped(x)
    PROVE  Capped(y + s) = Capped(x + s)
  BY SizesAssumption DEF Capped

LEMMA FileBalance ==
    ASSUME NEW a, Sound(a), ~ Full(a), NEW b \in Accounts, NEW s \in Nat, FileCounted(b, a, s)
    PROVE  Sound(b)
<1>1. a \in Accounts /\ Balanced(a) /\ a.entries < MaxEntries
  BY LimitsAssumption DEF Sound, Full, Accounts
<1>2. /\ a.entries \in Nat /\ a.skipped \in Nat /\ a.files \in Nat /\ a.directories \in Nat
      /\ a.total \in Nat /\ a.directBytes \in Nat
      /\ a.aggregates \in Maps(Nodes, Group) /\ a.extensions \in Maps(Nat, FileGroup)
      /\ a.overflow \in Group /\ a.otherExtensions \in FileGroup
  BY <1>1 DEF Accounts
<1>3. /\ SizesOf(a.aggregates) \in Nat /\ SizesOf(a.extensions) \in Nat
      /\ a.overflow.size \in Nat /\ a.otherExtensions.size \in Nat
  BY <1>2, MapSums, GroupFields
<1>4. PICK x \in Nat : x = SizesOf(a.aggregates) + a.overflow.size + a.directBytes
  BY <1>2, <1>3
<1>5. PICK y \in Nat : y = SizesOf(a.extensions) + a.otherExtensions.size
  BY <1>3
<1>6. a.total = Capped(x) /\ a.total = Capped(y)
  BY <1>1, <1>4, <1>5 DEF Balanced
<1>7. Capped(a.total + s) = Capped(x + s) /\ Capped(a.total + s) = Capped(y + s)
  BY <1>6, CappedTwice
<1>8. b.total = Capped(SizesOf(b.aggregates) + b.overflow.size + b.directBytes)
  BY <1>4, <1>7 DEF FileCounted
<1>9. b.total = Capped(SizesOf(b.extensions) + b.otherExtensions.size)
  BY <1>5, <1>7 DEF FileCounted
<1>10. b.skipped + b.files + b.directories = b.entries /\ b.entries <= MaxEntries
  BY <1>1, <1>2, LimitsAssumption DEF Balanced, FileCounted
<1>11. b.directories = DirectoriesOf(b.aggregates) + b.overflow.directories
  BY <1>1 DEF Balanced, FileCounted
<1>12. b.files = FilesOf(b.extensions) + b.otherExtensions.files
  BY <1>1 DEF Balanced, FileCounted
<1>13. Balanced(b)
  BY <1>8, <1>9, <1>10, <1>11, <1>12 DEF Balanced, FileCounted
<1> QED
  BY <1>13 DEF Sound

-----------------------------------------------------------------------------
(* The visit of a file                                                     *)

\* An account d is an account a with a file counted in its totals and under
\* its extension, and in no row of children yet.
HalfCounted(d, a, s) ==
  /\ d \in Accounts
  /\ SameBut(d, a, {"entries", "files", "total", "extensions", "otherExtensions", "largest"})
  /\ d.entries = a.entries + 1 /\ d.files = a.files + 1 /\ d.total = Capped(a.total + s)
  /\ Capped(SizesOf(d.extensions) + d.otherExtensions.size)
     = Capped(SizesOf(a.extensions) + a.otherExtensions.size + s)
  /\ FilesOf(d.extensions) + d.otherExtensions.files
     = FilesOf(a.extensions) + a.otherExtensions.files + 1
  /\ d.otherExtensions.files = 0 => d.otherExtensions.size = 0

LEMMA HalfwayThere ==
    ASSUME NEW a, Sound(a), NEW file \in Nodes,
           NEW d, d = [AddExtension([a EXCEPT !.entries = @ + 1], file) EXCEPT
                         !.files = @ + 1, !.total = SaturatingAdd(@, Size[file]),
                         !.largest = PushLargest(@, file, MaxLargest)]
    PROVE  HalfCounted(d, a, Size[file]) /\ d.largest = PushLargest(a.largest, file, MaxLargest)
<1>1. a \in Accounts /\ (a.otherExtensions.files = 0 => a.otherExtensions.size = 0)
  BY DEF Sound, Balanced
<1>2. PICK s \in Nat : s = Size[file]
  BY NodeSize
<1>3. PICK e \in Nat : e = a.entries + 1
  BY <1>1 DEF Accounts
<1>4. PICK z : z = [a EXCEPT !.entries = e]
  OBVIOUS
<1>5. z \in Accounts /\ z.entries = e /\ SameBut(z, a, {"entries"})
  BY <1>1, <1>4 DEF Accounts, SameBut
<1>6. PICK c : c = AddExtension(z, file)
  OBVIOUS
<1>7. /\ c \in Accounts /\ SameBut(c, z, {"extensions", "otherExtensions"})
      /\ Capped(SizesOf(c.extensions) + c.otherExtensions.size)
         = Capped(SizesOf(z.extensions) + z.otherExtensions.size + s)
      /\ FilesOf(c.extensions) + c.otherExtensions.files
         = FilesOf(z.extensions) + z.otherExtensions.files + 1
      /\ (z.otherExtensions.files = 0 => z.otherExtensions.size = 0)
         => (c.otherExtensions.files = 0 => c.otherExtensions.size = 0)
  BY <1>2, <1>5, <1>6, ExtensionSums
<1>8. /\ c.entries = e /\ c.files = a.files /\ c.total = a.total /\ c.largest = a.largest
      /\ SameBut(c, a, {"entries", "extensions", "otherExtensions"})
      /\ z.extensions = a.extensions /\ z.otherExtensions = a.otherExtensions
  BY <1>5, <1>7 DEF SameBut
<1>9. PICK n \in Nat : n = a.files + 1
  BY <1>1 DEF Accounts
<1>10. PICK t \in Nat : t = Capped(a.total + s) /\ t = SaturatingAdd(a.total, s)
  BY <1>1, CappedSum DEF Accounts
<1>11. PICK largest : largest = PushLargest(a.largest, file, MaxLargest)
  OBVIOUS
<1>12. largest \in SUBSET Nodes
  <2>1. a.largest \in SUBSET Nodes
    BY <1>1 DEF Accounts
  <2> QED
    BY <1>11, <2>1, PushedWithin
<1>13. d = [c EXCEPT !.files = n, !.total = t, !.largest = largest]
  <2>1. AddExtension([a EXCEPT !.entries = @ + 1], file) = c
    BY <1>3, <1>4, <1>6
  <2>2. d = [c EXCEPT !.files = @ + 1, !.total = SaturatingAdd(@, s),
                      !.largest = PushLargest(@, file, MaxLargest)]
    BY <1>2, <2>1
  <2> QED
    BY <1>7, <1>8, <1>9, <1>10, <1>11, <2>2 DEF Accounts
<1>14. /\ d \in Accounts /\ d.files = n /\ d.total = t /\ d.largest = largest
       /\ SameBut(d, c, {"files", "total", "largest"})
  BY <1>7, <1>9, <1>10, <1>12, <1>13 DEF Accounts, SameBut
<1>15. /\ SameBut(d, a, {"entries", "files", "total", "extensions", "otherExtensions", "largest"})
       /\ d.entries = e /\ d.extensions = c.extensions /\ d.otherExtensions = c.otherExtensions
  BY <1>8, <1>14 DEF SameBut
<1>16. HalfCounted(d, a, s)
  BY <1>1, <1>3, <1>7, <1>8, <1>9, <1>10, <1>14, <1>15 DEF HalfCounted
<1> QED
  BY <1>2, <1>11, <1>14, <1>16

\* What a visit of a file does besides.
FileVisited(b, a, file) ==
  /\ Sound(b)
  /\ b.files = a.files + 1 /\ b.total = Capped(a.total + Size[file])
  /\ b.directories = a.directories /\ b.skipped = a.skipped
  /\ b.largest = PushLargest(a.largest, file, MaxLargest)
  /\ DOMAIN b.aggregates = DOMAIN a.aggregates
  /\ b.directFiles \subseteq a.directFiles \cup {file}

LEMMA VisitDirectFile ==
    ASSUME NEW a, Sound(a), ~ Full(a), NEW file \in Nodes,
           NEW d, HalfCounted(d, a, Size[file]), d.largest = PushLargest(a.largest, file, MaxLargest),
           NEW b, b = [d EXCEPT !.directBytes = SaturatingAdd(@, Size[file]),
                                !.directCount = @ + 1,
                                !.directFiles = PushLargest(@, file, MaxChildren)]
    PROVE  FileVisited(b, a, file)
<1>1. a \in Accounts /\ Balanced(a)
  BY DEF Sound
<1>2. PICK s \in Nat : s = Size[file]
  BY NodeSize
<1>3. d \in Accounts
  BY DEF HalfCounted
<1>4. /\ d.directBytes = a.directBytes /\ d.directCount = a.directCount
      /\ d.directFiles = a.directFiles /\ d.aggregates = a.aggregates
      /\ d.overflow = a.overflow /\ d.skipped = a.skipped /\ d.directories = a.directories
  BY DEF HalfCounted, SameBut
<1>5. PICK bytes \in Nat : bytes = a.directBytes
  BY <1>1 DEF Accounts
<1>6. PICK count \in Nat : count = a.directCount
  BY <1>1 DEF Accounts
<1>7. PICK S \in SUBSET Nodes : S = a.directFiles
  BY <1>1 DEF Accounts
<1>8. PICK y \in Nat : y = Capped(bytes + s) /\ y = SaturatingAdd(bytes, s) /\ y <= MaxInt64
  BY CappedSum
<1>9. PICK T : T = PushLargest(S, file, MaxChildren)
  OBVIOUS
<1>10. /\ T \in SUBSET Nodes /\ T \subseteq S \cup {file}
       /\ Bytes(T) <= Bytes(S) + s /\ Cardinality(T) <= Cardinality(S) + 1
  <2>1. T \in SUBSET (S \cup {file})
    BY <1>9, PushedWithin
  <2> QED
    BY <1>2, <2>1, PushedBounds
<1>11. PICK m \in Nat : m = count + 1
  OBVIOUS
<1>12. b = [d EXCEPT !.directBytes = y, !.directCount = m, !.directFiles = T]
  BY <1>2, <1>3, <1>4, <1>5, <1>6, <1>7, <1>8, <1>9, <1>11 DEF Accounts
<1>13. /\ b \in Accounts /\ b.directBytes = y /\ b.directCount = m /\ b.directFiles = T
       /\ SameBut(b, d, {"directBytes", "directCount", "directFiles"})
  BY <1>3, <1>10, <1>12 DEF Accounts, SameBut
<1>14. /\ b.entries = d.entries /\ b.files = d.files /\ b.total = d.total
       /\ b.skipped = a.skipped /\ b.directories = a.directories /\ b.aggregates = a.aggregates
       /\ b.overflow = a.overflow /\ b.extensions = d.extensions
       /\ b.otherExtensions = d.otherExtensions /\ b.largest = d.largest
  BY <1>4, <1>13 DEF SameBut
<1>15. Capped(Bytes(S)) <= bytes /\ Cardinality(S) <= count /\ bytes <= MaxInt64
  BY <1>1, <1>5, <1>6, <1>7 DEF Balanced
<1>16. Capped(Bytes(T)) <= y
  <2>1. PICK p \in Nat : p = Bytes(S)
    BY BytesType
  <2>2. PICK q \in Nat : q = Bytes(T)
    BY <1>10, BytesType
  <2>3. q <= p + s /\ Capped(p) <= bytes
    BY <1>10, <1>15, <2>1, <2>2
  <2>4. Capped(q) <= Capped(bytes + s)
    BY <1>15, <2>3, SizesAssumption DEF Capped
  <2> QED
    BY <1>8, <2>2, <2>4
<1>17. Cardinality(T) <= m
  <2>1. Cardinality(S) \in Nat /\ Cardinality(T) \in Nat
    BY <1>10, BytesType
  <2> QED
    BY <1>10, <1>11, <1>15, <2>1
<1>18. Capped(SizesOf(b.aggregates) + b.overflow.size + b.directBytes)
       = Capped(SizesOf(a.aggregates) + a.overflow.size + a.directBytes + s)
  <2>1. SizesOf(a.aggregates) \in Nat /\ a.overflow.size \in Nat
    BY <1>1, MapSums, GroupFields DEF Accounts
  <2>2. PICK x \in Nat : x = SizesOf(a.aggregates) + a.overflow.size
    BY <2>1
  <2>3. Capped(x + Capped(bytes + s)) = Capped(x + bytes + s)
    BY SizesAssumption DEF Capped
  <2> QED
    BY <1>5, <1>8, <1>13, <1>14, <2>2, <2>3
<1>19. FileCounted(b, a, s)
  BY <1>2, <1>8, <1>13, <1>14, <1>16, <1>17, <1>18 DEF FileCounted, HalfCounted
<1>20. Sound(b)
  BY <1>13, <1>19, FileBalance
<1> QED
  BY <1>2, <1>7, <1>10, <1>13, <1>14, <1>19, <1>20 DEF FileVisited, FileCounted

LEMMA VisitFileInside ==
    ASSUME NEW a, Sound(a), ~ Full(a), NEW file \in Nodes,
           NEW d, HalfCounted(d, a, Size[file]), d.largest = PushLargest(a.largest, file, MaxLargest),
           NEW first \in DOMAIN a.aggregates,
           NEW b, b = [d EXCEPT !.aggregates[first] = AddFile(@, Size[file])]
    PROVE  FileVisited(b, a, file)
<1>1. a \in Accounts /\ Balanced(a)
  BY DEF Sound
<1>2. PICK s \in Nat : s = Size[file]
  BY NodeSize
<1>3. d \in Accounts
  BY DEF HalfCounted
<1>4. /\ d.directBytes = a.directBytes /\ d.directCount = a.directCount
      /\ d.directFiles = a.directFiles /\ d.aggregates = a.aggregates
      /\ d.overflow = a.overflow /\ d.skipped = a.skipped /\ d.directories = a.directories
  BY DEF HalfCounted, SameBut
<1>5. PICK m \in Maps(Nodes, Group) : m = a.aggregates
  BY <1>1 DEF Accounts
<1>6. m \in [DOMAIN m -> Group] /\ first \in DOMAIN m /\ first \in Nodes
  BY <1>5, MapsAre
<1>7. PICK old \in Group : old = m[first]
  BY <1>6
<1>8. PICK x : x = AddFile(old, s)
  OBVIOUS
<1>9. /\ x \in Group /\ x.size = Capped(old.size + s) /\ x.directories = old.directories
  BY <1>8, FileAddedToDirectory
<1>10. PICK p : p = Put(m, first, x)
  OBVIOUS
<1>11. p \in Maps(Nodes, Group) /\ Inserted(p, m, first, x)
  BY <1>6, <1>9, <1>10, PutIntoMap
<1>12. DOMAIN p = DOMAIN m
  BY <1>6, <1>11 DEF Inserted
<1>13. b = [d EXCEPT !.aggregates = p]
  <2>1. b = [d EXCEPT !.aggregates = [m EXCEPT ![first] = x]]
    BY <1>2, <1>3, <1>4, <1>5, <1>6, <1>7, <1>8 DEF Accounts
  <2>2. [m EXCEPT ![first] = x] = p
    BY <1>6, <1>10, ReplacedIsPut
  <2> QED
    BY <2>1, <2>2
<1>14. /\ b \in Accounts /\ b.aggregates = p /\ SameBut(b, d, {"aggregates"})
  BY <1>3, <1>11, <1>13 DEF Accounts, SameBut
<1>15. /\ b.entries = d.entries /\ b.files = d.files /\ b.total = d.total
       /\ b.skipped = a.skipped /\ b.directories = a.directories
       /\ b.directBytes = a.directBytes /\ b.directCount = a.directCount
       /\ b.directFiles = a.directFiles
       /\ b.overflow = a.overflow /\ b.extensions = d.extensions
       /\ b.otherExtensions = d.otherExtensions /\ b.largest = d.largest
  BY <1>4, <1>14 DEF SameBut
<1>16. PICK rest \in Nat : SizesOf(m) = rest + old.size /\ SizesOf(p) = rest + x.size
  <2>1. PICK rest \in Nat : /\ SizesOf(m) = rest + IF first \in DOMAIN m THEN m[first].size ELSE 0
                            /\ SizesOf(p) = rest + x.size
    BY <1>6, <1>9, <1>10, GroupFields, SizePut
  <2> QED
    BY <1>6, <1>7, <2>1
<1>17. DirectoriesOf(p) = DirectoriesOf(m)
  <2>1. PICK more \in Nat :
          /\ DirectoriesOf(m) = more + IF first \in DOMAIN m THEN m[first].directories ELSE 0
          /\ DirectoriesOf(p) = more + x.directories
    BY <1>6, <1>9, <1>10, GroupFields, DirectoriesPut
  <2> QED
    BY <1>6, <1>7, <1>9, <2>1
<1>18. Capped(SizesOf(b.aggregates) + b.overflow.size + b.directBytes)
       = Capped(SizesOf(a.aggregates) + a.overflow.size + a.directBytes + s)
  <2>1. a.overflow.size \in Nat /\ a.directBytes \in Nat
    BY <1>1, GroupFields DEF Accounts
  <2>2. PICK y \in Nat : y = a.overflow.size + a.directBytes
    BY <2>1
  <2>3. PICK z \in Nat : z = old.size
    BY GroupFields
  <2>4. Capped(rest + Capped(z + s) + y) = Capped(rest + z + y + s)
    BY SizesAssumption DEF Capped
  <2>5. PICK v \in Nat : v = x.size
    BY <1>9, GroupFields
  <2>6. rest + v + a.overflow.size + a.directBytes = rest + v + y
        /\ rest + z + a.overflow.size + a.directBytes + s = rest + z + y + s
    BY <2>1, <2>2
  <2> QED
    BY <1>5, <1>9, <1>14, <1>15, <1>16, <2>3, <2>4, <2>5, <2>6
<1>19. /\ a.directBytes <= MaxInt64 /\ Capped(Bytes(a.directFiles)) <= a.directBytes
       /\ Cardinality(a.directFiles) <= a.directCount
  BY <1>1 DEF Balanced
<1>20. FileCounted(b, a, s)
  BY <1>2, <1>5, <1>14, <1>15, <1>17, <1>18, <1>19 DEF FileCounted, HalfCounted
<1>21. Sound(b)
  BY <1>14, <1>20, FileBalance
<1> QED
  BY <1>2, <1>5, <1>12, <1>14, <1>15, <1>20, <1>21 DEF FileVisited, FileCounted

LEMMA VisitFileBeyond ==
    ASSUME NEW a, Sound(a), ~ Full(a), NEW file \in Nodes,
           NEW d, HalfCounted(d, a, Size[file]), d.largest = PushLargest(a.largest, file, MaxLargest),
           NEW b, b = [d EXCEPT !.overflow = AddFile(@, Size[file])]
    PROVE  FileVisited(b, a, file)
<1>1. a \in Accounts /\ Balanced(a)
  BY DEF Sound
<1>2. PICK s \in Nat : s = Size[file]
  BY NodeSize
<1>3. d \in Accounts
  BY DEF HalfCounted
<1>4. /\ d.directBytes = a.directBytes /\ d.directCount = a.directCount
      /\ d.directFiles = a.directFiles /\ d.aggregates = a.aggregates
      /\ d.overflow = a.overflow /\ d.skipped = a.skipped /\ d.directories = a.directories
  BY DEF HalfCounted, SameBut
<1>5. PICK old \in Group : old = a.overflow
  BY <1>1 DEF Accounts
<1>6. PICK x : x = AddFile(old, s)
  OBVIOUS
<1>7. /\ x \in Group /\ x.size = Capped(old.size + s) /\ x.directories = old.directories
  BY <1>6, FileAddedToDirectory
<1>8. b = [d EXCEPT !.overflow = x]
  BY <1>2, <1>3, <1>4, <1>5, <1>6 DEF Accounts
<1>9. /\ b \in Accounts /\ b.overflow = x /\ SameBut(b, d, {"overflow"})
  BY <1>3, <1>7, <1>8 DEF Accounts, SameBut
<1>10. /\ b.entries = d.entries /\ b.files = d.files /\ b.total = d.total
       /\ b.skipped = a.skipped /\ b.directories = a.directories
       /\ b.directBytes = a.directBytes /\ b.directCount = a.directCount
       /\ b.directFiles = a.directFiles
       /\ b.aggregates = a.aggregates /\ b.extensions = d.extensions
       /\ b.otherExtensions = d.otherExtensions /\ b.largest = d.largest
  BY <1>4, <1>9 DEF SameBut
<1>11. Capped(SizesOf(b.aggregates) + b.overflow.size + b.directBytes)
       = Capped(SizesOf(a.aggregates) + a.overflow.size + a.directBytes + s)
  <2>1. SizesOf(a.aggregates) \in Nat /\ a.directBytes \in Nat
    BY <1>1, MapSums, GroupFields DEF Accounts
  <2>2. PICK w \in Nat : w = SizesOf(a.aggregates)
    BY <2>1
  <2>3. PICK y \in Nat : y = a.directBytes
    BY <2>1
  <2>4. PICK z \in Nat : z = old.size
    BY GroupFields
  <2>5. Capped(w + Capped(z + s) + y) = Capped(w + z + y + s)
    BY SizesAssumption DEF Capped
  <2> QED
    BY <1>5, <1>7, <1>9, <1>10, <2>2, <2>3, <2>4, <2>5
<1>12. /\ a.directBytes <= MaxInt64 /\ Capped(Bytes(a.directFiles)) <= a.directBytes
       /\ Cardinality(a.directFiles) <= a.directCount
  BY <1>1 DEF Balanced
<1>13. FileCounted(b, a, s)
  BY <1>2, <1>5, <1>7, <1>9, <1>10, <1>11, <1>12 DEF FileCounted, HalfCounted
<1>14. Sound(b)
  BY <1>9, <1>13, FileBalance
<1> QED
  BY <1>2, <1>10, <1>13, <1>14 DEF FileVisited, FileCounted

LEMMA VisitFileSound ==
    ASSUME NEW a, Sound(a), ~ Full(a), NEW file \in Nodes,
           NEW b, b = VisitFile([a EXCEPT !.entries = @ + 1], file)
    PROVE  FileVisited(b, a, file)
<1>1. PICK z : z = [a EXCEPT !.entries = @ + 1]
  OBVIOUS
<1>2. PICK first : first = First[file]
  OBVIOUS
<1>3. PICK d : d = [AddExtension([a EXCEPT !.entries = @ + 1], file) EXCEPT
                      !.files = @ + 1, !.total = SaturatingAdd(@, Size[file]),
                      !.largest = PushLargest(@, file, MaxLargest)]
  OBVIOUS
<1>4. HalfCounted(d, a, Size[file]) /\ d.largest = PushLargest(a.largest, file, MaxLargest)
  BY <1>3, HalfwayThere
<1>5. z.aggregates = a.aggregates
  BY <1>1 DEF Sound, Accounts
<1>6. b = IF Direct(file)
          THEN [d EXCEPT !.directBytes = SaturatingAdd(@, Size[file]), !.directCount = @ + 1,
                         !.directFiles = PushLargest(@, file, MaxChildren)]
          ELSE IF first \in DOMAIN a.aggregates
          THEN [d EXCEPT !.aggregates[first] = AddFile(@, Size[file])]
          ELSE [d EXCEPT !.overflow = AddFile(@, Size[file])]
  BY <1>1, <1>2, <1>3, <1>5 DEF VisitFile
<1>7. CASE Direct(file)
  BY <1>4, <1>6, <1>7, VisitDirectFile
<1>8. CASE ~ Direct(file) /\ first \in DOMAIN a.aggregates
  BY <1>4, <1>6, <1>8, VisitFileInside
<1>9. CASE ~ Direct(file) /\ first \notin DOMAIN a.aggregates
  BY <1>4, <1>6, <1>9, VisitFileBeyond
<1> QED
  BY <1>7, <1>8, <1>9

-----------------------------------------------------------------------------
(* Sums over the rows                                                      *)

\* Sums over rows that come from a map, and over sets of rows together.
RowsAre(r, D, S) == /\ r \in [D -> SomeRows] /\ S = {r[i] : i \in D}
                    /\ \A i, j \in D : r[i].name = r[j].name => i = j

\* A set of rows adds up to what a map of them does, field by field.
SameSumsOf(S, r) == \A field \in Fields : RowSum(S, field) = SumOf(r, field)

LEMMA RowsFrom ==
    ASSUME NEW D, IsFiniteSet(D), NEW r, NEW S, RowsAre(r, D, S)
    PROVE  /\ \A x, y \in S : x.name = y.name => x = y
           /\ Cardinality(S) = Cardinality(D)
           /\ S \in SUBSET SomeRows /\ IsFiniteSet(S)
           /\ SameSumsOf(S, r)
<1>1. r \in [D -> SomeRows] /\ S = {r[i] : i \in D}
      /\ \A i, j \in D : r[i].name = r[j].name => i = j
  BY DEF RowsAre
<1>2. S \in SUBSET SomeRows
  BY <1>1
<1>3. r \in Bijection(D, S)
  BY <1>1 DEF Bijection, Injection, Surjection, IsInjective
<1>4. IsFiniteSet(S) /\ Cardinality(S) = Cardinality(D)
  <2>1. ExistsBijection(D, S)
    BY <1>3 DEF ExistsBijection
  <2> QED
    BY <2>1, FS_Bijection
<1>5. ASSUME NEW x \in S, NEW y \in S, x.name = y.name
      PROVE  x = y
  <2>1. PICK i \in D : x = r[i]
    BY <1>1
  <2>2. PICK j \in D : y = r[j]
    BY <1>1
  <2> QED
    BY <1>1, <1>5, <2>1, <2>2
<1>6. ASSUME NEW f \in [D -> Nat], NEW v \in [S -> Nat], \A i \in D : f[i] = v[r[i]]
      PROVE  Weight(v) = Weight(f)
  <2>1. Renames(r, f, v)
    BY <1>1, <1>6 DEF Renames
  <2> QED
    BY <1>3, <2>1, WeightRenamed
<1>7. ASSUME NEW field \in Fields PROVE RowSum(S, field) = SumOf(r, field)
  <2>1. PICK f : f = [i \in D |-> r[i][field]]
    OBVIOUS
  <2>2. PICK v : v = [x \in S |-> x[field]]
    OBVIOUS
  <2>3. f \in [D -> Nat] /\ v \in [S -> Nat] /\ \A i \in D : f[i] = v[r[i]]
    BY <1>1, <1>2, <2>1, <2>2 DEF SomeRows, Fields
  <2>4. Weight(v) = Weight(f)
    BY <1>6, <2>3
  <2>5. DOMAIN r = D
    BY <1>1
  <2> QED
    BY <2>1, <2>2, <2>4, <2>5 DEF RowSum, SumOf
<1> QED
  BY <1>2, <1>4, <1>7, <1>5 DEF SameSumsOf

LEMMA RowsTogether ==
    ASSUME NEW S \in SUBSET SomeRows, IsFiniteSet(S), NEW A, NEW B, Parts(S, A, B)
    PROVE  /\ SizeOf(S) = SizeOf(A) + SizeOf(B) /\ SizeOf(A) \in Nat /\ SizeOf(B) \in Nat
           /\ DirectoriesIn(S) = DirectoriesIn(A) + DirectoriesIn(B)
           /\ DirectoriesIn(A) \in Nat /\ DirectoriesIn(B) \in Nat
<1>1. A \in SUBSET SomeRows /\ B \in SUBSET SomeRows /\ A \subseteq S /\ B \subseteq S
  BY DEF Parts
<1>2. ASSUME NEW field \in Fields
      PROVE  /\ RowSum(S, field) = RowSum(A, field) + RowSum(B, field)
             /\ RowSum(A, field) \in Nat /\ RowSum(B, field) \in Nat
  <2>1. PICK f : f = [r \in S |-> r[field]]
    OBVIOUS
  <2>2. PICK g : g = [r \in A |-> r[field]]
    OBVIOUS
  <2>3. PICK h : h = [r \in B |-> r[field]]
    OBVIOUS
  <2>4. /\ f \in [S -> Nat] /\ g \in [A -> Nat] /\ h \in [B -> Nat]
        /\ Agree(f, g, A) /\ Agree(f, h, B)
    BY <1>1, <2>1, <2>2, <2>3 DEF SomeRows, Agree, Fields
  <2>5. Weight(f) = Weight(g) + Weight(h) /\ Weight(g) \in Nat /\ Weight(h) \in Nat
    BY <2>4, WeightSplit
  <2> QED
    BY <2>1, <2>2, <2>3, <2>5 DEF RowSum
<1> QED
  BY <1>2 DEF SizeOf, DirectoriesIn, Fields

\* At most one row.
LEMMA OneRow ==
    ASSUME NEW r \in SomeRows
    PROVE  SizeOf({r}) = r.size /\ DirectoriesIn({r}) = r.directories
<1>1. PICK f : f = [x \in {r} |-> x["size"]]
  OBVIOUS
<1>2. PICK g : g = [x \in {r} |-> x["directories"]]
  OBVIOUS
<1>3. f \in [{r} -> Nat] /\ g \in [{r} -> Nat] /\ f[r] = r.size /\ g[r] = r.directories
  BY <1>1, <1>2 DEF SomeRows
<1>4. Weight(f) = f[r] /\ Weight(g) = g[r]
  BY <1>3, WeightOfOne
<1> QED
  BY <1>1, <1>2, <1>3, <1>4 DEF SizeOf, DirectoriesIn, RowSum

LEMMA NoRow == SizeOf({}) = 0 /\ DirectoriesIn({}) = 0
<1>1. \A field : DOMAIN [r \in {} |-> r[field]] = {}
  OBVIOUS
<1> QED
  BY <1>1, WeightOfNone DEF SizeOf, DirectoriesIn, RowSum

-----------------------------------------------------------------------------

LEMMA RowFields ==
    ASSUME NEW kind \in RowKinds, NEW name \in Nat, NEW g,
           g.size \in Nat, g.files \in Nat, g.directories \in Nat, NEW r, r = Row(kind, name, g)
    PROVE  /\ r \in SomeRows /\ r.name = name /\ r.size = g.size /\ r.files = g.files
           /\ r.directories = g.directories
<1>1. PICK s \in Nat : s = g.size
  OBVIOUS
<1>2. PICK f \in Nat : f = g.files
  OBVIOUS
<1>3. PICK d \in Nat : d = g.directories
  OBVIOUS
<1>4. r = [kind |-> kind, name |-> name, size |-> s, files |-> f, directories |-> d]
  BY <1>1, <1>2, <1>3 DEF Row
<1> QED
  BY <1>1, <1>2, <1>3, <1>4 DEF SomeRows

\* The rows of the groups of a map.
LEMMA RowsOfGroups ==
    ASSUME NEW m \in Maps(Nat, Group), NEW kind \in RowKinds, NEW S,
           S = {Row(kind, k, m[k]) : k \in DOMAIN m}
    PROVE  /\ S \in SUBSET SomeRows /\ IsFiniteSet(S)
           /\ \A r \in S : r.name \in DOMAIN m
           /\ \A r, s \in S : r.name = s.name => r = s
           /\ SizeOf(S) = SizesOf(m) /\ FilesIn(S) = FilesOf(m)
           /\ DirectoriesIn(S) = DirectoriesOf(m)
<1>1. DOMAIN m \in SUBSET Nat /\ IsFiniteSet(DOMAIN m) /\ m \in [DOMAIN m -> Group]
  BY MapsAre
<1>2. PICK D : D = DOMAIN m
  OBVIOUS
<1>3. PICK r : r = [k \in D |-> Row(kind, k, m[k])]
  OBVIOUS
<1>4. \A k \in D : /\ r[k] \in SomeRows /\ r[k].name = k /\ r[k].size = m[k].size
                   /\ r[k].files = m[k].files /\ r[k].directories = m[k].directories
  <2> SUFFICES ASSUME NEW k \in D
               PROVE  /\ r[k] \in SomeRows /\ r[k].name = k /\ r[k].size = m[k].size
                      /\ r[k].files = m[k].files /\ r[k].directories = m[k].directories
    OBVIOUS
  <2>1. PICK g \in Group : g = m[k]
    BY <1>1, <1>2
  <2>2. PICK x : x = r[k]
    OBVIOUS
  <2>3. x = Row(kind, k, g)
    BY <1>3, <2>1, <2>2
  <2>4. k \in Nat
    BY <1>1, <1>2
  <2>5. g.size \in Nat /\ g.files \in Nat /\ g.directories \in Nat
    BY GroupFields
  <2>6. /\ x \in SomeRows /\ x.name = k /\ x.size = g.size /\ x.files = g.files
        /\ x.directories = g.directories
    BY <2>3, <2>4, <2>5, RowFields
  <2> QED
    BY <2>1, <2>2, <2>6
<1>5. r \in [D -> SomeRows] /\ S = {r[k] : k \in D}
  BY <1>2, <1>3, <1>4
<1>6. RowsAre(r, D, S)
  BY <1>4, <1>5 DEF RowsAre
<1>7. /\ \A x, y \in S : x.name = y.name => x = y
      /\ Cardinality(S) = Cardinality(D)
      /\ S \in SUBSET SomeRows /\ IsFiniteSet(S)
      /\ SameSumsOf(S, r)
  BY <1>1, <1>2, <1>6, RowsFrom
<1>8. \A field \in Fields : SumOf(r, field) = SumOf(m, field)
  <2> SUFFICES ASSUME NEW field \in Fields PROVE SumOf(r, field) = SumOf(m, field)
    OBVIOUS
  <2>1. DOMAIN r = D /\ DOMAIN m = D
    BY <1>2, <1>5
  <2>2. [k \in D |-> r[k][field]] = [k \in D |-> m[k][field]]
    BY <1>4 DEF Fields
  <2> QED
    BY <2>1, <2>2 DEF SumOf
<1>9. \A x \in S : x.name \in DOMAIN m
  BY <1>2, <1>4, <1>5
<1>10. \A field \in Fields : RowSum(S, field) = SumOf(m, field)
  BY <1>7, <1>8 DEF SameSumsOf
<1>11. SizeOf(S) = SizesOf(m) /\ FilesIn(S) = FilesOf(m) /\ DirectoriesIn(S) = DirectoriesOf(m)
  BY <1>10 DEF SizeOf, FilesIn, DirectoriesIn, SizesOf, FilesOf, DirectoriesOf, Fields
<1> QED
  BY <1>7, <1>9, <1>11

LEMMA NodeNumber ==
    /\ Cardinality(Nodes) \in Nat
    /\ \A n \in Nodes : n \in Nat /\ n < Cardinality(Nodes)
<1>1. Cardinality(Nodes) \in Nat
  BY TreeAssumption, FS_CardinalityType
<1>2. Nodes = 0 .. Cardinality(Nodes) - 1
  BY TreeAssumption
<1> QED
  BY <1>1, <1>2

LEMMA WeightOfZeros ==
    ASSUME NEW f, \A i \in DOMAIN f : f[i] = 0
    PROVE  Weight(f) = 0
<1>1. \A i \in DOMAIN f : {i} \X (1..f[i]) = {}
  OBVIOUS
<1>2. Units(f) = {}
  BY <1>1 DEF Units
<1> QED
  BY <1>2, FS_EmptySet DEF Weight

\* The rows of some files.
LEMMA RowsOfFiles ==
    ASSUME NEW F \in SUBSET Nodes, NEW S, S = {FileRow(f) : f \in F}
    PROVE  /\ S \in SUBSET SomeRows /\ IsFiniteSet(S) /\ Cardinality(S) = Cardinality(F)
           /\ \A r \in S : r.name \in F
           /\ \A r, s \in S : r.name = s.name => r = s
           /\ SizeOf(S) = Bytes(F) /\ DirectoriesIn(S) = 0
<1>1. IsFiniteSet(F)
  BY BytesType
<1>2. PICK r : r = [f \in F |-> FileRow(f)]
  OBVIOUS
<1>3. \A f \in F : /\ r[f] \in SomeRows /\ r[f].name = f /\ r[f].size = Size[f]
                   /\ r[f].directories = 0
  <2> SUFFICES ASSUME NEW f \in F
               PROVE  /\ r[f] \in SomeRows /\ r[f].name = f /\ r[f].size = Size[f]
                      /\ r[f].directories = 0
    OBVIOUS
  <2>1. PICK s \in Nat : s = Size[f]
    BY NodeSize
  <2>2. PICK g : g = [size |-> s, files |-> 1, directories |-> 0]
    OBVIOUS
  <2>3. g.size = s /\ g.files = 1 /\ g.directories = 0
    BY <2>2
  <2>4. PICK x : x = r[f]
    OBVIOUS
  <2>5. PICK kind \in RowKinds : kind = "file"
    BY DEF RowKinds
  <2>6. x = Row(kind, f, g)
    BY <1>2, <2>1, <2>2, <2>4, <2>5 DEF FileRow
  <2>7. f \in Nat
    BY NodeNumber
  <2>8. x \in SomeRows /\ x.name = f /\ x.size = s /\ x.directories = 0
    BY <2>3, <2>6, <2>7, RowFields
  <2> QED
    BY <2>1, <2>4, <2>8
<1>4. r \in [F -> SomeRows] /\ S = {r[f] : f \in F}
  BY <1>2, <1>3
<1>5. RowsAre(r, F, S)
  BY <1>3, <1>4 DEF RowsAre
<1>6. /\ \A x, y \in S : x.name = y.name => x = y
      /\ Cardinality(S) = Cardinality(F)
      /\ S \in SUBSET SomeRows /\ IsFiniteSet(S)
      /\ SameSumsOf(S, r)
  BY <1>1, <1>5, RowsFrom
<1>7. DOMAIN r = F
  BY <1>4
<1>8. SizeOf(S) = Bytes(F)
  <2>1. [i \in F |-> r[i]["size"]] = [i \in F |-> Size[i]]
    BY <1>3
  <2> QED
    BY <1>6, <1>7, <2>1 DEF Bytes, SizeOf, SumOf, Fields, SameSumsOf
<1>9. DirectoriesIn(S) = 0
  <2>1. PICK f : f = [i \in F |-> r[i]["directories"]]
    OBVIOUS
  <2>2. Weight(f) = 0
    BY <1>3, <2>1, WeightOfZeros
  <2> QED
    BY <1>6, <1>7, <2>1, <2>2 DEF DirectoriesIn, SumOf, Fields, SameSumsOf
<1>10. \A x \in S : x.name \in F
  BY <1>3, <1>4
<1> QED
  BY <1>6, <1>8, <1>9, <1>10

-----------------------------------------------------------------------------
(* The rows of children                                                    *)

\* Rows with the names in a set, each its own.
Named(S, names) == /\ S \in SUBSET SomeRows /\ IsFiniteSet(S)
                   /\ \A r \in S : r.name \in names
                   /\ \A r, s \in S : r.name = s.name => r = s

\* S has the rows of T and of U, which have no name in common.
Together(S, T, U) ==
  /\ U = S \cup T
  /\ SizeOf(U) = SizeOf(S) + SizeOf(T) /\ SizeOf(S) \in Nat /\ SizeOf(T) \in Nat
  /\ DirectoriesIn(U) = DirectoriesIn(S) + DirectoriesIn(T)
  /\ DirectoriesIn(S) \in Nat /\ DirectoriesIn(T) \in Nat

LEMMA NamedTogether ==
    ASSUME NEW S, NEW M, Named(S, M), NEW T, NEW N, Named(T, N), M \cap N = {},
           NEW U, U = S \cup T
    PROVE  Named(U, M \cup N) /\ Together(S, T, U)
<1>1. U \in SUBSET SomeRows /\ IsFiniteSet(U)
  BY FS_Union DEF Named
<1>2. \A r \in U : r.name \in M \cup N
  BY DEF Named
<1>3. ASSUME NEW r \in U, NEW s \in U, r.name = s.name
      PROVE  r = s
  BY <1>3 DEF Named
<1>4. Parts(U, S, T)
  BY DEF Parts, Named
<1>5. /\ SizeOf(U) = SizeOf(S) + SizeOf(T) /\ SizeOf(S) \in Nat /\ SizeOf(T) \in Nat
      /\ DirectoriesIn(U) = DirectoriesIn(S) + DirectoriesIn(T)
      /\ DirectoriesIn(S) \in Nat /\ DirectoriesIn(T) \in Nat
  BY <1>1, <1>4, RowsTogether
<1> QED
  BY <1>1, <1>2, <1>3, <1>5 DEF Named, Together

LEMMA NamedOne ==
    ASSUME NEW r \in SomeRows
    PROVE  Named({r}, {r.name})
  BY FS_Singleton DEF Named

LEMMA NamedNone == ASSUME NEW N PROVE Named({}, N)
  BY FS_EmptySet DEF Named

\* The bytes that a set of rows shows.
LEMMA Shown ==
    ASSUME NEW S \in SUBSET SomeRows, IsFiniteSet(S)
    PROVE  SaturatingSum(Sizes(SetToSeq(S))) = Capped(SizeOf(S))
<1>1. PICK n \in Nat : n = Cardinality(S)
  BY FS_CardinalityType
<1>2. PICK t : t = SetToSeq(S)
  OBVIOUS
<1>3. t \in Bijection(1..n, S)
  BY <1>1, <1>2, SetAsSequence
<1>4. PICK v : v = [r \in S |-> r["size"]]
  OBVIOUS
<1>5. PICK s : s = Sizes(t)
  OBVIOUS
<1>6. t \in [1..n -> S]
  BY <1>3 DEF Bijection, Injection
<1>7. v \in [S -> Nat] /\ s \in [1..n -> Nat] /\ Renames(t, s, v)
  BY <1>4, <1>5, <1>6 DEF SomeRows, Sizes, Renames
<1>8. SaturatingSum(s) = Capped(Weight(v))
  BY <1>3, <1>7, SumInAnyOrder
<1> QED
  BY <1>2, <1>4, <1>5, <1>8 DEF SizeOf, RowSum

\* Only directories have an aggregate, and only files are listed.
Kinds(a) == /\ \A d \in DOMAIN a.aggregates : Kind[d] = "directory"
            /\ \A f \in a.directFiles : Kind[f] = "file"

LEMMA ChildrenSum ==
    ASSUME NEW a, Sound(a), Kinds(a), NEW S, S = ChildRows(a)
    PROVE  /\ \E names : Named(S, names)
           /\ Capped(SizeOf(S)) = a.total /\ DirectoriesIn(S) = a.directories
<1>1. a \in Accounts /\ Balanced(a)
  BY DEF Sound
<1>2. PICK m \in Maps(Nodes, Group) : m = a.aggregates
  BY <1>1 DEF Accounts
<1>3. PICK F \in SUBSET Nodes : F = a.directFiles
  BY <1>1 DEF Accounts
<1>4. PICK overflow \in Group : overflow = a.overflow
  BY <1>1 DEF Accounts
<1>5. PICK c \in Nat : c = Cardinality(Nodes)
  BY NodeNumber
<1>6. PICK bytes \in Nat : bytes = a.directBytes
  BY <1>1 DEF Accounts
<1>7. PICK count \in Nat : count = a.directCount
  BY <1>1 DEF Accounts
<1>8. PICK A : A = {Row("directory", d, m[d]) : d \in DOMAIN m}
  OBVIOUS
<1>9. PICK B : B = {FileRow(f) : f \in F}
  OBVIOUS
<1>10. PICK shown : shown = SaturatingSum(Sizes(SetToSeq(B)))
  OBVIOUS
<1>11. PICK others : others = [size |-> bytes - shown, files |-> count - Cardinality(B),
                               directories |-> 0]
  OBVIOUS
<1>12. PICK C : C = IF overflow.size > 0 \/ overflow.directories > 0
                    THEN {Row("other", c + 1, overflow)} ELSE {}
  OBVIOUS
<1>13. PICK D : D = IF bytes > shown THEN {Row("other", c + 2, others)} ELSE {}
  OBVIOUS
<1>14. S = ((A \cup B) \cup C) \cup D
  BY <1>2, <1>3, <1>4, <1>5, <1>6, <1>7, <1>8, <1>9, <1>10, <1>11, <1>12, <1>13 DEF ChildRows
<1>15. Named(A, DOMAIN m) /\ SizeOf(A) = SizesOf(m) /\ DirectoriesIn(A) = DirectoriesOf(m)
  <2>1. m \in Maps(Nat, Group)
    BY MapsAre, NodeNumber
  <2>2. PICK kind \in RowKinds : kind = "directory"
    BY DEF RowKinds
  <2>3. A = {Row(kind, k, m[k]) : k \in DOMAIN m}
    BY <1>8, <2>2
  <2>4. /\ A \in SUBSET SomeRows /\ IsFiniteSet(A)
        /\ \A r \in A : r.name \in DOMAIN m
        /\ \A r, s \in A : r.name = s.name => r = s
        /\ SizeOf(A) = SizesOf(m) /\ FilesIn(A) = FilesOf(m)
        /\ DirectoriesIn(A) = DirectoriesOf(m)
    BY <2>1, <2>3, RowsOfGroups
  <2> QED
    BY <2>4 DEF Named
<1>16. /\ Named(B, F) /\ SizeOf(B) = Bytes(F) /\ DirectoriesIn(B) = 0
       /\ Cardinality(B) = Cardinality(F)
  <2>1. /\ B \in SUBSET SomeRows /\ IsFiniteSet(B) /\ Cardinality(B) = Cardinality(F)
        /\ \A r \in B : r.name \in F
        /\ \A r, s \in B : r.name = s.name => r = s
        /\ SizeOf(B) = Bytes(F) /\ DirectoriesIn(B) = 0
    <3>1. PICK E : E = F
      OBVIOUS
    <3>2. E \in SUBSET Nodes /\ B = {FileRow(f) : f \in E}
      BY <1>9, <3>1
    <3>3. /\ B \in SUBSET SomeRows /\ IsFiniteSet(B) /\ Cardinality(B) = Cardinality(E)
          /\ \A r \in B : r.name \in E
          /\ \A r, s \in B : r.name = s.name => r = s
          /\ SizeOf(B) = Bytes(E) /\ DirectoriesIn(B) = 0
      BY <3>2, RowsOfFiles
    <3> QED
      BY <3>1, <3>3
  <2> QED
    BY <2>1 DEF Named
<1>17. PICK p \in Nat : p = Bytes(F)
  BY BytesType
<1>18. shown = Capped(p) /\ Capped(p) <= bytes /\ bytes <= MaxInt64
  <2>1. shown = Capped(SizeOf(B))
    BY <1>10, <1>16, Shown DEF Named
  <2>2. Capped(Bytes(F)) <= bytes /\ bytes <= MaxInt64
    BY <1>1, <1>3, <1>6 DEF Balanced
  <2> QED
    BY <1>16, <1>17, <2>1, <2>2
<1>19. overflow.size \in Nat /\ overflow.files \in Nat /\ overflow.directories \in Nat
  BY GroupFields
<1>20. Named(C, {c + 1}) /\ SizeOf(C) = overflow.size /\ DirectoriesIn(C) = overflow.directories
  <2>1. CASE overflow.size > 0 \/ overflow.directories > 0
    <3>1. PICK kind \in RowKinds : kind = "other"
      BY DEF RowKinds
    <3>2. PICK r : r = Row(kind, c + 1, overflow)
      OBVIOUS
    <3>3. /\ r \in SomeRows /\ r.name = c + 1 /\ r.size = overflow.size
          /\ r.files = overflow.files /\ r.directories = overflow.directories
      BY <1>19, <3>2, RowFields
    <3>4. C = {r}
      BY <1>12, <2>1, <3>1, <3>2
    <3>5. Named({r}, {r.name}) /\ SizeOf({r}) = r.size /\ DirectoriesIn({r}) = r.directories
      BY <3>3, NamedOne, OneRow
    <3> QED
      BY <3>3, <3>4, <3>5
  <2>2. CASE ~ (overflow.size > 0 \/ overflow.directories > 0)
    <3>1. C = {} /\ overflow.size = 0 /\ overflow.directories = 0
      BY <1>12, <1>19, <2>2
    <3> QED
      BY <3>1, NamedNone, NoRow
  <2> QED
    BY <2>1, <2>2
<1>21. Capped(p) \in Nat
  BY SizesAssumption DEF Capped
<1>22. Named(D, {c + 2}) /\ SizeOf(D) = bytes - Capped(p) /\ DirectoriesIn(D) = 0
  <2>1. CASE bytes > shown
    <3>1. PICK kind \in RowKinds : kind = "other"
      BY DEF RowKinds
    <3>2. PICK r : r = Row(kind, c + 2, others)
      OBVIOUS
    <3>3. Cardinality(B) \in Nat /\ Cardinality(B) <= count
      <4>1. Cardinality(F) <= count /\ Cardinality(F) \in Nat
        BY <1>1, <1>3, <1>7, BytesType DEF Balanced
      <4> QED
        BY <1>16, <4>1
    <3>4. others.size = bytes - Capped(p) /\ others.size \in Nat /\ others.files \in Nat
          /\ others.directories = 0 /\ others.directories \in Nat
      BY <1>11, <1>18, <1>21, <3>3
    <3>5. c + 2 \in Nat
      OBVIOUS
    <3>6. /\ r \in SomeRows /\ r.name = c + 2 /\ r.size = others.size
          /\ r.files = others.files /\ r.directories = others.directories
      BY <3>2, <3>4, <3>5, RowFields
    <3>7. D = {r}
      BY <1>13, <2>1, <3>1, <3>2
    <3>8. Named({r}, {r.name}) /\ SizeOf({r}) = r.size /\ DirectoriesIn({r}) = r.directories
      BY <3>6, NamedOne, OneRow
    <3> QED
      BY <3>4, <3>6, <3>7, <3>8
  <2>2. CASE ~ (bytes > shown)
    <3>1. D = {} /\ bytes - Capped(p) = 0
      BY <1>13, <1>18, <1>21, <2>2
    <3> QED
      BY <3>1, NamedNone, NoRow
  <2> QED
    BY <2>1, <2>2
<1>23. PICK AB : AB = A \cup B
  OBVIOUS
<1>24. PICK ABC : ABC = AB \cup C
  OBVIOUS
<1>25. Named(AB, DOMAIN m \cup F) /\ Together(A, B, AB)
  <2>1. DOMAIN m \cap F = {}
    BY <1>2, <1>3 DEF Kinds
  <2> QED
    BY <1>15, <1>16, <1>23, <2>1, NamedTogether
<1>26. \A n \in DOMAIN m \cup F : n \in Nat /\ n < c
  BY <1>5, MapsAre, NodeNumber
<1>27. Named(ABC, (DOMAIN m \cup F) \cup {c + 1}) /\ Together(AB, C, ABC)
  <2>1. (DOMAIN m \cup F) \cap {c + 1} = {}
    BY <1>26
  <2> QED
    BY <1>20, <1>24, <1>25, <2>1, NamedTogether
<1>28. Named(S, ((DOMAIN m \cup F) \cup {c + 1}) \cup {c + 2}) /\ Together(ABC, D, S)
  <2>1. ((DOMAIN m \cup F) \cup {c + 1}) \cap {c + 2} = {}
    BY <1>26
  <2>2. S = ABC \cup D
    BY <1>14, <1>23, <1>24
  <2> QED
    BY <1>22, <1>27, <2>1, <2>2, NamedTogether
<1>29. PICK w \in Nat : w = SizesOf(m)
  BY <1>15, <1>25 DEF Together
<1>30. PICK o \in Nat : o = overflow.size
  BY <1>19
<1>31. SizeOf(S) = w + p + o + (bytes - Capped(p))
  <2>1. SizeOf(AB) = w + p
    BY <1>15, <1>16, <1>17, <1>25, <1>29 DEF Together
  <2>2. SizeOf(ABC) = w + p + o
    BY <1>20, <1>27, <1>30, <2>1 DEF Together
  <2> QED
    BY <1>22, <1>28, <2>2 DEF Together
<1>32. Capped(w + p + o + (bytes - Capped(p))) = Capped(w + o + bytes)
  BY <1>18, SizesAssumption DEF Capped
<1>33. Capped(SizeOf(S)) = a.total
  <2>1. a.total = Capped(w + o + bytes)
    BY <1>1, <1>2, <1>4, <1>6, <1>29, <1>30 DEF Balanced
  <2> QED
    BY <1>31, <1>32, <2>1
<1>34. DirectoriesIn(S) = a.directories
  <2>1. PICK n \in Nat : n = DirectoriesOf(m)
    BY <1>15, <1>25 DEF Together
  <2>2. PICK k \in Nat : k = overflow.directories
    BY <1>19
  <2>3. DirectoriesIn(AB) = n
    BY <1>15, <1>16, <1>25, <2>1 DEF Together
  <2>4. DirectoriesIn(ABC) = n + k
    BY <1>20, <1>27, <2>2, <2>3 DEF Together
  <2>5. DirectoriesIn(S) = n + k
    BY <1>22, <1>28, <2>4 DEF Together
  <2> QED
    BY <1>1, <1>2, <1>4, <2>1, <2>2, <2>5 DEF Balanced
<1> QED
  BY <1>28, <1>33, <1>34

-----------------------------------------------------------------------------
(* The rows of children and extensions add up                              *)

LEMMA CountsAreSmall ==
    ASSUME NEW a, Sound(a)
    PROVE  /\ a.files \in Nat /\ a.directories \in Nat
           /\ Capped(a.files) = a.files /\ Capped(a.directories) = a.directories
<1>1. a \in Accounts /\ Balanced(a)
  BY DEF Sound
<1>2. a.entries \in Nat /\ a.skipped \in Nat /\ a.files \in Nat /\ a.directories \in Nat
  BY <1>1 DEF Accounts
<1>3. a.skipped + a.files + a.directories = a.entries /\ a.entries <= MaxEntries
  BY <1>1 DEF Balanced
<1> QED
  BY <1>2, <1>3, SizesAssumption, LimitsAssumption DEF Capped

\* What a limit on rows in order leaves out is added up in the last row.
LEMMA LimitedSums ==
    ASSUME NEW S, NEW names, Named(S, names), NEW limit \in Nat \ {0}, NEW name, NEW rows,
           rows = IF Len(Descending(S)) <= limit THEN Descending(S)
                  ELSE LimitedTo(limit, Descending(S), name)
    PROVE  /\ Omitted(rows).size = Capped(SizeOf(S))
           /\ Omitted(rows).files = Capped(FilesIn(S))
           /\ Omitted(rows).directories = Capped(DirectoriesIn(S))
<1>1. PICK d : d = Descending(S)
  OBVIOUS
<1>2. S \in SUBSET SomeRows /\ IsFiniteSet(S) /\ \A r, s \in S : r.name = s.name => r = s
  BY DEF Named
<1>3. /\ d \in Seq(SomeRows) /\ Len(d) = Cardinality(S)
      /\ Omitted(d).size = Capped(SizeOf(S))
      /\ Omitted(d).files = Capped(FilesIn(S))
      /\ Omitted(d).directories = Capped(DirectoriesIn(S))
  BY <1>1, <1>2, SumsOfRows
<1>4. Len(d) \in Nat
  BY <1>3
<1>5. Omitted(rows) = Omitted(d)
  <2>1. CASE Len(d) <= limit
    BY <1>1, <2>1
  <2>2. CASE ~ (Len(d) <= limit)
    <3>1. limit < Len(d)
      BY <1>4, <2>2
    <3>2. Omitted(LimitedTo(limit, d, name)) = Omitted(d)
      BY <1>3, <3>1, SameSums
    <3> QED
      BY <1>1, <2>2, <3>2
  <2> QED
    BY <2>1, <2>2
<1> QED
  BY <1>3, <1>5

LEMMA ChildrenAddUp ==
    ASSUME NEW a, Sound(a), Kinds(a)
    PROVE  Omitted(Children(a)).size = a.total /\ Omitted(Children(a)).directories = a.directories
<1>1. PICK S : S = ChildRows(a)
  OBVIOUS
<1>2. PICK names : Named(S, names)
  BY <1>1, ChildrenSum
<1>3. Capped(SizeOf(S)) = a.total /\ DirectoriesIn(S) = a.directories
  BY <1>1, ChildrenSum
<1>4. PICK rows : rows = Children(a)
  OBVIOUS
<1>5. rows = IF Len(Descending(S)) <= MaxChildren THEN Descending(S)
             ELSE LimitedTo(MaxChildren, Descending(S), 0)
  BY <1>1, <1>4 DEF Children, LimitedTo
<1>6. MaxChildren \in Nat \ {0}
  BY LimitsAssumption
<1>7. /\ Omitted(rows).size = Capped(SizeOf(S))
      /\ Omitted(rows).files = Capped(FilesIn(S))
      /\ Omitted(rows).directories = Capped(DirectoriesIn(S))
  BY <1>2, <1>5, <1>6, LimitedSums
<1> QED
  BY <1>3, <1>4, <1>7, CountsAreSmall

-----------------------------------------------------------------------------

\* The groups of extensions with those beyond the limit joined to "(other)".
MergedGroups(kept, other) ==
  IF other.files = 0 THEN kept
  ELSE IF Other \in DOMAIN kept
  THEN [kept EXCEPT ![Other] = [size |-> SaturatingAdd(@.size, other.size),
                                files |-> @.files + other.files]]
  ELSE Put(kept, Other, other)

LEMMA MergedSums ==
    ASSUME NEW m \in Maps(Nat, FileGroup), NEW other \in FileGroup,
           other.files = 0 => other.size = 0, NEW p, p = MergedGroups(m, other)
    PROVE  /\ p \in Maps(Nat, FileGroup)
           /\ Capped(SizesOf(p)) = Capped(SizesOf(m) + other.size)
           /\ FilesOf(p) = FilesOf(m) + other.files
<1>1. /\ SizesOf(m) \in Nat /\ FilesOf(m) \in Nat /\ other.size \in Nat /\ other.files \in Nat
  BY MapSums, GroupFields
<1>2. CASE other.files = 0
  BY <1>1, <1>2 DEF MergedGroups
<1>3. CASE other.files # 0 /\ Other \in DOMAIN m
  <2>1. m \in [DOMAIN m -> FileGroup]
    BY MapsAre
  <2>2. PICK old \in FileGroup : old = m[Other]
    BY <1>3, <2>1
  <2>3. old.size \in Nat /\ old.files \in Nat
    BY GroupFields
  <2>4. PICK s \in Nat : s = SaturatingAdd(old.size, other.size)
                         /\ s = Capped(old.size + other.size)
    BY <1>1, <2>3, CappedSum
  <2>5. PICK n \in Nat : n = old.files + other.files
    BY <1>1, <2>3
  <2>6. PICK x : x = [size |-> s, files |-> n]
    OBVIOUS
  <2>7. x \in FileGroup /\ x.size = s /\ x.files = n
    BY <2>6 DEF FileGroup
  <2>8. p = [m EXCEPT ![Other] = x]
    BY <1>3, <2>2, <2>4, <2>5, <2>6 DEF MergedGroups
  <2>9. p = Put(m, Other, x)
    BY <1>3, <2>8, ReplacedIsPut
  <2>10. p \in Maps(Nat, FileGroup)
    BY <2>7, <2>9, NamesAssumption, PutIntoMap
  <2>11. PICK rest \in Nat : SizesOf(m) = rest + old.size /\ SizesOf(p) = rest + x.size
    <3>1. PICK rest \in Nat : /\ SizesOf(m) = rest + IF Other \in DOMAIN m THEN m[Other].size ELSE 0
                              /\ SizesOf(p) = rest + x.size
      BY <2>7, <2>9, NamesAssumption, GroupFields, SizePut
    <3> QED
      BY <1>3, <2>2, <3>1
  <2>12. PICK more \in Nat : FilesOf(m) = more + old.files /\ FilesOf(p) = more + x.files
    <3>1. PICK more \in Nat : /\ FilesOf(m) = more + IF Other \in DOMAIN m THEN m[Other].files ELSE 0
                              /\ FilesOf(p) = more + x.files
      BY <2>7, <2>9, NamesAssumption, GroupFields, FilesPut
    <3> QED
      BY <1>3, <2>2, <3>1
  <2>13. Capped(SizesOf(p)) = Capped(SizesOf(m) + other.size)
    <3>1. PICK y \in Nat : y = old.size
      BY <2>3
    <3>2. PICK z \in Nat : z = other.size
      BY <1>1
    <3>3. Capped(rest + Capped(y + z)) = Capped(rest + y + z)
      BY SizesAssumption DEF Capped
    <3> QED
      BY <2>4, <2>7, <2>11, <3>1, <3>2, <3>3
  <2>14. FilesOf(p) = FilesOf(m) + other.files
    BY <1>1, <2>3, <2>5, <2>7, <2>12
  <2> QED
    BY <2>10, <2>13, <2>14
<1>4. CASE other.files # 0 /\ Other \notin DOMAIN m
  <2>1. p = Put(m, Other, other)
    BY <1>4 DEF MergedGroups
  <2>2. p \in Maps(Nat, FileGroup)
    BY <2>1, NamesAssumption, PutIntoMap
  <2>3. SizesOf(p) = SizesOf(m) + other.size
    <3>1. PICK rest \in Nat : /\ SizesOf(m) = rest + IF Other \in DOMAIN m THEN m[Other].size ELSE 0
                              /\ SizesOf(p) = rest + other.size
      BY <2>1, NamesAssumption, GroupFields, SizePut
    <3> QED
      BY <1>4, <3>1
  <2>4. FilesOf(p) = FilesOf(m) + other.files
    <3>1. PICK more \in Nat : /\ FilesOf(m) = more + IF Other \in DOMAIN m THEN m[Other].files ELSE 0
                              /\ FilesOf(p) = more + other.files
      BY <2>1, NamesAssumption, GroupFields, FilesPut
    <3> QED
      BY <1>4, <3>1
  <2> QED
    BY <2>2, <2>3, <2>4
<1> QED
  BY <1>2, <1>3, <1>4

LEMMA ExtensionsAddUp ==
    ASSUME NEW a, Sound(a)
    PROVE  Omitted(Extensions(a)).size = a.total /\ Omitted(Extensions(a)).files = a.files
<1>1. a \in Accounts /\ Balanced(a)
  BY DEF Sound
<1>2. PICK m \in Maps(Nat, FileGroup) : m = a.extensions
  BY <1>1 DEF Accounts
<1>3. PICK other \in FileGroup : other = a.otherExtensions
  BY <1>1 DEF Accounts
<1>4. PICK p : p = MergedGroups(m, other)
  OBVIOUS
<1>5. /\ p \in Maps(Nat, FileGroup)
      /\ Capped(SizesOf(p)) = Capped(SizesOf(m) + other.size)
      /\ FilesOf(p) = FilesOf(m) + other.files
  <2>1. other.files = 0 => other.size = 0
    BY <1>1, <1>3 DEF Balanced
  <2> QED
    BY <1>4, <2>1, MergedSums
<1>6. PICK S : S = ExtensionRows(a)
  OBVIOUS
<1>7. PICK q : q = [e \in DOMAIN p |-> [size |-> p[e].size, files |-> p[e].files,
                                        directories |-> 0]]
  OBVIOUS
<1>8. S = {Row("extension", e, [size |-> p[e].size, files |-> p[e].files, directories |-> 0])
             : e \in DOMAIN p}
  BY <1>2, <1>3, <1>4, <1>6 DEF ExtensionRows, MergedGroups
<1>9. p \in [DOMAIN p -> FileGroup] /\ DOMAIN p \in SUBSET Nat /\ IsFiniteSet(DOMAIN p)
  BY <1>5, MapsAre
<1>10. DOMAIN q = DOMAIN p /\ \A e \in DOMAIN p : q[e].size = p[e].size /\ q[e].files = p[e].files
  BY <1>7
<1>11. q \in Maps(Nat, Group)
  <2>1. \A e \in DOMAIN p : q[e] \in Group
    <3> SUFFICES ASSUME NEW e \in DOMAIN p PROVE q[e] \in Group
      OBVIOUS
    <3>1. PICK x \in Nat : x = p[e].size
      BY <1>9, GroupFields
    <3>2. PICK y \in Nat : y = p[e].files
      BY <1>9, GroupFields
    <3>3. q[e] = [size |-> x, files |-> y, directories |-> 0]
      BY <1>7, <3>1, <3>2
    <3> QED
      BY <3>3 DEF Group
  <2>2. q \in [DOMAIN q -> Group]
    BY <1>7, <1>10, <2>1
  <2> QED
    BY <1>9, <1>10, <2>2, MapsAre
<1>12. PICK kind \in RowKinds : kind = "extension"
  BY DEF RowKinds
<1>13. S = {Row(kind, e, q[e]) : e \in DOMAIN q}
  BY <1>7, <1>8, <1>10, <1>12
<1>14. /\ S \in SUBSET SomeRows /\ IsFiniteSet(S)
       /\ \A r \in S : r.name \in DOMAIN q
       /\ \A r, s \in S : r.name = s.name => r = s
       /\ SizeOf(S) = SizesOf(q) /\ FilesIn(S) = FilesOf(q)
       /\ DirectoriesIn(S) = DirectoriesOf(q)
  BY <1>11, <1>13, RowsOfGroups
<1>15. SizesOf(q) = SizesOf(p) /\ FilesOf(q) = FilesOf(p)
  <2>1. /\ [k \in DOMAIN q |-> q[k]["size"]] = [k \in DOMAIN p |-> p[k]["size"]]
        /\ [k \in DOMAIN q |-> q[k]["files"]] = [k \in DOMAIN p |-> p[k]["files"]]
    BY <1>10
  <2> QED
    BY <2>1 DEF SizesOf, FilesOf, SumOf
<1>16. Named(S, DOMAIN q)
  BY <1>14 DEF Named
<1>17. PICK rows : rows = Extensions(a)
  OBVIOUS
<1>18. rows = IF Len(Descending(S)) <= MaxGroups THEN Descending(S)
              ELSE LimitedTo(MaxGroups, Descending(S), Other)
  BY <1>6, <1>17 DEF Extensions, LimitedTo
<1>19. MaxGroups \in Nat \ {0}
  BY LimitsAssumption
<1>20. /\ Omitted(rows).size = Capped(SizeOf(S))
       /\ Omitted(rows).files = Capped(FilesIn(S))
       /\ Omitted(rows).directories = Capped(DirectoriesIn(S))
  BY <1>16, <1>18, <1>19, LimitedSums
<1>21. a.total = Capped(SizesOf(m) + other.size) /\ a.files = FilesOf(m) + other.files
  BY <1>1, <1>2, <1>3 DEF Balanced
<1> QED
  BY <1>5, <1>14, <1>15, <1>17, <1>20, <1>21, CountsAreSmall

-----------------------------------------------------------------------------
(* The largest files are listed first                                      *)

\* Some file of a set is the smallest.
LEMMA SmallestOfSome ==
    ASSUME NEW S \in SUBSET Nodes, S # {}
    PROVE  Smallest(S) \in S /\ \A g \in S : Size[Smallest(S)] <= Size[g]
<1>1. PICK T : T = {Size[f] : f \in S}
  OBVIOUS
<1>2. T \in SUBSET Nat /\ T # {}
  BY <1>1, SizesAssumption
<1>3. PICK t \in T : \A u \in T : ~ <<u, t>> \in OpToRel(<, Nat)
  BY <1>2, NatLessThanWellFounded, WFMin
<1>4. \A u \in T : ~ (u < t)
  BY <1>2, <1>3 DEF OpToRel
<1>5. PICK m \in S : t = Size[m]
  BY <1>1
<1>6. \A g \in S : Size[m] <= Size[g]
  <2> SUFFICES ASSUME NEW g \in S PROVE Size[m] <= Size[g]
    OBVIOUS
  <2>1. ~ (Size[g] < Size[m])
    BY <1>1, <1>4, <1>5
  <2>2. Size[g] \in Nat /\ Size[m] \in Nat
    BY NodeSize
  <2> QED
    BY <2>1, <2>2
<1> QED
  BY <1>6 DEF Smallest

\* S has the largest files of F, as many as the limit allows.
Top(S, F, limit) ==
  /\ F \in SUBSET Nodes /\ S \in SUBSET F
  /\ Cardinality(S) = IF Cardinality(F) < limit THEN Cardinality(F) ELSE limit
  /\ \A f \in F \ S : \A g \in S : Size[f] <= Size[g]

LEMMA TopOfNone == ASSUME NEW limit \in Nat \ {0} PROVE Top({}, {}, limit)
  BY FS_EmptySet DEF Top

LEMMA TopOfMore ==
    ASSUME NEW limit \in Nat \ {0}, NEW S, NEW F, Top(S, F, limit), NEW x \in Nodes \ F,
           NEW T, T = PushLargest(S, x, limit)
    PROVE  Top(T, F \cup {x}, limit)
<1>1. /\ F \in SUBSET Nodes /\ S \in SUBSET F
      /\ Cardinality(S) = IF Cardinality(F) < limit THEN Cardinality(F) ELSE limit
      /\ \A f \in F \ S : \A g \in S : Size[f] <= Size[g]
  BY DEF Top
<1>2. /\ IsFiniteSet(F) /\ Cardinality(F) \in Nat /\ IsFiniteSet(S) /\ Cardinality(S) \in Nat
  BY <1>1, BytesType
<1>3. PICK E : E = F \cup {x}
  OBVIOUS
<1>4. E \in SUBSET Nodes /\ Cardinality(E) = Cardinality(F) + 1
  BY <1>1, <1>2, <1>3, FS_AddElement
<1>5. CASE Cardinality(S) < limit
  <2>1. Cardinality(F) = Cardinality(S)
    BY <1>1, <1>2, <1>5
  <2>2. F = S
    BY <1>1, <1>2, <2>1, FS_Subset
  <2>3. T = E
    BY <1>3, <1>5, <2>2 DEF PushLargest
  <2>4. Cardinality(T) = IF Cardinality(E) < limit THEN Cardinality(E) ELSE limit
    BY <1>2, <1>4, <1>5, <2>1, <2>3
  <2> QED
    BY <1>3, <1>4, <2>3, <2>4 DEF Top
<1>6. CASE ~ (Cardinality(S) < limit)
  <2>1. Cardinality(S) = limit /\ ~ (Cardinality(F) < limit)
    BY <1>1, <1>2, <1>6
  <2>2. S # {}
    BY <2>1, FS_EmptySet
  <2>3. PICK s : s = Smallest(S)
    OBVIOUS
  <2>4. s \in S /\ \A g \in S : Size[s] <= Size[g]
    BY <1>1, <2>2, <2>3, SmallestOfSome
  <2>5. ~ (Cardinality(E) < limit)
    BY <1>2, <1>4, <2>1
  <2>6. \A n \in E : Size[n] \in Nat
    BY <1>4, NodeSize
  <2>7. CASE Size[s] < Size[x]
    <3>1. T = (S \ {s}) \cup {x}
      BY <1>6, <2>3, <2>7 DEF PushLargest
    <3>2. T \in SUBSET E
      BY <1>1, <1>3, <3>1
    <3>3. Cardinality(T) = limit
      <4>1. PICK R : R = S \ {s}
        OBVIOUS
      <4>2. IsFiniteSet(R) /\ Cardinality(R) = Cardinality(S) - 1
        BY <1>2, <2>4, <4>1, FS_RemoveElement
      <4>3. x \notin R
        BY <1>1, <4>1
      <4>4. Cardinality(R \cup {x}) = Cardinality(R) + 1
        BY <4>2, <4>3, FS_AddElement
      <4> QED
        BY <1>2, <2>1, <3>1, <4>1, <4>2, <4>4
    <3>4. ASSUME NEW f \in E \ T, NEW g \in T
          PROVE  Size[f] <= Size[g]
      <4>1. f \in E /\ s \in E /\ g \in E /\ x \in E
        BY <1>1, <1>3, <2>4, <3>2
      <4>2. Size[f] \in Nat /\ Size[s] \in Nat /\ Size[g] \in Nat /\ Size[x] \in Nat
        BY <2>6, <4>1
      <4>3. f = s \/ f \in F \ S
        BY <1>3, <3>1
      <4>4. Size[f] <= Size[s]
        BY <1>1, <2>4, <4>2, <4>3
      <4>5. Size[s] <= Size[g]
        <5>1. CASE g = x
          BY <2>7, <4>2, <5>1
        <5>2. CASE g # x
          BY <2>4, <3>1, <5>2
        <5> QED
          BY <5>1, <5>2
      <4> QED
        BY <4>2, <4>4, <4>5
    <3> QED
      BY <1>3, <1>4, <2>5, <3>2, <3>3, <3>4 DEF Top
  <2>8. CASE ~ (Size[s] < Size[x])
    <3>1. T = S
      BY <1>6, <2>3, <2>8 DEF PushLargest
    <3>2. ASSUME NEW f \in E \ T, NEW g \in T
          PROVE  Size[f] <= Size[g]
      <4>1. f \in E /\ s \in E /\ g \in E /\ x \in E
        BY <1>1, <1>3, <2>4, <3>1
      <4>2. Size[f] \in Nat /\ Size[s] \in Nat /\ Size[g] \in Nat /\ Size[x] \in Nat
        BY <2>6, <4>1
      <4>3. f = x \/ f \in F \ S
        BY <1>3, <3>1
      <4>4. Size[s] <= Size[g]
        BY <2>4, <3>1
      <4>5. CASE f = x
        BY <2>8, <4>2, <4>4, <4>5
      <4>6. CASE f \in F \ S
        BY <1>1, <3>1, <4>6
      <4> QED
        BY <4>3, <4>5, <4>6
    <3> QED
      BY <1>1, <1>3, <1>4, <2>1, <2>5, <3>1, <3>2 DEF Top
  <2> QED
    BY <2>7, <2>8
<1> QED
  BY <1>3, <1>5, <1>6

\* As many rows as files are listed.
LEMMA LargestListed ==
    ASSUME NEW a, a.largest \in SUBSET Nodes
    PROVE  Len(Largest(a)) = Cardinality(a.largest)
<1>1. PICK F : F = a.largest
  OBVIOUS
<1>2. PICK S : S = {FileRow(f) : f \in F}
  OBVIOUS
<1>3. /\ S \in SUBSET SomeRows /\ IsFiniteSet(S) /\ Cardinality(S) = Cardinality(F)
      /\ \A r \in S : r.name \in F
      /\ \A r, s \in S : r.name = s.name => r = s
      /\ SizeOf(S) = Bytes(F) /\ DirectoriesIn(S) = 0
  <2>1. F \in SUBSET Nodes
    BY <1>1
  <2> QED
    BY <1>2, <2>1, RowsOfFiles
<1>4. Len(Descending(S)) = Cardinality(S)
  BY <1>3, SumsOfRows
<1> QED
  BY <1>1, <1>2, <1>3, <1>4 DEF Largest

-----------------------------------------------------------------------------
(* What the counters count                                                 *)

\* Sets of entries, when the directories and files of U cannot be read.
KindIn(V, kind) == {n \in V : Kind[n] = kind}
ReadIn(V, U) == KindIn(V, "file") \ U
SkippedIn(V) == KindIn(V, "link") \cup KindIn(V, "special")
FailedIn(V, D, U) == (KindIn(V, "file") \cup D) \cap U

\* An account of the entries V and of the directories D.
Tally(a, V, D, U) ==
  /\ a.files = Cardinality(ReadIn(V, U))
  /\ a.total = Capped(Bytes(ReadIn(V, U)))
  /\ a.directories = Cardinality(KindIn(V, "directory"))
  /\ a.skipped = Cardinality(SkippedIn(V)) + Cardinality(FailedIn(V, D, U))
  /\ DOMAIN a.aggregates \subseteq V
  /\ Top(a.largest, ReadIn(V, U), MaxLargest)

\* An account of the entries V when the directories D were received.
Correct(a, V, D, U) == Sound(a) /\ Kinds(a) /\ Tally(a, V, D, U)

\* All directories.
Directories == KindIn(Nodes, "directory")

LEMMA KindOfNode ==
    ASSUME NEW n \in Nodes
    PROVE  Kind[n] \in {"directory", "file", "link", "special"}
  BY TreeAssumption

\* One entry more.
Visits(W, V, n, kinds) == n \in Nodes \ V /\ W = V \cup {n} /\ Kind[n] \in kinds

LEMMA DirectoryEntry ==
    ASSUME NEW V, NEW D \in SUBSET Directories, NEW U, NEW n, NEW W,
           Visits(W, V, n, {"directory"})
    PROVE  /\ ReadIn(W, U) = ReadIn(V, U) /\ SkippedIn(W) = SkippedIn(V)
           /\ FailedIn(W, D, U) = FailedIn(V, D, U)
           /\ OneMore(KindIn(W, "directory"), KindIn(V, "directory"), n)
<1>1. /\ KindIn(W, "file") = KindIn(V, "file") /\ KindIn(W, "link") = KindIn(V, "link")
      /\ KindIn(W, "special") = KindIn(V, "special")
  BY DEF KindIn, Visits
<1>2. KindIn(W, "directory") = KindIn(V, "directory") \cup {n}
      /\ n \notin KindIn(V, "directory")
  BY DEF KindIn, Visits
<1> QED
  BY <1>1, <1>2 DEF ReadIn, SkippedIn, FailedIn, OneMore

LEMMA LinkEntry ==
    ASSUME NEW V, NEW D \in SUBSET Directories, NEW U, NEW n, NEW W,
           Visits(W, V, n, {"link", "special"})
    PROVE  /\ ReadIn(W, U) = ReadIn(V, U)
           /\ FailedIn(W, D, U) = FailedIn(V, D, U)
           /\ KindIn(W, "directory") = KindIn(V, "directory")
           /\ OneMore(SkippedIn(W), SkippedIn(V), n)
<1>1. /\ KindIn(W, "file") = KindIn(V, "file")
      /\ KindIn(W, "directory") = KindIn(V, "directory")
  BY DEF KindIn, Visits
<1>2. SkippedIn(W) = SkippedIn(V) \cup {n} /\ n \notin SkippedIn(V)
  BY DEF SkippedIn, KindIn, Visits
<1> QED
  BY <1>1, <1>2 DEF ReadIn, FailedIn, OneMore

LEMMA FileEntry ==
    ASSUME NEW V, NEW D \in SUBSET Directories, NEW U, NEW n, NEW W,
           Visits(W, V, n, {"file"})
    PROVE  /\ SkippedIn(W) = SkippedIn(V) /\ KindIn(W, "directory") = KindIn(V, "directory")
           /\ n \notin U => /\ OneMore(ReadIn(W, U), ReadIn(V, U), n)
                            /\ FailedIn(W, D, U) = FailedIn(V, D, U)
           /\ n \in U => /\ OneMore(FailedIn(W, D, U), FailedIn(V, D, U), n)
                         /\ ReadIn(W, U) = ReadIn(V, U)
<1>1. /\ KindIn(W, "link") = KindIn(V, "link") /\ KindIn(W, "special") = KindIn(V, "special")
      /\ KindIn(W, "directory") = KindIn(V, "directory")
  BY DEF KindIn, Visits
<1>2. KindIn(W, "file") = KindIn(V, "file") \cup {n} /\ n \notin KindIn(V, "file")
  BY DEF KindIn, Visits
<1>3. n \notin D
  BY DEF Directories, KindIn, Visits
<1> QED
  BY <1>1, <1>2, <1>3 DEF ReadIn, SkippedIn, FailedIn, OneMore

LEMMA SetsAreFinite ==
    ASSUME NEW V \in SUBSET Nodes, NEW D \in SUBSET Directories, NEW U
    PROVE  /\ ReadIn(V, U) \in SUBSET Nodes /\ KindIn(V, "directory") \in SUBSET Nodes
           /\ SkippedIn(V) \in SUBSET Nodes /\ FailedIn(V, D, U) \in SUBSET Nodes
  BY DEF ReadIn, SkippedIn, FailedIn, KindIn, Directories

LEMMA OneMoreNode ==
    ASSUME NEW S \in SUBSET Nodes, NEW n, NEW T, OneMore(T, S, n)
    PROVE  Cardinality(S) \in Nat /\ Cardinality(T) = Cardinality(S) + 1
  BY BytesType, FS_AddElement DEF OneMore

-----------------------------------------------------------------------------

\* What a skipped entry changes.
LEMMA SkipFields ==
    ASSUME NEW a \in Accounts, NEW b, b = Skip(a)
    PROVE  b.skipped = a.skipped + 1 /\ SameBut(b, a, {"entries", "skipped"})
  BY DEF Accounts, Skip, SameBut

LEMMA SkipCorrect ==
    ASSUME NEW a, NEW V, NEW D, NEW U, Correct(a, V, D, U), ~ Full(a), NEW b, b = Skip(a),
           NEW W, NEW E, V \subseteq W,
           ReadIn(W, U) = ReadIn(V, U), KindIn(W, "directory") = KindIn(V, "directory"),
           Cardinality(SkippedIn(W)) + Cardinality(FailedIn(W, E, U))
           = Cardinality(SkippedIn(V)) + Cardinality(FailedIn(V, D, U)) + 1
    PROVE  Correct(b, W, E, U)
<1>1. Sound(a) /\ Kinds(a) /\ Tally(a, V, D, U) /\ a \in Accounts
  BY DEF Correct, Sound
<1>2. b.skipped = a.skipped + 1 /\ SameBut(b, a, {"entries", "skipped"})
  BY <1>1, SkipFields
<1>3. /\ b.files = a.files /\ b.total = a.total /\ b.directories = a.directories
      /\ b.aggregates = a.aggregates /\ b.directFiles = a.directFiles /\ b.largest = a.largest
  BY <1>2 DEF SameBut
<1>4. Sound(b)
  BY <1>1, SkipSound
<1>5. Kinds(b)
  BY <1>1, <1>3 DEF Kinds
<1>6. Tally(b, W, E, U)
  BY <1>1, <1>2, <1>3 DEF Tally
<1> QED
  BY <1>4, <1>5, <1>6 DEF Correct

\* A directory that could not be read.
LEMMA FailedDirectory ==
    ASSUME NEW a, NEW V \in SUBSET Nodes, NEW D \in SUBSET Directories, NEW U,
           Correct(a, V, D, U), ~ Full(a), NEW d \in (Directories \cap U) \ D, NEW b, b = Skip(a)
    PROVE  Correct(b, V, D \cup {d}, U)
<1>1. PICK E : E = D \cup {d}
  OBVIOUS
<1>2. OneMore(FailedIn(V, E, U), FailedIn(V, D, U), d)
  <2>1. d \notin KindIn(V, "file")
    BY DEF KindIn, Directories
  <2> QED
    BY <1>1, <2>1 DEF FailedIn, OneMore
<1>3. /\ Cardinality(FailedIn(V, D, U)) \in Nat
      /\ Cardinality(FailedIn(V, E, U)) = Cardinality(FailedIn(V, D, U)) + 1
  BY <1>2, SetsAreFinite, OneMoreNode
<1>4. Cardinality(SkippedIn(V)) \in Nat
  BY SetsAreFinite, BytesType
<1>5. Cardinality(SkippedIn(V)) + Cardinality(FailedIn(V, E, U))
      = Cardinality(SkippedIn(V)) + Cardinality(FailedIn(V, D, U)) + 1
  BY <1>3, <1>4
<1> QED
  BY <1>1, <1>5, SkipCorrect

\* A directory that could be read: nothing is counted.
LEMMA ReadDirectory ==
    ASSUME NEW a, NEW V, NEW D, NEW U, Correct(a, V, D, U), NEW d, d \notin U
    PROVE  Correct(a, V, D \cup {d}, U)
<1>1. PICK E : E = D \cup {d}
  OBVIOUS
<1>2. FailedIn(V, E, U) = FailedIn(V, D, U)
  BY <1>1 DEF FailedIn
<1> QED
  BY <1>1, <1>2 DEF Correct, Tally

\* One of the entries of a directory.
LEMMA EntryCorrect ==
    ASSUME NEW a, NEW V \in SUBSET Nodes, NEW D \in SUBSET Directories, NEW U,
           Correct(a, V, D, U), ~ Full(a), NEW n \in (Nodes \ {Root}) \ V,
           NEW b, b = IF n \in U /\ Kind[n] = "file" THEN Skip(a) ELSE Visit(a, n)
    PROVE  Correct(b, V \cup {n}, D, U)
<1>1. PICK W : W = V \cup {n}
  OBVIOUS
<1>2. Sound(a) /\ Kinds(a) /\ Tally(a, V, D, U) /\ a \in Accounts
  BY DEF Correct, Sound
<1>3. /\ Cardinality(SkippedIn(V)) \in Nat /\ Cardinality(FailedIn(V, D, U)) \in Nat
      /\ Cardinality(ReadIn(V, U)) \in Nat
  BY SetsAreFinite, BytesType
<1>4. CASE Kind[n] = "directory"
  <2>1. /\ ReadIn(W, U) = ReadIn(V, U) /\ SkippedIn(W) = SkippedIn(V)
        /\ FailedIn(W, D, U) = FailedIn(V, D, U)
        /\ OneMore(KindIn(W, "directory"), KindIn(V, "directory"), n)
    <3>1. Visits(W, V, n, {"directory"})
      BY <1>1, <1>4 DEF Visits
    <3> QED
      BY <3>1, DirectoryEntry
  <2>2. b = VisitDirectory([a EXCEPT !.entries = @ + 1], n)
    BY <1>4 DEF Visit
  <2>3. n \notin DOMAIN a.aggregates
    BY <1>2 DEF Tally
  <2>4. /\ Sound(b)
        /\ SameBut(b, a, {"entries", "directories", "aggregates", "overflow"})
        /\ b.directories = a.directories + 1
        /\ DOMAIN b.aggregates \subseteq DOMAIN a.aggregates \cup {n}
    BY <1>2, <2>2, <2>3, VisitDirectorySound
  <2>5. /\ b.files = a.files /\ b.total = a.total /\ b.skipped = a.skipped
        /\ b.directFiles = a.directFiles /\ b.largest = a.largest
    BY <2>4 DEF SameBut
  <2>6. Kinds(b)
    BY <1>2, <1>4, <2>4, <2>5 DEF Kinds
  <2>7. Cardinality(KindIn(W, "directory")) = Cardinality(KindIn(V, "directory")) + 1
    BY <2>1, SetsAreFinite, OneMoreNode
  <2>8. Tally(b, W, D, U)
    BY <1>1, <1>2, <2>1, <2>4, <2>5, <2>7 DEF Tally
  <2> QED
    BY <1>1, <2>4, <2>6, <2>8 DEF Correct
<1>5. CASE Kind[n] = "file" /\ n \in U
  <2>1. /\ SkippedIn(W) = SkippedIn(V) /\ KindIn(W, "directory") = KindIn(V, "directory")
        /\ OneMore(FailedIn(W, D, U), FailedIn(V, D, U), n)
        /\ ReadIn(W, U) = ReadIn(V, U)
    <3>1. Visits(W, V, n, {"file"})
      BY <1>1, <1>5 DEF Visits
    <3> QED
      BY <1>5, <3>1, FileEntry
  <2>2. Cardinality(FailedIn(W, D, U)) = Cardinality(FailedIn(V, D, U)) + 1
    BY <2>1, SetsAreFinite, OneMoreNode
  <2>3. Cardinality(SkippedIn(W)) + Cardinality(FailedIn(W, D, U))
        = Cardinality(SkippedIn(V)) + Cardinality(FailedIn(V, D, U)) + 1
    BY <1>3, <2>1, <2>2
  <2>4. b = Skip(a) /\ V \subseteq W
    BY <1>1, <1>5
  <2>5. Correct(b, W, D, U)
    BY <2>1, <2>3, <2>4, SkipCorrect
  <2> QED
    BY <1>1, <2>5
<1>6. CASE Kind[n] = "file" /\ n \notin U
  <2>1. /\ SkippedIn(W) = SkippedIn(V) /\ KindIn(W, "directory") = KindIn(V, "directory")
        /\ OneMore(ReadIn(W, U), ReadIn(V, U), n)
        /\ FailedIn(W, D, U) = FailedIn(V, D, U)
    <3>1. Visits(W, V, n, {"file"})
      BY <1>1, <1>6 DEF Visits
    <3> QED
      BY <1>6, <3>1, FileEntry
  <2>2. b = VisitFile([a EXCEPT !.entries = @ + 1], n)
    BY <1>6 DEF Visit
  <2>3. FileVisited(b, a, n)
    BY <1>2, <2>2, VisitFileSound
  <2>4. Kinds(b)
    BY <1>2, <1>6, <2>3 DEF Kinds, FileVisited
  <2>5. PICK F : F = ReadIn(V, U)
    OBVIOUS
  <2>6. F \in SUBSET Nodes /\ n \notin F /\ ReadIn(W, U) = F \cup {n}
    BY <2>1, <2>5, SetsAreFinite DEF OneMore
  <2>7. Cardinality(F \cup {n}) = Cardinality(F) + 1
    BY <2>1, <2>5, <2>6, OneMoreNode
  <2>8. Capped(Capped(Bytes(F)) + Size[n]) = Capped(Bytes(F \cup {n}))
    <3>1. Bytes(F \cup {n}) = Bytes(F) + Size[n]
      BY <2>6, BytesOfMore
    <3>2. Bytes(F) \in Nat /\ Size[n] \in Nat
      BY <2>6, BytesType, NodeSize
    <3> QED
      BY <3>1, <3>2, CappedTwice
  <2>9. Top(b.largest, F \cup {n}, MaxLargest)
    <3>1. b.largest = PushLargest(a.largest, n, MaxLargest)
      BY <2>3 DEF FileVisited
    <3>2. Top(a.largest, F, MaxLargest)
      BY <1>2, <2>5 DEF Tally
    <3> QED
      BY <2>6, <3>1, <3>2, LimitsAssumption, TopOfMore
  <2>10. Tally(b, W, D, U)
    <3>1. /\ b.files = a.files + 1 /\ b.total = Capped(a.total + Size[n])
          /\ b.directories = a.directories /\ b.skipped = a.skipped
          /\ DOMAIN b.aggregates = DOMAIN a.aggregates
      BY <2>3 DEF FileVisited
    <3> QED
      BY <1>1, <1>2, <2>1, <2>5, <2>6, <2>7, <2>8, <2>9, <3>1 DEF Tally
  <2> QED
    BY <1>1, <2>3, <2>4, <2>10 DEF Correct, FileVisited
<1>7. CASE Kind[n] \in {"link", "special"}
  <2>1. /\ ReadIn(W, U) = ReadIn(V, U)
        /\ FailedIn(W, D, U) = FailedIn(V, D, U)
        /\ KindIn(W, "directory") = KindIn(V, "directory")
        /\ OneMore(SkippedIn(W), SkippedIn(V), n)
    <3>1. Visits(W, V, n, {"link", "special"})
      BY <1>1, <1>7 DEF Visits
    <3> QED
      BY <3>1, LinkEntry
  <2>2. Cardinality(SkippedIn(W)) = Cardinality(SkippedIn(V)) + 1
    BY <2>1, SetsAreFinite, OneMoreNode
  <2>3. Cardinality(SkippedIn(W)) + Cardinality(FailedIn(W, D, U))
        = Cardinality(SkippedIn(V)) + Cardinality(FailedIn(V, D, U)) + 1
    BY <1>3, <2>1, <2>2
  <2>4. b = Skip(a) /\ V \subseteq W
    BY <1>1, <1>7 DEF Visit
  <2>5. Correct(b, W, D, U)
    BY <2>1, <2>3, <2>4, SkipCorrect
  <2> QED
    BY <1>1, <2>5
<1> QED
  BY <1>4, <1>5, <1>6, <1>7, KindOfNode

-----------------------------------------------------------------------------
(* The entries that a walk reaches                                         *)

\* The entries that a walk reaches, when nothing of U can be read.
Closed(V, U) ==
  /\ V \in SUBSET (Nodes \ {Root})
  /\ \A n \in Nodes \ {Root} :
       n \in V <=> (ParentOf[n] = Root \/ ParentOf[n] \in V) /\ ParentOf[n] \notin U

LEMMA ReachedEntries ==
    ASSUME NEW V, Closed(V, unreadable)
    PROVE  \A n \in Nodes : Reached[n] <=> n = Root \/ n \in V
<1>1. PICK h : h = [n \in Nodes |-> n = Root \/ n \in V]
  OBVIOUS
<1>2. \A n \in Nodes \ {Root} : ParentOf[n] \in Nodes
  BY TreeAssumption
<1>3. h = [n \in Nodes |-> n = Root \/ (h[ParentOf[n]] /\ ParentOf[n] \notin unreadable)]
  <2>1. \A n \in Nodes : h[n] <=> (n = Root \/ (h[ParentOf[n]] /\ ParentOf[n] \notin unreadable))
    BY <1>1, <1>2 DEF Closed
  <2>2. \A n \in Nodes : h[n] = (n = Root \/ (h[ParentOf[n]] /\ ParentOf[n] \notin unreadable))
    BY <1>1, <2>1
  <2> QED
    BY <1>1, <2>2
<1>4. PICK r : r = Reached
  OBVIOUS
<1>5. r = [n \in Nodes |-> n = Root \/ (r[ParentOf[n]] /\ ParentOf[n] \notin unreadable)]
  BY <1>3, <1>4 DEF Reached
<1>6. \A n \in Nodes : r[n] <=> (n = Root \/ (r[ParentOf[n]] /\ ParentOf[n] \notin unreadable))
  BY <1>5
<1>7. PICK S : S = {n \in Nodes \ {Root} : ~ (r[n] <=> n \in V)}
  OBVIOUS
<1>8. S = {}
  <2>1. SUFFICES ASSUME S # {} PROVE FALSE
    OBVIOUS
  <2>2. PICK n \in S : ParentOf[n] \notin S
    BY <1>7, <2>1, TreeAssumption
  <2>3. n \in Nodes \ {Root} /\ ParentOf[n] \in Nodes
    BY <1>2, <1>7
  <2>4. r[ParentOf[n]] <=> ParentOf[n] = Root \/ ParentOf[n] \in V
    BY <1>6, <1>7, <2>2, <2>3 DEF Closed
  <2>5. r[n] <=> n \in V
    BY <1>6, <2>3, <2>4 DEF Closed
  <2> QED
    BY <1>7, <2>5
<1>9. \A n \in Nodes : r[n] <=> n = Root \/ n \in V
  BY <1>6, <1>7, <1>8 DEF Closed
<1> QED
  BY <1>4, <1>9

-----------------------------------------------------------------------------
(* A finished walk                                                         *)

LEMMA BytesInAnyOrder ==
    ASSUME NEW R \in SUBSET Nodes
    PROVE  SaturatingSum([i \in DOMAIN SetToSeq(R) |-> Size[SetToSeq(R)[i]]]) = Capped(Bytes(R))
<1>1. IsFiniteSet(R)
  BY BytesType
<1>2. PICK n \in Nat : n = Cardinality(R)
  BY <1>1, FS_CardinalityType
<1>3. PICK t : t = SetToSeq(R)
  OBVIOUS
<1>4. t \in Bijection(1..n, R)
  BY <1>1, <1>2, <1>3, SetAsSequence
<1>5. t \in [1..n -> R]
  BY <1>4 DEF Bijection, Injection
<1>6. PICK v : v = [f \in R |-> Size[f]]
  OBVIOUS
<1>7. PICK s : s = [i \in DOMAIN t |-> Size[t[i]]]
  OBVIOUS
<1>8. v \in [R -> Nat] /\ s \in [1..n -> Nat] /\ Renames(t, s, v)
  BY <1>5, <1>6, <1>7, NodeSize DEF Renames
<1>9. SaturatingSum(s) = Capped(Weight(v))
  BY <1>1, <1>4, <1>8, SumInAnyOrder
<1> QED
  BY <1>3, <1>6, <1>7, <1>9 DEF Bytes

\* The account of a walk that met every entry it can reach.
Finished(a, U) ==
  \E V : /\ Closed(V, U) /\ Root \notin U
         /\ Correct(a, V, {Root} \cup KindIn(V, "directory"), U)

LEMMA FinishedIsExact ==
    ASSUME Finished(acc, unreadable)
    PROVE  TotalsExact /\ LargestFirst
<1>1. PICK V : /\ Closed(V, unreadable) /\ Root \notin unreadable
               /\ Correct(acc, V, {Root} \cup KindIn(V, "directory"), unreadable)
  BY DEF Finished
<1>2. PICK D : D = {Root} \cup KindIn(V, "directory")
  OBVIOUS
<1>3. V \in SUBSET (Nodes \ {Root})
  BY <1>1 DEF Closed
<1>4. ASSUME NEW kind PROVE Met(kind) = KindIn(V, kind)
  <2>1. \A n \in Nodes \ {Root} : Reached[n] <=> n \in V
    BY <1>1, ReachedEntries
  <2> QED
    BY <1>3, <2>1 DEF Met, KindIn
<1>5. PICK R : R = ReadIn(V, unreadable)
  OBVIOUS
<1>6. ReadFiles = R
  BY <1>4, <1>5 DEF ReadFiles, ReadIn
<1>7. Met("link") \cup Met("special") = SkippedIn(V)
  BY <1>4 DEF SkippedIn
<1>8. (Met("file") \cup Met("directory")) \cap unreadable = FailedIn(V, D, unreadable)
  BY <1>1, <1>2, <1>4 DEF FailedIn
<1>9. Met("directory") = KindIn(V, "directory")
  BY <1>4
<1>10. Tally(acc, V, D, unreadable)
  BY <1>1, <1>2 DEF Correct
<1>11. R \in SUBSET Nodes
  BY <1>3, <1>5 DEF ReadIn, KindIn
<1>12. TotalsExact
  <2>1. acc.total = SaturatingSum([i \in DOMAIN SetToSeq(R) |-> Size[SetToSeq(R)[i]]])
    BY <1>5, <1>10, <1>11, BytesInAnyOrder DEF Tally
  <2>2. /\ acc.files = Cardinality(R)
        /\ acc.directories = Cardinality(Met("directory"))
        /\ acc.skipped = Cardinality(Met("link") \cup Met("special"))
                         + Cardinality((Met("file") \cup Met("directory")) \cap unreadable)
    BY <1>5, <1>7, <1>8, <1>9, <1>10 DEF Tally
  <2> QED
    BY <1>6, <2>1, <2>2 DEF TotalsExact
<1>13. LargestFirst
  <2>1. Top(acc.largest, R, MaxLargest) /\ acc.files = Cardinality(R)
    BY <1>5, <1>10 DEF Tally
  <2>2. acc.largest \in SUBSET Nodes
    BY <2>1 DEF Top
  <2>3. Len(Largest(acc)) = Cardinality(acc.largest)
    BY <2>2, LargestListed
  <2>4. Len(Largest(acc)) = IF acc.files < MaxLargest THEN acc.files ELSE MaxLargest
    BY <2>1, <2>3 DEF Top
  <2>5. \A f \in R \ acc.largest : \A g \in acc.largest : Size[f] <= Size[g]
    BY <2>1 DEF Top
  <2> QED
    BY <1>6, <2>4, <2>5 DEF LargestFirst
<1> QED
  BY <1>12, <1>13

-----------------------------------------------------------------------------
(* The queue and the channel of results                                    *)

\* A sequence with each member of a set once.
Lists(s, S) == /\ s \in Seq(S)
               /\ \A x \in S : \E i \in 1..Len(s) : s[i] = x
               /\ \A i, j \in 1..Len(s) : s[i] = s[j] => i = j

LEMMA ListsEmpty == ASSUME NEW S, Lists(<<>>, S) PROVE S = {}
  BY DEF Lists

LEMMA ListsAppend ==
    ASSUME NEW s, NEW S, Lists(s, S), NEW x, x \notin S, NEW T, T = S \cup {x}
    PROVE  Lists(Append(s, x), T)
<1>1. /\ s \in Seq(S) /\ \A y \in S : \E i \in 1..Len(s) : s[i] = y
      /\ \A i, j \in 1..Len(s) : s[i] = s[j] => i = j
  BY DEF Lists
<1>2. PICK n \in Nat : n = Len(s)
  BY <1>1
<1>3. PICK t : t = Append(s, x)
  OBVIOUS
<1>4. \A i \in 1..n : s[i] \in S
  BY <1>1, <1>2
<1>5. s \in Seq(T)
  BY <1>1
<1>6. t \in Seq(T) /\ Len(t) = n + 1 /\ t[n + 1] = x /\ \A i \in 1..n : t[i] = s[i]
  BY <1>2, <1>3, <1>5
<1>7. ASSUME NEW y \in T PROVE \E i \in 1..(n + 1) : t[i] = y
  <2>1. CASE y = x
    BY <1>6, <2>1
  <2>2. CASE y \in S
    <3>1. PICK i \in 1..n : s[i] = y
      BY <1>1, <1>2, <2>2
    <3>2. i \in 1..(n + 1) /\ t[i] = y
      BY <1>6, <3>1
    <3> QED
      BY <3>2
  <2> QED
    BY <2>1, <2>2
<1>8. ASSUME NEW i \in 1..(n + 1), NEW j \in 1..(n + 1), t[i] = t[j]
      PROVE  i = j
  <2>1. CASE i = n + 1 /\ j = n + 1
    BY <2>1
  <2>2. CASE i \in 1..n /\ j \in 1..n
    BY <1>1, <1>2, <1>6, <1>8, <2>2
  <2>3. CASE i = n + 1 /\ j \in 1..n
    BY <1>4, <1>6, <1>8, <2>3
  <2>4. CASE i \in 1..n /\ j = n + 1
    BY <1>4, <1>6, <1>8, <2>4
  <2> QED
    BY <2>1, <2>2, <2>3, <2>4
<1> QED
  BY <1>3, <1>6, <1>7, <1>8 DEF Lists

LEMMA ListsFront ==
    ASSUME NEW s, NEW S, Lists(s, S), s # <<>>, NEW T, T = S \ {Last(s)}
    PROVE  Last(s) \in S /\ Lists(Front(s), T)
<1>1. /\ s \in Seq(S) /\ \A y \in S : \E i \in 1..Len(s) : s[i] = y
      /\ \A i, j \in 1..Len(s) : s[i] = s[j] => i = j
  BY DEF Lists
<1>2. PICK n \in Nat : n = Len(s) /\ n > 0
  BY <1>1
<1>3. PICK x : x = s[n]
  OBVIOUS
<1>4. Last(s) = x
  BY <1>2, <1>3 DEF Last
<1>5. PICK t : t = Front(s)
  OBVIOUS
<1>6. t = [i \in 1..(n - 1) |-> s[i]]
  BY <1>1, <1>2, <1>5 DEF Front
<1>7. \A i \in 1..n : s[i] \in S
  BY <1>1, <1>2
<1>8. \A i \in 1..(n - 1) : i \in 1..n /\ i # n /\ t[i] = s[i]
  BY <1>6
<1>9. t \in Seq(T) /\ Len(t) = n - 1
  <2>1. ASSUME NEW i \in 1..(n - 1) PROVE s[i] \in T
    <3>1. i \in 1..n /\ n \in 1..n /\ i # n
      BY <1>2
    <3>2. s[i] # x
      BY <1>1, <1>2, <1>3, <3>1
    <3> QED
      BY <1>4, <1>7, <3>1, <3>2
  <2>2. n - 1 \in Nat
    BY <1>2
  <2>3. t \in [1..(n - 1) -> T]
    BY <1>6, <2>1
  <2> QED
    BY <2>2, <2>3
<1>10. ASSUME NEW y \in T PROVE \E i \in 1..(n - 1) : t[i] = y
  <2>1. PICK i \in 1..n : s[i] = y
    BY <1>1, <1>2
  <2>2. i # n
    BY <1>3, <1>4, <2>1
  <2>3. i \in 1..(n - 1)
    BY <2>2
  <2> QED
    BY <1>8, <2>1, <2>3
<1>11. \A i, j \in 1..(n - 1) : t[i] = t[j] => i = j
  BY <1>1, <1>2, <1>8
<1>12. Lists(t, T)
  BY <1>9, <1>10, <1>11 DEF Lists
<1>13. x \in S
  BY <1>2, <1>3, <1>7
<1> QED
  BY <1>4, <1>5, <1>12, <1>13

LEMMA ListsTail ==
    ASSUME NEW s, NEW S, Lists(s, S), s # <<>>, NEW T, T = S \ {Head(s)}
    PROVE  Head(s) \in S /\ Lists(Tail(s), T)
<1>1. /\ s \in Seq(S) /\ \A y \in S : \E i \in 1..Len(s) : s[i] = y
      /\ \A i, j \in 1..Len(s) : s[i] = s[j] => i = j
  BY DEF Lists
<1>2. PICK n \in Nat : n = Len(s) /\ n > 0
  BY <1>1
<1>3. PICK x : x = s[1]
  OBVIOUS
<1>4. Head(s) = x
  BY <1>1, <1>2, <1>3
<1>5. PICK t : t = Tail(s)
  OBVIOUS
<1>6. t \in Seq(S) /\ Len(t) = n - 1 /\ \A i \in 1..(n - 1) : t[i] = s[i + 1]
  BY <1>1, <1>2, <1>5
<1>7. \A i \in 1..n : s[i] \in S
  BY <1>1, <1>2
<1>8. \A i \in 1..(n - 1) : i + 1 \in 1..n /\ i + 1 # 1
  OBVIOUS
<1>9. t \in Seq(T)
  <2>1. \A i \in 1..(n - 1) : t[i] \in T
    BY <1>1, <1>2, <1>3, <1>4, <1>6, <1>7, <1>8
  <2> QED
    BY <1>6, <2>1
<1>10. ASSUME NEW y \in T PROVE \E i \in 1..(n - 1) : t[i] = y
  <2>1. PICK i \in 1..n : s[i] = y
    BY <1>1, <1>2
  <2>2. i # 1
    BY <1>3, <1>4, <2>1
  <2>3. i - 1 \in 1..(n - 1) /\ (i - 1) + 1 = i
    BY <2>2
  <2> QED
    BY <1>6, <2>1, <2>3
<1>11. ASSUME NEW i \in 1..(n - 1), NEW j \in 1..(n - 1), t[i] = t[j] PROVE i = j
  <2>1. i + 1 \in 1..n /\ j + 1 \in 1..n /\ s[i + 1] = s[j + 1]
    BY <1>6, <1>8, <1>11
  <2>2. i + 1 = j + 1
    BY <1>1, <1>2, <2>1
  <2> QED
    BY <2>2
<1>12. Lists(t, T)
  BY <1>6, <1>9, <1>10, <1>11 DEF Lists
<1>13. x \in S
  BY <1>2, <1>3, <1>7
<1> QED
  BY <1>4, <1>5, <1>12, <1>13

LEMMA ListsLength ==
    ASSUME NEW s, NEW S, Lists(s, S)
    PROVE  Len(s) \in Nat /\ IsFiniteSet(S) /\ Cardinality(S) = Len(s)
<1>1. /\ s \in Seq(S) /\ \A y \in S : \E i \in 1..Len(s) : s[i] = y
      /\ \A i, j \in 1..Len(s) : s[i] = s[j] => i = j
  BY DEF Lists
<1>2. PICK n \in Nat : n = Len(s)
  BY <1>1
<1>3. s \in [1..n -> S]
  BY <1>1, <1>2
<1>4. s \in Bijection(1..n, S)
  BY <1>1, <1>2, <1>3 DEF Bijection, Injection, Surjection, IsInjective
<1>5. ExistsBijection(1..n, S)
  BY <1>4 DEF ExistsBijection
<1>6. IsFiniteSet(1..n) /\ Cardinality(1..n) = n
  <2>1. 1 \in Int /\ n \in Int
    BY <1>2
  <2>2. IsFiniteSet(1..n) /\ Cardinality(1..n) = IF 1 > n THEN 0 ELSE n - 1 + 1
    BY <2>1, FS_Interval
  <2> QED
    BY <2>2
<1> QED
  BY <1>2, <1>5, <1>6, FS_Bijection

-----------------------------------------------------------------------------
(* Where each directory is                                                 *)

\* The workers hold each member of a set once, and nothing else.
HeldBy(r, H) == /\ r \in [Workers -> H \cup {NoDir}] /\ NoDir \notin H
                /\ \A d \in H : \E w \in Workers : r[w] = d
                /\ \A v, w \in Workers : r[v] = r[w] /\ r[v] # NoDir => v = w

LEMMA HeldTaken ==
    ASSUME NEW r, NEW H, HeldBy(r, H), NEW w \in Workers, r[w] = NoDir,
           NEW d, d \notin H, d # NoDir, NEW E, E = H \cup {d}
    PROVE  HeldBy([r EXCEPT ![w] = d], E)
<1>1. /\ r \in [Workers -> H \cup {NoDir}] /\ NoDir \notin H
      /\ \A x \in H : \E v \in Workers : r[v] = x
      /\ \A v, x \in Workers : r[v] = r[x] /\ r[v] # NoDir => v = x
  BY DEF HeldBy
<1>2. PICK t : t = [r EXCEPT ![w] = d]
  OBVIOUS
<1>3. t[w] = d /\ \A v \in Workers : v # w => t[v] = r[v]
  BY <1>1, <1>2
<1>4. t \in [Workers -> E \cup {NoDir}] /\ NoDir \notin E
  BY <1>1, <1>2
<1>5. ASSUME NEW x \in E PROVE \E v \in Workers : t[v] = x
  <2>1. CASE x = d
    BY <1>3, <2>1
  <2>2. CASE x # d
    <3>1. PICK v \in Workers : r[v] = x
      BY <1>1, <2>2
    <3>2. v # w
      BY <1>1, <2>2, <3>1
    <3> QED
      BY <1>3, <3>1, <3>2
  <2> QED
    BY <2>1, <2>2
<1>6. ASSUME NEW v \in Workers, NEW x \in Workers, t[v] = t[x], t[v] # NoDir
      PROVE  v = x
  <2>1. \A y \in Workers : r[y] # d
    BY <1>1
  <2> QED
    BY <1>1, <1>3, <1>6, <2>1
<1> QED
  BY <1>2, <1>4, <1>5, <1>6 DEF HeldBy

LEMMA HeldReturned ==
    ASSUME NEW r, NEW H, HeldBy(r, H), NEW w \in Workers, NEW d, r[w] = d, d # NoDir,
           NEW E, E = H \ {d}
    PROVE  d \in H /\ HeldBy([r EXCEPT ![w] = NoDir], E)
<1>1. /\ r \in [Workers -> H \cup {NoDir}] /\ NoDir \notin H
      /\ \A x \in H : \E v \in Workers : r[v] = x
      /\ \A v, x \in Workers : r[v] = r[x] /\ r[v] # NoDir => v = x
  BY DEF HeldBy
<1>2. PICK t : t = [r EXCEPT ![w] = NoDir]
  OBVIOUS
<1>3. t[w] = NoDir /\ \A v \in Workers : v # w => t[v] = r[v]
  BY <1>1, <1>2
<1>4. \A v \in Workers : t[v] \in E \cup {NoDir}
  BY <1>1, <1>3
<1>5. t \in [Workers -> E \cup {NoDir}] /\ NoDir \notin E
  BY <1>1, <1>2, <1>4
<1>6. ASSUME NEW x \in E PROVE \E v \in Workers : t[v] = x
  <2>1. PICK v \in Workers : r[v] = x
    BY <1>1
  <2>2. v # w
    BY <2>1
  <2> QED
    BY <1>3, <2>1, <2>2
<1>7. ASSUME NEW v \in Workers, NEW x \in Workers, t[v] = t[x], t[v] # NoDir
      PROVE  v = x
  BY <1>1, <1>3, <1>7
<1>8. d \in H
  BY <1>1
<1> QED
  BY <1>2, <1>5, <1>6, <1>7, <1>8 DEF HeldBy

LEMMA HeldCount ==
    ASSUME NEW r, NEW H, HeldBy(r, H)
    PROVE  /\ IsFiniteSet(H) /\ Cardinality(H) \in Nat /\ WorkerCount \in Nat
           /\ Cardinality(H) < WorkerCount => \E w \in Workers : r[w] = NoDir
<1>1. /\ r \in [Workers -> H \cup {NoDir}] /\ NoDir \notin H
      /\ \A x \in H : \E v \in Workers : r[v] = x
      /\ \A v, x \in Workers : r[v] = r[x] /\ r[v] # NoDir => v = x
  BY DEF HeldBy
<1>2. PICK B : B = {w \in Workers : r[w] # NoDir}
  OBVIOUS
<1>3. PICK b : b = [w \in B |-> r[w]]
  OBVIOUS
<1>4. b \in Bijection(B, H)
  BY <1>1, <1>2, <1>3 DEF Bijection, Injection, Surjection, IsInjective
<1>5. ExistsBijection(B, H)
  BY <1>4 DEF ExistsBijection
<1>6. IsFiniteSet(Workers) /\ B \in SUBSET Workers
  BY <1>2, WorkersAssumption
<1>7. IsFiniteSet(B)
  BY <1>6, FS_Subset
<1>8. IsFiniteSet(H) /\ Cardinality(H) = Cardinality(B)
  BY <1>5, <1>7, FS_Bijection
<1>9. Cardinality(H) \in Nat /\ WorkerCount \in Nat
  BY <1>6, <1>8, FS_CardinalityType DEF WorkerCount
<1>10. ASSUME Cardinality(H) < WorkerCount PROVE \E w \in Workers : r[w] = NoDir
  <2>1. B # Workers
    BY <1>8, <1>9, <1>10 DEF WorkerCount
  <2> QED
    BY <1>2, <2>1
<1> QED
  BY <1>8, <1>9, <1>10

-----------------------------------------------------------------------------

\* Every directory that waits is in one place: the queue q, a worker of r or
\* the results s.  Of these, a were handed out.
Places(q, r, s, a, Q, H, S) ==
  /\ Lists(q, Q) /\ HeldBy(r, H) /\ Lists(s, S)
  /\ Q \cap H = {} /\ Q \cap S = {} /\ H \cap S = {}
  /\ Q \cup H \cup S \subseteq Directories
  /\ a = Cardinality(H \cup S) /\ a <= WorkerCount

\* The directories handed to nobody, or not received yet.
Waiting(q, r, s, a, W) == \E Q, H, S : Places(q, r, s, a, Q, H, S) /\ W = Q \cup H \cup S

LEMMA DirectoriesAre ==
    /\ Directories \in SUBSET Nodes /\ NoDir \notin Directories /\ Root \in Directories
  BY TreeAssumption, WorkersAssumption DEF Directories, KindIn

LEMMA HandedOut ==
    ASSUME NEW q, NEW r, NEW s, NEW a, NEW Q, NEW H, NEW S, Places(q, r, s, a, Q, H, S)
    PROVE  a \in Nat /\ WorkerCount \in Nat /\ a <= WorkerCount /\ H \cup S \in SUBSET Nodes
<1>1. H \cup S \in SUBSET Nodes
  BY DirectoriesAre DEF Places
<1> QED
  BY <1>1, BytesType, HeldCount DEF Places

LEMMA WaitingRoot ==
    Waiting(<<Root>>, [w \in Workers |-> NoDir], <<>>, 0, {Root})
<1>1. Lists(<<Root>>, {Root}) /\ Lists(<<>>, {})
  BY DEF Lists
<1>2. HeldBy([w \in Workers |-> NoDir], {})
  BY DEF HeldBy
<1>3. Cardinality({}) = 0 /\ 0 <= WorkerCount
  BY WorkersAssumption, FS_EmptySet, FS_CardinalityType DEF WorkerCount
<1>4. Places(<<Root>>, [w \in Workers |-> NoDir], <<>>, 0, {Root}, {}, {})
  BY <1>1, <1>2, <1>3, DirectoriesAre DEF Places
<1> QED
  BY <1>4 DEF Waiting

LEMMA WaitingDispatched ==
    ASSUME NEW q, NEW r, NEW s, NEW a, NEW W, Waiting(q, r, s, a, W),
           NEW w \in Workers, r[w] = NoDir, q # <<>>, a < WorkerCount
    PROVE  Waiting(Front(q), [r EXCEPT ![w] = Last(q)], s, a + 1, W)
<1>1. PICK Q, H, S : Places(q, r, s, a, Q, H, S) /\ W = Q \cup H \cup S
  BY DEF Waiting
<1>2. PICK d : d = Last(q)
  OBVIOUS
<1>3. PICK P : P = Q \ {d}
  OBVIOUS
<1>4. PICK E : E = H \cup {d}
  OBVIOUS
<1>5. d \in Q /\ Lists(Front(q), P)
  BY <1>1, <1>2, <1>3, ListsFront DEF Places
<1>6. d \notin H /\ d \notin S /\ d \in Directories /\ d # NoDir /\ d \in Nodes
  BY <1>1, <1>5, DirectoriesAre DEF Places
<1>7. HeldBy([r EXCEPT ![w] = d], E)
  BY <1>1, <1>4, <1>6, HeldTaken DEF Places
<1>8. P \cap E = {} /\ P \cap S = {} /\ E \cap S = {} /\ P \cup E \cup S = W
      /\ W \subseteq Directories
  BY <1>1, <1>3, <1>4, <1>5, <1>6 DEF Places
<1>9. a + 1 = Cardinality(E \cup S) /\ a + 1 <= WorkerCount
  <2>1. PICK X : X = H \cup S
    OBVIOUS
  <2>2. OneMore(E \cup S, X, d)
    BY <1>4, <1>6, <2>1 DEF OneMore
  <2>3. a \in Nat /\ WorkerCount \in Nat /\ X \in SUBSET Nodes /\ a = Cardinality(X)
    BY <1>1, <2>1, HandedOut DEF Places
  <2>4. Cardinality(E \cup S) = Cardinality(X) + 1
    BY <2>2, <2>3, OneMoreNode
  <2> QED
    BY <2>3, <2>4
<1>10. Places(Front(q), [r EXCEPT ![w] = d], s, a + 1, P, E, S)
  BY <1>1, <1>5, <1>7, <1>8, <1>9 DEF Places
<1> QED
  BY <1>2, <1>8, <1>10 DEF Waiting

LEMMA WaitingSent ==
    ASSUME NEW q, NEW r, NEW s, NEW a, NEW W, Waiting(q, r, s, a, W),
           NEW w \in Workers, r[w] # NoDir
    PROVE  Waiting(q, [r EXCEPT ![w] = NoDir], Append(s, r[w]), a, W)
<1>1. PICK Q, H, S : Places(q, r, s, a, Q, H, S) /\ W = Q \cup H \cup S
  BY DEF Waiting
<1>2. PICK d : d = r[w]
  OBVIOUS
<1>3. PICK E : E = H \ {d}
  OBVIOUS
<1>4. PICK T : T = S \cup {d}
  OBVIOUS
<1>5. d \in H /\ HeldBy([r EXCEPT ![w] = NoDir], E)
  BY <1>1, <1>2, <1>3, HeldReturned DEF Places
<1>6. d \notin S
  BY <1>1, <1>5 DEF Places
<1>7. Lists(Append(s, d), T)
  BY <1>1, <1>4, <1>6, ListsAppend DEF Places
<1>8. Q \cap E = {} /\ Q \cap T = {} /\ E \cap T = {} /\ E \cup T = H \cup S
      /\ Q \cup E \cup T = W /\ W \subseteq Directories
  BY <1>1, <1>3, <1>4, <1>5 DEF Places
<1>9. Places(q, [r EXCEPT ![w] = NoDir], Append(s, d), a, Q, E, T)
  BY <1>1, <1>5, <1>7, <1>8 DEF Places
<1> QED
  BY <1>2, <1>8, <1>9 DEF Waiting

LEMMA WaitingReceived ==
    ASSUME NEW q, NEW r, NEW s, NEW a, NEW W, Waiting(q, r, s, a, W), s # <<>>
    PROVE  Head(s) \in W /\ Waiting(q, r, Tail(s), a - 1, W \ {Head(s)})
<1>1. PICK Q, H, S : Places(q, r, s, a, Q, H, S) /\ W = Q \cup H \cup S
  BY DEF Waiting
<1>2. PICK d : d = Head(s)
  OBVIOUS
<1>3. PICK T : T = S \ {d}
  OBVIOUS
<1>4. d \in S /\ Lists(Tail(s), T)
  BY <1>1, <1>2, <1>3, ListsTail DEF Places
<1>5. d \notin H /\ d \notin Q
  BY <1>1, <1>4 DEF Places
<1>6. Q \cap T = {} /\ H \cap T = {} /\ Q \cup H \cup T = W \ {d} /\ W \ {d} \subseteq Directories
  BY <1>1, <1>3, <1>5 DEF Places
<1>7. a - 1 = Cardinality(H \cup T) /\ a - 1 <= WorkerCount
  <2>1. PICK X : X = H \cup S
    OBVIOUS
  <2>2. PICK Y : Y = H \cup T
    OBVIOUS
  <2>3. OneMore(X, Y, d)
    BY <1>3, <1>4, <1>5, <2>1, <2>2 DEF OneMore
  <2>4. a \in Nat /\ WorkerCount \in Nat /\ X \in SUBSET Nodes /\ a = Cardinality(X)
        /\ a <= WorkerCount
    BY <1>1, <2>1, HandedOut DEF Places
  <2>5. Y \in SUBSET Nodes
    BY <1>3, <2>1, <2>2, <2>4
  <2>6. Cardinality(Y) \in Nat /\ Cardinality(X) = Cardinality(Y) + 1
    BY <2>3, <2>5, OneMoreNode
  <2> QED
    BY <2>2, <2>4, <2>6
<1>8. Places(q, r, Tail(s), a - 1, Q, H, T)
  BY <1>1, <1>4, <1>6, <1>7 DEF Places
<1> QED
  BY <1>1, <1>2, <1>4, <1>6, <1>8 DEF Waiting

LEMMA WaitingQueued ==
    ASSUME NEW q, NEW r, NEW s, NEW a, NEW W, Waiting(q, r, s, a, W),
           NEW d \in Directories \ W
    PROVE  Waiting(Append(q, d), r, s, a, W \cup {d})
<1>1. PICK Q, H, S : Places(q, r, s, a, Q, H, S) /\ W = Q \cup H \cup S
  BY DEF Waiting
<1>2. PICK P : P = Q \cup {d}
  OBVIOUS
<1>3. d \notin Q /\ d \notin H /\ d \notin S
  BY <1>1
<1>4. Lists(Append(q, d), P)
  BY <1>1, <1>2, <1>3, ListsAppend DEF Places
<1>5. P \cap H = {} /\ P \cap S = {} /\ P \cup H \cup S = W \cup {d}
      /\ W \cup {d} \subseteq Directories
  BY <1>1, <1>2, <1>3 DEF Places
<1>6. Places(Append(q, d), r, s, a, P, H, S)
  BY <1>1, <1>4, <1>5 DEF Places
<1> QED
  BY <1>5, <1>6 DEF Waiting

\* Nothing is left when the queue is empty and nothing is handed out.
LEMMA WaitingNone ==
    ASSUME NEW r, NEW s, NEW W, Waiting(<<>>, r, s, 0, W)
    PROVE  W = {}
<1>1. PICK Q, H, S : Places(<<>>, r, s, 0, Q, H, S) /\ W = Q \cup H \cup S
  BY DEF Waiting
<1>2. Q = {}
  BY <1>1, ListsEmpty DEF Places
<1>3. H \cup S \in SUBSET Nodes /\ Cardinality(H \cup S) = 0
  BY <1>1, HandedOut DEF Places
<1>4. H \cup S = {}
  <2>1. IsFiniteSet(H \cup S)
    BY <1>3, BytesType
  <2> QED
    BY <1>3, <2>1, FS_EmptySet
<1> QED
  BY <1>1, <1>2, <1>4

-----------------------------------------------------------------------------
(* The walk so far                                                         *)

\* The walk so far: the entries V were visited, the directories D received;
\* those of W wait and those of the list were not visited yet.
Walked(list, a, U, V, D, W) ==
  /\ D \in SUBSET Directories /\ V \in SUBSET (Nodes \ {Root})
  /\ W \cap D = {} /\ W \cup D = {Root} \cup KindIn(V, "directory")
  /\ Root \notin D \cap U
  /\ V \cap list = {} /\ V \cup list = {n \in Nodes \ {Root} : ParentOf[n] \in D \ U}
  /\ Correct(a, V, D, U)

\* A walk that still has the directories W to receive.
WalkedTo(list, a, U, W) == \E V, D : Walked(list, a, U, V, D, W)

LEMMA WalkBegins ==
    ASSUME NEW U
    PROVE  WalkedTo({}, Empty, U, {Root})
<1>1. /\ KindIn({}, "directory") = {} /\ ReadIn({}, U) = {} /\ SkippedIn({}) = {}
      /\ FailedIn({}, {}, U) = {}
  BY DEF KindIn, ReadIn, SkippedIn, FailedIn
<1>2. Cardinality({}) = 0
  BY FS_EmptySet
<1>3. Bytes({}) = 0 /\ Capped(0) = 0
  <2>1. DOMAIN [f \in {} |-> Size[f]] = {}
    OBVIOUS
  <2> QED
    BY <2>1, WeightOfNone, SizesAssumption DEF Bytes, Capped
<1>4. PICK e : e = << >>
  OBVIOUS
<1>5. DOMAIN e = {}
  BY <1>4
<1>6. /\ Empty.files = 0 /\ Empty.total = 0 /\ Empty.directories = 0 /\ Empty.skipped = 0
      /\ Empty.aggregates = e /\ Empty.largest = {} /\ Empty.directFiles = {}
  BY <1>4 DEF Empty
<1>7. Top({}, {}, MaxLargest)
  BY LimitsAssumption, TopOfNone
<1>8. Tally(Empty, {}, {}, U)
  <2>1. DOMAIN Empty.aggregates \subseteq {}
    BY <1>5, <1>6
  <2>2. Empty.skipped = Cardinality({}) + Cardinality({})
    BY <1>2, <1>6
  <2>3. Empty.total = Capped(Bytes({}))
    BY <1>3, <1>6
  <2>4. Empty.files = Cardinality({}) /\ Empty.directories = Cardinality({})
    BY <1>2, <1>6
  <2>5. Top(Empty.largest, {}, MaxLargest)
    BY <1>6, <1>7
  <2> QED
    BY <1>1, <2>1, <2>2, <2>3, <2>4, <2>5 DEF Tally
<1>9. Kinds(Empty)
  BY <1>5, <1>6 DEF Kinds
<1>10. Correct(Empty, {}, {}, U)
  BY <1>8, <1>9, NothingIsSound DEF Correct
<1>11. Walked({}, Empty, U, {}, {}, {Root})
  BY <1>1, <1>10 DEF Walked
<1> QED
  BY <1>11 DEF WalkedTo

\* A directory that cannot be read is received.
LEMMA WalkFails ==
    ASSUME NEW a, NEW U, NEW W, WalkedTo({}, a, U, W), ~ Full(a),
           NEW d \in W \cap U, d # Root
    PROVE  WalkedTo({}, Skip(a), U, W \ {d})
<1>1. PICK V, D : Walked({}, a, U, V, D, W)
  BY DEF WalkedTo
<1>2. PICK E : E = D \cup {d}
  OBVIOUS
<1>3. W \subseteq Directories
  BY <1>1, DirectoriesAre DEF Walked, KindIn, Directories
<1>4. d \in (Directories \cap U) \ D
  BY <1>1, <1>3 DEF Walked
<1>5. V \in SUBSET Nodes /\ D \in SUBSET Directories
  BY <1>1 DEF Walked
<1>6. Correct(Skip(a), V, E, U)
  BY <1>1, <1>2, <1>4, <1>5, FailedDirectory DEF Walked
<1>7. E \ U = D \ U
  BY <1>2
<1>8. Walked({}, Skip(a), U, V, E, W \ {d})
  BY <1>1, <1>2, <1>4, <1>6, <1>7 DEF Walked
<1> QED
  BY <1>8 DEF WalkedTo

\* The entries of a directory are received.
LEMMA WalkReads ==
    ASSUME NEW a, NEW U, NEW W, WalkedTo({}, a, U, W), NEW d \in W \ U
    PROVE  WalkedTo(Entries(d), a, U, W \ {d})
<1>1. PICK V, D : Walked({}, a, U, V, D, W)
  BY DEF WalkedTo
<1>2. PICK E : E = D \cup {d}
  OBVIOUS
<1>3. W \subseteq Directories
  BY <1>1, DirectoriesAre DEF Walked, KindIn, Directories
<1>4. d \in Directories \ D
  BY <1>1, <1>3 DEF Walked
<1>5. Correct(a, V, E, U)
  BY <1>1, <1>2, ReadDirectory DEF Walked
<1>6. V = {n \in Nodes \ {Root} : ParentOf[n] \in D \ U}
  BY <1>1 DEF Walked
<1>7. PICK list : list = Entries(d)
  OBVIOUS
<1>8. list = {n \in Nodes \ {Root} : ParentOf[n] = d}
  BY <1>7 DEF Entries
<1>9. V \cap list = {} /\ V \cup list = {n \in Nodes \ {Root} : ParentOf[n] \in E \ U}
  BY <1>2, <1>4, <1>6, <1>8
<1>10. /\ E \in SUBSET Directories /\ V \in SUBSET (Nodes \ {Root})
       /\ (W \ {d}) \cap E = {} /\ (W \ {d}) \cup E = {Root} \cup KindIn(V, "directory")
       /\ Root \notin E \cap U
  BY <1>1, <1>2, <1>4 DEF Walked
<1>11. Walked(list, a, U, V, E, W \ {d})
  BY <1>5, <1>9, <1>10 DEF Walked
<1> QED
  BY <1>7, <1>11 DEF WalkedTo

\* An entry of the list is visited.
Counted(a, U, n) == IF n \in U /\ Kind[n] = "file" THEN Skip(a) ELSE Visit(a, n)
Joined(W, n) == IF Kind[n] = "directory" THEN W \cup {n} ELSE W

LEMMA WalkVisits ==
    ASSUME NEW list, NEW a, NEW U, NEW W, WalkedTo(list, a, U, W), ~ Full(a), NEW n \in list
    PROVE  /\ WalkedTo(list \ {n}, Counted(a, U, n), U, Joined(W, n))
           /\ Kind[n] = "directory" => n \in Directories \ W
<1>1. PICK b : b = Counted(a, U, n)
  OBVIOUS
<1>2. PICK X : X = Joined(W, n)
  OBVIOUS
<1>3. PICK V, D : Walked(list, a, U, V, D, W)
  BY DEF WalkedTo
<1>4. PICK Y : Y = V \cup {n}
  OBVIOUS
<1>5. n \in (Nodes \ {Root}) \ V /\ V \in SUBSET Nodes /\ D \in SUBSET Directories
  BY <1>3 DEF Walked
<1>6. Correct(b, Y, D, U)
  <2>1. b = IF n \in U /\ Kind[n] = "file" THEN Skip(a) ELSE Visit(a, n)
    BY <1>1 DEF Counted
  <2> QED
    BY <1>3, <1>4, <1>5, <2>1, EntryCorrect DEF Walked
<1>7. KindIn(Y, "directory") = IF Kind[n] = "directory" THEN KindIn(V, "directory") \cup {n}
                               ELSE KindIn(V, "directory")
  BY <1>4 DEF KindIn
<1>8. n \notin W /\ n \notin D
  <2>1. n \notin {Root} \cup KindIn(V, "directory")
    BY <1>5 DEF KindIn
  <2> QED
    BY <1>3, <2>1 DEF Walked
<1>9. X \cap D = {} /\ X \cup D = {Root} \cup KindIn(Y, "directory")
  BY <1>3, <1>7, <1>8, <1>2 DEF Walked, Joined
<1>10. Y \cap (list \ {n}) = {} /\ Y \cup (list \ {n}) = V \cup list
  BY <1>3, <1>4 DEF Walked
<1>11. Walked(list \ {n}, b, U, Y, D, X)
  BY <1>3, <1>4, <1>5, <1>6, <1>9, <1>10 DEF Walked
<1>12. Kind[n] = "directory" => n \in Directories \ W
  BY <1>5, <1>8 DEF Directories, KindIn
<1> QED
  BY <1>11, <1>12, <1>1, <1>2 DEF WalkedTo

\* Nothing waits any more.
LEMMA WalkEnds ==
    ASSUME NEW a, NEW U, WalkedTo({}, a, U, {})
    PROVE  Finished(a, U)
<1>1. PICK V, D : Walked({}, a, U, V, D, {})
  BY DEF WalkedTo
<1>2. D = {Root} \cup KindIn(V, "directory") /\ Root \notin U
  BY <1>1 DEF Walked
<1>3. V \in SUBSET (Nodes \ {Root}) /\ V = {n \in Nodes \ {Root} : ParentOf[n] \in D \ U}
  BY <1>1 DEF Walked
<1>4. \A n \in Nodes \ {Root} : ParentOf[n] \in Nodes /\ Kind[ParentOf[n]] = "directory"
  BY TreeAssumption
<1>5. \A n \in Nodes \ {Root} : ParentOf[n] \in D <=> ParentOf[n] = Root \/ ParentOf[n] \in V
  BY <1>2, <1>4 DEF KindIn
<1>6. Closed(V, U)
  BY <1>3, <1>5 DEF Closed
<1> QED
  BY <1>1, <1>2, <1>6 DEF Finished, Walked

LEMMA WalkIsCorrect ==
    ASSUME NEW list, NEW a, NEW U, NEW W, WalkedTo(list, a, U, W)
    PROVE  Sound(a) /\ Kinds(a)
  BY DEF WalkedTo, Walked, Correct

-----------------------------------------------------------------------------
(* The invariant of the walk                                               *)

\* Every byte, file and directory counted is in the rows, at every moment.
BooksBalance == Sound(acc) /\ Kinds(acc)

\* A complete walk left nothing out.
CompleteIsFinished == outcome = "complete" => Finished(acc, unreadable)

\* No outcome before the loop ends.
Looping == pc = "loop" => outcome = "none"

\* No worker returns while the coordinator loops and the context lives.
WorkersRun == /\ running \subseteq Workers
              /\ pc = "loop" /\ ctx = "live" => running = Workers

\* Each directory is in one place, and each entry visited or still to come.
Progress == \E W : /\ Waiting(queue, reading, results, active, W)
                   /\ pc = "loop" => WalkedTo(listing, acc, unreadable, W)

\* The accounts are in balance at every moment, and the walk is where it
\* says it is.
Inv == BooksBalance /\ CompleteIsFinished /\ Looping /\ WorkersRun /\ Progress

LEMMA InitInv == ASSUME Init PROVE Inv
<1>1. BooksBalance
  <2>1. WalkedTo({}, Empty, unreadable, {Root})
    BY WalkBegins
  <2> QED
    BY <2>1, WalkIsCorrect DEF Init, BooksBalance
<1>2. CompleteIsFinished /\ Looping /\ WorkersRun
  BY DEF Init, CompleteIsFinished, Looping, WorkersRun
<1>3. Progress
  <2>1. Waiting(queue, reading, results, active, {Root})
    BY WaitingRoot DEF Init
  <2>2. WalkedTo(listing, acc, unreadable, {Root})
    BY WalkBegins DEF Init
  <2> QED
    BY <2>1, <2>2 DEF Progress
<1> QED
  BY <1>1, <1>2, <1>3 DEF Inv

\* A step that counts nothing.
Uncounted == UNCHANGED <<acc, unreadable>> /\ outcome' = outcome

LEMMA UncountedStep ==
    ASSUME Inv, Uncounted
    PROVE  BooksBalance' /\ CompleteIsFinished'
<1>1. Sound(acc) /\ Kinds(acc) /\ acc' = acc /\ unreadable' = unreadable /\ outcome' = outcome
  BY DEF Inv, BooksBalance, Uncounted
<1>2. BooksBalance'
  BY <1>1 DEF BooksBalance
<1>3. CompleteIsFinished'
  BY <1>1 DEF Inv, CompleteIsFinished
<1> QED
  BY <1>2, <1>3

LEMMA DispatchInv == ASSUME Inv, NEW w \in Workers, Dispatch(w) PROVE Inv'
<1>1. BooksBalance' /\ CompleteIsFinished'
  BY UncountedStep DEF Dispatch, Uncounted
<1>2. Looping' /\ WorkersRun'
  BY DEF Dispatch, Inv, Looping, WorkersRun
<1>3. Progress'
  <2>1. PICK W : /\ Waiting(queue, reading, results, active, W)
                 /\ pc = "loop" => WalkedTo(listing, acc, unreadable, W)
    BY DEF Inv, Progress
  <2>2. Waiting(Front(queue), [reading EXCEPT ![w] = Last(queue)], results, active + 1, W)
    BY <2>1, WaitingDispatched DEF Dispatch
  <2>3. Waiting(queue', reading', results', active', W)
    BY <2>2 DEF Dispatch
  <2>4. pc' = "loop" => WalkedTo(listing', acc', unreadable', W)
    BY <2>1 DEF Dispatch
  <2> QED
    BY <2>3, <2>4 DEF Progress
<1> QED
  BY <1>1, <1>2, <1>3 DEF Inv

LEMMA SendResultInv == ASSUME Inv, NEW w \in Workers, SendResult(w) PROVE Inv'
<1>1. BooksBalance' /\ CompleteIsFinished'
  BY UncountedStep DEF SendResult, Uncounted
<1>2. Looping' /\ WorkersRun'
  BY DEF SendResult, Inv, Looping, WorkersRun
<1>3. Progress'
  <2>1. PICK W : /\ Waiting(queue, reading, results, active, W)
                 /\ pc = "loop" => WalkedTo(listing, acc, unreadable, W)
    BY DEF Inv, Progress
  <2>2. Waiting(queue, [reading EXCEPT ![w] = NoDir], Append(results, reading[w]), active, W)
    BY <2>1, WaitingSent DEF SendResult
  <2>3. Waiting(queue', reading', results', active', W)
    BY <2>2 DEF SendResult
  <2>4. pc' = "loop" => WalkedTo(listing', acc', unreadable', W)
    BY <2>1 DEF SendResult
  <2> QED
    BY <2>3, <2>4 DEF Progress
<1> QED
  BY <1>1, <1>2, <1>3 DEF Inv

\* A step that moves no directory and visits nothing.
Idle == /\ UNCHANGED <<queue, active, reading, results, listing, acc, unreadable>>
        /\ pc' = "loop" => pc = "loop"

LEMMA IdleStep == ASSUME Inv, Idle PROVE BooksBalance' /\ Progress'
<1>1. BooksBalance'
  BY DEF Idle, Inv, BooksBalance
<1>2. Progress'
  BY DEF Idle, Inv, Progress
<1> QED
  BY <1>1, <1>2

LEMMA ReceiveErrorInv == ASSUME Inv, ReceiveError PROVE Inv'
<1>1. PICK W : /\ Waiting(queue, reading, results, active, W)
               /\ pc = "loop" => WalkedTo(listing, acc, unreadable, W)
  BY DEF Inv, Progress
<1>2. PICK d : d = Head(results)
  OBVIOUS
<1>3. /\ pc = "loop" /\ listing = {} /\ results # <<>> /\ d \in unreadable
      /\ UNCHANGED <<unreadable, queue, reading, running, listing, ctx>>
      /\ results' = Tail(results) /\ active' = active - 1
  BY <1>2 DEF ReceiveError, Selecting, pool
<1>4. d \in W /\ Waiting(queue', reading', results', active', W \ {d})
  BY <1>1, <1>2, <1>3, WaitingReceived
<1>5. outcome = "none"
  BY <1>3 DEF Inv, Looping
<1>6. CASE pc' = "return" /\ outcome' \in {"error", "cancelled", "limit"} /\ acc' = acc
  <2>1. BooksBalance'
    BY <1>6 DEF Inv, BooksBalance
  <2>2. CompleteIsFinished' /\ Looping' /\ WorkersRun'
    BY <1>3, <1>6 DEF Inv, CompleteIsFinished, Looping, WorkersRun
  <2>3. Progress'
    BY <1>4, <1>6 DEF Progress
  <2> QED
    BY <2>1, <2>2, <2>3 DEF Inv
<1>7. CASE d # Root /\ ~ Full(acc) /\ acc' = Skip(acc) /\ pc' = pc /\ outcome' = outcome
  <2>1. WalkedTo({}, Skip(acc), unreadable, W \ {d})
    BY <1>1, <1>3, <1>4, <1>7, WalkFails
  <2>2. WalkedTo(listing', acc', unreadable', W \ {d})
    BY <1>3, <1>7, <2>1
  <2>3. BooksBalance'
    BY <2>2, WalkIsCorrect DEF BooksBalance
  <2>4. CompleteIsFinished' /\ Looping' /\ WorkersRun'
    BY <1>3, <1>5, <1>7 DEF Inv, CompleteIsFinished, Looping, WorkersRun
  <2>5. Progress'
    BY <1>4, <2>2 DEF Progress
  <2> QED
    BY <2>3, <2>4, <2>5 DEF Inv
<1> QED
  BY <1>2, <1>6, <1>7 DEF ReceiveError, Return

LEMMA ReceiveInv == ASSUME Inv, Receive PROVE Inv'
<1>1. PICK W : /\ Waiting(queue, reading, results, active, W)
               /\ pc = "loop" => WalkedTo(listing, acc, unreadable, W)
  BY DEF Inv, Progress
<1>2. PICK d : d = Head(results)
  OBVIOUS
<1>3. /\ pc = "loop" /\ listing = {} /\ results # <<>> /\ d \notin unreadable
      /\ UNCHANGED <<unreadable, queue, reading, running, ctx, pc, outcome, acc>>
      /\ results' = Tail(results) /\ active' = active - 1 /\ listing' = Entries(d)
  BY <1>2 DEF Receive, Selecting, pool
<1>4. d \in W /\ Waiting(queue', reading', results', active', W \ {d})
  BY <1>1, <1>2, <1>3, WaitingReceived
<1>5. WalkedTo(listing', acc', unreadable', W \ {d})
  <2>1. WalkedTo(Entries(d), acc, unreadable, W \ {d})
    BY <1>1, <1>3, <1>4, WalkReads
  <2> QED
    BY <1>3, <2>1
<1>6. BooksBalance' /\ CompleteIsFinished'
  BY <1>3, UncountedStep DEF Uncounted
<1>7. Looping' /\ WorkersRun'
  BY <1>3 DEF Inv, Looping, WorkersRun
<1>8. Progress'
  BY <1>4, <1>5 DEF Progress
<1> QED
  BY <1>6, <1>7, <1>8 DEF Inv

LEMMA VisitEntryInv == ASSUME Inv, NEW n \in Nodes, VisitEntry(n) PROVE Inv'
<1>1. PICK W : /\ Waiting(queue, reading, results, active, W)
               /\ pc = "loop" => WalkedTo(listing, acc, unreadable, W)
  BY DEF Inv, Progress
<1>2. /\ pc = "loop" /\ n \in listing
      /\ UNCHANGED <<unreadable, active, reading, running, results, ctx>>
  BY DEF VisitEntry, pool
<1>3. outcome = "none"
  BY <1>2 DEF Inv, Looping
<1>4. CASE /\ pc' = "return" /\ outcome' \in {"cancelled", "limit"}
           /\ UNCHANGED <<queue, listing, acc>>
  <2>1. BooksBalance' /\ Progress'
    BY <1>2, <1>4, IdleStep DEF Idle
  <2>2. CompleteIsFinished' /\ Looping' /\ WorkersRun'
    BY <1>2, <1>4 DEF Inv, CompleteIsFinished, Looping, WorkersRun
  <2> QED
    BY <2>1, <2>2 DEF Inv
<1>5. CASE /\ ~ Full(acc)
           /\ listing' = listing \ {n}
           /\ acc' = IF n \in unreadable /\ Kind[n] = "file" THEN Skip(acc) ELSE Visit(acc, n)
           /\ queue' = IF Kind[n] = "directory" THEN Append(queue, n) ELSE queue
           /\ UNCHANGED <<pc, outcome>>
  <2>1. PICK X : X = Joined(W, n)
    OBVIOUS
  <2>2. PICK b : b = Counted(acc, unreadable, n)
    OBVIOUS
  <2>3. /\ WalkedTo(listing \ {n}, b, unreadable, X)
        /\ Kind[n] = "directory" => n \in Directories \ W
    <3>1. WalkedTo(listing, acc, unreadable, W) /\ ~ Full(acc) /\ n \in listing
      BY <1>1, <1>2, <1>5
    <3> QED
      BY <2>1, <2>2, <3>1, WalkVisits
  <2>4. WalkedTo(listing', acc', unreadable', X)
    BY <1>2, <1>5, <2>2, <2>3 DEF Counted
  <2>5. Waiting(queue', reading', results', active', X)
    <3>1. CASE Kind[n] = "directory"
      <4>1. Waiting(Append(queue, n), reading, results, active, W \cup {n})
        BY <1>1, <2>3, <3>1, WaitingQueued
      <4> QED
        BY <1>2, <1>5, <2>1, <3>1, <4>1 DEF Joined
    <3>2. CASE Kind[n] # "directory"
      BY <1>1, <1>2, <1>5, <2>1, <3>2 DEF Joined
    <3> QED
      BY <3>1, <3>2
  <2>6. BooksBalance'
    BY <2>4, WalkIsCorrect DEF BooksBalance
  <2>7. CompleteIsFinished' /\ Looping' /\ WorkersRun'
    BY <1>2, <1>3, <1>5 DEF Inv, CompleteIsFinished, Looping, WorkersRun
  <2>8. Progress'
    BY <2>4, <2>5 DEF Progress
  <2> QED
    BY <2>6, <2>7, <2>8 DEF Inv
<1> QED
  BY <1>4, <1>5 DEF VisitEntry, Return

LEMMA ExhaustedInv == ASSUME Inv, Exhausted PROVE Inv'
<1>1. PICK W : /\ Waiting(queue, reading, results, active, W)
               /\ pc = "loop" => WalkedTo(listing, acc, unreadable, W)
  BY DEF Inv, Progress
<1>2. /\ pc = "loop" /\ listing = {} /\ queue = <<>> /\ active = 0 /\ pc' = "return"
      /\ UNCHANGED <<unreadable, queue, active, reading, running, results, listing, ctx, acc>>
  BY DEF Exhausted, Selecting, Return, pool
<1>3. W = {}
  BY <1>1, <1>2, WaitingNone
<1>4. Finished(acc, unreadable)
  BY <1>1, <1>2, <1>3, WalkEnds
<1>5. CompleteIsFinished'
  BY <1>2, <1>4 DEF CompleteIsFinished
<1>6. BooksBalance' /\ Progress'
  BY <1>2, IdleStep DEF Idle
<1>7. Looping' /\ WorkersRun'
  BY <1>2 DEF Inv, Looping, WorkersRun
<1> QED
  BY <1>5, <1>6, <1>7 DEF Inv

LEMMA NextInv == ASSUME Inv, [Next]_vars PROVE Inv'
<1>1. ASSUME NEW w \in Workers, Dispatch(w) PROVE Inv'
  BY <1>1, DispatchInv
<1>2. ASSUME NEW w \in Workers, SendResult(w) PROVE Inv'
  BY <1>2, SendResultInv
<1>3. ASSUME NEW w \in Workers, WorkerReturns(w) PROVE Inv'
  <2>1. BooksBalance' /\ Progress'
    BY <1>3, IdleStep DEF WorkerReturns, Idle
  <2>2. CompleteIsFinished'
    BY <1>3, UncountedStep DEF WorkerReturns, Uncounted
  <2>3. Looping' /\ WorkersRun'
    BY <1>3 DEF WorkerReturns, Inv, Looping, WorkersRun
  <2> QED
    BY <2>1, <2>2, <2>3 DEF Inv
<1>4. CASE ReceiveError
  BY <1>4, ReceiveErrorInv
<1>5. CASE Receive
  BY <1>5, ReceiveInv
<1>6. ASSUME NEW n \in Nodes, VisitEntry(n) PROVE Inv'
  BY <1>6, VisitEntryInv
<1>7. CASE NoticeCancel
  <2>1. BooksBalance' /\ Progress'
    BY <1>7, IdleStep DEF NoticeCancel, Return, pool, Idle
  <2>2. CompleteIsFinished' /\ Looping' /\ WorkersRun'
    BY <1>7 DEF NoticeCancel, Return, pool, Inv, CompleteIsFinished, Looping, WorkersRun
  <2> QED
    BY <2>1, <2>2 DEF Inv
<1>8. CASE Exhausted
  BY <1>8, ExhaustedInv
<1>9. CASE StopWorkers
  <2>1. BooksBalance' /\ Progress'
    BY <1>9, IdleStep DEF StopWorkers, pool, Idle
  <2>2. CompleteIsFinished'
    BY <1>9, UncountedStep DEF StopWorkers, Uncounted
  <2>3. Looping' /\ WorkersRun'
    BY <1>9 DEF StopWorkers, pool, Inv, Looping, WorkersRun
  <2> QED
    BY <2>1, <2>2, <2>3 DEF Inv
<1>10. CASE WorkersStopped
  <2>1. BooksBalance' /\ Progress'
    BY <1>10, IdleStep DEF WorkersStopped, pool, Idle
  <2>2. CompleteIsFinished'
    BY <1>10, UncountedStep DEF WorkersStopped, Uncounted
  <2>3. Looping' /\ WorkersRun'
    BY <1>10 DEF WorkersStopped, pool, Inv, Looping, WorkersRun
  <2> QED
    BY <2>1, <2>2, <2>3 DEF Inv
<1>11. CASE CancelContext
  <2>1. BooksBalance' /\ Progress'
    BY <1>11, IdleStep DEF CancelContext, pool, Idle
  <2>2. CompleteIsFinished'
    BY <1>11, UncountedStep DEF CancelContext, Uncounted
  <2>3. Looping' /\ WorkersRun'
    BY <1>11 DEF CancelContext, pool, Inv, Looping, WorkersRun
  <2> QED
    BY <2>1, <2>2, <2>3 DEF Inv
<1>12. CASE UNCHANGED vars
  <2>1. BooksBalance' /\ Progress'
    BY <1>12, IdleStep DEF vars, Idle
  <2>2. CompleteIsFinished'
    BY <1>12, UncountedStep DEF vars, Uncounted
  <2>3. Looping' /\ WorkersRun'
    BY <1>12 DEF vars, Inv, Looping, WorkersRun
  <2> QED
    BY <2>1, <2>2, <2>3 DEF Inv
<1> QED
  BY <1>1, <1>2, <1>3, <1>4, <1>5, <1>6, <1>7, <1>8, <1>9, <1>10, <1>11, <1>12
  DEF Next, Coordinator, Worker

LEMMA AlwaysInv == Spec => []Inv
<1>1. Init => Inv
  BY InitInv
<1>2. Inv /\ [Next]_vars => Inv'
  BY NextInv
<1> QED
  BY <1>1, <1>2, PTL DEF Spec

-----------------------------------------------------------------------------

LEMMA BooksAddUp == ASSUME BooksBalance PROVE RowsAddUp
<1>1. /\ Omitted(Children(acc)).size = acc.total
      /\ Omitted(Children(acc)).directories = acc.directories
  BY ChildrenAddUp DEF BooksBalance
<1>2. /\ Omitted(Extensions(acc)).size = acc.total
      /\ Omitted(Extensions(acc)).files = acc.files
  BY ExtensionsAddUp DEF BooksBalance
<1> QED
  BY <1>1, <1>2 DEF RowsAddUp

\* What scanStorageTree reports adds up: at any moment of a walk the rows of
\* children and of extensions, with what the limits left to the rows "other",
\* have the bytes, files and directories of the totals, and the totals of a
\* complete walk are those of the tree, however the workers interleave.
THEOREM ReportIsRight == Spec => []ReportAddsUp
<1>1. Inv => ReportAddsUp
  <2>1. Inv => RowsAddUp
    BY BooksAddUp DEF Inv
  <2>2. Inv => TotalsExact
    <3>1. CASE outcome = "complete"
      BY <3>1, FinishedIsExact DEF Inv, CompleteIsFinished
    <3>2. CASE outcome # "complete"
      BY <3>2 DEF TotalsExact
    <3> QED
      BY <3>1, <3>2
  <2> QED
    BY <2>1, <2>2 DEF ReportAddsUp
<1> QED
  BY <1>1, AlwaysInv, PTL

\* pushLargest keeps the largest files: whatever the order in which the walk
\* meets them, a complete report lists as many as its limit allows, and no
\* file that it leaves out is larger than one that it lists.
THEOREM LargestAreFirst == Spec => []LargestFirst
<1>1. Inv => LargestFirst
  <2>1. CASE outcome = "complete"
    BY <2>1, FinishedIsExact DEF Inv, CompleteIsFinished
  <2>2. CASE outcome # "complete"
    BY <2>2 DEF LargestFirst
  <2> QED
    BY <2>1, <2>2
<1> QED
  BY <1>1, AlwaysInv, PTL

\* The channels of walkStorageEntries are large enough and never lose a
\* directory: a worker with a result has room to send it, a directory to hand
\* out finds a worker that waits for a task, and a coordinator that waits for
\* a result has one under way.
NobodyWaits ==
  /\ \A w \in running : reading[w] # NoDir => Len(results) < WorkerCount
  /\ pc = "loop" /\ ctx = "live" /\ queue # <<>> /\ active < WorkerCount
     => \E w \in running : reading[w] = NoDir
  /\ Selecting /\ queue = <<>> /\ active > 0
     => results # <<>> \/ \E w \in Workers : reading[w] # NoDir

\* With one result buffered for each worker, no goroutine of the walk is stuck
\* at a channel while the coordinator loops.
THEOREM ChannelsSuffice == Spec => []NobodyWaits
<1>1. Inv => NobodyWaits
  <2> SUFFICES ASSUME Inv PROVE NobodyWaits
    OBVIOUS
  <2>1. PICK W : Waiting(queue, reading, results, active, W)
    BY DEF Inv, Progress
  <2>2. PICK Q, H, S : Places(queue, reading, results, active, Q, H, S)
    BY <2>1 DEF Waiting
  <2>3. /\ active \in Nat /\ WorkerCount \in Nat /\ active <= WorkerCount
        /\ H \cup S \in SUBSET Nodes /\ active = Cardinality(H \cup S)
    BY <2>2, HandedOut DEF Places
  <2>4. /\ HeldBy(reading, H) /\ Lists(results, S) /\ H \cap S = {}
    BY <2>2 DEF Places
  <2>5. Len(results) \in Nat /\ IsFiniteSet(S) /\ Cardinality(S) = Len(results)
    BY <2>4, ListsLength
  <2>6. /\ IsFiniteSet(H) /\ Cardinality(H) \in Nat
        /\ Cardinality(H) < WorkerCount => \E w \in Workers : reading[w] = NoDir
    BY <2>4, HeldCount
  <2>7. running \subseteq Workers
    BY DEF Inv, WorkersRun
  <2>8. ASSUME NEW w \in running, reading[w] # NoDir PROVE Len(results) < WorkerCount
    <3>1. reading[w] \in H /\ reading[w] \notin S
      BY <2>4, <2>7, <2>8 DEF HeldBy
    <3>2. S \in SUBSET (H \cup S) /\ S # H \cup S
      BY <3>1
    <3>3. IsFiniteSet(H \cup S)
      BY <2>3, BytesType
    <3>4. Cardinality(S) <= Cardinality(H \cup S) /\ Cardinality(S) # Cardinality(H \cup S)
      BY <3>2, <3>3, FS_Subset
    <3> QED
      BY <2>3, <2>5, <3>4
  <2>9. ASSUME pc = "loop", ctx = "live", queue # <<>>, active < WorkerCount
        PROVE  \E w \in running : reading[w] = NoDir
    <3>1. Cardinality(H) <= active
      <4>1. IsFiniteSet(H \cup S) /\ H \in SUBSET (H \cup S)
        BY <2>3, BytesType
      <4> QED
        BY <2>3, <4>1, FS_Subset
    <3>2. Cardinality(H) < WorkerCount
      BY <2>3, <2>6, <2>9, <3>1
    <3> QED
      BY <2>6, <2>9, <3>2 DEF Inv, WorkersRun
  <2>10. ASSUME active > 0
         PROVE  results # <<>> \/ \E w \in Workers : reading[w] # NoDir
    <3>1. H \cup S # {}
      BY <2>3, <2>10, FS_EmptySet
    <3>2. CASE S # {}
      BY <2>4, <3>2, ListsEmpty
    <3>3. CASE H # {}
      BY <2>4, <3>3 DEF HeldBy
    <3> QED
      BY <3>1, <3>2, <3>3
  <2> QED
    BY <2>8, <2>9, <2>10 DEF NobodyWaits
<1> QED
  BY <1>1, AlwaysInv, PTL

=============================================================================
