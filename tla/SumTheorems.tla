----------------------------- MODULE SumTheorems -----------------------------
(* What a sum over a finite set is, whatever the order it is taken in, and  *)
(* the ranks of a finite set's elements.                                    *)
EXTENDS Sums, FiniteSetTheorems, WellFoundedInduction, TLAPS

(* The element a sum takes next, and the recursion it follows up to sets of n elements. *)
Pick(T) == CHOOSE x \in T : TRUE
Follows(g, f, S, n) ==
  \A T \in SUBSET S : Cardinality(T) <= n =>
    g[T] = IF T = {} THEN 0 ELSE f[Pick(T)] + g[T \ {Pick(T)}]

(* A non-empty set has the element that is taken. *)
LEMMA PickIn == ASSUME NEW T, T # {} PROVE Pick(T) \in T
BY DEF Pick

(* A non-empty set of natural numbers has a least one: what the inductions below rest on. *)
LEMMA LeastNat ==
  ASSUME NEW N \in SUBSET Nat, N # {}
  PROVE  \E n \in N : \A m \in Nat : m < n => m \notin N
<1>1. PICK n \in N : \A m \in N : ~(<<m, n>> \in OpToRel(<, Nat))
  BY WFMin, NatLessThanWellFounded
<1> QED BY <1>1 DEF OpToRel

(* A non-empty collection of subsets of a finite set has a smallest member. *)
LEMMA SmallestSet ==
  ASSUME NEW S, IsFiniteSet(S), NEW Bad \in SUBSET SUBSET S, Bad # {}
  PROVE  \E T \in Bad : \A U \in SUBSET S : Cardinality(U) < Cardinality(T) => U \notin Bad
<1> DEFINE N == {Cardinality(T) : T \in Bad}
<1>1. \A T \in SUBSET S : IsFiniteSet(T) /\ Cardinality(T) \in Nat
  BY FS_Subset, FS_CardinalityType
<1>2. N \in SUBSET Nat /\ N # {}
  BY <1>1
<1> HIDE DEF N
<1>3. PICK n \in N : \A m \in Nat : m < n => m \notin N
  BY <1>2, LeastNat
<1>4. PICK T \in Bad : n = Cardinality(T)
  BY <1>3 DEF N
<1> QED BY <1>1, <1>3, <1>4 DEF N

(* One element less. *)
LEMMA OneLess ==
  ASSUME NEW S, IsFiniteSet(S), NEW x \in S
  PROVE  /\ IsFiniteSet(S \ {x}) /\ Cardinality(S) \in Nat /\ Cardinality(S \ {x}) \in Nat
         /\ Cardinality(S \ {x}) = Cardinality(S) - 1
BY FS_RemoveElement, FS_CardinalityType

(* The recursion has a solution for sets of any size. *)
LEMMA SolutionExists ==
  ASSUME NEW S, IsFiniteSet(S), NEW f, NEW n \in Nat
  PROVE  \E g : g = [T \in SUBSET S |-> g[T]] /\ Follows(g, f, S, n)
<1> DEFINE P(k) == \E g : g = [T \in SUBSET S |-> g[T]] /\ Follows(g, f, S, k)
           Bad == {k \in Nat : ~P(k)}
<1>0. \A T \in SUBSET S : IsFiniteSet(T) /\ Cardinality(T) \in Nat /\ (Cardinality(T) = 0 <=> T = {})
  BY FS_Subset, FS_CardinalityType, FS_EmptySet
<1> SUFFICES ASSUME Bad # {} PROVE FALSE
  OBVIOUS
<1> HIDE DEF P
<1>3. PICK k \in Nat : ~P(k) /\ \A m \in Nat : m < k => P(m)
  BY LeastNat
<1>4. CASE k = 0
  <2> DEFINE g == [T \in SUBSET S |-> 0]
  <2>1. Follows(g, f, S, 0)
    BY <1>0 DEF Follows
  <2>2. g = [T \in SUBSET S |-> g[T]]
    OBVIOUS
  <2> QED BY <1>3, <1>4, <2>1, <2>2 DEF P
<1>5. CASE k # 0
  <2>1. k - 1 \in Nat /\ k - 1 < k
    BY <1>3, <1>5
  <2>2. PICK h : h = [T \in SUBSET S |-> h[T]] /\ Follows(h, f, S, k - 1)
    BY <1>3, <2>1 DEF P
  <2> DEFINE g == [T \in SUBSET S |-> IF T = {} THEN 0 ELSE f[Pick(T)] + h[T \ {Pick(T)}]]
  <2>3. ASSUME NEW T \in SUBSET S, Cardinality(T) <= k
        PROVE  g[T] = IF T = {} THEN 0 ELSE f[Pick(T)] + g[T \ {Pick(T)}]
    <3>1. CASE T = {}
      BY <3>1
    <3>2. CASE T # {}
      <4> DEFINE U == T \ {Pick(T)}
      <4>1. U \in SUBSET S /\ Cardinality(U) <= k - 1
        BY <3>2, <2>3, <1>0, <1>3, PickIn, OneLess
      <4>2. h[U] = IF U = {} THEN 0 ELSE f[Pick(U)] + h[U \ {Pick(U)}]
        BY <4>1, <2>2 DEF Follows
      <4>3. g[U] = h[U]
        BY <4>1, <4>2
      <4> QED BY <3>2, <4>3
    <3> QED BY <3>1, <3>2
  <2>4. Follows(g, f, S, k)
    BY <2>3 DEF Follows
  <2>5. g = [T \in SUBSET S |-> g[T]]
    OBVIOUS
  <2> QED BY <1>3, <2>4, <2>5 DEF P
<1> QED BY <1>4, <1>5

(* A sum is what the recursion says of the whole set. *)
LEMMA SumFollows ==
  ASSUME NEW S, IsFiniteSet(S), NEW f
  PROVE  \E g : /\ Follows(g, f, S, Cardinality(S)) /\ g[S] = SumOver(f, S)
                /\ g = [T \in SUBSET S |-> IF T = {} THEN 0 ELSE f[Pick(T)] + g[T \ {Pick(T)}]]
<1> DEFINE Eq(g) == g = [T \in SUBSET S |-> IF T = {} THEN 0 ELSE f[Pick(T)] + g[T \ {Pick(T)}]]
<1>1. SumOver(f, S) = (CHOOSE g : Eq(g))[S]
  BY DEF SumOver, Pick
<1>2. \A T \in SUBSET S : IsFiniteSet(T) /\ Cardinality(T) \in Nat /\ Cardinality(T) <= Cardinality(S)
  BY FS_Subset, FS_CardinalityType
<1>3. Cardinality(S) \in Nat
  BY FS_CardinalityType
<1>4. PICK h : h = [T \in SUBSET S |-> h[T]] /\ Follows(h, f, S, Cardinality(S))
  BY <1>3, SolutionExists
<1>5. Eq(h)
  BY <1>2, <1>4 DEF Follows
<1>6. Eq(CHOOSE g : Eq(g))
  BY <1>5
<1>7. \A g : Eq(g) => Follows(g, f, S, Cardinality(S))
  BY <1>2 DEF Follows
<1> QED BY <1>1, <1>6, <1>7

(* Solutions for a set and for a subset agree where their summands do. *)
LEMMA SolutionsAgree ==
  ASSUME NEW S, IsFiniteSet(S), NEW U \in SUBSET S, NEW e, NEW f, NEW g, NEW h,
         Follows(g, e, S, Cardinality(S)), Follows(h, f, U, Cardinality(U)),
         \A x \in U : e[x] = f[x]
  PROVE  \A T \in SUBSET U : g[T] = h[T]
<1> DEFINE Bad == {T \in SUBSET U : g[T] # h[T]}
<1>0. IsFiniteSet(U)
  BY FS_Subset
<1>1. \A T \in SUBSET U : /\ IsFiniteSet(T) /\ Cardinality(T) \in Nat
                          /\ Cardinality(T) <= Cardinality(U) /\ Cardinality(T) <= Cardinality(S)
  BY <1>0, FS_Subset, FS_CardinalityType
<1> SUFFICES ASSUME Bad # {} PROVE FALSE
  OBVIOUS
<1>b. Bad \in SUBSET SUBSET U
  OBVIOUS
<1> HIDE DEF Bad
<1>2. PICK T \in Bad : \A V \in SUBSET U : Cardinality(V) < Cardinality(T) => V \notin Bad
  BY <1>0, <1>b, SmallestSet
<1> USE DEF Bad
<1>3. /\ g[T] = IF T = {} THEN 0 ELSE e[Pick(T)] + g[T \ {Pick(T)}]
      /\ h[T] = IF T = {} THEN 0 ELSE f[Pick(T)] + h[T \ {Pick(T)}]
  BY <1>1 DEF Follows
<1>4. T # {}
  BY <1>3
<1>5. Pick(T) \in T
  BY <1>4, PickIn
<1> DEFINE V == T \ {Pick(T)}
<1>6. V \in SUBSET U /\ Cardinality(V) < Cardinality(T)
  BY <1>1, <1>5, OneLess
<1>7. g[V] = h[V]
  BY <1>2, <1>6
<1> QED BY <1>3, <1>5, <1>7

(* The empty sum. *)
LEMMA SumEmpty == ASSUME NEW f PROVE SumOver(f, {}) = 0
<1>1. IsFiniteSet({}) /\ Cardinality({}) = 0
  BY FS_EmptySet
<1> QED BY <1>1, SumFollows DEF Follows

(* Only the summands of the set count. *)
LEMMA SumCongruence ==
  ASSUME NEW S, IsFiniteSet(S), NEW e, NEW f, \A x \in S : e[x] = f[x]
  PROVE  SumOver(e, S) = SumOver(f, S)
<1>1. PICK g : Follows(g, e, S, Cardinality(S)) /\ g[S] = SumOver(e, S)
  BY SumFollows
<1>2. PICK h : Follows(h, f, S, Cardinality(S)) /\ h[S] = SumOver(f, S)
  BY SumFollows
<1>3. S \in SUBSET S
  OBVIOUS
<1>4. \A T \in SUBSET S : g[T] = h[T]
  BY <1>1, <1>2, <1>3, SolutionsAgree
<1> QED BY <1>1, <1>2, <1>3, <1>4

(* A sum is the element it takes first and the sum of the others. *)
LEMMA SumFirst ==
  ASSUME NEW S, IsFiniteSet(S), S # {}, NEW f
  PROVE  Pick(S) \in S /\ SumOver(f, S) = f[Pick(S)] + SumOver(f, S \ {Pick(S)})
<1> DEFINE U == S \ {Pick(S)}
<1>1. Pick(S) \in S /\ IsFiniteSet(U) /\ U \in SUBSET S /\ Cardinality(S) \in Nat
  BY PickIn, OneLess
<1>2. PICK g : Follows(g, f, S, Cardinality(S)) /\ g[S] = SumOver(f, S)
  BY SumFollows
<1>3. PICK h : Follows(h, f, U, Cardinality(U)) /\ h[U] = SumOver(f, U)
  BY <1>1, SumFollows
<1>4. \A T \in SUBSET U : g[T] = h[T]
  BY <1>1, <1>2, <1>3, SolutionsAgree
<1>5. g[S] = f[Pick(S)] + g[U]
  BY <1>1, <1>2 DEF Follows
<1> QED BY <1>1, <1>2, <1>3, <1>4, <1>5

(* A sum of zeros. *)
LEMMA SumZero ==
  ASSUME NEW S, IsFiniteSet(S), NEW f, \A x \in S : f[x] = 0
  PROVE  SumOver(f, S) = 0
<1> DEFINE Bad == {T \in SUBSET S : SumOver(f, T) # 0}
<1>1. Bad \in SUBSET SUBSET S
  OBVIOUS
<1>2. SUFFICES ASSUME Bad # {} PROVE FALSE
  OBVIOUS
<1>3. PICK T \in Bad : \A U \in SUBSET S : Cardinality(U) < Cardinality(T) => U \notin Bad
  <2> HIDE DEF Bad
  <2> QED BY <1>1, <1>2, SmallestSet
<1>4. T \in SUBSET S /\ SumOver(f, T) # 0 /\ IsFiniteSet(T)
  BY FS_Subset
<1>5. T # {}
  BY <1>4, SumEmpty
<1>6. Pick(T) \in T /\ SumOver(f, T) = f[Pick(T)] + SumOver(f, T \ {Pick(T)})
  BY <1>4, <1>5, SumFirst
<1>7. Cardinality(T \ {Pick(T)}) < Cardinality(T)
  BY <1>4, <1>6, OneLess
<1>8. SumOver(f, T \ {Pick(T)}) = 0
  BY <1>3, <1>4, <1>7
<1> QED BY <1>4, <1>6, <1>8

(* A sum of integers is an integer. *)
LEMMA SumType ==
  ASSUME NEW S, IsFiniteSet(S), NEW f, \A x \in S : f[x] \in Int
  PROVE  SumOver(f, S) \in Int
<1> DEFINE Bad == {T \in SUBSET S : SumOver(f, T) \notin Int}
<1> SUFFICES ASSUME Bad # {} PROVE FALSE
  OBVIOUS
<1>1. PICK T \in Bad : \A V \in SUBSET S : Cardinality(V) < Cardinality(T) => V \notin Bad
  <2>1. Bad \in SUBSET SUBSET S
    OBVIOUS
  <2> HIDE DEF Bad
  <2> QED BY <2>1, SmallestSet
<1>2. IsFiniteSet(T)
  BY FS_Subset
<1>3. T # {}
  BY SumEmpty
<1>4. Pick(T) \in T /\ SumOver(f, T) = f[Pick(T)] + SumOver(f, T \ {Pick(T)})
  BY <1>2, <1>3, SumFirst
<1>5. Cardinality(T \ {Pick(T)}) < Cardinality(T)
  BY <1>2, <1>4, OneLess
<1>6. SumOver(f, T \ {Pick(T)}) \in Int
  BY <1>1, <1>5
<1> QED BY <1>4, <1>6

(* A sum is any of its summands and the sum of the others: the order does not matter. *)
LEMMA SumRemove ==
  ASSUME NEW S, IsFiniteSet(S), NEW f, \A x \in S : f[x] \in Int, NEW y \in S
  PROVE  SumOver(f, S) = f[y] + SumOver(f, S \ {y})
<1> DEFINE Holds(T) == \A z \in T : SumOver(f, T) = f[z] + SumOver(f, T \ {z})
           Bad == {T \in SUBSET S : ~Holds(T)}
<1> SUFFICES ASSUME Bad # {} PROVE FALSE
  OBVIOUS
<1> HIDE DEF Holds
<1>1. PICK T \in Bad : \A V \in SUBSET S : Cardinality(V) < Cardinality(T) => V \notin Bad
  BY SmallestSet
<1>2. IsFiniteSet(T)
  BY FS_Subset
<1>3. ASSUME NEW z \in T PROVE SumOver(f, T) = f[z] + SumOver(f, T \ {z})
  <2> DEFINE x == Pick(T)
  <2>1. x \in T /\ SumOver(f, T) = f[x] + SumOver(f, T \ {x})
    BY <1>2, SumFirst
  <2> HIDE DEF x
  <2>2. CASE z = x
    BY <2>1, <2>2
  <2>3. CASE z # x
    <3>x. x \in T
      BY <2>1
    <3>a. Cardinality(T \ {x}) < Cardinality(T)
      BY <1>2, <3>x, OneLess
    <3>b. Cardinality(T \ {z}) < Cardinality(T)
      BY <1>2, OneLess
    <3>2. Holds(T \ {x}) /\ Holds(T \ {z})
      BY <1>1, <3>a, <3>b
    <3>3. /\ SumOver(f, T \ {x}) = f[z] + SumOver(f, (T \ {x}) \ {z})
          /\ SumOver(f, T \ {z}) = f[x] + SumOver(f, (T \ {z}) \ {x})
      BY <2>1, <2>3, <3>2 DEF Holds
    <3>4. (T \ {x}) \ {z} = (T \ {z}) \ {x}
      OBVIOUS
    <3>5. IsFiniteSet((T \ {z}) \ {x})
      BY <1>2, FS_Subset
    <3>6. SumOver(f, (T \ {z}) \ {x}) \in Int
      BY <3>5, SumType
    <3>7. f[x] \in Int /\ f[z] \in Int
      BY <2>1
    <3>8. SumOver(f, T) = f[x] + (f[z] + SumOver(f, (T \ {z}) \ {x}))
      BY <2>1, <3>3, <3>4
    <3> QED BY <3>3, <3>6, <3>7, <3>8
  <2> QED BY <2>2, <2>3
<1> QED BY <1>1, <1>3 DEF Holds

(* A new element adds its summand. *)
LEMMA SumAdd ==
  ASSUME NEW S, IsFiniteSet(S), NEW f, NEW y, y \notin S, \A x \in S \cup {y} : f[x] \in Int
  PROVE  SumOver(f, S \cup {y}) = f[y] + SumOver(f, S)
<1>1. IsFiniteSet(S \cup {y}) /\ y \in S \cup {y} /\ (S \cup {y}) \ {y} = S
  BY FS_AddElement
<1> QED BY <1>1, SumRemove

(* A single summand. *)
LEMMA SumSingle ==
  ASSUME NEW f, NEW y, f[y] \in Int
  PROVE  SumOver(f, {y}) = f[y]
<1>1. IsFiniteSet({}) /\ {} \cup {y} = {y} /\ y \notin {}
  BY FS_EmptySet
<1>2. \A x \in {} \cup {y} : f[x] \in Int
  OBVIOUS
<1>3. SumOver(f, {} \cup {y}) = f[y] + SumOver(f, {})
  BY <1>1, <1>2, SumAdd
<1> QED BY <1>1, <1>3, SumEmpty

(* When one summand changes, the sum changes by as much. *)
LEMMA SumChange ==
  ASSUME NEW S, IsFiniteSet(S), NEW e, NEW f, NEW y \in S,
         \A x \in S : e[x] \in Int /\ f[x] \in Int, \A x \in S \ {y} : e[x] = f[x]
  PROVE  SumOver(f, S) = SumOver(e, S) + (f[y] - e[y])
<1>1. IsFiniteSet(S \ {y})
  BY FS_Subset
<1>2. SumOver(e, S) = e[y] + SumOver(e, S \ {y})
  BY SumRemove
<1>3. SumOver(f, S) = f[y] + SumOver(f, S \ {y})
  BY SumRemove
<1>4. SumOver(e, S \ {y}) = SumOver(f, S \ {y})
  BY <1>1, SumCongruence
<1>5. SumOver(e, S \ {y}) \in Int
  BY <1>1, SumType
<1>6. e[y] \in Int /\ f[y] \in Int
  OBVIOUS
<1> QED BY <1>2, <1>3, <1>4, <1>5, <1>6

(* The sum of a union of disjoint sets. *)
LEMMA SumUnion ==
  ASSUME NEW S, IsFiniteSet(S), NEW U, IsFiniteSet(U), S \cap U = {}, NEW f,
         \A x \in S \cup U : f[x] \in Int
  PROVE  SumOver(f, S \cup U) = SumOver(f, S) + SumOver(f, U)
<1> DEFINE Bad == {T \in SUBSET U : SumOver(f, S \cup T) # SumOver(f, S) + SumOver(f, T)}
<1> SUFFICES ASSUME Bad # {} PROVE FALSE
  OBVIOUS
<1>b. Bad \in SUBSET SUBSET U
  OBVIOUS
<1> HIDE DEF Bad
<1>1. PICK T \in Bad : \A V \in SUBSET U : Cardinality(V) < Cardinality(T) => V \notin Bad
  BY <1>b, SmallestSet
<1>2. T \in SUBSET U /\ IsFiniteSet(T)
  BY <1>b, FS_Subset
<1>3. SumOver(f, S) \in Int
  BY SumType
<1>4. CASE T = {}
  <2>1. S \cup T = S
    BY <1>4
  <2> QED BY <1>3, <1>4, <2>1, SumEmpty DEF Bad
<1>5. CASE T # {}
  <2>1. PICK y \in T : TRUE
    BY <1>5
  <2> DEFINE V == T \ {y}
  <2>b. IsFiniteSet(V) /\ Cardinality(T) \in Nat /\ Cardinality(V) = Cardinality(T) - 1
    BY <1>2, <2>1, OneLess, Zenon
  <2>a. IsFiniteSet(V) /\ Cardinality(V) < Cardinality(T)
    BY <2>b
  <2>2. V \in SUBSET U /\ Cardinality(V) < Cardinality(T) /\ IsFiniteSet(V)
    BY <1>2, <2>a
  <2>3. SumOver(f, S \cup V) = SumOver(f, S) + SumOver(f, V)
    BY <1>1, <2>2 DEF Bad
  <2>4. y \notin V /\ y \notin S \cup V /\ V \cup {y} = T /\ (S \cup V) \cup {y} = S \cup T
    BY <1>2
  <2>5. IsFiniteSet(S \cup V)
    BY <2>2, FS_Union
  <2>6. /\ \A x \in (S \cup V) \cup {y} : f[x] \in Int
        /\ \A x \in V \cup {y} : f[x] \in Int
        /\ f[y] \in Int
    BY <1>2
  <2> HIDE DEF V
  <2>7. SumOver(f, S \cup T) = f[y] + SumOver(f, S \cup V)
    BY <2>4, <2>5, <2>6, SumAdd
  <2>8. SumOver(f, T) = f[y] + SumOver(f, V)
    BY <2>2, <2>4, <2>6, SumAdd
  <2>9. SumOver(f, V) \in Int
    BY <2>2, <2>6, SumType
  <2>10. SumOver(f, S \cup T) = SumOver(f, S) + SumOver(f, T)
    BY <1>3, <2>3, <2>6, <2>7, <2>8, <2>9
  <2> QED BY <2>10 DEF Bad
<1> QED BY <1>4, <1>5

(* A sum of natural numbers is one, and no summand exceeds it. *)
LEMMA SumNat ==
  ASSUME NEW S, IsFiniteSet(S), NEW f, \A x \in S : f[x] \in Nat
  PROVE  SumOver(f, S) \in Nat
<1> DEFINE Bad == {T \in SUBSET S : SumOver(f, T) \notin Nat}
<1> SUFFICES ASSUME Bad # {} PROVE FALSE
  OBVIOUS
<1>1. PICK T \in Bad : \A V \in SUBSET S : Cardinality(V) < Cardinality(T) => V \notin Bad
  <2>1. Bad \in SUBSET SUBSET S
    OBVIOUS
  <2> HIDE DEF Bad
  <2> QED BY <2>1, SmallestSet
<1>2. IsFiniteSet(T)
  BY FS_Subset
<1>3. T # {}
  BY SumEmpty
<1>4. Pick(T) \in T /\ SumOver(f, T) = f[Pick(T)] + SumOver(f, T \ {Pick(T)})
  BY <1>2, <1>3, SumFirst
<1>5. Cardinality(T \ {Pick(T)}) < Cardinality(T)
  BY <1>2, <1>4, OneLess
<1>6. SumOver(f, T \ {Pick(T)}) \in Nat
  BY <1>1, <1>5
<1> QED BY <1>4, <1>6

(* A part of a sum of natural numbers is at most the whole. *)
LEMMA SumSubset ==
  ASSUME NEW S, IsFiniteSet(S), NEW f, \A x \in S : f[x] \in Nat, NEW T \in SUBSET S
  PROVE  /\ SumOver(f, T) \in Nat /\ SumOver(f, S) \in Nat
         /\ SumOver(f, T) <= SumOver(f, S)
<1>1. IsFiniteSet(T) /\ IsFiniteSet(S \ T) /\ T \cap (S \ T) = {} /\ T \cup (S \ T) = S
  BY FS_Subset
<1>2. SumOver(f, T) \in Nat /\ SumOver(f, S \ T) \in Nat /\ SumOver(f, S) \in Nat
  BY <1>1, SumNat
<1>3. \A x \in T \cup (S \ T) : f[x] \in Int
  OBVIOUS
<1>4. SumOver(f, T \cup (S \ T)) = SumOver(f, T) + SumOver(f, S \ T)
  BY <1>1, <1>3, SumUnion
<1> QED BY <1>1, <1>2, <1>4

(* The image of a finite set. *)
LEMMA ImageFinite ==
  ASSUME NEW S, IsFiniteSet(S), NEW to
  PROVE  IsFiniteSet({to[x] : x \in S}) /\ Cardinality({to[x] : x \in S}) <= Cardinality(S)
<1> DEFINE f == [x \in S |-> to[x]]
<1>1. f \in Surjection(S, {to[x] : x \in S})
  BY DEF Surjection
<1> QED BY <1>1, FS_Surjection

(* The summands of a sum may be renamed. *)
LEMMA SumRename ==
  ASSUME NEW S, IsFiniteSet(S), NEW U, NEW to \in [S -> U], NEW e, NEW f,
         \A x, y \in S : to[x] = to[y] => x = y,
         \A u \in U : \E x \in S : to[x] = u,
         \A x \in S : e[x] = f[to[x]] /\ e[x] \in Int
  PROVE  SumOver(e, S) = SumOver(f, U)
<1> DEFINE Image(T) == {to[x] : x \in T}
           Bad == {T \in SUBSET S : SumOver(e, T) # SumOver(f, Image(T))}
<1>0. Image(S) = U
  OBVIOUS
<1> SUFFICES ASSUME Bad # {} PROVE FALSE
  BY <1>0
<1>b. Bad \in SUBSET SUBSET S
  OBVIOUS
<1> HIDE DEF Bad
<1>1. PICK T \in Bad : \A V \in SUBSET S : Cardinality(V) < Cardinality(T) => V \notin Bad
  BY <1>b, SmallestSet
<1>2. T \in SUBSET S /\ IsFiniteSet(T)
  BY <1>b, FS_Subset
<1>3. CASE T = {}
  <2>1. Image(T) = {}
    BY <1>3
  <2> QED BY <1>3, <2>1, SumEmpty DEF Bad
<1>4. CASE T # {}
  <2>1. PICK y \in T : TRUE
    BY <1>4
  <2> DEFINE V == T \ {y}
  <2>b. IsFiniteSet(V) /\ Cardinality(T) \in Nat /\ Cardinality(V) = Cardinality(T) - 1
    BY <1>2, <2>1, OneLess, Zenon
  <2>a. IsFiniteSet(V) /\ Cardinality(V) < Cardinality(T)
    BY <2>b
  <2>2. V \in SUBSET S /\ Cardinality(V) < Cardinality(T) /\ IsFiniteSet(V)
    BY <1>2, <2>a
  <2>3. SumOver(e, V) = SumOver(f, Image(V))
    BY <1>1, <2>2 DEF Bad
  <2>4. y \notin V /\ V \cup {y} = T /\ to[y] \notin Image(V) /\ Image(V) \cup {to[y]} = Image(T)
    BY <1>2
  <2>5. IsFiniteSet(Image(V))
    BY <2>2, ImageFinite
  <2>6. /\ \A x \in Image(V) \cup {to[y]} : f[x] \in Int
        /\ \A x \in V \cup {y} : e[x] \in Int
        /\ e[y] = f[to[y]]
    BY <1>2
  <2> HIDE DEF V, Image
  <2> DEFINE W == Image(V)
             z == to[y]
  <2>z. /\ IsFiniteSet(W) /\ z \notin W /\ W \cup {z} = Image(T)
        /\ \A x \in W \cup {z} : f[x] \in Int
    BY <2>4, <2>5, <2>6
  <2> HIDE DEF W, z
  <2>y. SumOver(f, W \cup {z}) = f[z] + SumOver(f, W)
    BY <2>z, SumAdd
  <2>7. SumOver(f, Image(T)) = f[to[y]] + SumOver(f, Image(V))
    BY <2>y, <2>z DEF W, z
  <2>8. SumOver(e, T) = e[y] + SumOver(e, V)
    BY <2>2, <2>4, <2>6, SumAdd
  <2> QED BY <2>3, <2>6, <2>7, <2>8 DEF Bad
<1> QED BY <1>3, <1>4

(* The elements of S below each one, under a strict total order. *)
StrictOrder(S, below) ==
  /\ below \in [S -> SUBSET S]
  /\ \A x \in S : x \notin below[x]
  /\ \A x, y \in S : x # y => x \in below[y] \/ y \in below[x]
  /\ \A x, y \in S : x \in below[y] => below[x] \subseteq below[y]

(* The rank of an element is how many are below it: no two elements have the same rank, and every
   number up to the size of the set is a rank. *)
Ranked(S, below) ==
  /\ Cardinality(S) \in Nat
  /\ \A x \in S : IsFiniteSet(below[x]) /\ Cardinality(below[x]) \in 0..(Cardinality(S) - 1)
  /\ \A x, y \in S : x \in below[y] => Cardinality(below[x]) < Cardinality(below[y])
  /\ \A x, y \in S : Cardinality(below[x]) = Cardinality(below[y]) => x = y
  /\ \A n \in 0..(Cardinality(S) - 1) : \E x \in S : Cardinality(below[x]) = n

(* The elements of a finite set are ranked by a strict total order. *)
LEMMA Ranks ==
  ASSUME NEW S, IsFiniteSet(S), NEW below, StrictOrder(S, below)
  PROVE  Ranked(S, below)
<1>0. /\ below \in [S -> SUBSET S]
      /\ \A x \in S : x \notin below[x]
      /\ \A x, y \in S : x # y => x \in below[y] \/ y \in below[x]
      /\ \A x, y \in S : x \in below[y] => below[x] \subseteq below[y]
  BY DEF StrictOrder
<1> DEFINE N == Cardinality(S)
           rank == [x \in S |-> Cardinality(below[x])]
<1>1. N \in Nat
  BY FS_CardinalityType
<1>2. ASSUME NEW x \in S
      PROVE  IsFiniteSet(below[x]) /\ rank[x] \in 0..(N - 1)
  <2>1. IsFiniteSet(S \ {x}) /\ Cardinality(S \ {x}) = N - 1
    BY OneLess
  <2>2. below[x] \in SUBSET (S \ {x})
    BY <1>0
  <2> DEFINE B == below[x]
             R == S \ {x}
  <2>3. IsFiniteSet(R) /\ B \in SUBSET R /\ Cardinality(R) = N - 1
    BY <2>1, <2>2
  <2>7. rank[x] = Cardinality(B)
    OBVIOUS
  <2>8. B = below[x]
    OBVIOUS
  <2> HIDE DEF B, R, N, rank
  <2>4. IsFiniteSet(B) /\ Cardinality(B) <= Cardinality(R)
    BY <2>3, FS_Subset
  <2>5. Cardinality(B) \in Nat
    BY <2>4, FS_CardinalityType
  <2> QED BY <1>1, <2>3, <2>4, <2>5, <2>7, <2>8
<1>3. ASSUME NEW x \in S, NEW y \in S, x \in below[y]
      PROVE  rank[x] < rank[y]
  <2> DEFINE B == below[x]
             C == below[y]
  <2>1. B \in SUBSET C /\ x \in C /\ x \notin B
    BY <1>0, <1>3
  <2>2. IsFiniteSet(C) /\ IsFiniteSet(B)
    BY <1>2
  <2>7. rank[x] = Cardinality(B) /\ rank[y] = Cardinality(C)
    OBVIOUS
  <2> HIDE DEF B, C, rank
  <2>3. Cardinality(B) <= Cardinality(C) /\ Cardinality(C) # Cardinality(B)
    BY <2>1, <2>2, FS_Subset
  <2>4. Cardinality(B) \in Nat /\ Cardinality(C) \in Nat
    BY <2>2, FS_CardinalityType
  <2> QED BY <2>3, <2>4, <2>7
<1>4. ASSUME NEW x \in S, NEW y \in S, rank[x] = rank[y]
      PROVE  x = y
  <2>1. rank[x] \in Nat /\ rank[y] \in Nat
    BY <1>1, <1>2
  <2>2. ~(rank[x] < rank[y]) /\ ~(rank[y] < rank[x])
    BY <1>4, <2>1
  <2> QED BY <1>0, <1>3, <2>2, Zenon
<1>5. \A n \in 0..(N - 1) : \E x \in S : rank[x] = n
  <2> DEFINE T == 0..(N - 1)
  <2>1. rank \in Injection(S, T)
    <3>1. rank \in [S -> T]
      BY <1>2
    <3> HIDE DEF rank, T
    <3>2. \A x, y \in S : rank[x] = rank[y] => x = y
      BY <1>4
    <3> QED BY <3>1, <3>2 DEF Injection, IsInjective
  <2>2. IsFiniteSet(T) /\ Cardinality(T) = N
    BY <1>1, FS_Interval, SMTT(20)
  <2> HIDE DEF rank, T
  <2>3. rank \in Surjection(S, T)
    BY <2>1, <2>2, FS_Injection
  <2> QED BY <2>3 DEF Surjection, T
<1>6. \A x \in S : rank[x] = Cardinality(below[x])
  OBVIOUS
<1> HIDE DEF rank
<1> QED BY <1>1, <1>2, <1>3, <1>4, <1>5, <1>6 DEF Ranked

(* A set has as many elements as a sum of ones over it. *)
LEMMA SumOnes ==
  ASSUME NEW S, IsFiniteSet(S), NEW f, \A x \in S : f[x] = 1
  PROVE  SumOver(f, S) = Cardinality(S)
<1> DEFINE Bad == {T \in SUBSET S : SumOver(f, T) # Cardinality(T)}
<1>1. Bad \in SUBSET SUBSET S
  OBVIOUS
<1>2. SUFFICES ASSUME Bad # {} PROVE FALSE
  OBVIOUS
<1>3. PICK T \in Bad : \A U \in SUBSET S : Cardinality(U) < Cardinality(T) => U \notin Bad
  <2> HIDE DEF Bad
  <2> QED BY <1>1, <1>2, SmallestSet
<1>4. T \in SUBSET S /\ SumOver(f, T) # Cardinality(T) /\ IsFiniteSet(T)
  BY FS_Subset
<1>5. T # {}
  BY <1>4, SumEmpty, FS_EmptySet
<1>6. Pick(T) \in T /\ SumOver(f, T) = f[Pick(T)] + SumOver(f, T \ {Pick(T)})
  BY <1>4, <1>5, SumFirst
<1> DEFINE V == T \ {Pick(T)}
<1>7. Cardinality(V) \in Nat /\ Cardinality(T) \in Nat /\ Cardinality(V) = Cardinality(T) - 1 /\ V \in SUBSET S
  BY <1>4, <1>6, OneLess
<1>8. SumOver(f, V) = Cardinality(V)
  BY <1>3, <1>7
<1>9. f[Pick(T)] = 1 /\ SumOver(f, T) = f[Pick(T)] + SumOver(f, V)
  BY <1>4, <1>6
<1> HIDE DEF V
<1> QED BY <1>4, <1>7, <1>8, <1>9

(* The elements of S that have the same key. *)
Fibre(S, key, k) == {x \in S : key[x] = k}
FibreSums(f, S, key, K) == [k \in K |-> SumOver(f, Fibre(S, key, k))]

(* A sum may be taken key by key. *)
LEMMA SumFibres ==
  ASSUME NEW S, IsFiniteSet(S), NEW f, \A x \in S : f[x] \in Int, NEW key, NEW K, IsFiniteSet(K),
         \A x \in S : key[x] \in K
  PROVE  /\ \A k \in K : FibreSums(f, S, key, K)[k] \in Int
         /\ SumOver(FibreSums(f, S, key, K), K) = SumOver(f, S)
<1> DEFINE g == FibreSums(f, S, key, K)
           Of(L) == {x \in S : key[x] \in L}
           Bad == {L \in SUBSET K : SumOver(g, L) # SumOver(f, Of(L))}
<1>1. \A k \in K : g[k] \in Int /\ g[k] = SumOver(f, Fibre(S, key, k)) /\ IsFiniteSet(Fibre(S, key, k))
  <2> SUFFICES ASSUME NEW k \in K
               PROVE  g[k] \in Int /\ g[k] = SumOver(f, Fibre(S, key, k)) /\ IsFiniteSet(Fibre(S, key, k))
    OBVIOUS
  <2>1. Fibre(S, key, k) \in SUBSET S
    BY DEF Fibre
  <2>2. IsFiniteSet(Fibre(S, key, k)) /\ \A x \in Fibre(S, key, k) : f[x] \in Int
    BY <2>1, FS_Subset
  <2>3. SumOver(f, Fibre(S, key, k)) \in Int
    BY <2>2, SumType
  <2> QED BY <2>2, <2>3 DEF FibreSums
<1> HIDE DEF g
<1>2. Bad = {}
  <2>1. Bad \in SUBSET SUBSET K
    OBVIOUS
  <2>2. SUFFICES ASSUME Bad # {} PROVE FALSE
    OBVIOUS
  <2>3. PICK L \in Bad : \A U \in SUBSET K : Cardinality(U) < Cardinality(L) => U \notin Bad
    <3> HIDE DEF Bad
    <3> QED BY <2>1, <2>2, SmallestSet
  <2>4. L \in SUBSET K /\ SumOver(g, L) # SumOver(f, Of(L)) /\ IsFiniteSet(L)
    BY FS_Subset
  <2>5. L # {}
    <3>1. SUFFICES ASSUME L = {} PROVE FALSE
      OBVIOUS
    <3>2. Of(L) = {}
      BY <3>1
    <3> QED BY <2>4, <3>1, <3>2, SumEmpty
  <2>6. PICK k \in L : TRUE
    BY <2>5
  <2> DEFINE M == L \ {k}
             one == Fibre(S, key, k)
             rest == Of(M)
  <2>7. Cardinality(M) < Cardinality(L) /\ M \in SUBSET K /\ IsFiniteSet(M)
    BY <2>4, OneLess, FS_Subset
  <2>8. SumOver(g, M) = SumOver(f, rest)
    BY <2>3, <2>7
  <2>9. SumOver(g, L) = g[k] + SumOver(g, M)
    <3>1. \A x \in L : g[x] \in Int
      BY <1>1, <2>4
    <3> QED BY <2>4, <3>1, SumRemove
  <2>10. IsFiniteSet(one) /\ IsFiniteSet(rest) /\ rest \cap one = {} /\ rest \cup one = Of(L)
         /\ \A x \in rest \cup one : f[x] \in Int
    <3>1. one \in SUBSET S /\ rest \in SUBSET S
      BY DEF Fibre
    <3> QED BY <3>1, FS_Subset DEF Fibre
  <2>11. g[k] = SumOver(f, one) /\ g[k] \in Int
    BY <1>1, <2>4
  <2> HIDE DEF M, one, rest, Of
  <2>12. SumOver(f, rest \cup one) = SumOver(f, rest) + SumOver(f, one)
    BY <2>10, SumUnion
  <2>13. SumOver(f, rest) \in Int
    BY <2>10, SumType
  <2>14. PICK a \in Int, b \in Int : a = SumOver(f, rest) /\ b = g[k]
    BY <2>11, <2>13
  <2>15. SumOver(g, L) = b + a /\ SumOver(f, Of(L)) = a + b
    BY <2>8, <2>9, <2>10, <2>11, <2>12, <2>14
  <2>16. b + a = a + b
    OBVIOUS
  <2> QED BY <2>4, <2>15, <2>16
<1>3. SumOver(g, K) = SumOver(f, Of(K))
  <2> HIDE DEF Of
  <2> QED BY <1>2
<1>4. Of(K) = S
  OBVIOUS
<1> QED BY <1>1, <1>3, <1>4 DEF g
=============================================================================
