-------------------------------- MODULE Sums --------------------------------
(***************************************************************************)
(* Sums over finite sets: what SumFunctionOnSet(f, S) does when an element *)
(* comes, goes or changes.  Quantities and amounts of the models are       *)
(* totalled with it.                                                       *)
(*                                                                         *)
(* Induction, over natural numbers and over the subsets of a finite set,   *)
(* is stated with a set of the good ones in the place of a predicate.      *)
(* From it: a function on the naturals may be defined by recursion.        *)
(***************************************************************************)
EXTENDS Functions, FiniteSetTheorems, TLAPS

LEMMA NatHasLeast ==
  ASSUME NEW N \in SUBSET Nat, N # {}
  PROVE  \E n \in N : \A m \in N : n <= m
<1>1. PICK n \in N : \A m \in N : <<m, n>> \notin OpToRel(<, Nat)
  BY NatLessThanWellFounded, WFMin
<1>2. \A m \in N : ~(m < n)
  BY <1>1 DEF OpToRel
<1> QED
  BY <1>2

\* A family of subsets that has T as soon as it has T without any one of its elements.
LEMMA SubsetInduction ==
  ASSUME NEW S, IsFiniteSet(S), NEW Good,
         \A T \in SUBSET S : (\A x \in T : T \ {x} \in Good) => T \in Good
  PROVE  S \in Good
<1> DEFINE Bad == {T \in SUBSET S : T \notin Good}
           Sizes == {Cardinality(T) : T \in Bad}
<1>1. ASSUME NEW T \in SUBSET S
      PROVE  /\ IsFiniteSet(T) /\ Cardinality(T) \in Nat
             /\ \A x \in T : Cardinality(T \ {x}) = Cardinality(T) - 1
  BY FS_Subset, FS_CardinalityType, FS_RemoveElement
<1>2. SUFFICES ASSUME Bad # {} PROVE FALSE
  OBVIOUS
<1>3. Sizes \in SUBSET Nat /\ Sizes # {}
  BY <1>1, <1>2
<1>4. PICK n \in Sizes : \A m \in Sizes : n <= m
  BY <1>3, NatHasLeast
<1>5. PICK T \in Bad : n = Cardinality(T)
  BY <1>4
<1>6. PICK x \in T : T \ {x} \notin Good
  BY <1>5
<1>7. T \ {x} \in Bad
  BY <1>5, <1>6
<1>8. Cardinality(T \ {x}) \in Sizes /\ Cardinality(T \ {x}) < n /\ n \in Nat
  BY <1>1, <1>5, <1>6, <1>7
<1> QED
  BY <1>1, <1>4, <1>7, <1>8

\* Induction over the naturals, with a set of good numbers in the place of a predicate.
LEMMA NatSetInduction ==
    ASSUME NEW Good, 0 \in Good, \A n \in Nat : n \in Good => n + 1 \in Good
    PROVE  \A n \in Nat : n \in Good
<1> DEFINE Bad == {n \in Nat : n \notin Good}
<1> SUFFICES ASSUME Bad # {} PROVE FALSE
  OBVIOUS
<1>1. PICK n \in Bad : \A m \in Bad : n <= m
  BY NatHasLeast
<1>2. n # 0 /\ n - 1 \in Nat /\ n - 1 \notin Bad
  BY <1>1
<1>3. (n - 1) + 1 = n
  BY <1>1
<1> QED
  BY <1>1, <1>2, <1>3

\* The first n values of an iteration of step from start.
Iterates(f, n, V, start, step) ==
    f \in [0..n -> V] /\ f[0] = start /\ \A m \in 0..(n - 1) : f[m + 1] = step[f[m]]

LEMMA IteratesExist ==
    ASSUME NEW V, NEW start \in V, NEW step \in [V -> V]
    PROVE  \A n \in Nat : \E f : Iterates(f, n, V, start, step)
<1> DEFINE Good == {n \in Nat : \E f : Iterates(f, n, V, start, step)}
<1>1. 0 \in Good
  <2> DEFINE f == [m \in 0..0 |-> start]
  <2> Iterates(f, 0, V, start, step)
    BY DEF Iterates
  <2> QED
    OBVIOUS
<1>2. ASSUME NEW n \in Nat, n \in Good PROVE n + 1 \in Good
  <2>1. PICK f : Iterates(f, n, V, start, step)
    BY <1>2
  <2> DEFINE g == [m \in 0..(n + 1) |-> IF m = n + 1 THEN step[f[n]] ELSE f[m]]
  <2>2. g \in [0..(n + 1) -> V] /\ g[0] = start
    BY <2>1 DEF Iterates
  <2>3. ASSUME NEW m \in 0..((n + 1) - 1) PROVE g[m + 1] = step[g[m]]
    BY <2>1 DEF Iterates
  <2>4. Iterates(g, n + 1, V, start, step)
    BY <2>2, <2>3 DEF Iterates
  <2> QED
    BY <2>4
<1> HIDE DEF Good
<1>3. \A n \in Nat : n \in Good
  BY <1>1, <1>2, NatSetInduction
<1> QED
  BY <1>3 DEF Good

LEMMA IteratesAgree ==
    ASSUME NEW V, NEW start \in V, NEW step \in [V -> V]
    PROVE  \A n \in Nat : \A f, g : Iterates(f, n, V, start, step) /\ Iterates(g, n + 1, V, start, step)
                                      => f[n] = g[n]
<1> DEFINE Good == {n \in Nat : \A f \in [0..n -> V], g \in [0..(n + 1) -> V] :
                       Iterates(f, n, V, start, step) /\ Iterates(g, n + 1, V, start, step)
                                      => f[n] = g[n]}
<1>1. 0 \in Good
  BY DEF Iterates
<1>2. ASSUME NEW n \in Nat, n \in Good PROVE n + 1 \in Good
  <2> SUFFICES ASSUME NEW f \in [0..(n + 1) -> V], NEW g \in [0..((n + 1) + 1) -> V],
                      Iterates(f, n + 1, V, start, step), Iterates(g, (n + 1) + 1, V, start, step)
               PROVE  f[n + 1] = g[n + 1]
    OBVIOUS
  <2> DEFINE f0 == [m \in 0..n |-> f[m]]
             g0 == [m \in 0..(n + 1) |-> g[m]]
  <2>1. f0 \in [0..n -> V] /\ g0 \in [0..(n + 1) -> V]
    OBVIOUS
  <2>2. Iterates(f0, n, V, start, step) /\ Iterates(g0, n + 1, V, start, step)
    BY <2>1 DEF Iterates
  <2>3. f0[n] = g0[n]
    BY <1>2, <2>1, <2>2
  <2>4. f[n + 1] = step[f[n]] /\ g[n + 1] = step[g[n]]
    BY DEF Iterates
  <2> QED
    BY <2>3, <2>4
<1> HIDE DEF Good
<1>3. \A n \in Nat : n \in Good
  BY <1>1, <1>2, NatSetInduction
<1> QED
  BY <1>3 DEF Good, Iterates

\* A function can be iterated from any value.
LEMMA Iteration ==
    ASSUME NEW V, NEW start \in V, NEW step \in [V -> V]
    PROVE  \E f \in [Nat -> V] : f[0] = start /\ \A n \in Nat : f[n + 1] = step[f[n]]
<1> DEFINE Run(n) == CHOOSE g : Iterates(g, n, V, start, step)
           f == [n \in Nat |-> Run(n)[n]]
<1>1. \A n \in Nat : Iterates(Run(n), n, V, start, step)
  BY IteratesExist
<1> HIDE DEF Run
<1>2. \A n \in Nat : Run(n)[n] \in V
  BY <1>1 DEF Iterates
<1>3. f[0] = start
  BY <1>1 DEF Iterates
<1>4. ASSUME NEW n \in Nat PROVE f[n + 1] = step[f[n]]
  <2>1. Run(n + 1)[n + 1] = step[Run(n + 1)[n]]
    BY <1>1 DEF Iterates
  <2>2. Run(n)[n] = Run(n + 1)[n]
    BY <1>1, IteratesAgree
  <2> QED
    BY <2>1, <2>2
<1> QED
  BY <1>2, <1>3, <1>4

\* What a function makes of a finite set is finite.
LEMMA ImageIsFinite ==
  ASSUME NEW S, IsFiniteSet(S), NEW f, NEW T, \A y \in T : \E x \in S : y = f[x]
  PROVE  IsFiniteSet(T)
<1> DEFINE R == {f[x] : x \in S}
           g == [x \in S |-> f[x]]
<1>1. g \in Surjection(S, R)
  BY DEF Surjection
<1>2. IsFiniteSet(R)
  <2> HIDE DEF g, R
  <2> QED
    BY <1>1, FS_Surjection
<1>3. T \subseteq R
  OBVIOUS
<1> QED
  BY <1>2, <1>3, FS_Subset

-----------------------------------------------------------------------------
(* The fold is well defined, and its order does not matter.                *)

Picked(s) == CHOOSE x \in s : TRUE

\* g sums f over every set of sets, element by element.
SumsUp(g, f, sets) ==
    g = [s \in sets |-> IF s = {} THEN 0 ELSE f[Picked(s)] + g[s \ {Picked(s)}]]

\* g is a sum over the subsets of S.
IsSum(g, f, S) == SumsUp(g, f, SUBSET S)

LEMMA SumIsFold == \A f, S : SumFunctionOnSet(f, S) = (CHOOSE g : IsSum(g, f, S))[S]
  BY DEF SumFunctionOnSet, FoldFunctionOnSet, MapThenFoldSet, IsSum, SumsUp, Picked

LEMMA PickedIsIn == \A s : s # {} => Picked(s) \in s
  BY DEF Picked

LEMMA FoldExists ==
  ASSUME NEW f, NEW S, IsFiniteSet(S)
  PROVE  \E g : IsSum(g, f, S)
<1> DEFINE Small(n) == {s \in SUBSET S : Cardinality(s) <= n}
           Bad == {n \in Nat : ~ \E g : SumsUp(g, f, Small(n))}
<1>1. ASSUME NEW s \in SUBSET S
      PROVE  /\ IsFiniteSet(s) /\ Cardinality(s) \in Nat /\ Cardinality(s) <= Cardinality(S)
             /\ Cardinality(s) = 0 <=> s = {}
             /\ \A x \in s : Cardinality(s \ {x}) = Cardinality(s) - 1
  BY FS_Subset, FS_CardinalityType, FS_RemoveElement, FS_EmptySet
<1>2. Cardinality(S) \in Nat /\ Small(Cardinality(S)) = SUBSET S
  BY <1>1, FS_CardinalityType
<1>3. SUFFICES ASSUME Bad # {} PROVE FALSE
  BY <1>2 DEF IsSum
<1>4. PICK n \in Bad : \A m \in Bad : n <= m
  BY <1>3, NatHasLeast
<1>5. CASE n = 0
  <2>1. Small(n) = {{}}
    BY <1>1, <1>5
  <2> DEFINE g == [s \in Small(n) |-> 0]
  <2>2. SumsUp(g, f, Small(n))
    BY <2>1 DEF SumsUp
  <2> QED
    BY <1>4, <2>2
<1>6. CASE n # 0
  <2>1. n \in Nat /\ n - 1 \in Nat
    BY <1>6
  <2>a. n - 1 \notin Bad
    <3> HIDE DEF Bad
    <3> QED
      BY <1>4, <2>1
  <2>2. PICK g : SumsUp(g, f, Small(n - 1))
    BY <2>1, <2>a
  <2> DEFINE h == [s \in Small(n) |-> IF s = {} THEN 0 ELSE f[Picked(s)] + g[s \ {Picked(s)}]]
  <2>3. ASSUME NEW s \in Small(n), s # {}
        PROVE  s \ {Picked(s)} \in Small(n - 1) /\ s \ {Picked(s)} \in Small(n)
    <3>1. Picked(s) \in s /\ s \in SUBSET S /\ Cardinality(s) <= n /\ n \in Nat
      BY <2>3, PickedIsIn
    <3>2. s \ {Picked(s)} \in SUBSET S /\ Cardinality(s \ {Picked(s)}) <= n - 1
      BY <1>1, <3>1
    <3>3. Cardinality(s \ {Picked(s)}) \in Nat
      BY <1>1, <3>2
    <3> QED
      BY <3>1, <3>2, <3>3
  <2>4. ASSUME NEW s \in Small(n - 1), s \in Small(n) PROVE h[s] = g[s]
    BY <2>2, <2>4 DEF SumsUp
  <2>5. SumsUp(h, f, Small(n))
    BY <2>3, <2>4 DEF SumsUp
  <2> QED
    BY <1>4, <2>5
<1> QED
  BY <1>5, <1>6

LEMMA FoldIsUnique ==
  ASSUME NEW f, NEW S, NEW T, NEW g, NEW h, IsFiniteSet(S), T \subseteq S,
         IsSum(g, f, S), IsSum(h, f, T)
  PROVE  g[T] = h[T]
<1> DEFINE Good == {s \in SUBSET T : g[s] = h[s]}
<1>1. IsFiniteSet(T)
  BY FS_Subset
<1>2. ASSUME NEW s \in SUBSET T, \A x \in s : s \ {x} \in Good
      PROVE  s \in Good
  <2>1. g[s] = IF s = {} THEN 0 ELSE f[Picked(s)] + g[s \ {Picked(s)}]
    BY DEF IsSum, SumsUp
  <2>2. h[s] = IF s = {} THEN 0 ELSE f[Picked(s)] + h[s \ {Picked(s)}]
    BY DEF IsSum, SumsUp
  <2> QED
    BY <1>2, <2>1, <2>2, PickedIsIn
<1>3. T \in Good
  <2> HIDE DEF Good
  <2> QED
    BY <1>1, <1>2, SubsetInduction
<1> QED
  BY <1>3

LEMMA SumEmpty == \A f : SumFunctionOnSet(f, {}) = 0
<1> SUFFICES ASSUME NEW f PROVE SumFunctionOnSet(f, {}) = 0
    OBVIOUS
<1>1. IsSum(CHOOSE g : IsSum(g, f, {}), f, {})
  BY FoldExists, FS_EmptySet
<1> QED
  BY <1>1, SumIsFold DEF IsSum, SumsUp

LEMMA SumUnrolls ==
  ASSUME NEW f, NEW S, IsFiniteSet(S), S # {}
  PROVE  SumFunctionOnSet(f, S) = f[Picked(S)] + SumFunctionOnSet(f, S \ {Picked(S)})
<1> DEFINE G == CHOOSE g : IsSum(g, f, S)
           T == S \ {Picked(S)}
           H == CHOOSE g : IsSum(g, f, T)
<1>1. IsSum(G, f, S)
  BY FoldExists
<1>2. IsFiniteSet(T) /\ T \subseteq S
  BY FS_Subset
<1>3. IsSum(H, f, T)
  BY <1>2, FoldExists
<1>4. SumFunctionOnSet(f, S) = G[S] /\ SumFunctionOnSet(f, T) = H[T]
  BY SumIsFold
<1> HIDE DEF G, H, T
<1>5. G[T] = H[T]
  BY <1>1, <1>2, <1>3, FoldIsUnique
<1>6. G[S] = f[Picked(S)] + G[T]
  BY <1>1 DEF IsSum, SumsUp, T
<1> QED
  BY <1>4, <1>5, <1>6 DEF T

-----------------------------------------------------------------------------
(* The lemmas the models' proofs cite.                                     *)

LEMMA SumType ==
  ASSUME NEW f, NEW S, IsFiniteSet(S), \A x \in S : f[x] \in Int
  PROVE  SumFunctionOnSet(f, S) \in Int
<1> DEFINE Good == {T \in SUBSET S : SumFunctionOnSet(f, T) \in Int}
<1>1. ASSUME NEW T \in SUBSET S, \A x \in T : T \ {x} \in Good
      PROVE  T \in Good
  <2>1. CASE T = {}
    BY <2>1, SumEmpty
  <2>2. CASE T # {}
    <3>1. Picked(T) \in T /\ IsFiniteSet(T)
      BY <2>2, PickedIsIn, FS_Subset
    <3>2. SumFunctionOnSet(f, T) = f[Picked(T)] + SumFunctionOnSet(f, T \ {Picked(T)})
      BY <2>2, <3>1, SumUnrolls
    <3> QED
      BY <1>1, <3>1, <3>2
  <2> QED
    BY <2>1, <2>2
<1>2. S \in Good
  <2> HIDE DEF Good
  <2> QED
    BY <1>1, SubsetInduction
<1> QED
  BY <1>2

LEMMA SumRemove ==
  ASSUME NEW f, NEW S, IsFiniteSet(S), \A x \in S : f[x] \in Int, NEW y \in S
  PROVE  SumFunctionOnSet(f, S) = f[y] + SumFunctionOnSet(f, S \ {y})
<1> DEFINE Sum(T) == SumFunctionOnSet(f, T)
           Good == {T \in SUBSET S : \A x \in T : Sum(T) = f[x] + Sum(T \ {x})}
<1>0. ASSUME NEW T \in SUBSET S PROVE IsFiniteSet(T) /\ Sum(T) \in Int
  <2>1. IsFiniteSet(T)
    BY FS_Subset
  <2> QED
    BY <2>1, SumType
<1>1. ASSUME NEW T \in SUBSET S, \A x \in T : T \ {x} \in Good, NEW x \in T
      PROVE  Sum(T) = f[x] + Sum(T \ {x})
  <2> DEFINE p == Picked(T)
  <2>1. p \in T
    BY PickedIsIn
  <2>2. Sum(T) = f[p] + Sum(T \ {p})
    BY <1>0, SumUnrolls
  <2> HIDE DEF p
  <2>3. CASE x = p
    BY <2>2, <2>3
  <2>4. CASE x # p
    <3>1. x \in T \ {p} /\ p \in T \ {x} /\ (T \ {p}) \ {x} = (T \ {x}) \ {p}
      BY <2>1, <2>4
    <3>2. Sum(T \ {p}) = f[x] + Sum((T \ {p}) \ {x})
      BY <1>1, <2>1, <3>1
    <3>3. Sum(T \ {x}) = f[p] + Sum((T \ {x}) \ {p})
      BY <1>1, <3>1
    <3>4. /\ f[x] \in Int /\ f[p] \in Int
          /\ Sum((T \ {p}) \ {x}) \in Int
      BY <1>0, <2>1
    <3> DEFINE rest == Sum((T \ {p}) \ {x})
    <3>5. /\ Sum(T) = f[p] + (f[x] + rest)
          /\ Sum(T \ {x}) = f[p] + rest
      BY <2>2, <3>1, <3>2, <3>3
    <3>6. rest \in Int
      BY <3>4
    <3> HIDE DEF Sum, rest
    <3> QED
      BY <3>4, <3>5, <3>6
  <2> QED
    BY <2>3, <2>4
<1>2. S \in Good
  <2>1. ASSUME NEW T \in SUBSET S, \A x \in T : T \ {x} \in Good PROVE T \in Good
    BY <1>1, <2>1
  <2> HIDE DEF Good
  <2> QED
    BY <2>1, SubsetInduction
<1> QED
  BY <1>2

LEMMA SumAdd ==
  ASSUME NEW f, NEW S, IsFiniteSet(S), NEW y, y \notin S, \A x \in S \cup {y} : f[x] \in Int
  PROVE  SumFunctionOnSet(f, S \cup {y}) = SumFunctionOnSet(f, S) + f[y]
<1>1. (S \cup {y}) \ {y} = S /\ IsFiniteSet(S \cup {y}) /\ y \in S \cup {y}
  BY FS_AddElement
<1>2. SumFunctionOnSet(f, S) \in Int /\ f[y] \in Int
  BY SumType
<1>3. SumFunctionOnSet(f, S \cup {y}) = f[y] + SumFunctionOnSet(f, (S \cup {y}) \ {y})
  BY <1>1, SumRemove
<1>4. SumFunctionOnSet(f, (S \cup {y}) \ {y}) = SumFunctionOnSet(f, S)
  BY <1>1, Zenon
<1> QED
  BY <1>2, <1>3, <1>4

\* Only the values on the set matter.
LEMMA SumSame ==
  ASSUME NEW f, NEW g, NEW S, IsFiniteSet(S), \A x \in S : f[x] = g[x]
  PROVE  SumFunctionOnSet(f, S) = SumFunctionOnSet(g, S)
<1> DEFINE Good == {T \in SUBSET S : SumFunctionOnSet(f, T) = SumFunctionOnSet(g, T)}
<1>1. ASSUME NEW T \in SUBSET S, \A x \in T : T \ {x} \in Good
      PROVE  T \in Good
  <2>1. CASE T = {}
    BY <2>1, SumEmpty
  <2>2. CASE T # {}
    <3>1. Picked(T) \in T /\ IsFiniteSet(T)
      BY <2>2, PickedIsIn, FS_Subset
    <3>2. /\ SumFunctionOnSet(f, T) = f[Picked(T)] + SumFunctionOnSet(f, T \ {Picked(T)})
          /\ SumFunctionOnSet(g, T) = g[Picked(T)] + SumFunctionOnSet(g, T \ {Picked(T)})
      BY <2>2, <3>1, SumUnrolls
    <3> QED
      BY <1>1, <3>1, <3>2
  <2> QED
    BY <2>1, <2>2
<1>2. S \in Good
  <2> HIDE DEF Good
  <2> QED
    BY <1>1, SubsetInduction
<1> QED
  BY <1>2

\* One value changes.
LEMMA SumChange ==
  ASSUME NEW f, NEW g, NEW S, IsFiniteSet(S), NEW y \in S,
         \A x \in S : f[x] \in Int, g[y] \in Int,
         \A x \in S \ {y} : g[x] = f[x]
  PROVE  SumFunctionOnSet(g, S) = SumFunctionOnSet(f, S) + g[y] - f[y]
<1> DEFINE T == S \ {y}
<1>1. IsFiniteSet(T) /\ \A x \in S : g[x] \in Int
  BY FS_Subset
<1>2. SumFunctionOnSet(f, T) = SumFunctionOnSet(g, T)
  BY <1>1, SumSame
<1>3. SumFunctionOnSet(f, S) = f[y] + SumFunctionOnSet(f, T)
  BY SumRemove
<1>4. SumFunctionOnSet(g, S) = g[y] + SumFunctionOnSet(g, T)
  BY <1>1, SumRemove
<1>5. SumFunctionOnSet(f, T) \in Int /\ f[y] \in Int
  BY <1>1, SumType
<1> QED
  BY <1>2, <1>3, <1>4, <1>5

\* Adding up two functions adds up their sums.
LEMMA SumPlus ==
  ASSUME NEW f, NEW g, NEW h, NEW S, IsFiniteSet(S),
         \A x \in S : f[x] \in Int /\ g[x] \in Int /\ h[x] = f[x] + g[x]
  PROVE  SumFunctionOnSet(h, S) = SumFunctionOnSet(f, S) + SumFunctionOnSet(g, S)
<1> DEFINE Good == {T \in SUBSET S : SumFunctionOnSet(h, T) = SumFunctionOnSet(f, T) + SumFunctionOnSet(g, T)}
<1>1. ASSUME NEW T \in SUBSET S, \A x \in T : T \ {x} \in Good
      PROVE  T \in Good
  <2>1. CASE T = {}
    BY <2>1, SumEmpty
  <2>2. CASE T # {}
    <3> DEFINE p == Picked(T)
               U == T \ {p}
    <3>1. p \in T /\ IsFiniteSet(T) /\ IsFiniteSet(U)
      BY <2>2, PickedIsIn, FS_Subset
    <3>2. /\ SumFunctionOnSet(f, T) = f[p] + SumFunctionOnSet(f, U)
          /\ SumFunctionOnSet(g, T) = g[p] + SumFunctionOnSet(g, U)
          /\ SumFunctionOnSet(h, T) = h[p] + SumFunctionOnSet(h, U)
      BY <2>2, <3>1, SumUnrolls
    <3>3. U \in Good /\ p \in S
      BY <1>1, <3>1
    <3> HIDE DEF p
    <3>4. /\ SumFunctionOnSet(f, U) \in Int /\ SumFunctionOnSet(g, U) \in Int
      BY <3>1, SumType
    <3> QED
      BY <3>2, <3>3, <3>4
  <2> QED
    BY <2>1, <2>2
<1>2. S \in Good
  <2> HIDE DEF Good
  <2> QED
    BY <1>1, SubsetInduction
<1> QED
  BY <1>2

\* Two sets apart.
LEMMA SumUnion ==
  ASSUME NEW S, NEW T, IsFiniteSet(S), IsFiniteSet(T), S \cap T = {}, NEW f, \A x \in S \cup T : f[x] \in Int
  PROVE  SumFunctionOnSet(f, S \cup T) = SumFunctionOnSet(f, S) + SumFunctionOnSet(f, T)
<1> DEFINE Good == {U \in SUBSET T :
                      SumFunctionOnSet(f, S \cup U) = SumFunctionOnSet(f, S) + SumFunctionOnSet(f, U)}
<1>1. SumFunctionOnSet(f, S) \in Int
  BY SumType
<1>2. ASSUME NEW U \in SUBSET T, \A x \in U : U \ {x} \in Good
      PROVE  U \in Good
  <2>1. CASE U = {}
    <3>1. S \cup U = S
      BY <2>1
    <3> QED
      BY <1>1, <2>1, <3>1, SumEmpty
  <2>2. CASE U # {}
    <3>1. PICK x \in U : TRUE
      BY <2>2
    <3>2. PICK V : V = U \ {x}
      OBVIOUS
    <3>3. PICK W, X : W = S \cup V /\ X = S \cup U
      OBVIOUS
    <3>4. IsFiniteSet(U) /\ IsFiniteSet(V) /\ IsFiniteSet(W)
      BY <3>2, <3>3, FS_Subset, FS_Union
    <3>5. x \notin W /\ X = W \cup {x} /\ x \notin V /\ U = V \cup {x} /\ \A z \in X : f[z] \in Int
      BY <3>1, <3>2, <3>3
    <3>6. SumFunctionOnSet(f, W \cup {x}) = SumFunctionOnSet(f, W) + f[x]
      BY <3>4, <3>5, SumAdd
    <3>7. SumFunctionOnSet(f, V \cup {x}) = SumFunctionOnSet(f, V) + f[x]
      BY <3>3, <3>4, <3>5, SumAdd
    <3>8. SumFunctionOnSet(f, W) = SumFunctionOnSet(f, S) + SumFunctionOnSet(f, V)
      BY <1>2, <3>1, <3>2, <3>3
    <3>9. \A z \in V \cup {x} : f[z] \in Int
      BY <3>3, <3>5
    <3>10. SumFunctionOnSet(f, V) \in Int /\ f[x] \in Int
      <4>1. (\A z \in V : f[z] \in Int) /\ f[x] \in Int
        BY <3>9
      <4> QED
        BY <3>4, <4>1, SumType
    <3>11. SumFunctionOnSet(f, X) = SumFunctionOnSet(f, S) + SumFunctionOnSet(f, U)
      BY <1>1, <3>5, <3>6, <3>7, <3>8, <3>10
    <3> QED
      BY <3>3, <3>11
  <2> QED
    BY <2>1, <2>2
<1>3. T \in Good
  <2> HIDE DEF Good
  <2> QED
    BY <1>2, SubsetInduction
<1> QED
  BY <1>3

LEMMA SumNat ==
  ASSUME NEW f, NEW S, IsFiniteSet(S), \A x \in S : f[x] \in Nat
  PROVE  SumFunctionOnSet(f, S) \in Nat /\ \A x \in S : f[x] <= SumFunctionOnSet(f, S)
<1> DEFINE Good == {T \in SUBSET S : SumFunctionOnSet(f, T) \in Nat}
<1>1. ASSUME NEW T \in SUBSET S, \A x \in T : T \ {x} \in Good
      PROVE  T \in Good
  <2>1. CASE T = {}
    BY <2>1, SumEmpty
  <2>2. CASE T # {}
    <3>1. Picked(T) \in T /\ IsFiniteSet(T)
      BY <2>2, PickedIsIn, FS_Subset
    <3>2. SumFunctionOnSet(f, T) = f[Picked(T)] + SumFunctionOnSet(f, T \ {Picked(T)})
      BY <2>2, <3>1, SumUnrolls
    <3> QED
      BY <1>1, <3>1, <3>2
  <2> QED
    BY <2>1, <2>2
<1>2. ASSUME NEW T \in SUBSET S PROVE SumFunctionOnSet(f, T) \in Nat
  <2>1. \A U \in SUBSET T : (\A x \in U : U \ {x} \in Good) => U \in Good
    BY <1>1
  <2>2. IsFiniteSet(T)
    BY FS_Subset
  <2>3. T \in Good
    <3> HIDE DEF Good
    <3> QED
      BY <2>1, <2>2, SubsetInduction
  <2> QED
    BY <2>3
<1>3. ASSUME NEW x \in S PROVE f[x] <= SumFunctionOnSet(f, S)
  <2>1. SumFunctionOnSet(f, S) = f[x] + SumFunctionOnSet(f, S \ {x})
    BY SumRemove
  <2> QED
    BY <1>2, <2>1
<1> QED
  BY <1>2, <1>3

-----------------------------------------------------------------------------
(* The same facts for SumFunction(f), which adds up f over its domain.     *)

LEMMA TotalType ==
  ASSUME NEW S, IsFiniteSet(S), NEW f \in [S -> Int]
  PROVE  SumFunction(f) \in Int
BY SumType DEF SumFunction

LEMMA TotalNat ==
  ASSUME NEW S, IsFiniteSet(S), NEW f \in [S -> Nat]
  PROVE  SumFunction(f) \in Nat /\ \A x \in S : f[x] <= SumFunction(f)
<1>1. \A x \in S : f[x] \in Nat
  OBVIOUS
<1>2. SumFunctionOnSet(f, S) \in Nat /\ \A x \in S : f[x] <= SumFunctionOnSet(f, S)
  BY <1>1, SumNat
<1> QED
  BY <1>2 DEF SumFunction

LEMMA TotalEmpty ==
  ASSUME NEW f, DOMAIN f = {}
  PROVE  SumFunction(f) = 0
BY SumEmpty DEF SumFunction

LEMMA TotalOne ==
  ASSUME NEW y, NEW f \in [{y} -> Int]
  PROVE  SumFunction(f) = f[y]
<1>1. IsFiniteSet({y}) /\ {y} \ {y} = {}
  BY FS_Singleton
<1>2. SumFunctionOnSet(f, {y}) = f[y] + SumFunctionOnSet(f, {y} \ {y})
  BY <1>1, SumRemove
<1>3. SumFunctionOnSet(f, {y} \ {y}) = 0
  BY <1>1, SumEmpty
<1>4. f[y] \in Int /\ DOMAIN f = {y}
  OBVIOUS
<1> QED
  BY <1>2, <1>3, <1>4 DEF SumFunction

\* One element more.
LEMMA TotalAdd ==
  ASSUME NEW S, IsFiniteSet(S), NEW y, y \notin S,
         NEW f \in [S -> Int], NEW g \in [S \cup {y} -> Int], \A x \in S : g[x] = f[x]
  PROVE  SumFunction(g) = SumFunction(f) + g[y]
<1>1. SumFunctionOnSet(g, S \cup {y}) = SumFunctionOnSet(g, S) + g[y]
  BY SumAdd
<1>2. SumFunctionOnSet(g, S) = SumFunctionOnSet(f, S)
  BY SumSame
<1> QED
  BY <1>1, <1>2 DEF SumFunction

\* A family of elements less, whose own total is h's.
LEMMA TotalSplit ==
  ASSUME NEW S, IsFiniteSet(S), NEW T \in SUBSET S, NEW f \in [S -> Int],
         NEW g \in [S \ T -> Int], NEW h \in [T -> Int],
         \A x \in S \ T : g[x] = f[x], \A x \in T : h[x] = f[x]
  PROVE  SumFunction(f) = SumFunction(g) + SumFunction(h)
<1> DEFINE Good == {U \in SUBSET T :
                      SumFunctionOnSet(f, S) = SumFunctionOnSet(f, S \ U) + SumFunctionOnSet(f, U)}
<1>1. SumFunctionOnSet(f, S) \in Int
  BY SumType
<1>2. ASSUME NEW U \in SUBSET T, \A x \in U : U \ {x} \in Good
      PROVE  U \in Good
  <2>1. CASE U = {}
    <3>1. S \ U = S
      BY <2>1
    <3> QED
      BY <1>1, <2>1, <3>1, SumEmpty
  <2>2. CASE U # {}
    <3>1. PICK x \in U : TRUE
      BY <2>2
    <3> DEFINE V == U \ {x}
    <3>2. /\ x \in S \ V /\ IsFiniteSet(S \ V) /\ IsFiniteSet(S \ U)
          /\ (S \ V) \ {x} = S \ U /\ IsFiniteSet(U) /\ IsFiniteSet(V)
      BY FS_Subset
    <3>3. \A z \in S : f[z] \in Int
      OBVIOUS
    <3>4. SumFunctionOnSet(f, S \ V) = f[x] + SumFunctionOnSet(f, (S \ V) \ {x})
      BY <3>2, <3>3, SumRemove
    <3>5. SumFunctionOnSet(f, U) = f[x] + SumFunctionOnSet(f, V)
      BY <3>2, <3>3, SumRemove
    <3>6. SumFunctionOnSet(f, S) = SumFunctionOnSet(f, S \ V) + SumFunctionOnSet(f, V)
      BY <1>2, <3>1
    <3>7. SumFunctionOnSet(f, V) \in Int /\ SumFunctionOnSet(f, S \ U) \in Int /\ f[x] \in Int
      BY <3>1, <3>2, <3>3, SumType
    <3>8. SumFunctionOnSet(f, S \ V) = f[x] + SumFunctionOnSet(f, S \ U)
      BY <3>2, <3>4
    <3> HIDE DEF V
    <3> QED
      BY <3>5, <3>6, <3>7, <3>8
  <2> QED
    BY <2>1, <2>2
<1>3. T \in Good
  <2>1. IsFiniteSet(T)
    BY FS_Subset
  <2> HIDE DEF Good
  <2> QED
    BY <1>2, <2>1, SubsetInduction
<1>4. IsFiniteSet(S \ T) /\ IsFiniteSet(T)
  BY FS_Subset
<1>5. SumFunctionOnSet(g, S \ T) = SumFunctionOnSet(f, S \ T)
  BY <1>4, SumSame
<1>6. SumFunctionOnSet(h, T) = SumFunctionOnSet(f, T)
  BY <1>4, SumSame
<1> QED
  BY <1>3, <1>5, <1>6 DEF SumFunction

\* One element less.
LEMMA TotalRemove ==
  ASSUME NEW S, IsFiniteSet(S), NEW y \in S,
         NEW f \in [S -> Int], NEW g \in [S \ {y} -> Int], \A x \in S \ {y} : g[x] = f[x]
  PROVE  SumFunction(f) = SumFunction(g) + f[y]
<1>1. IsFiniteSet(S \ {y}) /\ \A x \in S : f[x] \in Int
  BY FS_Subset
<1>2. SumFunctionOnSet(f, S) = f[y] + SumFunctionOnSet(f, S \ {y})
  BY <1>1, SumRemove
<1>3. SumFunctionOnSet(g, S \ {y}) = SumFunctionOnSet(f, S \ {y})
  BY <1>1, SumSame
<1>4. SumFunctionOnSet(g, S \ {y}) \in Int /\ f[y] \in Int
  BY <1>1, SumType
<1> QED
  BY <1>2, <1>3, <1>4 DEF SumFunction

\* One value changes.
LEMMA TotalChange ==
  ASSUME NEW S, IsFiniteSet(S), NEW y \in S,
         NEW f \in [S -> Int], NEW g \in [S -> Int], \A x \in S \ {y} : g[x] = f[x]
  PROVE  SumFunction(g) = SumFunction(f) + g[y] - f[y]
BY SumChange DEF SumFunction

\* Two functions on one domain.
LEMMA TotalPlus ==
  ASSUME NEW S, IsFiniteSet(S), NEW f \in [S -> Int], NEW g \in [S -> Int],
         NEW h \in [S -> Int], \A x \in S : h[x] = f[x] + g[x]
  PROVE  SumFunction(h) = SumFunction(f) + SumFunction(g)
BY SumPlus DEF SumFunction

\* A sum of multiples.
LEMMA TotalTimes ==
  ASSUME NEW S, IsFiniteSet(S), NEW c \in Int, NEW f \in [S -> Int],
         NEW h \in [S -> Int], \A x \in S : h[x] = f[x] * c
  PROVE  SumFunction(h) = SumFunction(f) * c
<1> DEFINE Sum(g, T) == SumFunctionOnSet(g, T)
           Good == {T \in SUBSET S : Sum(h, T) = Sum(f, T) * c}
<1>1. ASSUME NEW T \in SUBSET S, \A x \in T : T \ {x} \in Good
      PROVE  T \in Good
  <2>1. CASE T = {}
    BY <2>1, SumEmpty
  <2>2. CASE T # {}
    <3> DEFINE p == Picked(T)
               U == T \ {p}
    <3>1. p \in T /\ IsFiniteSet(T) /\ IsFiniteSet(U)
      BY <2>2, PickedIsIn, FS_Subset
    <3>2. Sum(f, T) = f[p] + Sum(f, U) /\ Sum(h, T) = h[p] + Sum(h, U)
      BY <2>2, <3>1, SumUnrolls
    <3>3. U \in Good /\ p \in S
      BY <1>1, <3>1
    <3>4. Sum(f, U) \in Int
      BY <3>1, SumType
    <3>5. PICK a \in Int, b \in Int : a = f[p] /\ b = Sum(f, U)
      BY <3>3, <3>4
    <3>6. (a + b) * c = a * c + b * c
      OBVIOUS
    <3>7. Sum(h, T) = Sum(f, T) * c
      <4>1. Sum(f, T) = a + b
        BY <3>2, <3>5
      <4>2. Sum(h, T) = a * c + b * c
        BY <3>2, <3>3, <3>5
      <4>. QED
        BY <3>6, <4>1, <4>2
    <3> QED
      BY <3>7
  <2> QED
    BY <2>1, <2>2
<1>2. S \in Good
  <2> HIDE DEF Good
  <2> QED
    BY <1>1, SubsetInduction
<1> QED
  BY <1>2 DEF SumFunction
=============================================================================
