------------------------- MODULE CollectionTheorems -------------------------
(***************************************************************************)
(* The laws of finite sums, and of the order of a set of numbers.          *)
(*                                                                         *)
(* Balances, flows, values and bases are sums over sets of rows:           *)
(* MapThenSumSet of FiniteSetsExt, which is a fold.  SumOn is that sum for *)
(* a function, so that its laws are about sets and functions and can be    *)
(* cited.  They need induction over finite sets; the induction theorems of *)
(* the library have an operator for a parameter, so the induction is made  *)
(* from the least element of a set of counterexamples (LeastCounterexample)*)
(***************************************************************************)
EXTENDS Ordering, Integers, FiniteSetsExt, FiniteSetTheorems, WellFoundedInduction, TLAPS

\* The sum of f[x] over the x in S.
SumOn(f, S) == MapThenSumSet(LAMBDA x : f[x], S)

-----------------------------------------------------------------------------
(* Induction.                                                              *)

\* A set of numbers has a least one.
LEMMA LeastNumber ==
  ASSUME NEW N \in SUBSET Nat, N # {}
  PROVE  \E n \in N : \A m \in N : n <= m
<1>1. PICK n \in N : \A m \in N : ~(<<m, n>> \in OpToRel(<, Nat))
  BY NatLessThanWellFounded, WFMin
<1>2. ASSUME NEW m \in N PROVE n <= m
  <2>1. ~(m < n)
    BY <1>1 DEF OpToRel
  <2>. QED  BY <2>1
<1>. QED  BY <1>2

\* A set of numbers that are bounded has a greatest one.
LEMMA GreatestNumber ==
  ASSUME NEW N \in SUBSET Int, N # {}, NEW b \in Int, \A n \in N : n <= b
  PROVE  \E n \in N : \A m \in N : m <= n
<1>. DEFINE D == {b - n : n \in N}
<1>1. D \in SUBSET Nat /\ D # {}
  <2>1. \A n \in N : b - n \in Nat
    OBVIOUS
  <2>. QED  BY <2>1
<1>2. PICK d \in D : \A e \in D : d <= e
  BY <1>1, LeastNumber
<1>3. PICK n \in N : d = b - n
  OBVIOUS
<1>4. ASSUME NEW m \in N PROVE m <= n
  <2>1. d <= b - m
    BY <1>2
  <2>. QED  BY <1>3, <2>1
<1>. QED  BY <1>4

\* Induction over the subsets of a finite set: if some are counterexamples, there
\* is one that is none any more when an element is taken away.
LEMMA LeastCounterexample ==
  ASSUME NEW S, IsFiniteSet(S), NEW B \in SUBSET (SUBSET S), B # {}
  PROVE  \E s \in B : IsFiniteSet(s) /\ \A x \in s : s \ {x} \notin B
<1>. DEFINE N == {Cardinality(s) : s \in B}
<1>1. \A s \in B : IsFiniteSet(s) /\ Cardinality(s) \in Nat
  BY FS_Subset, FS_CardinalityType
<1>2. N \in SUBSET Nat /\ N # {}
  BY <1>1
<1>3. PICK n \in N : \A m \in N : n <= m
  BY <1>2, LeastNumber
<1>4. PICK s \in B : Cardinality(s) = n
  OBVIOUS
<1>5. ASSUME NEW x \in s, s \ {x} \in B PROVE FALSE
  <2>1. Cardinality(s \ {x}) = n - 1
    BY <1>1, <1>4, FS_RemoveElement
  <2>2. n <= Cardinality(s \ {x})
    BY <1>3, <1>5
  <2>. QED  BY <1>2, <2>1, <2>2
<1>. QED  BY <1>1, <1>5

-----------------------------------------------------------------------------
(* The recursion equation of the fold.                                     *)

Chosen(s) == CHOOSE x \in s : TRUE

\* g is defined on D by the recursion of the fold.
IsTable(f, D, g) ==
  g = [s \in D |-> IF s = {} THEN 0 ELSE f[Chosen(s)] + g[s \ {Chosen(s)}]]

\* The sum is what a table says, if there is one.
LEMMA SumIsInTable ==
  ASSUME NEW f, NEW S, \E g : IsTable(f, SUBSET S, g)
  PROVE  \E g : IsTable(f, SUBSET S, g) /\ SumOn(f, S) = g[S]
BY DEF SumOn, MapThenSumSet, MapThenFoldSet, IsTable, Chosen

\* The recursion defines a function: by induction on the size of the sets.
LEMMA TableExists ==
  ASSUME NEW f, NEW S, IsFiniteSet(S)
  PROVE  \E g : IsTable(f, SUBSET S, g)
<1>. DEFINE D(n) == {s \in SUBSET S : Cardinality(s) <= n}
            N == {n \in Nat : ~\E g : IsTable(f, D(n), g)}
<1>1. \A s \in SUBSET S : IsFiniteSet(s) /\ Cardinality(s) \in Nat
  BY FS_Subset, FS_CardinalityType
<1>2. N = {}
  <2>1. SUFFICES ASSUME N # {} PROVE FALSE
    OBVIOUS
  <2>2. PICK n \in N : \A m \in N : n <= m
    BY <2>1, LeastNumber
  <2>3. CASE n = 0
    <3>. DEFINE g == [s \in D(0) |-> 0]
    <3>1. \A s \in D(0) : s = {}
      BY <1>1, FS_EmptySet
    <3>2. IsTable(f, D(0), g)
      BY <3>1 DEF IsTable
    <3>. QED  BY <2>2, <2>3, <3>2
  <2>4. CASE n # 0
    <3>1. n \in Nat /\ n - 1 \in Nat /\ n - 1 \notin N
      <4>1. n \in Nat
        BY <2>2
      <4>2. n - 1 \in Nat /\ ~(n <= n - 1)
        BY <2>4, <4>1
      <4>. HIDE DEF N
      <4>. QED  BY <2>2, <4>1, <4>2
    <3>2. PICK g : IsTable(f, D(n - 1), g)
      BY <3>1
    <3>. DEFINE At(g0, s) == IF s = {} THEN 0 ELSE f[Chosen(s)] + g0[s \ {Chosen(s)}]
                h == [s \in D(n) |-> At(g, s)]
    <3>3. \A s \in D(n - 1) : s \in D(n) /\ g[s] = At(g, s)
      <4>1. SUFFICES ASSUME NEW s \in D(n - 1) PROVE s \in D(n) /\ g[s] = At(g, s)
        OBVIOUS
      <4>2. s \in SUBSET S /\ Cardinality(s) \in Nat /\ Cardinality(s) <= n - 1
        BY <1>1
      <4>3. s \in D(n)
        BY <3>1, <4>2
      <4>4. g[s] = At(g, s)
        <5>. HIDE DEF D
        <5>. QED  BY <3>2 DEF IsTable
      <4>. QED  BY <4>3, <4>4
    <3>4. \A s \in D(n) : s # {} => s \ {Chosen(s)} \in D(n - 1)
      <4>1. SUFFICES ASSUME NEW s \in D(n), s # {} PROVE s \ {Chosen(s)} \in D(n - 1)
        OBVIOUS
      <4>2. Chosen(s) \in s
        BY <4>1 DEF Chosen
      <4>3. Cardinality(s \ {Chosen(s)}) = Cardinality(s) - 1
        BY <1>1, <4>2, FS_RemoveElement
      <4>. QED  BY <1>1, <4>3
    <3>5. \A s \in D(n) : At(g, s) = At(h, s)
      <4>1. SUFFICES ASSUME NEW s \in D(n), s # {} PROVE At(g, s) = At(h, s)
        OBVIOUS
      <4>2. h[s \ {Chosen(s)}] = g[s \ {Chosen(s)}]
        BY <3>3, <3>4, <4>1
      <4>. QED  BY <4>2
    <3>6. h = [s \in D(n) |-> At(h, s)]
      BY <3>5
    <3>7. IsTable(f, D(n), h)
      BY <3>6 DEF IsTable
    <3>. QED  BY <2>2, <3>7
  <2>. QED  BY <2>3, <2>4
<1>3. Cardinality(S) \in Nat
  BY FS_CardinalityType
<1>4. D(Cardinality(S)) = SUBSET S
  BY <1>1, <1>3, FS_Subset
<1>. QED  BY <1>2, <1>3, <1>4

\* Two tables agree where their functions do.
LEMMA TablesAgree ==
  ASSUME NEW S, NEW T \in SUBSET S, IsFiniteSet(T), NEW f, NEW e, NEW g, NEW h,
         IsTable(f, SUBSET S, g), IsTable(e, SUBSET T, h), \A x \in T : f[x] = e[x]
  PROVE  \A s \in SUBSET T : g[s] = h[s]
<1>. DEFINE B == {s \in SUBSET T : g[s] # h[s]}
<1>1. SUFFICES ASSUME B # {} PROVE FALSE
  OBVIOUS
<1>2. PICK s \in B : \A x \in s : s \ {x} \notin B
  BY <1>1, LeastCounterexample
<1>3. s # {}
  BY DEF IsTable
<1>4. Chosen(s) \in s
  BY <1>3 DEF Chosen
<1>5. g[s \ {Chosen(s)}] = h[s \ {Chosen(s)}]
  BY <1>2, <1>4
<1>6. g[s] = f[Chosen(s)] + g[s \ {Chosen(s)}]
  BY <1>3 DEF IsTable
<1>7. h[s] = e[Chosen(s)] + h[s \ {Chosen(s)}]
  BY <1>3 DEF IsTable
<1>. QED  BY <1>4, <1>5, <1>6, <1>7

-----------------------------------------------------------------------------
(* The laws.                                                               *)

LEMMA SumEmpty ==
  ASSUME NEW f
  PROVE  SumOn(f, {}) = 0
<1>1. PICK g : IsTable(f, SUBSET {}, g) /\ SumOn(f, {}) = g[{}]
  BY TableExists, SumIsInTable, FS_EmptySet
<1>. QED  BY <1>1 DEF IsTable

\* Only the values on S count.
LEMMA SumSame ==
  ASSUME NEW S, IsFiniteSet(S), NEW f, NEW e, \A x \in S : f[x] = e[x]
  PROVE  SumOn(f, S) = SumOn(e, S)
<1>1. PICK g : IsTable(f, SUBSET S, g) /\ SumOn(f, S) = g[S]
  BY TableExists, SumIsInTable
<1>2. PICK h : IsTable(e, SUBSET S, h) /\ SumOn(e, S) = h[S]
  BY TableExists, SumIsInTable
<1>. QED  BY <1>1, <1>2, TablesAgree

LEMMA SumChosen ==
  ASSUME NEW S, IsFiniteSet(S), S # {}, NEW f
  PROVE  SumOn(f, S) = f[Chosen(S)] + SumOn(f, S \ {Chosen(S)})
<1>. DEFINE T == S \ {Chosen(S)}
<1>1. PICK g : IsTable(f, SUBSET S, g) /\ SumOn(f, S) = g[S]
  BY TableExists, SumIsInTable
<1>2. IsFiniteSet(T) /\ T \in SUBSET S
  BY FS_RemoveElement
<1>3. PICK h : IsTable(f, SUBSET T, h) /\ SumOn(f, T) = h[T]
  BY <1>2, TableExists, SumIsInTable
<1>4. g[T] = h[T]
  <2>. HIDE DEF T
  <2>1. \A s \in SUBSET T : g[s] = h[s]
    BY <1>1, <1>2, <1>3, TablesAgree
  <2>. QED  BY <2>1
<1>5. g[S] = f[Chosen(S)] + g[T]
  BY <1>1 DEF IsTable
<1>. QED  BY <1>1, <1>3, <1>4, <1>5

LEMMA SumType ==
  ASSUME NEW S, IsFiniteSet(S), NEW f, \A x \in S : f[x] \in Int
  PROVE  SumOn(f, S) \in Int
<1>. DEFINE B == {s \in SUBSET S : SumOn(f, s) \notin Int}
<1>1. SUFFICES ASSUME B # {} PROVE FALSE
  OBVIOUS
<1>2. PICK s \in B : IsFiniteSet(s) /\ \A x \in s : s \ {x} \notin B
  BY <1>1, LeastCounterexample
<1>3. s # {}
  BY SumEmpty
<1>4. Chosen(s) \in s
  BY <1>3 DEF Chosen
<1>5. SumOn(f, s \ {Chosen(s)}) \in Int
  BY <1>2, <1>4
<1>6. SumOn(f, s) = f[Chosen(s)] + SumOn(f, s \ {Chosen(s)})
  BY <1>2, <1>3, SumChosen
<1>7. f[Chosen(s)] \in Int
  BY <1>4
<1>. QED  BY <1>5, <1>6, <1>7

\* Any element may be taken out first.
LEMMA SumRemove ==
  ASSUME NEW S, IsFiniteSet(S), NEW f, \A x \in S : f[x] \in Int, NEW x \in S
  PROVE  SumOn(f, S) = f[x] + SumOn(f, S \ {x})
<1>. DEFINE B == {s \in SUBSET S : \E y \in s : SumOn(f, s) # f[y] + SumOn(f, s \ {y})}
<1>1. SUFFICES ASSUME B # {} PROVE FALSE
  OBVIOUS
<1>2. PICK s \in B : IsFiniteSet(s) /\ \A y \in s : s \ {y} \notin B
  BY <1>1, LeastCounterexample
<1>3. PICK y \in s : SumOn(f, s) # f[y] + SumOn(f, s \ {y})
  OBVIOUS
<1>. DEFINE c == Chosen(s)
<1>4. c \in s /\ SumOn(f, s) = f[c] + SumOn(f, s \ {c})
  BY <1>2, <1>3, SumChosen DEF Chosen
<1>5. c # y
  BY <1>3, <1>4
<1>6. SumOn(f, s \ {c}) = f[y] + SumOn(f, (s \ {c}) \ {y})
  BY <1>2, <1>4, <1>5
<1>7. SumOn(f, s \ {y}) = f[c] + SumOn(f, (s \ {y}) \ {c})
  BY <1>2, <1>4, <1>5
<1>8. (s \ {c}) \ {y} = (s \ {y}) \ {c}
  OBVIOUS
<1>9. SumOn(f, (s \ {y}) \ {c}) \in Int /\ f[c] \in Int /\ f[y] \in Int
  <2>1. IsFiniteSet((s \ {y}) \ {c})
    BY <1>2, FS_RemoveElement
  <2>. QED  BY <1>4, <2>1, SumType
<1>10. SumOn(f, s) = f[y] + SumOn(f, s \ {y})
  <2>. DEFINE r == SumOn(f, (s \ {y}) \ {c})
  <2>1. SumOn(f, s) = f[c] + (f[y] + r)
    BY <1>4, <1>6, <1>8
  <2>2. SumOn(f, s \ {y}) = f[c] + r
    BY <1>7
  <2>3. f[c] + (f[y] + r) = f[y] + (f[c] + r)
    <3>. HIDE DEF r
    <3>. QED  BY <1>9 DEF r
  <2>. QED  BY <2>1, <2>2, <2>3
<1>. QED  BY <1>3, <1>10

LEMMA SumAdd ==
  ASSUME NEW S, IsFiniteSet(S), NEW f, \A y \in S : f[y] \in Int,
         NEW x, x \notin S, f[x] \in Int
  PROVE  SumOn(f, S \cup {x}) = f[x] + SumOn(f, S)
<1>1. IsFiniteSet(S \cup {x}) /\ (S \cup {x}) \ {x} = S
  BY FS_AddElement
<1>. QED  BY <1>1, SumRemove

LEMMA SumSingle ==
  ASSUME NEW f, NEW x, f[x] \in Int
  PROVE  SumOn(f, {x}) = f[x]
<1>1. SumOn(f, {} \cup {x}) = f[x] + SumOn(f, {})
  BY SumAdd, FS_EmptySet
<1>2. {} \cup {x} = {x}
  OBVIOUS
<1>. QED  BY <1>1, <1>2, SumEmpty

\* The sum of the elements of a set and those of another.
LEMMA SumUnion ==
  ASSUME NEW S, IsFiniteSet(S), NEW T, IsFiniteSet(T), S \cap T = {},
         NEW f, \A x \in S \cup T : f[x] \in Int
  PROVE  SumOn(f, S \cup T) = SumOn(f, S) + SumOn(f, T)
<1>. DEFINE B == {s \in SUBSET T : SumOn(f, S \cup s) # SumOn(f, S) + SumOn(f, s)}
<1>1. SUFFICES ASSUME B # {} PROVE FALSE
  OBVIOUS
<1>2. PICK s \in B : IsFiniteSet(s) /\ \A x \in s : s \ {x} \notin B
  BY <1>1, LeastCounterexample
<1>3. SumOn(f, S) \in Int
  BY SumType
<1>4. s # {}
  <2>1. SumOn(f, {}) = 0 /\ S \cup {} = S
    BY SumEmpty
  <2>2. SumOn(f, S \cup {}) = SumOn(f, S) + SumOn(f, {})
    <3>. HIDE DEF B
    <3>. QED  BY <1>3, <2>1
  <2>. QED  BY <2>2
<1>5. PICK x \in s : TRUE
  BY <1>4
<1>. DEFINE t == s \ {x}
<1>6. IsFiniteSet(t) /\ IsFiniteSet(S \cup t) /\ x \notin S \cup t
  BY <1>2, FS_RemoveElement, FS_Union
<1>7. SumOn(f, S \cup t) = SumOn(f, S) + SumOn(f, t)
  BY <1>2, <1>5
<1>8. SumOn(f, s) = f[x] + SumOn(f, t)
  BY <1>2, <1>5, SumRemove
<1>9. SumOn(f, (S \cup t) \cup {x}) = f[x] + SumOn(f, S \cup t)
  BY <1>6, SumAdd
<1>10. (S \cup t) \cup {x} = S \cup s
  BY <1>5
<1>11. f[x] \in Int /\ SumOn(f, t) \in Int
  BY <1>5, <1>6, SumType
<1>12. SumOn(f, S \cup s) = SumOn(f, S) + SumOn(f, s)
  <2>1. SumOn(f, S \cup s) = f[x] + (SumOn(f, S) + SumOn(f, t))
    BY <1>7, <1>9, <1>10
  <2>2. f[x] + (SumOn(f, S) + SumOn(f, t)) = SumOn(f, S) + (f[x] + SumOn(f, t))
    BY <1>3, <1>11
  <2>. QED  BY <1>8, <2>1, <2>2
<1>. QED  BY <1>12

\* The sum over a part is the sum without the rest.
LEMMA SumDifference ==
  ASSUME NEW S, IsFiniteSet(S), NEW T \in SUBSET S, NEW f, \A x \in S : f[x] \in Int
  PROVE  SumOn(f, S \ T) = SumOn(f, S) - SumOn(f, T)
<1>1. IsFiniteSet(T) /\ IsFiniteSet(S \ T) /\ (S \ T) \cap T = {} /\ (S \ T) \cup T = S
  BY FS_Subset
<1>2. SumOn(f, S) = SumOn(f, S \ T) + SumOn(f, T)
  BY <1>1, SumUnion
<1>3. SumOn(f, S \ T) \in Int /\ SumOn(f, T) \in Int
  BY <1>1, SumType
<1>. QED  BY <1>2, <1>3

\* Sums of functions add up.
LEMMA SumOfSum ==
  ASSUME NEW S, IsFiniteSet(S), NEW f, NEW g, NEW h,
         \A x \in S : f[x] \in Int /\ g[x] \in Int /\ h[x] = f[x] + g[x]
  PROVE  SumOn(h, S) = SumOn(f, S) + SumOn(g, S)
<1>. DEFINE B == {s \in SUBSET S : SumOn(h, s) # SumOn(f, s) + SumOn(g, s)}
<1>1. SUFFICES ASSUME B # {} PROVE FALSE
  OBVIOUS
<1>2. PICK s \in B : IsFiniteSet(s) /\ \A x \in s : s \ {x} \notin B
  BY <1>1, LeastCounterexample
<1>3. s # {}
  <2>1. SumOn(h, {}) = 0 /\ SumOn(f, {}) = 0 /\ SumOn(g, {}) = 0
    BY SumEmpty
  <2>2. SumOn(h, {}) = SumOn(f, {}) + SumOn(g, {})
    <3>. HIDE DEF B
    <3>. QED  BY <2>1
  <2>. QED  BY <2>2
<1>4. PICK x \in s : TRUE
  BY <1>3
<1>. DEFINE t == s \ {x}
<1>5. IsFiniteSet(t) /\ SumOn(h, t) = SumOn(f, t) + SumOn(g, t)
  BY <1>2, <1>4, FS_RemoveElement
<1>6. \A y \in s : h[y] \in Int
  OBVIOUS
<1>7. /\ SumOn(f, s) = f[x] + SumOn(f, t)
      /\ SumOn(g, s) = g[x] + SumOn(g, t)
      /\ SumOn(h, s) = h[x] + SumOn(h, t)
  BY <1>2, <1>4, <1>6, SumRemove
<1>8. SumOn(f, t) \in Int /\ SumOn(g, t) \in Int
  BY <1>5, SumType
<1>. QED  BY <1>4, <1>5, <1>7, <1>8

\* A sum of zeros.
LEMMA SumZero ==
  ASSUME NEW S, IsFiniteSet(S), NEW f, \A x \in S : f[x] = 0
  PROVE  SumOn(f, S) = 0
<1>. DEFINE B == {s \in SUBSET S : SumOn(f, s) # 0}
<1>1. SUFFICES ASSUME B # {} PROVE FALSE
  OBVIOUS
<1>2. PICK s \in B : IsFiniteSet(s) /\ \A x \in s : s \ {x} \notin B
  BY <1>1, LeastCounterexample
<1>3. s # {}
  BY SumEmpty
<1>4. Chosen(s) \in s
  BY <1>3 DEF Chosen
<1>5. SumOn(f, s) = f[Chosen(s)] + SumOn(f, s \ {Chosen(s)})
  BY <1>2, <1>3, SumChosen
<1>. QED  BY <1>2, <1>4, <1>5

\* Elements whose value is zero may be left out.
LEMMA SumSupport ==
  ASSUME NEW S, IsFiniteSet(S), NEW T \in SUBSET S, NEW f,
         \A x \in T : f[x] \in Int, \A x \in S \ T : f[x] = 0
  PROVE  SumOn(f, S) = SumOn(f, T)
<1>1. IsFiniteSet(T) /\ IsFiniteSet(S \ T)
  BY FS_Subset
<1>2. SumOn(f, S \ T) = 0
  BY <1>1, SumZero
<1>3. SumOn(f, S \ T) = SumOn(f, S) - SumOn(f, T)
  BY SumDifference
<1>4. SumOn(f, S) \in Int /\ SumOn(f, T) \in Int
  BY <1>1, SumType
<1>. QED  BY <1>2, <1>3, <1>4

LEMMA SumPair ==
  ASSUME NEW f, NEW x, NEW y, x # y, f[x] \in Int, f[y] \in Int
  PROVE  SumOn(f, {x, y}) = f[x] + f[y]
<1>1. IsFiniteSet({y})
  BY FS_Singleton
<1>2. SumOn(f, {y} \cup {x}) = f[x] + SumOn(f, {y})
  BY <1>1, SumAdd
<1>3. {y} \cup {x} = {x, y}
  OBVIOUS
<1>. QED  BY <1>2, <1>3, SumSingle

LEMMA SumTriple ==
  ASSUME NEW f, NEW x, NEW y, NEW z, x # y, x # z, y # z,
         f[x] \in Int, f[y] \in Int, f[z] \in Int,
         NEW t, t = f[x] + f[y] + f[z]
  PROVE  SumOn(f, {x, y, z}) = t
<1>1. IsFiniteSet({y, z})
  <2>1. {y, z} = {y} \cup {z}
    OBVIOUS
  <2>2. IsFiniteSet({y})
    BY FS_Singleton
  <2>3. IsFiniteSet({y} \cup {z})
    BY <2>2, FS_AddElement
  <2>. QED  BY <2>1, <2>3
<1>2. SumOn(f, {y, z} \cup {x}) = f[x] + SumOn(f, {y, z})
  BY <1>1, SumAdd
<1>3. {y, z} \cup {x} = {x, y, z}
  OBVIOUS
<1>4. SumOn(f, {y, z}) = f[y] + f[z]
  BY SumPair
<1>5. SumOn(f, {x, y, z}) = f[x] + (f[y] + f[z])
  BY <1>2, <1>3, <1>4
<1>6. f[x] + (f[y] + f[z]) = f[x] + f[y] + f[z]
  OBVIOUS
<1>. QED  BY <1>5, <1>6

\* One value changes.
LEMMA SumUpdate ==
  ASSUME NEW S, IsFiniteSet(S), NEW x \in S, NEW f, \A y \in S : f[y] \in Int,
         NEW g, g[x] \in Int, \A y \in S \ {x} : g[y] = f[y]
  PROVE  SumOn(g, S) = SumOn(f, S) - f[x] + g[x]
<1>1. \A y \in S : g[y] \in Int
  OBVIOUS
<1>2. IsFiniteSet(S \ {x})
  BY FS_RemoveElement
<1>3. SumOn(g, S \ {x}) = SumOn(f, S \ {x})
  BY <1>2, SumSame
<1>4. SumOn(f, S) = f[x] + SumOn(f, S \ {x}) /\ SumOn(g, S) = g[x] + SumOn(g, S \ {x})
  BY <1>1, SumRemove
<1>5. SumOn(f, S \ {x}) \in Int
  BY <1>2, SumType
<1>. QED  BY <1>1, <1>3, <1>4, <1>5

\* A step takes the elements of K out and puts those of N in; the values of the
\* others stay.
LEMMA SumShift ==
  ASSUME NEW S, IsFiniteSet(S), NEW K \in SUBSET S, NEW N, IsFiniteSet(N), N \cap S = {},
         NEW f, \A x \in S : f[x] \in Int,
         NEW g, \A x \in N : g[x] \in Int, \A x \in S \ K : g[x] = f[x]
  PROVE  SumOn(g, (S \ K) \cup N) = SumOn(f, S) - SumOn(f, K) + SumOn(g, N)
<1>1. IsFiniteSet(S \ K) /\ (S \ K) \cap N = {}
  BY FS_Subset
<1>2. SumOn(g, (S \ K) \cup N) = SumOn(g, S \ K) + SumOn(g, N)
  BY <1>1, SumUnion
<1>3. SumOn(g, S \ K) = SumOn(f, S \ K)
  BY <1>1, SumSame
<1>4. SumOn(f, S \ K) = SumOn(f, S) - SumOn(f, K)
  BY SumDifference
<1>. QED  BY <1>2, <1>3, <1>4

\* A sum by groups: g[y] is the sum over the members of T that k sends to y.
LEMMA SumGroups ==
  ASSUME NEW S, IsFiniteSet(S), NEW T, IsFiniteSet(T), NEW k, \A x \in T : k[x] \in S,
         NEW f, \A x \in T : f[x] \in Int,
         NEW g, \A y \in S : \E U : /\ g[y] = SumOn(f, U)
                                     /\ \A x : x \in U <=> x \in T /\ k[x] = y
  PROVE  SumOn(g, S) = SumOn(f, T)
<1>. DEFINE Of(s) == {x \in T : k[x] \in s}
            One(y) == {x \in T : k[x] = y}
            B == {s \in SUBSET S : SumOn(g, s) # SumOn(f, Of(s))}
<1>1. /\ \A s : IsFiniteSet(Of(s)) /\ \A x \in Of(s) : f[x] \in Int
      /\ \A y : IsFiniteSet(One(y)) /\ \A x \in One(y) : f[x] \in Int
  <2>1. \A s : Of(s) \in SUBSET T
    OBVIOUS
  <2>2. \A y : One(y) \in SUBSET T
    OBVIOUS
  <2>3. \A U \in SUBSET T : IsFiniteSet(U) /\ \A x \in U : f[x] \in Int
    BY FS_Subset
  <2>. HIDE DEF Of, One
  <2>. QED  BY <2>1, <2>2, <2>3
<1>2. \A y \in S : g[y] = SumOn(f, One(y)) /\ g[y] \in Int
  <2>1. ASSUME NEW y \in S PROVE g[y] = SumOn(f, One(y))
    <3>1. PICK U : g[y] = SumOn(f, U) /\ \A x : x \in U <=> x \in T /\ k[x] = y
      OBVIOUS
    <3>2. U = One(y)
      BY <3>1
    <3>. QED  BY <3>1, <3>2
  <2>. HIDE DEF One
  <2>. QED  BY <1>1, <2>1, SumType
<1>3. B = {}
  <2>1. SUFFICES ASSUME B # {} PROVE FALSE
    OBVIOUS
  <2>2. PICK s \in B : IsFiniteSet(s) /\ \A x \in s : s \ {x} \notin B
    BY <2>1, LeastCounterexample
  <2>3. s \in SUBSET S /\ SumOn(g, s) # SumOn(f, Of(s))
    OBVIOUS
  <2>4. s # {}
    <3>1. SUFFICES ASSUME s = {} PROVE FALSE
      OBVIOUS
    <3>2. Of(s) = {}
      BY <3>1
    <3>3. SumOn(g, s) = 0 /\ SumOn(f, Of(s)) = 0
      BY <3>1, <3>2, SumEmpty
    <3>. QED  BY <2>3, <3>3
  <2>5. PICK y \in s : TRUE
    BY <2>4
  <2>6. SumOn(g, s \ {y}) = SumOn(f, Of(s \ {y}))
    BY <2>2, <2>3, <2>5
  <2>7. SumOn(g, s) = g[y] + SumOn(g, s \ {y})
    <3>1. IsFiniteSet(s) /\ \A x \in s : g[x] \in Int
      BY <1>2, <2>2, <2>3
    <3>. HIDE DEF B
    <3>. QED  BY <2>5, <3>1, SumRemove
  <2>8. Of(s) = Of(s \ {y}) \cup One(y) /\ Of(s \ {y}) \cap One(y) = {}
    BY <2>5
  <2>. HIDE DEF Of, One, B
  <2>9. SumOn(f, Of(s)) = SumOn(f, Of(s \ {y})) + SumOn(f, One(y))
    <3>1. PICK U, V : U = Of(s \ {y}) /\ V = One(y)
      OBVIOUS
    <3>2. IsFiniteSet(U) /\ IsFiniteSet(V) /\ U \cap V = {} /\ \A x \in U \cup V : f[x] \in Int
      BY <1>1, <2>8, <3>1
    <3>3. SumOn(f, U \cup V) = SumOn(f, U) + SumOn(f, V)
      BY <3>2, SumUnion
    <3>. QED  BY <2>8, <3>1, <3>3
  <2>10. SumOn(f, Of(s \ {y})) \in Int /\ SumOn(f, One(y)) \in Int /\ g[y] = SumOn(f, One(y))
    BY <1>1, <1>2, <2>3, <2>5, SumType
  <2>. QED  BY <2>3, <2>6, <2>7, <2>9, <2>10
<1>4. SumOn(g, S) = SumOn(f, Of(S))
  BY <1>3
<1>5. Of(S) = T
  OBVIOUS
<1>. QED  BY <1>4, <1>5

\* A sum over other names of the same terms.
LEMMA SumRenamed ==
  ASSUME NEW S, IsFiniteSet(S), NEW T, IsFiniteSet(T), NEW k, \A x \in T : k[x] \in S,
         NEW f, \A x \in T : f[x] \in Int,
         NEW g, \A y \in S : \E x \in T : k[x] = y /\ g[y] = f[x] /\ \A z \in T : k[z] = y => z = x
  PROVE  SumOn(g, S) = SumOn(f, T)
<1>1. ASSUME NEW y \in S
      PROVE  \E U : g[y] = SumOn(f, U) /\ \A x : x \in U <=> x \in T /\ k[x] = y
  <2>1. PICK x \in T : k[x] = y /\ g[y] = f[x] /\ \A z \in T : k[z] = y => z = x
    OBVIOUS
  <2>2. SumOn(f, {x}) = f[x]
    BY SumSingle
  <2>3. \A z : z \in {x} <=> z \in T /\ k[z] = y
    BY <2>1
  <2>. QED  BY <2>1, <2>2, <2>3
<1>. QED  BY <1>1, SumGroups

-----------------------------------------------------------------------------
(* The order of a set of numbers.                                          *)

\* Members have different ranks, between one and their number.
LEMMA RankIsInjective ==
  ASSUME NEW S \in SUBSET Int, IsFiniteSet(S)
  PROVE  /\ \A n \in S : Rank(S, n) \in 1..Cardinality(S)
         /\ \A m, n \in S : m < n => Rank(S, m) < Rank(S, n)
<1>. DEFINE Upto(n) == {x \in S : x <= n}
<1>1. ASSUME NEW n \in S
      PROVE  /\ IsFiniteSet(Upto(n)) /\ Cardinality(Upto(n)) \in 1..Cardinality(S)
             /\ Rank(S, n) = Cardinality(Upto(n))
  <2>1. Upto(n) \in SUBSET S /\ n \in Upto(n)
    OBVIOUS
  <2>2. IsFiniteSet(Upto(n)) /\ Cardinality(Upto(n)) <= Cardinality(S)
    BY <2>1, FS_Subset
  <2>3. Cardinality(Upto(n)) \in Nat /\ Cardinality(S) \in Nat
    BY <2>2, FS_CardinalityType
  <2>4. Cardinality(Upto(n)) # 0
    BY <2>1, <2>2, FS_EmptySet
  <2>5. Rank(S, n) = Cardinality(Upto(n))
    BY DEF Rank
  <2>. HIDE DEF Upto
  <2>. QED  BY <2>2, <2>3, <2>4, <2>5
<1>2. ASSUME NEW m \in S, NEW n \in S, m < n
      PROVE  Rank(S, m) < Rank(S, n)
  <2>1. m \in Int /\ n \in Int /\ ~(n <= m) /\ \A x \in S : x \in Int /\ (x <= m => x <= n)
    BY <1>2
  <2>2. \A x \in Upto(m) : x \in Upto(n)
    BY <2>1
  <2>3. n \in Upto(n) /\ n \notin Upto(m)
    BY <2>1
  <2>4. Upto(m) \in SUBSET Upto(n) /\ n \in Upto(n) /\ n \notin Upto(m)
    <3>. HIDE DEF Upto
    <3>. QED  BY <2>2, <2>3
  <2>5. /\ IsFiniteSet(Upto(n)) /\ Cardinality(Upto(n)) \in Nat
        /\ Cardinality(Upto(m)) \in Nat
    BY <1>1, FS_CardinalityType
  <2>6. Cardinality(Upto(m)) <= Cardinality(Upto(n))
    <3>. HIDE DEF Upto
    <3>. QED  BY <2>4, <2>5, FS_Subset
  <2>7. Cardinality(Upto(m)) # Cardinality(Upto(n))
    <3>. HIDE DEF Upto
    <3>. QED  BY <2>4, <2>5, FS_Subset
  <2>8. Rank(S, m) = Cardinality(Upto(m)) /\ Rank(S, n) = Cardinality(Upto(n))
    BY <1>1
  <2>. HIDE DEF Upto
  <2>. QED  BY <2>5, <2>6, <2>7, <2>8
<1>. QED  BY <1>1, <1>2

\* The members in order are all the members, each at its rank.
LEMMA InOrderIsBijection ==
  ASSUME NEW S \in SUBSET Int, IsFiniteSet(S)
  PROVE  /\ Cardinality(S) \in Nat
         /\ InOrder(S) \in [1..Cardinality(S) -> S]
         /\ \A k \in 1..Cardinality(S) : Rank(S, InOrder(S)[k]) = k
         /\ \A n \in S : Rank(S, n) \in 1..Cardinality(S) /\ InOrder(S)[Rank(S, n)] = n
<1>. DEFINE c == Cardinality(S)
            rank == [n \in S |-> Rank(S, n)]
<1>1. c \in Nat
  BY FS_CardinalityType
<1>2. \A m, n \in S : Rank(S, m) = Rank(S, n) => m = n
  <2>. SUFFICES ASSUME NEW m \in S, NEW n \in S, Rank(S, m) = Rank(S, n), m # n PROVE FALSE
    OBVIOUS
  <2>1. m < n \/ n < m
    OBVIOUS
  <2>2. Rank(S, m) \in Int /\ Rank(S, n) \in Int
    BY <1>1, RankIsInjective
  <2>. QED  BY <2>1, <2>2, RankIsInjective
<1>3. rank \in Injection(S, 1..c)
  BY <1>2, RankIsInjective DEF Injection, IsInjective
<1>4. IsFiniteSet(1..c) /\ Cardinality(1..c) = c
  BY <1>1, FS_Interval
<1>5. rank \in Surjection(S, 1..c)
  <2>. HIDE DEF rank
  <2>. QED  BY <1>3, <1>4, FS_Injection
<1>6. ASSUME NEW k \in 1..c PROVE \E n \in S : Rank(S, n) = k
  BY <1>5 DEF Surjection
<1>7. \A k \in 1..c : InOrder(S)[k] \in S /\ Rank(S, InOrder(S)[k]) = k
  BY <1>6 DEF InOrder
<1>8. InOrder(S) \in [1..c -> S]
  BY <1>7 DEF InOrder
<1>9. \A n \in S : Rank(S, n) \in 1..c
  BY RankIsInjective
<1>10. \A n \in S : InOrder(S)[Rank(S, n)] = n
  BY <1>2, <1>7, <1>9
<1>. QED  BY <1>1, <1>7, <1>8, <1>9, <1>10

\* They come in order.
LEMMA InOrderAscends ==
  ASSUME NEW S \in SUBSET Int, IsFiniteSet(S)
  PROVE  \A j, k \in 1..Cardinality(S) : j < k <=> InOrder(S)[j] < InOrder(S)[k]
<1>. SUFFICES ASSUME NEW j \in 1..Cardinality(S), NEW k \in 1..Cardinality(S)
              PROVE  j < k <=> InOrder(S)[j] < InOrder(S)[k]
  OBVIOUS
<1>. DEFINE m == InOrder(S)[j]
            n == InOrder(S)[k]
<1>1. /\ m \in S /\ n \in S /\ m \in Int /\ n \in Int
      /\ Rank(S, m) = j /\ Rank(S, n) = k /\ Cardinality(S) \in Nat
  BY InOrderIsBijection
<1>2. m < n => j < k
  BY <1>1, RankIsInjective
<1>3. n < m => k < j
  BY <1>1, RankIsInjective
<1>. QED  BY <1>1, <1>2, <1>3

=============================================================================
