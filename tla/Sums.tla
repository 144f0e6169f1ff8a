-------------------------------- MODULE Sums --------------------------------
(***************************************************************************)
(* Sums over finite sets, as MapThenSumSet of the community modules takes  *)
(* them: element by element, in an order that CHOOSE fixes.  The lemmas    *)
(* say that the order does not matter.                                     *)
(*                                                                         *)
(* Induction is over the subsets of a finite set and is stated with sets,  *)
(* not with a predicate, so that it can be cited like any other lemma.     *)
(***************************************************************************)
EXTENDS FiniteSetsExt, FiniteSetTheorems, WellFoundedInduction, TLAPS

\* The sum of a function over a part of its domain.
Total(f, S) == MapThenSumSet(LAMBDA e : f[e], S)

\* The element that a sum takes first, and the recursion of MapThenFoldSet.
Picked(s) == CHOOSE x \in s : TRUE

IsSum(g, f, S) ==
  g = [s \in SUBSET S |-> IF s = {} THEN 0 ELSE f[Picked(s)] + g[s \ {Picked(s)}]]

(* What holds of a set whenever it holds of the set without any one of its  *)
(* elements holds of every finite set.                                      *)
LEMMA SubsetInduction ==
  ASSUME NEW S, IsFiniteSet(S), NEW Good,
         \A s \in SUBSET S : (\A x \in s : s \ {x} \in Good) => s \in Good
  PROVE  \A s \in SUBSET S : s \in Good
<1> DEFINE Bad == {s \in SUBSET S : s \notin Good}
           Sizes == {Cardinality(s) : s \in Bad}
<1>1. \A s \in SUBSET S : IsFiniteSet(s) /\ Cardinality(s) \in Nat
  BY FS_Subset, FS_CardinalityType
<1>2. SUFFICES ASSUME Bad # {}
               PROVE  FALSE
  OBVIOUS
<1>3. Sizes \subseteq Nat /\ Sizes # {}
  BY <1>1, <1>2
<1>4. PICK n \in Sizes : \A k \in Sizes : ~(<<k, n>> \in OpToRel(<, Nat))
  BY <1>3, NatLessThanWellFounded, WFMin
<1>5. \A k \in Sizes : ~(k < n)
  BY <1>3, <1>4 DEF OpToRel
<1>6. PICK s \in Bad : Cardinality(s) = n
  OBVIOUS
<1>7. ASSUME NEW x \in s
      PROVE  s \ {x} \in Good
  <2>1. Cardinality(s \ {x}) = Cardinality(s) - 1
    BY <1>1, FS_RemoveElement
  <2>2. Cardinality(s \ {x}) < n
    BY <1>1, <1>6, <2>1
  <2>3. s \ {x} \notin Bad
    BY <1>5, <2>2
  <2> QED
    BY <2>3
<1> QED
  BY <1>7

(* A sum of the community modules is the value of a function that is        *)
(* defined by recursion.                                                    *)
LEMMA TotalUnfolded ==
  ASSUME NEW f, NEW S
  PROVE  Total(f, S) = (CHOOSE g : IsSum(g, f, S))[S]
BY Zenon DEF Total, MapThenSumSet, MapThenFoldSet, IsSum, Picked

(* The function is unique, and its restriction is that of the part.         *)
LEMMA SumsAreUnique ==
  ASSUME NEW S, IsFiniteSet(S), NEW f, NEW g, IsSum(g, f, S), NEW h, IsSum(h, f, S)
  PROVE  \A s \in SUBSET S : g[s] = h[s]
<1> DEFINE Good == {s \in SUBSET S : g[s] = h[s]}
<1>1. ASSUME NEW s \in SUBSET S, \A x \in s : s \ {x} \in Good
      PROVE  s \in Good
  <2>1. CASE s = {}
    BY <2>1 DEF IsSum
  <2>2. CASE s # {}
    <3>1. Picked(s) \in s
      BY <2>2 DEF Picked
    <3>2. g[s \ {Picked(s)}] = h[s \ {Picked(s)}]
      BY <1>1, <3>1
    <3>3. g[s] = f[Picked(s)] + g[s \ {Picked(s)}]
      BY <2>2 DEF IsSum
    <3>4. h[s] = f[Picked(s)] + h[s \ {Picked(s)}]
      BY <2>2 DEF IsSum
    <3> QED
      BY <3>2, <3>3, <3>4
  <2> QED
    BY <2>1, <2>2
<1>2. \A s \in SUBSET S : s \in Good
  <2> HIDE DEF Good
  <2> QED
    BY <1>1, SubsetInduction
<1> QED
  BY <1>2

LEMMA SumsRestrict ==
  ASSUME NEW S, NEW f, NEW g, IsSum(g, f, S), NEW T \in SUBSET S
  PROVE  IsSum([s \in SUBSET T |-> g[s]], f, T)
<1> DEFINE h == [s \in SUBSET T |-> g[s]]
<1>1. ASSUME NEW s \in SUBSET T
      PROVE  h[s] = IF s = {} THEN 0 ELSE f[Picked(s)] + h[s \ {Picked(s)}]
  <2>1. g[s] = IF s = {} THEN 0 ELSE f[Picked(s)] + g[s \ {Picked(s)}]
    BY DEF IsSum
  <2>2. s \ {Picked(s)} \in SUBSET T
    OBVIOUS
  <2> QED
    BY <2>1, <2>2
<1>2. h = [s \in SUBSET T |-> IF s = {} THEN 0 ELSE f[Picked(s)] + h[s \ {Picked(s)}]]
  BY <1>1
<1> QED
  BY <1>2 DEF IsSum

(* Hence wherever the function exists the sum is its value, for the parts   *)
(* as well.                                                                 *)
LEMMA TotalIsSum ==
  ASSUME NEW S, IsFiniteSet(S), NEW f, NEW g, IsSum(g, f, S), NEW T \in SUBSET S
  PROVE  Total(f, T) = g[T]
<1> DEFINE r == [s \in SUBSET T |-> g[s]]
           c == CHOOSE h : IsSum(h, f, T)
<1>1. IsSum(r, f, T)
  BY SumsRestrict
<1>2. IsSum(c, f, T)
  BY <1>1
<1>3. IsFiniteSet(T)
  BY FS_Subset
<1>4. c[T] = r[T]
  <2> HIDE DEF r, c
  <2>1. T \in SUBSET T
    OBVIOUS
  <2> QED
    BY <1>1, <1>2, <1>3, <2>1, SumsAreUnique
<1>5. r[T] = g[T]
  OBVIOUS
<1> QED
  BY <1>4, <1>5, TotalUnfolded

(* And it exists over every finite set.                                     *)
LEMMA SumsExist ==
  ASSUME NEW S, IsFiniteSet(S), NEW f
  PROVE  \E g : IsSum(g, f, S)
<1> DEFINE Good == {s \in SUBSET S : \E g : IsSum(g, f, s)}
<1>1. ASSUME NEW t \in SUBSET S, \A x \in t : t \ {x} \in Good
      PROVE  t \in Good
  <2> DEFINE G == [s \in SUBSET t |-> IF s = {} THEN 0
                                      ELSE f[Picked(s)] + Total(f, s \ {Picked(s)})]
  <2>1. ASSUME NEW s \in SUBSET t, s # t
        PROVE  Total(f, s) = IF s = {} THEN 0 ELSE f[Picked(s)] + Total(f, s \ {Picked(s)})
    <3>1. PICK x \in t : x \notin s
      BY <2>1
    <3>2. PICK g : IsSum(g, f, t \ {x})
      BY <1>1, <3>1
    <3>3. IsFiniteSet(t \ {x}) /\ s \in SUBSET (t \ {x}) /\ s \ {Picked(s)} \in SUBSET (t \ {x})
      BY <3>1, FS_Subset
    <3>4. Total(f, s) = g[s]
      BY <3>2, <3>3, TotalIsSum
    <3>5. Total(f, s \ {Picked(s)}) = g[s \ {Picked(s)}]
      BY <3>2, <3>3, TotalIsSum
    <3>6. g[s] = IF s = {} THEN 0 ELSE f[Picked(s)] + g[s \ {Picked(s)}]
      BY <3>2, <3>3 DEF IsSum
    <3> QED
      BY <3>4, <3>5, <3>6
  <2>2. ASSUME NEW s \in SUBSET t
        PROVE  G[s] = IF s = {} THEN 0 ELSE f[Picked(s)] + G[s \ {Picked(s)}]
    <3>1. CASE s = {}
      BY <3>1
    <3>2. CASE s # {}
      <4>1. Picked(s) \in s
        BY <3>2 DEF Picked
      <4>2. s \ {Picked(s)} \in SUBSET t /\ s \ {Picked(s)} # t
        BY <4>1
      <4>3. G[s \ {Picked(s)}] = Total(f, s \ {Picked(s)})
        BY <2>1, <4>2
      <4> QED
        BY <3>2, <4>3
    <3> QED
      BY <3>1, <3>2
  <2>3. G = [s \in SUBSET t |-> IF s = {} THEN 0 ELSE f[Picked(s)] + G[s \ {Picked(s)}]]
    BY <2>2
  <2>4. IsSum(G, f, t)
    BY <2>3 DEF IsSum
  <2> QED
    BY <2>4
<1>2. \A s \in SUBSET S : s \in Good
  <2> HIDE DEF Good
  <2> QED
    BY <1>1, SubsetInduction
<1> QED
  BY <1>2

-----------------------------------------------------------------------------
(* The algebra of sums.                                                     *)

\* The sum over nothing.
LEMMA TotalEmpty ==
  ASSUME NEW f
  PROVE  Total(f, {}) = 0
<1>1. IsFiniteSet({}) /\ {} \in SUBSET {}
  BY FS_EmptySet
<1>2. PICK g : IsSum(g, f, {})
  BY <1>1, SumsExist
<1>3. g[{}] = 0
  BY <1>1, <1>2 DEF IsSum
<1> QED
  BY <1>1, <1>2, <1>3, TotalIsSum

LEMMA TotalPicked ==
  ASSUME NEW f, NEW S, IsFiniteSet(S), S # {}
  PROVE  /\ Picked(S) \in S
         /\ Total(f, S) = f[Picked(S)] + Total(f, S \ {Picked(S)})
<1>1. Picked(S) \in S
  BY DEF Picked
<1>2. PICK g : IsSum(g, f, S)
  BY SumsExist
<1>3. g[S] = f[Picked(S)] + g[S \ {Picked(S)}]
  BY <1>2 DEF IsSum
<1>4. S \in SUBSET S /\ S \ {Picked(S)} \in SUBSET S
  OBVIOUS
<1>5. Total(f, S) = g[S] /\ Total(f, S \ {Picked(S)}) = g[S \ {Picked(S)}]
  BY <1>2, <1>4, TotalIsSum
<1> QED
  BY <1>1, <1>3, <1>5

(* A sum depends on the values over its set only.                           *)
LEMMA TotalAgrees ==
  ASSUME NEW S, IsFiniteSet(S), NEW f, NEW h, \A x \in S : f[x] = h[x]
  PROVE  Total(f, S) = Total(h, S)
<1> DEFINE Good == {s \in SUBSET S : Total(f, s) = Total(h, s)}
<1>1. ASSUME NEW s \in SUBSET S, \A x \in s : s \ {x} \in Good
      PROVE  s \in Good
  <2>1. CASE s = {}
    BY <2>1, TotalEmpty
  <2>2. CASE s # {}
    <3>1. IsFiniteSet(s)
      BY FS_Subset
    <3>2. Picked(s) \in s /\ Total(f, s) = f[Picked(s)] + Total(f, s \ {Picked(s)})
      BY <2>2, <3>1, TotalPicked
    <3>3. Total(h, s) = h[Picked(s)] + Total(h, s \ {Picked(s)})
      BY <2>2, <3>1, TotalPicked
    <3>4. Total(f, s \ {Picked(s)}) = Total(h, s \ {Picked(s)})
      BY <1>1, <3>2
    <3>5. f[Picked(s)] = h[Picked(s)]
      BY <3>2
    <3> QED
      BY <3>2, <3>3, <3>4, <3>5
  <2> QED
    BY <2>1, <2>2
<1>2. \A s \in SUBSET S : s \in Good
  <2> HIDE DEF Good
  <2> QED
    BY <1>1, SubsetInduction
<1> QED
  BY <1>2

LEMMA TotalType ==
  ASSUME NEW S, IsFiniteSet(S), NEW f, \A x \in S : f[x] \in Int
  PROVE  Total(f, S) \in Int
<1> DEFINE Good == {s \in SUBSET S : Total(f, s) \in Int}
<1>1. ASSUME NEW s \in SUBSET S, \A x \in s : s \ {x} \in Good
      PROVE  s \in Good
  <2>1. CASE s = {}
    BY <2>1, TotalEmpty
  <2>2. CASE s # {}
    <3>1. IsFiniteSet(s)
      BY FS_Subset
    <3>2. Picked(s) \in s /\ Total(f, s) = f[Picked(s)] + Total(f, s \ {Picked(s)})
      BY <2>2, <3>1, TotalPicked
    <3>3. f[Picked(s)] \in Int /\ Total(f, s \ {Picked(s)}) \in Int
      BY <1>1, <3>2
    <3> QED
      BY <3>2, <3>3
  <2> QED
    BY <2>1, <2>2
<1>2. \A s \in SUBSET S : s \in Good
  <2> HIDE DEF Good
  <2> QED
    BY <1>1, SubsetInduction
<1> QED
  BY <1>2

(* Any element may be taken first.                                          *)
LEMMA TotalRemove ==
  ASSUME NEW S, IsFiniteSet(S), NEW f, \A x \in S : f[x] \in Int, NEW a \in S
  PROVE  Total(f, S) = f[a] + Total(f, S \ {a})
<1> DEFINE Good == {s \in SUBSET S : \A x \in s : Total(f, s) = f[x] + Total(f, s \ {x})}
<1>1. ASSUME NEW s \in SUBSET S, \A x \in s : s \ {x} \in Good
      PROVE  s \in Good
  <2>1. SUFFICES ASSUME NEW x \in s
                 PROVE  Total(f, s) = f[x] + Total(f, s \ {x})
    OBVIOUS
  <2> DEFINE y == Picked(s)
             both == (s \ {x}) \ {y}
  <2>2. IsFiniteSet(s) /\ s # {}
    BY <2>1, FS_Subset
  <2>3. y \in s /\ Total(f, s) = f[y] + Total(f, s \ {y})
    BY <2>2, TotalPicked
  <2>4. CASE x = y
    BY <2>3, <2>4
  <2>5. CASE x # y
    <3>1. x \in s \ {y} /\ y \in s \ {x} /\ (s \ {y}) \ {x} = both
      BY <2>3, <2>5
    <3>2. s \ {y} \in Good /\ s \ {x} \in Good
      BY <1>1, <2>3
    <3>3. Total(f, s \ {y}) = f[x] + Total(f, both)
      BY <3>1, <3>2
    <3>4. Total(f, s \ {x}) = f[y] + Total(f, both)
      BY <3>1, <3>2
    <3>5. f[x] \in Int /\ f[y] \in Int /\ Total(f, both) \in Int
      <4>1. IsFiniteSet(both) /\ \A z \in both : f[z] \in Int
        BY <2>2, FS_Subset
      <4> QED
        BY <2>3, <4>1, TotalType
    <3> HIDE DEF both, y
    <3> QED
      BY <2>3, <3>3, <3>4, <3>5
  <2> QED
    BY <2>4, <2>5
<1>2. \A s \in SUBSET S : s \in Good
  <2> HIDE DEF Good
  <2> QED
    BY <1>1, SubsetInduction
<1> QED
  BY <1>2

(* The sum over a set with one more element.                                *)
LEMMA TotalAdd ==
  ASSUME NEW S, IsFiniteSet(S), NEW f, NEW a, a \notin S,
         \A x \in S \cup {a} : f[x] \in Int
  PROVE  Total(f, S \cup {a}) = Total(f, S) + f[a]
<1>1. IsFiniteSet(S \cup {a}) /\ (S \cup {a}) \ {a} = S
  BY FS_AddElement
<1>2. Total(f, S \cup {a}) = f[a] + Total(f, (S \cup {a}) \ {a})
  BY <1>1, TotalRemove
<1>3. Total(f, S) \in Int /\ f[a] \in Int
  BY TotalType
<1>4. Total(f, (S \cup {a}) \ {a}) = Total(f, S)
  BY <1>1, Zenon
<1> QED
  BY <1>2, <1>3, <1>4

(* The sum over two sets that share nothing.                                *)
LEMMA TotalUnion ==
  ASSUME NEW A, NEW B, IsFiniteSet(A), IsFiniteSet(B), A \cap B = {}, NEW f,
         \A x \in A \cup B : f[x] \in Int
  PROVE  Total(f, A \cup B) = Total(f, A) + Total(f, B)
<1>0. Total(f, A) \in Int
  BY TotalType
<1> DEFINE Good == {s \in SUBSET B : Total(f, A \cup s) = Total(f, A) + Total(f, s)}
<1>1. ASSUME NEW s \in SUBSET B, \A x \in s : s \ {x} \in Good
      PROVE  s \in Good
  <2>1. CASE s = {}
    BY <1>0, <2>1, TotalEmpty
  <2>2. CASE s # {}
    <3>1. PICK x \in s : TRUE
      BY <2>2
    <3> DEFINE r == s \ {x}
    <3>2. /\ IsFiniteSet(r) /\ IsFiniteSet(A \cup r) /\ x \notin r /\ x \notin A \cup r
          /\ s = r \cup {x} /\ A \cup s = (A \cup r) \cup {x}
      BY <3>1, FS_Subset, FS_Union
    <3>a. \A z \in (A \cup r) \cup {x} : f[z] \in Int
      BY <3>1
    <3> HIDE DEF r
    <3>3. Total(f, s) = Total(f, r) + f[x]
      <4>1. Total(f, r \cup {x}) = Total(f, r) + f[x]
        BY <3>2, <3>a, TotalAdd
      <4> QED
        BY <3>2, <4>1, Zenon
    <3>4. Total(f, A \cup s) = Total(f, A \cup r) + f[x]
      <4>1. Total(f, (A \cup r) \cup {x}) = Total(f, A \cup r) + f[x]
        BY <3>2, <3>a, TotalAdd
      <4> QED
        BY <3>2, <4>1, Zenon
    <3>5. Total(f, A \cup r) = Total(f, A) + Total(f, r)
      BY <1>1, <3>1 DEF r
    <3>6. Total(f, r) \in Int /\ f[x] \in Int
      BY <3>1, <3>2, TotalType
    <3> QED
      BY <1>0, <3>3, <3>4, <3>5, <3>6
  <2> QED
    BY <2>1, <2>2
<1>2. \A s \in SUBSET B : s \in Good
  <2> HIDE DEF Good
  <2> QED
    BY <1>1, SubsetInduction
<1> QED
  BY <1>2

(* The sum of equal values.                                                 *)
LEMMA TotalConstant ==
  ASSUME NEW S, IsFiniteSet(S), NEW c \in Int, NEW f, \A x \in S : f[x] = c
  PROVE  Total(f, S) = c * Cardinality(S)
<1> DEFINE Good == {s \in SUBSET S : Total(f, s) = c * Cardinality(s)}
<1>1. ASSUME NEW s \in SUBSET S, \A x \in s : s \ {x} \in Good
      PROVE  s \in Good
  <2>1. CASE s = {}
    BY <2>1, TotalEmpty, FS_EmptySet
  <2>2. CASE s # {}
    <3>1. PICK x \in s : TRUE
      BY <2>2
    <3> DEFINE r == s \ {x}
    <3>2. IsFiniteSet(r) /\ x \notin r /\ s = r \cup {x}
      BY <3>1, FS_Subset
    <3>3. Cardinality(s) = Cardinality(r) + 1 /\ Cardinality(r) \in Nat
      BY <3>2, FS_AddElement, FS_CardinalityType
    <3>a. (\A z \in r \cup {x} : f[z] \in Int) /\ f[x] = c
      BY <3>1
    <3>5. Total(f, r) = c * Cardinality(r)
      BY <1>1, <3>1
    <3> HIDE DEF r
    <3>4. Total(f, s) = Total(f, r) + c
      <4>1. Total(f, r \cup {x}) = Total(f, r) + f[x]
        BY <3>2, <3>a, TotalAdd
      <4> QED
        BY <3>2, <3>a, <4>1, Zenon
    <3>6. \A k \in Nat : c * (k + 1) = c * k + c
      BY Z3
    <3> QED
      BY <3>3, <3>4, <3>5, <3>6
  <2> QED
    BY <2>1, <2>2
<1>2. \A s \in SUBSET S : s \in Good
  <2> HIDE DEF Good
  <2> QED
    BY <1>1, SubsetInduction
<1> QED
  BY <1>2

(* A sum of what is not negative is not negative, and no less than a part   *)
(* of it.                                                                   *)
LEMMA TotalGrows ==
  ASSUME NEW S, IsFiniteSet(S), NEW f, \A x \in S : f[x] \in Nat, NEW T \in SUBSET S
  PROVE  Total(f, T) \in Nat /\ Total(f, T) <= Total(f, S)
<1> DEFINE Good == {s \in SUBSET S : Total(f, s) \in Nat}
<1>1. ASSUME NEW s \in SUBSET S, \A x \in s : s \ {x} \in Good
      PROVE  s \in Good
  <2>1. CASE s = {}
    BY <2>1, TotalEmpty
  <2>2. CASE s # {}
    <3>1. IsFiniteSet(s)
      BY FS_Subset
    <3>2. Picked(s) \in s /\ Total(f, s) = f[Picked(s)] + Total(f, s \ {Picked(s)})
      BY <2>2, <3>1, TotalPicked
    <3>3. f[Picked(s)] \in Nat /\ Total(f, s \ {Picked(s)}) \in Nat
      BY <1>1, <3>2
    <3> QED
      BY <3>2, <3>3
  <2> QED
    BY <2>1, <2>2
<1>2. \A s \in SUBSET S : s \in Good
  <2> HIDE DEF Good
  <2> QED
    BY <1>1, SubsetInduction
<1>3. Total(f, T) \in Nat /\ Total(f, S \ T) \in Nat
  BY <1>2
<1>4. Total(f, S) = Total(f, T) + Total(f, S \ T)
  <2>1. IsFiniteSet(T) /\ IsFiniteSet(S \ T) /\ T \cup (S \ T) = S /\ T \cap (S \ T) = {}
    BY FS_Subset
  <2> HIDE DEF Good
  <2> QED
    BY <2>1, TotalUnion
<1> QED
  BY <1>3, <1>4
=============================================================================
