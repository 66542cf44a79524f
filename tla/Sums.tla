-------------------------------- MODULE Sums --------------------------------
(***************************************************************************)
(* What the sums of the community modules compute, for every finite set:   *)
(* the volume of a height field and the loss of a lane are such sums.  The *)
(* library defines them by a recursive function on the subsets of a set;   *)
(* each lemma looks at a subset that would be the smallest counterexample. *)
(* LeastNumber is the same for definitions that recurse on the numbers.    *)
(***************************************************************************)
EXTENDS Integers, FiniteSetsExt, FiniteSetTheorems, WellFoundedInduction, TLAPS

(* The sum of f over S, the element the library takes next, and what the   *)
(* library's function on the subsets of S has to satisfy.                  *)
SumOf(f, S) == MapThenSumSet(LAMBDA c : f[c], S)

Chosen(s) == CHOOSE x \in s : TRUE
Adds(g, f, S) ==
  g = [s \in SUBSET S |-> IF s = {} THEN 0 ELSE f[Chosen(s)] + g[s \ {Chosen(s)}]]

LEMMA SumIsAdded ==
  ASSUME NEW f, NEW S
  PROVE  SumOf(f, S) = (CHOOSE g : Adds(g, f, S))[S]
BY DEF SumOf, MapThenSumSet, MapThenFoldSet, Adds, Chosen

LEMMA AddsAt ==
  ASSUME NEW f, NEW S, NEW g, Adds(g, f, S), NEW s \in SUBSET S
  PROVE  /\ s = {} => g[s] = 0
         /\ s # {} => /\ Chosen(s) \in s /\ s \ {Chosen(s)} \in SUBSET S
                      /\ g[s] = f[Chosen(s)] + g[s \ {Chosen(s)}]
BY DEF Adds, Chosen

LEMMA Smallest ==
  ASSUME NEW S, IsFiniteSet(S), NEW T, T \subseteq SUBSET S, T # {}
  PROVE  \E x \in T : \A y \in T : y \subseteq x => y = x
<1>1. IsWellFoundedOn(StrictSubsetOrdering(S), SUBSET S)
  BY FS_StrictSubsetOrderingWellFounded, FS_FiniteSubsetsOfFinite
<1>2. PICK x \in T : \A y \in T : ~ (<<y, x>> \in StrictSubsetOrdering(S))
  BY <1>1, WFMin
<1>3. ASSUME NEW y \in T, y \subseteq x, y # x
      PROVE  <<y, x>> \in StrictSubsetOrdering(S)
  BY <1>3 DEF StrictSubsetOrdering
<1>4. ASSUME NEW y \in T, y \subseteq x PROVE y = x
  BY <1>2, <1>3, <1>4
<1> QED BY <1>4

(* A set of natural numbers has a least one. *)
LEMMA LeastNumber ==
  ASSUME NEW T, T \subseteq Nat, T # {}
  PROVE  \E m \in T : \A k \in T : m <= k
<1> DEFINE R == OpToRel(<, Nat)
<1>1. IsWellFoundedOn(R, Nat)
  BY NatLessThanWellFounded
<1>2. \A x, y \in Nat : <<y, x>> \in R <=> y < x
  BY DEF OpToRel
<1> HIDE DEF R
<1>3. PICK m \in T : \A k \in T : ~ (<<k, m>> \in R)
  BY <1>1, WFMin
<1>4. ASSUME NEW k \in T PROVE m <= k
  <2>1. m \in Nat /\ k \in Nat
    OBVIOUS
  <2>2. ~ (k < m)
    BY <1>2, <1>3, <2>1, Zenon
  <2> QED BY <2>1, <2>2
<1> QED BY <1>4

LEMMA AddsAgree ==
  ASSUME NEW f, NEW S, IsFiniteSet(S), NEW R, R \subseteq S,
         NEW g, Adds(g, f, S), NEW h, Adds(h, f, R)
  PROVE  \A s \in SUBSET R : g[s] = h[s]
<1> DEFINE T == {s \in SUBSET R : g[s] # h[s]}
<1> SUFFICES ASSUME T # {} PROVE FALSE
  OBVIOUS
<1>1. IsFiniteSet(R)
  BY FS_Subset
<1>0. T \subseteq SUBSET R
  OBVIOUS
<1>2. PICK s \in T : \A y \in T : y \subseteq s => y = s
  <2> HIDE DEF T
  <2> QED BY <1>0, <1>1, Smallest
<1>3. s \in SUBSET R /\ s \in SUBSET S /\ g[s] # h[s]
  BY <1>2
<1>4. s # {}
  <2>1. ASSUME s = {} PROVE g[s] = 0
    BY <1>3, <2>1, AddsAt
  <2>2. ASSUME s = {} PROVE h[s] = 0
    BY <1>3, <2>2 DEF Adds
  <2> QED BY <1>3, <2>1, <2>2
<1>5. /\ Chosen(s) \in s
      /\ g[s] = f[Chosen(s)] + g[s \ {Chosen(s)}]
      /\ h[s] = f[Chosen(s)] + h[s \ {Chosen(s)}]
  BY <1>3, <1>4, AddsAt
<1>6. s \ {Chosen(s)} \notin T
  BY <1>2, <1>5
<1>7. g[s \ {Chosen(s)}] = h[s \ {Chosen(s)}]
  BY <1>3, <1>6
<1> QED BY <1>3, <1>5, <1>7

LEMMA AddsExists ==
  ASSUME NEW f, NEW U, IsFiniteSet(U), NEW S \in SUBSET U
  PROVE  \E g : Adds(g, f, S)
<1> DEFINE T == {R \in SUBSET U : ~ \E g : Adds(g, f, R)}
<1> SUFFICES ASSUME T # {} PROVE FALSE
  OBVIOUS
<1>0. T \subseteq SUBSET U
  OBVIOUS
<1>1. PICK R \in T : \A y \in T : y \subseteq R => y = R
  <2> HIDE DEF T
  <2> QED BY <1>0, Smallest
<1>2. R \in SUBSET U /\ ~ \E g : Adds(g, f, R)
  BY <1>1
<1> DEFINE G(s) == CHOOSE g : Adds(g, f, s)
<1>3. ASSUME NEW s, s \subseteq R, s # R PROVE Adds(G(s), f, s)
  <2>1. s \notin T /\ s \in SUBSET U
    BY <1>1, <1>2, <1>3
  <2>2. \E g : Adds(g, f, s)
    BY <2>1
  <2> QED BY <2>2
<1> DEFINE V(s) == G(s)[s]
<1> DEFINE h == [s \in SUBSET R |->
                   IF s = {} THEN 0 ELSE f[Chosen(s)] + V(s \ {Chosen(s)})]
<1>4. ASSUME NEW s \in SUBSET R, s # {} PROVE h[s \ {Chosen(s)}] = V(s \ {Chosen(s)})
  <2> DEFINE r == s \ {Chosen(s)}
  <2>1. Chosen(s) \in s
    BY <1>4 DEF Chosen
  <2>2. r \subseteq R /\ r # R /\ r \in SUBSET R
    BY <2>1
  <2>3. Adds(G(r), f, r) /\ r \in SUBSET r
    BY <1>3, <2>2
  <2> HIDE DEF r, G
  <2>4. CASE r = {}
    <3>1. G(r)[r] = 0
      BY <2>3, <2>4, AddsAt
    <3>2. h[r] = 0
      BY <2>2, <2>4
    <3> QED BY <3>1, <3>2 DEF r
  <2>5. CASE r # {}
    <3> DEFINE q == r \ {Chosen(r)}
    <3>1. Chosen(r) \in r /\ G(r)[r] = f[Chosen(r)] + G(r)[q]
      BY <2>3, <2>5, AddsAt
    <3>2. q \subseteq R /\ q # R /\ q \subseteq r /\ q \in SUBSET q
      BY <2>2, <3>1
    <3>3. h[r] = f[Chosen(r)] + G(q)[q]
      BY <2>2, <2>5
    <3> HIDE DEF q
    <3>4. Adds(G(q), f, q)
      BY <1>3, <3>2
    <3>5. IsFiniteSet(r)
      BY <1>2, <2>2, FS_Subset
    <3>6. \A t \in SUBSET q : G(r)[t] = G(q)[t]
      <4>1. \A a, b : Adds(a, f, r) /\ Adds(b, f, q) => \A t \in SUBSET q : a[t] = b[t]
        BY <3>2, <3>5, AddsAgree
      <4> QED BY <2>3, <3>4, <4>1
    <3>7. G(r)[q] = G(q)[q]
      BY <3>2, <3>6
    <3> QED BY <3>1, <3>3, <3>7 DEF r
  <2> QED BY <2>4, <2>5
<1> HIDE DEF G
<1>5. h = [s \in SUBSET R |-> IF s = {} THEN 0 ELSE f[Chosen(s)] + h[s \ {Chosen(s)}]]
  <2> DEFINE k == [s \in SUBSET R |->
                     IF s = {} THEN 0 ELSE f[Chosen(s)] + h[s \ {Chosen(s)}]]
  <2>1. \A s \in SUBSET R : h[s] = k[s]
    BY <1>4
  <2> QED BY <2>1
<1> QED BY <1>2, <1>5 DEF Adds

(* The sum over the empty set, and over any other by what is chosen first. *)
LEMMA SumUnfolds ==
  ASSUME NEW f, NEW S, IsFiniteSet(S)
  PROVE  /\ S = {} => SumOf(f, S) = 0
         /\ S # {} => /\ Chosen(S) \in S
                      /\ SumOf(f, S) = f[Chosen(S)] + SumOf(f, S \ {Chosen(S)})
<1> DEFINE G(s) == CHOOSE g : Adds(g, f, s)
<1>1. ASSUME NEW s \in SUBSET S PROVE Adds(G(s), f, s) /\ SumOf(f, s) = G(s)[s]
  BY AddsExists, SumIsAdded
<1> HIDE DEF G
<1>2. S \in SUBSET S /\ Adds(G(S), f, S) /\ SumOf(f, S) = G(S)[S]
  BY <1>1
<1>3. CASE S = {}
  BY <1>2, <1>3, AddsAt
<1>4. CASE S # {}
  <2> DEFINE r == S \ {Chosen(S)}
  <2>1. Chosen(S) \in S /\ G(S)[S] = f[Chosen(S)] + G(S)[r]
    BY <1>2, <1>4, AddsAt
  <2>2. r \in SUBSET S /\ r \in SUBSET r
    OBVIOUS
  <2>3. Adds(G(r), f, r) /\ SumOf(f, r) = G(r)[r]
    BY <1>1, <2>2
  <2>4. G(S)[r] = G(r)[r]
    BY <1>2, <2>2, <2>3, AddsAgree
  <2> QED BY <1>2, <1>4, <2>1, <2>3, <2>4
<1> QED BY <1>3, <1>4

(* A sum of integers is an integer, and the order does not matter.         *)
LEMMA SumType ==
  ASSUME NEW U, IsFiniteSet(U), NEW f \in [U -> Int], NEW S \in SUBSET U
  PROVE  SumOf(f, S) \in Int
<1> DEFINE T == {s \in SUBSET U : SumOf(f, s) \notin Int}
<1> SUFFICES ASSUME T # {} PROVE FALSE
  OBVIOUS
<1>0. T \subseteq SUBSET U
  OBVIOUS
<1>1. PICK s \in T : \A y \in T : y \subseteq s => y = s
  <2> HIDE DEF T
  <2> QED BY <1>0, Smallest
<1>2. s \in SUBSET U /\ SumOf(f, s) \notin Int /\ IsFiniteSet(s)
  BY <1>1, FS_Subset
<1>3. s # {}
  <2>1. s = {} => SumOf(f, s) = 0
    BY <1>2, SumUnfolds, Zenon
  <2> QED BY <1>2, <2>1
<1>4. Chosen(s) \in s /\ SumOf(f, s) = f[Chosen(s)] + SumOf(f, s \ {Chosen(s)})
  BY <1>2, <1>3, SumUnfolds
<1>5. s \ {Chosen(s)} \notin T
  BY <1>1, <1>4
<1>6. SumOf(f, s \ {Chosen(s)}) \in Int /\ f[Chosen(s)] \in Int
  BY <1>2, <1>4, <1>5
<1> QED BY <1>2, <1>4, <1>6

LEMMA SumRemove ==
  ASSUME NEW U, IsFiniteSet(U), NEW f \in [U -> Int], NEW S \in SUBSET U, NEW x \in S
  PROVE  SumOf(f, S) = f[x] + SumOf(f, S \ {x})
<1> DEFINE T == {s \in SUBSET U : \E y \in s : SumOf(f, s) # f[y] + SumOf(f, s \ {y})}
<1> SUFFICES ASSUME T # {} PROVE FALSE
  BY Zenon
<1>0. T \subseteq SUBSET U
  OBVIOUS
<1>1. PICK s \in T : \A y \in T : y \subseteq s => y = s
  <2> HIDE DEF T
  <2> QED BY <1>0, Smallest
<1>2. PICK y \in s : SumOf(f, s) # f[y] + SumOf(f, s \ {y})
  BY <1>1
<1>3. s \in SUBSET U /\ s # {} /\ IsFiniteSet(s)
  BY <1>1, <1>2, FS_Subset
<1> DEFINE c == Chosen(s)
<1>4. c \in s /\ SumOf(f, s) = f[c] + SumOf(f, s \ {c})
  BY <1>3, SumUnfolds
<1> HIDE DEF c
<1>5. c # y
  BY <1>2, <1>4
<1> DEFINE r == (s \ {c}) \ {y}
<1>6. SumOf(f, s \ {c}) = f[y] + SumOf(f, r)
  <2>1. s \ {c} \notin T /\ s \ {c} \in SUBSET U /\ y \in s \ {c}
    BY <1>1, <1>3, <1>4, <1>5
  <2> QED BY <2>1, Zenon
<1>7. SumOf(f, s \ {y}) = f[c] + SumOf(f, r)
  <2>1. s \ {y} \notin T /\ s \ {y} \in SUBSET U /\ c \in s \ {y}
    BY <1>1, <1>2, <1>3, <1>4, <1>5
  <2>2. (s \ {y}) \ {c} = r
    OBVIOUS
  <2> HIDE DEF r
  <2>3. SumOf(f, s \ {y}) = f[c] + SumOf(f, (s \ {y}) \ {c})
    BY <2>1, Zenon
  <2> QED BY <2>2, <2>3
<1>8. f[c] \in Int /\ f[y] \in Int /\ SumOf(f, r) \in Int
  <2>1. r \in SUBSET U
    BY <1>3
  <2> QED BY <1>2, <1>3, <1>4, <2>1, SumType
<1> HIDE DEF r
<1> QED BY <1>2, <1>4, <1>6, <1>7, <1>8

(* Sums of functions that agree, and of a function that is two others'     *)
(* sum, value by value.                                                    *)
LEMMA SumAgrees ==
  ASSUME NEW U, IsFiniteSet(U), NEW f, NEW g, \A c \in U : f[c] = g[c]
  PROVE  SumOf(f, U) = SumOf(g, U)
<1> DEFINE T == {s \in SUBSET U : SumOf(f, s) # SumOf(g, s)}
<1> SUFFICES ASSUME T # {} PROVE FALSE
  OBVIOUS
<1>0. T \subseteq SUBSET U
  OBVIOUS
<1>1. PICK s \in T : \A y \in T : y \subseteq s => y = s
  <2> HIDE DEF T
  <2> QED BY <1>0, Smallest
<1>2. s \in SUBSET U /\ SumOf(f, s) # SumOf(g, s) /\ IsFiniteSet(s)
  BY <1>1, FS_Subset
<1>3. ASSUME s = {} PROVE SumOf(f, s) = 0 /\ SumOf(g, s) = 0
  BY <1>2, <1>3, SumUnfolds
<1>4. s # {}
  BY <1>2, <1>3
<1> DEFINE c == Chosen(s)
<1>5. /\ c \in s
      /\ SumOf(f, s) = f[c] + SumOf(f, s \ {c})
      /\ SumOf(g, s) = g[c] + SumOf(g, s \ {c})
  BY <1>2, <1>4, SumUnfolds
<1> HIDE DEF c
<1>6. s \ {c} \notin T /\ s \ {c} \in SUBSET U
  BY <1>1, <1>2, <1>5
<1>7. SumOf(f, s \ {c}) = SumOf(g, s \ {c})
  BY <1>6
<1>8. f[c] = g[c]
  BY <1>2, <1>5
<1> QED BY <1>2, <1>5, <1>7, <1>8

LEMMA SumSplits ==
  ASSUME NEW U, IsFiniteSet(U),
         NEW f \in [U -> Int], NEW g \in [U -> Int], NEW h \in [U -> Int],
         \A c \in U : f[c] = g[c] + h[c]
  PROVE  SumOf(f, U) = SumOf(g, U) + SumOf(h, U)
<1> DEFINE T == {s \in SUBSET U : SumOf(f, s) # SumOf(g, s) + SumOf(h, s)}
<1> SUFFICES ASSUME T # {} PROVE FALSE
  OBVIOUS
<1>0. T \subseteq SUBSET U
  OBVIOUS
<1>1. PICK s \in T : \A y \in T : y \subseteq s => y = s
  <2> HIDE DEF T
  <2> QED BY <1>0, Smallest
<1>2. s \in SUBSET U /\ SumOf(f, s) # SumOf(g, s) + SumOf(h, s) /\ IsFiniteSet(s)
  BY <1>1, FS_Subset
<1>3. ASSUME s = {} PROVE SumOf(f, s) = 0 /\ SumOf(g, s) = 0 /\ SumOf(h, s) = 0
  BY <1>2, <1>3, SumUnfolds
<1>4. s # {}
  BY <1>2, <1>3
<1> DEFINE c == Chosen(s)
<1>5. /\ c \in s
      /\ SumOf(f, s) = f[c] + SumOf(f, s \ {c})
      /\ SumOf(g, s) = g[c] + SumOf(g, s \ {c})
      /\ SumOf(h, s) = h[c] + SumOf(h, s \ {c})
  BY <1>2, <1>4, SumUnfolds
<1> HIDE DEF c
<1>6. s \ {c} \notin T /\ s \ {c} \in SUBSET U
  BY <1>1, <1>2, <1>5
<1>7. SumOf(f, s \ {c}) = SumOf(g, s \ {c}) + SumOf(h, s \ {c})
  BY <1>6
<1>8. /\ f[c] = g[c] + h[c] /\ g[c] \in Int /\ h[c] \in Int
      /\ SumOf(g, s \ {c}) \in Int /\ SumOf(h, s \ {c}) \in Int
  BY <1>2, <1>5, <1>6, SumType
<1> QED BY <1>2, <1>5, <1>7, <1>8

LEMMA SumIsNat ==
  ASSUME NEW U, IsFiniteSet(U), NEW f \in [U -> Nat]
  PROVE  SumOf(f, U) \in Nat
<1> DEFINE T == {s \in SUBSET U : SumOf(f, s) \notin Nat}
<1> SUFFICES ASSUME T # {} PROVE FALSE
  OBVIOUS
<1>0. T \subseteq SUBSET U
  OBVIOUS
<1>1. PICK s \in T : \A y \in T : y \subseteq s => y = s
  <2> HIDE DEF T
  <2> QED BY <1>0, Smallest
<1>2. s \in SUBSET U /\ SumOf(f, s) \notin Nat /\ IsFiniteSet(s)
  BY <1>1, FS_Subset
<1>3. ASSUME s = {} PROVE SumOf(f, s) = 0
  BY <1>2, <1>3, SumUnfolds
<1>4. s # {}
  BY <1>2, <1>3
<1>5. Chosen(s) \in s /\ SumOf(f, s) = f[Chosen(s)] + SumOf(f, s \ {Chosen(s)})
  BY <1>2, <1>4, SumUnfolds
<1>6. s \ {Chosen(s)} \notin T
  BY <1>1, <1>5
<1>7. SumOf(f, s \ {Chosen(s)}) \in Nat /\ f[Chosen(s)] \in Nat
  BY <1>2, <1>5, <1>6
<1> QED BY <1>2, <1>5, <1>7

(* The same number at every place. *)
LEMMA SumOfSame ==
  ASSUME NEW U, IsFiniteSet(U), NEW v
  PROVE  MapThenSumSet(LAMBDA c : v, U) = SumOf([c \in U |-> v], U)
<1> DEFINE f == [c \in U |-> v]
<1> DEFINE Same(g) ==
      g = [s \in SUBSET U |-> IF s = {} THEN 0 ELSE v + g[s \ {Chosen(s)}]]
<1>1. MapThenSumSet(LAMBDA c : v, U) = (CHOOSE g : Same(g))[U]
  BY DEF MapThenSumSet, MapThenFoldSet, Chosen
<1>2. ASSUME NEW g PROVE Same(g) <=> Adds(g, f, U)
  <2>1. \A s \in SUBSET U : s # {} => f[Chosen(s)] = v
    BY DEF Chosen
  <2> DEFINE a == [s \in SUBSET U |-> IF s = {} THEN 0 ELSE v + g[s \ {Chosen(s)}]]
  <2> DEFINE b == [s \in SUBSET U |->
                     IF s = {} THEN 0 ELSE f[Chosen(s)] + g[s \ {Chosen(s)}]]
  <2> HIDE DEF f
  <2>2. a = b
    BY <2>1
  <2>3. Adds(g, f, U) <=> g = b
    BY DEF Adds
  <2> QED BY <2>2, <2>3
<1> HIDE DEF f
<1>3. U \in SUBSET U /\ \E g : Adds(g, f, U)
  BY AddsExists
<1>4. Same(CHOOSE g : Same(g))
  BY <1>2, <1>3
<1> DEFINE a == CHOOSE g : Same(g)
<1> DEFINE b == CHOOSE g : Adds(g, f, U)
<1>5. Adds(a, f, U) /\ Adds(b, f, U)
  BY <1>2, <1>3, <1>4
<1>6. SumOf(f, U) = b[U]
  BY SumIsAdded
<1> HIDE DEF a, b, Same
<1>7. \A s \in SUBSET U : a[s] = b[s]
  BY <1>5, AddsAgree
<1> QED BY <1>1, <1>3, <1>6, <1>7 DEF a, f

(* One place changes, or joins or leaves the places that are summed.       *)
LEMMA SumChanges ==
  ASSUME NEW U, IsFiniteSet(U), NEW f \in [U -> Int], NEW g \in [U -> Int],
         NEW S \in SUBSET U, NEW x \in S, \A c \in S \ {x} : f[c] = g[c]
  PROVE  SumOf(g, S) - g[x] = SumOf(f, S) - f[x]
<1>1. SumOf(f, S) = f[x] + SumOf(f, S \ {x}) /\ SumOf(g, S) = g[x] + SumOf(g, S \ {x})
  BY SumRemove
<1>2. IsFiniteSet(S \ {x})
  BY FS_Subset
<1>3. SumOf(f, S \ {x}) = SumOf(g, S \ {x})
  BY <1>2, SumAgrees
<1>4. SumOf(f, S \ {x}) \in Int /\ f[x] \in Int /\ g[x] \in Int
  BY SumType
<1> QED BY <1>1, <1>3, <1>4
=============================================================================
