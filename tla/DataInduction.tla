--------------------------- MODULE DataInduction ---------------------------
(***************************************************************************)
(* Lemmas on what the models compute with: the least member of a set of    *)
(* numbers, sums over finite sets, and values computed along the parents   *)
(* of a tree.  The induction theorems of the library take an operator as a *)
(* parameter, so induction is written here as the search for a least       *)
(* counterexample, whose statement has none.                               *)
(***************************************************************************)
EXTENDS FiniteSetsExt, FiniteSetTheorems, TLAPS

\* A set of natural numbers has a least member.
LEMMA LeastNat ==
    ASSUME NEW T \in SUBSET Nat, T # {}
    PROVE  \E n \in T : \A m \in T : n <= m
  <1>1. PICK n \in T : \A m \in T : ~(<<m, n>> \in OpToRel(<, Nat))
    BY NatLessThanWellFounded, WFMin, Zenon
  <1>2. ASSUME NEW m \in T PROVE n <= m
    <2>1. m \in Nat /\ n \in Nat
      OBVIOUS
    <2>2. m < n => <<m, n>> \in OpToRel(<, Nat)
      BY <2>1, Zenon DEF OpToRel
    <2>3. ~(m < n)
      BY <1>1, <2>2, Zenon
    <2>4. QED
      BY <2>1, <2>3
  <1>3. QED
    BY <1>2

\* A bounded set of natural numbers has a maximum, which Max finds.
LEMMA MaxOfBounded ==
    ASSUME NEW S \in SUBSET Nat, S # {}, NEW b \in Nat, \A n \in S : n <= b
    PROVE  Max(S) \in S /\ \A n \in S : n <= Max(S)
  <1> DEFINE above == {c \in Nat : \A n \in S : n <= c}
  <1>1. PICK c \in above : \A d \in above : c <= d
    <2>1. above \in SUBSET Nat /\ above # {}
      OBVIOUS
    <2>2. QED
      BY <2>1, LeastNat, Zenon
  <1>2. c \in S
    <2> SUFFICES ASSUME c \notin S PROVE FALSE
      OBVIOUS
    <2>1. \A n \in S : n <= c - 1
      OBVIOUS
    <2>2. c - 1 \in above
      <3>1. PICK n \in S : TRUE
        BY Zenon
      <3>2. c - 1 \in Nat
        BY <2>1, <3>1
      <3>3. QED
        BY <2>1, <3>2
    <2>3. QED
      BY <1>1, <2>2
  <1>3. QED
    BY <1>2, Zenon DEF Max

\* Finitely many natural numbers are bounded.
LEMMA FiniteBounded ==
    ASSUME NEW n \in Nat, NEW w \in [1 .. n -> Nat]
    PROVE  \E b \in Nat : \A i \in 1 .. n : w[i] <= b
  <1> DEFINE Fits(m) == \E b \in Nat : \A i \in 1 .. m : w[i] <= b
             misfits == {m \in 0 .. n : ~Fits(m)}
  <1>1. Fits(0)
    <2>1. \A i \in 1 .. 0 : w[i] <= 0
      OBVIOUS
    <2>2. QED
      BY <2>1
  <1>2. ASSUME NEW m \in 1 .. n, Fits(m - 1) PROVE Fits(m)
    <2>1. PICK b \in Nat : \A i \in 1 .. m - 1 : w[i] <= b
      BY <1>2
    <2>2. w[m] \in Nat
      OBVIOUS
    <2>3. b + w[m] \in Nat
      BY <2>2
    <2>4. ASSUME NEW i \in 1 .. m PROVE w[i] <= b + w[m]
      <3>1. w[i] \in Nat /\ (i = m \/ i \in 1 .. m - 1)
        OBVIOUS
      <3>2. QED
        BY <2>1, <2>2, <3>1
    <2>5. QED
      BY <2>3, <2>4
  <1> HIDE DEF Fits
  <1>3. misfits = {}
    <2> SUFFICES ASSUME misfits # {} PROVE FALSE
      OBVIOUS
    <2>1. misfits \in SUBSET Nat
      OBVIOUS
    <2>2. PICK m \in misfits : \A k \in misfits : m <= k
      <3> HIDE DEF misfits
      <3> QED
        BY <2>1, LeastNat
    <2>3. m \in 1 .. n
      BY <1>1
    <2>4. m - 1 \in 0 .. n /\ m - 1 \notin misfits
      BY <2>2, <2>3
    <2>5. QED
      BY <1>2, <2>3, <2>4
  <1>4. Fits(n)
    BY <1>3
  <1>5. QED
    BY <1>4 DEF Fits

-----------------------------------------------------------------------------
(* Sums over finite sets *)


\* The sum of w over a finite set, as the modules write it.
SumOf(w, S) == MapThenSumSet(LAMBDA x : w[x], S)

\* The element that the sum takes next.
Pick(s) == CHOOSE x \in s : TRUE

\* The function that the sum folds over the subsets of S.
Fold(w, S) == CHOOSE f : f = [s \in SUBSET S |-> IF s = {} THEN 0 ELSE w[Pick(s)] + f[s \ {Pick(s)}]]

\* The sum is that function at the set.
LEMMA SumIsFold == ASSUME NEW w, NEW S PROVE SumOf(w, S) = Fold(w, S)[S]
  BY DEF SumOf, MapThenSumSet, MapThenFoldSet, Fold, Pick

\* What the fold computes from a function on smaller sets.
Rule(w, f, s) == IF s = {} THEN 0 ELSE w[Pick(s)] + f[s \ {Pick(s)}]

\* The subsets of S of at most n elements.
UpTo(S, n) == {s \in SUBSET S : Cardinality(s) <= n}

\* There is an element to take.
LEMMA PickIn == ASSUME NEW s, s # {} PROVE Pick(s) \in s
  BY DEF Pick

\* Removing the picked element leaves a smaller finite set.
LEMMA FewerLeft ==
    ASSUME NEW S, IsFiniteSet(S), NEW s \in SUBSET S, NEW x \in s
    PROVE  /\ IsFiniteSet(s) /\ Cardinality(s) \in Nat /\ Cardinality(s) # 0
           /\ s \ {x} \in SUBSET S /\ IsFiniteSet(s \ {x})
           /\ Cardinality(s \ {x}) = Cardinality(s) - 1
  <1>1. IsFiniteSet(s)
    BY FS_Subset
  <1>2. Cardinality(s) \in Nat
    BY <1>1, FS_CardinalityType
  <1>3. IsFiniteSet(s \ {x}) /\ Cardinality(s \ {x}) = Cardinality(s) - 1
    BY <1>1, FS_RemoveElement
  <1>4. Cardinality(s \ {x}) \in Nat
    BY <1>3, FS_CardinalityType
  <1>5. QED
    BY <1>1, <1>2, <1>3, <1>4

\* The rule has a solution on the subsets of at most n elements, for each n.
LEMMA FoldExists ==
    ASSUME NEW w, NEW S, IsFiniteSet(S), NEW n \in Nat
    PROVE  \E f : f = [s \in UpTo(S, n) |-> Rule(w, f, s)]
  <1> DEFINE Has(m) == \E f : f = [s \in UpTo(S, m) |-> Rule(w, f, s)]
             lacks == {m \in Nat : ~Has(m)}
  <1>1. Has(0)
    <2>1. \A s \in UpTo(S, 0) : s = {}
      <3> SUFFICES ASSUME NEW s \in UpTo(S, 0), s # {} PROVE FALSE
        OBVIOUS
      <3>1. Pick(s) \in s /\ s \in SUBSET S /\ Cardinality(s) <= 0
        BY PickIn DEF UpTo
      <3>2. Cardinality(s) \in Nat /\ Cardinality(s) # 0
        BY <3>1, FewerLeft, Zenon
      <3>3. QED
        BY <3>1, <3>2
    <2> DEFINE f == [s \in UpTo(S, 0) |-> 0]
    <2>2. \A s \in UpTo(S, 0) : Rule(w, f, s) = 0
      BY <2>1 DEF Rule
    <2>3. f = [s \in UpTo(S, 0) |-> Rule(w, f, s)]
      BY <2>2
    <2>4. QED
      BY <2>3
  <1>2. ASSUME NEW m \in Nat, Has(m) PROVE Has(m + 1)
    <2>1. PICK f : f = [s \in UpTo(S, m) |-> Rule(w, f, s)]
      BY <1>2
    <2> DEFINE g == [s \in UpTo(S, m + 1) |-> Rule(w, f, s)]
    <2>2. ASSUME NEW s \in UpTo(S, m + 1) PROVE Rule(w, g, s) = Rule(w, f, s)
      <3>1. CASE s = {}
        BY <3>1 DEF Rule
      <3>2. CASE s # {}
        <4> DEFINE t == s \ {Pick(s)}
        <4>1. Pick(s) \in s /\ s \in SUBSET S /\ Cardinality(s) <= m + 1
          BY <3>2, PickIn DEF UpTo
        <4>2. t \in SUBSET S /\ Cardinality(t) = Cardinality(s) - 1 /\ Cardinality(s) \in Nat
          BY <4>1, FewerLeft, Zenon
        <4> HIDE DEF t
        <4>3. t \in UpTo(S, m) /\ t \in UpTo(S, m + 1)
          BY <4>1, <4>2 DEF UpTo
        <4>4. f[t] = Rule(w, f, t)
          BY <2>1, <4>3
        <4>5. g[t] = Rule(w, f, t)
          BY <4>3
        <4>6. QED
          BY <3>2, <4>4, <4>5 DEF Rule, t
      <3>3. QED
        BY <3>1, <3>2
    <2>3. g = [s \in UpTo(S, m + 1) |-> Rule(w, g, s)]
      BY <2>2
    <2>4. QED
      BY <2>3, Zenon
  <1> HIDE DEF Has
  <1>3. lacks = {}
    <2> SUFFICES ASSUME lacks # {} PROVE FALSE
      OBVIOUS
    <2>1. PICK m \in lacks : \A k \in lacks : m <= k
      BY LeastNat, Zenon
    <2>2. m # 0 /\ m \in Nat
      BY <1>1
    <2>3. m - 1 \in Nat /\ m - 1 \notin lacks /\ (m - 1) + 1 = m
      BY <2>1, <2>2
    <2>4. QED
      BY <1>2, <2>2, <2>3
  <1>4. Has(n)
    BY <1>3
  <1>5. QED
    BY <1>4 DEF Has

\* So the fold satisfies its rule on every subset of a finite set.
LEMMA FoldRule ==
    ASSUME NEW w, NEW S, IsFiniteSet(S)
    PROVE  \A s \in SUBSET S : Fold(w, S)[s] = Rule(w, Fold(w, S), s)
  <1>1. Cardinality(S) \in Nat
    BY FS_CardinalityType
  <1>2. UpTo(S, Cardinality(S)) = SUBSET S
    BY FS_Subset DEF UpTo
  <1>3. \E f : f = [s \in SUBSET S |-> Rule(w, f, s)]
    <2>1. PICK f : f = [s \in UpTo(S, Cardinality(S)) |-> Rule(w, f, s)]
      BY <1>1, FoldExists
    <2>2. f = [s \in SUBSET S |-> Rule(w, f, s)]
      BY <1>2, <2>1
    <2>3. QED
      BY <2>2
  <1>4. Fold(w, S) = CHOOSE f : f = [s \in SUBSET S |-> Rule(w, f, s)]
    BY DEF Fold, Rule
  <1>5. Fold(w, S) = [s \in SUBSET S |-> Rule(w, Fold(w, S), s)]
    BY <1>3, <1>4
  <1>6. QED
    BY <1>5

\* A set of subsets of a finite set that is not empty has a smallest one.
LEMMA SmallestSubset ==
    ASSUME NEW S, IsFiniteSet(S), NEW B \in SUBSET (SUBSET S), B # {}
    PROVE  \E s \in B : \A t \in B : t \subseteq s => t = s
  <1> DEFINE sizes == {Cardinality(s) : s \in B}
  <1>1. \A s \in B : IsFiniteSet(s) /\ Cardinality(s) \in Nat
    BY FS_Subset, FS_CardinalityType
  <1>2. sizes \in SUBSET Nat /\ sizes # {}
    BY <1>1
  <1>3. PICK n \in sizes : \A m \in sizes : n <= m
    <2> HIDE DEF sizes
    <2> QED
      BY <1>2, LeastNat
  <1>4. PICK s \in B : n = Cardinality(s)
    OBVIOUS
  <1>5. ASSUME NEW t \in B, t \subseteq s PROVE t = s
    <2>1. Cardinality(s) <= Cardinality(t)
      BY <1>3, <1>4
    <2>2. Cardinality(t) <= Cardinality(s) /\ (Cardinality(s) = Cardinality(t) => s = t)
      BY <1>1, <1>5, FS_Subset
    <2>3. QED
      BY <1>1, <2>1, <2>2
  <1>6. QED
    BY <1>5

\* The fold over S, at a subset T, is the sum over T.
LEMMA FoldAtSubset ==
    ASSUME NEW w, NEW S, IsFiniteSet(S), NEW T \in SUBSET S
    PROVE  Fold(w, S)[T] = SumOf(w, T)
  <1> DEFINE differ == {s \in SUBSET T : Fold(w, S)[s] # Fold(w, T)[s]}
  <1>1. IsFiniteSet(T)
    BY FS_Subset
  <1>2. differ = {}
    <2> SUFFICES ASSUME differ # {} PROVE FALSE
      OBVIOUS
    <2>1. PICK s \in differ : \A t \in differ : t \subseteq s => t = s
      <3>1. differ \in SUBSET (SUBSET T)
        OBVIOUS
      <3> HIDE DEF differ
      <3> QED
        BY <1>1, <3>1, SmallestSubset
    <2>2. /\ Fold(w, S)[s] = Rule(w, Fold(w, S), s)
          /\ Fold(w, T)[s] = Rule(w, Fold(w, T), s)
      BY <1>1, FoldRule
    <2>3. s # {}
      BY <2>1, <2>2 DEF Rule
    <2>4. Pick(s) \in s /\ s \ {Pick(s)} \in SUBSET T
      BY <2>1, <2>3, PickIn
    <2>5. Fold(w, S)[s \ {Pick(s)}] = Fold(w, T)[s \ {Pick(s)}]
      BY <2>1, <2>4
    <2>6. QED
      BY <2>1, <2>2, <2>3, <2>5 DEF Rule
  <1>3. QED
    BY <1>2, SumIsFold

\* The sum over the empty set.
LEMMA SumEmpty == ASSUME NEW w PROVE SumOf(w, {}) = 0
  <1>1. IsFiniteSet({})
    BY FS_EmptySet
  <1>2. QED
    BY <1>1, FoldRule, SumIsFold DEF Rule

\* The sum takes one element after the other.
LEMMA SumPick ==
    ASSUME NEW w, NEW S, IsFiniteSet(S), S # {}
    PROVE  SumOf(w, S) = w[Pick(S)] + SumOf(w, S \ {Pick(S)})
  <1>1. Fold(w, S)[S] = w[Pick(S)] + Fold(w, S)[S \ {Pick(S)}]
    BY FoldRule DEF Rule
  <1>2. Fold(w, S)[S \ {Pick(S)}] = SumOf(w, S \ {Pick(S)})
    BY FoldAtSubset
  <1>3. QED
    BY <1>1, <1>2, SumIsFold

\* The sum is an integer, and does not depend on which element comes first.
LEMMA SumRemove ==
    ASSUME NEW S, IsFiniteSet(S), NEW w, \A x \in S : w[x] \in Int
    PROVE  /\ SumOf(w, S) \in Int
           /\ \A x \in S : SumOf(w, S) = w[x] + SumOf(w, S \ {x})
  <1> DEFINE Good(s) == /\ SumOf(w, s) \in Int
                        /\ \A x \in s : SumOf(w, s) = w[x] + SumOf(w, s \ {x})
             bad == {s \in SUBSET S : ~Good(s)}
  <1>1. \A s \in SUBSET S : IsFiniteSet(s) /\ Cardinality(s) \in Nat
    BY FS_Subset, FS_CardinalityType
  <1>2. Good({})
    BY SumEmpty
  <1>3. ASSUME NEW s \in SUBSET S, s # {}, \A t \in SUBSET s : t # s => Good(t)
        PROVE  Good(s)
    <2> DEFINE c == Pick(s)
    <2>1. c \in s /\ w[c] \in Int
      BY <1>3, PickIn
    <2>2. SumOf(w, s) = w[c] + SumOf(w, s \ {c})
      BY <1>1, <1>3, SumPick
    <2> HIDE DEF c
    <2>3. SumOf(w, s \ {c}) \in Int
      BY <1>3, <2>1
    <2>4. ASSUME NEW x \in s PROVE SumOf(w, s) = w[x] + SumOf(w, s \ {x})
      <3>1. CASE x = c
        BY <2>2, <3>1
      <3>2. CASE x # c
        <4> DEFINE t == (s \ {c}) \ {x}
        <4>1. SumOf(w, s \ {c}) = w[x] + SumOf(w, t)
          BY <1>3, <2>1, <3>2
        <4>2. t = (s \ {x}) \ {c}
          OBVIOUS
        <4>3. SumOf(w, s \ {x}) = w[c] + SumOf(w, (s \ {x}) \ {c})
          BY <1>3, <2>1, <3>2
        <4>4. SumOf(w, s \ {x}) = w[c] + SumOf(w, t)
          BY <4>2, <4>3
        <4>5. SumOf(w, t) \in Int
          BY <1>3, <2>1
        <4>6. w[x] \in Int
          OBVIOUS
        <4> HIDE DEF t
        <4>7. QED
          BY <2>1, <2>2, <4>1, <4>4, <4>5, <4>6
      <3>3. QED
        BY <3>1, <3>2
    <2>5. QED
      BY <2>1, <2>2, <2>3, <2>4
  <1> HIDE DEF Good
  <1>4. bad = {}
    <2> SUFFICES ASSUME bad # {} PROVE FALSE
      OBVIOUS
    <2>1. PICK s \in bad : \A t \in bad : t \subseteq s => t = s
      <3>1. bad \in SUBSET (SUBSET S)
        OBVIOUS
      <3> HIDE DEF bad
      <3> QED
        BY <3>1, SmallestSubset
    <2>2. QED
      BY <1>2, <1>3, <2>1, Zenon
  <1>5. QED
    BY <1>4 DEF Good

\* Two functions that agree on a set have the same sum over it.
LEMMA SumEqual ==
    ASSUME NEW S, IsFiniteSet(S), NEW v, NEW w, \A x \in S : v[x] = w[x]
    PROVE  SumOf(v, S) = SumOf(w, S)
  <1> DEFINE differ == {s \in SUBSET S : SumOf(v, s) # SumOf(w, s)}
  <1>1. differ = {}
    <2> SUFFICES ASSUME differ # {} PROVE FALSE
      OBVIOUS
    <2>1. PICK s \in differ : \A t \in differ : t \subseteq s => t = s
      <3>1. differ \in SUBSET (SUBSET S)
        OBVIOUS
      <3> HIDE DEF differ
      <3> QED
        BY <3>1, SmallestSubset
    <2>2. s # {} /\ IsFiniteSet(s)
      BY SumEmpty, FS_Subset, Zenon
    <2>3. Pick(s) \in s
      BY <2>2, PickIn
    <2>4. /\ SumOf(v, s) = v[Pick(s)] + SumOf(v, s \ {Pick(s)})
          /\ SumOf(w, s) = w[Pick(s)] + SumOf(w, s \ {Pick(s)})
      BY <2>2, SumPick
    <2>5. SumOf(v, s \ {Pick(s)}) = SumOf(w, s \ {Pick(s)})
      BY <2>1, <2>3
    <2>6. QED
      BY <2>1, <2>3, <2>4, <2>5
  <1>2. QED
    BY <1>1

\* Adding an element adds its value.
LEMMA SumAdd ==
    ASSUME NEW S, IsFiniteSet(S), NEW x, x \notin S, NEW w, \A y \in S \cup {x} : w[y] \in Int
    PROVE  SumOf(w, S \cup {x}) = w[x] + SumOf(w, S)
  <1>1. IsFiniteSet(S \cup {x})
    BY FS_AddElement
  <1>2. (S \cup {x}) \ {x} = S
    OBVIOUS
  <1>3. SumOf(w, S \cup {x}) = w[x] + SumOf(w, (S \cup {x}) \ {x})
    BY <1>1, SumRemove
  <1>4. QED
    BY <1>2, <1>3

\* Changing one value changes the sum by the difference.
LEMMA SumChange ==
    ASSUME NEW S, IsFiniteSet(S), NEW x \in S, NEW w, NEW v,
           \A y \in S : w[y] \in Int /\ v[y] \in Int,
           \A y \in S \ {x} : v[y] = w[y]
    PROVE  SumOf(v, S) = SumOf(w, S) + v[x] - w[x]
  <1>1. SumOf(w, S) = w[x] + SumOf(w, S \ {x}) /\ SumOf(v, S) = v[x] + SumOf(v, S \ {x})
    BY SumRemove
  <1>2. IsFiniteSet(S \ {x})
    BY FS_Subset
  <1>3. SumOf(v, S \ {x}) = SumOf(w, S \ {x})
    BY <1>2, SumEqual
  <1>4. SumOf(w, S \ {x}) \in Int
    BY <1>2, SumRemove
  <1>5. w[x] \in Int /\ v[x] \in Int
    OBVIOUS
  <1>6. QED
    BY <1>1, <1>3, <1>4, <1>5

\* The sum over a subset of natural numbers is no more than the whole.
LEMMA SumSubset ==
    ASSUME NEW S, IsFiniteSet(S), NEW w, \A x \in S : w[x] \in Nat, NEW T \in SUBSET S
    PROVE  SumOf(w, T) \in Nat /\ SumOf(w, S) \in Nat /\ SumOf(w, T) <= SumOf(w, S)
  <1>1. ASSUME NEW s \in SUBSET S PROVE IsFiniteSet(s) /\ SumOf(w, s) \in Int
    <2>1. IsFiniteSet(s)
      BY FS_Subset
    <2>2. \A x \in s : w[x] \in Int
      OBVIOUS
    <2>3. QED
      BY <2>1, <2>2, SumRemove
  <1> DEFINE less == {s \in SUBSET S : SumOf(w, s) < 0}
             more == {s \in SUBSET S : T \subseteq s /\ SumOf(w, s) < SumOf(w, T)}
  <1>2. less = {}
    <2> SUFFICES ASSUME less # {} PROVE FALSE
      OBVIOUS
    <2>1. PICK s \in less : \A t \in less : t \subseteq s => t = s
      <3>1. less \in SUBSET (SUBSET S)
        OBVIOUS
      <3> HIDE DEF less
      <3> QED
        BY <3>1, SmallestSubset
    <2>2. s # {} /\ IsFiniteSet(s)
      BY <1>1, SumEmpty
    <2>3. PICK x \in s : TRUE
      BY <2>2
    <2>4. SumOf(w, s) = w[x] + SumOf(w, s \ {x}) /\ w[x] \in Nat
      BY <2>2, SumRemove
    <2>5. SumOf(w, s \ {x}) \in Int /\ ~(SumOf(w, s \ {x}) < 0)
      BY <1>1, <2>1
    <2>6. QED
      BY <2>1, <2>4, <2>5
  <1>3. more = {}
    <2> SUFFICES ASSUME more # {} PROVE FALSE
      OBVIOUS
    <2>1. PICK s \in more : \A t \in more : t \subseteq s => t = s
      <3>1. more \in SUBSET (SUBSET S)
        OBVIOUS
      <3> HIDE DEF more
      <3> QED
        BY <3>1, SmallestSubset
    <2>2. SumOf(w, T) \in Int /\ IsFiniteSet(s)
      BY <1>1
    <2>3. PICK x \in s : x \notin T
      BY <2>2
    <2>4. SumOf(w, s) = w[x] + SumOf(w, s \ {x}) /\ w[x] \in Nat
      BY <2>2, SumRemove
    <2>5. SumOf(w, s \ {x}) \in Int /\ ~(SumOf(w, s \ {x}) < SumOf(w, T))
      BY <1>1, <2>1, <2>3
    <2>6. QED
      BY <2>1, <2>2, <2>4, <2>5
  <1>4. QED
    BY <1>1, <1>2, <1>3

-----------------------------------------------------------------------------
(* Values computed along the parents of a tree *)

\* The members of S of a height under n.
Low(S, h, n) == {t \in S : h[t] < n}

\* f is computed from the parents' values, on the members of T: a root has its
\* value, and step gives the value of another from its parent's.
Computed(f, T, par, roots, value, step) ==
    \A t \in T : f[t] = IF t \in roots THEN value[t] ELSE step[<<t, f[par[t]]>>]

\* A tree: whatever is not a root has a parent of a lower height.
Tree(S, h, par, roots) ==
    /\ h \in [S -> Nat]
    /\ \A t \in S \ roots : par[t] \in S /\ h[par[t]] < h[t]

\* Up to each height the values can be computed ...
LEMMA TreeBelow ==
    ASSUME NEW S, NEW h, NEW par, NEW roots, Tree(S, h, par, roots),
           NEW V, NEW value \in [S -> V], NEW step \in [S \X V -> V], NEW n \in Nat
    PROVE  \E f \in [Low(S, h, n) -> V] : Computed(f, Low(S, h, n), par, roots, value, step)
<1> DEFINE L(m) == Low(S, h, m)
           Has(m) == \E f \in [L(m) -> V] : Computed(f, L(m), par, roots, value, step)
           lacks == {m \in Nat : ~Has(m)}
<1>1. Has(0)
  <2>1. L(0) = {}
    BY DEF Low, Tree
  <2> DEFINE f == [t \in L(0) |-> value[t]]
  <2>2. f \in [L(0) -> V] /\ Computed(f, L(0), par, roots, value, step)
    BY <2>1 DEF Computed
  <2> QED
    BY <2>2
<1>2. ASSUME NEW m \in Nat, Has(m) PROVE Has(m + 1)
  <2>1. PICK f \in [L(m) -> V] : Computed(f, L(m), par, roots, value, step)
    BY <1>2
  <2> DEFINE g == [t \in L(m + 1) |-> IF t \in roots THEN value[t] ELSE step[<<t, f[par[t]]>>]]
  <2>2. ASSUME NEW t \in L(m + 1) PROVE t \in S /\ (t \notin roots => par[t] \in L(m) /\ par[t] \in L(m + 1))
    <3>1. t \in S /\ h[t] \in Nat /\ h[t] < m + 1
      BY DEF Low, Tree
    <3>2. CASE t \notin roots
      <4>1. par[t] \in S /\ h[par[t]] < h[t] /\ h[par[t]] \in Nat
        BY <3>1, <3>2 DEF Tree
      <4>2. h[par[t]] < m /\ h[par[t]] < m + 1
        BY <3>1, <4>1
      <4> QED
        BY <3>1, <4>1, <4>2 DEF Low
    <3> QED
      BY <3>1, <3>2
  <2>3. g \in [L(m + 1) -> V]
    <3>1. ASSUME NEW t \in L(m + 1) PROVE g[t] \in V
      <4> HIDE DEF L
      <4>1. CASE t \in roots
        BY <2>2, <4>1
      <4>2. CASE t \notin roots
        <5>1. f[par[t]] \in V /\ t \in S
          BY <2>1, <2>2, <4>2
        <5> QED
          BY <4>2, <5>1
      <4> QED
        BY <4>1, <4>2
    <3> HIDE DEF L
    <3> QED
      BY <3>1
  <2>4. ASSUME NEW t \in L(m) PROVE g[t] = f[t]
    <3>1. t \in L(m + 1)
      BY DEF Low, Tree
    <3> HIDE DEF L
    <3> QED
      BY <2>1, <3>1 DEF Computed
  <2>5. Computed(g, L(m + 1), par, roots, value, step)
    <3> SUFFICES ASSUME NEW t \in L(m + 1)
                 PROVE  g[t] = IF t \in roots THEN value[t] ELSE step[<<t, g[par[t]]>>]
      BY SMTT(30) DEF Computed
    <3> HIDE DEF L
    <3>1. CASE t \in roots
      BY <3>1
    <3>2. CASE t \notin roots
      <4>1. g[par[t]] = f[par[t]]
        BY <2>2, <2>4, <3>2
      <4>2. g[t] = step[<<t, f[par[t]]>>]
        BY <3>2
      <4> HIDE DEF g
      <4> QED
        BY <3>2, <4>1, <4>2
    <3> QED
      BY <3>1, <3>2
  <2> HIDE DEF g
  <2> QED
    BY <2>3, <2>5
<1> HIDE DEF Has
<1>3. lacks = {}
  <2> SUFFICES ASSUME lacks # {} PROVE FALSE
    OBVIOUS
  <2>1. PICK m \in lacks : \A k \in lacks : m <= k
    BY LeastNat, Zenon
  <2>2. m # 0 /\ m \in Nat
    BY <1>1
  <2>3. m - 1 \in Nat /\ m - 1 \notin lacks /\ (m - 1) + 1 = m
    BY <2>1, <2>2
  <2> QED
    BY <1>2, <2>2, <2>3
<1>4. Has(n)
  BY <1>3
<1> QED
  BY <1>4 DEF Has

\* ... in one way.
LEMMA TreeOneWay ==
    ASSUME NEW S, NEW h, NEW par, NEW roots, Tree(S, h, par, roots),
           NEW value, NEW step, NEW T \in SUBSET S, NEW U \in SUBSET S,
           NEW f, Computed(f, T, par, roots, value, step),
           NEW g, Computed(g, U, par, roots, value, step),
           \A t \in T \ roots : par[t] \in T, \A t \in U \ roots : par[t] \in U
    PROVE  \A t \in T \cap U : f[t] = g[t]
<1> DEFINE differ == {t \in T \cap U : f[t] # g[t]}
           heights == {h[t] : t \in differ}
<1> SUFFICES ASSUME differ # {} PROVE FALSE
  OBVIOUS
<1>1. heights \in SUBSET Nat /\ heights # {}
  BY DEF Tree
<1>2. PICK n \in heights : \A m \in heights : n <= m
  <2> HIDE DEF heights
  <2> QED
    BY <1>1, LeastNat
<1>3. PICK t \in differ : n = h[t]
  OBVIOUS
<1>4. t \notin roots
  BY Zenon DEF Computed
<1>5. par[t] \in S /\ h[par[t]] < h[t] /\ par[t] \in T \cap U /\ h[t] \in Nat /\ h[par[t]] \in Nat
  BY <1>4 DEF Tree
<1>6. par[t] \notin differ
  BY <1>2, <1>3, <1>5
<1> QED
  BY <1>4, <1>5, <1>6, Zenon DEF Computed

\* The values of a tree can be computed.
LEMMA TreeRecursion ==
    ASSUME NEW S, NEW h, NEW par, NEW roots, Tree(S, h, par, roots),
           NEW V, NEW value \in [S -> V], NEW step \in [S \X V -> V]
    PROVE  \E f \in [S -> V] : Computed(f, S, par, roots, value, step)
<1> DEFINE L(n) == Low(S, h, n)
           Below(n) == CHOOSE f \in [L(n) -> V] : Computed(f, L(n), par, roots, value, step)
           F == [t \in S |-> Below(h[t] + 1)[t]]
<1>1. ASSUME NEW n \in Nat
      PROVE  Below(n) \in [L(n) -> V] /\ Computed(Below(n), L(n), par, roots, value, step)
  <2>1. \E f \in [L(n) -> V] : Computed(f, L(n), par, roots, value, step)
    BY TreeBelow, Zenon
  <2> QED
    BY <2>1
<1>2. ASSUME NEW n \in Nat PROVE L(n) \in SUBSET S /\ \A t \in L(n) \ roots : par[t] \in L(n)
  BY DEF Low, Tree
<1>3. ASSUME NEW t \in S PROVE h[t] + 1 \in Nat /\ t \in L(h[t] + 1)
  BY DEF Low, Tree
<1> HIDE DEF Below, L
<1>4. F \in [S -> V]
  BY <1>1, <1>3
<1>5. Computed(F, S, par, roots, value, step)
  <2> SUFFICES ASSUME NEW t \in S
               PROVE  F[t] = IF t \in roots THEN value[t] ELSE step[<<t, F[par[t]]>>]
    BY DEF Computed
  <2> DEFINE f == Below(h[t] + 1)
  <2>1. f[t] = IF t \in roots THEN value[t] ELSE step[<<t, f[par[t]]>>]
    BY <1>1, <1>3 DEF Computed
  <2>2. ASSUME t \notin roots PROVE f[par[t]] = F[par[t]]
    <3> DEFINE p == par[t]
               g == Below(h[p] + 1)
    <3>1. p \in S /\ p \in L(h[t] + 1) /\ p \in L(h[p] + 1) /\ h[p] + 1 \in Nat /\ h[t] + 1 \in Nat
      BY <1>2, <1>3, <2>2 DEF Tree
    <3>2. /\ Computed(f, L(h[t] + 1), par, roots, value, step)
          /\ Computed(g, L(h[p] + 1), par, roots, value, step)
      BY <1>1, <3>1
    <3>3. /\ L(h[t] + 1) \in SUBSET S /\ \A u \in L(h[t] + 1) \ roots : par[u] \in L(h[t] + 1)
          /\ L(h[p] + 1) \in SUBSET S /\ \A u \in L(h[p] + 1) \ roots : par[u] \in L(h[p] + 1)
      BY <1>2, <3>1
    <3> HIDE DEF f, g
    <3>4. \A u \in L(h[t] + 1) \cap L(h[p] + 1) : f[u] = g[u]
      BY <3>2, <3>3, TreeOneWay
    <3>5. F[p] = g[p]
      BY <3>1 DEF g
    <3> QED
      BY <3>1, <3>4, <3>5
  <2> QED
    BY <2>1, <2>2
<1> HIDE DEF F
<1> QED
  BY <1>4, <1>5

-----------------------------------------------------------------------------
(* Folds over finite sets *)

\* A choice of the element of each subset of S that a fold takes last.
Chooses(ch, S) == \A s \in SUBSET S : s # {} => ch[s] \in s

\* A set of subsets of S that has the empty set, and each subset if it has the
\* one without the chosen element, has S.
LEMMA FoldInduction ==
    ASSUME NEW S, IsFiniteSet(S), NEW ch, Chooses(ch, S), NEW T, {} \in T,
           \A s \in SUBSET S : s # {} /\ s \ {ch[s]} \in T => s \in T
    PROVE  S \in T
<1> DEFINE lacks == {s \in SUBSET S : s \notin T}
<1> SUFFICES ASSUME lacks # {} PROVE FALSE
  OBVIOUS
<1>1. PICK s \in lacks : \A t \in lacks : t \subseteq s => t = s
  <2>1. lacks \in SUBSET (SUBSET S)
    OBVIOUS
  <2> HIDE DEF lacks
  <2> QED
    BY <2>1, SmallestSubset
<1>2. s # {} /\ s \in SUBSET S /\ s \notin T
  OBVIOUS
<1>3. ch[s] \in s
  BY <1>2 DEF Chooses
<1>4. s \ {ch[s]} \in T
  BY <1>1, <1>2, <1>3
<1> QED
  BY <1>2, <1>4

\* f folds step over the subsets of S, from base on.
FoldOf(f, S, ch, base, step) ==
    f = [s \in SUBSET S |-> IF s = {} THEN base ELSE step[<<ch[s], f[s \ {ch[s]}]>>]]

\* A fold whose steps stay in a set exists, and stays in it.
LEMMA FoldInSet ==
    ASSUME NEW S, IsFiniteSet(S), NEW ch, Chooses(ch, S),
           NEW V, NEW base \in V, NEW step \in [S \X V -> V]
    PROVE  \E f \in [SUBSET S -> V] : FoldOf(f, S, ch, base, step)
<1> DEFINE h == [s \in SUBSET S |-> Cardinality(s)]
           par == [s \in SUBSET S |-> s \ {ch[s]}]
           roots == {{}}
           value == [s \in SUBSET S |-> base]
           up == [p \in (SUBSET S) \X V |-> IF p[1] = {} THEN base ELSE step[<<ch[p[1]], p[2]>>]]
<1>1. Tree(SUBSET S, h, par, roots)
  <2>1. \A s \in SUBSET S : Cardinality(s) \in Nat
    BY FS_Subset, FS_CardinalityType
  <2>2. ASSUME NEW s \in SUBSET S, s # {}
        PROVE  par[s] \in SUBSET S /\ h[par[s]] < h[s]
    <3>1. ch[s] \in s
      BY <2>2 DEF Chooses
    <3>2. /\ s \ {ch[s]} \in SUBSET S /\ Cardinality(s) \in Nat
          /\ Cardinality(s \ {ch[s]}) = Cardinality(s) - 1
      <4> DEFINE c == ch[s]
      <4>1. c \in s /\ s \in SUBSET S
        BY <3>1
      <4> HIDE DEF c, h, par, roots, value, up
      <4>2. /\ s \ {c} \in SUBSET S /\ Cardinality(s) \in Nat
            /\ Cardinality(s \ {c}) = Cardinality(s) - 1
        BY <4>1, FewerLeft, Zenon
      <4> QED
        BY <4>2 DEF c
    <3> QED
      BY <3>2
  <2>3. h \in [SUBSET S -> Nat]
    BY <2>1
  <2> HIDE DEF h, par
  <2> QED
    BY <2>2, <2>3 DEF Tree
<1>2. value \in [SUBSET S -> V]
  OBVIOUS
<1>3. up \in [(SUBSET S) \X V -> V]
  <2>1. ASSUME NEW s \in SUBSET S, NEW v \in V, s # {} PROVE step[<<ch[s], v>>] \in V
    <3>1. ch[s] \in S
      BY <2>1 DEF Chooses
    <3> QED
      BY <3>1
  <2> QED
    BY <2>1
<1>4. PICK f \in [SUBSET S -> V] : Computed(f, SUBSET S, par, roots, value, up)
  <2> HIDE DEF h, par, roots, value, up
  <2> QED
    BY <1>1, <1>2, <1>3, TreeRecursion, Zenon
<1>5. ASSUME NEW s \in SUBSET S
      PROVE  f[s] = IF s = {} THEN base ELSE step[<<ch[s], f[s \ {ch[s]}]>>]
  <2>1. CASE s = {}
    BY <1>4, <2>1, Zenon DEF Computed
  <2>2. CASE s # {}
    <3>1. f[s] = up[<<s, f[par[s]]>>]
      BY <1>4, <2>2, Zenon DEF Computed
    <3>2. par[s] = s \ {ch[s]} /\ par[s] \in SUBSET S
      OBVIOUS
    <3> HIDE DEF par
    <3>3. f[par[s]] \in V
      BY <3>2
    <3>4. up[<<s, f[par[s]]>>] = step[<<ch[s], f[par[s]]>>]
      BY <2>2, <3>3
    <3> QED
      BY <2>2, <3>1, <3>2, <3>4, Zenon
  <2> QED
    BY <2>1, <2>2
<1>6. FoldOf(f, S, ch, base, step)
  BY <1>5 DEF FoldOf
<1> QED
  BY <1>6

=============================================================================
