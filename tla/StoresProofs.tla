---------------------------- MODULE StoresProofs ----------------------------
(***************************************************************************)
(* Proofs about what the proxy keeps: the budgets, the caches of prompts   *)
(* and their vectors, the lists of tools, the distilled manifests and the  *)
(* usage record, and about folds and sums over finite sets.                *)
(***************************************************************************)
EXTENDS MCStores, FiniteSetTheorems, SequenceTheorems, WellFoundedInduction, TLAPS

-----------------------------------------------------------------------------
\* Folds over finite sets.  A fold goes through a set by picking one element after the other;
\* `step' says what each makes of what the ones picked later came to.
Folds(f, base, step1, pick, S) ==
  f = [s \in SUBSET S |-> IF s = {} THEN base ELSE step1[<<pick[s], f[s \ {pick[s]}]>>]]
PicksFrom(pick, S) == \A s \in SUBSET S : s # {} => pick[s] \in s

\* Among the subsets of a finite set that have a property, if any do, one has no proper subset
\* that does: induction over finite sets in the form the provers can use.
LEMMA SmallestSubset ==
  ASSUME NEW S, IsFiniteSet(S), NEW X \in SUBSET SUBSET S, X # {}
  PROVE  \E s \in X : \A r \in X : r \subseteq s => r = s
<1>1. IsWellFoundedOn(StrictSubsetOrdering(S), SUBSET S)
  BY FS_StrictSubsetOrderingWellFounded, FS_FiniteSubsetsOfFinite
<1>2. PICK s \in X : \A r \in X : ~(<<r, s>> \in StrictSubsetOrdering(S))
  BY <1>1, WFMin
<1>3. \A r \in X : r \subseteq s => r = s
  BY <1>2 DEF StrictSubsetOrdering
<1> QED
  BY <1>2, <1>3

LEMMA FoldsApply ==
  ASSUME NEW base, NEW h, NEW pick, NEW S, NEW f, Folds(f, base, h, pick, S), NEW s \in SUBSET S
  PROVE  f[s] = IF s = {} THEN base ELSE h[<<pick[s], f[s \ {pick[s]}]>>]
  BY DEF Folds

LEMMA FoldsAgree ==
  ASSUME NEW base, NEW h, NEW pick, NEW S, NEW R, IsFiniteSet(S), PicksFrom(pick, S),
         NEW f, NEW g, Folds(f, base, h, pick, S), Folds(g, base, h, pick, R),
         NEW T \in (SUBSET S) \cap (SUBSET R)
  PROVE  f[T] = g[T]
<1> DEFINE X == {s \in SUBSET S : s \in SUBSET R /\ f[s] # g[s]}
<1>1. SUFFICES ASSUME X # {} PROVE FALSE
  OBVIOUS
<1>2. PICK s \in X : \A r \in X : r \subseteq s => r = s
  <2>1. X \in SUBSET SUBSET S
    OBVIOUS
  <2> HIDE DEF X
  <2> QED
    BY <1>1, <2>1, SmallestSubset
<1>3. /\ f[s] = IF s = {} THEN base ELSE h[<<pick[s], f[s \ {pick[s]}]>>]
      /\ g[s] = IF s = {} THEN base ELSE h[<<pick[s], g[s \ {pick[s]}]>>]
  BY <1>2, FoldsApply
<1>4. s # {} /\ pick[s] \in s
  BY <1>2, <1>3 DEF PicksFrom
<1>5. s \ {pick[s]} \notin X
  BY <1>2, <1>4
<1>6. f[s \ {pick[s]}] = g[s \ {pick[s]}]
  BY <1>2, <1>5
<1> QED
  BY <1>2, <1>3, <1>4, <1>6

\* A fold over a finite set is defined: there is a function that is as Folds says.
LEMMA FoldsExist ==
  ASSUME NEW base, NEW h, NEW pick, NEW S, IsFiniteSet(S), PicksFrom(pick, S)
  PROVE  \E f : Folds(f, base, h, pick, S)
<1> DEFINE X == {s \in SUBSET S : ~ \E f : Folds(f, base, h, pick, s)}
<1>1. SUFFICES ASSUME X # {} PROVE FALSE
  OBVIOUS
<1>2. PICK s \in X : \A r \in X : r \subseteq s => r = s
  <2>1. X \in SUBSET SUBSET S
    OBVIOUS
  <2> HIDE DEF X
  <2> QED
    BY <1>1, <2>1, SmallestSubset
<1> DEFINE fold(r) == CHOOSE f : Folds(f, base, h, pick, r)
           V(r) == fold(r)[r]
           g == [r \in SUBSET s |-> IF r = {} THEN base ELSE h[<<pick[r], V(r \ {pick[r]})>>]]
<1>3. ASSUME NEW r \in SUBSET s, r # s
      PROVE  Folds(fold(r), base, h, pick, r) /\ IsFiniteSet(r) /\ PicksFrom(pick, r)
  <2>1. r \notin X /\ r \in SUBSET S
    BY <1>2, <1>3
  <2>2. \E f : Folds(f, base, h, pick, r)
    BY <2>1
  <2>3. PicksFrom(pick, r)
    BY <2>1 DEF PicksFrom
  <2> QED
    BY <2>1, <2>2, <2>3, FS_Subset
<1>4. ASSUME NEW r \in SUBSET s, r # s
      PROVE  g[r] = V(r)
  <2>0. Folds(fold(r), base, h, pick, r) /\ IsFiniteSet(r) /\ PicksFrom(pick, r)
    BY <1>3, <1>4
  <2>1. V(r) = IF r = {} THEN base ELSE h[<<pick[r], fold(r)[r \ {pick[r]}]>>]
    BY <2>0, FoldsApply
  <2>2. CASE r = {}
    BY <2>1, <2>2
  <2>3. CASE r # {}
    <3> DEFINE q == r \ {pick[r]}
    <3>1. pick[r] \in r /\ q \in SUBSET r /\ q # s /\ q \in SUBSET s
      BY <2>0, <2>3, <1>4 DEF PicksFrom
    <3>2. Folds(fold(q), base, h, pick, q) /\ IsFiniteSet(q) /\ PicksFrom(pick, q)
      BY <1>3, <3>1
    <3>3. fold(q)[q] = fold(r)[q]
      BY <2>0, <3>1, <3>2, FoldsAgree
    <3>4. g[r] = h[<<pick[r], V(q)>>]
      BY <1>4, <2>3
    <3> QED
      BY <2>1, <2>3, <3>3, <3>4
  <2> QED
    BY <2>2, <2>3
<1>5. ASSUME NEW r \in SUBSET s, r # {}
      PROVE  g[r \ {pick[r]}] = V(r \ {pick[r]})
  <2>1. pick[r] \in r
    BY <1>2, <1>5 DEF PicksFrom
  <2>2. r \ {pick[r]} \in SUBSET s /\ r \ {pick[r]} # s
    BY <1>5, <2>1
  <2> QED
    BY <1>4, <2>2
<1> HIDE DEF V
<1>6. g = [r \in SUBSET s |-> IF r = {} THEN base ELSE h[<<pick[r], g[r \ {pick[r]}]>>]]
  BY <1>5
<1>7. Folds(g, base, h, pick, s)
  BY <1>6 DEF Folds
<1> QED
  BY <1>2, <1>7

\* What every step keeps, the fold has.
LEMMA FoldsStay ==
  ASSUME NEW base, NEW h, NEW pick, NEW S, IsFiniteSet(S), PicksFrom(pick, S),
         NEW f, Folds(f, base, h, pick, S),
         NEW V, base \in V, \A x \in S, v \in V : h[<<x, v>>] \in V, NEW T \in SUBSET S
  PROVE  f[T] \in V
<1> DEFINE X == {s \in SUBSET S : f[s] \notin V}
<1>1. SUFFICES ASSUME X # {} PROVE FALSE
  OBVIOUS
<1>2. PICK s \in X : \A r \in X : r \subseteq s => r = s
  <2>1. X \in SUBSET SUBSET S
    OBVIOUS
  <2> HIDE DEF X
  <2> QED
    BY <1>1, <2>1, SmallestSubset
<1>3. f[s] = IF s = {} THEN base ELSE h[<<pick[s], f[s \ {pick[s]}]>>]
  BY <1>2, FoldsApply
<1>4. s # {} /\ pick[s] \in s
  BY <1>2, <1>3 DEF PicksFrom
<1>5. f[s \ {pick[s]}] \in V
  BY <1>2, <1>4
<1> QED
  BY <1>2, <1>3, <1>4, <1>5

-----------------------------------------------------------------------------
\* Sums over finite sets.
Some(s) == CHOOSE x \in s : TRUE
Sums(f, t, S) == f = [s \in SUBSET S |-> IF s = {} THEN 0 ELSE t[Some(s)] + f[s \ {Some(s)}]]
SumOver(t, S) == MapThenSumSet(LAMBDA x : t[x], S)

LEMMA SumUnfolds ==
  ASSUME NEW t, NEW S
  PROVE  SumOver(t, S) = (CHOOSE f : Sums(f, t, S))[S]
  BY DEF SumOver, MapThenSumSet, MapThenFoldSet, Sums, Some

LEMMA SumsExist ==
  ASSUME NEW t, NEW S, IsFiniteSet(S), \A x \in S : t[x] \in Nat
  PROVE  \E f : Sums(f, t, S) /\ \A s \in SUBSET S : f[s] \in Nat
<1> DEFINE h == [q \in S \X Nat |-> t[q[1]] + q[2]]
           pick == [s \in SUBSET S |-> Some(s)]
<1>1. PicksFrom(pick, S)
  BY DEF PicksFrom, Some
<1>2. \A x \in S, v \in Nat : h[<<x, v>>] = t[x] + v
  OBVIOUS
<1>3. \A s \in SUBSET S : pick[s] = Some(s)
  OBVIOUS
<1> HIDE DEF h, pick
<1>4. PICK f : Folds(f, 0, h, pick, S)
  BY <1>1, FoldsExist
<1>5. ASSUME NEW x \in S, NEW v \in Nat PROVE h[<<x, v>>] \in Nat
  <2>1. t[x] \in Nat /\ h[<<x, v>>] = t[x] + v
    BY <1>2
  <2> QED
    BY <2>1
<1>6. \A s \in SUBSET S : f[s] \in Nat
  BY <1>1, <1>4, <1>5, FoldsStay
<1>7. ASSUME NEW s \in SUBSET S, s # {} PROVE h[<<pick[s], f[s \ {pick[s]}]>>] = t[Some(s)] + f[s \ {Some(s)}]
  <2>1. pick[s] = Some(s) /\ pick[s] \in S /\ f[s \ {pick[s]}] \in Nat
    BY <1>1, <1>3, <1>6, <1>7 DEF PicksFrom
  <2> QED
    BY <1>2, <2>1
<1>8. \A s \in SUBSET S : (IF s = {} THEN 0 ELSE h[<<pick[s], f[s \ {pick[s]}]>>])
                          = IF s = {} THEN 0 ELSE t[Some(s)] + f[s \ {Some(s)}]
  BY <1>7
<1>9. f = [s \in SUBSET S |-> IF s = {} THEN 0 ELSE h[<<pick[s], f[s \ {pick[s]}]>>]]
  BY <1>4 DEF Folds
<1>10. f = [s \in SUBSET S |-> IF s = {} THEN 0 ELSE t[Some(s)] + f[s \ {Some(s)}]]
  BY <1>8, <1>9
<1>11. Sums(f, t, S)
  BY <1>10 DEF Sums
<1> QED
  BY <1>6, <1>11

LEMMA SomeIsIn == ASSUME NEW s, s # {} PROVE Some(s) \in s
  BY DEF Some

LEMMA SumsApply ==
  ASSUME NEW t, NEW S, NEW f, Sums(f, t, S), NEW s \in SUBSET S
  PROVE  f[s] = IF s = {} THEN 0 ELSE t[Some(s)] + f[s \ {Some(s)}]
  BY DEF Sums

LEMMA SumsAgree ==
  ASSUME NEW t, NEW S, NEW R, IsFiniteSet(S), NEW f, NEW g, Sums(f, t, S), Sums(g, t, R),
         NEW T \in (SUBSET S) \cap (SUBSET R)
  PROVE  f[T] = g[T]
<1> DEFINE X == {s \in SUBSET S : s \in SUBSET R /\ f[s] # g[s]}
<1>1. SUFFICES ASSUME X # {} PROVE FALSE
  OBVIOUS
<1>2. PICK s \in X : \A r \in X : r \subseteq s => r = s
  <2>1. X \in SUBSET SUBSET S
    OBVIOUS
  <2> HIDE DEF X
  <2> QED
    BY <1>1, <2>1, SmallestSubset
<1>3. /\ f[s] = IF s = {} THEN 0 ELSE t[Some(s)] + f[s \ {Some(s)}]
      /\ g[s] = IF s = {} THEN 0 ELSE t[Some(s)] + g[s \ {Some(s)}]
  BY <1>2, SumsApply
<1>4. s # {} /\ Some(s) \in s
  BY <1>2, <1>3, SomeIsIn
<1>5. s \ {Some(s)} \notin X
  BY <1>2, <1>4
<1>6. f[s \ {Some(s)}] = g[s \ {Some(s)}]
  BY <1>2, <1>5
<1> QED
  BY <1>2, <1>3, <1>4, <1>6

\* A sum over a finite set is what one would expect.
LEMMA SumOfNothing == ASSUME NEW t PROVE SumOver(t, {}) = 0
<1>1. PICK f : Sums(f, t, {})
  BY SumsExist, FS_EmptySet
<1>2. Sums(CHOOSE g : Sums(g, t, {}), t, {})
  BY <1>1
<1> QED
  BY <1>2, SumsApply, SumUnfolds

LEMMA SumOfSome ==
  ASSUME NEW t, NEW S, IsFiniteSet(S), \A x \in S : t[x] \in Nat, S # {}
  PROVE  SumOver(t, S) = t[Some(S)] + SumOver(t, S \ {Some(S)})
<1> DEFINE R == S \ {Some(S)}
           f == CHOOSE h : Sums(h, t, S)
           g == CHOOSE h : Sums(h, t, R)
<1>1. Sums(f, t, S)
  BY SumsExist
<1>2. IsFiniteSet(R) /\ R \in (SUBSET R) \cap (SUBSET S) /\ \A x \in R : t[x] \in Nat
  BY FS_Subset
<1>3. Sums(g, t, R)
  <2> HIDE DEF R
  <2>1. \E h : Sums(h, t, R)
    BY <1>2, SumsExist
  <2> QED
    BY <2>1
<1>4. f[R] = g[R]
  BY <1>1, <1>2, <1>3, SumsAgree
<1>5. f[S] = t[Some(S)] + f[R]
  BY <1>1, SumsApply
<1> QED
  BY <1>4, <1>5, SumUnfolds

LEMMA SumIsNatural ==
  ASSUME NEW t, NEW S, IsFiniteSet(S), \A x \in S : t[x] \in Nat
  PROVE  SumOver(t, S) \in Nat
<1> DEFINE X == {s \in SUBSET S : SumOver(t, s) \notin Nat}
<1>1. SUFFICES ASSUME X # {} PROVE FALSE
  OBVIOUS
<1>2. PICK s \in X : \A r \in X : r \subseteq s => r = s
  <2>1. X \in SUBSET SUBSET S
    OBVIOUS
  <2> HIDE DEF X
  <2> QED
    BY <1>1, <2>1, SmallestSubset
<1>3. s # {}
  <2>1. SumOver(t, {}) \in Nat
    BY SumOfNothing
  <2> QED
    BY <2>1
<1>4. IsFiniteSet(s) /\ Some(s) \in s
  BY <1>2, <1>3, FS_Subset, SomeIsIn
<1>5. SumOver(t, s \ {Some(s)}) \in Nat /\ t[Some(s)] \in Nat
  BY <1>2, <1>4
<1>6. SumOver(t, s) = t[Some(s)] + SumOver(t, s \ {Some(s)})
  BY <1>3, <1>4, SumOfSome
<1> QED
  BY <1>2, <1>5, <1>6

LEMMA SumTakesAny ==
  ASSUME NEW t, NEW S, IsFiniteSet(S), \A x \in S : t[x] \in Nat, NEW e \in S
  PROVE  SumOver(t, S) = t[e] + SumOver(t, S \ {e})
<1> DEFINE X == {s \in SUBSET S : \E x \in s : SumOver(t, s) # t[x] + SumOver(t, s \ {x})}
<1>1. SUFFICES ASSUME X # {} PROVE FALSE
  BY Zenon
<1>2. PICK s \in X : \A r \in X : r \subseteq s => r = s
  <2>1. X \in SUBSET SUBSET S
    OBVIOUS
  <2> HIDE DEF X
  <2> QED
    BY <1>1, <2>1, SmallestSubset
<1>3. PICK x \in s : SumOver(t, s) # t[x] + SumOver(t, s \ {x})
  BY <1>2
<1> DEFINE y == Some(s)
<1>4. /\ y \in s /\ IsFiniteSet(s) /\ IsFiniteSet(s \ {x}) /\ IsFiniteSet(s \ {y}) /\ IsFiniteSet(s \ {x, y})
      /\ s \ {x} \in SUBSET S /\ s \ {y} \in SUBSET S /\ s \ {x, y} \in SUBSET S
  BY <1>2, <1>3, FS_Subset, SomeIsIn
<1>5. SumOver(t, s) = t[y] + SumOver(t, s \ {y})
  BY <1>3, <1>4, SumOfSome
<1>6. x # y
  BY <1>3, <1>5
<1>7. SumOver(t, s \ {y}) = t[x] + SumOver(t, (s \ {y}) \ {x})
  <2>1. s \ {y} \notin X /\ x \in s \ {y}
    BY <1>2, <1>3, <1>4, <1>6
  <2> QED
    BY <1>4, <2>1
<1>8. SumOver(t, s \ {x}) = t[y] + SumOver(t, (s \ {x}) \ {y})
  <2>1. s \ {x} \notin X /\ y \in s \ {x}
    BY <1>2, <1>3, <1>4, <1>6
  <2> QED
    BY <1>4, <2>1
<1>9. (s \ {y}) \ {x} = s \ {x, y} /\ (s \ {x}) \ {y} = s \ {x, y}
  OBVIOUS
<1>10. t[x] \in Nat /\ t[y] \in Nat /\ SumOver(t, s \ {x, y}) \in Nat
  BY <1>2, <1>3, <1>4, SumIsNatural
<1> HIDE DEF y, X
<1> DEFINE rest == SumOver(t, s \ {x, y})
<1>11. /\ SumOver(t, s) = t[y] + SumOver(t, s \ {y}) /\ SumOver(t, s \ {y}) = t[x] + rest
       /\ SumOver(t, s \ {x}) = t[y] + rest /\ rest \in Nat
  BY <1>5, <1>7, <1>8, <1>9, <1>10, Zenon
<1> HIDE DEF rest
<1>12. SumOver(t, s) = t[x] + SumOver(t, s \ {x})
  BY <1>10, <1>11
<1> QED
  BY <1>3, <1>12

LEMMA SumsOfEquals ==
  ASSUME NEW t, NEW u, NEW S, IsFiniteSet(S), \A x \in S : t[x] \in Nat /\ t[x] = u[x]
  PROVE  SumOver(t, S) = SumOver(u, S)
<1> DEFINE X == {s \in SUBSET S : SumOver(t, s) # SumOver(u, s)}
<1>1. SUFFICES ASSUME X # {} PROVE FALSE
  OBVIOUS
<1>2. PICK s \in X : \A r \in X : r \subseteq s => r = s
  <2>1. X \in SUBSET SUBSET S
    OBVIOUS
  <2> HIDE DEF X
  <2> QED
    BY <1>1, <2>1, SmallestSubset
<1>3. s # {}
  BY <1>2, SumOfNothing
<1>4. IsFiniteSet(s) /\ Some(s) \in s
  BY <1>2, <1>3, FS_Subset, SomeIsIn
<1>5. SumOver(t, s \ {Some(s)}) = SumOver(u, s \ {Some(s)}) /\ t[Some(s)] = u[Some(s)]
  BY <1>2, <1>4
<1> QED
  BY <1>2, <1>3, <1>4, <1>5, SumOfSome

-----------------------------------------------------------------------------
\* The largest of a finite set of numbers, and a fold over a sequence, which picks the last
\* place first.
LEMMA LargestOfAny ==
  ASSUME NEW S, S \subseteq Int, IsFiniteSet(S), S # {}
  PROVE  Max(S) \in S /\ \A x \in S : x <= Max(S)
<1> DEFINE X == {s \in SUBSET S : s # {} /\ ~ \E m \in s : \A x \in s : m >= x}
<1>1. X = {}
  <2> SUFFICES ASSUME X # {} PROVE FALSE
    OBVIOUS
  <2>1. X \in SUBSET SUBSET S
    OBVIOUS
  <2>2. PICK s \in X : \A r \in X : r \subseteq s => r = s
    <3>1. IsFiniteSet(S) /\ X # {}
      OBVIOUS
    <3> HIDE DEF X
    <3> QED
      BY ONLY <2>1, <3>1, SmallestSubset
  <2>3. PICK e \in s : TRUE
    BY <2>2
  <2>4. CASE s = {e}
    BY <2>2, <2>4
  <2>5. CASE s # {e}
    <3>1. s \ {e} \notin X /\ s \ {e} # {} /\ s \ {e} \in SUBSET S
      BY <2>2, <2>3, <2>5
    <3>2. PICK m \in s \ {e} : \A x \in s \ {e} : m >= x
      BY <3>1
    <3>3. m \in Int /\ e \in Int /\ \A x \in s : x \in Int
      BY <2>2, <2>3, <3>2
    <3>4. CASE m >= e
      BY <2>2, <3>2, <3>4
    <3>5. CASE e > m
      <4>1. \A x \in s : e >= x
        BY <3>2, <3>3, <3>5
      <4> QED
        BY <2>2, <2>3, <4>1
    <3> QED
      BY <3>3, <3>4, <3>5
  <2> QED
    BY <2>4, <2>5
<1>2. \E m \in S : \A x \in S : m >= x
  BY <1>1
<1>3. Max(S) \in S /\ \A x \in S : Max(S) >= x
  BY <1>2 DEF Max
<1> QED
  BY <1>3

LEMMA LeastOfTwo == ASSUME NEW a \in Int, NEW b \in Int PROVE Min({a, b}) = IF a <= b THEN a ELSE b
<1>1. CASE a <= b
  <2>1. a \in {a, b} /\ \A y \in {a, b} : a <= y
    BY <1>1
  <2>2. \A x \in {a, b} : (\A y \in {a, b} : x <= y) => x = a
    BY <1>1
  <2> QED
    BY <1>1, <2>1, <2>2 DEF Min
<1>2. CASE ~(a <= b)
  <2>1. b \in {a, b} /\ \A y \in {a, b} : b <= y
    BY <1>2
  <2>2. \A x \in {a, b} : (\A y \in {a, b} : x <= y) => x = b
    BY <1>2
  <2> QED
    BY <1>2, <2>1, <2>2 DEF Min
<1> QED
  BY <1>1, <1>2

LEMMA PlacesAreFinite == ASSUME NEW n \in Nat PROVE IsFiniteSet(1..n) /\ 1..n \subseteq Int
<1>1. 1 \in Int /\ n \in Int
  OBVIOUS
<1>2. IsFiniteSet(1..n)
  BY ONLY <1>1, FS_Interval
<1> QED
  BY <1>2

LEMMA LastIsIn == ASSUME NEW n \in Nat, NEW s \in SUBSET (1..n), s # {} PROVE Max(s) \in s
<1> DEFINE D == 1..n
<1>1. IsFiniteSet(D) /\ D \subseteq Int
  BY PlacesAreFinite
<1> HIDE DEF D
<1>2. s \subseteq D
  BY DEF D
<1>3. IsFiniteSet(s) /\ s \subseteq Int
  BY <1>1, <1>2, FS_Subset
<1> QED
  BY <1>3, LargestOfAny

LEMMA LastOfPrefix == ASSUME NEW m \in Nat PROVE Max(1..m + 1) = m + 1 /\ (1..m + 1) \ {m + 1} = 1..m
<1>1. IsFiniteSet(1..m + 1) /\ 1..m + 1 \subseteq Int /\ m + 1 \in 1..m + 1
  BY PlacesAreFinite
<1>2. Max(1..m + 1) \in 1..m + 1 /\ m + 1 <= Max(1..m + 1)
  BY <1>1, LargestOfAny
<1> QED
  BY <1>2

FoldsInOrder(f, base, step1, n) ==
  f = [s \in SUBSET (1..n) |-> IF s = {} THEN base ELSE step1[<<Max(s), f[s \ {Max(s)}]>>]]

LEMMA OrderedFold ==
  ASSUME NEW n \in Nat, NEW V, NEW base \in V, NEW h, \A x \in 1..n, v \in V : h[<<x, v>>] \in V
  PROVE  \E f : FoldsInOrder(f, base, h, n) /\ \A s \in SUBSET (1..n) : f[s] \in V
<1> DEFINE D == 1..n
           pick == [s \in SUBSET D |-> Max(s)]
<1>1. IsFiniteSet(D) /\ D \subseteq Int
  BY PlacesAreFinite
<1>2. ASSUME NEW s \in SUBSET D, s # {} PROVE Max(s) \in s
  BY <1>2, LastIsIn
<1>3. \A s \in SUBSET D : pick[s] = Max(s)
  OBVIOUS
<1>9. \A x \in D, v \in V : h[<<x, v>>] \in V
  OBVIOUS
<1> HIDE DEF D, pick
<1>4. PicksFrom(pick, D)
  BY <1>2, <1>3 DEF PicksFrom
<1>5. PICK f : Folds(f, base, h, pick, D)
  BY <1>1, <1>4, FoldsExist
<1>6. ASSUME NEW s \in SUBSET D PROVE f[s] \in V
  BY <1>1, <1>4, <1>5, <1>9, FoldsStay
<1>7. f = [s \in SUBSET D |-> IF s = {} THEN base ELSE h[<<pick[s], f[s \ {pick[s]}]>>]]
  BY <1>5 DEF Folds
<1>8. f = [s \in SUBSET D |-> IF s = {} THEN base ELSE h[<<Max(s), f[s \ {Max(s)}]>>]]
  BY <1>3, <1>7
<1> QED
  BY <1>6, <1>8 DEF D, FoldsInOrder

-----------------------------------------------------------------------------
\* Proofs, for any calls of any sizes and any limits: the budget of the month is kept, and
\* deciding about a team is monotone in what it has used.

\* What the counters need: a counter that a month has run out on has granted nothing in
\* the new one, and any other counts exactly what it has granted.
Counters == /\ used \in Nat /\ granted \in Nat
            /\ tokens \in [Payers -> Nat]
            /\ used <= ProjectMonthly
            /\ monthOver => granted = 0
            /\ ~monthOver => used = granted

\* The refills, the days and the steps that look at the team alone leave the counters be.
LEMMA OthersKeepCounters == Counters /\ UNCHANGED <<used, granted, monthOver, tokens>> => Counters'
  BY DEF Counters

LEMMA CheckKeepsCounters == ASSUME NEW p \in Payers, Counters, Check(p) PROVE Counters'
<1>1. PICK n \in Amounts : tokens' = [tokens EXCEPT ![p] = n]
  BY DEF Check
<1>2. n \in Nat
  BY BudgetAssumption
<1>3. tokens' \in [Payers -> Nat]
  BY <1>1, <1>2 DEF Counters
<1>4. UNCHANGED <<used, monthOver, granted>>
  BY DEF Check, grants
<1> QED
  BY <1>3, <1>4 DEF Counters

\* A deduction that the limit lets through is counted on both sides.
LEMMA DeductKeepsCounters == ASSUME NEW p \in Payers, Counters, DeductProject(p) PROVE Counters'
<1> DEFINE month == IF monthOver THEN 0 ELSE used
<1>1. tokens[p] \in Nat /\ month \in Nat /\ month = granted /\ ProjectMonthly \in Nat
  BY BudgetAssumption DEF Counters
<1>2. UNCHANGED tokens /\ monthOver' = FALSE
  BY DEF DeductProject
<1>3. CASE month + tokens[p] <= ProjectMonthly
  <2>1. used' = month + tokens[p] /\ granted' = granted + tokens[p]
    BY <1>3 DEF DeductProject
  <2>2. used' \in Nat /\ granted' \in Nat /\ used' <= ProjectMonthly /\ used' = granted'
    BY <1>1, <1>3, <2>1
  <2> QED
    BY <1>2, <2>2, Zenon DEF Counters
<1>4. CASE ~(month + tokens[p] <= ProjectMonthly)
  <2>1. used' = month /\ granted' = granted
    BY <1>4 DEF DeductProject, grants
  <2>2. used' \in Nat /\ granted' \in Nat /\ used' <= ProjectMonthly /\ used' = granted'
    BY <1>1, <2>1 DEF Counters
  <2> QED
    BY <1>2, <2>2, Zenon DEF Counters
<1> QED
  BY <1>3, <1>4

LEMMA NextKeepsCounters == Counters /\ [BNext]_budgetVars => Counters'
<1> SUFFICES ASSUME Counters, [BNext]_budgetVars PROVE Counters'
  OBVIOUS
<1>1. ASSUME NEW p \in Payers, Check(p) PROVE Counters'
  BY <1>1, CheckKeepsCounters
<1>2. ASSUME NEW p \in Payers, DeductProject(p) PROVE Counters'
  BY <1>2, DeductKeepsCounters
<1>3. ASSUME NEW p \in Payers, DeductTeam(p) \/ RefundTeam(p) \/ CheckThreshold(p) PROVE Counters'
  BY <1>3, OthersKeepCounters DEF DeductTeam, RefundTeam, CheckThreshold, grants
<1>4. CASE Refill \/ NewDay
  BY <1>4, OthersKeepCounters DEF Refill, NewDay, grants
<1>5. CASE NewMonth
  BY <1>5 DEF NewMonth, Counters
<1>6. CASE UNCHANGED budgetVars
  BY <1>6, OthersKeepCounters DEF budgetVars
<1> QED
  BY <1>1, <1>2, <1>3, <1>4, <1>5, <1>6 DEF BNext

\* However the calls overlap and wherever a month ends among their steps, a project is
\* never granted more than its monthly budget, and its counter is exact.
THEOREM BudgetHolds == BSpec => []ProjectWithinBudget
<1>1. BInit => Counters
  <2> SUFFICES ASSUME BInit PROVE Counters
    OBVIOUS
  <2>1. used = 0 /\ granted = 0 /\ monthOver = FALSE /\ tokens = [p \in Payers |-> 0]
    BY DEF BInit
  <2>2. used \in Nat /\ granted \in Nat /\ used <= ProjectMonthly /\ tokens \in [Payers -> Nat]
    BY <2>1, BudgetAssumption
  <2> QED
    BY <2>1, <2>2, Zenon DEF Counters
<1>2. Counters => ProjectWithinBudget
  BY BudgetAssumption DEF Counters, ProjectWithinBudget
<1> QED
  BY <1>1, <1>2, NextKeepsCounters, PTL DEF BSpec

-----------------------------------------------------------------------------
\* EvaluateBudget never becomes milder as the tokens of the day dwindle and those of the
\* month grow, whatever the limits and the percentage.
THEOREM EvaluationIsMonotone ==
  ASSUME NEW r1 \in Int, NEW r2 \in Int, NEW u1 \in Int, NEW u2 \in Int,
         NEW d \in Nat, NEW m \in Nat, NEW soft \in Nat, NEW h \in BOOLEAN,
         r1 <= r2, u1 >= u2
  PROVE  Severity(EvaluateBudget(r1, u1, d, m, soft, h)) >= Severity(EvaluateBudget(r2, u2, d, m, soft, h))
<1> DEFINE over(r, u) == (d > 0 /\ r <= 0) \/ (m > 0 /\ u >= m)
           soon(r, u) == \/ d > 0 /\ (d - r) * 100 >= soft * d
                         \/ m > 0 /\ u * 100 >= soft * m
<1>1. over(r2, u2) => over(r1, u1)
  OBVIOUS
<1>2. soft * d \in Int /\ soft * m \in Int
  OBVIOUS
<1>3. soon(r2, u2) => soon(r1, u1)
  BY <1>2
<1>4. ASSUME NEW r \in Int, NEW u \in Int
      PROVE  EvaluateBudget(r, u, d, m, soft, h) =
               IF over(r, u) THEN "reject" ELSE IF ~soon(r, u) THEN "allow"
               ELSE IF h THEN "reject" ELSE "downgrade"
  BY DEF EvaluateBudget
<1>5. Severity("allow") = 0 /\ Severity("downgrade") = 1 /\ Severity("reject") = 2
  BY DEF Severity
<1> HIDE DEF over, soon
<1> QED
  BY <1>1, <1>3, <1>4, <1>5

-----------------------------------------------------------------------------
\* The accounts: what a team has used is what was granted and what is in flight.  A month that
\* ended while nothing was in flight has counted nothing since, and a project over its
\* threshold has a call on its way to the alert, or has been alerted.
AccountsInv ==
  /\ bucket \in 0..Daily /\ teamUsed \in Nat /\ used \in Nat
  /\ {dayOver, teamMonthOver, monthOver, straddles, alerted} \subseteq BOOLEAN
  /\ step \in [Payers -> {"idle", "team", "project", "refund", "alert"}]
  /\ tokens \in [Payers -> Nat] /\ \A p \in Payers : tokens[p] <= ProjectMonthly
  /\ grantedToday \in Nat /\ teamGranted \in Nat
  /\ IsFiniteSet(Charged)
  /\ teamMonthOver /\ ~straddles => Charged = {} /\ teamGranted = 0
  /\ RefusalsAreFree
  /\ (\A p \in Payers : step[p] # "alert") /\ ~monthOver /\ OverThreshold => alerted

LEMMA InFlightIsSum == InFlight = SumOver(tokens, Charged)
  BY DEF InFlight, SumOver, MapThenSumSet, MapThenFoldSet

LEMMA AccountsInitially == BInit => AccountsInv
<1> SUFFICES ASSUME BInit PROVE AccountsInv
  OBVIOUS
<1>1. Charged = {} /\ IsFiniteSet(Charged)
  BY FS_EmptySet DEF BInit, Charged
<1>2. InFlight = 0
  BY <1>1, InFlightIsSum, SumOfNothing
<1>3. ~OverThreshold
  <2>1. ThresholdPct * ProjectMonthly > 0
    BY BudgetAssumption
  <2>2. used * 100 = 0
    BY DEF BInit
  <2> QED
    BY <2>1, <2>2, BudgetAssumption DEF OverThreshold
<1>4. \A p \in Payers : tokens[p] <= ProjectMonthly
  BY BudgetAssumption DEF BInit
<1>5. RefusalsAreFree
  BY <1>2, BudgetAssumption DEF BInit, RefusalsAreFree
<1>6. /\ bucket \in 0..Daily /\ teamUsed \in Nat /\ used \in Nat /\ grantedToday \in Nat /\ teamGranted \in Nat
      /\ step \in [Payers -> {"idle", "team", "project", "refund", "alert"}] /\ tokens \in [Payers -> Nat]
  BY BudgetAssumption DEF BInit
<1>7. /\ {dayOver, teamMonthOver, monthOver, straddles, alerted} \subseteq BOOLEAN
      /\ ~teamMonthOver
  BY DEF BInit
<1> QED
  BY <1>1, <1>3, <1>4, <1>5, <1>6, <1>7 DEF AccountsInv

LEMMA AccountsAgree == AccountsInv => AccountsAreExact
  BY DEF AccountsInv, AccountsAreExact, OverThresholdIsAlerted

\* What a step makes of the tokens in flight.
LEMMA SameCharges ==
  ASSUME AccountsInv, Charged' = Charged, \A p \in Charged : tokens'[p] = tokens[p]
  PROVE  InFlight' = InFlight /\ InFlight \in Nat
<1>1. SumOver(tokens', Charged) = SumOver(tokens, Charged)
  <2>1. \A p \in Charged : tokens[p] \in Nat /\ tokens[p] = tokens'[p]
    BY DEF AccountsInv, Charged
  <2>2. SumOver(tokens, Charged) = SumOver(tokens', Charged)
    BY <2>1, SumsOfEquals DEF AccountsInv
  <2> QED
    BY <2>2
<1>2. SumOver(tokens, Charged) \in Nat
  BY SumIsNatural DEF AccountsInv, Charged
<1>3. InFlight' = SumOver(tokens', Charged')
  BY DEF InFlight, SumOver, MapThenSumSet, MapThenFoldSet
<1> QED
  BY <1>1, <1>2, <1>3, InFlightIsSum

LEMMA MoreCharges ==
  ASSUME AccountsInv, NEW p \in Payers, p \notin Charged, Charged' = Charged \cup {p}, tokens' = tokens
  PROVE  InFlight' = InFlight + tokens[p] /\ InFlight \in Nat /\ IsFiniteSet(Charged')
<1>1. IsFiniteSet(Charged') /\ \A q \in Charged' : tokens[q] \in Nat
  BY FS_AddElement DEF AccountsInv, Charged
<1>2. Charged' \ {p} = Charged
  OBVIOUS
<1>3. SumOver(tokens, Charged') = tokens[p] + SumOver(tokens, Charged)
  BY <1>1, <1>2, SumTakesAny
<1>4. SumOver(tokens, Charged) \in Nat
  BY SumIsNatural DEF AccountsInv, Charged
<1>5. InFlight' = SumOver(tokens, Charged')
  BY DEF InFlight, SumOver, MapThenSumSet, MapThenFoldSet
<1> QED
  BY <1>1, <1>3, <1>4, <1>5, InFlightIsSum

LEMMA FewerCharges ==
  ASSUME AccountsInv, NEW p \in Charged, Charged' = Charged \ {p}, tokens' = tokens
  PROVE  InFlight = InFlight' + tokens[p] /\ InFlight' \in Nat /\ InFlight \in Nat /\ IsFiniteSet(Charged')
<1>1. IsFiniteSet(Charged) /\ IsFiniteSet(Charged') /\ \A q \in Charged : tokens[q] \in Nat
  BY FS_Subset DEF AccountsInv, Charged
<1>2. SumOver(tokens, Charged) = tokens[p] + SumOver(tokens, Charged \ {p})
  BY <1>1, SumTakesAny
<1>3. SumOver(tokens, Charged \ {p}) \in Nat /\ SumOver(tokens, Charged) \in Nat
  BY <1>1, SumIsNatural
<1>4. InFlight' = SumOver(tokens, Charged \ {p})
  BY DEF InFlight, SumOver, MapThenSumSet, MapThenFoldSet
<1> QED
  BY <1>1, <1>2, <1>3, <1>4, InFlightIsSum

LEMMA CheckKeepsAccounts == ASSUME AccountsInv, NEW p \in Payers, Check(p) PROVE AccountsInv'
<1>1. PICK n \in Amounts : used + n <= ProjectMonthly /\ tokens' = [tokens EXCEPT ![p] = n]
  BY DEF Check
<1>2. n \in Nat /\ n <= ProjectMonthly
  BY <1>1, BudgetAssumption DEF AccountsInv
<1>3. Charged' = Charged /\ p \notin Charged
  BY DEF Check, BStep, Charged, AccountsInv
<1>4. InFlight' = InFlight
  <2>1. \A q \in Charged : tokens'[q] = tokens[q]
    BY <1>1, <1>3 DEF AccountsInv, Charged
  <2> QED
    BY <2>1, <1>3, SameCharges
<1>5. /\ tokens' \in [Payers -> Nat] /\ \A q \in Payers : tokens'[q] <= ProjectMonthly
      /\ step' \in [Payers -> {"idle", "team", "project", "refund", "alert"}]
  BY <1>1, <1>2 DEF AccountsInv, Check, BStep
<1>6. (\A q \in Payers : step'[q] # "alert") => \A q \in Payers : step[q] # "alert"
  BY DEF AccountsInv, Check, BStep
<1> QED
  BY <1>3, <1>4, <1>5, <1>6 DEF AccountsInv, Check, teamCounters, grants, RefusalsAreFree, OverThreshold

LEMMA TeamKeepsAccounts == ASSUME AccountsInv, NEW p \in Payers, DeductTeam(p) PROVE AccountsInv'
<1> DEFINE day == IF dayOver THEN Daily ELSE bucket
           month == IF teamMonthOver THEN 0 ELSE teamUsed
<1>1. /\ p \notin Charged /\ tokens[p] \in Nat /\ tokens' = tokens
      /\ dayOver' = FALSE /\ teamMonthOver' = FALSE /\ UNCHANGED <<used, monthOver, grants, straddles, alerted>>
      /\ step' \in [Payers -> {"idle", "team", "project", "refund", "alert"}]
      /\ (\A q \in Payers : step'[q] # "alert") => \A q \in Payers : step[q] # "alert"
  BY DEF AccountsInv, DeductTeam, BStep, Charged
<1>2. /\ InFlight \in Nat /\ day \in 0..Daily /\ month \in Nat
      /\ straddles \/ month = teamGranted + InFlight
      /\ day >= Daily - (grantedToday + InFlight)
  <2>1. InFlight \in Nat
    BY InFlightIsSum, SumIsNatural DEF AccountsInv, Charged
  <2>2. Charged = {} => InFlight = 0
    BY InFlightIsSum, SumOfNothing
  <2> QED
    BY <2>1, <2>2, BudgetAssumption DEF AccountsInv, RefusalsAreFree
<1>3. CASE tokens[p] <= day
  <2>1. Charged' = Charged \cup {p} /\ bucket' = day - tokens[p] /\ teamUsed' = month + tokens[p]
    BY <1>3 DEF AccountsInv, DeductTeam, BStep, Charged
  <2>2. InFlight' = InFlight + tokens[p] /\ IsFiniteSet(Charged')
    BY <1>1, <2>1, MoreCharges
  <2>3. bucket' \in 0..Daily /\ teamUsed' \in Nat
    BY <1>1, <1>2, <1>3, <2>1, BudgetAssumption
  <2>4. RefusalsAreFree'
    BY <1>1, <1>2, <2>1, <2>2, BudgetAssumption DEF RefusalsAreFree, grants, AccountsInv
  <2> QED
    BY <1>1, <2>2, <2>3, <2>4 DEF AccountsInv, grants, OverThreshold
<1>4. CASE ~(tokens[p] <= day)
  <2>1. Charged' = Charged /\ bucket' = day /\ teamUsed' = month
    BY <1>4 DEF AccountsInv, DeductTeam, BStep, Charged
  <2>2. InFlight' = InFlight
    BY <1>1, <2>1, SameCharges
  <2>3. RefusalsAreFree'
    BY <1>1, <1>2, <2>1, <2>2, BudgetAssumption DEF RefusalsAreFree, grants, AccountsInv
  <2> QED
    BY <1>1, <1>2, <2>1, <2>3 DEF AccountsInv, grants, OverThreshold
<1> QED
  BY <1>3, <1>4

LEMMA ProjectKeepsAccounts == ASSUME AccountsInv, NEW p \in Payers, DeductProject(p) PROVE AccountsInv'
<1> DEFINE month == IF monthOver THEN 0 ELSE used
<1>1. /\ p \in Charged /\ tokens[p] \in Nat /\ tokens[p] <= ProjectMonthly /\ month \in Nat
      /\ tokens' = tokens /\ monthOver' = FALSE /\ UNCHANGED <<teamCounters, straddles, alerted>>
      /\ step' \in [Payers -> {"idle", "team", "project", "refund", "alert"}]
  BY DEF AccountsInv, DeductProject, BStep, Charged
<1>2. ~(teamMonthOver /\ ~straddles)
  BY <1>1 DEF AccountsInv
<1>3. CASE month + tokens[p] <= ProjectMonthly
  <2>1. /\ Charged' = Charged \ {p} /\ step'[p] = "alert" /\ used' = month + tokens[p]
        /\ teamGranted' = teamGranted + tokens[p] /\ grantedToday' = grantedToday + tokens[p]
    BY <1>3 DEF AccountsInv, DeductProject, BStep, Charged
  <2>2. InFlight = InFlight' + tokens[p] /\ InFlight' \in Nat /\ IsFiniteSet(Charged')
    BY <1>1, <2>1, FewerCharges
  <2>3. RefusalsAreFree'
    BY <1>1, <1>2, <2>1, <2>2, BudgetAssumption DEF RefusalsAreFree, teamCounters, AccountsInv
  <2>4. used' \in Nat /\ teamGranted' \in Nat /\ grantedToday' \in Nat
    BY <1>1, <2>1 DEF AccountsInv
  <2> QED
    BY <1>1, <1>2, <2>1, <2>2, <2>3, <2>4 DEF AccountsInv, teamCounters
<1>4. CASE ~(month + tokens[p] <= ProjectMonthly)
  <2>1. ~monthOver
    BY <1>1, <1>4, BudgetAssumption
  <2>2. /\ Charged' = Charged /\ used' = used /\ UNCHANGED grants /\ monthOver' = monthOver
        /\ (\A q \in Payers : step'[q] # "alert") => \A q \in Payers : step[q] # "alert"
    BY <1>4, <2>1 DEF AccountsInv, DeductProject, BStep, Charged
  <2>3. InFlight' = InFlight
    BY <1>1, <2>2, SameCharges
  <2> QED
    BY <1>1, <2>2, <2>3 DEF AccountsInv, teamCounters, grants, RefusalsAreFree, OverThreshold
<1> QED
  BY <1>3, <1>4

LEMMA RefundKeepsAccounts == ASSUME AccountsInv, NEW p \in Payers, RefundTeam(p) PROVE AccountsInv'
<1>1. /\ p \in Charged /\ Charged' = Charged \ {p} /\ tokens[p] \in Nat /\ tokens' = tokens
      /\ UNCHANGED <<dayOver, teamMonthOver, used, monthOver, grants, straddles, alerted>>
      /\ step' \in [Payers -> {"idle", "team", "project", "refund", "alert"}]
      /\ (\A q \in Payers : step'[q] # "alert") => \A q \in Payers : step[q] # "alert"
  BY DEF AccountsInv, RefundTeam, BStep, Charged
<1>2. InFlight = InFlight' + tokens[p] /\ InFlight' \in Nat /\ IsFiniteSet(Charged')
  BY <1>1, FewerCharges
<1>3. /\ bucket' = (IF bucket + tokens[p] < Daily THEN bucket + tokens[p] ELSE Daily)
      /\ teamUsed' = (IF teamUsed < tokens[p] THEN 0 ELSE teamUsed - tokens[p])
  BY DEF RefundTeam, Least
<1>4. bucket' \in 0..Daily /\ teamUsed' \in Nat
  BY <1>1, <1>3, BudgetAssumption DEF AccountsInv
<1>5. ~(teamMonthOver /\ ~straddles)
  BY <1>1 DEF AccountsInv
<1>6. RefusalsAreFree'
  BY <1>1, <1>2, <1>3, <1>5, BudgetAssumption DEF RefusalsAreFree, AccountsInv, grants
<1> QED
  BY <1>1, <1>2, <1>4, <1>5, <1>6 DEF AccountsInv, grants, OverThreshold

\* Alerts, refills, days and months leave the calls in flight alone.
LEMMA OthersKeepAccounts ==
  ASSUME AccountsInv, \/ \E p \in Payers : CheckThreshold(p)
                      \/ Refill \/ NewDay \/ NewMonth \/ UNCHANGED budgetVars
  PROVE  AccountsInv'
<1>1. Charged' = Charged /\ tokens' = tokens
  BY DEF CheckThreshold, Refill, NewDay, NewMonth, BStep, budgetVars, Charged, AccountsInv
<1>2. InFlight' = InFlight /\ InFlight \in Nat
  BY <1>1, SameCharges
<1>3. ASSUME NEW p \in Payers, CheckThreshold(p) PROVE AccountsInv'
  <2>1. /\ step' \in [Payers -> {"idle", "team", "project", "refund", "alert"}]
        /\ alerted' = (alerted \/ OverThreshold) /\ UNCHANGED <<teamCounters, used, monthOver, grants, straddles>>
    BY <1>3 DEF CheckThreshold, BStep, AccountsInv
  <2>2. alerted' \in BOOLEAN /\ OverThreshold' = OverThreshold
    BY <2>1 DEF OverThreshold, AccountsInv
  <2> QED
    BY <1>1, <1>2, <2>1, <2>2 DEF AccountsInv, RefusalsAreFree, teamCounters, grants
<1>4. CASE Refill
  BY <1>1, <1>2, <1>4, BudgetAssumption DEF Refill, AccountsInv, RefusalsAreFree, grants, OverThreshold
<1>5. CASE NewDay
  BY <1>1, <1>2, <1>5 DEF NewDay, AccountsInv, RefusalsAreFree, OverThreshold
<1>6. CASE NewMonth
  BY <1>1, <1>2, <1>6 DEF NewMonth, AccountsInv, RefusalsAreFree
<1>7. CASE UNCHANGED budgetVars
  BY <1>1, <1>2, <1>7 DEF budgetVars, AccountsInv, RefusalsAreFree, OverThreshold
<1> QED
  BY <1>3, <1>4, <1>5, <1>6, <1>7

LEMMA AccountsStep == AccountsInv /\ [BNext]_budgetVars => AccountsInv'
  BY CheckKeepsAccounts, TeamKeepsAccounts, ProjectKeepsAccounts, RefundKeepsAccounts, OthersKeepAccounts
     DEF BNext

\* However the calls of a team overlap, wherever days and months end and whichever are
\* refused, for any number of calls of any sizes: the team pays for what was granted and what
\* is under way, and for nothing else, and a project over its threshold has been alerted.
THEOREM AccountsStayExact == BSpec => []AccountsAreExact
  BY AccountsInitially, AccountsStep, AccountsAgree, PTL DEF BSpec

-----------------------------------------------------------------------------
\* The cache of prompts: only a goroutine that is deleting has vectors to delete, and whoever
\* looks up or stores is about a prompt.
CacheStates == [op : {"idle", "remove", "search", "try", "upsert", "insert", "delete"},
                key : Keys \cup {NoPrompt}, cands : SUBSET Keys, doomed : SUBSET Keys]
Legal(s) == /\ s.op # "delete" => s.doomed = {}
            /\ s.key \in Keys \/ (s.op \in {"idle", "delete"} /\ s.cands = {})
CacheInv ==
  /\ entry \in [Keys -> {"none", "fresh", "expired"}] /\ vectors \subseteq Keys
  /\ jobs \in Seq(SUBSET Keys) /\ cache \in {"on", "stopping", "stopped"}
  /\ at \in [Goroutines -> CacheStates] /\ \A g \in Goroutines : Legal(at[g])
  /\ VectorsHaveOwners /\ StopDrains

LEMMA StatesOfGoroutines ==
  /\ Idle \in CacheStates /\ Idle.op = "idle" /\ Idle.doomed = {} /\ Legal(Idle)
  /\ \A k \in Keys, op \in {"remove", "search", "upsert", "insert"} :
       /\ Doing(op, k) \in CacheStates /\ Doing(op, k).op = op /\ Doing(op, k).key = k
       /\ Doing(op, k).doomed = {} /\ Legal(Doing(op, k))
  /\ \A k \in Keys, ks \in SUBSET Keys :
       Trying(k, ks) \in CacheStates /\ Trying(k, ks).doomed = {} /\ Legal(Trying(k, ks))
  /\ \A k : Trying(k, {}) = Idle
  /\ \A k \in Keys \cup {NoPrompt}, ks \in SUBSET Keys, rest \in SUBSET Keys :
       /\ Deleting(k, ks, rest) \in CacheStates /\ Deleting(k, ks, rest).doomed = ks
       /\ k \in Keys \/ rest = {} => Legal(Deleting(k, ks, rest))
<1>1. /\ Idle \in CacheStates /\ Idle.op = "idle" /\ Idle.doomed = {} /\ Legal(Idle)
  BY DEF Idle, CacheStates, NoPrompt, Legal
<1>2. ASSUME NEW k \in Keys, NEW op \in {"remove", "search", "upsert", "insert"}
      PROVE  /\ Doing(op, k) \in CacheStates /\ Doing(op, k).op = op /\ Doing(op, k).key = k
             /\ Doing(op, k).doomed = {} /\ Legal(Doing(op, k))
  <2>1. /\ Doing(op, k).op = op /\ Doing(op, k).key = k
        /\ Doing(op, k).cands = {} /\ Doing(op, k).doomed = {}
    BY DEF Doing, Idle
  <2>2. Doing(op, k) \in CacheStates
    BY DEF Doing, Idle, CacheStates
  <2> QED
    BY <2>1, <2>2 DEF Legal
<1>3. ASSUME NEW k \in Keys, NEW ks \in SUBSET Keys
      PROVE  Trying(k, ks) \in CacheStates /\ Trying(k, ks).doomed = {} /\ Legal(Trying(k, ks))
  <2>1. CASE ks = {}
    BY <1>1, <2>1 DEF Trying
  <2>2. CASE ks # {}
    <3>1. Trying(k, ks) = [op |-> "try", key |-> k, cands |-> ks, doomed |-> {}]
      BY <2>2 DEF Trying, Doing, Idle
    <3> QED
      BY <3>1 DEF CacheStates, Legal
  <2> QED
    BY <2>1, <2>2
<1>4. \A k : Trying(k, {}) = Idle
  BY DEF Trying
<1>5. ASSUME NEW k \in Keys \cup {NoPrompt}, NEW ks \in SUBSET Keys, NEW rest \in SUBSET Keys
      PROVE  /\ Deleting(k, ks, rest) \in CacheStates /\ Deleting(k, ks, rest).doomed = ks
             /\ k \in Keys \/ rest = {} => Legal(Deleting(k, ks, rest))
  <2>1. /\ Deleting(k, ks, rest).op = "delete" /\ Deleting(k, ks, rest).key = k
        /\ Deleting(k, ks, rest).cands = rest /\ Deleting(k, ks, rest).doomed = ks
    BY DEF Deleting, Doing, Idle
  <2>2. Deleting(k, ks, rest) \in CacheStates
    BY DEF Deleting, Doing, Idle, CacheStates
  <2> QED
    BY <2>1, <2>2 DEF Legal
<1> QED
  BY <1>1, <1>2, <1>3, <1>4, <1>5

\* A goroutine moves on: what it loses, an entry or a vector it was about to give one, it takes
\* with it to be deleted.
LEMMA Moving ==
  ASSUME CacheInv, NEW g \in Goroutines, NEW s \in CacheStates, Legal(s), Becomes(g, s),
         entry' \in [Keys -> {"none", "fresh", "expired"}], UNCHANGED <<vectors, jobs, cache, leaked>>,
         \A k \in Keys : entry[k] # "none" => entry'[k] # "none" \/ k \in s.doomed,
         at[g].op # "delete",
         at[g].op = "insert" => entry'[at[g].key] # "none" \/ at[g].key \in s.doomed
  PROVE  CacheInv'
<1>1. /\ at' \in [Goroutines -> CacheStates] /\ \A h \in Goroutines : Legal(at'[h])
      /\ at'[g] = s /\ \A h \in Goroutines : h # g => at'[h] = at[h]
  BY DEF CacheInv, Becomes
<1>2. VectorsHaveOwners'
  <2> SUFFICES ASSUME NEW k \in vectors, entry'[k] = "none", k \notin leaked
               PROVE  \/ \E h \in Goroutines : at'[h].op = "insert" /\ at'[h].key = k
                      \/ \E h \in Goroutines : k \in at'[h].doomed
                      \/ \E i \in DOMAIN jobs : k \in jobs[i]
    BY DEF VectorsHaveOwners
  <2>0. k \in Keys /\ at[g].doomed = {}
    BY DEF CacheInv, Legal
  <2>1. CASE entry[k] # "none"
    BY <1>1, <2>0, <2>1
  <2>2. CASE \E h \in Goroutines : at[h].op = "insert" /\ at[h].key = k
    BY <1>1, <2>2
  <2>3. CASE \E h \in Goroutines : k \in at[h].doomed
    BY <1>1, <2>0, <2>3
  <2> QED
    BY <2>1, <2>2, <2>3 DEF CacheInv, VectorsHaveOwners
<1> QED
  BY <1>1, <1>2 DEF CacheInv, StopDrains

\* The steps of a caller.
LEMMA CallersMove ==
  ASSUME CacheInv, NEW g \in Lookers,
         \/ \E k \in Keys : Get(g, k) \/ Set(g, k) \/ TryHit(g, k)
         \/ RemoveExpired(g) \/ Search(g) \/ Insert(g)
         \/ \E ks \in SUBSET Keys : Purge(g, ks)
  PROVE  CacheInv'
<1>0. /\ g \in Goroutines /\ at[g] \in CacheStates /\ Legal(at[g])
      /\ at[g].doomed \in SUBSET Keys /\ at[g].cands \in SUBSET Keys
  BY DEF Goroutines, CacheInv, CacheStates
<1>1. ASSUME NEW k \in Keys, Get(g, k) PROVE CacheInv'
  <2>0. at[g].op = "idle" /\ UNCHANGED <<entry, vectors, jobs, cache, leaked>>
    BY <1>1 DEF Get, IsAt
  <2>1. CASE UNCHANGED at
    BY <2>0, <2>1 DEF CacheInv, VectorsHaveOwners, StopDrains
  <2>2. ASSUME NEW op \in {"remove", "search"}, Becomes(g, Doing(op, k)) PROVE CacheInv'
    <3> DEFINE s == Doing(op, k)
    <3>1. s \in CacheStates /\ Legal(s)
      BY StatesOfGoroutines
    <3> HIDE DEF s
    <3>2. Becomes(g, s) /\ entry' = entry
      BY <2>0, <2>2 DEF s
    <3> QED
      BY <1>0, <2>0, <3>1, <3>2, Moving DEF CacheInv
  <2> QED
    BY <1>1, <2>1, <2>2 DEF Get
<1>2. ASSUME NEW k \in Keys, Set(g, k) PROVE CacheInv'
  <2>1. PICK op \in {"upsert", "insert"} : Becomes(g, Doing(op, k))
    BY <1>2 DEF Set
  <2> DEFINE s == Doing(op, k)
  <2>2. s \in CacheStates /\ Legal(s)
    BY StatesOfGoroutines
  <2>3. /\ Becomes(g, s) /\ at[g].op = "idle" /\ UNCHANGED <<entry, vectors, jobs, cache, leaked>>
        /\ entry \in [Keys -> {"none", "fresh", "expired"}]
    BY <1>2, <2>1 DEF Set, IsAt, CacheInv
  <2> HIDE DEF s
  <2> QED
    BY <1>0, <2>2, <2>3, Moving
<1>3. ASSUME NEW c \in Keys, TryHit(g, c) PROVE CacheInv'
  <2> DEFINE k == at[g].key
             rest == at[g].cands \ {c}
  <2>1. k \in Keys /\ rest \in SUBSET Keys /\ at[g].op = "try" /\ UNCHANGED <<vectors, jobs, cache, leaked>>
    BY <1>0, <1>3 DEF TryHit, IsAt, Legal
  <2>2. ASSUME NEW s \in {Idle, Trying(k, rest)}, Becomes(g, s), UNCHANGED entry PROVE CacheInv'
    <3>1. s \in CacheStates /\ Legal(s)
      BY <2>1, StatesOfGoroutines
    <3> QED
      BY <1>0, <2>1, <2>2, <3>1, Moving DEF CacheInv
  <2>3. ASSUME Removes({c}), Becomes(g, Deleting(k, {c}, rest)) PROVE CacheInv'
    <3> DEFINE s == Deleting(k, {c}, rest)
    <3>1. s \in CacheStates /\ Legal(s) /\ s.doomed = {c}
      BY <2>1, StatesOfGoroutines
    <3> HIDE DEF s
    <3>2. Becomes(g, s) /\ entry' = [j \in Keys |-> IF j \in {c} THEN "none" ELSE entry[j]]
      BY <2>3 DEF s, Removes
    <3>3. /\ entry' \in [Keys -> {"none", "fresh", "expired"}]
          /\ \A j \in Keys : entry[j] # "none" => entry'[j] # "none" \/ j \in s.doomed
      BY <3>1, <3>2 DEF CacheInv
    <3> QED
      BY <1>0, <2>1, <3>1, <3>2, <3>3, Moving
  <2> QED
    BY <1>3, <2>2, <2>3 DEF TryHit
<1>4. ASSUME RemoveExpired(g) PROVE CacheInv'
  <2> DEFINE k == at[g].key
  <2>1. k \in Keys /\ at[g].op = "remove" /\ UNCHANGED <<vectors, jobs, cache, leaked>>
    BY <1>0, <1>4 DEF RemoveExpired, IsAt, Legal
  <2>2. ASSUME Becomes(g, Idle), UNCHANGED entry PROVE CacheInv'
    BY <1>0, <2>1, <2>2, Moving, StatesOfGoroutines DEF CacheInv
  <2>3. ASSUME Removes({k}), Becomes(g, Deleting(k, {k}, {})) PROVE CacheInv'
    <3> DEFINE s == Deleting(k, {k}, {})
    <3>1. s \in CacheStates /\ Legal(s) /\ s.doomed = {k}
      BY <2>1, StatesOfGoroutines
    <3> HIDE DEF s
    <3>2. Becomes(g, s) /\ entry' = [j \in Keys |-> IF j \in {k} THEN "none" ELSE entry[j]]
      BY <2>3 DEF s, Removes
    <3>3. /\ entry' \in [Keys -> {"none", "fresh", "expired"}]
          /\ \A j \in Keys : entry[j] # "none" => entry'[j] # "none" \/ j \in s.doomed
      BY <3>1, <3>2 DEF CacheInv
    <3> QED
      BY <1>0, <2>1, <3>1, <3>2, <3>3, Moving
  <2> QED
    BY <1>4, <2>2, <2>3 DEF RemoveExpired
<1>5. ASSUME Search(g) PROVE CacheInv'
  <2>1. PICK found \in SUBSET vectors : Becomes(g, Trying(at[g].key, found))
    BY <1>5 DEF Search
  <2> DEFINE s == Trying(at[g].key, found)
  <2>2. at[g].key \in Keys /\ at[g].op = "search" /\ UNCHANGED <<entry, vectors, jobs, cache, leaked>>
    BY <1>0, <1>5 DEF Search, IsAt, Legal
  <2>3. s \in CacheStates /\ Legal(s)
    BY <2>2, StatesOfGoroutines DEF CacheInv
  <2>4. Becomes(g, s) /\ entry \in [Keys -> {"none", "fresh", "expired"}]
    BY <2>1 DEF CacheInv
  <2> HIDE DEF s
  <2> QED
    BY <1>0, <2>2, <2>3, <2>4, Moving
<1>6. ASSUME Insert(g) PROVE CacheInv'
  <2> DEFINE k == at[g].key
  <2>1. k \in Keys /\ at[g].op = "insert" /\ UNCHANGED <<vectors, jobs, cache, leaked>>
    BY <1>0, <1>6 DEF Insert, IsAt, Legal
  <2>2. PICK victims \in SUBSET (Present \cup {k}) :
          /\ entry' = [j \in Keys |-> IF j \in victims THEN "none" ELSE IF j = k THEN "fresh" ELSE entry[j]]
          /\ Becomes(g, IF victims = {} THEN Idle ELSE Deleting(k, victims, {}))
    BY <1>6 DEF Insert
  <2> DEFINE s == IF victims = {} THEN Idle ELSE Deleting(k, victims, {})
  <2>3. victims \in SUBSET Keys
    BY <2>1 DEF Present
  <2>4. s \in CacheStates /\ Legal(s) /\ s.doomed = victims
    <3>1. k \in Keys \cup {NoPrompt} /\ {} \in SUBSET Keys
      BY <2>1
    <3>2. /\ Deleting(k, victims, {}) \in CacheStates /\ Deleting(k, victims, {}).doomed = victims
          /\ Legal(Deleting(k, victims, {}))
      <4>1. \A ks \in SUBSET Keys : /\ Deleting(k, ks, {}) \in CacheStates
                                   /\ Deleting(k, ks, {}).doomed = ks /\ Legal(Deleting(k, ks, {}))
        BY <2>1, <3>1, StatesOfGoroutines
      <4> QED
        BY <2>3, <4>1
    <3> QED
      BY <3>2, StatesOfGoroutines
  <2>5. Becomes(g, s)
    BY <2>2
  <2> HIDE DEF s
  <2>6. /\ entry' \in [Keys -> {"none", "fresh", "expired"}]
        /\ \A j \in Keys : entry[j] # "none" => entry'[j] # "none" \/ j \in s.doomed
        /\ entry'[k] # "none" \/ k \in s.doomed
    BY <2>1, <2>2, <2>4 DEF CacheInv
  <2> QED
    BY <1>0, <2>1, <2>4, <2>5, <2>6, Moving
<1>7. ASSUME NEW ks \in SUBSET Keys, Purge(g, ks) PROVE CacheInv'
  <2> DEFINE s == Deleting(NoPrompt, ks \cap Present, {})
  <2>1. at[g].op = "idle" /\ UNCHANGED <<vectors, jobs, cache, leaked>>
    BY <1>7 DEF Purge, IsAt
  <2>2. s \in CacheStates /\ Legal(s) /\ s.doomed = ks \cap Present
    <3>1. NoPrompt \in Keys \cup {NoPrompt} /\ {} \in SUBSET Keys /\ ks \cap Present \in SUBSET Keys
      OBVIOUS
    <3> QED
      BY <3>1, StatesOfGoroutines
  <2> HIDE DEF s
  <2>3. Becomes(g, s) /\ entry' = [j \in Keys |-> IF j \in ks THEN "none" ELSE entry[j]]
    BY <1>7 DEF s, Purge, Removes
  <2>4. /\ entry' \in [Keys -> {"none", "fresh", "expired"}]
        /\ \A j \in Keys : entry[j] # "none" => entry'[j] # "none" \/ j \in s.doomed
    BY <2>2, <2>3 DEF CacheInv, Present
  <2> QED
    BY <1>0, <2>1, <2>2, <2>3, <2>4, Moving
<1> QED
  BY <1>1, <1>2, <1>3, <1>4, <1>5, <1>6, <1>7

LEMMA JanitorMoves == ASSUME CacheInv, EvictExpired PROVE CacheInv'
<1> DEFINE old == {k \in Keys : entry[k] = "expired"}
           s == Deleting(NoPrompt, old, {})
<1>1. Janitor \in Goroutines /\ at[Janitor].op = "idle" /\ UNCHANGED <<vectors, jobs, cache, leaked>>
  BY DEF EvictExpired, IsAt, Goroutines
<1>2. s \in CacheStates /\ Legal(s) /\ s.doomed = old
  BY StatesOfGoroutines
<1> HIDE DEF s
<1>3. Becomes(Janitor, s) /\ entry' = [j \in Keys |-> IF j \in old THEN "none" ELSE entry[j]]
  BY DEF s, EvictExpired, Removes
<1>4. /\ entry' \in [Keys -> {"none", "fresh", "expired"}]
      /\ \A j \in Keys : entry[j] # "none" => entry'[j] # "none" \/ j \in s.doomed
  BY <1>2, <1>3 DEF CacheInv
<1> QED
  BY <1>1, <1>2, <1>3, <1>4, Moving

\* A vector that is written has somebody who will insert its entry.
LEMMA UpsertKeepsCache == ASSUME CacheInv, NEW g \in Lookers, Upsert(g) PROVE CacheInv'
<1> DEFINE k == at[g].key
           s == Doing("insert", k)
<1>1. /\ g \in Goroutines /\ at[g].op = "upsert" /\ k \in Keys /\ at[g].doomed = {}
      /\ UNCHANGED <<entry, jobs, cache>> /\ vectors' = vectors \cup {k} /\ leaked' = leaked \ {k}
  BY DEF Upsert, IsAt, CacheInv, Goroutines, Legal
<1>2. s \in CacheStates /\ Legal(s) /\ s.op = "insert" /\ s.key = k
  BY <1>1, StatesOfGoroutines
<1>3. Becomes(g, s)
  BY DEF Upsert
<1> HIDE DEF s
<1>4. /\ at' \in [Goroutines -> CacheStates] /\ \A h \in Goroutines : Legal(at'[h])
      /\ at'[g] = s /\ \A h \in Goroutines : h # g => at'[h] = at[h]
  BY <1>1, <1>2, <1>3 DEF CacheInv, Becomes
<1>5. VectorsHaveOwners'
  <2> SUFFICES ASSUME NEW j \in vectors', entry'[j] = "none", j \notin leaked', j # k
               PROVE  \/ \E h \in Goroutines : at'[h].op = "insert" /\ at'[h].key = j
                      \/ \E h \in Goroutines : j \in at'[h].doomed
                      \/ \E i \in DOMAIN jobs' : j \in jobs'[i]
    BY <1>1, <1>2, <1>4 DEF VectorsHaveOwners
  <2>1. j \in vectors /\ entry[j] = "none" /\ j \notin leaked
    BY <1>1
  <2>2. CASE \E h \in Goroutines : at[h].op = "insert" /\ at[h].key = j
    BY <1>1, <1>4, <2>2
  <2>3. CASE \E h \in Goroutines : j \in at[h].doomed
    BY <1>1, <1>4, <2>3
  <2> QED
    BY <1>1, <2>1, <2>2, <2>3 DEF CacheInv, VectorsHaveOwners
<1> QED
  BY <1>1, <1>4, <1>5 DEF CacheInv, StopDrains

\* What a goroutine was to delete becomes a job, or is left behind.
LEMMA HandingOver == ASSUME CacheInv, NEW g \in Goroutines, AsyncDelete(g) PROVE CacheInv'
<1> DEFINE s == Trying(at[g].key, at[g].cands)
<1>1. at[g] \in CacheStates /\ at[g].op = "delete" /\ UNCHANGED <<entry, vectors, cache>>
  BY DEF AsyncDelete, IsAt, CacheInv
<1>2. s \in CacheStates /\ Legal(s) /\ s.doomed = {}
  <2>1. at[g].cands \in SUBSET Keys /\ (at[g].key \in Keys \/ at[g].cands = {})
    BY <1>1 DEF CacheStates, CacheInv, Legal
  <2>2. CASE at[g].key \in Keys
    BY ONLY <2>1, <2>2, StatesOfGoroutines
  <2>3. CASE at[g].cands = {}
    <3>1. s = Idle
      BY ONLY <2>3, StatesOfGoroutines
    <3> QED
      BY ONLY <3>1, StatesOfGoroutines
  <2> QED
    BY ONLY <2>1, <2>2, <2>3
<1>3. Becomes(g, s)
  BY DEF AsyncDelete
<1> HIDE DEF s
<1>4. /\ at' \in [Goroutines -> CacheStates] /\ \A h \in Goroutines : Legal(at'[h])
      /\ at'[g] = s /\ \A h \in Goroutines : h # g => at'[h] = at[h]
  BY <1>1, <1>2, <1>3 DEF CacheInv, Becomes
\* Whoever is about to insert still is, and other goroutines have what they had.
<1>5. ASSUME NEW j \in vectors, entry[j] = "none", j \notin leaked, j \notin at[g].doomed
      PROVE  \/ \E h \in Goroutines : at'[h].op = "insert" /\ at'[h].key = j
             \/ \E h \in Goroutines : j \in at'[h].doomed
             \/ \E i \in DOMAIN jobs : j \in jobs[i]
  <2>1. CASE \E h \in Goroutines : at[h].op = "insert" /\ at[h].key = j
    BY <1>1, <1>4, <2>1
  <2>2. CASE \E h \in Goroutines : j \in at[h].doomed
    BY <1>4, <1>5, <2>2
  <2> QED
    BY <1>5, <2>1, <2>2 DEF CacheInv, VectorsHaveOwners
<1>6. CASE cache = "on" /\ jobs' = Append(jobs, at[g].doomed) /\ UNCHANGED leaked
  <2>1. /\ jobs' \in Seq(SUBSET Keys) /\ \A i \in DOMAIN jobs : i \in DOMAIN jobs' /\ jobs'[i] = jobs[i]
        /\ Len(jobs) + 1 \in DOMAIN jobs' /\ jobs'[Len(jobs) + 1] = at[g].doomed
    BY <1>1, <1>6 DEF CacheInv, CacheStates
  <2>2. VectorsHaveOwners'
    BY <1>1, <1>5, <1>6, <2>1 DEF VectorsHaveOwners
  <2> QED
    BY <1>1, <1>4, <1>6, <2>1, <2>2 DEF CacheInv, StopDrains
<1>7. CASE leaked' = leaked \cup (at[g].doomed \cap vectors) /\ UNCHANGED jobs
  <2>1. VectorsHaveOwners'
    BY <1>1, <1>5, <1>7 DEF VectorsHaveOwners
  <2> QED
    BY <1>1, <1>4, <1>7, <2>1 DEF CacheInv, StopDrains
<1> QED
  BY <1>6, <1>7 DEF AsyncDelete

\* Without one of its elements a sequence has the others.
LEMMA BehindIt ==
  ASSUME NEW l \in Nat, NEW i \in 1..l, NEW j \in 1..l, j > i
  PROVE  \E m \in 1..l - 1, n \in 1..l - i : ~(m <= i - 1) /\ n = m - (i - 1) /\ i + n = j
<1>1. j - 1 \in 1..l - 1 /\ ~(j - 1 <= i - 1)
  OBVIOUS
<1>2. j - i \in 1..l - i /\ j - i = j - 1 - (i - 1) /\ i + (j - i) = j
  OBVIOUS
<1> WITNESS j - 1 \in 1..l - 1, j - i \in 1..l - i
<1> QED
  BY ONLY <1>1, <1>2

LEMMA RemovingOne ==
  ASSUME NEW S, NEW s \in Seq(S), NEW i \in DOMAIN s
  PROVE  /\ RemoveAt(s, i) \in Seq(S)
         /\ \A j \in DOMAIN s \ {i} : \E m \in DOMAIN RemoveAt(s, i) : RemoveAt(s, i)[m] = s[j]
<1> DEFINE a == SubSeq(s, 1, i - 1)
           b == SubSeq(s, i + 1, Len(s))
<1>1. i \in 1..Len(s) /\ Len(s) \in Nat
  OBVIOUS
<1>2. /\ a \in Seq(S) /\ Len(a) = i - 1 /\ \A m \in 1..i - 1 : a[m] = s[m]
      /\ b \in Seq(S) /\ Len(b) = Len(s) - i /\ \A m \in 1..Len(s) - i : b[m] = s[i + m]
  BY <1>1
<1>3. RemoveAt(s, i) = a \o b
  BY DEF RemoveAt
<1> HIDE DEF a, b
<1>4. /\ a \o b \in Seq(S) /\ Len(a \o b) = Len(s) - 1
      /\ \A m \in 1..Len(s) - 1 : (a \o b)[m] = IF m <= i - 1 THEN a[m] ELSE b[m - (i - 1)]
  <2>1. /\ a \o b \in Seq(S) /\ Len(a \o b) = Len(a) + Len(b)
        /\ \A m \in 1..Len(a) + Len(b) :
             (a \o b)[m] = IF m <= Len(a) THEN a[m] ELSE b[m - Len(a)]
    BY ONLY <1>2, ConcatProperties
  <2>2. Len(a) = i - 1 /\ Len(a) + Len(b) = Len(s) - 1
    BY <1>1, <1>2
  <2> QED
    BY ONLY <2>1, <2>2
<1>5. ASSUME NEW j \in DOMAIN s \ {i} PROVE \E m \in DOMAIN (a \o b) : (a \o b)[m] = s[j]
  <2>1. CASE j < i
    BY <1>1, <1>2, <1>4, <2>1
  <2>2. CASE j > i
    <3>1. PICK m \in 1..Len(s) - 1, n \in 1..Len(s) - i : ~(m <= i - 1) /\ n = m - (i - 1) /\ i + n = j
      <4>1. j \in 1..Len(s)
        BY <1>1
      <4> DEFINE l == Len(s)
      <4>2. l \in Nat /\ i \in 1..l /\ j \in 1..l
        BY <1>1, <4>1
      <4> HIDE DEF l
      <4>3. \E m \in 1..l - 1, n \in 1..l - i : ~(m <= i - 1) /\ n = m - (i - 1) /\ i + n = j
        BY <2>2, <4>2, BehindIt, ZenonT(60)
      <4> QED
        BY <4>3 DEF l
    <3>2. (a \o b)[m] = b[n]
      <4>1. (a \o b)[m] = IF m <= i - 1 THEN a[m] ELSE b[m - (i - 1)]
        BY ONLY <1>4, <3>1, Zenon
      <4> HIDE DEF a, b
      <4> QED
        BY <3>1, <4>1, Zenon
    <3>3. b[n] = s[i + n]
      BY <1>2
    <3>4. m \in DOMAIN (a \o b)
      <4>1. DOMAIN (a \o b) = 1..Len(a \o b)
        BY <1>4
      <4> QED
        BY <1>4, <4>1
    <3> QED
      BY <3>1, <3>2, <3>3, <3>4
  <2> QED
    BY <1>1, <2>1, <2>2
<1> QED
  BY <1>3, <1>4, <1>5

\* A job that has reached the store, or failed, leaves the others.
LEMMA DeletingKeepsCache == ASSUME CacheInv, NEW i \in 1..MaxJobs, Delete(i) PROVE CacheInv'
<1>1. i \in DOMAIN jobs /\ jobs' = RemoveAt(jobs, i) /\ UNCHANGED <<entry, cache, at>>
  BY DEF Delete
<1>2. /\ jobs' \in Seq(SUBSET Keys) /\ jobs \in Seq(SUBSET Keys)
      /\ \A j \in DOMAIN jobs \ {i} : \E m \in DOMAIN jobs' : jobs'[m] = jobs[j]
  BY <1>1, RemovingOne DEF CacheInv
<1>3. /\ vectors' \subseteq vectors
      /\ \A k \in vectors' : k \in jobs[i] => k \in leaked'
      /\ \A k \in vectors' : k \in leaked => k \in leaked'
  BY DEF Delete
<1>4. VectorsHaveOwners'
  <2> SUFFICES ASSUME NEW k \in vectors', entry[k] = "none", k \notin leaked',
                      ~\E g \in Goroutines : at[g].op = "insert" /\ at[g].key = k,
                      ~\E g \in Goroutines : k \in at[g].doomed
               PROVE  \E m \in DOMAIN jobs' : k \in jobs'[m]
    BY <1>1 DEF VectorsHaveOwners
  <2>1. PICK j \in DOMAIN jobs : k \in jobs[j]
    BY <1>3 DEF CacheInv, VectorsHaveOwners
  <2> QED
    BY <1>2, <1>3, <2>1
<1>5. StopDrains'
  BY <1>1 DEF CacheInv, StopDrains
<1> QED
  BY <1>1, <1>2, <1>3, <1>4, <1>5 DEF CacheInv

LEMMA CacheInitially == SCInit => CacheInv
  BY StatesOfGoroutines DEF SCInit, CacheInv, VectorsHaveOwners, StopDrains

LEMMA CacheStep == CacheInv /\ [SCNext]_cacheVars => CacheInv'
<1> SUFFICES ASSUME CacheInv, [SCNext]_cacheVars PROVE CacheInv'
  OBVIOUS
<1>1. ASSUME NEW k \in Keys, Expire(k) PROVE CacheInv'
  BY <1>1 DEF Expire, CacheInv, VectorsHaveOwners, StopDrains
<1>2. CASE Stop \/ Stopped \/ UNCHANGED cacheVars
  BY <1>2 DEF Stop, Stopped, cacheVars, CacheInv, VectorsHaveOwners, StopDrains
<1> QED
  BY <1>1, <1>2, CallersMove, UpsertKeepsCache, JanitorMoves, HandingOver, DeletingKeepsCache DEF SCNext

\* However lookups, insertions, evictions, purges and the stop of the cache overlap, for any
\* number of callers, prompts and entries: a vector in the store has an entry, or somebody on
\* the way to insert or to delete it, unless the store failed, and once the cache has been
\* stopped nothing is on the way to the store.
THEOREM VectorsStayTended == SCSpec => []VectorsAreTended
<1>1. CacheInv => VectorsAreTended
  BY DEF CacheInv, VectorsAreTended
<1> QED
  BY <1>1, CacheInitially, CacheStep, PTL DEF SCSpec

-----------------------------------------------------------------------------
\* A batch that is written to a table.
WrittenTo(table, batch) == FoldLeft(LAMBDA t, rec : [t EXCEPT ![rec.id] = rec.vec], table, batch)
Writes(f, table, batch) ==
  f = [s \in SUBSET DOMAIN batch |->
         IF s = {} THEN table
         ELSE [f[s \ {Max(s)}] EXCEPT ![batch[Max(s)].id] = batch[Max(s)].vec]]

LEMMA WritingUnfolds ==
  ASSUME NEW table, NEW batch
  PROVE  WrittenTo(table, batch) = (CHOOSE f : Writes(f, table, batch))[DOMAIN batch]
  BY DEF WrittenTo, Writes, FoldLeft, MapThenFoldSet

LEMMA WritingIsDefined ==
  ASSUME NEW batch \in Seq(Records), NEW table \in Table
  PROVE  \E f : Writes(f, table, batch)
<1> DEFINE n == Len(batch)
           h == [q \in (1..n) \X Table |-> [q[2] EXCEPT ![batch[q[1]].id] = batch[q[1]].vec]]
<1>1. n \in Nat /\ DOMAIN batch = 1..n
  OBVIOUS
<1>2. ASSUME NEW i \in 1..n, NEW t \in Table
      PROVE  h[<<i, t>>] = [t EXCEPT ![batch[i].id] = batch[i].vec] /\ h[<<i, t>>] \in Table
  <2>1. batch[i].id \in Ids /\ batch[i].vec \in Vecs
    <3>1. batch[i] \in Records
      OBVIOUS
    <3> QED
      BY ONLY <3>1 DEF Records
  <2>2. h[<<i, t>>] = [t EXCEPT ![batch[i].id] = batch[i].vec]
    OBVIOUS
  <2> HIDE DEF h
  <2> QED
    BY <2>1, <2>2 DEF Table
<1>3. \A s \in SUBSET (1..n) : s # {} => Max(s) \in 1..n
  BY <1>1, LastIsIn
<1> HIDE DEF h, n
<1>4. PICK f : FoldsInOrder(f, table, h, n) /\ \A s \in SUBSET (1..n) : f[s] \in Table
  BY <1>1, <1>2, OrderedFold
<1>5. ASSUME NEW s \in SUBSET (1..n), s # {}
      PROVE  h[<<Max(s), f[s \ {Max(s)}]>>] = [f[s \ {Max(s)}] EXCEPT ![batch[Max(s)].id] = batch[Max(s)].vec]
  <2>1. Max(s) \in 1..n /\ f[s \ {Max(s)}] \in Table
    BY <1>3, <1>4, <1>5
  <2> QED
    BY <1>2, <2>1
<1>6. f = [s \in SUBSET (1..n) |-> IF s = {} THEN table ELSE h[<<Max(s), f[s \ {Max(s)}]>>]]
  BY <1>4 DEF FoldsInOrder
<1>7. f = [s \in SUBSET (1..n) |-> IF s = {} THEN table
                              ELSE [f[s \ {Max(s)}] EXCEPT ![batch[Max(s)].id] = batch[Max(s)].vec]]
  BY <1>5, <1>6
<1> QED
  BY <1>1, <1>7 DEF Writes

\* The names in the batch get the vectors of the batch whatever the table, and the others keep
\* theirs.
LEMMA BatchesAreWritten ==
  ASSUME NEW batch \in Seq(Records), NEW t \in Table, NEW u \in Table
  PROVE  /\ WrittenTo(t, batch) \in Table /\ WrittenTo(u, batch) \in Table
         /\ \A id \in Ids : IF \E i \in DOMAIN batch : batch[i].id = id
                            THEN WrittenTo(t, batch)[id] = WrittenTo(u, batch)[id]
                            ELSE WrittenTo(t, batch)[id] = t[id] /\ WrittenTo(u, batch)[id] = u[id]
<1> DEFINE D == DOMAIN batch
           f == CHOOSE g : Writes(g, t, batch)
           k == CHOOSE g : Writes(g, u, batch)
           Good(s) == /\ f[s] \in Table /\ k[s] \in Table
                      /\ \A id \in Ids : IF \E i \in s : batch[i].id = id THEN f[s][id] = k[s][id]
                                         ELSE f[s][id] = t[id] /\ k[s][id] = u[id]
           X == {s \in SUBSET D : ~Good(s)}
<1>1. Writes(f, t, batch) /\ Writes(k, u, batch) /\ IsFiniteSet(D)
  BY WritingIsDefined, PlacesAreFinite
<1>2. Len(batch) \in Nat /\ D = 1..Len(batch)
  OBVIOUS
<1>3. X = {}
  <2> SUFFICES ASSUME X # {} PROVE FALSE
    OBVIOUS
  <2>1. PICK s \in X : \A r \in X : r \subseteq s => r = s
    <3>1. X \in SUBSET SUBSET D
      OBVIOUS
    <3> HIDE DEF X, D
    <3> QED
      BY <1>1, <3>1, SmallestSubset
  <2> DEFINE m == Max(s)
             r == s \ {m}
  <2>2. /\ f[s] = IF s = {} THEN t ELSE [f[r] EXCEPT ![batch[m].id] = batch[m].vec]
        /\ k[s] = IF s = {} THEN u ELSE [k[r] EXCEPT ![batch[m].id] = batch[m].vec]
    <3> HIDE DEF f, k
    <3> QED
      BY <1>1, <2>1 DEF Writes
  <2>3. s # {}
    BY <2>1, <2>2
  <2>4. m \in s /\ m \in D
    <3>1. s \in SUBSET (1..Len(batch))
      BY <2>1, <1>2
    <3> QED
      BY <2>1, <2>3, <3>1, <1>2, LastIsIn
  <2>5. Good(r)
    <3>1. r # s /\ r \subseteq s /\ r \in SUBSET D
      BY <2>1, <2>4
    <3>2. r \notin X
      BY <2>1, <3>1
    <3> HIDE DEF Good, r, m
    <3> QED
      BY <3>1, <3>2
  <2>6. batch[m].id \in Ids /\ batch[m].vec \in Vecs
    <3>1. batch[m] \in Records
      BY <2>4
    <3> QED
      BY ONLY <3>1 DEF Records
  <2>9. f[r] \in Table /\ k[r] \in Table
    BY <2>5
  <2> HIDE DEF f, k, m, D
  <2>7. f[s] \in Table /\ k[s] \in Table
    <3>1. \A g \in Table : [g EXCEPT ![batch[m].id] = batch[m].vec] \in Table
      BY ONLY <2>6 DEF Table
    <3> HIDE DEF Good, X, r
    <3> QED
      BY <2>2, <2>3, <2>9, <3>1
  <2>8. ASSUME NEW id \in Ids
        PROVE  IF \E i \in s : batch[i].id = id THEN f[s][id] = k[s][id] ELSE f[s][id] = t[id] /\ k[s][id] = u[id]
    <3>1. CASE id = batch[m].id
      BY <2>2, <2>3, <2>4, <2>9, <2>6, <3>1 DEF Table
    <3>2. CASE id # batch[m].id
      <4>1. f[s][id] = f[r][id] /\ k[s][id] = k[r][id]
        BY <2>2, <2>3, <2>9, <2>6, <3>2 DEF Table
      <4>2. (\E i \in s : batch[i].id = id) <=> \E i \in r : batch[i].id = id
        BY <3>2
      <4> QED
        BY <2>5, <4>1, <4>2
    <3> QED
      BY <3>1, <3>2
  <2> QED
    BY <2>1, <2>7, <2>8
<1>4. Good(D)
  BY <1>3
<1>5. WrittenTo(t, batch) = f[D] /\ WrittenTo(u, batch) = k[D]
  BY WritingUnfolds
<1> HIDE DEF f, k
<1> QED
  BY <1>4, <1>5

-----------------------------------------------------------------------------
\* The store of vectors.  What a transaction is to commit is in order like what is committed.
TxInv == tx # NoTx => /\ tx.rows \in Table /\ tx.index \in Table
                      /\ \A id \in Ids : tx.index[id] = tx.rows[id] \/ id \in tx.behind
RowsInv == vecRows \in Table /\ vecIndex \in Table
StoreInv == RowsInv /\ TxInv /\ IndexFollows

LEMMA StoreInvInit == VSInit => StoreInv
  BY DEF VSInit, StoreInv, RowsInv, TxInv, IndexFollows, Table

LEMMA BeginUpsertStep ==
  ASSUME StoreInv, NEW p, NEW batch \in Seq(Records), BeginUpsert(p, batch)
  PROVE  StoreInv'
<1> DEFINE ids == {batch[i].id : i \in DOMAIN batch}
           rows == WrittenTo(vecRows, batch)
           index == WrittenTo(vecIndex, batch)
<1>1. RowsInv' /\ IndexFollows'
  BY DEF BeginUpsert, StoreInv, RowsInv, IndexFollows, Table
<1>2. vecRows \in Table /\ vecIndex \in Table
  BY DEF StoreInv, RowsInv
<1>3. /\ rows \in Table /\ index \in Table
      /\ \A id \in Ids : IF id \in ids THEN rows[id] = index[id]
                         ELSE rows[id] = vecRows[id] /\ index[id] = vecIndex[id]
  <2>1. \A id : id \in ids <=> \E i \in DOMAIN batch : batch[i].id = id
    OBVIOUS
  <2> QED
    BY <1>2, <2>1, BatchesAreWritten
<1>4. \/ tx' = [by |-> p, rows |-> rows, index |-> index, behind |-> behind \ ids]
      \/ tx' = [by |-> p, rows |-> rows, index |-> vecIndex, behind |-> behind \cup ids]
  BY DEF BeginUpsert, Begins, WrittenTo
<1> HIDE DEF ids, rows, index
<1>5. \A id \in Ids : vecIndex[id] = vecRows[id] \/ id \in behind
  BY DEF StoreInv, IndexFollows
<1>6. TxInv'
  <2>1. CASE tx' = [by |-> p, rows |-> rows, index |-> index, behind |-> behind \ ids]
    BY <1>3, <1>5, <2>1 DEF TxInv, Table
  <2>2. CASE tx' = [by |-> p, rows |-> rows, index |-> vecIndex, behind |-> behind \cup ids]
    BY <1>2, <1>3, <1>5, <2>2 DEF TxInv, Table
  <2> QED
    BY <1>4, <2>1, <2>2
<1> QED
  BY <1>1, <1>6 DEF StoreInv

LEMMA BeginDeleteStep ==
  ASSUME StoreInv, NEW p, NEW ids \in SUBSET Ids, BeginDelete(p, ids)
  PROVE  StoreInv'
<1> DEFINE Without(table, gone) == [id \in Ids |-> IF id \in gone THEN NoVec ELSE table[id]]
<1>1. RowsInv' /\ IndexFollows'
  BY DEF BeginDelete, StoreInv, RowsInv, IndexFollows, Table
<1>2. PICK stays \in SUBSET ids :
        tx' = [by |-> p, rows |-> Without(vecRows, ids), index |-> Without(vecIndex, ids \ stays),
               behind |-> (behind \ ids) \cup {id \in stays : vecIndex[id] # NoVec}]
  BY DEF BeginDelete, Begins
<1>3. \A gone : Without(vecRows, gone) \in Table /\ Without(vecIndex, gone) \in Table
  BY DEF StoreInv, RowsInv, Table
<1>4. ASSUME NEW id \in Ids
      PROVE  \/ Without(vecIndex, ids \ stays)[id] = Without(vecRows, ids)[id]
             \/ id \in (behind \ ids) \cup {i \in stays : vecIndex[i] # NoVec}
  BY DEF StoreInv, IndexFollows
<1> HIDE DEF Without
<1>5. TxInv'
  BY <1>2, <1>3, <1>4 DEF TxInv
<1> QED
  BY <1>1, <1>5 DEF StoreInv

LEMMA StoreInvStep == StoreInv /\ [VSNext]_vecVars => StoreInv'
<1> SUFFICES ASSUME StoreInv, [VSNext]_vecVars PROVE StoreInv'
  OBVIOUS
<1>1. CASE UNCHANGED vecVars
  BY <1>1 DEF vecVars, StoreInv, RowsInv, TxInv, IndexFollows
<1>2. ASSUME NEW p \in StoreUsers, OpenStore(p) \/ CloseStore(p) \/ KillStore(p) PROVE StoreInv'
  BY <1>2 DEF OpenStore, CloseStore, KillStore, StoreInv, RowsInv, TxInv, IndexFollows
<1>3. ASSUME NEW p \in StoreUsers, NEW batch \in BoundedSeq(Records, 2), BeginUpsert(p, batch) PROVE StoreInv'
  <2>1. PICK m \in 0..2 : batch \in [1..m -> Records]
    BY <1>3 DEF BoundedSeq, SeqOf
  <2>2. batch \in Seq(Records)
    BY <2>1
  <2> QED
    BY <1>3, <2>2, BeginUpsertStep
<1>4. ASSUME NEW p \in StoreUsers, NEW ids \in SUBSET Ids, BeginDelete(p, ids) PROVE StoreInv'
  BY <1>4, BeginDeleteStep
<1>5. CASE Commit
  BY <1>5 DEF Commit, StoreInv, RowsInv, TxInv, IndexFollows
<1>6. CASE Rollback
  BY <1>6 DEF Rollback, StoreInv, RowsInv, TxInv, IndexFollows
<1> QED
  BY <1>1, <1>2, <1>3, <1>4, <1>5, <1>6 DEF VSNext

\* Whoever is killed and whatever fails, and however many names and processes there are, the
\* index differs from the rows only where it is known to be behind: a batch goes to both tables
\* in one transaction, and so does a deletion (sqlite.go Upsert and Delete).
THEOREM IndexStaysInStep == VSSpec => []IndexFollows
<1>1. StoreInv => IndexFollows
  BY DEF StoreInv
<1> QED
  BY <1>1, StoreInvInit, StoreInvStep, PTL DEF VSSpec

\* When nothing is behind, the index has the rows, and so a search by it finds the nearest.
LEMMA IndexFindsNearest == RowsInv /\ IndexFollows => NearestAreFound
<1> SUFFICES ASSUME RowsInv, IndexFollows, behind = {},
                    NEW k \in 0..Cardinality(Ids), NEW found \in SearchVec0(k)
             PROVE  /\ Cardinality(found) = Min({ResultsWanted(k), Cardinality(Live)})
                    /\ \A near \in found, far \in Live \ found : Distance[vecRows[near]] <= Distance[vecRows[far]]
  BY DEF NearestAreFound
<1> DEFINE indexed == {id \in Ids : vecIndex[id] # NoVec}
<1>1. \A id \in Ids : vecIndex[id] = vecRows[id]
  BY DEF IndexFollows
<1>2. indexed = Live
  BY <1>1 DEF Live
<1>3. PICK s \in SUBSET indexed :
        /\ Cardinality(s) = Min({ResultsWanted(k), Cardinality(indexed)})
        /\ \A near \in s, far \in indexed \ s : Distance[vecIndex[near]] <= Distance[vecIndex[far]]
        /\ found = s \cap Live
  BY DEF SearchVec0, kSubset
<1>4. found = s
  BY <1>2, <1>3
<1>5. Cardinality(found) = Min({ResultsWanted(k), Cardinality(Live)})
  BY <1>2, <1>3, <1>4
<1>6. \A near \in found, far \in Live \ found : Distance[vecRows[near]] <= Distance[vecRows[far]]
  <2>1. \A id \in Live : vecIndex[id] = vecRows[id]
    BY <1>1 DEF Live
  <2> QED
    BY <1>2, <1>3, <1>4, <2>1
<1> QED
  BY <1>5, <1>6

-----------------------------------------------------------------------------
\* The search by hand.
\* What is inserted into a sequence that is then cut.
LEMMA InsertGives ==
  ASSUME NEW best \in Seq(Int), NEW pos \in 0..Len(best), NEW row \in Int, NEW l \in 0..Len(best) + 1
  PROVE  LET new == SubSeq(InsertAt(best, pos + 1, row), 1, l)
         IN  /\ new \in Seq(Int) /\ Len(new) = l
             /\ \A i \in 1..l : new[i] = IF i <= pos THEN best[i] ELSE IF i = pos + 1 THEN row ELSE best[i - 1]
<1> DEFINE front == SubSeq(best, 1, pos)
           back == SubSeq(best, pos + 1, Len(best))
           whole == front \o <<row>> \o back
<1>1. Len(best) \in Nat
  OBVIOUS
<1>2. front \in Seq(Int) /\ Len(front) = pos /\ \A i \in 1..pos : front[i] = best[i]
  OBVIOUS
<1>3. /\ back \in Seq(Int) /\ Len(back) = Len(best) - pos
      /\ \A i \in 1..Len(best) - pos : back[i] = best[pos + i]
  <2>1. \A i \in pos + 1 .. Len(best) : best[i] \in Int
    BY <1>1
  <2>2. /\ back \in Seq(Int)
        /\ Len(back) = IF pos + 1 <= Len(best) THEN Len(best) - (pos + 1) + 1 ELSE 0
        /\ \A i \in 1 .. Len(best) - (pos + 1) + 1 : back[i] = best[pos + 1 + i - 1]
    <3> HIDE DEF back
    <3>1. pos + 1 \in Int /\ Len(best) \in Int
      BY <1>1
    <3> QED
      BY ONLY <2>1, <3>1, SubSeqProperties DEF back
  <2>3. \A i \in 1..Len(best) - pos : pos + 1 + i - 1 = pos + i /\ i \in 1 .. Len(best) - (pos + 1) + 1
    BY <1>1
  <2> HIDE DEF back
  <2> QED
    BY ONLY <1>1, <2>2, <2>3, SMTT(60)
<1>4. InsertAt(best, pos + 1, row) = whole
  <2>1. (pos + 1) - 1 = pos
    BY <1>1
  <2>2. InsertAt(best, pos + 1, row) = SubSeq(best, 1, (pos + 1) - 1) \o <<row>> \o SubSeq(best, pos + 1, Len(best))
    BY DEF InsertAt
  <2> QED
    BY ONLY <2>1, <2>2
<1> HIDE DEF front, back
<1>5. /\ whole \in Seq(Int) /\ Len(whole) = Len(best) + 1
      /\ \A i \in 1..Len(best) + 1 :
           whole[i] = IF i <= pos THEN best[i] ELSE IF i = pos + 1 THEN row ELSE best[i - 1]
  <2> DEFINE part1 == front \o <<row>>
  <2>1. /\ part1 \in Seq(Int) /\ Len(part1) = pos + 1
        /\ \A i \in 1..pos + 1 : part1[i] = IF i <= pos THEN best[i] ELSE row
    <3>1. <<row>> \in Seq(Int) /\ Len(<<row>>) = 1 /\ <<row>>[1] = row
      OBVIOUS
    <3>2. /\ part1 \in Seq(Int) /\ Len(part1) = Len(front) + 1
          /\ \A i \in 1..Len(front) + 1 : part1[i] = IF i <= Len(front) THEN front[i] ELSE <<row>>[i - Len(front)]
      BY ONLY <1>2, <3>1, ConcatProperties, ZenonT(60)
    <3> HIDE DEF part1
    <3>3. ASSUME NEW i \in 1..pos + 1 PROVE part1[i] = IF i <= pos THEN best[i] ELSE row
      <4>1. CASE i <= pos
        BY <1>1, <1>2, <3>2, <4>1, SMTT(60)
      <4>2. CASE i = pos + 1
        BY <1>1, <1>2, <3>1, <3>2, <4>2
      <4> QED
        BY <1>1, <4>1, <4>2
    <3> QED
      BY <1>2, <3>2, <3>3
  <2> HIDE DEF part1
  <2>2. whole = part1 \o back
    BY DEF part1
  <2>3. /\ whole \in Seq(Int) /\ Len(whole) = Len(best) + 1
        /\ \A i \in 1..Len(best) + 1 : whole[i] = IF i <= pos + 1 THEN part1[i] ELSE back[i - (pos + 1)]
    <3> HIDE DEF whole
    <3>1. /\ whole \in Seq(Int) /\ Len(whole) = Len(part1) + Len(back)
          /\ \A i \in 1..Len(part1) + Len(back) :
               whole[i] = IF i <= Len(part1) THEN part1[i] ELSE back[i - Len(part1)]
      BY ONLY <1>3, <2>1, <2>2, ConcatProperties
    <3>2. Len(part1) + Len(back) = Len(best) + 1
      BY <1>1, <1>3, <2>1
    <3> QED
      BY <2>1, <3>1, <3>2
  <2>4. \A i \in pos + 2 .. Len(best) + 1 : back[i - (pos + 1)] = best[i - 1]
    <3> TAKE i \in pos + 2 .. Len(best) + 1
    <3>1. i - (pos + 1) \in 1..Len(best) - pos /\ pos + (i - (pos + 1)) = i - 1
      BY <1>1
    <3> QED
      BY <1>3, <3>1
  <2> HIDE DEF whole
  <2>5. ASSUME NEW i \in 1..Len(best) + 1
        PROVE  whole[i] = IF i <= pos THEN best[i] ELSE IF i = pos + 1 THEN row ELSE best[i - 1]
    <3>1. CASE i <= pos + 1
      BY <1>1, <2>1, <2>3, <3>1, SMTT(60)
    <3>2. CASE i > pos + 1
      <4>1. i \in pos + 2 .. Len(best) + 1
        BY <1>1, <3>2
      <4> QED
        <5>1. whole[i] = back[i - (pos + 1)]
          BY <1>1, <2>3, <3>2
        <5>2. back[i - (pos + 1)] = best[i - 1]
          BY <2>4, <4>1
        <5> QED
          BY <1>1, <3>2, <5>1, <5>2
    <3> QED
      BY <1>1, <3>1, <3>2
  <2> QED
    BY <2>3, <2>5
<1> HIDE DEF whole
<1> DEFINE new == SubSeq(whole, 1, l)
<1>6. /\ new \in Seq(Int) /\ Len(new) = l /\ \A i \in 1..l : new[i] = whole[i]
  <2>1. \A i \in 1..l : whole[i] \in Int
    BY <1>1, <1>5
  <2>2. /\ new \in Seq(Int) /\ Len(new) = IF 1 <= l THEN l - 1 + 1 ELSE 0
        /\ \A i \in 1 .. l - 1 + 1 : new[i] = whole[1 + i - 1]
    <3>1. 1 \in Int /\ l \in Int
      BY <1>1
    <3> QED
      BY ONLY <2>1, <3>1, SubSeqProperties
  <2> HIDE DEF new
  <2>3. l \in Nat
    BY <1>1
  <2> QED
    BY <2>2, <2>3
<1> HIDE DEF new
<1>7. \A i \in 1..l : i \in 1..Len(best) + 1
  BY <1>1
<1>8. SubSeq(InsertAt(best, pos + 1, row), 1, l) = new
  BY <1>4 DEF new
<1> QED
  BY <1>5, <1>6, <1>7, <1>8

\* Where a row goes among the best: behind the last one that is at least as good.
PlaceOf(best, row, score) == Max({i \in 0..Len(best) : i = 0 \/ score[best[i]] >= score[row]})

LEMMA PlaceIsFound ==
  ASSUME NEW best \in Seq(Int), NEW row, NEW score
  PROVE  LET pos == PlaceOf(best, row, score)
         IN  /\ pos \in 0..Len(best) /\ (pos # 0 => score[best[pos]] >= score[row])
             /\ \A i \in 1..Len(best) : i > pos => ~(score[best[i]] >= score[row])
<1> DEFINE S == {i \in 0..Len(best) : i = 0 \/ score[best[i]] >= score[row]}
<1>1. Len(best) \in Nat
  OBVIOUS
<1>2. S \subseteq 0..Len(best) /\ 0 \in S
  BY <1>1
<1>3. S \subseteq Int /\ S # {} /\ IsFiniteSet(S)
  <2>1. IsFiniteSet(0..Len(best)) /\ 0..Len(best) \subseteq Int
    BY <1>1, FS_Interval
  <2> HIDE DEF S
  <2> QED
    BY <1>2, <2>1, FS_Subset
<1>4. Max(S) \in S /\ \A x \in S : x <= Max(S)
  <2> HIDE DEF S
  <2> QED
    BY <1>3, LargestOfAny
<1>5. PlaceOf(best, row, score) = Max(S)
  BY DEF PlaceOf
<1> DEFINE p == Max(S)
<1>6. p \in 0..Len(best) /\ (p # 0 => score[best[p]] >= score[row])
  <2> HIDE DEF p
  <2>1. p \in S
    BY <1>4 DEF p
  <2> QED
    BY <2>1
<1>7. ASSUME NEW i \in 1..Len(best), i > p PROVE ~(score[best[i]] >= score[row])
  <2>1. i \notin S
    <3> HIDE DEF S
    <3>1. p \in Int /\ i \in Int
      BY <1>1, <1>6
    <3> QED
      BY <1>4, <1>7, <3>1
  <2>2. i \in 0..Len(best)
    BY <1>1
  <2> QED
    BY <2>1, <2>2
<1> HIDE DEF S
<1> QED
  BY <1>5, <1>6, <1>7

\* What keeping the best makes of a row.
LEMMA KeepingGives ==
  ASSUME NEW best \in Seq(Int), NEW row \in Int, NEW score, NEW W \in Nat \ {0},
         ~(Len(best) = W /\ score[row] <= score[best[W]])
  PROVE  LET pos == PlaceOf(best, row, score)
             l == IF W <= Len(best) + 1 THEN W ELSE Len(best) + 1
             new == KeepBest(best, row, score, W)
         IN  /\ new \in Seq(Int) /\ Len(new) = l
             /\ \A i \in 1..l : new[i] = IF i <= pos THEN best[i] ELSE IF i = pos + 1 THEN row ELSE best[i - 1]
<1> DEFINE pos == PlaceOf(best, row, score)
           l == IF W <= Len(best) + 1 THEN W ELSE Len(best) + 1
<1>1. pos \in 0..Len(best) /\ Len(best) \in Nat
  BY PlaceIsFound
<1>2. l \in 0..Len(best) + 1
  BY <1>1
<1>3. Min({W, Len(best) + 1}) = l
  <2>1. W \in Int /\ Len(best) + 1 \in Int
    BY <1>1
  <2> QED
    BY <2>1, LeastOfTwo
<1>4. KeepBest(best, row, score, W) = SubSeq(InsertAt(best, pos + 1, row), 1, l)
  BY <1>3 DEF KeepBest, PlaceOf
<1> HIDE DEF pos, l
<1>5. LET new == SubSeq(InsertAt(best, pos + 1, row), 1, l)
      IN  /\ new \in Seq(Int) /\ Len(new) = l
          /\ \A i \in 1..l : new[i] = IF i <= pos THEN best[i] ELSE IF i = pos + 1 THEN row ELSE best[i - 1]
  BY ONLY <1>1, <1>2, InsertGives, row \in Int, best \in Seq(Int)
<1> QED
  BY <1>4, <1>5 DEF pos, l

LEMMA KeepingIsTyped ==
  ASSUME NEW best \in Seq(Int), NEW row \in Int, NEW score, NEW W \in Nat \ {0}
  PROVE  KeepBest(best, row, score, W) \in Seq(Int)
<1>1. CASE Len(best) = W /\ score[row] <= score[best[W]]
  BY <1>1 DEF KeepBest
<1>2. CASE ~(Len(best) = W /\ score[row] <= score[best[W]])
  BY <1>2, KeepingGives
<1> QED
  BY <1>1, <1>2

\* What the scan has kept of the first m rows.
ComesBefore(score, i, j) == score[i] > score[j] \/ (score[i] = score[j] /\ i < j)
Sorted(best, score) == \A i, j \in 1..Len(best) : i < j => ComesBefore(score, best[i], best[j])
LeavesOut(best, j) == \A i \in 1..Len(best) : best[i] # j
OthersComeAfter(best, score, m) ==
  \A j \in 1..m : LeavesOut(best, j) => \A i \in 1..Len(best) : ComesBefore(score, best[i], j)
BestOf(best, score, m, W) ==
  /\ best \in Seq(Int) /\ Len(best) = (IF W <= m THEN W ELSE m)
  /\ \A i \in 1..Len(best) : best[i] \in 1..m
  /\ Sorted(best, score) /\ OthersComeAfter(best, score, m)
  /\ Len(best) < W => \A j \in 1..m : ~LeavesOut(best, j)

LEMMA KeepingAsItIs ==
  ASSUME NEW score \in Seq(Int), NEW m \in Nat, m + 1 <= Len(score), NEW W \in Nat \ {0}, NEW best,
         BestOf(best, score, m, W), Len(best) = W, score[m + 1] <= score[best[W]]
  PROVE  BestOf(KeepBest(best, m + 1, score, W), score, m + 1, W)
<1>1. KeepBest(best, m + 1, score, W) = best
  BY DEF KeepBest
<1>2. /\ best \in Seq(Int) /\ Len(best) = (IF W <= m + 1 THEN W ELSE m + 1)
      /\ \A i \in 1..Len(best) : best[i] \in 1..m
      /\ Sorted(best, score) /\ OthersComeAfter(best, score, m) /\ W <= m
  BY DEF BestOf
<1>3. \A i \in 1..m + 1 : score[i] \in Int
  OBVIOUS
<1>4. ASSUME NEW i \in 1..Len(best) PROVE ComesBefore(score, best[i], m + 1)
  <2>1. W \in 1..Len(best) /\ best[i] \in 1..m /\ best[W] \in 1..m /\ i \in Int
    BY <1>2
  <2>2. score[best[i]] >= score[best[W]]
    <3>1. score[best[i]] \in Int /\ score[best[W]] \in Int
      BY <1>3, <2>1, SMTT(60)
    <3>2. CASE i = W
      BY <3>1, <3>2
    <3>3. CASE i < W
      <4>1. ComesBefore(score, best[i], best[W])
        BY <1>2, <2>1, <3>3 DEF Sorted
      <4> QED
        BY <3>1, <4>1 DEF ComesBefore
    <3> QED
      BY <2>1, <3>2, <3>3
  <2>3. score[best[i]] \in Int /\ score[best[W]] \in Int /\ score[m + 1] \in Int /\ best[i] < m + 1
    BY <1>3, <2>1, SMTT(60)
  <2> QED
    BY <2>2, <2>3, SMTT(60) DEF ComesBefore
<1>5. OthersComeAfter(best, score, m + 1)
  <2> SUFFICES ASSUME NEW j \in 1..m + 1, LeavesOut(best, j), NEW i \in 1..Len(best)
               PROVE  ComesBefore(score, best[i], j)
    BY DEF OthersComeAfter
  <2>1. CASE j = m + 1
    BY <1>4, <2>1
  <2>2. CASE j \in 1..m
    BY <1>2, <2>2 DEF OthersComeAfter
  <2> QED
    BY <2>1, <2>2
<1>6. \A i \in 1..Len(best) : best[i] \in 1..m + 1
  BY <1>2, SMTT(60)
<1> QED
  BY <1>1, <1>2, <1>5, <1>6, SMTT(60) DEF BestOf

LEMMA KeepingTheRow ==
  ASSUME NEW score \in Seq(Int), NEW m \in Nat, m + 1 <= Len(score), NEW W \in Nat \ {0}, NEW best,
         BestOf(best, score, m, W), ~(Len(best) = W /\ score[m + 1] <= score[best[W]])
  PROVE  BestOf(KeepBest(best, m + 1, score, W), score, m + 1, W)
<1> DEFINE pos == PlaceOf(best, m + 1, score)
           l == IF W <= Len(best) + 1 THEN W ELSE Len(best) + 1
           new == KeepBest(best, m + 1, score, W)
           n == Len(best)
<1>1. /\ best \in Seq(Int) /\ n \in Nat /\ n = (IF W <= m THEN W ELSE m)
      /\ Sorted(best, score) /\ OthersComeAfter(best, score, m)
      /\ n < W => \A j \in 1..m : ~LeavesOut(best, j)
  BY DEF BestOf
<1>2. \A i \in 1..m + 1 : score[i] \in Int
  OBVIOUS
<1>3. \A i \in 1..n : best[i] \in 1..m /\ score[best[i]] \in Int
  BY <1>2, SMTT(60) DEF BestOf
<1>4. /\ new \in Seq(Int) /\ Len(new) = l
      /\ \A i \in 1..l : new[i] = IF i <= pos THEN best[i] ELSE IF i = pos + 1 THEN m + 1 ELSE best[i - 1]
  <2>1. best \in Seq(Int) /\ m + 1 \in Int
    BY <1>1
  <2> QED
    BY <2>1, KeepingGives, SMTT(60)
<1>5. /\ pos \in 0..n /\ (pos # 0 => score[best[pos]] >= score[m + 1])
      /\ \A i \in 1..n : i > pos => ~(score[best[i]] >= score[m + 1])
  BY <1>1, PlaceIsFound
<1>6. l = (IF W <= m + 1 THEN W ELSE m + 1) /\ l \in Nat /\ l <= n + 1 /\ l <= W /\ n <= W /\ (l = n + 1 \/ (l = n /\ n = W))
  BY <1>1, SMTT(60)
<1>7. pos < l
  <2>1. CASE pos = n /\ l = n
    <3>1. n = W /\ n # 0
      BY <1>6, <2>1
    <3>2. n \in 1..n
      BY <1>1, <3>1
    <3>3. score[best[n]] >= score[m + 1] /\ score[best[n]] \in Int /\ score[m + 1] \in Int
      BY <1>2, <1>3, <1>5, <2>1, <3>1, <3>2
    <3> QED
      BY <3>1, <3>3
  <2> QED
    BY <1>1, <1>5, <1>6, <2>1
<1> HIDE DEF pos, l, new
\* The places that are kept come from the ones before them or from the row itself.
<1>8. ASSUME NEW i \in 1..l
      PROVE  \/ i <= pos /\ i \in 1..n /\ new[i] = best[i]
             \/ i = pos + 1 /\ new[i] = m + 1
             \/ i > pos + 1 /\ i - 1 \in 1..n /\ i - 1 > pos /\ new[i] = best[i - 1]
  <2>1. CASE i <= pos
    BY <1>1, <1>4, <1>5, <2>1, SMTT(60)
  <2>2. CASE i = pos + 1
    BY <1>4, <1>5, <2>2
  <2>3. CASE i > pos + 1
    <3>1. new[i] = best[i - 1]
      BY <1>1, <1>4, <1>5, <2>3
    <3>2. i - 1 \in 1..n /\ i - 1 > pos
      BY <1>1, <1>5, <1>6, <2>3
    <3> QED
      BY <2>3, <3>1, <3>2
  <2> QED
    BY <1>1, <1>5, <1>6, <2>1, <2>2, <2>3
<1>9. \A i \in 1..l : new[i] \in 1..m + 1
  <2> TAKE i \in 1..l
  <2>1. CASE i <= pos /\ i \in 1..n /\ new[i] = best[i]
    BY <1>3, <2>1, SMTT(60)
  <2>2. CASE i = pos + 1 /\ new[i] = m + 1
    BY <2>2
  <2>3. CASE i - 1 \in 1..n /\ new[i] = best[i - 1]
    BY <1>3, <2>3, SMTT(60)
  <2> QED
    BY <1>8, <2>1, <2>2, <2>3
\* Against the row: those in front of it are at least as good and have been there before, those
\* behind it are worse.
<1>10. ASSUME NEW i \in 1..n, i <= pos PROVE ComesBefore(score, best[i], m + 1)
  <2>1. pos \in 1..n /\ best[i] \in 1..m /\ best[pos] \in 1..m /\ score[best[i]] \in Int /\ score[best[pos]] \in Int /\ score[m + 1] \in Int
    BY <1>1, <1>2, <1>3, <1>5, <1>10, SMTT(60)
  <2>2. score[best[pos]] >= score[m + 1]
    BY <1>5, <2>1
  <2>3. score[best[i]] >= score[best[pos]]
    <3>1. CASE i = pos
      BY <2>1, <3>1
    <3>2. CASE i < pos
      <4>1. ComesBefore(score, best[i], best[pos])
        BY <1>1, <2>1, <3>2 DEF Sorted
      <4> QED
        BY <2>1, <4>1, SMTT(60) DEF ComesBefore
    <3> QED
      BY <1>1, <1>5, <1>10, <3>1, <3>2
  <2>4. \A x, y, z \in Int : x >= y /\ y >= z => x >= z
    OBVIOUS
  <2>5. score[best[i]] >= score[m + 1]
    BY ONLY <2>1, <2>2, <2>3, <2>4
  <2>6. best[i] < m + 1
    BY <2>1, SMTT(60)
  <2>7. score[best[i]] \in Int /\ score[m + 1] \in Int
    BY <2>1
  <2> QED
    BY ONLY <2>5, <2>6, <2>7 DEF ComesBefore
<1>11. ASSUME NEW i \in 1..n, i > pos PROVE ComesBefore(score, m + 1, best[i])
  <2>1. score[best[i]] \in Int /\ score[m + 1] \in Int /\ ~(score[best[i]] >= score[m + 1])
    BY <1>2, <1>3, <1>5, <1>11
  <2> QED
    BY <2>1 DEF ComesBefore
<1>12. ASSUME NEW i \in 1..l, NEW j \in 1..l, i < j PROVE ComesBefore(score, new[i], new[j])
  <2>1. i \in Int /\ j \in Int /\ pos \in Int /\ n \in Int /\ l \in Int
    BY <1>1, <1>5, <1>6
  <2>2. CASE j <= pos
    <3>1. i \in 1..n /\ j \in 1..n /\ new[i] = best[i] /\ new[j] = best[j]
      BY <1>8, <1>12, <2>1, <2>2
    <3> QED
      BY <1>1, <1>12, <3>1 DEF Sorted
  <2>3. CASE j = pos + 1
    <3>1. i \in 1..n /\ i <= pos /\ new[i] = best[i] /\ new[j] = m + 1
      BY <1>8, <1>12, <2>1, <2>3
    <3> QED
      BY <1>10, <3>1
  <2>4. CASE j > pos + 1
    <3>1. j - 1 \in 1..n /\ j - 1 > pos /\ new[j] = best[j - 1]
      BY <1>8, <2>1, <2>4
    <3>2. CASE i <= pos
      <4>1. i \in 1..n /\ new[i] = best[i] /\ i < j - 1
        BY <1>8, <2>1, <3>1, <3>2, SMTT(60)
      <4> QED
        BY <1>1, <3>1, <4>1 DEF Sorted
    <3>3. CASE i = pos + 1
      <4>1. new[i] = m + 1
        BY <1>8, <2>1, <3>3
      <4> QED
        BY <1>11, <3>1, <4>1
    <3>4. CASE i > pos + 1
      <4>1. i - 1 \in 1..n /\ new[i] = best[i - 1] /\ i - 1 < j - 1
        BY <1>8, <1>12, <2>1, <3>4
      <4> QED
        BY <1>1, <3>1, <4>1 DEF Sorted
    <3> QED
      BY <2>1, <3>2, <3>3, <3>4
  <2> QED
    BY <2>1, <2>2, <2>3, <2>4
\* A place among the best is still there, unless it was the last and there is no room.
<1>13. ASSUME NEW q \in 1..n, ~(l = n /\ q = n) PROVE \E i \in 1..l : new[i] = best[q]
  <2>1. q \in Int /\ n \in Int /\ pos \in Int /\ l \in Int
    BY <1>1, <1>5, <1>6
  <2>2. CASE q <= pos
    <3>1. q \in 1..l
      BY <1>7, <2>1, <2>2
    <3> QED
      BY <1>8, <2>1, <2>2, <3>1
  <2>3. CASE q > pos
    <3>1. q + 1 \in 1..l /\ q + 1 > pos + 1 /\ (q + 1) - 1 = q
      BY <1>6, <1>13, <2>1, <2>3
    <3>2. new[q + 1] = best[(q + 1) - 1]
      BY ONLY <1>8, <2>1, <3>1
    <3> QED
      BY <3>1, <3>2
  <2> QED
    BY <2>1, <2>2, <2>3
<1>14. \E i \in 1..l : new[i] = m + 1
  <2>1. pos + 1 \in 1..l
    BY <1>1, <1>5, <1>6, <1>7
  <2> QED
    BY <1>5, <1>8, <2>1
<1>15. n = W => score[m + 1] > score[best[n]] /\ n \in 1..n
  <2> SUFFICES ASSUME n = W PROVE score[m + 1] > score[best[n]] /\ n \in 1..n
    OBVIOUS
  <2>1. n \in 1..n
    BY <1>1
  <2>2. score[best[n]] \in Int /\ score[m + 1] \in Int
    BY <1>2, <1>3, <2>1
  <2> QED
    BY <2>1, <2>2
<1>16. OthersComeAfter(new, score, m + 1)
  <2> SUFFICES ASSUME NEW j \in 1..m + 1, LeavesOut(new, j), NEW i \in 1..l
               PROVE  ComesBefore(score, new[i], j)
    BY <1>4 DEF OthersComeAfter
  <2>1. \A q \in 1..l : new[q] # j
    BY <1>4 DEF LeavesOut
  <2>2. j \in 1..m
    BY <1>14, <2>1, SMTT(60)
  <2>3. CASE LeavesOut(best, j)
    <3>1. n = W
      BY <1>1, <1>6, <2>2, <2>3
    <3>2. \A q \in 1..n : ComesBefore(score, best[q], j)
      BY <1>1, <2>2, <2>3 DEF OthersComeAfter
    <3>3. score[best[n]] >= score[j] /\ score[m + 1] > score[best[n]]
      <4>1. score[best[n]] \in Int /\ score[j] \in Int /\ n \in 1..n
        BY <1>2, <1>3, <1>15, <2>2, <3>1
      <4> QED
        BY <1>15, <3>1, <3>2, <4>1, SMTT(60) DEF ComesBefore
    <3>4. score[best[n]] \in Int /\ score[j] \in Int /\ score[m + 1] \in Int
      BY <1>2, <1>3, <1>15, <2>2, <3>1
    <3>5. ComesBefore(score, m + 1, j)
      BY <3>3, <3>4, SMTT(60) DEF ComesBefore
    <3> QED
      BY <1>8, <3>2, <3>5
  <2>4. CASE ~LeavesOut(best, j)
    <3>1. PICK q \in 1..n : best[q] = j
      BY <2>4 DEF LeavesOut
    <3>2. l = n /\ q = n
      BY <1>13, <2>1, <3>1
    <3>3. n = W /\ n \in Int /\ pos \in Int /\ l \in Int
      BY <1>1, <1>5, <1>6, <3>2
    <3>4. CASE i <= pos /\ i \in 1..n /\ new[i] = best[i]
      <4>1. i < n
        BY <1>7, <3>2, <3>3, <3>4
      <4> QED
        BY <1>1, <3>1, <3>2, <3>4, <4>1 DEF Sorted
    <3>5. CASE i = pos + 1 /\ new[i] = m + 1
      BY <1>15, <3>1, <3>2, <3>3, <3>5 DEF ComesBefore
    <3>6. CASE i > pos + 1 /\ i - 1 \in 1..n /\ new[i] = best[i - 1]
      <4>1. i - 1 < n
        BY <3>2, <3>3
      <4> QED
        BY <1>1, <3>1, <3>2, <3>6, <4>1 DEF Sorted
    <3> QED
      BY <1>8, <3>4, <3>5, <3>6
  <2> QED
    BY <2>3, <2>4
<1>17. ASSUME l < W, NEW j \in 1..m + 1 PROVE \E q \in 1..l : new[q] = j
  <2>1. CASE j = m + 1
    BY <1>14, <2>1
  <2>2. CASE j \in 1..m
    <3>1. n < W /\ l = n + 1 /\ n \in Int
      BY <1>1, <1>6, <1>17
    <3>2. PICK q \in 1..n : best[q] = j
      BY <1>1, <2>2, <3>1 DEF LeavesOut
    <3>3. l # n
      BY <3>1
    <3> QED
      BY <1>13, <3>2, <3>3
  <2> QED
    BY <2>1, <2>2
<1>18. Sorted(new, score)
  BY <1>4, <1>12 DEF Sorted
<1>19. Len(new) < W => \A j \in 1..m + 1 : ~LeavesOut(new, j)
  BY <1>4, <1>17 DEF LeavesOut
<1> QED
  BY <1>4, <1>6, <1>9, <1>16, <1>18, <1>19 DEF BestOf, new

LEMMA KeepingTheBest ==
  ASSUME NEW score \in Seq(Int), NEW m \in Nat, m + 1 <= Len(score), NEW W \in Nat \ {0}, NEW best,
         BestOf(best, score, m, W)
  PROVE  BestOf(KeepBest(best, m + 1, score, W), score, m + 1, W)
  BY KeepingAsItIs, KeepingTheRow

\* The search by hand is such a fold.
RowsOf(score) == [i \in 1..Len(score) |-> i]
Scans(f, score, k) ==
  f = [s \in SUBSET DOMAIN RowsOf(score) |->
         IF s = {} THEN <<>>
         ELSE KeepBest(f[s \ {Max(s)}], RowsOf(score)[Max(s)], score, ResultsWanted(k))]

LEMMA ScanUnfolds ==
  ASSUME NEW score, NEW k
  PROVE  SearchManual(score, k) = (CHOOSE f : Scans(f, score, k))[DOMAIN RowsOf(score)]
  BY DEF SearchManual, FoldLeft, MapThenFoldSet, Scans, RowsOf

LEMMA ScanIsDefined ==
  ASSUME NEW score \in Seq(Int), NEW k \in Nat
  PROVE  \E f : Scans(f, score, k)
<1> DEFINE n == Len(score)
           D == 1..n
           W == ResultsWanted(k)
           h == [q \in D \X Seq(Int) |-> KeepBest(q[2], q[1], score, W)]
<1>1. n \in Nat /\ W \in Nat \ {0} /\ D = 1..n
  BY DEF ResultsWanted
<1>2. ASSUME NEW x \in D, NEW v \in Seq(Int) PROVE h[<<x, v>>] = KeepBest(v, x, score, W) /\ h[<<x, v>>] \in Seq(Int)
  <2>1. h[<<x, v>>] = KeepBest(v, x, score, W)
    OBVIOUS
  <2>2. x \in Int
    BY <1>1
  <2> HIDE DEF h, W, D
  <2> QED
    BY <1>1, <2>1, <2>2, KeepingIsTyped
<1>3. DOMAIN RowsOf(score) = D /\ \A x \in D : RowsOf(score)[x] = x
  BY DEF RowsOf
<1>4. \A x \in D, v \in Seq(Int) : h[<<x, v>>] \in Seq(Int)
  BY <1>2
<1>5. <<>> \in Seq(Int)
  OBVIOUS
<1>6. \A s \in SUBSET D : s # {} => Max(s) \in D
  BY <1>1, LastIsIn
<1> HIDE DEF h, W, n
<1>7. PICK f : /\ f = [s \in SUBSET D |-> IF s = {} THEN <<>> ELSE h[<<Max(s), f[s \ {Max(s)}]>>]]
               /\ \A s \in SUBSET D : f[s] \in Seq(Int)
  <2> DEFINE V == Seq(Int)
             none == <<>>
  <2>1. none \in V /\ \A x \in 1..n, v \in V : h[<<x, v>>] \in V
    BY <1>4
  <2> HIDE DEF V, none
  <2>2. \E f : FoldsInOrder(f, none, h, n) /\ \A s \in SUBSET (1..n) : f[s] \in V
    BY <1>1, <2>1, OrderedFold
  <2> QED
    BY <2>2 DEF V, none, FoldsInOrder
<1> HIDE DEF D
<1>8. ASSUME NEW s \in SUBSET D, s # {}
      PROVE  h[<<Max(s), f[s \ {Max(s)}]>>] = KeepBest(f[s \ {Max(s)}], RowsOf(score)[Max(s)], score, W)
  <2>1. Max(s) \in D /\ f[s \ {Max(s)}] \in Seq(Int)
    BY <1>6, <1>7, <1>8
  <2> QED
    BY <1>2, <1>3, <2>1
<1>9. f = [s \in SUBSET D |-> IF s = {} THEN <<>>
                              ELSE KeepBest(f[s \ {Max(s)}], RowsOf(score)[Max(s)], score, W)]
  BY <1>7, <1>8
<1> QED
  BY <1>3, <1>9 DEF Scans, W

\* After any number of rows the scan has the best of them.
LEMMA ScanKeepsTheBest ==
  ASSUME NEW score \in Seq(Int), NEW k \in Nat
  PROVE  BestOf(SearchManual(score, k), score, Len(score), ResultsWanted(k))
<1> DEFINE n == Len(score)
           W == ResultsWanted(k)
           f == CHOOSE g : Scans(g, score, k)
           X == {s \in SUBSET (1..n) : \E m \in 0..n : s = 1..m /\ ~BestOf(f[1..m], score, m, W)}
<1>1. Scans(f, score, k) /\ n \in Nat /\ W \in Nat \ {0}
  BY ScanIsDefined DEF ResultsWanted
<1>2. DOMAIN RowsOf(score) = 1..n /\ \A x \in 1..n : RowsOf(score)[x] = x
  BY DEF RowsOf
<1> HIDE DEF f, n, W
<1>3. X = {}
  <2> SUFFICES ASSUME X # {} PROVE FALSE
    OBVIOUS
  <2>1. PICK s \in X : \A r \in X : r \subseteq s => r = s
    <3> DEFINE D == 1..n
    <3>1. IsFiniteSet(D) /\ X # {}
      <4>1. IsFiniteSet(D)
        BY <1>1, PlacesAreFinite
      <4> QED
        BY <4>1
    <3>2. X \in SUBSET SUBSET D
      OBVIOUS
    <3> HIDE DEF X, D
    <3> QED
      BY ONLY <3>1, <3>2, SmallestSubset
  <2>2. PICK m \in 0..n : s = 1..m /\ ~BestOf(f[1..m], score, m, W)
    BY <2>1
  <2>3. f[s] = IF s = {} THEN <<>> ELSE KeepBest(f[s \ {Max(s)}], RowsOf(score)[Max(s)], score, W)
    BY <1>1, <1>2, <2>1 DEF Scans, W
  <2>4. CASE m = 0
    <3>1. s = {} /\ f[1..m] = <<>>
      BY <2>2, <2>3, <2>4
    <3> QED
      BY <1>1, <2>2, <2>4, <3>1 DEF BestOf, Sorted, OthersComeAfter
  <2>5. CASE m # 0
    <3> DEFINE p == m - 1
    <3>1. p \in Nat /\ p \in 0..n /\ m = p + 1 /\ p + 1 \in 1..n /\ p + 1 <= n
      BY <1>1, <2>2, <2>5
    <3> HIDE DEF p
    <3>2. Max(s) = p + 1 /\ s \ {p + 1} = 1..p /\ p + 1 \in s
      <4>1. Max(1..p + 1) = p + 1 /\ (1..p + 1) \ {p + 1} = 1..p
        BY <3>1, LastOfPrefix
      <4>2. s = 1..p + 1
        BY <2>2, <3>1
      <4> QED
        BY <3>1, <4>1, <4>2
    <3>3. BestOf(f[1..p], score, p, W)
      <4>1. 1..p \in SUBSET (1..n) /\ 1..p \subseteq s /\ 1..p # s
        BY <2>1, <3>2
      <4>2. 1..p \notin X
        BY <2>1, <4>1
      <4> QED
        BY <3>1, <4>1, <4>2
    <3>4. f[s] = KeepBest(f[1..p], p + 1, score, W)
      BY <1>2, <2>3, <3>1, <3>2
    <3>5. BestOf(f[s], score, p + 1, W)
      BY <1>1, <3>1, <3>3, <3>4, KeepingTheBest DEF n
    <3> QED
      BY <2>2, <3>1, <3>5
  <2> QED
    BY <2>4, <2>5
<1>4. BestOf(f[1..n], score, n, W)
  <2> SUFFICES ASSUME ~BestOf(f[1..n], score, n, W) PROVE FALSE
    OBVIOUS
  <2>1. n \in 0..n /\ 1..n \in SUBSET (1..n)
    BY <1>1
  <2>2. 1..n \in X
    BY <2>1
  <2> QED
    BY <1>3, <2>2
<1>5. SearchManual(score, k) = f[1..n]
  BY <1>2, ScanUnfolds DEF f
<1> QED
  BY <1>4, <1>5 DEF n, W

\* The search by hand returns what sorting all the rows would, whatever they score.
LEMMA ScanFindsBest == BestAreFound
<1> SUFFICES ASSUME NEW score \in BoundedSeq(Similarities, MaxRows), NEW k \in 0..MaxRows
             PROVE  LET found == SearchManual(score, k)
                        Before(i, j) == score[i] > score[j] \/ (score[i] = score[j] /\ i < j)
                    IN  /\ Len(found) = Min({ResultsWanted(k), Len(score)})
                        /\ \A i, j \in DOMAIN found : i < j => Before(found[i], found[j])
                        /\ \A i \in DOMAIN found, j \in DOMAIN score \ Range(found) : Before(found[i], j)
  BY Zenon DEF BestAreFound
<1> DEFINE found == SearchManual(score, k)
<1>1. score \in Seq(Int) /\ k \in Nat
  <2>1. PICK m \in 0..MaxRows : score \in [1..m -> Similarities]
    BY DEF BoundedSeq, SeqOf
  <2>2. m \in Nat
    BY <2>1, VectorStoreAssumption
  <2>3. score \in [1..m -> Int]
    BY <2>1, VectorStoreAssumption
  <2>4. score \in Seq(Int)
    BY <2>2, <2>3
  <2>5. k \in Nat
    BY VectorStoreAssumption
  <2> QED
    BY <2>4, <2>5
<1>2. BestOf(found, score, Len(score), ResultsWanted(k))
  BY <1>1, ScanKeepsTheBest
<1>3. Len(score) \in Nat /\ ResultsWanted(k) \in Nat /\ DOMAIN score = 1..Len(score)
  BY <1>1 DEF ResultsWanted
<1> HIDE DEF found
<1>4. Len(found) = Min({ResultsWanted(k), Len(score)})
  BY <1>2, <1>3, LeastOfTwo DEF BestOf
<1>5. DOMAIN found = 1..Len(found)
  BY <1>2 DEF BestOf
<1>6. \A i, j \in DOMAIN found : i < j => ComesBefore(score, found[i], found[j])
  BY <1>2, <1>5 DEF BestOf, Sorted
<1>7. \A i \in DOMAIN found, j \in DOMAIN score \ Range(found) : ComesBefore(score, found[i], j)
  <2>1. ASSUME NEW j \in DOMAIN score \ Range(found) PROVE LeavesOut(found, j)
    BY <1>5 DEF LeavesOut, Range
  <2> QED
    BY <1>2, <1>3, <1>5, <2>1 DEF BestOf, OthersComeAfter
<1> QED
  BY <1>4, <1>6, <1>7 DEF ComesBefore, found

-----------------------------------------------------------------------------
\* The lists of tools: every list that somebody has is one that the server has offered, and a
\* temporary file that has not been abandoned is as young and as whole as the write it is for.
Offers == 0..offered
Temps == [of : Fetchers, has : Lists \cup {Torn}, old : BOOLEAN, orphan : BOOLEAN]
ListsInv ==
  /\ offered \in 1..MaxVersion /\ file \in Offers
  /\ shown \in [Proxies -> Offers] /\ memory \in [Proxies -> Offers] /\ list \in [Fetchers -> Offers]
  /\ temps \subseteq Temps /\ up \in [Proxies -> BOOLEAN]
  /\ doing \in [Fetchers -> {"idle", "load", "read", "show", "fetch", "persist", "write", "rename", "failed"}]
  /\ \A g \in Fetchers : doing[g] = "rename" => TempOf(g) # {}
  /\ \A t \in temps : ~t.orphan =>
       /\ doing[t.of] \in {"rename", "failed"} /\ ~t.old
       /\ doing[t.of] = "rename" => t.has = list[t.of]

LEMMA ListsAreAtomic == ListsInv => WritesAreAtomic
<1> SUFFICES ASSUME ListsInv PROVE WritesAreAtomic
  OBVIOUS
<1>1. \A v \in Offers : v # Torn
  BY ToolStoreAssumption DEF ListsInv, Offers, Torn
<1>2. ReadsAreWhole
  BY <1>1 DEF ReadsAreWhole, ListsInv
<1>3. WritesAreUndisturbed
  BY DEF WritesAreUndisturbed, ListsInv
<1>4. TempsHaveWriters
  BY DEF TempsHaveWriters, ListsInv
<1> QED
  BY <1>2, <1>3, <1>4 DEF WritesAreAtomic

\* The steps before the write touch no temporary file.
LEMMA ReadingKeepsLists ==
  ASSUME ListsInv, NEW g \in Fetchers,
         \/ Populate(g) \/ LoadMemory(g) \/ ReadFile(g) \/ ShowLoaded(g) \/ Fetch(g) \/ SetTools(g)
  PROVE  ListsInv'
<1>0. ProxyOf[g] \in Proxies
  BY ToolStoreAssumption
<1>1. /\ UNCHANGED <<offered, file, temps, up>>
      /\ doing[g] \notin {"rename", "failed"}
      /\ doing' \in [Fetchers -> {"idle", "load", "read", "show", "fetch", "persist", "write", "rename", "failed"}]
      /\ doing'[g] \notin {"rename", "failed"} /\ \A h \in Fetchers : h # g => doing'[h] = doing[h]
  BY DEF ListsInv, Populate, LoadMemory, ReadFile, ShowLoaded, Fetch, SetTools, Turns
<1>2. 0 \in Offers /\ offered \in Offers
  BY DEF ListsInv, Offers
<1>3. /\ list' \in [Fetchers -> Offers] /\ \A h \in Fetchers : h # g => list'[h] = list[h]
      /\ shown' \in [Proxies -> Offers] /\ memory' \in [Proxies -> Offers]
  <2>1. CASE Populate(g) \/ LoadMemory(g)
    BY <1>0, <2>1 DEF ListsInv, Populate, LoadMemory, Carries
  <2>2. CASE ReadFile(g) \/ Fetch(g)
    BY <1>2, <2>2 DEF ListsInv, ReadFile, Fetch, Carries, None
  <2>3. CASE ShowLoaded(g) \/ SetTools(g)
    BY <1>0, <1>2, <2>3 DEF ListsInv, ShowLoaded, SetTools, Carries, Keeps, None
  <2> QED
    BY <2>1, <2>2, <2>3
<1>4. Offers' = Offers
  BY <1>1 DEF Offers
<1>5. \A h \in Fetchers : TempOf(h)' = TempOf(h)
  BY <1>1 DEF TempOf
<1>6. \A t \in temps : t.of \in Fetchers
  BY DEF ListsInv, Temps
<1> QED
  BY <1>1, <1>3, <1>4, <1>5, <1>6 DEF ListsInv

LEMMA WritingKeepsLists == ASSUME ListsInv, NEW g \in Fetchers, WriteTemp(g) PROVE ListsInv'
<1>1. /\ doing[g] = "write" /\ UNCHANGED <<offered, shown, memory, file, list, up>>
      /\ \A t \in temps : t.of = g => t.orphan
  BY DEF ListsInv, WriteTemp, Turns
<1>2. ASSUME NEW v \in Lists \cup {Torn}, NEW there \in {"rename", "failed"}, Turns(g, "write", there),
             there = "rename" => v = list[g],
             temps' = temps \cup {[of |-> g, has |-> v, old |-> FALSE, orphan |-> FALSE]}
      PROVE  ListsInv'
  <2> DEFINE new == [of |-> g, has |-> v, old |-> FALSE, orphan |-> FALSE]
  <2>1. new \in Temps /\ new.of = g /\ new.has = v /\ ~new.old /\ ~new.orphan
    BY DEF Temps
  <2> HIDE DEF new
  <2>2. temps' = temps \cup {new}
    BY <1>2 DEF new
  <2>3. /\ doing' \in [Fetchers -> {"idle", "load", "read", "show", "fetch", "persist", "write", "rename", "failed"}]
        /\ doing'[g] = there /\ \A h \in Fetchers : h # g => doing'[h] = doing[h]
    BY <1>2 DEF Turns, ListsInv
  <2>4. \A h \in Fetchers : doing'[h] = "rename" => TempOf(h)' # {}
    <3> SUFFICES ASSUME NEW h \in Fetchers, doing'[h] = "rename" PROVE \E t \in temps' : t.of = h /\ ~t.orphan
      BY DEF TempOf
    <3>1. CASE h = g
      BY <2>1, <2>2, <3>1
    <3>2. CASE h # g
      BY <2>2, <2>3, <3>2 DEF ListsInv, TempOf
    <3> QED
      BY <3>1, <3>2
  <2>5. ASSUME NEW t \in temps', ~t.orphan
        PROVE  /\ doing'[t.of] \in {"rename", "failed"} /\ ~t.old
               /\ doing'[t.of] = "rename" => t.has = list[t.of]
    <3>1. CASE t = new
      BY <1>2, <2>1, <2>3, <3>1
    <3>2. CASE t # new
      <4>1. t \in temps /\ t.of \in Fetchers /\ t.of # g
        BY <1>1, <2>2, <2>5, <3>2 DEF ListsInv, Temps
      <4> QED
        BY <2>3, <2>5, <4>1 DEF ListsInv
    <3> QED
      BY <3>1, <3>2
  <2> QED
    BY <1>1, <2>1, <2>2, <2>3, <2>4, <2>5 DEF ListsInv, Offers
<1>3. list[g] \in Lists \cup {Torn}
  BY ToolStoreAssumption DEF ListsInv, Offers, Lists
<1> QED
  BY <1>2, <1>3 DEF WriteTemp

LEMMA RenamingKeepsLists == ASSUME ListsInv, NEW g \in Fetchers, Rename(g) \/ FailWrite(g) PROVE ListsInv'
<1>0. 0 \in Offers
  BY DEF ListsInv, Offers
<1>1. CASE Rename(g) /\ doing'[g] = "failed"
  <2>1. /\ doing' \in [Fetchers -> {"idle", "load", "read", "show", "fetch", "persist", "write", "rename", "failed"}]
        /\ doing[g] = "rename" /\ \A h \in Fetchers : h # g => doing'[h] = doing[h]
        /\ UNCHANGED <<offered, shown, memory, file, list, temps, up>>
    BY <1>1 DEF Rename, Turns, ListsInv
  <2>2. \A h \in Fetchers : TempOf(h)' = TempOf(h)
    BY <2>1 DEF TempOf
  <2>3. \A t \in temps : t.of \in Fetchers
    BY DEF ListsInv, Temps
  <2> QED
    BY <1>1, <2>1, <2>2, <2>3 DEF ListsInv, Offers
<1>2. CASE temps' = temps \ TempOf(g) /\ doing'[g] = "idle"
  <2>1. /\ doing' = [doing EXCEPT ![g] = "idle"] /\ list' = [list EXCEPT ![g] = None]
        /\ UNCHANGED <<offered, shown, memory, up>>
        /\ file' = file \/ (doing[g] = "rename" /\ \E t \in TempOf(g) : file' = t.has)
    BY <1>2 DEF Rename, FailWrite, Turns, Carries, ListsInv
  <2>2. file' \in Offers
    BY <2>1 DEF ListsInv, TempOf
  <2>3. /\ doing' \in [Fetchers -> {"idle", "load", "read", "show", "fetch", "persist", "write", "rename", "failed"}]
        /\ list' \in [Fetchers -> Offers]
        /\ \A h \in Fetchers : h # g => doing'[h] = doing[h] /\ list'[h] = list[h]
    BY <1>0, <2>1 DEF ListsInv, None
  <2>4. \A t \in temps : t.of \in Fetchers
    BY DEF ListsInv, Temps
  <2>5. \A h \in Fetchers : h # g => TempOf(h)' = TempOf(h)
    BY <1>2 DEF TempOf
  <2>6. \A t \in temps' : t \in temps /\ (~t.orphan => t.of # g)
    BY <1>2 DEF TempOf
  <2> QED
    BY <1>2, <2>1, <2>2, <2>3, <2>4, <2>5, <2>6 DEF ListsInv, Offers
<1> QED
  BY <1>1, <1>2 DEF Rename, FailWrite, Turns, ListsInv

LEMMA KillingKeepsLists == ASSUME ListsInv, NEW p \in Proxies, Kill(p) PROVE ListsInv'
<1> DEFINE dead == {g \in Fetchers : ProxyOf[g] = p}
           left(t) == IF t.of \in dead THEN [t EXCEPT !.orphan = TRUE, !.has = Torn] ELSE t
<1>0. 0 \in Offers
  BY DEF ListsInv, Offers
<1>1. /\ UNCHANGED <<offered, file>> /\ up' \in [Proxies -> BOOLEAN]
      /\ shown' \in [Proxies -> Offers] /\ memory' \in [Proxies -> Offers]
      /\ list' \in [Fetchers -> Offers]
      /\ doing' \in [Fetchers -> {"idle", "load", "read", "show", "fetch", "persist", "write", "rename", "failed"}]
      /\ \A g \in Fetchers : IF g \in dead THEN doing'[g] = "idle" ELSE doing'[g] = doing[g] /\ list'[g] = list[g]
  BY <1>0 DEF Kill, ListsInv, None
<1>2. temps' = {left(t) : t \in temps}
  BY DEF Kill
<1>3. \A t \in temps : /\ t.of \in Fetchers /\ left(t) \in Temps /\ left(t).of = t.of
                       /\ t.of \in dead => left(t).orphan
                       /\ t.of \notin dead => left(t) = t
  BY DEF ListsInv, Temps
<1> HIDE DEF left
<1>4. temps' \subseteq Temps
  BY <1>2, <1>3
<1>5. \A g \in Fetchers : doing'[g] = "rename" => TempOf(g)' # {}
  <2> SUFFICES ASSUME NEW g \in Fetchers, doing'[g] = "rename" PROVE \E t \in temps' : t.of = g /\ ~t.orphan
    BY DEF TempOf
  <2>1. PICK t \in temps : t.of = g /\ ~t.orphan
    BY <1>1 DEF ListsInv, TempOf
  <2>2. left(t) = t /\ left(t) \in temps'
    BY <1>1, <1>2, <1>3, <2>1
  <2> QED
    BY <2>1, <2>2
<1>6. ASSUME NEW t \in temps', ~t.orphan PROVE t \in temps /\ t.of \in Fetchers \ dead
  BY <1>2, <1>3, <1>6
<1> HIDE DEF dead
<1> QED
  BY <1>1, <1>4, <1>5, <1>6 DEF ListsInv, Offers

LEMMA TimeKeepsLists ==
  ASSUME ListsInv, \/ \E p \in Proxies : SweepTemp(p)
                   \/ HourPasses \/ Clear \/ DayPasses \/ ServerChanges \/ UNCHANGED storeVars
  PROVE  ListsInv'
<1>0. 0 \in Offers /\ \A t \in temps : t \in Temps /\ t.of \in Fetchers
  BY DEF ListsInv, Offers, Temps
<1>1. ASSUME NEW p \in Proxies, SweepTemp(p) PROVE ListsInv'
  <2>1. \A g \in Fetchers : doing[g] = "rename" => TempOf(g)' # {}
    BY <1>1 DEF SweepTemp, ListsInv, TempOf
  <2> QED
    BY <1>1, <2>1 DEF SweepTemp, ListsInv, Offers
<1>2. CASE HourPasses
  <2> DEFINE aged(t) == [t EXCEPT !.old = t.orphan]
  <2>1. \A t \in temps : aged(t) \in Temps /\ aged(t).of = t.of /\ aged(t).orphan = t.orphan
                         /\ aged(t).has = t.has /\ aged(t).old = t.orphan
    BY <1>0 DEF Temps
  <2>2. temps' = {aged(t) : t \in temps} /\ UNCHANGED <<offered, shown, memory, file, doing, list, up>>
    BY <1>2 DEF HourPasses
  <2> HIDE DEF aged
  <2>3. \A g \in Fetchers : doing[g] = "rename" => TempOf(g)' # {}
    <3> SUFFICES ASSUME NEW g \in Fetchers, doing[g] = "rename" PROVE \E t \in temps' : t.of = g /\ ~t.orphan
      BY DEF TempOf
    <3>1. PICK t \in temps : t.of = g /\ ~t.orphan
      BY DEF ListsInv, TempOf
    <3> QED
      BY <2>1, <2>2, <3>1
  <2>4. \A t \in temps' : \E s \in temps : t \in Temps /\ t.of = s.of /\ t.orphan = s.orphan
                                           /\ t.has = s.has /\ t.old = s.orphan
    BY <2>1, <2>2
  <2>5. temps' \subseteq Temps
    BY <2>4
  <2> QED
    BY <2>2, <2>3, <2>4, <2>5 DEF ListsInv, Offers
<1>3. CASE Clear \/ DayPasses
  <2>1. /\ UNCHANGED <<offered, shown, temps, doing, list, up>> /\ file' = 0 /\ memory' \in [Proxies -> Offers]
    BY <1>0, <1>3 DEF Clear, DayPasses, ListsInv, None
  <2> QED
    BY <1>0, <2>1 DEF ListsInv, Offers, TempOf
<1>4. CASE ServerChanges
  <2>1. /\ offered' \in 1..MaxVersion /\ UNCHANGED <<shown, memory, file, temps, doing, list, up>>
        /\ Offers \subseteq Offers'
    BY <1>4, ToolStoreAssumption DEF ServerChanges, ListsInv, Offers
  <2> QED
    BY <2>1 DEF ListsInv, TempOf
<1>5. CASE UNCHANGED storeVars
  BY <1>5 DEF storeVars, ListsInv, TempOf, Offers
<1> QED
  BY <1>1, <1>2, <1>3, <1>4, <1>5

LEMMA ListsStep == ListsInv /\ [TSNext]_storeVars => ListsInv'
  BY ReadingKeepsLists, WritingKeepsLists, RenamingKeepsLists, KillingKeepsLists, TimeKeepsLists DEF TSNext

LEMMA ListsInitially == TSInit => ListsInv
  BY ToolStoreAssumption DEF TSInit, ListsInv, Offers, None, Temps

\* Wherever writers fail or are killed and whenever others start and sweep, for any number of
\* processes: nobody reads the beginning of a list, no write loses its file to somebody else,
\* and every temporary file is being written or will be swept.
THEOREM WritesStayAtomic == TSSpec => []WritesAreAtomic
  BY ListsInitially, ListsStep, ListsAreAtomic, PTL DEF TSSpec

-----------------------------------------------------------------------------
\* What the comment of ListsGoForward asks for.
RefreshesDoNotOverlap == \A g, h \in Fetchers : ProxyOf[g] = ProxyOf[h] => g = h

\* What a process remembers is what it shows; as long as it remembers nothing, whatever list
\* is about is no older than the one it shows, and so is the one it is going to show.
NoOlder(v, w) == v = None \/ v >= w
ForwardInv ==
  /\ ListsInv
  /\ \A g \in Fetchers :
       /\ doing[g] \in {"idle", "load", "read", "fetch"} => list[g] = None
       /\ doing[g] = "read" => memory[ProxyOf[g]] = None
       /\ doing[g] \in {"show", "persist"} => list[g] # None /\ list[g] >= shown[ProxyOf[g]]
  /\ \A p \in Proxies :
       IF memory[p] # None THEN memory[p] = shown[p]
       ELSE /\ NoOlder(file, shown[p])
            /\ \A q \in Proxies : NoOlder(memory[q], shown[p])
            /\ \A g \in Fetchers : NoOlder(list[g], shown[p])

\* A list that its process was about to show takes the place of an older one.
LEMMA ShowingGoesForward ==
  ASSUME RefreshesDoNotOverlap, ForwardInv, NEW g \in Fetchers, ShowLoaded(g) \/ SetTools(g)
  PROVE  ForwardInv' /\ \A p \in Proxies : shown'[p] >= shown[p]
<1> DEFINE p == ProxyOf[g]
           v == list[g]
<1>0. p \in Proxies /\ ListsInv' /\ \A q \in Proxies : shown[q] \in Nat /\ memory[q] \in Nat
  BY ToolStoreAssumption, ReadingKeepsLists DEF ForwardInv, ListsInv, Offers
<1>1. /\ v \in Nat /\ v # None /\ v >= shown[p] /\ file' = file
      /\ memory'[p] = v /\ shown'[p] = v
      /\ \A q \in Proxies : q # p => memory'[q] = memory[q] /\ shown'[q] = shown[q]
  BY <1>0 DEF ForwardInv, ShowLoaded, SetTools, Turns, Keeps, ListsInv, Offers
<1>2. \A q \in Proxies : shown'[q] >= shown[q]
  BY <1>0, <1>1
<1>3. /\ doing'[g] \in {"fetch", "write"}
      /\ doing'[g] = "fetch" => list'[g] = None
      /\ list'[g] \in {list[g], None}
      /\ \A h \in Fetchers : h # g => doing'[h] = doing[h] /\ list'[h] = list[h]
  BY DEF ShowLoaded, SetTools, Turns, Carries, ForwardInv, ListsInv
<1>4. \A h \in Fetchers : h # g => ProxyOf[h] # p /\ ProxyOf[h] \in Proxies
  BY ToolStoreAssumption DEF RefreshesDoNotOverlap
<1> HIDE DEF p, v
<1>5. \A h \in Fetchers :
       /\ doing'[h] \in {"idle", "load", "read", "fetch"} => list'[h] = None
       /\ doing'[h] = "read" => memory'[ProxyOf[h]] = None
       /\ doing'[h] \in {"show", "persist"} => list'[h] # None /\ list'[h] >= shown'[ProxyOf[h]]
  BY <1>1, <1>3, <1>4 DEF ForwardInv
<1>6. ASSUME NEW q \in Proxies, memory'[q] = None
      PROVE  /\ NoOlder(file', shown'[q])
             /\ \A r \in Proxies : NoOlder(memory'[r], shown'[q])
             /\ \A h \in Fetchers : NoOlder(list'[h], shown'[q])
  <2>1. q # p /\ memory[q] = None /\ shown'[q] = shown[q]
    BY <1>1, <1>6
  <2>2. NoOlder(v, shown[q])
    BY <2>1 DEF v, ForwardInv
  <2> QED
    BY <1>1, <1>3, <2>1, <2>2 DEF ForwardInv, NoOlder
<1>7. \A q \in Proxies : memory'[q] # None => memory'[q] = shown'[q]
  BY <1>1 DEF ForwardInv
<1> QED
  BY <1>0, <1>2, <1>5, <1>6, <1>7 DEF ForwardInv

\* The other steps of a refresh carry what is about, or what the server has.
LEMMA CarryingGoesForward ==
  ASSUME RefreshesDoNotOverlap, ForwardInv, NEW g \in Fetchers,
         \/ Populate(g) \/ LoadMemory(g) \/ ReadFile(g) \/ Fetch(g) \/ WriteTemp(g) \/ Rename(g) \/ FailWrite(g)
  PROVE  ForwardInv' /\ shown' = shown
<1> DEFINE p == ProxyOf[g]
<1>0. p \in Proxies /\ ListsInv' /\ offered \in Nat /\ offered # None
      /\ \A q \in Proxies : shown[q] \in Nat /\ memory[q] \in Nat /\ offered >= shown[q]
  BY ToolStoreAssumption, ReadingKeepsLists, WritingKeepsLists, RenamingKeepsLists
     DEF ForwardInv, ListsInv, Offers, None
<1>1. /\ UNCHANGED <<shown, memory>>
      /\ \A h \in Fetchers : h # g => doing'[h] = doing[h] /\ list'[h] = list[h]
  BY DEF Populate, LoadMemory, ReadFile, Fetch, WriteTemp, Rename, FailWrite, Turns, Carries,
     ForwardInv, ListsInv
<1>2. file' \in {file, list[g]}
  BY DEF Populate, LoadMemory, ReadFile, Fetch, WriteTemp, Rename, FailWrite, Turns, ForwardInv, ListsInv, TempOf
<1>3. /\ doing'[g] \in {"idle", "load", "read", "fetch"} => list'[g] = None
      /\ doing'[g] = "read" => memory[p] = None
      /\ doing'[g] \in {"show", "persist"} => list'[g] # None /\ list'[g] >= shown[p]
      /\ list'[g] \in {list[g], None, offered, file, memory[p]}
  <2>1. CASE Populate(g)
    BY <2>1 DEF Populate, Turns, ForwardInv, ListsInv
  <2>2. CASE LoadMemory(g)
    BY <1>0, <2>2 DEF LoadMemory, Turns, Carries, ForwardInv, ListsInv
  <2>3. CASE ReadFile(g)
    <3>1. /\ doing'[g] = (IF file = None THEN "fetch" ELSE "show") /\ list'[g] = file
          /\ NoOlder(file, shown[p])
      BY <1>0, <2>3 DEF ReadFile, Turns, Carries, ForwardInv, ListsInv
    <3> QED
      BY <3>1 DEF NoOlder
  <2>4. CASE Fetch(g)
    BY <1>0, <2>4 DEF Fetch, Turns, Carries, ForwardInv, ListsInv
  <2>5. CASE WriteTemp(g) \/ Rename(g) \/ FailWrite(g)
    BY <2>5 DEF WriteTemp, Rename, FailWrite, Turns, Carries, ForwardInv, ListsInv
  <2> QED
    BY <2>1, <2>2, <2>3, <2>4, <2>5
<1> HIDE DEF p
<1>4. \A h \in Fetchers :
       /\ doing'[h] \in {"idle", "load", "read", "fetch"} => list'[h] = None
       /\ doing'[h] = "read" => memory'[ProxyOf[h]] = None
       /\ doing'[h] \in {"show", "persist"} => list'[h] # None /\ list'[h] >= shown'[ProxyOf[h]]
  BY <1>1, <1>3 DEF ForwardInv, p
<1>5. ASSUME NEW q \in Proxies, memory'[q] = None
      PROVE  /\ NoOlder(file', shown'[q])
             /\ \A r \in Proxies : NoOlder(memory'[r], shown'[q])
             /\ \A h \in Fetchers : NoOlder(list'[h], shown'[q])
  <2>1. /\ NoOlder(file, shown[q]) /\ \A r \in Proxies : NoOlder(memory[r], shown[q])
        /\ \A h \in Fetchers : NoOlder(list[h], shown[q])
    BY <1>1, <1>5 DEF ForwardInv
  <2>2. NoOlder(offered, shown[q]) /\ NoOlder(None, shown[q])
    BY <1>0 DEF NoOlder
  <2>3. NoOlder(list'[g], shown[q])
    BY <1>0, <1>3, <2>1, <2>2
  <2> QED
    BY <1>1, <1>2, <2>1, <2>3
<1> QED
  BY <1>0, <1>1, <1>4, <1>5 DEF ForwardInv

\* A process that is killed shows nothing; after a day nothing old is about.
LEMMA OthersGoForward ==
  ASSUME RefreshesDoNotOverlap, ForwardInv,
         \/ \E p \in Proxies : Kill(p) \/ SweepTemp(p)
         \/ HourPasses \/ Clear \/ DayPasses \/ ServerChanges \/ UNCHANGED storeVars
  PROVE  ForwardInv' /\ \A p \in Proxies : up'[p] => shown'[p] >= shown[p]
<1>0. ListsInv' /\ \A q \in Proxies : shown[q] \in Nat /\ memory[q] \in Nat
  BY KillingKeepsLists, TimeKeepsLists DEF ForwardInv, ListsInv, Offers
<1>1. ASSUME NEW p \in Proxies, Kill(p) PROVE ForwardInv' /\ \A q \in Proxies : up'[q] => shown'[q] >= shown[q]
  <2>1. /\ file' = file /\ ~up'[p] /\ shown'[p] = 0 /\ memory'[p] = 0
        /\ \A q \in Proxies : q # p => shown'[q] = shown[q] /\ memory'[q] = memory[q]
        /\ \A g \in Fetchers : IF ProxyOf[g] = p THEN doing'[g] = "idle" /\ list'[g] = 0
                                                 ELSE doing'[g] = doing[g] /\ list'[g] = list[g]
    BY <1>1 DEF Kill, ForwardInv, ListsInv, None
  <2>3. \A q \in Proxies : up'[q] => shown'[q] >= shown[q]
    BY <1>0, <2>1
  <2>4. \A g \in Fetchers : list'[g] \in Nat /\ ProxyOf[g] \in Proxies
    BY <1>0, ToolStoreAssumption DEF ListsInv, Offers
  <2>5. file \in Nat
    BY DEF ForwardInv, ListsInv, Offers
  <2>6. ASSUME NEW q \in Proxies, memory'[q] = None
        PROVE  /\ NoOlder(file', shown'[q])
               /\ \A r \in Proxies : NoOlder(memory'[r], shown'[q])
               /\ \A h \in Fetchers : NoOlder(list'[h], shown'[q])
    <3>1. CASE q = p
      BY <1>0, <2>1, <2>4, <2>5, <3>1 DEF NoOlder
    <3>2. CASE q # p
      BY <2>1, <2>6, <3>2 DEF NoOlder, ForwardInv, None
    <3> QED
      BY <3>1, <3>2
  <2>7. \A q \in Proxies : memory'[q] # None => memory'[q] = shown'[q]
    BY <2>1 DEF ForwardInv, None
  <2>8. \A h \in Fetchers :
       /\ doing'[h] \in {"idle", "load", "read", "fetch"} => list'[h] = None
       /\ doing'[h] = "read" => memory'[ProxyOf[h]] = None
       /\ doing'[h] \in {"show", "persist"} => list'[h] # None /\ list'[h] >= shown'[ProxyOf[h]]
    BY <2>1, <2>4 DEF ForwardInv, None
  <2> QED
    BY <1>0, <2>3, <2>6, <2>7, <2>8, SMTT(60) DEF ForwardInv
<1>2. CASE DayPasses
  <2>1. /\ shown' = shown /\ UNCHANGED <<doing, list>> /\ file' = None
        /\ memory' = [p \in Proxies |-> None] /\ \A g \in Fetchers : doing[g] = "idle"
    BY <1>2 DEF DayPasses
  <2> QED
    BY <1>0, <2>1 DEF ForwardInv, NoOlder
<1>3. ASSUME UNCHANGED <<shown, memory, doing, list>>, file' \in {file, None}
      PROVE  ForwardInv' /\ \A q \in Proxies : up'[q] => shown'[q] >= shown[q]
  BY <1>0, <1>3 DEF ForwardInv, NoOlder
<1> QED
  BY <1>1, <1>2, <1>3 DEF SweepTemp, HourPasses, Clear, ServerChanges, storeVars

LEMMA ForwardStep ==
  RefreshesDoNotOverlap /\ ForwardInv /\ [TSNext]_storeVars =>
    ForwardInv' /\ [\A p \in Proxies : up'[p] => shown'[p] >= shown[p]]_storeVars
<1> SUFFICES ASSUME RefreshesDoNotOverlap, ForwardInv, [TSNext]_storeVars
             PROVE  ForwardInv' /\ \A p \in Proxies : up'[p] => shown'[p] >= shown[p]
  OBVIOUS
<1>1. \A p \in Proxies : shown[p] \in Nat
  BY DEF ForwardInv, ListsInv, Offers
<1>2. ASSUME shown' = shown PROVE \A p \in Proxies : shown'[p] >= shown[p]
  BY <1>1, <1>2
<1> QED
  BY <1>2, ShowingGoesForward, CarryingGoesForward, OthersGoForward DEF TSNext

\* Whoever reads, writes, expires, clears or is killed in between, for any number of processes
\* and versions: a process whose refreshes do not overlap never shows an older list than it did.
THEOREM ListsStayAhead == ASSUME RefreshesDoNotOverlap PROVE TSSpec => ListsGoForward
<1>1. TSInit => ForwardInv
  BY ListsInitially DEF TSInit, ForwardInv, NoOlder
<1>2. ForwardInv /\ [TSNext]_storeVars =>
        ForwardInv' /\ [\A p \in Proxies : up'[p] => shown'[p] >= shown[p]]_storeVars
  BY ForwardStep
<1> QED
  BY <1>1, <1>2, PTL DEF TSSpec, ListsGoForward

-----------------------------------------------------------------------------
\* The usage record: what is being written is what is to be saved, unless a tool was touched
\* since the copy was made.
UsageInv == /\ saving /\ ~dirty => snapshot = records
            /\ QuietMeansSaved

LEMMA UsageStep == UsageInv /\ [UFNext]_usageVars => UsageInv'
<1> SUFFICES ASSUME UsageInv, [UFNext]_usageVars PROVE UsageInv'
  OBVIOUS
<1> USE DEF UsageInv, QuietMeansSaved
<1>1. ASSUME NEW t \in Tools, TouchUsed(t) \/ Offer(t) PROVE UsageInv'
  BY <1>1 DEF TouchUsed, Offer
<1>2. CASE MaybeSave(TRUE) \/ MaybeSave(FALSE)
  BY <1>2 DEF MaybeSave
<1>3. CASE Write
  BY <1>3 DEF Write
<1>4. CASE Reload
  BY <1>4 DEF Reload
<1>5. CASE UsageTick \/ UNCHANGED usageVars
  BY <1>5 DEF UsageTick, usageVars
<1> QED
  BY <1>1, <1>2, <1>3, <1>4, <1>5 DEF UFNext

\* A tool that is touched at any point of a save, one that fails or is cut off by the end of
\* the process included, is not forgotten: a tracker with nothing to save has saved it.
THEOREM QuietStaysSaved == UFSpec => []QuietMeansSaved
<1>1. UFInit => UsageInv
  BY DEF UFInit, UsageInv, QuietMeansSaved
<1>2. UsageInv => QuietMeansSaved
  BY DEF UsageInv
<1> QED
  BY <1>1, <1>2, UsageStep, PTL DEF UFSpec

-----------------------------------------------------------------------------
\* The distilled manifests: what is doomed stated the server that is being invalidated, or
\* nothing.
ManifestsInv == /\ files \subseteq AllFiles
                /\ \A d \in doomed : d.owner \in {sweeping, Unreadable}

LEMMA ManifestsStep == ManifestsInv /\ [DCNext]_distilledVars => ManifestsInv'
<1> SUFFICES ASSUME ManifestsInv, [DCNext]_distilledVars PROVE ManifestsInv'
  OBVIOUS
<1>1. ASSUME NEW s \in Servers, Invalidate(s) PROVE ManifestsInv'
  BY <1>1 DEF Invalidate, filesFor, ManifestsInv
<1>2. ASSUME NEW s \in Servers, NEW h \in Hashes, Store(s, h) PROVE ManifestsInv'
  <2>1. [name |-> fileName(s, h), owner |-> s] \in AllFiles
    BY DEF AllFiles
  <2> QED
    BY <1>2, <2>1 DEF Store, ManifestsInv
<1>3. ASSUME NEW s \in Servers, NEW h \in Hashes, Load(s, h) PROVE ManifestsInv'
  BY <1>3 DEF Load, ManifestsInv
<1>4. ASSUME NEW f \in files, Damage(f) PROVE ManifestsInv'
  <2>0. PICK s \in Servers, h \in Hashes, o \in Servers \cup {Unreadable} :
          f = [name |-> fileName(s, h), owner |-> o]
    BY DEF ManifestsInv, AllFiles
  <2>1. [f EXCEPT !.owner = Unreadable] \in AllFiles
    <3>1. [f EXCEPT !.owner = Unreadable] = [name |-> fileName(s, h), owner |-> Unreadable]
      BY <2>0
    <3> QED
      BY <3>1 DEF AllFiles
  <2> QED
    BY <1>4, <2>1 DEF Damage, ManifestsInv
<1>5. ASSUME NEW f \in doomed, RemoveFound(f) PROVE ManifestsInv'
  BY <1>5 DEF RemoveFound, ManifestsInv
<1>6. CASE Swept \/ UNCHANGED distilledVars
  BY <1>6 DEF Swept, distilledVars, ManifestsInv
<1> QED
  BY <1>1, <1>2, <1>3, <1>4, <1>5, <1>6 DEF DCNext

LEMMA FilesGoWhenDoomed ==
  ManifestsInv /\ [DCNext]_distilledVars =>
    [\A f \in files : (\A g \in files' : g.name # f.name)
        => \E d \in doomed : d.name = f.name /\ d.owner \in {sweeping, Unreadable}]_distilledVars
<1> SUFFICES ASSUME ManifestsInv, [DCNext]_distilledVars,
                    NEW f \in files, \A g \in files' : g.name # f.name
             PROVE  \E d \in doomed : d.name = f.name /\ d.owner \in {sweeping, Unreadable}
  OBVIOUS
<1>1. f \notin files'
  OBVIOUS
<1>2. ASSUME NEW s \in Servers, NEW h \in Hashes, Store(s, h) PROVE FALSE
  <2>1. [name |-> fileName(s, h), owner |-> s] \in files'
    BY <1>1, <1>2 DEF Store
  <2> QED
    BY <1>1, <1>2, <2>1 DEF Store
<1>3. ASSUME NEW d \in files, Damage(d) PROVE FALSE
  <2>1. [d EXCEPT !.owner = Unreadable] \in files' /\ [d EXCEPT !.owner = Unreadable].name = d.name
    BY <1>3 DEF Damage, ManifestsInv, AllFiles
  <2> QED
    BY <1>1, <1>3, <2>1 DEF Damage
<1>4. ASSUME NEW d \in doomed, RemoveFound(d) PROVE d.name = f.name
  BY <1>1, <1>4 DEF RemoveFound
<1>5. ASSUME files' = files PROVE FALSE
  BY <1>1, <1>5
<1> QED
  BY <1>2, <1>3, <1>4, <1>5 DEF DCNext, ManifestsInv, Invalidate, Load, Swept, distilledVars

\* However invalidating a server overlaps with storing, loading and damage, for any names:
\* the file of another server is not removed, unless it could not be read when it was found.
THEOREM OthersStayUntouched == DCSpec => OthersKeepTheirFiles
<1>1. DCInit => ManifestsInv
  BY DEF DCInit, ManifestsInv
<1> QED
  BY <1>1, ManifestsStep, FilesGoWhenDoomed, PTL DEF DCSpec, OthersKeepTheirFiles

-----------------------------------------------------------------------------
\* Side by side: a step of one part is a step of that part, and leaves the others alone.
LEMMA OnePartSteps ==
  ASSUME [MCNext]_mcVars
  PROVE  [SCNext]_cacheVars /\ [VSNext]_vecVars /\ [TSNext]_storeVars
<1>1. CASE part = "prompts" /\ SCNext /\ UNCHANGED <<budgetVars, vecVars, fileVars>>
  BY <1>1 DEF fileVars
<1>2. CASE part = "vectors" /\ VSNext /\ UNCHANGED <<budgetVars, cacheVars, fileVars>>
  BY <1>2 DEF fileVars
<1>3. CASE TSNext /\ UNCHANGED <<budgetVars, cacheVars, vecVars>>
  BY <1>3
<1>4. CASE UNCHANGED <<cacheVars, vecVars, storeVars>>
  BY <1>4
<1>5. \/ part = "prompts" /\ SCNext /\ UNCHANGED <<budgetVars, vecVars, fileVars>>
      \/ part = "vectors" /\ VSNext /\ UNCHANGED <<budgetVars, cacheVars, fileVars>>
      \/ TSNext /\ UNCHANGED <<budgetVars, cacheVars, vecVars>>
      \/ UNCHANGED <<cacheVars, vecVars, storeVars>>
  BY DEF MCNext, mcVars, fileVars
<1> QED
  BY <1>1, <1>2, <1>3, <1>4, <1>5

\* The caches agree with what is beside them, for any number of processes, prompts, names and
\* rows: the prompt cache with its vectors, the rows of the store with their index, the searches
\* with the rows, and a reader of a list of tools with what was written.
THEOREM CachesStayTended == MCSpec => []CachesAreTended
<1> DEFINE I == CacheInv /\ StoreInv /\ ListsInv
<1>1. MCInit => I
  BY CacheInitially, StoreInvInit, ListsInitially DEF MCInit
<1>2. I /\ [MCNext]_mcVars => I'
  BY OnePartSteps, CacheStep, StoreInvStep, ListsStep
<1>3. I => CachesAreTended
  BY IndexFindsNearest, ScanFindsBest, ListsAreAtomic
     DEF CachesAreTended, CacheInv, VectorsAreTended, VectorsAreKept, StoreInv
<1> HIDE DEF I
<1> QED
  BY <1>1, <1>2, <1>3, PTL DEF MCSpec
=============================================================================
