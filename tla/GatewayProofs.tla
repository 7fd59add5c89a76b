---------------------------- MODULE GatewayProofs ----------------------------
(***************************************************************************)
(* Proofs about the doors of the proxy and what watches over them.  Each   *)
(* part has an inductive invariant of its own: the connections of `serve', *)
(* the pipeline of a request, the loop of `server run --stdio', the        *)
(* transports, the socket server and its sessions, the injection           *)
(* classifier, the cache breakpoints, the redaction of streams, the        *)
(* results of tools, and the prefilter of the redactor.  Side by side they *)
(* give TrafficIsSound and NothingIsCutShort for every value of the        *)
(* constants.                                                              *)
(*                                                                         *)
(* Folds come first: most operators that go through a list or a set are    *)
(* folds, and the provers are given each as a run of values, one for every *)
(* element that has been gone through (the lemmas that end in `Goes').     *)
(***************************************************************************)
EXTENDS MCGateway, FiniteSetTheorems, SequenceTheorems, WellFoundedInduction, TLAPS

-----------------------------------------------------------------------------
\* Folds over finite sets.  A fold goes through a set by picking one element after the other;
\* `step' says what each makes of what the ones picked later came to.
Folds(f, base, step1, pick, S) ==
  f = [s \in SUBSET S |-> IF s = {} THEN base ELSE step1[<<pick[s], f[s \ {pick[s]}]>>]]
PicksFrom(pick, S) == \A s \in SUBSET S : s # {} => pick[s] \in s

\* Among the subsets of a finite set that have a property, if any do, one has no proper subset
\* that does: induction over finite sets in the form the provers can use.
LEMMA SmallestSubset ==
  ASSUME NEW S, IsFiniteSet(S), NEW X \in SUBSET SUBSET S, X # {}
  PROVE  \E s \in X : \A r \in X : r \subseteq s => r = s
<1>1. IsWellFoundedOn(StrictSubsetOrdering(S), SUBSET S)
  BY FS_StrictSubsetOrderingWellFounded, FS_FiniteSubsetsOfFinite
<1>2. PICK s \in X : \A r \in X : ~(<<r, s>> \in StrictSubsetOrdering(S))
  BY <1>1, WFMin
<1>3. \A r \in X : r \subseteq s => r = s
  BY <1>2 DEF StrictSubsetOrdering
<1> QED
  BY <1>2, <1>3

LEMMA FoldsApply ==
  ASSUME NEW base, NEW h, NEW pick, NEW S, NEW f, Folds(f, base, h, pick, S), NEW s \in SUBSET S
  PROVE  f[s] = IF s = {} THEN base ELSE h[<<pick[s], f[s \ {pick[s]}]>>]
  BY DEF Folds

LEMMA FoldsAgree ==
  ASSUME NEW base, NEW h, NEW pick, NEW S, NEW R, IsFiniteSet(S), PicksFrom(pick, S),
         NEW f, NEW g, Folds(f, base, h, pick, S), Folds(g, base, h, pick, R),
         NEW T \in (SUBSET S) \cap (SUBSET R)
  PROVE  f[T] = g[T]
<1> DEFINE X == {s \in SUBSET S : s \in SUBSET R /\ f[s] # g[s]}
<1>1. SUFFICES ASSUME X # {} PROVE FALSE
  OBVIOUS
<1>2. PICK s \in X : \A r \in X : r \subseteq s => r = s
  <2>1. X \in SUBSET SUBSET S
    OBVIOUS
  <2> HIDE DEF X
  <2> QED
    BY <1>1, <2>1, SmallestSubset
<1>3. /\ f[s] = IF s = {} THEN base ELSE h[<<pick[s], f[s \ {pick[s]}]>>]
      /\ g[s] = IF s = {} THEN base ELSE h[<<pick[s], g[s \ {pick[s]}]>>]
  BY <1>2, FoldsApply
<1>4. s # {} /\ pick[s] \in s
  BY <1>2, <1>3 DEF PicksFrom
<1>5. s \ {pick[s]} \notin X
  BY <1>2, <1>4
<1>6. f[s \ {pick[s]}] = g[s \ {pick[s]}]
  BY <1>2, <1>5
<1> QED
  BY <1>2, <1>3, <1>4, <1>6

\* A fold over a finite set is defined: there is a function that is as Folds says.
LEMMA FoldsExist ==
  ASSUME NEW base, NEW h, NEW pick, NEW S, IsFiniteSet(S), PicksFrom(pick, S)
  PROVE  \E f : Folds(f, base, h, pick, S)
<1> DEFINE X == {s \in SUBSET S : ~ \E f : Folds(f, base, h, pick, s)}
<1>1. SUFFICES ASSUME X # {} PROVE FALSE
  OBVIOUS
<1>2. PICK s \in X : \A r \in X : r \subseteq s => r = s
  <2>1. X \in SUBSET SUBSET S
    OBVIOUS
  <2> HIDE DEF X
  <2> QED
    BY <1>1, <2>1, SmallestSubset
<1> DEFINE fold(r) == CHOOSE f : Folds(f, base, h, pick, r)
           V(r) == fold(r)[r]
           g == [r \in SUBSET s |-> IF r = {} THEN base ELSE h[<<pick[r], V(r \ {pick[r]})>>]]
<1>3. ASSUME NEW r \in SUBSET s, r # s
      PROVE  Folds(fold(r), base, h, pick, r) /\ IsFiniteSet(r) /\ PicksFrom(pick, r)
  <2>1. r \notin X /\ r \in SUBSET S
    BY <1>2, <1>3
  <2>2. \E f : Folds(f, base, h, pick, r)
    BY <2>1
  <2>3. PicksFrom(pick, r)
    BY <2>1 DEF PicksFrom
  <2> QED
    BY <2>1, <2>2, <2>3, FS_Subset
<1>4. ASSUME NEW r \in SUBSET s, r # s
      PROVE  g[r] = V(r)
  <2>0. Folds(fold(r), base, h, pick, r) /\ IsFiniteSet(r) /\ PicksFrom(pick, r)
    BY <1>3, <1>4
  <2>1. V(r) = IF r = {} THEN base ELSE h[<<pick[r], fold(r)[r \ {pick[r]}]>>]
    BY <2>0, FoldsApply
  <2>2. CASE r = {}
    BY <2>1, <2>2
  <2>3. CASE r # {}
    <3> DEFINE q == r \ {pick[r]}
    <3>1. pick[r] \in r /\ q \in SUBSET r /\ q # s /\ q \in SUBSET s
      BY <2>0, <2>3, <1>4 DEF PicksFrom
    <3>2. Folds(fold(q), base, h, pick, q) /\ IsFiniteSet(q) /\ PicksFrom(pick, q)
      BY <1>3, <3>1
    <3>3. fold(q)[q] = fold(r)[q]
      BY <2>0, <3>1, <3>2, FoldsAgree
    <3>4. g[r] = h[<<pick[r], V(q)>>]
      BY <1>4, <2>3
    <3> QED
      BY <2>1, <2>3, <3>3, <3>4
  <2> QED
    BY <2>2, <2>3
<1>5. ASSUME NEW r \in SUBSET s, r # {}
      PROVE  g[r \ {pick[r]}] = V(r \ {pick[r]})
  <2>1. pick[r] \in r
    BY <1>2, <1>5 DEF PicksFrom
  <2>2. r \ {pick[r]} \in SUBSET s /\ r \ {pick[r]} # s
    BY <1>5, <2>1
  <2> QED
    BY <1>4, <2>2
<1> HIDE DEF V
<1>6. g = [r \in SUBSET s |-> IF r = {} THEN base ELSE h[<<pick[r], g[r \ {pick[r]}]>>]]
  BY <1>5
<1>7. Folds(g, base, h, pick, s)
  BY <1>6 DEF Folds
<1> QED
  BY <1>2, <1>7

\* What every step keeps, the fold has.
LEMMA FoldsStay ==
  ASSUME NEW base, NEW h, NEW pick, NEW S, IsFiniteSet(S), PicksFrom(pick, S),
         NEW f, Folds(f, base, h, pick, S),
         NEW V, base \in V, \A x \in S, v \in V : h[<<x, v>>] \in V, NEW T \in SUBSET S
  PROVE  f[T] \in V
<1> DEFINE X == {s \in SUBSET S : f[s] \notin V}
<1>1. SUFFICES ASSUME X # {} PROVE FALSE
  OBVIOUS
<1>2. PICK s \in X : \A r \in X : r \subseteq s => r = s
  <2>1. X \in SUBSET SUBSET S
    OBVIOUS
  <2> HIDE DEF X
  <2> QED
    BY <1>1, <2>1, SmallestSubset
<1>3. f[s] = IF s = {} THEN base ELSE h[<<pick[s], f[s \ {pick[s]}]>>]
  BY <1>2, FoldsApply
<1>4. s # {} /\ pick[s] \in s
  BY <1>2, <1>3 DEF PicksFrom
<1>5. f[s \ {pick[s]}] \in V
  BY <1>2, <1>4
<1> QED
  BY <1>2, <1>3, <1>4, <1>5

-----------------------------------------------------------------------------
\* Sums over finite sets.
Some(s) == CHOOSE x \in s : TRUE
Sums(f, t, S) == f = [s \in SUBSET S |-> IF s = {} THEN 0 ELSE t[Some(s)] + f[s \ {Some(s)}]]
SumOver(t, S) == MapThenSumSet(LAMBDA x : t[x], S)

LEMMA SumUnfolds ==
  ASSUME NEW t, NEW S
  PROVE  SumOver(t, S) = (CHOOSE f : Sums(f, t, S))[S]
  BY DEF SumOver, MapThenSumSet, MapThenFoldSet, Sums, Some

LEMMA SumsExist ==
  ASSUME NEW t, NEW S, IsFiniteSet(S), \A x \in S : t[x] \in Nat
  PROVE  \E f : Sums(f, t, S) /\ \A s \in SUBSET S : f[s] \in Nat
<1> DEFINE h == [q \in S \X Nat |-> t[q[1]] + q[2]]
           pick == [s \in SUBSET S |-> Some(s)]
<1>1. PicksFrom(pick, S)
  BY DEF PicksFrom, Some
<1>2. \A x \in S, v \in Nat : h[<<x, v>>] = t[x] + v
  OBVIOUS
<1>3. \A s \in SUBSET S : pick[s] = Some(s)
  OBVIOUS
<1> HIDE DEF h, pick
<1>4. PICK f : Folds(f, 0, h, pick, S)
  BY <1>1, FoldsExist
<1>5. ASSUME NEW x \in S, NEW v \in Nat PROVE h[<<x, v>>] \in Nat
  <2>1. t[x] \in Nat /\ h[<<x, v>>] = t[x] + v
    BY <1>2
  <2> QED
    BY <2>1
<1>6. \A s \in SUBSET S : f[s] \in Nat
  BY <1>1, <1>4, <1>5, FoldsStay
<1>7. ASSUME NEW s \in SUBSET S, s # {} PROVE h[<<pick[s], f[s \ {pick[s]}]>>] = t[Some(s)] + f[s \ {Some(s)}]
  <2>1. pick[s] = Some(s) /\ pick[s] \in S /\ f[s \ {pick[s]}] \in Nat
    BY <1>1, <1>3, <1>6, <1>7 DEF PicksFrom
  <2> QED
    BY <1>2, <2>1
<1>8. \A s \in SUBSET S : (IF s = {} THEN 0 ELSE h[<<pick[s], f[s \ {pick[s]}]>>])
                          = IF s = {} THEN 0 ELSE t[Some(s)] + f[s \ {Some(s)}]
  BY <1>7
<1>9. f = [s \in SUBSET S |-> IF s = {} THEN 0 ELSE h[<<pick[s], f[s \ {pick[s]}]>>]]
  BY <1>4 DEF Folds
<1>10. f = [s \in SUBSET S |-> IF s = {} THEN 0 ELSE t[Some(s)] + f[s \ {Some(s)}]]
  BY <1>8, <1>9
<1>11. Sums(f, t, S)
  BY <1>10 DEF Sums
<1> QED
  BY <1>6, <1>11

LEMMA SomeIsIn == ASSUME NEW s, s # {} PROVE Some(s) \in s
  BY DEF Some

LEMMA SumsApply ==
  ASSUME NEW t, NEW S, NEW f, Sums(f, t, S), NEW s \in SUBSET S
  PROVE  f[s] = IF s = {} THEN 0 ELSE t[Some(s)] + f[s \ {Some(s)}]
  BY DEF Sums

LEMMA SumsAgree ==
  ASSUME NEW t, NEW S, NEW R, IsFiniteSet(S), NEW f, NEW g, Sums(f, t, S), Sums(g, t, R),
         NEW T \in (SUBSET S) \cap (SUBSET R)
  PROVE  f[T] = g[T]
<1> DEFINE X == {s \in SUBSET S : s \in SUBSET R /\ f[s] # g[s]}
<1>1. SUFFICES ASSUME X # {} PROVE FALSE
  OBVIOUS
<1>2. PICK s \in X : \A r \in X : r \subseteq s => r = s
  <2>1. X \in SUBSET SUBSET S
    OBVIOUS
  <2> HIDE DEF X
  <2> QED
    BY <1>1, <2>1, SmallestSubset
<1>3. /\ f[s] = IF s = {} THEN 0 ELSE t[Some(s)] + f[s \ {Some(s)}]
      /\ g[s] = IF s = {} THEN 0 ELSE t[Some(s)] + g[s \ {Some(s)}]
  BY <1>2, SumsApply
<1>4. s # {} /\ Some(s) \in s
  BY <1>2, <1>3, SomeIsIn
<1>5. s \ {Some(s)} \notin X
  BY <1>2, <1>4
<1>6. f[s \ {Some(s)}] = g[s \ {Some(s)}]
  BY <1>2, <1>5
<1> QED
  BY <1>2, <1>3, <1>4, <1>6

\* A sum over a finite set is what one would expect.
LEMMA SumOfNothing == ASSUME NEW t PROVE SumOver(t, {}) = 0
<1>1. PICK f : Sums(f, t, {})
  BY SumsExist, FS_EmptySet
<1>2. Sums(CHOOSE g : Sums(g, t, {}), t, {})
  BY <1>1
<1> QED
  BY <1>2, SumsApply, SumUnfolds

LEMMA SumOfSome ==
  ASSUME NEW t, NEW S, IsFiniteSet(S), \A x \in S : t[x] \in Nat, S # {}
  PROVE  SumOver(t, S) = t[Some(S)] + SumOver(t, S \ {Some(S)})
<1> DEFINE R == S \ {Some(S)}
           f == CHOOSE h : Sums(h, t, S)
           g == CHOOSE h : Sums(h, t, R)
<1>1. Sums(f, t, S)
  BY SumsExist
<1>2. IsFiniteSet(R) /\ R \in (SUBSET R) \cap (SUBSET S) /\ \A x \in R : t[x] \in Nat
  BY FS_Subset
<1>3. Sums(g, t, R)
  <2> HIDE DEF R
  <2>1. \E h : Sums(h, t, R)
    BY <1>2, SumsExist
  <2> QED
    BY <2>1
<1>4. f[R] = g[R]
  BY <1>1, <1>2, <1>3, SumsAgree
<1>5. f[S] = t[Some(S)] + f[R]
  BY <1>1, SumsApply
<1> QED
  BY <1>4, <1>5, SumUnfolds

LEMMA SumIsNatural ==
  ASSUME NEW t, NEW S, IsFiniteSet(S), \A x \in S : t[x] \in Nat
  PROVE  SumOver(t, S) \in Nat
<1> DEFINE X == {s \in SUBSET S : SumOver(t, s) \notin Nat}
<1>1. SUFFICES ASSUME X # {} PROVE FALSE
  OBVIOUS
<1>2. PICK s \in X : \A r \in X : r \subseteq s => r = s
  <2>1. X \in SUBSET SUBSET S
    OBVIOUS
  <2> HIDE DEF X
  <2> QED
    BY <1>1, <2>1, SmallestSubset
<1>3. s # {}
  <2>1. SumOver(t, {}) \in Nat
    BY SumOfNothing
  <2> QED
    BY <2>1
<1>4. IsFiniteSet(s) /\ Some(s) \in s
  BY <1>2, <1>3, FS_Subset, SomeIsIn
<1>5. SumOver(t, s \ {Some(s)}) \in Nat /\ t[Some(s)] \in Nat
  BY <1>2, <1>4
<1>6. SumOver(t, s) = t[Some(s)] + SumOver(t, s \ {Some(s)})
  BY <1>3, <1>4, SumOfSome
<1> QED
  BY <1>2, <1>5, <1>6

LEMMA SumTakesAny ==
  ASSUME NEW t, NEW S, IsFiniteSet(S), \A x \in S : t[x] \in Nat, NEW e \in S
  PROVE  SumOver(t, S) = t[e] + SumOver(t, S \ {e})
<1> DEFINE X == {s \in SUBSET S : \E x \in s : SumOver(t, s) # t[x] + SumOver(t, s \ {x})}
<1>1. SUFFICES ASSUME X # {} PROVE FALSE
  BY Zenon
<1>2. PICK s \in X : \A r \in X : r \subseteq s => r = s
  <2>1. X \in SUBSET SUBSET S
    OBVIOUS
  <2> HIDE DEF X
  <2> QED
    BY <1>1, <2>1, SmallestSubset
<1>3. PICK x \in s : SumOver(t, s) # t[x] + SumOver(t, s \ {x})
  BY <1>2
<1> DEFINE y == Some(s)
<1>4. /\ y \in s /\ IsFiniteSet(s) /\ IsFiniteSet(s \ {x}) /\ IsFiniteSet(s \ {y}) /\ IsFiniteSet(s \ {x, y})
      /\ s \ {x} \in SUBSET S /\ s \ {y} \in SUBSET S /\ s \ {x, y} \in SUBSET S
  BY <1>2, <1>3, FS_Subset, SomeIsIn
<1>5. SumOver(t, s) = t[y] + SumOver(t, s \ {y})
  BY <1>3, <1>4, SumOfSome
<1>6. x # y
  BY <1>3, <1>5
<1>7. SumOver(t, s \ {y}) = t[x] + SumOver(t, (s \ {y}) \ {x})
  <2>1. s \ {y} \notin X /\ x \in s \ {y}
    BY <1>2, <1>3, <1>4, <1>6
  <2> QED
    BY <1>4, <2>1
<1>8. SumOver(t, s \ {x}) = t[y] + SumOver(t, (s \ {x}) \ {y})
  <2>1. s \ {x} \notin X /\ y \in s \ {x}
    BY <1>2, <1>3, <1>4, <1>6
  <2> QED
    BY <1>4, <2>1
<1>9. (s \ {y}) \ {x} = s \ {x, y} /\ (s \ {x}) \ {y} = s \ {x, y}
  OBVIOUS
<1>10. t[x] \in Nat /\ t[y] \in Nat /\ SumOver(t, s \ {x, y}) \in Nat
  BY <1>2, <1>3, <1>4, SumIsNatural
<1> HIDE DEF y, X
<1> DEFINE rest == SumOver(t, s \ {x, y})
<1>11. /\ SumOver(t, s) = t[y] + SumOver(t, s \ {y}) /\ SumOver(t, s \ {y}) = t[x] + rest
       /\ SumOver(t, s \ {x}) = t[y] + rest /\ rest \in Nat
  BY <1>5, <1>7, <1>8, <1>9, <1>10, Zenon
<1> HIDE DEF rest
<1>12. SumOver(t, s) = t[x] + SumOver(t, s \ {x})
  BY <1>10, <1>11
<1> QED
  BY <1>3, <1>12

-----------------------------------------------------------------------------
\* The largest of a finite set of numbers, and a fold over a sequence, which picks the last
\* place first.
LEMMA LargestOfAny ==
  ASSUME NEW S, S \subseteq Int, IsFiniteSet(S), S # {}
  PROVE  Max(S) \in S /\ \A x \in S : x <= Max(S)
<1> DEFINE X == {s \in SUBSET S : s # {} /\ ~ \E m \in s : \A x \in s : m >= x}
<1>1. X = {}
  <2> SUFFICES ASSUME X # {} PROVE FALSE
    OBVIOUS
  <2>1. X \in SUBSET SUBSET S
    OBVIOUS
  <2>2. PICK s \in X : \A r \in X : r \subseteq s => r = s
    <3>1. IsFiniteSet(S) /\ X # {}
      OBVIOUS
    <3> HIDE DEF X
    <3> QED
      BY ONLY <2>1, <3>1, SmallestSubset
  <2>3. PICK e \in s : TRUE
    BY <2>2
  <2>4. CASE s = {e}
    BY <2>2, <2>4
  <2>5. CASE s # {e}
    <3>1. s \ {e} \notin X /\ s \ {e} # {} /\ s \ {e} \in SUBSET S
      BY <2>2, <2>3, <2>5
    <3>2. PICK m \in s \ {e} : \A x \in s \ {e} : m >= x
      BY <3>1
    <3>3. m \in Int /\ e \in Int /\ \A x \in s : x \in Int
      BY <2>2, <2>3, <3>2
    <3>4. CASE m >= e
      BY <2>2, <3>2, <3>4
    <3>5. CASE e > m
      <4>1. \A x \in s : e >= x
        BY <3>2, <3>3, <3>5
      <4> QED
        BY <2>2, <2>3, <4>1
    <3> QED
      BY <3>3, <3>4, <3>5
  <2> QED
    BY <2>4, <2>5
<1>2. \E m \in S : \A x \in S : m >= x
  BY <1>1
<1>3. Max(S) \in S /\ \A x \in S : Max(S) >= x
  BY <1>2 DEF Max
<1> QED
  BY <1>3

LEMMA LeastOfAny ==
  ASSUME NEW S, S \subseteq Int, IsFiniteSet(S), S # {}
  PROVE  Min(S) \in S /\ \A x \in S : Min(S) <= x
<1> DEFINE X == {s \in SUBSET S : s # {} /\ ~ \E m \in s : \A x \in s : m <= x}
<1>1. X = {}
  <2> SUFFICES ASSUME X # {} PROVE FALSE
    OBVIOUS
  <2>1. X \in SUBSET SUBSET S
    OBVIOUS
  <2>2. PICK s \in X : \A r \in X : r \subseteq s => r = s
    <3>1. IsFiniteSet(S) /\ X # {}
      OBVIOUS
    <3> HIDE DEF X
    <3> QED
      BY ONLY <2>1, <3>1, SmallestSubset
  <2>3. PICK e \in s : TRUE
    BY <2>2
  <2>4. CASE s = {e}
    BY <2>2, <2>4
  <2>5. CASE s # {e}
    <3>1. s \ {e} \notin X /\ s \ {e} # {} /\ s \ {e} \in SUBSET S
      BY <2>2, <2>3, <2>5
    <3>2. PICK m \in s \ {e} : \A x \in s \ {e} : m <= x
      BY <3>1
    <3>3. m \in Int /\ e \in Int /\ \A x \in s : x \in Int
      BY <2>2, <2>3, <3>2
    <3>4. CASE m <= e
      BY <2>2, <3>2, <3>4
    <3>5. CASE e < m
      <4>1. \A x \in s : e <= x
        BY <3>2, <3>3, <3>5
      <4> QED
        BY <2>2, <2>3, <4>1
    <3> QED
      BY <3>3, <3>4, <3>5
  <2> QED
    BY <2>4, <2>5
<1>2. \E m \in S : \A x \in S : m <= x
  BY <1>1
<1>3. Min(S) \in S /\ \A x \in S : Min(S) <= x
  BY <1>2 DEF Min
<1> QED
  BY <1>3

LEMMA LeastOfTwo == ASSUME NEW a \in Int, NEW b \in Int PROVE Min({a, b}) = IF a <= b THEN a ELSE b
<1>1. CASE a <= b
  <2>1. a \in {a, b} /\ \A y \in {a, b} : a <= y
    BY <1>1
  <2>2. \A x \in {a, b} : (\A y \in {a, b} : x <= y) => x = a
    BY <1>1
  <2> QED
    BY <1>1, <2>1, <2>2 DEF Min
<1>2. CASE ~(a <= b)
  <2>1. b \in {a, b} /\ \A y \in {a, b} : b <= y
    BY <1>2
  <2>2. \A x \in {a, b} : (\A y \in {a, b} : x <= y) => x = b
    BY <1>2
  <2> QED
    BY <1>2, <2>1, <2>2 DEF Min
<1> QED
  BY <1>1, <1>2

LEMMA PlacesAreFinite == ASSUME NEW n \in Nat PROVE IsFiniteSet(1..n) /\ 1..n \subseteq Int
<1>1. 1 \in Int /\ n \in Int
  OBVIOUS
<1>2. IsFiniteSet(1..n)
  BY ONLY <1>1, FS_Interval
<1> QED
  BY <1>2

LEMMA LastIsIn == ASSUME NEW n \in Nat, NEW s \in SUBSET (1..n), s # {} PROVE Max(s) \in s
<1> DEFINE D == 1..n
<1>1. IsFiniteSet(D) /\ D \subseteq Int
  BY PlacesAreFinite
<1> HIDE DEF D
<1>2. s \subseteq D
  BY DEF D
<1>3. IsFiniteSet(s) /\ s \subseteq Int
  BY <1>1, <1>2, FS_Subset
<1> QED
  BY <1>3, LargestOfAny

LEMMA LastOfPrefix == ASSUME NEW m \in Nat PROVE Max(1..m + 1) = m + 1 /\ (1..m + 1) \ {m + 1} = 1..m
<1>1. IsFiniteSet(1..m + 1) /\ 1..m + 1 \subseteq Int /\ m + 1 \in 1..m + 1
  BY PlacesAreFinite
<1>2. Max(1..m + 1) \in 1..m + 1 /\ m + 1 <= Max(1..m + 1)
  BY <1>1, LargestOfAny
<1> QED
  BY <1>2

FoldsInOrder(f, base, step1, n) ==
  f = [s \in SUBSET (1..n) |-> IF s = {} THEN base ELSE step1[<<Max(s), f[s \ {Max(s)}]>>]]

LEMMA OrderedFold ==
  ASSUME NEW n \in Nat, NEW V, NEW base \in V, NEW h, \A x \in 1..n, v \in V : h[<<x, v>>] \in V
  PROVE  \E f : FoldsInOrder(f, base, h, n) /\ \A s \in SUBSET (1..n) : f[s] \in V
<1> DEFINE D == 1..n
           pick == [s \in SUBSET D |-> Max(s)]
<1>1. IsFiniteSet(D) /\ D \subseteq Int
  BY PlacesAreFinite
<1>2. ASSUME NEW s \in SUBSET D, s # {} PROVE Max(s) \in s
  BY <1>2, LastIsIn
<1>3. \A s \in SUBSET D : pick[s] = Max(s)
  OBVIOUS
<1>9. \A x \in D, v \in V : h[<<x, v>>] \in V
  OBVIOUS
<1> HIDE DEF D, pick
<1>4. PicksFrom(pick, D)
  BY <1>2, <1>3 DEF PicksFrom
<1>5. PICK f : Folds(f, base, h, pick, D)
  BY <1>1, <1>4, FoldsExist
<1>6. ASSUME NEW s \in SUBSET D PROVE f[s] \in V
  BY <1>1, <1>4, <1>5, <1>9, FoldsStay
<1>7. f = [s \in SUBSET D |-> IF s = {} THEN base ELSE h[<<pick[s], f[s \ {pick[s]}]>>]]
  BY <1>5 DEF Folds
<1>8. f = [s \in SUBSET D |-> IF s = {} THEN base ELSE h[<<Max(s), f[s \ {Max(s)}]>>]]
  BY <1>3, <1>7
<1> QED
  BY <1>6, <1>8 DEF D, FoldsInOrder

-----------------------------------------------------------------------------
(* The pipeline of a request.                                               *)

\* The entries of a batch and the requests of their own are different requests; an item has the
\* text of its stage, and the cache holds what has been redacted.
ItemTypes ==
  {Idle} \cup [pc : {"skipped"}] \cup [pc : {"reply"}, text : Texts]
    \cup [pc : {"queued", "check", "route", "lookup"}, kind : Kinds, text : Texts]
    \cup [pc : {"send"}, kind : Kinds, text : Texts, prompt : Texts]

\* What is redacted before a request gets anywhere.
ItemSound(r) == /\ r.pc \in {"route", "lookup", "send", "reply"} => "regex" \notin r.text
                /\ r.pc = "send" => /\ "regex" \notin r.prompt
                                    /\ sidecar => "subtle" \notin r.text
StoreSound(s) == /\ s \subseteq [prompt : Texts, answer : Texts]
                 /\ \A e \in s : "regex" \notin e.prompt \cup e.answer

PipeInv == /\ item \in [Items -> ItemTypes]
           /\ \A i \in Items : ItemSound(item[i])
           /\ StoreSound(stored)
           /\ batch \in {"none", "running"}
           /\ batch = "none" => \A i \in 1 .. Entries : item[i] = Idle
           /\ BatchesAreBounded

LEMMA PipeInitially == RPInit => PipeInv
<1> SUFFICES ASSUME RPInit PROVE PipeInv
  OBVIOUS
<1>1. {j \in 1 .. Entries : Working(j)} = {}
  BY DEF RPInit, Working, Items, Idle
<1> QED
  BY <1>1, FS_EmptySet, PipelineAssumption
     DEF RPInit, PipeInv, ItemTypes, Items, Idle, BatchesAreBounded, ItemSound, StoreSound

\* The entries of a batch that are under way are finitely many, and fewer if some end.
LEMMA FewerWork ==
  ASSUME \A j \in 1 .. Entries : Working(j)' => Working(j), BatchesAreBounded
  PROVE  BatchesAreBounded'
<1> DEFINE now == {j \in 1 .. Entries : Working(j)}
           then == {j \in 1 .. Entries : Working(j)'}
<1>1. IsFiniteSet(1 .. Entries)
  BY FS_Interval, PipelineAssumption
<1>2. IsFiniteSet(now) /\ then \subseteq now
  BY <1>1, FS_Subset
<1>3. Cardinality(then) <= Cardinality(now) /\ Cardinality(now) \in Nat /\ Cardinality(then) \in Nat
  <2> HIDE DEF now, then
  <2> QED
    BY <1>2, FS_Subset, FS_CardinalityType
<1>4. Cardinality(now) <= BatchConcurrency
  BY DEF BatchesAreBounded
<1> HIDE DEF now
<1>5. Cardinality(then) <= BatchConcurrency
  <2> HIDE DEF then
  <2> QED
    BY <1>3, <1>4, PipelineAssumption
<1> QED
  BY <1>5 DEF BatchesAreBounded

\* A step of one request, unless it makes an entry begin.
LEMMA OneItemGoesOn ==
  ASSUME PipeInv, NEW i \in Items, NEW r \in ItemTypes, item' = [item EXCEPT ![i] = r],
         UNCHANGED <<batch, sidecar>>, ItemSound(r), StoreSound(stored'),
         item[i] # Idle \/ i \in Singles, Working(i) \/ i \in Singles \/ r.pc = "reply"
  PROVE  PipeInv'
<1>1. \A j \in Items : item'[j] = IF j = i THEN r ELSE item[j]
  BY DEF PipeInv
<1>2. \A j \in 1 .. Entries : Working(j)' => Working(j)
  BY <1>1, PipelineAssumption DEF Working, Items
<1>3. BatchesAreBounded'
  BY <1>2, FewerWork DEF PipeInv
<1>4. item' \in [Items -> ItemTypes]
  BY DEF PipeInv
<1>5. \A j \in Items : ItemSound(item[j])'
  BY <1>1 DEF PipeInv, ItemSound
<1>6. StoreSound(stored)'
  BY DEF StoreSound
<1>7. batch' = "none" => \A j \in 1 .. Entries : item'[j] = Idle
  BY <1>1, PipelineAssumption DEF PipeInv, Items
<1> QED
  BY <1>3, <1>4, <1>5, <1>6, <1>7 DEF PipeInv

LEMMA PipeStep == PipeInv /\ [RPNext]_pipeVars => PipeInv'
<1> SUFFICES ASSUME PipeInv, [RPNext]_pipeVars PROVE PipeInv'
  OBVIOUS
<1> USE DEF Items
<1>t. /\ item \in [Items -> ItemTypes] /\ StoreSound(stored)
      /\ \A i \in Items : ItemSound(item[i])
  BY DEF PipeInv
<1>s. UNCHANGED stored => StoreSound(stored')
  BY <1>t
<1>r. ASSUME NEW text \in Texts, "regex" \notin text
      PROVE  [pc |-> "reply", text |-> text] \in ItemTypes /\ ItemSound([pc |-> "reply", text |-> text])
  BY <1>r DEF ItemTypes, ItemSound
<1>x. ASSUME NEW text \in Texts PROVE Redact(text) \in Texts /\ "regex" \notin Redact(text)
  BY DEF Redact, Texts
<1>e. {} \in Texts
  BY DEF Texts
<1>1. ASSUME NEW i \in Items, ReadSingle(i) PROVE PipeInv'
  <2>1. PICK kind \in Kinds, text \in Texts : item' = [item EXCEPT ![i] = Arrives(i, kind, text)]
    BY <1>1 DEF ReadSingle
  <2>2. Arrives(i, kind, text) \in ItemTypes /\ ItemSound(Arrives(i, kind, text))
    BY DEF Arrives, ItemTypes, ItemSound
  <2> QED
    BY <1>1, <1>s, <2>1, <2>2, OneItemGoesOn DEF ReadSingle
<1>2. ASSUME NEW i \in Items, StartEntry(i) PROVE PipeInv'
  <2> DEFINE r == [item[i] EXCEPT !.pc = "check"]
             now == {j \in 1 .. Entries : Working(j)}
  <2>1. /\ i \in 1 .. Entries /\ item[i].pc = "queued" /\ Cardinality(now) < BatchConcurrency
        /\ item' = [item EXCEPT ![i] = r] /\ batch' = "running" /\ UNCHANGED <<stored, sidecar>>
    BY <1>2 DEF StartEntry
  <2>2. r \in ItemTypes /\ ItemSound(r)
    <3>1. item[i] \in [pc : {"queued", "check", "route", "lookup"}, kind : Kinds, text : Texts]
      BY <1>t, <2>1 DEF ItemTypes, Idle
    <3>2. r \in [pc : {"check"}, kind : Kinds, text : Texts]
      BY <3>1
    <3> HIDE DEF r
    <3> QED
      BY <3>2 DEF ItemTypes, ItemSound
  <2> HIDE DEF r
  <2>3. \A j \in Items : item'[j] = IF j = i THEN r ELSE item[j]
    BY <1>t, <2>1
  <2>4. {j \in 1 .. Entries : Working(j)'} \subseteq now \cup {i}
    BY <2>3 DEF Working
  <2>5. BatchesAreBounded'
    <3>1. IsFiniteSet(now)
      BY FS_Interval, FS_Subset, PipelineAssumption
    <3> HIDE DEF now
    <3>0. Cardinality(now) \in Nat
      BY <3>1, FS_CardinalityType
    <3>2. IsFiniteSet(now \cup {i}) /\ Cardinality(now \cup {i}) <= Cardinality(now) + 1
      <4>1. Cardinality(now \cup {i}) = IF i \in now THEN Cardinality(now) ELSE Cardinality(now) + 1
        BY <3>1, FS_AddElement
      <4>2. IsFiniteSet(now \cup {i})
        BY <3>1, FS_AddElement
      <4> QED
        BY <3>0, <4>1, <4>2
    <3> DEFINE then == {j \in 1 .. Entries : Working(j)'}
    <3>3. Cardinality(then) <= Cardinality(now \cup {i}) /\ Cardinality(then) \in Nat
      <4>1. then \subseteq now \cup {i}
        BY <2>4
      <4> HIDE DEF then
      <4> QED
        BY <3>2, <4>1, FS_Subset, FS_CardinalityType
    <3>4. Cardinality(now \cup {i}) \in Nat
      BY <3>2, FS_CardinalityType
    <3>5. Cardinality(then) <= BatchConcurrency
      <4> HIDE DEF then
      <4> QED
        BY <2>1, <3>0, <3>2, <3>3, <3>4, PipelineAssumption
    <3> QED
      BY <3>5 DEF BatchesAreBounded
  <2>6. item' \in [Items -> ItemTypes]
    BY <1>t, <2>1, <2>2
  <2>7. \A j \in Items : ItemSound(item[j])'
    BY <1>t, <2>1, <2>2, <2>3 DEF ItemSound
  <2>8. StoreSound(stored)'
    BY <1>s, <2>1 DEF StoreSound
  <2> QED
    BY <2>1, <2>5, <2>6, <2>7, <2>8 DEF PipeInv
<1>3. ASSUME NEW i \in Items, Check(i) PROVE PipeInv'
  <2>0. item[i].pc = "check" /\ UNCHANGED <<batch, stored, sidecar>> /\ Working(i) /\ item[i] # Idle
    BY <1>3 DEF Check, Working, Idle
  <2>t. item[i] \in [pc : {"queued", "check", "route", "lookup"}, kind : Kinds, text : Texts]
    BY <1>t, <2>0 DEF ItemTypes, Idle
  <2>1. CASE Reply(i, {})
    BY <1>e, <1>r, <1>s, <2>0, <2>1, OneItemGoesOn DEF Reply
  <2>2. ASSUME NEW text \in {Redact(item[i].text), {}},
               item' = [item EXCEPT ![i].pc = "route", ![i].text = text]
        PROVE  PipeInv'
    <3> DEFINE r == [item[i] EXCEPT !.pc = "route", !.text = text]
    <3>1. text \in Texts /\ "regex" \notin text
      BY <1>e, <1>x, <2>t
    <3>2. r \in [pc : {"route"}, kind : Kinds, text : Texts] /\ r.text = text
      BY <2>t, <3>1
    <3>3. item' = [item EXCEPT ![i] = r]
      BY <2>2
    <3> HIDE DEF r
    <3>4. r \in ItemTypes /\ ItemSound(r)
      BY <3>1, <3>2 DEF ItemTypes, ItemSound
    <3> QED
      BY <1>s, <2>0, <3>3, <3>4, OneItemGoesOn
  <2> QED
    BY <1>3, <2>1, <2>2 DEF Check
<1>4. ASSUME NEW i \in Items, Route(i) PROVE PipeInv'
  <2>0. item[i].pc = "route" /\ UNCHANGED <<batch, stored, sidecar>> /\ Working(i) /\ item[i] # Idle
    BY <1>4 DEF Route, Working, Idle
  <2>t. item[i] \in [pc : {"queued", "check", "route", "lookup"}, kind : Kinds, text : Texts]
    BY <1>t, <2>0 DEF ItemTypes, Idle
  <2>1. CASE Reply(i, {})
    BY <1>e, <1>r, <1>s, <2>0, <2>1, OneItemGoesOn DEF Reply
  <2>2. ASSUME NEW text \in Texts, Reply(i, Redact(text)) PROVE PipeInv'
    BY <1>r, <1>s, <1>x, <2>0, <2>2, OneItemGoesOn DEF Reply
  <2>3. CASE item' = [item EXCEPT ![i].pc = "lookup"]
    <3> DEFINE r == [item[i] EXCEPT !.pc = "lookup"]
    <3>1. r \in [pc : {"lookup"}, kind : Kinds, text : Texts] /\ r.text = item[i].text
      BY <2>t
    <3>2. item' = [item EXCEPT ![i] = r]
      BY <2>3
    <3>3. "regex" \notin item[i].text
      BY <1>t, <2>0 DEF ItemSound
    <3> HIDE DEF r
    <3>4. r \in ItemTypes /\ ItemSound(r)
      BY <3>1, <3>3 DEF ItemTypes, ItemSound
    <3> QED
      BY <1>s, <2>0, <3>2, <3>4, OneItemGoesOn
  <2> QED
    BY <1>4, <2>1, <2>2, <2>3 DEF Route
<1>5. ASSUME NEW i \in Items, Lookup(i) PROVE PipeInv'
  <2>0. item[i].pc = "lookup" /\ UNCHANGED <<batch, stored, sidecar>> /\ Working(i) /\ item[i] # Idle
    BY <1>5 DEF Lookup, Working, Idle
  <2>t. item[i] \in [pc : {"queued", "check", "route", "lookup"}, kind : Kinds, text : Texts]
    BY <1>t, <2>0 DEF ItemTypes, Idle
  <2>1. CASE Reply(i, {})
    BY <1>e, <1>r, <1>s, <2>0, <2>1, OneItemGoesOn DEF Reply
  <2>2. ASSUME NEW e \in stored, Reply(i, e.answer) PROVE PipeInv'
    <3>1. e.answer \in Texts /\ "regex" \notin e.answer
      BY <1>t DEF StoreSound
    <3> QED
      BY <1>r, <1>s, <2>0, <2>2, <3>1, OneItemGoesOn DEF Reply
  <2> DEFINE text == item[i].text \ (IF sidecar THEN {"subtle"} ELSE {})
             r == [pc |-> "send", kind |-> item[i].kind, prompt |-> item[i].text, text |-> text]
  <2>3. CASE item' = [item EXCEPT ![i] = r]
    <3>1. "regex" \notin item[i].text
      BY <1>t, <2>0 DEF ItemSound
    <3>2. text \in Texts /\ "regex" \notin text /\ (sidecar => "subtle" \notin text)
      BY <2>t, <3>1 DEF Texts
    <3> HIDE DEF text
    <3>3. r \in ItemTypes /\ ItemSound(r)
      BY <2>t, <3>1, <3>2 DEF ItemTypes, ItemSound
    <3> HIDE DEF r
    <3> QED
      BY <1>s, <2>0, <2>3, <3>3, OneItemGoesOn
  <2> QED
    BY <1>5, <2>1, <2>2, <2>3 DEF Lookup
<1>6. ASSUME NEW i \in Items, Send(i) PROVE PipeInv'
  <2>0. item[i].pc = "send" /\ UNCHANGED <<batch, sidecar>> /\ Working(i) /\ item[i] # Idle
    BY <1>6 DEF Send, Working, Idle
  <2>t. item[i].prompt \in Texts /\ "regex" \notin item[i].prompt
    BY <1>t, <2>0 DEF ItemTypes, ItemSound, Idle
  <2>1. CASE Reply(i, {}) /\ UNCHANGED stored
    BY <1>e, <1>r, <1>s, <2>0, <2>1, OneItemGoesOn DEF Reply
  <2>2. ASSUME NEW text \in Texts, NEW failed \in BOOLEAN, Reply(i, Redact(text)),
               stored' = IF Cacheable(i) /\ ~ failed
                           THEN {e \in stored : e.prompt # item[i].prompt}
                                  \cup {[prompt |-> item[i].prompt, answer |-> Redact(text)]}
                           ELSE stored
        PROVE  PipeInv'
    <3>1. Redact(text) \in Texts /\ "regex" \notin Redact(text)
      BY <1>x
    <3>2. StoreSound(stored')
      BY <1>t, <2>t, <2>2, <3>1 DEF StoreSound
    <3> QED
      BY <1>r, <2>0, <2>2, <3>1, <3>2, OneItemGoesOn DEF Reply
  <2> QED
    BY <1>6, <2>1, <2>2 DEF Send
<1>7. ASSUME NEW i \in Items, WriteSingle(i) PROVE PipeInv'
  <2>1. Idle \in ItemTypes /\ ItemSound(Idle)
    BY DEF ItemTypes, Idle, ItemSound
  <2> QED
    BY <1>7, <1>s, <2>1, OneItemGoesOn DEF WriteSingle
<1>8. CASE ReadBatch
  <2>1. PICK named \in SUBSET (1 .. Entries), kind \in Kinds, text \in Texts :
          item' = [i \in Items |-> IF i \in Singles THEN item[i]
                                   ELSE IF i \in named
                                          THEN [pc |-> "queued", kind |-> kind, text |-> text]
                                          ELSE [pc |-> "skipped"]]
    BY <1>8 DEF ReadBatch
  <2>2. \A i \in Items : /\ item'[i] \in ItemTypes
                         /\ item'[i] = item[i] \/ item'[i].pc \in {"queued", "skipped"}
                         /\ i \notin Singles => item'[i].pc \in {"queued", "skipped"}
    BY <1>t, <2>1 DEF ItemTypes
  <2>3. \A j \in 1 .. Entries : ~ Working(j)'
    BY <2>2, PipelineAssumption DEF Working
  <2>4. BatchesAreBounded'
    BY <2>3, FewerWork DEF PipeInv
  <2>5. item' \in [Items -> ItemTypes]
    BY <2>1, <2>2
  <2>6. \A i \in Items : ItemSound(item[i])'
    BY <1>8, <1>t, <2>2 DEF ItemSound, ReadBatch
  <2> QED
    BY <1>8, <1>s, <2>4, <2>5, <2>6 DEF ReadBatch, PipeInv, StoreSound
<1>9. CASE WriteBatch
  <2>1. item' = [i \in Items |-> IF i \in Singles THEN item[i] ELSE Idle]
    BY <1>9 DEF WriteBatch
  <2>2. \A j \in 1 .. Entries : item'[j] = Idle /\ ~ Working(j)'
    BY <2>1, PipelineAssumption DEF Working, Idle
  <2>3. BatchesAreBounded'
    BY <2>2, FewerWork DEF PipeInv
  <2>4. item' \in [Items -> ItemTypes]
    BY <1>t, <2>1 DEF ItemTypes
  <2>5. \A i \in Items : ItemSound(item[i])'
    BY <1>9, <1>t, <2>1 DEF ItemSound, WriteBatch, Idle
  <2> QED
    BY <1>9, <1>s, <2>2, <2>3, <2>4, <2>5 DEF WriteBatch, PipeInv, StoreSound
<1>10. CASE UNCHANGED pipeVars
  BY <1>10, FewerWork DEF pipeVars, PipeInv, ItemSound, StoreSound, Working
<1> QED
  BY <1>1, <1>2, <1>3, <1>4, <1>5, <1>6, <1>7, <1>8, <1>9, <1>10 DEF RPNext, Handle

\* What leaves the proxy has been redacted.
LEMMA PipeFollows == PipeInv => NothingUnredactedLeaves /\ BatchesAreBounded
  BY DEF PipeInv, ItemSound, StoreSound, NothingUnredactedLeaves

-----------------------------------------------------------------------------
(* The connections of `serve'.                                              *)

Serving == [pc : {"reading", "holding", "draining"}, work : Nat, write : Nat, owed : Nat]
\* The lines that are owed an answer are those that wait for room, that are worked on and that
\* wait for the writer.
OwesWhatItHolds(r) == r.owed = r.work + r.write + (IF r.pc = "holding" THEN 1 ELSE 0)
Served == {c \in Clients : conn[c].pc # "none"}
AboutToAccept == IF accepting = "accept" THEN 1 ELSE 0

ServeInv ==
  /\ conn \in [Clients -> Serving \cup {None}]
  /\ \A c \in Clients : conn[c].pc # "none" => OwesWhatItHolds(conn[c])
  /\ peer \in [Clients -> {"away", "talks", "deaf", "gone"}]
  /\ backlog \in Seq(Clients)
  /\ \A i \in DOMAIN backlog : conn[backlog[i]] = None /\ peer[backlog[i]] # "away"
  /\ \A i, j \in DOMAIN backlog : backlog[i] = backlog[j] => i = j
  /\ IsFiniteSet(Served) /\ slots = Cardinality(Served) + AboutToAccept
  /\ slots <= MaxConnections

LEMMA ServeInitially == SVInit => ServeInv
<1> SUFFICES ASSUME SVInit PROVE ServeInv
  OBVIOUS
<1>1. Served = {}
  BY DEF SVInit, Served, None
<1> QED
  BY <1>1, FS_EmptySet, ServeAssumption DEF SVInit, ServeInv, None, AboutToAccept

\* A connection that goes on.
LEMMA ConnectionGoesOn ==
  ASSUME ServeInv, NEW c \in Clients, conn[c].pc # "none", NEW r \in Serving, OwesWhatItHolds(r),
         conn' = [conn EXCEPT ![c] = r], UNCHANGED <<acceptVars, peer>>
  PROVE  ServeInv'
<1>1. \A d \in Clients : conn'[d] = IF d = c THEN r ELSE conn[d]
  BY DEF ServeInv
<1>2. Served' = Served
  BY <1>1 DEF Served, Serving
<1>3. \A i \in DOMAIN backlog : backlog[i] # c
  BY DEF ServeInv, None
<1>4. \A i \in DOMAIN backlog : backlog[i] \in Clients
  BY DEF ServeInv
<1>5. conn' \in [Clients -> Serving \cup {None}]
  BY DEF ServeInv
<1>6. \A d \in Clients : conn'[d].pc # "none" => OwesWhatItHolds(conn'[d])
  BY <1>1 DEF ServeInv
<1> QED
  BY <1>1, <1>2, <1>3, <1>4, <1>5, <1>6 DEF ServeInv, acceptVars, AboutToAccept, OwesWhatItHolds

LEMMA ServeStep == ServeInv /\ [SVNext]_serveVars => ServeInv'
<1> SUFFICES ASSUME ServeInv, [SVNext]_serveVars PROVE ServeInv'
  OBVIOUS
<1>c. /\ conn \in [Clients -> Serving \cup {None}]
      /\ \A c \in Clients : conn[c].pc # "none" => conn[c] \in Serving /\ OwesWhatItHolds(conn[c])
  BY DEF ServeInv, None
<1>b. /\ backlog \in Seq(Clients) /\ \A i \in DOMAIN backlog : backlog[i] \in Clients
      /\ \A i \in DOMAIN backlog : conn[backlog[i]] = None /\ peer[backlog[i]] # "away"
  BY DEF ServeInv
<1>s. /\ IsFiniteSet(Served) /\ Cardinality(Served) \in Nat /\ slots <= MaxConnections
      /\ slots = Cardinality(Served) + AboutToAccept /\ slots \in Nat
  BY FS_CardinalityType DEF ServeInv, AboutToAccept
<1>1. ASSUME NEW c \in Clients, Call(c) PROVE ServeInv'
  <2> DEFINE b == Append(backlog, c)
  <2>1. conn[c] = None
    BY <1>1, <1>c DEF Call, Serving
  <2>2. /\ b \in Seq(Clients) /\ DOMAIN b = 1 .. Len(backlog) + 1 /\ DOMAIN backlog = 1 .. Len(backlog)
        /\ Len(backlog) \in Nat
        /\ \A i \in 1 .. Len(backlog) + 1 : b[i] = IF i = Len(backlog) + 1 THEN c ELSE backlog[i]
    BY <1>b
  <2> HIDE DEF b
  <2>3. \A i \in DOMAIN backlog : backlog[i] # c
    BY <1>1, <1>b DEF Call
  <2>4. Served' = Served
    BY <1>1 DEF Call, Served
  <2>5. backlog' = b /\ conn' = conn
    BY <1>1 DEF Call, b
  <2>6. \A i \in DOMAIN b : conn[b[i]] = None /\ peer'[b[i]] # "away"
    <3>1. \A d \in Clients : peer'[d] = IF d = c THEN "talks" ELSE peer[d]
      BY <1>1 DEF Call, ServeInv
    <3> QED
      BY <1>b, <2>1, <2>2, <3>1
  <2>7. \A i, j \in DOMAIN b : b[i] = b[j] => i = j
    BY <2>2, <2>3 DEF ServeInv
  <2>8. peer' \in [Clients -> {"away", "talks", "deaf", "gone"}]
    BY <1>1 DEF Call, ServeInv
  <2> QED
    BY <1>1, <1>c, <1>s, <2>2, <2>4, <2>5, <2>6, <2>7, <2>8 DEF Call, ServeInv, AboutToAccept
<1>2. ASSUME NEW c \in Clients, Behave(c) PROVE ServeInv'
  <2>1. PICK b \in {"deaf", "gone", "talks"} : peer' = [peer EXCEPT ![c] = b] /\ peer[c] # "away"
    BY <1>2 DEF Behave
  <2>2. \A d \in Clients : peer'[d] = "away" => peer[d] = "away"
    BY <2>1 DEF ServeInv
  <2>3. peer' \in [Clients -> {"away", "talks", "deaf", "gone"}]
    BY <2>1 DEF ServeInv
  <2>4. Served' = Served
    BY <1>2 DEF Behave, Served
  <2> QED
    BY <1>2, <1>b, <2>2, <2>3, <2>4 DEF Behave, acceptVars, ServeInv, AboutToAccept
<1>3. ASSUME NEW c \in Clients, TakeInput(c) PROVE ServeInv'
  <2> DEFINE q == conn[c]
             r == [q EXCEPT !.pc = "holding", !.owed = @ + 1]
  <2>1. conn[c].pc = "reading" /\ conn' = [conn EXCEPT ![c] = r] /\ UNCHANGED <<acceptVars, peer>>
    BY <1>3 DEF TakeInput
  <2>o. q \in Serving /\ OwesWhatItHolds(q) /\ q.pc # "none" /\ q.pc = "reading"
    BY <1>c, <2>1
  <2>p. conn[c].pc # "none"
    BY <2>o
  <2>e. r = [q EXCEPT !.pc = "holding", !.owed = @ + 1]
    OBVIOUS
  <2> HIDE DEF q, r
  <2>r. r = [pc |-> "holding", work |-> q.work, write |-> q.write, owed |-> q.owed + 1]
    BY <2>o, <2>e DEF Serving
  <2>2. r \in Serving /\ OwesWhatItHolds(r)
    BY <2>o, <2>r DEF Serving, OwesWhatItHolds
  <2> QED
    BY <2>1, <2>2, <2>p, ConnectionGoesOn
<1>4. ASSUME NEW c \in Clients, StartLine(c) PROVE ServeInv'
  <2> DEFINE q == conn[c]
             r == [q EXCEPT !.pc = "reading", !.work = @ + 1]
  <2>1. conn[c].pc = "holding" /\ conn' = [conn EXCEPT ![c] = r] /\ UNCHANGED <<acceptVars, peer>>
    BY <1>4 DEF StartLine
  <2>o. q \in Serving /\ OwesWhatItHolds(q) /\ q.pc # "none" /\ q.pc = "holding"
    BY <1>c, <2>1
  <2>p. conn[c].pc # "none"
    BY <2>o
  <2>e. r = [q EXCEPT !.pc = "reading", !.work = @ + 1]
    OBVIOUS
  <2> HIDE DEF q, r
  <2>r. r = [pc |-> "reading", work |-> q.work + 1, write |-> q.write, owed |-> q.owed]
    BY <2>o, <2>e DEF Serving
  <2>2. r \in Serving /\ OwesWhatItHolds(r)
    BY <2>o, <2>r DEF Serving, OwesWhatItHolds
  <2> QED
    BY <2>1, <2>2, <2>p, ConnectionGoesOn
<1>5. ASSUME NEW c \in Clients, FinishLine(c) PROVE ServeInv'
  <2> DEFINE q == conn[c]
             r == [q EXCEPT !.work = @ - 1, !.write = @ + 1]
  <2>1. /\ conn[c].pc # "none" /\ conn[c].work > 0
        /\ conn' = [conn EXCEPT ![c] = r] /\ UNCHANGED <<acceptVars, peer>>
    BY <1>5 DEF FinishLine
  <2>o. q \in Serving /\ OwesWhatItHolds(q) /\ q.pc # "none" /\ q.work > 0
    BY <1>c, <2>1
  <2>p. conn[c].pc # "none"
    BY <2>o
  <2>e. r = [q EXCEPT !.work = @ - 1, !.write = @ + 1]
    OBVIOUS
  <2> HIDE DEF q, r
  <2>r. r = [pc |-> q.pc, work |-> q.work - 1, write |-> q.write + 1, owed |-> q.owed]
    BY <2>o, <2>e DEF Serving
  <2>2. r \in Serving /\ OwesWhatItHolds(r)
    BY <2>o, <2>r DEF Serving, OwesWhatItHolds
  <2> QED
    BY <2>1, <2>2, <2>p, ConnectionGoesOn
<1>6. ASSUME NEW c \in Clients, WriteLine(c) PROVE ServeInv'
  <2> DEFINE q == conn[c]
             r == [q EXCEPT !.write = @ - 1, !.owed = @ - 1]
  <2>1. /\ conn[c].pc # "none" /\ conn[c].write > 0
        /\ conn' = [conn EXCEPT ![c] = r] /\ UNCHANGED <<acceptVars, peer>>
    BY <1>6 DEF WriteLine
  <2>o. q \in Serving /\ OwesWhatItHolds(q) /\ q.pc # "none" /\ q.write > 0
    BY <1>c, <2>1
  <2>p. conn[c].pc # "none"
    BY <2>o
  <2>e. r = [q EXCEPT !.write = @ - 1, !.owed = @ - 1]
    OBVIOUS
  <2> HIDE DEF q, r
  <2>r. r = [pc |-> q.pc, work |-> q.work, write |-> q.write - 1, owed |-> q.owed - 1]
    BY <2>o, <2>e DEF Serving
  <2>2. r \in Serving /\ OwesWhatItHolds(r)
    BY <2>o, <2>r DEF Serving, OwesWhatItHolds
  <2> QED
    BY <2>1, <2>2, <2>p, ConnectionGoesOn
<1>7. ASSUME NEW c \in Clients, StopReading(c) PROVE ServeInv'
  <2> DEFINE q == conn[c]
             r == [q EXCEPT !.pc = "draining"]
             t == [q EXCEPT !.pc = "draining", !.write = @ + 1, !.owed = @ + 1]
  <2>1. /\ conn[c].pc = "reading" /\ UNCHANGED <<acceptVars, peer>>
        /\ conn' = [conn EXCEPT ![c] = r] \/ conn' = [conn EXCEPT ![c] = t]
    BY <1>7 DEF StopReading
  <2>o. q \in Serving /\ OwesWhatItHolds(q) /\ q.pc # "none" /\ q.pc = "reading"
    BY <1>c, <2>1
  <2>p. conn[c].pc # "none"
    BY <2>o
  <2>e. /\ r = [q EXCEPT !.pc = "draining"]
        /\ t = [q EXCEPT !.pc = "draining", !.write = @ + 1, !.owed = @ + 1]
    OBVIOUS
  <2> HIDE DEF q, r, t
  <2>r. /\ r = [pc |-> "draining", work |-> q.work, write |-> q.write,
                owed |-> q.owed]
        /\ t = [pc |-> "draining", work |-> q.work, write |-> q.write + 1,
                owed |-> q.owed + 1]
    BY <2>o, <2>e DEF Serving
  <2>2. r \in Serving /\ OwesWhatItHolds(r) /\ t \in Serving /\ OwesWhatItHolds(t)
    BY <2>o, <2>r DEF Serving, OwesWhatItHolds
  <2> QED
    BY <2>1, <2>2, <2>p, ConnectionGoesOn
<1>8. ASSUME NEW c \in Clients, CloseConnection(c) PROVE ServeInv'
  <2>1. /\ conn[c].pc = "draining" /\ conn' = [conn EXCEPT ![c] = None]
        /\ peer' = [peer EXCEPT ![c] = "away"] /\ slots' = slots - 1
        /\ UNCHANGED <<listener, accepting, backlog, stopping>>
    BY <1>8 DEF CloseConnection
  <2>2. \A d \in Clients : /\ conn'[d] = IF d = c THEN None ELSE conn[d]
                           /\ peer'[d] = IF d = c THEN "away" ELSE peer[d]
    BY <2>1, <1>c DEF ServeInv
  <2>3. Served' = Served \ {c} /\ c \in Served
    BY <2>1, <2>2 DEF Served, None
  <2>4. IsFiniteSet(Served') /\ Cardinality(Served') = Cardinality(Served) - 1
    BY <1>s, <2>3, FS_RemoveElement
  <2>5. \A i \in DOMAIN backlog : backlog[i] # c
    BY <1>b, <2>1 DEF None
  <2>6. /\ conn' \in [Clients -> Serving \cup {None}]
        /\ peer' \in [Clients -> {"away", "talks", "deaf", "gone"}]
    BY <1>c, <2>1 DEF ServeInv
  <2>7. slots' = Cardinality(Served)' + AboutToAccept' /\ slots' <= MaxConnections
    BY <1>s, <2>1, <2>4, ServeAssumption DEF AboutToAccept
  <2>8. \A d \in Clients : conn'[d].pc # "none" => OwesWhatItHolds(conn'[d])
    BY <1>c, <2>2 DEF None
  <2> QED
    BY <1>b, <2>1, <2>2, <2>4, <2>5, <2>6, <2>7, <2>8 DEF ServeInv, OwesWhatItHolds
<1>9. CASE Acquire
  <2>1. Served' = Served
    BY <1>9 DEF Acquire, Served
  <2>2. slots' = Cardinality(Served)' + AboutToAccept' /\ slots' <= MaxConnections
    BY <1>9, <1>s, <2>1, ServeAssumption DEF Acquire, AboutToAccept
  <2> QED
    BY <1>9, <1>b, <1>s, <2>1, <2>2 DEF Acquire, ServeInv
<1>10. CASE Accept
  <2> DEFINE c == Head(backlog)
             b == Tail(backlog)
  <2>1. /\ accepting = "accept" /\ backlog # <<>> /\ conn' = [conn EXCEPT ![c] = Fresh]
        /\ backlog' = b /\ accepting' = "acquire" /\ UNCHANGED <<slots, peer>>
    BY <1>10 DEF Accept
  <2>2. /\ c = backlog[1] /\ 1 \in DOMAIN backlog /\ b \in Seq(Clients) /\ c \in Clients
        /\ DOMAIN b = 1 .. Len(backlog) - 1 /\ DOMAIN backlog = 1 .. Len(backlog) /\ Len(backlog) \in Nat
        /\ \A i \in 1 .. Len(backlog) - 1 : b[i] = backlog[i + 1]
    BY <1>b, <2>1
  <2> HIDE DEF c, b
  <2>3. \A i \in DOMAIN b : b[i] # c /\ i + 1 \in DOMAIN backlog /\ b[i] = backlog[i + 1]
    BY <2>2 DEF ServeInv
  <2>4. conn[c] = None
    BY <1>b, <2>2
  <2>5. \A d \in Clients : conn'[d] = IF d = c THEN Fresh ELSE conn[d]
    BY <1>c, <2>1
  <2>6. Served' = Served \cup {c} /\ c \notin Served
    BY <2>2, <2>4, <2>5 DEF Served, None, Fresh
  <2>7. IsFiniteSet(Served') /\ Cardinality(Served') = Cardinality(Served) + 1
    BY <1>s, <2>6, FS_AddElement
  <2>8. Fresh \in Serving /\ OwesWhatItHolds(Fresh)
    BY DEF Fresh, Serving, OwesWhatItHolds
  <2>9. conn' \in [Clients -> Serving \cup {None}]
    BY <1>c, <2>1, <2>2, <2>8
  <2>10. \A d \in Clients : conn'[d].pc # "none" => OwesWhatItHolds(conn'[d])
    BY <1>c, <2>5, <2>8
  <2>11. slots' = Cardinality(Served)' + AboutToAccept' /\ slots' <= MaxConnections
    BY <1>s, <2>1, <2>7, ServeAssumption DEF AboutToAccept
  <2>12. \A i \in DOMAIN b : conn'[b[i]] = None /\ peer[b[i]] # "away"
    BY <1>b, <2>3, <2>5
  <2>13. \A i, j \in DOMAIN b : b[i] = b[j] => i = j
    <3> SUFFICES ASSUME NEW i \in DOMAIN b, NEW j \in DOMAIN b, b[i] = b[j] PROVE i = j
      OBVIOUS
    <3>1. i + 1 = j + 1
      BY <2>3 DEF ServeInv
    <3> QED
      BY <2>2, <3>1
  <2> QED
    BY <2>1, <2>2, <2>7, <2>9, <2>10, <2>11, <2>12, <2>13 DEF ServeInv, OwesWhatItHolds
<1>11. CASE AcceptFails \/ Park
  <2>1. Served' = Served /\ UNCHANGED <<backlog, conn, peer>>
    BY <1>11 DEF AcceptFails, Park, Served
  <2>2. slots' = Cardinality(Served)' + AboutToAccept' /\ slots' <= MaxConnections
    BY <1>11, <1>s, <2>1, ServeAssumption DEF AcceptFails, Park, AboutToAccept
  <2> QED
    BY <1>b, <1>s, <2>1, <2>2 DEF ServeInv
<1>12. CASE CloseListener
  <2>1. /\ backlog' = <<>> /\ UNCHANGED <<accepting, slots, conn>>
        /\ peer' = [c \in Clients |-> IF \E i \in DOMAIN backlog : backlog[i] = c
                                        THEN "away" ELSE peer[c]]
    BY <1>12 DEF CloseListener
  <2>2. peer' \in [Clients -> {"away", "talks", "deaf", "gone"}]
    BY <2>1 DEF ServeInv
  <2>3. Served' = Served
    BY <2>1 DEF Served
  <2> QED
    BY <1>s, <2>1, <2>2, <2>3 DEF ServeInv, AboutToAccept
<1>13. CASE Signal \/ Exit \/ UNCHANGED serveVars
  <2>1. UNCHANGED <<conn, peer, backlog, accepting, slots>> /\ Served' = Served
    BY <1>13 DEF Signal, Exit, serveVars, Served
  <2> QED
    BY <2>1 DEF ServeInv, AboutToAccept
<1> QED
  BY <1>1, <1>2, <1>3, <1>4, <1>5, <1>6, <1>7, <1>8, <1>9, <1>10, <1>11, <1>12, <1>13 DEF SVNext

\* The slots are exact.
LEMMA ServeFollows == ServeInv => SlotsAreExact
  BY DEF ServeInv, Served, AboutToAccept, SlotsAreExact

\* What AnsweredBeforeClose says of a step.
Answered == \A c \in Clients : conn[c].pc # "none" /\ conn'[c].pc = "none"
                                 => conn[c].owed = 0 \/ peer[c] = "gone"

\* A connection is closed only when nothing is worked on and nothing waits for the writer.
LEMMA AnswersComeFirst == ServeInv /\ [SVNext]_serveVars => [Answered]_serveVars
<1> SUFFICES ASSUME ServeInv, SVNext, NEW c \in Clients, conn[c].pc # "none", conn'[c].pc = "none"
             PROVE  conn[c].owed = 0
  BY DEF Answered
<1>1. /\ conn \in [Clients -> Serving \cup {None}] /\ OwesWhatItHolds(conn[c]) /\ conn[c] \in Serving
  BY DEF ServeInv, None
<1>2. conn' # conn
  OBVIOUS
<1>3. ASSUME NEW d \in Clients, CloseConnection(d) PROVE conn[c].owed = 0
  <2>1. c = d
    BY <1>1, <1>3 DEF CloseConnection
  <2> QED
    BY <1>1, <1>3, <2>1 DEF CloseConnection, OwesWhatItHolds
<1>4. ASSUME NEW d \in Clients, NEW r, conn' = [conn EXCEPT ![d] = r], r.pc # "none" PROVE FALSE
  BY <1>1, <1>4
<1>5. ASSUME NEW d \in Clients,
             TakeInput(d) \/ StartLine(d) \/ FinishLine(d) \/ WriteLine(d) \/ StopReading(d)
      PROVE  FALSE
  <2>1. conn[d] \in Serving
    BY <1>1, <1>5 DEF TakeInput, StartLine, FinishLine, WriteLine, StopReading, None
  <2>2. CASE TakeInput(d)
    <3> DEFINE r == [conn[d] EXCEPT !.pc = "holding", !.owed = @ + 1]
    <3>1. r.pc # "none"
      BY <2>1, <2>2 DEF TakeInput, Serving
    <3>2. conn' = [conn EXCEPT ![d] = r]
      BY <2>2 DEF TakeInput
    <3> HIDE DEF r
    <3> QED
      BY <1>4, <3>1, <3>2
  <2>3. CASE StartLine(d)
    <3> DEFINE r == [conn[d] EXCEPT !.pc = "reading", !.work = @ + 1]
    <3>1. r.pc # "none"
      BY <2>1, <2>3 DEF StartLine, Serving
    <3>2. conn' = [conn EXCEPT ![d] = r]
      BY <2>3 DEF StartLine
    <3> HIDE DEF r
    <3> QED
      BY <1>4, <3>1, <3>2
  <2>4. CASE FinishLine(d)
    <3> DEFINE r == [conn[d] EXCEPT !.work = @ - 1, !.write = @ + 1]
    <3>1. r.pc # "none"
      BY <2>1, <2>4 DEF FinishLine, Serving
    <3>2. conn' = [conn EXCEPT ![d] = r]
      BY <2>4 DEF FinishLine
    <3> HIDE DEF r
    <3> QED
      BY <1>4, <3>1, <3>2
  <2>5. CASE WriteLine(d)
    <3> DEFINE r == [conn[d] EXCEPT !.write = @ - 1, !.owed = @ - 1]
    <3>1. r.pc # "none"
      BY <2>1, <2>5 DEF WriteLine, Serving
    <3>2. conn' = [conn EXCEPT ![d] = r]
      BY <2>5 DEF WriteLine
    <3> HIDE DEF r
    <3> QED
      BY <1>4, <3>1, <3>2
  <2>6. CASE StopReading(d)
    <3> DEFINE r == [conn[d] EXCEPT !.pc = "draining"]
               t == [conn[d] EXCEPT !.pc = "draining", !.write = @ + 1, !.owed = @ + 1]
    <3>1. r.pc # "none" /\ t.pc # "none"
      BY <2>1, <2>6 DEF StopReading, Serving
    <3>2. conn' = [conn EXCEPT ![d] = r] \/ conn' = [conn EXCEPT ![d] = t]
      BY <2>6 DEF StopReading
    <3> HIDE DEF r, t
    <3> QED
      BY <1>4, <3>1, <3>2
  <2> QED
    BY <1>5, <2>2, <2>3, <2>4, <2>5, <2>6
<1>6. CASE Accept
  BY <1>1, <1>6 DEF Accept, Fresh
<1> QED
  BY <1>2, <1>3, <1>5, <1>6
     DEF SVNext, Call, Behave, Acquire, AcceptFails, Park, Signal, CloseListener, Exit
-----------------------------------------------------------------------------
(* The loop of `server run --stdio'.                                        *)

AtWork == [at : {"parse", "handle", "redact", "reply"}, kind : LineKinds, secret : BOOLEAN]
Exiting == {"no", "checker", "file", "stdio", "http", "done"}

\* Once the handler of the signal has stopped the checker nothing opens a stdio server again,
\* and once it has closed them none is open; what the loop writes and handles is redacted.
LoopInv ==
  /\ stage \in {"starting", "up", "over"} /\ exiting \in Exiting
  /\ stage = "starting" => exiting = "no"
  /\ exiting \in {"file", "stdio", "http"} => ~ checking
  /\ exiting = "http" => \A s \in open : TransportOf[s] # "stdio"
  /\ left = "signal" => stage = "over"
  /\ open \subseteq LoopServers
  /\ line \in AtWork \cup [at : {"read", "close"}]
  /\ line.at = "reply" => ~ line.secret
  /\ count \in [read : Nat, written : Nat, bare : Nat]
  /\ LoopIsSound

LEMMA LoopInitially == SOInit => LoopInv
  BY DEF SOInit, LoopInv, Exiting, NoLine, LoopIsSound

LEMMA LoopStep == LoopInv /\ [SONext]_loopVars => LoopInv'
<1> SUFFICES ASSUME LoopInv, [SONext]_loopVars PROVE LoopInv'
  OBVIOUS
<1> USE DEF Exiting
<1>1. ASSUME NEW s \in LoopServers, StartOne(s) PROVE LoopInv'
  BY <1>1 DEF StartOne, LoopInv, LoopIsSound
<1>2. ASSUME NEW s \in LoopServers, ServerEnds(s) PROVE LoopInv'
  BY <1>2 DEF ServerEnds, LoopInv, LoopIsSound
<1>3. ASSUME NEW s \in LoopServers, CheckerRestarts(s) PROVE LoopInv'
  BY <1>3 DEF CheckerRestarts, LoopInv, LoopIsSound
<1>4. CASE GoesUp
  BY <1>4 DEF GoesUp, LoopInv, LoopIsSound
<1>5. CASE KilledEarly \/ TickStatus
  BY <1>5 DEF KilledEarly, TickStatus, LoopInv, LoopIsSound
<1>6. CASE ReadLine
  <2>1. /\ line.at = "read" /\ pending = 0 /\ pending' = 1 /\ count.bare = 0
        /\ count' = [count EXCEPT !.read = @ + 1] /\ LoopOnly
    BY <1>6 DEF ReadLine, Loops, LoopInv, LoopIsSound
  <2>2. line' \in AtWork /\ line'.at = "parse"
    BY <1>6 DEF ReadLine, AtWork
  <2>3. count' \in [read : Nat, written : Nat, bare : Nat] /\ count'.bare = 0
    BY <2>1 DEF LoopInv
  <2> QED
    BY <2>1, <2>2, <2>3 DEF LoopOnly, LoopInv, LoopIsSound
<1>7. CASE Parse
  <2>1. line.at = "parse" /\ pending = 1 /\ line \in AtWork /\ UNCHANGED <<count, pending>> /\ LoopOnly
    BY <1>7 DEF Parse, Loops, LoopInv, LoopIsSound
  <2>2. line' \in AtWork /\ ~ line'.secret /\ line'.at \in {"reply", "handle"}
    BY <1>7, <2>1 DEF Parse, AtWork
  <2> QED
    BY <2>1, <2>2 DEF LoopOnly, LoopInv, LoopIsSound
<1>8. CASE HandleRequest
  <2>1. line.at = "handle" /\ pending = 1 /\ line \in AtWork /\ UNCHANGED count /\ LoopOnly
    BY <1>8 DEF HandleRequest, Loops, LoopInv, LoopIsSound
  <2>2. \/ line' \in AtWork /\ line'.at = "redact" /\ pending' = 1
        \/ line' \in [at : {"read", "close"}] /\ pending' = 0
    <3>1. CASE line.kind = "initialized"
      BY <1>8, <2>1, <3>1 DEF HandleRequest, NoLine
    <3>2. CASE line.kind # "initialized"
      <4>1. PICK secret \in BOOLEAN : line' = [line EXCEPT !.at = "redact", !.secret = secret]
        BY <1>8, <3>2 DEF HandleRequest
      <4>2. line' = [at |-> "redact", kind |-> line.kind, secret |-> secret] /\ line.kind \in LineKinds
        BY <2>1, <4>1 DEF AtWork
      <4> QED
        BY <1>8, <2>1, <3>2, <4>2 DEF HandleRequest, AtWork
    <3> QED
      BY <3>1, <3>2
  <2> QED
    BY <2>1, <2>2 DEF LoopOnly, LoopInv, LoopIsSound
<1>9. CASE RedactResponse
  <2>1. line.at = "redact" /\ pending = 1 /\ line \in AtWork /\ UNCHANGED <<count, pending>> /\ LoopOnly
    BY <1>9 DEF RedactResponse, Loops, LoopInv, LoopIsSound
  <2>2. line' \in AtWork /\ ~ line'.secret /\ line'.at = "reply"
    BY <1>9, <2>1 DEF RedactResponse, AtWork
  <2> QED
    BY <2>1, <2>2 DEF LoopOnly, LoopInv, LoopIsSound
<1>10. CASE WriteAnswer
  <2>1. line.at = "reply" /\ pending = 1 /\ line \in AtWork /\ ~ line.secret /\ LoopOnly /\ pending' = 0
    BY <1>10 DEF WriteAnswer, Loops, LoopInv, LoopIsSound
  <2>2. line' \in [at : {"read", "close"}]
    BY <1>10 DEF WriteAnswer, NoLine
  <2>3. count' = [count EXCEPT !.written = @ + 1, !.bare = @ + 0]
    BY <1>10, <2>1 DEF WriteAnswer
  <2>4. count' = [read |-> count.read, written |-> count.written + 1, bare |-> 0]
        /\ count.read \in Nat /\ count.written + 1 \in Nat
    <3>1. count \in [read : Nat, written : Nat, bare : Nat] /\ count.bare = 0
      BY DEF LoopInv, LoopIsSound
    <3>2. count' = [read |-> count.read, written |-> count.written + 1, bare |-> count.bare + 0]
      BY <2>3, <3>1
    <3> QED
      BY <3>1, <3>2
  <2>5. count' \in [read : Nat, written : Nat, bare : Nat] /\ count'.bare = 0
    BY <2>4
  <2> QED
    BY <2>1, <2>2, <2>5 DEF LoopOnly, LoopInv, LoopIsSound
<1>11. CASE ShutdownRequest \/ EndOfInput
  BY <1>11 DEF ShutdownRequest, EndOfInput, Loops, Closed, LoopInv, LoopIsSound
<1>12. CASE SignalComes \/ StopChecker \/ RemoveStatus
  BY <1>12 DEF SignalComes, StopChecker, RemoveStatus, Exits, LoopInv, LoopIsSound
<1>13. CASE CloseStdio
  BY <1>13 DEF CloseStdio, Exits, Closed, LoopInv, LoopIsSound
<1>14. CASE CloseHTTPAndExit
  <2>1. open' = Closed("http") /\ \A s \in open' : TransportOf[s] = "sse"
    BY <1>14, LoopAssumption DEF CloseHTTPAndExit, Exits, Closed, LoopInv
  <2> QED
    BY <1>14, <2>1 DEF CloseHTTPAndExit, Exits, Closed, LoopInv, LoopIsSound
<1>15. CASE UNCHANGED loopVars
  BY <1>15 DEF loopVars, LoopInv, LoopIsSound
<1> QED
  BY <1>1, <1>2, <1>3, <1>4, <1>5, <1>6, <1>7, <1>8, <1>9, <1>10, <1>11, <1>12, <1>13, <1>14,
     <1>15 DEF SONext

-----------------------------------------------------------------------------
(* The transports and the monitor of pkg/proxy.                             *)

Callers == {"off", "claimed", "serving", "shutting", "returned", "refused"}
Claiming(l) == caller[l] \in {"claimed", "serving"}

\* Until the server is shut down the flag is taken by whoever has claimed it, who is alone; and
\* nobody begins to serve afterwards.
TransportInv ==
  /\ caller \in [Listeners -> Callers] /\ running \in BOOLEAN
  /\ \A l, m \in Listeners : caller[l] = "serving" /\ caller[m] = "serving" => l = m
  /\ server # "shut" => /\ \A l \in Listeners : Claiming(l) => running
                        /\ \A l, m \in Listeners : Claiming(l) /\ Claiming(m) => l = m

LEMMA TransportInitially == TPInit => TransportInv
  BY DEF TPInit, TransportInv, Callers, Claiming

LEMMA TransportStep == TransportInv /\ [TPNext]_transportVars => TransportInv'
<1> SUFFICES ASSUME TransportInv, [TPNext]_transportVars PROVE TransportInv'
  OBVIOUS
<1>1. CASE UNCHANGED httpVars
  BY <1>1 DEF httpVars, TransportInv, Claiming
<1>2. ASSUME NEW l \in Listeners, Claim(l) PROVE TransportInv'
  BY <1>2, ZenonT(60) DEF Claim, TransportInv, Claiming, Callers
<1>3. ASSUME NEW l \in Listeners, Listen(l) PROVE TransportInv'
  BY <1>3 DEF Listen, TransportInv, Claiming, Callers
<1>4. ASSUME NEW l \in Listeners, ListenContextDone(l) \/ ServeReturns(l) PROVE TransportInv'
  BY <1>4 DEF ListenContextDone, ServeReturns, TransportInv, Claiming, Callers
<1>5. CASE CloseTransport
  BY <1>5 DEF CloseTransport, TransportInv, Claiming, Callers
<1> QED
  BY <1>1, <1>2, <1>3, <1>4, <1>5
     DEF TPNext, Forward, PeerCloses, UpBytesEnd, DownBytesEnd, UpLinesEnd, DownLinesEnd,
         ForwardReturns, transportVars, httpVars

LEMMA TransportFollows == TransportInv => OneListens
<1> SUFFICES ASSUME TransportInv PROVE OneListens
  OBVIOUS
<1> DEFINE serving == {l \in Listeners : caller[l] = "serving"}
<1>1. Cardinality(serving) <= 1
  <2>1. CASE serving = {}
    BY <2>1, FS_EmptySet
  <2>2. CASE serving # {}
    <3>1. PICK l \in serving : TRUE
      BY <2>2
    <3>2. serving = {l}
      BY <3>1 DEF TransportInv
    <3> HIDE DEF serving
    <3> QED
      BY <3>2, FS_Singleton
  <2> QED
    BY <2>1, <2>2
<1> QED
  BY <1>1 DEF TransportInv, Claiming, OneListens

\* What a list of the monitor says of a server is right on Linux.
LEMMA ListsAreRight == RunningIsAlive
  BY DEF RunningIsAlive, CheckServer, CheckProcessHealth
-----------------------------------------------------------------------------
(* The sessions of the socket server.                                       *)

\* The sessions are numbered from 1, the one that was not used longest, to the latest.
Ranked(u, n) == /\ u \in [Peered -> Nat] /\ \A s \in Peered : u[s] <= n
                /\ \A s, t \in Peered : u[s] > 0 /\ u[s] = u[t] => s = t
                /\ \A k \in 1 .. n : \E s \in Peered : u[s] = k

LEMMA RanksCount ==
  ASSUME NEW n \in Nat, NEW u, Ranked(u, n), NEW v \in 0 .. n
  PROVE  LET low == {s \in Peered : u[s] \in 1 .. v} IN IsFiniteSet(low) /\ Cardinality(low) = v
<1> DEFINE low == {s \in Peered : u[s] \in 1 .. v}
           f == [k \in 1 .. v |-> CHOOSE s \in Peered : u[s] = k]
<1>1. \A k \in 1 .. v : f[k] \in Peered /\ u[f[k]] = k
  BY DEF Ranked
<1>2. f \in [1 .. v -> low] /\ \A i, j \in 1 .. v : f[i] = f[j] => i = j
  BY <1>1
<1>3. \A s \in low : u[s] \in 1 .. v /\ f[u[s]] = s
  <2> SUFFICES ASSUME NEW s \in low PROVE u[s] \in 1 .. v /\ f[u[s]] = s
    OBVIOUS
  <2>1. u[s] \in 1 .. v /\ u[s] > 0 /\ s \in Peered
    OBVIOUS
  <2>2. f[u[s]] \in Peered /\ u[f[u[s]]] = u[s]
    BY <1>1, <2>1
  <2> QED
    BY <2>1, <2>2 DEF Ranked
<1> HIDE DEF f
<1>4. f \in Bijection(1 .. v, low)
  BY <1>2, <1>3 DEF Bijection, Injection, Surjection, IsInjective
<1>5. ExistsBijection(1 .. v, low)
  BY <1>4 DEF ExistsBijection
<1>6. IsFiniteSet(1 .. v) /\ v \in Nat
  BY FS_Interval
<1> HIDE DEF low
<1>7. IsFiniteSet(low) /\ Cardinality(low) = v
  BY <1>5, <1>6, FS_Bijection, FS_CountingElements
<1> QED
  BY <1>7 DEF low

\* A session that is used takes the last number, and those behind it move up.
LEMMA UseRanks ==
  ASSUME NEW n \in Nat, NEW u, Ranked(u, n), NEW s \in Peered
  PROVE  Ranked(Use(u, s), IF u[s] > 0 THEN n ELSE n + 1)
<1> DEFINE new == Use(u, s)
           above(t) == {r \in Peered : u[r] \in 1 .. u[t] /\ r # s}
           others == {r \in Peered : u[r] > 0 /\ r # s}
<1>1. u \in [Peered -> Nat] /\ \A t \in Peered : u[t] \in 0 .. n
  BY DEF Ranked
<1>2. Cardinality(others) = IF u[s] > 0 THEN n - 1 ELSE n
  <2> DEFINE all == {r \in Peered : u[r] \in 1 .. n}
  <2>1. IsFiniteSet(all) /\ Cardinality(all) = n
    BY RanksCount
  <2>2. others = all \ {s} /\ (s \in all <=> u[s] > 0)
    BY <1>1
  <2> HIDE DEF all, others
  <2> QED
    BY <2>1, <2>2, FS_RemoveElement
<1>3. ASSUME NEW t \in Peered, t # s, u[t] > 0
      PROVE  Cardinality(above(t)) = IF u[s] > 0 /\ u[s] < u[t] THEN u[t] - 1 ELSE u[t]
  <2> DEFINE all == {r \in Peered : u[r] \in 1 .. u[t]}
             a == above(t)
  <2>1. IsFiniteSet(all) /\ Cardinality(all) = u[t]
    BY <1>1, RanksCount
  <2>2. u[s] # u[t]
    BY <1>3 DEF Ranked
  <2>3. a = all \ {s} /\ (s \in all <=> u[s] > 0 /\ u[s] < u[t])
    BY <1>1, <2>2
  <2> HIDE DEF all, a
  <2>4. Cardinality(a) = IF s \in all THEN Cardinality(all) - 1 ELSE Cardinality(all)
    BY <2>1, <2>3, FS_RemoveElement
  <2>5. Cardinality(a) = IF u[s] > 0 /\ u[s] < u[t] THEN u[t] - 1 ELSE u[t]
    BY <2>1, <2>3, <2>4
  <2> QED
    BY <2>5 DEF a
<1>4. /\ new = [t \in Peered |-> IF t = s THEN Cardinality(others) + 1
                                 ELSE IF u[t] = 0 THEN 0 ELSE Cardinality(above(t))]
  BY DEF Use
<1> HIDE DEF new, above, others
<1>5. new[s] = IF u[s] > 0 THEN n ELSE n + 1
  BY <1>1, <1>2, <1>4
<1>6. \A t \in Peered : t # s => new[t] = IF u[s] > 0 /\ u[s] < u[t] THEN u[t] - 1 ELSE u[t]
  BY <1>1, <1>3, <1>4
<1>7. new \in [Peered -> Nat]
  <2>1. \A t \in Peered : new[t] \in Nat
    BY <1>1, <1>5, <1>6
  <2> QED
    BY <1>4, <2>1
<1>8. CASE u[s] > 0
  <2>1. \A t \in Peered : new[t] <= n
    BY <1>1, <1>5, <1>6, <1>8
  <2>2. \A t, r \in Peered : new[t] > 0 /\ new[t] = new[r] => t = r
    <3> SUFFICES ASSUME NEW t \in Peered, NEW r \in Peered, new[t] > 0, new[t] = new[r] PROVE t = r
      OBVIOUS
    <3>1. \A q \in Peered : q # s => u[q] # u[s] /\ (new[q] = n => FALSE)
      BY <1>1, <1>6, <1>8 DEF Ranked
    <3>2. CASE t # s /\ r # s
      <4>1. u[t] = u[r] /\ u[t] > 0
        BY <1>1, <1>6, <1>8, <3>1, <3>2
      <4> QED
        BY <4>1 DEF Ranked
    <3> QED
      BY <1>5, <1>8, <3>1, <3>2
  <2>3. \A k \in 1 .. n : \E t \in Peered : new[t] = k
    <3> SUFFICES ASSUME NEW k \in 1 .. n, k # n PROVE \E t \in Peered : new[t] = k
      BY <1>5, <1>8
    <3>1. CASE k < u[s]
      <4>1. PICK t \in Peered : u[t] = k
        BY DEF Ranked
      <4> QED
        BY <1>1, <1>6, <3>1, <4>1
    <3>2. CASE ~ (k < u[s])
      <4>1. PICK t \in Peered : u[t] = k + 1
        BY DEF Ranked
      <4>2. t # s /\ new[t] = k
        BY <1>1, <1>6, <1>8, <3>2, <4>1
      <4> QED
        BY <4>2
    <3> QED
      BY <3>1, <3>2
  <2> QED
    BY <1>7, <1>8, <2>1, <2>2, <2>3 DEF Ranked, new
<1>9. CASE u[s] = 0
  <2>1. \A t \in Peered : t # s => new[t] = u[t]
    BY <1>6, <1>9
  <2>2. \A t \in Peered : new[t] <= n + 1
    BY <1>1, <1>5, <1>9, <2>1
  <2>3. \A t, r \in Peered : new[t] > 0 /\ new[t] = new[r] => t = r
    BY <1>1, <1>5, <1>9, <2>1 DEF Ranked
  <2>4. \A k \in 1 .. n + 1 : \E t \in Peered : new[t] = k
    <3> SUFFICES ASSUME NEW k \in 1 .. n PROVE \E t \in Peered : new[t] = k
      BY <1>5, <1>9
    <3>1. PICK t \in Peered : u[t] = k
      BY DEF Ranked
    <3>2. t # s
      BY <1>9, <3>1
    <3> QED
      BY <2>1, <3>1, <3>2
  <2> QED
    BY <1>7, <1>9, <2>2, <2>3, <2>4 DEF Ranked, new
<1> QED
  BY <1>1, <1>8, <1>9

\* Eviction takes the session that was not used longest, if the cache is full.
LEMMA EvictRanks ==
  ASSUME NEW n \in Nat, NEW u, Ranked(u, n)
  PROVE  Ranked(Evict(u), IF n >= MaxSize THEN n - 1 ELSE n)
<1>1. u \in [Peered -> Nat] /\ \A t \in Peered : u[t] \in 0 .. n
  BY DEF Ranked
<1>2. Cardinality({s \in Peered : u[s] > 0}) = n
  <2>1. {s \in Peered : u[s] > 0} = {s \in Peered : u[s] \in 1 .. n}
    BY <1>1
  <2> QED
    BY <2>1, RanksCount
<1>3. CASE n >= MaxSize
  <2> DEFINE new == Evict(u)
  <2>1. n >= 1
    BY <1>3, SocketAssumption
  <2>2. new = [s \in Peered |-> IF u[s] = 0 THEN 0 ELSE u[s] - 1]
    BY <1>2, <1>3 DEF Evict
  <2> HIDE DEF new
  <2>3. \A s \in Peered : new[s] = IF u[s] = 0 THEN 0 ELSE u[s] - 1
    BY <2>2
  <2>4. new \in [Peered -> Nat] /\ \A s \in Peered : new[s] <= n - 1
    BY <1>1, <2>1, <2>2
  <2>5. \A s, t \in Peered : new[s] > 0 /\ new[s] = new[t] => s = t
    <3> SUFFICES ASSUME NEW s \in Peered, NEW t \in Peered, new[s] > 0, new[s] = new[t] PROVE s = t
      OBVIOUS
    <3>1. u[s] > 0 /\ u[s] = u[t]
      BY <1>1, <2>3
    <3> QED
      BY <3>1 DEF Ranked
  <2>6. ASSUME NEW k \in 1 .. n - 1 PROVE \E s \in Peered : new[s] = k
    <3>1. PICK s \in Peered : u[s] = k + 1
      BY DEF Ranked
    <3> QED
      BY <2>3, <3>1
  <2> QED
    BY <1>3, <2>4, <2>5, <2>6 DEF Ranked, new
<1>4. CASE ~ (n >= MaxSize)
  BY <1>2, <1>4 DEF Evict
<1> QED
  BY <1>3, <1>4

SessionsInv == \E n \in 0 .. MaxSize : Ranked(lastUse, n)

LEMMA SessionsStep ==
  SessionsInv /\ ((\E s \in Peered : GetOrCreateSession(s) \/ RestoreSession(s) \/ RemoveSession(s))
                  \/ ClearSessions \/ UNCHANGED lastUse) => SessionsInv'
<1> SUFFICES ASSUME NEW n \in 0 .. MaxSize, Ranked(lastUse, n),
                    \/ \E s \in Peered : \/ GetOrCreateSession(s) \/ RestoreSession(s)
                                         \/ RemoveSession(s)
                    \/ ClearSessions \/ UNCHANGED lastUse
             PROVE  SessionsInv'
  BY DEF SessionsInv
<1>0. n \in Nat /\ MaxSize \in Nat /\ MaxSize >= 1 /\ n <= MaxSize
  BY SocketAssumption
<1>t. lastUse \in [Peered -> Nat] /\ \A t \in Peered : lastUse[t] \in 0 .. n
  BY DEF Ranked
<1>1. ASSUME NEW s \in Peered, NEW m \in Nat, NEW u, Ranked(u, m), lastUse' = Use(u, s),
             u[s] > 0 => m <= MaxSize, u[s] = 0 => m < MaxSize
      PROVE  SessionsInv'
  <2> DEFINE k == IF u[s] > 0 THEN m ELSE m + 1
  <2>1. u[s] \in Nat
    BY <1>1 DEF Ranked
  <2>2. k \in 0 .. MaxSize
    BY <1>0, <1>1, <2>1
  <2>3. Ranked(lastUse', k)
    BY <1>1, UseRanks
  <2> QED
    BY <2>2, <2>3 DEF SessionsInv, Ranked
<1>2. LET k == IF n >= MaxSize THEN n - 1 ELSE n
      IN  Ranked(Evict(lastUse), k) /\ k \in Nat /\ k < MaxSize
  BY <1>0, EvictRanks
<1>3. ASSUME NEW s \in Peered, GetOrCreateSession(s) \/ RestoreSession(s) PROVE SessionsInv'
  BY <1>0, <1>1, <1>2, <1>3 DEF GetOrCreateSession, RestoreSession
<1>4. ASSUME NEW s \in Peered, RemoveSession(s) PROVE SessionsInv'
  <2>1. lastUse[s] \in 1 .. n
    BY <1>4, <1>t DEF RemoveSession
  <2>2. /\ lastUse' \in [Peered -> Nat]
        /\ \A t \in Peered : lastUse'[t] = IF t = s THEN 0
                                           ELSE IF lastUse[t] > lastUse[s] THEN lastUse[t] - 1
                                           ELSE lastUse[t]
    BY <1>4, <1>t, <2>1 DEF RemoveSession
  <2>3. \A t \in Peered : t # s => lastUse[t] # lastUse[s]
    BY <2>1 DEF Ranked
  <2>4. \A t \in Peered : lastUse'[t] <= n - 1
    BY <1>t, <2>1, <2>2, <2>3
  <2>5. \A t, r \in Peered : lastUse'[t] > 0 /\ lastUse'[t] = lastUse'[r] => t = r
    <3> SUFFICES ASSUME NEW t \in Peered, NEW r \in Peered, lastUse'[t] > 0, lastUse'[t] = lastUse'[r]
                 PROVE  t = r
      OBVIOUS
    <3>1. t # s /\ r # s
      BY <2>2
    <3>2. lastUse[t] = lastUse[r] /\ lastUse[t] > 0
      BY <1>t, <2>1, <2>2, <2>3, <3>1
    <3> QED
      BY <3>2 DEF Ranked
  <2>6. ASSUME NEW k \in 1 .. n - 1 PROVE \E t \in Peered : lastUse'[t] = k
    <3>1. CASE k < lastUse[s]
      <4>1. PICK t \in Peered : lastUse[t] = k
        BY <1>0 DEF Ranked
      <4> QED
        BY <1>t, <2>1, <2>2, <3>1, <4>1
    <3>2. CASE ~ (k < lastUse[s])
      <4>1. PICK t \in Peered : lastUse[t] = k + 1
        BY <1>0 DEF Ranked
      <4>2. t # s /\ lastUse'[t] = k
        BY <1>t, <2>1, <2>2, <3>2, <4>1
      <4> QED
        BY <4>2
    <3> QED
      BY <3>1, <3>2
  <2>7. Ranked(lastUse', n - 1) /\ n - 1 \in 0 .. MaxSize
    BY <1>0, <2>1, <2>2, <2>4, <2>5, <2>6 DEF Ranked
  <2> QED
    BY <2>7 DEF SessionsInv, Ranked
<1>5. CASE ClearSessions
  <2>1. lastUse' = [t \in Peered |-> 0]
    BY <1>5 DEF ClearSessions
  <2>2. Ranked(lastUse', 0) /\ 0 \in 0 .. MaxSize
    BY <1>0, <2>1 DEF Ranked
  <2> QED
    BY <2>2 DEF SessionsInv, Ranked
<1>6. CASE UNCHANGED lastUse
  BY <1>6 DEF SessionsInv, Ranked
<1> QED
  BY <1>3, <1>4, <1>5, <1>6

LEMMA SessionsFollow == SessionsInv => Cardinality(Sessions) <= MaxSize
<1> SUFFICES ASSUME NEW n \in 0 .. MaxSize, Ranked(lastUse, n) PROVE Cardinality(Sessions) <= MaxSize
  BY DEF SessionsInv
<1>1. n \in Nat /\ n <= MaxSize
  BY SocketAssumption
<1>2. Sessions = {s \in Peered : lastUse[s] \in 1 .. n}
  BY DEF Sessions, Ranked
<1>3. Cardinality(Sessions) = n
  BY <1>1, <1>2, RanksCount
<1> QED
  BY <1>1, <1>3
-----------------------------------------------------------------------------
(* The connections of the socket server.                                    *)

Tallies == [sent : Nat, answered : Nat, lost : Nat]
RequestsOf(c) == {r \in requests : r[1] = c}
Unread(c) == Len(toServer[c])
AllCounted(c) == tally[c].sent = tally[c].answered + tally[c].lost + Unread(c)
                                   + Cardinality(RequestsOf(c))

\* A line that becomes a request comes behind all lines that have, so the request is a new one.
LinkInv ==
  /\ link \in [Conns -> {"before", "backlog", "accepted", "open", "closed"}]
  /\ toServer \in [Conns -> Seq(SockLines)] /\ tally \in [Conns -> Tallies]
  /\ IsFiniteSet(requests)
  /\ \A r \in requests : /\ r = <<r[1], r[2], r[3]>> /\ r[1] \in Conns /\ r[3] \in Nat
                         /\ r[3] < tally[r[1]].sent - Unread(r[1])
  /\ \A c \in Conns : AllCounted(c)
  /\ \A c \in Conns : link[c] # "closed" => tally[c].lost = 0
  /\ over <=> shutdown \in {"wait", "done"}

LEMMA LinkInitially == SSInit => LinkInv
<1> SUFFICES ASSUME SSInit PROVE LinkInv
  OBVIOUS
<1>1. \A c \in Conns : RequestsOf(c) = {} /\ toServer[c] = <<>> /\ tally[c] = [sent |-> 0, answered |-> 0, lost |-> 0]
  BY DEF SSInit, RequestsOf
<1>2. ASSUME NEW c \in Conns PROVE AllCounted(c)
  <2>0. RequestsOf(c) = {} /\ toServer[c] = <<>>
    BY <1>1
  <2>1. Cardinality(RequestsOf(c)) = 0 /\ Len(toServer[c]) = 0
    BY <2>0, FS_EmptySet
  <2>2. tally[c].sent = 0 /\ tally[c].answered = 0 /\ tally[c].lost = 0
    BY <1>1
  <2> QED
    BY <2>1, <2>2 DEF AllCounted, Unread
<1>3. toServer \in [Conns -> Seq(SockLines)]
  BY DEF SSInit
<1>4. tally \in [Conns -> Tallies]
  BY <1>1 DEF SSInit, Tallies
<1>5. \A c \in Conns : tally[c].lost = 0
  BY <1>1
<1> QED
  BY <1>2, <1>3, <1>4, <1>5, FS_EmptySet DEF SSInit, LinkInv

LEMMA CountsSay ==
  ASSUME tally \in [Conns -> Tallies], NEW c \in Conns, NEW n \in Nat,
         NEW what \in {"sent", "answered", "lost"}, Counts(c, what, n)
  PROVE  /\ tally' \in [Conns -> Tallies]
         /\ \A d \in Conns : d # c => tally'[d] = tally[d]
         /\ tally'[c].sent = tally[c].sent + (IF what = "sent" THEN n ELSE 0)
         /\ tally'[c].answered = tally[c].answered + (IF what = "answered" THEN n ELSE 0)
         /\ tally'[c].lost = tally[c].lost + (IF what = "lost" THEN n ELSE 0)
<1> DEFINE t == [tally[c] EXCEPT ![what] = @ + n]
<1>1. tally' = [tally EXCEPT ![c] = t]
  BY DEF Counts
<1>2. tally[c] \in Tallies
  OBVIOUS
<1>3. /\ t.sent = tally[c].sent + (IF what = "sent" THEN n ELSE 0)
      /\ t.answered = tally[c].answered + (IF what = "answered" THEN n ELSE 0)
      /\ t.lost = tally[c].lost + (IF what = "lost" THEN n ELSE 0)
  BY <1>2 DEF Tallies
<1>4. t \in Tallies
  <2>1. tally[c][what] + n \in Nat
    BY <1>2 DEF Tallies
  <2> QED
    BY <1>2, <2>1 DEF Tallies
<1> HIDE DEF t
<1> QED
  BY <1>1, <1>3, <1>4

LEMMA RequestsAreCounted ==
  ASSUME LinkInv, NEW c \in Conns
  PROVE  /\ IsFiniteSet(RequestsOf(c)) /\ Cardinality(RequestsOf(c)) \in Nat /\ Unread(c) \in Nat
         /\ tally[c] \in Tallies /\ AllCounted(c) /\ toServer[c] \in Seq(SockLines)
<1>1. toServer[c] \in Seq(SockLines) /\ tally[c] \in Tallies /\ AllCounted(c)
  BY DEF LinkInv
<1>2. IsFiniteSet(RequestsOf(c))
  BY FS_Subset DEF LinkInv, RequestsOf
<1> QED
  BY <1>1, <1>2, FS_CardinalityType DEF Unread

LEMMA LinkStep == LinkInv /\ [SSNext]_socketVars => LinkInv'
<1> SUFFICES ASSUME LinkInv, [SSNext]_socketVars PROVE LinkInv'
  OBVIOUS
<1>t. /\ link \in [Conns -> {"before", "backlog", "accepted", "open", "closed"}]
      /\ toServer \in [Conns -> Seq(SockLines)] /\ tally \in [Conns -> Tallies]
      /\ \A r \in requests : r[1] \in Conns
  BY DEF LinkInv
<1>c. \A d \in Conns :
        /\ tally[d].sent \in Nat /\ tally[d].answered \in Nat /\ tally[d].lost \in Nat
        /\ Unread(d) \in Nat /\ Cardinality(RequestsOf(d)) \in Nat
        /\ tally[d].sent = tally[d].answered + tally[d].lost + Unread(d) + Cardinality(RequestsOf(d))
        /\ link[d] # "closed" => tally[d].lost = 0
  BY RequestsAreCounted DEF LinkInv, AllCounted, Tallies
<1>q. \A r \in requests : /\ r[1] \in Conns /\ r[3] \in Nat
                          /\ r[3] < tally[r[1]].sent - Unread(r[1])
  BY DEF LinkInv
<1>1. ASSUME UNCHANGED <<toServer, requests, tally>>,
             link' \in [Conns -> {"before", "backlog", "accepted", "open", "closed"}],
             \A c \in Conns : link'[c] # "closed" => link[c] # "closed",
             over' <=> shutdown' \in {"wait", "done"}
      PROVE  LinkInv'
  <2>1. \A c \in Conns : AllCounted(c)' <=> AllCounted(c)
    BY <1>1 DEF AllCounted, Unread, RequestsOf
  <2> QED
    BY <1>1, <2>1 DEF LinkInv, Unread
<1>2. ASSUME NEW c \in Conns, Reach(c) \/ AcceptConn(c) \/ CountConn(c) PROVE LinkInv'
  <2>1. link' \in [Conns -> {"before", "backlog", "accepted", "open", "closed"}]
    BY <1>2, <1>t DEF Reach, AcceptConn, CountConn
  <2>2. \A d \in Conns : link'[d] # "closed" => link[d] # "closed"
    BY <1>2, <1>t DEF Reach, AcceptConn, CountConn
  <2> QED
    BY <1>1, <1>2, <2>1, <2>2 DEF Reach, AcceptConn, CountConn, LinkInv
<1>3. CASE CallShutdown \/ CancelServer \/ ShutdownEnds
  BY <1>1, <1>3, <1>t DEF CallShutdown, CancelServer, ShutdownEnds, LinkInv
<1>4. ASSUME NEW c \in Conns, SendLine(c) PROVE LinkInv'
  <2>1. PICK kind \in SockLines : toServer' = [toServer EXCEPT ![c] = Append(@, kind)]
    BY <1>4 DEF SendLine
  <2>2. Counts(c, "sent", 1) /\ link[c] # "closed" /\ UNCHANGED <<over, link, requests, shutdown>>
    BY <1>4 DEF SendLine
  <2>3. /\ tally' \in [Conns -> Tallies] /\ \A d \in Conns : d # c => tally'[d] = tally[d]
        /\ tally'[c].sent = tally[c].sent + 1 /\ tally'[c].answered = tally[c].answered + 0
        /\ tally'[c].lost = tally[c].lost + 0
    BY <1>t, <2>2, CountsSay
  <2>4. toServer' \in [Conns -> Seq(SockLines)]
    BY <1>t, <2>1
  <2>5. Unread(c)' = Unread(c) + 1 /\ \A d \in Conns : d # c => Unread(d)' = Unread(d)
    BY <1>t, <2>1 DEF Unread
  <2>6. \A d \in Conns : RequestsOf(d)' = RequestsOf(d)
    BY <2>2 DEF RequestsOf
  <2>7. \A d \in Conns : AllCounted(d)'
    <3> SUFFICES ASSUME NEW d \in Conns PROVE AllCounted(d)'
      OBVIOUS
    <3> QED
      BY <1>c, <2>3, <2>5, <2>6 DEF AllCounted
  <2>8. \A r \in requests : r[3] < tally'[r[1]].sent - Unread(r[1])'
    <3> SUFFICES ASSUME NEW r \in requests, NEW d \in Conns, d = r[1]
                 PROVE  r[3] < tally'[d].sent - Unread(d)'
      BY <1>q
    <3> QED
      BY <1>c, <1>q, <2>3, <2>5
  <2>9. \A d \in Conns : link[d] # "closed" => tally'[d].lost = 0
    BY <1>c, <2>3
  <2> QED
    BY <2>2, <2>3, <2>4, <2>7, <2>8, <2>9 DEF LinkInv
\* The connections in gone are closed, and what was not read of them is lost.
<1>5. ASSUME NEW gone \in SUBSET Conns, \A c \in gone : link[c] # "closed",
             link' = [c \in Conns |-> IF c \in gone THEN "closed" ELSE link[c]],
             toServer' = [c \in Conns |-> IF c \in gone THEN <<>> ELSE toServer[c]],
             tally' \in [Conns -> Tallies],
             \A c \in Conns : /\ tally'[c].sent = tally[c].sent
                              /\ tally'[c].answered = tally[c].answered
                              /\ tally'[c].lost = tally[c].lost + (IF c \in gone THEN Unread(c) ELSE 0),
             UNCHANGED <<over, requests, shutdown>>
      PROVE  LinkInv'
  <2>1. \A c \in Conns : Unread(c)' = IF c \in gone THEN 0 ELSE Unread(c)
    BY <1>5 DEF Unread
  <2>2. \A c \in Conns : RequestsOf(c)' = RequestsOf(c)
    BY <1>5 DEF RequestsOf
  <2>3. ASSUME NEW c \in Conns PROVE AllCounted(c)'
    BY <1>5, <1>c, <2>1, <2>2 DEF AllCounted
  <2>4. \A r \in requests : r[3] < tally'[r[1]].sent - Unread(r[1])'
    BY <1>5, <1>q, <1>c, <2>1
  <2>5. \A c \in Conns : link'[c] # "closed" => tally'[c].lost = 0
    BY <1>5, RequestsAreCounted DEF LinkInv, Tallies
  <2>6. toServer' \in [Conns -> Seq(SockLines)]
    BY <1>5, <1>t
  <2>7. link' \in [Conns -> {"before", "backlog", "accepted", "open", "closed"}]
    BY <1>5, <1>t
  <2> QED
    BY <1>5, <2>3, <2>4, <2>5, <2>6, <2>7 DEF LinkInv
<1>6. ASSUME NEW c \in Conns, CloseConn(c) PROVE LinkInv'
  <2>1. /\ link[c] = "open" /\ link' = [link EXCEPT ![c] = "closed"]
        /\ toServer' = [toServer EXCEPT ![c] = <<>>]
        /\ Counts(c, "lost", Unread(c)) /\ UNCHANGED <<over, requests, shutdown>>
    BY <1>6 DEF CloseConn, Unread
  <2>2. /\ tally' \in [Conns -> Tallies] /\ \A d \in Conns : d # c => tally'[d] = tally[d]
        /\ tally'[c].sent = tally[c].sent + 0 /\ tally'[c].answered = tally[c].answered + 0
        /\ tally'[c].lost = tally[c].lost + Unread(c)
    BY <1>t, <2>1, CountsSay, RequestsAreCounted
  <2>3. \A d \in Conns : /\ tally'[d].sent = tally[d].sent
                         /\ tally'[d].answered = tally[d].answered
                         /\ tally'[d].lost = tally[d].lost + (IF d \in {c} THEN Unread(d) ELSE 0)
    BY <1>c, <2>2
  <2>4. /\ link' = [d \in Conns |-> IF d \in {c} THEN "closed" ELSE link[d]]
        /\ toServer' = [d \in Conns |-> IF d \in {c} THEN <<>> ELSE toServer[d]]
    BY <1>t, <2>1
  <2> QED
    BY <1>5, <2>1, <2>2, <2>3, <2>4
<1>7. CASE StopAccepting
  <2> DEFINE gone == {c \in Conns : link[c] = "backlog"}
  <2>1. /\ link' = [c \in Conns |-> IF c \in gone THEN "closed" ELSE link[c]]
        /\ toServer' = [c \in Conns |-> IF c \in gone THEN <<>> ELSE toServer[c]]
        /\ tally' = [c \in Conns |-> IF c \in gone THEN [tally[c] EXCEPT !.lost = @ + Unread(c)]
                                     ELSE tally[c]]
        /\ UNCHANGED <<over, requests, shutdown>>
    BY <1>7 DEF StopAccepting, Unread
  <2>2. ASSUME NEW c \in Conns
        PROVE  /\ tally'[c] \in Tallies /\ tally'[c].sent = tally[c].sent
               /\ tally'[c].answered = tally[c].answered
               /\ tally'[c].lost = tally[c].lost + (IF c \in gone THEN Unread(c) ELSE 0)
    <3>1. Unread(c) \in Nat /\ tally[c] \in Tallies
      BY RequestsAreCounted
    <3> DEFINE t == [tally[c] EXCEPT !.lost = @ + Unread(c)]
    <3>2. tally[c].lost + Unread(c) \in Nat
      BY <3>1 DEF Tallies
    <3>3. t \in Tallies /\ t.sent = tally[c].sent /\ t.answered = tally[c].answered
          /\ t.lost = tally[c].lost + Unread(c)
      BY <3>1, <3>2 DEF Tallies
    <3>4. tally'[c] = IF c \in gone THEN t ELSE tally[c]
      BY <2>1
    <3> HIDE DEF t, gone
    <3>5. tally[c].lost = tally[c].lost + 0
      BY <3>1 DEF Tallies
    <3> QED
      BY <3>1, <3>3, <3>4, <3>5
  <2>3. tally' \in [Conns -> Tallies]
    BY <2>1, <2>2
  <2>4. \A c \in gone : link[c] # "closed"
    OBVIOUS
  <2> HIDE DEF gone
  <2>5. gone \in SUBSET Conns
    BY DEF gone
  <2> QED
    BY <1>5, <2>1, <2>2, <2>3, <2>4, <2>5
<1>8. ASSUME NEW c \in Conns, TakeLine(c) PROVE LinkInv'
  <2>1. PICK kind \in {Head(toServer[c]), "unparsable"} :
          IF kind = "large"
            THEN Counts(c, "answered", 1) /\ UNCHANGED requests
            ELSE /\ requests' = requests \cup {<<c, kind, tally[c].sent - Len(toServer[c])>>}
                 /\ UNCHANGED tally
    BY <1>8 DEF TakeLine
  <2>2. /\ link[c] # "closed" /\ toServer[c] # <<>> /\ toServer' = [toServer EXCEPT ![c] = Tail(@)]
        /\ UNCHANGED <<over, link, shutdown>>
    BY <1>8 DEF TakeLine
  <2>3. /\ \A d \in Conns : d = c => Unread(d)' = Unread(d) - 1 /\ Unread(d) > 0
        /\ \A d \in Conns : d # c => Unread(d)' = Unread(d)
        /\ toServer' \in [Conns -> Seq(SockLines)]
    BY <1>t, <2>2 DEF Unread
  <2>4. CASE kind = "large"
    <3>1. /\ tally' \in [Conns -> Tallies] /\ \A d \in Conns : d # c => tally'[d] = tally[d]
          /\ tally'[c].sent = tally[c].sent + 0 /\ tally'[c].answered = tally[c].answered + 1
          /\ tally'[c].lost = tally[c].lost + 0 /\ requests' = requests
      BY <1>t, <2>1, <2>4, CountsSay
    <3>2. \A d \in Conns : RequestsOf(d)' = RequestsOf(d)
      BY <3>1 DEF RequestsOf
    <3>3. \A d \in Conns : AllCounted(d)'
      <4> SUFFICES ASSUME NEW d \in Conns PROVE AllCounted(d)'
        OBVIOUS
      <4>1. CASE d = c
        <5>1. Unread(d)' = Unread(d) - 1
          BY <2>3, <4>1
        <5>2. tally'[d].sent = tally[d].sent /\ tally'[d].answered = tally[d].answered + 1
              /\ tally'[d].lost = tally[d].lost
          BY <1>c, <3>1, <4>1
        <5>3. Cardinality(RequestsOf(d)') = Cardinality(RequestsOf(d))
          BY <3>2
        <5> QED
          BY <1>c, <5>1, <5>2, <5>3 DEF AllCounted
      <4>2. CASE d # c
        BY <1>c, <2>3, <3>1, <3>2, <4>2 DEF AllCounted
      <4> QED
        BY <4>1, <4>2
    <3>4. \A r \in requests : r[3] < tally'[r[1]].sent - Unread(r[1])'
      <4> SUFFICES ASSUME NEW r \in requests, NEW d \in Conns, d = r[1]
                   PROVE  r[3] < tally'[d].sent - Unread(d)'
        BY <1>q
      <4>1. CASE d = c
        <5>1. Unread(d)' = Unread(d) - 1 /\ tally'[d].sent = tally[d].sent
          BY <1>c, <2>3, <3>1, <4>1
        <5> QED
          BY <1>c, <1>q, <5>1
      <4>2. CASE d # c
        BY <1>c, <1>q, <2>3, <3>1, <4>2
      <4> QED
        BY <4>1, <4>2
    <3>5. \A d \in Conns : link[d] # "closed" => tally'[d].lost = 0
      BY <1>c, <3>1
    <3> QED
      BY <2>2, <2>3, <3>1, <3>3, <3>4, <3>5 DEF LinkInv
  <2>5. CASE kind # "large"
    <3> DEFINE n == tally[c].sent - Unread(c)
               q == <<c, kind, n>>
    <3>1. requests' = requests \cup {q} /\ tally' = tally
      BY <2>1, <2>5 DEF Unread
    <3>2. n \in Nat
      BY RequestsAreCounted DEF AllCounted, Tallies
    <3>3. q \notin requests /\ q[1] = c /\ q[3] = n /\ q = <<q[1], q[2], q[3]>>
      BY <3>2 DEF LinkInv
    <3> HIDE DEF q
    <3>4. /\ RequestsOf(c)' = RequestsOf(c) \cup {q} /\ q \notin RequestsOf(c)
          /\ \A d \in Conns : d # c => RequestsOf(d)' = RequestsOf(d)
      BY <3>1, <3>3 DEF RequestsOf
    <3>5. \A d \in Conns : d = c => Cardinality(RequestsOf(d)') = Cardinality(RequestsOf(d)) + 1
      BY <3>4, FS_AddElement, RequestsAreCounted
    <3>6. \A d \in Conns : AllCounted(d)'
      <4> SUFFICES ASSUME NEW d \in Conns PROVE AllCounted(d)'
        OBVIOUS
      <4>1. CASE d = c
        <5>1. Unread(d)' = Unread(d) - 1
          BY <2>3, <4>1
        <5>2. Cardinality(RequestsOf(d)') = Cardinality(RequestsOf(d)) + 1
          BY <3>5, <4>1
        <5>3. /\ tally'[d].sent = tally[d].sent /\ tally'[d].lost = tally[d].lost
              /\ tally'[d].answered = tally[d].answered
          BY <3>1
        <5> QED
          BY <1>c, <5>1, <5>2, <5>3 DEF AllCounted
      <4>2. CASE d # c
        BY <1>c, <2>3, <3>1, <3>4, <3>5, <4>2 DEF AllCounted
      <4> QED
        BY <4>1, <4>2
    <3>7. ASSUME NEW r \in requests' PROVE r[3] < tally'[r[1]].sent - Unread(r[1])'
      <4>1. CASE r = q
        <5>1. tally'[c].sent = tally[c].sent /\ Unread(c)' = Unread(c) - 1
          BY <2>3, <3>1
        <5>2. r[1] = c /\ r[3] = tally[c].sent - Unread(c)
          BY <3>3, <4>1
        <5> QED
          BY <1>c, <5>1, <5>2
      <4>2. CASE r \in requests
        <5> SUFFICES ASSUME NEW d \in Conns, d = r[1] PROVE r[3] < tally'[d].sent - Unread(d)'
          BY <1>q, <4>2
        <5> QED
          BY <1>c, <1>q, <2>3, <3>1, <4>2
      <4> QED
        BY <3>1, <4>1, <4>2
    <3>8. IsFiniteSet(requests')
      BY <3>1, FS_AddElement DEF LinkInv
    <3>9. \A r \in requests' : r = <<r[1], r[2], r[3]>> /\ r[1] \in Conns /\ r[3] \in Nat
      BY <3>1, <3>2, <3>3 DEF LinkInv
    <3> QED
      BY <2>2, <2>3, <3>1, <3>6, <3>7, <3>8, <3>9 DEF LinkInv
  <2> QED
    BY <2>4, <2>5
<1>9. ASSUME NEW r \in requests, HandleSocketRequest(r) PROVE LinkInv'
  <2> DEFINE c == r[1]
             what == IF link[c] = "closed" THEN "lost" ELSE "answered"
  <2>1. /\ Counts(c, what, 1) /\ requests' = requests \ {r} /\ UNCHANGED <<over, link, toServer>>
        /\ shutdown' = shutdown \/ (shutdown = "no" /\ shutdown' = "cancel")
    BY <1>9 DEF HandleSocketRequest
  <2>2. c \in Conns /\ what \in {"sent", "answered", "lost"}
    BY <1>t
  <2>3. what = IF link[c] = "closed" THEN "lost" ELSE "answered"
    OBVIOUS
  <2>4. /\ RequestsOf(c)' = RequestsOf(c) \ {r} /\ r \in RequestsOf(c)
        /\ \A d \in Conns : d # c => RequestsOf(d)' = RequestsOf(d)
    BY <2>1 DEF RequestsOf
  <2> HIDE DEF what, c
  <2>5. /\ tally' \in [Conns -> Tallies] /\ \A d \in Conns : d # c => tally'[d] = tally[d]
        /\ tally'[c].sent = tally[c].sent + (IF what = "sent" THEN 1 ELSE 0)
        /\ tally'[c].answered = tally[c].answered + (IF what = "answered" THEN 1 ELSE 0)
        /\ tally'[c].lost = tally[c].lost + (IF what = "lost" THEN 1 ELSE 0)
    BY <1>t, <2>1, <2>2, CountsSay
  <2>6. \A d \in Conns : Unread(d)' = Unread(d) /\ tally'[d].sent = tally[d].sent
    BY <1>c, <2>1, <2>3, <2>5, SMTT(60) DEF Unread
  <2>7. Cardinality(RequestsOf(c)') = Cardinality(RequestsOf(c)) - 1
    BY <2>2, <2>4, FS_RemoveElement, RequestsAreCounted
  <2>8. ASSUME NEW d \in Conns PROVE AllCounted(d)'
    <3>1. CASE d = c
      BY <1>c, <2>3, <2>5, <2>6, <2>7, <3>1 DEF AllCounted
    <3>2. CASE d # c
      BY <1>c, <2>4, <2>5, <2>6, <3>2 DEF AllCounted
    <3> QED
      BY <3>1, <3>2
  <2>9. \A q \in requests' : /\ q = <<q[1], q[2], q[3]>> /\ q[1] \in Conns /\ q[3] \in Nat
                             /\ q[3] < tally'[q[1]].sent - Unread(q[1])'
    BY <2>1, <2>6 DEF LinkInv
  <2>10. \A d \in Conns : link[d] # "closed" => tally'[d].lost = 0
    BY <1>c, <2>2, <2>3, <2>5
  <2>11. IsFiniteSet(requests')
    BY <2>1, FS_RemoveElement DEF LinkInv
  <2> QED
    BY <2>1, <2>5, <2>8, <2>9, <2>10, <2>11 DEF LinkInv
<1>10. CASE UNCHANGED linkVars
  BY <1>1, <1>10, <1>t DEF linkVars, LinkInv
<1> QED
  BY <1>2, <1>3, <1>4, <1>6, <1>7, <1>8, <1>9, <1>10
     DEF SSNext, GetOrCreateSession, RestoreSession, RemoveSession, ClearSessions, socketVars, linkVars

-----------------------------------------------------------------------------
SocketInv == LinkInv /\ SessionsInv

LEMMA SocketInitially == SSInit => SocketInv
<1> SUFFICES ASSUME SSInit PROVE SocketInv
  OBVIOUS
<1>1. Ranked(lastUse, 0)
  BY DEF SSInit, Ranked
<1> QED
  BY <1>1, LinkInitially, SocketAssumption DEF SocketInv, SessionsInv

LEMMA SocketStep == SocketInv /\ [SSNext]_socketVars => SocketInv'
<1> SUFFICES ASSUME SocketInv, [SSNext]_socketVars PROVE SocketInv'
  OBVIOUS
<1>1. LinkInv'
  BY LinkStep DEF SocketInv
<1>2. \/ \E s \in Peered : GetOrCreateSession(s) \/ RestoreSession(s) \/ RemoveSession(s)
      \/ ClearSessions \/ UNCHANGED lastUse
  BY DEF SSNext, Reach, SendLine, AcceptConn, CountConn, CloseConn, TakeLine, HandleSocketRequest,
         StopAccepting, CallShutdown, CancelServer, ShutdownEnds, socketVars
<1> QED
  BY <1>1, <1>2, SessionsStep DEF SocketInv

LEMMA SocketFollows == SocketInv => SocketIsSound
  BY SessionsFollow DEF SocketInv, LinkInv, AllCounted, Unread, RequestsOf, SocketIsSound

\* After Shutdown has returned nothing reads any more.
NoneStarts == shutdown = "done" => requests' \subseteq requests
LEMMA NoneStartsLater == SocketInv /\ [SSNext]_socketVars => [NoneStarts]_socketVars
<1> SUFFICES ASSUME LinkInv, SSNext, shutdown = "done" PROVE requests' \subseteq requests
  BY DEF NoneStarts, SocketInv
<1>1. over
  BY DEF LinkInv
<1> QED
  BY <1>1 DEF SSNext, Reach, SendLine, AcceptConn, CountConn, CloseConn, TakeLine,
              HandleSocketRequest, StopAccepting, CallShutdown, CancelServer, ShutdownEnds,
              GetOrCreateSession, RestoreSession, RemoveSession, ClearSessions, linkVars
-----------------------------------------------------------------------------
(* The injection classifier.                                                *)

LEMMA RangeIsFinite ==
  ASSUME NEW S, NEW s \in Seq(S)
  PROVE  IsFiniteSet(Range(s)) /\ Range(s) \subseteq S
<1>1. Len(s) \in Nat /\ s \in [1 .. Len(s) -> S] /\ DOMAIN s = 1 .. Len(s)
  BY LenProperties
<1>2. IsFiniteSet(1 .. Len(s))
  BY <1>1, PlacesAreFinite
<1>3. s \in Surjection(1 .. Len(s), Range(s))
  BY <1>1 DEF Surjection, Range
<1>4. IsFiniteSet(Range(s))
  BY <1>2, <1>3, FS_Surjection
<1> QED
  BY <1>1, <1>4 DEF Range

LEMMA SumOfMore ==
  ASSUME NEW t, NEW T, IsFiniteSet(T), \A x \in T : t[x] \in Nat, NEW S \in SUBSET T
  PROVE  SumOver(t, S) \in Nat /\ SumOver(t, T) \in Nat /\ SumOver(t, S) <= SumOver(t, T)
<1>0. IsFiniteSet(S) /\ \A x \in S : t[x] \in Nat
  BY FS_Subset
<1>1. SumOver(t, S) \in Nat /\ SumOver(t, T) \in Nat
  BY <1>0, SumIsNatural
<1> DEFINE X == {r \in SUBSET T : S \subseteq r /\ SumOver(t, r) < SumOver(t, S)}
<1>2. SUFFICES ASSUME X # {} PROVE FALSE
  BY <1>1
<1>3. PICK s \in X : \A r \in X : r \subseteq s => r = s
  <2>1. X \in SUBSET SUBSET T
    OBVIOUS
  <2> HIDE DEF X
  <2> QED
    BY <1>2, <2>1, SmallestSubset
<1>4. s # S
  BY <1>1, <1>3
<1>5. PICK e \in s : e \notin S
  BY <1>3, <1>4
<1>6. IsFiniteSet(s) /\ s \ {e} \in SUBSET T /\ s \ {e} \notin X /\ S \subseteq s \ {e}
  BY <1>3, <1>5, FS_Subset
<1>7. SumOver(t, s) = t[e] + SumOver(t, s \ {e}) /\ t[e] \in Nat
  BY <1>3, <1>5, <1>6, SumTakesAny
<1>8. SumOver(t, s \ {e}) \in Nat /\ SumOver(t, s) < SumOver(t, S)
  BY <1>3, <1>6, FS_Subset, SumIsNatural
<1>9. ~ (SumOver(t, s \ {e}) < SumOver(t, S))
  BY <1>6
<1> QED
  BY <1>1, <1>7, <1>8, <1>9

LEMMA HeadLeaves ==
  ASSUME NEW S, NEW s \in Seq(S), IsInjective(s), s # <<>>
  PROVE  /\ Head(s) \in Range(s) /\ Range(Tail(s)) = Range(s) \ {Head(s)}
         /\ Tail(s) \in Seq(S) /\ IsInjective(Tail(s))
<1>1. /\ Tail(s) \in Seq(S) /\ Len(Tail(s)) = Len(s) - 1 /\ Len(s) \in Nat \ {0}
      /\ \A i \in 1 .. Len(Tail(s)) : Tail(s)[i] = s[i + 1]
      /\ DOMAIN s = 1 .. Len(s) /\ DOMAIN Tail(s) = 1 .. Len(Tail(s)) /\ Head(s) = s[1]
  BY HeadTailProperties, LenProperties, EmptySeq
<1>2. IsInjective(Tail(s))
  BY <1>1 DEF IsInjective
<1>3. Range(Tail(s)) \subseteq Range(s) \ {Head(s)}
  BY <1>1 DEF Range, IsInjective
<1>4. ASSUME NEW i \in 1 .. Len(s), s[i] # Head(s) PROVE s[i] \in Range(Tail(s))
  <2>1. i - 1 \in 1 .. Len(Tail(s)) /\ Tail(s)[i - 1] = s[i]
    BY <1>1, <1>4
  <2> QED
    BY <1>1, <2>1 DEF Range
<1>5. Head(s) \in Range(s)
  BY <1>1 DEF Range
<1> QED
  BY <1>1, <1>2, <1>3, <1>4, <1>5, SMTT(60) DEF Range

LEMMA WeightsAreNatural == \A p \in Patterns : WeightOf[p] \in Nat
  BY InjectionAssumption DEF WeightOf

\* What is left of a scan does not count yet: the patterns in force all along are the least of
\* its risk, and those in force at some time the most.
Between(inAlways, inEver, rest, risk) ==
  SumOver(WeightOf, inAlways \ rest) <= risk /\ risk <= SumOver(WeightOf, inEver \ rest)

LEMMA BetweenWider ==
  ASSUME NEW A, NEW E, NEW B, NEW F, NEW L, NEW risk \in Nat, Between(A, E, L, risk),
         B \subseteq A, A \subseteq E, E \subseteq F, F \subseteq Patterns, IsFiniteSet(F)
  PROVE  Between(B, F, L, risk)
<1>1. IsFiniteSet(A) /\ IsFiniteSet(F \ L) /\ IsFiniteSet(A \ L)
  BY FS_Subset
<1>2. /\ SumOver(WeightOf, B \ L) \in Nat /\ SumOver(WeightOf, A \ L) \in Nat
      /\ SumOver(WeightOf, B \ L) <= SumOver(WeightOf, A \ L)
  BY <1>1, SumOfMore, WeightsAreNatural
<1>3. /\ SumOver(WeightOf, E \ L) \in Nat /\ SumOver(WeightOf, F \ L) \in Nat
      /\ SumOver(WeightOf, E \ L) <= SumOver(WeightOf, F \ L)
  BY <1>1, SumOfMore, WeightsAreNatural
<1> QED
  BY <1>2, <1>3 DEF Between

LEMMA BetweenNext ==
  ASSUME NEW A, NEW E, NEW L, NEW risk \in Nat, Between(A, E, L, risk),
         A \subseteq E, E \subseteq Patterns, IsFiniteSet(E),
         NEW p \in L, NEW w \in Nat, w # 0 => p \in E /\ w = WeightOf[p],
         p \in A => w = WeightOf[p]
  PROVE  Between(A, E, L \ {p}, risk + w)
<1>1. /\ IsFiniteSet(A \ (L \ {p})) /\ IsFiniteSet(E \ (L \ {p}))
      /\ \A x \in E \ (L \ {p}) : WeightOf[x] \in Nat
      /\ \A x \in A \ (L \ {p}) : WeightOf[x] \in Nat
  BY FS_Subset, WeightsAreNatural
<1>2. SumOver(WeightOf, A \ (L \ {p})) <= risk + w
  <2>0. SumOver(WeightOf, A \ L) \in Nat /\ SumOver(WeightOf, A \ L) <= risk
    <3>1. IsFiniteSet(A \ L) /\ \A x \in A \ L : WeightOf[x] \in Nat
      BY FS_Subset, WeightsAreNatural
    <3> QED
      BY <3>1, SumIsNatural DEF Between
  <2>1. CASE p \in A
    <3>1. p \in A \ (L \ {p}) /\ (A \ (L \ {p})) \ {p} = A \ L
      BY <2>1
    <3>2. SumOver(WeightOf, A \ (L \ {p})) = w + SumOver(WeightOf, A \ L)
      BY <1>1, <2>1, <3>1, SumTakesAny
    <3> QED
      BY <2>0, <3>2
  <2>2. CASE p \notin A
    <3>1. A \ (L \ {p}) = A \ L
      BY <2>2
    <3>2. SumOver(WeightOf, A \ (L \ {p})) = SumOver(WeightOf, A \ L)
      BY <3>1, Zenon
    <3> QED
      BY <2>0, <3>2
  <2> QED
    BY <2>1, <2>2
<1>3. risk + w <= SumOver(WeightOf, E \ (L \ {p}))
  <2>0. SumOver(WeightOf, E \ L) \in Nat /\ risk <= SumOver(WeightOf, E \ L)
    <3>1. IsFiniteSet(E \ L) /\ \A x \in E \ L : WeightOf[x] \in Nat
      BY FS_Subset, WeightsAreNatural
    <3> QED
      BY <3>1, SumIsNatural DEF Between
  <2>1. CASE p \in E
    <3>1. p \in E \ (L \ {p}) /\ (E \ (L \ {p})) \ {p} = E \ L
      BY <2>1
    <3>2. SumOver(WeightOf, E \ (L \ {p})) = WeightOf[p] + SumOver(WeightOf, E \ L)
      BY <1>1, <3>1, SumTakesAny
    <3>3. WeightOf[p] \in Nat /\ (w = 0 \/ w = WeightOf[p])
      BY <2>1, WeightsAreNatural
    <3> QED
      BY <2>0, <3>2, <3>3
  <2>2. CASE p \notin E
    <3>1. E \ (L \ {p}) = E \ L /\ w = 0
      BY <2>2
    <3> QED
      BY <2>0, <3>1
  <2> QED
    BY <2>1, <2>2
<1> QED
  BY <1>2, <1>3 DEF Between

Scans == [at : {"new", "classify", "quarantine", "write", "done"}, payload : Payloads \cup {"none"},
          left : Seq(Patterns), risk : Nat, answer : {"none", "refused", "redacted", "forwarded", "quarantined"}]
Files == [of : Scanners, payload : Payloads \cup {"none"}, old : BOOLEAN]
Hit(set, payload) == {p \in set : payload \in Hits[p]}
LeftOf(x) == Range(scan[x].left)

\* A scan that is under way: what is left of it is what its request had in its copy, and the
\* patterns that are left and enabled have been in force.
ScanSound(x) ==
  /\ scan[x].at # "done" => scan[x].answer = "none"
  /\ scan[x].at = "new" => scan[x].risk = 0
  /\ scan[x].at = "write" \/ scan[x].answer = "quarantined" => swept
  /\ scan[x].at = "classify" =>
       /\ IsInjective(scan[x].left)
       /\ \A p \in LeftOf(x) : (p \in enabled => p \in ever[x]) /\ (p \in always[x] => p \in enabled)
       /\ Between(Hit(always[x], scan[x].payload), Hit(ever[x], scan[x].payload), LeftOf(x), scan[x].risk)

InjectionInv ==
  /\ patterns \in Seq(Patterns) /\ IsInjective(patterns)
  /\ scan \in [Scanners -> Scans] /\ quarantined \subseteq Files
  /\ ever \in [Scanners -> SUBSET Patterns] /\ always \in [Scanners -> SUBSET Patterns]
  /\ \A x \in Scanners : always[x] \subseteq ever[x] /\ IsFiniteSet(ever[x])
  /\ \A x \in Scanners : ScanSound(x)
  /\ config = <<>> => \A x \in Scanners : scan[x].at = "new"
  /\ InjectionIsSound

LEMMA InjectionInitially == INInit => InjectionInv
<1> SUFFICES ASSUME INInit PROVE InjectionInv
  OBVIOUS
<1>1. patterns \in Seq(Patterns) /\ IsInjective(patterns)
  BY InjectionAssumption DEF INInit
<1>2. \A x \in Scanners : scan[x] = NewRequest
  BY DEF INInit
<1>3. <<>> \in Seq(Patterns)
  BY EmptySeq
<1>4. scan \in [Scanners -> Scans]
  BY <1>3 DEF INInit, Scans, NewRequest
<1>5. \A x \in Scanners : ScanSound(x)
  BY <1>2 DEF ScanSound, NewRequest
<1>6. InjectionIsSound
  BY <1>2 DEF InjectionIsSound, RiskIsOfItsTime, NothingRiskyPasses, QuarantineIsKept, NewRequest
<1>7. /\ ever \in [Scanners -> SUBSET Patterns] /\ always \in [Scanners -> SUBSET Patterns]
      /\ quarantined \subseteq Files
      /\ \A x \in Scanners : always[x] \subseteq ever[x] /\ IsFiniteSet(ever[x])
  BY FS_EmptySet DEF INInit
<1>8. \A x \in Scanners : scan[x].at = "new"
  BY <1>2 DEF NewRequest
<1> QED
  BY <1>1, <1>4, <1>5, <1>6, <1>7, <1>8 DEF InjectionInv

\* The risk of a set of patterns is their sum, but no more than the most there is.
LEMMA RiskIsSum ==
  ASSUME NEW set \in SUBSET Patterns, IsFiniteSet(set), NEW payload
  PROVE  /\ SumOver(WeightOf, Hit(set, payload)) \in Nat
         /\ RiskOf(set, payload) = IF MaxRiskScore <= SumOver(WeightOf, Hit(set, payload)) THEN MaxRiskScore
                                   ELSE SumOver(WeightOf, Hit(set, payload))
<1>1. IsFiniteSet(Hit(set, payload)) /\ Hit(set, payload) \subseteq Patterns
  BY FS_Subset DEF Hit
<1>2. SumOver(WeightOf, Hit(set, payload)) \in Nat
  BY <1>1, WeightsAreNatural, SumIsNatural
<1>3. RiskOf(set, payload) = Min({MaxRiskScore, SumOver(WeightOf, Hit(set, payload))})
  BY Zenon DEF RiskOf, SumOver, Hit
<1> DEFINE v == SumOver(WeightOf, Hit(set, payload))
<1>4. v \in Int /\ MaxRiskScore \in Int
  BY <1>2, InjectionAssumption
<1> HIDE DEF v
<1>5. Min({MaxRiskScore, v}) = IF MaxRiskScore <= v THEN MaxRiskScore ELSE v
  BY <1>4, LeastOfTwo
<1> QED
  BY <1>2, <1>3, <1>5 DEF v

\* The list of patterns or what is enabled of it changes.
LEMMA PatternsChange ==
  ASSUME InjectionInv, UNCHANGED <<config, scan, swept, quarantined>>,
         patterns' \in Seq(Patterns), IsInjective(patterns'), Note(patterns', enabled'),
         \A x \in Scanners : \A p \in LeftOf(x) : p \in enabled' => p \in enabled \/ p \in Range(patterns')
  PROVE  InjectionInv'
<1>t. /\ scan \in [Scanners -> Scans]
      /\ ever \in [Scanners -> SUBSET Patterns] /\ always \in [Scanners -> SUBSET Patterns]
      /\ \A x \in Scanners : ScanSound(x) /\ always[x] \subseteq ever[x] /\ IsFiniteSet(ever[x])
  BY DEF InjectionInv
<1>1. IsFiniteSet(Range(patterns')) /\ Range(patterns') \subseteq Patterns
  BY RangeIsFinite
<1>2. \A x \in Scanners :
        /\ ever'[x] = IF scan[x].at = "classify" THEN ever[x] \cup (Range(patterns') \cap enabled') ELSE ever[x]
        /\ always'[x] = IF scan[x].at = "classify" THEN always[x] \cap Range(patterns') \cap enabled'
                        ELSE always[x]
  BY DEF Note
<1>3. ever' \in [Scanners -> SUBSET Patterns] /\ always' \in [Scanners -> SUBSET Patterns]
  BY <1>t, <1>1 DEF Note
<1>4. ASSUME NEW x \in Scanners
      PROVE  /\ always'[x] \subseteq always[x] /\ ever[x] \subseteq ever'[x] /\ IsFiniteSet(ever'[x])
             /\ always'[x] \subseteq ever'[x]
  <2>1. IsFiniteSet(ever[x] \cup (Range(patterns') \cap enabled'))
    BY <1>t, <1>1, FS_Union, FS_Subset
  <2>2. IsFiniteSet(ever'[x])
    BY <1>t, <1>2, <2>1
  <2> QED
    BY <1>t, <1>2, <2>2
<1>5. ASSUME NEW x \in Scanners PROVE ScanSound(x)'
  <2>1. CASE scan[x].at # "classify"
    BY <1>t, <2>1 DEF ScanSound
  <2>2. CASE scan[x].at = "classify"
    <3> DEFINE d == scan[x].payload
               A == Hit(always[x], d)
               E == Hit(ever[x], d)
               B == Hit(always'[x], d)
               F == Hit(ever'[x], d)
    <3>1. /\ B \subseteq A /\ A \subseteq E /\ E \subseteq F /\ F \subseteq Patterns
      BY <1>t, <1>3, <1>4 DEF Hit
    <3>2. IsFiniteSet(F) /\ scan[x].risk \in Nat
      BY <1>t, <1>4, FS_Subset DEF Hit, Scans
    <3>3. Between(A, E, LeftOf(x), scan[x].risk)
      BY <1>t, <2>2 DEF ScanSound
    <3> HIDE DEF A, E, B, F
    <3>4. Between(B, F, LeftOf(x), scan[x].risk)
      BY <3>1, <3>2, <3>3, BetweenWider
    <3>5. \A p \in LeftOf(x) : (p \in enabled' => p \in ever'[x]) /\ (p \in always'[x] => p \in enabled')
      BY <1>t, <1>2, <2>2 DEF ScanSound
    <3>6. LeftOf(x)' = LeftOf(x)
      BY DEF LeftOf
    <3>7. IsInjective(scan'[x].left)
      BY <1>t, <2>2 DEF ScanSound
    <3>8. Between(Hit(always[x], scan[x].payload), Hit(ever[x], scan[x].payload), LeftOf(x), scan[x].risk)'
      BY <3>4, <3>6 DEF B, F, Between, Hit
    <3> QED
      BY <1>t, <2>2, <3>5, <3>6, <3>7, <3>8 DEF ScanSound
  <2> QED
    BY <2>1, <2>2
<1>6. \A x \in Scanners : scan[x].at # "classify" => ever'[x] = ever[x] /\ always'[x] = always[x]
  BY <1>2
<1>7. InjectionIsSound'
  <2>1. RiskIsOfItsTime'
    <3>1. RiskIsOfItsTime
      BY DEF InjectionInv, InjectionIsSound
    <3> QED
      BY <1>6, <3>1 DEF RiskIsOfItsTime
  <2>2. NothingRiskyPasses'
    <3>1. NothingRiskyPasses
      BY DEF InjectionInv, InjectionIsSound
    <3>2. \A x \in Scanners : scan[x].answer = "forwarded" => scan[x].at # "classify"
      BY <1>t DEF ScanSound
    <3> QED
      BY <1>6, <3>1, <3>2 DEF NothingRiskyPasses
  <2>3. QuarantineIsKept'
    BY DEF InjectionInv, InjectionIsSound, QuarantineIsKept
  <2> QED
    BY <2>1, <2>2, <2>3 DEF InjectionIsSound
<1> QED
  BY <1>3, <1>4, <1>5, <1>7 DEF InjectionInv

\* What InjectionIsSound says of one request.
SoundOf(x) ==
  /\ scan[x].at \notin {"new", "classify"} =>
       /\ RiskOf(always[x], scan[x].payload) <= scan[x].risk
       /\ scan[x].risk <= RiskOf(ever[x], scan[x].payload)
  /\ scan[x].answer = "forwarded" =>
       \E risk \in RiskOf(always[x], scan[x].payload) .. RiskOf(ever[x], scan[x].payload) :
         risk = 0 \/ RuleFor(config, risk) \notin {"block", "redact", "quarantine"}
  /\ scan[x].answer = "quarantined" =>
       \E f \in quarantined : f.of = x /\ f.payload = scan[x].payload

LEMMA SoundOfAll == InjectionIsSound <=> \A x \in Scanners : SoundOf(x)
  BY DEF InjectionIsSound, RiskIsOfItsTime, NothingRiskyPasses, QuarantineIsKept, SoundOf

\* One request goes on.
LEMMA ScanChanges ==
  ASSUME InjectionInv, NEW x \in Scanners, NEW r \in Scans, scan' = [scan EXCEPT ![x] = r],
         UNCHANGED <<config, patterns, enabled>>, config # <<>>, swept => swept',
         ever' \in [Scanners -> SUBSET Patterns], always' \in [Scanners -> SUBSET Patterns],
         \A y \in Scanners : y # x => ever'[y] = ever[y] /\ always'[y] = always[y],
         always'[x] \subseteq ever'[x], IsFiniteSet(ever'[x]),
         ScanSound(x)', SoundOf(x)', quarantined' \subseteq Files,
         \A y \in Scanners : \A f \in quarantined : scan[y].answer = "quarantined" /\ f.of = y =>
           \E g \in quarantined' : g.of = f.of /\ g.payload = f.payload
  PROVE  InjectionInv'
<1>t. /\ scan \in [Scanners -> Scans]
      /\ \A y \in Scanners : /\ ScanSound(y) /\ SoundOf(y)
                             /\ always[y] \subseteq ever[y] /\ IsFiniteSet(ever[y])
  BY SoundOfAll DEF InjectionInv
<1>1. scan' \in [Scanners -> Scans] /\ \A y \in Scanners : y # x => scan'[y] = scan[y]
  BY <1>t
<1>2. ASSUME NEW y \in Scanners, y # x PROVE ScanSound(y)' /\ SoundOf(y)'
  <2>1. scan'[y] = scan[y] /\ ever'[y] = ever[y] /\ always'[y] = always[y]
    BY <1>1, <1>2
  <2>2. LeftOf(y)' = LeftOf(y)
    BY <2>1 DEF LeftOf
  <2>3. ScanSound(y)'
    BY <1>t, <2>1, <2>2 DEF ScanSound
  <2>4. SoundOf(y)
    BY <1>t
  <2>5. scan[y].answer = "quarantined" => \E f \in quarantined' : f.of = y /\ f.payload = scan[y].payload
    BY <2>4 DEF SoundOf
  <2> QED
    BY <2>1, <2>3, <2>4, <2>5 DEF SoundOf
<1>3. \A y \in Scanners : ScanSound(y)'
  BY <1>2
<1>4. \A y \in Scanners : SoundOf(y)'
  BY <1>2
<1>5. InjectionIsSound'
  BY <1>4 DEF InjectionIsSound, RiskIsOfItsTime, NothingRiskyPasses, QuarantineIsKept, SoundOf
<1>6. \A y \in Scanners : always'[y] \subseteq ever'[y] /\ IsFiniteSet(ever'[y])
  BY <1>t
<1> QED
  BY <1>1, <1>3, <1>5, <1>6 DEF InjectionInv

\* The step of one request that only gets on with its quarantine, or is answered.
LEMMA ScanGoesOn ==
  ASSUME InjectionInv, NEW x \in Scanners, NEW r \in Scans,
         scan[x].at \in {"quarantine", "write"}, scan' = [scan EXCEPT ![x] = r],
         r.payload = scan[x].payload, r.risk = scan[x].risk, r.left = scan[x].left,
         UNCHANGED <<config, patterns, enabled, ever, always>>, swept => swept',
         \/ r.at = "done" /\ r.answer = "refused" /\ UNCHANGED quarantined
         \/ r.at = "write" /\ r.answer = "none" /\ swept' /\ quarantined' \subseteq quarantined
            /\ (swept => UNCHANGED quarantined)
         \/ /\ r.at = "done" /\ r.answer = "quarantined" /\ swept'
            /\ quarantined' = quarantined \cup {[of |-> x, payload |-> scan[x].payload, old |-> FALSE]}
  PROVE  InjectionInv'
<1>t. /\ scan \in [Scanners -> Scans] /\ quarantined \subseteq Files
      /\ ever \in [Scanners -> SUBSET Patterns] /\ always \in [Scanners -> SUBSET Patterns]
      /\ \A y \in Scanners : /\ ScanSound(y) /\ SoundOf(y)
                             /\ always[y] \subseteq ever[y] /\ IsFiniteSet(ever[y])
  BY SoundOfAll DEF InjectionInv
<1>2. scan'[x] = r
  BY <1>t
<1>3. config # <<>>
  BY DEF InjectionInv
<1>s. /\ RiskOf(always[x], r.payload) <= r.risk /\ r.risk <= RiskOf(ever[x], r.payload)
  BY <1>t DEF SoundOf
<1>4. SoundOf(x)'
  <2>1. r.answer # "forwarded"
    OBVIOUS
  <2>2. ASSUME r.answer = "quarantined" PROVE \E f \in quarantined' : f.of = x /\ f.payload = r.payload
    <3> DEFINE f == [of |-> x, payload |-> scan[x].payload, old |-> FALSE]
    <3>1. f \in quarantined' /\ f.of = x /\ f.payload = r.payload
      BY <2>2
    <3> QED
      BY <3>1
  <2> QED
    BY <1>2, <1>s, <2>1, <2>2 DEF SoundOf
<1>5. ScanSound(x)'
  BY <1>2 DEF ScanSound
<1>6. quarantined' \subseteq Files
  <2>1. scan[x].payload \in Payloads \cup {"none"}
    BY <1>t DEF Scans
  <2>2. [of |-> x, payload |-> scan[x].payload, old |-> FALSE] \in Files
    BY <2>1 DEF Files
  <2> QED
    BY <1>t, <2>2
<1>7. ASSUME NEW y \in Scanners, NEW f \in quarantined, scan[y].answer = "quarantined"
      PROVE  f \in quarantined'
  <2>1. swept
    BY <1>t, <1>7 DEF ScanSound
  <2> QED
    BY <2>1
<1>8. always'[x] \subseteq ever'[x] /\ IsFiniteSet(ever'[x])
  BY <1>t
<1>9. /\ ever' \in [Scanners -> SUBSET Patterns] /\ always' \in [Scanners -> SUBSET Patterns]
      /\ \A y \in Scanners : y # x => ever'[y] = ever[y] /\ always'[y] = always[y]
  BY <1>t
<1>10. \A y \in Scanners : \A f \in quarantined : scan[y].answer = "quarantined" /\ f.of = y =>
         \E g \in quarantined' : g.of = f.of /\ g.payload = f.payload
  BY <1>7
<1> QED
  BY <1>2, <1>3, <1>4, <1>5, <1>6, <1>8, <1>9, <1>10, ScanChanges

LEMMA RemoveAtKeeps ==
  ASSUME NEW S, NEW s \in Seq(S), IsInjective(s), NEW i \in 1 .. Len(s)
  PROVE  RemoveAt(s, i) \in Seq(S) /\ IsInjective(RemoveAt(s, i))
<1> DEFINE n == Len(s)
           f == SubSeq(s, 1, i - 1)
           g == SubSeq(s, i + 1, n)
           r == f \o g
<1>0. n \in Nat /\ DOMAIN s = 1 .. n /\ i \in 1 .. n /\ \A j \in 1 .. n : s[j] \in S
  BY LenProperties
<1> HIDE DEF n
<1>1. f \in Seq(S) /\ Len(f) = i - 1 /\ \A j \in 1 .. i - 1 : f[j] = s[j]
  <2>1. \A j \in 1 .. i - 1 : s[j] \in S
    BY <1>0
  <2> QED
    BY <1>0, <2>1, SubSeqProperties
<1>2. g \in Seq(S) /\ Len(g) = n - i /\ \A j \in 1 .. n - i : g[j] = s[i + j]
  <2>1. \A j \in i + 1 .. n : s[j] \in S
    BY <1>0
  <2>2. i + 1 \in Int /\ n \in Int
    BY <1>0
  <2>3. /\ g \in Seq(S) /\ Len(g) = IF i + 1 <= n THEN n - (i + 1) + 1 ELSE 0
        /\ \A j \in 1 .. n - (i + 1) + 1 : g[j] = s[(i + 1) + j - 1]
    BY <2>1, <2>2, SubSeqProperties
  <2> HIDE DEF g
  <2>4. n - (i + 1) + 1 = n - i /\ \A j \in 1 .. n - i : (i + 1) + j - 1 = i + j
    BY <1>0
  <2> QED
    BY <1>0, <2>3, <2>4
<1> HIDE DEF f, g
<1>3. /\ r \in Seq(S) /\ Len(r) = Len(f) + Len(g)
      /\ \A j \in 1 .. Len(f) + Len(g) : r[j] = IF j <= Len(f) THEN f[j] ELSE g[j - Len(f)]
  BY <1>1, <1>2, ConcatProperties
<1> HIDE DEF r
<1>4. Len(f) + Len(g) = n - 1
  BY <1>0, <1>1, <1>2
<1>5. DOMAIN r = 1 .. n - 1
  BY <1>3, <1>4, LenProperties
<1>6. ASSUME NEW j \in 1 .. n - 1 PROVE r[j] = s[IF j < i THEN j ELSE j + 1]
  <2>1. CASE j < i
    <3>1. j \in 1 .. i - 1 /\ j <= Len(f) /\ j \in 1 .. Len(f) + Len(g)
      BY <1>0, <1>1, <1>4, <2>1
    <3> QED
      BY <1>1, <1>3, <2>1, <3>1
  <2>2. CASE ~ (j < i)
    <3>1. j - Len(f) \in 1 .. n - i /\ i + (j - Len(f)) = j + 1 /\ ~ (j <= Len(f))
      BY <1>0, <1>1, <2>2
    <3>2. r[j] = g[j - Len(f)]
      BY <1>3, <1>4, <3>1
    <3>3. g[j - Len(f)] = s[i + (j - Len(f))]
      BY <1>2, <3>1
    <3> QED
      BY <2>2, <3>1, <3>2, <3>3
  <2> QED
    BY <2>1, <2>2
<1>7. IsInjective(r)
  <2> SUFFICES ASSUME NEW j \in 1 .. n - 1, NEW k \in 1 .. n - 1, r[j] = r[k] PROVE j = k
    BY <1>5 DEF IsInjective
  <2>1. (IF j < i THEN j ELSE j + 1) \in 1 .. n /\ (IF k < i THEN k ELSE k + 1) \in 1 .. n
    BY <1>0
  <2>2. (IF j < i THEN j ELSE j + 1) = (IF k < i THEN k ELSE k + 1)
    BY <1>0, <1>6, <2>1 DEF IsInjective
  <2> QED
    BY <1>0, <2>2
<1>8. RemoveAt(s, i) = r
  BY DEF RemoveAt, r, f, g, n
<1> QED
  BY <1>3, <1>7, <1>8

LEMMA ListChanges ==
  ASSUME InjectionInv, NEW p \in Patterns, NEW on \in BOOLEAN,
         AddPattern(p, on) \/ SetPattern(p, on) \/ RemovePattern(p)
  PROVE  InjectionInv'
<1>t. /\ patterns \in Seq(Patterns) /\ IsInjective(patterns) /\ Len(patterns) \in Nat
      /\ DOMAIN patterns = 1 .. Len(patterns)
  BY LenProperties DEF InjectionInv
<1>1. CASE AddPattern(p, on)
  <2>1. p \notin Range(patterns) /\ \A x \in Scanners : p \notin LeftOf(x)
    BY <1>1 DEF AddPattern, LeftOf
  <2>2. UNCHANGED <<config, scan, swept, quarantined>> /\ Note(patterns', enabled')
        /\ \A q : q # p => (q \in enabled' => q \in enabled)
    BY <1>1 DEF AddPattern
  <2>3. patterns' \in Seq(Patterns) /\ IsInjective(patterns')
    <3>1. CASE \E i \in DOMAIN patterns : patterns' = [patterns EXCEPT ![i] = p]
      <4>1. PICK i \in 1 .. Len(patterns) : patterns' = [patterns EXCEPT ![i] = p]
        BY <1>t, <3>1
      <4>2. /\ patterns' \in Seq(Patterns) /\ DOMAIN patterns' = 1 .. Len(patterns)
            /\ \A j \in 1 .. Len(patterns) : patterns'[j] = IF j = i THEN p ELSE patterns[j]
        BY <1>t, <4>1, ExceptSeq
      <4>3. \A j \in 1 .. Len(patterns) : patterns[j] # p
        BY <1>t, <2>1 DEF Range
      <4> QED
        BY <1>t, <4>2, <4>3 DEF IsInjective
    <3>2. CASE patterns' = Append(patterns, p)
      <4>1. /\ patterns' \in Seq(Patterns) /\ DOMAIN patterns' = 1 .. Len(patterns) + 1
            /\ \A j \in 1 .. Len(patterns) + 1 :
                 patterns'[j] = IF j = Len(patterns) + 1 THEN p ELSE patterns[j]
        BY <1>t, <3>2
      <4>2. \A j \in 1 .. Len(patterns) : patterns[j] # p
        BY <1>t, <2>1 DEF Range
      <4> QED
        BY <1>t, <4>1, <4>2 DEF IsInjective
    <3> QED
      BY <1>1, <3>1, <3>2 DEF AddPattern
  <2>4. \A x \in Scanners : \A q \in LeftOf(x) : q \in enabled' => q \in enabled
    BY <2>1, <2>2
  <2> QED
    BY <2>2, <2>3, <2>4, PatternsChange
<1>2. CASE SetPattern(p, on)
  <2>1. p \in Range(patterns')
    BY <1>2 DEF SetPattern, Range
  <2>2. UNCHANGED <<config, scan, swept, quarantined, patterns>> /\ Note(patterns', enabled')
        /\ \A q : q # p => (q \in enabled' => q \in enabled)
    BY <1>2 DEF SetPattern
  <2>3. \A x \in Scanners : \A q \in LeftOf(x) : q \in enabled' => q \in enabled \/ q \in Range(patterns')
    BY <2>1, <2>2
  <2> QED
    BY <1>t, <2>2, <2>3, PatternsChange
<1>3. CASE RemovePattern(p)
  <2>1. UNCHANGED <<config, scan, swept, quarantined, enabled>> /\ Note(patterns', enabled')
    BY <1>3 DEF RemovePattern
  <2>2. PICK i \in 1 .. Len(patterns) : patterns' = RemoveAt(patterns, i)
    BY <1>t, <1>3 DEF RemovePattern
  <2>3. patterns' \in Seq(Patterns) /\ IsInjective(patterns')
    BY <1>t, <2>2, RemoveAtKeeps
  <2>4. \A x \in Scanners : \A q \in LeftOf(x) : q \in enabled' => q \in enabled
    BY <2>1
  <2> QED
    BY <2>1, <2>3, <2>4, PatternsChange
<1> QED
  BY <1>1, <1>2, <1>3

LEMMA BeginKeeps ==
  ASSUME InjectionInv, NEW x \in Scanners, NEW d \in Payloads, BeginClassify(x, d)
  PROVE  InjectionInv'
<1>t. /\ scan \in [Scanners -> Scans] /\ patterns \in Seq(Patterns) /\ IsInjective(patterns)
      /\ ever \in [Scanners -> SUBSET Patterns] /\ always \in [Scanners -> SUBSET Patterns]
      /\ ScanSound(x) /\ quarantined \subseteq Files
  BY DEF InjectionInv
<1> DEFINE q == scan[x]
           r == [q EXCEPT !.at = "classify", !.payload = d, !.left = patterns]
           on == Range(patterns) \cap enabled
<1>1. r \in Scans /\ r.at = "classify" /\ r.payload = d /\ r.left = patterns /\ r.answer = q.answer
      /\ r.risk = q.risk
  <2>1. q \in Scans
    BY <1>t
  <2> HIDE DEF q
  <2> QED
    BY <1>t, <2>1 DEF Scans
<1>2. /\ scan' = [scan EXCEPT ![x] = r] /\ q.at = "new" /\ config # <<>>
      /\ ever' = [ever EXCEPT ![x] = on] /\ always' = [always EXCEPT ![x] = on]
      /\ UNCHANGED <<config, patterns, enabled, swept, quarantined>>
  BY <1>t DEF BeginClassify
<1> HIDE DEF r
<1>3. scan'[x] = r /\ ever'[x] = on /\ always'[x] = on
  BY <1>t, <1>2
<1>4. q.answer = "none" /\ q.risk = 0
  BY <1>t, <1>2 DEF ScanSound
<1>5. IsFiniteSet(on) /\ on \subseteq Patterns
  BY <1>t, RangeIsFinite, FS_Subset
<1>6. Between(Hit(on, d), Hit(on, d), Range(patterns), 0)
  <2>1. Hit(on, d) \ Range(patterns) = {}
    BY DEF Hit
  <2>2. SumOver(WeightOf, Hit(on, d) \ Range(patterns)) = 0
    BY <2>1, SumOfNothing, Zenon
  <2> QED
    BY <2>2 DEF Between
<1> HIDE DEF on
<1>7. ScanSound(x)'
  <2>1. LeftOf(x)' = Range(patterns)
    BY <1>1, <1>3 DEF LeftOf
  <2>2. \A p \in LeftOf(x)' : (p \in enabled' => p \in ever'[x]) /\ (p \in always'[x] => p \in enabled')
    BY <1>2, <1>3, <2>1 DEF on
  <2>3. Between(Hit(always'[x], scan'[x].payload), Hit(ever'[x], scan'[x].payload), LeftOf(x)', scan'[x].risk)
    BY <1>1, <1>3, <1>4, <1>6, <2>1
  <2> QED
    BY <1>1, <1>3, <1>4, <1>t, <2>2, <2>3 DEF ScanSound
<1>8. SoundOf(x)'
  BY <1>1, <1>3, <1>4 DEF SoundOf
<1>9. /\ ever' \in [Scanners -> SUBSET Patterns] /\ always' \in [Scanners -> SUBSET Patterns]
      /\ \A y \in Scanners : y # x => ever'[y] = ever[y] /\ always'[y] = always[y]
      /\ always'[x] \subseteq ever'[x] /\ IsFiniteSet(ever'[x])
  BY <1>t, <1>2, <1>3, <1>5
<1>10. quarantined' \subseteq Files
  BY <1>t, <1>2
<1>11. \A y \in Scanners : \A f \in quarantined : scan[y].answer = "quarantined" /\ f.of = y =>
         \E g \in quarantined' : g.of = f.of /\ g.payload = f.payload
  BY <1>2
<1> QED
  BY <1>1, <1>2, <1>7, <1>8, <1>9, <1>10, <1>11, ScanChanges

LEMMA TryKeeps == ASSUME InjectionInv, NEW x \in Scanners, TryPattern(x) PROVE InjectionInv'
<1> DEFINE q == scan[x]
           p == Head(q.left)
           w == IF p \in enabled /\ q.payload \in Hits[p] THEN WeightOf[p] ELSE 0
           r == [q EXCEPT !.left = Tail(q.left), !.risk = q.risk + w]
           A == Hit(always[x], q.payload)
           E == Hit(ever[x], q.payload)
<1>t. /\ scan \in [Scanners -> Scans] /\ q \in Scans
      /\ ever \in [Scanners -> SUBSET Patterns] /\ always \in [Scanners -> SUBSET Patterns]
      /\ always[x] \subseteq ever[x] /\ IsFiniteSet(ever[x])
      /\ ScanSound(x) /\ quarantined \subseteq Files
  BY DEF InjectionInv
<1>1. /\ scan' = [scan EXCEPT ![x] = r] /\ q.at = "classify" /\ q.left # <<>>
      /\ UNCHANGED <<config, patterns, enabled, swept, quarantined, ever, always>>
  BY DEF TryPattern
<1>2. /\ IsInjective(q.left) /\ q.answer = "none" /\ q.left \in Seq(Patterns) /\ q.risk \in Nat
      /\ \A k \in Range(q.left) : (k \in enabled => k \in ever[x]) /\ (k \in always[x] => k \in enabled)
      /\ Between(A, E, Range(q.left), q.risk)
  BY <1>t, <1>1 DEF ScanSound, LeftOf, Scans
<1>3. /\ p \in Range(q.left) /\ Range(Tail(q.left)) = Range(q.left) \ {p}
      /\ Tail(q.left) \in Seq(Patterns) /\ IsInjective(Tail(q.left))
  BY <1>1, <1>2, HeadLeaves
<1>4. p \in Patterns /\ WeightOf[p] \in Nat
  BY <1>2, <1>3, RangeIsFinite, WeightsAreNatural
<1>5. w \in Nat /\ (w # 0 => p \in E /\ w = WeightOf[p]) /\ (p \in A => w = WeightOf[p])
  BY <1>2, <1>3, <1>4 DEF Hit
<1>6. A \subseteq E /\ E \subseteq Patterns /\ IsFiniteSet(E)
  BY <1>t, FS_Subset DEF Hit
<1> HIDE DEF w, A, E, p, q
<1>7. Between(A, E, Range(Tail(q.left)), q.risk + w)
  BY <1>2, <1>3, <1>5, <1>6, BetweenNext
<1>8. /\ r \in Scans /\ r.at = q.at /\ r.payload = q.payload /\ r.left = Tail(q.left)
      /\ r.answer = q.answer /\ r.risk = q.risk + w
  <2>1. q.risk + w \in Nat
    BY <1>2, <1>5
  <2> QED
    BY <1>t, <1>3, <2>1 DEF Scans
<1> HIDE DEF r
<1>9. scan'[x] = r
  BY <1>t, <1>1
<1>10. ScanSound(x)'
  <2>1. LeftOf(x)' = Range(Tail(q.left))
    BY <1>8, <1>9 DEF LeftOf
  <2>2. Between(Hit(always'[x], scan'[x].payload), Hit(ever'[x], scan'[x].payload), LeftOf(x)', scan'[x].risk)
    BY <1>1, <1>7, <1>8, <1>9, <2>1 DEF A, E, q
  <2>3. \A k \in LeftOf(x)' : (k \in enabled' => k \in ever'[x]) /\ (k \in always'[x] => k \in enabled')
    BY <1>1, <1>2, <1>3, <2>1
  <2> QED
    BY <1>1, <1>2, <1>3, <1>8, <1>9, <2>2, <2>3 DEF ScanSound
<1>11. SoundOf(x)'
  BY <1>1, <1>2, <1>8, <1>9 DEF SoundOf
<1>12. config # <<>>
  BY <1>1 DEF InjectionInv, q
<1>13. /\ ever' \in [Scanners -> SUBSET Patterns] /\ always' \in [Scanners -> SUBSET Patterns]
       /\ \A y \in Scanners : y # x => ever'[y] = ever[y] /\ always'[y] = always[y]
       /\ always'[x] \subseteq ever'[x] /\ IsFiniteSet(ever'[x]) /\ quarantined' \subseteq Files
  BY <1>t, <1>1
<1>14. \A y \in Scanners : \A f \in quarantined : scan[y].answer = "quarantined" /\ f.of = y =>
         \E g \in quarantined' : g.of = f.of /\ g.payload = f.payload
  BY <1>1
<1> QED
  BY <1>1, <1>8, <1>10, <1>11, <1>12, <1>13, <1>14, ScanChanges

LEMMA DispatchKeeps == ASSUME InjectionInv, NEW x \in Scanners, Dispatch(x) PROVE InjectionInv'
<1> DEFINE q == scan[x]
           risk == IF q.risk > MaxRiskScore THEN MaxRiskScore ELSE q.risk
           action == IF risk = 0 THEN "log" ELSE RuleFor(config, risk)
           at == IF action = "quarantine" THEN "quarantine" ELSE "done"
           told == CASE action = "block" -> "refused"
                     [] action = "redact" -> "redacted"
                     [] action = "quarantine" -> "none"
                     [] OTHER -> "forwarded"
           r == [q EXCEPT !.risk = risk, !.at = at, !.answer = told]
<1>t. /\ scan \in [Scanners -> Scans] /\ q \in Scans
      /\ ever \in [Scanners -> SUBSET Patterns] /\ always \in [Scanners -> SUBSET Patterns]
      /\ always[x] \subseteq ever[x] /\ IsFiniteSet(ever[x])
      /\ ScanSound(x) /\ quarantined \subseteq Files
  BY DEF InjectionInv
<1>1. /\ scan' = [scan EXCEPT ![x] = r] /\ q.at = "classify" /\ q.left = <<>>
      /\ UNCHANGED <<config, patterns, enabled, swept, quarantined, ever, always>>
  BY DEF Dispatch
<1>2. /\ q.risk \in Nat /\ Between(Hit(always[x], q.payload), Hit(ever[x], q.payload), Range(q.left), q.risk)
  BY <1>t, <1>1 DEF ScanSound, LeftOf, Scans
<1>3. told \in {"refused", "redacted", "none", "forwarded"} /\ (at # "done" => told = "none")
      /\ (told = "forwarded" => risk = 0 \/ RuleFor(config, risk) \notin {"block", "redact", "quarantine"})
  <2>1. told = "forwarded" => action \notin {"block", "redact", "quarantine"}
    OBVIOUS
  <2> QED
    BY <2>1
<1>4. at \in {"quarantine", "done"} /\ risk \in Nat
  BY <1>2, InjectionAssumption
<1>5. risk = IF q.risk > MaxRiskScore THEN MaxRiskScore ELSE q.risk
  OBVIOUS
<1> HIDE DEF told, at, action, risk
<1>6. RiskOf(always[x], q.payload) <= risk /\ risk <= RiskOf(ever[x], q.payload)
      /\ RiskOf(always[x], q.payload) \in Nat /\ RiskOf(ever[x], q.payload) \in Nat
  <2> DEFINE a == SumOver(WeightOf, Hit(always[x], q.payload))
             e == SumOver(WeightOf, Hit(ever[x], q.payload))
  <2>1. Hit(always[x], q.payload) \ Range(q.left) = Hit(always[x], q.payload)
        /\ Hit(ever[x], q.payload) \ Range(q.left) = Hit(ever[x], q.payload)
    BY <1>1 DEF Range
  <2>2. SumOver(WeightOf, Hit(always[x], q.payload) \ Range(q.left)) = a
        /\ SumOver(WeightOf, Hit(ever[x], q.payload) \ Range(q.left)) = e
    BY <2>1, Zenon
  <2>3. a <= q.risk /\ q.risk <= e
    BY <1>2, <2>2 DEF Between
  <2>4. IsFiniteSet(always[x]) /\ always[x] \in SUBSET Patterns /\ ever[x] \in SUBSET Patterns
    BY <1>t, FS_Subset
  <2>5. /\ a \in Nat /\ e \in Nat
        /\ RiskOf(always[x], q.payload) = IF MaxRiskScore <= a THEN MaxRiskScore ELSE a
        /\ RiskOf(ever[x], q.payload) = IF MaxRiskScore <= e THEN MaxRiskScore ELSE e
    BY <1>t, <2>4, RiskIsSum
  <2> HIDE DEF a, e
  <2> QED
    BY <1>2, <1>5, <2>3, <2>5, InjectionAssumption
<1> HIDE DEF q
<1>8. /\ r \in Scans /\ r.at = at /\ r.payload = q.payload /\ r.left = q.left
      /\ r.answer = told /\ r.risk = risk
  BY <1>t, <1>3, <1>4 DEF Scans
<1> HIDE DEF r
<1>9. scan'[x] = r
  BY <1>t, <1>1
<1>10. ScanSound(x)'
  BY <1>3, <1>4, <1>8, <1>9 DEF ScanSound
<1>11. SoundOf(x)'
  BY <1>1, <1>3, <1>4, <1>6, <1>8, <1>9 DEF SoundOf
<1>12. config # <<>>
  BY <1>1 DEF InjectionInv, q
<1>13. /\ ever' \in [Scanners -> SUBSET Patterns] /\ always' \in [Scanners -> SUBSET Patterns]
       /\ \A y \in Scanners : y # x => ever'[y] = ever[y] /\ always'[y] = always[y]
       /\ always'[x] \subseteq ever'[x] /\ IsFiniteSet(ever'[x]) /\ quarantined' \subseteq Files
  BY <1>t, <1>1
<1>14. \A y \in Scanners : \A f \in quarantined : scan[y].answer = "quarantined" /\ f.of = y =>
         \E g \in quarantined' : g.of = f.of /\ g.payload = f.payload
  BY <1>1
<1> QED
  BY <1>1, <1>8, <1>10, <1>11, <1>12, <1>13, <1>14, ScanChanges

LEMMA InjectionStep == InjectionInv /\ [INNext]_injectionVars => InjectionInv'
<1> SUFFICES ASSUME InjectionInv, [INNext]_injectionVars PROVE InjectionInv'
  OBVIOUS
<1>t. /\ scan \in [Scanners -> Scans] /\ quarantined \subseteq Files
      /\ \A x \in Scanners : ScanSound(x) /\ SoundOf(x)
  BY SoundOfAll DEF InjectionInv
<1>1. ASSUME NEW c \in Configs, BuildClassifier(c) PROVE InjectionInv'
  <2>1. config = <<>> /\ UNCHANGED <<patterns, enabled, scan, swept, quarantined, ever, always>>
    BY <1>1 DEF BuildClassifier
  <2>2. \A x \in Scanners : scan[x].at = "new" /\ scan[x].answer = "none"
    BY <1>t, <2>1 DEF InjectionInv, ScanSound
  <2>3. \A x \in Scanners : ScanSound(x)'
    BY <1>t, <2>1, <2>2 DEF ScanSound
  <2>4. InjectionIsSound'
    BY <2>1, <2>2 DEF InjectionIsSound, RiskIsOfItsTime, NothingRiskyPasses, QuarantineIsKept
  <2> QED
    BY <2>1, <2>2, <2>3, <2>4 DEF InjectionInv
<1>2. ASSUME NEW x \in Scanners, QuarantineFails(x) PROVE InjectionInv'
  <2> DEFINE r == [scan[x] EXCEPT !.at = "done", !.answer = "refused"]
  <2>1. /\ scan' = [scan EXCEPT ![x] = r] /\ scan[x].at \in {"quarantine", "write"}
        /\ UNCHANGED <<config, patterns, enabled, ever, always, swept, quarantined>>
    BY <1>2 DEF QuarantineFails
  <2>2. /\ r \in Scans /\ r.at = "done" /\ r.answer = "refused" /\ r.payload = scan[x].payload
        /\ r.risk = scan[x].risk /\ r.left = scan[x].left
    <3> DEFINE q == scan[x]
    <3>1. q \in Scans
      BY <1>t
    <3> HIDE DEF q
    <3>2. LET u == [q EXCEPT !.at = "done", !.answer = "refused"]
          IN /\ u \in Scans /\ u.at = "done" /\ u.answer = "refused" /\ u.payload = q.payload
             /\ u.risk = q.risk /\ u.left = q.left
      BY <3>1 DEF Scans
    <3> QED
      BY <3>2 DEF q
  <2> HIDE DEF r
  <2> QED
    BY <2>1, <2>2, ScanGoesOn
<1>3. ASSUME NEW x \in Scanners, Sweep(x) PROVE InjectionInv'
  <2> DEFINE r == [scan[x] EXCEPT !.at = "write", !.answer = "none"]
  <2>1. scan' = [scan EXCEPT ![x] = r]
    <3>1. scan[x].answer = "none" /\ scan[x] \in Scans
      BY <1>t, <1>3 DEF Sweep, ScanSound
    <3>2. [scan[x] EXCEPT !.at = "write"] = r
      <4> DEFINE q == scan[x]
      <4> HIDE DEF q
      <4>1. q \in Scans /\ q.answer = "none"
        BY <3>1 DEF q
      <4>2. [q EXCEPT !.at = "write"] = [q EXCEPT !.at = "write", !.answer = "none"]
        BY <4>1 DEF Scans
      <4> QED
        BY <4>2 DEF q
    <3> QED
      BY <1>3, <3>2 DEF Sweep
  <2>2. /\ scan[x].at \in {"quarantine", "write"} /\ swept' /\ quarantined' \subseteq quarantined
        /\ (swept => UNCHANGED quarantined)
        /\ UNCHANGED <<config, patterns, enabled, ever, always>>
    BY <1>3 DEF Sweep
  <2>3. /\ r \in Scans /\ r.at = "write" /\ r.answer = "none" /\ r.payload = scan[x].payload
        /\ r.risk = scan[x].risk /\ r.left = scan[x].left
    <3> DEFINE q == scan[x]
    <3>1. q \in Scans
      BY <1>t
    <3> HIDE DEF q
    <3>2. LET u == [q EXCEPT !.at = "write", !.answer = "none"]
          IN /\ u \in Scans /\ u.at = "write" /\ u.answer = "none" /\ u.payload = q.payload
             /\ u.risk = q.risk /\ u.left = q.left
      BY <3>1 DEF Scans
    <3> QED
      BY <3>2 DEF q
  <2> HIDE DEF r
  <2> QED
    BY <2>1, <2>2, <2>3, ScanGoesOn
<1>4. ASSUME NEW x \in Scanners, WriteQuarantine(x) PROVE InjectionInv'
  <2> DEFINE r == [scan[x] EXCEPT !.at = "done", !.answer = "quarantined"]
  <2>1. /\ scan' = [scan EXCEPT ![x] = r] /\ scan[x].at \in {"quarantine", "write"}
        /\ swept /\ swept'
        /\ quarantined' = quarantined \cup {[of |-> x, payload |-> scan[x].payload, old |-> FALSE]}
        /\ UNCHANGED <<config, patterns, enabled, ever, always>>
    BY <1>4, <1>t DEF WriteQuarantine, ScanSound
  <2>2. /\ r \in Scans /\ r.at = "done" /\ r.answer = "quarantined" /\ r.payload = scan[x].payload
        /\ r.risk = scan[x].risk /\ r.left = scan[x].left
    <3> DEFINE q == scan[x]
    <3>1. q \in Scans
      BY <1>t
    <3> HIDE DEF q
    <3>2. LET u == [q EXCEPT !.at = "done", !.answer = "quarantined"]
          IN /\ u \in Scans /\ u.at = "done" /\ u.answer = "quarantined" /\ u.payload = q.payload
             /\ u.risk = q.risk /\ u.left = q.left
      BY <3>1 DEF Scans
    <3> QED
      BY <3>2 DEF q
  <2> HIDE DEF r
  <2> QED
    BY <2>1, <2>2, ScanGoesOn
<1>5. ASSUME NEW f \in quarantined, Expire(f) PROVE InjectionInv'
  <2> DEFINE g == [f EXCEPT !.old = TRUE]
  <2>1. f \in Files
    BY <1>t
  <2>2. g \in Files /\ g.of = f.of /\ g.payload = f.payload
    BY <2>1 DEF Files
  <2>3. quarantined' = (quarantined \ {f}) \cup {g}
        /\ UNCHANGED <<config, patterns, enabled, scan, swept, ever, always>>
    BY <1>5 DEF Expire
  <2> HIDE DEF g
  <2>4. quarantined' \subseteq Files
    BY <1>t, <2>2, <2>3
  <2>5. \A h \in quarantined : \E k \in quarantined' : k.of = h.of /\ k.payload = h.payload
    <3> SUFFICES ASSUME NEW h \in quarantined
                 PROVE  \E k \in quarantined' : k.of = h.of /\ k.payload = h.payload
      OBVIOUS
    <3>1. CASE h = f
      BY <2>2, <2>3, <3>1
    <3>2. CASE h # f
      BY <2>3, <3>2
    <3> QED
      BY <3>1, <3>2
  <2>6. \A x \in Scanners : ScanSound(x)'
    BY <1>t, <2>3 DEF ScanSound, LeftOf
  <2>7. RiskIsOfItsTime' /\ NothingRiskyPasses'
    BY <2>3 DEF InjectionInv, InjectionIsSound, RiskIsOfItsTime, NothingRiskyPasses
  <2>8. QuarantineIsKept'
    <3> SUFFICES ASSUME NEW x \in Scanners, scan[x].answer = "quarantined"
                 PROVE  \E k \in quarantined' : k.of = x /\ k.payload = scan[x].payload
      BY <2>3 DEF QuarantineIsKept
    <3>1. PICK h \in quarantined : h.of = x /\ h.payload = scan[x].payload
      BY DEF InjectionInv, InjectionIsSound, QuarantineIsKept
    <3> QED
      BY <2>5, <3>1
  <2> QED
    BY <2>3, <2>4, <2>6, <2>7, <2>8 DEF InjectionInv, InjectionIsSound
<1>6. CASE UNCHANGED injectionVars
  <2>1. UNCHANGED <<config, patterns, enabled, scan, swept, quarantined, ever, always>>
    BY <1>6 DEF injectionVars
  <2>2. \A x \in Scanners : ScanSound(x)'
    BY <1>t, <2>1 DEF ScanSound, LeftOf
  <2>3. InjectionIsSound'
    BY <2>1 DEF InjectionInv, InjectionIsSound, RiskIsOfItsTime, NothingRiskyPasses, QuarantineIsKept
  <2> QED
    BY <2>1, <2>2, <2>3 DEF InjectionInv
<1> QED
  BY <1>1, <1>2, <1>3, <1>4, <1>5, <1>6, ListChanges, BeginKeeps, TryKeeps, DispatchKeeps DEF INNext
-----------------------------------------------------------------------------
(* The cache breakpoints of the requests to a provider.                     *)

\* The detector's patterns: the built-in one is the first, no name is there twice, and none is
\* reserved.
Listed(l) ==
  /\ \E n \in Nat \ {0} : DOMAIN l = 1 .. n
  /\ l[1] = Anthropic
  /\ \A i, j \in DOMAIN l : l[i].name = l[j].name => i = j
  /\ \A i \in DOMAIN l : l[i].name \in ValidNames \ {"other"}

LEMMA AddingKeeps ==
  ASSUME NEW E, NEW l \in Seq(E), Listed(l), NEW e,
         [name |-> e.name, hosts |-> e.hosts \ {<<>>}] \in E
  PROVE  AddEntry(l, e) \in Seq(E) /\ Listed(AddEntry(l, e))
<1> DEFINE p == [name |-> e.name, hosts |-> e.hosts \ {<<>>}]
<1>1. CASE AddEntry(l, e) = l
  BY <1>1
<1>2. CASE AddEntry(l, e) # l
  <2>1. /\ AddEntry(l, e) = Append(l, p) /\ e.name \in ValidNames \ {"other"}
        /\ \A i \in DOMAIN l : l[i].name # e.name
    BY <1>2 DEF AddEntry
  <2>2. p \in E /\ p.name = e.name
    OBVIOUS
  <2> HIDE DEF p
  <2>3. PICK n \in Nat \ {0} : DOMAIN l = 1 .. n
    BY DEF Listed
  <2>4. n = Len(l)
    BY <2>3
  <2> DEFINE m == Append(l, p)
  <2>5. m \in Seq(E) /\ DOMAIN m = 1 .. n + 1 /\ \A i \in 1 .. n + 1 : m[i] = IF i = n + 1 THEN p ELSE l[i]
    BY <2>2, <2>3, <2>4
  <2>6. n + 1 \in Nat \ {0} /\ 1 \in 1 .. n + 1 /\ 1 # n + 1
    BY <2>3
  <2> HIDE DEF m
  <2>7. m[1] = Anthropic
    BY <2>5, <2>6 DEF Listed
  <2>8. \A i \in DOMAIN m : m[i].name \in ValidNames \ {"other"}
    BY <2>1, <2>2, <2>3, <2>5 DEF Listed
  <2>9. ASSUME NEW i \in DOMAIN m, NEW j \in DOMAIN m, m[i].name = m[j].name PROVE i = j
    <3>1. \A k \in 1 .. n : l[k].name # p.name
      BY <2>1, <2>2, <2>3
    <3>2. \A k \in 1 .. n + 1 : k # n + 1 => k \in 1 .. n
      BY <2>3
    <3> QED
      BY <2>3, <2>5, <2>9, <3>1, <3>2 DEF Listed
  <2>10. Listed(m)
    BY <2>5, <2>6, <2>7, <2>8, <2>9 DEF Listed
  <2> QED
    BY <2>1, <2>5, <2>10 DEF m
<1> QED
  BY <1>1, <1>2

Loads(f, file) ==
  f = [s \in SUBSET DOMAIN file |-> IF s = {} THEN <<Anthropic>>
                                    ELSE AddEntry(f[s \ {Max(s)}], file[Max(s)])]

LEMMA LoadUnfolds ==
  ASSUME NEW file
  PROVE  LoadReader(file) = (CHOOSE f : Loads(f, file))[DOMAIN file]
  BY DEF LoadReader, Loads, FoldLeft, MapThenFoldSet

LEMMA FileIsListed == ASSUME NEW file \in ProviderFiles PROVE Listed(LoadReader(file))
<1> DEFINE n == Len(file)
           Of(i) == [name |-> file[i].name, hosts |-> file[i].hosts \ {<<>>}]
           E == {Anthropic} \cup {Of(i) : i \in 1 .. n}
           V == {l \in Seq(E) : Listed(l)}
           h == [q \in (1 .. n) \X V |-> AddEntry(q[2], file[q[1]])]
<1>1. n \in Nat /\ DOMAIN file = 1 .. n
  BY BreakpointsAssumption
<1>2. <<Anthropic>> \in V
  <2> DEFINE b == <<Anthropic>>
  <2>1. b \in Seq(E) /\ DOMAIN b = 1 .. 1 /\ b[1] = Anthropic
    OBVIOUS
  <2>2. "anthropic" \in ValidNames \ {"other"} /\ Anthropic.name = "anthropic"
    BY BreakpointsAssumption DEF Anthropic
  <2> HIDE DEF b
  <2>3. Listed(b)
    BY <2>1, <2>2 DEF Listed
  <2> QED
    BY <2>1, <2>3 DEF b
<1>3. ASSUME NEW i \in 1 .. n, NEW l \in V PROVE AddEntry(l, file[i]) \in V
  <2>1. Of(i) \in E
    OBVIOUS
  <2>2. l \in Seq(E) /\ Listed(l)
    OBVIOUS
  <2> HIDE DEF E
  <2>3. AddEntry(l, file[i]) \in Seq(E) /\ Listed(AddEntry(l, file[i]))
    BY <2>1, <2>2, AddingKeeps
  <2> QED
    BY <2>3
<1>4. \A i \in 1 .. n, l \in V : h[<<i, l>>] = AddEntry(l, file[i])
  OBVIOUS
<1> HIDE DEF h, V, n
<1>5. \A i \in 1 .. n, l \in V : h[<<i, l>>] \in V
  BY <1>3, <1>4
<1>6. PICK f : FoldsInOrder(f, <<Anthropic>>, h, n) /\ \A s \in SUBSET (1 .. n) : f[s] \in V
  <2> DEFINE b == <<Anthropic>>
  <2>1. b \in V
    BY <1>2
  <2> HIDE DEF b
  <2>2. \E f : FoldsInOrder(f, b, h, n) /\ \A s \in SUBSET (1 .. n) : f[s] \in V
    BY <1>1, <1>5, <2>1, OrderedFold
  <2> QED
    BY <2>2 DEF b
<1>7. ASSUME NEW s \in SUBSET (1 .. n), s # {}
      PROVE  h[<<Max(s), f[s \ {Max(s)}]>>] = AddEntry(f[s \ {Max(s)}], file[Max(s)])
  <2>1. Max(s) \in 1 .. n
    BY <1>1, <1>7, LastIsIn
  <2>2. f[s \ {Max(s)}] \in V
    BY <1>6
  <2> QED
    BY <1>4, <2>1, <2>2
<1>8. f = [s \in SUBSET (1 .. n) |-> IF s = {} THEN <<Anthropic>> ELSE h[<<Max(s), f[s \ {Max(s)}]>>]]
  BY <1>6 DEF FoldsInOrder
<1>9. Loads(f, file)
  BY <1>1, <1>7, <1>8 DEF Loads
<1> DEFINE g == CHOOSE k : Loads(k, file)
<1>10. Loads(g, file)
  BY <1>9
<1> HIDE DEF g
<1>11. \A s \in SUBSET (1 .. n) : g[s] = IF s = {} THEN <<Anthropic>> ELSE AddEntry(g[s \ {Max(s)}], file[Max(s)])
  BY <1>1, <1>10 DEF Loads
<1>12. g[1 .. n] \in V
  <2> DEFINE D == 1 .. n
             X == {s \in SUBSET D : g[s] \notin V}
  <2>1. SUFFICES ASSUME X # {} PROVE FALSE
    OBVIOUS
  <2>2. IsFiniteSet(D)
    BY <1>1, PlacesAreFinite
  <2>3. PICK s \in X : \A r \in X : r \subseteq s => r = s
    <3>1. X \in SUBSET SUBSET D
      OBVIOUS
    <3> HIDE DEF X, D
    <3> QED
      BY <2>1, <2>2, <3>1, SmallestSubset
  <2>4. s # {}
    BY <1>2, <1>11, <2>3
  <2>5. Max(s) \in s
    BY <1>1, <2>3, <2>4, LastIsIn
  <2>6. g[s \ {Max(s)}] \in V
    BY <2>3, <2>5
  <2> QED
    BY <1>3, <1>11, <2>3, <2>4, <2>5, <2>6
<1> QED
  BY <1>1, <1>12, LoadUnfolds DEF V, g
\* Its hosts are those of the built-in provider, and no others, as long as its list is as it is
\* loaded.
LEMMA HostsAreOurs ==
  ASSUME NEW l, Listed(l), NEW host
  PROVE  /\ Detect(l, host) \in ValidNames \cup {"other"}
         /\ Detect(l, host) = "anthropic" <=> IsSuffix(BuiltIn, host)
<1> DEFINE M == {i \in DOMAIN l : CoversHost(l[i], host)}
<1>1. PICK n \in Nat \ {0} : DOMAIN l = 1 .. n
  BY DEF Listed
<1>2. IsFiniteSet(M) /\ M \subseteq Int /\ M \subseteq 1 .. n
  <2>1. IsFiniteSet(1 .. n)
    BY PlacesAreFinite
  <2>2. M \subseteq 1 .. n
    BY <1>1
  <2> HIDE DEF M
  <2>3. IsFiniteSet(M)
    BY <2>1, <2>2, FS_Subset
  <2> QED
    BY <2>2, <2>3
<1>3. 1 \in 1 .. n /\ l[1] = Anthropic /\ Anthropic.name = "anthropic"
  BY DEF Listed, Anthropic
<1>4. CoversHost(l[1], host) <=> IsSuffix(BuiltIn, host)
  BY <1>3 DEF CoversHost, Anthropic
<1>5. host = <<>> => ~IsSuffix(BuiltIn, host)
  <2> SUFFICES ~IsSuffix(BuiltIn, <<>>)
    OBVIOUS
  <2> DEFINE b == BuiltIn
             R == Range(BuiltIn)
  <2>1. b \in Seq(R) /\ b # <<>>
    BY BreakpointsAssumption
  <2> HIDE DEF b, R
  <2>2. Len(b) \in Nat /\ Len(b) # 0
    BY <2>1, EmptySeq
  <2>3. Reverse(b) = [i \in 1 .. Len(b) |-> b[(Len(b) - i) + 1]]
    BY DEF Reverse
  <2>4. Reverse(b) \in Seq(R) /\ Len(Reverse(b)) = Len(b)
    BY <2>1, <2>2, <2>3
  <2>5. Reverse(<<>>) = <<>>
    BY DEF Reverse
  <2>6. Len(Reverse(<<>>)) = 0
    BY <2>5
  <2>7. ~IsSuffix(b, <<>>)
    BY <2>2, <2>4, <2>6 DEF IsSuffix, IsPrefix
  <2> QED
    BY <2>7 DEF b
<1>6. CASE host = <<>> \/ M = {}
  <2>1. Detect(l, host) = "other"
    BY <1>6 DEF Detect
  <2>2. ~IsSuffix(BuiltIn, host)
    BY <1>1, <1>3, <1>4, <1>5, <1>6
  <2> QED
    BY <2>1, <2>2
<1>7. CASE host # <<>> /\ M # {}
  <2> DEFINE i == Min(M)
  <2>1. Detect(l, host) = l[i].name
    BY <1>7 DEF Detect
  <2>2. i \in M /\ \A j \in M : i <= j
    <3> HIDE DEF M
    <3> QED
      BY <1>2, <1>7, LeastOfAny
  <2> HIDE DEF i
  <2>3. i \in 1 .. n /\ l[i].name \in ValidNames
    BY <1>1, <1>2, <2>2 DEF Listed
  <2>4. l[i].name = "anthropic" => i = 1
    BY <1>1, <1>3, <2>3 DEF Listed
  <2>5. IsSuffix(BuiltIn, host) => i = 1
    BY <1>1, <1>3, <1>4, <2>2, <2>3
  <2> QED
    BY <1>3, <1>4, <2>1, <2>2, <2>3, <2>4, <2>5
<1> QED
  BY <1>6, <1>7
\* A request that is under way knows whether its host is the built-in provider's, and has been
\* changed only if it is; who went to that provider is counted, and so is who came back from it.
BodiesSent == AskBodies \cup {Inject(how, b) : how \in {"aggressive", "balanced"}, b \in AskBodies}
UnderWay == [at : {"detected", "sent", "done"}, host : AskHosts, given : AskBodies,
             body : BodiesSent, provider : ValidNames \cup {"other"}]
AskSound(a) ==
  a.at # "new" =>
    /\ a \in UnderWay
    /\ a.provider = "anthropic" <=> IsSuffix(BuiltIn, a.host)
    /\ a.at # "detected" /\ a.body # a.given => a.provider = "anthropic" /\ strategy # "off"
Went(x) == ask[x].at \in {"sent", "done"} /\ IsSuffix(BuiltIn, ask[x].host)
CameBack(x) == ask[x].at = "done" /\ IsSuffix(BuiltIn, ask[x].host)
GoneOut == {x \in Asks : Went(x)}
Returned == {x \in Asks : CameBack(x)}
BreakCounters == {"total", "anthropic", "cacheable", "hits", "misses"}

BreakInv ==
  /\ Listed(known) /\ provFile \in ProviderFiles \cup {Broken}
  /\ strategy \in {"off", "aggressive", "balanced"}
  /\ DOMAIN ask = Asks /\ ask = [x \in Asks |-> ask[x]]
  /\ \A x \in Asks : ask[x].at \in {"new", "detected", "sent", "done"} /\ AskSound(ask[x])
  /\ counters \in [BreakCounters -> Nat]
  /\ counters["anthropic"] = Cardinality(GoneOut) /\ counters["cacheable"] <= counters["anthropic"]
  /\ counters["hits"] + counters["misses"] <= Cardinality(Returned)

LEMMA LoadKeeps ==
  ASSUME NEW l, Listed(l), provFile \in ProviderFiles \cup {Broken}
  PROVE  Listed(Load(l))
  BY FileIsListed DEF Load

LEMMA BreakInitially == BKInit => BreakInv
<1> SUFFICES ASSUME BKInit PROVE BreakInv
  OBVIOUS
<1>1. Listed(<<Anthropic>>)
  <2> DEFINE b == <<Anthropic>>
  <2>1. DOMAIN b = 1 .. 1 /\ b[1] = Anthropic
    OBVIOUS
  <2>2. "anthropic" \in ValidNames \ {"other"} /\ Anthropic.name = "anthropic"
    BY BreakpointsAssumption DEF Anthropic
  <2> HIDE DEF b
  <2>3. Listed(b)
    BY <2>1, <2>2 DEF Listed
  <2> QED
    BY <2>3 DEF b
<1>2. Listed(known) /\ provFile \in ProviderFiles \cup {Broken}
  BY <1>1, LoadKeeps DEF BKInit
<1>3. \A x \in Asks : ask[x].at = "new"
  BY DEF BKInit
<1>4. GoneOut = {} /\ Returned = {}
  BY <1>3 DEF GoneOut, Returned, Went, CameBack
<1>5. /\ counters \in [BreakCounters -> Nat] /\ counters["anthropic"] = 0 /\ counters["cacheable"] = 0
      /\ counters["hits"] = 0 /\ counters["misses"] = 0
  BY DEF BKInit, BreakCounters
<1>6. DOMAIN ask = Asks /\ ask = [x \in Asks |-> ask[x]]
  BY DEF BKInit
<1>7. \A x \in Asks : AskSound(ask[x])
  BY <1>3 DEF AskSound
<1>8. Cardinality(GoneOut) = 0 /\ Cardinality(Returned) = 0
  BY <1>4, FS_EmptySet
<1> QED
  BY <1>2, <1>3, <1>5, <1>6, <1>7, <1>8 DEF BreakInv, BKInit

\* One request goes on.
LEMMA AskGoesOn ==
  ASSUME BreakInv, NEW x \in Asks, NEW r, ask' = [ask EXCEPT ![x] = r], r \in UnderWay,
         UNCHANGED <<known, provFile, strategy>>, AskSound(r)
  PROVE  /\ DOMAIN ask' = Asks /\ ask' = [y \in Asks |-> ask'[y]]
         /\ \A y \in Asks : ask'[y].at \in {"new", "detected", "sent", "done"} /\ AskSound(ask[y])'
         /\ \A y \in Asks : y # x => (Went(y)' <=> Went(y)) /\ (CameBack(y)' <=> CameBack(y))
         /\ Went(x)' <=> r.at \in {"sent", "done"} /\ r.provider = "anthropic"
         /\ CameBack(x)' <=> r.at = "done" /\ r.provider = "anthropic"
<1>1. DOMAIN ask' = Asks /\ ask' = [y \in Asks |-> ask'[y]] /\ ask'[x] = r
      /\ \A y \in Asks : y # x => ask'[y] = ask[y]
  BY DEF BreakInv
<1>2. r.at \in {"detected", "sent", "done"}
  BY DEF UnderWay
<1>3. r.provider = "anthropic" <=> IsSuffix(BuiltIn, r.host)
  BY <1>2 DEF AskSound
<1>4. \A y \in Asks : AskSound(ask[y])
  BY DEF BreakInv
<1>5. \A y \in Asks : AskSound(ask[y])'
  <2> SUFFICES ASSUME NEW y \in Asks PROVE AskSound(ask[y])'
    OBVIOUS
  <2>1. CASE y = x
    BY <1>1, <2>1 DEF AskSound
  <2>2. CASE y # x
    BY <1>1, <1>4, <2>2 DEF AskSound
  <2> QED
    BY <2>1, <2>2
<1>6. \A y \in Asks : ask'[y].at \in {"new", "detected", "sent", "done"}
  BY <1>1, <1>2 DEF BreakInv
<1> QED
  BY <1>1, <1>2, <1>3, <1>5, <1>6 DEF Went, CameBack

LEMMA BreakStep == BreakInv /\ [BKNext]_breakVars => BreakInv'
<1> SUFFICES ASSUME BreakInv, [BKNext]_breakVars PROVE BreakInv'
  OBVIOUS
<1>f. IsFiniteSet(GoneOut) /\ IsFiniteSet(Returned) /\ Returned \subseteq GoneOut
  <2>1. GoneOut \subseteq Asks /\ Returned \subseteq Asks /\ Returned \subseteq GoneOut
    BY DEF GoneOut, Returned, Went, CameBack
  <2> QED
    BY <2>1, FS_Subset, BreakpointsAssumption
<1>u. ASSUME UNCHANGED <<ask, strategy, counters>>, Listed(known'), provFile' \in ProviderFiles \cup {Broken}
      PROVE  BreakInv'
  <2>1. \A y \in Asks : (Went(y)' <=> Went(y)) /\ (CameBack(y)' <=> CameBack(y))
    BY <1>u DEF Went, CameBack
  <2>2. GoneOut' = GoneOut /\ Returned' = Returned
    BY <2>1 DEF GoneOut, Returned
  <2>3. \A y \in Asks : AskSound(ask[y])'
    BY <1>u DEF BreakInv, AskSound
  <2> QED
    BY <1>u, <2>2, <2>3 DEF BreakInv
<1>1. ASSUME NEW f \in ProviderFiles \cup {Broken}, WriteFile(f) PROVE BreakInv'
  BY <1>u, <1>1 DEF WriteFile, BreakInv
<1>2. CASE Reload
  <2>1. Listed(Load(known))
    BY LoadKeeps DEF BreakInv
  <2> QED
    BY <1>u, <1>2, <2>1 DEF Reload, BreakInv
<1>3. ASSUME NEW x \in Asks, DetectProvider(x) PROVE BreakInv'
  <2>1. PICK host \in AskHosts, body \in AskBodies :
          ask' = [ask EXCEPT ![x] = [at |-> "detected", host |-> host, given |-> body, body |-> body,
                                     provider |-> Detect(known, host)]]
    BY <1>3 DEF DetectProvider
  <2> DEFINE r == [at |-> "detected", host |-> host, given |-> body, body |-> body,
                   provider |-> Detect(known, host)]
  <2>2. /\ Detect(known, host) \in ValidNames \cup {"other"}
        /\ Detect(known, host) = "anthropic" <=> IsSuffix(BuiltIn, host)
    BY HostsAreOurs DEF BreakInv
  <2>3. body \in BodiesSent
    BY DEF BodiesSent
  <2>4. r \in UnderWay /\ r.at = "detected" /\ r.host = host /\ r.provider = Detect(known, host)
    BY <2>2, <2>3 DEF UnderWay
  <2>5. ask' = [ask EXCEPT ![x] = r] /\ UNCHANGED <<known, provFile, strategy, counters>>
    BY <1>3, <2>1 DEF DetectProvider
  <2>6. AskSound(r)
    BY <2>2, <2>4 DEF AskSound
  <2> HIDE DEF r
  <2>7. /\ DOMAIN ask' = Asks /\ ask' = [y \in Asks |-> ask'[y]]
        /\ \A y \in Asks : ask'[y].at \in {"new", "detected", "sent", "done"} /\ AskSound(ask[y])'
        /\ \A y \in Asks : y # x => (Went(y)' <=> Went(y)) /\ (CameBack(y)' <=> CameBack(y))
        /\ ~Went(x)' /\ ~CameBack(x)'
    BY <2>4, <2>5, <2>6, AskGoesOn
  <2>8. ~Went(x) /\ ~CameBack(x)
    BY <1>3 DEF DetectProvider, Went, CameBack
  <2>9. GoneOut' = GoneOut /\ Returned' = Returned
    BY <2>7, <2>8 DEF GoneOut, Returned
  <2> QED
    BY <2>5, <2>7, <2>9 DEF BreakInv
<1>4. ASSUME NEW x \in Asks, InjectBreakpoints(x) PROVE BreakInv'
  <2> DEFINE a == ask[x]
             mine == a.provider = "anthropic"
             through == mine /\ strategy # "off" /\ a.given # Malformed
             b == IF through THEN Inject(strategy, a.given) ELSE a.given
             r == [a EXCEPT !.at = "sent", !.body = b]
  <2>1. /\ a.at = "detected" /\ ask' = [ask EXCEPT ![x] = r]
        /\ counters' = IF mine THEN [counters EXCEPT !.total = @ + 1, !.anthropic = @ + 1,
                                                     !.cacheable = @ + IF through THEN 1 ELSE 0]
                       ELSE counters
        /\ UNCHANGED <<known, provFile, strategy>>
    BY <1>4 DEF InjectBreakpoints, RecordRequest, BreakInv
  <2>2. a \in UnderWay /\ (mine <=> IsSuffix(BuiltIn, a.host))
    BY <2>1 DEF BreakInv, AskSound
  <2>3. b \in BodiesSent /\ (b # a.given => mine /\ strategy # "off")
    <3>1. a.given \in AskBodies
      BY <2>2 DEF UnderWay
    <3> QED
      BY <3>1 DEF BodiesSent, BreakInv
  <2>4. /\ counters' \in [BreakCounters -> Nat]
        /\ counters'["anthropic"] = counters["anthropic"] + (IF mine THEN 1 ELSE 0)
        /\ counters'["cacheable"] <= counters["cacheable"] + (IF mine THEN 1 ELSE 0)
        /\ counters'["hits"] = counters["hits"] /\ counters'["misses"] = counters["misses"]
    <3>1. CASE mine
      <4> DEFINE one == IF through THEN 1 ELSE 0
      <4>1. counters' = [counters EXCEPT !["total"] = counters["total"] + 1,
                                         !["anthropic"] = counters["anthropic"] + 1,
                                         !["cacheable"] = counters["cacheable"] + one]
        BY <2>1, <3>1
      <4>2. one \in {0, 1}
        OBVIOUS
      <4>3. counters \in [BreakCounters -> Nat]
        BY DEF BreakInv
      <4> HIDE DEF one, a, mine
      <4> QED
        BY <3>1, <4>1, <4>2, <4>3 DEF BreakCounters
    <3>2. CASE ~mine
      <4>1. counters' = counters
        BY <2>1, <3>2
      <4>2. \A c \in BreakCounters : counters[c] \in Nat
        BY DEF BreakInv
      <4> QED
        BY <3>2, <4>1, <4>2 DEF BreakInv, BreakCounters
    <3> QED
      BY <3>1, <3>2
  <2>5. Went(x) <=> FALSE
    BY <2>1 DEF Went
  <2>6. CameBack(x) <=> FALSE
    BY <2>1 DEF CameBack
  <2> HIDE DEF a, b, through
  <2>7. /\ r \in UnderWay /\ r.at = "sent" /\ r.host = a.host /\ r.provider = a.provider
        /\ r.given = a.given /\ r.body = b
    BY <2>2, <2>3 DEF UnderWay
  <2> HIDE DEF r
  <2>8. AskSound(r)
    BY <2>2, <2>3, <2>7 DEF AskSound
  <2>9. /\ DOMAIN ask' = Asks /\ ask' = [y \in Asks |-> ask'[y]]
        /\ \A y \in Asks : ask'[y].at \in {"new", "detected", "sent", "done"} /\ AskSound(ask[y])'
        /\ \A y \in Asks : y # x => (Went(y)' <=> Went(y)) /\ (CameBack(y)' <=> CameBack(y))
        /\ (Went(x)' <=> mine) /\ ~CameBack(x)'
    <3>1. /\ DOMAIN ask' = Asks /\ ask' = [y \in Asks |-> ask'[y]]
          /\ \A y \in Asks : ask'[y].at \in {"new", "detected", "sent", "done"} /\ AskSound(ask[y])'
          /\ \A y \in Asks : y # x => (Went(y)' <=> Went(y)) /\ (CameBack(y)' <=> CameBack(y))
          /\ Went(x)' <=> r.at \in {"sent", "done"} /\ r.provider = "anthropic"
          /\ CameBack(x)' <=> r.at = "done" /\ r.provider = "anthropic"
      BY <2>1, <2>7, <2>8, AskGoesOn
    <3> QED
      BY <2>7, <3>1
  <2>10. Returned' = Returned
    BY <2>6, <2>9 DEF Returned
  <2>11. GoneOut' = IF mine THEN GoneOut \cup {x} ELSE GoneOut
    BY <2>5, <2>9 DEF GoneOut
  <2>12. x \notin GoneOut
    BY <2>5 DEF GoneOut
  <2>13. Cardinality(GoneOut') = Cardinality(GoneOut) + (IF mine THEN 1 ELSE 0)
    <3>1. CASE mine
      <4>1. GoneOut' = GoneOut \cup {x}
        BY <2>11, <3>1
      <4> QED
        BY <1>f, <2>12, <3>1, <4>1, FS_AddElement
    <3>2. CASE ~mine
      <4>1. Cardinality(GoneOut) \in Nat
        BY <1>f, FS_CardinalityType
      <4> QED
        BY <2>11, <3>2, <4>1
    <3> QED
      BY <3>1, <3>2
  <2>14. /\ counters'["anthropic"] = Cardinality(GoneOut') /\ counters'["cacheable"] <= counters'["anthropic"]
         /\ counters'["hits"] + counters'["misses"] <= Cardinality(Returned')
    <3>1. /\ counters["anthropic"] = Cardinality(GoneOut) /\ counters["cacheable"] <= counters["anthropic"]
          /\ counters["hits"] + counters["misses"] <= Cardinality(Returned)
          /\ counters["cacheable"] \in Nat /\ counters["anthropic"] \in Nat /\ counters'["cacheable"] \in Nat
      BY <2>4 DEF BreakInv, BreakCounters
    <3> HIDE DEF mine
    <3> QED
      BY <2>4, <2>10, <2>13, <3>1
  <2> QED
    BY <2>1, <2>4, <2>9, <2>14 DEF BreakInv
<1>5. ASSUME NEW x \in Asks, ProcessResponse(x) PROVE BreakInv'
  <2> DEFINE a == ask[x]
             mine == a.provider = "anthropic"
             r == [a EXCEPT !.at = "done"]
  <2>1. PICK usage \in {"none", "hits", "misses"} :
          /\ ask' = [ask EXCEPT ![x] = r]
          /\ counters' = IF mine /\ usage # "none" THEN [counters EXCEPT ![usage] = @ + 1] ELSE counters
    BY <1>5 DEF ProcessResponse
  <2>2. a.at = "sent" /\ UNCHANGED <<known, provFile, strategy>>
    BY <1>5 DEF ProcessResponse
  <2>3. /\ a \in UnderWay /\ (mine <=> IsSuffix(BuiltIn, a.host))
        /\ (a.body # a.given => mine /\ strategy # "off")
    BY <2>2 DEF BreakInv, AskSound
  <2>4. /\ counters' \in [BreakCounters -> Nat]
        /\ counters'["anthropic"] = counters["anthropic"] /\ counters'["cacheable"] = counters["cacheable"]
        /\ counters'["hits"] + counters'["misses"]
             <= counters["hits"] + counters["misses"] + (IF mine THEN 1 ELSE 0)
    BY <2>1 DEF BreakInv, BreakCounters
  <2>5. Went(x) <=> mine
    BY <2>2, <2>3 DEF Went
  <2>6. ~CameBack(x)
    BY <2>2 DEF CameBack
  <2> HIDE DEF a
  <2>7. /\ r \in UnderWay /\ r.at = "done" /\ r.host = a.host /\ r.provider = a.provider
        /\ r.given = a.given /\ r.body = a.body
    BY <2>3 DEF UnderWay
  <2> HIDE DEF r
  <2>8. AskSound(r)
    BY <2>2, <2>3, <2>7 DEF AskSound
  <2>9. /\ DOMAIN ask' = Asks /\ ask' = [y \in Asks |-> ask'[y]]
        /\ \A y \in Asks : ask'[y].at \in {"new", "detected", "sent", "done"} /\ AskSound(ask[y])'
        /\ \A y \in Asks : y # x => (Went(y)' <=> Went(y)) /\ (CameBack(y)' <=> CameBack(y))
        /\ (Went(x)' <=> mine) /\ (CameBack(x)' <=> mine)
    <3>1. ask' = [ask EXCEPT ![x] = r] /\ r \in UnderWay /\ UNCHANGED <<known, provFile, strategy>>
      BY <2>1, <2>2, <2>7
    <3>2. (Went(x)' <=> r.at \in {"sent", "done"} /\ r.provider = "anthropic")
          /\ (CameBack(x)' <=> r.at = "done" /\ r.provider = "anthropic")
      BY <2>8, <3>1, AskGoesOn, Zenon
    <3>3. /\ DOMAIN ask' = Asks /\ ask' = [y \in Asks |-> ask'[y]]
          /\ \A y \in Asks : ask'[y].at \in {"new", "detected", "sent", "done"} /\ AskSound(ask[y])'
          /\ \A y \in Asks : y # x => (Went(y)' <=> Went(y)) /\ (CameBack(y)' <=> CameBack(y))
      BY <2>8, <3>1, AskGoesOn, Zenon
    <3>4. (r.at \in {"sent", "done"} /\ r.provider = "anthropic" <=> mine)
          /\ (r.at = "done" /\ r.provider = "anthropic" <=> mine)
      BY <2>7
    <3> QED
      BY <3>2, <3>3, <3>4, Zenon
  <2>10. GoneOut' = GoneOut
    BY <2>5, <2>9 DEF GoneOut
  <2>11. Returned' = IF mine THEN Returned \cup {x} ELSE Returned
    BY <2>6, <2>9 DEF Returned
  <2>12. x \notin Returned
    BY <2>6 DEF Returned
  <2>13. Cardinality(Returned') = Cardinality(Returned) + (IF mine THEN 1 ELSE 0)
         /\ Cardinality(Returned) \in Nat
    <3>1. CASE mine
      <4>1. Returned' = Returned \cup {x}
        BY <2>11, <3>1
      <4> QED
        BY <1>f, <2>12, <3>1, <4>1, FS_AddElement, FS_CardinalityType
    <3>2. CASE ~mine
      <4>1. Cardinality(Returned) \in Nat
        BY <1>f, FS_CardinalityType
      <4> QED
        BY <2>11, <3>2, <4>1
    <3> QED
      BY <3>1, <3>2
  <2>14. /\ counters'["anthropic"] = Cardinality(GoneOut') /\ counters'["cacheable"] <= counters'["anthropic"]
         /\ counters'["hits"] + counters'["misses"] <= Cardinality(Returned')
    <3>1. /\ counters["anthropic"] = Cardinality(GoneOut) /\ counters["cacheable"] <= counters["anthropic"]
          /\ counters["hits"] + counters["misses"] <= Cardinality(Returned)
          /\ counters["hits"] \in Nat /\ counters["misses"] \in Nat
          /\ counters'["hits"] \in Nat /\ counters'["misses"] \in Nat
      BY <2>4 DEF BreakInv, BreakCounters
    <3> HIDE DEF mine
    <3> QED
      BY <2>4, <2>10, <2>13, <3>1
  <2> QED
    BY <2>2, <2>4, <2>9, <2>14 DEF BreakInv
<1>6. CASE UNCHANGED breakVars
  BY <1>u, <1>6 DEF breakVars, BreakInv
<1> QED
  BY <1>1, <1>2, <1>3, <1>4, <1>5, <1>6 DEF BKNext
LEMMA BreakFollows == BreakInv => DetectionIsStable /\ OnlyOursAreTouched
<1> SUFFICES ASSUME BreakInv PROVE DetectionIsStable /\ OnlyOursAreTouched
  OBVIOUS
<1>1. Listed(known)
  BY DEF BreakInv
<1>2. \A host \in AskHosts : Detect(known, host) = "anthropic" <=> IsSuffix(BuiltIn, host)
  BY <1>1, HostsAreOurs
<1>3. DetectionIsStable
  BY <1>1, <1>2 DEF Listed, DetectionIsStable
<1>4. \A x \in Asks : ask[x].at \in {"sent", "done"} /\ ask[x].body # ask[x].given
                        => IsSuffix(BuiltIn, ask[x].host) /\ strategy # "off"
  BY DEF BreakInv, AskSound
<1>5. IsFiniteSet(GoneOut) /\ Returned \subseteq GoneOut
  <2>1. GoneOut \subseteq Asks /\ Returned \subseteq GoneOut
    BY DEF GoneOut, Returned, Went, CameBack
  <2> QED
    BY <2>1, FS_Subset, BreakpointsAssumption
<1>6. Cardinality(Returned) <= Cardinality(GoneOut) /\ Cardinality(Returned) \in Nat
      /\ Cardinality(GoneOut) \in Nat
  BY <1>5, FS_Subset, FS_CardinalityType
<1>7. /\ counters["anthropic"] = Cardinality(GoneOut) /\ counters["cacheable"] <= counters["anthropic"]
      /\ counters["hits"] + counters["misses"] <= Cardinality(Returned)
      /\ counters["hits"] \in Nat /\ counters["misses"] \in Nat
  BY DEF BreakInv, BreakCounters
<1>8. counters["hits"] + counters["misses"] <= counters["anthropic"]
  BY <1>6, <1>7
<1>9. GoneOut = {x \in Asks : ask[x].at \in {"sent", "done"} /\ IsSuffix(BuiltIn, ask[x].host)}
  BY DEF GoneOut, Went
<1>10. OnlyOursAreTouched
  BY <1>4, <1>7, <1>8, <1>9 DEF OnlyOursAreTouched
<1> QED
  BY <1>3, <1>10

\* Marking a block.
LEMMA BlocksAre ==
  ASSUME NEW b \in Blocks
  PROVE  b \in Seq({"plain", "marked", "scalar"}) /\ Len(b) \in 0 .. MaxItems
  BY BreakpointsAssumption DEF Blocks, BoundedSeq, SeqOf

LEMMA MarkIs ==
  ASSUME NEW b \in Blocks
  PROVE  /\ Mark(b) \in Blocks /\ Len(Mark(b)) = Len(b) /\ DOMAIN b = 1 .. Len(b)
         /\ \A i \in 1 .. Len(b) : Mark(b)[i] # b[i] =>
              i = Len(b) /\ b[i] = "plain" /\ Mark(b)[i] = "marked" /\ ~HasMark(b)
         /\ Mark(Mark(b)) = Mark(b)
         /\ b = <<>> \/ HasMark(b) => Mark(b) = b
<1> DEFINE n == Len(b)
           S == {"plain", "marked", "scalar"}
           m == Mark(b)
<1>1. b \in Seq(S) /\ n \in 0 .. MaxItems /\ DOMAIN b = 1 .. n /\ n \in Nat
  BY BlocksAre, BreakpointsAssumption, SMTT(60)
<1>2. CASE b # <<>> /\ ~HasMark(b) /\ Last(b) = "plain"
  <2>1. m = Front(b) \o <<"marked">>
    BY <1>2 DEF Mark
  <2>2. n # 0
    BY <1>1, <1>2, EmptySeq
  <2>3. Front(b) \in Seq(S) /\ Len(Front(b)) = n - 1 /\ \A i \in 1 .. n - 1 : Front(b)[i] = b[i]
    BY <1>1, <2>2 DEF Front
  <2> HIDE DEF S
  <2>4. "marked" \in S
    BY DEF S
  <2>5. m \in Seq(S) /\ Len(m) = n /\ DOMAIN m = 1 .. n
        /\ \A i \in 1 .. n : m[i] = IF i = n THEN "marked" ELSE b[i]
    <3> DEFINE f == Front(b)
               g == <<"marked">>
    <3>1. g \in Seq(S) /\ Len(g) = 1 /\ g[1] = "marked"
      BY <2>4
    <3>2. f \in Seq(S) /\ Len(f) = n - 1 /\ \A i \in 1 .. n - 1 : f[i] = b[i]
      BY <2>3
    <3> HIDE DEF f, g, n, m
    <3>5. n - 1 \in Nat /\ (n - 1) + 1 = n
      BY <1>1, <2>2
    <3>6. /\ f \o g \in Seq(S) /\ Len(f \o g) = Len(f) + Len(g)
          /\ \A i \in 1 .. Len(f) + Len(g) : (f \o g)[i] = IF i <= Len(f) THEN f[i] ELSE g[i - Len(f)]
      BY <3>1, <3>2, ConcatProperties
    <3>3. f \o g \in Seq(S) /\ Len(f \o g) = n
      BY <3>1, <3>2, <3>5, <3>6
    <3>4. ASSUME NEW i \in 1 .. n PROVE (f \o g)[i] = IF i = n THEN "marked" ELSE b[i]
      <4>1. (f \o g)[i] = IF i <= n - 1 THEN f[i] ELSE g[i - (n - 1)]
        BY <3>1, <3>2, <3>5, <3>6
      <4>2. CASE i = n
        BY <3>1, <3>5, <4>1, <4>2
      <4>3. CASE i # n
        BY <3>2, <3>5, <4>1, <4>3
      <4> QED
        BY <4>2, <4>3
    <3> QED
      BY <2>1, <3>3, <3>4 DEF f, g
  <2>6. b[n] = "plain"
    BY <1>2 DEF Last
  <2> HIDE DEF m, n
  <2>7. n \in 1 .. n
    BY <1>1, <2>2
  <2>8. HasMark(m)
    BY <2>5, <2>7 DEF HasMark
  <2>9. m \in Blocks
    BY <1>1, <2>5 DEF Blocks, BoundedSeq, SeqOf, S
  <2>10. Mark(m) = m
    BY <2>8 DEF Mark
  <2> QED
    BY <1>1, <1>2, <2>5, <2>6, <2>9, <2>10 DEF m, n
<1>3. CASE ~(b # <<>> /\ ~HasMark(b) /\ Last(b) = "plain")
  <2>1. Mark(b) = b
    BY <1>3 DEF Mark
  <2> QED
    BY <1>1, <2>1
<1> QED
  BY <1>2, <1>3

LEMMA BodiesOf ==
  ASSUME NEW body \in Bodies
  PROVE  /\ body.system \in Blocks /\ body.tools \in Blocks /\ body.systemLarger \in BOOLEAN
         /\ InjectSystem(body) \in Bodies /\ InjectTools(body) \in Bodies
         /\ InjectSystem(body).system = Mark(body.system) /\ InjectSystem(body).tools = body.tools
         /\ InjectTools(body).tools = Mark(body.tools) /\ InjectTools(body).system = body.system
         /\ InjectSystem(body).systemLarger = body.systemLarger
         /\ InjectTools(body).systemLarger = body.systemLarger
<1>1. body.system \in Blocks /\ body.tools \in Blocks
  BY DEF Bodies
<1>2. Mark(body.system) \in Blocks /\ Mark(body.tools) \in Blocks
  BY <1>1, MarkIs
<1> QED
  BY <1>1, <1>2 DEF Bodies, InjectSystem, InjectTools

LEMMA SameBodies ==
  ASSUME NEW a \in Bodies, NEW b \in Bodies, a.system = b.system, a.tools = b.tools,
         a.systemLarger = b.systemLarger
  PROVE  a = b
  BY DEF Bodies

LEMMA NothingChanged == ASSUME NEW b \in Blocks PROVE Changed(b, b) = {}
  BY DEF Changed

\* The injector marks sparingly.
LEMMA InjectorIsSparing == InjectionIsSparing
<1> SUFFICES ASSUME NEW body \in Bodies, NEW how \in {"aggressive", "balanced"}
             PROVE  LET out == Inject(how, body)
                        Sparing(before, after) ==
                          /\ Len(after) = Len(before)
                          /\ \A i \in Changed(before, after) :
                               i = Len(before) /\ before[i] = "plain" /\ after[i] = "marked" /\ ~HasMark(before)
                    IN  /\ Sparing(body.system, out.system) /\ Sparing(body.tools, out.tools)
                        /\ how = "balanced" =>
                             /\ Changed(body.system, out.system) = {} \/ Changed(body.tools, out.tools) = {}
                             /\ Changed(body.tools, out.tools) # {} /\ body.systemLarger =>
                                  body.system = <<>> \/ HasMark(body.system)
                        /\ how = "aggressive" => Inject(how, out) = out
  BY DEF InjectionIsSparing
<1> DEFINE out == Inject(how, body)
           s == body.system
           t == body.tools
           Sparing(before, after) ==
             /\ Len(after) = Len(before)
             /\ \A i \in Changed(before, after) :
                  i = Len(before) /\ before[i] = "plain" /\ after[i] = "marked" /\ ~HasMark(before)
<1>1. s \in Blocks /\ t \in Blocks
  BY BodiesOf
<1>2. \A b \in Blocks : Sparing(b, b) /\ Sparing(b, Mark(b))
  BY MarkIs DEF Changed
<1>3. Changed(s, s) = {} /\ Changed(t, t) = {}
  BY <1>1, NothingChanged
<1>4. CASE how = "aggressive"
  <2> DEFINE one == InjectSystem(body)
             two == InjectSystem(out)
  <2>1. out = InjectTools(one)
    BY <1>4 DEF Inject
  <2>2. one \in Bodies /\ one.system = Mark(s) /\ one.tools = t
    BY BodiesOf
  <2> HIDE DEF one, out, s, t
  <2>3. out \in Bodies /\ out.system = Mark(s) /\ out.tools = Mark(t)
    BY <2>1, <2>2, BodiesOf
  <2>4. Mark(Mark(s)) = Mark(s) /\ Mark(Mark(t)) = Mark(t)
    BY <1>1, MarkIs
  <2>5. two \in Bodies /\ two.system = out.system /\ two.tools = out.tools
        /\ two.systemLarger = out.systemLarger
    BY <2>3, <2>4, BodiesOf
  <2>6. InjectTools(two) = out
    <3> DEFINE three == InjectTools(two)
    <3> HIDE DEF two
    <3>1. three \in Bodies /\ three.system = out.system /\ three.tools = out.tools
          /\ three.systemLarger = out.systemLarger
      BY <2>3, <2>4, <2>5, BodiesOf
    <3> QED
      BY <2>3, <3>1, SameBodies
  <2>7. Inject(how, out) = out
    BY <1>4, <2>6 DEF Inject
  <2>8. Sparing(s, out.system) /\ Sparing(t, out.tools)
    BY <1>1, <1>2, <2>3
  <2> QED
    BY <1>4, <2>7, <2>8 DEF out, s, t
<1>5. CASE how = "balanced"
  <2>0. out = InjectBalanced(body)
    BY <1>5 DEF Inject
  <2>1. out = InjectTools(body) \/ out = InjectSystem(body)
    BY <2>0 DEF InjectBalanced
  <2>2. out = InjectTools(body) /\ out # InjectSystem(body) /\ body.systemLarger =>
          s = <<>> \/ HasMark(s) \/ t = <<>> \/ HasMark(t)
    BY <2>0 DEF InjectBalanced
  <2>3. CASE out = InjectSystem(body)
    <3>1. out.system = Mark(s) /\ out.tools = t
      BY <2>3, BodiesOf
    <3> HIDE DEF out, s, t
    <3>2. Sparing(s, out.system) /\ Sparing(t, out.tools) /\ Changed(t, out.tools) = {}
      BY <1>1, <1>2, <1>3, <3>1
    <3> QED
      BY <1>5, <3>2 DEF out, s, t
  <2>4. CASE out = InjectTools(body) /\ out # InjectSystem(body)
    <3>1. out.system = s /\ out.tools = Mark(t)
      BY <2>4, BodiesOf
    <3>2. t = <<>> \/ HasMark(t) => Changed(t, out.tools) = {}
      BY <1>1, <1>3, <3>1, MarkIs
    <3>3. body.systemLarger => s = <<>> \/ HasMark(s) \/ t = <<>> \/ HasMark(t)
      BY <2>2, <2>4
    <3> HIDE DEF out, s, t
    <3>4. Sparing(s, out.system) /\ Sparing(t, out.tools) /\ Changed(s, out.system) = {}
      BY <1>1, <1>2, <1>3, <3>1
    <3> QED
      BY <1>5, <3>2, <3>3, <3>4 DEF out, s, t
  <2> QED
    BY <2>1, <2>3, <2>4
<1> QED
  BY <1>4, <1>5
-----------------------------------------------------------------------------
(* The redaction of a stream.                                               *)

LEMMA LargestIn ==
  ASSUME NEW a \in Int, NEW b \in Int, NEW S \in SUBSET (a .. b), S # {}
  PROVE  /\ Max(S) \in S /\ \A x \in S : x <= Max(S)
         /\ Min(S) \in S /\ \A x \in S : Min(S) <= x
<1> DEFINE D == a .. b
<1>1. IsFiniteSet(D)
  BY ONLY a \in Int, b \in Int, FS_Interval
<1>2. D \subseteq Int /\ S \subseteq D
  OBVIOUS
<1> HIDE DEF D
<1>3. IsFiniteSet(S) /\ S \subseteq Int
  BY <1>1, <1>2, FS_Subset
<1> QED
  BY <1>3, LargestOfAny, LeastOfAny

\* The body of a head goes on up to the first symbol that is none.
LEMMA BodyEndIs ==
  ASSUME NEW t \in Seq(Symbols), NEW h \in 1 .. Len(t)
  PROVE  /\ BodyEnd(t, h) \in h .. Len(t)
         /\ \A k \in (h + 1) .. BodyEnd(t, h) : t[k] = "body"
         /\ \A j \in h .. Len(t) : (\A k \in (h + 1) .. j : t[k] = "body") => j <= BodyEnd(t, h)
         /\ BodyEnd(t, h) < Len(t) => t[BodyEnd(t, h) + 1] # "body"
<1> DEFINE n == Len(t)
           S == {j \in h .. n : \A k \in (h + 1) .. j : t[k] = "body"}
           e == BodyEnd(t, h)
<1>1. n \in Nat /\ h \in Int /\ n \in Int /\ h \in h .. n
  OBVIOUS
<1>2. h \in S
  BY <1>1
<1>3. S \in SUBSET (h .. n)
  OBVIOUS
<1>4. e = Max(S)
  BY DEF BodyEnd
<1>5. e \in S /\ \A x \in S : x <= e
  <2> HIDE DEF S, n, e
  <2> QED
    BY <1>1, <1>2, <1>3, <1>4, LargestIn
<1> HIDE DEF e
<1>6. e \in h .. n /\ \A k \in (h + 1) .. e : t[k] = "body"
  BY <1>5
<1>7. ASSUME e < n, t[e + 1] = "body" PROVE FALSE
  <2>1. e + 1 \in h .. n
    BY <1>1, <1>6, <1>7
  <2>2. \A k \in (h + 1) .. (e + 1) : k = e + 1 \/ k \in (h + 1) .. e
    BY <1>1, <1>6
  <2>3. e + 1 \in S
    BY <1>6, <1>7, <2>1, <2>2
  <2> QED
    BY <1>5, <1>6, <2>3
<1> QED
  BY <1>5, <1>6, <1>7 DEF e

\* No body goes on over another head.
LEMMA BodyEndsBefore ==
  ASSUME NEW t \in Seq(Symbols), NEW h \in 1 .. Len(t), NEW p \in 1 .. Len(t), h < p, t[p] = "head"
  PROVE  BodyEnd(t, h) < p
<1>1. BodyEnd(t, h) \in h .. Len(t) /\ \A k \in (h + 1) .. BodyEnd(t, h) : t[k] = "body"
  BY BodyEndIs
<1>2. p <= BodyEnd(t, h) => p \in (h + 1) .. BodyEnd(t, h)
  BY <1>1
<1> QED
  BY <1>1, <1>2

\* When there is more to read, a body that has ended stays as it is and any other may go on.
LEMMA BodyGrows ==
  ASSUME NEW t \in Seq(Symbols), NEW u \in Seq(Symbols), Len(t) <= Len(u),
         \A k \in 1 .. Len(t) : u[k] = t[k], NEW h \in 1 .. Len(t)
  PROVE  /\ BodyEnd(t, h) <= BodyEnd(u, h)
         /\ BodyEnd(t, h) < Len(t) => BodyEnd(u, h) = BodyEnd(t, h)
<1> DEFINE e == BodyEnd(t, h)
           d == BodyEnd(u, h)
           n == Len(t)
           m == Len(u)
<1>0. n \in Nat /\ m \in Nat /\ n <= m /\ h \in 1 .. n /\ h \in 1 .. m
  OBVIOUS
<1>1. /\ e \in h .. n /\ \A k \in (h + 1) .. e : t[k] = "body"
      /\ e < n => t[e + 1] # "body"
  BY BodyEndIs
<1>2. /\ d \in h .. m /\ \A k \in (h + 1) .. d : u[k] = "body"
      /\ \A j \in h .. m : (\A k \in (h + 1) .. j : u[k] = "body") => j <= d
  BY <1>0, BodyEndIs
<1>3. \A k \in 1 .. n : u[k] = t[k]
  OBVIOUS
<1> HIDE DEF e, d, n, m
<1>4. e <= d
  <2>1. \A k \in (h + 1) .. e : k \in 1 .. n
    BY <1>0, <1>1
  <2>2. \A k \in (h + 1) .. e : u[k] = "body"
    BY <1>1, <1>3, <2>1
  <2>3. e \in h .. m
    BY <1>0, <1>1
  <2> QED
    BY <1>2, <2>2, <2>3
<1>5. ASSUME e < n PROVE d = e
  <2>1. e + 1 \in 1 .. n /\ u[e + 1] # "body"
    BY <1>0, <1>1, <1>3, <1>5
  <2>2. e < d => e + 1 \in (h + 1) .. d
    BY <1>0, <1>1, <1>2
  <2>3. ~(e < d)
    BY <1>2, <2>1, <2>2
  <2> QED
    BY <1>0, <1>1, <1>2, <1>4, <2>3
<1> QED
  BY <1>4, <1>5 DEF e, d, n

\* What the positions of a secret are.
Secret(t, h) == t[h] = "head" /\ BodyEnd(t, h) - h >= MinBody

LEMMA SpansAre ==
  ASSUME NEW t \in Seq(Symbols), NEW f \in 1 .. Len(t) + 1
  PROVE  /\ \A h \in f .. Len(t) : Secret(t, h) => <<h, BodyEnd(t, h)>> \in Spans(t, f)
         /\ \A s \in Spans(t, f) : /\ s[1] \in f .. Len(t) /\ Secret(t, s[1])
                                   /\ s[2] = BodyEnd(t, s[1]) /\ s = <<s[1], s[2]>>
         /\ \A q : q \in Inside(Spans(t, f)) <=>
                     \E h \in f .. Len(t) : Secret(t, h) /\ q \in h .. BodyEnd(t, h)
<1>1. \A h \in f .. Len(t) : Secret(t, h) => <<h, BodyEnd(t, h)>> \in Spans(t, f)
  BY DEF Spans, Secret
<1>2. ASSUME NEW s \in Spans(t, f)
      PROVE  s[1] \in f .. Len(t) /\ Secret(t, s[1]) /\ s[2] = BodyEnd(t, s[1]) /\ s = <<s[1], s[2]>>
  <2>1. PICK h \in f .. Len(t) : Secret(t, h) /\ s = <<h, BodyEnd(t, h)>>
    BY <1>2 DEF Spans, Secret
  <2> QED
    BY <2>1
<1>3. ASSUME NEW q
      PROVE  q \in Inside(Spans(t, f)) <=> \E h \in f .. Len(t) : Secret(t, h) /\ q \in h .. BodyEnd(t, h)
  <2>1. q \in Inside(Spans(t, f)) <=> \E s \in Spans(t, f) : q \in s[1] .. s[2]
    BY DEF Inside
  <2>2. ASSUME NEW h \in f .. Len(t), Secret(t, h), q \in h .. BodyEnd(t, h)
        PROVE  \E s \in Spans(t, f) : q \in s[1] .. s[2]
    <3> DEFINE s == <<h, BodyEnd(t, h)>>
    <3>1. s \in Spans(t, f)
      BY <1>1, <2>2
    <3>2. s[1] = h /\ s[2] = BodyEnd(t, h)
      OBVIOUS
    <3> HIDE DEF s
    <3> QED
      BY <2>2, <3>1, <3>2
  <2> QED
    BY <1>2, <2>1, <2>2
<1> QED
  BY <1>1, <1>2, <1>3
\* What is written ends no earlier than the secrets in it do, and leaves nothing behind that may
\* become one, unless it has grown beyond any secret.
LEMMA InsideIs ==
  ASSUME NEW t \in Seq(Symbols), NEW q
  PROVE  q \in Inside(Spans(t, 1)) <=> \E h \in 1 .. Len(t) : Secret(t, h) /\ q \in h .. BodyEnd(t, h)
<1>1. 1 \in 1 .. Len(t) + 1
  OBVIOUS
<1> QED
  BY <1>1, SpansAre

LEMMA HeldFromIs ==
  ASSUME NEW t \in Seq(Symbols), sent \in 0 .. Len(t)
  PROVE  /\ HeldFrom(Spans(t, sent + 1), Len(t)) \in sent .. Len(t)
         /\ \A h \in (sent + 1) .. HeldFrom(Spans(t, sent + 1), Len(t)) : t[h] = "head" =>
              /\ BodyEnd(t, h) < Len(t) \/ Len(t) - h + 1 > MaxPending
              /\ Secret(t, h) => BodyEnd(t, h) <= HeldFrom(Spans(t, sent + 1), Len(t))
<1> DEFINE top == Len(t)
           sp == Spans(t, sent + 1)
           pend == Pending(sp, top)
           whole == sp \ pend
           le == LastEnd(whole)
           tail == Max({top - MaxOverlap, le, sent})
           n == HeldFrom(sp, top)
           P == {s[1] - 1 : s \in pend}
           m == Min(P)
<1>0. top \in Nat /\ sent \in Nat /\ sent <= top /\ MaxOverlap \in Nat /\ MaxPending \in Nat
      /\ MinBody \in Nat /\ MinBody <= MaxOverlap /\ MinBody < MaxPending
  <2>1. top \in Nat /\ sent \in Nat /\ sent <= top
    OBVIOUS
  <2> QED
    BY <2>1, StreamAssumption
<1>1. \A s \in sp : /\ s[1] \in (sent + 1) .. top /\ s[2] \in s[1] .. top /\ Secret(t, s[1])
                    /\ s[2] = BodyEnd(t, s[1]) /\ s = <<s[1], s[2]>>
  <2>1. sent + 1 \in 1 .. Len(t) + 1
    BY <1>0
  <2>2. \A s \in sp : /\ s[1] \in (sent + 1) .. top /\ Secret(t, s[1])
                      /\ s[2] = BodyEnd(t, s[1]) /\ s = <<s[1], s[2]>>
    BY <2>1, SpansAre
  <2>3. \A h \in (sent + 1) .. top : BodyEnd(t, h) \in h .. top
    BY <1>0, BodyEndIs
  <2> HIDE DEF sp, top
  <2> QED
    BY <2>2, <2>3
<1>2. \A h \in (sent + 1) .. top : Secret(t, h) => <<h, BodyEnd(t, h)>> \in sp
  <2>1. sent + 1 \in 1 .. Len(t) + 1
    BY <1>0
  <2> QED
    BY <2>1, SpansAre
<1>3. pend = {s \in sp : s[2] = top /\ top - s[1] + 1 <= MaxPending}
  BY DEF Pending
<1>4. n = IF pend = {} THEN tail ELSE Min({tail, m})
  BY DEF HeldFrom
<1>5. le = IF whole = {} THEN 0 ELSE Max({s[2] : s \in whole})
  BY DEF LastEnd
<1> HIDE DEF n, pend, sp, top
<1>6. le \in 0 .. top /\ (\A s \in whole : s[2] <= le) /\ (le # 0 => \E s \in whole : s[2] = le)
  <2>1. CASE whole = {}
    BY <1>0, <1>5, <2>1
  <2>2. CASE whole # {}
    <3> DEFINE S == {s[2] : s \in whole}
    <3>1. S \in SUBSET (0 .. top) /\ S # {}
      BY <1>0, <1>1, <2>2
    <3>2. le = Max(S)
      BY <1>5, <2>2
    <3>3. Max(S) \in S /\ \A x \in S : x <= Max(S)
      <4> HIDE DEF S
      <4>1. 0 \in Int /\ top \in Int
        BY <1>0
      <4> QED
        BY <3>1, <4>1, LargestIn
    <3> HIDE DEF le
    <3> QED
      BY <3>1, <3>2, <3>3
  <2> QED
    BY <2>1, <2>2
<1> HIDE DEF le
<1>7. tail \in sent .. top /\ le <= tail /\ tail \in {top - MaxOverlap, le, sent}
  <2> DEFINE S == {top - MaxOverlap, le, sent}
  <2>1. S \in SUBSET ((0 - MaxOverlap) .. top) /\ S # {} /\ 0 - MaxOverlap \in Int /\ top \in Int
    BY <1>0, <1>6
  <2>2. Max(S) \in S /\ \A x \in S : x <= Max(S)
    <3> HIDE DEF S
    <3> QED
      BY <2>1, LargestIn
  <2> QED
    BY <1>0, <1>6, <2>2
<1> HIDE DEF tail
<1>8. ASSUME pend # {}
      PROVE  /\ m \in sent .. top /\ (\A s \in pend : m <= s[1] - 1) /\ \E s \in pend : m = s[1] - 1
  <2>1. P \in SUBSET (sent .. top) /\ P # {} /\ sent \in Int /\ top \in Int
    BY <1>0, <1>1, <1>3, <1>8, SMTT(60)
  <2>2. m \in P /\ \A x \in P : m <= x
    <3> HIDE DEF P
    <3> QED
      BY <2>1, LargestIn
  <2> HIDE DEF m
  <2> QED
    BY <2>1, <2>2
<1> HIDE DEF m
<1>9. /\ n \in sent .. top /\ n <= tail
      /\ pend = {} => n = tail
      /\ pend # {} => n <= m /\ (n = tail \/ n = m)
  <2>1. CASE pend = {}
    BY <1>4, <1>7, <2>1, <1>0
  <2>2. CASE pend # {}
    <3>1. m \in Int /\ tail \in Int /\ m \in sent .. top
      BY <1>0, <1>7, <1>8, <2>2
    <3>2. Min({tail, m}) = IF tail <= m THEN tail ELSE m
      BY <3>1, LeastOfTwo
    <3> QED
      BY <1>0, <1>4, <1>7, <2>2, <3>1, <3>2
  <2> QED
    BY <2>1, <2>2
<1>10. ASSUME NEW h \in (sent + 1) .. n, t[h] = "head"
       PROVE  /\ BodyEnd(t, h) < top \/ top - h + 1 > MaxPending
              /\ Secret(t, h) => BodyEnd(t, h) <= n
  <2> DEFINE e == BodyEnd(t, h)
  <2>1. h \in (sent + 1) .. top /\ h \in 1 .. Len(t) /\ h \in Nat /\ h <= n /\ n \in Int
    BY <1>0, <1>9 DEF top
  <2>2. e \in h .. top /\ e \in Nat
    BY <2>1, BodyEndIs DEF top
  <2> HIDE DEF e
  <2>3. \A i \in 1 .. top : t[i] = "head" => (h < i => e < i) /\ (i < h => BodyEnd(t, i) < h)
    <3> SUFFICES ASSUME NEW i \in 1 .. Len(t), t[i] = "head"
                 PROVE  (h < i => BodyEnd(t, h) < i) /\ (i < h => BodyEnd(t, i) < h)
      BY DEF top, e
    <3> QED
      BY <1>10, <2>1, BodyEndsBefore
  <2>4. CASE Secret(t, h)
    <3> DEFINE s == <<h, e>>
    <3>1. s \in sp /\ s[1] = h /\ s[2] = e
      BY <1>2, <2>1, <2>4 DEF e
    <3> HIDE DEF s
    <3>2. s \notin pend
      <4> SUFFICES ASSUME s \in pend PROVE FALSE
        OBVIOUS
      <4>1. n <= m /\ m <= h - 1 /\ m \in Int
        BY <1>0, <1>8, <1>9, <3>1
      <4> QED
        BY <2>1, <4>1
    <3>3. e <= le /\ le \in Int /\ tail \in Int
      BY <1>0, <1>6, <1>7, <3>1, <3>2
    <3>4. e < top \/ top - h + 1 > MaxPending
      BY <1>0, <1>3, <2>1, <2>2, <3>1, <3>2
    <3>5. CASE n = tail
      BY <1>7, <2>2, <3>3, <3>4, <3>5 DEF e
    <3>6. CASE n # tail
      <4>1. PICK p \in pend : m = p[1] - 1
        BY <1>8, <1>9, <3>6
      <4>2. n = m /\ p \in sp
        BY <1>3, <1>9, <3>6, <4>1
      <4>3. p[1] \in (sent + 1) .. top /\ t[p[1]] = "head"
        BY <1>1, <4>2 DEF Secret
      <4>4. p[1] \in 1 .. top /\ h < p[1]
        BY <1>0, <2>1, <4>1, <4>2, <4>3
      <4>5. e < p[1]
        BY <2>3, <4>3, <4>4
      <4> QED
        BY <2>2, <3>4, <4>1, <4>2, <4>4, <4>5 DEF e
    <3> QED
      BY <3>5, <3>6
  <2>5. CASE ~Secret(t, h)
    <3>1. e - h < MinBody
      BY <1>0, <1>10, <2>1, <2>2, <2>5 DEF Secret, e
    <3>2. ASSUME e = top PROVE FALSE
      <4>1. h > top - MaxOverlap
        BY <1>0, <2>1, <3>1, <3>2
      <4>2. tail = le /\ h <= le /\ le # 0
        BY <1>0, <1>6, <1>7, <1>9, <2>1, <4>1
      <4>3. PICK s \in whole : s[2] = le
        BY <1>6, <4>2
      <4>4. s \in sp
        BY <4>3
      <4>5. /\ s[1] \in (sent + 1) .. top /\ Secret(t, s[1]) /\ s[2] = BodyEnd(t, s[1])
            /\ s[2] \in s[1] .. top
        BY <1>1, <4>4
      <4>6. s[1] \in 1 .. top /\ t[s[1]] = "head" /\ s[1] \in Int
        BY <1>0, <4>5 DEF Secret
      <4>7. s[1] # h
        BY <2>5, <4>5
      <4>8. CASE s[1] < h
        <5>1. s[2] < h
          BY <2>3, <4>5, <4>6, <4>8
        <5> QED
          BY <1>6, <1>0, <2>1, <4>2, <4>3, <5>1
      <4>9. CASE h < s[1]
        <5>1. e < s[1]
          BY <2>3, <4>6, <4>9
        <5> QED
          BY <1>0, <3>2, <4>6, <5>1
      <4> QED
        BY <2>1, <4>6, <4>7, <4>8, <4>9
    <3> QED
      BY <1>0, <2>2, <2>5, <3>2 DEF e
  <2> QED
    BY <2>4, <2>5
<1> QED
  BY <1>9, <1>10 DEF n, sp, top
\* What has been shown of a stream up to its n-th symbol is sound: a secret that begins there has
\* ended there, or has grown beyond any; nothing of it is shown, and nothing else is hidden.
HeadSound(t, n, shown, h) ==
  \/ /\ BodyEnd(t, h) < Len(t)
     /\ Secret(t, h) => BodyEnd(t, h) <= n /\ shown \cap (h .. BodyEnd(t, h)) = {}
  \/ /\ Secret(t, h) /\ h + MaxPending - 1 <= n /\ shown \cap (h .. h + MaxPending - 1) = {}
ShownSound(t, n, shown) ==
  /\ t \in Seq(Symbols) /\ n \in 0 .. Len(t) /\ shown \subseteq 1 .. n
  /\ \A h \in 1 .. n : t[h] = "head" => HeadSound(t, n, shown, h)
  /\ (1 .. n) \ Inside(Spans(t, 1)) \subseteq shown
NoSplit(t, shown) ==
  \A s \in Spans(t, 1) : shown \cap (s[1] .. Min({s[2], s[1] + MaxPending - 1})) = {}

LEMMA ShownGrows ==
  ASSUME NEW t, NEW n, NEW shown, ShownSound(t, n, shown),
         NEW u \in Seq(Symbols), Len(t) <= Len(u), \A k \in 1 .. Len(t) : u[k] = t[k]
  PROVE  ShownSound(u, n, shown)
<1>1. t \in Seq(Symbols) /\ n \in 0 .. Len(t) /\ Len(t) \in Nat /\ Len(u) \in Nat /\ n \in 0 .. Len(u)
  BY DEF ShownSound
<1>2. \A h \in 1 .. Len(t) : /\ BodyEnd(t, h) <= BodyEnd(u, h) /\ u[h] = t[h]
                             /\ BodyEnd(t, h) < Len(t) => BodyEnd(u, h) = BodyEnd(t, h)
                             /\ BodyEnd(t, h) \in h .. Len(t) /\ BodyEnd(u, h) \in h .. Len(u)
  <2> SUFFICES ASSUME NEW h \in 1 .. Len(t)
               PROVE  /\ BodyEnd(t, h) <= BodyEnd(u, h) /\ u[h] = t[h]
                      /\ BodyEnd(t, h) < Len(t) => BodyEnd(u, h) = BodyEnd(t, h)
                      /\ BodyEnd(t, h) \in h .. Len(t) /\ BodyEnd(u, h) \in h .. Len(u)
    OBVIOUS
  <2>1. h \in 1 .. Len(u)
    BY <1>1
  <2>2. BodyEnd(t, h) \in h .. Len(t) /\ BodyEnd(u, h) \in h .. Len(u)
    BY <1>1, <2>1, BodyEndIs
  <2> QED
    BY <1>1, <2>2, BodyGrows
<1>3. \A h \in 1 .. Len(t) : Secret(t, h) => Secret(u, h)
  <2> SUFFICES ASSUME NEW h \in 1 .. Len(t), Secret(t, h) PROVE Secret(u, h)
    OBVIOUS
  <2> QED
    BY <1>1, <1>2, StreamAssumption, SMTT(60) DEF Secret
<1>4. ASSUME NEW h \in 1 .. n, u[h] = "head" PROVE HeadSound(u, n, shown, h)
  <2>1. h \in 1 .. Len(t) /\ t[h] = "head"
    BY <1>1, <1>2, <1>4, SMTT(60)
  <2>2. HeadSound(t, n, shown, h)
    BY <2>1 DEF ShownSound
  <2>3. CASE BodyEnd(t, h) < Len(t) /\ (Secret(t, h) => BodyEnd(t, h) <= n /\ shown \cap (h .. BodyEnd(t, h)) = {})
    <3>1. BodyEnd(u, h) = BodyEnd(t, h) /\ BodyEnd(u, h) < Len(u)
      BY <1>1, <1>2, <2>1, <2>3
    <3>2. Secret(u, h) => Secret(t, h)
      BY <2>1, <3>1 DEF Secret
    <3> QED
      BY <2>3, <3>1, <3>2 DEF HeadSound
  <2>4. CASE Secret(t, h) /\ h + MaxPending - 1 <= n /\ shown \cap (h .. h + MaxPending - 1) = {}
    BY <1>3, <2>1, <2>4 DEF HeadSound
  <2> QED
    BY <2>2, <2>3, <2>4 DEF HeadSound
<1>5. ASSUME NEW q \in 1 .. n, q \in Inside(Spans(t, 1)) PROVE q \in Inside(Spans(u, 1))
  <2>1. t \in Seq(Symbols) /\ u \in Seq(Symbols)
    BY <1>1
  <2>2. PICK h \in 1 .. Len(t) : Secret(t, h) /\ q \in h .. BodyEnd(t, h)
    BY <1>5, <2>1, InsideIs
  <2>3. /\ Secret(u, h) /\ BodyEnd(t, h) <= BodyEnd(u, h)
        /\ BodyEnd(t, h) \in h .. Len(t) /\ BodyEnd(u, h) \in h .. Len(u)
    BY <1>2, <1>3, <2>2
  <2> DEFINE d == BodyEnd(t, h)
             e == BodyEnd(u, h)
  <2>4. /\ h \in 1 .. Len(t) /\ q \in h .. d /\ d <= e /\ d \in h .. Len(t) /\ e \in h .. Len(u)
        /\ Len(t) \in Nat /\ Len(u) \in Nat
    BY <1>1, <2>2, <2>3
  <2> HIDE DEF d, e
  <2>5. h \in 1 .. Len(u) /\ q \in h .. e
    BY <2>4
  <2> QED
    BY <2>1, <2>3, <2>5, InsideIs DEF e
<1> QED
  BY <1>1, <1>4, <1>5 DEF ShownSound

LEMMA ShownNext ==
  ASSUME NEW t, NEW n, NEW shown, ShownSound(t, n, shown), NEW m \in n .. Len(t),
         \A h \in (n + 1) .. m : t[h] = "head" =>
           /\ BodyEnd(t, h) < Len(t) \/ Len(t) - h + 1 > MaxPending
           /\ Secret(t, h) => BodyEnd(t, h) <= m
  PROVE  ShownSound(t, m, shown \cup (((n + 1) .. m) \ Inside({s \in Spans(t, n + 1) : s[2] <= m})))
<1> DEFINE now == shown \cup (((n + 1) .. m) \ Inside({s \in Spans(t, n + 1) : s[2] <= m}))
           top == Len(t)
<1>1. t \in Seq(Symbols) /\ n \in 0 .. top /\ top \in Nat /\ n \in Nat /\ m \in Nat /\ n <= m /\ m <= top
      /\ shown \subseteq 1 .. n /\ n + 1 \in 1 .. top + 1 /\ 1 \in 1 .. top + 1
  BY DEF ShownSound
<1>2. \A h \in 1 .. top : BodyEnd(t, h) \in h .. top
  BY <1>1, BodyEndIs
<1>3. \A h \in (n + 1) .. top : Secret(t, h) /\ BodyEnd(t, h) <= m => now \cap (h .. BodyEnd(t, h)) = {}
  <2> SUFFICES ASSUME NEW h \in (n + 1) .. top, Secret(t, h), BodyEnd(t, h) <= m,
                      NEW q \in h .. BodyEnd(t, h), q \in now
               PROVE  FALSE
    OBVIOUS
  <2>1. q \notin shown
    BY <1>1
  <2>2. <<h, BodyEnd(t, h)>> \in Spans(t, n + 1)
    BY <1>1, SpansAre
  <2>3. q \in Inside({s \in Spans(t, n + 1) : s[2] <= m})
    <3> DEFINE s == <<h, BodyEnd(t, h)>>
    <3>1. s \in Spans(t, n + 1) /\ s[1] = h /\ s[2] = BodyEnd(t, h)
      BY <2>2
    <3> HIDE DEF s
    <3> QED
      BY <3>1 DEF Inside
  <2> QED
    BY <2>1, <2>3
<1>4. now \subseteq 1 .. m /\ \A q \in now : q \in shown \/ q > n
  <2> SUFFICES ASSUME NEW q \in now PROVE q \in 1 .. m /\ (q \in shown \/ q > n)
    OBVIOUS
  <2>1. q \in shown \/ q \in (n + 1) .. m
    OBVIOUS
  <2>2. q \in shown => q \in 1 .. n
    BY <1>1
  <2> HIDE DEF now
  <2> QED
    BY <1>1, <2>1, <2>2
<1>5. \A q \in (1 .. m) \ Inside(Spans(t, 1)) : q \in now
  <2> SUFFICES ASSUME NEW q \in 1 .. m, q \notin Inside(Spans(t, 1)) PROVE q \in now
    OBVIOUS
  <2>1. CASE q \in 1 .. n
    BY <2>1 DEF ShownSound
  <2>2. CASE q \in (n + 1) .. m
    <3> SUFFICES ASSUME q \in Inside({s \in Spans(t, n + 1) : s[2] <= m}) PROVE FALSE
      BY <2>2
    <3>1. q \in Inside(Spans(t, n + 1))
      BY DEF Inside
    <3>2. PICK h \in (n + 1) .. top : Secret(t, h) /\ q \in h .. BodyEnd(t, h)
      BY <1>1, <3>1, SpansAre
    <3>3. h \in 1 .. top
      BY <1>1
    <3> QED
      BY <1>1, <3>2, <3>3, SpansAre
  <2> QED
    BY <1>1, <2>1, <2>2
<1> HIDE DEF now
<1>6. ASSUME NEW h \in 1 .. m, t[h] = "head" PROVE HeadSound(t, m, now, h)
  <2>0. h \in 1 .. top /\ h \in Nat /\ BodyEnd(t, h) \in h .. top
    BY <1>1, <1>2
  <2>1. CASE h <= n
    <3>1. HeadSound(t, n, shown, h)
      BY <1>1, <1>6, <2>1 DEF ShownSound
    <3>2. \A b \in Int : b <= n /\ shown \cap (h .. b) = {} => now \cap (h .. b) = {} /\ b <= m
      BY <1>1, <1>4
    <3>3. BodyEnd(t, h) \in Int /\ h + MaxPending - 1 \in Int
      BY <2>0, StreamAssumption
    <3> QED
      BY <3>1, <3>2, <3>3 DEF HeadSound
  <2>2. CASE h > n
    <3>0. h \in (n + 1) .. m /\ h \in (n + 1) .. top
      BY <1>1, <2>0, <2>2
    <3>1. /\ BodyEnd(t, h) < top \/ top - h + 1 > MaxPending
          /\ Secret(t, h) => BodyEnd(t, h) <= m /\ now \cap (h .. BodyEnd(t, h)) = {}
      BY <1>3, <1>6, <3>0
    <3>2. CASE BodyEnd(t, h) < top
      BY <3>1, <3>2 DEF HeadSound
    <3>3. CASE ~(BodyEnd(t, h) < top)
      <4>1. BodyEnd(t, h) = top /\ top - h + 1 > MaxPending
        BY <1>1, <2>0, <3>1, <3>3
      <4>2. Secret(t, h)
        BY <1>1, <1>6, <2>0, <4>1, StreamAssumption DEF Secret
      <4>3. m = top /\ h + MaxPending - 1 <= top
        BY <1>1, <2>0, <3>1, <4>1, <4>2, StreamAssumption
      <4>4. now \cap (h .. top) = {}
        BY <3>1, <4>1, <4>2
      <4>5. \A q \in h .. h + MaxPending - 1 : q \in h .. top
        BY <1>1, <2>0, <4>3, StreamAssumption
      <4>6. now \cap (h .. h + MaxPending - 1) = {}
        BY <4>4, <4>5
      <4> QED
        BY <4>2, <4>3, <4>6 DEF HeadSound
    <3> QED
      BY <3>2, <3>3
  <2> QED
    BY <1>1, <2>0, <2>1, <2>2
<1>7. m \in 0 .. Len(t)
  BY <1>1
<1>8. ShownSound(t, m, now)
  BY <1>1, <1>4, <1>5, <1>6, <1>7 DEF ShownSound
<1> QED
  BY <1>8 DEF now

LEMMA ShownProtects ==
  ASSUME NEW t, NEW n, NEW shown, ShownSound(t, n, shown)
  PROVE  /\ NoSplit(t, shown)
         /\ NoSplit(t, shown \cup (((n + 1) .. Len(t)) \ Inside(Spans(t, n + 1))))
         /\ (1 .. Len(t)) \ Inside(Spans(t, 1))
              \subseteq shown \cup (((n + 1) .. Len(t)) \ Inside(Spans(t, n + 1)))
<1> DEFINE top == Len(t)
           now == shown \cup (((n + 1) .. top) \ Inside(Spans(t, n + 1)))
<1>1. t \in Seq(Symbols) /\ n \in 0 .. top /\ top \in Nat /\ n \in Nat /\ n <= top
      /\ shown \subseteq 1 .. n /\ n + 1 \in 1 .. top + 1 /\ 1 \in 1 .. top + 1
  BY DEF ShownSound
<1>2. \A q \in now : q \in shown \/ (q \in (n + 1) .. top /\ q \notin Inside(Spans(t, n + 1)))
  OBVIOUS
<1>3. ASSUME NEW q \in 1 .. top, q \notin Inside(Spans(t, 1)) PROVE q \in now
  <2>1. CASE q \in 1 .. n
    BY <1>3, <2>1 DEF ShownSound
  <2>2. CASE q \in (n + 1) .. top
    <3> SUFFICES ASSUME q \in Inside(Spans(t, n + 1)) PROVE FALSE
      BY <2>2
    <3>1. PICK h \in (n + 1) .. top : Secret(t, h) /\ q \in h .. BodyEnd(t, h)
      BY <1>1, SpansAre
    <3>2. h \in 1 .. top
      BY <1>1
    <3> QED
      BY <1>1, <1>3, <3>1, <3>2, SpansAre
  <2> QED
    BY <1>1, <2>1, <2>2
<1> HIDE DEF now
<1>4. ASSUME NEW s \in Spans(t, 1), NEW q \in s[1] .. Min({s[2], s[1] + MaxPending - 1}), q \in now \cup shown
      PROVE  FALSE
  <2> DEFINE h == s[1]
             e == s[2]
  <2>1. h \in 1 .. top /\ Secret(t, h) /\ e = BodyEnd(t, h)
    BY <1>1, SpansAre
  <2>2. e \in h .. top /\ h \in Nat /\ e \in Nat /\ t[h] = "head"
    BY <1>1, <2>1, BodyEndIs DEF Secret
  <2>3. q \in h .. Min({e, h + MaxPending - 1})
    OBVIOUS
  <2> HIDE DEF h, e
  <2>4. h + MaxPending - 1 \in Int /\ e \in Int
    BY <2>2, StreamAssumption
  <2>5. Min({e, h + MaxPending - 1}) = IF e <= h + MaxPending - 1 THEN e ELSE h + MaxPending - 1
    BY <2>4, LeastOfTwo
  <2>6. q \in Int /\ h <= q /\ q <= e /\ q <= h + MaxPending - 1 /\ q \in h .. e /\ q \in h .. h + MaxPending - 1
    BY <2>2, <2>3, <2>4, <2>5
  <2>7. CASE h > n
    <3>1. q \notin shown
      BY <1>1, <2>2, <2>6, <2>7
    <3>2. h \in (n + 1) .. top
      BY <1>1, <2>1, <2>2, <2>7
    <3>3. q \in Inside(Spans(t, n + 1))
      BY <1>1, <2>1, <2>6, <3>2, SpansAre
    <3> QED
      BY <1>2, <1>4, <3>1, <3>3
  <2>8. CASE h <= n
    <3>1. HeadSound(t, n, shown, h)
      BY <1>1, <2>1, <2>2, <2>8 DEF ShownSound
    <3>2. q <= n /\ q \notin shown
      BY <1>1, <2>1, <2>2, <2>4, <2>6, <3>1 DEF HeadSound
    <3> QED
      BY <1>1, <1>2, <1>4, <2>6, <3>2
  <2> QED
    BY <1>1, <2>2, <2>7, <2>8
<1>5. NoSplit(t, shown)
  BY <1>4 DEF NoSplit
<1>6. NoSplit(t, now)
  BY <1>4 DEF NoSplit
<1> QED
  BY <1>3, <1>5, <1>6 DEF now

StreamInv == /\ stream \in {"open", "ended", "failed"}
             /\ stream = "open" => ShownSound(read, sent, plain)
             /\ StreamIsSound

LEMMA StreamInitially == RSInit => StreamInv
<1> SUFFICES ASSUME RSInit PROVE StreamInv
  OBVIOUS
<1>1. ShownSound(read, sent, plain)
  <2>1. read \in Seq(Symbols) /\ Len(read) = 0 /\ sent = 0 /\ plain = {}
    BY EmptySeq DEF RSInit
  <2> QED
    BY <2>1 DEF ShownSound
<1>2. NoSplit(read, plain)
  BY <1>1, ShownProtects
<1> QED
  BY <1>1, <1>2 DEF RSInit, StreamInv, StreamIsSound, NoSecretIsSplit, NothingElseIsHidden, NoSplit

LEMMA StreamStep == StreamInv /\ [RSNext]_streamVars => StreamInv'
<1> SUFFICES ASSUME StreamInv, [RSNext]_streamVars PROVE StreamInv'
  OBVIOUS
<1>1. ASSUME NEW piece \in Pieces, ReadStream(piece) PROVE StreamInv'
  <2>1. stream = "open" /\ stream' = "open" /\ read' = read \o piece
    BY <1>1 DEF ReadStream
  <2>2. ShownSound(read, sent, plain) /\ read \in Seq(Symbols)
    BY <2>1 DEF StreamInv, ShownSound
  <2>3. piece \in Seq(Symbols)
    BY StreamAssumption DEF Pieces
  <2>4. read' \in Seq(Symbols) /\ Len(read) <= Len(read') /\ \A k \in 1 .. Len(read) : read'[k] = read[k]
    <3>1. /\ read' \in Seq(Symbols) /\ Len(read') = Len(read) + Len(piece)
          /\ \A k \in 1 .. Len(read) + Len(piece) :
               read'[k] = IF k <= Len(read) THEN read[k] ELSE piece[k - Len(read)]
      BY <2>1, <2>2, <2>3, ConcatProperties
    <3>2. Len(read) \in Nat /\ Len(piece) \in Nat
      BY <2>2, <2>3
    <3> QED
      BY <3>1, <3>2
  <2>5. ShownSound(read', sent, plain)
    BY <2>2, <2>4, ShownGrows
  <2>6. ShownSound(read', sent', plain')
    <3>1. CASE UNCHANGED <<sent, plain>>
      BY <2>5, <3>1
    <3>2. CASE ~UNCHANGED <<sent, plain>>
      <4> DEFINE n == HeldFrom(Spans(read', sent + 1), Len(read'))
      <4>1. Emit(read', {s \in Spans(read', sent + 1) : s[2] <= n}, n)
        BY <1>1, <3>2 DEF ReadStream
      <4>2. sent' = n /\ plain' = plain \cup (((sent + 1) .. n) \ Inside({s \in Spans(read', sent + 1) : s[2] <= n}))
        BY <4>1 DEF Emit
      <4>3. sent \in 0 .. Len(read')
        BY <2>5 DEF ShownSound
      <4>4. /\ n \in sent .. Len(read')
            /\ \A h \in (sent + 1) .. n : read'[h] = "head" =>
                 /\ BodyEnd(read', h) < Len(read') \/ Len(read') - h + 1 > MaxPending
                 /\ Secret(read', h) => BodyEnd(read', h) <= n
        BY <2>4, <4>3, HeldFromIs
      <4> HIDE DEF n
      <4>5. ShownSound(read', n, plain \cup (((sent + 1) .. n) \ Inside({s \in Spans(read', sent + 1) : s[2] <= n})))
        BY <2>5, <4>4, ShownNext
      <4> QED
        BY <4>2, <4>5
    <3> QED
      BY <3>1, <3>2
  <2>7. NoSplit(read', plain')
    BY <2>6, ShownProtects
  <2> QED
    BY <2>1, <2>6, <2>7 DEF StreamInv, StreamIsSound, NoSecretIsSplit, NothingElseIsHidden, NoSplit
<1>2. CASE EndStream
  <2>1. /\ stream = "open" /\ stream' = "ended" /\ read' = read /\ sent' = Len(read)
        /\ plain' = plain \cup (((sent + 1) .. Len(read)) \ Inside(Spans(read, sent + 1)))
    BY <1>2 DEF EndStream, Emit
  <2>2. ShownSound(read, sent, plain)
    BY <2>1 DEF StreamInv
  <2>3. /\ NoSplit(read, plain \cup (((sent + 1) .. Len(read)) \ Inside(Spans(read, sent + 1))))
        /\ (1 .. Len(read)) \ Inside(Spans(read, 1))
             \subseteq plain \cup (((sent + 1) .. Len(read)) \ Inside(Spans(read, sent + 1)))
    BY <2>2, ShownProtects
  <2>4. NoSplit(read, plain') /\ (1 .. Len(read)) \ Inside(Spans(read, 1)) \subseteq plain'
    BY <2>1, <2>3
  <2> QED
    BY <2>1, <2>4 DEF StreamInv, StreamIsSound, NoSecretIsSplit, NothingElseIsHidden, NoSplit
<1>3. CASE FailStream
  BY <1>3 DEF FailStream, StreamInv, StreamIsSound, NoSecretIsSplit, NothingElseIsHidden
<1>4. CASE UNCHANGED streamVars
  BY <1>4 DEF streamVars, StreamInv, StreamIsSound, NoSecretIsSplit, NothingElseIsHidden
<1> QED
  BY <1>1, <1>2, <1>3, <1>4 DEF RSNext
-----------------------------------------------------------------------------
(* The results of tools: folds over sequences, place by place.              *)

\* What holds of nothing and from one place to the next holds all along.
LEMMA Climbs ==
  ASSUME NEW n \in Nat, NEW X \in SUBSET (0 .. n), 0 \in X, \A m \in 1 .. n : m - 1 \in X => m \in X
  PROVE  \A m \in 0 .. n : m \in X
<1> DEFINE Y == {m \in 0 .. n : m \notin X}
<1>1. SUFFICES ASSUME Y # {} PROVE FALSE
  OBVIOUS
<1>2. Y \in SUBSET (0 .. n) /\ 0 \in Int /\ n \in Int
  OBVIOUS
<1>3. Min(Y) \in Y /\ \A y \in Y : Min(Y) <= y
  <2> HIDE DEF Y
  <2> QED
    BY <1>1, <1>2, LargestIn
<1> DEFINE m == Min(Y)
<1>4. m \in 1 .. n /\ m \notin X
  BY <1>3
<1>5. m - 1 \in 0 .. n /\ ~ (m <= m - 1)
  BY <1>4
<1>6. m - 1 \in X
  BY <1>3, <1>5
<1> QED
  BY <1>4, <1>6

\* The places up to one.
LEMMA UpTo ==
  ASSUME NEW n \in Nat, NEW m \in 0 .. n
  PROVE  /\ 1 .. m \in SUBSET (1 .. n) /\ (m = 0 <=> 1 .. m = {})
         /\ m # 0 => Max(1 .. m) = m /\ (1 .. m) \ {m} = 1 .. m - 1 /\ m \in 1 .. n
<1>1. 1 .. m \in SUBSET (1 .. n) /\ (m = 0 <=> 1 .. m = {})
  OBVIOUS
<1>2. ASSUME m # 0 PROVE Max(1 .. m) = m /\ (1 .. m) \ {m} = 1 .. m - 1 /\ m \in 1 .. n
  <2>1. m - 1 \in Nat /\ (m - 1) + 1 = m /\ m \in 1 .. n
    BY <1>2
  <2>2. Max(1 .. (m - 1) + 1) = (m - 1) + 1 /\ (1 .. (m - 1) + 1) \ {(m - 1) + 1} = 1 .. m - 1
    BY <2>1, LastOfPrefix
  <2> QED
    BY <2>1, <2>2
<1> QED
  BY <1>1, <1>2

\* A fold from the left, as a function of sets of places, goes through the values of the
\* beginnings.
StaysIn(h, n, V) == \A x \in 1 .. n, v \in V : h[<<x, v>>] \in V
FoldsBy(f, base, h, n, V) ==
  /\ f[{}] = base
  /\ \A q \in SUBSET (1 .. n) : q # {} /\ f[q \ {Max(q)}] \in V
       => f[q] = h[<<Max(q), f[q \ {Max(q)}]>>]
RunsBy(g, f, base, h, n, V) ==
  /\ g \in [0 .. n -> V] /\ g[0] = base /\ g[n] = f[1 .. n]
  /\ \A m \in 1 .. n : g[m] = h[<<m, g[m - 1]>>]

LEMMA FoldRuns ==
  ASSUME NEW n \in Nat, NEW V, NEW base \in V, NEW h, StaysIn(h, n, V),
         NEW f, FoldsBy(f, base, h, n, V)
  PROVE  \E g : RunsBy(g, f, base, h, n, V)
<1> DEFINE g == [m \in 0 .. n |-> f[1 .. m]]
           X == {m \in 0 .. n : g[m] \in V}
<1>1. 0 \in 0 .. n /\ n \in 0 .. n
  OBVIOUS
<1>2. g[0] = base
  <2>1. 1 .. 0 = {}
    OBVIOUS
  <2> QED
    BY <1>1, <2>1 DEF FoldsBy
<1>3. ASSUME NEW m \in 1 .. n, g[m - 1] \in V PROVE g[m] = h[<<m, g[m - 1]>>] /\ g[m] \in V
  <2>1. m \in 0 .. n /\ m - 1 \in 0 .. n /\ m # 0
    OBVIOUS
  <2>2. 1 .. m \in SUBSET (1 .. n) /\ 1 .. m # {} /\ Max(1 .. m) = m /\ (1 .. m) \ {m} = 1 .. m - 1
    BY <2>1, UpTo
  <2>3. g[m] = f[1 .. m] /\ g[m - 1] = f[1 .. m - 1]
    BY <2>1
  <2>4. f[1 .. m] = h[<<m, f[1 .. m - 1]>>]
    BY <1>3, <2>2, <2>3 DEF FoldsBy
  <2> HIDE DEF g
  <2> QED
    BY <1>3, <2>3, <2>4 DEF StaysIn
<1>4. \A m \in 0 .. n : m \in X
  <2>1. X \in SUBSET (0 .. n) /\ 0 \in X
    BY <1>1, <1>2
  <2>2. \A m \in 1 .. n : m - 1 \in 0 .. n /\ m \in 0 .. n
    OBVIOUS
  <2>3. \A m \in 1 .. n : m - 1 \in X => m \in X
    <3> HIDE DEF g
    <3> QED
      BY <1>3, <2>2
  <2> HIDE DEF X
  <2> QED
    BY <2>1, <2>3, Climbs
<1>5. g \in [0 .. n -> V]
  BY <1>4
<1>6. \A m \in 1 .. n : g[m] = h[<<m, g[m - 1]>>]
  <2>1. \A m \in 1 .. n : m - 1 \in 0 .. n
    OBVIOUS
  <2>2. \A m \in 1 .. n : g[m - 1] \in V
    BY <1>4, <2>1
  <2> HIDE DEF g
  <2> QED
    BY <1>3, <2>2
<1>7. RunsBy(g, f, base, h, n, V)
  <2>1. g[n] = f[1 .. n]
    BY <1>1
  <2> HIDE DEF g
  <2> QED
    BY <1>2, <1>5, <1>6, <2>1 DEF RunsBy
<1> QED
  BY <1>7

\* Two runs that go on alike are the same all along.
LEMMA RunsAgree ==
  ASSUME NEW n \in Nat, NEW f, NEW g, f[0] = g[0], \A m \in 1 .. n : f[m - 1] = g[m - 1] => f[m] = g[m]
  PROVE  f[n] = g[n]
<1> DEFINE X == {m \in 0 .. n : f[m] = g[m]}
<1>1. X \in SUBSET (0 .. n) /\ 0 \in X
  OBVIOUS
<1>2. \A m \in 1 .. n : m - 1 \in X => m \in X
  OBVIOUS
<1>3. \A m \in 0 .. n : m \in X
  <2> HIDE DEF X
  <2> QED
    BY <1>1, <1>2, Climbs
<1> QED
  BY <1>3
\* The total width of a text.
Totals(f, s) ==
  f = [q \in SUBSET DOMAIN s |-> IF q = {} THEN 0 ELSE f[q \ {Max(q)}] + s[Max(q)]]

LEMMA TotalGoes ==
  ASSUME NEW s \in Seq(Nat)
  PROVE  \E g \in [0 .. Len(s) -> Nat] :
           /\ g[0] = 0 /\ g[Len(s)] = Total(s)
           /\ \A m \in 1 .. Len(s) : g[m] = g[m - 1] + s[m]
<1> DEFINE n == Len(s)
           V == Nat
           base == 0
           h == [q \in (1 .. n) \X V |-> q[2] + s[q[1]]]
           f == CHOOSE x : Totals(x, s)
<1>1. n \in Nat /\ DOMAIN s = 1 .. n /\ \A i \in 1 .. n : s[i] \in Nat
  OBVIOUS
<1>2. base \in V
  OBVIOUS
<1>3. \A i \in 1 .. n, v \in V : v + s[i] \in V
  BY <1>1
<1>4. \A i \in 1 .. n, v \in V : h[<<i, v>>] = v + s[i]
  OBVIOUS
<1>5. Total(s) = f[DOMAIN s]
  BY DEF Total, Totals, FoldLeft, MapThenFoldSet
<1>6. \A x : Totals(x, s)
        <=> x = [q \in SUBSET DOMAIN s |-> IF q = {} THEN base ELSE x[q \ {Max(q)}] + s[Max(q)]]
  BY DEF Totals
<1> HIDE DEF h, n, V, base
<1>7. \A i \in 1 .. n, v \in V : h[<<i, v>>] \in V
  BY <1>3, <1>4
<1>8. \E x : Totals(x, s)
  <2>1. PICK x : FoldsInOrder(x, base, h, n) /\ \A q \in SUBSET (1 .. n) : x[q] \in V
    BY <1>1, <1>2, <1>7, OrderedFold
  <2>2. ASSUME NEW q \in SUBSET (1 .. n), q # {}
        PROVE  h[<<Max(q), x[q \ {Max(q)}]>>] = x[q \ {Max(q)}] + s[Max(q)]
    BY <1>1, <1>4, <2>1, <2>2, LastIsIn
  <2>3. x = [q \in SUBSET (1 .. n) |-> IF q = {} THEN base ELSE h[<<Max(q), x[q \ {Max(q)}]>>]]
    BY <2>1 DEF FoldsInOrder
  <2>4. x = [q \in SUBSET DOMAIN s |-> IF q = {} THEN base ELSE x[q \ {Max(q)}] + s[Max(q)]]
    BY <1>1, <2>2, <2>3
  <2> QED
    BY <1>6, <2>4
<1>9. f = [q \in SUBSET DOMAIN s |-> IF q = {} THEN base ELSE f[q \ {Max(q)}] + s[Max(q)]]
  BY <1>6, <1>8
<1> HIDE DEF f
<1>10. \A q \in SUBSET (1 .. n) : f[q] = IF q = {} THEN base ELSE f[q \ {Max(q)}] + s[Max(q)]
  BY <1>1, <1>9
<1>11. FoldsBy(f, base, h, n, V)
  <2>1. f[{}] = base
    BY <1>10
  <2>2. ASSUME NEW q \in SUBSET (1 .. n), q # {}, f[q \ {Max(q)}] \in V
        PROVE  f[q] = h[<<Max(q), f[q \ {Max(q)}]>>]
    <3>1. Max(q) \in 1 .. n
      BY <1>1, <2>2, LastIsIn
    <3> QED
      BY <1>4, <1>10, <2>2, <3>1
  <2> QED
    BY <2>1, <2>2 DEF FoldsBy
<1>12. StaysIn(h, n, V)
  BY <1>7 DEF StaysIn
<1>13. PICK g : RunsBy(g, f, base, h, n, V)
  BY <1>1, <1>2, <1>11, <1>12, FoldRuns
<1>14. g \in [0 .. n -> V] /\ g[0] = base /\ g[n] = Total(s)
  BY <1>1, <1>5, <1>13 DEF RunsBy
<1>15. \A m \in 1 .. n : g[m] = g[m - 1] + s[m]
  <2> TAKE m \in 1 .. n
  <2>1. m - 1 \in 0 .. n
    BY <1>1
  <2>2. g[m - 1] \in V /\ g[m] = h[<<m, g[m - 1]>>]
    BY <1>13, <2>1 DEF RunsBy
  <2> QED
    BY <1>4, <2>2
<1> QED
  BY <1>14, <1>15 DEF n, V, base

LEMMA TotalIsNatural ==
  ASSUME NEW s \in Seq(Nat)
  PROVE  Total(s) \in Nat /\ (s = <<>> => Total(s) = 0)
<1>1. PICK g \in [0 .. Len(s) -> Nat] : g[0] = 0 /\ g[Len(s)] = Total(s)
  BY TotalGoes
<1>2. Len(s) \in 0 .. Len(s) /\ (s = <<>> => Len(s) = 0)
  OBVIOUS
<1> QED
  BY <1>1, <1>2

\* The blocks of a result: a block that is no text has no runes.
BlockRecords == [kind : {"text", "json", "other"}, runes : Seq(Nat), value : Nat, white : Nat]
ToolBlocks == {b \in BlockRecords : b.kind = "other" => b.runes = <<>>}

LEMMA WidthIsNatural == ASSUME NEW b \in ToolBlocks PROVE Width(b) \in Nat
<1>1. b.runes \in Seq(Nat)
  BY DEF ToolBlocks, BlockRecords
<1> QED
  BY <1>1, TotalIsNatural DEF Width

\* The length of a result, in bytes of text.
Lengths(f, s) ==
  f = [q \in SUBSET DOMAIN s |-> IF q = {} THEN 0 ELSE f[q \ {Max(q)}] + Width(s[Max(q)])]

LEMMA LengthGoes ==
  ASSUME NEW s \in Seq(ToolBlocks)
  PROVE  \E g \in [0 .. Len(s) -> Nat] :
           /\ g[0] = 0 /\ g[Len(s)] = TextLength(s)
           /\ \A m \in 1 .. Len(s) : g[m] = g[m - 1] + Width(s[m])
<1> DEFINE n == Len(s)
           V == Nat
           base == 0
           h == [q \in (1 .. n) \X V |-> q[2] + Width(s[q[1]])]
           f == CHOOSE x : Lengths(x, s)
<1>1. n \in Nat /\ DOMAIN s = 1 .. n /\ \A i \in 1 .. n : s[i] \in ToolBlocks
  OBVIOUS
<1>2. base \in V
  OBVIOUS
<1>3. \A i \in 1 .. n, v \in V : v + Width(s[i]) \in V
  BY <1>1, WidthIsNatural
<1>4. \A i \in 1 .. n, v \in V : h[<<i, v>>] = v + Width(s[i])
  OBVIOUS
<1>5. TextLength(s) = f[DOMAIN s]
  BY DEF TextLength, Lengths, FoldLeft, MapThenFoldSet
<1>6. \A x : Lengths(x, s)
        <=> x = [q \in SUBSET DOMAIN s |-> IF q = {} THEN base ELSE x[q \ {Max(q)}] + Width(s[Max(q)])]
  BY DEF Lengths
<1> HIDE DEF h, n, V, base
<1>7. \A i \in 1 .. n, v \in V : h[<<i, v>>] \in V
  BY <1>3, <1>4
<1>8. \E x : Lengths(x, s)
  <2>1. PICK x : FoldsInOrder(x, base, h, n) /\ \A q \in SUBSET (1 .. n) : x[q] \in V
    BY <1>1, <1>2, <1>7, OrderedFold
  <2>2. ASSUME NEW q \in SUBSET (1 .. n), q # {}
        PROVE  h[<<Max(q), x[q \ {Max(q)}]>>] = x[q \ {Max(q)}] + Width(s[Max(q)])
    BY <1>1, <1>4, <2>1, <2>2, LastIsIn
  <2>3. x = [q \in SUBSET (1 .. n) |-> IF q = {} THEN base ELSE h[<<Max(q), x[q \ {Max(q)}]>>]]
    BY <2>1 DEF FoldsInOrder
  <2>4. x = [q \in SUBSET DOMAIN s |-> IF q = {} THEN base ELSE x[q \ {Max(q)}] + Width(s[Max(q)])]
    BY <1>1, <2>2, <2>3
  <2> QED
    BY <1>6, <2>4
<1>9. f = [q \in SUBSET DOMAIN s |-> IF q = {} THEN base ELSE f[q \ {Max(q)}] + Width(s[Max(q)])]
  BY <1>6, <1>8
<1> HIDE DEF f
<1>10. \A q \in SUBSET (1 .. n) : f[q] = IF q = {} THEN base ELSE f[q \ {Max(q)}] + Width(s[Max(q)])
  BY <1>1, <1>9
<1>11. FoldsBy(f, base, h, n, V)
  <2>1. f[{}] = base
    BY <1>10
  <2>2. ASSUME NEW q \in SUBSET (1 .. n), q # {}, f[q \ {Max(q)}] \in V
        PROVE  f[q] = h[<<Max(q), f[q \ {Max(q)}]>>]
    <3>1. Max(q) \in 1 .. n
      BY <1>1, <2>2, LastIsIn
    <3> QED
      BY <1>4, <1>10, <2>2, <3>1
  <2> QED
    BY <2>1, <2>2 DEF FoldsBy
<1>12. StaysIn(h, n, V)
  BY <1>7 DEF StaysIn
<1>13. PICK g : RunsBy(g, f, base, h, n, V)
  BY <1>1, <1>2, <1>11, <1>12, FoldRuns
<1>14. g \in [0 .. n -> V] /\ g[0] = base /\ g[n] = TextLength(s)
  BY <1>1, <1>5, <1>13 DEF RunsBy
<1>15. \A m \in 1 .. n : g[m] = g[m - 1] + Width(s[m])
  <2> TAKE m \in 1 .. n
  <2>1. m - 1 \in 0 .. n
    BY <1>1
  <2>2. g[m - 1] \in V /\ g[m] = h[<<m, g[m - 1]>>]
    BY <1>13, <2>1 DEF RunsBy
  <2> QED
    BY <1>4, <2>2
<1> QED
  BY <1>14, <1>15 DEF n, V, base

\* The runes of a result.
RunesOf(f, s) ==
  f = [q \in SUBSET DOMAIN s |-> IF q = {} THEN <<>> ELSE f[q \ {Max(q)}] \o s[Max(q)].runes]

LEMMA RunesGoes ==
  ASSUME NEW s \in Seq(ToolBlocks)
  PROVE  \E g \in [0 .. Len(s) -> Seq(Nat)] :
           /\ g[0] = <<>> /\ g[Len(s)] = Runes(s)
           /\ \A m \in 1 .. Len(s) : g[m] = g[m - 1] \o s[m].runes
<1> DEFINE n == Len(s)
           V == Seq(Nat)
           base == <<>>
           h == [q \in (1 .. n) \X V |-> q[2] \o s[q[1]].runes]
           f == CHOOSE x : RunesOf(x, s)
<1>1. n \in Nat /\ DOMAIN s = 1 .. n /\ \A i \in 1 .. n : s[i] \in ToolBlocks
  OBVIOUS
<1>2. base \in V
  OBVIOUS
<1>3. \A i \in 1 .. n, v \in V : v \o s[i].runes \in V
  <2> TAKE i \in 1 .. n, v \in V
  <2>1. s[i].runes \in Seq(Nat)
    BY <1>1 DEF ToolBlocks, BlockRecords
  <2> QED
    BY <2>1
<1>4. \A i \in 1 .. n, v \in V : h[<<i, v>>] = v \o s[i].runes
  OBVIOUS
<1>5. Runes(s) = f[DOMAIN s]
  BY DEF Runes, RunesOf, FoldLeft, MapThenFoldSet
<1>6. \A x : RunesOf(x, s)
        <=> x = [q \in SUBSET DOMAIN s |-> IF q = {} THEN base ELSE x[q \ {Max(q)}] \o s[Max(q)].runes]
  BY DEF RunesOf
<1> HIDE DEF h, n, V, base
<1>7. \A i \in 1 .. n, v \in V : h[<<i, v>>] \in V
  BY <1>3, <1>4
<1>8. \E x : RunesOf(x, s)
  <2>1. PICK x : FoldsInOrder(x, base, h, n) /\ \A q \in SUBSET (1 .. n) : x[q] \in V
    BY <1>1, <1>2, <1>7, OrderedFold
  <2>2. ASSUME NEW q \in SUBSET (1 .. n), q # {}
        PROVE  h[<<Max(q), x[q \ {Max(q)}]>>] = x[q \ {Max(q)}] \o s[Max(q)].runes
    BY <1>1, <1>4, <2>1, <2>2, LastIsIn
  <2>3. x = [q \in SUBSET (1 .. n) |-> IF q = {} THEN base ELSE h[<<Max(q), x[q \ {Max(q)}]>>]]
    BY <2>1 DEF FoldsInOrder
  <2>4. x = [q \in SUBSET DOMAIN s |-> IF q = {} THEN base ELSE x[q \ {Max(q)}] \o s[Max(q)].runes]
    BY <1>1, <2>2, <2>3
  <2> QED
    BY <1>6, <2>4
<1>9. f = [q \in SUBSET DOMAIN s |-> IF q = {} THEN base ELSE f[q \ {Max(q)}] \o s[Max(q)].runes]
  BY <1>6, <1>8
<1> HIDE DEF f
<1>10. \A q \in SUBSET (1 .. n) : f[q] = IF q = {} THEN base ELSE f[q \ {Max(q)}] \o s[Max(q)].runes
  BY <1>1, <1>9
<1>11. FoldsBy(f, base, h, n, V)
  <2>1. f[{}] = base
    BY <1>10
  <2>2. ASSUME NEW q \in SUBSET (1 .. n), q # {}, f[q \ {Max(q)}] \in V
        PROVE  f[q] = h[<<Max(q), f[q \ {Max(q)}]>>]
    <3>1. Max(q) \in 1 .. n
      BY <1>1, <2>2, LastIsIn
    <3> QED
      BY <1>4, <1>10, <2>2, <3>1
  <2> QED
    BY <2>1, <2>2 DEF FoldsBy
<1>12. StaysIn(h, n, V)
  BY <1>7 DEF StaysIn
<1>13. PICK g : RunsBy(g, f, base, h, n, V)
  BY <1>1, <1>2, <1>11, <1>12, FoldRuns
<1>14. g \in [0 .. n -> V] /\ g[0] = base /\ g[n] = Runes(s)
  BY <1>1, <1>5, <1>13 DEF RunsBy
<1>15. \A m \in 1 .. n : g[m] = g[m - 1] \o s[m].runes
  <2> TAKE m \in 1 .. n
  <2>1. m - 1 \in 0 .. n
    BY <1>1
  <2>2. g[m - 1] \in V /\ g[m] = h[<<m, g[m - 1]>>]
    BY <1>13, <2>1 DEF RunsBy
  <2> QED
    BY <1>4, <2>2
<1> QED
  BY <1>14, <1>15 DEF n, V, base

\* The blocks of a result that are no text.
OthersOf(f, s) ==
  f = [q \in SUBSET DOMAIN s |-> IF q = {} THEN <<>> ELSE (IF s[Max(q)].kind = "other" THEN Append(f[q \ {Max(q)}], s[Max(q)]) ELSE f[q \ {Max(q)}])]

LEMMA OthersGoes ==
  ASSUME NEW s \in Seq(ToolBlocks)
  PROVE  \E g \in [0 .. Len(s) -> Seq(ToolBlocks)] :
           /\ g[0] = <<>> /\ g[Len(s)] = Others(s)
           /\ \A m \in 1 .. Len(s) : g[m] = (IF s[m].kind = "other" THEN Append(g[m - 1], s[m]) ELSE g[m - 1])
<1> DEFINE n == Len(s)
           V == Seq(ToolBlocks)
           base == <<>>
           h == [q \in (1 .. n) \X V |-> (IF s[q[1]].kind = "other" THEN Append(q[2], s[q[1]]) ELSE q[2])]
           f == CHOOSE x : OthersOf(x, s)
<1>1. n \in Nat /\ DOMAIN s = 1 .. n /\ \A i \in 1 .. n : s[i] \in ToolBlocks
  OBVIOUS
<1>2. base \in V
  OBVIOUS
<1>3. \A i \in 1 .. n, v \in V : (IF s[i].kind = "other" THEN Append(v, s[i]) ELSE v) \in V
  BY <1>1
<1>4. \A i \in 1 .. n, v \in V : h[<<i, v>>] = (IF s[i].kind = "other" THEN Append(v, s[i]) ELSE v)
  OBVIOUS
<1>5. Others(s) = f[DOMAIN s]
  BY DEF Others, OthersOf, FoldLeft, MapThenFoldSet
<1>6. \A x : OthersOf(x, s)
        <=> x = [q \in SUBSET DOMAIN s |-> IF q = {} THEN base ELSE (IF s[Max(q)].kind = "other" THEN Append(x[q \ {Max(q)}], s[Max(q)]) ELSE x[q \ {Max(q)}])]
  BY DEF OthersOf
<1> HIDE DEF h, n, V, base
<1>7. \A i \in 1 .. n, v \in V : h[<<i, v>>] \in V
  BY <1>3, <1>4
<1>8. \E x : OthersOf(x, s)
  <2>1. PICK x : FoldsInOrder(x, base, h, n) /\ \A q \in SUBSET (1 .. n) : x[q] \in V
    BY <1>1, <1>2, <1>7, OrderedFold
  <2>2. ASSUME NEW q \in SUBSET (1 .. n), q # {}
        PROVE  h[<<Max(q), x[q \ {Max(q)}]>>] = (IF s[Max(q)].kind = "other" THEN Append(x[q \ {Max(q)}], s[Max(q)]) ELSE x[q \ {Max(q)}])
    BY <1>1, <1>4, <2>1, <2>2, LastIsIn
  <2>3. x = [q \in SUBSET (1 .. n) |-> IF q = {} THEN base ELSE h[<<Max(q), x[q \ {Max(q)}]>>]]
    BY <2>1 DEF FoldsInOrder
  <2>4. x = [q \in SUBSET DOMAIN s |-> IF q = {} THEN base ELSE (IF s[Max(q)].kind = "other" THEN Append(x[q \ {Max(q)}], s[Max(q)]) ELSE x[q \ {Max(q)}])]
    BY <1>1, <2>2, <2>3
  <2> QED
    BY <1>6, <2>4
<1>9. f = [q \in SUBSET DOMAIN s |-> IF q = {} THEN base ELSE (IF s[Max(q)].kind = "other" THEN Append(f[q \ {Max(q)}], s[Max(q)]) ELSE f[q \ {Max(q)}])]
  BY <1>6, <1>8
<1> HIDE DEF f
<1>10. \A q \in SUBSET (1 .. n) : f[q] = IF q = {} THEN base ELSE (IF s[Max(q)].kind = "other" THEN Append(f[q \ {Max(q)}], s[Max(q)]) ELSE f[q \ {Max(q)}])
  BY <1>1, <1>9
<1>11. FoldsBy(f, base, h, n, V)
  <2>1. f[{}] = base
    BY <1>10
  <2>2. ASSUME NEW q \in SUBSET (1 .. n), q # {}, f[q \ {Max(q)}] \in V
        PROVE  f[q] = h[<<Max(q), f[q \ {Max(q)}]>>]
    <3>1. Max(q) \in 1 .. n
      BY <1>1, <2>2, LastIsIn
    <3> QED
      BY <1>4, <1>10, <2>2, <3>1
  <2> QED
    BY <2>1, <2>2 DEF FoldsBy
<1>12. StaysIn(h, n, V)
  BY <1>7 DEF StaysIn
<1>13. PICK g : RunsBy(g, f, base, h, n, V)
  BY <1>1, <1>2, <1>11, <1>12, FoldRuns
<1>14. g \in [0 .. n -> V] /\ g[0] = base /\ g[n] = Others(s)
  BY <1>1, <1>5, <1>13 DEF RunsBy
<1>15. \A m \in 1 .. n : g[m] = (IF s[m].kind = "other" THEN Append(g[m - 1], s[m]) ELSE g[m - 1])
  <2> TAKE m \in 1 .. n
  <2>1. m - 1 \in 0 .. n
    BY <1>1
  <2>2. g[m - 1] \in V /\ g[m] = h[<<m, g[m - 1]>>]
    BY <1>13, <2>1 DEF RunsBy
  <2> QED
    BY <1>4, <2>2
<1> QED
  BY <1>14, <1>15 DEF n, V, base
\* What one more block makes of a result.
LEMMA LengthAppend ==
  ASSUME NEW s \in Seq(ToolBlocks), NEW b \in ToolBlocks
  PROVE  /\ TextLength(s) \in Nat /\ TextLength(<<>>) = 0
         /\ TextLength(Append(s, b)) = TextLength(s) + Width(b)
<1> DEFINE n == Len(s)
           t == Append(s, b)
<1>1. n \in Nat /\ t \in Seq(ToolBlocks) /\ Len(t) = n + 1 /\ t[n + 1] = b
      /\ (\A m \in 1 .. n : t[m] = s[m] /\ m \in 1 .. Len(t)) /\ Len(t) \in 1 .. Len(t)
  OBVIOUS
<1>2. PICK g \in [0 .. Len(s) -> Nat] :
        /\ g[0] = 0 /\ g[Len(s)] = TextLength(s)
        /\ \A m \in 1 .. Len(s) : g[m] = g[m - 1] + Width(s[m])
  BY LengthGoes
<1> HIDE DEF t
<1>3. PICK f \in [0 .. Len(t) -> Nat] :
        /\ f[0] = 0 /\ f[Len(t)] = TextLength(t)
        /\ \A m \in 1 .. Len(t) : f[m] = f[m - 1] + Width(t[m])
  BY <1>1, LengthGoes
<1>4. \A m \in 1 .. n : f[m - 1] = g[m - 1] => f[m] = g[m]
  BY <1>1, <1>2, <1>3
<1>5. f[n] = g[n]
  <2>1. f[0] = g[0] /\ n \in Nat
    BY <1>1, <1>2, <1>3
  <2> HIDE DEF n
  <2> QED
    BY <1>4, <2>1, RunsAgree
<1>6. f[Len(t)] = f[Len(t) - 1] + Width(t[Len(t)])
  BY <1>1, <1>3
<1>7. Len(t) - 1 = n /\ n \in 0 .. Len(s)
  BY <1>1
<1>8. TextLength(<<>>) = 0
  <2>1. <<>> \in Seq(ToolBlocks) /\ Len(<<>>) = 0
    OBVIOUS
  <2> QED
    BY <2>1, LengthGoes
<1>9. g[n] = TextLength(s) /\ g[n] \in Nat
  BY <1>2, <1>7
<1> HIDE DEF n
<1>10. f[Len(t)] = g[n] + Width(b)
  BY <1>1, <1>5, <1>6, <1>7
<1> QED
  BY <1>3, <1>8, <1>9, <1>10 DEF t

LEMMA RunesAppend ==
  ASSUME NEW s \in Seq(ToolBlocks), NEW b \in ToolBlocks
  PROVE  /\ Runes(s) \in Seq(Nat) /\ Runes(<<>>) = <<>>
         /\ Runes(Append(s, b)) = Runes(s) \o b.runes
<1> DEFINE n == Len(s)
           t == Append(s, b)
<1>1. n \in Nat /\ t \in Seq(ToolBlocks) /\ Len(t) = n + 1 /\ t[n + 1] = b
      /\ (\A m \in 1 .. n : t[m] = s[m] /\ m \in 1 .. Len(t)) /\ Len(t) \in 1 .. Len(t)
  OBVIOUS
<1>2. PICK g \in [0 .. Len(s) -> Seq(Nat)] :
        /\ g[0] = <<>> /\ g[Len(s)] = Runes(s)
        /\ \A m \in 1 .. Len(s) : g[m] = g[m - 1] \o s[m].runes
  BY RunesGoes
<1> HIDE DEF t
<1>3. PICK f \in [0 .. Len(t) -> Seq(Nat)] :
        /\ f[0] = <<>> /\ f[Len(t)] = Runes(t)
        /\ \A m \in 1 .. Len(t) : f[m] = f[m - 1] \o t[m].runes
  BY <1>1, RunesGoes
<1>4. \A m \in 1 .. n : f[m - 1] = g[m - 1] => f[m] = g[m]
  BY <1>1, <1>2, <1>3
<1>5. f[n] = g[n]
  <2>1. f[0] = g[0] /\ n \in Nat
    BY <1>1, <1>2, <1>3
  <2> HIDE DEF n
  <2> QED
    BY <1>4, <2>1, RunsAgree
<1>6. f[Len(t)] = f[Len(t) - 1] \o t[Len(t)].runes
  BY <1>1, <1>3
<1>7. Len(t) - 1 = n /\ n \in 0 .. Len(s)
  BY <1>1
<1>8. Runes(<<>>) = <<>>
  <2>1. <<>> \in Seq(ToolBlocks) /\ Len(<<>>) = 0
    OBVIOUS
  <2> QED
    BY <2>1, RunesGoes
<1>9. g[n] = Runes(s) /\ g[n] \in Seq(Nat)
  BY <1>2, <1>7
<1> HIDE DEF n
<1>10. f[Len(t)] = g[n] \o b.runes
  BY <1>1, <1>5, <1>6, <1>7
<1> QED
  BY <1>3, <1>8, <1>9, <1>10 DEF t

LEMMA OthersAppend ==
  ASSUME NEW s \in Seq(ToolBlocks), NEW b \in ToolBlocks
  PROVE  /\ Others(s) \in Seq(ToolBlocks) /\ Others(<<>>) = <<>>
         /\ Others(Append(s, b)) = (IF b.kind = "other" THEN Append(Others(s), b) ELSE Others(s))
<1> DEFINE n == Len(s)
           t == Append(s, b)
<1>1. n \in Nat /\ t \in Seq(ToolBlocks) /\ Len(t) = n + 1 /\ t[n + 1] = b
      /\ (\A m \in 1 .. n : t[m] = s[m] /\ m \in 1 .. Len(t)) /\ Len(t) \in 1 .. Len(t)
  OBVIOUS
<1>2. PICK g \in [0 .. Len(s) -> Seq(ToolBlocks)] :
        /\ g[0] = <<>> /\ g[Len(s)] = Others(s)
        /\ \A m \in 1 .. Len(s) : g[m] = (IF s[m].kind = "other" THEN Append(g[m - 1], s[m]) ELSE g[m - 1])
  BY OthersGoes
<1> HIDE DEF t
<1>3. PICK f \in [0 .. Len(t) -> Seq(ToolBlocks)] :
        /\ f[0] = <<>> /\ f[Len(t)] = Others(t)
        /\ \A m \in 1 .. Len(t) : f[m] = (IF t[m].kind = "other" THEN Append(f[m - 1], t[m]) ELSE f[m - 1])
  BY <1>1, OthersGoes
<1>4. \A m \in 1 .. n : f[m - 1] = g[m - 1] => f[m] = g[m]
  BY <1>1, <1>2, <1>3
<1>5. f[n] = g[n]
  <2>1. f[0] = g[0] /\ n \in Nat
    BY <1>1, <1>2, <1>3
  <2> HIDE DEF n
  <2> QED
    BY <1>4, <2>1, RunsAgree
<1>6. f[Len(t)] = (IF t[Len(t)].kind = "other" THEN Append(f[Len(t) - 1], t[Len(t)]) ELSE f[Len(t) - 1])
  BY <1>1, <1>3
<1>7. Len(t) - 1 = n /\ n \in 0 .. Len(s)
  BY <1>1
<1>8. Others(<<>>) = <<>>
  <2>1. <<>> \in Seq(ToolBlocks) /\ Len(<<>>) = 0
    OBVIOUS
  <2> QED
    BY <2>1, OthersGoes
<1>9. g[n] = Others(s) /\ g[n] \in Seq(ToolBlocks)
  BY <1>2, <1>7
<1> HIDE DEF n
<1>10. f[Len(t)] = (IF b.kind = "other" THEN Append(g[n], b) ELSE g[n])
  BY <1>1, <1>5, <1>6, <1>7
<1> QED
  BY <1>3, <1>8, <1>9, <1>10 DEF t
\* The runes that fit are a beginning of the text, and no wider than they may be.
LEMMA FittingFits ==
  ASSUME NEW runes \in Seq(Nat), NEW budget \in Nat
  PROVE  \E k \in 0 .. Len(runes) : /\ Fitting(runes, budget) = SubSeq(runes, 1, k)
                                    /\ Total(SubSeq(runes, 1, k)) <= budget
<1> DEFINE S == {k \in 0 .. Len(runes) : Total(SubSeq(runes, 1, k)) <= budget}
<1>1. 0 \in S
  <2>1. SubSeq(runes, 1, 0) = <<>> /\ <<>> \in Seq(Nat) /\ 0 \in 0 .. Len(runes)
    OBVIOUS
  <2>2. Total(SubSeq(runes, 1, 0)) = 0
    BY <2>1, TotalIsNatural
  <2> QED
    BY <2>1, <2>2
<1>2. S \in SUBSET (0 .. Len(runes)) /\ S # {} /\ 0 \in Int /\ Len(runes) \in Int
  BY <1>1
<1>3. Max(S) \in S
  <2> HIDE DEF S
  <2> QED
    BY <1>2, LargestIn
<1>4. Fitting(runes, budget) = SubSeq(runes, 1, Max(S))
  BY DEF Fitting
<1> QED
  BY <1>3, <1>4

\* Beginnings of texts.
LEMMA PrefixGoesOn ==
  ASSUME NEW r \in Seq(Nat), NEW s \in Seq(Nat), NEW t \in Seq(Nat), NEW k \in 0 .. Len(t)
  PROVE  /\ IsPrefix(r, r)
         /\ IsPrefix(r, s) => IsPrefix(r, s \o t)
         /\ IsPrefix(s \o SubSeq(t, 1, k), s \o t)
<1>1. IsPrefix(r, r)
  BY DEF IsPrefix
<1>2. ASSUME IsPrefix(r, s) PROVE IsPrefix(r, s \o t)
  <2>1. /\ Len(r) \in Nat /\ Len(s) \in Nat /\ Len(t) \in Nat /\ Len(s \o t) = Len(s) + Len(t)
        /\ Len(r) <= Len(s) /\ SubSeq(r, 1, Len(r)) = SubSeq(s, 1, Len(r))
    BY <1>2 DEF IsPrefix
  <2>2. SubSeq(s \o t, 1, Len(r)) = SubSeq(s, 1, Len(r))
    BY <2>1
  <2> QED
    BY <2>1, <2>2 DEF IsPrefix
<1>3. IsPrefix(s \o SubSeq(t, 1, k), s \o t)
  <2> DEFINE u == SubSeq(t, 1, k)
  <2>1. u \in Seq(Nat) /\ Len(u) = k /\ \A i \in 1 .. k : u[i] = t[i]
    OBVIOUS
  <2> HIDE DEF u
  <2>2. /\ s \o u \in Seq(Nat) /\ Len(s \o u) = Len(s) + k
        /\ s \o t \in Seq(Nat) /\ Len(s \o t) = Len(s) + Len(t)
    <3>1. s \o u \in Seq(Nat) /\ Len(s \o u) = Len(s) + Len(u)
      <4>1. u \in Seq(Nat)
        BY <2>1
      <4> QED
        BY <4>1
    <3>2. s \o t \in Seq(Nat) /\ Len(s \o t) = Len(s) + Len(t)
      OBVIOUS
    <3> QED
      BY <2>1, <3>1, <3>2
  <2>3. ASSUME NEW i \in 1 .. Len(s) + k PROVE (s \o u)[i] = (s \o t)[i]
    <3>1. CASE i <= Len(s)
      BY <2>1, <3>1
    <3>2. CASE ~ (i <= Len(s))
      <4>1. i - Len(s) \in 1 .. k /\ i - Len(s) \in 1 .. Len(t)
        BY <3>2
      <4>2. (s \o u)[i] = u[i - Len(s)]
        BY <2>1, <3>2, <4>1
      <4>3. (s \o t)[i] = t[i - Len(s)]
        BY <2>1, <3>2, <4>1
      <4> QED
        BY <2>1, <4>1, <4>2, <4>3
    <3> QED
      BY <3>1, <3>2
  <2>4. SubSeq(s \o u, 1, Len(s) + k) = SubSeq(s \o t, 1, Len(s) + k)
    <3> DEFINE p == s \o u
               q == s \o t
               m == Len(s) + k
    <3>1. p \in Seq(Nat) /\ q \in Seq(Nat) /\ m \in Nat /\ m = Len(p) /\ m <= Len(q)
      BY <2>2
    <3>2. \A i \in 1 .. m : p[i] = q[i]
      BY <2>3
    <3> HIDE DEF p, q, m
    <3>3. /\ SubSeq(p, 1, m) \in Seq(Nat) /\ Len(SubSeq(p, 1, m)) = m
          /\ \A i \in 1 .. m : SubSeq(p, 1, m)[i] = p[i]
      <4>1. \A i \in 1 .. m : p[i] \in Nat
        BY <3>1
      <4> QED
        BY <3>1, <4>1, SubSeqProperties
    <3>4. /\ SubSeq(q, 1, m) \in Seq(Nat) /\ Len(SubSeq(q, 1, m)) = m
          /\ \A i \in 1 .. m : SubSeq(q, 1, m)[i] = q[i]
      <4>1. \A i \in 1 .. m : q[i] \in Nat
        BY <3>1, SMTT(60)
      <4> QED
        BY <3>1, <4>1, SubSeqProperties
    <3> DEFINE x == SubSeq(p, 1, m)
               y == SubSeq(q, 1, m)
    <3>5. /\ x \in Seq(Nat) /\ y \in Seq(Nat) /\ Len(x) = m /\ Len(y) = m
          /\ \A i \in 1 .. m : x[i] = y[i]
      BY <3>2, <3>3, <3>4
    <3> HIDE DEF x, y
    <3>6. x = y
      BY <3>5
    <3> QED
      BY <3>6 DEF p, q, m, x, y
  <2> QED
    BY <2>2, <2>4 DEF IsPrefix, u
<1> QED
  BY <1>1, <1>2, <1>3

\* What is kept of a result, and what is left of the budget.
Keepers == [kept : Seq(ToolBlocks), budget : Nat]
Keeping(cap, s) == FoldLeft(KeepBlock, [kept |-> <<>>, budget |-> cap], s)

\* One more block is kept, dropped or cut.
LEMMA KeepBlockIs ==
  ASSUME NEW acc \in Keepers, NEW b \in ToolBlocks
  PROVE  /\ KeepBlock(acc, b) \in Keepers
         /\ b.kind = "other" => /\ KeepBlock(acc, b).kept = Append(acc.kept, b)
                                /\ KeepBlock(acc, b).budget = acc.budget
         /\ b.kind # "other" /\ acc.budget = 0 => KeepBlock(acc, b) = acc
         /\ b.kind # "other" /\ acc.budget # 0 =>
              \E k \in 0 .. Len(b.runes), c \in ToolBlocks :
                /\ c.kind = b.kind /\ c.runes = SubSeq(b.runes, 1, k)
                /\ KeepBlock(acc, b).kept = Append(acc.kept, c)
                /\ Total(c.runes) + KeepBlock(acc, b).budget <= acc.budget
                /\ KeepBlock(acc, b).budget # 0 => c = b
<1>1. /\ acc.kept \in Seq(ToolBlocks) /\ acc.budget \in Nat
      /\ acc = [kept |-> acc.kept, budget |-> acc.budget]
  BY DEF Keepers
<1>2. /\ b.kind \in {"text", "json", "other"} /\ b.runes \in Seq(Nat) /\ b.value \in Nat /\ b.white \in Nat
      /\ b = [kind |-> b.kind, runes |-> b.runes, value |-> b.value, white |-> b.white]
  BY DEF ToolBlocks, BlockRecords
<1>3. ASSUME NEW s \in Seq(ToolBlocks), NEW n \in Nat, KeepBlock(acc, b) = [kept |-> s, budget |-> n]
      PROVE  KeepBlock(acc, b) \in Keepers /\ KeepBlock(acc, b).kept = s /\ KeepBlock(acc, b).budget = n
  BY <1>3 DEF Keepers
<1>4. CASE b.kind = "other"
  <2>1. KeepBlock(acc, b) = [acc EXCEPT !.kept = Append(@, b)]
    BY <1>4 DEF KeepBlock
  <2>2. KeepBlock(acc, b) = [kept |-> Append(acc.kept, b), budget |-> acc.budget]
    BY <1>1, <2>1
  <2>3. Append(acc.kept, b) \in Seq(ToolBlocks)
    BY <1>1
  <2>4. /\ KeepBlock(acc, b) \in Keepers /\ KeepBlock(acc, b).kept = Append(acc.kept, b)
        /\ KeepBlock(acc, b).budget = acc.budget
    BY <1>1, <1>3, <2>2, <2>3
  <2> QED
    BY <1>4, <2>4
<1>5. CASE b.kind # "other" /\ acc.budget = 0
  <2>1. KeepBlock(acc, b) = acc
    BY <1>5 DEF KeepBlock
  <2> QED
    BY <1>5, <2>1
<1>6. CASE b.kind # "other" /\ acc.budget # 0 /\ Total(b.runes) > acc.budget
  <2>1. PICK k \in 0 .. Len(b.runes) : /\ Fitting(b.runes, acc.budget) = SubSeq(b.runes, 1, k)
                                       /\ Total(SubSeq(b.runes, 1, k)) <= acc.budget
    BY <1>1, <1>2, FittingFits
  <2> DEFINE r == Fitting(b.runes, acc.budget)
             c == [b EXCEPT !.runes = Fitting(@, acc.budget)]
  <2>2. c = [kind |-> b.kind, runes |-> r, value |-> b.value, white |-> b.white]
    BY <1>2
  <2>3. r \in Seq(Nat)
    BY <1>2, <2>1
  <2>4. KeepBlock(acc, b) = [kept |-> Append(acc.kept, c), budget |-> 0]
    BY <1>6 DEF KeepBlock
  <2> HIDE DEF c, r
  <2>5. c \in BlockRecords /\ c.kind = b.kind /\ c.runes = r
    BY <1>2, <2>2, <2>3 DEF BlockRecords
  <2>6. c \in ToolBlocks
    BY <1>6, <2>5 DEF ToolBlocks
  <2>7. c.runes = SubSeq(b.runes, 1, k) /\ Total(c.runes) <= acc.budget
    BY <2>1, <2>5 DEF r
  <2>8. c.runes \in Seq(Nat)
    BY <2>3, <2>5
  <2>9. Append(acc.kept, c) \in Seq(ToolBlocks) /\ Total(c.runes) \in Nat
    BY <1>1, <2>6, <2>8, TotalIsNatural
  <2>10. KeepBlock(acc, b) \in Keepers /\ KeepBlock(acc, b).kept = Append(acc.kept, c)
         /\ KeepBlock(acc, b).budget = 0
    <3>1. 0 \in Nat
      OBVIOUS
    <3> QED
      BY <1>3, <2>4, <2>9, <3>1
  <2>11. Total(c.runes) + KeepBlock(acc, b).budget <= acc.budget
    BY <1>1, <2>7, <2>9, <2>10
  <2> QED
    BY <1>6, <2>5, <2>6, <2>7, <2>10, <2>11
<1>7. CASE b.kind # "other" /\ acc.budget # 0 /\ ~ (Total(b.runes) > acc.budget)
  <2>1. KeepBlock(acc, b) = [kept |-> Append(acc.kept, b), budget |-> acc.budget - Total(b.runes)]
    BY <1>7 DEF KeepBlock
  <2>2. Total(b.runes) \in Nat
    BY <1>2, TotalIsNatural
  <2>3. acc.budget - Total(b.runes) \in Nat
        /\ Total(b.runes) + (acc.budget - Total(b.runes)) <= acc.budget
    BY <1>1, <1>7, <2>2
  <2>4. Append(acc.kept, b) \in Seq(ToolBlocks)
    BY <1>1
  <2>5. KeepBlock(acc, b) \in Keepers /\ KeepBlock(acc, b).kept = Append(acc.kept, b)
        /\ Total(b.runes) + KeepBlock(acc, b).budget <= acc.budget
    <3> DEFINE n == acc.budget - Total(b.runes)
    <3>1. n \in Nat /\ KeepBlock(acc, b) = [kept |-> Append(acc.kept, b), budget |-> n]
          /\ Total(b.runes) + n <= acc.budget
      BY <2>1, <2>3
    <3> HIDE DEF n
    <3>2. KeepBlock(acc, b) \in Keepers /\ KeepBlock(acc, b).kept = Append(acc.kept, b)
          /\ KeepBlock(acc, b).budget = n
      BY <1>3, <2>4, <3>1
    <3> QED
      BY <3>1, <3>2
  <2>6. Len(b.runes) \in 0 .. Len(b.runes) /\ SubSeq(b.runes, 1, Len(b.runes)) = b.runes
    BY <1>2
  <2> QED
    BY <1>7, <2>5, <2>6
<1> QED
  BY <1>4, <1>5, <1>6, <1>7

\* The blocks are gone through from the first to the last.
KeepingOf(f, cap, s) ==
  f = [q \in SUBSET DOMAIN s |-> IF q = {} THEN [kept |-> <<>>, budget |-> cap] ELSE KeepBlock(f[q \ {Max(q)}], s[Max(q)])]

LEMMA KeepingGoes ==
  ASSUME NEW cap \in Nat, NEW s \in Seq(ToolBlocks)
  PROVE  \E g \in [0 .. Len(s) -> Keepers] :
           /\ g[0] = [kept |-> <<>>, budget |-> cap] /\ g[Len(s)] = Keeping(cap, s)
           /\ \A m \in 1 .. Len(s) : g[m] = KeepBlock(g[m - 1], s[m])
<1> DEFINE n == Len(s)
           V == Keepers
           base == [kept |-> <<>>, budget |-> cap]
           h == [q \in (1 .. n) \X V |-> KeepBlock(q[2], s[q[1]])]
           f == CHOOSE x : KeepingOf(x, cap, s)
<1>1. n \in Nat /\ DOMAIN s = 1 .. n /\ \A i \in 1 .. n : s[i] \in ToolBlocks
  OBVIOUS
<1>2. base \in V
  BY DEF Keepers
<1>3. \A i \in 1 .. n, v \in V : KeepBlock(v, s[i]) \in V
  BY <1>1, KeepBlockIs
<1>4. \A i \in 1 .. n, v \in V : h[<<i, v>>] = KeepBlock(v, s[i])
  OBVIOUS
<1>5. Keeping(cap, s) = f[DOMAIN s]
  BY DEF Keeping, KeepingOf, FoldLeft, MapThenFoldSet
<1>6. \A x : KeepingOf(x, cap, s)
        <=> x = [q \in SUBSET DOMAIN s |-> IF q = {} THEN base ELSE KeepBlock(x[q \ {Max(q)}], s[Max(q)])]
  BY DEF KeepingOf
<1> HIDE DEF h, n, V, base
<1>7. \A i \in 1 .. n, v \in V : h[<<i, v>>] \in V
  BY <1>3, <1>4
<1>8. \E x : KeepingOf(x, cap, s)
  <2>1. PICK x : FoldsInOrder(x, base, h, n) /\ \A q \in SUBSET (1 .. n) : x[q] \in V
    BY <1>1, <1>2, <1>7, OrderedFold
  <2>2. ASSUME NEW q \in SUBSET (1 .. n), q # {}
        PROVE  h[<<Max(q), x[q \ {Max(q)}]>>] = KeepBlock(x[q \ {Max(q)}], s[Max(q)])
    BY <1>1, <1>4, <2>1, <2>2, LastIsIn
  <2>3. x = [q \in SUBSET (1 .. n) |-> IF q = {} THEN base ELSE h[<<Max(q), x[q \ {Max(q)}]>>]]
    BY <2>1 DEF FoldsInOrder
  <2>4. x = [q \in SUBSET DOMAIN s |-> IF q = {} THEN base ELSE KeepBlock(x[q \ {Max(q)}], s[Max(q)])]
    BY <1>1, <2>2, <2>3
  <2> QED
    BY <1>6, <2>4
<1>9. f = [q \in SUBSET DOMAIN s |-> IF q = {} THEN base ELSE KeepBlock(f[q \ {Max(q)}], s[Max(q)])]
  BY <1>6, <1>8
<1> HIDE DEF f
<1>10. \A q \in SUBSET (1 .. n) : f[q] = IF q = {} THEN base ELSE KeepBlock(f[q \ {Max(q)}], s[Max(q)])
  BY <1>1, <1>9
<1>11. FoldsBy(f, base, h, n, V)
  <2>1. f[{}] = base
    BY <1>10
  <2>2. ASSUME NEW q \in SUBSET (1 .. n), q # {}, f[q \ {Max(q)}] \in V
        PROVE  f[q] = h[<<Max(q), f[q \ {Max(q)}]>>]
    <3>1. Max(q) \in 1 .. n
      BY <1>1, <2>2, LastIsIn
    <3> QED
      BY <1>4, <1>10, <2>2, <3>1
  <2> QED
    BY <2>1, <2>2 DEF FoldsBy
<1>12. StaysIn(h, n, V)
  BY <1>7 DEF StaysIn
<1>13. PICK g : RunsBy(g, f, base, h, n, V)
  BY <1>1, <1>2, <1>11, <1>12, FoldRuns
<1>14. g \in [0 .. n -> V] /\ g[0] = base /\ g[n] = Keeping(cap, s)
  BY <1>1, <1>5, <1>13 DEF RunsBy
<1>15. \A m \in 1 .. n : g[m] = KeepBlock(g[m - 1], s[m])
  <2> TAKE m \in 1 .. n
  <2>1. m - 1 \in 0 .. n
    BY <1>1
  <2>2. g[m - 1] \in V /\ g[m] = h[<<m, g[m - 1]>>]
    BY <1>13, <2>1 DEF RunsBy
  <2> QED
    BY <1>4, <2>2
<1> QED
  BY <1>14, <1>15 DEF n, V, base
\* What is kept is no longer than the budget allows and a beginning of the text, all of it while
\* a budget is left; and nothing is lost that is no text.
KeptWell(acc, cap, text, others) ==
  /\ TextLength(acc.kept) + acc.budget <= cap
  /\ IsPrefix(Runes(acc.kept), text) /\ (acc.budget # 0 => Runes(acc.kept) = text)
  /\ Others(acc.kept) = others

LEMMA KeptWellGoesOn ==
  ASSUME NEW cap \in Nat, NEW acc \in Keepers, NEW b \in ToolBlocks, NEW text \in Seq(Nat),
         NEW others \in Seq(ToolBlocks), KeptWell(acc, cap, text, others)
  PROVE  KeptWell(KeepBlock(acc, b), cap, text \o b.runes,
                  IF b.kind = "other" THEN Append(others, b) ELSE others)
<1> DEFINE new == KeepBlock(acc, b)
           kept == acc.kept
<1>1. kept \in Seq(ToolBlocks) /\ acc.budget \in Nat /\ new.budget \in Nat
  BY KeepBlockIs DEF Keepers
<1>2. /\ TextLength(kept) \in Nat /\ TextLength(kept) + acc.budget <= cap
      /\ Runes(kept) \in Seq(Nat) /\ IsPrefix(Runes(kept), text)
      /\ acc.budget # 0 => Runes(kept) = text
      /\ Others(kept) = others
  BY <1>1, LengthAppend, RunesAppend DEF KeptWell
<1>3. b.runes \in Seq(Nat) /\ (b.kind = "other" => b.runes = <<>>)
  BY DEF ToolBlocks, BlockRecords
<1>4. ASSUME NEW c \in ToolBlocks
      PROVE  /\ TextLength(Append(kept, c)) = TextLength(kept) + Width(c)
             /\ Runes(Append(kept, c)) = Runes(kept) \o c.runes
             /\ Others(Append(kept, c)) = IF c.kind = "other" THEN Append(Others(kept), c)
                                          ELSE Others(kept)
  BY <1>1, LengthAppend, RunesAppend, OthersAppend
<1>5. CASE b.kind = "other"
  <2>1. new.kept = Append(kept, b) /\ new.budget = acc.budget
    BY <1>5, KeepBlockIs
  <2>2. Width(b) = 0
    BY <1>5 DEF Width
  <2>3. /\ TextLength(new.kept) = TextLength(kept) + 0
        /\ Runes(new.kept) = Runes(kept) \o <<>>
        /\ Others(new.kept) = Append(others, b)
    BY <1>2, <1>3, <1>4, <1>5, <2>1, <2>2
  <2>4. Runes(new.kept) = Runes(kept) /\ text \o b.runes = text
    BY <1>2, <1>3, <1>5, <2>3, SMTT(60)
  <2>5. TextLength(new.kept) + new.budget <= cap
    BY <1>1, <1>2, <2>1, <2>3
  <2> QED
    BY <1>2, <1>5, <2>1, <2>3, <2>4, <2>5 DEF KeptWell
<1>6. CASE b.kind # "other" /\ acc.budget = 0
  <2>1. new = acc
    BY <1>6, KeepBlockIs
  <2>2. 0 \in 0 .. Len(b.runes)
    BY <1>3
  <2>3. IsPrefix(Runes(kept), text \o b.runes)
    BY <1>2, <1>3, <2>2, PrefixGoesOn
  <2> QED
    BY <1>2, <1>6, <2>1, <2>3 DEF KeptWell
<1>7. CASE b.kind # "other" /\ acc.budget # 0
  <2>1. PICK k \in 0 .. Len(b.runes), c \in ToolBlocks :
          /\ c.kind = b.kind /\ c.runes = SubSeq(b.runes, 1, k)
          /\ new.kept = Append(kept, c)
          /\ Total(c.runes) + new.budget <= acc.budget
          /\ new.budget # 0 => c = b
    BY <1>7, KeepBlockIs
  <2>2. Width(c) = Total(c.runes) /\ Width(c) \in Nat
    BY <1>7, <2>1, WidthIsNatural DEF Width
  <2>3. Runes(new.kept) = text \o SubSeq(b.runes, 1, k)
    BY <1>2, <1>4, <1>7, <2>1
  <2>4. IsPrefix(Runes(new.kept), text \o b.runes)
    BY <1>3, <2>3, PrefixGoesOn
  <2>5. new.budget # 0 => Runes(new.kept) = text \o b.runes
    BY <1>2, <1>4, <1>7, <2>1
  <2>6. Others(new.kept) = others
    BY <1>2, <1>4, <1>7, <2>1
  <2>7. TextLength(new.kept) = TextLength(kept) + Width(c)
    BY <1>4, <2>1
  <2>8. TextLength(new.kept) + new.budget <= cap
    BY <1>1, <1>2, <2>1, <2>2, <2>7, SMTT(60)
  <2> QED
    BY <1>7, <2>4, <2>5, <2>6, <2>8 DEF KeptWell
<1> QED
  BY <1>5, <1>6, <1>7

\* All blocks are kept as well.
LEMMA KeptWellAtLast ==
  ASSUME NEW cap \in Nat, NEW s \in Seq(ToolBlocks)
  PROVE  Keeping(cap, s) \in Keepers /\ KeptWell(Keeping(cap, s), cap, Runes(s), Others(s))
<1> DEFINE n == Len(s)
           base == [kept |-> <<>>, budget |-> cap]
<1>1. n \in Nat /\ (\A m \in 1 .. n : m - 1 \in 0 .. n /\ m \in 0 .. n /\ s[m] \in ToolBlocks)
      /\ n \in 0 .. n /\ 0 \in 0 .. n
  OBVIOUS
<1>2. PICK g \in [0 .. Len(s) -> Keepers] :
        /\ g[0] = base /\ g[Len(s)] = Keeping(cap, s)
        /\ \A m \in 1 .. Len(s) : g[m] = KeepBlock(g[m - 1], s[m])
  BY KeepingGoes
<1>3. PICK t \in [0 .. Len(s) -> Seq(Nat)] :
        /\ t[0] = <<>> /\ t[Len(s)] = Runes(s)
        /\ \A m \in 1 .. Len(s) : t[m] = t[m - 1] \o s[m].runes
  BY RunesGoes
<1>4. PICK o \in [0 .. Len(s) -> Seq(ToolBlocks)] :
        /\ o[0] = <<>> /\ o[Len(s)] = Others(s)
        /\ \A m \in 1 .. Len(s) :
             o[m] = (IF s[m].kind = "other" THEN Append(o[m - 1], s[m]) ELSE o[m - 1])
  BY OthersGoes
<1> DEFINE X == {m \in 0 .. n : KeptWell(g[m], cap, t[m], o[m])}
<1>5. KeptWell(base, cap, <<>>, <<>>)
  <2>1. <<>> \in Seq(ToolBlocks) /\ \E b : b \in ToolBlocks
    <3>1. [kind |-> "text", runes |-> <<>>, value |-> 0, white |-> 0] \in ToolBlocks
      BY DEF ToolBlocks, BlockRecords
    <3> QED
      BY <3>1
  <2>2. TextLength(<<>>) = 0 /\ Runes(<<>>) = <<>> /\ Others(<<>>) = <<>>
    BY <2>1, LengthAppend, RunesAppend, OthersAppend
  <2>3. base.kept = <<>> /\ base.budget = cap /\ 0 + cap <= cap
    OBVIOUS
  <2>4. IsPrefix(<<>>, <<>>)
    BY DEF IsPrefix
  <2> HIDE DEF base
  <2> QED
    BY <2>2, <2>3, <2>4 DEF KeptWell
<1> HIDE DEF base, n
<1>6. X \in SUBSET (0 .. n) /\ 0 \in X
  BY <1>1, <1>2, <1>3, <1>4, <1>5
<1>7. ASSUME NEW m \in 1 .. n, m - 1 \in X PROVE m \in X
  <2>1. /\ g[m - 1] \in Keepers /\ t[m - 1] \in Seq(Nat) /\ o[m - 1] \in Seq(ToolBlocks)
        /\ s[m] \in ToolBlocks /\ m \in 1 .. Len(s) /\ m \in 0 .. n
    BY <1>1, <1>2, <1>3, <1>4 DEF n
  <2>2. KeptWell(g[m - 1], cap, t[m - 1], o[m - 1])
    BY <1>7
  <2>3. KeptWell(KeepBlock(g[m - 1], s[m]), cap, t[m - 1] \o s[m].runes,
                 IF s[m].kind = "other" THEN Append(o[m - 1], s[m]) ELSE o[m - 1])
    BY <2>1, <2>2, KeptWellGoesOn
  <2>4. KeptWell(g[m], cap, t[m], o[m])
    BY <1>2, <1>3, <1>4, <2>1, <2>3
  <2> QED
    BY <2>1, <2>4
<1>8. n \in X
  <2> HIDE DEF X
  <2> QED
    BY <1>1, <1>6, <1>7, Climbs
<1> QED
  BY <1>1, <1>2, <1>3, <1>4, <1>8 DEF n

\* A result that is cut to a cap is what the cap allows.
LEMMA CappedIsSound ==
  ASSUME NEW cap \in Nat, NEW old, old.blocks \in Seq(ToolBlocks), old.structured.length \in Nat,
         NEW new, new = IF cap = 0 THEN old ELSE TruncateResult(old, cap)
  PROVE  CappedStep(old, new, cap)
<1>1. CapSlack \in Nat
  BY AnswersAssumption
<1>2. \A s \in Seq(ToolBlocks) : /\ TextLength(s) \in Nat /\ Runes(s) \in Seq(Nat)
                                 /\ TextLength(<<>>) = 0 /\ IsPrefix(Runes(s), Runes(s))
  <2> TAKE s \in Seq(ToolBlocks)
  <2>1. PICK b : b \in ToolBlocks
    <3>1. [kind |-> "text", runes |-> <<>>, value |-> 0, white |-> 0] \in ToolBlocks
      BY DEF ToolBlocks, BlockRecords
    <3> QED
      BY <3>1
  <2>2. TextLength(s) \in Nat /\ Runes(s) \in Seq(Nat) /\ TextLength(<<>>) = 0
    BY <2>1, LengthAppend, RunesAppend
  <2> QED
    BY <2>2, PrefixGoesOn DEF IsPrefix
<1>3. CASE cap = 0
  BY <1>2, <1>3 DEF CappedStep
<1>4. CASE cap # 0 /\ old.blocks = <<>>
  <2>1. new = old
    BY <1>4 DEF TruncateResult
  <2>2. TextLength(old.blocks) = 0 /\ IsPrefix(Runes(old.blocks), Runes(old.blocks))
    BY <1>2, <1>4
  <2>3. TextLength(new.blocks) <= cap + CapSlack
    BY <1>1, <2>1, <2>2
  <2> QED
    BY <1>4, <2>1, <2>2, <2>3 DEF CappedStep
<1>5. CASE cap # 0 /\ old.blocks # <<>>
  <2> DEFINE kept == Keeping(cap, old.blocks).kept
             short == [value |-> 0, length |-> 0]
  <2>1. new = [blocks |-> IF OverCap(TextLength(old.blocks), cap) THEN kept ELSE old.blocks,
               structured |-> IF OverCap(old.structured.length, cap) THEN short ELSE old.structured]
    BY <1>5 DEF TruncateResult, Keeping
  <2>2. short.length = 0
    OBVIOUS
  <2>3. Keeping(cap, old.blocks) \in Keepers
        /\ KeptWell(Keeping(cap, old.blocks), cap, Runes(old.blocks), Others(old.blocks))
    BY KeptWellAtLast
  <2>4. /\ kept \in Seq(ToolBlocks) /\ TextLength(kept) <= cap
        /\ IsPrefix(Runes(kept), Runes(old.blocks)) /\ Others(kept) = Others(old.blocks)
    <3>1. kept \in Seq(ToolBlocks) /\ Keeping(cap, old.blocks).budget \in Nat
      BY <2>3 DEF Keepers
    <3>2. TextLength(kept) \in Nat
      BY <1>2, <3>1
    <3> QED
      BY <2>3, <3>1, <3>2 DEF KeptWell
  <2> HIDE DEF kept, short
  <2>5. new.structured.length <= cap + CapSlack
    BY <1>1, <2>1, <2>2 DEF OverCap
  <2>6. CASE OverCap(TextLength(old.blocks), cap)
    <3>1. new.blocks = kept
      BY <2>1, <2>6
    <3>2. TextLength(kept) <= cap + CapSlack
      BY <1>1, <1>2, <2>4
    <3> QED
      BY <2>4, <2>5, <3>1, <3>2 DEF CappedStep
  <2>7. CASE ~ OverCap(TextLength(old.blocks), cap)
    <3>1. new.blocks = old.blocks
      BY <2>1, <2>7
    <3>2. TextLength(old.blocks) <= cap + CapSlack
      BY <1>1, <1>2, <2>7 DEF OverCap
    <3> QED
      BY <1>2, <2>5, <3>1, <3>2 DEF CappedStep
  <2> QED
    BY <2>6, <2>7
<1> QED
  BY <1>3, <1>4, <1>5

\* A compacted block is a block of the same kind and value.
LEMMA CompactedIs ==
  ASSUME NEW b \in ToolBlocks
  PROVE  Compacted(b) \in ToolBlocks /\ Compacted(b).kind = b.kind /\ Compacted(b).value = b.value
<1>1. /\ b.kind \in {"text", "json", "other"} /\ b.runes \in Seq(Nat) /\ b.value \in Nat /\ b.white \in Nat
      /\ b = [kind |-> b.kind, runes |-> b.runes, value |-> b.value, white |-> b.white]
  BY DEF ToolBlocks, BlockRecords
<1>2. CASE b.kind = "json"
  <2> DEFINE r == SubSeq(b.runes, b.white + 1, Len(b.runes))
  <2>1. Compacted(b) = [b EXCEPT !.runes = r, !.white = 0]
    BY <1>2 DEF Compacted
  <2>2. r \in Seq(Nat)
    BY <1>1
  <2> HIDE DEF r
  <2>3. Compacted(b) = [kind |-> b.kind, runes |-> r, value |-> b.value, white |-> 0]
    BY <1>1, <2>1
  <2>4. Compacted(b) \in BlockRecords /\ Compacted(b).kind = b.kind /\ Compacted(b).value = b.value
    BY <1>1, <2>2, <2>3 DEF BlockRecords
  <2> QED
    BY <1>2, <2>4 DEF ToolBlocks
<1>3. CASE b.kind # "json"
  BY <1>3 DEF Compacted
<1> QED
  BY <1>2, <1>3

\* Results, as they come and as they are minified.
SoundResult(r) == r.blocks \in Seq(ToolBlocks) /\ r.structured.length \in Nat

LEMMA MinifyIsLossless ==
  ASSUME NEW old, SoundResult(old)
  PROVE  /\ SoundResult(MinifyResult(old)) /\ LosslessStep(old, MinifyResult(old))
         /\ LosslessStep(old, old)
<1> DEFINE new == MinifyResult(old)
           blocks == [i \in DOMAIN old.blocks |-> Compacted(old.blocks[i])]
           Twice == \E i \in DOMAIN old.blocks : /\ old.blocks[i].kind = "json"
                                                    /\ old.blocks[i].value = old.structured.value
           short == [value |-> 0, length |-> 0]
<1>1. new = [blocks |-> blocks, structured |-> IF Twice THEN short ELSE old.structured]
  BY DEF MinifyResult
<1>2. old.blocks \in Seq(ToolBlocks) /\ old.structured.length \in Nat
  BY DEF SoundResult
<1>3. PICK n \in Nat : DOMAIN old.blocks = 1 .. n /\ Len(old.blocks) = n
                       /\ \A i \in 1 .. n : old.blocks[i] \in ToolBlocks
  BY <1>2
<1>4. \A i \in 1 .. n : /\ blocks[i] \in ToolBlocks /\ blocks[i].kind = old.blocks[i].kind
                        /\ blocks[i].value = old.blocks[i].value
  BY <1>3, CompactedIs
<1>5. blocks \in Seq(ToolBlocks) /\ Len(blocks) = n /\ DOMAIN blocks = 1 .. n
  BY <1>3, <1>4
<1>6. short.length = 0
  OBVIOUS
<1>7. new.blocks = blocks /\ new.structured.length \in Nat
      /\ (new.structured # old.structured => Twice)
  <2> HIDE DEF blocks, Twice, short
  <2> QED
    BY <1>1, <1>2, <1>6
<1>8. SoundResult(new)
  BY <1>5, <1>7 DEF SoundResult
<1>9. LosslessStep(old, new)
  <2>1. ASSUME Twice PROVE \E i \in 1 .. n : blocks[i].value = old.structured.value
    BY <1>3, <1>4, <2>1
  <2> HIDE DEF blocks, Twice, new
  <2> QED
    BY <1>3, <1>4, <1>5, <1>7, <2>1 DEF LosslessStep
<1>10. LosslessStep(old, old)
  BY DEF LosslessStep
<1> QED
  BY <1>8, <1>9, <1>10

-----------------------------------------------------------------------------
(* The search of tools.                                                     *)

\* What the ranking guarantees for every query: the bonus of a thousand for a full match is
\* enough up to 144 words and no more.
WordMatches == [name : Nat, desc : Nat]

\* A tool that matches every word ranks above every tool that misses one, whichever of the
\* words are found in names, for queries of up to 144 words (search.go: fullCoverageBonus).
THEOREM FullMatchesOutrank ==
  ASSUME NEW words \in 1 .. 144, NEW h \in WordMatches, NEW k \in WordMatches,
         Matched(h) = words, Matched(k) < words
  PROVE  Rank(h, words) > Rank(k, words)
<1>1. Rank(h, words) >= 3 * words + 1000
  BY DEF Rank, Matched, WordMatches
<1>2. Rank(k, words) <= 10 * (words - 1)
  BY DEF Rank, Matched, WordMatches
<1>3. 10 * (words - 1) < 3 * words + 1000
  OBVIOUS
<1> QED
  BY <1>1, <1>2, <1>3 DEF Rank, WordMatches

\* Up to 100 words a partial match is never counted among the full ones, which is what the
\* guard of searchToolCacheFiltered takes the score for.
THEOREM FullMeansFull ==
  ASSUME NEW words \in 1 .. 100, NEW h \in WordMatches, Matched(h) <= words
  PROVE  Full(h, words) <=> Matched(h) = words
<1>1. CASE Matched(h) = words
  BY <1>1 DEF Full, Rank, Matched, WordMatches
<1>2. CASE Matched(h) # words
  <2>1. Rank(h, words) <= 10 * (words - 1)
    BY <1>2 DEF Rank, Matched, WordMatches
  <2> QED
    BY <1>2, <2>1 DEF Full, Rank, WordMatches
<1> QED
  BY <1>1, <1>2

\* With 145 words a tool that has 144 of them in its name outranks one that has all of them
\* in its description.
THEOREM BonusIsOutranked ==
  \E h, k \in WordMatches : /\ Matched(h) = 145 /\ Matched(k) = 144
                            /\ Rank(h, 145) < Rank(k, 145)
<1> DEFINE h == [name |-> 0, desc |-> 145]
           k == [name |-> 144, desc |-> 0]
<1>1. h \in WordMatches /\ k \in WordMatches
  BY DEF WordMatches
<1>2. Matched(h) = 145 /\ Matched(k) = 144 /\ Rank(h, 145) < Rank(k, 145)
  BY DEF Matched, Rank
<1> QED
  BY <1>1, <1>2

\* The hits of a query: no more than it has words.
HitsOf(words) == {h \in [name : WordHits, desc : WordHits] : h.name + h.desc <= words}

\* What is found is what all words match, or else what any does; and of three words or more
\* two may do.
LEMMA GuardedIs ==
  ASSUME NEW words \in QueryLengths, words <= 144, NEW hits \in [Searched -> HitsOf(words)]
  PROVE  /\ Guarded(Searched, hits, words) \subseteq Searched
         /\ \A t \in Searched : /\ Matched(hits[t]) \in 0 .. words
                                /\ Rank(hits[t], words) \in Nat
                                /\ \/ Matched(hits[t]) = words
                                   \/ words >= 3 /\ Matched(hits[t]) = words - 1
                                   => t \in Guarded(Searched, hits, words)
         /\ \A t, u \in Searched : Matched(hits[t]) = words /\ Matched(hits[u]) # words
              => Rank(hits[t], words) > Rank(hits[u], words)
         /\ Guarded(Searched, hits, words) = {} => \A t \in Searched : Matched(hits[t]) = 0
<1> DEFINE matched == {t \in Searched : words = 0 \/ Matched(hits[t]) > 0}
           full == {t \in matched : Full(hits[t], words)}
           G == Guarded(Searched, hits, words)
<1>1. words \in Nat /\ WordHits \subseteq Nat
  BY AnswersAssumption
<1>2. G = IF full = {} THEN matched
          ELSE IF words < 3 THEN full
          ELSE full \cup {t \in matched : Matched(hits[t]) = words - 1}
  BY DEF Guarded
<1>3. ASSUME NEW t \in Searched
      PROVE  /\ hits[t] \in WordMatches /\ Matched(hits[t]) \in 0 .. words
             /\ Rank(hits[t], words) \in Nat
             /\ Matched(hits[t]) = words /\ words # 0 => Full(hits[t], words)
  <2>1. hits[t] \in WordMatches /\ hits[t].name \in Nat /\ hits[t].desc \in Nat
        /\ hits[t].name + hits[t].desc <= words
    BY <1>1 DEF HitsOf, WordMatches
  <2>2. Rank(hits[t], words) \in Nat
    BY <2>1 DEF Rank
  <2>3. Matched(hits[t]) = words /\ words # 0 => Full(hits[t], words)
    BY <1>1, <2>1 DEF Full, Rank, Matched
  <2> QED
    BY <1>1, <2>1, <2>2, <2>3 DEF Matched
<1> HIDE DEF G
<1>4. G \subseteq Searched
  BY <1>2
<1>5. ASSUME NEW t \in Searched,
             Matched(hits[t]) = words \/ (words >= 3 /\ Matched(hits[t]) = words - 1)
      PROVE  t \in G
  <2>1. t \in matched
    BY <1>1, <1>3, <1>5
  <2>2. CASE full = {}
    BY <1>2, <2>1, <2>2
  <2>3. CASE full # {} /\ Matched(hits[t]) = words /\ words # 0
    BY <1>2, <1>3, <2>1, <2>3
  <2>4. CASE full # {} /\ words >= 3 /\ Matched(hits[t]) = words - 1
    BY <1>1, <1>2, <2>1, <2>4
  <2>5. CASE words = 0
    <3>1. \A u \in Searched : ~ Full(hits[u], words)
      <4> TAKE u \in Searched
      <4>1. hits[u].name \in Nat /\ hits[u].desc \in Nat /\ hits[u].name + hits[u].desc <= 0
        BY <1>1, <2>5 DEF HitsOf
      <4> QED
        BY <2>5, <4>1 DEF Full, Rank
    <3>2. full = {}
      BY <3>1
    <3> QED
      BY <2>2, <3>2
  <2> QED
    BY <1>5, <2>2, <2>3, <2>4, <2>5
<1>6. ASSUME NEW t \in Searched, NEW u \in Searched, Matched(hits[t]) = words, Matched(hits[u]) # words
      PROVE  Rank(hits[t], words) > Rank(hits[u], words)
  <2>1. Matched(hits[u]) \in 0 .. words
    BY <1>3
  <2>2. words \in 1 .. 144 /\ Matched(hits[u]) < words
    BY <1>1, <1>6, <2>1
  <2> QED
    BY <1>3, <1>6, <2>2, FullMatchesOutrank
<1>7. ASSUME G = {}, NEW t \in Searched PROVE Matched(hits[t]) = 0
  <2>1. full = {}
    BY <1>2, <1>7
  <2>2. t \notin matched
    BY <1>2, <1>7, <2>1
  <2>3. ~ (Matched(hits[t]) > 0)
    BY <2>2
  <2> QED
    BY <1>1, <1>3, <2>3
<1> QED
  BY <1>3, <1>4, <1>5, <1>6, <1>7 DEF G

\* A list of the first of what was found, the best before the others, ranks it well.
LEMMA ListedWell ==
  ASSUME NEW words \in QueryLengths, words <= 144, NEW hits \in [Searched -> HitsOf(words)],
         NEW limit \in Limits,
         NEW ranked \in Bijection(1 .. Cardinality(Guarded(Searched, hits, words)),
                                  Guarded(Searched, hits, words)),
         \A i, j \in DOMAIN ranked : i < j =>
            \/ Rank(hits[ranked[i]], words) > Rank(hits[ranked[j]], words)
            \/ Rank(hits[ranked[i]], words) = Rank(hits[ranked[j]], words) /\ ranked[i] < ranked[j],
         NEW s, s = [step |-> "told", words |-> words, hits |-> hits, limit |-> limit,
              list |-> SubSeq(ranked, 1, Min({limit, Len(ranked)}))]
  PROVE  RankedWell(s)
<1> DEFINE G == Guarded(Searched, hits, words)
           n == Cardinality(G)
           k == Min({limit, n})
           list == SubSeq(ranked, 1, k)
           All(t) == Matched(hits[t]) = words
           AllButOne(t) == words >= 3 /\ Matched(hits[t]) = words - 1
           Position(t) == CHOOSE i \in DOMAIN s.list : s.list[i] = t
<1>1. words \in Nat /\ limit \in Nat \ {0} /\ IsFiniteSet(Searched)
  BY AnswersAssumption
<1>2. /\ G \subseteq Searched
      /\ \A t \in Searched : /\ Matched(hits[t]) \in 0 .. words
                             /\ Rank(hits[t], words) \in Nat
                             /\ All(t) \/ AllButOne(t) => t \in G
      /\ \A t, u \in Searched : All(t) /\ ~ All(u) => Rank(hits[t], words) > Rank(hits[u], words)
      /\ G = {} => \A t \in Searched : Matched(hits[t]) = 0
  BY GuardedIs
<1> HIDE DEF G
<1>3. n \in Nat
  BY <1>1, <1>2, FS_Subset, FS_CardinalityType
<1> HIDE DEF n
<1>4. /\ ranked \in [1 .. n -> G] /\ \A i, j \in 1 .. n : ranked[i] = ranked[j] => i = j
      /\ \A t \in G : \E i \in 1 .. n : ranked[i] = t
  BY DEF Bijection, Injection, Surjection, IsInjective, n, G
<1>5. ranked \in Seq(G) /\ Len(ranked) = n /\ DOMAIN ranked = 1 .. n
  BY <1>3, <1>4
<1>6. k \in 0 .. n /\ k <= limit /\ (k = limit \/ k = n)
  <2>1. k = IF limit <= n THEN limit ELSE n
    BY <1>1, <1>3, LeastOfTwo
  <2> QED
    BY <1>1, <1>3, <2>1
<1>7. s.words = words /\ s.hits = hits /\ s.limit = limit /\ s.list = list
  BY <1>5
<1> HIDE DEF k
<1>8. list \in Seq(G) /\ Len(list) = k /\ DOMAIN list = 1 .. k /\ \A i \in 1 .. k : list[i] = ranked[i]
  BY <1>5, <1>6
<1> HIDE DEF list
<1>9. ToSet(list) = {ranked[i] : i \in 1 .. k}
  BY <1>8 DEF ToSet
<1>10. \A i, j \in 1 .. n : i < j => ~ (Rank(hits[ranked[j]], words) > Rank(hits[ranked[i]], words))
  <2> TAKE i, j \in 1 .. n
  <2> HAVE i < j
  <2>1. ranked[i] \in Searched /\ ranked[j] \in Searched
    BY <1>2, <1>4
  <2>2. \/ Rank(hits[ranked[i]], words) > Rank(hits[ranked[j]], words)
        \/ Rank(hits[ranked[i]], words) = Rank(hits[ranked[j]], words)
    BY <1>5
  <2>3. Rank(hits[ranked[i]], words) \in Nat /\ Rank(hits[ranked[j]], words) \in Nat
    BY <1>2, <2>1
  <2> QED
    BY <2>2, <2>3
<1>11. ASSUME NEW t \in G, t \notin ToSet(list) PROVE k = limit /\ \E j \in 1 .. n : ranked[j] = t /\ k < j
  <2>1. PICK j \in 1 .. n : ranked[j] = t
    BY <1>4
  <2>2. ~ (j <= k)
    BY <1>9, <1>11, <2>1
  <2> QED
    BY <1>3, <1>6, <2>1, <2>2
<1>12. ASSUME NEW t \in Searched \ ToSet(list), All(t)
       PROVE  k = limit /\ \A u \in ToSet(list) : All(u)
  <2>1. k = limit /\ \E j \in 1 .. n : ranked[j] = t /\ k < j
    BY <1>2, <1>11, <1>12
  <2>2. PICK j \in 1 .. n : ranked[j] = t /\ k < j
    BY <2>1
  <2>3. ASSUME NEW u \in ToSet(list), ~ All(u) PROVE FALSE
    <3>1. PICK i \in 1 .. k : u = ranked[i]
      BY <1>9
    <3>2. i \in 1 .. n /\ i < j /\ u \in Searched
      BY <1>2, <1>3, <1>4, <1>6, <2>2, <3>1
    <3>3. Rank(hits[t], words) > Rank(hits[u], words)
      BY <1>2, <1>12, <2>3, <3>2
    <3> QED
      BY <1>10, <2>2, <3>1, <3>2, <3>3
  <2> QED
    BY <2>1, <2>3
<1>13. ASSUME NEW t \in Searched \ ToSet(list), AllButOne(t) PROVE k = limit
  BY <1>2, <1>11, <1>13
<1>14. ASSUME NEW t \in ToSet(list) PROVE Position(t) \in 1 .. k /\ ranked[Position(t)] = t /\ t \in Searched
  <2>1. \E i \in DOMAIN s.list : s.list[i] = t
    <3>1. PICK i \in 1 .. k : t = ranked[i]
      BY <1>9
    <3>2. i \in DOMAIN list /\ list[i] = t
      BY <1>8, <3>1
    <3> QED
      BY <1>7, <3>2
  <2>2. Position(t) \in DOMAIN s.list /\ s.list[Position(t)] = t
    BY <2>1
  <2> HIDE DEF Position
  <2>3. Position(t) \in 1 .. k /\ ranked[Position(t)] = t
    BY <1>7, <1>8, <2>2
  <2>4. Position(t) \in 1 .. n
    BY <1>3, <1>6, <2>3
  <2> QED
    BY <1>2, <1>4, <2>3, <2>4
<1>15. ASSUME NEW t \in ToSet(list), NEW u \in ToSet(list), All(t), ~ All(u)
       PROVE  Position(t) < Position(u)
  <2> DEFINE i == Position(t)
             j == Position(u)
  <2>1. /\ i \in 1 .. k /\ ranked[i] = t /\ t \in Searched
        /\ j \in 1 .. k /\ ranked[j] = u /\ u \in Searched
    BY <1>14
  <2> HIDE DEF i, j
  <2>2. Rank(hits[t], words) > Rank(hits[u], words)
    BY <1>2, <1>15, <2>1
  <2>3. i \in 1 .. n /\ j \in 1 .. n /\ i # j
    BY <1>3, <1>6, <1>15, <2>1
  <2>4. ~ (j < i)
    BY <1>10, <2>1, <2>2, <2>3
  <2>5. i < j
    BY <2>3, <2>4
  <2> QED
    BY <2>5 DEF i, j
<1>16. ASSUME list = <<>>, NEW t \in Searched PROVE Matched(hits[t]) = 0
  <2>1. k = 0
    BY <1>8, <1>16
  <2>2. n = 0
    BY <1>1, <1>6, <2>1
  <2>3. G = {}
    BY <1>4, <2>2
  <2> QED
    BY <1>2, <2>3
<1> HIDE DEF Position
<1>17. \A t \in Searched \ ToSet(s.list) :
         /\ Matched(s.hits[t]) = s.words
              => Len(s.list) = s.limit
                 /\ \A u \in ToSet(s.list) : Matched(s.hits[u]) = s.words
         /\ s.words >= 3 /\ Matched(s.hits[t]) = s.words - 1
              => Len(s.list) = s.limit
  BY <1>7, <1>8, <1>12, <1>13
<1>18. \A t, u \in ToSet(s.list) :
         Matched(s.hits[t]) = s.words /\ ~ (Matched(s.hits[u]) = s.words)
           => Position(t) < Position(u)
  BY <1>7, <1>15
<1>19. s.list = <<>> => \A t \in Searched : Matched(s.hits[t]) = 0
  BY <1>7, <1>16
<1> QED
  BY <1>17, <1>18, <1>19 DEF RankedWell, Position

-----------------------------------------------------------------------------
(* What clients are told.                                                   *)

AnswersInv ==
  /\ answer.step \in {"minify", "cap"} => SoundResult(answer.came)
  /\ answer.step = "cap" => SoundResult(answer.small)
  /\ AnswersAreSound

LEMMA AnswersInitially == TAInit => AnswersInv
  BY DEF TAInit, NoResult, NoSearch, AnswersInv, AnswersAreSound

\* What comes is a result.
LEMMA ResultsAreSound ==
  ASSUME NEW n \in Nat, NEW blocks \in [1 .. n -> ResultBlocks], NEW s \in Structured,
         NEW r, r = [blocks |-> blocks, structured |-> s]
  PROVE  SoundResult(r)
<1>1. \A b \in ResultBlocks : b \in ToolBlocks
  BY AnswersAssumption DEF ToolBlocks, BlockRecords
<1>2. blocks \in Seq(ToolBlocks)
  BY <1>1
<1>3. s.length \in Nat
  BY AnswersAssumption
<1> QED
  BY <1>2, <1>3 DEF SoundResult

LEMMA CapIsNatural ==
  ASSUME NEW explicit \in Caps, NEW perTool \in Caps, NEW default \in Caps
  PROVE  CapFor(explicit, perTool, default) \in Nat
  BY AnswersAssumption DEF CapFor, AtLeastMin

LEMMA AnswersStep == AnswersInv /\ [TANext]_answerVars => AnswersInv'
<1> SUFFICES ASSUME AnswersInv, [TANext]_answerVars PROVE AnswersInv'
  OBVIOUS
<1>1. CASE ResultComes
  <2>1. PICK n \in 0 .. MaxBlocks : \E blocks \in [1 .. n -> ResultBlocks], s \in Structured :
          answer' = [step |-> "minify", came |-> [blocks |-> blocks, structured |-> s]]
    BY <1>1 DEF ResultComes
  <2>2. PICK blocks \in [1 .. n -> ResultBlocks], s \in Structured :
          answer' = [step |-> "minify", came |-> [blocks |-> blocks, structured |-> s]]
    BY <2>1
  <2>3. n \in Nat
    BY <2>1, AnswersAssumption
  <2> DEFINE r == [blocks |-> blocks, structured |-> s]
  <2>4. SoundResult(r)
    BY <2>3, ResultsAreSound
  <2>5. answer'.step = "minify" /\ answer'.came = r /\ search' = search
    BY <1>1, <2>2 DEF ResultComes
  <2> HIDE DEF r
  <2> QED
    BY <2>4, <2>5 DEF AnswersInv, AnswersAreSound
<1>2. CASE Minify
  <2>1. PICK on \in BOOLEAN :
          answer' = [step |-> "cap", came |-> answer.came,
                     small |-> IF on THEN MinifyResult(answer.came) ELSE answer.came]
    BY <1>2 DEF Minify
  <2>2. answer.step = "minify" /\ SoundResult(answer.came) /\ search' = search
    BY <1>2 DEF Minify, AnswersInv
  <2>3. /\ answer'.step = "cap" /\ answer'.came = answer.came
        /\ answer'.small = IF on THEN MinifyResult(answer.came) ELSE answer.came
    BY <2>1
  <2>4. SoundResult(answer'.small) /\ LosslessStep(answer'.came, answer'.small)
    BY <2>2, <2>3, MinifyIsLossless
  <2> QED
    BY <2>2, <2>3, <2>4 DEF AnswersInv, AnswersAreSound
<1>3. CASE ApplyCap
  <2>1. PICK explicit, perTool, default \in Caps :
          LET cap == CapFor(explicit, perTool, default)
          IN answer' = [step |-> "told", came |-> answer.came, small |-> answer.small, cap |-> cap,
                        told |-> IF cap = 0 THEN answer.small
                                 ELSE TruncateResult(answer.small, cap)]
    BY <1>3 DEF ApplyCap
  <2> DEFINE cap == CapFor(explicit, perTool, default)
  <2>2. cap \in Nat
    BY CapIsNatural
  <2>3. /\ answer.step = "cap" /\ SoundResult(answer.small) /\ search' = search
        /\ LosslessStep(answer.came, answer.small)
    BY <1>3 DEF ApplyCap, AnswersInv, AnswersAreSound
  <2>4. /\ answer'.step = "told" /\ answer'.came = answer.came /\ answer'.small = answer.small
        /\ answer'.cap = cap
        /\ answer'.told = IF cap = 0 THEN answer.small ELSE TruncateResult(answer.small, cap)
    BY <2>1
  <2> HIDE DEF cap
  <2>5. CappedStep(answer'.small, answer'.told, answer'.cap)
    BY <2>2, <2>3, <2>4, CappedIsSound DEF SoundResult
  <2> QED
    BY <2>3, <2>4, <2>5 DEF AnswersInv, AnswersAreSound
<1>4. CASE SearchTools
  <2>1. answer' = answer
    BY <1>4 DEF SearchTools
  <2>2. ASSUME search'.step = "told", search'.words <= 144 PROVE RankedWell(search')
    <3>1. PICK words \in QueryLengths, limit \in Limits :
            \E hits \in [Searched -> HitsOf(words)] :
              \E ranked \in Bijection(1 .. Cardinality(Guarded(Searched, hits, words)),
                                      Guarded(Searched, hits, words)) :
                /\ \A i, j \in DOMAIN ranked : i < j =>
                     \/ Rank(hits[ranked[i]], words) > Rank(hits[ranked[j]], words)
                     \/ /\ Rank(hits[ranked[i]], words) = Rank(hits[ranked[j]], words)
                        /\ ranked[i] < ranked[j]
                /\ search' = [step |-> "told", words |-> words, hits |-> hits, limit |-> limit,
                              list |-> SubSeq(ranked, 1, Min({limit, Len(ranked)}))]
      BY <1>4 DEF SearchTools, HitsOf
    <3>2. PICK hits \in [Searched -> HitsOf(words)] :
              \E ranked \in Bijection(1 .. Cardinality(Guarded(Searched, hits, words)),
                                      Guarded(Searched, hits, words)) :
                /\ \A i, j \in DOMAIN ranked : i < j =>
                     \/ Rank(hits[ranked[i]], words) > Rank(hits[ranked[j]], words)
                     \/ /\ Rank(hits[ranked[i]], words) = Rank(hits[ranked[j]], words)
                        /\ ranked[i] < ranked[j]
                /\ search' = [step |-> "told", words |-> words, hits |-> hits, limit |-> limit,
                              list |-> SubSeq(ranked, 1, Min({limit, Len(ranked)}))]
      BY <3>1
    <3>3. PICK ranked \in Bijection(1 .. Cardinality(Guarded(Searched, hits, words)),
                                    Guarded(Searched, hits, words)) :
                /\ \A i, j \in DOMAIN ranked : i < j =>
                     \/ Rank(hits[ranked[i]], words) > Rank(hits[ranked[j]], words)
                     \/ /\ Rank(hits[ranked[i]], words) = Rank(hits[ranked[j]], words)
                        /\ ranked[i] < ranked[j]
                /\ search' = [step |-> "told", words |-> words, hits |-> hits, limit |-> limit,
                              list |-> SubSeq(ranked, 1, Min({limit, Len(ranked)}))]
      BY <3>2
    <3>4. words <= 144
      BY <2>2, <3>3
    <3> QED
      BY <3>3, <3>4, ListedWell
  <2> QED
    BY <2>1, <2>2 DEF AnswersInv, AnswersAreSound
<1>5. CASE UNCHANGED answerVars
  BY <1>5 DEF answerVars, AnswersInv, AnswersAreSound
<1> QED
  BY <1>1, <1>2, <1>3, <1>4, <1>5 DEF TANext

-----------------------------------------------------------------------------
(* The prefilter of the redactor: recursion over the trees of patterns.     *)

\* The sub-expressions of a node stand lower than it.
LEMMA SubsAreLower ==
  ASSUME NEW t \in Trees
  PROVE  /\ Height[t] \in Nat /\ t.subs \in Seq(Trees)
         /\ \A i \in DOMAIN t.subs : t.subs[i] \in Trees /\ Height[t.subs[i]] < Height[t]
                                     /\ Height[t.subs[i]] \in Nat
<1>1. Height[t] \in Nat /\ t.subs \in Seq(Trees) /\ \A i \in DOMAIN t.subs : Height[t.subs[i]] < Height[t]
  BY TreesAssumption
<1>2. \A i \in DOMAIN t.subs : t.subs[i] \in Trees
  BY <1>1
<1> QED
  BY <1>1, <1>2, TreesAssumption

\* Of any trees one stands lowest.
LEMMA LowestTree ==
  ASSUME NEW X \in SUBSET Trees, X # {}
  PROVE  \E t \in X : \A u \in X : Height[t] <= Height[u]
<1>1. PICK s \in X : TRUE
  OBVIOUS
<1>2. \A u \in X : Height[u] \in Nat
  BY SubsAreLower
<1> DEFINE n == Height[s]
           H == {k \in 0 .. n : \E u \in X : Height[u] = k}
<1>3. n \in Nat /\ n \in H
  BY <1>1, <1>2
<1>4. H \in SUBSET (0 .. n) /\ H # {} /\ 0 \in Int /\ n \in Int
  BY <1>3
<1>5. Min(H) \in H /\ \A k \in H : Min(H) <= k
  <2> HIDE DEF H, n
  <2> QED
    BY <1>4, LargestIn
<1>6. PICK t \in X : Height[t] = Min(H)
  BY <1>5
<1>7. ASSUME NEW u \in X PROVE Height[t] <= Height[u]
  <2>1. CASE Height[u] <= n
    <3>1. Height[u] \in H
      BY <1>2, <1>3, <2>1
    <3> HIDE DEF H
    <3> QED
      BY <1>5, <1>6, <3>1
  <2>2. CASE ~ (Height[u] <= n)
    <3>1. Height[t] <= n
      BY <1>3, <1>5, <1>6
    <3> QED
      BY <1>2, <1>3, <2>2, <3>1
  <2> QED
    BY <2>1, <2>2
<1> QED
  BY <1>7

\* Induction over trees.
LEMMA TreeInduction ==
  ASSUME NEW X \in SUBSET Trees,
         \A t \in Trees : (\A i \in DOMAIN t.subs : t.subs[i] \in X) => t \in X
  PROVE  \A t \in Trees : t \in X
<1> DEFINE Y == Trees \ X
<1>1. SUFFICES ASSUME Y # {} PROVE FALSE
  OBVIOUS
<1>2. Y \in SUBSET Trees
  OBVIOUS
<1>3. PICK t \in Y : \A u \in Y : Height[t] <= Height[u]
  <2> HIDE DEF Y
  <2> QED
    BY <1>1, <1>2, LowestTree
<1>4. \A i \in DOMAIN t.subs : t.subs[i] \in X
  <2> TAKE i \in DOMAIN t.subs
  <2>1. t.subs[i] \in Trees /\ ~ (Height[t] <= Height[t.subs[i]])
    BY <1>3, SubsAreLower
  <2> QED
    BY <1>3, <2>1
<1> QED
  BY <1>3, <1>4

\* The values of a function of trees at the sub-expressions of one.
ValuesBelow(f, t) == [i \in DOMAIN t.subs |-> f[t.subs[i]]]
Below(n) == {t \in Trees : Height[t] < n}

\* A function that says of a tree what is made of the values below it, and one that follows it
\* as far as some height.
StepsUp(h, V) == \A t \in Trees, vs \in Seq(V) : Len(vs) = Len(t.subs) => h[<<t, vs>>] \in V
UpToHeight(f, h, V, n) ==
  /\ f \in [Below(n) -> V]
  /\ \A t \in Below(n) : f[t] = h[<<t, ValuesBelow(f, t)>>]

LEMMA ValuesAre ==
  ASSUME NEW V, NEW f, NEW t \in Trees, \A i \in DOMAIN t.subs : f[t.subs[i]] \in V
  PROVE  ValuesBelow(f, t) \in Seq(V) /\ Len(ValuesBelow(f, t)) = Len(t.subs)
         /\ DOMAIN ValuesBelow(f, t) = DOMAIN t.subs
         /\ \A i \in DOMAIN t.subs : ValuesBelow(f, t)[i] = f[t.subs[i]]
<1>1. t.subs \in Seq(Trees)
  BY SubsAreLower
<1>2. PICK n \in Nat : DOMAIN t.subs = 1 .. n /\ Len(t.subs) = n
  BY <1>1
<1> QED
  BY <1>2 DEF ValuesBelow

LEMMA UpToHeightAgree ==
  ASSUME NEW V, NEW h, NEW n \in Nat, NEW m \in Nat, NEW f, UpToHeight(f, h, V, n),
         NEW g, UpToHeight(g, h, V, m), NEW t \in Below(n), t \in Below(m)
  PROVE  f[t] = g[t]
<1> DEFINE X == {u \in Trees : u \in Below(n) /\ u \in Below(m) => f[u] = g[u]}
<1>1. ASSUME NEW u \in Trees, \A i \in DOMAIN u.subs : u.subs[i] \in X PROVE u \in X
  <2>1. SUFFICES ASSUME u \in Below(n), u \in Below(m) PROVE f[u] = g[u]
    OBVIOUS
  <2>2. \A i \in DOMAIN u.subs : u.subs[i] \in Below(n) /\ u.subs[i] \in Below(m)
    BY <2>1, SubsAreLower DEF Below
  <2>3. \A i \in DOMAIN u.subs : f[u.subs[i]] = g[u.subs[i]]
    BY <1>1, <2>2
  <2>4. ValuesBelow(f, u) = ValuesBelow(g, u)
    BY <2>3 DEF ValuesBelow
  <2> QED
    BY <2>1, <2>4 DEF UpToHeight
<1>2. \A u \in Trees : u \in X
  <2>1. X \in SUBSET Trees
    OBVIOUS
  <2> HIDE DEF X
  <2> QED
    BY <1>1, <2>1, TreeInduction
<1> QED
  BY <1>2 DEF Below

LEMMA UpToHeightExists ==
  ASSUME NEW V, NEW h, StepsUp(h, V), NEW n \in Nat
  PROVE  \E f : UpToHeight(f, h, V, n)
<1> DEFINE X == {m \in 0 .. n : \E f : UpToHeight(f, h, V, m)}
<1>1. 0 \in X
  <2>1. Below(0) = {}
    BY SubsAreLower DEF Below
  <2>2. UpToHeight([t \in {} |-> 0], h, V, 0)
    BY <2>1 DEF UpToHeight
  <2> QED
    BY <2>2
<1>2. ASSUME NEW m \in 1 .. n, m - 1 \in X PROVE m \in X
  <2>1. PICK f : UpToHeight(f, h, V, m - 1)
    BY <1>2
  <2> DEFINE g == [t \in Below(m) |-> h[<<t, ValuesBelow(f, t)>>]]
  <2>2. ASSUME NEW t \in Below(m)
        PROVE  t \in Trees /\ \A i \in DOMAIN t.subs : t.subs[i] \in Below(m - 1) /\ t.subs[i] \in Below(m)
    BY SubsAreLower DEF Below
  <2>3. ASSUME NEW t \in Below(m - 1) PROVE t \in Below(m) /\ g[t] = f[t]
    <3>1. t \in Below(m)
      BY SubsAreLower DEF Below
    <3> QED
      BY <2>1, <3>1 DEF UpToHeight
  <2>4. ASSUME NEW t \in Below(m) PROVE ValuesBelow(g, t) = ValuesBelow(f, t)
    <3>1. \A i \in DOMAIN t.subs : g[t.subs[i]] = f[t.subs[i]]
      BY <2>2, <2>3
    <3> HIDE DEF g
    <3> QED
      BY <3>1 DEF ValuesBelow
  <2>5. ASSUME NEW t \in Below(m) PROVE g[t] \in V
    <3>1. \A i \in DOMAIN t.subs : f[t.subs[i]] \in V
      BY <2>1, <2>2 DEF UpToHeight
    <3>2. ValuesBelow(f, t) \in Seq(V) /\ Len(ValuesBelow(f, t)) = Len(t.subs)
      BY <2>2, <3>1, ValuesAre
    <3> QED
      BY <2>2, <3>2 DEF StepsUp
  <2>6. UpToHeight(g, h, V, m)
    BY <2>4, <2>5 DEF UpToHeight
  <2> QED
    BY <2>6
<1>3. n \in X
  <2>1. X \in SUBSET (0 .. n) /\ n \in 0 .. n
    OBVIOUS
  <2> HIDE DEF X
  <2> QED
    BY <1>1, <1>2, <2>1, Climbs
<1> QED
  BY <1>3

\* A function of trees may be defined by what is made of its values below.
LEMMA TreeRecursion ==
  ASSUME NEW V, NEW h, StepsUp(h, V)
  PROVE  \E f \in [Trees -> V] : \A t \in Trees : f[t] = h[<<t, ValuesBelow(f, t)>>]
<1> DEFINE G(n) == CHOOSE g : UpToHeight(g, h, V, n)
           f == [t \in Trees |-> G(Height[t] + 1)[t]]
<1>1. ASSUME NEW n \in Nat PROVE UpToHeight(G(n), h, V, n)
  BY UpToHeightExists
<1> HIDE DEF G
<1>2. ASSUME NEW t \in Trees PROVE f[t] \in V /\ f[t] = h[<<t, ValuesBelow(f, t)>>]
  <2> DEFINE n == Height[t] + 1
  <2>1. n \in Nat /\ t \in Below(n)
    BY SubsAreLower DEF Below
  <2>2. UpToHeight(G(n), h, V, n)
    BY <1>1, <2>1
  <2>3. G(n)[t] \in V /\ G(n)[t] = h[<<t, ValuesBelow(G(n), t)>>]
    BY <2>1, <2>2 DEF UpToHeight
  <2>4. ASSUME NEW i \in DOMAIN t.subs PROVE f[t.subs[i]] = G(n)[t.subs[i]]
    <3> DEFINE u == t.subs[i]
               m == Height[u] + 1
    <3>1. u \in Trees /\ m \in Nat /\ u \in Below(m) /\ u \in Below(n)
      BY SubsAreLower DEF Below
    <3>2. UpToHeight(G(m), h, V, m)
      BY <1>1, <3>1
    <3>3. f[u] = G(m)[u]
      BY <3>1
    <3> HIDE DEF u, m, n, f
    <3>4. G(m)[u] = G(n)[u]
      BY <2>1, <2>2, <3>1, <3>2, UpToHeightAgree
    <3> QED
      BY <3>3, <3>4 DEF u
  <2>5. ValuesBelow(f, t) = ValuesBelow(G(n), t)
    <3> HIDE DEF f, n
    <3> QED
      BY <2>4 DEF ValuesBelow
  <2> QED
    BY <2>3, <2>5
<1> QED
  BY <1>2

\* Words of literals, and lists of them that are not empty.
Lits == Seq(AllRunes)
LitSets == Seq(Lits) \ {<<>>}
Holds(list, x) == \E k \in DOMAIN list : list[k] = x

\* The lists of a list, one behind the other.
JoinedOf(f, s) ==
  f = [q \in SUBSET DOMAIN s |-> IF q = {} THEN <<>> ELSE f[q \ {Max(q)}] \o s[Max(q)]]

LEMMA JoinedGoes ==
  ASSUME NEW S, NEW s \in Seq(Seq(S))
  PROVE  \E g \in [0 .. Len(s) -> Seq(S)] :
           /\ g[0] = <<>> /\ g[Len(s)] = Joined(s)
           /\ \A m \in 1 .. Len(s) : g[m] = g[m - 1] \o s[m]
<1> DEFINE n == Len(s)
           V == Seq(S)
           base == <<>>
           h == [q \in (1 .. n) \X V |-> q[2] \o s[q[1]]]
           f == CHOOSE x : JoinedOf(x, s)
<1>1. n \in Nat /\ DOMAIN s = 1 .. n /\ \A i \in 1 .. n : s[i] \in Seq(S)
  OBVIOUS
<1>2. base \in V
  OBVIOUS
<1>3. \A i \in 1 .. n, v \in V : v \o s[i] \in V
  BY <1>1
<1>4. \A i \in 1 .. n, v \in V : h[<<i, v>>] = v \o s[i]
  OBVIOUS
<1>5. Joined(s) = f[DOMAIN s]
  BY DEF Joined, JoinedOf, FoldLeft, MapThenFoldSet
<1>6. \A x : JoinedOf(x, s)
        <=> x = [q \in SUBSET DOMAIN s |-> IF q = {} THEN base ELSE x[q \ {Max(q)}] \o s[Max(q)]]
  BY DEF JoinedOf
<1> HIDE DEF h, n, V, base
<1>7. \A i \in 1 .. n, v \in V : h[<<i, v>>] \in V
  BY <1>3, <1>4
<1>8. \E x : JoinedOf(x, s)
  <2>1. PICK x : FoldsInOrder(x, base, h, n) /\ \A q \in SUBSET (1 .. n) : x[q] \in V
    BY <1>1, <1>2, <1>7, OrderedFold
  <2>2. ASSUME NEW q \in SUBSET (1 .. n), q # {}
        PROVE  h[<<Max(q), x[q \ {Max(q)}]>>] = x[q \ {Max(q)}] \o s[Max(q)]
    BY <1>1, <1>4, <2>1, <2>2, LastIsIn
  <2>3. x = [q \in SUBSET (1 .. n) |-> IF q = {} THEN base ELSE h[<<Max(q), x[q \ {Max(q)}]>>]]
    BY <2>1 DEF FoldsInOrder
  <2>4. x = [q \in SUBSET DOMAIN s |-> IF q = {} THEN base ELSE x[q \ {Max(q)}] \o s[Max(q)]]
    BY <1>1, <2>2, <2>3
  <2> QED
    BY <1>6, <2>4
<1>9. f = [q \in SUBSET DOMAIN s |-> IF q = {} THEN base ELSE f[q \ {Max(q)}] \o s[Max(q)]]
  BY <1>6, <1>8
<1> HIDE DEF f
<1>10. \A q \in SUBSET (1 .. n) : f[q] = IF q = {} THEN base ELSE f[q \ {Max(q)}] \o s[Max(q)]
  BY <1>1, <1>9
<1>11. FoldsBy(f, base, h, n, V)
  <2>1. f[{}] = base
    BY <1>10
  <2>2. ASSUME NEW q \in SUBSET (1 .. n), q # {}, f[q \ {Max(q)}] \in V
        PROVE  f[q] = h[<<Max(q), f[q \ {Max(q)}]>>]
    <3>1. Max(q) \in 1 .. n
      BY <1>1, <2>2, LastIsIn
    <3> QED
      BY <1>4, <1>10, <2>2, <3>1
  <2> QED
    BY <2>1, <2>2 DEF FoldsBy
<1>12. StaysIn(h, n, V)
  BY <1>7 DEF StaysIn
<1>13. PICK g : RunsBy(g, f, base, h, n, V)
  BY <1>1, <1>2, <1>11, <1>12, FoldRuns
<1>14. g \in [0 .. n -> V] /\ g[0] = base /\ g[n] = Joined(s)
  BY <1>1, <1>5, <1>13 DEF RunsBy
<1>15. \A m \in 1 .. n : g[m] = g[m - 1] \o s[m]
  <2> TAKE m \in 1 .. n
  <2>1. m - 1 \in 0 .. n
    BY <1>1
  <2>2. g[m - 1] \in V /\ g[m] = h[<<m, g[m - 1]>>]
    BY <1>13, <2>1, SMTT(60) DEF RunsBy
  <2> QED
    BY <1>4, <2>2
<1> QED
  BY <1>14, <1>15 DEF n, V, base

\* What a list is.
LEMMA ListIs ==
  ASSUME NEW S, NEW s \in Seq(S)
  PROVE  \E n \in Nat : /\ n = Len(s) /\ DOMAIN s = 1 .. n /\ (n = 0 <=> s = <<>>)
                        /\ \A i \in 1 .. n : s[i] \in S
<1>1. Len(s) \in Nat /\ DOMAIN s = 1 .. Len(s) /\ (Len(s) = 0 <=> s = <<>>)
  OBVIOUS
<1>2. \A i \in 1 .. Len(s) : s[i] \in S
  OBVIOUS
<1> QED
  BY <1>1, <1>2

LEMMA ListMade ==
  ASSUME NEW S, NEW n \in Nat, NEW f, f = [i \in 1 .. n |-> f[i]], \A i \in 1 .. n : f[i] \in S
  PROVE  f \in Seq(S) /\ Len(f) = n
<1>1. f \in [1 .. n -> S]
  OBVIOUS
<1> QED
  BY <1>1

LEMMA JoinHolds ==
  ASSUME NEW S, NEW a \in Seq(S), NEW b \in Seq(S)
  PROVE  /\ \A k \in DOMAIN a : Holds(a \o b, a[k])
         /\ \A k \in DOMAIN b : Holds(a \o b, b[k])
         /\ a \o b \in Seq(S)
<1>1. PICK n \in Nat : n = Len(a) /\ DOMAIN a = 1 .. n
  OBVIOUS
<1>2. PICK m \in Nat : m = Len(b) /\ DOMAIN b = 1 .. m
  OBVIOUS
<1>3. DOMAIN (a \o b) = 1 .. n + m
  BY <1>1, <1>2
<1>4. ASSUME NEW k \in DOMAIN a PROVE k \in DOMAIN (a \o b) /\ (a \o b)[k] = a[k]
  <2>1. k \in 1 .. n /\ k \in 1 .. n + m
    BY <1>1, <1>2
  <2> QED
    BY <1>1, <1>2, <1>3, <2>1
<1>5. ASSUME NEW k \in DOMAIN b PROVE n + k \in DOMAIN (a \o b) /\ (a \o b)[n + k] = b[k]
  <2>1. k \in 1 .. m /\ n + k \in 1 .. n + m /\ ~ (n + k <= n) /\ (n + k) - n = k
    BY <1>1, <1>2
  <2> QED
    BY <1>1, <1>2, <1>3, <2>1
<1> QED
  <2>1. a \o b \in Seq(S)
    OBVIOUS
  <2> QED
    BY <1>4, <1>5, <2>1 DEF Holds

LEMMA JoinedHolds ==
  ASSUME NEW S, NEW s \in Seq(Seq(S))
  PROVE  Joined(s) \in Seq(S) /\ \A i \in DOMAIN s : \A j \in DOMAIN s[i] : Holds(Joined(s), s[i][j])
<1> DEFINE n == Len(s)
<1>1. n \in Nat /\ DOMAIN s = 1 .. n /\ \A i \in 1 .. n : s[i] \in Seq(S)
  OBVIOUS
<1>2. PICK g \in [0 .. Len(s) -> Seq(S)] :
        /\ g[0] = <<>> /\ g[Len(s)] = Joined(s)
        /\ \A m \in 1 .. Len(s) : g[m] = g[m - 1] \o s[m]
  BY JoinedGoes
<1> DEFINE X == {m \in 0 .. n : \A i \in 1 .. m : \A j \in DOMAIN s[i] : Holds(g[m], s[i][j])}
<1>3. X \in SUBSET (0 .. n) /\ 0 \in X
  BY <1>1
<1>4. ASSUME NEW m \in 1 .. n, m - 1 \in X PROVE m \in X
  <2>1. m \in 0 .. n /\ m - 1 \in 0 .. n /\ m \in 1 .. Len(s)
    BY <1>1
  <2>2. g[m] = g[m - 1] \o s[m]
    BY <1>2, <2>1
  <2>3. g[m - 1] \in Seq(S)
    BY <1>2, <2>1
  <2>4. s[m] \in Seq(S)
    BY <1>1
  <2>5. /\ \A k \in DOMAIN g[m - 1] : Holds(g[m], g[m - 1][k])
        /\ \A k \in DOMAIN s[m] : Holds(g[m], s[m][k])
    <3> DEFINE a == g[m - 1]
               b == s[m]
    <3>1. a \in Seq(S) /\ b \in Seq(S) /\ g[m] = a \o b
      BY <2>2, <2>3, <2>4
    <3> HIDE DEF a, b
    <3>2. /\ \A k \in DOMAIN a : Holds(a \o b, a[k])
          /\ \A k \in DOMAIN b : Holds(a \o b, b[k])
      BY <3>1, JoinHolds
    <3>3. /\ \A k \in DOMAIN a : Holds(g[m], a[k])
          /\ \A k \in DOMAIN b : Holds(g[m], b[k])
      BY <3>1, <3>2
    <3> QED
      BY <3>3 DEF a, b
  <2>6. ASSUME NEW i \in 1 .. m, NEW j \in DOMAIN s[i] PROVE Holds(g[m], s[i][j])
    <3>1. CASE i = m
      BY <2>5, <3>1
    <3>2. CASE i # m
      <4>1. i \in 1 .. m - 1
        BY <2>1, <3>2
      <4>2. Holds(g[m - 1], s[i][j])
        BY <1>4, <4>1
      <4> QED
        BY <2>5, <4>2 DEF Holds
    <3> QED
      BY <3>1, <3>2
  <2> QED
    BY <2>1, <2>6
<1>5. n \in X
  <2>1. n \in 0 .. n
    BY <1>1
  <2> HIDE DEF X, n
  <2> QED
    BY <1>1, <1>3, <1>4, <2>1, Climbs
<1>6. Joined(s) = g[n] /\ n \in 0 .. n
  BY <1>1, <1>2
<1>7. \A i \in 1 .. n : \A j \in DOMAIN s[i] : Holds(g[n], s[i][j])
  BY <1>5
<1> QED
  BY <1>1, <1>2, <1>6, <1>7

\* The concatenations of the words of two lists.
LEMMA CrossHolds ==
  ASSUME NEW ls \in Seq(Lits), NEW ms \in Seq(Lits)
  PROVE  /\ Cross(ls, ms) \in Seq(Lits)
         /\ \A x, y : Holds(ls, x) /\ Holds(ms, y) => Holds(Cross(ls, ms), x \o y)
         /\ ls # <<>> /\ ms # <<>> => Cross(ls, ms) # <<>>
<1> DEFINE row(i) == [j \in DOMAIN ms |-> ls[i] \o ms[j]]
           table == [i \in DOMAIN ls |-> row(i)]
<1>1. PICK n \in Nat, m \in Nat :
        /\ DOMAIN ls = 1 .. n /\ DOMAIN ms = 1 .. m /\ (n = 0 <=> ls = <<>>) /\ (m = 0 <=> ms = <<>>)
        /\ \A i \in 1 .. n : ls[i] \in Lits
        /\ \A j \in 1 .. m : ms[j] \in Lits
  <2>1. PICK n \in Nat : /\ DOMAIN ls = 1 .. n /\ (n = 0 <=> ls = <<>>)
                         /\ \A i \in 1 .. n : ls[i] \in Lits
    BY ListIs
  <2>2. PICK m \in Nat : /\ DOMAIN ms = 1 .. m /\ (m = 0 <=> ms = <<>>)
                         /\ \A i \in 1 .. m : ms[i] \in Lits
    BY ListIs
  <2> QED
    BY <2>1, <2>2
<1>2. ASSUME NEW i \in 1 .. n, NEW j \in 1 .. m PROVE ls[i] \o ms[j] \in Lits
  <2>1. ls[i] \in Seq(AllRunes) /\ ms[j] \in Seq(AllRunes)
    BY <1>1 DEF Lits
  <2> QED
    BY <2>1, JoinHolds DEF Lits
<1>3. ASSUME NEW i \in 1 .. n
      PROVE  /\ row(i) \in Seq(Lits) /\ DOMAIN row(i) = 1 .. m
             /\ \A j \in 1 .. m : row(i)[j] = ls[i] \o ms[j]
  <2> DEFINE f == [j \in 1 .. m |-> ls[i] \o ms[j]]
  <2>1. f = row(i)
    BY <1>1
  <2>2. \A j \in 1 .. m : f[j] = ls[i] \o ms[j] /\ f[j] \in Lits
    BY <1>2
  <2>3. DOMAIN f = 1 .. m /\ f = [j \in 1 .. m |-> f[j]]
    OBVIOUS
  <2> HIDE DEF f, row
  <2>4. f \in Seq(Lits)
    BY <2>2, <2>3, ListMade
  <2> QED
    BY <2>1, <2>2, <2>3, <2>4
<1> HIDE DEF row
<1>4. table \in Seq(Seq(Lits)) /\ DOMAIN table = 1 .. n /\ \A i \in 1 .. n : table[i] = row(i)
  <2>1. DOMAIN table = 1 .. n /\ (\A i \in 1 .. n : table[i] = row(i)) /\ table = [i \in 1 .. n |-> table[i]]
    BY <1>1
  <2>2. \A i \in 1 .. n : table[i] \in Seq(Lits)
    BY <1>3, <2>1
  <2> HIDE DEF table
  <2> QED
    BY <2>1, <2>2, ListMade
<1>5. Cross(ls, ms) = Joined(table)
  BY DEF Cross, row
<1> HIDE DEF table
<1>6. Cross(ls, ms) \in Seq(Lits)
  BY <1>4, <1>5, JoinedHolds
<1>7. ASSUME NEW i \in 1 .. n, NEW j \in 1 .. m PROVE Holds(Cross(ls, ms), ls[i] \o ms[j])
  <2>1. i \in DOMAIN table /\ j \in DOMAIN table[i] /\ table[i][j] = ls[i] \o ms[j]
    BY <1>3, <1>4
  <2>2. Holds(Joined(table), table[i][j])
    BY <1>4, <2>1, JoinedHolds
  <2> QED
    BY <1>5, <2>1, <2>2
<1>8. \A x, y : Holds(ls, x) /\ Holds(ms, y) => Holds(Cross(ls, ms), x \o y)
  BY <1>1, <1>7, ZenonT(60) DEF Holds
<1>9. ASSUME ls # <<>>, ms # <<>> PROVE Cross(ls, ms) # <<>>
  <2>0. n # 0 /\ m # 0
    <3>1. (n = 0 => ls = <<>>) /\ (m = 0 => ms = <<>>)
      BY <1>1
    <3> QED
      BY <1>9, <3>1
  <2>1. 1 \in 1 .. n /\ 1 \in 1 .. m
    BY <2>0
  <2>2. Holds(Cross(ls, ms), ls[1] \o ms[1])
    BY <1>7, <2>1
  <2>3. PICK k \in DOMAIN Cross(ls, ms) : TRUE
    BY <2>2 DEF Holds
  <2>4. PICK l \in Nat : DOMAIN Cross(ls, ms) = 1 .. l /\ (l = 0 <=> Cross(ls, ms) = <<>>)
    BY <1>6, ListIs
  <2>5. l # 0
    BY <2>3, <2>4
  <2> QED
    BY <2>4, <2>5
<1> QED
  BY <1>6, <1>8, <1>9

Crossed(s) == FoldLeft(Cross, <<(<<>>)>>, s)

LEMMA NoRunIsSet == <<(<<>>)>> \in Seq(Lits) /\ NoRun \in LitSets /\ Holds(NoRun, <<>>)
                    /\ NoRun = <<(<<>>)>>
<1>1. <<>> \in Lits
  BY DEF Lits
<1>2. NoRun = <<(<<>>)>> /\ Len(NoRun) = 1 /\ NoRun[1] = <<>> /\ 1 \in DOMAIN NoRun
  BY DEF NoRun
<1>3. NoRun \in Seq(Lits)
  BY <1>1 DEF NoRun
<1>4. NoRun # <<>>
  BY <1>2
<1> QED
  BY <1>2, <1>3, <1>4 DEF LitSets, Holds

\* The literals of a sequence.
CrossedOf(f, s) ==
  f = [q \in SUBSET DOMAIN s |-> IF q = {} THEN <<(<<>>)>> ELSE Cross(f[q \ {Max(q)}], s[Max(q)])]

LEMMA CrossedGoes ==
  ASSUME NEW s \in Seq(Seq(Lits))
  PROVE  \E g \in [0 .. Len(s) -> Seq(Lits)] :
           /\ g[0] = <<(<<>>)>> /\ g[Len(s)] = Crossed(s)
           /\ \A m \in 1 .. Len(s) : g[m] = Cross(g[m - 1], s[m])
<1> DEFINE n == Len(s)
           V == Seq(Lits)
           base == <<(<<>>)>>
           h == [q \in (1 .. n) \X V |-> Cross(q[2], s[q[1]])]
           f == CHOOSE x : CrossedOf(x, s)
<1>1. n \in Nat /\ DOMAIN s = 1 .. n /\ \A i \in 1 .. n : s[i] \in Seq(Lits)
  OBVIOUS
<1>2. base \in V
  BY NoRunIsSet
<1>3. \A i \in 1 .. n, v \in V : Cross(v, s[i]) \in V
  BY <1>1, CrossHolds
<1>4. \A i \in 1 .. n, v \in V : h[<<i, v>>] = Cross(v, s[i])
  OBVIOUS
<1>5. Crossed(s) = f[DOMAIN s]
  BY DEF Crossed, CrossedOf, FoldLeft, MapThenFoldSet
<1>6. \A x : CrossedOf(x, s)
        <=> x = [q \in SUBSET DOMAIN s |-> IF q = {} THEN base ELSE Cross(x[q \ {Max(q)}], s[Max(q)])]
  BY DEF CrossedOf
<1> HIDE DEF h, n, V, base
<1>7. \A i \in 1 .. n, v \in V : h[<<i, v>>] \in V
  BY <1>3, <1>4
<1>8. \E x : CrossedOf(x, s)
  <2>1. PICK x : FoldsInOrder(x, base, h, n) /\ \A q \in SUBSET (1 .. n) : x[q] \in V
    BY <1>1, <1>2, <1>7, OrderedFold
  <2>2. ASSUME NEW q \in SUBSET (1 .. n), q # {}
        PROVE  h[<<Max(q), x[q \ {Max(q)}]>>] = Cross(x[q \ {Max(q)}], s[Max(q)])
    BY <1>1, <1>4, <2>1, <2>2, LastIsIn
  <2>3. x = [q \in SUBSET (1 .. n) |-> IF q = {} THEN base ELSE h[<<Max(q), x[q \ {Max(q)}]>>]]
    BY <2>1 DEF FoldsInOrder
  <2>4. x = [q \in SUBSET DOMAIN s |-> IF q = {} THEN base ELSE Cross(x[q \ {Max(q)}], s[Max(q)])]
    BY <1>1, <2>2, <2>3
  <2> QED
    BY <1>6, <2>4
<1>9. f = [q \in SUBSET DOMAIN s |-> IF q = {} THEN base ELSE Cross(f[q \ {Max(q)}], s[Max(q)])]
  BY <1>6, <1>8
<1> HIDE DEF f
<1>10. \A q \in SUBSET (1 .. n) : f[q] = IF q = {} THEN base ELSE Cross(f[q \ {Max(q)}], s[Max(q)])
  BY <1>1, <1>9
<1>11. FoldsBy(f, base, h, n, V)
  <2>1. f[{}] = base
    BY <1>10
  <2>2. ASSUME NEW q \in SUBSET (1 .. n), q # {}, f[q \ {Max(q)}] \in V
        PROVE  f[q] = h[<<Max(q), f[q \ {Max(q)}]>>]
    <3>1. Max(q) \in 1 .. n
      BY <1>1, <2>2, LastIsIn
    <3> QED
      BY <1>4, <1>10, <2>2, <3>1
  <2> QED
    BY <2>1, <2>2 DEF FoldsBy
<1>12. StaysIn(h, n, V)
  BY <1>7 DEF StaysIn
<1>13. PICK g : RunsBy(g, f, base, h, n, V)
  BY <1>1, <1>2, <1>11, <1>12, FoldRuns
<1>14. g \in [0 .. n -> V] /\ g[0] = base /\ g[n] = Crossed(s)
  BY <1>1, <1>5, <1>13 DEF RunsBy
<1>15. \A m \in 1 .. n : g[m] = Cross(g[m - 1], s[m])
  <2> TAKE m \in 1 .. n
  <2>1. m - 1 \in 0 .. n
    BY <1>1
  <2>2. g[m - 1] \in V /\ g[m] = h[<<m, g[m - 1]>>]
    BY <1>13, <2>1 DEF RunsBy
  <2> QED
    BY <1>4, <2>2
<1> QED
  BY <1>14, <1>15 DEF n, V, base

LEMMA CrossedIs ==
  ASSUME NEW s \in Seq(Seq(Lits))
  PROVE  Crossed(s) \in Seq(Lits)
<1>1. Len(s) \in Nat
  OBVIOUS
<1>2. Len(s) \in 0 .. Len(s)
  BY <1>1
<1> QED
  BY <1>2, CrossedGoes

\* The places of a sequence of expressions, one behind the other.
LEMMA ThenStays ==
  ASSUME NEW word, NEW P, NEW Q PROVE Then(word, P, Q) \in SUBSET Places(word)
  BY DEF Then

\* The places at which a sequence of expressions matches.
InTurnOf(f, word, s) ==
  f = [q \in SUBSET DOMAIN s |-> IF q = {} THEN EmptyPlaces(word) ELSE Then(word, f[q \ {Max(q)}], s[Max(q)])]

LEMMA InTurnGoes ==
  ASSUME NEW word, NEW s \in Seq(SUBSET Places(word))
  PROVE  \E g \in [0 .. Len(s) -> SUBSET Places(word)] :
           /\ g[0] = EmptyPlaces(word) /\ g[Len(s)] = InTurn(word, s)
           /\ \A m \in 1 .. Len(s) : g[m] = Then(word, g[m - 1], s[m])
<1> DEFINE n == Len(s)
           V == SUBSET Places(word)
           base == EmptyPlaces(word)
           h == [q \in (1 .. n) \X V |-> Then(word, q[2], s[q[1]])]
           f == CHOOSE x : InTurnOf(x, word, s)
<1>1. n \in Nat /\ DOMAIN s = 1 .. n /\ \A i \in 1 .. n : s[i] \in SUBSET Places(word)
  OBVIOUS
<1>2. base \in V
  BY DEF EmptyPlaces
<1>3. \A i \in 1 .. n, v \in V : Then(word, v, s[i]) \in V
  BY ThenStays
<1>4. \A i \in 1 .. n, v \in V : h[<<i, v>>] = Then(word, v, s[i])
  OBVIOUS
<1>5. InTurn(word, s) = f[DOMAIN s]
  BY DEF InTurn, InTurnOf, FoldLeft, MapThenFoldSet
<1>6. \A x : InTurnOf(x, word, s)
        <=> x = [q \in SUBSET DOMAIN s |-> IF q = {} THEN base ELSE Then(word, x[q \ {Max(q)}], s[Max(q)])]
  BY DEF InTurnOf
<1> HIDE DEF h, n, V, base
<1>7. \A i \in 1 .. n, v \in V : h[<<i, v>>] \in V
  BY <1>3, <1>4
<1>8. \E x : InTurnOf(x, word, s)
  <2>1. PICK x : FoldsInOrder(x, base, h, n) /\ \A q \in SUBSET (1 .. n) : x[q] \in V
    BY <1>1, <1>2, <1>7, OrderedFold
  <2>2. ASSUME NEW q \in SUBSET (1 .. n), q # {}
        PROVE  h[<<Max(q), x[q \ {Max(q)}]>>] = Then(word, x[q \ {Max(q)}], s[Max(q)])
    BY <1>1, <1>4, <2>1, <2>2, LastIsIn
  <2>3. x = [q \in SUBSET (1 .. n) |-> IF q = {} THEN base ELSE h[<<Max(q), x[q \ {Max(q)}]>>]]
    BY <2>1 DEF FoldsInOrder
  <2>4. x = [q \in SUBSET DOMAIN s |-> IF q = {} THEN base ELSE Then(word, x[q \ {Max(q)}], s[Max(q)])]
    BY <1>1, <2>2, <2>3
  <2> QED
    BY <1>6, <2>4
<1>9. f = [q \in SUBSET DOMAIN s |-> IF q = {} THEN base ELSE Then(word, f[q \ {Max(q)}], s[Max(q)])]
  BY <1>6, <1>8
<1> HIDE DEF f
<1>10. \A q \in SUBSET (1 .. n) : f[q] = IF q = {} THEN base ELSE Then(word, f[q \ {Max(q)}], s[Max(q)])
  BY <1>1, <1>9
<1>11. FoldsBy(f, base, h, n, V)
  <2>1. f[{}] = base
    BY <1>10
  <2>2. ASSUME NEW q \in SUBSET (1 .. n), q # {}, f[q \ {Max(q)}] \in V
        PROVE  f[q] = h[<<Max(q), f[q \ {Max(q)}]>>]
    <3>1. Max(q) \in 1 .. n
      BY <1>1, <2>2, LastIsIn
    <3> QED
      BY <1>4, <1>10, <2>2, <3>1
  <2> QED
    BY <2>1, <2>2 DEF FoldsBy
<1>12. StaysIn(h, n, V)
  BY <1>7 DEF StaysIn
<1>13. PICK g : RunsBy(g, f, base, h, n, V)
  BY <1>1, <1>2, <1>11, <1>12, FoldRuns
<1>14. g \in [0 .. n -> V] /\ g[0] = base /\ g[n] = InTurn(word, s)
  BY <1>1, <1>5, <1>13 DEF RunsBy
<1>15. \A m \in 1 .. n : g[m] = Then(word, g[m - 1], s[m])
  <2> TAKE m \in 1 .. n
  <2>1. m - 1 \in 0 .. n
    BY <1>1
  <2>2. g[m - 1] \in V /\ g[m] = h[<<m, g[m - 1]>>]
    BY <1>13, <2>1 DEF RunsBy
  <2> QED
    BY <1>4, <2>2
<1> QED
  BY <1>14, <1>15 DEF n, V, base

\* A set in the order of a list: every element stands in it, and nothing else.
LEMMA ListOfSet ==
  ASSUME NEW S, IsFiniteSet(S)
  PROVE  SetToSeq(S) \in Seq(S) /\ \A x \in S : Holds(SetToSeq(S), x)
<1> DEFINE n == Cardinality(S)
           s == SetToSeq(S)
<1>1. n \in Nat /\ ExistsBijection(1 .. n, S)
  BY FS_NatBijection, FS_CardinalityType
<1>2. PICK f \in Bijection(1 .. n, S) : TRUE
  BY <1>1 DEF ExistsBijection
<1>3. f \in [1 .. n -> S] /\ IsInjective(f)
  BY <1>2 DEF Bijection, Injection, IsInjective
<1>4. s \in [1 .. n -> S] /\ IsInjective(s)
  BY <1>3 DEF SetToSeq
<1> HIDE DEF s
<1>5. s \in Injection(1 .. n, S)
  BY <1>4 DEF Injection, IsInjective
<1>6. IsFiniteSet(1 .. n) /\ Cardinality(1 .. n) = n
  <2> HIDE DEF n
  <2> QED
    BY <1>1, FS_Interval
<1>7. s \in Surjection(1 .. n, S)
  <2>1. Cardinality(1 .. n) = Cardinality(S)
    BY <1>6
  <2> HIDE DEF n
  <2> QED
    BY <1>5, <2>1, FS_Injection
<1>8. \A x \in S : \E k \in 1 .. n : s[k] = x
  BY <1>7 DEF Surjection
<1>9. s \in Seq(S) /\ DOMAIN s = 1 .. n
  <2> HIDE DEF n
  <2> QED
    BY <1>1, <1>4
<1>10. \A x \in S : Holds(s, x)
  BY <1>8, <1>9 DEF Holds
<1> QED
  BY <1>9, <1>10 DEF s

LEMMA ImageIsFinite ==
  ASSUME NEW n \in Nat, NEW f
  PROVE  IsFiniteSet({f[i] : i \in 1 .. n})
<1> DEFINE T == {f[i] : i \in 1 .. n}
           g == [i \in 1 .. n |-> f[i]]
<1>1. g \in Surjection(1 .. n, T)
  BY DEF Surjection
<1>2. IsFiniteSet(1 .. n)
  BY PlacesAreFinite
<1> HIDE DEF g, T
<1>3. IsFiniteSet(T)
  BY <1>1, <1>2, FS_Surjection
<1> QED
  BY <1>3 DEF T

\* A set of literals has a shortest one.
LEMMA ShortestIs ==
  ASSUME NEW set \in LitSets
  PROVE  MinLitLen(set) \in Nat
<1>1. PICK n \in Nat : DOMAIN set = 1 .. n /\ (n = 0 <=> set = <<>>) /\ \A i \in 1 .. n : set[i] \in Lits
  BY ListIs DEF LitSets
<1>2. \A i \in 1 .. n : Len(set[i]) \in Nat
  <2> TAKE i \in 1 .. n
  <2>1. set[i] \in Seq(AllRunes)
    BY <1>1 DEF Lits
  <2> QED
    BY <2>1
<1> DEFINE X == {Len(set[i]) : i \in DOMAIN set}
<1>3. X \subseteq Int /\ X \subseteq Nat
  BY <1>1, <1>2
<1>4. X # {}
  <2>1. n # 0
    BY <1>1 DEF LitSets
  <2>2. 1 \in DOMAIN set
    BY <1>1, <2>1
  <2> QED
    BY <2>2
<1>5. IsFiniteSet(X)
  <2> DEFINE f == [i \in 1 .. n |-> Len(set[i])]
  <2>1. X = {f[i] : i \in 1 .. n}
    BY <1>1
  <2> HIDE DEF f
  <2> QED
    BY <2>1, ImageIsFinite
<1>6. Min(X) \in X
  <2> HIDE DEF X
  <2> QED
    BY <1>3, <1>4, <1>5, LeastOfAny
<1> QED
  BY <1>3, <1>6 DEF MinLitLen

\* The best of some sets is one of them.
LEMMA BestIs ==
  ASSUME NEW sets \in Seq(LitSets), sets # <<>>
  PROVE  Holds(sets, Best(sets)) /\ Best(sets) \in LitSets
<1>1. PICK n \in Nat : DOMAIN sets = 1 .. n /\ (n = 0 <=> sets = <<>>) /\ \A i \in 1 .. n : sets[i] \in LitSets
  BY ListIs
<1>2. n # 0
  BY <1>1
<1>3. \A i \in 1 .. n : MinLitLen(sets[i]) \in Nat
  BY <1>1, ShortestIs
<1> DEFINE X == {MinLitLen(sets[i]) : i \in DOMAIN sets}
           Y == {i \in DOMAIN sets : MinLitLen(sets[i]) = Max(X)}
<1>4. Max(X) \in X
  <2> DEFINE f == [i \in 1 .. n |-> MinLitLen(sets[i])]
  <2>0. X = {f[i] : i \in 1 .. n} /\ 1 \in 1 .. n
    BY <1>1, <1>2
  <2>1. \A i \in 1 .. n : f[i] \in Int
    BY <1>3
  <2> HIDE DEF f
  <2>2. X \subseteq Int /\ X # {}
    BY <2>0, <2>1
  <2>3. IsFiniteSet(X)
    BY <2>0, ImageIsFinite
  <2> HIDE DEF X
  <2> QED
    BY <2>2, <2>3, LargestOfAny
<1>5. Y # {} /\ Y \in SUBSET (1 .. n)
  BY <1>1, <1>4
<1>6. Best(sets) = sets[Min(Y)]
  BY DEF Best
<1> HIDE DEF X, Y
<1>7. Min(Y) \in 1 .. n
  <2>1. 1 \in Int /\ n \in Int
    BY <1>1
  <2>2. Min(Y) \in Y
    BY <1>5, <2>1, LargestIn
  <2> QED
    BY <1>5, <2>2
<1> QED
  BY <1>1, <1>6, <1>7 DEF Holds

LEMMA FoldedIs ==
  ASSUME NEW word \in Seq(AllRunes)
  PROVE  FoldNorm(word) \in Seq(AllRunes) /\ Len(FoldNorm(word)) = Len(word)
         /\ DOMAIN FoldNorm(word) = DOMAIN word
<1>1. PICK n \in Nat : n = Len(word) /\ DOMAIN word = 1 .. n /\ \A i \in 1 .. n : word[i] \in AllRunes
  BY ListIs
<1> DEFINE f == FoldNorm(word)
<1>2. DOMAIN f = 1 .. n /\ f = [i \in 1 .. n |-> f[i]]
  BY <1>1 DEF FoldNorm
<1>3. \A i \in 1 .. n : f[i] \in AllRunes
  BY <1>1, PrefilterAssumption DEF FoldNorm
<1> HIDE DEF f
<1>4. f \in Seq(AllRunes) /\ Len(f) = n
  BY <1>2, <1>3, ListMade
<1> QED
  BY <1>1, <1>2, <1>4 DEF f

LEMMA BoundedIs ==
  ASSUME NEW S, NEW lits \in Seq(S)
  PROVE  Bounded(lits) \in Seq(S) /\ (Bounded(lits) # <<>> => Bounded(lits) = lits)
<1>1. <<>> \in Seq(S)
  OBVIOUS
<1> QED
  BY <1>1 DEF Bounded

\* The folded runes of a class, each a word.
ClassWords(class) == [i \in DOMAIN SetToSeq(class) |-> FoldNorm(<<SetToSeq(class)[i]>>)]

LEMMA ClassWordsAre ==
  ASSUME NEW class \in SUBSET AllRunes, IsFiniteSet(class)
  PROVE  ClassWords(class) \in Seq(Lits) /\ \A r \in class : Holds(ClassWords(class), FoldNorm(<<r>>))
<1> DEFINE s == SetToSeq(class)
           w == ClassWords(class)
<1>1. s \in Seq(class) /\ \A r \in class : Holds(s, r)
  BY ListOfSet
<1>2. w = [i \in DOMAIN s |-> FoldNorm(<<s[i]>>)]
  BY DEF ClassWords
<1> HIDE DEF s, w
<1>3. PICK n \in Nat : DOMAIN s = 1 .. n /\ \A i \in 1 .. n : s[i] \in class
  BY <1>1, ListIs
<1>4. ASSUME NEW r \in class PROVE FoldNorm(<<r>>) \in Lits
  <2>1. <<r>> \in Seq(AllRunes)
    OBVIOUS
  <2> QED
    BY <2>1, FoldedIs DEF Lits
<1>5. DOMAIN w = 1 .. n /\ w = [i \in 1 .. n |-> w[i]] /\ \A i \in 1 .. n : w[i] = FoldNorm(<<s[i]>>)
  BY <1>2, <1>3
<1>6. \A i \in 1 .. n : w[i] \in Lits
  BY <1>3, <1>4, <1>5
<1>7. w \in Seq(Lits)
  BY <1>5, <1>6, ListMade
<1>8. ASSUME NEW r \in class PROVE Holds(w, FoldNorm(<<r>>))
  <2>1. PICK k \in 1 .. n : s[k] = r
    BY <1>1, <1>3 DEF Holds
  <2> QED
    BY <1>5, <2>1 DEF Holds
<1> QED
  BY <1>7, <1>8 DEF w

\* The literals of a node, of which `below' are those of its sub-expressions.
LEMMA PureIs ==
  ASSUME NEW t \in Trees, NEW below \in Seq(Seq(Lits)), Len(below) = Len(t.subs)
  PROVE  /\ PureOf(t, below) \in Seq(Lits)
         /\ t.op = "literal" => PureOf(t, below) = <<FoldNorm(t.word)>>
         /\ t.op = "class" /\ PureOf(t, below) # <<>> => PureOf(t, below) = ClassWords(t.class)
         /\ t.op \in {"alternate", "concat"} /\ PureOf(t, below) # <<>>
              => \A i \in DOMAIN below : below[i] # <<>>
         /\ t.op = "alternate" /\ PureOf(t, below) # <<>> => PureOf(t, below) = Joined(below)
         /\ t.op = "concat" /\ PureOf(t, below) # <<>> => PureOf(t, below) = Crossed(below)
         /\ t.op \notin {"literal", "class", "alternate", "concat"} => PureOf(t, below) = <<>>
<1>0. t.op \in {"literal", "class", "any", "concat", "alternate", "quest", "repeat"} /\ <<>> \in Seq(Lits)
  BY TreesAssumption
<1>1. CASE t.op = "literal"
  <2>1. PureOf(t, below) = <<FoldNorm(t.word)>>
    BY <1>1 DEF PureOf
  <2>2. FoldNorm(t.word) \in Lits
    BY <1>1, TreesAssumption, FoldedIs DEF Lits
  <2>3. <<FoldNorm(t.word)>> \in Seq(Lits)
    BY <2>2
  <2> QED
    BY <1>1, <2>1, <2>3
<1>2. CASE t.op = "class"
  <2>1. PureOf(t, below) = Bounded(ClassWords(t.class))
    BY <1>2 DEF PureOf, ClassWords
  <2>2. ClassWords(t.class) \in Seq(Lits)
    BY <1>2, TreesAssumption, ClassWordsAre
  <2> QED
    BY <1>2, <2>1, <2>2, BoundedIs
<1>3. CASE t.op = "alternate"
  <2>1. /\ PureOf(t, below) \in {Bounded(Joined(below)), <<>>}
        /\ PureOf(t, below) # <<>> => \A i \in DOMAIN below : below[i] # <<>>
    BY <1>3 DEF PureOf
  <2>2. Joined(below) \in Seq(Lits)
    BY JoinedHolds
  <2>3. Bounded(Joined(below)) \in Seq(Lits)
        /\ (Bounded(Joined(below)) # <<>> => Bounded(Joined(below)) = Joined(below))
    BY <2>2, BoundedIs
  <2> QED
    BY <1>0, <1>3, <2>1, <2>3
<1>4. CASE t.op = "concat"
  <2>1. /\ PureOf(t, below) \in {Bounded(Crossed(below)), <<>>}
        /\ PureOf(t, below) # <<>> => \A i \in DOMAIN below : below[i] # <<>>
    BY <1>4 DEF PureOf, Crossed
  <2>2. Crossed(below) \in Seq(Lits)
    BY CrossedIs
  <2>3. Bounded(Crossed(below)) \in Seq(Lits)
        /\ (Bounded(Crossed(below)) # <<>> => Bounded(Crossed(below)) = Crossed(below))
    BY <2>2, BoundedIs
  <2> QED
    BY <1>0, <1>4, <2>1, <2>3
<1>5. CASE t.op \notin {"literal", "class", "alternate", "concat"}
  <2>1. PureOf(t, below) = <<>>
    BY <1>5 DEF PureOf
  <2> QED
    BY <1>0, <1>5, <2>1
<1> QED
  BY <1>0, <1>1, <1>2, <1>3, <1>4, <1>5

\* What a function of trees is where each value is made of those below.
ValueStands(f, V, t) ==
  /\ f[t] \in V /\ ValuesBelow(f, t) \in Seq(V) /\ Len(ValuesBelow(f, t)) = Len(t.subs)
  /\ DOMAIN ValuesBelow(f, t) = DOMAIN t.subs
  /\ \A i \in DOMAIN t.subs : ValuesBelow(f, t)[i] = f[t.subs[i]]
FollowsUp(f, h, V) ==
  \A t \in Trees : ValuesBelow(f, t) \in Seq(V) /\ Len(ValuesBelow(f, t)) = Len(t.subs)
                     => f[t] = h[<<t, ValuesBelow(f, t)>>]

LEMMA StaysAmong ==
  ASSUME NEW V, NEW h, StepsUp(h, V), NEW f, FollowsUp(f, h, V)
  PROVE  \A t \in Trees : ValueStands(f, V, t)
<1> DEFINE X == {t \in Trees : f[t] \in V}
<1>1. ASSUME NEW t \in Trees, \A i \in DOMAIN t.subs : t.subs[i] \in X PROVE t \in X
  <2>1. \A i \in DOMAIN t.subs : f[t.subs[i]] \in V
    BY <1>1
  <2>2. ValuesBelow(f, t) \in Seq(V) /\ Len(ValuesBelow(f, t)) = Len(t.subs)
    BY <2>1, ValuesAre
  <2>3. f[t] \in V
    BY <2>2 DEF StepsUp, FollowsUp
  <2> QED
    BY <2>3
<1>2. \A t \in Trees : t \in X
  <2>1. X \in SUBSET Trees
    OBVIOUS
  <2> HIDE DEF X
  <2> QED
    BY <1>1, <2>1, TreeInduction
<1>3. ASSUME NEW t \in Trees PROVE \A i \in DOMAIN t.subs : f[t.subs[i]] \in V
  BY <1>2, SubsAreLower
<1>4. ASSUME NEW t \in Trees PROVE ValueStands(f, V, t)
  <2>1. f[t] \in V
    BY <1>2
  <2> QED
    BY <1>3, <2>1, ValuesAre, SMTT(60) DEF ValueStands
<1> QED
  BY <1>4

\* The literals of every tree.
PureBy(f) == f = [t \in Trees |-> PureOf(t, ValuesBelow(f, t))]

LEMMA PureUnfolds ==
  \A t \in Trees :
           /\ ValueStands(PureLits, Seq(Lits), t)
           /\ PureLits[t] = PureOf(t, ValuesBelow(PureLits, t))
<1> DEFINE V == Seq(Lits)
           h == [q \in Trees \X Seq(V) |-> PureOf(q[1], q[2])]
           L == CHOOSE f : PureBy(f)
<1>1. StepsUp(h, V) /\ \A t \in Trees, vs \in Seq(V) : h[<<t, vs>>] = PureOf(t, vs)
  <2>1. \A t \in Trees, vs \in Seq(V) : Len(vs) = Len(t.subs) => PureOf(t, vs) \in V
    BY PureIs
  <2>2. \A t \in Trees, vs \in Seq(V) : h[<<t, vs>>] = PureOf(t, vs)
    OBVIOUS
  <2> HIDE DEF h, V
  <2> QED
    BY <2>1, <2>2 DEF StepsUp
<1>2. PureLits = L
  BY DEF PureLits, PureBy, ValuesBelow
<1> HIDE DEF h, V
<1>3. \E f : PureBy(f)
  <2>1. PICK f \in [Trees -> V] : \A t \in Trees : f[t] = h[<<t, ValuesBelow(f, t)>>]
    BY <1>1, TreeRecursion
  <2>2. ASSUME NEW t \in Trees PROVE ValuesBelow(f, t) \in Seq(V)
    <3>1. \A i \in DOMAIN t.subs : f[t.subs[i]] \in V
      BY <2>1, SubsAreLower
    <3> QED
      BY <3>1, ValuesAre
  <2>3. \A t \in Trees : f[t] = PureOf(t, ValuesBelow(f, t))
    BY <1>1, <2>1, <2>2
  <2>4. f = [t \in Trees |-> f[t]]
    BY <2>1
  <2>5. f = [t \in Trees |-> PureOf(t, ValuesBelow(f, t))]
    BY <2>3, <2>4
  <2> QED
    BY <2>5 DEF PureBy
<1>4. PureBy(L)
  BY <1>3
<1> HIDE DEF L
<1>5. \A t \in Trees : L[t] = PureOf(t, ValuesBelow(L, t))
  BY <1>4 DEF PureBy
<1>6. FollowsUp(L, h, V)
  BY <1>1, <1>5 DEF FollowsUp
<1>7. \A t \in Trees : ValueStands(L, V, t)
  BY <1>1, <1>6, StaysAmong
<1> QED
  BY <1>2, <1>5, <1>7 DEF V

-----------------------------------------------------------------------------
\* What is known of a sub-expression, and of those before it in a sequence.
SubRecords == [lits : Seq(Lits), sets : Seq(LitSets)]
MergeStates == [out : Seq(LitSets), run : LitSets]

LEMMA FlushedIs ==
  ASSUME NEW acc \in MergeStates
  PROVE  /\ Flushed(acc) \in Seq(LitSets)
         /\ acc.run = NoRun => Flushed(acc) = acc.out
         /\ acc.run # NoRun => Flushed(acc) = Append(acc.out, acc.run)
<1>1. acc.out \in Seq(LitSets) /\ acc.run \in LitSets
  BY DEF MergeStates
<1>2. Append(acc.out, acc.run) \in Seq(LitSets)
  BY <1>1
<1> QED
  BY <1>1, <1>2 DEF Flushed

\* What stands behind the literals of the sub-expressions before.
Behind(sub) == IF sub.lits # <<>> THEN <<sub.lits>> ELSE sub.sets

LEMMA BehindIs == ASSUME NEW sub \in SubRecords PROVE Behind(sub) \in Seq(LitSets)
<1>1. sub.lits \in Seq(Lits) /\ sub.sets \in Seq(LitSets)
  BY DEF SubRecords
<1>2. CASE sub.lits # <<>>
  <2>1. sub.lits \in LitSets
    BY <1>1, <1>2 DEF LitSets
  <2>2. <<sub.lits>> \in Seq(LitSets)
    BY <2>1
  <2> QED
    BY <1>2, <2>2 DEF Behind
<1>3. CASE sub.lits = <<>>
  BY <1>1, <1>3 DEF Behind
<1> QED
  BY <1>2, <1>3

LEMMA MergeIs ==
  ASSUME NEW acc \in MergeStates, NEW sub \in SubRecords
  PROVE  /\ Merge(acc, sub) \in MergeStates
         /\ \/ /\ sub.lits # <<>>
               /\ Merge(acc, sub).out = acc.out /\ Merge(acc, sub).run = Cross(acc.run, sub.lits)
            \/ Merge(acc, sub).out = Flushed(acc) \o Behind(sub) /\ Merge(acc, sub).run = NoRun
<1>1. sub.lits \in Seq(Lits) /\ acc.out \in Seq(LitSets) /\ acc.run \in LitSets
  BY DEF SubRecords, MergeStates
<1> DEFINE joins == sub.lits # <<>> /\ Len(acc.run) * Len(sub.lits) <= MaxPureLits
<1>2. CASE joins
  <2>1. Merge(acc, sub) = [out |-> acc.out, run |-> Cross(acc.run, sub.lits)]
    BY <1>2 DEF Merge
  <2>2. acc.run \in Seq(Lits) /\ acc.run # <<>>
    BY <1>1 DEF LitSets
  <2>3. Cross(acc.run, sub.lits) \in LitSets
    BY <1>1, <1>2, <2>2, CrossHolds DEF LitSets
  <2> HIDE DEF joins
  <2>4. Merge(acc, sub) \in MergeStates
    BY <1>1, <2>1, <2>3 DEF MergeStates
  <2>5. Merge(acc, sub).out = acc.out /\ Merge(acc, sub).run = Cross(acc.run, sub.lits)
    BY <2>1
  <2> QED
    BY <1>2, <2>4, <2>5 DEF joins
<1>3. CASE ~ joins
  <2>1. Merge(acc, sub) = [out |-> Flushed(acc) \o Behind(sub), run |-> NoRun]
    BY <1>3 DEF Merge, Behind
  <2>2. Flushed(acc) \in Seq(LitSets) /\ Behind(sub) \in Seq(LitSets)
    BY FlushedIs, BehindIs
  <2>3. Flushed(acc) \o Behind(sub) \in Seq(LitSets)
    BY <2>2, JoinHolds
  <2> HIDE DEF joins
  <2>4. Merge(acc, sub) \in MergeStates
    BY <2>1, <2>3, NoRunIsSet DEF MergeStates
  <2>5. Merge(acc, sub).out = Flushed(acc) \o Behind(sub) /\ Merge(acc, sub).run = NoRun
    BY <2>1
  <2> QED
    BY <2>4, <2>5
<1> QED
  BY <1>2, <1>3

Merged(s) == FoldLeft(Merge, [out |-> <<>>, run |-> NoRun], s)

\* The sets of a sequence.
MergedOf(f, s) ==
  f = [q \in SUBSET DOMAIN s |-> IF q = {} THEN [out |-> <<>>, run |-> NoRun] ELSE Merge(f[q \ {Max(q)}], s[Max(q)])]

LEMMA MergedGoes ==
  ASSUME NEW s \in Seq(SubRecords)
  PROVE  \E g \in [0 .. Len(s) -> MergeStates] :
           /\ g[0] = [out |-> <<>>, run |-> NoRun] /\ g[Len(s)] = Merged(s)
           /\ \A m \in 1 .. Len(s) : g[m] = Merge(g[m - 1], s[m])
<1> DEFINE n == Len(s)
           V == MergeStates
           base == [out |-> <<>>, run |-> NoRun]
           h == [q \in (1 .. n) \X V |-> Merge(q[2], s[q[1]])]
           f == CHOOSE x : MergedOf(x, s)
<1>1. n \in Nat /\ DOMAIN s = 1 .. n /\ \A i \in 1 .. n : s[i] \in SubRecords
  OBVIOUS
<1>2. base \in V
  BY NoRunIsSet DEF MergeStates
<1>3. \A i \in 1 .. n, v \in V : Merge(v, s[i]) \in V
  BY <1>1, MergeIs
<1>4. \A i \in 1 .. n, v \in V : h[<<i, v>>] = Merge(v, s[i])
  OBVIOUS
<1>5. Merged(s) = f[DOMAIN s]
  BY DEF Merged, MergedOf, FoldLeft, MapThenFoldSet
<1>6. \A x : MergedOf(x, s)
        <=> x = [q \in SUBSET DOMAIN s |-> IF q = {} THEN base ELSE Merge(x[q \ {Max(q)}], s[Max(q)])]
  BY DEF MergedOf
<1> HIDE DEF h, n, V, base
<1>7. \A i \in 1 .. n, v \in V : h[<<i, v>>] \in V
  BY <1>3, <1>4
<1>8. \E x : MergedOf(x, s)
  <2>1. PICK x : FoldsInOrder(x, base, h, n) /\ \A q \in SUBSET (1 .. n) : x[q] \in V
    BY <1>1, <1>2, <1>7, OrderedFold
  <2>2. ASSUME NEW q \in SUBSET (1 .. n), q # {}
        PROVE  h[<<Max(q), x[q \ {Max(q)}]>>] = Merge(x[q \ {Max(q)}], s[Max(q)])
    BY <1>1, <1>4, <2>1, <2>2, LastIsIn
  <2>3. x = [q \in SUBSET (1 .. n) |-> IF q = {} THEN base ELSE h[<<Max(q), x[q \ {Max(q)}]>>]]
    BY <2>1 DEF FoldsInOrder
  <2>4. x = [q \in SUBSET DOMAIN s |-> IF q = {} THEN base ELSE Merge(x[q \ {Max(q)}], s[Max(q)])]
    BY <1>1, <2>2, <2>3
  <2> QED
    BY <1>6, <2>4
<1>9. f = [q \in SUBSET DOMAIN s |-> IF q = {} THEN base ELSE Merge(f[q \ {Max(q)}], s[Max(q)])]
  BY <1>6, <1>8
<1> HIDE DEF f
<1>10. \A q \in SUBSET (1 .. n) : f[q] = IF q = {} THEN base ELSE Merge(f[q \ {Max(q)}], s[Max(q)])
  BY <1>1, <1>9
<1>11. FoldsBy(f, base, h, n, V)
  <2>1. f[{}] = base
    BY <1>10
  <2>2. ASSUME NEW q \in SUBSET (1 .. n), q # {}, f[q \ {Max(q)}] \in V
        PROVE  f[q] = h[<<Max(q), f[q \ {Max(q)}]>>]
    <3>1. Max(q) \in 1 .. n
      BY <1>1, <2>2, LastIsIn
    <3> QED
      BY <1>4, <1>10, <2>2, <3>1
  <2> QED
    BY <2>1, <2>2 DEF FoldsBy
<1>12. StaysIn(h, n, V)
  BY <1>7 DEF StaysIn
<1>13. PICK g : RunsBy(g, f, base, h, n, V)
  BY <1>1, <1>2, <1>11, <1>12, FoldRuns
<1>14. g \in [0 .. n -> V] /\ g[0] = base /\ g[n] = Merged(s)
  BY <1>1, <1>5, <1>13 DEF RunsBy
<1>15. \A m \in 1 .. n : g[m] = Merge(g[m - 1], s[m])
  <2> TAKE m \in 1 .. n
  <2>1. m - 1 \in 0 .. n
    BY <1>1
  <2>2. g[m - 1] \in V /\ g[m] = h[<<m, g[m - 1]>>]
    BY <1>13, <2>1 DEF RunsBy
  <2> QED
    BY <1>4, <2>2
<1> QED
  BY <1>14, <1>15 DEF n, V, base

LEMMA MergedIs ==
  ASSUME NEW s \in Seq(SubRecords)
  PROVE  Merged(s) \in MergeStates
<1>1. Len(s) \in Nat
  OBVIOUS
<1>2. Len(s) \in 0 .. Len(s)
  BY <1>1
<1> QED
  BY <1>2, MergedGoes

\* The sub-expressions of a node, and the best of their sets.
SubsOf(t, below) == [i \in DOMAIN t.subs |-> [lits |-> PureLits[t.subs[i]], sets |-> below[i]]]
BestOf(below) == [i \in DOMAIN below |-> Best(below[i])]

LEMMA SubsAre ==
  ASSUME NEW t \in Trees, NEW below \in Seq(Seq(LitSets)), Len(below) = Len(t.subs)
  PROVE  /\ SubsOf(t, below) \in Seq(SubRecords) /\ Len(SubsOf(t, below)) = Len(t.subs)
         /\ DOMAIN SubsOf(t, below) = DOMAIN t.subs
         /\ \A i \in DOMAIN t.subs : /\ SubsOf(t, below)[i].lits = PureLits[t.subs[i]]
                                     /\ SubsOf(t, below)[i].sets = below[i]
<1>1. PICK n \in Nat : /\ DOMAIN below = 1 .. n /\ n = Len(below)
                       /\ \A i \in 1 .. n : below[i] \in Seq(LitSets)
  BY ListIs
<1>2. t.subs \in Seq(Trees)
  BY SubsAreLower
<1>3. DOMAIN t.subs = 1 .. n
  <2>1. PICK k \in Nat : DOMAIN t.subs = 1 .. k /\ k = Len(t.subs)
    BY <1>2, ListIs
  <2> QED
    BY <1>1, <2>1
<1> DEFINE f == SubsOf(t, below)
<1>4. DOMAIN f = 1 .. n /\ f = [i \in 1 .. n |-> f[i]]
      /\ \A i \in 1 .. n : f[i] = [lits |-> PureLits[t.subs[i]], sets |-> below[i]]
  BY <1>3 DEF SubsOf
<1> HIDE DEF f
<1>5. \A i \in 1 .. n : PureLits[t.subs[i]] \in Seq(Lits)
  BY <1>3, SubsAreLower, PureUnfolds DEF ValueStands
<1>6. ASSUME NEW i \in 1 .. n
      PROVE  f[i] \in SubRecords /\ f[i].lits = PureLits[t.subs[i]] /\ f[i].sets = below[i]
  <2>1. PureLits[t.subs[i]] \in Seq(Lits) /\ below[i] \in Seq(LitSets)
    BY <1>1, <1>5
  <2>2. f[i] = [lits |-> PureLits[t.subs[i]], sets |-> below[i]]
    BY <1>4
  <2>3. f[i] \in SubRecords
    BY <2>1, <2>2 DEF SubRecords
  <2>4. f[i].lits = PureLits[t.subs[i]] /\ f[i].sets = below[i]
    BY <2>2
  <2> QED
    BY <2>3, <2>4
<1>7. f \in Seq(SubRecords) /\ Len(f) = n
  BY <1>4, <1>6, ListMade
<1>8. DOMAIN f = DOMAIN t.subs /\ Len(f) = Len(t.subs)
  BY <1>1, <1>3, <1>4, <1>7
<1>9. \A i \in DOMAIN t.subs : f[i].lits = PureLits[t.subs[i]] /\ f[i].sets = below[i]
  BY <1>3, <1>6
<1> QED
  BY <1>7, <1>8, <1>9 DEF f

LEMMA BestsAre ==
  ASSUME NEW below \in Seq(Seq(LitSets)), \A i \in DOMAIN below : below[i] # <<>>
  PROVE  /\ BestOf(below) \in Seq(Seq(Lits)) /\ DOMAIN BestOf(below) = DOMAIN below
         /\ \A i \in DOMAIN below : BestOf(below)[i] = Best(below[i]) /\ Best(below[i]) \in LitSets
<1>1. PICK n \in Nat : DOMAIN below = 1 .. n /\ \A i \in 1 .. n : below[i] \in Seq(LitSets)
  BY ListIs
<1> DEFINE f == BestOf(below)
<1>2. DOMAIN f = 1 .. n /\ f = [i \in 1 .. n |-> f[i]] /\ \A i \in 1 .. n : f[i] = Best(below[i])
  BY <1>1 DEF BestOf
<1> HIDE DEF f
<1>3. \A i \in 1 .. n : Best(below[i]) \in LitSets
  BY <1>1, BestIs
<1>4. \A i \in 1 .. n : f[i] \in Seq(Lits)
  BY <1>2, <1>3 DEF LitSets
<1>5. f \in Seq(Seq(Lits))
  BY <1>2, <1>4, ListMade
<1> QED
  BY <1>1, <1>2, <1>3, <1>5 DEF f

LEMMA BestsJoined ==
  ASSUME NEW below \in Seq(Seq(LitSets)), \A i \in DOMAIN below : below[i] # <<>>, below # <<>>
  PROVE  Joined(BestOf(below)) \in LitSets
<1>1. PICK n \in Nat : DOMAIN below = 1 .. n /\ (n = 0 <=> below = <<>>)
  BY ListIs
<1>2. 1 \in DOMAIN below
  <2>1. n # 0
    BY <1>1
  <2> QED
    BY <1>1, <2>1
<1>3. BestOf(below) \in Seq(Seq(Lits)) /\ 1 \in DOMAIN BestOf(below) /\ BestOf(below)[1] \in LitSets
  BY <1>2, BestsAre
<1>4. PICK m \in Nat : DOMAIN (BestOf(below)[1]) = 1 .. m /\ (m = 0 <=> BestOf(below)[1] = <<>>)
  BY <1>3, ListIs DEF LitSets
<1>5. 1 \in DOMAIN (BestOf(below)[1])
  <2>1. m # 0
    BY <1>3, <1>4 DEF LitSets
  <2> QED
    BY <1>4, <2>1
<1>6. Joined(BestOf(below)) \in Seq(Lits) /\ Holds(Joined(BestOf(below)), BestOf(below)[1][1])
  BY <1>3, <1>5, JoinedHolds
<1>7. PICK k \in DOMAIN Joined(BestOf(below)) : TRUE
  BY <1>6 DEF Holds
<1>8. PICK l \in Nat : DOMAIN Joined(BestOf(below)) = 1 .. l /\ (l = 0 <=> Joined(BestOf(below)) = <<>>)
  BY <1>6, ListIs
<1>9. l # 0
  BY <1>7, <1>8
<1> QED
  BY <1>6, <1>8, <1>9 DEF LitSets

\* The sets of a node, of which `below' are those of its sub-expressions.
LEMMA RequiredIs ==
  ASSUME NEW t \in Trees, NEW below \in Seq(Seq(LitSets)), Len(below) = Len(t.subs)
  PROVE  /\ RequiredOf(t, below) \in Seq(LitSets)
         /\ PureLits[t] # <<>> => RequiredOf(t, below) = <<PureLits[t]>>
         /\ PureLits[t] = <<>> =>
              /\ t.op = "concat" => RequiredOf(t, below) = Flushed(Merged(SubsOf(t, below)))
              /\ t.op = "repeat" /\ RequiredOf(t, below) # <<>> => t.min >= 1 /\ RequiredOf(t, below) = below[1]
              /\ t.op = "alternate" /\ RequiredOf(t, below) # <<>>
                   => /\ \A i \in DOMAIN below : below[i] # <<>>
                      /\ RequiredOf(t, below) = <<Joined(BestOf(below))>>
              /\ t.op \notin {"concat", "repeat", "alternate"} => RequiredOf(t, below) = <<>>
<1>0. <<>> \in Seq(LitSets) /\ PureLits[t] \in Seq(Lits)
  BY PureUnfolds DEF ValueStands
<1>1. CASE PureLits[t] # <<>>
  <2>1. RequiredOf(t, below) = <<PureLits[t]>>
    BY <1>1 DEF RequiredOf
  <2>2. PureLits[t] \in LitSets
    BY <1>0, <1>1 DEF LitSets
  <2>3. <<PureLits[t]>> \in Seq(LitSets)
    BY <2>2
  <2> QED
    BY <1>1, <2>1, <2>3
<1>2. CASE PureLits[t] = <<>> /\ t.op = "concat"
  <2>1. RequiredOf(t, below) = Flushed(Merged(SubsOf(t, below)))
    BY <1>2 DEF RequiredOf, Merged, SubsOf
  <2>2. RequiredOf(t, below) \in Seq(LitSets)
    BY <2>1, SubsAre, MergedIs, FlushedIs
  <2> QED
    BY <1>2, <2>1, <2>2
<1>3. CASE PureLits[t] = <<>> /\ t.op = "repeat"
  <2>1. RequiredOf(t, below) = IF t.min >= 1 THEN below[1] ELSE <<>>
    BY <1>3 DEF RequiredOf, Repeated
  <2>2. below[1] \in Seq(LitSets)
    <3>1. Len(below) = 1
      BY <1>3, TreesAssumption
    <3>2. PICK n \in Nat : DOMAIN below = 1 .. n /\ n = Len(below) /\ \A i \in 1 .. n : below[i] \in Seq(LitSets)
      BY ListIs
    <3> QED
      BY <3>1, <3>2
  <2> QED
    BY <1>0, <1>3, <2>1, <2>2
<1>4. CASE PureLits[t] = <<>> /\ t.op = "alternate"
  <2>1. RequiredOf(t, below) = IF \A i \in DOMAIN below : below[i] # <<>> THEN <<Joined(BestOf(below))>> ELSE <<>>
    BY <1>4 DEF RequiredOf, BestOf
  <2>2. CASE \A i \in DOMAIN below : below[i] # <<>>
    <3>1. below # <<>>
      <4>1. Len(t.subs) # 0
        <5>1. t.subs # <<>> /\ t.subs \in Seq(Trees)
          BY <1>4, TreesAssumption
        <5> QED
          BY <5>1
      <4> QED
        BY <4>1
    <3>2. Joined(BestOf(below)) \in LitSets
      BY <2>2, <3>1, BestsJoined
    <3>3. <<Joined(BestOf(below))>> \in Seq(LitSets)
      BY <3>2
    <3> QED
      BY <1>4, <2>1, <2>2, <3>3
  <2>3. CASE ~ \A i \in DOMAIN below : below[i] # <<>>
    BY <1>0, <1>4, <2>1, <2>3
  <2> QED
    BY <2>2, <2>3
<1>5. CASE PureLits[t] = <<>> /\ t.op \notin {"concat", "repeat", "alternate"}
  <2>1. RequiredOf(t, below) = <<>>
    BY <1>5 DEF RequiredOf
  <2> QED
    BY <1>0, <1>5, <2>1
<1> QED
  BY <1>1, <1>2, <1>3, <1>4, <1>5

\* The sets of every tree.
RequiredBy(f) == f = [t \in Trees |-> RequiredOf(t, ValuesBelow(f, t))]

LEMMA RequiredUnfolds ==
  \A t \in Trees :
           /\ ValueStands(RequiredSets, Seq(LitSets), t)
           /\ RequiredSets[t] = RequiredOf(t, ValuesBelow(RequiredSets, t))
<1> DEFINE V == Seq(LitSets)
           h == [q \in Trees \X Seq(V) |-> RequiredOf(q[1], q[2])]
           L == CHOOSE f : RequiredBy(f)
<1>1. StepsUp(h, V) /\ \A t \in Trees, vs \in Seq(V) : h[<<t, vs>>] = RequiredOf(t, vs)
  <2>1. \A t \in Trees, vs \in Seq(V) : Len(vs) = Len(t.subs) => RequiredOf(t, vs) \in V
    BY RequiredIs
  <2>2. \A t \in Trees, vs \in Seq(V) : h[<<t, vs>>] = RequiredOf(t, vs)
    OBVIOUS
  <2> HIDE DEF h, V
  <2> QED
    BY <2>1, <2>2 DEF StepsUp
<1>2. RequiredSets = L
  BY DEF RequiredSets, RequiredBy, ValuesBelow
<1> HIDE DEF h, V
<1>3. \E f : RequiredBy(f)
  <2>1. PICK f \in [Trees -> V] : \A t \in Trees : f[t] = h[<<t, ValuesBelow(f, t)>>]
    BY <1>1, TreeRecursion
  <2>2. ASSUME NEW t \in Trees PROVE ValuesBelow(f, t) \in Seq(V)
    <3>1. \A i \in DOMAIN t.subs : f[t.subs[i]] \in V
      BY <2>1, SubsAreLower
    <3> QED
      BY <3>1, ValuesAre
  <2>3. \A t \in Trees : f[t] = RequiredOf(t, ValuesBelow(f, t))
    BY <1>1, <2>1, <2>2
  <2>4. f = [t \in Trees |-> f[t]]
    BY <2>1
  <2>5. f = [t \in Trees |-> RequiredOf(t, ValuesBelow(f, t))]
    BY <2>3, <2>4
  <2> QED
    BY <2>5 DEF RequiredBy
<1>4. RequiredBy(L)
  BY <1>3
<1> HIDE DEF L
<1>5. \A t \in Trees : L[t] = RequiredOf(t, ValuesBelow(L, t))
  BY <1>4 DEF RequiredBy
<1>6. FollowsUp(L, h, V)
  BY <1>1, <1>5 DEF FollowsUp
<1>7. \A t \in Trees : ValueStands(L, V, t)
  BY <1>1, <1>6, StaysAmong
<1> QED
  BY <1>2, <1>5, <1>7 DEF V

LEMMA InTurnStays ==
  ASSUME NEW word, NEW s \in Seq(SUBSET Places(word))
  PROVE  InTurn(word, s) \in SUBSET Places(word)
<1>1. Len(s) \in Nat
  OBVIOUS
<1>2. Len(s) \in 0 .. Len(s)
  BY <1>1
<1> QED
  BY <1>2, InTurnGoes

\* The same expression so many times.
Times(n, P) == [k \in 1 .. n |-> P]

LEMMA TimesAre ==
  ASSUME NEW S, NEW P \in S, NEW n \in Nat
  PROVE  Times(n, P) \in Seq(S) /\ Len(Times(n, P)) = n /\ DOMAIN Times(n, P) = 1 .. n
         /\ \A k \in 1 .. n : Times(n, P)[k] = P
<1> DEFINE f == Times(n, P)
<1>1. DOMAIN f = 1 .. n /\ f = [i \in 1 .. n |-> f[i]] /\ \A k \in 1 .. n : f[k] = P
  BY DEF Times
<1> HIDE DEF f
<1>2. f \in Seq(S) /\ Len(f) = n
  BY <1>1, ListMade
<1> QED
  BY <1>1, <1>2 DEF f

\* The places of a node, of which `below' are those of its sub-expressions.
LEMMA PlacesOfIs ==
  ASSUME NEW word \in Seq(AllRunes), NEW t \in Trees, NEW below \in Seq(SUBSET Places(word)),
         Len(below) = Len(t.subs)
  PROVE  PlacesOf(word, t, below) \in SUBSET Places(word)
<1>0. t.op \in {"literal", "class", "any", "concat", "alternate", "quest", "repeat"}
  BY TreesAssumption
<1>1. PICK n \in Nat : DOMAIN below = 1 .. n /\ n = Len(below) /\ \A i \in 1 .. n : below[i] \in SUBSET Places(word)
  BY ListIs
<1>2. CASE t.op \in {"literal", "class", "any"}
  BY <1>2 DEF PlacesOf
<1>3. CASE t.op = "concat"
  BY <1>3, InTurnStays DEF PlacesOf
<1>4. CASE t.op = "alternate"
  <2>1. PlacesOf(word, t, below) = UNION {below[k] : k \in DOMAIN below}
    BY <1>4 DEF PlacesOf
  <2> QED
    BY <1>1, <2>1
<1>5. CASE t.op = "quest"
  <2>1. below[1] \in SUBSET Places(word)
    BY <1>1, <1>5, TreesAssumption
  <2>2. PlacesOf(word, t, below) = EmptyPlaces(word) \cup below[1]
    BY <1>5 DEF PlacesOf
  <2> QED
    BY <2>1, <2>2 DEF EmptyPlaces
<1>6. CASE t.op = "repeat"
  <2>1. below[1] \in SUBSET Places(word) /\ t.min \in Nat /\ Len(word) \in Nat
    BY <1>1, <1>6, TreesAssumption
  <2>2. PlacesOf(word, t, below) = UNION {InTurn(word, Times(k, below[1])) : k \in t.min .. (t.min + Len(word))}
    BY <1>6 DEF PlacesOf, Times
  <2>3. \A k \in t.min .. (t.min + Len(word)) : InTurn(word, Times(k, below[1])) \in SUBSET Places(word)
    <3> TAKE k \in t.min .. (t.min + Len(word))
    <3>1. k \in Nat
      BY <2>1
    <3>2. Times(k, below[1]) \in Seq(SUBSET Places(word))
      BY <2>1, <3>1, TimesAre
    <3> QED
      BY <3>2, InTurnStays
  <2> QED
    BY <2>2, <2>3
<1> QED
  BY <1>0, <1>2, <1>3, <1>4, <1>5, <1>6

\* The places of every tree in a word.
MatchesBy(f, word) == f = [t \in Trees |-> PlacesOf(word, t, ValuesBelow(f, t))]

LEMMA MatchesUnfold ==
  ASSUME NEW word \in Seq(AllRunes)
  PROVE  \A t \in Trees :
           /\ ValueStands(MatchesIn(word), SUBSET Places(word), t)
           /\ MatchesIn(word)[t] = PlacesOf(word, t, ValuesBelow(MatchesIn(word), t))
<1> DEFINE V == SUBSET Places(word)
           h == [q \in Trees \X Seq(V) |-> PlacesOf(word, q[1], q[2])]
           L == CHOOSE f : MatchesBy(f, word)
<1>1. StepsUp(h, V) /\ \A t \in Trees, vs \in Seq(V) : h[<<t, vs>>] = PlacesOf(word, t, vs)
  <2>1. \A t \in Trees, vs \in Seq(V) : Len(vs) = Len(t.subs) => PlacesOf(word, t, vs) \in V
    BY PlacesOfIs
  <2>2. \A t \in Trees, vs \in Seq(V) : h[<<t, vs>>] = PlacesOf(word, t, vs)
    OBVIOUS
  <2> HIDE DEF h, V
  <2> QED
    BY <2>1, <2>2 DEF StepsUp
<1>2. MatchesIn(word) = L
  BY DEF MatchesIn, MatchesBy, ValuesBelow
<1> HIDE DEF h, V
<1>3. \E f : MatchesBy(f, word)
  <2>1. PICK f \in [Trees -> V] : \A t \in Trees : f[t] = h[<<t, ValuesBelow(f, t)>>]
    BY <1>1, TreeRecursion
  <2>2. ASSUME NEW t \in Trees PROVE ValuesBelow(f, t) \in Seq(V)
    <3>1. \A i \in DOMAIN t.subs : f[t.subs[i]] \in V
      BY <2>1, SubsAreLower
    <3> QED
      BY <3>1, ValuesAre
  <2>3. \A t \in Trees : f[t] = PlacesOf(word, t, ValuesBelow(f, t))
    BY <1>1, <2>1, <2>2
  <2>4. f = [t \in Trees |-> f[t]]
    BY <2>1
  <2>5. f = [t \in Trees |-> PlacesOf(word, t, ValuesBelow(f, t))]
    BY <2>3, <2>4
  <2> QED
    BY <2>5 DEF MatchesBy
<1>4. MatchesBy(L, word)
  BY <1>3
<1> HIDE DEF L
<1>5. \A t \in Trees : L[t] = PlacesOf(word, t, ValuesBelow(L, t))
  BY <1>4 DEF MatchesBy
<1>6. FollowsUp(L, h, V)
  BY <1>1, <1>5 DEF FollowsUp
<1>7. \A t \in Trees : ValueStands(L, V, t)
  BY <1>1, <1>6, StaysAmong
<1> QED
  BY <1>2, <1>5, <1>7 DEF V

-----------------------------------------------------------------------------
\* What a place of a word holds, folded.
Norm(word, p) == FoldNorm(At(word, p))

LEMMA AtIs ==
  ASSUME NEW word \in Seq(AllRunes), NEW p \in Places(word)
  PROVE  /\ p[1] \in Nat /\ p[2] \in Nat /\ p[1] <= p[2] /\ p[2] <= Len(word) /\ Len(word) \in Nat
         /\ At(word, p) \in Seq(AllRunes) /\ Len(At(word, p)) = p[2] - p[1]
         /\ \A i \in 1 .. (p[2] - p[1]) : At(word, p)[i] = word[p[1] + i]
<1>1. Len(word) \in Nat
  OBVIOUS
<1>2. p[1] \in 0 .. Len(word) /\ p[2] \in 0 .. Len(word) /\ p[1] <= p[2]
  BY DEF Places
<1> DEFINE a == p[1]
           b == p[2]
<1>3. a \in Nat /\ b \in Nat /\ a <= b /\ b <= Len(word)
  BY <1>1, <1>2
<1>4. At(word, p) = SubSeq(word, a + 1, b)
  BY DEF At
<1> HIDE DEF a, b
<1>5. /\ SubSeq(word, a + 1, b) \in Seq(AllRunes) /\ Len(SubSeq(word, a + 1, b)) = b - a
      /\ \A i \in 1 .. (b - a) : SubSeq(word, a + 1, b)[i] = word[a + i]
  <2>1. CASE a + 1 <= b
    <3>1. a + 1 \in 1 .. Len(word) /\ b \in a .. Len(word)
      BY <1>1, <1>3, <2>1
    <3>2. \A i \in a + 1 .. b : word[i] \in AllRunes
      <4>1. \A i \in a + 1 .. b : i \in 1 .. Len(word)
        BY <1>1, <1>3
      <4> QED
        BY <4>1
    <3>3. SubSeq(word, a + 1, b) = [i \in 1 .. (b - a) |-> word[i + a]]
      <4>1. 1 + b - (a + 1) = b - a /\ \A i \in 1 .. (b - a) : i + (a + 1) - 1 = i + a
        BY <1>3
      <4> QED
        BY <1>1, <1>3, <2>1, <4>1
    <3>4. b - a \in Nat /\ \A i \in 1 .. (b - a) : i + a \in a + 1 .. b /\ i + a = a + i
      BY <1>3
    <3> DEFINE f == [i \in 1 .. (b - a) |-> word[i + a]]
    <3>5. f = [i \in 1 .. (b - a) |-> f[i]] /\ \A i \in 1 .. (b - a) : f[i] \in AllRunes /\ f[i] = word[a + i]
      BY <3>2, <3>4
    <3>6. f = SubSeq(word, a + 1, b)
      BY <3>3
    <3> HIDE DEF f
    <3>7. f \in Seq(AllRunes) /\ Len(f) = b - a
      BY <3>4, <3>5, ListMade
    <3> QED
      BY <3>5, <3>6, <3>7
  <2>2. CASE ~ (a + 1 <= b)
    <3>1. a = b
      BY <1>3, <2>2
    <3>2. SubSeq(word, a + 1, b) = <<>>
      BY <1>1, <1>3, <3>1
    <3> QED
      BY <1>3, <3>1, <3>2
  <2> QED
    BY <2>1, <2>2
<1> QED
  BY <1>1, <1>3, <1>4, <1>5 DEF a, b

FoldRune(r) == IF r \in DOMAIN FoldsTo THEN FoldsTo[r] ELSE r

LEMMA NormIs ==
  ASSUME NEW word \in Seq(AllRunes), NEW p \in Places(word)
  PROVE  /\ Norm(word, p) \in Seq(AllRunes) /\ Len(Norm(word, p)) = p[2] - p[1]
         /\ \A i \in 1 .. (p[2] - p[1]) : Norm(word, p)[i] = FoldRune(word[p[1] + i])
<1> DEFINE w == At(word, p)
           n == p[2] - p[1]
<1>1. w \in Seq(AllRunes) /\ Len(w) = n /\ \A i \in 1 .. n : w[i] = word[p[1] + i]
  BY AtIs
<1>2. Norm(word, p) = FoldNorm(w)
  BY DEF Norm
<1> HIDE DEF w, n
<1>3. DOMAIN w = 1 .. n
  BY <1>1
<1>4. \A i \in 1 .. n : FoldNorm(w)[i] = FoldRune(word[p[1] + i])
  BY <1>1, <1>3 DEF FoldNorm, FoldRune
<1> QED
  BY <1>1, <1>2, <1>4, FoldedIs DEF n

LEMMA SameWords ==
  ASSUME NEW a \in Seq(AllRunes), NEW b \in Seq(AllRunes), Len(a) = Len(b),
         \A i \in 1 .. Len(a) : a[i] = b[i]
  PROVE  a = b
  OBVIOUS

LEMMA NormOfNothing ==
  ASSUME NEW word \in Seq(AllRunes), NEW p \in Places(word), p[1] = p[2]
  PROVE  Norm(word, p) = <<>>
<1>1. Norm(word, p) \in Seq(AllRunes) /\ Len(Norm(word, p)) = 0
  BY NormIs, AtIs
<1> QED
  BY <1>1

\* The place behind which a place goes on.
LEMMA PlacesSplit ==
  ASSUME NEW word \in Seq(AllRunes), NEW p \in Places(word), NEW k \in p[1] .. p[2]
  PROVE  <<p[1], k>> \in Places(word) /\ <<k, p[2]>> \in Places(word) /\ k \in Nat
  BY AtIs DEF Places

LEMMA NormSplits ==
  ASSUME NEW word \in Seq(AllRunes), NEW p \in Places(word), NEW k \in p[1] .. p[2]
  PROVE  Norm(word, p) = Norm(word, <<p[1], k>>) \o Norm(word, <<k, p[2]>>)
<1> DEFINE i == p[1]
           j == p[2]
           a == Norm(word, <<p[1], k>>)
           b == Norm(word, <<k, p[2]>>)
           c == Norm(word, p)
<1>1. i \in Nat /\ j \in Nat /\ k \in Nat /\ i <= k /\ k <= j
  BY AtIs
<1>2. /\ c \in Seq(AllRunes) /\ Len(c) = j - i
      /\ \A x \in 1 .. (j - i) : c[x] = FoldRune(word[i + x])
  BY NormIs
<1>3. <<p[1], k>> \in Places(word) /\ <<k, p[2]>> \in Places(word)
  BY PlacesSplit
<1>4. /\ a \in Seq(AllRunes) /\ Len(a) = k - i
      /\ \A x \in 1 .. (k - i) : a[x] = FoldRune(word[i + x])
  <2>1. <<p[1], k>>[1] = i /\ <<p[1], k>>[2] = k
    OBVIOUS
  <2> HIDE DEF i
  <2> QED
    BY <1>3, <2>1, NormIs
<1>5. /\ b \in Seq(AllRunes) /\ Len(b) = j - k
      /\ \A x \in 1 .. (j - k) : b[x] = FoldRune(word[k + x])
  <2>1. <<k, p[2]>>[1] = k /\ <<k, p[2]>>[2] = j
    OBVIOUS
  <2> HIDE DEF j
  <2> QED
    BY <1>3, <2>1, NormIs
<1> HIDE DEF i, j, a, b, c
<1>6. a \o b \in Seq(AllRunes) /\ Len(a \o b) = j - i
  <2>1. a \o b \in Seq(AllRunes) /\ Len(a \o b) = Len(a) + Len(b)
    BY <1>4, <1>5, ConcatProperties
  <2> QED
    BY <1>1, <1>4, <1>5, <2>1
<1>7. ASSUME NEW x \in 1 .. (j - i) PROVE c[x] = (a \o b)[x]
  <2>1. CASE x <= k - i
    <3>1. x \in 1 .. (k - i)
      BY <1>1, <2>1
    <3>2. (a \o b)[x] = a[x]
      BY <1>4, <1>5, <3>1
    <3> QED
      BY <1>2, <1>4, <3>1, <3>2
  <2>2. CASE ~ (x <= k - i)
    <3> DEFINE y == x - (k - i)
    <3>1. y \in 1 .. (j - k) /\ k + y = i + x
      BY <1>1, <2>2
    <3>2. (a \o b)[x] = b[x - Len(a)]
      <4>1. x \in 1 .. Len(a) + Len(b) /\ ~ (x <= Len(a))
        BY <1>1, <1>4, <1>5, <2>2
      <4> QED
        BY <1>4, <1>5, <4>1, SMTT(60)
    <3>3. (a \o b)[x] = b[y]
      BY <1>4, <3>2
    <3> HIDE DEF y
    <3>4. b[y] = FoldRune(word[i + x])
      BY <1>5, <3>1
    <3> QED
      BY <1>2, <3>3, <3>4
  <2> QED
    BY <2>1, <2>2
<1>8. c = a \o b
  BY <1>2, <1>6, <1>7, SameWords
<1> QED
  BY <1>8 DEF a, b, c

\* What a place holds is a literal of the word, folded.
LEMMA PlaceIsLiteral ==
  ASSUME NEW word \in Seq(AllRunes), NEW p \in Places(word)
  PROVE  HasLiteral(FoldNorm(word), Norm(word, p))
<1> DEFINE i == p[1]
           j == p[2]
           f == FoldNorm(word)
           lit == Norm(word, p)
<1>1. i \in Nat /\ j \in Nat /\ i <= j /\ j <= Len(word) /\ Len(word) \in Nat
  BY AtIs
<1>2. lit \in Seq(AllRunes) /\ Len(lit) = j - i /\ \A x \in 1 .. (j - i) : lit[x] = FoldRune(word[i + x])
  BY NormIs
<1>3. f \in Seq(AllRunes) /\ Len(f) = Len(word)
  BY FoldedIs
<1>4. \A x \in 1 .. Len(word) : f[x] = FoldRune(word[x])
  BY DEF FoldNorm, FoldRune
<1> HIDE DEF i, j, f, lit
<1> DEFINE q == <<i, j>>
<1>5. q \in Places(f) /\ q[1] = i /\ q[2] = j
  BY <1>1, <1>3 DEF Places
<1>6. At(f, q) \in Seq(AllRunes) /\ Len(At(f, q)) = j - i /\ \A x \in 1 .. (j - i) : At(f, q)[x] = f[i + x]
  BY <1>3, <1>5, AtIs
<1>7. At(f, q) = SubSeq(f, i + 1, j)
  BY DEF At
<1> HIDE DEF q
<1>8. \A x \in 1 .. (j - i) : At(f, q)[x] = lit[x]
  <2>1. \A x \in 1 .. (j - i) : i + x \in 1 .. Len(word)
    BY <1>1
  <2> QED
    BY <1>2, <1>4, <1>6, <2>1
<1>9. At(f, q) = lit
  BY <1>2, <1>6, <1>8, SameWords
<1>10. i \in 0 .. (Len(f) - Len(lit)) /\ i + Len(lit) = j
  BY <1>1, <1>2, <1>3
<1>11. HasLiteral(f, lit)
  BY <1>7, <1>9, <1>10 DEF HasLiteral
<1> QED
  BY <1>11 DEF f, lit

-----------------------------------------------------------------------------
\* The literals of a sequence hold every place at which it matches, folded, if those of its parts do.
HoldsAll(word, P, list) == \A p \in P : Holds(list, Norm(word, p))

LEMMA CrossedHolds ==
  ASSUME NEW word \in Seq(AllRunes), NEW Ps \in Seq(SUBSET Places(word)), NEW ls \in Seq(Seq(Lits)),
         Len(Ps) = Len(ls), \A i \in 1 .. Len(Ps) : HoldsAll(word, Ps[i], ls[i])
  PROVE  HoldsAll(word, InTurn(word, Ps), Crossed(ls))
<1> DEFINE n == Len(Ps)
<1>1. n \in Nat /\ (\A i \in 1 .. n : Ps[i] \in SUBSET Places(word)) /\ n \in 0 .. n
  <2>1. PICK k \in Nat : k = Len(Ps) /\ \A i \in 1 .. k : Ps[i] \in SUBSET Places(word)
    BY ListIs
  <2> QED
    BY <2>1
<1>2. PICK g \in [0 .. n -> SUBSET Places(word)] :
        /\ g[0] = EmptyPlaces(word) /\ g[n] = InTurn(word, Ps)
        /\ \A m \in 1 .. n : g[m] = Then(word, g[m - 1], Ps[m])
  BY InTurnGoes, ZenonT(60)
<1>3. PICK c \in [0 .. Len(ls) -> Seq(Lits)] :
        /\ c[0] = <<(<<>>)>> /\ c[Len(ls)] = Crossed(ls)
        /\ \A m \in 1 .. Len(ls) : c[m] = Cross(c[m - 1], ls[m])
  BY CrossedGoes
<1>4. /\ c \in [0 .. n -> Seq(Lits)] /\ c[0] = NoRun /\ c[n] = Crossed(ls)
      /\ \A m \in 1 .. n : c[m] = Cross(c[m - 1], ls[m])
  BY <1>3, NoRunIsSet
<1>5. \A i \in 1 .. n : HoldsAll(word, Ps[i], ls[i]) /\ ls[i] \in Seq(Lits)
  <2>1. PICK k \in Nat : k = Len(ls) /\ \A i \in 1 .. k : ls[i] \in Seq(Lits)
    BY ListIs
  <2> QED
    BY <2>1
<1> HIDE DEF n
<1> DEFINE X == {m \in 0 .. n : HoldsAll(word, g[m], c[m])}
<1>6. 0 \in X
  <2>1. \A p \in EmptyPlaces(word) : Holds(NoRun, Norm(word, p))
    BY NormOfNothing, NoRunIsSet DEF EmptyPlaces
  <2> QED
    BY <1>1, <1>2, <1>4, <2>1 DEF HoldsAll
<1>7. ASSUME NEW m \in 1 .. n, m - 1 \in X PROVE m \in X
  <2>1. m \in 0 .. n /\ m - 1 \in 0 .. n
    BY <1>1
  <2>2. g[m] = Then(word, g[m - 1], Ps[m]) /\ c[m] = Cross(c[m - 1], ls[m])
    BY <1>2, <1>4
  <2>3. c[m - 1] \in Seq(Lits) /\ ls[m] \in Seq(Lits)
    BY <1>4, <1>5, <2>1
  <2>4. ASSUME NEW p \in Then(word, g[m - 1], Ps[m]) PROVE Holds(Cross(c[m - 1], ls[m]), Norm(word, p))
    <3>1. p \in Places(word)
      BY DEF Then
    <3>2. PICK k \in p[1] .. p[2] : <<p[1], k>> \in g[m - 1] /\ <<k, p[2]>> \in Ps[m]
      BY DEF Then
    <3>3. Holds(c[m - 1], Norm(word, <<p[1], k>>)) /\ Holds(ls[m], Norm(word, <<k, p[2]>>))
      BY <1>5, <1>7, <3>2 DEF HoldsAll
    <3>4. Norm(word, p) = Norm(word, <<p[1], k>>) \o Norm(word, <<k, p[2]>>)
      BY <3>1, NormSplits
    <3> QED
      BY <2>3, <3>3, <3>4, CrossHolds
  <2>5. HoldsAll(word, g[m], c[m])
    BY <2>2, <2>4 DEF HoldsAll
  <2> QED
    BY <2>1, <2>5
<1>8. n \in X
  <2>1. X \in SUBSET (0 .. n)
    OBVIOUS
  <2> HIDE DEF X
  <2> QED
    BY <1>1, <1>6, <1>7, <2>1, Climbs
<1> QED
  BY <1>2, <1>4, <1>8

LEMMA HoldsOne == ASSUME NEW x PROVE Holds(<<x>>, x)
<1>1. 1 \in DOMAIN <<x>> /\ <<x>>[1] = x
  OBVIOUS
<1> QED
  BY <1>1 DEF Holds

\* Where a tree matches, a literal of it stands, if it has any.
LEMMA PureHolds ==
  ASSUME NEW word \in Seq(AllRunes)
  PROVE  \A t \in Trees : PureLits[t] # <<>> => HoldsAll(word, MatchesIn(word)[t], PureLits[t])
<1> DEFINE M == MatchesIn(word)
           X == {t \in Trees : PureLits[t] # <<>> => HoldsAll(word, M[t], PureLits[t])}
<1>1. ASSUME NEW t \in Trees, \A i \in DOMAIN t.subs : t.subs[i] \in X, PureLits[t] # <<>>
      PROVE  HoldsAll(word, M[t], PureLits[t])
  <2> DEFINE below == ValuesBelow(PureLits, t)
             places == ValuesBelow(M, t)
  <2>1. /\ below \in Seq(Seq(Lits)) /\ Len(below) = Len(t.subs) /\ DOMAIN below = DOMAIN t.subs
        /\ \A i \in DOMAIN t.subs : below[i] = PureLits[t.subs[i]]
        /\ PureLits[t] = PureOf(t, below)
    BY PureUnfolds DEF ValueStands
  <2>2. /\ places \in Seq(SUBSET Places(word)) /\ Len(places) = Len(t.subs) /\ DOMAIN places = DOMAIN t.subs
        /\ \A i \in DOMAIN t.subs : places[i] = M[t.subs[i]]
        /\ M[t] = PlacesOf(word, t, places) /\ M[t] \in SUBSET Places(word)
    BY MatchesUnfold DEF ValueStands
  <2> HIDE DEF below, places, M
  <2>3. t.op \in {"literal", "class", "any", "concat", "alternate", "quest", "repeat"}
    BY TreesAssumption
  <2>4. ASSUME NEW i \in DOMAIN t.subs, below[i] # <<>> PROVE HoldsAll(word, places[i], below[i])
    BY <1>1, <2>1, <2>2, <2>4
  <2>5. CASE t.op = "literal"
    <3>1. PureLits[t] = <<FoldNorm(t.word)>>
      BY <2>1, <2>5, PureIs
    <3>2. ASSUME NEW p \in M[t] PROVE Norm(word, p) = FoldNorm(t.word)
      BY <2>2, <2>5, <3>2 DEF PlacesOf, Norm
    <3> QED
      BY <3>1, <3>2, HoldsOne DEF HoldsAll
  <2>6. CASE t.op = "class"
    <3>1. PureLits[t] = ClassWords(t.class)
      BY <1>1, <2>1, <2>6, PureIs
    <3>2. ASSUME NEW p \in M[t] PROVE \E r \in t.class : Norm(word, p) = FoldNorm(<<r>>)
      BY <2>2, <2>6, <3>2 DEF PlacesOf, Norm
    <3>3. \A r \in t.class : Holds(ClassWords(t.class), FoldNorm(<<r>>))
      BY <2>6, TreesAssumption, ClassWordsAre
    <3> QED
      BY <3>1, <3>2, <3>3 DEF HoldsAll
  <2>7. CASE t.op = "alternate"
    <3>1. PureLits[t] = Joined(below) /\ \A i \in DOMAIN below : below[i] # <<>>
      BY <1>1, <2>1, <2>7, PureIs
    <3>2. ASSUME NEW p \in M[t] PROVE Holds(Joined(below), Norm(word, p))
      <4>1. M[t] = UNION {places[k] : k \in DOMAIN places}
        BY <2>2, <2>7 DEF PlacesOf
      <4>2. PICK k \in DOMAIN t.subs : p \in places[k]
        BY <2>2, <3>2, <4>1
      <4>3. Holds(below[k], Norm(word, p)) /\ k \in DOMAIN below
        BY <2>1, <2>4, <3>1, <4>2 DEF HoldsAll
      <4>4. PICK j \in DOMAIN (below[k]) : below[k][j] = Norm(word, p)
        BY <4>3 DEF Holds
      <4>5. Holds(Joined(below), below[k][j])
        BY <2>1, <4>3, JoinedHolds
      <4> QED
        BY <4>4, <4>5
    <3> QED
      BY <3>1, <3>2 DEF HoldsAll
  <2>8. CASE t.op = "concat"
    <3>1. PureLits[t] = Crossed(below) /\ \A i \in DOMAIN below : below[i] # <<>>
      BY <1>1, <2>1, <2>8, PureIs
    <3>2. M[t] = InTurn(word, places)
      BY <2>2, <2>8 DEF PlacesOf
    <3>3. \A i \in 1 .. Len(places) : HoldsAll(word, places[i], below[i])
      <4>1. PICK k \in Nat : k = Len(places) /\ DOMAIN places = 1 .. k
        BY <2>2, ListIs
      <4> QED
        BY <2>1, <2>2, <2>4, <3>1, <4>1
    <3>4. Len(places) = Len(below)
      BY <2>1, <2>2
    <3> QED
      BY <2>1, <2>2, <3>1, <3>2, <3>3, <3>4, CrossedHolds
  <2>9. CASE t.op \notin {"literal", "class", "alternate", "concat"}
    <3>1. PureLits[t] = <<>>
      BY <2>1, <2>9, PureIs
    <3> QED
      BY <1>1, <3>1
  <2> QED
    BY <2>5, <2>6, <2>7, <2>8, <2>9
<1>2. ASSUME NEW t \in Trees, \A i \in DOMAIN t.subs : t.subs[i] \in X PROVE t \in X
  BY <1>1, <1>2
<1>3. \A t \in Trees : t \in X
  <2>1. X \in SUBSET Trees
    OBVIOUS
  <2> HIDE DEF X
  <2> QED
    BY <1>2, <2>1, TreeInduction
<1> QED
  BY <1>3

-----------------------------------------------------------------------------
\* A set is hit in a place if one of its literals stands inside of it.
HitAt(word, p, set) ==
  \E q \in Places(word) : p[1] <= q[1] /\ q[2] <= p[2] /\ Holds(set, Norm(word, q))
AllHit(word, p, sets) == \A i \in DOMAIN sets : HitAt(word, p, sets[i])

LEMMA HitWider ==
  ASSUME NEW word \in Seq(AllRunes), NEW p \in Places(word), NEW r \in Places(word),
         p[1] <= r[1], r[2] <= p[2], NEW sets, AllHit(word, r, sets)
  PROVE  AllHit(word, p, sets)
<1>1. ASSUME NEW i \in DOMAIN sets PROVE HitAt(word, p, sets[i])
  <2>1. PICK q \in Places(word) : r[1] <= q[1] /\ q[2] <= r[2] /\ Holds(sets[i], Norm(word, q))
    BY DEF AllHit, HitAt
  <2>2. p[1] <= q[1] /\ q[2] <= p[2]
    BY <2>1, AtIs, SMTT(60)
  <2> QED
    BY <2>1, <2>2 DEF HitAt
<1> QED
  BY <1>1 DEF AllHit

LEMMA HitJoined ==
  ASSUME NEW word, NEW p, NEW a \in Seq(LitSets), NEW b \in Seq(LitSets),
         AllHit(word, p, a), AllHit(word, p, b)
  PROVE  AllHit(word, p, a \o b)
<1>1. PICK n \in Nat : n = Len(a) /\ DOMAIN a = 1 .. n
  BY ListIs
<1>2. PICK m \in Nat : m = Len(b) /\ DOMAIN b = 1 .. m
  BY ListIs
<1>3. ASSUME NEW i \in DOMAIN (a \o b) PROVE HitAt(word, p, (a \o b)[i])
  <2>1. i \in 1 .. n + m
    BY <1>1, <1>2, <1>3
  <2>2. CASE i <= n
    <3>1. i \in DOMAIN a /\ (a \o b)[i] = a[i]
      BY <1>1, <1>2, <2>1, <2>2, ConcatProperties
    <3> QED
      BY <3>1 DEF AllHit
  <2>3. CASE ~ (i <= n)
    <3>1. i - n \in DOMAIN b
      BY <1>1, <1>2, <2>1, <2>3
    <3>2. (a \o b)[i] = b[i - n]
      BY <1>1, <1>2, <2>1, <2>3, ConcatProperties
    <3> QED
      BY <3>1, <3>2 DEF AllHit
  <2> QED
    BY <2>2, <2>3
<1> QED
  BY <1>3 DEF AllHit

LEMMA HitOne ==
  ASSUME NEW word, NEW p, NEW set \in LitSets, HitAt(word, p, set)
  PROVE  AllHit(word, p, <<set>>) /\ <<set>> \in Seq(LitSets)
<1>1. DOMAIN <<set>> = {1} /\ <<set>>[1] = set
  OBVIOUS
<1> QED
  BY <1>1 DEF AllHit

LEMMA HitHere ==
  ASSUME NEW word \in Seq(AllRunes), NEW p \in Places(word), NEW set, Holds(set, Norm(word, p))
  PROVE  HitAt(word, p, set)
  BY AtIs DEF HitAt

\* What the merge of a sequence knows of the place at which its first sub-expressions match:
\* its sets are hit, and one of the run's words stands at the end.
MergeHolds(word, p, acc) ==
  /\ AllHit(word, p, acc.out)
  /\ \E r \in p[1] .. p[2] : Holds(acc.run, Norm(word, <<r, p[2]>>))

LEMMA FlushedHolds ==
  ASSUME NEW word \in Seq(AllRunes), NEW p \in Places(word), NEW acc \in MergeStates,
         MergeHolds(word, p, acc)
  PROVE  AllHit(word, p, Flushed(acc))
<1>1. CASE acc.run = NoRun
  BY <1>1, FlushedIs DEF MergeHolds
<1>2. CASE acc.run # NoRun
  <2>1. PICK r \in p[1] .. p[2] : Holds(acc.run, Norm(word, <<r, p[2]>>))
    BY DEF MergeHolds
  <2>2. <<r, p[2]>> \in Places(word) /\ p[1] <= r
    BY PlacesSplit, AtIs
  <2>3. HitAt(word, p, acc.run)
    <3> DEFINE q == <<r, p[2]>>
    <3>1. q \in Places(word) /\ p[1] <= q[1] /\ q[2] <= p[2] /\ Holds(acc.run, Norm(word, q))
      BY <2>1, <2>2, AtIs
    <3> HIDE DEF q
    <3> QED
      BY <3>1 DEF HitAt
  <2>4. acc.run \in LitSets /\ acc.out \in Seq(LitSets) /\ AllHit(word, p, acc.out)
    BY DEF MergeStates, MergeHolds
  <2>5. AllHit(word, p, <<acc.run>>) /\ <<acc.run>> \in Seq(LitSets)
    BY <2>3, <2>4, HitOne
  <2>6. Append(acc.out, acc.run) = acc.out \o <<acc.run>>
    BY <2>4, AppendIsConcat
  <2> QED
    BY <1>2, <2>4, <2>5, <2>6, FlushedIs, HitJoined
<1> QED
  BY <1>1, <1>2

\* One sub-expression more.
LEMMA MergeGoesOn ==
  ASSUME NEW word \in Seq(AllRunes), NEW p \in Places(word), NEW k \in p[1] .. p[2],
         NEW acc \in MergeStates, MergeHolds(word, <<p[1], k>>, acc),
         NEW sub \in SubRecords, AllHit(word, <<k, p[2]>>, sub.sets),
         sub.lits # <<>> => Holds(sub.lits, Norm(word, <<k, p[2]>>))
  PROVE  MergeHolds(word, p, Merge(acc, sub))
<1> DEFINE first == <<p[1], k>>
           last == <<k, p[2]>>
           new == Merge(acc, sub)
<1>1. /\ first \in Places(word) /\ last \in Places(word) /\ first[1] = p[1] /\ first[2] = k
      /\ last[1] = k /\ last[2] = p[2]
      /\ p[1] <= k /\ k <= p[2] /\ p[1] \in Nat /\ p[2] \in Nat /\ k \in Nat
  BY PlacesSplit, AtIs
<1>2. MergeHolds(word, first, acc) /\ AllHit(word, last, sub.sets)
      /\ (sub.lits # <<>> => Holds(sub.lits, Norm(word, last)))
  OBVIOUS
<1> HIDE DEF first, last, new
<1>3. sub.lits \in Seq(Lits) /\ sub.sets \in Seq(LitSets) /\ acc.run \in LitSets /\ acc.out \in Seq(LitSets)
  BY DEF SubRecords, MergeStates
<1>4. CASE sub.lits # <<>> /\ new.out = acc.out /\ new.run = Cross(acc.run, sub.lits)
  <2>1. AllHit(word, p, acc.out)
    <3>1. AllHit(word, first, acc.out)
      BY <1>2 DEF MergeHolds
    <3>2. p[1] <= first[1] /\ first[2] <= p[2]
      BY <1>1
    <3> QED
      BY <1>1, <3>1, <3>2, HitWider
  <2>2. PICK r \in p[1] .. k : Holds(acc.run, Norm(word, <<r, k>>))
    BY <1>1, <1>2 DEF MergeHolds
  <2> DEFINE q == <<r, p[2]>>
  <2>3. r \in p[1] .. p[2] /\ q \in Places(word) /\ q[1] = r /\ q[2] = p[2] /\ k \in q[1] .. q[2]
    <3>1. r \in p[1] .. p[2]
      BY <1>1
    <3>2. k \in r .. p[2]
      BY <1>1
    <3> QED
      BY <3>1, <3>2, PlacesSplit
  <2>4. Norm(word, q) = Norm(word, <<r, k>>) \o Norm(word, last)
    <3>1. Norm(word, q) = Norm(word, <<q[1], k>>) \o Norm(word, <<k, q[2]>>)
      <4> HIDE DEF q
      <4> QED
        BY <2>3, NormSplits
    <3> QED
      BY <2>3, <3>1 DEF last
  <2>5. acc.run \in Seq(Lits)
    BY <1>3 DEF LitSets
  <2>6. Holds(Cross(acc.run, sub.lits), Norm(word, q))
    <3>1. Holds(sub.lits, Norm(word, last))
      BY <1>2, <1>4
    <3> HIDE DEF q
    <3> QED
      BY <1>3, <2>2, <2>4, <2>5, <3>1, CrossHolds
  <2> QED
    BY <1>4, <2>1, <2>3, <2>6 DEF MergeHolds, new
<1>5. CASE new.out = Flushed(acc) \o Behind(sub) /\ new.run = NoRun
  <2>1. AllHit(word, p, Flushed(acc))
    <3>1. AllHit(word, first, Flushed(acc))
      BY <1>1, <1>2, FlushedHolds
    <3>2. p[1] <= first[1] /\ first[2] <= p[2]
      BY <1>1
    <3> QED
      BY <1>1, <3>1, <3>2, HitWider
  <2>2. AllHit(word, last, Behind(sub))
    <3>1. CASE sub.lits # <<>>
      <4>1. sub.lits \in LitSets /\ HitAt(word, last, sub.lits)
        BY <1>1, <1>2, <1>3, <3>1, HitHere DEF LitSets
      <4> QED
        BY <3>1, <4>1, HitOne DEF Behind
    <3>2. CASE sub.lits = <<>>
      BY <1>2, <3>2 DEF Behind
    <3> QED
      BY <3>1, <3>2
  <2>3. AllHit(word, p, Behind(sub))
    <3>1. p[1] <= last[1] /\ last[2] <= p[2]
      BY <1>1
    <3> QED
      BY <1>1, <2>2, <3>1, HitWider
  <2>4. AllHit(word, p, Flushed(acc) \o Behind(sub))
    BY <2>1, <2>3, FlushedIs, BehindIs, HitJoined
  <2> DEFINE q == <<p[2], p[2]>>
  <2>5. p[2] \in p[1] .. p[2] /\ q \in Places(word) /\ q[1] = q[2]
    <3>1. p[2] \in p[1] .. p[2]
      BY <1>1
    <3> QED
      BY <3>1, PlacesSplit
  <2>6. Norm(word, q) = <<>>
    <3> HIDE DEF q
    <3> QED
      BY <2>5, NormOfNothing
  <2>7. Holds(NoRun, Norm(word, q))
    BY <2>6, NoRunIsSet
  <2> QED
    BY <1>5, <2>4, <2>5, <2>7 DEF MergeHolds, new
<1> QED
  BY <1>4, <1>5, MergeIs DEF new

\* A sequence: every sub-expression merged.
LEMMA MergedHolds ==
  ASSUME NEW word \in Seq(AllRunes), NEW Ps \in Seq(SUBSET Places(word)), NEW s \in Seq(SubRecords),
         Len(Ps) = Len(s),
         \A i \in 1 .. Len(Ps) : \A p \in Ps[i] : AllHit(word, p, s[i].sets),
         \A i \in 1 .. Len(Ps) : s[i].lits # <<>> => HoldsAll(word, Ps[i], s[i].lits)
  PROVE  \A p \in InTurn(word, Ps) : MergeHolds(word, p, Merged(s))
<1> DEFINE n == Len(Ps)
<1>1. n \in Nat /\ (\A i \in 1 .. n : Ps[i] \in SUBSET Places(word)) /\ n \in 0 .. n
  <2>1. PICK k \in Nat : k = Len(Ps) /\ \A i \in 1 .. k : Ps[i] \in SUBSET Places(word)
    BY ListIs
  <2> QED
    BY <2>1
<1>2. PICK g \in [0 .. n -> SUBSET Places(word)] :
        /\ g[0] = EmptyPlaces(word) /\ g[n] = InTurn(word, Ps)
        /\ \A m \in 1 .. n : g[m] = Then(word, g[m - 1], Ps[m])
  BY InTurnGoes, ZenonT(60)
<1>3. PICK c \in [0 .. Len(s) -> MergeStates] :
        /\ c[0] = [out |-> <<>>, run |-> NoRun] /\ c[Len(s)] = Merged(s)
        /\ \A m \in 1 .. Len(s) : c[m] = Merge(c[m - 1], s[m])
  BY MergedGoes
<1>4. /\ c \in [0 .. n -> MergeStates] /\ c[0] = [out |-> <<>>, run |-> NoRun] /\ c[n] = Merged(s)
      /\ \A m \in 1 .. n : c[m] = Merge(c[m - 1], s[m])
  BY <1>3
<1>5. \A i \in 1 .. n : s[i] \in SubRecords
  <2>1. PICK k \in Nat : k = Len(s) /\ \A i \in 1 .. k : s[i] \in SubRecords
    BY ListIs
  <2> QED
    BY <2>1
<1>6. /\ \A i \in 1 .. n : \A p \in Ps[i] : AllHit(word, p, s[i].sets)
      /\ \A i \in 1 .. n : s[i].lits # <<>> => HoldsAll(word, Ps[i], s[i].lits)
  OBVIOUS
<1> HIDE DEF n
<1> DEFINE X == {m \in 0 .. n : \A p \in g[m] : MergeHolds(word, p, c[m])}
<1>7. 0 \in X
  <2>1. ASSUME NEW p \in EmptyPlaces(word) PROVE MergeHolds(word, p, [out |-> <<>>, run |-> NoRun])
    <3>1. p \in Places(word) /\ p[1] = p[2]
      BY DEF EmptyPlaces
    <3>2. p[2] \in p[1] .. p[2] /\ <<p[2], p[2]>> \in Places(word)
      <4>1. p[2] \in p[1] .. p[2]
        BY <3>1, AtIs
      <4> QED
        BY <3>1, <4>1, PlacesSplit
    <3> DEFINE q == <<p[2], p[2]>>
    <3>3. q[1] = q[2]
      OBVIOUS
    <3>4. Norm(word, q) = <<>>
      <4> HIDE DEF q
      <4> QED
        BY <3>2, <3>3, NormOfNothing DEF q
    <3>5. Holds(NoRun, Norm(word, q))
      BY <3>4, NoRunIsSet
    <3>6. AllHit(word, p, <<>>)
      BY DEF AllHit
    <3> QED
      BY <3>2, <3>5, <3>6 DEF MergeHolds
  <2> QED
    BY <1>1, <1>2, <1>4, <2>1
<1>8. ASSUME NEW m \in 1 .. n, m - 1 \in X PROVE m \in X
  <2>1. m \in 0 .. n /\ m - 1 \in 0 .. n
    BY <1>1
  <2>2. g[m] = Then(word, g[m - 1], Ps[m]) /\ c[m] = Merge(c[m - 1], s[m])
    BY <1>2, <1>4
  <2>3. c[m - 1] \in MergeStates /\ s[m] \in SubRecords
    BY <1>4, <1>5, <2>1
  <2>4. ASSUME NEW p \in Then(word, g[m - 1], Ps[m]) PROVE MergeHolds(word, p, Merge(c[m - 1], s[m]))
    <3>1. p \in Places(word)
      BY DEF Then
    <3>2. PICK k \in p[1] .. p[2] : <<p[1], k>> \in g[m - 1] /\ <<k, p[2]>> \in Ps[m]
      BY DEF Then
    <3>3. MergeHolds(word, <<p[1], k>>, c[m - 1])
      BY <1>8, <3>2
    <3>4. AllHit(word, <<k, p[2]>>, s[m].sets)
      BY <1>6, <3>2
    <3>5. s[m].lits # <<>> => Holds(s[m].lits, Norm(word, <<k, p[2]>>))
      BY <1>6, <3>2 DEF HoldsAll
    <3> QED
      BY <2>3, <3>1, <3>3, <3>4, <3>5, MergeGoesOn
  <2> QED
    BY <2>1, <2>2, <2>4
<1>9. n \in X
  <2>1. X \in SUBSET (0 .. n)
    OBVIOUS
  <2> HIDE DEF X
  <2> QED
    BY <1>1, <1>7, <1>8, <2>1, Climbs
<1> QED
  BY <1>2, <1>4, <1>9

\* At least one repetition ends where all of them do.
LEMMA LastTime ==
  ASSUME NEW word \in Seq(AllRunes), NEW P \in SUBSET Places(word), NEW n \in Nat, n >= 1,
         NEW p \in InTurn(word, Times(n, P))
  PROVE  p \in Places(word) /\ \E k \in p[1] .. p[2] : <<k, p[2]>> \in P
<1> DEFINE S == SUBSET Places(word)
           s == Times(n, P)
<1>1. s \in Seq(S) /\ Len(s) = n /\ n \in 1 .. n /\ s[n] = P
  <2>1. P \in S /\ n \in 1 .. n
    OBVIOUS
  <2> HIDE DEF S
  <2>2. s \in Seq(S) /\ Len(s) = n /\ \A k \in 1 .. n : s[k] = P
    BY <2>1, TimesAre
  <2> QED
    BY <2>1, <2>2
<1> HIDE DEF s
<1>2. PICK g \in [0 .. n -> S] : g[n] = InTurn(word, s) /\ \A m \in 1 .. n : g[m] = Then(word, g[m - 1], s[m])
  <2>1. \E g \in [0 .. Len(s) -> S] :
           /\ g[0] = EmptyPlaces(word) /\ g[Len(s)] = InTurn(word, s)
           /\ \A m \in 1 .. Len(s) : g[m] = Then(word, g[m - 1], s[m])
    BY <1>1, InTurnGoes, ZenonT(60)
  <2> HIDE DEF S
  <2> QED
    BY <1>1, <2>1
<1>3. p \in Then(word, g[n - 1], P)
  BY <1>1, <1>2 DEF s
<1> QED
  BY <1>3 DEF Then

\* Where a tree matches, every one of its sets is hit.
LEMMA RequiredAreHit ==
  ASSUME NEW word \in Seq(AllRunes)
  PROVE  \A t \in Trees : \A p \in MatchesIn(word)[t] : AllHit(word, p, RequiredSets[t])
<1> DEFINE M == MatchesIn(word)
           X == {t \in Trees : \A p \in M[t] : AllHit(word, p, RequiredSets[t])}
<1>1. ASSUME NEW t \in Trees, \A i \in DOMAIN t.subs : t.subs[i] \in X, NEW p \in M[t]
      PROVE  AllHit(word, p, RequiredSets[t])
  <2> DEFINE below == ValuesBelow(RequiredSets, t)
             places == ValuesBelow(M, t)
  <2>1. /\ below \in Seq(Seq(LitSets)) /\ Len(below) = Len(t.subs) /\ DOMAIN below = DOMAIN t.subs
        /\ \A i \in DOMAIN t.subs : below[i] = RequiredSets[t.subs[i]]
        /\ RequiredSets[t] = RequiredOf(t, below)
    BY RequiredUnfolds DEF ValueStands
  <2>2. /\ places \in Seq(SUBSET Places(word)) /\ Len(places) = Len(t.subs) /\ DOMAIN places = DOMAIN t.subs
        /\ \A i \in DOMAIN t.subs : places[i] = M[t.subs[i]]
        /\ M[t] = PlacesOf(word, t, places) /\ M[t] \in SUBSET Places(word)
    BY MatchesUnfold DEF ValueStands
  <2>3. \A u \in Trees : PureLits[u] \in Seq(Lits) /\ (PureLits[u] # <<>> => HoldsAll(word, M[u], PureLits[u]))
    BY PureHolds, PureUnfolds DEF ValueStands
  <2> HIDE DEF below, places, M
  <2>4. \A i \in DOMAIN t.subs : \A q \in places[i] : AllHit(word, q, below[i])
    BY <1>1, <2>1, <2>2
  <2>5. p \in Places(word)
    BY <2>2
  <2>6. PICK n \in Nat : n = Len(places) /\ DOMAIN places = 1 .. n /\ \A i \in 1 .. n : places[i] \in SUBSET Places(word)
    BY <2>2, ListIs
  <2>7. AllHit(word, p, <<>>)
    BY DEF AllHit
  <2>8. CASE PureLits[t] # <<>>
    <3>1. RequiredSets[t] = <<PureLits[t]>>
      BY <2>1, <2>8, RequiredIs
    <3>2. Holds(PureLits[t], Norm(word, p)) /\ PureLits[t] \in LitSets
      BY <2>3, <2>8 DEF HoldsAll, LitSets
    <3>3. HitAt(word, p, PureLits[t])
      BY <2>5, <3>2, HitHere
    <3> QED
      BY <3>1, <3>2, <3>3, HitOne
  <2>9. CASE PureLits[t] = <<>> /\ t.op = "concat"
    <3> DEFINE s == SubsOf(t, below)
    <3>1. RequiredSets[t] = Flushed(Merged(s))
      BY <2>1, <2>9, RequiredIs
    <3>2. p \in InTurn(word, places)
      BY <2>2, <2>9 DEF PlacesOf
    <3>3. /\ s \in Seq(SubRecords) /\ Len(s) = Len(places)
          /\ \A i \in 1 .. n : s[i].lits = PureLits[t.subs[i]] /\ s[i].sets = below[i]
      BY <2>1, <2>2, <2>6, SubsAre
    <3> HIDE DEF s
    <3>4. \A i \in 1 .. Len(places) : \A q \in places[i] : AllHit(word, q, s[i].sets)
      BY <2>2, <2>4, <2>6, <3>3
    <3>5. \A i \in 1 .. Len(places) : s[i].lits # <<>> => HoldsAll(word, places[i], s[i].lits)
      <4>1. \A i \in 1 .. n : t.subs[i] \in Trees
        BY <2>2, <2>6, SubsAreLower
      <4> QED
        BY <2>2, <2>3, <2>6, <3>3, <4>1
    <3>6. MergeHolds(word, p, Merged(s))
      BY <2>2, <3>2, <3>3, <3>4, <3>5, MergedHolds
    <3> QED
      BY <2>5, <3>1, <3>3, <3>6, MergedIs, FlushedHolds
  <2>10. CASE PureLits[t] = <<>> /\ t.op = "repeat"
    <3>1. CASE RequiredSets[t] = <<>>
      BY <2>7, <3>1
    <3>2. CASE RequiredSets[t] # <<>>
      <4>1. t.min >= 1 /\ RequiredSets[t] = below[1]
        BY <2>1, <2>10, <3>2, RequiredIs
      <4>2. Len(t.subs) = 1 /\ t.min \in Nat /\ Len(word) \in Nat
        BY <2>10, TreesAssumption
      <4>3. 1 \in DOMAIN t.subs /\ places[1] \in SUBSET Places(word)
        BY <2>2, <2>6, <4>2
      <4>4. M[t] = UNION {InTurn(word, Times(k, places[1])) : k \in t.min .. (t.min + Len(word))}
        BY <2>2, <2>10 DEF PlacesOf, Times
      <4>5. PICK k \in t.min .. (t.min + Len(word)) : p \in InTurn(word, Times(k, places[1]))
        BY <4>4
      <4>6. k \in Nat /\ k >= 1
        BY <4>1, <4>2
      <4>7. PICK j \in p[1] .. p[2] : <<j, p[2]>> \in places[1]
        BY <4>3, <4>5, <4>6, LastTime
      <4> DEFINE q == <<j, p[2]>>
      <4>8. q \in Places(word) /\ p[1] <= q[1] /\ q[2] <= p[2]
        <5>1. q \in Places(word) /\ j \in Nat
          BY <2>5, PlacesSplit
        <5>2. p[1] <= j /\ p[2] <= p[2]
          BY <2>5, AtIs
        <5> QED
          BY <5>1, <5>2
      <4>9. AllHit(word, q, below[1])
        BY <2>4, <4>3, <4>7
      <4> HIDE DEF q
      <4> QED
        BY <2>5, <4>1, <4>8, <4>9, HitWider
    <3> QED
      BY <3>1, <3>2
  <2>11. CASE PureLits[t] = <<>> /\ t.op = "alternate"
    <3>1. CASE RequiredSets[t] = <<>>
      BY <2>7, <3>1
    <3>2. CASE RequiredSets[t] # <<>>
      <4>1. (\A i \in DOMAIN below : below[i] # <<>>) /\ RequiredSets[t] = <<Joined(BestOf(below))>>
        BY <2>1, <2>11, <3>2, RequiredIs
      <4>2. M[t] = UNION {places[k] : k \in DOMAIN places}
        BY <2>2, <2>11 DEF PlacesOf
      <4>3. PICK k \in DOMAIN t.subs : p \in places[k]
        BY <2>2, <4>2
      <4>4. AllHit(word, p, below[k]) /\ below[k] # <<>> /\ below[k] \in Seq(LitSets) /\ k \in DOMAIN below
        BY <2>1, <2>4, <4>1, <4>3
      <4>5. Holds(below[k], Best(below[k]))
        BY <4>4, BestIs
      <4>6. HitAt(word, p, Best(below[k]))
        BY <4>4, <4>5 DEF Holds, AllHit
      <4>7. PICK q \in Places(word) : p[1] <= q[1] /\ q[2] <= p[2] /\ Holds(Best(below[k]), Norm(word, q))
        BY <4>6 DEF HitAt
      <4>8. PICK j \in DOMAIN Best(below[k]) : Best(below[k])[j] = Norm(word, q)
        BY <4>7 DEF Holds
      <4>9. BestOf(below) \in Seq(Seq(Lits)) /\ k \in DOMAIN BestOf(below) /\ BestOf(below)[k] = Best(below[k])
        BY <2>1, <4>1, <4>4, BestsAre
      <4>10. Holds(Joined(BestOf(below)), Norm(word, q))
        <5>1. Holds(Joined(BestOf(below)), BestOf(below)[k][j])
          BY <4>8, <4>9, JoinedHolds
        <5> QED
          BY <4>8, <4>9, <5>1
      <4>11. HitAt(word, p, Joined(BestOf(below)))
        BY <4>7, <4>10 DEF HitAt
      <4>12. Joined(BestOf(below)) \in LitSets
        <5>1. below # <<>>
          <6>1. PICK l \in Nat : DOMAIN below = 1 .. l /\ (l = 0 <=> below = <<>>)
            BY <2>1, ListIs
          <6>2. l # 0
            BY <4>4, <6>1
          <6> QED
            BY <6>1, <6>2
        <5> QED
          BY <2>1, <4>1, <5>1, BestsJoined
      <4> QED
        BY <4>1, <4>11, <4>12, HitOne
    <3> QED
      BY <3>1, <3>2
  <2>12. CASE PureLits[t] = <<>> /\ t.op \notin {"concat", "repeat", "alternate"}
    <3>1. RequiredSets[t] = <<>>
      BY <2>1, <2>12, RequiredIs
    <3> QED
      BY <2>7, <3>1
  <2> QED
    BY <2>8, <2>9, <2>10, <2>11, <2>12
<1>2. ASSUME NEW t \in Trees, \A i \in DOMAIN t.subs : t.subs[i] \in X PROVE t \in X
  BY <1>1, <1>2
<1>3. \A t \in Trees : t \in X
  <2>1. X \in SUBSET Trees
    OBVIOUS
  <2> HIDE DEF X
  <2> QED
    BY <1>2, <2>1, TreeInduction
<1> QED
  BY <1>3

\* The literals kept of a pattern never rule out a word in which it is found.
LEMMA FoundIsPossible ==
  ASSUME NEW word \in Seq(AllRunes), NEW t \in Trees, Found(t, word)
  PROVE  Possible(ExtractTriggers(t), FoldNorm(word))
<1>1. PICK p \in MatchesIn(word)[t] : TRUE
  BY DEF Found
<1>2. p \in Places(word) /\ AllHit(word, p, RequiredSets[t])
  BY MatchesUnfold, RequiredAreHit DEF ValueStands
<1>3. ASSUME NEW set \in ExtractTriggers(t) PROVE \E j \in DOMAIN set : HasLiteral(FoldNorm(word), set[j])
  <2>1. PICK i \in DOMAIN RequiredSets[t] : set = RequiredSets[t][i]
    BY DEF ExtractTriggers
  <2>2. HitAt(word, p, set)
    BY <1>2, <2>1 DEF AllHit
  <2>3. PICK q \in Places(word) : Holds(set, Norm(word, q))
    BY <2>2 DEF HitAt
  <2>4. PICK j \in DOMAIN set : set[j] = Norm(word, q)
    BY <2>3 DEF Holds
  <2> QED
    BY <2>4, PlaceIsLiteral
<1> QED
  BY <1>3 DEF Possible

-----------------------------------------------------------------------------
\* A word of which nothing is decoded and nothing stripped comes out as it went in.
LEMMA DecodedIs ==
  ASSUME NEW word \in Seq(AllRunes)
  PROVE  /\ Decode(word) \in Seq(AllRunes)
         /\ (\A i \in DOMAIN word : word[i] \notin DOMAIN EscapeOf) => Decode(word) = word
<1>1. PICK n \in Nat : n = Len(word) /\ DOMAIN word = 1 .. n /\ \A i \in 1 .. n : word[i] \in AllRunes
  BY ListIs
<1> DEFINE f == Decode(word)
<1>2. DOMAIN f = 1 .. n /\ f = [i \in 1 .. n |-> f[i]]
  BY <1>1 DEF Decode
<1>3. \A i \in 1 .. n : f[i] \in AllRunes
  BY <1>1, PrefilterAssumption DEF Decode
<1>4. (\A i \in DOMAIN word : word[i] \notin DOMAIN EscapeOf) => \A i \in 1 .. n : f[i] = word[i]
  BY <1>1 DEF Decode
<1> HIDE DEF f
<1>5. f \in Seq(AllRunes) /\ Len(f) = n
  BY <1>2, <1>3, ListMade
<1>6. (\A i \in DOMAIN word : word[i] \notin DOMAIN EscapeOf) => f = word
  BY <1>1, <1>4, <1>5, SameWords
<1> QED
  BY <1>5, <1>6 DEF f
Kept(kept, r) == IF r \in Invisible THEN kept ELSE Append(kept, r)

\* The visible runes of a word.
StripOf(f, s) ==
  f = [q \in SUBSET DOMAIN s |-> IF q = {} THEN <<>> ELSE Kept(f[q \ {Max(q)}], s[Max(q)])]

LEMMA StripGoes ==
  ASSUME NEW s \in Seq(AllRunes)
  PROVE  \E g \in [0 .. Len(s) -> Seq(AllRunes)] :
           /\ g[0] = <<>> /\ g[Len(s)] = StripInvisible(s)
           /\ \A m \in 1 .. Len(s) : g[m] = Kept(g[m - 1], s[m])
<1> DEFINE n == Len(s)
           V == Seq(AllRunes)
           base == <<>>
           h == [q \in (1 .. n) \X V |-> Kept(q[2], s[q[1]])]
           f == CHOOSE x : StripOf(x, s)
<1>1. n \in Nat /\ DOMAIN s = 1 .. n /\ \A i \in 1 .. n : s[i] \in AllRunes
  OBVIOUS
<1>2. base \in V
  OBVIOUS
<1>3. \A i \in 1 .. n, v \in V : Kept(v, s[i]) \in V
  BY <1>1, AppendProperties DEF Kept
<1>4. \A i \in 1 .. n, v \in V : h[<<i, v>>] = Kept(v, s[i])
  OBVIOUS
<1>5. StripInvisible(s) = f[DOMAIN s]
  BY DEF StripInvisible, Kept, StripOf, FoldLeft, MapThenFoldSet
<1>6. \A x : StripOf(x, s)
        <=> x = [q \in SUBSET DOMAIN s |-> IF q = {} THEN base ELSE Kept(x[q \ {Max(q)}], s[Max(q)])]
  BY DEF StripOf
<1> HIDE DEF h, n, V, base
<1>7. \A i \in 1 .. n, v \in V : h[<<i, v>>] \in V
  BY <1>3, <1>4
<1>8. \E x : StripOf(x, s)
  <2>1. PICK x : FoldsInOrder(x, base, h, n) /\ \A q \in SUBSET (1 .. n) : x[q] \in V
    BY <1>1, <1>2, <1>7, OrderedFold
  <2>2. ASSUME NEW q \in SUBSET (1 .. n), q # {}
        PROVE  h[<<Max(q), x[q \ {Max(q)}]>>] = Kept(x[q \ {Max(q)}], s[Max(q)])
    BY <1>1, <1>4, <2>1, <2>2, LastIsIn
  <2>3. x = [q \in SUBSET (1 .. n) |-> IF q = {} THEN base ELSE h[<<Max(q), x[q \ {Max(q)}]>>]]
    BY <2>1 DEF FoldsInOrder
  <2>4. x = [q \in SUBSET DOMAIN s |-> IF q = {} THEN base ELSE Kept(x[q \ {Max(q)}], s[Max(q)])]
    BY <1>1, <2>2, <2>3
  <2> QED
    BY <1>6, <2>4
<1>9. f = [q \in SUBSET DOMAIN s |-> IF q = {} THEN base ELSE Kept(f[q \ {Max(q)}], s[Max(q)])]
  BY <1>6, <1>8
<1> HIDE DEF f
<1>10. \A q \in SUBSET (1 .. n) : f[q] = IF q = {} THEN base ELSE Kept(f[q \ {Max(q)}], s[Max(q)])
  BY <1>1, <1>9
<1>11. FoldsBy(f, base, h, n, V)
  <2>1. f[{}] = base
    BY <1>10
  <2>2. ASSUME NEW q \in SUBSET (1 .. n), q # {}, f[q \ {Max(q)}] \in V
        PROVE  f[q] = h[<<Max(q), f[q \ {Max(q)}]>>]
    <3>1. Max(q) \in 1 .. n
      BY <1>1, <2>2, LastIsIn
    <3> QED
      BY <1>4, <1>10, <2>2, <3>1
  <2> QED
    BY <2>1, <2>2 DEF FoldsBy
<1>12. StaysIn(h, n, V)
  BY <1>7 DEF StaysIn
<1>13. PICK g : RunsBy(g, f, base, h, n, V)
  BY <1>1, <1>2, <1>11, <1>12, FoldRuns
<1>14. g \in [0 .. n -> V] /\ g[0] = base /\ g[n] = StripInvisible(s)
  BY <1>1, <1>5, <1>13 DEF RunsBy
<1>15. \A m \in 1 .. n : g[m] = Kept(g[m - 1], s[m])
  <2> TAKE m \in 1 .. n
  <2>1. m - 1 \in 0 .. n
    BY <1>1
  <2>2. g[m - 1] \in V /\ g[m] = h[<<m, g[m - 1]>>]
    BY <1>13, <2>1 DEF RunsBy
  <2> QED
    BY <1>4, <2>2
<1> QED
  BY <1>14, <1>15 DEF n, V, base

LEMMA StrippedIs ==
  ASSUME NEW word \in Seq(AllRunes)
  PROVE  /\ StripInvisible(word) \in Seq(AllRunes)
         /\ (\A i \in DOMAIN word : word[i] \notin Invisible) => StripInvisible(word) = word
<1> DEFINE n == Len(word)
<1>1. n \in Nat /\ DOMAIN word = 1 .. n /\ n \in 0 .. n /\ \A i \in 1 .. n : word[i] \in AllRunes
  <2>1. PICK k \in Nat : k = Len(word) /\ DOMAIN word = 1 .. k /\ \A i \in 1 .. k : word[i] \in AllRunes
    BY ListIs
  <2> QED
    BY <2>1
<1>2. PICK g \in [0 .. n -> Seq(AllRunes)] :
        /\ g[0] = <<>> /\ g[n] = StripInvisible(word)
        /\ \A m \in 1 .. n : g[m] = Kept(g[m - 1], word[m])
  BY StripGoes
<1>3. Len(word) = n
  OBVIOUS
<1> HIDE DEF n
<1>4. ASSUME \A i \in DOMAIN word : word[i] \notin Invisible PROVE StripInvisible(word) = word
  <2> DEFINE X == {m \in 0 .. n : Len(g[m]) = m /\ \A i \in 1 .. m : g[m][i] = word[i]}
  <2>1. X \in SUBSET (0 .. n) /\ 0 \in X
    BY <1>1, <1>2
  <2>2. ASSUME NEW m \in 1 .. n, m - 1 \in X PROVE m \in X
    <3>1. m \in 0 .. n /\ m - 1 \in 0 .. n /\ word[m] \in AllRunes /\ word[m] \notin Invisible
      <4>1. m \in 0 .. n /\ m - 1 \in 0 .. n
        BY <1>1
      <4>2. m \in DOMAIN word
        BY <1>1
      <4> QED
        BY <1>1, <1>4, <4>1, <4>2
    <3>2. g[m] = Append(g[m - 1], word[m]) /\ g[m - 1] \in Seq(AllRunes) /\ Len(g[m - 1]) = m - 1
      BY <1>2, <2>2, <3>1 DEF Kept
    <3>3. \A i \in 1 .. m - 1 : g[m - 1][i] = word[i]
      BY <2>2
    <3> DEFINE a == g[m - 1]
               b == g[m]
    <3>4. /\ Len(b) = Len(a) + 1 /\ (\A i \in 1 .. Len(a) : b[i] = a[i]) /\ b[Len(a) + 1] = word[m]
      <4>1. a \in Seq(AllRunes) /\ b = Append(a, word[m])
        BY <3>2
      <4> HIDE DEF a, b
      <4> QED
        BY <3>1, <4>1, AppendProperties
    <3>5. Len(a) = m - 1 /\ \A i \in 1 .. m - 1 : a[i] = word[i]
      BY <3>2, <3>3
    <3> HIDE DEF a, b
    <3>6. Len(b) = m /\ \A i \in 1 .. m : b[i] = word[i]
      <4>1. Len(a) + 1 = m
        BY <3>1, <3>5
      <4>2. ASSUME NEW i \in 1 .. m PROVE b[i] = word[i]
        <5>1. CASE i = m
          BY <3>4, <4>1, <5>1
        <5>2. CASE i # m
          <6>1. i \in 1 .. m - 1
            BY <3>1, <5>2
          <6> QED
            BY <3>4, <3>5, <6>1
        <5> QED
          BY <5>1, <5>2
      <4> QED
        BY <3>4, <4>1, <4>2
    <3> QED
      BY <3>1, <3>6 DEF b
  <2>3. n \in X
    <3> HIDE DEF X
    <3> QED
      BY <1>1, <2>1, <2>2, Climbs
  <2>4. g[n] \in Seq(AllRunes) /\ Len(g[n]) = Len(word) /\ \A i \in 1 .. Len(g[n]) : g[n][i] = word[i]
    BY <1>1, <1>2, <1>3, <2>3
  <2> QED
    BY <1>2, <2>4, SameWords
<1> QED
  BY <1>1, <1>2, <1>4

-----------------------------------------------------------------------------
\* A redactor has the literals of its pattern, and what it lets through is right.
FilterInv ==
  /\ pattern # <<>> => pattern \in PatternTrees /\ triggers = ExtractTriggers(pattern)
  /\ document # <<>> => pattern # <<>>
  /\ FilterIsSound

LEMMA FilterInitially == PFInit => FilterInv
  BY DEF PFInit, FilterInv, FilterIsSound

\* A document that is passed by holds nothing to redact.
LEMMA SkippedIsClean ==
  ASSUME NEW doc \in [{"key", "value"} -> Seq(AllRunes)], pattern \in Trees, KeyTree \in Trees,
         triggers = ExtractTriggers(pattern), CanSkipJSON(doc)
  PROVE  /\ ~ Found(pattern, StripInvisible(Decode(doc.key)))
         /\ ~ Found(pattern, StripInvisible(Decode(doc.value)))
         /\ ~ Found(KeyTree, Decode(doc.key))
<1>1. DOMAIN doc = {"key", "value"} /\ doc.key \in Seq(AllRunes) /\ doc.value \in Seq(AllRunes)
      /\ doc.key = doc["key"] /\ doc.value = doc["value"]
  OBVIOUS
<1>2. ASSUME NEW f \in {"key", "value"}
      PROVE  /\ Decode(doc[f]) = doc[f] /\ StripInvisible(doc[f]) = doc[f] /\ doc[f] \in Seq(AllRunes)
             /\ ~ Possible(triggers, FoldNorm(doc[f])) /\ ~ Possible(ExtractTriggers(KeyTree), FoldNorm(doc[f]))
  <2>1. doc[f] \in Seq(AllRunes)
    BY <1>1
  <2>2. \A i \in DOMAIN (doc[f]) : doc[f][i] \notin DOMAIN EscapeOf /\ doc[f][i] \notin Invisible
    BY <1>1 DEF CanSkipJSON
  <2>3. ~ Possible(triggers, FoldNorm(doc[f])) /\ ~ Possible(ExtractTriggers(KeyTree), FoldNorm(doc[f]))
    BY <1>1 DEF CanSkipJSON
  <2> QED
    BY <2>1, <2>2, <2>3, DecodedIs, StrippedIs
<1>3. ASSUME NEW f \in {"key", "value"}
      PROVE  ~ Found(pattern, StripInvisible(Decode(doc[f]))) /\ ~ Found(KeyTree, Decode(doc[f]))
  BY <1>2, FoundIsPossible
<1> QED
  BY <1>1, <1>3

LEMMA FilterStep == FilterInv /\ [PFNext]_filterVars => FilterInv'
<1> SUFFICES ASSUME FilterInv, [PFNext]_filterVars PROVE FilterInv'
  OBVIOUS
<1>0. /\ pattern # <<>> => pattern \in PatternTrees /\ triggers = ExtractTriggers(pattern)
      /\ document # <<>> => pattern # <<>>
      /\ FilterIsSound
  BY DEF FilterInv
<1>1. ASSUME NEW t \in PatternTrees, BuildPrefilter(t) PROVE FilterInv'
  <2>1. pattern = <<>> /\ pattern' = t /\ triggers' = ExtractTriggers(t) /\ document' = document /\ document = <<>>
    BY <1>0, <1>1 DEF BuildPrefilter
  <2> QED
    BY <2>1 DEF FilterInv, FilterIsSound
<1>2. ASSUME NEW k \in KeyWords, NEW w \in Words, RedactJSON([key |-> k, value |-> w]) PROVE FilterInv'
  <2> DEFINE doc == [key |-> k, value |-> w]
  <2>1. doc \in [{"key", "value"} -> Seq(AllRunes)] /\ doc.key = k /\ doc.value = w
    <3>1. k \in Seq(AllRunes) /\ w \in Seq(AllRunes)
      BY PrefilterAssumption
    <3>2. doc = [f \in {"key", "value"} |-> IF f = "key" THEN k ELSE w]
      OBVIOUS
    <3> QED
      BY <3>1, <3>2
  <2>2. /\ pattern # <<>> /\ document' = doc /\ pattern' = pattern /\ triggers' = triggers
        /\ replaced' = IF CanSkipJSON(doc) THEN {} ELSE RedactInterface(doc)
    BY <1>2 DEF RedactJSON
  <2>3. pattern \in Trees /\ KeyTree \in Trees /\ triggers = ExtractTriggers(pattern) /\ pattern \in PatternTrees
    BY <1>0, <2>2, TreesAssumption
  <2> HIDE DEF doc
  <2>4. /\ Found(pattern, StripInvisible(Decode(doc.key))) => "key" \in replaced'
        /\ Found(pattern, StripInvisible(Decode(doc.value))) => "value" \in replaced'
        /\ Decode(doc.value) # <<>> /\ Found(KeyTree, Decode(doc.key)) => "value" \in replaced'
    <3>1. CASE CanSkipJSON(doc)
      BY <2>1, <2>2, <2>3, <3>1, SkippedIsClean
    <3>2. CASE ~ CanSkipJSON(doc)
      <4>1. replaced' = RedactInterface(doc)
        BY <2>2, <3>2
      <4>2. ASSUME NEW word \in Seq(AllRunes), Found(pattern, StripInvisible(Decode(word)))
            PROVE  RedactString(Decode(word))
        <5>1. StripInvisible(Decode(word)) \in Seq(AllRunes)
          BY DecodedIs, StrippedIs
        <5> QED
          BY <2>3, <4>2, <5>1, FoundIsPossible DEF RedactString
      <4>3. k \in Seq(AllRunes) /\ w \in Seq(AllRunes)
        BY PrefilterAssumption
      <4> QED
        BY <2>1, <4>1, <4>2, <4>3 DEF RedactInterface
    <3> QED
      BY <3>1, <3>2
  <2>5. FilterIsSound'
    BY <2>2, <2>4 DEF FilterIsSound
  <2> QED
    BY <2>2, <2>3, <2>5 DEF FilterInv
<1>3. CASE UNCHANGED filterVars
  BY <1>0, <1>3 DEF FilterInv, FilterIsSound, filterVars
<1> QED
  BY <1>1, <1>2, <1>3 DEF PFNext

-----------------------------------------------------------------------------
\* Side by side: a step of one part is a step of that part, and leaves the others alone.
LEMMA EachPartSteps ==
  ASSUME [MCNext]_mcVars
  PROVE  /\ [SVNext]_serveVars /\ [RPNext]_pipeVars /\ [SONext]_loopVars /\ [SSNext]_socketVars
         /\ [RSNext]_streamVars /\ [PFNext]_filterVars /\ [INNext]_injectionVars
         /\ [TPNext]_transportVars /\ [BKNext]_breakVars /\ [TANext]_answerVars
<1>1. CASE UNCHANGED mcVars
  BY <1>1 DEF mcVars, doorVars, watchVars
<1>2. CASE MCNext
  BY <1>2 DEF MCNext, doorVars, watchVars
<1> QED
  BY <1>1, <1>2

\* The inductive invariant of the parts: each one's own, which no step of another touches.
GatewayInv == /\ ServeInv /\ PipeInv /\ LoopInv /\ SocketInv /\ StreamInv /\ FilterInv
              /\ InjectionInv /\ TransportInv /\ BreakInv /\ AnswersInv

\* Every part begins right.
LEMMA GatewayInitially == MCInit => GatewayInv
  BY ServeInitially, PipeInitially, LoopInitially, SocketInitially, StreamInitially,
     FilterInitially, InjectionInitially, TransportInitially, BreakInitially, AnswersInitially
     DEF MCInit, GatewayInv

\* Every step of any part keeps them all right.
LEMMA GatewayStep == GatewayInv /\ [MCNext]_mcVars => GatewayInv'
  BY EachPartSteps, ServeStep, PipeStep, LoopStep, SocketStep, StreamStep, FilterStep,
     InjectionStep, TransportStep, BreakStep, AnswersStep
     DEF GatewayInv

\* Traffic comes in counted and bounded and goes out redacted and answered, for any number of
\* clients, requests, servers, connections, sessions, scanners and callers, any patterns of
\* secrets and of injections, any texts and any results: slots, batches, lines and requests of a
\* socket are counted exactly; no secret crosses a redactor, whatever its chunks are and whatever
\* its prefilter spares; nothing the classifier's rules hold back passes; one caller listens; a
\* body is touched only for the provider it was detected for, and sparingly; and a result is
\* minified without loss and capped as the cap says.
THEOREM TrafficKeepsSound == MCSpec => []TrafficIsSound
<1>1. GatewayInv => TrafficIsSound
  <2> SUFFICES ASSUME GatewayInv PROVE TrafficIsSound
    OBVIOUS
  <2>1. NothingUnredactedLeaves /\ BatchesAreBounded /\ SlotsAreExact /\ LoopIsSound /\ SocketIsSound
    BY PipeFollows, ServeFollows, SocketFollows DEF GatewayInv, LoopInv
  <2>2. StreamIsSound /\ FilterIsSound /\ InjectionIsSound
    BY DEF GatewayInv, StreamInv, FilterInv, InjectionInv
  <2>3. RunningIsAlive /\ OneListens /\ AnswersAreSound
    BY ListsAreRight, TransportFollows DEF GatewayInv, AnswersInv
  <2>4. BreakpointsAreSound
    BY BreakFollows, InjectorIsSparing DEF GatewayInv, BreakpointsAreSound
  <2> QED
    BY <2>1, <2>2, <2>3, <2>4 DEF TrafficIsSound
<1> QED
  BY <1>1, GatewayInitially, GatewayStep, PTL DEF MCSpec

\* For any number of clients no connection of `serve' is closed on one that waits for an answer,
\* and for any number of connections no request of the socket server starts once its Shutdown
\* has returned.
THEOREM NothingIsEverCutShort == MCSpec => NothingIsCutShort
<1>1. GatewayInv /\ [MCNext]_mcVars => [Answered]_serveVars /\ [NoneStarts]_socketVars
  BY EachPartSteps, AnswersComeFirst, NoneStartsLater DEF GatewayInv
<1> QED
  BY <1>1, GatewayInitially, GatewayStep, PTL
     DEF MCSpec, NothingIsCutShort, AnsweredBeforeClose, ShutdownIsFinal, Answered, NoneStarts
=============================================================================
