----------------------------- MODULE FoldLemmas ------------------------------
(***************************************************************************)
(* What the folds of the community modules compute, for every finite set.  *)
(* The library's induction theorems take the induction hypothesis as an    *)
(* operator, which the provers cannot instantiate; a set of counterexamples *)
(* and a smallest one among them do the same (Minimal).                    *)
(***************************************************************************)
EXTENDS Integers, FiniteSetsExt, FiniteSetTheorems, TLAPS

(* Among finite sets some one has no other below it.                       *)
LEMMA Minimal ==
    ASSUME NEW T, T # {}, \A U \in T : IsFiniteSet(U)
    PROVE  \E U \in T : \A V \in T : V \subseteq U => V = U
<1> DEFINE S == UNION T
<1>1. IsWellFoundedOn(StrictSubsetOrdering(S), FiniteSubsetsOf(S))
  BY FS_StrictSubsetOrderingWellFounded
<1>2. T \subseteq FiniteSubsetsOf(S)
  BY DEF FiniteSubsetsOf
<1>3. \E U \in T : \A V \in T : ~(<<V, U>> \in StrictSubsetOrdering(S))
  <2> HIDE DEF S
  <2>. QED BY <1>1, <1>2, WFMin, Zenon
<1>. QED
  BY <1>3 DEF StrictSubsetOrdering

LEMMA LeastExists ==
    ASSUME NEW N \in SUBSET Nat, N # {}
    PROVE  \E n \in N : \A m \in N : n <= m
<1> DEFINE F == {0..n : n \in N}
<1>1. F # {}
  OBVIOUS
<1>2. \A U \in F : IsFiniteSet(U)
  BY FS_Interval
<1>3. \E U \in F : \A V \in F : V \subseteq U => V = U
  <2> HIDE DEF F
  <2>. QED BY <1>1, <1>2, Minimal
<1>4. PICK n \in N : \A V \in F : V \subseteq 0..n => V = 0..n
  BY <1>3
<1>5. ASSUME NEW m \in N, m < n PROVE FALSE
  <2>1. 0..m \in F /\ 0..m \subseteq 0..n
    BY <1>5
  <2>2. 0..m = 0..n
    BY <1>4, <2>1
  <2>. QED
    BY <1>5, <2>2
<1>. QED
  BY <1>5

(* A bounded set of numbers has a maximum, and Max is it.                  *)
LEMMA MaxExists ==
    ASSUME NEW S \in SUBSET Nat, S # {}, NEW n \in Nat, \A x \in S : x <= n
    PROVE  Max(S) \in S /\ \A x \in S : x <= Max(S)
<1> DEFINE Bounds == {v \in Nat : \A x \in S : x <= v}
<1>1. PICK u \in Bounds : \A v \in Bounds : u <= v
  <2>1. Bounds \in SUBSET Nat /\ Bounds # {}
    OBVIOUS
  <2> HIDE DEF Bounds
  <2>. QED BY <2>1, LeastExists
<1>2. u \in S
  <2>1. SUFFICES ASSUME u \notin S PROVE FALSE
    OBVIOUS
  <2>2. u \in Nat /\ \A x \in S : x \in Nat /\ x <= u /\ x # u
    BY <2>1
  <2>3. PICK y \in S : TRUE
    OBVIOUS
  <2>4. u - 1 \in Bounds
    BY <2>2, <2>3
  <2>. QED
    BY <1>1, <2>2, <2>4
<1>. QED
  BY <1>1, <1>2 DEF Max

(***************************************************************************)
(* Sums.                                                                   *)
(***************************************************************************)
Sum(w, S) == MapThenSumSet(LAMBDA x : w[x], S)

(* What the recursive function behind the sum does to one set, ...         *)
Pick(s) == CHOOSE x \in s : TRUE
Step(w, s, g) == IF s = {} THEN 0 ELSE w[Pick(s)] + g[s \ {Pick(s)}]
IsFold(w, S, g) == g = [s \in SUBSET S |-> Step(w, s, g)]

(* ... which determines it, ...                                            *)
LEMMA FoldsAgree ==
    ASSUME NEW A, NEW B, NEW w, NEW g, NEW h, IsFold(w, A, g), IsFold(w, B, h),
           NEW S \in SUBSET (A \cap B), IsFiniteSet(S)
    PROVE  g[S] = h[S]
<1> DEFINE Bad == {s \in SUBSET S : g[s] # h[s]}
<1>1. SUFFICES ASSUME Bad # {} PROVE FALSE
  OBVIOUS
<1>2. Bad \in SUBSET (SUBSET S) /\ \A s \in Bad : IsFiniteSet(s)
  BY FS_Subset
<1>3. PICK s \in Bad : \A t \in Bad : t \subseteq s => t = s
  <2> HIDE DEF Bad
  <2>. QED BY <1>1, <1>2, Minimal
<1>4. g[s] = Step(w, s, g) /\ h[s] = Step(w, s, h)
  BY DEF IsFold
<1>5. CASE s = {}
  BY <1>4, <1>5 DEF Step
<1>6. CASE s # {}
  <2>1. Pick(s) \in s
    BY <1>6 DEF Pick
  <2>2. s \ {Pick(s)} \in SUBSET S /\ s \ {Pick(s)} # s
    BY <2>1
  <2>3. g[s \ {Pick(s)}] = h[s \ {Pick(s)}]
    BY <1>3, <2>2
  <2>. QED
    BY <1>4, <1>6, <2>3 DEF Step
<1>. QED
  BY <1>5, <1>6

(* ... and exists.                                                         *)
LEMMA FoldExists ==
    ASSUME NEW S, IsFiniteSet(S), NEW w
    PROVE  \E g : IsFold(w, S, g)
<1> DEFINE Bad == {U \in SUBSET S : ~ \E g : IsFold(w, U, g)}
<1>1. SUFFICES ASSUME Bad # {} PROVE FALSE
  OBVIOUS
<1>2. Bad \in SUBSET (SUBSET S) /\ \A U \in Bad : IsFiniteSet(U)
  BY FS_Subset
<1>3. PICK U \in Bad : \A V \in Bad : V \subseteq U => V = U
  <2> HIDE DEF Bad
  <2>. QED BY <1>1, <1>2, Minimal
<1> DEFINE G(t) == CHOOSE g : IsFold(w, t, g)
           h == [s \in SUBSET U |-> IF s = {} THEN 0
                                    ELSE w[Pick(s)] + G(s \ {Pick(s)})[s \ {Pick(s)}]]
<1>4. ASSUME NEW t \in SUBSET U, t # U PROVE IsFold(w, t, G(t))
  <2>1. t \notin Bad /\ t \in SUBSET S
    BY <1>3, <1>4
  <2>2. \E g : IsFold(w, t, g)
    BY <2>1
  <2> HIDE DEF Bad
  <2>. QED
    BY <2>2
<1>5. ASSUME NEW s \in SUBSET U, s # {} PROVE h[s \ {Pick(s)}] = G(s \ {Pick(s)})[s \ {Pick(s)}]
  <2> DEFINE t == s \ {Pick(s)}
  <2>1. Pick(s) \in s
    BY <1>5 DEF Pick
  <2>2. t \in SUBSET U /\ t # U
    BY <2>1
  <2>3. IsFold(w, t, G(t)) /\ G(t)[t] = Step(w, t, G(t))
    <3>1. IsFold(w, t, G(t))
      BY <1>4, <2>2
    <3> HIDE DEF G, t
    <3>. QED
      BY <3>1 DEF IsFold
  <2>4. ASSUME t = {} PROVE h[t] = G(t)[t]
    <3>1. h[t] = 0
      BY <2>2, <2>4
    <3> HIDE DEF h, G, t
    <3>. QED
      BY <2>3, <2>4, <3>1 DEF Step
  <2>5. ASSUME t # {} PROVE h[t] = G(t)[t]
    <3> DEFINE r == t \ {Pick(t)}
    <3>1. h[t] = w[Pick(t)] + G(r)[r]
      BY <2>2, <2>5
    <3>2. Pick(t) \in t
      BY <2>5 DEF Pick
    <3>3. r \in SUBSET U /\ r # U /\ r \in SUBSET t /\ IsFiniteSet(r)
      <4>1. r \in SUBSET U /\ r # U /\ r \in SUBSET t
        BY <2>2, <3>2
      <4>. QED
        BY <1>2, <4>1, FS_Subset
    <3>4. IsFold(w, r, G(r))
      BY <1>4, <3>3
    <3>5. G(r)[r] = G(t)[r]
      <4>1. r \in SUBSET (r \cap t)
        BY <3>3
      <4> HIDE DEF G, r, t, h
      <4>. QED
        BY <2>3, <3>3, <3>4, <4>1, FoldsAgree
    <3>6. G(t)[t] = w[Pick(t)] + G(t)[r]
      <4> HIDE DEF G
      <4>. QED
        BY <2>3, <2>5 DEF Step
    <3> HIDE DEF G, r, t, h
    <3>. QED
      BY <3>1, <3>5, <3>6
  <2>. QED
    BY <2>4, <2>5
<1>6. h = [s \in SUBSET U |-> Step(w, s, h)]
  <2>1. ASSUME NEW s \in SUBSET U PROVE h[s] = Step(w, s, h)
    <3>1. CASE s = {}
      BY <3>1 DEF Step
    <3>2. CASE s # {}
      <4>1. h[s] = w[Pick(s)] + G(s \ {Pick(s)})[s \ {Pick(s)}]
        BY <3>2
      <4>2. h[s \ {Pick(s)}] = G(s \ {Pick(s)})[s \ {Pick(s)}]
        BY <1>5, <3>2
      <4> HIDE DEF h, G
      <4>. QED
        BY <3>2, <4>1, <4>2 DEF Step
    <3>. QED
      BY <3>1, <3>2
  <2>2. h = [s \in SUBSET U |-> h[s]]
    OBVIOUS
  <2> HIDE DEF h
  <2>. QED
    BY <2>1, <2>2
<1>7. IsFold(w, U, h)
  <2> HIDE DEF h
  <2>. QED BY <1>6 DEF IsFold
<1>. QED
  BY <1>7

LEMMA SumUnfold ==
    ASSUME NEW S, IsFiniteSet(S), NEW w
    PROVE  Sum(w, S) = IF S = {} THEN 0 ELSE w[Pick(S)] + Sum(w, S \ {Pick(S)})
<1> DEFINE G(t) == CHOOSE g : IsFold(w, t, g)
<1>1. ASSUME NEW t PROVE Sum(w, t) = G(t)[t]
  BY DEF Sum, MapThenSumSet, MapThenFoldSet, IsFold, Step, Pick
<1>2. ASSUME NEW t \in SUBSET S PROVE IsFold(w, t, G(t)) /\ IsFiniteSet(t)
  <2>1. IsFiniteSet(t)
    BY FS_Subset
  <2>2. \E g : IsFold(w, t, g)
    BY <2>1, FoldExists
  <2>. QED
    BY <2>1, <2>2
<1> HIDE DEF G
<1>3. IsFold(w, S, G(S)) /\ G(S)[S] = Step(w, S, G(S))
  BY <1>2 DEF IsFold
<1>4. CASE S = {}
  BY <1>1, <1>3, <1>4 DEF Step
<1>5. CASE S # {}
  <2> DEFINE r == S \ {Pick(S)}
  <2>1. r \in SUBSET (r \cap S) /\ IsFold(w, r, G(r)) /\ IsFiniteSet(r)
    BY <1>2
  <2>2. G(r)[r] = G(S)[r]
    <3> HIDE DEF r
    <3>. QED BY <1>3, <2>1, FoldsAgree
  <2>3. Sum(w, S) = w[Pick(S)] + G(S)[r]
    BY <1>1, <1>3, <1>5 DEF Step
  <2>4. Sum(w, r) = G(r)[r]
    BY <1>1
  <2>. QED
    BY <1>5, <2>2, <2>3, <2>4
<1>. QED
  BY <1>4, <1>5

LEMMA SumEmpty == \A w : Sum(w, {}) = 0
BY SumUnfold, FS_EmptySet

(* The order in which the elements are picked does not matter.             *)
LEMMA SumRemove ==
    ASSUME NEW S, IsFiniteSet(S), NEW w, \A x \in S : w[x] \in Int
    PROVE  /\ Sum(w, S) \in Int
           /\ \A x \in S : Sum(w, S) = w[x] + Sum(w, S \ {x})
<1> DEFINE Good(s) == /\ Sum(w, s) \in Int
                      /\ \A x \in s : Sum(w, s) = w[x] + Sum(w, s \ {x})
           Bad == {s \in SUBSET S : ~ Good(s)}
<1>1. SUFFICES ASSUME Bad # {} PROVE FALSE
  <2>1. S \notin Bad => Good(S)
    OBVIOUS
  <2>. QED
    BY <2>1
<1>2. \A s \in SUBSET S : IsFiniteSet(s)
  BY FS_Subset
<1>3. PICK s \in Bad : \A t \in Bad : t \subseteq s => t = s
  <2>1. \A t \in Bad : IsFiniteSet(t)
    BY <1>2
  <2> HIDE DEF Bad
  <2>. QED BY <1>1, <2>1, Minimal
<1>4. ASSUME NEW x \in s PROVE Good(s \ {x})
  <2>1. s \ {x} \in SUBSET S /\ s \ {x} # s /\ s \ {x} \notin Bad
    BY <1>3
  <2> HIDE DEF Good
  <2>. QED
    BY <2>1
<1> DEFINE y == Pick(s)
<1>5. s # {} => y \in s /\ Sum(w, s) = w[y] + Sum(w, s \ {y})
  BY <1>2, SumUnfold DEF Pick
<1>6. Sum(w, s) \in Int
  <2>1. CASE s = {}
    BY <2>1, SumEmpty
  <2>2. CASE s # {}
    <3> HIDE DEF y
    <3>1. y \in s /\ Sum(w, s) = w[y] + Sum(w, s \ {y})
      BY <1>5, <2>2
    <3>2. w[y] \in Int /\ Sum(w, s \ {y}) \in Int
      BY <1>4, <3>1
    <3>. QED
      BY <3>1, <3>2
  <2>. QED
    BY <2>1, <2>2
<1>7. ASSUME NEW x \in s PROVE Sum(w, s) = w[x] + Sum(w, s \ {x})
  <2> HIDE DEF y
  <2>1. y \in s /\ Sum(w, s) = w[y] + Sum(w, s \ {y})
    BY <1>5
  <2>2. CASE x = y
    BY <2>1, <2>2
  <2>3. CASE x # y
    <3>1. Sum(w, s \ {y}) = w[x] + Sum(w, (s \ {y}) \ {x})
      BY <1>4, <2>1, <2>3
    <3>2. Sum(w, s \ {x}) = w[y] + Sum(w, (s \ {x}) \ {y})
      BY <1>4, <2>1, <2>3
    <3>3. (s \ {y}) \ {x} = (s \ {x}) \ {y} /\ (s \ {y}) \ {x} \in SUBSET S
      OBVIOUS
    <3> DEFINE rest == Sum(w, (s \ {y}) \ {x})
    <3>4. w[x] \in Int /\ w[y] \in Int
      BY <2>1
    <3>5. rest \in Int
      <4>1. (s \ {y}) \ {x} \in SUBSET S /\ (s \ {y}) \ {x} # s
        OBVIOUS
      <4>2. (s \ {y}) \ {x} \notin Bad
        BY <1>3, <4>1
      <4>3. Good((s \ {y}) \ {x})
        BY <4>1, <4>2
      <4>. QED
        BY <4>3
    <3>6. Sum(w, s) = w[y] + (w[x] + rest) /\ Sum(w, s \ {x}) = w[y] + rest
      BY <2>1, <3>1, <3>2, <3>3
    <3> HIDE DEF rest
    <3>. QED
      BY <3>4, <3>5, <3>6
  <2>. QED
    BY <2>2, <2>3
<1>8. Good(s)
  BY <1>6, <1>7
<1>. QED
  BY <1>8

LEMMA SumType ==
    ASSUME NEW S, IsFiniteSet(S), NEW w, \A x \in S : w[x] \in Int
    PROVE  Sum(w, S) \in Int
BY SumRemove

LEMMA SumAdd ==
    ASSUME NEW S, IsFiniteSet(S), NEW w, \A x \in S : w[x] \in Int,
           NEW a, a \notin S, w[a] \in Int
    PROVE  Sum(w, S \cup {a}) = Sum(w, S) + w[a]
<1> DEFINE T == S \cup {a}
<1>1. IsFiniteSet(T) /\ (\A x \in T : w[x] \in Int) /\ a \in T /\ T \ {a} = S
  BY FS_AddElement
<1>2. Sum(w, T) = w[a] + Sum(w, T \ {a}) /\ Sum(w, S) \in Int
  <2>1. Sum(w, S) \in Int
    BY SumType
  <2> HIDE DEF T
  <2>. QED
    BY <1>1, <2>1, SumRemove
<1>3. Sum(w, T) = w[a] + Sum(w, S)
  BY <1>1, <1>2
<1>. QED
  BY <1>2, <1>3

(* Functions that agree on a set have the same sum over it.                *)
LEMMA SumSame ==
    ASSUME NEW S, IsFiniteSet(S), NEW v, NEW w,
           \A x \in S : w[x] \in Int /\ v[x] = w[x]
    PROVE  Sum(v, S) = Sum(w, S)
<1> DEFINE Bad == {s \in SUBSET S : Sum(v, s) # Sum(w, s)}
<1>1. SUFFICES ASSUME Bad # {} PROVE FALSE
  OBVIOUS
<1>2. \A s \in Bad : IsFiniteSet(s)
  BY FS_Subset
<1>3. PICK s \in Bad : \A t \in Bad : t \subseteq s => t = s
  <2> HIDE DEF Bad
  <2>. QED BY <1>1, <1>2, Minimal
<1>4. s # {}
  BY SumEmpty
<1>5. PICK x \in s : TRUE
  BY <1>4
<1>6. s \ {x} \notin Bad /\ s \ {x} \in SUBSET S
  BY <1>3
<1>7. Sum(v, s \ {x}) = Sum(w, s \ {x})
  BY <1>6
<1>8. Sum(v, s) = v[x] + Sum(v, s \ {x})
  BY <1>2, SumRemove
<1>9. Sum(w, s) = w[x] + Sum(w, s \ {x})
  BY <1>2, SumRemove
<1>. QED
  BY <1>7, <1>8, <1>9

(* Over a set split in two, the sums add up.                               *)
LEMMA SumSplit ==
    ASSUME NEW A, IsFiniteSet(A), NEW B, IsFiniteSet(B), A \cap B = {},
           NEW w, \A x \in A \cup B : w[x] \in Int
    PROVE  Sum(w, A \cup B) = Sum(w, A) + Sum(w, B)
<1> DEFINE Bad == {s \in SUBSET B : Sum(w, A \cup s) # Sum(w, A) + Sum(w, s)}
<1>1. SUFFICES ASSUME Bad # {} PROVE FALSE
  <2>1. B \notin Bad => Sum(w, A \cup B) = Sum(w, A) + Sum(w, B)
    OBVIOUS
  <2>. QED
    BY <2>1
<1>2. \A s \in SUBSET B : IsFiniteSet(s)
  BY FS_Subset
<1>3. PICK s \in Bad : \A t \in Bad : t \subseteq s => t = s
  <2>1. \A t \in Bad : IsFiniteSet(t)
    BY <1>2
  <2> HIDE DEF Bad
  <2>. QED BY <1>1, <2>1, Minimal
<1>4. Sum(w, A) \in Int
  BY SumType
<1>5. s # {}
  <2>1. ASSUME s = {} PROVE FALSE
    <3>1. A \cup s = A /\ Sum(w, s) = 0
      BY <2>1, SumEmpty
    <3>2. Sum(w, A \cup s) = Sum(w, A)
      BY <3>1
    <3>. QED
      BY <1>4, <3>1, <3>2
  <2>. QED
    BY <2>1
<1>6. PICK x \in s : TRUE
  BY <1>5
<1> DEFINE r == s \ {x}
<1>7. r \notin Bad /\ r \in SUBSET B /\ IsFiniteSet(r) /\ x \notin A \cup r
      /\ IsFiniteSet(A \cup r) /\ w[x] \in Int /\ A \cup s = (A \cup r) \cup {x} /\ s = r \cup {x}
  <2>1. r \notin Bad /\ r \in SUBSET B
    BY <1>3
  <2>2. IsFiniteSet(r)
    BY <1>2, <2>1
  <2>. QED
    BY <2>1, <2>2, FS_Union
<1>8. Sum(w, A \cup r) = Sum(w, A) + Sum(w, r)
  BY <1>7
<1>9. Sum(w, r) \in Int /\ Sum(w, s) = Sum(w, r) + w[x]
      /\ Sum(w, A \cup s) = Sum(w, A \cup r) + w[x]
  <2>1. (\A z \in r : w[z] \in Int) /\ (\A z \in A \cup r : w[z] \in Int)
    OBVIOUS
  <2> HIDE DEF r
  <2>2. Sum(w, r) \in Int
    BY <1>7, <2>1, SumType
  <2>3. Sum(w, r \cup {x}) = Sum(w, r) + w[x]
    BY <1>7, <2>1, SumAdd
  <2>4. Sum(w, (A \cup r) \cup {x}) = Sum(w, A \cup r) + w[x]
    BY <1>7, <2>1, SumAdd
  <2>. QED
    BY <1>7, <2>2, <2>3, <2>4
<1>10. Sum(w, A \cup s) = Sum(w, A) + Sum(w, s)
  <2> HIDE DEF r
  <2>. QED
    BY <1>4, <1>7, <1>8, <1>9
<1>. QED
  BY <1>10

(* What is 0 everywhere sums to 0, ...                                     *)
LEMMA SumZero ==
    ASSUME NEW S, IsFiniteSet(S), NEW w, \A x \in S : w[x] = 0
    PROVE  Sum(w, S) = 0
<1> DEFINE Bad == {s \in SUBSET S : Sum(w, s) # 0}
<1>1. SUFFICES ASSUME Bad # {} PROVE FALSE
  <2>1. S \notin Bad => Sum(w, S) = 0
    OBVIOUS
  <2>. QED
    BY <2>1
<1>2. \A s \in Bad : IsFiniteSet(s)
  BY FS_Subset
<1>3. PICK s \in Bad : \A t \in Bad : t \subseteq s => t = s
  <2> HIDE DEF Bad
  <2>. QED BY <1>1, <1>2, Minimal
<1>4. PICK x \in s : TRUE
  BY SumEmpty
<1>5. s \ {x} \notin Bad /\ s \ {x} \in SUBSET S
  BY <1>3
<1>6. Sum(w, s) = w[x] + Sum(w, s \ {x})
  BY <1>2, SumRemove
<1>. QED
  BY <1>5, <1>6

(* ... what is nowhere above 0 sums to no more than 0, ...                 *)
LEMMA SumBelow ==
    ASSUME NEW S, IsFiniteSet(S), NEW w, \A x \in S : w[x] \in Int /\ w[x] <= 0
    PROVE  Sum(w, S) <= 0
<1> DEFINE Bad == {s \in SUBSET S : ~(Sum(w, s) <= 0)}
<1>1. SUFFICES ASSUME Bad # {} PROVE FALSE
  <2>1. S \notin Bad => Sum(w, S) <= 0
    OBVIOUS
  <2>. QED
    BY <2>1
<1>2. \A s \in Bad : IsFiniteSet(s)
  BY FS_Subset
<1>3. PICK s \in Bad : \A t \in Bad : t \subseteq s => t = s
  <2> HIDE DEF Bad
  <2>. QED BY <1>1, <1>2, Minimal
<1>4. PICK x \in s : TRUE
  BY SumEmpty
<1>5. Sum(w, s \ {x}) <= 0 /\ s \ {x} \in SUBSET S
  BY <1>3
<1>6. Sum(w, s) = w[x] + Sum(w, s \ {x}) /\ Sum(w, s \ {x}) \in Int
  <2>1. IsFiniteSet(s) /\ IsFiniteSet(s \ {x}) /\ (\A y \in s : w[y] \in Int)
    BY <1>2, FS_Subset
  <2>. QED BY <2>1, SumRemove
<1>7. w[x] \in Int /\ w[x] <= 0 /\ ~(Sum(w, s) <= 0)
  BY <1>3
<1>. QED
  BY <1>5, <1>6, <1>7

(* ... a difference sums to the difference of the sums, ...                *)
LEMMA SumMinus ==
    ASSUME NEW S, IsFiniteSet(S), NEW u, NEW v, NEW w,
           \A x \in S : v[x] \in Int /\ w[x] \in Int /\ u[x] = v[x] - w[x]
    PROVE  Sum(u, S) = Sum(v, S) - Sum(w, S)
<1> DEFINE Bad == {s \in SUBSET S : Sum(u, s) # Sum(v, s) - Sum(w, s)}
<1>1. SUFFICES ASSUME Bad # {} PROVE FALSE
  <2>1. S \notin Bad => Sum(u, S) = Sum(v, S) - Sum(w, S)
    OBVIOUS
  <2>. QED
    BY <2>1
<1>2. \A s \in SUBSET S : IsFiniteSet(s)
  BY FS_Subset
<1>3. PICK s \in Bad : \A t \in Bad : t \subseteq s => t = s
  <2>1. \A t \in Bad : IsFiniteSet(t)
    BY <1>2
  <2> HIDE DEF Bad
  <2>. QED BY <1>1, <2>1, Minimal
<1>4. PICK x \in s : TRUE
  <2>1. Sum(u, {}) = 0 /\ Sum(v, {}) = 0 /\ Sum(w, {}) = 0 /\ 0 - 0 = 0
    BY SumEmpty
  <2>2. s # {}
    BY <2>1
  <2>. QED
    BY <2>2
<1> DEFINE r == s \ {x}
<1>5. r \notin Bad /\ r \in SUBSET S /\ v[x] \in Int /\ w[x] \in Int /\ u[x] = v[x] - w[x]
  BY <1>3
<1>6. /\ Sum(u, s) = u[x] + Sum(u, r) /\ Sum(v, s) = v[x] + Sum(v, r)
      /\ Sum(w, s) = w[x] + Sum(w, r)
  <2>1. \A y \in s : u[y] \in Int /\ v[y] \in Int /\ w[y] \in Int
    OBVIOUS
  <2>2. IsFiniteSet(s)
    BY <1>2
  <2> HIDE DEF Bad
  <2>. QED
    BY <1>4, <2>1, <2>2, SumRemove
<1>7. Sum(v, r) \in Int /\ Sum(w, r) \in Int
  BY <1>2, <1>5, SumType
<1>8. Sum(u, r) = Sum(v, r) - Sum(w, r)
  BY <1>5
<1> HIDE DEF r
<1>9. Sum(u, s) = Sum(v, s) - Sum(w, s)
  BY <1>5, <1>6, <1>7, <1>8
<1>. QED
  BY <1>9

(* ... a constant factor comes out of the sum, ...                         *)
LEMMA SumScale ==
    ASSUME NEW S, IsFiniteSet(S), NEW c \in Int, NEW v, NEW w,
           \A x \in S : w[x] \in Int /\ v[x] = c * w[x]
    PROVE  Sum(v, S) = c * Sum(w, S)
<1> DEFINE Bad == {s \in SUBSET S : Sum(v, s) # c * Sum(w, s)}
<1>1. SUFFICES ASSUME Bad # {} PROVE FALSE
  <2>1. S \notin Bad => Sum(v, S) = c * Sum(w, S)
    OBVIOUS
  <2>. QED
    BY <2>1
<1>2. \A s \in SUBSET S : IsFiniteSet(s)
  BY FS_Subset
<1>3. PICK s \in Bad : \A t \in Bad : t \subseteq s => t = s
  <2>1. \A t \in Bad : IsFiniteSet(t)
    BY <1>2
  <2> HIDE DEF Bad
  <2>. QED BY <1>1, <2>1, Minimal
<1>4. PICK x \in s : TRUE
  <2>1. c * 0 = 0
    OBVIOUS
  <2>. QED
    BY <2>1, SumEmpty
<1> DEFINE r == s \ {x}
<1>5. r \notin Bad /\ r \in SUBSET S /\ w[x] \in Int /\ v[x] = c * w[x]
  BY <1>3
<1>6. Sum(v, s) = v[x] + Sum(v, r) /\ Sum(w, s) = w[x] + Sum(w, r)
  <2>1. \A y \in s : v[y] \in Int /\ w[y] \in Int
    OBVIOUS
  <2>. QED
    BY <1>2, <2>1, SumRemove
<1>7. Sum(w, r) \in Int
  BY <1>2, <1>5, SumType
<1>8. Sum(v, r) = c * Sum(w, r)
  BY <1>5
<1> HIDE DEF r
<1>9. Sum(v, s) = c * Sum(w, s)
  <2> DEFINE a == Sum(w, r)
             b == w[x]
  <2>1. a \in Int /\ b \in Int
    BY <1>5, <1>7
  <2>2. Sum(v, s) = c * b + c * a /\ Sum(w, s) = b + a
    BY <1>5, <1>6, <1>8
  <2> HIDE DEF a, b
  <2>3. c * b + c * a = c * (b + a)
    BY <2>1
  <2>. QED
    BY <2>2, <2>3
<1>. QED
  BY <1>9

(* ... what leaves out some elements is what counts them 0, ...            *)
LEMMA SumWithin ==
    ASSUME NEW S, IsFiniteSet(S), NEW A \in SUBSET S, NEW w, \A x \in A : w[x] \in Int,
           NEW v, \A x \in S : v[x] = IF x \in A THEN w[x] ELSE 0
    PROVE  Sum(v, S) = Sum(w, A)
<1>1. IsFiniteSet(A) /\ IsFiniteSet(S \ A) /\ S = A \cup (S \ A) /\ A \cap (S \ A) = {}
  BY FS_Subset
<1>2. Sum(v, A \cup (S \ A)) = Sum(v, A) + Sum(v, S \ A)
  BY <1>1, SumSplit
<1>3. Sum(v, S \ A) = 0
  BY <1>1, SumZero
<1>4. Sum(v, A) = Sum(w, A) /\ Sum(w, A) \in Int
  BY <1>1, SumSame, SumType
<1>5. Sum(v, S) = Sum(v, A \cup (S \ A))
  BY <1>1
<1>. QED
  BY <1>2, <1>3, <1>4, <1>5

(* ... an injection leaves the sum, ...                                    *)
LEMMA SumImage ==
    ASSUME NEW S, IsFiniteSet(S), NEW f, NEW v, NEW w,
           \A x \in S : v[x] \in Int /\ w[f[x]] = v[x],
           \A x, y \in S : f[x] = f[y] => x = y,
           NEW T, \A x \in S : f[x] \in T, \A y \in T : \E x \in S : y = f[x]
    PROVE  Sum(w, T) = Sum(v, S) /\ IsFiniteSet(T)
<1> DEFINE I(s) == {f[x] : x \in s}
           Good(s) == Sum(w, I(s)) = Sum(v, s) /\ IsFiniteSet(I(s))
           Bad == {s \in SUBSET S : ~ Good(s)}
<1>0. T = I(S)
  OBVIOUS
<1>1. SUFFICES ASSUME Bad # {} PROVE FALSE
  <2>1. S \notin Bad => Good(S)
    <3> HIDE DEF Good
    <3>. QED OBVIOUS
  <2> HIDE DEF Bad, I
  <2>. QED
    BY <1>0, <2>1
<1>2. \A s \in SUBSET S : IsFiniteSet(s)
  BY FS_Subset
<1>3. PICK s \in Bad : \A t \in Bad : t \subseteq s => t = s
  <2>1. \A t \in Bad : IsFiniteSet(t)
    BY <1>2
  <2> HIDE DEF Bad
  <2>. QED BY <1>1, <2>1, Minimal
<1>4. Good({})
  <2>1. I({}) = {}
    OBVIOUS
  <2>. QED
    BY <2>1, SumEmpty, FS_EmptySet
<1>5. PICK x \in s : TRUE
  <2> HIDE DEF Good
  <2>. QED BY <1>4
<1> DEFINE r == s \ {x}
<1>6. r \notin Bad /\ r \in SUBSET S /\ s = r \cup {x} /\ x \in S
  BY <1>3
<1>7. I(s) = I(r) \cup {f[x]} /\ f[x] \notin I(r)
  BY <1>6
<1>8. Good(r)
  <2> HIDE DEF Good, r
  <2>. QED BY <1>6
<1>9. \A y \in I(r) : w[y] \in Int
  BY <1>6
<1>10. Sum(w, I(r) \cup {f[x]}) = Sum(w, I(r)) + w[f[x]]
  <2>1. w[f[x]] \in Int
    BY <1>6
  <2> HIDE DEF r, I
  <2>. QED
    BY <1>7, <1>8, <1>9, <2>1, SumAdd
<1>11. Sum(v, s) = v[x] + Sum(v, r)
  BY <1>2, SumRemove
<1>12. IsFiniteSet(I(s))
  <2> HIDE DEF r, I
  <2>. QED
    BY <1>7, <1>8, FS_AddElement
<1>13. Sum(v, r) \in Int /\ v[x] \in Int /\ w[f[x]] = v[x]
  BY <1>2, <1>6, SumType
<1>14. Sum(w, I(s)) = Sum(v, s)
  <2> HIDE DEF r, I
  <2>. QED
    BY <1>7, <1>8, <1>10, <1>11, <1>13
<1>. QED
  BY <1>12, <1>14

(* ... and a set grouped by a key sums to the sum of its groups.           *)
IsGrouped(S, g, K, G) ==
    /\ \A x \in S : g[x] \in K
    /\ \A k \in K : \E x \in S : k = g[x]
    /\ \A k \in K : G[k] \subseteq S /\ \A x \in S : x \in G[k] <=> g[x] = k

LEMMA SumGroups ==
    ASSUME NEW S, IsFiniteSet(S), NEW g, NEW w, \A x \in S : w[x] \in Int,
           NEW K, NEW G, IsGrouped(S, g, K, G), NEW h, \A k \in K : h[k] = Sum(w, G[k])
    PROVE  Sum(h, K) = Sum(w, S)
<1>0. /\ \A x \in S : g[x] \in K
      /\ \A k \in K : \E x \in S : k = g[x]
      /\ \A k \in K : G[k] \subseteq S /\ \A x \in S : x \in G[k] <=> g[x] = k
  BY DEF IsGrouped
<1> DEFINE Of(J) == {x \in S : g[x] \in J}
           One(k) == {x \in S : g[x] = k}
           Bad == {J \in SUBSET K : Sum(h, J) # Sum(w, Of(J))}
<1>1. IsFiniteSet(K)
  <2> DEFINE f == [x \in S |-> g[x]]
  <2>1. f \in Surjection(S, K)
    BY <1>0 DEF Surjection
  <2> HIDE DEF f
  <2>. QED BY <2>1, FS_Surjection
<1>2. \A J \in SUBSET K : IsFiniteSet(J)
  BY <1>1, FS_Subset
<1>3. \A s \in SUBSET S : IsFiniteSet(s) /\ Sum(w, s) \in Int
  BY FS_Subset, SumType
<1>4. \A k \in K : h[k] = Sum(w, One(k)) /\ h[k] \in Int
  <2>1. \A k \in K : One(k) = G[k] /\ One(k) \in SUBSET S
    BY <1>0
  <2> HIDE DEF One
  <2>. QED
    BY <1>3, <2>1
<1>5. Bad = {}
  <2>1. SUFFICES ASSUME Bad # {} PROVE FALSE
    OBVIOUS
  <2>2. PICK J \in Bad : \A t \in Bad : t \subseteq J => t = J
    <3>1. \A t \in Bad : IsFiniteSet(t)
      <4> HIDE DEF Of
      <4>. QED BY <1>2
    <3> HIDE DEF Bad
    <3>. QED BY <2>1, <3>1, Minimal
  <2>3. Sum(h, {}) = Sum(w, Of({}))
    <3>1. Of({}) = {}
      OBVIOUS
    <3>. QED
      BY <3>1, SumEmpty
  <2>4. PICK k \in J : TRUE
    <3> HIDE DEF Of
    <3>. QED BY <2>3
  <2> DEFINE r == J \ {k}
  <2>5. r \notin Bad /\ r \in SUBSET K /\ k \in K /\ J \in SUBSET K
    <3> HIDE DEF Of
    <3>. QED BY <2>2
  <2>6. /\ Of(J) = Of(r) \cup One(k) /\ Of(r) \cap One(k) = {}
        /\ Of(r) \in SUBSET S /\ One(k) \in SUBSET S
    OBVIOUS
  <2> HIDE DEF Of, One
  <2>7. Sum(h, r) = Sum(w, Of(r))
    BY <2>5
  <2>8. Sum(h, J) = h[k] + Sum(h, r)
    <3>1. IsFiniteSet(J) /\ \A j \in J : h[j] \in Int
      BY <1>2, <1>4, <2>5
    <3>. QED
      BY <3>1, SumRemove
  <2>9. Sum(w, Of(J)) = Sum(w, Of(r)) + Sum(w, One(k))
    <3>1. /\ IsFiniteSet(Of(r)) /\ IsFiniteSet(One(k))
          /\ \A x \in Of(r) \cup One(k) : w[x] \in Int
      BY <1>3, <2>6
    <3>2. Sum(w, Of(r) \cup One(k)) = Sum(w, Of(r)) + Sum(w, One(k))
      <4> HIDE DEF r, Bad
      <4>. QED BY <2>6, <3>1, SumSplit
    <3>. QED
      BY <2>6, <3>2
  <2>10. Sum(w, Of(r)) \in Int /\ Sum(w, One(k)) \in Int /\ h[k] = Sum(w, One(k))
    BY <1>3, <1>4, <2>5, <2>6
  <2>11. Sum(h, J) = Sum(w, Of(J))
    BY <2>7, <2>8, <2>9, <2>10
  <2>. QED
    BY <2>11
<1>6. Of(K) = S
  BY <1>0
<1>7. Sum(h, K) = Sum(w, Of(K))
  <2> HIDE DEF Of
  <2>. QED BY <1>5
<1>. QED
  BY <1>6, <1>7

(* ... where some groups may be empty.                                     *)
IsParted(S, g, K, G) ==
    /\ \A x \in S : g[x] \in K
    /\ \A k \in K : \A x : x \in G[k] <=> x \in S /\ g[x] = k

LEMMA SumParts ==
    ASSUME NEW S, IsFiniteSet(S), NEW g, NEW w, \A x \in S : w[x] \in Int,
           NEW K, IsFiniteSet(K), NEW G, IsParted(S, g, K, G), NEW h, \A k \in K : h[k] = Sum(w, G[k])
    PROVE  Sum(h, K) = Sum(w, S)
<1> DEFINE J == {g[x] : x \in S}
<1>1. J \in SUBSET K /\ IsGrouped(S, g, J, G)
  BY DEF IsParted, IsGrouped
<1>2. \A k \in K : h[k] = IF k \in J THEN h[k] ELSE 0
  <2>1. \A k \in K : k \notin J => G[k] = {}
    BY DEF IsParted
  <2>. QED BY <2>1, SumEmpty
<1> HIDE DEF J
<1>3. Sum(h, J) = Sum(w, S)
  BY <1>1, SumGroups
<1>4. \A k \in J : h[k] \in Int
  <2>1. \A k \in J : G[k] \in SUBSET S
    BY <1>1 DEF IsGrouped
  <2>2. \A s \in SUBSET S : Sum(w, s) \in Int
    BY FS_Subset, SumType
  <2>. QED BY <1>1, <2>1, <2>2
<1>. QED
  BY <1>1, <1>2, <1>3, <1>4, SumWithin

(* A finite set has an element whose number is largest.                    *)
LEMMA LargestExists ==
    ASSUME NEW S, S # {}, IsFiniteSet(S), NEW n, \A x \in S : n[x] \in Int
    PROVE  \E x \in S : \A y \in S : n[y] <= n[x]
<1> DEFINE Above(x) == {y \in S : n[y] > n[x]}
           T == {Above(x) : x \in S}
<1>1. T # {} /\ \A U \in T : IsFiniteSet(U)
  <2>1. T # {} /\ \A U \in T : U \subseteq S
    OBVIOUS
  <2> HIDE DEF T
  <2>. QED
    BY <2>1, FS_Subset
<1>2. PICK U \in T : \A V \in T : V \subseteq U => U = V
  <2> HIDE DEF T
  <2>. QED BY <1>1, Minimal
<1>3. PICK x \in S : U = Above(x)
  OBVIOUS
<1>4. ASSUME NEW y \in S, n[y] > n[x] PROVE FALSE
  <2>1. Above(y) \in T /\ Above(y) \subseteq Above(x) /\ y \in Above(x) /\ y \notin Above(y)
    BY <1>4
  <2>. QED
    BY <1>2, <1>3, <2>1
<1>. QED
  BY <1>4
==============================================================================
