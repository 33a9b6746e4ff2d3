------------------------------- MODULE FoldProofs -------------------------------
(***************************************************************************)
(* What the folds that the models add up with compute, for any finite set and *)
(* any amounts: an induction over the subsets of a set, which tlapm can do     *)
(* once the fold is expanded to the function that it is defined by.  The same *)
(* for functions of the numbers up to a bound.                               *)
(***************************************************************************)
EXTENDS Integers, FiniteSets, FiniteSetsExt, Sequences, SequencesExt, Functions,
        FiniteSetTheorems, WellFoundedInduction, TLAPS

\* Of some subsets of a finite set, one has no smaller one among them.
LEMMA Smallest ==
  ASSUME NEW S, IsFiniteSet(S), NEW P, P \subseteq SUBSET S, P # {}
  PROVE  \E x \in P : \A y \in SUBSET x : y # x => y \notin P
<1>. DEFINE R == StrictSubsetOrdering(S)
<1>1. IsWellFoundedOn(R, SUBSET S)
  BY FS_StrictSubsetOrderingWellFounded, FS_FiniteSubsetsOfFinite
<1>2. \A x \in P, y \in P : y \subseteq x /\ y # x => <<y, x>> \in R
  BY DEF StrictSubsetOrdering
<1>. HIDE DEF R
<1>3. \E x \in P : \A y \in P : ~(<<y, x>> \in R)
  BY <1>1, WFMin
<1>. QED BY <1>2, <1>3

\* What holds of no elements, and of a set if of all but one of its elements, holds
\* of every subset.
LEMMA BySubsets ==
  ASSUME NEW S, IsFiniteSet(S), NEW Good, {} \in Good,
         \A s \in SUBSET S : s # {} /\ (\A x \in s : s \ {x} \in Good) => s \in Good
  PROVE  \A s \in SUBSET S : s \in Good
<1>. DEFINE P == (SUBSET S) \ Good
<1>. SUFFICES ASSUME P # {} PROVE FALSE
  OBVIOUS
<1>0. P \subseteq SUBSET S
  OBVIOUS
<1>. HIDE DEF P
<1>1. PICK s \in P : \A y \in SUBSET s : y # s => y \notin P
  BY <1>0, Smallest
<1>. USE DEF P
<1>2. \A x \in s : s \ {x} \in SUBSET S /\ s \ {x} # s
  OBVIOUS
<1>3. \A x \in s : s \ {x} \in Good
  BY <1>1, <1>2
<1>. QED BY <1>1, <1>3

-----------------------------------------------------------------------------
(* Numbers: induction up to a number, and functions defined from the one before.*)

\* What holds of zero, and of a number if of the one before, holds up to any number.
LEMMA ByNumbers ==
  ASSUME NEW N \in Nat, NEW Good, 0 \in Good, \A k \in 1..N : k - 1 \in Good => k \in Good
  PROVE  \A k \in 0..N : k \in Good
<1>. DEFINE Sets == { s \in SUBSET (1..N) : \A k \in 0..N : s = 1..k => k \in Good }
<1>0. \A j, k \in Nat : 1..j = 1..k => j = k
  <2>. TAKE j, k \in Nat
  <2>. HAVE 1..j = 1..k
  <2>1. j \in 1..j \/ j = 0
    OBVIOUS
  <2>2. k \in 1..k \/ k = 0
    OBVIOUS
  <2>3. j <= k
    BY <2>1
  <2>4. k <= j
    BY <2>2
  <2>. QED BY <2>3, <2>4
<1>1. {} \in Sets
  <2>1. \A k \in 0..N : {} = 1..k => k = 0
    <3>. TAKE k \in 0..N
    <3>1. k # 0 => k \in 1..k
      OBVIOUS
    <3>. QED BY <3>1
  <2>. QED BY <2>1
<1>2. ASSUME NEW s \in SUBSET (1..N), s # {}, \A x \in s : s \ {x} \in Sets PROVE s \in Sets
  <2>. SUFFICES ASSUME NEW k \in 0..N, s = 1..k PROVE k \in Good
    OBVIOUS
  <2>1. k \in 1..N /\ k \in s
    BY <1>2
  <2>2. s \ {k} = 1..(k - 1) /\ k - 1 \in 0..N
    BY <2>1
  <2>3. s \ {k} \in Sets
    BY <1>2, <2>1
  <2>. QED BY <2>1, <2>2, <2>3
<1>3. IsFiniteSet(1..N)
  BY FS_Interval
<1>. DEFINE U == 1..N
<1>. HIDE DEF Sets
<1>u. IsFiniteSet(U) /\ {} \in Sets /\ \A s \in SUBSET U : s # {} /\ (\A x \in s : s \ {x} \in Sets) => s \in Sets
  BY <1>1, <1>2, <1>3
<1>. HIDE DEF U
<1>v. \A s \in SUBSET U : s \in Sets
  BY <1>u, BySubsets
<1>4. \A s \in SUBSET (1..N) : s \in Sets
  BY <1>v DEF U
<1>. USE DEF Sets
<1>. SUFFICES ASSUME NEW k \in 0..N PROVE k \in Good
  OBVIOUS
<1>5. 1..k \in SUBSET (1..N)
  OBVIOUS
<1>. QED BY <1>4, <1>5

\* How many numbers there are up to n.
LEMMA CountTo == ASSUME NEW n \in Nat PROVE IsFiniteSet(1..n) /\ Cardinality(1..n) = n
<1>1. 1 \in Int /\ n \in Int
  OBVIOUS
<1>2. IsFiniteSet(1..n) /\ Cardinality(1..n) = IF 1 > n THEN 0 ELSE n - 1 + 1
  BY <1>1, FS_Interval
<1>. QED BY <1>2

\* A function of the numbers up to N, each value made from the one before.
RunsOf(N, base, step, it) == it = [k \in 0..N |-> IF k = 0 THEN base ELSE step[k][it[k - 1]]]

LEMMA RunsExist ==
  ASSUME NEW N \in Nat, NEW base, NEW step
  PROVE  \E it : RunsOf(N, base, step, it)
<1>. DEFINE Good == { n \in 0..N : \E it : RunsOf(n, base, step, it) }
<1>1. 0 \in Good
  <2>1. RunsOf(0, base, step, [k \in 0..0 |-> base])
    BY DEF RunsOf
  <2>. QED BY <2>1
<1>2. ASSUME NEW n \in 1..N, n - 1 \in Good PROVE n \in Good
  <2>1. PICK it : RunsOf(n - 1, base, step, it)
    BY <1>2
  <2>. DEFINE jt == [k \in 0..n |-> IF k = n THEN step[n][it[n - 1]] ELSE it[k]]
  <2>2. ASSUME NEW k \in 0..n PROVE jt[k] = IF k = 0 THEN base ELSE step[k][jt[k - 1]]
    <3>1. k # 0 => k - 1 \in 0..(n - 1) /\ jt[k - 1] = it[k - 1]
      OBVIOUS
    <3>2. k # n => k \in 0..(n - 1) /\ jt[k] = it[k]
      OBVIOUS
    <3>3. \A j \in 0..(n - 1) : it[j] = IF j = 0 THEN base ELSE step[j][it[j - 1]]
      BY <2>1 DEF RunsOf
    <3>4. CASE k = n
      BY <3>1, <3>4
    <3>5. CASE k # n
      <4>. HIDE DEF jt
      <4>. QED BY <3>1, <3>2, <3>3, <3>5
    <3>. QED BY <3>4, <3>5
  <2>3. jt = [k \in 0..n |-> jt[k]]
    OBVIOUS
  <2>. HIDE DEF jt
  <2>4. RunsOf(n, base, step, jt)
    BY <2>2, <2>3 DEF RunsOf
  <2>. QED BY <2>4
<1>. HIDE DEF Good
<1>3. \A k \in 0..N : k \in Good
  BY <1>1, <1>2, ByNumbers
<1>. QED BY <1>3 DEF Good

\* There is one, and it stays where its steps stay.
RunsIn(N, D, base, step) == base \in D /\ step \in [1..N -> [D -> D]]
IsRun(N, D, base, step, it) ==
  it \in [0..N -> D] /\ it[0] = base /\ \A k \in 1..N : it[k] = step[k][it[k - 1]]

LEMMA RunsStay ==
  ASSUME NEW N \in Nat, NEW D, NEW base, NEW step, RunsIn(N, D, base, step)
  PROVE  \E it : IsRun(N, D, base, step, it)
<1>. USE DEF RunsIn
<1>1. PICK it : RunsOf(N, base, step, it)
  BY RunsExist
<1>2. it = [k \in 0..N |-> it[k]] /\ it[0] = base /\ \A k \in 1..N : it[k] = step[k][it[k - 1]]
  <2>1. 0 \in 0..N /\ \A k \in 1..N : k \in 0..N /\ k # 0
    OBVIOUS
  <2>. QED BY <1>1, <2>1 DEF RunsOf
<1>. DEFINE Good == { k \in 0..N : it[k] \in D }
<1>3. 0 \in Good
  BY <1>2
<1>4. ASSUME NEW k \in 1..N, k - 1 \in Good PROVE k \in Good
  <2>1. it[k - 1] \in D /\ step[k] \in [D -> D]
    BY <1>4
  <2>2. it[k] = step[k][it[k - 1]]
    BY <1>2
  <2>. QED BY <2>1, <2>2
<1>. HIDE DEF Good
<1>5. \A k \in 0..N : k \in Good
  BY <1>3, <1>4, ByNumbers
<1>6. it \in [0..N -> D]
  BY <1>2, <1>5 DEF Good
<1>. QED BY <1>2, <1>6 DEF IsRun

-----------------------------------------------------------------------------
(* A fold over a finite set: step is applied to the elements in the order that *)
(* pick takes them out of it.                                                 *)
Folds(S, pick, base, step, it) ==
  it = [s \in SUBSET S |-> IF s = {} THEN base ELSE step[<<pick[s], it[s \ {pick[s]}]>>]]

LEMMA FoldsUnique ==
  ASSUME NEW S, IsFiniteSet(S), NEW pick, \A s \in SUBSET S : s # {} => pick[s] \in s,
         NEW base, NEW step, NEW it, NEW jt, Folds(S, pick, base, step, it), Folds(S, pick, base, step, jt)
  PROVE  it = jt
<1>. DEFINE Good == { s \in SUBSET S : it[s] = jt[s] }
<1>1. {} \in Good
  BY DEF Folds
<1>2. ASSUME NEW s \in SUBSET S, s # {}, \A x \in s : s \ {x} \in Good PROVE s \in Good
  <2>1. it[s \ {pick[s]}] = jt[s \ {pick[s]}] /\ s \ {pick[s]} \in SUBSET S
    BY <1>2
  <2>2. it[s] = step[<<pick[s], it[s \ {pick[s]}]>>] /\ jt[s] = step[<<pick[s], jt[s \ {pick[s]}]>>]
    BY <1>2 DEF Folds
  <2>. QED BY <2>1, <2>2
<1>. HIDE DEF Good
<1>3. \A s \in SUBSET S : s \in Good
  BY <1>1, <1>2, BySubsets
<1>4. \A s \in SUBSET S : it[s] = jt[s]
  BY <1>3 DEF Good
<1>. QED BY <1>4 DEF Folds

\* Folds over two sets agree on what is in both.
LEMMA FoldsAgree ==
  ASSUME NEW U, NEW W, NEW s, s \subseteq U, s \subseteq W, IsFiniteSet(s),
         NEW pick, \A u \in SUBSET s : u # {} => pick[u] \in u,
         NEW base, NEW step, NEW it, NEW jt,
         Folds(U, pick, base, step, it), Folds(W, pick, base, step, jt)
  PROVE  it[s] = jt[s]
<1>. DEFINE a == [u \in SUBSET s |-> it[u]]
            b == [u \in SUBSET s |-> jt[u]]
<1>1. Folds(s, pick, base, step, a)
  BY DEF Folds
<1>2. Folds(s, pick, base, step, b)
  BY DEF Folds
<1>3. a[s] = it[s] /\ b[s] = jt[s]
  OBVIOUS
<1>. HIDE DEF a, b
<1>4. a = b
  BY <1>1, <1>2, FoldsUnique
<1>. QED BY <1>3, <1>4

LEMMA FoldsExist ==
  ASSUME NEW S, IsFiniteSet(S), NEW pick, \A s \in SUBSET S : s # {} => pick[s] \in s,
         NEW base, NEW step
  PROVE  \E it : Folds(S, pick, base, step, it)
<1>. DEFINE Good == { T \in SUBSET S : \E it : Folds(T, pick, base, step, it) }
            below == [T \in SUBSET S |-> CHOOSE it : Folds(T, pick, base, step, it)]
<1>1. {} \in Good
  <2>1. Folds({}, pick, base, step, [s \in SUBSET {} |-> base])
    BY DEF Folds
  <2>. QED BY <2>1
<1>2. ASSUME NEW T \in SUBSET S, T # {}, \A x \in T : T \ {x} \in Good PROVE T \in Good
  <2>. DEFINE without == [s \in SUBSET T |-> T \ {CHOOSE x \in T \ s : TRUE}]
              rest == T \ {pick[T]}
              jt == [s \in SUBSET T |-> IF s = T THEN step[<<pick[T], below[rest][rest]>>]
                                        ELSE below[without[s]][s]]
  <2>1. pick[T] \in T
    BY <1>2
  <2>2. ASSUME NEW x \in T PROVE Folds(T \ {x}, pick, base, step, below[T \ {x}])
    <3>1. T \ {x} \in SUBSET S /\ \E it : Folds(T \ {x}, pick, base, step, it)
      BY <1>2, <2>2
    <3>. QED BY <3>1
  <2>. HIDE DEF below
  <2>3. ASSUME NEW x \in T, NEW y \in T, NEW s \in SUBSET T, x \notin s, y \notin s
        PROVE  below[T \ {x}][s] = below[T \ {y}][s]
    <3>1. /\ s \subseteq T \ {x} /\ s \subseteq T \ {y} /\ IsFiniteSet(s)
          /\ \A u \in SUBSET s : u # {} => pick[u] \in u
      BY <2>3, FS_Subset
    <3>2. Folds(T \ {x}, pick, base, step, below[T \ {x}]) /\ Folds(T \ {y}, pick, base, step, below[T \ {y}])
      BY <2>2
    <3>. DEFINE U == T \ {x}
                W == T \ {y}
                v == below[U]
                w == below[W]
    <3>3. /\ s \subseteq U /\ s \subseteq W /\ Folds(U, pick, base, step, v) /\ Folds(W, pick, base, step, w)
      BY <3>1, <3>2
    <3>. HIDE DEF U, W, v, w
    <3>4. v[s] = w[s]
      BY <3>1, <3>3, FoldsAgree
    <3>. QED BY <3>4 DEF U, W, v, w
  <2>4. ASSUME NEW s \in SUBSET T, NEW x \in T, x \notin s PROVE jt[s] = below[T \ {x}][s]
    <3>1. PICK y \in T \ s : without[s] = T \ {y}
      BY <2>4
    <3>2. jt[s] = below[T \ {y}][s]
      BY <2>4, <3>1
    <3>. QED BY <2>3, <2>4, <3>1, <3>2
  <2>5. ASSUME NEW s \in SUBSET T
        PROVE  jt[s] = IF s = {} THEN base ELSE step[<<pick[s], jt[s \ {pick[s]}]>>]
    <3>1. CASE s = T
      <4>1. jt[s] = step[<<pick[T], below[rest][rest]>>]
        BY <3>1
      <4>2. jt[rest] = below[rest][rest]
        BY <2>1, <2>4
      <4>. QED BY <1>2, <3>1, <4>1, <4>2
    <3>2. CASE s # T
      <4>1. PICK x \in T : x \notin s
        BY <3>2
      <4>. DEFINE w == below[T \ {x}]
      <4>2. jt[s] = w[s] /\ s \in SUBSET (T \ {x})
        BY <2>4, <4>1
      <4>3. Folds(T \ {x}, pick, base, step, w)
        BY <2>2
      <4>4. s # {} => jt[s \ {pick[s]}] = w[s \ {pick[s]}]
        <5>1. s \ {pick[s]} \in SUBSET T /\ x \notin s \ {pick[s]}
          BY <4>1
        <5>. QED BY <2>4, <5>1, ZenonT(40)
      <4>. HIDE DEF w, jt
      <4>5. w[s] = IF s = {} THEN base ELSE step[<<pick[s], w[s \ {pick[s]}]>>]
        BY <4>2, <4>3 DEF Folds
      <4>. QED BY <4>2, <4>4, <4>5
    <3>. QED BY <3>1, <3>2
  <2>6. jt = [s \in SUBSET T |-> jt[s]]
    OBVIOUS
  <2>. HIDE DEF jt
  <2>7. Folds(T, pick, base, step, jt)
    BY <2>5, <2>6 DEF Folds
  <2>. QED BY <2>7
<1>. HIDE DEF Good
<1>3. S \in SUBSET S /\ \A s \in SUBSET S : s \in Good
  BY <1>1, <1>2, BySubsets
<1>4. S \in Good
  BY <1>3
<1>. QED BY <1>4 DEF Good

-----------------------------------------------------------------------------
(* Sums.                                                                      *)

\* it is, of each subset of S, what f comes to over it.
Adds(f, S, it) ==
  /\ it \in [SUBSET S -> Nat] /\ it[{}] = 0
  /\ \A s \in SUBSET S : \A x \in s : it[s] = it[s \ {x}] + f[x]

SumOver(f, S) == (CHOOSE it : Adds(f, S, it))[S]

LEMMA AddsExists ==
  ASSUME NEW S, IsFiniteSet(S), NEW f, \A x \in S : f[x] \in Nat
  PROVE  \E it : Adds(f, S, it)
<1>. DEFINE Good == { T \in SUBSET S : \E it : Adds(f, T, it) }
<1>1. {} \in Good
  <2>1. Adds(f, {}, [s \in SUBSET {} |-> 0])
    BY DEF Adds
  <2>. QED BY <2>1
<1>2. ASSUME NEW T \in SUBSET S, T # {}, \A x \in T : T \ {x} \in Good PROVE T \in Good
  <2>1. PICK x \in T : TRUE
    BY <1>2
  <2>2. PICK it : Adds(f, T \ {x}, it)
    BY <1>2
  <2>. DEFINE jt == [s \in SUBSET T |-> IF x \in s THEN it[s \ {x}] + f[x] ELSE it[s]]
  <2>3. /\ it \in [SUBSET (T \ {x}) -> Nat] /\ it[{}] = 0 /\ f[x] \in Nat
        /\ \A s \in SUBSET (T \ {x}) : \A y \in s : it[s] = it[s \ {y}] + f[y]
    BY <2>2 DEF Adds
  <2>4. ASSUME NEW s \in SUBSET T PROVE jt[s] \in Nat
    <3>1. CASE x \in s
      <4>1. s \ {x} \in SUBSET (T \ {x})
        OBVIOUS
      <4>. QED BY <2>3, <3>1, <4>1
    <3>2. CASE x \notin s
      <4>1. s \in SUBSET (T \ {x})
        BY <3>2
      <4>. QED BY <2>3, <3>2, <4>1
    <3>. QED BY <3>1, <3>2
  <2>5. ASSUME NEW s \in SUBSET T, NEW y \in s PROVE jt[s] = jt[s \ {y}] + f[y]
    <3>0. s \ {y} \in SUBSET T
      OBVIOUS
    <3>1. CASE x \notin s
      <4>1. s \in SUBSET (T \ {x}) /\ x \notin s \ {y}
        BY <3>1
      <4>. QED BY <2>3, <3>0, <3>1, <4>1
    <3>2. CASE x = y
      <4>1. jt[s] = it[s \ {x}] + f[x] /\ jt[s \ {y}] = it[s \ {y}]
        BY <3>0, <3>2
      <4>. QED BY <3>2, <4>1
    <3>3. CASE x \in s /\ x # y
      <4>1. s \ {x} \in SUBSET (T \ {x}) /\ y \in s \ {x}
        BY <3>3
      <4>2. it[s \ {x}] = it[(s \ {x}) \ {y}] + f[y]
        BY <2>3, <4>1
      <4>3. (s \ {x}) \ {y} = (s \ {y}) \ {x}
        OBVIOUS
      <4>4. jt[s] = it[s \ {x}] + f[x] /\ jt[s \ {y}] = it[(s \ {y}) \ {x}] + f[x]
        BY <3>0, <3>3
      <4>5. (s \ {y}) \ {x} \in SUBSET (T \ {x})
        OBVIOUS
      <4>6. it[(s \ {y}) \ {x}] \in Nat /\ f[y] \in Nat
        BY <2>3, <4>5
      <4>. DEFINE rest == it[(s \ {y}) \ {x}]
      <4>7. jt[s] = (rest + f[y]) + f[x] /\ jt[s \ {y}] = rest + f[x]
        BY <4>2, <4>3, <4>4
      <4>8. rest \in Nat /\ f[y] \in Nat /\ f[x] \in Nat
        BY <2>3, <4>6
      <4>. HIDE DEF jt, rest
      <4>. QED BY <4>7, <4>8
    <3>. QED BY <3>1, <3>2, <3>3
  <2>6. jt \in [SUBSET T -> Nat] /\ jt[{}] = 0
    BY <2>3, <2>4
  <2>. HIDE DEF jt
  <2>7. Adds(f, T, jt)
    BY <2>5, <2>6 DEF Adds
  <2>. QED BY <2>7
<1>. HIDE DEF Good
<1>3. S \in SUBSET S /\ \A s \in SUBSET S : s \in Good
  BY <1>1, <1>2, BySubsets
<1>4. S \in Good
  BY <1>3
<1>. QED BY <1>4 DEF Good

\* Whatever agrees with f on S and is added up one element at a time is the sum.
LEMMA AddsIsSum ==
  ASSUME NEW S, IsFiniteSet(S), NEW f, NEW g, \A x \in S : f[x] \in Nat /\ f[x] = g[x],
         NEW it, Adds(g, S, it)
  PROVE  \A s \in SUBSET S : it[s] = SumOver(f, s)
<1>1. ASSUME NEW T \in SUBSET S PROVE it[T] = SumOver(f, T)
  <2>. DEFINE jt == CHOOSE jt : Adds(f, T, jt)
              Good == { s \in SUBSET T : it[s] = jt[s] }
  <2>1. IsFiniteSet(T) /\ \A x \in T : f[x] \in Nat
    BY FS_Subset
  <2>2. \E kt : Adds(f, T, kt)
    BY <2>1, AddsExists
  <2>3. Adds(f, T, jt)
    BY <2>2
  <2>. HIDE DEF jt
  <2>4. {} \in Good
    BY <2>3 DEF Adds
  <2>5. ASSUME NEW s \in SUBSET T, s # {}, \A x \in s : s \ {x} \in Good PROVE s \in Good
    <3>1. PICK x \in s : TRUE
      BY <2>5
    <3>2. it[s] = it[s \ {x}] + g[x] /\ g[x] = f[x]
      BY <3>1 DEF Adds
    <3>3. jt[s] = jt[s \ {x}] + f[x]
      BY <2>3, <3>1 DEF Adds
    <3>. QED BY <2>5, <3>1, <3>2, <3>3
  <2>. HIDE DEF Good
  <2>6. T \in SUBSET T /\ \A s \in SUBSET T : s \in Good
    BY <2>1, <2>4, <2>5, BySubsets
  <2>7. it[T] = jt[T]
    BY <2>6 DEF Good
  <2>. QED BY <2>7 DEF SumOver, jt
<1>. QED BY <1>1

LEMMA SumRule ==
  ASSUME NEW S, IsFiniteSet(S), NEW f, \A x \in S : f[x] \in Nat
  PROVE  /\ SumOver(f, S) \in Nat /\ SumOver(f, {}) = 0
         /\ \A x \in S : SumOver(f, S) = SumOver(f, S \ {x}) + f[x]
<1>1. PICK it : Adds(f, S, it)
  BY AddsExists
<1>2. \A s \in SUBSET S : it[s] = SumOver(f, s)
  BY <1>1, AddsIsSum
<1>3. S \in SUBSET S /\ {} \in SUBSET S /\ \A x \in S : S \ {x} \in SUBSET S
  OBVIOUS
<1>. QED BY <1>1, <1>2, <1>3 DEF Adds

LEMMA SumSame ==
  ASSUME NEW S, IsFiniteSet(S), NEW f, NEW g, \A x \in S : f[x] \in Nat /\ f[x] = g[x]
  PROVE  SumOver(f, S) = SumOver(g, S)
<1>1. \E it : Adds(g, S, it)
  BY AddsExists
<1>2. PICK it : Adds(g, S, it)
  BY <1>1
<1>3. S \in SUBSET S /\ \A x \in S : g[x] \in Nat
  OBVIOUS
<1>4. it[S] = SumOver(f, S)
  BY <1>2, <1>3, AddsIsSum
<1>5. it[S] = SumOver(g, S)
  BY <1>2, <1>3, AddsIsSum
<1>. QED BY <1>4, <1>5

\* A sum that is folded: the elements in the order in which pick takes them out.
LEMMA SumFolded ==
  ASSUME NEW S, IsFiniteSet(S), NEW f, \A x \in S : f[x] \in Nat,
         NEW pick, \A s \in SUBSET S : s # {} => pick[s] \in s
  PROVE  /\ \E it : it = [s \in SUBSET S |-> IF s = {} THEN 0 ELSE it[s \ {pick[s]}] + f[pick[s]]]
         /\ \A it : it = [s \in SUBSET S |-> IF s = {} THEN 0 ELSE it[s \ {pick[s]}] + f[pick[s]]]
                      => it[S] = SumOver(f, S)
<1>1. PICK jt : Adds(f, S, jt)
  BY AddsExists
<1>2. /\ jt \in [SUBSET S -> Nat] /\ jt[{}] = 0
      /\ \A s \in SUBSET S : s # {} => jt[s] = jt[s \ {pick[s]}] + f[pick[s]]
  BY <1>1 DEF Adds
<1>3. jt = [s \in SUBSET S |-> IF s = {} THEN 0 ELSE jt[s \ {pick[s]}] + f[pick[s]]]
  <2>1. \A s \in SUBSET S : jt[s] = IF s = {} THEN 0 ELSE jt[s \ {pick[s]}] + f[pick[s]]
    BY <1>2
  <2>2. jt = [s \in SUBSET S |-> jt[s]]
    BY <1>2
  <2>. QED BY <2>1, <2>2
<1>4. ASSUME NEW it, it = [s \in SUBSET S |-> IF s = {} THEN 0 ELSE it[s \ {pick[s]}] + f[pick[s]]]
      PROVE  it[S] = SumOver(f, S)
  <2>. DEFINE Good == { s \in SUBSET S : it[s] = jt[s] }
  <2>1. {} \in Good
    BY <1>2, <1>4
  <2>2. ASSUME NEW s \in SUBSET S, s # {}, \A x \in s : s \ {x} \in Good PROVE s \in Good
    <3>1. it[s] = it[s \ {pick[s]}] + f[pick[s]]
      BY <1>4, <2>2
    <3>2. pick[s] \in s
      BY <2>2
    <3>. QED BY <1>2, <2>2, <3>1, <3>2
  <2>. HIDE DEF Good
  <2>3. S \in SUBSET S /\ \A s \in SUBSET S : s \in Good
    BY <2>1, <2>2, BySubsets
  <2>4. it[S] = jt[S] /\ jt[S] = SumOver(f, S)
    BY <1>1, <2>3, AddsIsSum DEF Good
  <2>. QED BY <2>4
<1>. QED BY <1>3, <1>4

\* The library's sum of a function is that.
LEMMA SumFunctionIsSum ==
  ASSUME NEW S, IsFiniteSet(S), NEW f, \A x \in S : f[x] \in Nat
  PROVE  SumFunctionOnSet(f, S) = SumOver(f, S)
<1>. DEFINE pick == [s \in SUBSET S |-> CHOOSE x \in s : TRUE]
            Rec(it) == it = [s \in SUBSET S |-> IF s = {} THEN 0 ELSE f[CHOOSE x \in s : TRUE] + it[s \ {CHOOSE x \in s : TRUE}]]
            Inc(it) == it = [s \in SUBSET S |-> IF s = {} THEN 0 ELSE it[s \ {pick[s]}] + f[pick[s]]]
<1>1. SumFunctionOnSet(f, S) = (CHOOSE it : Rec(it))[S]
  BY DEF SumFunctionOnSet, FoldFunctionOnSet, MapThenFoldSet
<1>2. \A s \in SUBSET S : s # {} => pick[s] \in s
  OBVIOUS
<1>3. PICK jt : Adds(f, S, jt)
  BY AddsExists
<1>4. /\ jt \in [SUBSET S -> Nat] /\ jt[{}] = 0
      /\ \A s \in SUBSET S : s # {} => jt[s] = f[CHOOSE x \in s : TRUE] + jt[s \ {CHOOSE x \in s : TRUE}]
  <2>1. ASSUME NEW s \in SUBSET S, s # {} PROVE jt[s] = f[pick[s]] + jt[s \ {pick[s]}]
    <3>1. pick[s] \in s /\ pick[s] \in S /\ s \ {pick[s]} \in SUBSET S
      BY <1>2, <2>1
    <3>. HIDE DEF pick
    <3>2. f[pick[s]] \in Nat /\ jt[s \ {pick[s]}] \in Nat /\ jt[s] = jt[s \ {pick[s]}] + f[pick[s]]
      BY <1>3, <3>1 DEF Adds
    <3>. QED BY <3>2
  <2>. QED BY <1>3, <2>1 DEF Adds
<1>5. Rec(jt)
  <2>1. \A s \in SUBSET S : jt[s] = IF s = {} THEN 0 ELSE f[CHOOSE x \in s : TRUE] + jt[s \ {CHOOSE x \in s : TRUE}]
    BY <1>4
  <2>2. jt = [s \in SUBSET S |-> jt[s]]
    BY <1>4
  <2>. QED BY <2>1, <2>2
<1>6. ASSUME NEW it, Rec(it) PROVE it[S] = jt[S]
  <2>. DEFINE Good == { s \in SUBSET S : it[s] = jt[s] }
  <2>1. {} \in Good
    BY <1>4, <1>6
  <2>2. ASSUME NEW s \in SUBSET S, s # {}, \A x \in s : s \ {x} \in Good PROVE s \in Good
    <3>1. it[s] = f[CHOOSE x \in s : TRUE] + it[s \ {CHOOSE x \in s : TRUE}]
      BY <1>6, <2>2
    <3>2. (CHOOSE x \in s : TRUE) \in s
      BY <2>2
    <3>. QED BY <1>4, <2>2, <3>1, <3>2
  <2>. HIDE DEF Good, Rec
  <2>3. S \in SUBSET S /\ \A s \in SUBSET S : s \in Good
    BY <2>1, <2>2, BySubsets
  <2>. QED BY <2>3 DEF Good
<1>7. jt[S] = SumOver(f, S)
  <2>1. S \in SUBSET S
    OBVIOUS
  <2>. QED BY <1>3, <2>1, AddsIsSum
<1>. HIDE DEF Rec
<1>8. Rec(CHOOSE it : Rec(it))
  BY <1>5
<1>. QED BY <1>1, <1>6, <1>7, <1>8

-----------------------------------------------------------------------------
(* The laws of sums.                                                          *)
LEMMA SumType ==
  ASSUME NEW S, IsFiniteSet(S), NEW f, \A x \in S : f[x] \in Nat
  PROVE  SumOver(f, S) \in Nat
BY SumRule

\* Two sets without a common element.
LEMMA SumDisjoint ==
  ASSUME NEW S, NEW T, IsFiniteSet(S), IsFiniteSet(T), S \cap T = {},
         NEW f, \A x \in S \cup T : f[x] \in Nat
  PROVE  SumOver(f, S \cup T) = SumOver(f, S) + SumOver(f, T)
<1>. DEFINE Good == { s \in SUBSET T : SumOver(f, S \cup s) = SumOver(f, S) + SumOver(f, s) }
<1>0. SumOver(f, S) \in Nat /\ SumOver(f, {}) = 0
  BY SumRule
<1>1. {} \in Good
  <2>1. S \cup {} = S
    OBVIOUS
  <2>. QED BY <1>0, <2>1
<1>2. ASSUME NEW s \in SUBSET T, s # {}, \A x \in s : s \ {x} \in Good PROVE s \in Good
  <2>1. PICK x \in s : TRUE
    BY <1>2
  <2>2. IsFiniteSet(s) /\ IsFiniteSet(S \cup s) /\ IsFiniteSet(s \ {x})
    BY FS_Subset, FS_Union, FS_RemoveElement
  <2>3. /\ \A y \in S \cup s : f[y] \in Nat
        /\ \A y \in s : f[y] \in Nat
        /\ \A y \in s \ {x} : f[y] \in Nat
    OBVIOUS
  <2>4. SumOver(f, s) = SumOver(f, s \ {x}) + f[x] /\ SumOver(f, s \ {x}) \in Nat
    BY <2>1, <2>2, <2>3, SumRule
  <2>5. SumOver(f, S \cup s) = SumOver(f, (S \cup s) \ {x}) + f[x]
    <3>1. x \in S \cup s
      OBVIOUS
    <3>. QED BY <2>2, <2>3, <3>1, SumRule
  <2>6. (S \cup s) \ {x} = S \cup (s \ {x})
    BY <2>1
  <2>7. SumOver(f, S \cup (s \ {x})) = SumOver(f, S) + SumOver(f, s \ {x})
    BY <1>2, <2>1
  <2>8. f[x] \in Nat
    BY <2>3
  <2>. QED BY <1>0, <2>4, <2>5, <2>6, <2>7, <2>8
<1>. HIDE DEF Good
<1>3. T \in SUBSET T /\ \A s \in SUBSET T : s \in Good
  BY <1>1, <1>2, BySubsets
<1>. QED BY <1>3 DEF Good

LEMMA SumPart ==
  ASSUME NEW S, IsFiniteSet(S), NEW T, T \subseteq S, NEW f, \A x \in S : f[x] \in Nat
  PROVE  SumOver(f, S) = SumOver(f, T) + SumOver(f, S \ T)
<1>1. /\ IsFiniteSet(T) /\ IsFiniteSet(S \ T) /\ T \cap (S \ T) = {} /\ T \cup (S \ T) = S
  BY FS_Subset
<1>. DEFINE U == S \ T
<1>2. /\ IsFiniteSet(T) /\ IsFiniteSet(U) /\ T \cap U = {} /\ T \cup U = S /\ \A x \in T \cup U : f[x] \in Nat
  BY <1>1
<1>. HIDE DEF U
<1>3. SumOver(f, T \cup U) = SumOver(f, T) + SumOver(f, U)
  BY <1>2, SumDisjoint
<1>. QED BY <1>2, <1>3 DEF U

\* One element after the other, in two sums at once.
LEMMA SumAdded ==
  ASSUME NEW S, IsFiniteSet(S), NEW f, NEW g, NEW h,
         \A x \in S : f[x] \in Nat /\ g[x] \in Nat /\ h[x] = f[x] + g[x]
  PROVE  SumOver(h, S) = SumOver(f, S) + SumOver(g, S)
<1>. DEFINE Good == { s \in SUBSET S : SumOver(h, s) = SumOver(f, s) + SumOver(g, s) }
<1>1. {} \in Good
  <2>1. SumOver(f, {}) = 0 /\ SumOver(g, {}) = 0 /\ SumOver(h, {}) = 0
    BY SumRule, FS_EmptySet
  <2>. QED BY <2>1
<1>2. ASSUME NEW s \in SUBSET S, s # {}, \A x \in s : s \ {x} \in Good PROVE s \in Good
  <2>1. PICK x \in s : TRUE
    BY <1>2
  <2>2. IsFiniteSet(s) /\ IsFiniteSet(s \ {x})
    BY FS_Subset, FS_RemoveElement
  <2>3. \A y \in s : f[y] \in Nat /\ g[y] \in Nat /\ h[y] \in Nat /\ h[y] = f[y] + g[y]
    OBVIOUS
  <2>4. /\ SumOver(f, s) = SumOver(f, s \ {x}) + f[x] /\ SumOver(f, s \ {x}) \in Nat
        /\ SumOver(g, s) = SumOver(g, s \ {x}) + g[x] /\ SumOver(g, s \ {x}) \in Nat
        /\ SumOver(h, s) = SumOver(h, s \ {x}) + h[x]
    BY <2>1, <2>2, <2>3, SumRule
  <2>5. SumOver(h, s \ {x}) = SumOver(f, s \ {x}) + SumOver(g, s \ {x})
    BY <1>2, <2>1
  <2>6. f[x] \in Nat /\ g[x] \in Nat /\ h[x] = f[x] + g[x]
    BY <2>3
  <2>. QED BY <2>4, <2>5, <2>6
<1>. HIDE DEF Good
<1>3. S \in SUBSET S /\ \A s \in SUBSET S : s \in Good
  BY <1>1, <1>2, BySubsets
<1>. QED BY <1>3 DEF Good

\* By kind: the sum is that of the sums of each kind.
LEMMA SumByKind ==
  ASSUME NEW S, IsFiniteSet(S), NEW K, IsFiniteSet(K), NEW f, \A x \in S : f[x] \in Nat,
         NEW part, \A k \in K : part[k] \subseteq S,
         \A x \in S : \E k \in K : x \in part[k],
         \A k \in K, l \in K : k # l => part[k] \cap part[l] = {},
         NEW h, \A k \in K : h[k] = SumOver(f, part[k])
  PROVE  SumOver(h, K) = SumOver(f, S)
<1>. DEFINE In(J) == { x \in S : \E k \in J : x \in part[k] }
            Good == { J \in SUBSET K : SumOver(h, J) = SumOver(f, In(J)) }
<1>0. \A k \in K : h[k] \in Nat
  <2>1. ASSUME NEW k \in K PROVE h[k] \in Nat
    <3>1. IsFiniteSet(part[k]) /\ \A x \in part[k] : f[x] \in Nat
      BY FS_Subset
    <3>. QED BY <3>1, SumType
  <2>. QED BY <2>1
<1>1. {} \in Good
  <2>1. In({}) = {}
    OBVIOUS
  <2>2. SumOver(f, {}) = 0 /\ SumOver(h, {}) = 0
    BY SumRule, FS_EmptySet
  <2>. QED BY <2>1, <2>2
<1>2. ASSUME NEW J \in SUBSET K, J # {}, \A k \in J : J \ {k} \in Good PROVE J \in Good
  <2>1. PICK k \in J : TRUE
    BY <1>2
  <2>2. IsFiniteSet(J) /\ \A l \in J : h[l] \in Nat
    BY <1>0, FS_Subset
  <2>3. SumOver(h, J) = SumOver(h, J \ {k}) + h[k]
    BY <2>1, <2>2, SumRule, ZenonT(40)
  <2>. DEFINE rest == In(J \ {k})
              own == part[k]
  <2>4. own \subseteq S /\ rest \subseteq S /\ own \cap rest = {} /\ own \cup rest = In(J)
    BY <2>1
  <2>5. SumOver(h, J \ {k}) = SumOver(f, rest)
    BY <1>2, <2>1
  <2>6. h[k] = SumOver(f, own)
    BY <2>1
  <2>. HIDE DEF rest, own
  <2>7. IsFiniteSet(own) /\ IsFiniteSet(rest) /\ \A x \in own \cup rest : f[x] \in Nat
    BY <2>4, FS_Subset
  <2>8. /\ SumOver(f, own \cup rest) = SumOver(f, own) + SumOver(f, rest)
        /\ SumOver(f, own) \in Nat /\ SumOver(f, rest) \in Nat
    BY <2>4, <2>7, SumDisjoint, SumType
  <2>9. SumOver(h, J) = SumOver(f, own \cup rest)
    BY <2>3, <2>5, <2>6, <2>8
  <2>. QED BY <2>4, <2>9
<1>3. In(K) = S
  OBVIOUS
<1>. HIDE DEF Good
<1>4. K \in SUBSET K /\ \A J \in SUBSET K : J \in Good
  BY <1>1, <1>2, BySubsets
<1>. QED BY <1>3, <1>4 DEF Good

\* A table a with its rows added up, and its columns b with theirs.
Crossed(S, K, a, b, rows, cols) ==
  /\ \A x \in S, k \in K : a[x][k] \in Nat /\ b[k][x] = a[x][k]
  /\ \A x \in S : rows[x] = SumOver(a[x], K)
  /\ \A k \in K : cols[k] = SumOver(b[k], S)

\* Rows first or columns first.
LEMMA SumsExchange ==
  ASSUME NEW S, IsFiniteSet(S), NEW K, IsFiniteSet(K), NEW a, NEW b, NEW rows, NEW cols,
         Crossed(S, K, a, b, rows, cols)
  PROVE  SumOver(rows, S) = SumOver(cols, K)
<1>. USE DEF Crossed
<1>. DEFINE down(J) == [x \in S |-> SumOver(a[x], J)]
            Good == { J \in SUBSET K : SumOver(cols, J) = SumOver(down(J), S) }
<1>0. \A k \in K : cols[k] \in Nat
  <2>1. \A k \in K : \A x \in S : b[k][x] \in Nat
    OBVIOUS
  <2>. QED BY <2>1, SumType
<1>1. {} \in Good
  <2>1. SumOver(cols, {}) = 0 /\ \A x \in S : SumOver(a[x], {}) = 0
    BY SumRule, FS_EmptySet
  <2>. DEFINE z == down({})
              Zero == { s \in SUBSET S : SumOver(z, s) = 0 }
  <2>2. \A x \in S : z[x] = 0
    BY <2>1
  <2>. HIDE DEF z
  <2>3. {} \in Zero
    BY SumRule, FS_EmptySet
  <2>4. ASSUME NEW s \in SUBSET S, s # {}, \A x \in s : s \ {x} \in Zero PROVE s \in Zero
    <3>1. PICK x \in s : TRUE
      BY <2>4
    <3>2. IsFiniteSet(s) /\ \A y \in s : z[y] \in Nat
      BY <2>2, FS_Subset
    <3>3. SumOver(z, s) = SumOver(z, s \ {x}) + z[x]
      BY <3>1, <3>2, SumRule
    <3>4. SumOver(z, s \ {x}) = 0 /\ z[x] = 0
      BY <2>2, <2>4, <3>1
    <3>. QED BY <3>3, <3>4
  <2>. HIDE DEF Zero
  <2>5. S \in SUBSET S /\ \A s \in SUBSET S : s \in Zero
    BY <2>3, <2>4, BySubsets
  <2>. QED BY <2>1, <2>5 DEF Zero, z
<1>2. ASSUME NEW J \in SUBSET K, J # {}, \A k \in J : J \ {k} \in Good PROVE J \in Good
  <2>1. PICK k \in J : TRUE
    BY <1>2
  <2>2. IsFiniteSet(J) /\ IsFiniteSet(J \ {k}) /\ \A l \in J : cols[l] \in Nat
    BY <1>0, FS_Subset, FS_RemoveElement
  <2>3. SumOver(cols, J) = SumOver(cols, J \ {k}) + cols[k]
    BY <2>1, <2>2, SumRule
  <2>. DEFINE f == down(J \ {k})
              g == b[k]
              h == down(J)
  <2>4. ASSUME NEW x \in S PROVE f[x] \in Nat /\ g[x] \in Nat /\ h[x] = f[x] + g[x]
    <3>1. \A l \in J : a[x][l] \in Nat
      OBVIOUS
    <3>. DEFINE r == a[x]
    <3>2. \A l \in J : r[l] \in Nat
      BY <3>1
    <3>. HIDE DEF r
    <3>3. SumOver(r, J) = SumOver(r, J \ {k}) + r[k]
      BY <2>1, <2>2, <3>2, SumRule
    <3>4. \A l \in J \ {k} : r[l] \in Nat
      BY <3>2
    <3>5. SumOver(r, J \ {k}) \in Nat
      BY <2>2, <3>4, SumType
    <3>6. g[x] = r[k] /\ f[x] = SumOver(r, J \ {k}) /\ h[x] = SumOver(r, J)
      BY <2>1 DEF r
    <3>. QED BY <2>1, <3>2, <3>3, <3>5, <3>6
  <2>5. cols[k] = SumOver(g, S) /\ SumOver(cols, J \ {k}) = SumOver(f, S)
    BY <1>2, <2>1
  <2>. HIDE DEF f, g, h
  <2>6. SumOver(h, S) = SumOver(f, S) + SumOver(g, S)
    BY <2>4, SumAdded
  <2>7. SumOver(cols, J) = SumOver(h, S)
    BY <2>3, <2>5, <2>6
  <2>. QED BY <2>7 DEF h
<1>. HIDE DEF Good
<1>3. K \in SUBSET K /\ \A J \in SUBSET K : J \in Good
  BY <1>1, <1>2, BySubsets
<1>4. SumOver(cols, K) = SumOver(down(K), S)
  BY <1>3 DEF Good
<1>5. SumOver(rows, S) = SumOver(down(K), S)
  <2>. DEFINE d == down(K)
  <2>1. \A x \in S : rows[x] \in Nat
    BY SumType
  <2>2. \A x \in S : rows[x] \in Nat /\ rows[x] = d[x]
    BY <2>1
  <2>. HIDE DEF d
  <2>3. SumOver(rows, S) = SumOver(d, S)
    BY <2>2, SumSame
  <2>. QED BY <2>3 DEF d
<1>. QED BY <1>4, <1>5

\* No part is more than the whole, and a whole of nothing has no parts.
LEMMA SumOfParts ==
  ASSUME NEW S, IsFiniteSet(S), NEW f, \A x \in S : f[x] \in Nat
  PROVE  /\ \A x \in S : f[x] <= SumOver(f, S)
         /\ SumOver(f, S) = 0 => \A x \in S : f[x] = 0
<1>1. ASSUME NEW x \in S PROVE f[x] <= SumOver(f, S)
  <2>1. IsFiniteSet(S \ {x}) /\ \A y \in S \ {x} : f[y] \in Nat
    BY FS_RemoveElement
  <2>2. SumOver(f, S \ {x}) \in Nat /\ f[x] \in Nat
    BY <2>1, SumType
  <2>3. SumOver(f, S) = SumOver(f, S \ {x}) + f[x]
    BY SumRule
  <2>. QED BY <2>2, <2>3
<1>2. SumOver(f, S) \in Nat
  BY SumType
<1>. QED BY <1>1, <1>2

\* What is at most d for each of n comes to at most n times d.
LEMMA SumAtMost ==
  ASSUME NEW S, IsFiniteSet(S), NEW d \in Nat, NEW f, \A x \in S : f[x] \in Nat /\ f[x] <= d
  PROVE  SumOver(f, S) <= Cardinality(S) * d
<1>. DEFINE Good == { s \in SUBSET S : SumOver(f, s) <= Cardinality(s) * d }
<1>1. {} \in Good
  <2>1. SumOver(f, {}) = 0 /\ Cardinality({}) = 0
    BY SumRule, FS_EmptySet
  <2>. QED BY <2>1
<1>2. ASSUME NEW s \in SUBSET S, s # {}, \A x \in s : s \ {x} \in Good PROVE s \in Good
  <2>1. PICK x \in s : TRUE
    BY <1>2
  <2>2. IsFiniteSet(s) /\ IsFiniteSet(s \ {x}) /\ Cardinality(s \ {x}) = Cardinality(s) - 1
    BY <2>1, FS_Subset, FS_RemoveElement
  <2>3. Cardinality(s) \in Nat /\ Cardinality(s \ {x}) \in Nat
    BY <2>2, FS_CardinalityType
  <2>4. \A y \in s : f[y] \in Nat
    OBVIOUS
  <2>5. SumOver(f, s) = SumOver(f, s \ {x}) + f[x] /\ f[x] <= d /\ f[x] \in Nat
    BY <2>1, <2>2, <2>4, SumRule
  <2>6. SumOver(f, s \ {x}) <= Cardinality(s \ {x}) * d
    BY <1>2, <2>1
  <2>7. SumOver(f, s \ {x}) \in Nat
    BY <2>2, <2>4, SumType
  <2>. DEFINE n == Cardinality(s)
              r == SumOver(f, s \ {x})
  <2>8. n \in Nat /\ n - 1 \in Nat /\ r \in Nat /\ r <= (n - 1) * d /\ SumOver(f, s) = r + f[x]
    BY <2>2, <2>3, <2>5, <2>6, <2>7
  <2>. HIDE DEF n, r
  <2>9. (n - 1) * d + d = n * d
    BY <2>8
  <2>10. r + f[x] <= n * d
    BY <2>5, <2>8, <2>9
  <2>. QED BY <2>8, <2>10 DEF n
<1>. HIDE DEF Good
<1>3. S \in SUBSET S /\ \A s \in SUBSET S : s \in Good
  BY <1>1, <1>2, BySubsets
<1>. QED BY <1>3 DEF Good

\* Some natural numbers have a largest.
LEMMA MaxIs ==
  ASSUME NEW S, IsFiniteSet(S), S \subseteq Nat, S # {}
  PROVE  Max(S) \in S /\ \A x \in S : x <= Max(S)
<1>. DEFINE Good == { s \in SUBSET S : s # {} => \E x \in s : \A y \in s : x >= y }
<1>1. {} \in Good
  OBVIOUS
<1>2. ASSUME NEW s \in SUBSET S, s # {}, \A x \in s : s \ {x} \in Good PROVE s \in Good
  <2>1. PICK x \in s : TRUE
    BY <1>2
  <2>2. CASE s \ {x} = {}
    <3>1. \A y \in s : x >= y
      BY <2>2
    <3>. QED BY <2>1, <3>1
  <2>3. CASE s \ {x} # {}
    <3>1. PICK z \in s \ {x} : \A y \in s \ {x} : z >= y
      BY <1>2, <2>1, <2>3
    <3>2. CASE z >= x
      <4>1. \A y \in s : z >= y
        BY <3>1, <3>2
      <4>. QED BY <4>1
    <3>3. CASE ~(z >= x)
      <4>1. \A y \in s : x >= y
        <5>1. ASSUME NEW y \in s PROVE x >= y
          <6>1. y # x => z >= y
            BY <3>1
          <6>2. x \in Nat /\ y \in Nat /\ z \in Nat
            OBVIOUS
          <6>. QED BY <3>3, <6>1, <6>2
        <5>. QED BY <5>1
      <4>. QED BY <2>1, <4>1
    <3>. QED BY <3>2, <3>3
  <2>. QED BY <2>2, <2>3
<1>. HIDE DEF Good
<1>3. S \in SUBSET S /\ \A s \in SUBSET S : s \in Good
  BY <1>1, <1>2, BySubsets
<1>4. \E x \in S : \A y \in S : x >= y
  BY <1>3 DEF Good
<1>5. Max(S) \in S /\ \A y \in S : Max(S) >= y
  BY <1>4 DEF Max
<1>. DEFINE m == Max(S)
<1>6. m \in S /\ \A y \in S : m >= y
  BY <1>5
<1>. HIDE DEF m
<1>7. m \in Nat /\ \A y \in S : y \in Nat
  BY <1>6
<1>8. m \in S /\ \A y \in S : y <= m
  BY <1>6, <1>7
<1>. QED BY <1>8 DEF m

-----------------------------------------------------------------------------
(* A function's sum, and a table of them.                                     *)
LEMMA SumIs ==
  ASSUME NEW S, IsFiniteSet(S), NEW f, DOMAIN f = S,
         NEW g, \A x \in S : g[x] \in Nat /\ f[x] = g[x]
  PROVE  SumFunction(f) = SumOver(g, S) /\ SumFunction(f) \in Nat
<1>1. \A x \in S : f[x] \in Nat /\ f[x] = g[x]
  OBVIOUS
<1>2. SumFunctionOnSet(f, S) = SumOver(f, S) /\ SumOver(f, S) \in Nat
  BY <1>1, SumFunctionIsSum, SumType
<1>3. SumOver(f, S) = SumOver(g, S)
  BY <1>1, SumSame
<1>4. SumFunction(f) = SumFunctionOnSet(f, S)
  BY DEF SumFunction
<1>. QED BY <1>2, <1>3, <1>4

\* Days of elements of some kinds: what each day comes to, and each kind over the days.
Keyed(D, K, m, f, key, total, cols) ==
  /\ \A i \in D : IsFiniteSet(m[i]) /\ \A x \in m[i] : f[x] \in Nat /\ key[x] \in K
  /\ \A i \in D : total[i] = SumOver(f, m[i])
  /\ \A k \in K : cols[k] = SumOver([i \in D |-> SumOver(f, { x \in m[i] : key[x] = k })], D)

\* What the days come to is what the kinds come to.
LEMMA SumsByKey ==
  ASSUME NEW D, IsFiniteSet(D), NEW K, IsFiniteSet(K), NEW m, NEW f, NEW key, NEW total, NEW cols,
         Keyed(D, K, m, f, key, total, cols)
  PROVE  SumOver(cols, K) = SumOver(total, D) /\ \A k \in K : cols[k] \in Nat
<1>. USE DEF Keyed
<1>. DEFINE a == [i \in D |-> [k \in K |-> SumOver(f, { x \in m[i] : key[x] = k })]]
            b == [k \in K |-> [i \in D |-> SumOver(f, { x \in m[i] : key[x] = k })]]
<1>1. ASSUME NEW i \in D PROVE total[i] = SumOver(a[i], K) /\ \A k \in K : a[i][k] \in Nat
  <2>. DEFINE S == m[i]
              part == [k \in K |-> { x \in S : key[x] = k }]
              h == a[i]
  <2>1. IsFiniteSet(S) /\ \A x \in S : f[x] \in Nat
    OBVIOUS
  <2>2. /\ \A k \in K : part[k] \subseteq S
        /\ \A x \in S : \E k \in K : x \in part[k]
        /\ \A k \in K, l \in K : k # l => part[k] \cap part[l] = {}
        /\ \A k \in K : h[k] = SumOver(f, part[k])
    OBVIOUS
  <2>3. total[i] = SumOver(f, S)
    OBVIOUS
  <2>. HIDE DEF S, part, h
  <2>4. SumOver(h, K) = SumOver(f, S)
    BY <2>1, <2>2, SumByKind
  <2>5. ASSUME NEW k \in K PROVE h[k] \in Nat
    <3>1. IsFiniteSet(part[k]) /\ \A x \in part[k] : f[x] \in Nat
      BY <2>1, <2>2, FS_Subset
    <3>2. SumOver(f, part[k]) \in Nat
      BY <3>1, SumType
    <3>. QED BY <2>2, <3>2
  <2>6. total[i] = SumOver(h, K) /\ \A k \in K : h[k] \in Nat
    BY <2>3, <2>4, <2>5
  <2>. QED BY <2>6 DEF h
<1>2. /\ \A i \in D, k \in K : b[k][i] = a[i][k]
      /\ \A k \in K : cols[k] = SumOver(b[k], D)
  OBVIOUS
<1>3. \A i \in D, k \in K : a[i][k] \in Nat
  BY <1>1
<1>4. \A i \in D : total[i] = SumOver(a[i], K)
  BY <1>1
<1>. HIDE DEF a, b
<1>5. Crossed(D, K, a, b, total, cols)
  BY <1>2, <1>3, <1>4 DEF Crossed
<1>6. ASSUME NEW k \in K PROVE cols[k] \in Nat
  <2>1. \A i \in D : b[k][i] \in Nat
    BY <1>2, <1>3
  <2>. QED BY <1>2, <2>1, SumType
<1>. QED BY <1>5, <1>6, SumsExchange
================================================================================
