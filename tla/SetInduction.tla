---------------------------- MODULE SetInduction ----------------------------
(***************************************************************************)
(* Induction for the proofs about loops.  The theorems of the library take *)
(* a predicate as parameter, which no prover here can instantiate; these   *)
(* take a set.  They rest on the fact that the strict subsets of a finite  *)
(* set are well founded.                                                   *)
(***************************************************************************)
EXTENDS Integers, FiniteSetTheorems, TLAPS

(* A set of numbers that is not empty has a least element. *)
LEMMA LeastNumber ==
  ASSUME NEW T \in SUBSET Nat, T # {}
  PROVE  \E x \in T : \A y \in T : x <= y
<1>1. PICK n \in T : TRUE
  OBVIOUS
<1> DEFINE S == 0..n
           D == {0..k : k \in T \cap S}
<1>2. D \subseteq FiniteSubsetsOf(S)
  <2>1. ASSUME NEW k \in T \cap S PROVE 0..k \in FiniteSubsetsOf(S)
    <3>1. IsFiniteSet(0..k)
      BY FS_Interval
    <3>2. 0..k \in SUBSET S
      OBVIOUS
    <3> QED BY <3>1, <3>2 DEF FiniteSubsetsOf
  <2> QED BY <2>1
<1>3. 0..n \in D
  BY <1>1
<1>4. PICK m \in D : \A d \in D : ~ (<<d, m>> \in StrictSubsetOrdering(S))
  <2> HIDE DEF D, S
  <2> QED BY <1>2, <1>3, FS_StrictSubsetOrderingWellFounded, WFMin
<1>5. PICK k \in T \cap S : m = 0..k
  OBVIOUS
<1>6. ASSUME NEW y \in T, y < k PROVE FALSE
  <2>1. y \in T \cap S /\ 0..y \in D
    BY <1>5, <1>6
  <2>2. <<0..y, 0..k>> \in StrictSubsetOrdering(S)
    <3>1. 0..y \in SUBSET S /\ 0..k \in SUBSET S
      BY <1>5, <2>1
    <3>2. 0..y \subseteq 0..k /\ 0..y # 0..k
      BY <1>6
    <3> QED BY <3>1, <3>2 DEF StrictSubsetOrdering
  <2> QED BY <2>1, <2>2, <1>4, <1>5
<1> QED BY <1>5, <1>6

(* A set with 0 and with n + 1 for each of its n has every number. *)
LEMMA Induction ==
  ASSUME NEW T, 0 \in T, \A n \in Nat : n \in T => n + 1 \in T
  PROVE  \A n \in Nat : n \in T
<1> SUFFICES ASSUME Nat \ T # {} PROVE FALSE
  OBVIOUS
<1>1. PICK x \in Nat \ T : \A y \in Nat \ T : x <= y
  BY LeastNumber
<1> QED BY <1>1, x - 1 \in Nat

(* The rounds of a loop exist: a start and a step determine a sequence of   *)
(* states.                                                                  *)
LEMMA Rounds ==
  ASSUME NEW S, NEW a \in S, NEW g \in [S -> S]
  PROVE  \E f \in [Nat -> S] : f[0] = a /\ \A n \in Nat : f[n + 1] = g[f[n]]
<1> DEFINE First(n, f) == f[0] = a /\ \A m \in 0..n - 1 : f[m + 1] = g[f[m]]
           T == {n \in Nat : \E f \in [0..n -> S] : First(n, f)}
<1>1. \A n \in Nat : n \in T
  <2>1. 0 \in T
    <3>1. [m \in 0..0 |-> a] \in [0..0 -> S] /\ First(0, [m \in 0..0 |-> a])
      OBVIOUS
    <3> QED BY <3>1
  <2>2. ASSUME NEW n \in Nat, n \in T PROVE n + 1 \in T
    <3>1. PICK f \in [0..n -> S] : First(n, f)
      BY <2>2
    <3> DEFINE h == [m \in 0..n + 1 |-> IF m = n + 1 THEN g[f[n]] ELSE f[m]]
    <3>2. h \in [0..n + 1 -> S]
      OBVIOUS
    <3>3. First(n + 1, h)
      BY <3>1
    <3> HIDE DEF h, First
    <3> QED BY <3>2, <3>3
  <2> HIDE DEF T
  <2> QED BY <2>1, <2>2, Induction
<1>2. ASSUME NEW n \in Nat, NEW k \in Nat, NEW f \in [0..n -> S], NEW h \in [0..k -> S],
             First(n, f), First(k, h)
      PROVE  \A m \in Nat : m <= n /\ m <= k => f[m] = h[m]
  <2> DEFINE U == {m \in Nat : m <= n /\ m <= k => f[m] = h[m]}
  <2>1. 0 \in U
    BY <1>2
  <2>2. ASSUME NEW m \in Nat, m \in U PROVE m + 1 \in U
    BY <1>2, <2>2
  <2>3. \A m \in Nat : m \in U
    <3> HIDE DEF U
    <3> QED BY <2>1, <2>2, Induction
  <2> QED BY <2>3
<1> DEFINE F(n) == CHOOSE f \in [0..n -> S] : First(n, f)
           r == [n \in Nat |-> F(n)[n]]
<1>3. \A n \in Nat : F(n) \in [0..n -> S] /\ First(n, F(n))
  <2> HIDE DEF First
  <2> QED BY <1>1
<1>4. r \in [Nat -> S]
  <2> HIDE DEF F
  <2> QED BY <1>3
<1>5. r[0] = a
  <2>1. r[0] = F(0)[0]
    <3> DEFINE G(n) == F(n)[n]
    <3>1. r = [n \in Nat |-> G(n)]
      OBVIOUS
    <3> HIDE DEF G, r
    <3>2. r[0] = G(0)
      BY <3>1
    <3> QED BY <3>2 DEF G
  <2>2. First(0, F(0))
    <3> HIDE DEF F, First
    <3> QED BY <1>3, 0 \in Nat
  <2> HIDE DEF F
  <2> QED BY <2>1, <2>2
<1>6. ASSUME NEW n \in Nat PROVE r[n + 1] = g[r[n]]
  <2>1. F(n + 1)[n + 1] = g[F(n + 1)[n]]
    <3> HIDE DEF F
    <3> QED BY <1>3
  <2>2. F(n + 1)[n] = F(n)[n]
    <3>1. /\ F(n + 1) \in [0..n + 1 -> S] /\ First(n + 1, F(n + 1))
          /\ F(n) \in [0..n -> S] /\ First(n, F(n))
      BY <1>3, n + 1 \in Nat
    <3> HIDE DEF F, First
    <3> QED BY <1>2, <3>1, n + 1 \in Nat
  <2> HIDE DEF F
  <2> QED BY <2>1, <2>2
<1> HIDE DEF r
<1> QED BY <1>4, <1>5, <1>6

(* The same, with a name for the sequence. *)
IsRounds(f, S, a, g) ==
  f \in [Nat -> S] /\ f[0] = a /\ \A n \in Nat : f[n + 1] = g[f[n]]

LEMMA RoundsExist ==
  ASSUME NEW S, NEW a, NEW g, a \in S, g \in [S -> S]
  PROVE  \E f : IsRounds(f, S, a, g)
BY Rounds DEF IsRounds

(* A loop whose rounds bring it nearer to its end, by a measure d, until    *)
(* they change nothing has ended after as many rounds as d says.            *)
LEMMA LoopEnds ==
  ASSUME NEW S, NEW g \in [S -> S], NEW d \in [S -> Nat], NEW n \in Nat, NEW f,
         f[0] \in S, d[f[0]] <= n,
         \A k \in Nat : f[k] \in S => f[k + 1] = g[f[k]],
         \A m \in S : g[m] = m \/ d[g[m]] < d[m]
  PROVE  f[n] \in S /\ g[f[n]] = f[n]
<1> DEFINE T == {k \in Nat : f[k] \in S /\ (g[f[k]] = f[k] \/ d[f[k]] + k <= n)}
<1>1. 0 \in T
  OBVIOUS
<1>2. ASSUME NEW k \in Nat, k \in T PROVE k + 1 \in T
  <2>1. f[k] \in S /\ f[k + 1] = g[f[k]] /\ f[k + 1] \in S
    BY <1>2
  <2>2. CASE g[f[k]] = f[k]
    BY <2>1, <2>2
  <2>3. CASE g[f[k]] # f[k]
    <3>1. d[f[k]] + k <= n /\ d[f[k + 1]] < d[f[k]]
      BY <1>2, <2>1, <2>3
    <3>2. d[f[k]] \in Nat /\ d[f[k + 1]] \in Nat
      BY <2>1
    <3> QED BY <2>1, <3>1, <3>2
  <2> QED BY <2>2, <2>3
<1>3. n \in T
  <2> HIDE DEF T
  <2> QED BY <1>1, <1>2, Induction
<1>4. CASE g[f[n]] # f[n]
  <2>1. /\ d[f[n]] + n <= n /\ f[n] \in S
        /\ d[f[n]] \in Nat /\ d[g[f[n]]] \in Nat /\ d[g[f[n]]] < d[f[n]]
    BY <1>3, <1>4
  <2> QED BY <2>1
<1> QED BY <1>3, <1>4
=============================================================================
