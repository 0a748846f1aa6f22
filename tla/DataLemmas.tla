----------------------------- MODULE DataLemmas -----------------------------
(***************************************************************************)
(* Facts about naturals, maxima, sequences, finite sets, folds and sums    *)
(* over them that several proofs use.  Those that the library states too   *)
(* are proved here from the definitions: a proof that extends this module  *)
(* then carries the few it needs, and not the library's other theorems.    *)
(***************************************************************************)
EXTENDS Integers, Sequences, FiniteSets, FiniteSetsExt, WellFoundedInduction, TLAPS

\* Leaves that name no prover are for the SMT solver first, with time to spare.
USE SMTT(60), ZenonT(60), SMTT(120)

\* Every nonempty set of naturals has a least element.
LEMMA LeastExists ==
  ASSUME NEW S, S \subseteq Nat, S # {}
  PROVE  \E x \in S : \A y \in S : x <= y
<1>1. \E x \in S : \A y \in S : ~ (<<y, x>> \in OpToRel(<, Nat))
  BY NatLessThanWellFounded, WFMin, ZenonT(60)
<1>2. \A x, y \in S : ~ (<<y, x>> \in OpToRel(<, Nat)) => x <= y
  BY DEF OpToRel
<1> QED
  BY <1>1, <1>2, ZenonT(60)

\* Induction over the numbers up to n.
LEMMA UpTo ==
  ASSUME NEW n \in Nat, NEW U, 0 \in U, \A k \in 0..(n - 1) : k \in U => k + 1 \in U
  PROVE  \A k \in 0..n : k \in U
<1> DEFINE B == {k \in 0..n : k \notin U}
<1> SUFFICES ASSUME B # {} PROVE FALSE
  OBVIOUS
<1>1. PICK k \in B : \A y \in B : k <= y
  <2>1. B \subseteq Nat
    OBVIOUS
  <2> HIDE DEF B
  <2> QED
    BY <2>1, LeastExists, ZenonT(60)
<1>2. k \in 1..n /\ k - 1 \in 0..(n - 1) /\ k - 1 \in 0..n /\ k - 1 + 1 = k /\ ~ (k <= k - 1)
  BY <1>1
<1>3. k - 1 \notin B
  BY <1>1, <1>2
<1> QED
  BY <1>1, <1>2, <1>3

\* A nonempty set of naturals with an upper bound has a maximum, and Max returns it.
LEMMA MaxIs ==
  ASSUME NEW r \in Nat, NEW S, S \subseteq 0..r, S # {}
  PROVE  /\ Max(S) \in S
         /\ \A m \in S : m <= Max(S)
<1> DEFINE U == {k \in Nat : \A m \in S : m <= k}
<1>1. U \subseteq Nat /\ r \in U
  OBVIOUS
<1>2. PICK k \in U : \A y \in U : k <= y
  BY <1>1, LeastExists, ZenonT(60)
<1>3. k \in Nat /\ \A m \in S : m <= k
  OBVIOUS
<1>4. k \in S
  <2>1. SUFFICES ASSUME k \notin S PROVE FALSE
    OBVIOUS
  <2>2. k # 0
    <3>1. PICK m \in S : TRUE
      BY ZenonT(60)
    <3> QED
      BY <1>3, <2>1, <3>1
  <2>3. k - 1 \in U
    BY <1>3, <2>1, <2>2
  <2> QED
    BY <1>2, <1>3, <2>3
<1>5. \E n \in S : \A m \in S : n >= m
  BY <1>3, <1>4
<1>6. Max(S) \in S /\ \A m \in S : Max(S) >= m
  BY <1>5, ZenonT(60) DEF Max
<1> QED
  BY <1>6

\* The least element of a set of naturals, which Min returns.
LEMMA MinIs ==
  ASSUME NEW S, S \subseteq Nat, S # {}
  PROVE  /\ Min(S) \in S
         /\ \A m \in S : Min(S) <= m
<1>1. \E x \in S : \A y \in S : x <= y
  BY LeastExists, ZenonT(60)
<1>2. Min(S) \in S /\ \A m \in S : Min(S) <= m
  BY <1>1, ZenonT(60) DEF Min
<1> QED
  BY <1>2

\* The lesser, and the greater, of two numbers.
LEMMA MinOfTwo ==
  ASSUME NEW a \in Int, NEW b \in Int
  PROVE  Min({a, b}) = IF a <= b THEN a ELSE b
<1>1. \E x \in {a, b} : \A y \in {a, b} : x <= y
  OBVIOUS
<1>2. Min({a, b}) \in {a, b} /\ \A y \in {a, b} : Min({a, b}) <= y
  BY <1>1, ZenonT(60) DEF Min
<1> QED
  BY <1>2

LEMMA MaxOfTwo ==
  ASSUME NEW a \in Int, NEW b \in Int
  PROVE  Max({a, b}) = IF a >= b THEN a ELSE b
<1>1. \E x \in {a, b} : \A y \in {a, b} : x >= y
  OBVIOUS
<1>2. Max({a, b}) \in {a, b} /\ \A y \in {a, b} : Max({a, b}) >= y
  BY <1>1, ZenonT(60) DEF Max
<1> QED
  BY <1>2

-----------------------------------------------------------------------------
\* The elements of a sequence, of a part of it, and of two sequences in a row.
LEMMA ElementIs ==
  ASSUME NEW S, NEW s \in Seq(S), NEW i \in 1..Len(s)
  PROVE  s[i] \in S
  OBVIOUS

LEMMA LenIs ==
  ASSUME NEW S, NEW s \in Seq(S)
  PROVE  /\ Len(s) \in Nat /\ DOMAIN s = 1..Len(s) /\ s \in [1..Len(s) -> S]
         /\ s # <<>> => Len(s) # 0
  OBVIOUS

LEMMA SubSeqIs ==
  ASSUME NEW S, NEW s, NEW a \in Int, NEW b \in Int, \A i \in a..b : s[i] \in S
  PROVE  /\ SubSeq(s, a, b) \in Seq(S)
         /\ Len(SubSeq(s, a, b)) = IF a <= b THEN b - a + 1 ELSE 0
         /\ \A i \in 1..(b - a + 1) : SubSeq(s, a, b)[i] = s[a + i - 1]
  OBVIOUS

LEMMA ConcatIs ==
  ASSUME NEW S, NEW s \in Seq(S), NEW t \in Seq(S)
  PROVE  /\ s \o t \in Seq(S)
         /\ Len(s \o t) = Len(s) + Len(t)
         /\ \A i \in 1..(Len(s) + Len(t)) :
              (s \o t)[i] = IF i <= Len(s) THEN s[i] ELSE t[i - Len(s)]
  OBVIOUS

\* A sequence with one more element, and without its first.
LEMMA AppendIs ==
  ASSUME NEW S, NEW s \in Seq(S), NEW e \in S
  PROVE  /\ Append(s, e) \in Seq(S)
         /\ Len(Append(s, e)) = Len(s) + 1
         /\ \A i \in 1..Len(s) : Append(s, e)[i] = s[i]
         /\ Append(s, e)[Len(s) + 1] = e
  OBVIOUS

LEMMA TailIs ==
  ASSUME NEW S, NEW s \in Seq(S), s # <<>>
  PROVE  /\ Head(s) \in S
         /\ Tail(s) \in Seq(S)
         /\ Len(Tail(s)) = Len(s) - 1
         /\ \A i \in 1..Len(Tail(s)) : Tail(s)[i] = s[i + 1]
  OBVIOUS

\* A sequence without its last element.
LEMMA FrontIs ==
  ASSUME NEW S, NEW s \in Seq(S), Len(s) >= 1
  PROVE  /\ SubSeq(s, 1, Len(s) - 1) \in Seq(S)
         /\ Len(SubSeq(s, 1, Len(s) - 1)) = Len(s) - 1
         /\ \A i \in 1..(Len(s) - 1) : SubSeq(s, 1, Len(s) - 1)[i] = s[i]
<1> DEFINE n == Len(s) - 1
           front == SubSeq(s, 1, n)
<1>1. Len(s) \in Nat /\ n \in Nat
  OBVIOUS
<1>2. \A i \in 1..n : s[i] \in S
  BY <1>1, ElementIs
<1>3. /\ front \in Seq(S)
      /\ Len(front) = IF 1 <= n THEN n - 1 + 1 ELSE 0
      /\ \A i \in 1..(n - 1 + 1) : front[i] = s[1 + i - 1]
  <2>1. n \in Int /\ 1 \in Int
    BY <1>1
  <2> HIDE DEF n
  <2> QED
    BY <1>2, <2>1, SubSeqIs
<1>4. \A i \in 1..n : i \in 1..(n - 1 + 1) /\ 1 + i - 1 = i
  BY <1>1
<1> HIDE DEF front
<1>5. \A i \in 1..n : front[i] = s[i]
  BY <1>3, <1>4
<1>6. Len(front) = n
  <2> HIDE DEF n
  <2> QED
    BY <1>1, <1>3
<1> QED
  BY <1>3, <1>5, <1>6 DEF front

\* Values that are computed one after the other, from base by the functions of G, exist as
\* one function.
Steps(n, V) == [1..n -> [V -> V]]
Computes(f, n, V, base, G) ==
  f \in [0..n -> V] /\ f[0] = base /\ \A i \in 1..n : f[i] = G[i][f[i - 1]]

LEMMA RecursionExists ==
  ASSUME NEW V, NEW n \in Nat, NEW base \in V, NEW G \in Steps(n, V)
  PROVE  \E f : Computes(f, n, V, base, G)
<1> USE DEF Steps
<1> DEFINE Runs(k) == \E f \in [0..k -> V] : f[0] = base /\ \A i \in 1..k : f[i] = G[i][f[i - 1]]
           K == {k \in 0..n : Runs(k)}
<1>1. Runs(0)
  <2>1. [i \in 0..0 |-> base] \in [0..0 -> V] /\ [i \in 0..0 |-> base][0] = base /\ 1..0 = {}
    OBVIOUS
  <2> QED
    BY <2>1, ZenonT(60)
<1>2. ASSUME NEW k \in Nat, k + 1 <= n, Runs(k)
      PROVE  Runs(k + 1)
  <2>1. PICK f \in [0..k -> V] : f[0] = base /\ \A i \in 1..k : f[i] = G[i][f[i - 1]]
    BY <1>2
  <2> DEFINE g == [i \in 0..(k + 1) |-> IF i = k + 1 THEN G[k + 1][f[k]] ELSE f[i]]
  <2>2. f[k] \in V /\ G[k + 1] \in [V -> V]
    BY <1>2
  <2>3. \A i \in 0..k : g[i] = f[i] /\ f[i] \in V
    OBVIOUS
  <2>4. g[k + 1] = G[k + 1][f[k]] /\ g[k + 1] \in V
    BY <2>2
  <2>5. g \in [0..(k + 1) -> V]
    BY <2>2
  <2> HIDE DEF g
  <2>6. g[0] = base
    BY <2>1, <2>3
  <2>7. ASSUME NEW i \in 1..(k + 1) PROVE g[i] = G[i][g[i - 1]]
    <3>1. CASE i = k + 1
      <4>1. i - 1 = k /\ k \in 0..k
        BY <3>1
      <4> QED
        BY <2>3, <2>4, <3>1, <4>1
    <3>2. CASE i # k + 1
      <4>1. i \in 1..k /\ i \in 0..k /\ i - 1 \in 0..k
        BY <3>2
      <4> QED
        BY <2>1, <2>3, <4>1
    <3> QED
      BY <3>1, <3>2
  <2> QED
    BY <2>5, <2>6, <2>7
<1>3. n \in K
  <2> HIDE DEF Runs
  <2>1. 0 \in K
    BY <1>1
  <2>2. ASSUME NEW k \in 0..(n - 1), k \in K PROVE k + 1 \in K
    <3>1. k \in Nat /\ k + 1 <= n /\ k + 1 \in 0..n /\ Runs(k)
      BY <2>2
    <3>2. Runs(k + 1)
      BY <1>2, <3>1
    <3> QED
      BY <3>1, <3>2
  <2> HIDE DEF K
  <2>3. \A k \in 0..n : k \in K
    BY <2>1, <2>2, UpTo, ZenonT(60)
  <2> QED
    BY <2>3
<1>4. Runs(n)
  BY <1>3
<1> QED
  BY <1>4, ZenonT(60) DEF Computes

-----------------------------------------------------------------------------
\* A subset of a finite set is finite, and so is what a function makes of one.
LEMMA FiniteSubset ==
  ASSUME NEW S, IsFiniteSet(S), NEW T \in SUBSET S
  PROVE  IsFiniteSet(T)
<1>1. PICK q \in Seq(S) : \A s \in S : \E i \in 1..Len(q) : q[i] = s
  BY ZenonT(60) DEF IsFiniteSet
<1>2. CASE T = {}
  <2>1. <<>> \in Seq(T)
    OBVIOUS
  <2> QED
    BY <1>2, <2>1, ZenonT(60) DEF IsFiniteSet
<1>3. CASE T # {}
  <2>1. PICK t \in T : TRUE
    BY <1>3, ZenonT(60)
  <2> DEFINE p == [i \in 1..Len(q) |-> IF q[i] \in T THEN q[i] ELSE t]
  <2>2. Len(q) \in Nat
    BY <1>1
  <2>3. p \in Seq(T) /\ Len(p) = Len(q)
    BY <2>2
  <2>4. \A s \in T : \E i \in 1..Len(q) : p[i] = s
    BY <1>1
  <2> HIDE DEF p
  <2> QED
    BY <2>3, <2>4, ZenonT(60) DEF IsFiniteSet
<1> QED
  BY <1>2, <1>3

LEMMA FiniteImage ==
  ASSUME NEW S, IsFiniteSet(S), NEW T, NEW h \in [S -> T], \A t \in T : \E s \in S : h[s] = t
  PROVE  IsFiniteSet(T)
<1>1. PICK q \in Seq(S) : \A s \in S : \E i \in 1..Len(q) : q[i] = s
  BY ZenonT(60) DEF IsFiniteSet
<1> DEFINE p == [i \in 1..Len(q) |-> h[q[i]]]
<1>2. Len(q) \in Nat /\ \A i \in 1..Len(q) : q[i] \in S
  BY <1>1
<1>3. p \in Seq(T) /\ Len(p) = Len(q)
  BY <1>2
<1>4. ASSUME NEW t \in T PROVE \E i \in 1..Len(q) : p[i] = t
  <2>1. PICK s \in S : h[s] = t
    OBVIOUS
  <2>2. PICK i \in 1..Len(q) : q[i] = s
    BY <1>1
  <2> QED
    BY <2>1, <2>2
<1> HIDE DEF p
<1> QED
  BY <1>3, <1>4, ZenonT(60) DEF IsFiniteSet

\* The members of s can be counted with the numbers up to n.
Counted(s, n) == \E q : \A x \in s : \E i \in 1..n : q[i] = x

\* A set without one of its members takes one number less.
LEMMA CountedLess ==
  ASSUME NEW s, NEW n \in Nat, Counted(s, n), NEW x \in s
  PROVE  n # 0 /\ Counted(s \ {x}, n - 1)
<1>1. PICK q : \A y \in s : \E i \in 1..n : q[i] = y
  BY DEF Counted
<1>2. PICK k \in 1..n : q[k] = x
  BY <1>1
<1>3. n # 0
  BY <1>2
<1> DEFINE p == [i \in 1..(n - 1) |-> IF i = k THEN q[n] ELSE q[i]]
<1>4. ASSUME NEW y \in s \ {x} PROVE \E i \in 1..(n - 1) : p[i] = y
  <2>1. PICK i \in 1..n : q[i] = y
    BY <1>1
  <2>2. i # k
    BY <1>2, <2>1
  <2>3. CASE i = n
    <3>1. k \in 1..(n - 1)
      BY <2>2, <2>3
    <3>2. p[k] = y
      BY <2>1, <2>3, <3>1
    <3> QED
      BY <3>1, <3>2
  <2>4. CASE i # n
    <3>1. i \in 1..(n - 1)
      BY <2>4
    <3>2. p[i] = y
      BY <2>1, <2>2, <3>1
    <3> QED
      BY <3>1, <3>2
  <2> QED
    BY <2>3, <2>4
<1> HIDE DEF p
<1>5. Counted(s \ {x}, n - 1)
  BY <1>4, ZenonT(60) DEF Counted
<1> QED
  BY <1>3, <1>5

\* Enough numbers count every subset of a finite set.
LEMMA FiniteCounted ==
  ASSUME NEW S, IsFiniteSet(S)
  PROVE  \E n \in Nat : \A s \in SUBSET S : Counted(s, n)
<1>1. PICK q \in Seq(S) : \A s \in S : \E i \in 1..Len(q) : q[i] = s
  BY ZenonT(60) DEF IsFiniteSet
<1>2. Len(q) \in Nat
  BY <1>1
<1>3. \A s \in SUBSET S : Counted(s, Len(q))
  BY <1>1, ZenonT(60) DEF Counted
<1> QED
  BY <1>2, <1>3

\* Induction over the subsets of a finite set: U has every subset that it has all of once
\* it has those with one element less.
LEMMA SubsetInduction ==
  ASSUME NEW S, IsFiniteSet(S), NEW U,
         \A s \in SUBSET S : (\A x \in s : s \ {x} \in U) => s \in U
  PROVE  \A s \in SUBSET S : s \in U
<1> DEFINE K == {k \in Nat : \A s \in SUBSET S : Counted(s, k) => s \in U}
<1>1. PICK n \in Nat : \A s \in SUBSET S : Counted(s, n)
  BY FiniteCounted
<1>2. ASSUME NEW k \in Nat, k # 0 => k - 1 \in K PROVE k \in K
  <2> SUFFICES ASSUME NEW s \in SUBSET S, Counted(s, k) PROVE s \in U
    OBVIOUS
  <2>1. ASSUME NEW x \in s PROVE s \ {x} \in U
    <3>1. k # 0 /\ Counted(s \ {x}, k - 1)
      BY CountedLess
    <3> QED
      BY <1>2, <3>1
  <2> QED
    BY <2>1
<1> HIDE DEF K
<1>3. 0 \in K /\ \A k \in 0..(n - 1) : k \in K => k + 1 \in K
  <2>1. 0 \in K
    BY <1>2
  <2>2. ASSUME NEW k \in 0..(n - 1), k \in K PROVE k + 1 \in K
    <3>1. k + 1 \in Nat /\ k + 1 - 1 = k
      OBVIOUS
    <3> QED
      BY <1>2, <2>2, <3>1
  <2> QED
    BY <2>1, <2>2
<1>4. n \in K
  BY <1>3, UpTo
<1> QED
  BY <1>1, <1>4 DEF K

-----------------------------------------------------------------------------
(***************************************************************************)
(* Folding over a finite set, in the order in which CHOOSE picks from what *)
(* is left: the function that holds the fold of every subset.              *)
(***************************************************************************)
AnyOf(s) == CHOOSE x \in s : TRUE
RestOf(s) == s \ {AnyOf(s)}

FoldSteps(S, V) == [S -> [V -> V]]
Folds(f, S, V, base, G) ==
  /\ f \in [SUBSET S -> V]
  /\ f[{}] = base
  /\ \A s \in SUBSET S : s # {} => f[s] = G[AnyOf(s)][f[RestOf(s)]]

\* What AnyOf takes from a set and what RestOf leaves of it.
LEMMA PickIs ==
  ASSUME NEW S, NEW s \in SUBSET S, s # {}
  PROVE  AnyOf(s) \in s /\ AnyOf(s) \in S /\ RestOf(s) \in SUBSET S /\ AnyOf(s) \notin RestOf(s)
<1>1. \E x \in s : TRUE
  BY ZenonT(60)
<1>2. AnyOf(s) \in s
  BY <1>1, ZenonT(60) DEF AnyOf
<1> QED
  BY <1>2 DEF RestOf

\* The folds of all subsets exist as one function.
LEMMA FoldExists ==
  ASSUME NEW S, IsFiniteSet(S), NEW V, NEW base \in V, NEW G \in FoldSteps(S, V)
  PROVE  \E f : Folds(f, S, V, base, G)
<1> DEFINE Holds(f, n) ==
             /\ f \in [SUBSET S -> V]
             /\ f[{}] = base
             /\ \A s \in SUBSET S : s # {} /\ Counted(s, n) => f[s] = G[AnyOf(s)][f[RestOf(s)]]
           K == {n \in Nat : \E f : Holds(f, n)}
<1>1. PICK m \in Nat : \A s \in SUBSET S : Counted(s, m)
  BY FiniteCounted
<1>2. ASSUME NEW s \in SUBSET S, s # {}
      PROVE  /\ AnyOf(s) \in S /\ RestOf(s) \in SUBSET S
             /\ \A n \in Nat : Counted(s, n) => n # 0 /\ Counted(RestOf(s), n - 1)
  <2>1. AnyOf(s) \in s /\ AnyOf(s) \in S /\ RestOf(s) \in SUBSET S
    BY <1>2, PickIs
  <2>2. \A n \in Nat : Counted(s, n) => n # 0 /\ Counted(s \ {AnyOf(s)}, n - 1)
    BY <2>1, CountedLess
  <2> QED
    BY <2>1, <2>2 DEF RestOf
<1>3. 0 \in K
  <2> DEFINE f == [s \in SUBSET S |-> base]
  <2>1. f \in [SUBSET S -> V] /\ f[{}] = base
    OBVIOUS
  <2>2. \A s \in SUBSET S : ~ (s # {} /\ Counted(s, 0))
    BY <1>2
  <2> HIDE DEF f
  <2>3. Holds(f, 0)
    BY <2>1, <2>2
  <2> QED
    BY <2>3
<1>4. ASSUME NEW n \in Nat, n \in K PROVE n + 1 \in K
  <2>1. PICK f : Holds(f, n)
    BY <1>4, ZenonT(60)
  <2> DEFINE g == [s \in SUBSET S |-> IF s = {} THEN base ELSE G[AnyOf(s)][f[RestOf(s)]]]
  <2>2. ASSUME NEW s \in SUBSET S, s # {} PROVE G[AnyOf(s)][f[RestOf(s)]] \in V
    <3>1. f[RestOf(s)] \in V
      BY <1>2, <2>1, <2>2
    <3>2. G[AnyOf(s)] \in [V -> V]
      BY <1>2, <2>2 DEF FoldSteps
    <3> QED
      BY <3>1, <3>2
  <2>3. g \in [SUBSET S -> V] /\ g[{}] = base
    BY <2>2
  <2>4. \A s \in SUBSET S : s # {} => g[s] = G[AnyOf(s)][f[RestOf(s)]]
    OBVIOUS
  <2> HIDE DEF g
  <2>5. \A s \in SUBSET S : Counted(s, n) => g[s] = f[s]
    BY <2>1, <2>3, <2>4, ZenonT(60)
  <2>6. ASSUME NEW s \in SUBSET S, s # {}, Counted(s, n + 1)
        PROVE  g[s] = G[AnyOf(s)][g[RestOf(s)]]
    <3>1. n + 1 \in Nat /\ n + 1 - 1 = n
      OBVIOUS
    <3>2. RestOf(s) \in SUBSET S /\ Counted(RestOf(s), n)
      BY <1>2, <2>6, <3>1
    <3>3. g[RestOf(s)] = f[RestOf(s)]
      BY <2>5, <3>2
    <3> QED
      BY <2>4, <2>6, <3>3
  <2>7. Holds(g, n + 1)
    BY <2>3, <2>6
  <2> QED
    BY <2>7
<1> HIDE DEF K
<1>5. m \in K
  <2>1. \A k \in 0..(m - 1) : k \in K => k + 1 \in K
    BY <1>4
  <2> QED
    BY <1>3, <2>1, UpTo
<1>6. PICK f : Holds(f, m)
  BY <1>5 DEF K
<1>7. Folds(f, S, V, base, G)
  BY <1>1, <1>6 DEF Folds
<1> QED
  BY <1>7

\* What a function on the subsets of T satisfies that folds as long as it stays in V.
FoldsUp(g, T, V, base, G) ==
  /\ g[{}] = base
  /\ \A s \in SUBSET T : s # {} /\ g[RestOf(s)] \in V => g[s] = G[AnyOf(s)][g[RestOf(s)]]

\* Such a function agrees with the folds of the subsets of S.
LEMMA FoldAgrees ==
  ASSUME NEW S, IsFiniteSet(S), NEW V, NEW base \in V, NEW G \in FoldSteps(S, V),
         NEW f, Folds(f, S, V, base, G), NEW T \in SUBSET S, NEW g, FoldsUp(g, T, V, base, G)
  PROVE  g[T] = f[T]
<1> DEFINE U == {s \in SUBSET T : g[s] = f[s]}
<1>1. IsFiniteSet(T)
  BY FiniteSubset
<1>2. ASSUME NEW s \in SUBSET T, \A x \in s : s \ {x} \in U PROVE s \in U
  <2>1. CASE s = {}
    BY <2>1 DEF Folds, FoldsUp
  <2>2. CASE s # {}
    <3>1. AnyOf(s) \in s /\ RestOf(s) \in SUBSET T /\ RestOf(s) \in SUBSET S
      BY <2>2, PickIs, ZenonT(60)
    <3>2. g[RestOf(s)] = f[RestOf(s)]
      BY <1>2, <3>1 DEF RestOf
    <3>3. f[RestOf(s)] \in V
      BY <3>1 DEF Folds
    <3>4. g[s] = G[AnyOf(s)][g[RestOf(s)]]
      BY <2>2, <3>2, <3>3 DEF FoldsUp
    <3>5. f[s] = G[AnyOf(s)][f[RestOf(s)]]
      BY <2>2 DEF Folds
    <3> QED
      BY <3>2, <3>4, <3>5
  <2> QED
    BY <2>1, <2>2
<1>3. T \in U
  <2> HIDE DEF U
  <2>1. \A s \in SUBSET T : s \in U
    BY <1>1, <1>2, SubsetInduction, ZenonT(60)
  <2> QED
    BY <2>1
<1> QED
  BY <1>3

-----------------------------------------------------------------------------
(***************************************************************************)
(* Sums over the subsets of a finite set, whatever the order: the sum of a *)
(* set is that of any of its members and that of the others.               *)
(***************************************************************************)
SumsOf(f, S, W) ==
  /\ f \in [SUBSET S -> Nat]
  /\ f[{}] = 0
  /\ \A s \in SUBSET S : \A x \in s : f[s] = W[x] + f[s \ {x}]

\* The sums of all subsets exist as one function.
LEMMA SumsExist ==
  ASSUME NEW S, IsFiniteSet(S), NEW W \in [S -> Nat]
  PROVE  \E f : SumsOf(f, S, W)
<1> DEFINE G == [x \in S |-> [v \in Nat |-> W[x] + v]]
<1>1. G \in FoldSteps(S, Nat)
  BY DEF FoldSteps
<1>2. \A x \in S : \A v \in Nat : G[x][v] = W[x] + v
  OBVIOUS
<1> HIDE DEF G
<1>3. PICK f : Folds(f, S, Nat, 0, G)
  BY <1>1, FoldExists, ZenonT(60)
<1>4. f[{}] = 0 /\ f \in [SUBSET S -> Nat]
  BY <1>3 DEF Folds
<1>5. ASSUME NEW s \in SUBSET S, s # {}
      PROVE  AnyOf(s) \in s /\ f[s] = W[AnyOf(s)] + f[s \ {AnyOf(s)}]
  <2>1. AnyOf(s) \in s /\ AnyOf(s) \in S /\ RestOf(s) \in SUBSET S
    BY <1>5, PickIs
  <2>2. f[s] = G[AnyOf(s)][f[RestOf(s)]]
    BY <1>3, <1>5 DEF Folds
  <2>3. f[RestOf(s)] \in Nat
    BY <1>4, <2>1
  <2> QED
    BY <1>2, <2>1, <2>2, <2>3 DEF RestOf
<1> DEFINE U == {s \in SUBSET S : \A x \in s : f[s] = W[x] + f[s \ {x}]}
<1>6. ASSUME NEW s \in SUBSET S, \A x \in s : s \ {x} \in U PROVE s \in U
  <2> SUFFICES ASSUME NEW x \in s PROVE f[s] = W[x] + f[s \ {x}]
    OBVIOUS
  <2> DEFINE y == AnyOf(s)
             A == s \ {x}
             B == s \ {y}
             C == s \ {x, y}
  <2>1. y \in s /\ f[s] = W[y] + f[B]
    BY <1>5
  <2>2. CASE x = y
    BY <2>1, <2>2
  <2>3. CASE x # y
    <3> HIDE DEF y
    <3>1. A \in U /\ B \in U /\ A \ {y} = C /\ B \ {x} = C /\ y \in A /\ x \in B
      BY <1>6, <2>1, <2>3
    <3>2. A \in SUBSET S /\ B \in SUBSET S /\ C \in SUBSET S
      OBVIOUS
    <3>3. f[A] \in Nat /\ f[B] \in Nat /\ f[C] \in Nat /\ f[s] \in Nat
      BY <1>4, <3>2
    <3>4. W[x] \in Nat /\ W[y] \in Nat
      BY <2>1
    <3> HIDE DEF A, B, C
    <3>5. f[A] = W[y] + f[C] /\ f[B] = W[x] + f[C]
      BY <3>1
    <3>6. f[s] = W[x] + f[A]
      BY <2>1, <3>3, <3>4, <3>5
    <3> QED
      BY <3>6 DEF A
  <2> QED
    BY <2>2, <2>3
<1>7. \A s \in SUBSET S : s \in U
  <2> HIDE DEF U
  <2> QED
    BY <1>6, SubsetInduction, ZenonT(60)
<1> QED
  BY <1>4, <1>7, ZenonT(60) DEF SumsOf

\* A function that adds up the subsets of T in some order has the same sums.
AddsUp(g, T, W) ==
  /\ g[{}] = 0
  /\ \A s \in SUBSET T : s # {} => \E x \in s : g[s] = W[x] + g[s \ {x}]

LEMMA SumsAgree ==
  ASSUME NEW S, IsFiniteSet(S), NEW W, NEW f, SumsOf(f, S, W), NEW T \in SUBSET S,
         NEW g, AddsUp(g, T, W)
  PROVE  g[T] = f[T]
<1> DEFINE U == {s \in SUBSET T : g[s] = f[s]}
<1>1. ASSUME NEW s \in SUBSET T, \A x \in s : s \ {x} \in U PROVE s \in U
  <2>1. CASE s = {}
    BY <2>1 DEF SumsOf, AddsUp
  <2>2. CASE s # {}
    <3>1. PICK x \in s : g[s] = W[x] + g[s \ {x}]
      BY <2>2 DEF AddsUp
    <3>2. g[s \ {x}] = f[s \ {x}]
      BY <1>1
    <3>3. f[s] = W[x] + f[s \ {x}]
      BY DEF SumsOf
    <3> QED
      BY <3>1, <3>2, <3>3
  <2> QED
    BY <2>1, <2>2
<1> HIDE DEF U
<1>2. T \in U
  BY <1>1, FiniteSubset, SubsetInduction, ZenonT(60)
<1> QED
  BY <1>2 DEF U

\* The number of members of the subsets of a finite set.
LEMMA CountsExist ==
  ASSUME NEW S, IsFiniteSet(S)
  PROVE  \E f : /\ SumsOf(f, S, [x \in S |-> 1])
                /\ \A T \in SUBSET S : Cardinality(T) = f[T]
<1> DEFINE W == [x \in S |-> 1]
<1>1. W \in [S -> Nat] /\ \A x \in S : W[x] = 1
  OBVIOUS
<1> HIDE DEF W
<1>2. PICK f : SumsOf(f, S, W)
  BY <1>1, SumsExist
<1>3. ASSUME NEW T \in SUBSET S PROVE Cardinality(T) = f[T]
  <2> DEFINE one(s) == CHOOSE x : x \in s
             Adds(g) == g = [s \in SUBSET T |-> IF s = {} THEN 0 ELSE 1 + g[s \ {one(s)}]]
             g == CHOOSE g : Adds(g)
             h == [s \in SUBSET T |-> f[s]]
  <2>1. Cardinality(T) = g[T]
    BY ZenonT(60) DEF Cardinality
  <2>2. ASSUME NEW s \in SUBSET T, s # {} PROVE one(s) \in s
    <3>1. \E x : x \in s
      BY <2>2
    <3> QED
      BY <3>1, ZenonT(60)
  <2> HIDE DEF one
  <2>3. Adds(g)
    <3>1. ASSUME NEW s \in SUBSET T PROVE h[s] = IF s = {} THEN 0 ELSE 1 + h[s \ {one(s)}]
      <4>1. CASE s = {}
        BY <1>2, <4>1 DEF SumsOf
      <4>2. CASE s # {}
        <5>1. one(s) \in s /\ s \ {one(s)} \in SUBSET T
          BY <2>2, <4>2
        <5>2. f[s] = 1 + f[s \ {one(s)}]
          BY <1>1, <1>2, <5>1 DEF SumsOf
        <5> QED
          BY <4>2, <5>1, <5>2
      <4> QED
        BY <4>1, <4>2
    <3>2. Adds(h)
      BY <3>1, ZenonT(60)
    <3> QED
      BY <3>2, ZenonT(60)
  <2> HIDE DEF g
  <2>4. g[{}] = 0
    BY <2>3
  <2>5. ASSUME NEW s \in SUBSET T, s # {} PROVE \E x \in s : g[s] = W[x] + g[s \ {x}]
    <3>1. one(s) \in s /\ W[one(s)] = 1
      BY <1>1, <2>2, <2>5
    <3>2. g[s] = 1 + g[s \ {one(s)}]
      BY <2>3, <2>5, ZenonT(60)
    <3> QED
      BY <3>1, <3>2
  <2>6. AddsUp(g, T, W)
    BY <2>4, <2>5 DEF AddsUp
  <2>7. g[T] = f[T]
    BY <1>2, <2>6, SumsAgree
  <2> QED
    BY <2>1, <2>7
<1> QED
  BY <1>2, <1>3 DEF W

\* The number of members of a finite set, and of its subsets.
LEMMA CardinalityIs ==
  ASSUME NEW S, IsFiniteSet(S)
  PROVE  /\ Cardinality(S) \in Nat
         /\ Cardinality({}) = 0
         /\ \A x \in S : Cardinality(S) = 1 + Cardinality(S \ {x})
         /\ \A T \in SUBSET S : Cardinality(T) \in Nat /\ Cardinality(T) <= Cardinality(S)
<1>1. PICK f : /\ SumsOf(f, S, [x \in S |-> 1])
               /\ \A T \in SUBSET S : Cardinality(T) = f[T]
  BY CountsExist
<1>2. /\ f \in [SUBSET S -> Nat] /\ f[{}] = 0
      /\ \A s \in SUBSET S : \A x \in s : f[s] = 1 + f[s \ {x}]
  BY <1>1 DEF SumsOf
<1>3. Cardinality(S) = f[S] /\ Cardinality({}) = f[{}] /\ \A x \in S : Cardinality(S \ {x}) = f[S \ {x}]
  BY <1>1
<1> DEFINE U == {s \in SUBSET S : \A T \in SUBSET s : f[T] <= f[s]}
<1>4. ASSUME NEW s \in SUBSET S, \A x \in s : s \ {x} \in U PROVE s \in U
  <2> SUFFICES ASSUME NEW T \in SUBSET s PROVE f[T] <= f[s]
    OBVIOUS
  <2>1. f[T] \in Nat /\ f[s] \in Nat
    BY <1>2
  <2>2. CASE T = s
    BY <2>1, <2>2
  <2>3. CASE T # s
    <3>1. PICK x \in s : x \notin T
      BY <2>3
    <3>2. T \in SUBSET (s \ {x}) /\ s \ {x} \in U /\ s \ {x} \in SUBSET S
      BY <1>4, <3>1
    <3>3. f[T] <= f[s \ {x}] /\ f[s \ {x}] \in Nat /\ f[s] = 1 + f[s \ {x}]
      BY <1>2, <3>1, <3>2
    <3> QED
      BY <2>1, <3>3
  <2> QED
    BY <2>2, <2>3
<1>5. S \in U
  <2> HIDE DEF U
  <2> QED
    BY <1>4, SubsetInduction, ZenonT(60)
<1>6. \A T \in SUBSET S : f[T] \in Nat /\ f[T] <= f[S]
  BY <1>2, <1>5
<1> QED
  BY <1>1, <1>2, <1>3, <1>6

\* A set that a sequence lists, each member once, has as many members as the sequence.
LEMMA CountOf ==
  ASSUME NEW X, NEW n \in Nat, NEW q \in [1..n -> X], \A x \in X : \E i \in 1..n : q[i] = x,
         \A i, j \in 1..n : q[i] = q[j] => i = j
  PROVE  IsFiniteSet(X) /\ Cardinality(X) = n
<1>1. IsFiniteSet(X)
  <2>1. q \in Seq(X) /\ Len(q) = n
    OBVIOUS
  <2> QED
    BY <2>1, ZenonT(60) DEF IsFiniteSet
<1> DEFINE Part(k) == {q[i] : i \in 1..k}
           K == {k \in 0..n : Cardinality(Part(k)) = k}
<1>2. \A k \in 0..n : Part(k) \in SUBSET X /\ IsFiniteSet(Part(k))
  <2>1. ASSUME NEW k \in 0..n PROVE Part(k) \in SUBSET X
    OBVIOUS
  <2> HIDE DEF Part
  <2> QED
    BY <1>1, <2>1, FiniteSubset
<1>3. 0 \in K
  <2>1. Part(0) = {} /\ 0 \in 0..n
    OBVIOUS
  <2> HIDE DEF Part
  <2>2. Cardinality(Part(0)) = 0
    BY <1>1, <2>1, CardinalityIs, ZenonT(60)
  <2> QED
    BY <2>1, <2>2
<1>4. ASSUME NEW k \in 0..(n - 1), k \in K PROVE k + 1 \in K
  <2>1. k + 1 \in 0..n /\ k + 1 \in 1..n /\ k \in 0..n /\ k \in Nat
    OBVIOUS
  <2>2. q[k + 1] \in Part(k + 1) /\ Part(k + 1) \ {q[k + 1]} = Part(k)
    <3>1. q[k + 1] \in Part(k + 1)
      BY <2>1
    <3>2. ASSUME NEW i \in 1..(k + 1) PROVE i = k + 1 \/ i \in 1..k
      BY <2>1
    <3>3. ASSUME NEW i \in 1..k PROVE i \in 1..(k + 1) /\ i \in 1..n /\ i # k + 1
      BY <2>1
    <3>4. ASSUME NEW i \in 1..k PROVE q[i] # q[k + 1]
      BY <2>1, <3>3
    <3> QED
      BY <3>1, <3>2, <3>3, <3>4
  <2> HIDE DEF Part
  <2>3. Cardinality(Part(k + 1)) = 1 + Cardinality(Part(k))
    BY <1>2, <2>1, <2>2, CardinalityIs
  <2>4. Cardinality(Part(k)) = k
    BY <1>4
  <2> QED
    BY <2>1, <2>3, <2>4
<1>5. Part(n) = X
  OBVIOUS
<1>6. n \in K
  <2> HIDE DEF K
  <2> QED
    BY <1>3, <1>4, UpTo
<1>7. Cardinality(Part(n)) = n
  BY <1>6
<1> HIDE DEF Part
<1> QED
  BY <1>1, <1>5, <1>7

\* The number of integers of an interval.
LEMMA IntervalCount ==
  ASSUME NEW a \in Int, NEW b \in Int, a <= b + 1
  PROVE  IsFiniteSet(a..b) /\ Cardinality(a..b) = b - a + 1
<1> DEFINE n == b - a + 1
           q == [i \in 1..n |-> a + i - 1]
<1>1. n \in Nat
  OBVIOUS
<1>2. q \in [1..n -> a..b]
  OBVIOUS
<1>3. ASSUME NEW x \in a..b PROVE \E i \in 1..n : q[i] = x
  <2>1. x - a + 1 \in 1..n /\ q[x - a + 1] = x
    OBVIOUS
  <2> QED
    BY <2>1
<1>4. \A i, j \in 1..n : q[i] = q[j] => i = j
  OBVIOUS
<1> HIDE DEF n, q
<1>5. IsFiniteSet(a..b) /\ Cardinality(a..b) = n
  BY <1>1, <1>2, <1>3, <1>4, CountOf, ZenonT(60)
<1> QED
  BY <1>5 DEF n
=============================================================================
