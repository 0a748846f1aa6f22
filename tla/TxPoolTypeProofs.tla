-------------------------- MODULE TxPoolTypeProofs --------------------------
(***************************************************************************)
(* What the operators of TxPool compute, for every list and every finite   *)
(* set of transactions: total weights, the list by fee after erasing and   *)
(* inserting, and the transactions a block takes.  Every variable keeps    *)
(* its type.                                                               *)
(***************************************************************************)
EXTENDS TxPool, DataLemmas, TLAPS

\* Leaves that name no prover are for the SMT solver first, with time to spare.
USE SMTT(60), ZenonT(60), SMTT(120)

(***************************************************************************)
(* The total weight of a set of transactions does not depend on the order  *)
(* in which they are added up.                                             *)
(***************************************************************************)
\* The total weight of no transactions, and of a set by any of its members.
LEMMA TotalIs ==
  ASSUME IsFiniteSet(Tx)
  PROVE  /\ TotalWeight({}) = 0
         /\ \A S \in SUBSET Tx : TotalWeight(S) \in Nat
         /\ \A S \in SUBSET Tx : \A x \in S : TotalWeight(S) = Weight[x] + TotalWeight(S \ {x})
<1>1. PICK f : SumsOf(f, Tx, Weight)
  BY TxAssumption, SumsExist
<1>2. f[{}] = 0 /\ \A S \in SUBSET Tx : f[S] \in Nat
  BY <1>1 DEF SumsOf
<1>3. ASSUME NEW S \in SUBSET Tx PROVE TotalWeight(S) = f[S]
  <2> DEFINE Adds(g) == g = [s \in SUBSET S |-> IF s = {} THEN 0
                                               ELSE Weight[AnyOf(s)] + g[s \ {AnyOf(s)}]]
             g == CHOOSE g : Adds(g)
             h == [s \in SUBSET S |-> f[s]]
  <2>1. TotalWeight(S) = g[S]
    BY ZenonT(60) DEF TotalWeight, SumFunctionOnSet, FoldFunctionOnSet, MapThenFoldSet, AnyOf
  <2>2. ASSUME NEW s \in SUBSET S, s # {} PROVE AnyOf(s) \in s
    BY <2>2, PickIs
  <2>3. Adds(g)
    <3>1. ASSUME NEW s \in SUBSET S
          PROVE  h[s] = IF s = {} THEN 0 ELSE Weight[AnyOf(s)] + h[s \ {AnyOf(s)}]
      <4>1. CASE s = {}
        BY <1>2, <4>1
      <4>2. CASE s # {}
        <5>1. AnyOf(s) \in s /\ s \ {AnyOf(s)} \in SUBSET S
          BY <2>2, <4>2
        <5>2. f[s] = Weight[AnyOf(s)] + f[s \ {AnyOf(s)}]
          BY <1>1, <5>1 DEF SumsOf
        <5> QED
          BY <4>2, <5>1, <5>2
      <4> QED
        BY <4>1, <4>2
    <3>2. Adds(h)
      BY <3>1, ZenonT(60)
    <3> QED
      BY <3>2, ZenonT(60)
  <2> HIDE DEF g
  <2>4. AddsUp(g, S, Weight)
    <3>1. g[{}] = 0
      BY <2>3
    <3>2. ASSUME NEW s \in SUBSET S, s # {} PROVE g[s] = Weight[AnyOf(s)] + g[s \ {AnyOf(s)}]
      BY <2>3, <3>2, ZenonT(60)
    <3> QED
      BY <2>2, <3>1, <3>2, ZenonT(60) DEF AddsUp
  <2>5. g[S] = f[S]
    BY <1>1, <2>4, SumsAgree
  <2> QED
    BY <2>1, <2>5
<1>4. ASSUME NEW S \in SUBSET Tx, NEW x \in S PROVE TotalWeight(S) = Weight[x] + TotalWeight(S \ {x})
  <2>1. f[S] = Weight[x] + f[S \ {x}]
    BY <1>1 DEF SumsOf
  <2>2. TotalWeight(S) = f[S] /\ TotalWeight(S \ {x}) = f[S \ {x}]
    BY <1>3
  <2> QED
    BY <2>1, <2>2
<1> QED
  BY <1>2, <1>3, <1>4

\* The weight of a set is that of a part of it and that of what is left.
LEMMA TotalSplits ==
  ASSUME IsFiniteSet(Tx), NEW S \in SUBSET Tx, NEW T \in SUBSET S
  PROVE  TotalWeight(S) = TotalWeight(T) + TotalWeight(S \ T)
<1> DEFINE U == {X \in SUBSET S : TotalWeight(S) = TotalWeight(X) + TotalWeight(S \ X)}
<1>0. TotalWeight({}) = 0 /\ \A X \in SUBSET Tx : TotalWeight(X) \in Nat
  BY TotalIs
<1>1. ASSUME NEW X \in SUBSET S, \A x \in X : X \ {x} \in U PROVE X \in U
  <2>1. CASE X = {}
    <3>1. S \ X = S /\ TotalWeight(S) \in Nat
      BY <1>0, <2>1
    <3> QED
      BY <1>0, <2>1, <3>1
  <2>2. CASE X # {}
    <3>1. PICK x \in X : TRUE
      BY <2>2, ZenonT(60)
    <3> DEFINE A == X \ {x}
               B == S \ A
               C == S \ X
    <3>2. A \in U /\ A \in SUBSET Tx /\ B \in SUBSET Tx /\ C \in SUBSET Tx /\ X \in SUBSET Tx
      BY <1>1, <3>1
    <3>3. x \in B /\ B \ {x} = C /\ x \in Tx
      BY <3>1
    <3>4. TotalWeight(S) = TotalWeight(A) + TotalWeight(B)
      BY <3>2
    <3>5. TotalWeight(X) = Weight[x] + TotalWeight(A)
      BY <3>1, <3>2, TotalIs
    <3> HIDE DEF A, B
    <3>6. TotalWeight(B) = Weight[x] + TotalWeight(C)
      <4>1. TotalWeight(B) = Weight[x] + TotalWeight(B \ {x})
        BY <3>2, <3>3, TotalIs
      <4> QED
        BY <3>3, <4>1
    <3> HIDE DEF C
    <3>7. /\ TotalWeight(A) \in Nat /\ TotalWeight(B) \in Nat /\ TotalWeight(C) \in Nat
          /\ Weight[x] \in Nat
      BY <1>0, <3>2, <3>3, TxAssumption
    <3>8. TotalWeight(S) = TotalWeight(X) + TotalWeight(C)
      BY <3>4, <3>5, <3>6, <3>7
    <3> QED
      BY <3>8 DEF C
  <2> QED
    BY <2>1, <2>2
<1>2. IsFiniteSet(S)
  BY FiniteSubset
<1>3. T \in U
  <2> HIDE DEF U
  <2>1. \A X \in SUBSET S : X \in U
    BY <1>1, <1>2, SubsetInduction, ZenonT(60)
  <2> QED
    BY <2>1
<1> QED
  BY <1>3

\* A remainder, from any way to write the number.
LEMMA RemainderIs ==
  ASSUME NEW M \in Nat \ {0}, NEW q \in Int, NEW r \in 0..(M - 1)
  PROVE  (q * M + r) % M = r
<1> DEFINE x == q * M + r
           d == x \div M
           e == x % M
<1>1. x \in Int /\ d \in Int /\ e \in 0..(M - 1) /\ x = M * d + e
  OBVIOUS
<1> HIDE DEF d, e
<1>2. (q - d) * M = e - r
  BY <1>1
<1>3. q - d = 0
  <2>1. q - d >= 1 => (q - d) * M >= M
    BY <1>1
  <2>2. q - d <= -1 => (q - d) * M <= - M
    BY <1>1
  <2> QED
    BY <1>1, <1>2, <2>1, <2>2
<1>4. e = r
  BY <1>1, <1>2, <1>3
<1> QED
  BY <1>4 DEF e

\* Adding to, and subtracting from, an unsigned number that wraps.
LEMMA WrapsTwice ==
  ASSUME NEW M \in Nat \ {0}, NEW a \in Int, NEW b \in Int
  PROVE  /\ (a % M) \in 0..(M - 1)
         /\ ((a % M) + b) % M = (a + b) % M
<1> DEFINE r == a % M
           q == a \div M
           c == r + b
           s == c % M
           p == c \div M
<1>1. r \in 0..(M - 1) /\ q \in Int /\ a = q * M + r
  OBVIOUS
<1> HIDE DEF r, q
<1>2. c \in Int
  BY <1>1
<1>3. s \in 0..(M - 1) /\ p \in Int /\ c = p * M + s
  BY <1>2
<1>4. c = r + b
  OBVIOUS
<1> HIDE DEF s, p, c
<1>5. a + b = (q + p) * M + s
  <2>1. a + b = q * M + (p * M + s)
    BY <1>1, <1>3, <1>4
  <2>2. (q + p) * M = q * M + p * M
    BY <1>1, <1>3
  <2> QED
    BY <1>1, <1>3, <2>1, <2>2
<1>6. ((q + p) * M + s) % M = s
  <2>1. q + p \in Int
    BY <1>1, <1>3
  <2> QED
    BY <1>3, <2>1, RemainderIs
<1> QED
  BY <1>1, <1>5, <1>6 DEF r, s, c

-----------------------------------------------------------------------------
(***************************************************************************)
(* The list by fee: it lists the transactions of X with the given times if *)
(* it has each of them once, and no other, in order.                       *)
(***************************************************************************)
Entry == [id : Tx, time : Nat]

Lists(s, times, X) ==
  /\ \A i \in 1..Len(s) : s[i].id \in X /\ s[i].time = times[s[i].id]
  /\ \A t \in X : \E i \in 1..Len(s) : s[i].id = t
  /\ \A i, j \in 1..Len(s) : s[i].id = s[j].id => i = j
  /\ \A i, j \in 1..Len(s) : i < j => ~ Before(s[j], s[i])

\* A sequence without one of its elements.
LEMMA EraseAtIs ==
  ASSUME NEW S, NEW s \in Seq(S), NEW i \in 1..Len(s)
  PROVE  /\ EraseAt(s, i) \in Seq(S)
         /\ Len(EraseAt(s, i)) = Len(s) - 1
         /\ \A j \in 1..(Len(s) - 1) : EraseAt(s, i)[j] = IF j < i THEN s[j] ELSE s[j + 1]
<1> DEFINE n == Len(s)
           a == SubSeq(s, 1, i - 1)
           b == SubSeq(s, i + 1, n)
<1>1. n \in Nat /\ i \in Nat /\ 1 <= i /\ i <= n /\ \A j \in 1..n : s[j] \in S
  OBVIOUS
<1>2. /\ a \in Seq(S) /\ Len(a) = i - 1
      /\ \A j \in 1..(i - 1) : a[j] = s[j]
  <2> DEFINE m == i - 1
  <2>1. m \in Int /\ m >= 0 /\ \A j \in 1..m : s[j] \in S
    BY <1>1
  <2> HIDE DEF m
  <2>2. /\ SubSeq(s, 1, m) \in Seq(S)
        /\ Len(SubSeq(s, 1, m)) = IF 1 <= m THEN m - 1 + 1 ELSE 0
        /\ \A j \in 1..(m - 1 + 1) : SubSeq(s, 1, m)[j] = s[1 + j - 1]
    BY <2>1, SubSeqIs
  <2>3. \A j \in 1..m : j \in 1..(m - 1 + 1) /\ 1 + j - 1 = j
    BY <2>1
  <2>4. SubSeq(s, 1, m) \in Seq(S) /\ Len(SubSeq(s, 1, m)) = m
    BY <2>1, <2>2
  <2>5. \A j \in 1..m : SubSeq(s, 1, m)[j] = s[j]
    BY <2>2, <2>3
  <2> QED
    BY <2>4, <2>5 DEF m
<1>3. /\ b \in Seq(S) /\ Len(b) = n - i
      /\ \A j \in 1..(n - i) : b[j] = s[i + j]
  <2> DEFINE m == i + 1
  <2>1. m \in Int /\ m = i + 1 /\ \A j \in m..n : s[j] \in S
    BY <1>1
  <2> HIDE DEF m, n
  <2>2. /\ SubSeq(s, m, n) \in Seq(S)
        /\ Len(SubSeq(s, m, n)) = IF m <= n THEN n - m + 1 ELSE 0
        /\ \A j \in 1..(n - m + 1) : SubSeq(s, m, n)[j] = s[m + j - 1]
    BY <1>1, <2>1, SubSeqIs
  <2>3. \A j \in 1..(n - i) : j \in 1..(n - m + 1) /\ m + j - 1 = i + j
    BY <1>1, <2>1
  <2>4. SubSeq(s, m, n) \in Seq(S) /\ Len(SubSeq(s, m, n)) = n - i
    BY <1>1, <2>1, <2>2
  <2>5. \A j \in 1..(n - i) : SubSeq(s, m, n)[j] = s[i + j]
    BY <2>2, <2>3
  <2> QED
    BY <2>4, <2>5 DEF m
<1> HIDE DEF a, b, n
<1>4. /\ a \o b \in Seq(S)
      /\ Len(a \o b) = Len(a) + Len(b)
      /\ \A j \in 1..(Len(a) + Len(b)) : (a \o b)[j] = IF j <= Len(a) THEN a[j] ELSE b[j - Len(a)]
  BY <1>2, <1>3, ConcatIs, ZenonT(60)
<1>5. Len(a) + Len(b) = n - 1
  BY <1>1, <1>2, <1>3
<1>6. ASSUME NEW j \in 1..(n - 1) PROVE (a \o b)[j] = IF j < i THEN s[j] ELSE s[j + 1]
  <2>1. (a \o b)[j] = IF j <= i - 1 THEN a[j] ELSE b[j - (i - 1)]
    BY <1>2, <1>4, <1>5
  <2>2. CASE j < i
    <3>1. j <= i - 1 /\ j \in 1..(i - 1)
      BY <1>1, <2>2
    <3> QED
      BY <1>2, <2>1, <2>2, <3>1
  <2>3. CASE ~ (j < i)
    <3>1. ~ (j <= i - 1) /\ j - (i - 1) \in 1..(n - i) /\ i + (j - (i - 1)) = j + 1
      BY <1>1, <2>3
    <3>2. b[j - (i - 1)] = s[i + (j - (i - 1))]
      BY <1>3, <3>1
    <3> QED
      BY <2>1, <2>3, <3>1, <3>2
  <2> QED
    BY <2>2, <2>3, ZenonT(60)
<1>7. EraseAt(s, i) = a \o b
  BY DEF EraseAt, a, b, n
<1> QED
  BY <1>4, <1>5, <1>6, <1>7 DEF n

\* A sequence with one more element after the first m.
InsertAt(s, m, e) == SubSeq(s, 1, m) \o <<e>> \o SubSeq(s, m + 1, Len(s))

\* Where the elements are after one was inserted.
LEMMA InsertAtIs ==
  ASSUME NEW S, NEW s \in Seq(S), NEW m \in 0..Len(s), NEW e \in S
  PROVE  /\ InsertAt(s, m, e) \in Seq(S)
         /\ Len(InsertAt(s, m, e)) = Len(s) + 1
         /\ \A j \in 1..m : InsertAt(s, m, e)[j] = s[j]
         /\ InsertAt(s, m, e)[m + 1] = e
         /\ \A j \in (m + 2)..(Len(s) + 1) : InsertAt(s, m, e)[j] = s[j - 1]
<1> DEFINE n == Len(s)
           a == SubSeq(s, 1, m)
           b == SubSeq(s, m + 1, n)
           c == a \o <<e>>
<1>1. n \in Nat /\ m \in Nat /\ m <= n /\ \A j \in 1..n : s[j] \in S
  OBVIOUS
<1>2. /\ a \in Seq(S) /\ Len(a) = m
      /\ \A j \in 1..m : a[j] = s[j]
  <2>1. m \in Int /\ m >= 0 /\ \A j \in 1..m : s[j] \in S
    BY <1>1
  <2>2. /\ SubSeq(s, 1, m) \in Seq(S)
        /\ Len(SubSeq(s, 1, m)) = IF 1 <= m THEN m - 1 + 1 ELSE 0
        /\ \A j \in 1..(m - 1 + 1) : SubSeq(s, 1, m)[j] = s[1 + j - 1]
    BY <2>1, SubSeqIs
  <2>3. \A j \in 1..m : j \in 1..(m - 1 + 1) /\ 1 + j - 1 = j
    BY <2>1
  <2>4. SubSeq(s, 1, m) \in Seq(S) /\ Len(SubSeq(s, 1, m)) = m
    BY <2>1, <2>2
  <2>5. \A j \in 1..m : SubSeq(s, 1, m)[j] = s[j]
    BY <2>2, <2>3
  <2> QED
    BY <2>4, <2>5
<1>3. /\ b \in Seq(S) /\ Len(b) = n - m
      /\ \A j \in 1..(n - m) : b[j] = s[m + j]
  <2> DEFINE k == m + 1
  <2>1. k \in Int /\ k = m + 1 /\ \A j \in k..n : s[j] \in S
    BY <1>1
  <2> HIDE DEF k, n
  <2>2. /\ SubSeq(s, k, n) \in Seq(S)
        /\ Len(SubSeq(s, k, n)) = IF k <= n THEN n - k + 1 ELSE 0
        /\ \A j \in 1..(n - k + 1) : SubSeq(s, k, n)[j] = s[k + j - 1]
    BY <1>1, <2>1, SubSeqIs
  <2>3. \A j \in 1..(n - m) : j \in 1..(n - k + 1) /\ k + j - 1 = m + j
    BY <1>1, <2>1
  <2>4. SubSeq(s, k, n) \in Seq(S) /\ Len(SubSeq(s, k, n)) = n - m
    BY <1>1, <2>1, <2>2
  <2>5. \A j \in 1..(n - m) : SubSeq(s, k, n)[j] = s[m + j]
    BY <2>2, <2>3
  <2> QED
    BY <2>4, <2>5 DEF k
<1> HIDE DEF a, b, n
<1>4. c \in Seq(S) /\ Len(c) = m + 1 /\ (\A j \in 1..m : c[j] = s[j]) /\ c[m + 1] = e
  <2>1. <<e>> \in Seq(S) /\ Len(<<e>>) = 1 /\ <<e>>[1] = e
    OBVIOUS
  <2>2. /\ a \o <<e>> \in Seq(S)
        /\ Len(a \o <<e>>) = Len(a) + Len(<<e>>)
        /\ \A j \in 1..(Len(a) + Len(<<e>>)) :
             (a \o <<e>>)[j] = IF j <= Len(a) THEN a[j] ELSE <<e>>[j - Len(a)]
    BY <1>2, <2>1, ConcatIs
  <2>3. c \in Seq(S) /\ Len(c) = m + 1
    BY <1>2, <2>1, <2>2
  <2>4. \A j \in 1..(m + 1) : c[j] = IF j <= m THEN a[j] ELSE <<e>>[j - m]
    BY <1>2, <2>1, <2>2
  <2> HIDE DEF c
  <2>5. \A j \in 1..m : c[j] = s[j]
    BY <1>1, <1>2, <2>4
  <2>6. c[m + 1] = e
    <3>1. m + 1 \in 1..(m + 1) /\ ~ (m + 1 <= m) /\ m + 1 - m = 1
      BY <1>1
    <3> QED
      BY <2>1, <2>4, <3>1
  <2> QED
    BY <2>3, <2>5, <2>6
<1> HIDE DEF c
<1>5. /\ c \o b \in Seq(S)
      /\ Len(c \o b) = Len(c) + Len(b)
      /\ \A j \in 1..(Len(c) + Len(b)) : (c \o b)[j] = IF j <= Len(c) THEN c[j] ELSE b[j - Len(c)]
  BY <1>3, <1>4, ConcatIs, ZenonT(60)
<1>6. Len(c) + Len(b) = n + 1
  BY <1>1, <1>3, <1>4
<1>7. \A j \in 1..(n + 1) : (c \o b)[j] = IF j <= m + 1 THEN c[j] ELSE b[j - (m + 1)]
  BY <1>4, <1>5, <1>6
<1>8. InsertAt(s, m, e) = c \o b
  BY DEF InsertAt, a, b, c, n
<1>9. ASSUME NEW j \in 1..m PROVE (c \o b)[j] = s[j]
  <2>1. j \in 1..(n + 1) /\ j <= m + 1
    BY <1>1
  <2> QED
    BY <1>4, <1>7, <2>1
<1>10. (c \o b)[m + 1] = e
  <2>1. m + 1 \in 1..(n + 1) /\ m + 1 <= m + 1
    BY <1>1
  <2> QED
    BY <1>4, <1>7, <2>1
<1>11. ASSUME NEW j \in (m + 2)..(n + 1) PROVE (c \o b)[j] = s[j - 1]
  <2>1. /\ j \in 1..(n + 1) /\ ~ (j <= m + 1)
        /\ j - (m + 1) \in 1..(n - m) /\ m + (j - (m + 1)) = j - 1
    BY <1>1
  <2>2. b[j - (m + 1)] = s[m + (j - (m + 1))]
    BY <1>3, <2>1
  <2> QED
    BY <1>7, <2>1, <2>2, ZenonT(60)
<1> QED
  BY <1>5, <1>6, <1>8, <1>9, <1>10, <1>11 DEF n

\* One entry fewer: the list of the other transactions.
LEMMA EraseLists ==
  ASSUME NEW s \in Seq(Entry), NEW times, NEW X, Lists(s, times, X), NEW i \in 1..Len(s)
  PROVE  EraseAt(s, i) \in Seq(Entry) /\ Lists(EraseAt(s, i), times, X \ {s[i].id})
<1> DEFINE r == EraseAt(s, i)
           n == Len(s)
           at(j) == IF j < i THEN j ELSE j + 1
<1>1. n \in Nat /\ i \in Nat /\ 1 <= i /\ i <= n
  OBVIOUS
<1>2. /\ r \in Seq(Entry) /\ Len(r) = n - 1
      /\ \A j \in 1..(n - 1) : r[j] = IF j < i THEN s[j] ELSE s[j + 1]
  BY EraseAtIs, ZenonT(60)
<1> HIDE DEF r
<1>3. \A j \in 1..(n - 1) : at(j) \in 1..n /\ at(j) # i
  BY <1>1
<1>4. \A j, k \in 1..(n - 1) : (at(j) = at(k) => j = k) /\ (j < k => at(j) < at(k))
  BY <1>1
<1>5. \A k \in 1..n : k # i => \E j \in 1..(n - 1) : at(j) = k
  <2> SUFFICES ASSUME NEW k \in 1..n, k # i PROVE \E j \in 1..(n - 1) : at(j) = k
    OBVIOUS
  <2>1. CASE k < i
    BY <1>1, <2>1
  <2>2. CASE k > i
    <3>1. k - 1 \in 1..(n - 1) /\ at(k - 1) = k
      BY <1>1, <2>2
    <3> QED
      BY <3>1
  <2> QED
    BY <1>1, <2>1, <2>2
<1>6. \A j \in 1..(n - 1) : r[j] = s[at(j)]
  BY <1>2
<1> HIDE DEF at, n
<1>7. /\ \A j \in 1..n : s[j].id \in X /\ s[j].time = times[s[j].id]
      /\ \A t \in X : \E j \in 1..n : s[j].id = t
      /\ \A j, k \in 1..n : s[j].id = s[k].id => j = k
      /\ \A j, k \in 1..n : j < k => ~ Before(s[k], s[j])
      /\ i \in 1..n
  BY DEF Lists, n
<1>8. \A j \in 1..(n - 1) : r[j].id \in X \ {s[i].id} /\ r[j].time = times[r[j].id]
  BY <1>3, <1>6, <1>7
<1>9. ASSUME NEW t \in X \ {s[i].id} PROVE \E j \in 1..(n - 1) : r[j].id = t
  <2>1. PICK k \in 1..n : s[k].id = t
    BY <1>7
  <2>2. k # i
    BY <2>1
  <2>3. PICK j \in 1..(n - 1) : at(j) = k
    BY <1>5, <2>2
  <2> QED
    BY <1>6, <2>1, <2>3
<1>10. \A j, k \in 1..(n - 1) : r[j].id = r[k].id => j = k
  BY <1>3, <1>4, <1>6, <1>7
<1>11. ASSUME NEW j \in 1..(n - 1), NEW k \in 1..(n - 1), j < k PROVE ~ Before(r[k], r[j])
  <2>1. at(j) \in 1..n /\ at(k) \in 1..n /\ at(j) < at(k)
    BY <1>3, <1>4, <1>11
  <2>2. ~ Before(s[at(k)], s[at(j)])
    BY <1>7, <2>1
  <2>3. r[j] = s[at(j)] /\ r[k] = s[at(k)]
    BY <1>6
  <2> QED
    BY <2>2, <2>3
<1>12. Lists(r, times, X \ {s[i].id})
  <2>1. Len(r) = n - 1
    BY <1>2
  <2> QED
    BY <1>8, <1>9, <1>10, <1>11, <2>1 DEF Lists
<1> QED
  BY <1>2, <1>12 DEF r

\* Erasing a transaction that the list has, or has not.
LEMMA EraseIdLists ==
  ASSUME NEW s \in Seq(Entry), NEW times, NEW X, Lists(s, times, X), NEW t
  PROVE  EraseId(s, t) \in Seq(Entry) /\ Lists(EraseId(s, t), times, X \ {t})
<1> DEFINE at == {i \in 1..Len(s) : s[i].id = t}
<1>1. EraseId(s, t) = IF at = {} THEN s ELSE EraseAt(s, Min(at))
  BY DEF EraseId
<1>2. CASE at = {}
  <2>1. t \notin X
    BY <1>2 DEF Lists
  <2>2. X \ {t} = X
    BY <2>1
  <2> QED
    BY <1>1, <1>2, <2>2, ZenonT(60)
<1>3. CASE at # {}
  <2>1. at \subseteq Nat
    OBVIOUS
  <2> DEFINE i == Min(at)
  <2>2. i \in at
    <3> HIDE DEF at
    <3> QED
      BY <1>3, <2>1, MinIs, ZenonT(60)
  <2> HIDE DEF i
  <2>3. i \in 1..Len(s) /\ s[i].id = t
    BY <2>2
  <2>4. EraseAt(s, i) \in Seq(Entry) /\ Lists(EraseAt(s, i), times, X \ {s[i].id})
    BY <2>3, EraseLists
  <2> QED
    BY <1>1, <1>3, <2>3, <2>4 DEF i
<1> QED
  BY <1>2, <1>3

\* The entries that come before a new one are the first ones of the list.
LEMMA PlaceIs ==
  ASSUME NEW s \in Seq(Entry), NEW times, NEW X, Lists(s, times, X), NEW e \in Entry
  PROVE  /\ Place(s, e) \in 1..(Len(s) + 1)
         /\ \A i \in 1..Len(s) : i < Place(s, e) <=> Before(s[i], e)
<1> DEFINE n == Len(s)
           B == {i \in 1..n : Before(s[i], e)}
           m == Max(B \cup {0})
<1>1. n \in Nat /\ \A i \in 1..n : s[i] \in Entry
  OBVIOUS
<1>2. ASSUME NEW i \in 1..n, NEW j \in 1..n, i < j, Before(s[j], e) PROVE Before(s[i], e)
  <2>1. ~ Before(s[j], s[i])
    BY <1>2 DEF Lists
  <2>2. \A x \in Entry : FeeRate[x.id] \in Nat /\ x.time \in Nat
    BY TxAssumption DEF Entry
  <2>3. /\ FeeRate[s[i].id] \in Nat /\ FeeRate[s[j].id] \in Nat /\ FeeRate[e.id] \in Nat
        /\ s[i].time \in Nat /\ s[j].time \in Nat /\ e.time \in Nat
    BY <1>1, <2>2
  <2> QED
    BY <1>2, <2>1, <2>3 DEF Before
<1>3. m \in B \cup {0} /\ \A i \in B : i <= m
  <2> DEFINE C == B \cup {0}
  <2>1. C \subseteq 0..n /\ C # {}
    BY <1>1
  <2> HIDE DEF C
  <2>2. Max(C) \in C /\ \A i \in C : i <= Max(C)
    BY <1>1, <2>1, MaxIs, ZenonT(60)
  <2> QED
    BY <2>2 DEF C
<1> HIDE DEF m
<1>4. m \in 0..n
  BY <1>1, <1>3
<1>5. B = 1..m
  <2>1. ASSUME NEW i \in B PROVE i \in 1..m
    BY <1>1, <1>3, <1>4
  <2>2. ASSUME NEW i \in 1..m PROVE i \in B
    <3>1. m \in B /\ i \in 1..n
      BY <1>3, <1>4
    <3>2. CASE i = m
      BY <3>1, <3>2
    <3>3. CASE i # m
      BY <1>2, <1>4, <3>1, <3>3
    <3> QED
      BY <3>2, <3>3
  <2> QED
    BY <2>1, <2>2
<1>6. Cardinality(1..m) = m
  BY <1>4, IntervalCount
<1>7. Place(s, e) = m + 1
  <2>1. Place(s, e) = Cardinality(B) + 1
    BY DEF Place
  <2> QED
    BY <1>5, <1>6, <2>1, ZenonT(60)
<1>8. \A i \in 1..n : i < m + 1 <=> Before(s[i], e)
  <2> SUFFICES ASSUME NEW i \in 1..n PROVE i < m + 1 <=> Before(s[i], e)
    OBVIOUS
  <2>1. i \in B <=> Before(s[i], e)
    OBVIOUS
  <2>2. i \in 1..m <=> i < m + 1
    BY <1>4
  <2> HIDE DEF B
  <2> QED
    BY <1>5, <2>1, <2>2
<1>9. m + 1 \in 1..(n + 1)
  BY <1>1, <1>4
<1> QED
  BY <1>7, <1>8, <1>9, ZenonT(60)

\* One transaction more, in its place.
LEMMA InsertLists ==
  ASSUME NEW s \in Seq(Entry), NEW times, NEW X, Lists(s, times, X),
         NEW e \in Entry, e.id \notin X, e.time = times[e.id]
  PROVE  /\ SortedInsert(s, e) \in Seq(Entry)
         /\ Lists(SortedInsert(s, e), times, X \cup {e.id})
<1> DEFINE n == Len(s)
           m == Place(s, e) - 1
           r == SortedInsert(s, e)
           at(j) == IF j <= m THEN j ELSE j - 1
<1>1. n \in Nat /\ Place(s, e) \in 1..(n + 1)
  BY PlaceIs
<1>2. \A i \in 1..n : i < Place(s, e) <=> Before(s[i], e)
  BY PlaceIs
<1>3. m \in 0..n /\ Place(s, e) = m + 1
  BY <1>1
<1>4. \A i \in 1..n : i <= m <=> Before(s[i], e)
  <2> HIDE DEF m
  <2> QED
    BY <1>1, <1>2, <1>3
<1> HIDE DEF m
<1>5. r = InsertAt(s, m, e)
  BY <1>3, ZenonT(60) DEF SortedInsert, InsertAt, m
<1>6. /\ r \in Seq(Entry) /\ Len(r) = n + 1
      /\ \A j \in 1..m : r[j] = s[j]
      /\ r[m + 1] = e
      /\ \A j \in (m + 2)..(n + 1) : r[j] = s[j - 1]
  <2>1. m \in 0..Len(s)
    BY <1>3
  <2>2. /\ InsertAt(s, m, e) \in Seq(Entry)
        /\ Len(InsertAt(s, m, e)) = n + 1
    BY <2>1, InsertAtIs
  <2>3. \A j \in 1..m : InsertAt(s, m, e)[j] = s[j]
    BY <2>1, InsertAtIs
  <2>4. InsertAt(s, m, e)[m + 1] = e
    BY <2>1, InsertAtIs
  <2>5. \A j \in (m + 2)..(n + 1) : InsertAt(s, m, e)[j] = s[j - 1]
    BY <2>1, InsertAtIs
  <2> HIDE DEF r
  <2> QED
    BY <1>5, <2>2, <2>3, <2>4, <2>5
<1> HIDE DEF r
<1>7. \A j \in 1..(n + 1) : j # m + 1 => at(j) \in 1..n /\ (j <= m => at(j) <= m) /\ (j > m => at(j) > m)
  BY <1>1, <1>3
<1>8. \A j, k \in 1..(n + 1) : j # m + 1 /\ k # m + 1 => /\ (at(j) = at(k) => j = k)
                                                       /\ (j < k => at(j) < at(k))
  BY <1>1, <1>3
<1>9. \A k \in 1..n : \E j \in 1..(n + 1) : j # m + 1 /\ at(j) = k
  <2> SUFFICES ASSUME NEW k \in 1..n PROVE \E j \in 1..(n + 1) : j # m + 1 /\ at(j) = k
    OBVIOUS
  <2>1. CASE k <= m
    <3>1. k \in 1..(n + 1) /\ k # m + 1 /\ at(k) = k
      BY <1>1, <1>3, <2>1
    <3> QED
      BY <3>1
  <2>2. CASE k > m
    <3>1. k + 1 \in 1..(n + 1) /\ k + 1 # m + 1 /\ at(k + 1) = k
      BY <1>1, <1>3, <2>2
    <3> QED
      BY <3>1
  <2> QED
    BY <1>3, <2>1, <2>2
<1>10. ASSUME NEW j \in 1..(n + 1), j # m + 1 PROVE r[j] = s[at(j)]
  <2>1. CASE j <= m
    <3>1. j \in 1..m /\ at(j) = j
      BY <1>3, <2>1
    <3> QED
      BY <1>6, <3>1
  <2>2. CASE j > m
    <3>1. j \in (m + 2)..(n + 1) /\ at(j) = j - 1
      BY <1>1, <1>3, <1>10, <2>2
    <3> QED
      BY <1>6, <3>1
  <2> QED
    BY <1>3, <2>1, <2>2
<1>11. m + 1 \in 1..(n + 1) /\ r[m + 1] = e
  <2>1. m + 1 \in 1..(n + 1)
    BY <1>1, <1>3
  <2> QED
    BY <1>6, <2>1
<1>12. /\ \A j \in 1..n : s[j].id \in X /\ s[j].time = times[s[j].id]
       /\ \A t \in X : \E j \in 1..n : s[j].id = t
       /\ \A j, k \in 1..n : s[j].id = s[k].id => j = k
       /\ \A j, k \in 1..n : j < k => ~ Before(s[k], s[j])
       /\ \A j \in 1..n : s[j] \in Entry
  BY DEF Lists
<1> HIDE DEF at, n
<1>13. \A j \in 1..(n + 1) : r[j].id \in X \cup {e.id} /\ r[j].time = times[r[j].id]
  <2> SUFFICES ASSUME NEW j \in 1..(n + 1)
               PROVE  r[j].id \in X \cup {e.id} /\ r[j].time = times[r[j].id]
    OBVIOUS
  <2>1. CASE j = m + 1
    BY <1>11, <2>1
  <2>2. CASE j # m + 1
    <3>1. at(j) \in 1..n
      BY <1>7, <2>2
    <3>2. r[j] = s[at(j)]
      BY <1>10, <2>2
    <3> QED
      BY <1>12, <3>1, <3>2
  <2> QED
    BY <2>1, <2>2
<1>14. ASSUME NEW t \in X \cup {e.id} PROVE \E j \in 1..(n + 1) : r[j].id = t
  <2>1. CASE t = e.id
    BY <1>11, <2>1
  <2>2. CASE t \in X
    <3>1. PICK k \in 1..n : s[k].id = t
      BY <1>12, <2>2
    <3>2. PICK j \in 1..(n + 1) : j # m + 1 /\ at(j) = k
      BY <1>9
    <3> QED
      BY <1>10, <3>1, <3>2
  <2> QED
    BY <2>1, <2>2
<1>15. ASSUME NEW j \in 1..(n + 1), NEW k \in 1..(n + 1), r[j].id = r[k].id PROVE j = k
  <2>1. \A i \in 1..(n + 1) : i # m + 1 => r[i].id \in X
    BY <1>7, <1>10, <1>12
  <2>2. CASE j = m + 1 \/ k = m + 1
    BY <1>11, <1>15, <2>1, <2>2
  <2>3. CASE j # m + 1 /\ k # m + 1
    <3>1. at(j) \in 1..n /\ at(k) \in 1..n /\ r[j] = s[at(j)] /\ r[k] = s[at(k)]
      BY <1>7, <1>10, <2>3
    <3>2. at(j) = at(k)
      BY <1>12, <1>15, <3>1
    <3> QED
      BY <1>8, <2>3, <3>2
  <2> QED
    BY <2>2, <2>3
<1>16. ASSUME NEW j \in 1..(n + 1), NEW k \in 1..(n + 1), j < k PROVE ~ Before(r[k], r[j])
  <2>1. CASE j # m + 1 /\ k # m + 1
    <3>1. at(j) \in 1..n /\ at(k) \in 1..n /\ at(j) < at(k) /\ r[j] = s[at(j)] /\ r[k] = s[at(k)]
      BY <1>7, <1>8, <1>10, <1>16, <2>1
    <3>2. ~ Before(s[at(k)], s[at(j)])
      BY <1>12, <3>1
    <3> QED
      BY <3>1, <3>2
  <2>2. CASE j = m + 1
    <3>1. k # m + 1 /\ k > m
      BY <1>3, <1>16, <2>2
    <3>2. at(k) \in 1..n /\ at(k) > m /\ r[k] = s[at(k)] /\ r[j] = e
      BY <1>7, <1>10, <1>11, <2>2, <3>1
    <3>3. ~ (at(k) <= m)
      BY <1>3, <3>2
    <3>4. ~ Before(s[at(k)], e)
      BY <1>4, <3>2, <3>3 DEF n
    <3> QED
      BY <3>2, <3>4
  <2>3. CASE k = m + 1
    <3>1. j # m + 1 /\ j <= m
      BY <1>3, <1>16, <2>3
    <3>2. at(j) \in 1..n /\ at(j) <= m /\ r[j] = s[at(j)] /\ r[k] = e
      BY <1>7, <1>10, <1>11, <2>3, <3>1
    <3>3. Before(s[at(j)], e) /\ s[at(j)] \in Entry
      BY <1>4, <1>12, <3>2 DEF n
    <3>4. \A x \in Entry : FeeRate[x.id] \in Nat /\ x.time \in Nat
      BY TxAssumption DEF Entry
    <3>5. \A x, y \in Entry : Before(x, y) => ~ Before(y, x)
      BY <3>4 DEF Before
    <3> QED
      BY <3>2, <3>3, <3>5
  <2> QED
    BY <2>1, <2>2, <2>3
<1>17. Lists(r, times, X \cup {e.id})
  <2>1. Len(r) = n + 1
    BY <1>6 DEF n
  <2> QED
    BY <1>13, <1>14, <1>15, <1>16, <2>1 DEF Lists
<1> QED
  BY <1>6, <1>17 DEF r

\* The list after all of T were erased from it, one after the other.
LEMMA EraseAllLists ==
  ASSUME NEW s \in Seq(Entry), NEW T, IsFiniteSet(T)
  PROVE  LET r == FoldSet(LAMBDA t, l : EraseId(l, t), s, T)
         IN  /\ r \in Seq(Entry)
             /\ \A times, X : Lists(s, times, X) => Lists(r, times, X \ T)
<1> DEFINE G == [t \in T |-> [l \in Seq(Entry) |-> EraseId(l, t)]]
           r == FoldSet(LAMBDA t, l : EraseId(l, t), s, T)
<1>1. ASSUME NEW l \in Seq(Entry), NEW t PROVE EraseId(l, t) \in Seq(Entry)
  <2> DEFINE at == {i \in 1..Len(l) : l[i].id = t}
  <2>1. EraseId(l, t) = IF at = {} THEN l ELSE EraseAt(l, Min(at))
    BY DEF EraseId
  <2>2. CASE at # {}
    <3>1. at \subseteq Nat
      OBVIOUS
    <3>2. Min(at) \in at
      <4> HIDE DEF at
      <4> QED
        BY <2>2, <3>1, MinIs, ZenonT(60)
    <3> DEFINE i == Min(at)
    <3> HIDE DEF i
    <3>3. i \in 1..Len(l)
      BY <3>2 DEF i
    <3>4. EraseAt(l, i) \in Seq(Entry)
      BY <3>3, EraseAtIs
    <3> QED
      BY <2>1, <2>2, <3>4 DEF i
  <2> QED
    BY <2>1, <2>2
<1>2. G \in FoldSteps(T, Seq(Entry))
  BY <1>1 DEF FoldSteps
<1>3. \A t \in T, l \in Seq(Entry) : G[t][l] = EraseId(l, t)
  OBVIOUS
<1> HIDE DEF G
<1>4. PICK f : Folds(f, T, Seq(Entry), s, G)
  BY <1>2, FoldExists
<1>5. r = f[T]
  <2> DEFINE Erases(g) == g = [x \in SUBSET T |-> IF x = {} THEN s
                                                ELSE EraseId(g[x \ {AnyOf(x)}], AnyOf(x))]
             g == CHOOSE g : Erases(g)
  <2>1. r = g[T]
    BY ZenonT(60) DEF FoldSet, MapThenFoldSet, AnyOf
  <2>2. Erases(f)
    <3>1. ASSUME NEW x \in SUBSET T
          PROVE  f[x] = IF x = {} THEN s ELSE EraseId(f[x \ {AnyOf(x)}], AnyOf(x))
      <4>1. CASE x = {}
        BY <1>4, <4>1 DEF Folds
      <4>2. CASE x # {}
        <5>1. RestOf(x) \in SUBSET T /\ AnyOf(x) \in T
          BY <4>2, PickIs
        <5>2. f[x] = G[AnyOf(x)][f[RestOf(x)]] /\ f[RestOf(x)] \in Seq(Entry)
          BY <1>4, <4>2, <5>1 DEF Folds
        <5>3. f[x] = EraseId(f[RestOf(x)], AnyOf(x))
          BY <1>3, <5>1, <5>2
        <5> QED
          BY <4>2, <5>3 DEF RestOf
      <4> QED
        BY <4>1, <4>2
    <3>2. f = [x \in SUBSET T |-> f[x]]
      BY <1>4 DEF Folds
    <3> QED
      BY <3>1, <3>2, ZenonT(60)
  <2>3. Erases(g)
    BY <2>2, ZenonT(60)
  <2> HIDE DEF g, r
  <2>4. g[{}] = s
    BY <2>3
  <2>5. ASSUME NEW x \in SUBSET T, x # {}, g[RestOf(x)] \in Seq(Entry)
        PROVE  g[x] = G[AnyOf(x)][g[RestOf(x)]]
    <3>1. g[x] = EraseId(g[RestOf(x)], AnyOf(x))
      BY <2>3, <2>5, ZenonT(60) DEF RestOf
    <3>2. AnyOf(x) \in T
      BY <2>5, PickIs
    <3> QED
      BY <1>3, <2>5, <3>1, <3>2
  <2>6. FoldsUp(g, T, Seq(Entry), s, G)
    BY <2>4, <2>5, ZenonT(60) DEF FoldsUp
  <2>7. g[T] = f[T]
    BY <1>2, <1>4, <2>6, FoldAgrees
  <2> QED
    BY <2>1, <2>7
<1> HIDE DEF r
<1>6. ASSUME NEW times, NEW X, Lists(s, times, X) PROVE Lists(r, times, X \ T)
  <2> DEFINE U == {x \in SUBSET T : Lists(f[x], times, X \ x)}
  <2>1. ASSUME NEW x \in SUBSET T, \A y \in x : x \ {y} \in U PROVE x \in U
    <3>1. CASE x = {}
      <4>1. f[x] = s /\ X \ x = X
        BY <1>4, <3>1 DEF Folds
      <4> QED
        BY <1>6, <4>1, ZenonT(60)
    <3>2. CASE x # {}
      <4> DEFINE y == AnyOf(x)
                 z == RestOf(x)
      <4>1. y \in x /\ y \in T /\ z \in SUBSET T /\ z = x \ {y} /\ z \in U
        BY <2>1, <3>2, PickIs, ZenonT(60) DEF RestOf
      <4>2. f[x] = G[y][f[z]] /\ f[z] \in Seq(Entry)
        BY <1>4, <3>2, <4>1, ZenonT(60) DEF Folds
      <4> HIDE DEF y, z
      <4>3. f[x] = EraseId(f[z], y)
        BY <1>3, <4>1, <4>2
      <4>4. Lists(f[z], times, X \ z)
        BY <4>1
      <4>5. Lists(EraseId(f[z], y), times, (X \ z) \ {y})
        BY <4>2, <4>4, EraseIdLists
      <4>6. (X \ z) \ {y} = X \ x
        BY <4>1
      <4> QED
        BY <4>3, <4>5, <4>6, ZenonT(60)
    <3> QED
      BY <3>1, <3>2
  <2>2. T \in U
    <3> HIDE DEF U
    <3>1. \A x \in SUBSET T : x \in U
      BY <2>1, SubsetInduction, ZenonT(60)
    <3> QED
      BY <3>1
  <2> QED
    BY <1>5, <2>2
<1>7. r \in Seq(Entry)
  BY <1>4, <1>5 DEF Folds
<1> QED
  BY <1>6, <1>7, ZenonT(60) DEF r

\* An entry goes into a list, ordered or not, somewhere.
LEMMA SortedInsertType ==
  ASSUME NEW s \in Seq(Entry), NEW e \in Entry
  PROVE  /\ SortedInsert(s, e) \in Seq(Entry)
         /\ Len(SortedInsert(s, e)) = Len(s) + 1
<1> DEFINE B == {i \in 1..Len(s) : Before(s[i], e)}
           m == Place(s, e) - 1
<1>1. Len(s) \in Nat
  OBVIOUS
<1>2. IsFiniteSet(1..Len(s)) /\ Cardinality(1..Len(s)) = Len(s)
  BY <1>1, IntervalCount
<1>3. IsFiniteSet(B) /\ Cardinality(B) <= Len(s) /\ Cardinality(B) \in Nat
  <2>1. B \in SUBSET (1..Len(s))
    OBVIOUS
  <2> HIDE DEF B
  <2>2. IsFiniteSet(B) /\ Cardinality(B) <= Len(s)
    BY <1>2, <2>1, FiniteSubset, CardinalityIs, ZenonT(60)
  <2> QED
    BY <2>2, CardinalityIs
<1>4. Place(s, e) = Cardinality(B) + 1
  BY DEF Place
<1> HIDE DEF B
<1>5. m \in 0..Len(s) /\ Place(s, e) = m + 1
  BY <1>1, <1>3, <1>4
<1>6. SortedInsert(s, e) = InsertAt(s, m, e)
  BY <1>5, ZenonT(60) DEF SortedInsert, InsertAt
<1> HIDE DEF m
<1>7. InsertAt(s, m, e) \in Seq(Entry) /\ Len(InsertAt(s, m, e)) = Len(s) + 1
  BY <1>5, InsertAtIs
<1> QED
  BY <1>6, <1>7

\* The list that is built, one after the other, from a set of entries.
LEMMA InsertAllLists ==
  ASSUME NEW E \in SUBSET Entry, IsFiniteSet(E), NEW times, \A e \in E : e.time = times[e.id]
  PROVE  LET r == FoldSet(LAMBDA e, s : SortedInsert(s, e), <<>>, E)
         IN  r \in Seq(Entry) /\ Lists(r, times, {e.id : e \in E})
<1> DEFINE G == [e \in E |-> [l \in Seq(Entry) |-> SortedInsert(l, e)]]
           r == FoldSet(LAMBDA e, s : SortedInsert(s, e), <<>>, E)
           nil == <<>>
<1>1. \A e \in E, l \in Seq(Entry) : SortedInsert(l, e) \in Seq(Entry)
  BY SortedInsertType
<1>2. G \in FoldSteps(E, Seq(Entry)) /\ nil \in Seq(Entry)
  BY <1>1 DEF FoldSteps
<1>3. \A e \in E, l \in Seq(Entry) : G[e][l] = SortedInsert(l, e)
  OBVIOUS
<1> HIDE DEF G
<1>4. PICK f : Folds(f, E, Seq(Entry), nil, G)
  <2> HIDE DEF nil
  <2> QED
    BY <1>2, FoldExists
<1>5. r = f[E]
  <2> DEFINE Inserts(g) == g = [x \in SUBSET E |-> IF x = {} THEN <<>>
                                                 ELSE SortedInsert(g[x \ {AnyOf(x)}], AnyOf(x))]
             g == CHOOSE g : Inserts(g)
  <2>1. r = g[E]
    BY ZenonT(60) DEF FoldSet, MapThenFoldSet, AnyOf
  <2>2. Inserts(f)
    <3>1. ASSUME NEW x \in SUBSET E
          PROVE  f[x] = IF x = {} THEN <<>> ELSE SortedInsert(f[x \ {AnyOf(x)}], AnyOf(x))
      <4>1. CASE x = {}
        BY <1>4, <4>1 DEF Folds
      <4>2. CASE x # {}
        <5>1. RestOf(x) \in SUBSET E /\ AnyOf(x) \in E
          BY <4>2, PickIs
        <5>2. f[x] = G[AnyOf(x)][f[RestOf(x)]] /\ f[RestOf(x)] \in Seq(Entry)
          BY <1>4, <4>2, <5>1 DEF Folds
        <5>3. f[x] = SortedInsert(f[RestOf(x)], AnyOf(x))
          BY <1>3, <5>1, <5>2
        <5> QED
          BY <4>2, <5>3 DEF RestOf
      <4> QED
        BY <4>1, <4>2
    <3>2. f = [x \in SUBSET E |-> f[x]]
      BY <1>4 DEF Folds
    <3> QED
      BY <3>1, <3>2, ZenonT(60)
  <2>3. Inserts(g)
    BY <2>2, ZenonT(60)
  <2> HIDE DEF g, r
  <2>4. g[{}] = nil
    BY <2>3
  <2>5. ASSUME NEW x \in SUBSET E, x # {}, g[RestOf(x)] \in Seq(Entry)
        PROVE  g[x] = G[AnyOf(x)][g[RestOf(x)]]
    <3>1. g[x] = SortedInsert(g[RestOf(x)], AnyOf(x))
      BY <2>3, <2>5, ZenonT(60) DEF RestOf
    <3>2. AnyOf(x) \in E
      BY <2>5, PickIs
    <3> QED
      BY <1>3, <2>5, <3>1, <3>2
  <2>6. FoldsUp(g, E, Seq(Entry), nil, G)
    BY <2>4, <2>5, ZenonT(60) DEF FoldsUp
  <2>7. g[E] = f[E]
    <3> HIDE DEF nil
    <3> QED
      BY <1>2, <1>4, <2>6, FoldAgrees
  <2> QED
    BY <2>1, <2>7
<1> HIDE DEF r
<1> DEFINE U == {x \in SUBSET E : Lists(f[x], times, {e.id : e \in x})}
<1>6. ASSUME NEW x \in SUBSET E, \A y \in x : x \ {y} \in U PROVE x \in U
  <2>1. CASE x = {}
    <3>1. f[x] = <<>> /\ {e.id : e \in x} = {}
      BY <1>4, <2>1 DEF Folds
    <3>2. Lists(<<>>, times, {})
      BY DEF Lists
    <3> QED
      BY <3>1, <3>2, ZenonT(60)
  <2>2. CASE x # {}
    <3> DEFINE y == AnyOf(x)
               z == RestOf(x)
    <3>1. y \in x /\ y \in E /\ z \in SUBSET E /\ z = x \ {y} /\ z \in U
      BY <1>6, <2>2, PickIs, ZenonT(60) DEF RestOf
    <3>2. f[x] = G[y][f[z]] /\ f[z] \in Seq(Entry)
      BY <1>4, <2>2, <3>1, ZenonT(60) DEF Folds
    <3> HIDE DEF y, z
    <3>3. f[x] = SortedInsert(f[z], y)
      BY <1>3, <3>1, <3>2, ZenonT(60)
    <3> DEFINE Z == {e.id : e \in z}
    <3>4. Lists(f[z], times, Z)
      BY <3>1
    <3>5. y.id \notin Z
      <4> SUFFICES ASSUME NEW e \in z, e.id = y.id PROVE FALSE
        OBVIOUS
      <4>1. e \in Entry /\ y \in Entry /\ e.time = times[e.id] /\ y.time = times[y.id] /\ e # y
        BY <3>1
      <4>2. e.time = y.time
        BY <4>1
      <4>3. e = [id |-> e.id, time |-> e.time] /\ y = [id |-> y.id, time |-> y.time]
        BY <4>1 DEF Entry
      <4> QED
        BY <4>1, <4>2, <4>3
    <3>6. y \in Entry /\ y.time = times[y.id]
      BY <3>1
    <3>7. Z \cup {y.id} = {e.id : e \in x}
      BY <3>1
    <3> HIDE DEF Z
    <3>8. Lists(SortedInsert(f[z], y), times, Z \cup {y.id})
      BY <3>2, <3>4, <3>5, <3>6, InsertLists
    <3> QED
      BY <3>3, <3>7, <3>8, ZenonT(60)
  <2> QED
    BY <2>1, <2>2
<1>7. E \in U
  <2> HIDE DEF U
  <2>1. \A x \in SUBSET E : x \in U
    BY <1>6, SubsetInduction, ZenonT(60)
  <2> QED
    BY <2>1
<1>8. r \in Seq(Entry)
  BY <1>2, <1>4, <1>5 DEF Folds
<1> QED
  BY <1>5, <1>7, <1>8, ZenonT(60) DEF r

Times(p) == [t \in Tx |-> p[t].receive_time]

\* The list that init builds from the database.
LEMMA RebuildLists ==
  ASSUME IsFiniteSet(Tx), NEW p \in [Tx -> Metadata], Rebuild(p)
  PROVE  sorted' \in Seq(Entry) /\ Lists(sorted', Times(p), Ids(p))
<1> DEFINE E == {[id |-> t, time |-> p[t].receive_time] : t \in Ids(p)}
           h == [t \in Ids(p) |-> [id |-> t, time |-> p[t].receive_time]]
<1>1. Ids(p) \in SUBSET Tx /\ \A t \in Tx : p[t].receive_time \in Nat
  BY DEF Ids, Metadata
<1>2. E \in SUBSET Entry /\ \A e \in E : e.time = Times(p)[e.id]
  BY <1>1 DEF Entry, Times
<1>3. IsFiniteSet(E)
  <2>1. IsFiniteSet(Ids(p))
    BY <1>1, FiniteSubset
  <2>2. h \in [Ids(p) -> E] /\ \A e \in E : \E t \in Ids(p) : h[t] = e
    BY ZenonT(60)
  <2> HIDE DEF E, h
  <2> QED
    BY <2>1, <2>2, FiniteImage
<1>4. {e.id : e \in E} = Ids(p)
  <2>1. \A e \in E : e.id \in Ids(p)
    OBVIOUS
  <2>2. \A t \in Ids(p) : h[t] \in E /\ h[t].id = t
    OBVIOUS
  <2> HIDE DEF E, h
  <2> QED
    BY <2>1, <2>2
<1>5. sorted' = FoldSet(LAMBDA e, s : SortedInsert(s, e), <<>>, E)
  BY ZenonT(60) DEF Rebuild
<1> HIDE DEF E
<1>6. sorted' \in Seq(Entry) /\ Lists(sorted', Times(p), {e.id : e \in E})
  BY <1>2, <1>3, <1>5, InsertAllLists, ZenonT(60)
<1> QED
  BY <1>4, <1>6, ZenonT(60)

\* A list that holds each transaction once is as long as there are transactions.
LEMMA ListsCount ==
  ASSUME NEW s \in Seq(Entry), NEW times, NEW X, Lists(s, times, X)
  PROVE  /\ Range(s) = {[id |-> t, time |-> times[t]] : t \in X}
         /\ Len(s) = Cardinality(X)
<1> DEFINE n == Len(s)
           f == [i \in 1..n |-> s[i].id]
<1>0. n \in Nat /\ DOMAIN s = 1..n /\ \A i \in 1..n : s[i] \in Entry
  OBVIOUS
<1>1. /\ \A i \in 1..n : s[i].id \in X /\ s[i].time = times[s[i].id]
      /\ \A t \in X : \E i \in 1..n : s[i].id = t
      /\ \A i, j \in 1..n : s[i].id = s[j].id => i = j
  BY DEF Lists
<1>2. \A i \in 1..n : s[i] = [id |-> s[i].id, time |-> times[s[i].id]]
  BY <1>0, <1>1 DEF Entry
<1>3. Range(s) = {s[i] : i \in 1..n}
  BY <1>0 DEF Range
<1>4. Range(s) = {[id |-> t, time |-> times[t]] : t \in X}
  <2>1. ASSUME NEW e \in Range(s) PROVE \E t \in X : e = [id |-> t, time |-> times[t]]
    <3>1. PICK i \in 1..n : e = s[i]
      BY <1>3
    <3>2. s[i].id \in X /\ e = [id |-> s[i].id, time |-> times[s[i].id]]
      BY <1>1, <1>2, <3>1
    <3> QED
      BY <3>2, ZenonT(60)
  <2>2. ASSUME NEW t \in X PROVE [id |-> t, time |-> times[t]] \in Range(s)
    <3>1. PICK i \in 1..n : s[i].id = t
      BY <1>1
    <3>2. s[i] = [id |-> t, time |-> times[t]]
      BY <1>2, <3>1
    <3>3. s[i] \in Range(s)
      BY <1>3
    <3> QED
      BY <3>2, <3>3, ZenonT(60)
  <2> QED
    BY <2>1, <2>2, ZenonT(60)
<1>5. Cardinality(X) = n
  <2>1. f \in [1..n -> X]
    BY <1>1
  <2>2. \A i, j \in 1..n : f[i] = f[j] => i = j
    BY <1>1
  <2>3. \A t \in X : \E i \in 1..n : f[i] = t
    BY <1>1
  <2> HIDE DEF n, f
  <2> QED
    BY <1>0, <2>1, <2>2, <2>3, CountOf, ZenonT(60)
<1> QED
  BY <1>4, <1>5

\* A list depends on the times of its transactions only.
LEMMA ListsAgree ==
  ASSUME NEW s, NEW a, NEW b, NEW X, Lists(s, a, X), \A t \in X : a[t] = b[t]
  PROVE  Lists(s, b, X)
  BY DEF Lists

\* The ids in a pool are transactions.
LEMMA IdsType ==
  ASSUME IsFiniteSet(Tx), NEW p
  PROVE  Ids(p) \in SUBSET Tx /\ IsFiniteSet(Ids(p)) /\ TotalWeight(Ids(p)) \in Nat
<1>1. Ids(p) \in SUBSET Tx
  BY DEF Ids
<1> QED
  BY <1>1, FiniteSubset, TotalIs

-----------------------------------------------------------------------------
(***************************************************************************)
(* The transactions of the chain and of a block.                           *)
(***************************************************************************)
\* A transaction is on the chain at some place of some block.
LEMMA OnChainIs ==
  ASSUME NEW c \in Seq(Seq(Tx)), NEW t
  PROVE  t \in OnChain(c) <=> \E h \in 1..Len(c) : \E i \in 1..Len(c[h]) : c[h][i] = t
<1>1. \A h \in 1..Len(c) : c[h] \in Seq(Tx)
  OBVIOUS
<1>2. \A h \in 1..Len(c) : DOMAIN c[h] = 1..Len(c[h])
  BY <1>1
<1>3. \A h \in 1..Len(c) : t \in Range(c[h]) <=> \E i \in 1..Len(c[h]) : c[h][i] = t
  BY <1>2, ZenonT(60) DEF Range
<1>4. t \in OnChain(c) <=> \E h \in 1..Len(c) : t \in Range(c[h])
  BY ZenonT(60) DEF OnChain
<1> QED
  BY <1>3, <1>4, ZenonT(60)

\* The transactions a block takes are its first ones, and each is available.
LEMMA TakenIs ==
  ASSUME NEW b \in Blocks
  PROVE  /\ Len(Taken(b)) \in 0..Len(b)
         /\ \A i \in 1..Len(Taken(b)) : Taken(b)[i] = b[i] /\ Available(b, i)
<1> DEFINE S == {n \in 0..Len(b) : /\ \A i \in 1..n : Available(b, i)
                                   /\ \A i \in 1..(n - 1) : InputsOk(chain, b[i])}
           n == Max(S)
<1>1. b \in Seq(Tx) /\ Len(b) \in Nat
  BY TxAssumption
<1>2. S \subseteq 0..Len(b) /\ 0 \in S
  BY <1>1
<1>3. n \in S
  <2> HIDE DEF S
  <2> QED
    BY <1>1, <1>2, MaxIs, ZenonT(60)
<1> HIDE DEF n
<1>4. n \in 0..Len(b) /\ \A i \in 1..n : Available(b, i)
  BY <1>3
<1>5. Taken(b) = SubSeq(b, 1, n)
  BY DEF Taken, n
<1> HIDE DEF S
<1>6. /\ SubSeq(b, 1, n) \in Seq(Tx)
      /\ Len(SubSeq(b, 1, n)) = IF 1 <= n THEN n - 1 + 1 ELSE 0
      /\ \A j \in 1..(n - 1 + 1) : SubSeq(b, 1, n)[j] = b[1 + j - 1]
  <2>1. n \in Int /\ 1 \in Int /\ \A i \in 1..n : b[i] \in Tx
    BY <1>1, <1>4
  <2> QED
    BY <2>1, SubSeqIs
<1>7. Len(SubSeq(b, 1, n)) = n
  BY <1>4, <1>6
<1>8. \A j \in 1..n : j \in 1..(n - 1 + 1) /\ 1 + j - 1 = j
  BY <1>4
<1>9. \A j \in 1..n : SubSeq(b, 1, n)[j] = b[j]
  BY <1>6, <1>8
<1> QED
  BY <1>4, <1>5, <1>7, <1>9

-----------------------------------------------------------------------------
(***************************************************************************)
(* The types of the variables.                                             *)
(***************************************************************************)
CacheEntry == [known : BOOLEAN, ok : BOOLEAN, used : Nat \cup {-1}]

\* The types the proofs use: all but those of the list by fee and of what is computed from it.
PoolTyped ==
  /\ chain \in Seq(Seq(Tx))
  /\ pool \in [Tx -> Metadata]
  /\ spent \in [KeyImage -> SUBSET Tx]
  /\ cache \in [Tx -> CacheEntry]
  /\ now \in Nat
  /\ batch \in [open : BOOLEAN, pool : [Tx -> Metadata], chain : Seq(Seq(Tx)), success : BOOLEAN]
  /\ todo \in Seq(Tx)
  /\ prune = [on |-> prune.on, it |-> prune.it, pool |-> prune.pool]
  /\ prune.on \in BOOLEAN
  /\ prune.pool \in [Tx -> Metadata]
  /\ template \in [on : BOOLEAN, it : Nat, txs : SUBSET Tx,
                   pool : [Tx -> Metadata]]

\* No metadata is metadata.
LEMMA AbsentType == Absent \in Metadata
  BY DEF Absent, Metadata

\* The key images of a transaction, by the position of the input.
LEMMA ImagesType ==
  ASSUME NEW t \in Tx
  PROVE  /\ Images[t] \in Seq(KeyImage)
         /\ Len(Images[t]) \in Nat \ {0}
         /\ \A i \in 1..Len(Images[t]) : Images[t][i] \in KeyImage
         /\ Spends(t) = {Images[t][i] : i \in 1..Len(Images[t])}
  BY TxAssumption DEF Spends, Range

\* The latest block an input check used is a height.
LEMMA MaxUsedType ==
  ASSUME NEW c \in Seq(Seq(Tx)), NEW t \in Tx
  PROVE  MaxUsed(c, t) \in Nat
<1> DEFINE S == {0} \cup {h \in 1..Len(c) : Range(c[h]) \cap Needs[t] # {}}
<1>1. Len(c) \in Nat /\ S \subseteq 0..Len(c) /\ S # {} /\ S \subseteq Nat
  OBVIOUS
<1> HIDE DEF S
<1>2. Max(S) \in S
  BY <1>1, MaxIs, ZenonT(60)
<1>3. Max(S) \in Nat
  BY <1>1, <1>2, ZenonT(60)
<1> QED
  BY <1>3 DEF MaxUsed, S

\* An input check, cached or not, returns a cache entry.
LEMMA CheckType ==
  ASSUME NEW k \in [Tx -> CacheEntry], NEW c \in Seq(Seq(Tx)), NEW t \in Tx,
         NEW used \in Nat \cup {-1}, NEW kept
  PROVE  check_tx_inputs(k, c, t, used, kept) \in CacheEntry
<1>1. InputsOk(c, t) \in BOOLEAN
  BY DEF InputsOk
<1>2. MaxUsed(c, t) \in Nat
  BY MaxUsedType
<1> QED
  BY <1>1, <1>2 DEF check_tx_inputs, CacheEntry

\* Entering key images keeps the type of the index.
LEMMA InsertType ==
  ASSUME NEW p, NEW s \in [KeyImage -> SUBSET Tx], NEW t \in Tx, NEW m
  PROVE  insert_key_images(p, s, t, m) \in [KeyImage -> SUBSET Tx]
  BY DEF insert_key_images

\* Removing key images keeps the type of the index.
LEMMA RemoveType ==
  ASSUME NEW s \in [KeyImage -> SUBSET Tx], NEW T
  PROVE  remove_transaction_keyimages(s, T) \in [KeyImage -> SUBSET Tx]
  BY DEF remove_transaction_keyimages

\* The transactions a refused block had taken are transactions of the block.
LEMMA TakenType ==
  ASSUME NEW b \in Blocks
  PROVE  Taken(b) \in Seq(Tx) /\ Range(Taken(b)) \subseteq Tx
<1> DEFINE S == {n \in 0..Len(b) : /\ \A i \in 1..n : Available(b, i)
                                   /\ \A i \in 1..(n - 1) : InputsOk(chain, b[i])}
           n == Max(S)
<1>1. b \in Seq(Tx) /\ Len(b) \in Nat
  BY TxAssumption
<1>2. S \subseteq 0..Len(b) /\ 0 \in S
  BY <1>1
<1> HIDE DEF S
<1>3. n \in 0..Len(b)
  BY <1>1, <1>2, MaxIs, ZenonT(60)
<1> HIDE DEF n
<1>4. SubSeq(b, 1, n) \in Seq(Tx)
  <2>1. n \in Int /\ 1 \in Int /\ \A i \in 1..n : b[i] \in Tx
    BY <1>1, <1>3
  <2> QED
    BY <2>1, SubSeqIs
<1>5. Taken(b) = SubSeq(b, 1, n)
  BY DEF Taken, S, n
<1> QED
  BY <1>4, <1>5 DEF Range

\* What add_tx does to the types.
LEMMA AddType ==
  ASSUME PoolTyped, NEW t \in Tx, NEW m \in RelayMethod, add_tx(t, m)
  PROVE  /\ pool' \in [Tx -> Metadata]
         /\ spent' \in [KeyImage -> SUBSET Tx]
         /\ cache' \in [Tx -> CacheEntry]
         /\ prune' = [on |-> prune'.on, it |-> prune'.it, pool |-> prune'.pool]
         /\ prune'.on \in BOOLEAN
         /\ prune'.pool \in [Tx -> Metadata]
<1> USE DEF PoolTyped
<1>1. \A kept : check_tx_inputs(cache, chain, t, -1, kept) \in CacheEntry
  BY CheckType, ZenonT(60)
<1>2. \A r : insert_key_images(pool, spent, t, r) \in [KeyImage -> SUBSET Tx]
  BY InsertType
<1>3. ASSUME NEW r \in RelayMethod, NEW u \in Nat \cup {-1}, Store(t, r, u)
      PROVE  pool' \in [Tx -> Metadata]
  BY <1>3 DEF Store, Metadata
<1>4. CASE AddWrongInputs(t, m)
  BY <1>1, <1>4, ZenonT(60) DEF AddWrongInputs
<1>5. CASE AddUnverified(t, m)
  <2>1. spent' \in [KeyImage -> SUBSET Tx] /\ cache' = cache
    BY <1>2, <1>5 DEF AddUnverified
  <2>2. CASE InsertSucceeds(pool, spent, t, m) /\ t \notin Ids(pool)
    <3>1. Store(t, m, -1) /\ StartPrune
      BY <1>5, <2>2 DEF AddUnverified
    <3>2. pool' \in [Tx -> Metadata]
      BY <1>3, <3>1
    <3> QED
      BY <2>1, <3>1, <3>2 DEF StartPrune
  <2>3. CASE ~ (InsertSucceeds(pool, spent, t, m) /\ t \notin Ids(pool))
    BY <1>5, <2>1, <2>3 DEF AddUnverified
  <2> QED
    BY <2>2, <2>3
<1>6. CASE AddVerified(t, m)
  <2> DEFINE r == check_tx_inputs(cache, chain, t, -1, m = "block")
             relay == IF m = "stem" /\ pool[t].relay = "stem" THEN "fluff" ELSE m
             changes == t \notin Ids(pool) \/ Rank[pool[t].relay] < Rank[relay]
  <2>1. r \in CacheEntry /\ relay \in RelayMethod /\ r.used \in Nat \cup {-1}
    BY <1>1, ZenonT(60) DEF RelayMethod, CacheEntry
  <2>2. /\ cache' = IF m = "block" THEN cache ELSE [cache EXCEPT ![t] = r]
        /\ spent' = IF changes THEN insert_key_images(pool, spent, t, relay) ELSE spent
        /\ IF changes /\ ~ InsertSucceeds(pool, spent, t, relay)
           THEN UNCHANGED <<pool, sorted, weight, prune>>
           ELSE /\ IF changes THEN Store(t, relay, r.used) ELSE UNCHANGED <<pool, sorted>>
                /\ weight' = AddWeight(weight, Weight[t])
                /\ StartPrune
    BY <1>6 DEF AddVerified
  <2> HIDE DEF r, relay, changes
  <2>3. spent' \in [KeyImage -> SUBSET Tx]
    BY <1>2, <2>2
  <2>4. cache' \in [Tx -> CacheEntry]
    BY <2>1, <2>2
  <2>5. CASE changes /\ ~ InsertSucceeds(pool, spent, t, relay)
    BY <2>2, <2>3, <2>4, <2>5
  <2>6. CASE ~ (changes /\ ~ InsertSucceeds(pool, spent, t, relay))
    <3>1. pool' \in [Tx -> Metadata]
      BY <1>3, <2>1, <2>2, <2>6
    <3>2. StartPrune
      BY <2>2, <2>6
    <3> QED
      BY <2>3, <2>4, <3>1, <3>2 DEF StartPrune
  <2> QED
    BY <2>5, <2>6
<1> QED
  BY <1>4, <1>5, <1>6 DEF add_tx

\* A first start has the types.
LEMMA TypesInit == Init => PoolTyped
<1> SUFFICES ASSUME Init PROVE PoolTyped
  OBVIOUS
<1>1. [t \in Tx |-> Absent] \in [Tx -> Metadata]
  BY AbsentType
<1>2. Unknown \in CacheEntry
  BY DEF Unknown, CacheEntry
<1>3. /\ chain \in Seq(Seq(Tx)) /\ todo \in Seq(Tx) /\ now \in Nat
      /\ spent \in [KeyImage -> SUBSET Tx]
  BY DEF Init
<1>4. pool \in [Tx -> Metadata] /\ cache \in [Tx -> CacheEntry]
  BY <1>1, <1>2 DEF Init
<1>5. batch \in [open : BOOLEAN, pool : [Tx -> Metadata], chain : Seq(Seq(Tx)), success : BOOLEAN]
  BY <1>1 DEF Init, NoBatch
<1>6. /\ prune = [on |-> prune.on, it |-> prune.it, pool |-> prune.pool]
      /\ prune.on \in BOOLEAN /\ prune.pool \in [Tx -> Metadata]
  BY <1>1 DEF Init, NoPrune
<1>7. template \in [on : BOOLEAN, it : Nat, txs : SUBSET Tx, pool : [Tx -> Metadata]]
  BY <1>1 DEF Init, NoTemplate
<1> QED
  BY <1>3, <1>4, <1>5, <1>6, <1>7, ZenonT(60) DEF PoolTyped

\* What is_transaction_ready_to_go returns: metadata with the same relay method and time.
LEMMA ReadyType ==
  ASSUME NEW md \in Metadata, NEW k \in [Tx -> CacheEntry], NEW t \in Tx, PoolTyped
  PROVE  LET r == is_transaction_ready_to_go(md, k, t)
         IN  /\ r.md \in Metadata /\ r.cache \in [Tx -> CacheEntry]
             /\ r.md.relay = md.relay /\ r.md.receive_time = md.receive_time
<1> DEFINE c == check_tx_inputs(k, chain, t, md.used, FALSE)
           barred == \/ md.failed # <<>> /\ Holds(chain, md.failed[1])
                     \/ md.used > Len(chain)
           new == [md EXCEPT !.used = c.used, !.failed = IF c.ok THEN @ ELSE <<chain>>]
           r == is_transaction_ready_to_go(md, k, t)
<1>1. c \in CacheEntry
  BY CheckType, ZenonT(60) DEF Metadata, PoolTyped
<1>2. r = IF barred THEN [ready |-> FALSE, md |-> md, cache |-> k]
          ELSE [ready |-> c.ok /\ Spends(t) \cap SpentOnChain(chain) = {},
                md |-> new, cache |-> [k EXCEPT ![t] = c]]
  BY DEF is_transaction_ready_to_go
<1> HIDE DEF c, barred
<1>3. <<chain>> \in Seq(Seq(Seq(Tx)))
  BY DEF PoolTyped
<1>4. new \in Metadata /\ new.relay = md.relay /\ new.receive_time = md.receive_time
  BY <1>1, <1>3, ZenonT(60) DEF Metadata, CacheEntry
<1> HIDE DEF new
<1>5. CASE barred
  BY <1>2, <1>5
<1>6. CASE ~ barred
  BY <1>1, <1>2, <1>4, <1>6
<1> QED
  BY <1>5, <1>6

\* Considering a transaction for a template changes neither which transactions the pool
\* holds nor how they were relayed and when they came.
LEMMA ConsiderIs ==
  ASSUME PoolTyped, FillConsider
  PROVE  /\ \A u \in Tx : /\ pool'[u].relay = pool[u].relay
                         /\ pool'[u].receive_time = pool[u].receive_time
         /\ Ids(pool') = Ids(pool)
         /\ UNCHANGED <<chain, spent, sorted, weight, timed_out, now, batch, todo, prune, running>>
<1> DEFINE t == sorted[template.it].id
           r == is_transaction_ready_to_go(pool[t], cache, t)
<1>1. /\ t \in Tx
      /\ pool' = [pool EXCEPT ![t] = r.md]
      /\ UNCHANGED <<chain, spent, sorted, weight, timed_out, now, batch, todo, prune, running>>
  BY ZenonT(60) DEF FillConsider, Ids
<1>2. pool \in [Tx -> Metadata] /\ cache \in [Tx -> CacheEntry]
  BY DEF PoolTyped
<1>3. pool[t] \in Metadata
  <2> HIDE DEF t
  <2> QED
    BY <1>1, <1>2
<1>4. r.md.relay = pool[t].relay /\ r.md.receive_time = pool[t].receive_time
  BY <1>1, <1>2, <1>3, ReadyType, ZenonT(60)
<1> HIDE DEF r, t
<1>5. \A u \in Tx : /\ pool'[u].relay = pool[u].relay
                   /\ pool'[u].receive_time = pool[u].receive_time
  BY <1>1, <1>2, <1>4
<1> QED
  BY <1>1, <1>5 DEF Ids

TemplateSet ==
  [on : BOOLEAN, it : Nat, txs : SUBSET Tx, pool : [Tx -> Metadata]]

\* One more entry of the list passed over, or considered, for the template.
LEMMA SkipType ==
  ASSUME NEW tm \in TemplateSet
  PROVE  [tm EXCEPT !.it = tm.it + 1] \in TemplateSet
<1> DEFINE P == [Tx -> Metadata]
<1> HIDE DEF P
<1>1. tm \in [on : BOOLEAN, it : Nat, txs : SUBSET Tx, pool : P]
  BY DEF TemplateSet, P
<1>2. [tm EXCEPT !.it = tm.it + 1]
        \in [on : BOOLEAN, it : Nat, txs : SUBSET Tx, pool : P]
  BY <1>1
<1> QED
  BY <1>2 DEF TemplateSet, P

\* A template that considered one more entry is a template.
LEMMA ConsiderType ==
  ASSUME NEW tm \in TemplateSet, NEW X \in SUBSET Tx
  PROVE  [on |-> TRUE, it |-> tm.it + 1, txs |-> X, pool |-> tm.pool] \in TemplateSet
  BY DEF TemplateSet

\* Taking transactions keeps the types of the pool and the index.
LEMMA TakeType ==
  ASSUME PoolTyped, NEW T, TakeAll(T)
  PROVE  /\ pool' \in [Tx -> Metadata]
         /\ spent' \in [KeyImage -> SUBSET Tx]
  BY AbsentType, RemoveType, ZenonT(60) DEF PoolTyped, TakeAll

\* Every operation keeps the types.
LEMMA TypesNext == PoolTyped /\ [Next]_vars => PoolTyped'
<1> SUFFICES ASSUME PoolTyped, [Next]_vars PROVE PoolTyped'
  OBVIOUS
<1>a. [t \in Tx |-> Absent] \in [Tx -> Metadata]
  BY AbsentType
<1>b. [t \in Tx |-> Unknown] \in [Tx -> CacheEntry]
  BY DEF Unknown, CacheEntry
<1>c. /\ NoTemplate \in [on : BOOLEAN, it : Nat, txs : SUBSET Tx,
                         pool : [Tx -> Metadata]]
      /\ NoTemplate.pool \in [Tx -> Metadata]
      /\ NoBatch \in [open : BOOLEAN, pool : [Tx -> Metadata], chain : Seq(Seq(Tx)),
                      success : BOOLEAN]
      /\ NoPrune = [on |-> NoPrune.on, it |-> NoPrune.it, pool |-> NoPrune.pool]
      /\ NoPrune.on \in BOOLEAN
      /\ NoPrune.pool \in [Tx -> Metadata]
  BY <1>a DEF NoTemplate, NoBatch, NoPrune
<1>1. ASSUME NEW t \in Tx, NEW m \in Arrivals, AddNewTx(t, m) PROVE PoolTyped'
  <2>1. m \in RelayMethod /\ add_tx(t, m)
    BY <1>1, TxAssumption DEF AddNewTx
  <2> QED
    BY <1>1, <1>c, <2>1, AddType DEF AddNewTx, PoolTyped
<1>2. CASE PruneStep
  <2> DEFINE t == sorted[prune.it].id
  <2>1. \/ /\ pool' = IF batch.open THEN pool ELSE prune.pool
           /\ prune' = NoPrune
           /\ UNCHANGED spent
        \/ /\ prune' = [prune EXCEPT !.it = @ - 1]
           /\ UNCHANGED <<pool, spent>>
        \/ /\ t \in Ids(pool)
           /\ pool' = [pool EXCEPT ![t] = Absent]
           /\ spent' = remove_transaction_keyimages(spent, {t})
           /\ prune' = [prune EXCEPT !.it = @ - 1]
    BY <1>2 DEF PruneStep
  <2>2. /\ template' = NoTemplate
        /\ UNCHANGED <<chain, timed_out, cache, now, batch, todo, running>>
    BY <1>2 DEF PruneStep
  <2>3. remove_transaction_keyimages(spent, {t}) \in [KeyImage -> SUBSET Tx]
    BY RemoveType, ZenonT(60) DEF PoolTyped
  <2> HIDE DEF t
  <2>4. pool' \in [Tx -> Metadata] /\ spent' \in [KeyImage -> SUBSET Tx]
    <3>1. /\ pool \in [Tx -> Metadata]
          /\ prune.pool \in [Tx -> Metadata]
          /\ [pool EXCEPT ![t] = Absent] \in [Tx -> Metadata]
          /\ spent \in [KeyImage -> SUBSET Tx]
      BY AbsentType, ZenonT(60) DEF PoolTyped
    <3>2. \/ pool' = pool
          \/ pool' = prune.pool
          \/ pool' = [pool EXCEPT ![t] = Absent]
      BY <2>1
    <3>3. spent' = spent \/ spent' = remove_transaction_keyimages(spent, {t})
      BY <2>1
    <3> QED
      BY <2>3, <3>1, <3>2, <3>3, ZenonT(60)
  <2>5. /\ prune' = [on |-> prune'.on, it |-> prune'.it, pool |-> prune'.pool]
        /\ prune'.on \in BOOLEAN
        /\ prune'.pool \in [Tx -> Metadata]
    <3>1. CASE prune' = NoPrune
      BY <1>c, <3>1
    <3>2. CASE prune' = [prune EXCEPT !.it = @ - 1]
      <4>1. prune' = [on |-> prune.on, it |-> prune.it - 1, pool |-> prune.pool]
        BY <3>2, ZenonT(60) DEF PoolTyped
      <4> QED
        BY <4>1 DEF PoolTyped
    <3> QED
      BY <2>1, <3>1, <3>2
  <2> QED
    BY <1>c, <2>2, <2>4, <2>5 DEF PoolTyped
<1>3. CASE PruneDone
  BY <1>3, <1>c DEF PruneDone, PoolTyped, memory
<1>4. ASSUME NEW t \in Tx, FlushTx(t) PROVE PoolTyped'
  BY <1>4, <1>c, TakeType DEF FlushTx, PoolTyped
<1>5. CASE BatchStart
  BY <1>5, <1>c DEF BatchStart, PoolTyped, memory
<1>6. CASE BatchEnd
  BY <1>6, <1>c DEF BatchEnd, PoolTyped, memory
<1>7. ASSUME NEW b \in Blocks, AddBlock(b) PROVE PoolTyped'
  <2>1. Append(chain, b) \in Seq(Seq(Tx))
    BY TxAssumption DEF PoolTyped
  <2> QED
    BY <1>7, <1>b, <1>c, <2>1, TakeType DEF AddBlock, on_blockchain_inc, PoolTyped
<1>8. ASSUME NEW b \in Blocks, RefuseBlock(b) PROVE PoolTyped'
  <2>1. TakeAll(Range(Taken(b))) /\ todo' = Taken(b)
    BY <1>8 DEF RefuseBlock
  <2>2. Taken(b) \in Seq(Tx)
    BY TakenType
  <2>3. pool' \in [Tx -> Metadata] /\ spent' \in [KeyImage -> SUBSET Tx]
    BY <2>1, TakeType
  <2>4. batch' = batch \/ batch' = [batch EXCEPT !.success = FALSE]
    BY <1>8 DEF RefuseBlock
  <2>5. template' = NoTemplate /\ UNCHANGED <<chain, cache, now, prune>>
    BY <1>8 DEF RefuseBlock
  <2> QED
    BY <1>c, <2>1, <2>2, <2>3, <2>4, <2>5, ZenonT(60) DEF PoolTyped
<1>9. CASE PopBlock
  <2>1. /\ chain # <<>>
        /\ chain' = SubSeq(chain, 1, Len(chain) - 1)
        /\ todo' = Backwards(chain[Len(chain)])
    BY <1>9 DEF PopBlock
  <2>2. chain \in Seq(Seq(Tx)) /\ Len(chain) >= 1
    BY <2>1 DEF PoolTyped
  <2>3. SubSeq(chain, 1, Len(chain) - 1) \in Seq(Seq(Tx))
    BY <2>2, FrontIs
  <2>4. chain[Len(chain)] \in Seq(Tx)
    BY <2>2
  <2>5. Backwards(chain[Len(chain)]) \in Seq(Tx)
    BY <2>4 DEF Backwards
  <2> QED
    BY <1>9, <1>b, <1>c, <2>1, <2>3, <2>5 DEF PopBlock, on_blockchain_dec, PoolTyped
<1>10. CASE ReturnTx
  <2>1. add_tx(Head(todo), "block") /\ todo # <<>>
    BY <1>10 DEF ReturnTx
  <2>2. Head(todo) \in Tx /\ Tail(todo) \in Seq(Tx)
    BY <2>1 DEF PoolTyped
  <2>3. "block" \in RelayMethod
    BY DEF RelayMethod
  <2> QED
    BY <1>10, <1>c, <2>1, <2>2, <2>3, AddType DEF ReturnTx, PoolTyped
<1>11. ASSUME NEW t \in Tx, NEW m \in {"local", "stem", "fluff"}, SetRelayed(t, m) PROVE PoolTyped'
  <2>1. m \in RelayMethod
    BY DEF RelayMethod
  <2>2. pool' \in [Tx -> Metadata]
    <3>1. pool \in [Tx -> Metadata]
      BY DEF PoolTyped
    <3>2. [pool[t] EXCEPT !.relay = m] \in Metadata
      BY <2>1, <3>1, ZenonT(60) DEF Metadata
    <3>3. pool' = [pool EXCEPT ![t] = [pool[t] EXCEPT !.relay = m]]
      BY <1>11 DEF SetRelayed
    <3> QED
      BY <3>1, <3>2, <3>3
  <2> QED
    BY <1>11, <1>c, <2>2 DEF SetRelayed, PoolTyped, memory
<1>12. CASE RemoveStuck
  BY <1>12, <1>c, TakeType DEF RemoveStuck, PoolTyped
<1>13. CASE Tick
  BY <1>13 DEF Tick, PoolTyped, memory
<1>14. CASE FillStart
  BY <1>14 DEF FillStart, PoolTyped, memory
<1>15. CASE FillSkip
  <2>1. template' = [template EXCEPT !.it = template.it + 1]
    BY <1>15 DEF FillSkip
  <2>2. template \in TemplateSet
    BY DEF PoolTyped, TemplateSet
  <2>3. template' \in TemplateSet
    BY <2>1, <2>2, SkipType
  <2> QED
    BY <1>15, <2>3, ZenonT(60) DEF FillSkip, PoolTyped, memory, TemplateSet
<1>16. CASE FillConsider
  <2> DEFINE t == sorted[template.it].id
             r == is_transaction_ready_to_go(pool[t], cache, t)
  <2>1. t \in Tx
    BY <1>16, ZenonT(60) DEF FillConsider, Ids
  <2>2. r.md \in Metadata /\ r.cache \in [Tx -> CacheEntry]
    BY <2>1, ReadyType, ZenonT(60) DEF PoolTyped
  <2>3. /\ pool' = [pool EXCEPT ![t] = r.md]
        /\ cache' = r.cache
        /\ \E X \in {template.txs, template.txs \cup {t}} :
             template' = [on |-> TRUE, it |-> template.it + 1, txs |-> X,
                          pool |-> template.pool]
        /\ UNCHANGED <<chain, spent, now, batch, todo, prune>>
    BY <1>16, ZenonT(60) DEF FillConsider
  <2> HIDE DEF t, r
  <2>4. PICK X \in SUBSET Tx :
          template' = [on |-> TRUE, it |-> template.it + 1, txs |-> X,
                       pool |-> template.pool]
    <3>1. template.txs \in SUBSET Tx
      BY DEF PoolTyped
    <3>2. template.txs \cup {t} \in SUBSET Tx
      BY <2>1, <3>1
    <3> QED
      BY <2>3, <3>1, <3>2, ZenonT(60)
  <2>5. template' \in TemplateSet
    <3>1. template \in TemplateSet
      BY DEF PoolTyped, TemplateSet
    <3> QED
      BY <2>4, <3>1, ConsiderType
  <2>6. pool' \in [Tx -> Metadata]
    BY <2>1, <2>2, <2>3 DEF PoolTyped
  <2> QED
    BY <2>2, <2>3, <2>5, <2>6, ZenonT(60) DEF PoolTyped, TemplateSet
<1>17. CASE FillDone
  BY <1>17, <1>c, ZenonT(60) DEF FillDone, PoolTyped, memory
<1>18. CASE Restart
  <2>1. CommittedPool \in [Tx -> Metadata] /\ CommittedChain \in Seq(Seq(Tx))
    BY DEF CommittedPool, CommittedChain, PoolTyped
  <2>2. pool' \in [Tx -> Metadata] /\ spent' \in [KeyImage -> SUBSET Tx]
    <3>1. CASE InitSucceeds(CommittedPool)
      <4>1. Rebuild([t \in Tx |-> IF t \in OnChain(CommittedChain) THEN Absent
                                  ELSE CommittedPool[t]])
        BY <1>18, <3>1 DEF Restart
      <4> QED
        BY <2>1, <4>1, AbsentType, ZenonT(60) DEF Rebuild, Ids
    <3>2. CASE ~ InitSucceeds(CommittedPool)
      BY <1>18, <2>1, <3>2 DEF Restart
    <3> QED
      BY <3>1, <3>2
  <2> QED
    BY <1>18, <1>b, <1>c, <2>1, <2>2 DEF Restart, PoolTyped
<1>19. CASE UNCHANGED vars
  BY <1>19 DEF vars, PoolTyped
<1> QED
  BY <1>1, <1>2, <1>3, <1>4, <1>5, <1>6, <1>7, <1>8, <1>9, <1>10, <1>11, <1>12, <1>13,
     <1>14, <1>15, <1>16, <1>17, <1>18, <1>19 DEF Next

\* The variables of the pool that the other theorems rest on (all but the list by fee, the
\* weight and the timed-out ids) keep their types, for every set of transactions and blocks.
THEOREM TypesHold == Spec => []PoolTyped
  BY TypesInit, TypesNext, PTL DEF Spec
-----------------------------------------------------------------------------
(***************************************************************************)
(* The types of the variables PoolTyped leaves out.  The iterator of the   *)
(* prune loop stays within the list, which nothing else changes meanwhile. *)
(***************************************************************************)
RestTyped ==
  /\ sorted \in Seq(Entry)
  /\ weight \in 0..(SizeModulus - 1)
  /\ timed_out \in SUBSET Tx
  /\ prune.it \in Nat
  /\ prune.on => prune.it <= Len(sorted)
  /\ running \in BOOLEAN

\* The weight stays in its range, whatever is added or subtracted.
LEMMA WeightType ==
  ASSUME NEW w \in Int, NEW x \in Int
  PROVE  AddWeight(w, x) \in 0..(SizeModulus - 1) /\ SubWeight(w, x) \in 0..(SizeModulus - 1)
<1>1. SizeModulus \in Nat \ {0} /\ w + x \in Int /\ w - x \in Int
  BY LimitsAssumption
<1>2. \A y \in Int : (y % SizeModulus) \in 0..(SizeModulus - 1)
  BY <1>1
<1> QED
  BY <1>1, <1>2 DEF AddWeight, SubWeight

\* An entry that ends up in the list, whether or not one like it is there.
LEMMA SortedInsertsType ==
  ASSUME NEW s \in Seq(Entry), NEW e \in Entry, NEW r \in SortedInserts(s, e)
  PROVE  r \in Seq(Entry)
<1>1. SortedInsert(s, e) \in Seq(Entry)
  BY SortedInsertType
<1>2. r = s \/ r = SortedInsert(s, e)
  BY ZenonT(60) DEF SortedInserts
<1> QED
  BY <1>1, <1>2

\* What add_tx does to the other types.
LEMMA AddRest ==
  ASSUME PoolTyped, RestTyped, NEW t \in Tx, NEW m, add_tx(t, m)
  PROVE  /\ sorted' \in Seq(Entry)
         /\ weight' \in 0..(SizeModulus - 1)
         /\ UNCHANGED timed_out
         /\ UNCHANGED <<prune, sorted>> \/ prune'.it = Len(sorted')
<1>1. ASSUME NEW r, NEW u, Store(t, r, u) PROVE sorted' \in Seq(Entry)
  <2>1. now \in Nat /\ sorted \in Seq(Entry)
    BY DEF PoolTyped, RestTyped
  <2>2. [id |-> t, time |-> now] \in Entry
    BY <2>1 DEF Entry
  <2>3. sorted' \in SortedInserts(sorted, [id |-> t, time |-> now])
    BY <1>1 DEF Store
  <2> QED
    BY <2>1, <2>2, <2>3, SortedInsertsType
<1>2. AddWeight(weight, Weight[t]) \in 0..(SizeModulus - 1)
  <2>1. weight \in Int /\ Weight[t] \in Int
    BY TxAssumption, LimitsAssumption DEF RestTyped
  <2> QED
    BY <2>1, WeightType, ZenonT(60)
<1>3. StartPrune => prune'.it = Len(sorted')
  BY DEF StartPrune
<1>4. sorted \in Seq(Entry) /\ weight \in 0..(SizeModulus - 1)
  BY DEF RestTyped
<1>5. UNCHANGED timed_out
  BY DEF add_tx
<1>6. CASE AddWrongInputs(t, m)
  BY <1>4, <1>5, <1>6 DEF AddWrongInputs
<1>7. CASE AddUnverified(t, m)
  <2>1. \/ Store(t, m, -1) /\ weight' = AddWeight(weight, Weight[t]) /\ StartPrune
        \/ UNCHANGED <<sorted, weight, prune>>
    BY <1>7, ZenonT(60) DEF AddUnverified
  <2>2. CASE Store(t, m, -1) /\ weight' = AddWeight(weight, Weight[t]) /\ StartPrune
    BY <1>1, <1>2, <1>3, <1>5, <2>2
  <2>3. CASE UNCHANGED <<sorted, weight, prune>>
    BY <1>4, <1>5, <2>3
  <2> QED
    BY <2>1, <2>2, <2>3
<1>8. CASE AddVerified(t, m)
  <2>1. \/ /\ \/ \E r, u : Store(t, r, u)
              \/ UNCHANGED sorted
           /\ weight' = AddWeight(weight, Weight[t]) /\ StartPrune
        \/ UNCHANGED <<sorted, weight, prune>>
    <3> DEFINE r == check_tx_inputs(cache, chain, t, -1, m = "block")
               relay == IF m = "stem" /\ pool[t].relay = "stem" THEN "fluff" ELSE m
               changes == t \notin Ids(pool) \/ Rank[pool[t].relay] < Rank[relay]
    <3>1. IF changes /\ ~ InsertSucceeds(pool, spent, t, relay)
          THEN UNCHANGED <<pool, sorted, weight, prune>>
          ELSE /\ IF changes THEN Store(t, relay, r.used) ELSE UNCHANGED <<pool, sorted>>
               /\ weight' = AddWeight(weight, Weight[t])
               /\ StartPrune
      BY <1>8, ZenonT(60) DEF AddVerified
    <3> HIDE DEF r, relay, changes
    <3> QED
      BY <3>1, ZenonT(60)
  <2>2. CASE /\ \/ \E r, u : Store(t, r, u)
                \/ UNCHANGED sorted
             /\ weight' = AddWeight(weight, Weight[t]) /\ StartPrune
    BY <1>1, <1>2, <1>3, <1>4, <1>5, <2>2
  <2>3. CASE UNCHANGED <<sorted, weight, prune>>
    BY <1>4, <1>5, <2>3
  <2> QED
    BY <2>1, <2>2, <2>3
<1> QED
  BY <1>6, <1>7, <1>8 DEF add_tx

\* What take_tx does to the other types.
LEMMA TakeRest ==
  ASSUME IsFiniteSet(Tx), RestTyped, NEW T \in SUBSET Tx, TakeAll(T)
  PROVE  sorted' \in Seq(Entry) /\ weight' \in 0..(SizeModulus - 1)
<1>1. sorted \in Seq(Entry) /\ weight \in Int /\ IsFiniteSet(T)
  BY LimitsAssumption, FiniteSubset DEF RestTyped
<1>2. sorted' = FoldSet(LAMBDA t, l : EraseId(l, t), sorted, T)
  BY ZenonT(60) DEF TakeAll
<1>3. sorted' \in Seq(Entry)
  BY <1>1, <1>2, EraseAllLists, ZenonT(60)
<1>4. TotalWeight(T) \in Int
  BY TotalIs
<1>5. weight' = SubWeight(weight, TotalWeight(T))
  BY ZenonT(60) DEF TakeAll
<1> QED
  BY <1>1, <1>3, <1>4, <1>5, WeightType

\* Every operation keeps the other types.
LEMMA RestNext ==
  ASSUME IsFiniteSet(Tx)
  PROVE  PoolTyped /\ RestTyped /\ [Next]_vars => RestTyped'
<1> SUFFICES ASSUME PoolTyped, RestTyped, [Next]_vars PROVE RestTyped'
  OBVIOUS
<1>a. ASSUME UNCHANGED <<sorted, weight, timed_out, prune, running>> PROVE RestTyped'
  BY <1>a DEF RestTyped
<1>b. ASSUME NEW T \in SUBSET Tx, TakeAll(T), ~ prune.on, UNCHANGED <<prune, running>>,
             timed_out' \in SUBSET Tx
      PROVE  RestTyped'
  BY <1>b, TakeRest DEF RestTyped
<1>c. NoPrune.it = 0 /\ ~ NoPrune.on
  BY DEF NoPrune
<1>d. ~ Locked => ~ prune.on
  BY DEF Locked
<1>e. ASSUME NEW t \in Tx, NEW m, add_tx(t, m), UNCHANGED running PROVE RestTyped'
  <2>1. /\ sorted' \in Seq(Entry)
        /\ weight' \in 0..(SizeModulus - 1)
        /\ timed_out' = timed_out
    BY <1>e, AddRest
  <2>2. prune'.it \in Nat /\ (prune'.on => prune'.it <= Len(sorted'))
    <3>1. CASE UNCHANGED <<prune, sorted>>
      BY <3>1 DEF RestTyped
    <3>2. CASE prune'.it = Len(sorted')
      <4>1. Len(sorted') \in Nat
        BY <2>1
      <4> QED
        BY <3>2, <4>1
    <3> QED
      BY <1>e, <3>1, <3>2, AddRest
  <2> QED
    BY <1>e, <2>1, <2>2 DEF RestTyped
<1>1. ASSUME NEW t \in Tx, NEW m \in Arrivals, AddNewTx(t, m) PROVE RestTyped'
  BY <1>1, <1>e DEF AddNewTx
<1>2. CASE PruneStep
  <2> DEFINE t == sorted[prune.it].id
             i == prune.it
  <2>1. /\ prune.on /\ i > 1
        /\ UNCHANGED <<timed_out, running>>
        /\ \/ prune' = NoPrune /\ UNCHANGED <<sorted, weight>>
           \/ prune' = [prune EXCEPT !.it = @ - 1] /\ UNCHANGED <<sorted, weight>>
           \/ /\ t \in Ids(pool)
              /\ prune' = [prune EXCEPT !.it = @ - 1]
              /\ weight' = SubWeight(weight, Weight[t])
              /\ sorted' = EraseAt(sorted, i)
    BY <1>2 DEF PruneStep
  <2>2. /\ sorted \in Seq(Entry) /\ weight \in Int /\ i \in Nat /\ i <= Len(sorted)
        /\ weight \in 0..(SizeModulus - 1)
        /\ timed_out \in SUBSET Tx /\ running \in BOOLEAN
    BY <2>1, LimitsAssumption DEF RestTyped
  <2>3. CASE prune' = NoPrune /\ UNCHANGED <<sorted, weight>>
    BY <1>c, <2>1, <2>2, <2>3 DEF RestTyped
  <2>4. prune' = [prune EXCEPT !.it = @ - 1] => prune'.it = i - 1 /\ prune'.on = prune.on
    <3>1. prune = [on |-> prune.on, it |-> prune.it, pool |-> prune.pool]
      BY DEF PoolTyped
    <3> QED
      BY <3>1
  <2>5. CASE prune' = [prune EXCEPT !.it = @ - 1] /\ UNCHANGED <<sorted, weight>>
    BY <2>1, <2>2, <2>4, <2>5 DEF RestTyped
  <2>6. CASE /\ t \in Ids(pool)
             /\ prune' = [prune EXCEPT !.it = @ - 1]
             /\ weight' = SubWeight(weight, Weight[t])
             /\ sorted' = EraseAt(sorted, i)
    <3> HIDE DEF t, i
    <3>1. weight' \in 0..(SizeModulus - 1)
      <4>1. Weight[t] \in Int
        BY <2>6, TxAssumption DEF Ids
      <4> QED
        BY <2>2, <2>6, <4>1, WeightType
    <3>2. i \in 1..Len(sorted)
      BY <2>1, <2>2
    <3>3. sorted' \in Seq(Entry) /\ Len(sorted') = Len(sorted) - 1
      BY <2>2, <2>6, <3>2, EraseAtIs
    <3>4. prune'.it \in Nat /\ prune'.it <= Len(sorted')
      BY <2>2, <2>4, <2>6, <3>2, <3>3
    <3> QED
      BY <2>1, <2>2, <3>1, <3>3, <3>4 DEF RestTyped
  <2> QED
    BY <2>1, <2>3, <2>5, <2>6
<1>3. CASE PruneDone
  <2>1. prune' = NoPrune /\ UNCHANGED <<sorted, weight, timed_out, running>>
    BY <1>3 DEF PruneDone, memory
  <2> QED
    BY <1>c, <2>1 DEF RestTyped
<1>4. ASSUME NEW t \in Tx, FlushTx(t) PROVE RestTyped'
  <2>1. TakeAll({t}) /\ ~ prune.on /\ UNCHANGED <<prune, running, timed_out>>
    BY <1>4, <1>d DEF FlushTx
  <2>2. timed_out' \in SUBSET Tx
    BY <2>1 DEF RestTyped
  <2> QED
    BY <1>b, <2>1, <2>2
<1>5. CASE BatchStart
  BY <1>5, <1>a DEF BatchStart, memory
<1>6. CASE BatchEnd
  BY <1>6, <1>a DEF BatchEnd, memory
<1>7. ASSUME NEW b \in Blocks, AddBlock(b) PROVE RestTyped'
  <2>1. TakeAll(Range(b)) /\ ~ prune.on /\ UNCHANGED <<prune, running, timed_out>>
    BY <1>7, <1>d DEF AddBlock
  <2>2. Range(b) \in SUBSET Tx /\ timed_out' \in SUBSET Tx
    BY <2>1, TxAssumption DEF Range, RestTyped
  <2> QED
    BY <1>b, <2>1, <2>2
<1>8. ASSUME NEW b \in Blocks, RefuseBlock(b) PROVE RestTyped'
  <2>1. TakeAll(Range(Taken(b))) /\ ~ prune.on /\ UNCHANGED <<prune, running, timed_out>>
    BY <1>8, <1>d DEF RefuseBlock
  <2>2. Range(Taken(b)) \in SUBSET Tx /\ timed_out' \in SUBSET Tx
    BY <2>1, TakenType DEF RestTyped
  <2> QED
    BY <1>b, <2>1, <2>2
<1>9. CASE PopBlock
  BY <1>9, <1>a DEF PopBlock
<1>10. CASE ReturnTx
  <2>1. add_tx(Head(todo), "block") /\ Head(todo) \in Tx /\ UNCHANGED running
    BY <1>10 DEF ReturnTx, PoolTyped
  <2> QED
    BY <1>e, <2>1
<1>11. ASSUME NEW t \in Tx, NEW m \in {"local", "stem", "fluff"}, SetRelayed(t, m) PROVE RestTyped'
  BY <1>11, <1>a DEF SetRelayed, memory
<1>12. CASE RemoveStuck
  <2> DEFINE T == {t \in Tx : Stuck(t)}
  <2>1. TakeAll(T) /\ ~ prune.on /\ UNCHANGED <<prune, running>> /\ timed_out' = timed_out \cup T
    BY <1>12, <1>d DEF RemoveStuck
  <2>2. T \in SUBSET Tx
    OBVIOUS
  <2> HIDE DEF T
  <2>3. timed_out' \in SUBSET Tx
    BY <2>1, <2>2 DEF RestTyped
  <2> QED
    BY <1>b, <2>1, <2>2, <2>3
<1>13. CASE Tick
  BY <1>13, <1>a DEF Tick, memory
<1>14. CASE FillStart
  BY <1>14, <1>a DEF FillStart, memory
<1>15. CASE FillSkip
  BY <1>15, <1>a, ZenonT(60) DEF FillSkip, memory
<1>16. CASE FillConsider
  BY <1>16, <1>a, ZenonT(60) DEF FillConsider
<1>17. CASE FillDone
  BY <1>17, <1>a DEF FillDone, memory
<1>18. CASE Restart
  <2> DEFINE p == [t \in Tx |-> IF t \in OnChain(CommittedChain) THEN Absent
                                ELSE CommittedPool[t]]
  <2>1. /\ \/ running' = TRUE /\ Rebuild(p)
           \/ running' = FALSE /\ sorted' = <<>> /\ weight' = 0
        /\ timed_out' = {}
        /\ prune' = NoPrune
    BY <1>18, ZenonT(60) DEF Restart
  <2>2. p \in [Tx -> Metadata]
    <3>1. CommittedPool \in [Tx -> Metadata]
      BY DEF CommittedPool, PoolTyped
    <3> QED
      BY <3>1, AbsentType
  <2> HIDE DEF p
  <2>3. /\ running' \in BOOLEAN /\ timed_out' \in SUBSET Tx
        /\ prune'.it \in Nat /\ (prune'.on => prune'.it <= Len(sorted'))
    <3>1. running' \in BOOLEAN
      BY <2>1, ZenonT(60)
    <3> QED
      BY <1>c, <2>1, <3>1
  <2>4. CASE Rebuild(p)
    <3>1. sorted' \in Seq(Entry)
      BY <2>2, <2>4, RebuildLists
    <3>2. weight' = TotalWeight(Ids(p)) % SizeModulus
      BY <2>4, ZenonT(60) DEF Rebuild
    <3>3. TotalWeight(Ids(p)) \in Nat
      <4>1. Ids(p) \in SUBSET Tx
        BY DEF Ids
      <4> QED
        BY <4>1, TotalIs
    <3>4. weight' \in 0..(SizeModulus - 1)
      BY <3>2, <3>3, LimitsAssumption
    <3> QED
      BY <2>3, <3>1, <3>4, ZenonT(60) DEF RestTyped
  <2>5. CASE sorted' = <<>> /\ weight' = 0
    <3>1. sorted' \in Seq(Entry) /\ weight' \in 0..(SizeModulus - 1)
      BY <2>5, LimitsAssumption
    <3> QED
      BY <2>3, <3>1, ZenonT(60) DEF RestTyped
  <2> QED
    BY <2>1, <2>4, <2>5
<1>19. CASE UNCHANGED vars
  BY <1>19, <1>a DEF vars
<1> QED
  BY <1>1, <1>2, <1>3, <1>4, <1>5, <1>6, <1>7, <1>8, <1>9, <1>10, <1>11, <1>12, <1>13,
     <1>14, <1>15, <1>16, <1>17, <1>18, <1>19 DEF Next

\* A first start has the other types.
LEMMA RestInit == Init => RestTyped
  BY LimitsAssumption DEF Init, RestTyped, NoPrune

\* The two together are the type invariant.
LEMMA TypesTogether == PoolTyped /\ RestTyped => TypeOK
<1> SUFFICES ASSUME PoolTyped, RestTyped PROVE TypeOK
  OBVIOUS
<1>1. prune \in [on : BOOLEAN, it : Nat, pool : [Tx -> Metadata]]
  <2> DEFINE P == [Tx -> Metadata]
  <2>1. /\ prune = [on |-> prune.on, it |-> prune.it, pool |-> prune.pool]
        /\ prune.on \in BOOLEAN /\ prune.it \in Nat /\ prune.pool \in P
    BY DEF PoolTyped, RestTyped
  <2> HIDE DEF P
  <2>2. prune \in [on : BOOLEAN, it : Nat, pool : P]
    BY <2>1
  <2> QED
    BY <2>2 DEF P
<1> QED
  BY <1>1, ZenonT(60) DEF PoolTyped, RestTyped, TypeOK, CacheEntry, Entry

\* Every variable keeps its type, whatever arrives, fails or crashes: in particular the
\* weight never leaves the range of an unsigned number and the prune loop never runs off the
\* list by fee.
THEOREM EveryType ==
  ASSUME IsFiniteSet(Tx)
  PROVE  Spec => []TypeOK
<1>1. Init => RestTyped
  BY RestInit
<1>2. PoolTyped /\ RestTyped /\ [Next]_vars => RestTyped'
  BY RestNext
<1>3. PoolTyped /\ RestTyped => TypeOK
  BY TypesTogether
<1> QED
  BY <1>1, <1>2, <1>3, TypesHold, PTL, PTL DEF Spec
=============================================================================
