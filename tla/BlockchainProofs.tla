-------------------------- MODULE BlockchainProofs --------------------------
(***************************************************************************)
(* Proofs about Blockchain, for every block tree, every set of checkpoints *)
(* and every outcome of validation.                                        *)
(***************************************************************************)
EXTENDS Blockchain, DataLemmas, TLAPS

\* Leaves that name no prover are for the SMT solver first, with time to spare.
USE SMTT(60), ZenonT(60), SMTT(120)

\* A sequence of blocks that is the path to its last block.
IsChain(c) ==
  /\ c \in Seq(Block)
  /\ Len(c) \in Nat \ {0}
  /\ c = Path[c[Len(c)]]
-----------------------------------------------------------------------------
(***************************************************************************)
(* Parts of sequences.                                                     *)
(***************************************************************************)
LEMMA SameSeq ==
  ASSUME NEW S, NEW s \in Seq(S), NEW t \in Seq(S), Len(s) = Len(t),
         \A i \in 1..Len(s) : s[i] = t[i]
  PROVE  s = t
  OBVIOUS

LEMMA WholeIs ==
  ASSUME NEW S, NEW s \in Seq(S)
  PROVE  SubSeq(s, 1, Len(s)) = s
<1>1. Len(s) \in Nat /\ \A i \in 1..Len(s) : s[i] \in S
  OBVIOUS
<1>2. /\ SubSeq(s, 1, Len(s)) \in Seq(S) /\ Len(SubSeq(s, 1, Len(s))) = Len(s)
      /\ \A i \in 1..Len(s) : SubSeq(s, 1, Len(s))[i] = s[i]
  BY <1>1, SubSeqIs
<1> QED
  BY <1>2, SameSeq

\* A part of a part is a part.
LEMMA PartOfPart ==
  ASSUME NEW S, NEW s \in Seq(S), NEW a \in 1..Len(s), NEW b \in 1..Len(s),
         NEW k \in 1..(b - a + 1), NEW m \in 1..(b - a + 1)
  PROVE  SubSeq(SubSeq(s, a, b), k, m) = SubSeq(s, a + k - 1, a + m - 1)
<1> DEFINE r == SubSeq(s, a, b)
           x == SubSeq(r, k, m)
           y == SubSeq(s, a + k - 1, a + m - 1)
<1>1. /\ r \in Seq(S) /\ Len(r) = b - a + 1
      /\ \A i \in 1..(b - a + 1) : r[i] = s[a + i - 1] /\ r[i] \in S
  BY SubSeqIs
<1> HIDE DEF r
<1>2. /\ x \in Seq(S) /\ Len(x) = IF k <= m THEN m - k + 1 ELSE 0
      /\ \A i \in 1..(m - k + 1) : x[i] = r[k + i - 1]
  BY <1>1, SubSeqIs
<1>3. /\ y \in Seq(S) /\ Len(y) = IF k <= m THEN m - k + 1 ELSE 0
      /\ \A i \in 1..(m - k + 1) : y[i] = s[a + k - 1 + i - 1]
  <2>1. \A i \in (a + k - 1)..(a + m - 1) : s[i] \in S
    OBVIOUS
  <2>2. a + k - 1 \in Int /\ a + m - 1 \in Int
    OBVIOUS
  <2>3. \A i \in Int : a + m - 1 - (a + k - 1) + 1 = m - k + 1
    OBVIOUS
  <2> QED
    BY <2>1, <2>2, <2>3, SubSeqIs
<1> HIDE DEF x, y
<1>4. \A i \in 1..(m - k + 1) : x[i] = y[i]
  <2> SUFFICES ASSUME NEW i \in 1..(m - k + 1) PROVE x[i] = y[i]
    OBVIOUS
  <2>1. k + i - 1 \in 1..(b - a + 1) /\ a + (k + i - 1) - 1 = a + k - 1 + i - 1
    OBVIOUS
  <2> QED
    BY <1>1, <1>2, <1>3, <2>1, ZenonT(60)
<1> QED
  <2>1. \A i \in 1..Len(x) : x[i] = y[i]
    BY <1>2, <1>4
  <2>2. x = y
    BY <1>2, <1>3, <2>1, SameSeq, ZenonT(60)
  <2> QED
    BY <2>2, ZenonT(60) DEF x, y, r

\* Two parts that meet.
LEMMA PartsJoin ==
  ASSUME NEW S, NEW s \in Seq(S), NEW a \in 1..(Len(s) + 1), NEW k \in (a - 1)..Len(s),
         NEW b \in k..Len(s)
  PROVE  SubSeq(s, a, k) \o SubSeq(s, k + 1, b) = SubSeq(s, a, b)
<1> DEFINE x == SubSeq(s, a, k)
           y == SubSeq(s, k + 1, b)
           z == SubSeq(s, a, b)
           w == x \o y
<1>1. /\ x \in Seq(S) /\ Len(x) = k - a + 1
      /\ \A i \in 1..(k - a + 1) : x[i] = s[a + i - 1]
  BY SubSeqIs
<1>2. /\ y \in Seq(S) /\ Len(y) = b - k
      /\ \A i \in 1..(b - k) : y[i] = s[k + 1 + i - 1]
  BY SubSeqIs
<1>3. /\ z \in Seq(S) /\ Len(z) = b - a + 1
      /\ \A i \in 1..(b - a + 1) : z[i] = s[a + i - 1]
  BY SubSeqIs
<1> HIDE DEF x, y, z
<1>4. /\ w \in Seq(S) /\ Len(w) = b - a + 1
      /\ \A i \in 1..(b - a + 1) : w[i] = IF i <= k - a + 1 THEN x[i] ELSE y[i - (k - a + 1)]
  <2>1. /\ w \in Seq(S) /\ Len(w) = Len(x) + Len(y)
        /\ \A i \in 1..(Len(x) + Len(y)) : w[i] = IF i <= Len(x) THEN x[i] ELSE y[i - Len(x)]
    BY <1>1, <1>2, ConcatIs, ZenonT(60)
  <2> HIDE DEF w
  <2>2. Len(x) + Len(y) = b - a + 1
    BY <1>1, <1>2
  <2> QED
    BY <1>1, <2>1, <2>2, ZenonT(60)
<1> HIDE DEF w
<1>5. ASSUME NEW i \in 1..(b - a + 1) PROVE w[i] = z[i]
  <2>1. CASE i <= k - a + 1
    <3>1. i \in 1..(k - a + 1)
      BY <2>1
    <3>2. w[i] = x[i]
      BY <1>4, <2>1, ZenonT(60)
    <3> QED
      BY <1>1, <1>3, <3>1, <3>2, ZenonT(60)
  <2>2. CASE ~ (i <= k - a + 1)
    <3> DEFINE j == i - (k - a + 1)
    <3>1. j \in 1..(b - k) /\ k + 1 + j - 1 = a + i - 1
      BY <2>2
    <3>2. w[i] = y[j]
      BY <1>4, <2>2, ZenonT(60)
    <3> HIDE DEF j
    <3>3. y[j] = s[a + i - 1]
      BY <1>2, <3>1, ZenonT(60)
    <3> QED
      BY <1>3, <3>2, <3>3, ZenonT(60)
  <2> QED
    BY <2>1, <2>2, ZenonT(60)
<1> QED
  <2>1. w = z
    BY <1>3, <1>4, <1>5, SameSeq, ZenonT(60)
  <2> QED
    BY <2>1, ZenonT(60) DEF w, x, y, z
-----------------------------------------------------------------------------
(***************************************************************************)
(* Paths.                                                                  *)
(***************************************************************************)
\* A path is not empty and ends in its block; before it comes the path to the parent.
LEMMA PathEnds ==
  ASSUME NEW b \in Block
  PROVE  /\ Path[b] \in Seq(Block)
         /\ Len(Path[b]) \in Nat \ {0}
         /\ \A i \in 1..Len(Path[b]) : Path[b][i] \in Block
         /\ Path[b][Len(Path[b])] = b
         /\ b # Genesis =>
              /\ Len(Path[b]) >= 2
              /\ Parent(b) \in Block
              /\ Path[b] = Append(Path[Parent(b)], b)
              /\ Len(Path[Parent(b)]) = Len(Path[b]) - 1
<1>1. Path[b] \in Seq(Block)
  BY BlockAssumption
<1>2. Len(Path[b]) \in Nat /\ \A i \in 1..Len(Path[b]) : Path[b][i] \in Block
  BY <1>1, ElementIs, LenIs
<1>3. CASE b = Genesis
  BY <1>2, <1>3, BlockAssumption
<1>4. CASE b # Genesis
  <2>1. PICK p \in Block : Path[b] = Append(Path[p], b)
    BY <1>4, BlockAssumption
  <2>2. Path[p] \in Seq(Block) /\ Len(Path[p]) \in Nat
    BY BlockAssumption, LenIs
  <2>3. Len(Path[b]) = Len(Path[p]) + 1 /\ Path[b][Len(Path[p]) + 1] = b
    BY <2>1, <2>2, AppendIs
  <2>4. Path[p] # <<>> /\ Path[p][Len(Path[p])] = p
    <3>1. CASE p = Genesis
      BY <3>1, BlockAssumption
    <3>2. CASE p # Genesis
      <4>1. PICK o \in Block : Path[p] = Append(Path[o], p)
        BY <3>2, BlockAssumption
      <4>2. Path[o] \in Seq(Block)
        BY BlockAssumption
      <4> QED
        BY <4>1, <4>2, AppendIs
    <3> QED
      BY <3>1, <3>2
  <2>5. Len(Path[p]) >= 1
    BY <2>2, <2>4, LenIs
  <2>6. Len(Path[b]) - 1 = Len(Path[p])
    BY <2>2, <2>3
  <2>7. Path[b][Len(Path[p])] = Path[p][Len(Path[p])]
    BY <2>1, <2>2, <2>5, AppendIs
  <2>8. Parent(b) = p
    BY <2>4, <2>6, <2>7 DEF Parent
  <2> QED
    BY <1>1, <1>2, <2>1, <2>2, <2>3, <2>5, <2>6, <2>8
<1> QED
  BY <1>3, <1>4

\* The first i elements of a sequence.
LEMMA PrefixIs ==
  ASSUME NEW S, NEW s \in Seq(S), NEW n \in 0..Len(s)
  PROVE  /\ SubSeq(s, 1, n) \in Seq(S)
         /\ Len(SubSeq(s, 1, n)) = n
         /\ \A i \in 1..n : SubSeq(s, 1, n)[i] = s[i]
<1>1. Len(s) \in Nat /\ n \in Int /\ 1 \in Int
  BY LenIs
<1>2. \A i \in 1..n : s[i] \in S
  BY <1>1, ElementIs
<1>3. /\ SubSeq(s, 1, n) \in Seq(S)
      /\ Len(SubSeq(s, 1, n)) = IF 1 <= n THEN n - 1 + 1 ELSE 0
      /\ \A i \in 1..(n - 1 + 1) : SubSeq(s, 1, n)[i] = s[1 + i - 1]
  BY <1>1, <1>2, SubSeqIs
<1>4. \A i \in 1..n : i \in 1..(n - 1 + 1) /\ 1 + i - 1 = i
  BY <1>1
<1>5. (IF 1 <= n THEN n - 1 + 1 ELSE 0) = n
  BY <1>1
<1> QED
  BY <1>3, <1>4, <1>5

\* The first i blocks of a path are the path to its i-th block.
LEMMA PathPrefix ==
  \A b \in Block : \A i \in 1..Len(Path[b]) : Path[Path[b][i]] = SubSeq(Path[b], 1, i)
<1> DEFINE Holds(b) == \A i \in 1..Len(Path[b]) : Path[Path[b][i]] = SubSeq(Path[b], 1, i)
           Bad == {Len(Path[b]) : b \in {x \in Block : ~ Holds(x)}}
<1>1. SUFFICES ASSUME Bad # {} PROVE FALSE
  BY ZenonT(60)
<1>2. Bad \subseteq Nat
  BY PathEnds
<1>3. PICK m \in Bad : \A y \in Bad : m <= y
  BY <1>1, <1>2, LeastExists, ZenonT(60)
<1>4. PICK b \in Block : ~ Holds(b) /\ m = Len(Path[b])
  OBVIOUS
<1> HIDE DEF Bad
<1>5. PICK i \in 1..Len(Path[b]) : Path[Path[b][i]] # SubSeq(Path[b], 1, i)
  BY <1>4
<1>6. i # Len(Path[b])
  BY <1>5, PathEnds, WholeIs
<1>7. b # Genesis
  <2>1. SUFFICES ASSUME b = Genesis PROVE FALSE
    OBVIOUS
  <2>2. Path[b] = <<Genesis>>
    BY <2>1, BlockAssumption
  <2>3. Len(Path[b]) = 1
    BY <2>2
  <2>4. i \in 1..1 /\ i # 1
    BY <1>5, <1>6, <2>3
  <2> QED
    BY <2>4
<1> DEFINE p == Parent(b)
<1>8. /\ p \in Block
      /\ Path[b] = Append(Path[p], b)
      /\ Len(Path[p]) = Len(Path[b]) - 1
      /\ Len(Path[b]) \in Nat
      /\ Path[p] \in Seq(Block) /\ Path[b] \in Seq(Block)
  BY <1>7, PathEnds, ZenonT(60)
<1> HIDE DEF p
<1>9. i \in 1..Len(Path[p])
  BY <1>6, <1>8
<1>10. Path[b][i] = Path[p][i]
  BY <1>8, <1>9, AppendIs
<1>11. SubSeq(Path[b], 1, i) = SubSeq(Path[p], 1, i)
  <2>1. \A j \in 1..i : Path[b][j] = Path[p][j]
    BY <1>8, <1>9, AppendIs
  <2>2. i \in 0..Len(Path[b]) /\ i \in 0..Len(Path[p])
    BY <1>8, <1>9
  <2>3. /\ SubSeq(Path[b], 1, i) \in Seq(Block) /\ Len(SubSeq(Path[b], 1, i)) = i
        /\ \A j \in 1..i : SubSeq(Path[b], 1, i)[j] = Path[b][j]
    BY <1>8, <2>2, PrefixIs
  <2>4. /\ SubSeq(Path[p], 1, i) \in Seq(Block) /\ Len(SubSeq(Path[p], 1, i)) = i
        /\ \A j \in 1..i : SubSeq(Path[p], 1, i)[j] = Path[p][j]
    BY <1>8, <2>2, PrefixIs
  <2> QED
    BY <2>1, <2>3, <2>4, SameSeq
<1>12. ~ Holds(p)
  BY <1>5, <1>9, <1>10, <1>11
<1>13. Len(Path[p]) \in Bad
  BY <1>8, <1>12 DEF Bad
<1>14. Len(Path[b]) <= Len(Path[p])
  BY <1>3, <1>4, <1>13
<1> QED
  BY <1>8, <1>14

\* The blocks of a path differ.
LEMMA PathInjective ==
  ASSUME NEW b \in Block, NEW i \in 1..Len(Path[b]), NEW j \in 1..Len(Path[b]),
         Path[b][i] = Path[b][j]
  PROVE  i = j
<1>1. Path[b] \in Seq(Block) /\ Len(Path[b]) \in Nat
  BY PathEnds
<1>2. SubSeq(Path[b], 1, i) = SubSeq(Path[b], 1, j)
  BY PathPrefix
<1>3. i \in 0..Len(Path[b]) /\ j \in 0..Len(Path[b])
  BY <1>1
<1> QED
  BY <1>1, <1>2, <1>3, PrefixIs

\* A chain: its blocks, and that the first m of them are a chain.
LEMMA ChainPrefix ==
  ASSUME NEW c, IsChain(c), NEW m \in 1..Len(c)
  PROVE  /\ IsChain(SubSeq(c, 1, m))
         /\ Len(SubSeq(c, 1, m)) = m
         /\ \A i \in 1..m : SubSeq(c, 1, m)[i] = c[i]
         /\ Range(SubSeq(c, 1, m)) \subseteq Range(c)
<1>1. c \in Seq(Block) /\ Len(c) \in Nat \ {0} /\ c = Path[c[Len(c)]]
  BY DEF IsChain
<1>2. c[Len(c)] \in Block /\ c[m] \in Block
  BY <1>1, ElementIs
<1>3. m \in 0..Len(c)
  BY <1>1
<1>4. /\ SubSeq(c, 1, m) \in Seq(Block)
      /\ Len(SubSeq(c, 1, m)) = m
      /\ \A i \in 1..m : SubSeq(c, 1, m)[i] = c[i]
  BY <1>1, <1>3, PrefixIs
<1>5. Path[c[m]] = SubSeq(c, 1, m)
  BY <1>1, <1>2, PathPrefix
<1>6. SubSeq(c, 1, m)[m] = c[m] /\ m \in Nat \ {0}
  BY <1>1, <1>4
<1>7. DOMAIN SubSeq(c, 1, m) = 1..m /\ DOMAIN c = 1..Len(c) /\ 1..m \subseteq 1..Len(c)
  BY <1>1, <1>4, LenIs
<1>8. Range(SubSeq(c, 1, m)) \subseteq Range(c)
  BY <1>4, <1>7 DEF Range
<1> QED
  BY <1>4, <1>5, <1>6, <1>8 DEF IsChain

\* The path to a block is a chain.
LEMMA PathIsChain ==
  ASSUME NEW b \in Block
  PROVE  IsChain(Path[b])
BY PathEnds DEF IsChain

\* A block on top of a chain makes a chain.
LEMMA AppendIsChain ==
  ASSUME NEW c, IsChain(c), NEW b \in Block, b # Genesis, Parent(b) = c[Len(c)]
  PROVE  Append(c, b) = Path[b]
BY PathEnds DEF IsChain

\* A path that meets a chain at its n-th block agrees with it up to there, so that what
\* follows on the path can be put on top of the first n blocks.
LEMMA Splice ==
  ASSUME NEW c, IsChain(c), NEW b \in Block, NEW n \in 1..Len(Path[b]),
         Path[b][n] \in Range(c)
  PROVE  /\ n \in 1..Len(c)
         /\ c[n] = Path[b][n]
         /\ SubSeq(c, 1, n) \o Base(b, n) = Path[b]
<1>1. c \in Seq(Block) /\ Len(c) \in Nat \ {0} /\ c = Path[c[Len(c)]] /\ c[Len(c)] \in Block
  BY ElementIs DEF IsChain
<1>2. PICK j \in 1..Len(c) : c[j] = Path[b][n]
  BY <1>1, LenIs DEF Range
<1>3. Path[c[j]] = SubSeq(c, 1, j)
  BY <1>1, <1>2, PathPrefix
<1>4. Path[Path[b][n]] = SubSeq(Path[b], 1, n)
  BY PathPrefix
<1>5. Path[b] \in Seq(Block) /\ Len(Path[b]) \in Nat
  BY PathEnds
<1>6. j \in 0..Len(c) /\ n \in 0..Len(Path[b])
  BY <1>1, <1>2, <1>5
<1>7. Len(SubSeq(c, 1, j)) = j /\ Len(SubSeq(Path[b], 1, n)) = n
  BY <1>1, <1>5, <1>6, PrefixIs
<1>8. j = n
  BY <1>2, <1>3, <1>4, <1>7
<1>9. SubSeq(c, 1, n) = SubSeq(Path[b], 1, n)
  BY <1>2, <1>3, <1>4, <1>8
<1>10. SubSeq(Path[b], 1, n) \o SubSeq(Path[b], n + 1, Len(Path[b])) = SubSeq(Path[b], 1, Len(Path[b]))
  <2>1. 1 \in 1..(Len(Path[b]) + 1) /\ n \in (1 - 1)..Len(Path[b]) /\ Len(Path[b]) \in n..Len(Path[b])
    BY <1>5
  <2> QED
    BY <1>5, <2>1, PartsJoin, ZenonT(60)
<1> QED
  BY <1>2, <1>5, <1>8, <1>9, <1>10, WholeIs DEF Base

\* The first n blocks and the next k of a chain are its first n + k blocks.
LEMMA Rejoin ==
  ASSUME NEW c \in Seq(Block), NEW n \in 0..Len(c), NEW k \in 0..(Len(c) - n)
  PROVE  SubSeq(c, 1, n) \o SubSeq(SubSeq(c, n + 1, Len(c)), 1, k) = SubSeq(c, 1, n + k)
<1>1. Len(c) \in Nat
  BY LenIs
<1>2. SubSeq(SubSeq(c, n + 1, Len(c)), 1, k) = SubSeq(c, n + 1, n + k)
  <2>1. CASE k = 0
    <3>1. n + k < n + 1 /\ 1 \in Int /\ k \in Int /\ n + 1 \in Int /\ n + k \in Int /\ k < 1
      BY <1>1, <2>1
    <3> QED
      BY <3>1
  <2>2. CASE k # 0
    <3>1. /\ n + 1 \in 1..Len(c) /\ Len(c) \in 1..Len(c)
          /\ 1 \in 1..(Len(c) - (n + 1) + 1) /\ k \in 1..(Len(c) - (n + 1) + 1)
          /\ (n + 1) + 1 - 1 = n + 1 /\ (n + 1) + k - 1 = n + k
      BY <1>1, <2>2
    <3>2. SubSeq(SubSeq(c, n + 1, Len(c)), 1, k) = SubSeq(c, (n + 1) + 1 - 1, (n + 1) + k - 1)
      BY <3>1, PartOfPart
    <3> QED
      BY <3>1, <3>2
  <2> QED
    BY <2>1, <2>2
<1>3. 1 \in 1..(Len(c) + 1) /\ n \in (1 - 1)..Len(c) /\ n + k \in n..Len(c)
  BY <1>1
<1> QED
  BY <1>2, <1>3, PartsJoin
-----------------------------------------------------------------------------
(***************************************************************************)
(* What the operators compute.                                             *)
(***************************************************************************)
\* Fork(b) is an index below the top of the path, and the blocks of the path between it
\* and b are alternative blocks.
LEMMA ForkIs ==
  ASSUME NEW b \in Block, b # Genesis
  PROVE  /\ Fork(b) \in 1..(Len(Path[b]) - 1)
         /\ \A i \in (Fork(b) + 1)..(Len(Path[b]) - 1) : Path[b][i] \in alt
<1> DEFINE S == {1} \cup {i \in 1..(Len(Path[b]) - 1) : Path[b][i] \notin alt}
<1>1. Len(Path[b]) \in Nat /\ Len(Path[b]) >= 2
  BY PathEnds
<1>2. Len(Path[b]) \in Nat /\ S \subseteq 0..Len(Path[b]) /\ S # {} /\ S \subseteq 1..(Len(Path[b]) - 1)
  BY <1>1
<1>3. \A i \in 1..(Len(Path[b]) - 1) : Path[b][i] \notin alt => i \in S
  OBVIOUS
<1>4. Fork(b) = Max(S)
  BY DEF Fork
<1> HIDE DEF S
<1>5. Max(S) \in S /\ \A i \in S : i <= Max(S)
  BY <1>2, MaxIs, ZenonT(60)
<1>6. Fork(b) \in 1..(Len(Path[b]) - 1)
  BY <1>2, <1>4, <1>5, ZenonT(60)
<1>7. \A i \in (Fork(b) + 1)..(Len(Path[b]) - 1) : i \in 1..(Len(Path[b]) - 1) /\ ~ (i <= Fork(b))
  BY <1>1, <1>6
<1> QED
  BY <1>3, <1>4, <1>5, <1>6, <1>7

\* The blocks of the branch to b are b and alternative blocks.
LEMMA BranchIs ==
  ASSUME NEW b \in Block, b # Genesis
  PROVE  /\ Base(b, Fork(b)) \in Seq(Block)
         /\ Len(Base(b, Fork(b))) = Len(Path[b]) - Fork(b)
         /\ \A i \in 1..Len(Base(b, Fork(b))) : Base(b, Fork(b))[i] = Path[b][Fork(b) + i]
         /\ Range(Base(b, Fork(b))) \subseteq alt \cup {b}
         /\ \A i \in 1..Len(Base(b, Fork(b))) :
              Range(Base(b, Fork(b) + i - 1)) \subseteq Range(Base(b, Fork(b)))
<1> DEFINE n == Fork(b)
           l == Len(Path[b])
<1>1. /\ l \in Nat /\ n \in 1..(l - 1) /\ \A i \in 1..l : Path[b][i] \in Block
      /\ \A i \in (n + 1)..(l - 1) : Path[b][i] \in alt
      /\ Path[b][l] = b
  BY ForkIs, PathEnds
<1>2. ASSUME NEW k \in n..(l - 1)
      PROVE  /\ Base(b, k) \in Seq(Block)
             /\ Len(Base(b, k)) = l - k
             /\ \A i \in 1..(l - k) : Base(b, k)[i] = Path[b][k + i]
  <2>1. /\ k + 1 \in Int /\ l \in Int /\ k + 1 <= l /\ l - (k + 1) + 1 = l - k
        /\ \A i \in 1..(l - k) : k + 1 + i - 1 = k + i
        /\ \A i \in (k + 1)..l : i \in 1..l
    BY <1>1
  <2>2. /\ SubSeq(Path[b], k + 1, l) \in Seq(Block)
        /\ Len(SubSeq(Path[b], k + 1, l)) = IF k + 1 <= l THEN l - (k + 1) + 1 ELSE 0
        /\ \A i \in 1..(l - (k + 1) + 1) : SubSeq(Path[b], k + 1, l)[i] = Path[b][k + 1 + i - 1]
    <3> HIDE DEF n, l
    <3> QED
      BY <1>1, <2>1, SubSeqIs
  <2> HIDE DEF n
  <2>3. Base(b, k) = SubSeq(Path[b], k + 1, l)
    BY DEF Base
  <2> QED
    BY <2>1, <2>2, <2>3, ZenonT(60)
<1> HIDE DEF n, l
<1>3. \A k \in n..(l - 1) : Range(Base(b, k)) = {Path[b][k + i] : i \in 1..(l - k)}
  <2>1. TAKE k \in n..(l - 1)
  <2>2. DOMAIN Base(b, k) = 1..(l - k)
    BY <1>2, LenIs
  <2> QED
    BY <1>2, <2>2, ZenonT(60) DEF Range
<1>4. n \in n..(l - 1)
  BY <1>1
<1>5. \A i \in 1..(l - n) : n + i = l \/ n + i \in (n + 1)..(l - 1)
  BY <1>1
<1>6. Range(Base(b, n)) \subseteq alt \cup {b}
  BY <1>1, <1>3, <1>4, <1>5
<1>7. \A i \in 1..(l - n) :
         /\ n + i - 1 \in n..(l - 1)
         /\ \A k \in 1..(l - (n + i - 1)) : (n + i - 1) + k = n + (i + k - 1) /\ i + k - 1 \in 1..(l - n)
  BY <1>1
<1>8. \A i \in 1..(l - n) : Range(Base(b, n + i - 1)) \subseteq Range(Base(b, n))
  BY <1>3, <1>4, <1>7
<1> QED
  BY <1>2, <1>4, <1>6, <1>8, ZenonT(60) DEF n, l

\* check_against_checkpoints leaves a prefix of the chain, and all of it if nothing is wrong.
LEMMA EnforceIs ==
  ASSUME NEW c, IsChain(c), NEW P, P \subseteq DOMAIN Checkpoints
  PROVE  /\ \E m \in 1..Len(c) : Enforce(c, P).main = SubSeq(c, 1, m)
         /\ Enforce(c, P).thrown \in BOOLEAN
         /\ (\A p \in P : p < Len(c) => c[p + 1] = Checkpoints[p]) =>
               Enforce(c, P) = [main |-> c, thrown |-> FALSE]
<1> DEFINE wrong == {p \in P : p >= 2 /\ p < Len(c) /\ c[p + 1] # Checkpoints[p]}
           q == Min(wrong)
           t == q = 2 \/ \E x \in P : q < x /\ x < Len(c)
           keep == IF q = 2 THEN 1 ELSE q - 2
<1>1. c \in Seq(Block) /\ Len(c) \in Nat \ {0} /\ SubSeq(c, 1, Len(c)) = c
  BY WholeIs DEF IsChain
<1>2. CASE wrong = {}
  <2>1. Enforce(c, P) = [main |-> c, thrown |-> FALSE]
    BY <1>2 DEF Enforce
  <2>2. Enforce(c, P).main = c /\ Enforce(c, P).thrown = FALSE
    BY <2>1
  <2>3. Len(c) \in 1..Len(c)
    BY <1>1
  <2> QED
    BY <1>1, <2>1, <2>2, <2>3, ZenonT(60)
<1>3. CASE wrong # {}
  <2>1. wrong \subseteq Nat
    BY CheckpointAssumption
  <2>2. \E x \in wrong : \A y \in wrong : x <= y
    <3> HIDE DEF wrong
    <3> QED
      BY <1>3, <2>1, LeastExists, ZenonT(60)
  <2>3. q \in wrong
    <3> HIDE DEF wrong
    <3> QED
      BY <2>2 DEF Min
  <2>4. q \in Nat /\ q >= 2 /\ q < Len(c)
    BY <2>1, <2>3
  <2>5. Enforce(c, P) = [main |-> SubSeq(c, 1, keep), thrown |-> t]
    BY <1>3 DEF Enforce
  <2>6. keep \in 1..Len(c) /\ t \in BOOLEAN
    <3> HIDE DEF q
    <3> QED
      BY <1>1, <2>4
  <2>7. ~ (\A p \in P : p < Len(c) => c[p + 1] = Checkpoints[p])
    BY <1>3
  <2> DEFINE left == SubSeq(c, 1, keep)
  <2>8. Enforce(c, P) = [main |-> left, thrown |-> TRUE] \/
        Enforce(c, P) = [main |-> left, thrown |-> FALSE]
    BY <2>5, <2>6, ZenonT(60)
  <2>9. Enforce(c, P).main = left /\ Enforce(c, P).thrown \in BOOLEAN
    <3> HIDE DEF left
    <3>1. CASE Enforce(c, P) = [main |-> left, thrown |-> TRUE]
      <4>1. Enforce(c, P).main = left
        BY <3>1
      <4>2. Enforce(c, P).thrown = TRUE
        BY <3>1
      <4> QED
        BY <4>1, <4>2, ZenonT(60)
    <3>2. CASE Enforce(c, P) = [main |-> left, thrown |-> FALSE]
      <4>1. Enforce(c, P).main = left
        BY <3>2
      <4>2. Enforce(c, P).thrown = FALSE
        BY <3>2
      <4> QED
        BY <4>1, <4>2, ZenonT(60)
    <3> QED
      BY <2>8, <3>1, <3>2
  <2> HIDE DEF keep
  <2> QED
    BY <2>6, <2>7, <2>8, <2>9
<1> QED
  BY <1>2, <1>3

\* The blocks that a switch keeps as alternatives are the ones it disconnects, or some.
LEMMA KeptIs ==
  ASSUME IsChain(main), NEW n \in 1..Len(main), NEW h
  PROVE  /\ Kept(n, h) \subseteq Range(main)
         /\ Kept(n, h) \cap Range(SubSeq(main, 1, n)) = {}
<1>1. main \in Seq(Block) /\ Len(main) \in Nat \ {0} /\ main = Path[main[Len(main)]]
  BY DEF IsChain
<1>2. DOMAIN main = 1..Len(main) /\ main[Len(main)] \in Block
  BY <1>1, LenIs, ElementIs
<1>3. \A x \in Kept(n, h) : \E i \in (n + 1)..Len(main) : x = main[i]
  BY DEF Kept
<1>4. \A i \in (n + 1)..Len(main) : i \in 1..Len(main)
  BY <1>1
<1>5. Kept(n, h) \subseteq Range(main)
  BY <1>2, <1>3, <1>4 DEF Range
<1>6. \A x \in Range(SubSeq(main, 1, n)) : \E j \in 1..n : x = main[j]
  <2>1. /\ SubSeq(main, 1, n) \in Seq(Block) /\ Len(SubSeq(main, 1, n)) = n
        /\ \A j \in 1..n : SubSeq(main, 1, n)[j] = main[j]
    BY <1>1, ChainPrefix DEF IsChain
  <2>2. DOMAIN SubSeq(main, 1, n) = 1..n
    BY <2>1, LenIs
  <2> QED
    BY <2>1, <2>2 DEF Range
<1>7. \A i, j \in 1..Len(main) : main[i] = main[j] => i = j
  BY <1>1, <1>2, PathInjective
<1>8. \A i \in (n + 1)..Len(main) : \A j \in 1..n : i # j /\ i \in 1..Len(main) /\ j \in 1..Len(main)
  BY <1>1
<1>9. Kept(n, h) \cap Range(SubSeq(main, 1, n)) = {}
  BY <1>3, <1>6, <1>7, <1>8
<1> QED
  BY <1>5, <1>9
-----------------------------------------------------------------------------
(***************************************************************************)
(* The main chain is a path.  The invariant says the same of the chain     *)
(* that the open batch would restore.                                      *)
(***************************************************************************)
BatchType == [open : BOOLEAN, main : Seq(Block), alt : SUBSET Block, success : BOOLEAN,
              over : BOOLEAN]

ChainInv ==
  /\ IsChain(main)
  /\ alt \subseteq Block
  /\ invalid \subseteq Block
  /\ points \subseteq DOMAIN Checkpoints
  /\ batch \in BatchType
  /\ IsChain(batch.main)
  /\ updating \in BOOLEAN /\ running \in BOOLEAN

\* Ending the run of blocks, or losing the batch, leaves what the batch would restore.
LEMMA BatchMarked ==
  ASSUME NEW x \in BOOLEAN, NEW y \in BOOLEAN, batch \in BatchType
  PROVE  LET new == [batch EXCEPT !.success = @ /\ x, !.over = y]
         IN  /\ new \in BatchType
             /\ new.main = batch.main
             /\ new.alt = batch.alt
             /\ new.open = batch.open
             /\ new.success = (batch.success /\ x)
BY ZenonT(60) DEF BatchType

\* The fields of the closed batch.
LEMMA NoBatchIs ==
  NoBatch \in BatchType /\ IsChain(NoBatch.main) /\ NoBatch.alt = {} /\ NoBatch.success = TRUE
<1>1. Genesis \in Block /\ Path[Genesis] = <<Genesis>>
  BY BlockAssumption
<1>2. <<Genesis>> \in Seq(Block) /\ Len(<<Genesis>>) = 1 /\ <<Genesis>>[1] = Genesis
  BY <1>1
<1>3. IsChain(<<Genesis>>)
  BY <1>1, <1>2 DEF IsChain
<1> QED
  BY <1>1, <1>2, <1>3 DEF NoBatch, BatchType
-----------------------------------------------------------------------------
(***************************************************************************)
(* The five things that can become of a block that arrives.                *)
(***************************************************************************)
Added(b) ==
  /\ Parent(b) = Tip /\ "added" \in Results(b)
  /\ main' = Append(main, b) /\ main' = Path[b]
  /\ UNCHANGED <<alt, invalid>>

Refused(b) ==
  /\ UNCHANGED <<main, alt>>
  /\ invalid' = invalid \/ invalid' = invalid \cup {b}

Stored(b) ==
  /\ Height(b) \notin points /\ ~ (Cumulative[Tip] < Cumulative[b])
  /\ Fork(b) \in 1..Len(main)
  /\ main[Fork(b)] = Path[b][Fork(b)]
  /\ alt' = alt \cup {b}
  /\ UNCHANGED <<main, invalid>>

Switched(b) ==
  /\ Fork(b) \in 1..Len(main)
  /\ main[Fork(b)] = Path[b][Fork(b)]
  /\ \A i \in 1..Len(Base(b, Fork(b))) : "added" \in Results(Base(b, Fork(b))[i])
  /\ main' = SubSeq(main, 1, Fork(b)) \o Base(b, Fork(b)) /\ main' = Path[b]
  /\ \E K \in {{}, Kept(Fork(b), Len(Path[b]))} :
        alt' = (alt \cup K) \ Range(Base(b, Fork(b)))
  /\ Height(b) \in points => alt' = alt \ Range(Base(b, Fork(b)))
  /\ invalid' = invalid
  /\ is_alternative_block_allowed(Len(main), Height(b))
  /\ Height(b) \in points \/ Cumulative[Tip] < Cumulative[b]

RolledBack(b) ==
  /\ Fork(b) \in 1..Len(main)
  /\ \E i \in 1..Len(Base(b, Fork(b))) :
       /\ invalid' = invalid \cup Range(Base(b, Fork(b) + i - 1))
       /\ alt' = (alt \cup {b}) \ Range(Base(b, Fork(b) + i - 1))
  /\ \E m \in Fork(b)..Len(main) :
       /\ main' = SubSeq(main, 1, m)
       /\ m < Len(main) => Faults \/ main[m + 1] \in Pruned \/ ~ check_block(m, main[m + 1])

\* Every block that arrives ends as one of them, and leaves what the batch would restore.
LEMMA AddIs ==
  ASSUME ChainInv, NEW b \in Block, add_new_block(b)
  PROVE  /\ b # Genesis /\ b \notin Range(main) \cup alt \cup invalid
         /\ UNCHANGED <<points, updating, running>>
         /\ batch' \in BatchType /\ batch'.main = batch.main /\ batch'.alt = batch.alt
         /\ Faults \/ batch'.success = batch.success
         /\ Added(b) \/ Refused(b) \/ Stored(b) \/ Switched(b) \/ RolledBack(b)
<1>1. /\ b # Genesis /\ b \notin Range(main) \cup alt \cup invalid
      /\ UNCHANGED <<points, updating, running>>
  BY DEF add_new_block, have_block
<1>2. /\ IsChain(main) /\ batch \in BatchType /\ main \in Seq(Block) /\ Len(main) \in Nat \ {0}
      /\ Tip = main[Len(main)]
  BY DEF ChainInv, IsChain, Tip
<1> DEFINE Marked == /\ batch' \in BatchType /\ batch'.main = batch.main /\ batch'.alt = batch.alt
                     /\ Faults \/ batch'.success = batch.success
<1>3. Faults \in BOOLEAN /\ \A x \in Block : "thrown" \in Results(x) \cup ResultsAgain(x) => Faults
  BY CheckpointAssumption DEF Results, ResultsAgain
<1>4. ASSUME NEW x \in BOOLEAN, NEW y \in BOOLEAN,
             batch' = [batch EXCEPT !.success = @ /\ x, !.over = y], x \/ Faults
      PROVE  Marked
  <2>1. /\ batch' \in BatchType /\ batch'.main = batch.main /\ batch'.alt = batch.alt
        /\ batch'.success = (batch.success /\ x)
    BY <1>2, <1>4, BatchMarked, ZenonT(60)
  <2>2. batch.success \in BOOLEAN
    BY <1>2 DEF BatchType
  <2>3. Faults \/ batch'.success = batch.success
    BY <1>4, <2>1, <2>2, ZenonT(60)
  <2> QED
    BY <2>1, <2>3
<1>5. batch' = [batch EXCEPT !.over = TRUE] => Marked
  BY <1>2, ZenonT(60) DEF BatchType
<1>6. batch' = batch => Marked
  BY <1>2
<1> HIDE DEF Marked
<1>7. CASE AddToMain(b)
  <2>1. PICK r \in Results(b) :
          /\ main' = IF r = "added" THEN Append(main, b) ELSE main
          /\ invalid' = IF r = "invalid" THEN invalid \cup {b} ELSE invalid
          /\ batch' = [batch EXCEPT !.success = @ /\ r # "thrown", !.over = r # "added"]
    BY <1>7, ZenonT(60) DEF AddToMain
  <2>2. (r # "thrown") \in BOOLEAN /\ (r # "added") \in BOOLEAN /\ (r # "thrown" \/ Faults)
    BY <1>3
  <2>3. Marked
    BY <1>4, <2>1, <2>2, ZenonT(60)
  <2>4. Parent(b) = Tip /\ alt' = alt
    BY <1>7 DEF AddToMain
  <2>5. Append(main, b) = Path[b]
    BY <1>1, <1>2, <2>4, AppendIsChain
  <2>b. /\ main' = IF r = "added" THEN Append(main, b) ELSE main
        /\ invalid' = IF r = "invalid" THEN invalid \cup {b} ELSE invalid
    BY <2>1, ZenonT(60)
  <2>6. CASE r = "added"
    <3>1. main' = Append(main, b) /\ invalid' = invalid
      BY <2>b, <2>6
    <3> QED
      BY <1>1, <2>1, <2>3, <2>4, <2>5, <2>6, <3>1 DEF Added, Marked
  <2>7. CASE r # "added"
    <3>1. main' = main /\ (invalid' = invalid \/ invalid' = invalid \cup {b})
      BY <2>b, <2>7
    <3> QED
      BY <1>1, <2>3, <2>4, <3>1 DEF Refused, Marked
  <2> QED
    BY <2>6, <2>7
<1>8. CASE RefuseAlternative(b)
  BY <1>1, <1>5, <1>8 DEF RefuseAlternative, Refused, Marked
<1>9. CASE HandleAlternative(b)
  <2> DEFINE n == Fork(b)
             chain == Base(b, n)
             old == Disconnected(n)
  <2>1. n \in 1..(Len(Path[b]) - 1) /\ Path[b][n] \in Range(main) /\ Len(Path[b]) \in Nat
    BY <1>1, <1>9, ForkIs, PathEnds DEF HandleAlternative, build_alt_chain
  <2>2. n \in 1..Len(main) /\ main[n] = Path[b][n] /\ SubSeq(main, 1, n) \o chain = Path[b]
    <3>1. n \in 1..Len(Path[b])
      BY <2>1
    <3> HIDE DEF n
    <3> QED
      BY <1>2, <2>1, <3>1, Splice, ZenonT(60)
  <2>a. n \in Nat /\ 1 <= n /\ n <= Len(main) /\ Len(main) \in Nat
    <3> HIDE DEF n
    <3> QED
      BY <1>2, <2>2
  <2>3. CASE /\ Height(b) \notin points /\ ~ (Cumulative[Tip] < Cumulative[b])
             /\ alt' = alt \cup {b} /\ UNCHANGED <<main, invalid, batch>>
    <3>1. Stored(b)
      BY <2>2, <2>3, ZenonT(60) DEF Stored
    <3> QED
      BY <1>1, <1>6, <2>3, <3>1 DEF Marked
  <2>4. CASE /\ Height(b) \in points \/ Cumulative[Tip] < Cumulative[b]
             /\ SwitchTo(b, n, Height(b) \in points)
    <3>1. /\ \A i \in 1..Len(chain) : "added" \in Results(chain[i])
          /\ main' = SubSeq(main, 1, n) \o chain
          /\ alt' = (alt \cup IF Height(b) \in points THEN {} ELSE Kept(n, Len(Path[b]))) \ Range(chain)
          /\ UNCHANGED <<invalid, batch>>
      BY <2>4 DEF SwitchTo
    <3>2. \E K \in {{}, Kept(n, Len(Path[b]))} : alt' = (alt \cup K) \ Range(chain)
      BY <3>1
    <3>a. Height(b) \in points => alt' = alt \ Range(chain)
      BY <3>1
    <3>b. is_alternative_block_allowed(Len(main), Height(b))
      BY <1>9 DEF HandleAlternative
    <3>3. Switched(b)
      BY <2>2, <2>4, <3>1, <3>2, <3>a, <3>b, ZenonT(60) DEF Switched
    <3> QED
      BY <1>1, <1>6, <3>1, <3>3 DEF Marked
  <2>5. CASE SwitchFails(b, n)
    <3> DEFINE Agains == {[k |-> Len(old), r |-> "added"]} \cup
                 UNION {[k : {k - 1}, r : ResultsAgain(old[k]) \ {"added"}] : k \in 1..Len(old)}
               Does(i, r, again) ==
                 /\ main' = SubSeq(main, 1, n) \o SubSeq(old, 1, again.k)
                 /\ invalid' = invalid \cup Range(Base(b, n + i - 1))
                 /\ alt' = (alt \cup {b}) \ Range(Base(b, n + i - 1))
                 /\ batch' = [batch EXCEPT !.success = @ /\ "thrown" \notin {r, again.r}, !.over = TRUE]
    <3>a. \E i \in 1..Len(chain) : \E r \in Results(chain[i]) \ {"added"} :
            \E again \in Agains : Does(i, r, again)
      BY <2>5, ZenonT(60) DEF SwitchFails
    <3>b. PICK i \in 1..Len(chain) : \E r \in Results(chain[i]) \ {"added"} :
            \E again \in Agains : Does(i, r, again)
      BY <3>a, ZenonT(60)
    <3>c. PICK r \in Results(chain[i]) \ {"added"} : \E again \in Agains : Does(i, r, again)
      BY <3>b, ZenonT(60)
    <3>1. PICK again \in Agains : Does(i, r, again)
      BY <3>c, ZenonT(60)
    <3>2. Len(old) = Len(main) - n /\ \A k \in 1..Len(old) : old[k] = main[n + k] /\ old[k] \in Block
      <4>1. n + 1 \in Int /\ Len(main) \in Int /\ \A k \in (n + 1)..Len(main) : k \in 1..Len(main)
        <5> HIDE DEF n
        <5> QED
          BY <2>a
      <4>2. \A k \in (n + 1)..Len(main) : main[k] \in Block
        BY <1>2, <4>1, ElementIs
      <4>3. /\ old \in Seq(Block)
            /\ Len(old) = IF n + 1 <= Len(main) THEN Len(main) - (n + 1) + 1 ELSE 0
            /\ \A k \in 1..(Len(main) - (n + 1) + 1) : old[k] = main[n + 1 + k - 1]
        <5>1. old = SubSeq(main, n + 1, Len(main))
          BY DEF Disconnected
        <5> HIDE DEF n, old
        <5> QED
          BY <4>1, <4>2, <5>1, SubSeqIs
      <4> HIDE DEF n, old
      <4>4. Len(old) = Len(main) - n
        BY <2>a, <4>3
      <4>5. \A k \in 1..Len(old) : k \in 1..(Len(main) - (n + 1) + 1) /\ n + 1 + k - 1 = n + k
        BY <2>a, <4>4
      <4>6. \A k \in 1..Len(old) : old[k] \in Block
        BY <4>3, ElementIs, ZenonT(60)
      <4>7. \A k \in 1..Len(old) : old[k] = main[n + k]
        BY <4>3, <4>5, ZenonT(60)
      <4> QED
        BY <4>4, <4>6, <4>7, ZenonT(60)
    <3>3. \/ again.k = Len(old) /\ again.r = "added"
          \/ \E k \in 1..Len(old) : again.k = k - 1 /\ again.r \in ResultsAgain(old[k]) \ {"added"}
      BY <3>1
    <3>4. chain[i] \in Block
      BY <1>1, <3>1, BranchIs, ElementIs
    <3>5. "thrown" \notin {r, again.r} \/ Faults
      BY <1>3, <3>1, <3>2, <3>3, <3>4
    <3>6. Marked
      <4>1. ("thrown" \notin {r, again.r}) \in BOOLEAN /\ TRUE \in BOOLEAN
        OBVIOUS
      <4> QED
        BY <1>4, <3>1, <3>5, <4>1, ZenonT(60)
    <3> HIDE DEF n, old, chain, Agains
    <3>7. again.k \in 0..(Len(main) - n) /\ n \in 0..Len(main)
      BY <2>a, <3>2, <3>3
    <3>8. main' = SubSeq(main, 1, n + again.k)
      <4>1. SubSeq(main, 1, n) \o SubSeq(SubSeq(main, n + 1, Len(main)), 1, again.k) = SubSeq(main, 1, n + again.k)
        BY <1>2, <3>7, Rejoin, ZenonT(60)
      <4> QED
        BY <3>1, <4>1, ZenonT(60) DEF Disconnected, old
    <3>9. n + again.k \in n..Len(main)
      BY <2>a, <3>7
    <3>10. n + again.k < Len(main) =>
             Faults \/ main[n + again.k + 1] \in Pruned \/ ~ check_block(n + again.k, main[n + again.k + 1])
      <4>1. SUFFICES ASSUME n + again.k < Len(main), Faults = FALSE
                     PROVE  main[n + again.k + 1] \in Pruned \/ ~ check_block(n + again.k, main[n + again.k + 1])
        BY <1>3, ZenonT(60)
      <4>2. PICK k \in 1..Len(old) : again.k = k - 1 /\ again.r \in ResultsAgain(old[k]) \ {"added"}
        <5>a. Len(old) = Len(main) - n
          BY <3>2, ZenonT(60)
        <5>1. again.k # Len(old)
          BY <2>a, <3>7, <4>1, <5>a
        <5> QED
          BY <3>3, <5>1, ZenonT(60)
      <4>3. old[k] = main[n + again.k + 1] /\ old[k] \in Block
        <5>1. n + k = n + again.k + 1
          BY <2>a, <3>2, <4>2
        <5> QED
          BY <3>2, <5>1
      <4>4. old[k] \in Pruned \/ ~ check_block(Height(old[k]), old[k])
        BY <4>1, <4>2 DEF ResultsAgain
      <4>5. Height(old[k]) = n + again.k
        <5>1. n + again.k + 1 \in 1..Len(main)
          BY <2>a, <3>7, <4>1
        <5>2. Len(Path[main[n + again.k + 1]]) = n + again.k + 1
          <6>1. main = Path[main[Len(main)]] /\ main[Len(main)] \in Block
            BY <1>2, ElementIs DEF IsChain
          <6>2. Path[main[n + again.k + 1]] = SubSeq(main, 1, n + again.k + 1)
            BY <5>1, <6>1, PathPrefix
          <6> QED
            BY <1>2, <5>1, <6>2, ChainPrefix
        <5> QED
          BY <2>a, <3>7, <4>3, <5>2 DEF Height
      <4> QED
        BY <4>3, <4>4, <4>5
    <3>11. RolledBack(b)
      BY <2>2, <3>1, <3>8, <3>9, <3>10, ZenonT(60) DEF RolledBack, n, chain
    <3> QED
      BY <1>1, <3>6, <3>11 DEF Marked
  <2> QED
    BY <1>9, <2>3, <2>4, <2>5 DEF HandleAlternative
<1> QED
  BY <1>7, <1>8, <1>9 DEF add_new_block
-----------------------------------------------------------------------------
\* A block that arrives keeps the invariant.
LEMMA AddKeepsChain ==
  ASSUME ChainInv, NEW b \in Block, add_new_block(b)
  PROVE  ChainInv'
<1>1. /\ b # Genesis
      /\ UNCHANGED <<points, updating, running>>
      /\ batch' \in BatchType /\ batch'.main = batch.main
      /\ Added(b) \/ Refused(b) \/ Stored(b) \/ Switched(b) \/ RolledBack(b)
  BY AddIs
<1>2. /\ IsChain(main) /\ alt \subseteq Block /\ invalid \subseteq Block /\ IsChain(batch.main)
      /\ Range(main) \subseteq Block /\ main \in Seq(Block) /\ Len(main) \in Nat \ {0}
  BY ElementIs, LenIs DEF ChainInv, IsChain, Range
<1>3. IsChain(Path[b])
  BY PathIsChain
<1>4. Range(Base(b, Fork(b))) \subseteq Block
  BY <1>1, <1>2, BranchIs
<1>5. IsChain(main') /\ alt' \subseteq Block /\ invalid' \subseteq Block
  <2>1. CASE Added(b)
    BY <1>2, <1>3, <2>1 DEF Added
  <2>2. CASE Refused(b)
    BY <1>2, <2>2 DEF Refused
  <2>3. CASE Stored(b)
    BY <1>2, <2>3 DEF Stored
  <2>4. CASE Switched(b)
    <3>1. PICK K \in {{}, Kept(Fork(b), Len(Path[b]))} :
             alt' = (alt \cup K) \ Range(Base(b, Fork(b)))
      BY <2>4, ZenonT(60) DEF Switched
    <3>2. K \subseteq Block
      BY <1>2, <2>4, KeptIs, ZenonT(60) DEF Switched
    <3> QED
      BY <1>2, <1>3, <2>4, <3>1, <3>2, ZenonT(60) DEF Switched
  <2>5. CASE RolledBack(b)
    <3>1. PICK i \in 1..Len(Base(b, Fork(b))) :
            /\ invalid' = invalid \cup Range(Base(b, Fork(b) + i - 1))
            /\ alt' = (alt \cup {b}) \ Range(Base(b, Fork(b) + i - 1))
      BY <2>5 DEF RolledBack
    <3>2. Range(Base(b, Fork(b) + i - 1)) \subseteq Block
      BY <1>1, <1>4, BranchIs
    <3>3. PICK m \in Fork(b)..Len(main) : main' = SubSeq(main, 1, m)
      BY <2>5 DEF RolledBack
    <3>4. m \in 1..Len(main)
      BY <1>2, <2>5, <3>3 DEF RolledBack
    <3>5. IsChain(main')
      BY <1>2, <3>3, <3>4, ChainPrefix
    <3> QED
      BY <1>2, <3>1, <3>2, <3>5
  <2> QED
    BY <1>1, <2>1, <2>2, <2>3, <2>4, <2>5
<1>6. IsChain(main)' /\ IsChain(batch.main)'
  BY <1>1, <1>2, <1>5 DEF IsChain
<1> QED
  BY <1>1, <1>5, <1>6 DEF ChainInv

\* What the steps of the daemon other than add_new_block do to the main chain.
LEMMA OthersAre ==
  ASSUME ChainInv, Next, ~ (\E b \in Block : add_new_block(b))
  PROVE  \/ /\ \E m \in 1..Len(main) : main' = SubSeq(main, 1, m)
            /\ alt' = alt
            /\ invalid' = invalid \/ invalid' = {}
            /\ batch' = batch
         \/ /\ UNCHANGED <<main, alt, invalid>>
            /\ batch' = [open |-> TRUE, main |-> main, alt |-> alt, success |-> TRUE, over |-> FALSE]
         \/ /\ main' = (IF batch.success THEN main ELSE batch.main)
            /\ alt' = (IF batch.success THEN alt ELSE batch.alt)
            /\ invalid' = invalid
            /\ batch' = NoBatch
         \/ /\ \/ \E m \in 1..Len(main) : main' = SubSeq(main, 1, m) /\ alt' \in {alt, {}}
               \/ \E m \in 1..Len(batch.main) : main' = SubSeq(batch.main, 1, m) /\ alt' \in {batch.alt, {}}
            /\ invalid' = {}
            /\ batch' = NoBatch
<1>1. IsChain(main) /\ IsChain(batch.main) /\ points \subseteq DOMAIN Checkpoints
  BY DEF ChainInv
<1>2. /\ Len(main) \in 1..Len(main) /\ SubSeq(main, 1, Len(main)) = main /\ Len(main) \in Nat
      /\ Len(batch.main) \in 1..Len(batch.main) /\ SubSeq(batch.main, 1, Len(batch.main)) = batch.main
  BY <1>1, WholeIs DEF IsChain
<1>3. CASE \E h \in DOMAIN Checkpoints : update_checkpoints(h)
  <2>1. PICK h \in DOMAIN Checkpoints : update_checkpoints(h)
    BY <1>3
  <2> DEFINE P == {p \in DOMAIN Checkpoints : p <= h}
  <2>2. main' = Enforce(main, P).main /\ UNCHANGED <<alt, invalid, batch>>
    BY <2>1 DEF update_checkpoints
  <2>3. \E m \in 1..Len(main) : Enforce(main, P).main = SubSeq(main, 1, m)
    <3>1. P \subseteq DOMAIN Checkpoints
      OBVIOUS
    <3> HIDE DEF P
    <3> QED
      BY <1>1, <3>1, EnforceIs, ZenonT(60)
  <2> HIDE DEF P
  <2> QED
    BY <2>2, <2>3
<1>4. CASE BatchStart
  BY <1>4 DEF BatchStart
<1>5. CASE BatchEnd
  BY <1>5 DEF BatchEnd
<1>6. CASE \E n \in 1..Len(main) : pop_blocks(n)
  <2>1. PICK n \in 1..Len(main) : pop_blocks(n)
    BY <1>6
  <2>2. /\ main' = SubSeq(main, 1, Len(main) - n) /\ UNCHANGED <<alt, invalid, batch>>
        /\ n < Len(main)
    BY <2>1 DEF pop_blocks
  <2>3. Len(main) - n \in 1..Len(main)
    BY <1>2, <2>2
  <2> QED
    BY <2>2, <2>3
<1>7. CASE flush_invalid_blocks
  BY <1>2, <1>7, ZenonT(60) DEF flush_invalid_blocks
<1>8. CASE \E keep_alt_blocks \in BOOLEAN : Restart(keep_alt_blocks)
  <2>1. PICK keep_alt_blocks \in BOOLEAN : Restart(keep_alt_blocks)
    BY <1>8
  <2> DEFINE c == IF batch.open THEN batch.main ELSE main
             a == IF batch.open THEN batch.alt ELSE alt
             e == Enforce(c, points)
  <2>2. /\ main' = IF e.thrown THEN c ELSE e.main
        /\ alt' = IF keep_alt_blocks \/ e.thrown THEN a ELSE {}
        /\ invalid' = {} /\ batch' = NoBatch
    BY <2>1 DEF Restart
  <2>3. IsChain(c) /\ Len(c) \in 1..Len(c) /\ SubSeq(c, 1, Len(c)) = c
    BY <1>1, <1>2
  <2>4. \E m \in 1..Len(c) : e.main = SubSeq(c, 1, m)
    <3> HIDE DEF c
    <3> QED
      BY <1>1, <2>3, EnforceIs
  <2>5. (\E m \in 1..Len(c) : main' = SubSeq(c, 1, m)) /\ alt' \in {a, {}}
    <3> HIDE DEF c, a, e
    <3> QED
      BY <2>2, <2>3, <2>4
  <2>6. CASE batch.open
    <3>1. c = batch.main /\ a = batch.alt
      BY <2>6
    <3> HIDE DEF c, a, e
    <3> QED
      BY <2>2, <2>5, <3>1
  <2>7. CASE ~ batch.open
    <3>1. c = main /\ a = alt
      BY <2>7
    <3> HIDE DEF c, a, e
    <3> QED
      BY <2>2, <2>5, <3>1
  <2> QED
    BY <2>6, <2>7, ZenonT(60)
<1> QED
  BY <1>3, <1>4, <1>5, <1>6, <1>7, <1>8, ZenonT(60) DEF Next

\* What the other steps do to the rest of the state.
LEMMA OthersFlags ==
  ASSUME ChainInv, Next, ~ (\E b \in Block : add_new_block(b))
  PROVE  /\ points' \subseteq DOMAIN Checkpoints /\ points \subseteq points'
         /\ updating' \in BOOLEAN /\ running' \in BOOLEAN
<1>1. /\ IsChain(main) /\ IsChain(batch.main) /\ points \subseteq DOMAIN Checkpoints
      /\ updating \in BOOLEAN /\ running \in BOOLEAN
  BY DEF ChainInv
<1>2. CASE \E h \in DOMAIN Checkpoints : update_checkpoints(h)
  <2>1. PICK h \in DOMAIN Checkpoints : update_checkpoints(h)
    BY <1>2
  <2> DEFINE P == {p \in DOMAIN Checkpoints : p <= h}
  <2>2. /\ points' = P /\ points \subseteq P /\ P \subseteq DOMAIN Checkpoints
        /\ updating' = Enforce(main, P).thrown /\ running' = running
    BY <2>1 DEF update_checkpoints
  <2> HIDE DEF P
  <2>3. Enforce(main, P).thrown \in BOOLEAN
    BY <1>1, <2>2, EnforceIs
  <2> QED
    BY <1>1, <2>2, <2>3
<1>3. CASE \/ BatchStart \/ BatchEnd \/ flush_invalid_blocks
           \/ \E n \in 1..Len(main) : pop_blocks(n)
  BY <1>1, <1>3 DEF BatchStart, BatchEnd, flush_invalid_blocks, pop_blocks
<1>4. CASE \E keep_alt_blocks \in BOOLEAN : Restart(keep_alt_blocks)
  <2> DEFINE c == IF batch.open THEN batch.main ELSE main
  <2>1. points' = points /\ updating' = FALSE /\ running' = ~ Enforce(c, points).thrown
    BY <1>4 DEF Restart
  <2>2. IsChain(c)
    BY <1>1
  <2> HIDE DEF c
  <2>3. Enforce(c, points).thrown \in BOOLEAN
    BY <1>1, <2>2, EnforceIs
  <2> QED
    BY <1>1, <2>1, <2>3, ZenonT(60)
<1> QED
  BY <1>2, <1>3, <1>4 DEF Next

\* The chain, and the one an abort restores, are paths from the genesis block in every
\* reachable state.
LEMMA ChainInvHolds == Spec => []ChainInv
<1>1. Init => ChainInv
  <2>1. SUFFICES ASSUME Init PROVE ChainInv
    OBVIOUS
  <2>2. main = NoBatch.main
    BY <2>1 DEF Init, NoBatch
  <2> QED
    BY <2>1, <2>2, NoBatchIs, CheckpointAssumption, ZenonT(60) DEF Init, ChainInv
<1>2. ChainInv /\ [Next]_vars => ChainInv'
  <2>1. SUFFICES ASSUME ChainInv, [Next]_vars PROVE ChainInv'
    OBVIOUS
  <2>2. CASE UNCHANGED vars
    BY <2>1, <2>2 DEF vars, ChainInv, IsChain
  <2>3. CASE \E b \in Block : add_new_block(b)
    BY <2>1, <2>3, AddKeepsChain
  <2>4. CASE Next /\ ~ (\E b \in Block : add_new_block(b))
    <3>1. /\ points' \subseteq DOMAIN Checkpoints /\ updating' \in BOOLEAN /\ running' \in BOOLEAN
      BY <2>1, <2>4, OthersFlags
    <3>2. /\ IsChain(main) /\ alt \subseteq Block /\ invalid \subseteq Block /\ IsChain(batch.main)
          /\ batch \in BatchType /\ main \in Seq(Block)
      BY <2>1 DEF ChainInv, IsChain
    <3>3. /\ NoBatch \in BatchType /\ IsChain(NoBatch.main)
          /\ batch.alt \subseteq Block /\ batch.success \in BOOLEAN
      BY <3>2, NoBatchIs DEF BatchType
    <3> DEFINE opened == [open |-> TRUE, main |-> main, alt |-> alt, success |-> TRUE, over |-> FALSE]
    <3>4. opened \in BatchType /\ opened.main = main
      BY <3>2 DEF BatchType
    <3> HIDE DEF opened
    <3>5. \A m \in 1..Len(main) : IsChain(SubSeq(main, 1, m))
      BY <3>2, ChainPrefix
    <3>6. \A m \in 1..Len(batch.main) : IsChain(SubSeq(batch.main, 1, m))
      BY <3>2, ChainPrefix
    <3>7. /\ IsChain(main') /\ alt' \subseteq Block /\ invalid' \subseteq Block
          /\ batch' \in BatchType /\ IsChain(batch'.main)
      BY <2>1, <2>4, <3>2, <3>3, <3>4, <3>5, <3>6, OthersAre, ZenonT(60) DEF opened
    <3>8. IsChain(main)' /\ IsChain(batch.main)'
      BY <3>7 DEF IsChain
    <3> QED
      BY <3>1, <3>7, <3>8 DEF ChainInv
  <2> QED
    BY <2>1, <2>2, <2>3, <2>4
<1> QED
  BY <1>1, <1>2, PTL DEF Spec

\* Whatever blocks arrive, fail, are switched to, rolled back, popped or lost with a batch,
\* the state of the blockchain keeps its types.
THEOREM BlockchainTypes == Spec => []TypeOK
<1>1. ChainInv => TypeOK
  BY DEF ChainInv, TypeOK, IsChain, BatchType
<1> QED
  BY <1>1, ChainInvHolds, PTL

\* For every block tree, every verdict of validation, every checkpoint and every failure of
\* the database, the main chain is always the path from the genesis block to its top.
THEOREM MainChainIsPath == Spec => []MainIsPath
<1>1. ChainInv => MainIsPath
  BY DEF ChainInv, MainIsPath, IsChain, Tip
<1> QED
  BY <1>1, ChainInvHolds, PTL
-----------------------------------------------------------------------------
(***************************************************************************)
(* A block is at one place, as long as no batch is lost: the invariant     *)
(* says the same of what the batch would restore.                          *)
(***************************************************************************)
PlaceInv ==
  /\ ChainInv
  /\ OnePlace
  /\ Range(batch.main) \cap batch.alt = {}
  /\ batch.success = TRUE

\* A block that arrives keeps it.
LEMMA AddKeepsPlace ==
  ASSUME Faults = FALSE, PlaceInv, NEW b \in Block, add_new_block(b)
  PROVE  PlaceInv'
<1>1. ChainInv /\ ChainInv'
  BY AddKeepsChain DEF PlaceInv
<1>2. /\ b # Genesis /\ b \notin Range(main) \cup alt \cup invalid
      /\ batch'.main = batch.main /\ batch'.alt = batch.alt /\ batch'.success = batch.success
      /\ Added(b) \/ Refused(b) \/ Stored(b) \/ Switched(b) \/ RolledBack(b)
  BY <1>1, AddIs
<1>3. /\ Range(main) \cap alt = {} /\ (Range(main) \cup alt) \cap invalid = {}
      /\ IsChain(main) /\ main \in Seq(Block) /\ Len(main) \in Nat \ {0}
  BY DEF PlaceInv, OnePlace, ChainInv, IsChain
<1>4. Range(Base(b, Fork(b))) \subseteq alt \cup {b}
  BY <1>2, BranchIs, ZenonT(60)
<1>5. Range(main') \cap alt' = {} /\ (Range(main') \cup alt') \cap invalid' = {}
  <2>1. CASE Added(b)
    <3>1. Range(Append(main, b)) \subseteq Range(main) \cup {b}
      <4>1. /\ Append(main, b) \in Seq(Block) /\ Len(Append(main, b)) = Len(main) + 1
            /\ \A i \in 1..Len(main) : Append(main, b)[i] = main[i]
            /\ Append(main, b)[Len(main) + 1] = b
        BY <1>3, AppendIs
      <4>2. DOMAIN Append(main, b) = 1..(Len(main) + 1) /\ DOMAIN main = 1..Len(main)
        BY <1>3, <4>1, LenIs
      <4>3. \A i \in 1..(Len(main) + 1) : i \in 1..Len(main) \/ i = Len(main) + 1
        BY <1>3
      <4> QED
        BY <4>1, <4>2, <4>3, ZenonT(60) DEF Range
    <3> QED
      BY <1>2, <1>3, <2>1, <3>1 DEF Added
  <2>2. CASE Refused(b)
    BY <1>2, <1>3, <2>2, ZenonT(60) DEF Refused
  <2>3. CASE Stored(b)
    BY <1>2, <1>3, <2>3 DEF Stored
  <2>4. CASE Switched(b)
    <3> DEFINE n == Fork(b)
    <3>1. PICK K \in {{}, Kept(n, Len(Path[b]))} : alt' = (alt \cup K) \ Range(Base(b, n))
      BY <2>4, ZenonT(60) DEF Switched
    <3>2. n \in 1..Len(main) /\ main' = SubSeq(main, 1, n) \o Base(b, n) /\ invalid' = invalid
      BY <2>4 DEF Switched
    <3>3. K \subseteq Range(main) /\ K \cap Range(SubSeq(main, 1, n)) = {}
      BY <1>3, <3>2, KeptIs, ZenonT(60)
    <3>4. /\ SubSeq(main, 1, n) \in Seq(Block) /\ Range(SubSeq(main, 1, n)) \subseteq Range(main)
          /\ Base(b, n) \in Seq(Block)
      BY <1>2, <1>3, <3>2, ChainPrefix, BranchIs DEF IsChain
    <3>5. Range(main') \subseteq Range(SubSeq(main, 1, n)) \cup Range(Base(b, n))
      <4> DEFINE s == SubSeq(main, 1, n)
                 t == Base(b, n)
      <4> HIDE DEF s, t, n
      <4>1. s \in Seq(Block) /\ t \in Seq(Block)
        BY <3>4 DEF s, t
      <4>2. /\ s \o t \in Seq(Block) /\ Len(s \o t) = Len(s) + Len(t)
            /\ \A i \in 1..(Len(s) + Len(t)) :
                 (s \o t)[i] = IF i <= Len(s) THEN s[i] ELSE t[i - Len(s)]
        BY <4>1, ConcatIs
      <4>3. /\ DOMAIN (s \o t) = 1..(Len(s) + Len(t)) /\ DOMAIN s = 1..Len(s) /\ DOMAIN t = 1..Len(t)
            /\ Len(s) \in Nat /\ Len(t) \in Nat
        BY <4>1, <4>2, LenIs
      <4>4. \A i \in 1..(Len(s) + Len(t)) :
              IF i <= Len(s) THEN i \in 1..Len(s) ELSE i - Len(s) \in 1..Len(t)
        BY <4>3
      <4>5. \A i \in 1..(Len(s) + Len(t)) : (s \o t)[i] \in Range(s) \cup Range(t)
        BY <4>2, <4>3, <4>4, ZenonT(60) DEF Range
      <4>6. Range(s \o t) \subseteq Range(s) \cup Range(t)
        BY <4>3, <4>5 DEF Range
      <4> QED
        BY <3>2, <4>6 DEF s, t
    <3> HIDE DEF n
    <3>6. Range(Base(b, n)) \subseteq alt \cup {b}
      BY <1>4, ZenonT(60) DEF n
    <3> QED
      BY <1>2, <1>3, <3>1, <3>2, <3>3, <3>4, <3>5, <3>6
  <2>5. CASE RolledBack(b)
    <3>1. PICK i \in 1..Len(Base(b, Fork(b))) :
            /\ invalid' = invalid \cup Range(Base(b, Fork(b) + i - 1))
            /\ alt' = (alt \cup {b}) \ Range(Base(b, Fork(b) + i - 1))
      BY <2>5, ZenonT(60) DEF RolledBack
    <3>2. Range(Base(b, Fork(b) + i - 1)) \subseteq alt \cup {b}
      BY <1>2, <1>4, BranchIs
    <3>3. PICK m \in Fork(b)..Len(main) : main' = SubSeq(main, 1, m)
      BY <2>5 DEF RolledBack
    <3>4. m \in 1..Len(main)
      BY <1>3, <2>5, <3>3 DEF RolledBack
    <3>5. Range(main') \subseteq Range(main)
      BY <1>3, <3>3, <3>4, ChainPrefix
    <3> QED
      BY <1>2, <1>3, <3>1, <3>2, <3>5
  <2> QED
    BY <1>2, <2>1, <2>2, <2>3, <2>4, <2>5, ZenonT(60)
<1>6. Range(batch'.main) \cap batch'.alt = {} /\ batch'.success = TRUE
  BY <1>2 DEF PlaceInv
<1> QED
  BY <1>1, <1>5, <1>6 DEF PlaceInv, OnePlace

\* As long as the database does not fail and no block spends a key image twice, no block of
\* the main chain is also an alternative block, and none that is on the main chain or an
\* alternative is dismissed as invalid (m_invalid_blocks).
THEOREM BlocksAtOnePlace ==
  ASSUME Faults = FALSE
  PROVE  Spec => []OnePlace
<1>1. Init => PlaceInv
  <2>1. SUFFICES ASSUME Init PROVE PlaceInv
    OBVIOUS
  <2>2. main = NoBatch.main
    BY <2>1 DEF Init, NoBatch
  <2>3. ChainInv
    BY <2>1, <2>2, NoBatchIs, CheckpointAssumption, ZenonT(60) DEF Init, ChainInv
  <2> QED
    BY <2>1, <2>3, NoBatchIs DEF Init, PlaceInv, OnePlace
<1>2. PlaceInv /\ ChainInv' /\ [Next]_vars => PlaceInv'
  <2>1. SUFFICES ASSUME PlaceInv, ChainInv', [Next]_vars PROVE PlaceInv'
    OBVIOUS
  <2>2. CASE UNCHANGED vars
    BY <2>1, <2>2 DEF vars, PlaceInv, OnePlace
  <2>3. CASE \E b \in Block : add_new_block(b)
    BY <2>1, <2>3, AddKeepsPlace, ZenonT(60)
  <2>4. CASE Next /\ ~ (\E b \in Block : add_new_block(b))
    <3>1. /\ IsChain(main) /\ IsChain(batch.main) /\ batch.success = TRUE
          /\ Range(main) \cap alt = {} /\ (Range(main) \cup alt) \cap invalid = {}
          /\ Range(batch.main) \cap batch.alt = {}
      BY <2>1 DEF PlaceInv, ChainInv, OnePlace
    <3>2. Range(NoBatch.main) \cap NoBatch.alt = {} /\ NoBatch.success = TRUE
      BY NoBatchIs
    <3> DEFINE opened == [open |-> TRUE, main |-> main, alt |-> alt, success |-> TRUE, over |-> FALSE]
    <3>3. opened.main = main /\ opened.alt = alt /\ opened.success = TRUE
      OBVIOUS
    <3> HIDE DEF opened
    <3>4. \A m \in 1..Len(main) : Range(SubSeq(main, 1, m)) \subseteq Range(main)
      BY <3>1, ChainPrefix
    <3>5. \A m \in 1..Len(batch.main) : Range(SubSeq(batch.main, 1, m)) \subseteq Range(batch.main)
      BY <3>1, ChainPrefix
    <3>6. ChainInv
      BY <2>1 DEF PlaceInv
    <3>7. \/ \E m \in 1..Len(main) :
              /\ main' = SubSeq(main, 1, m) /\ alt' \in {alt, {}} /\ invalid' \in {invalid, {}}
              /\ batch' \in {batch, NoBatch, opened}
          \/ \E m \in 1..Len(batch.main) :
              /\ main' = SubSeq(batch.main, 1, m) /\ alt' \in {batch.alt, {}} /\ invalid' = {}
              /\ batch' = NoBatch
      <4>1. Len(main) \in 1..Len(main) /\ SubSeq(main, 1, Len(main)) = main
        BY <3>1, WholeIs DEF IsChain
      <4> QED
        BY <2>4, <3>1, <3>6, <4>1, OthersAre DEF opened
    <3>8. /\ Range(main') \cap alt' = {} /\ (Range(main') \cup alt') \cap invalid' = {}
      BY <3>1, <3>4, <3>5, <3>7, ZenonT(60)
    <3>9. CASE batch' \in {batch, NoBatch}
      BY <2>1, <3>1, <3>2, <3>8, <3>9, ZenonT(60) DEF PlaceInv, OnePlace
    <3>10. CASE batch' = opened
      BY <2>1, <3>1, <3>3, <3>8, <3>10 DEF PlaceInv, OnePlace
    <3> QED
      BY <3>7, <3>9, <3>10
  <2> QED
    BY <2>1, <2>2, <2>3, <2>4
<1>3. PlaceInv => OnePlace
  BY DEF PlaceInv
<1> QED
  BY <1>1, <1>2, <1>3, ChainInvHolds, PTL DEF Spec
-----------------------------------------------------------------------------
(***************************************************************************)
(* Checkpoints that are compiled in, and what a failed switch leaves.      *)
(***************************************************************************)
Agrees(c) == \A p \in DOMAIN Checkpoints : p < Len(c) => c[p + 1] = Checkpoints[p]

CheckInv ==
  /\ ChainInv
  /\ points = DOMAIN Checkpoints
  /\ Agrees(main)
  /\ Agrees(batch.main)

\* A prefix of a chain that agrees with the checkpoints agrees with them.
LEMMA PrefixAgrees ==
  ASSUME NEW c, IsChain(c), Agrees(c), NEW m \in 1..Len(c)
  PROVE  Agrees(SubSeq(c, 1, m))
<1>1. Len(c) \in Nat \ {0}
  BY DEF IsChain
<1>2. Len(SubSeq(c, 1, m)) = m /\ \A i \in 1..m : SubSeq(c, 1, m)[i] = c[i]
  BY ChainPrefix
<1>3. \A p \in DOMAIN Checkpoints : p < m => p + 1 \in 1..m /\ p < Len(c)
  BY <1>1, CheckpointAssumption
<1> QED
  BY <1>2, <1>3 DEF Agrees

\* So does the path to a block whose branch passed the checkpoints.
LEMMA PathAgrees ==
  ASSUME NEW c, IsChain(c), Agrees(c), points = DOMAIN Checkpoints,
         NEW b \in Block, NEW n \in 1..Len(Path[b]), n <= Len(c),
         \A i \in 1..n : c[i] = Path[b][i],
         \A i \in (n + 1)..Len(Path[b]) : "added" \in Results(Path[b][i])
  PROVE  Agrees(Path[b])
<1>1. Len(c) \in Nat \ {0} /\ Len(Path[b]) \in Nat /\ Path[b] \in Seq(Block)
  BY PathEnds DEF IsChain
<1>2. SUFFICES ASSUME NEW p \in DOMAIN Checkpoints, p < Len(Path[b])
               PROVE  Path[b][p + 1] = Checkpoints[p]
  BY DEF Agrees
<1>3. p \in Nat /\ p >= 1 /\ p + 1 \in 1..Len(Path[b])
  BY <1>1, <1>2, CheckpointAssumption
<1>4. CASE p + 1 <= n
  BY <1>1, <1>3, <1>4 DEF Agrees
<1>5. CASE ~ (p + 1 <= n)
  <2>1. "added" \in Results(Path[b][p + 1])
    BY <1>1, <1>3, <1>5
  <2>2. check_block(Height(Path[b][p + 1]), Path[b][p + 1])
    BY <2>1 DEF Results
  <2>3. Height(Path[b][p + 1]) = p
    <3>1. Path[Path[b][p + 1]] = SubSeq(Path[b], 1, p + 1)
      BY <1>3, PathPrefix
    <3>2. p + 1 \in 0..Len(Path[b])
      BY <1>1, <1>3
    <3>3. Len(Path[Path[b][p + 1]]) = p + 1
      BY <1>1, <3>1, <3>2, PrefixIs
    <3> QED
      BY <1>3, <3>3 DEF Height
  <2> QED
    BY <2>2, <2>3 DEF check_block
<1> QED
  BY <1>4, <1>5

\* A block that arrives leaves a main chain that agrees with the checkpoints.
LEMMA AddAgrees ==
  ASSUME CheckInv, NEW b \in Block, add_new_block(b)
  PROVE  CheckInv'
<1>1. ChainInv /\ ChainInv' /\ IsChain(main) /\ Agrees(main) /\ points = DOMAIN Checkpoints
  BY AddKeepsChain, ZenonT(60) DEF CheckInv, ChainInv
<1>2. /\ b # Genesis /\ points' = points /\ batch'.main = batch.main
      /\ Added(b) \/ Refused(b) \/ Stored(b) \/ Switched(b) \/ RolledBack(b)
  BY <1>1, AddIs
<1>3. /\ main \in Seq(Block) /\ Len(main) \in Nat \ {0} /\ Len(Path[b]) \in Nat
      /\ Path[b][Len(Path[b])] = b
  BY <1>1, PathEnds DEF IsChain
<1>4. Agrees(main')
  <2>1. CASE Added(b)
    <3> DEFINE n == Len(main)
    <3>1. /\ main' = Path[b] /\ Len(Path[b]) = n + 1 /\ \A i \in 1..n : main[i] = Path[b][i]
          /\ "added" \in Results(b)
      <4>1. main' = Path[b] /\ Path[b] = Append(main, b) /\ "added" \in Results(b)
        BY <2>1 DEF Added
      <4>2. /\ Len(Append(main, b)) = Len(main) + 1
            /\ \A i \in 1..Len(main) : Append(main, b)[i] = main[i]
        BY <1>3, AppendIs
      <4> QED
        BY <4>1, <4>2
    <3>2. n \in 1..Len(Path[b]) /\ n <= Len(main) /\ \A i \in (n + 1)..Len(Path[b]) : Path[b][i] = b
      BY <1>3, <3>1
    <3> HIDE DEF n
    <3>3. \A i \in (n + 1)..Len(Path[b]) : "added" \in Results(Path[b][i])
      BY <3>1, <3>2
    <3> QED
      BY <1>1, <3>1, <3>2, <3>3, PathAgrees
  <2>2. CASE Refused(b) \/ Stored(b)
    BY <1>1, <2>2 DEF Refused, Stored
  <2>3. CASE Switched(b)
    <3> DEFINE n == Fork(b)
    <3>1. /\ n \in 1..Len(main) /\ main[n] = Path[b][n] /\ main' = Path[b]
          /\ \A i \in 1..Len(Base(b, n)) : "added" \in Results(Base(b, n)[i])
      BY <2>3, ZenonT(60) DEF Switched
    <3>2. /\ n \in 1..(Len(Path[b]) - 1) /\ Len(Base(b, n)) = Len(Path[b]) - n
          /\ \A i \in 1..Len(Base(b, n)) : Base(b, n)[i] = Path[b][n + i]
      BY <1>2, ForkIs, BranchIs, ZenonT(60)
    <3> HIDE DEF n
    <3>3. n \in 1..Len(Path[b]) /\ n <= Len(main)
      BY <1>3, <3>1, <3>2
    <3>4. \A i \in 1..n : main[i] = Path[b][i]
      <4>1. Path[main[n]] = SubSeq(main, 1, n)
        <5>1. main = Path[main[Len(main)]] /\ main[Len(main)] \in Block
          BY <1>1, <1>3, ElementIs DEF IsChain
        <5> QED
          BY <3>1, <5>1, PathPrefix
      <4>2. Path[Path[b][n]] = SubSeq(Path[b], 1, n)
        BY <3>3, PathPrefix
      <4>3. \A i \in 1..n : SubSeq(main, 1, n)[i] = main[i]
        BY <1>1, <3>1, ChainPrefix
      <4>4. \A i \in 1..n : SubSeq(Path[b], 1, n)[i] = Path[b][i]
        BY <3>3, PathIsChain, ChainPrefix
      <4> QED
        BY <3>1, <4>1, <4>2, <4>3, <4>4, ZenonT(60)
    <3>5. \A i \in (n + 1)..Len(Path[b]) : "added" \in Results(Path[b][i])
      <4>1. \A i \in (n + 1)..Len(Path[b]) : i - n \in 1..Len(Base(b, n)) /\ n + (i - n) = i
        BY <1>3, <3>2
      <4> QED
        BY <3>1, <3>2, <4>1, ZenonT(60)
    <3> QED
      BY <1>1, <3>1, <3>3, <3>4, <3>5, PathAgrees, ZenonT(60)
  <2>4. CASE RolledBack(b)
    <3>1. PICK m \in Fork(b)..Len(main) : main' = SubSeq(main, 1, m)
      BY <2>4 DEF RolledBack
    <3>2. m \in 1..Len(main)
      BY <1>3, <2>4, <3>1 DEF RolledBack
    <3> QED
      BY <1>1, <3>1, <3>2, PrefixAgrees
  <2> QED
    BY <1>2, <2>1, <2>2, <2>3, <2>4, ZenonT(60)
<1> QED
  BY <1>1, <1>2, <1>4 DEF CheckInv, Agrees

\* With the checkpoints compiled in, the invariant holds, whatever the database does.
LEMMA CheckInvHolds ==
  ASSUME Loaded = DOMAIN Checkpoints
  PROVE  Spec => []CheckInv
<1>1. Init /\ ChainInv => CheckInv
  <2>1. SUFFICES ASSUME Init, ChainInv PROVE CheckInv
    OBVIOUS
  <2>2. main = <<Genesis>> /\ batch.main = <<Genesis>> /\ points = DOMAIN Checkpoints
    BY <2>1 DEF Init, NoBatch
  <2>3. Agrees(<<Genesis>>)
    <3>1. \A p \in DOMAIN Checkpoints : ~ (p < 1)
      BY CheckpointAssumption
    <3>2. Len(<<Genesis>>) = 1
      OBVIOUS
    <3> QED
      BY <3>1, <3>2 DEF Agrees
  <2> QED
    BY <2>1, <2>2, <2>3 DEF CheckInv
<1>2. CheckInv /\ ChainInv' /\ [Next]_vars => CheckInv'
  <2>1. SUFFICES ASSUME CheckInv, ChainInv', [Next]_vars PROVE CheckInv'
    OBVIOUS
  <2>2. CASE UNCHANGED vars
    BY <2>1, <2>2 DEF vars, CheckInv, Agrees
  <2>3. CASE \E b \in Block : add_new_block(b)
    BY <2>1, <2>3, AddAgrees
  <2>4. CASE Next /\ ~ (\E b \in Block : add_new_block(b))
    <3>1. ChainInv /\ IsChain(main) /\ IsChain(batch.main) /\ Agrees(main) /\ Agrees(batch.main)
      BY <2>1 DEF CheckInv, ChainInv
    <3>2. points' = DOMAIN Checkpoints
      BY <2>1, <2>4, <3>1, OthersFlags, ZenonT(60) DEF CheckInv
    <3>3. Agrees(NoBatch.main)
      <4>1. \A p \in DOMAIN Checkpoints : ~ (p < 1)
        BY CheckpointAssumption
      <4>2. Len(NoBatch.main) = 1
        BY DEF NoBatch
      <4> QED
        BY <4>1, <4>2 DEF Agrees
    <3> DEFINE opened == [open |-> TRUE, main |-> main, alt |-> alt, success |-> TRUE, over |-> FALSE]
    <3>4. opened.main = main
      OBVIOUS
    <3> HIDE DEF opened
    <3>5. \A m \in 1..Len(main) : Agrees(SubSeq(main, 1, m))
      BY <3>1, PrefixAgrees
    <3>6. \A m \in 1..Len(batch.main) : Agrees(SubSeq(batch.main, 1, m))
      BY <3>1, PrefixAgrees
    <3>7. Agrees(main') /\ Agrees(batch'.main)
      BY <2>4, <3>1, <3>3, <3>4, <3>5, <3>6, OthersAre, ZenonT(60) DEF opened
    <3> QED
      BY <2>1, <3>2, <3>7 DEF CheckInv, Agrees
  <2> QED
    BY <2>1, <2>2, <2>3, <2>4
<1> QED
  BY <1>1, <1>2, ChainInvHolds, PTL DEF Spec

\* With all checkpoints compiled in, every block of the main chain at the height of a
\* checkpoint is the block of that checkpoint, whatever is switched to, popped or lost.
THEOREM CheckpointsAreKept ==
  ASSUME Loaded = DOMAIN Checkpoints
  PROVE  Spec => []CheckpointsHold
<1>1. CheckInv => CheckpointsHold
  BY DEF CheckInv, Agrees, CheckpointsHold
<1> QED
  BY <1>1, CheckInvHolds, PTL

\* If moreover the database does not fail, no block spends a key image twice and none is
\* pruned, the old blocks all come back.
LEMMA RollbackRestores ==
  ASSUME Faults = FALSE, Pruned = {}, CheckInv, NEW b \in Block, RolledBack(b)
  PROVE  main' = main
<1>1. /\ IsChain(main) /\ main \in Seq(Block) /\ Len(main) \in Nat \ {0} /\ Agrees(main)
      /\ points = DOMAIN Checkpoints /\ Fork(b) \in 1..Len(main)
  BY DEF CheckInv, ChainInv, IsChain, RolledBack
<1>2. PICK m \in Fork(b)..Len(main) :
        /\ main' = SubSeq(main, 1, m)
        /\ m < Len(main) => Faults \/ main[m + 1] \in Pruned \/ ~ check_block(m, main[m + 1])
  BY DEF RolledBack
<1>3. m \in Nat /\ m >= 1 /\ m <= Len(main)
  BY <1>1, <1>2
<1>4. m < Len(main) => check_block(m, main[m + 1])
  BY <1>1, <1>3 DEF check_block, Agrees
<1>5. m = Len(main)
  BY <1>1, <1>2, <1>3, <1>4
<1> QED
  BY <1>1, <1>2, <1>5, WholeIs, ZenonT(60)

\* With the checkpoints compiled in, a database that does not fail, no block that spends a
\* key image twice and no pruned block, a switch that fails leaves the main chain as it was.
THEOREM FailedSwitchIsReverted ==
  ASSUME Faults = FALSE, Pruned = {}, Loaded = DOMAIN Checkpoints
  PROVE  Spec => FailedSwitchReverts
<1> DEFINE A == invalid' # invalid /\ (\E b \in Block : add_new_block(b)) => main' = main
<1>1. CheckInv /\ [Next]_vars => [A]_vars
  <2>1. SUFFICES ASSUME CheckInv, NEW b \in Block, add_new_block(b), invalid' # invalid
                 PROVE  main' = main
    OBVIOUS
  <2>2. Added(b) \/ Refused(b) \/ Stored(b) \/ Switched(b) \/ RolledBack(b)
    BY <2>1, AddIs, ZenonT(60) DEF CheckInv
  <2>3. Refused(b) \/ RolledBack(b)
    BY <2>1, <2>2, ZenonT(60) DEF Added, Stored, Switched
  <2> QED
    BY <2>1, <2>3, RollbackRestores, ZenonT(60) DEF Refused
<1> QED
  BY <1>1, CheckInvHolds, PTL DEF Spec, FailedSwitchReverts

\* Under the same conditions, a block that arrives never makes the main chain lighter,
\* unless the new top block is a checkpoint.
THEOREM ChainNeverLighter ==
  ASSUME Faults = FALSE, Pruned = {}, Loaded = DOMAIN Checkpoints
  PROVE  Spec => NeverLighter
<1> DEFINE A == (\E b \in Block : add_new_block(b)) =>
                   \/ Cumulative[Tip'] >= Cumulative[Tip]
                   \/ Height(Tip') \in points
<1>1. CheckInv /\ ChainInv' /\ [Next]_vars => [A]_vars
  <2>1. SUFFICES ASSUME CheckInv, ChainInv', NEW b \in Block, add_new_block(b)
                 PROVE  Cumulative[Tip'] >= Cumulative[Tip] \/ Height(Tip') \in points
    OBVIOUS
  <2>2. /\ Added(b) \/ Refused(b) \/ Stored(b) \/ Switched(b) \/ RolledBack(b)
        /\ b # Genesis
    BY <2>1, AddIs DEF CheckInv
  <2>3. Tip \in Block
    BY <2>1, ElementIs DEF CheckInv, ChainInv, IsChain, Tip
  <2>4. Cumulative[Tip] \in Nat /\ Cumulative[b] \in Nat
    BY <2>3, BlockAssumption
  <2>5. Path[b][Len(Path[b])] = b /\ Len(Path[b]) \in Nat /\ Len(Path[b]) >= 2
    BY <2>2, PathEnds
  <2>6. CASE Added(b)
    <3>1. Tip' = b
      BY <2>5, <2>6 DEF Added, Tip
    <3>2. Tip = Path[b][Len(Path[b]) - 1]
      BY <2>6 DEF Added, Parent
    <3>3. Cumulative[Tip] < Cumulative[b]
      <4>1. Len(Path[b]) - 1 \in 1..(Len(Path[b]) - 1)
        BY <2>5
      <4> QED
        BY <3>2, <4>1, BlockAssumption, ZenonT(60)
    <3> QED
      BY <2>4, <3>1, <3>3
  <2>7. CASE Switched(b)
    <3>1. Tip' = b
      BY <2>5, <2>7, ZenonT(60) DEF Switched, Tip
    <3>2. Height(b) \in points \/ Cumulative[Tip] < Cumulative[b]
      BY <2>7 DEF Switched
    <3>3. Cumulative[Tip] < Cumulative[b] => Cumulative[b] >= Cumulative[Tip]
      BY <2>4
    <3> QED
      BY <3>1, <3>2, <3>3
  <2>8. CASE Refused(b) \/ Stored(b) \/ RolledBack(b)
    <3>1. main' = main
      <4>1. RolledBack(b) => main' = main
        BY <2>1, RollbackRestores, ZenonT(60)
      <4> QED
        BY <2>8, <4>1 DEF Refused, Stored
    <3>2. Tip' = Tip
      BY <3>1 DEF Tip
    <3> QED
      BY <2>4, <3>2
  <2> QED
    BY <2>2, <2>6, <2>7, <2>8
<1> QED
  BY <1>1, CheckInvHolds, ChainInvHolds, PTL DEF Spec, NeverLighter
=============================================================================
