---------------------------- MODULE LedgerProofs ----------------------------
(***************************************************************************)
(* What the main chain is among the chains the node knows: Blockchain      *)
(* implements Ledger, and no branch it could adopt is heavier.             *)
(***************************************************************************)
EXTENDS BlockchainProofs

\* Leaves that name no prover are for the SMT solver first, with time to spare.
USE SMTT(60), ZenonT(60), SMTT(120)

saved == IF batch.open THEN batch.main ELSE main

\* A block that arrives does so within a batch, and leaves it open.
LEMMA AddWithinBatch ==
  ASSUME ChainInv, NEW b \in Block, add_new_block(b)
  PROVE  batch.open /\ batch'.open
<1>1. batch.open /\ batch \in BatchType
  BY DEF add_new_block, ChainInv
<1>2. \A x, y : [batch EXCEPT !.success = x, !.over = y].open = batch.open
  BY <1>1, ZenonT(60) DEF BatchType
<1>3. \A y : [batch EXCEPT !.over = y].open = batch.open
  BY <1>1, ZenonT(60) DEF BatchType
<1>4. CASE AddToMain(b)
  BY <1>1, <1>2, <1>4 DEF AddToMain
<1>5. CASE HandleAlternative(b)
  <2>1. batch' = batch \/ SwitchFails(b, Fork(b))
    BY <1>5 DEF HandleAlternative, SwitchTo
  <2>2. SwitchFails(b, Fork(b)) => \E x, y : batch' = [batch EXCEPT !.success = x, !.over = y]
    BY ZenonT(60) DEF SwitchFails
  <2> QED
    BY <1>1, <1>2, <2>1, <2>2, ZenonT(60)
<1>6. CASE RefuseAlternative(b)
  BY <1>1, <1>3, <1>6 DEF RefuseAlternative
<1> QED
  BY <1>4, <1>5, <1>6 DEF add_new_block

\* A chain that agrees with the checkpoints is not rolled back.
LEMMA NothingToEnforce ==
  ASSUME NEW c, Agrees(c)
  PROVE  /\ Enforce(c, DOMAIN Checkpoints).main = c
         /\ Enforce(c, DOMAIN Checkpoints).thrown = FALSE
<1>1. {p \in DOMAIN Checkpoints : p >= 2 /\ p < Len(c) /\ c[p + 1] # Checkpoints[p]} = {}
  BY DEF Agrees
<1>2. Enforce(c, DOMAIN Checkpoints) = [main |-> c, thrown |-> FALSE]
  BY <1>1, ZenonT(60) DEF Enforce
<1> QED
  BY <1>2

\* A block that arrives is a step of Ledger, or none.
LEMMA AddIsLedgerStep ==
  ASSUME Faults = FALSE, Pruned = {}, CheckInv, CheckInv', NEW b \in Block, add_new_block(b)
  PROVE  Seen!Adopt(b) \/ UNCHANGED <<main, saved>>
<1>1. ChainInv /\ IsChain(main) /\ points = DOMAIN Checkpoints
  BY DEF CheckInv, ChainInv
<1>2. /\ b # Genesis /\ batch'.main = batch.main
      /\ Added(b) \/ Refused(b) \/ Stored(b) \/ Switched(b) \/ RolledBack(b)
  BY <1>1, AddIs
<1>3. saved' = saved
  BY <1>1, <1>2, AddWithinBatch DEF saved
<1>4. ASSUME main' = Path[b], Height(b) \in points \/ Cumulative[Tip] < Cumulative[b]
      PROVE  Seen!Adopt(b)
  <2>1. Seen!Agrees(Path[b])
    BY <1>4 DEF CheckInv, Agrees, Seen!Agrees
  <2>2. Tip \in Block /\ Tip = main[Len(main)]
    BY <1>1, ElementIs DEF IsChain, Tip
  <2>3. Cumulative[Tip] \in Nat /\ Cumulative[b] \in Nat
    BY <2>2, BlockAssumption
  <2>4. Cumulative[b] > Cumulative[main[Len(main)]] \/ Len(Path[b]) - 1 \in DOMAIN Checkpoints
    BY <1>1, <1>4, <2>2, <2>3 DEF Height
  <2> QED
    BY <1>3, <1>4, <2>1, <2>4 DEF Seen!Adopt, saved
<1>5. CASE Added(b)
  <2>1. main' = Path[b] /\ Tip = Path[b][Len(Path[b]) - 1]
    BY <1>5 DEF Added, Parent
  <2>2. Len(Path[b]) - 1 \in 1..(Len(Path[b]) - 1)
    BY <1>2, PathEnds
  <2>3. Cumulative[Tip] < Cumulative[b]
    BY <2>1, <2>2, BlockAssumption
  <2> QED
    BY <1>4, <2>1, <2>3
<1>6. CASE Switched(b)
  BY <1>4, <1>6, ZenonT(60) DEF Switched
<1>7. CASE Refused(b) \/ Stored(b) \/ RolledBack(b)
  BY <1>3, <1>7, RollbackRestores, ZenonT(60) DEF Refused, Stored
<1> QED
  BY <1>2, <1>5, <1>6, <1>7

\* So is every other step of the daemon.
LEMMA OtherIsLedgerStep ==
  ASSUME MayPop = FALSE, CheckInv, Next, ~ (\E b \in Block : add_new_block(b))
  PROVE  Seen!Commit \/ Seen!Lose \/ UNCHANGED <<main, saved>>
<1>1. /\ points = DOMAIN Checkpoints /\ Agrees(main) /\ Agrees(batch.main)
      /\ batch.success \in BOOLEAN /\ batch.open \in BOOLEAN
  BY DEF CheckInv, ChainInv, BatchType
<1>2. CASE \E h \in DOMAIN Checkpoints : update_checkpoints(h)
  <2>1. PICK h \in DOMAIN Checkpoints : update_checkpoints(h)
    BY <1>2
  <2>2. {p \in DOMAIN Checkpoints : p <= h} = DOMAIN Checkpoints
    BY <1>1, <2>1 DEF update_checkpoints
  <2>3. main' = Enforce(main, DOMAIN Checkpoints).main /\ batch' = batch
    BY <2>1, <2>2 DEF update_checkpoints
  <2>4. main' = main
    BY <1>1, <2>3, NothingToEnforce, ZenonT(60)
  <2> QED
    BY <2>3, <2>4 DEF saved
<1>3. CASE BatchStart
  <2>1. /\ ~ batch.open /\ main' = main
        /\ batch' = [open |-> TRUE, main |-> main, alt |-> alt, success |-> TRUE, over |-> FALSE]
    BY <1>3 DEF BatchStart
  <2>2. batch'.open /\ batch'.main = main
    BY <2>1
  <2> QED
    BY <2>1, <2>2 DEF saved
<1>4. CASE BatchEnd
  <2>1. /\ batch.open /\ main' = IF batch.success THEN main ELSE batch.main
        /\ ~ batch'.open
    BY <1>4 DEF BatchEnd, NoBatch
  <2>2. saved = batch.main /\ saved' = main'
    BY <2>1 DEF saved
  <2>3. CASE batch.success
    BY <2>1, <2>2, <2>3 DEF Seen!Commit, saved
  <2>4. CASE ~ batch.success
    BY <2>1, <2>2, <2>4 DEF Seen!Lose, saved
  <2> QED
    BY <2>3, <2>4
<1>5. CASE \E keep_alt_blocks \in BOOLEAN : Restart(keep_alt_blocks)
  <2>1. PICK keep_alt_blocks \in BOOLEAN : Restart(keep_alt_blocks)
    BY <1>5
  <2>2. /\ main' = (IF Enforce(saved, points).thrown THEN saved ELSE Enforce(saved, points).main)
        /\ ~ batch'.open
    BY <2>1 DEF Restart, NoBatch, saved
  <2>3. Agrees(saved)
    BY <1>1 DEF saved
  <2>4. main' = saved
    BY <1>1, <2>2, <2>3, NothingToEnforce, ZenonT(60)
  <2>5. saved' = main'
    BY <2>2 DEF saved
  <2> QED
    BY <2>4, <2>5 DEF Seen!Lose, saved
<1>6. CASE flush_invalid_blocks \/ \E n \in 1..Len(main) : pop_blocks(n)
  BY <1>6 DEF flush_invalid_blocks, pop_blocks
<1> QED
  BY <1>2, <1>3, <1>4, <1>5, <1>6 DEF Next

\* For every block tree and every verdict of validation, the daemon implements Ledger (every
\* switch, failed switch, batch and restart of Blockchain is a step of it or none), if nobody
\* pops blocks, the database does not fail, no block spends a key image twice, none is pruned,
\* and the checkpoints are those compiled in.
THEOREM LedgerIsKept ==
  ASSUME Faults = FALSE, MayPop = FALSE, Pruned = {}, Loaded = DOMAIN Checkpoints
  PROVE  Spec => KeepsLedger
<1>1. Init => Seen!Init
  BY DEF Init, NoBatch, Seen!Init
<1>2. CheckInv /\ CheckInv' /\ [Next]_vars => [Seen!Next]_<<main, saved>>
  <2>1. SUFFICES ASSUME CheckInv, CheckInv', [Next]_vars
                 PROVE  Seen!Next \/ UNCHANGED <<main, saved>>
    OBVIOUS
  <2>2. CASE UNCHANGED vars
    BY <2>2 DEF vars, saved
  <2>3. CASE \E b \in Block : add_new_block(b)
    <3>1. PICK b \in Block : add_new_block(b)
      BY <2>3
    <3> QED
      BY <2>1, <3>1, AddIsLedgerStep, ZenonT(60) DEF Seen!Next
  <2>4. CASE Next /\ ~ (\E b \in Block : add_new_block(b))
    BY <2>1, <2>4, OtherIsLedgerStep, ZenonT(60) DEF Seen!Next
  <2> QED
    BY <2>1, <2>2, <2>3, <2>4
<1> QED
  BY <1>1, <1>2, CheckInvHolds, PTL DEF Spec, KeepsLedger, Seen!Spec, saved
-----------------------------------------------------------------------------
(***************************************************************************)
(* The heaviest branch.  An alternative block is at no checkpoint; the     *)
(* checkpoints below it are on the main chain and on its path; and if it   *)
(* is heavier than the main chain, its path misses a checkpoint of the     *)
(* main chain.  The same holds of what the open batch would restore.       *)
(***************************************************************************)
Outweighed(c, M) ==
  \/ Cumulative[c] <= Cumulative[M[Len(M)]]
  \/ \E p \in DOMAIN Checkpoints : p < Len(M) /\ M[p + 1] \notin Range(Path[c])

Weighed(M, A) ==
  \A c \in A :
     /\ Height(c) \notin DOMAIN Checkpoints
     /\ \A p \in DOMAIN Checkpoints : p < Height(c) => p < Len(M) /\ M[p + 1] = Path[c][p + 1]
     /\ Outweighed(c, M)

HeaviestInv ==
  /\ CheckInv
  /\ Weighed(main, alt)
  /\ Weighed(batch.main, batch.alt)

\* The i-th block of a path is at height i - 1.
LEMMA HeightAt ==
  ASSUME NEW b \in Block, NEW i \in 1..Len(Path[b])
  PROVE  Height(Path[b][i]) = i - 1
<1>1. Path[b] \in Seq(Block) /\ Len(Path[b]) \in Nat
  BY PathEnds
<1>2. Path[Path[b][i]] = SubSeq(Path[b], 1, i)
  BY PathPrefix
<1>3. i \in 0..Len(Path[b])
  BY <1>1
<1>4. Len(SubSeq(Path[b], 1, i)) = i
  BY <1>1, <1>3, PrefixIs
<1> QED
  BY <1>2, <1>4 DEF Height

\* A path that meets a chain at its n-th block agrees with it up to there.
LEMMA AgreeUpTo ==
  ASSUME NEW c, IsChain(c), NEW b \in Block, NEW n \in 1..Len(Path[b]), n <= Len(c),
         c[n] = Path[b][n]
  PROVE  \A i \in 1..n : c[i] = Path[b][i]
<1>1. c \in Seq(Block) /\ Len(c) \in Nat \ {0} /\ c = Path[c[Len(c)]] /\ c[Len(c)] \in Block
  BY ElementIs DEF IsChain
<1>2. Path[b] \in Seq(Block) /\ Len(Path[b]) \in Nat
  BY PathEnds
<1>3. n \in 1..Len(c) /\ n \in 0..Len(c) /\ n \in 0..Len(Path[b])
  BY <1>1, <1>2
<1>4. Path[c[n]] = SubSeq(c, 1, n)
  BY <1>1, <1>3, PathPrefix
<1>5. Path[Path[b][n]] = SubSeq(Path[b], 1, n)
  BY PathPrefix
<1>6. \A i \in 1..n : SubSeq(c, 1, n)[i] = c[i]
  BY <1>1, <1>3, PrefixIs
<1>7. \A i \in 1..n : SubSeq(Path[b], 1, n)[i] = Path[b][i]
  BY <1>2, <1>3, PrefixIs
<1> QED
  BY <1>4, <1>5, <1>6, <1>7

\* The end of a path holds its block.
LEMMA EndsInBlock ==
  ASSUME NEW b \in Block, b # Genesis, NEW i \in 1..Len(Base(b, Fork(b)))
  PROVE  b \in Range(Base(b, Fork(b) + i - 1))
<1> DEFINE k == Fork(b) + i - 1
           l == Len(Path[b])
           s == SubSeq(Path[b], k + 1, l)
<1>1. /\ l \in Nat /\ Fork(b) \in 1..(l - 1) /\ Len(Base(b, Fork(b))) = l - Fork(b)
      /\ \A j \in 1..l : Path[b][j] \in Block
      /\ Path[b][l] = b
  BY ForkIs, BranchIs, PathEnds
<1>2. k + 1 \in 1..l /\ k + 1 \in Int /\ l \in Int /\ k \in Nat
  BY <1>1
<1> HIDE DEF k, l
<1>3. \A j \in (k + 1)..l : Path[b][j] \in Block
  BY <1>1, <1>2
<1>4. /\ s \in Seq(Block) /\ Len(s) = IF k + 1 <= l THEN l - (k + 1) + 1 ELSE 0
      /\ \A j \in 1..(l - (k + 1) + 1) : s[j] = Path[b][k + 1 + j - 1]
  BY <1>2, <1>3, SubSeqIs
<1>5. Len(s) = l - k /\ l - k \in 1..(l - (k + 1) + 1) /\ k + 1 + (l - k) - 1 = l
  BY <1>1, <1>2, <1>4
<1> HIDE DEF s
<1>6. s[l - k] = b
  BY <1>1, <1>4, <1>5
<1>7. l - k \in DOMAIN s
  BY <1>1, <1>2, <1>4, <1>5
<1>8. b \in Range(s)
  BY <1>6, <1>7 DEF Range
<1> QED
  BY <1>8 DEF Base, s, k, l

\* A main chain that is heavier, and keeps the checkpoints, outweighs what was outweighed.
LEMMA StillWeighed ==
  ASSUME NEW M, NEW A, NEW N, Weighed(M, A), A \subseteq Block,
         M[Len(M)] \in Block, N[Len(N)] \in Block,
         Cumulative[M[Len(M)]] <= Cumulative[N[Len(N)]],
         \A p \in DOMAIN Checkpoints : p < Len(M) => p < Len(N) /\ N[p + 1] = M[p + 1]
  PROVE  Weighed(N, A)
<1>1. SUFFICES ASSUME NEW c \in A
               PROVE  /\ Height(c) \notin DOMAIN Checkpoints
                      /\ \A p \in DOMAIN Checkpoints :
                            p < Height(c) => p < Len(N) /\ N[p + 1] = Path[c][p + 1]
                      /\ Outweighed(c, N)
  BY DEF Weighed
<1>2. /\ Height(c) \notin DOMAIN Checkpoints
      /\ \A p \in DOMAIN Checkpoints : p < Height(c) => p < Len(M) /\ M[p + 1] = Path[c][p + 1]
      /\ Outweighed(c, M)
  BY DEF Weighed
<1>3. Cumulative[c] \in Nat /\ Cumulative[M[Len(M)]] \in Nat /\ Cumulative[N[Len(N)]] \in Nat
  BY BlockAssumption
<1>4. Outweighed(c, N)
  <2>1. CASE Cumulative[c] <= Cumulative[M[Len(M)]]
    BY <1>3, <2>1 DEF Outweighed
  <2>2. CASE \E p \in DOMAIN Checkpoints : p < Len(M) /\ M[p + 1] \notin Range(Path[c])
    BY <2>2 DEF Outweighed
  <2> QED
    BY <1>2, <2>1, <2>2 DEF Outweighed
<1> QED
  BY <1>2, <1>4

\* A block that arrives leaves alternative blocks that are outweighed.
LEMMA AddWeighed ==
  ASSUME Faults = FALSE, Pruned = {}, CheckInv, CheckInv', Weighed(main, alt),
         NEW b \in Block, add_new_block(b)
  PROVE  Weighed(main', alt')
<1>1. /\ ChainInv /\ IsChain(main) /\ points = DOMAIN Checkpoints /\ alt \subseteq Block
      /\ Agrees(main) /\ Agrees(main')
  <2>1. Agrees(main')
    BY DEF CheckInv, Agrees
  <2> QED
    BY <2>1 DEF CheckInv, ChainInv
<1>2. /\ b # Genesis /\ b \notin Range(main) \cup alt \cup invalid
      /\ Added(b) \/ Refused(b) \/ Stored(b) \/ Switched(b) \/ RolledBack(b)
  BY <1>1, AddIs
<1>3. /\ main \in Seq(Block) /\ Len(main) \in Nat \ {0} /\ Tip = main[Len(main)] /\ Tip \in Block
      /\ main = Path[Tip] /\ \A i \in 1..Len(main) : main[i] \in Block
  BY <1>1, ElementIs DEF IsChain, Tip
<1>4. /\ Len(Path[b]) \in Nat \ {0} /\ Path[b][Len(Path[b])] = b /\ Path[b] \in Seq(Block)
      /\ Height(b) = Len(Path[b]) - 1
  BY PathEnds DEF Height
<1>5. Cumulative \in [Block -> Nat] /\ DOMAIN Checkpoints \subseteq Nat \ {0}
  BY BlockAssumption, CheckpointAssumption
<1>6. \A i \in 1..Len(main) : Cumulative[main[i]] <= Cumulative[Tip] /\ Height(main[i]) = i - 1
  <2> SUFFICES ASSUME NEW i \in 1..Len(main)
               PROVE  Cumulative[main[i]] <= Cumulative[Tip] /\ Height(main[i]) = i - 1
    OBVIOUS
  <2>1. Height(main[i]) = i - 1
    BY <1>3, HeightAt
  <2>a. \A x, y \in Nat : x <= x /\ (x < y => x <= y)
    OBVIOUS
  <2>2. CASE i = Len(main)
    <3>1. main[i] = Tip
      BY <1>3, <2>2, ZenonT(60)
    <3>2. Cumulative[Tip] \in Nat
      BY <1>3, <1>5, ZenonT(60)
    <3> QED
      BY <2>1, <2>a, <3>1, <3>2, ZenonT(60)
  <2>3. CASE i # Len(main)
    <3>1. i \in 1..(Len(Path[Tip]) - 1)
      BY <1>3, <2>3
    <3>2. Cumulative[Path[Tip][i]] < Cumulative[Tip]
      BY <1>3, <3>1, BlockAssumption, ZenonT(60)
    <3>3. Cumulative[main[i]] \in Nat /\ Cumulative[Tip] \in Nat
      BY <1>3, <1>5
    <3>4. main[i] = Path[Tip][i]
      BY <1>3, ZenonT(60)
    <3> QED
      BY <2>1, <2>a, <3>2, <3>3, <3>4, ZenonT(60)
  <2> QED
    BY <2>2, <2>3
<1>7. CASE Added(b)
  <2>1. /\ main' = Append(main, b) /\ main' = Path[b] /\ alt' = alt
        /\ Tip = Path[b][Len(Path[b]) - 1]
    BY <1>7 DEF Added, Parent
  <2>2. /\ Len(Append(main, b)) = Len(main) + 1
        /\ \A i \in 1..Len(main) : Append(main, b)[i] = main[i]
    BY <1>3, AppendIs
  <2>3. Cumulative[Tip] < Cumulative[b]
    <3>1. Len(Path[b]) - 1 \in 1..(Len(Path[b]) - 1)
      BY <1>2, PathEnds
    <3> QED
      BY <2>1, <3>1, BlockAssumption
  <2>4. main'[Len(main')] = b
    BY <1>4, <2>1
  <2>5. Cumulative[main[Len(main)]] <= Cumulative[main'[Len(main')]]
    BY <1>3, <1>5, <2>3, <2>4
  <2>6. \A p \in DOMAIN Checkpoints : p < Len(main) => p < Len(main') /\ main'[p + 1] = main[p + 1]
    <3>1. \A p \in DOMAIN Checkpoints : p < Len(main) => p + 1 \in 1..Len(main) /\ p < Len(main) + 1
      BY <1>3, <1>5
    <3> QED
      BY <2>1, <2>2, <3>1
  <2>7. main[Len(main)] \in Block /\ main'[Len(main')] \in Block
    BY <1>3, <2>4
  <2> DEFINE N == main'
  <2> HIDE DEF N
  <2>8. Weighed(N, alt)
    BY <1>1, <2>5, <2>6, <2>7, StillWeighed DEF N
  <2> QED
    BY <2>1, <2>8 DEF N
<1>8. CASE Refused(b)
  BY <1>8 DEF Refused
<1>9. CASE Stored(b)
  <2> DEFINE n == Fork(b)
  <2>1. /\ Height(b) \notin points /\ ~ (Cumulative[Tip] < Cumulative[b])
        /\ n \in 1..Len(main) /\ main[n] = Path[b][n]
        /\ alt' = alt \cup {b} /\ main' = main
    BY <1>9 DEF Stored
  <2>2. /\ n \in 1..(Len(Path[b]) - 1)
        /\ \A i \in (n + 1)..(Len(Path[b]) - 1) : Path[b][i] \in alt
    BY <1>2, ForkIs
  <2> HIDE DEF n
  <2>3. n \in 1..Len(Path[b]) /\ n <= Len(main)
    BY <1>3, <1>4, <2>1, <2>2
  <2>4. \A i \in 1..n : main[i] = Path[b][i]
    BY <1>1, <2>1, <2>3, AgreeUpTo
  <2>5. ASSUME NEW p \in DOMAIN Checkpoints, p < Height(b)
        PROVE  p < Len(main) /\ main[p + 1] = Path[b][p + 1]
    <3>1. p \in Nat /\ p >= 1 /\ p + 1 \in 1..(Len(Path[b]) - 1) /\ p + 1 \in 1..Len(Path[b])
      BY <1>4, <1>5, <2>5
    <3>2. CASE p + 1 <= n
      BY <1>3, <2>3, <2>4, <3>1, <3>2
    <3>3. CASE ~ (p + 1 <= n)
      <4>1. Path[b][p + 1] \in alt
        BY <2>2, <3>1, <3>3
      <4>2. Height(Path[b][p + 1]) = p
        BY <3>1, HeightAt
      <4> QED
        BY <4>1, <4>2 DEF Weighed
    <3> QED
      BY <3>2, <3>3
  <2>6. Outweighed(b, main)
    BY <1>3, <1>5, <2>1 DEF Outweighed
  <2>7. Weighed(main, alt \cup {b})
    BY <1>1, <2>1, <2>5, <2>6 DEF Weighed
  <2> QED
    BY <2>1, <2>7
<1>10. CASE Switched(b)
  <2> DEFINE n == Fork(b)
             N == Path[b]
             chain == Base(b, n)
  <2>1. /\ n \in 1..Len(main) /\ main' = N
        /\ Height(b) \in points => alt' = alt \ Range(chain)
        /\ is_alternative_block_allowed(Len(main), Height(b))
        /\ Height(b) \in points \/ Cumulative[Tip] < Cumulative[b]
    BY <1>10, ZenonT(60) DEF Switched
  <2>2. PICK K \in {{}, Kept(n, Len(Path[b]))} : alt' = (alt \cup K) \ Range(chain)
    BY <1>10, ZenonT(60) DEF Switched
  <2> HIDE DEF chain
  <2>3. ASSUME NEW p \in DOMAIN Checkpoints, p < Len(main)
        PROVE  p < Height(b) /\ p < Len(N) /\ N[p + 1] = main[p + 1]
    <3>1. p < Height(b)
      BY <1>1, <1>3, <1>5, <2>1, <2>3 DEF is_alternative_block_allowed
    <3>2. p < Len(N)
      BY <1>4, <1>5, <3>1
    <3>3. N[p + 1] = Checkpoints[p]
      BY <1>1, <2>1, <3>2 DEF Agrees
    <3>4. main[p + 1] = Checkpoints[p]
      BY <1>1, <2>3 DEF Agrees
    <3> QED
      BY <3>1, <3>2, <3>3, <3>4, ZenonT(60)
  <2>4. CASE Height(b) \in points
    <3> DEFINE q == Height(b)
    <3>1. q \in DOMAIN Checkpoints /\ q < Len(N) /\ N[q + 1] = b /\ q \in Nat /\ q + 1 = Len(N)
      BY <1>1, <1>4, <1>5, <2>4
    <3>2. ASSUME NEW c \in alt
          PROVE  b \notin Range(Path[c])
      <4>1. SUFFICES ASSUME b \in Range(Path[c]) PROVE FALSE
        OBVIOUS
      <4>2. c \in Block /\ Path[c] \in Seq(Block) /\ Len(Path[c]) \in Nat
        BY <1>1, PathEnds
      <4>3. PICK j \in 1..Len(Path[c]) : Path[c][j] = b
        BY <4>1, <4>2, LenIs DEF Range
      <4>4. q = j - 1
        BY <4>2, <4>3, HeightAt
      <4>5. j = q + 1 /\ Height(c) = Len(Path[c]) - 1 /\ q <= Height(c)
        BY <3>1, <4>2, <4>4 DEF Height
      <4> HIDE DEF q
      <4>6. CASE q < Height(c)
        <5>1. q < Len(main) /\ main[q + 1] = b
          BY <3>1, <4>3, <4>5, <4>6 DEF Weighed
        <5>2. main[q + 1] \in Range(main)
          <6>1. q + 1 \in DOMAIN main
            BY <1>3, <3>1, <5>1
          <6> QED
            BY <6>1 DEF Range
        <5> QED
          BY <1>2, <5>1, <5>2
      <4>7. CASE ~ (q < Height(c))
        <5>1. q = Height(c)
          BY <3>1, <4>2, <4>5, <4>7
        <5> QED
          BY <3>1, <5>1 DEF Weighed
      <4> QED
        BY <4>6, <4>7
    <3>3. \A c \in alt : Outweighed(c, N)
      <4> HIDE DEF q, N
      <4> QED
        BY <3>1, <3>2 DEF Outweighed
    <3>4. \A c \in alt : /\ Height(c) \notin DOMAIN Checkpoints
                         /\ \A p \in DOMAIN Checkpoints :
                               p < Height(c) => p < Len(N) /\ N[p + 1] = Path[c][p + 1]
      <4> HIDE DEF N
      <4> QED
        BY <2>3 DEF Weighed
    <3>5. alt' \subseteq alt
      BY <2>1, <2>4
    <3> HIDE DEF N
    <3>6. Weighed(N, alt')
      BY <3>3, <3>4, <3>5, ZenonT(60) DEF Weighed
    <3> QED
      BY <2>1, <3>6
  <2>5. CASE Height(b) \notin points
    <3>1. Cumulative[Tip] < Cumulative[b] /\ N[Len(N)] = b
      BY <1>4, <2>1, <2>5
    <3>2. Weighed(N, alt)
      <4>1. Cumulative[main[Len(main)]] <= Cumulative[N[Len(N)]]
        BY <1>3, <1>5, <3>1
      <4>2. main[Len(main)] \in Block /\ N[Len(N)] \in Block
        BY <1>3, <3>1
      <4> HIDE DEF N
      <4> QED
        BY <1>1, <2>3, <4>1, <4>2, StillWeighed
    <3>3. ASSUME NEW c \in K
          PROVE  /\ Height(c) \notin DOMAIN Checkpoints
                 /\ \A p \in DOMAIN Checkpoints :
                       p < Height(c) => p < Len(N) /\ N[p + 1] = Path[c][p + 1]
                 /\ Outweighed(c, N)
      <4>1. PICK j \in (n + 1)..Len(main) :
              /\ c = main[j]
              /\ \A k \in (n + 1)..j : /\ is_alternative_block_allowed(Len(Path[b]), k - 1)
                                       /\ check_block(k - 1, main[k])
        BY <2>2, <3>3 DEF Kept
      <4>2. is_alternative_block_allowed(Len(Path[b]), j - 1)
        BY <2>1, <4>1
      <4>3. j \in 1..Len(main) /\ Height(c) = j - 1 /\ Cumulative[c] <= Cumulative[Tip] /\ c \in Block
        BY <1>3, <1>6, <2>1, <4>1
      <4>4. j - 1 \notin DOMAIN Checkpoints
        <5>1. SUFFICES ASSUME j - 1 \in DOMAIN Checkpoints PROVE FALSE
          OBVIOUS
        <5>2. j - 1 < Len(main)
          BY <1>3, <4>3
        <5>3. j - 1 < Height(b)
          BY <2>3, <5>1, <5>2
        <5>4. j - 1 <= Len(Path[b])
          BY <1>4, <4>3, <5>3
        <5>5. j - 1 < j - 1
          BY <1>1, <4>2, <5>1, <5>4 DEF is_alternative_block_allowed
        <5> QED
          BY <4>3, <5>5
      <4>5. ASSUME NEW p \in DOMAIN Checkpoints, p < Height(c)
            PROVE  p < Len(N) /\ N[p + 1] = Path[c][p + 1]
        <5>1. p \in Nat /\ p + 1 \in 1..j /\ p < Len(main)
          <6>1. p \in Nat
            BY <1>5, ZenonT(60)
          <6>2. Len(main) \in Nat /\ j \in 1..Len(main) /\ Height(c) = j - 1
            BY <1>3, <4>3, ZenonT(60)
          <6> QED
            BY <4>5, <6>1, <6>2
        <5>2. Path[c] = SubSeq(main, 1, j)
          BY <1>3, <4>1, <4>3, PathPrefix
        <5>3. j \in 0..Len(main)
          BY <4>3
        <5>4. SubSeq(main, 1, j)[p + 1] = main[p + 1]
          BY <1>3, <5>1, <5>3, PrefixIs
        <5> QED
          BY <2>3, <5>1, <5>2, <5>4
      <4>6. Outweighed(c, N)
        <5>1. Cumulative[c] \in Nat /\ Cumulative[Tip] \in Nat /\ Cumulative[b] \in Nat
          BY <1>3, <1>5, <4>3
        <5> QED
          BY <3>1, <4>3, <5>1 DEF Outweighed
      <4> QED
        BY <4>3, <4>4, <4>5, <4>6
    <3> HIDE DEF N
    <3>4. Weighed(N, alt')
      BY <2>2, <3>2, <3>3 DEF Weighed
    <3> QED
      BY <2>1, <3>4
  <2> QED
    BY <2>4, <2>5
<1>11. CASE RolledBack(b)
  <2>1. main' = main
    BY <1>11, RollbackRestores, ZenonT(60)
  <2>2. PICK i \in 1..Len(Base(b, Fork(b))) : alt' = (alt \cup {b}) \ Range(Base(b, Fork(b) + i - 1))
    BY <1>11 DEF RolledBack
  <2>3. alt' \subseteq alt
    BY <1>2, <2>2, EndsInBlock
  <2> QED
    BY <2>1, <2>3 DEF Weighed
<1> QED
  BY <1>2, <1>7, <1>8, <1>9, <1>10, <1>11

\* The other steps restore what the batch holds, or leave the blocks as they are.
LEMMA OthersWeighed ==
  ASSUME MayPop = FALSE, HeaviestInv, Next, ~ (\E b \in Block : add_new_block(b))
  PROVE  Weighed(main', alt') /\ Weighed(batch'.main, batch'.alt)
<1>1. /\ points = DOMAIN Checkpoints /\ Agrees(main) /\ Agrees(batch.main)
      /\ batch.success \in BOOLEAN /\ batch.open \in BOOLEAN
      /\ Weighed(main, alt) /\ Weighed(batch.main, batch.alt)
  BY DEF HeaviestInv, CheckInv, ChainInv, BatchType
<1>2. \A M : Weighed(M, {})
  BY DEF Weighed
<1>3. Weighed(NoBatch.main, NoBatch.alt)
  BY <1>2, NoBatchIs
<1>4. CASE \E h \in DOMAIN Checkpoints : update_checkpoints(h)
  <2>1. PICK h \in DOMAIN Checkpoints : update_checkpoints(h)
    BY <1>4
  <2>2. {p \in DOMAIN Checkpoints : p <= h} = DOMAIN Checkpoints
    BY <1>1, <2>1 DEF update_checkpoints
  <2>3. main' = Enforce(main, DOMAIN Checkpoints).main /\ batch' = batch /\ alt' = alt
    BY <2>1, <2>2 DEF update_checkpoints
  <2>4. main' = main
    BY <1>1, <2>3, NothingToEnforce, ZenonT(60)
  <2> QED
    BY <1>1, <2>3, <2>4
<1>5. CASE BatchStart
  <2>1. /\ main' = main /\ alt' = alt
        /\ batch' = [open |-> TRUE, main |-> main, alt |-> alt, success |-> TRUE, over |-> FALSE]
    BY <1>5 DEF BatchStart
  <2>2. batch'.alt = alt /\ batch'.main = main
    BY <2>1
  <2> QED
    BY <1>1, <2>1, <2>2
<1>6. CASE BatchEnd
  <2>1. /\ main' = IF batch.success THEN main ELSE batch.main
        /\ alt' = IF batch.success THEN alt ELSE batch.alt
        /\ batch' = NoBatch
    BY <1>6 DEF BatchEnd
  <2>2. Weighed(main', alt')
    BY <1>1, <2>1
  <2> QED
    BY <1>3, <2>1, <2>2
<1>7. CASE \E keep_alt_blocks \in BOOLEAN : Restart(keep_alt_blocks)
  <2>1. PICK keep_alt_blocks \in BOOLEAN : Restart(keep_alt_blocks)
    BY <1>7
  <2> DEFINE a == IF batch.open THEN batch.alt ELSE alt
             e == Enforce(saved, DOMAIN Checkpoints)
  <2>2. /\ main' = (IF e.thrown THEN saved ELSE e.main)
        /\ alt' = (IF keep_alt_blocks \/ e.thrown THEN a ELSE {})
        /\ batch' = NoBatch
    BY <1>1, <2>1 DEF Restart, saved
  <2>3. Agrees(saved) /\ Weighed(saved, a)
    BY <1>1 DEF saved
  <2>4. e.main = saved /\ e.thrown = FALSE
    BY <2>3, NothingToEnforce, ZenonT(60)
  <2>5. main' = saved /\ alt' \in {a, {}}
    <3> HIDE DEF a, e
    <3> QED
      BY <2>2, <2>4
  <2>6. Weighed(main', alt')
    BY <1>2, <2>3, <2>5, ZenonT(60)
  <2> QED
    BY <1>3, <2>2, <2>6
<1>8. CASE flush_invalid_blocks \/ \E n \in 1..Len(main) : pop_blocks(n)
  BY <1>8 DEF flush_invalid_blocks, pop_blocks
<1> QED
  BY <1>4, <1>5, <1>6, <1>7, <1>8 DEF Next

\* The invariant says that no branch to switch to is heavier.
LEMMA HeaviestFollows == HeaviestInv => HeaviestKnown
<1> SUFFICES ASSUME HeaviestInv, NEW b \in alt, ~ (Cumulative[b] <= Cumulative[Tip]),
                    Path[b][Fork(b)] \in Range(main)
             PROVE  \E p \in points : p < Len(main) /\ Fork(b) <= p
  BY DEF HeaviestKnown
<1>1. b \in Block /\ IsChain(main) /\ points = DOMAIN Checkpoints /\ Weighed(main, alt)
  BY DEF HeaviestInv, CheckInv, ChainInv
<1>2. PICK p \in DOMAIN Checkpoints : p < Len(main) /\ main[p + 1] \notin Range(Path[b])
  BY <1>1 DEF Weighed, Outweighed, Tip
<1>3. p \in Nat /\ p >= 1 /\ Len(main) \in Nat
  BY <1>1, CheckpointAssumption DEF IsChain
<1>4. CASE b = Genesis
  <2>1. Len(Path[b]) = 1
    BY <1>4, BlockAssumption
  <2>2. {1} \cup {i \in 1..(Len(Path[b]) - 1) : Path[b][i] \notin alt} = {1}
    BY <2>1
  <2>3. Fork(b) = Max({1})
    BY <2>2, ZenonT(60) DEF Fork
  <2>4. Max({1}) = 1
    <3>1. {1} \subseteq 0..1 /\ {1} # {} /\ 1 \in Nat
      OBVIOUS
    <3>2. Max({1}) \in {1}
      BY <3>1, MaxIs, ZenonT(60)
    <3> QED
      BY <3>2, ZenonT(60)
  <2> QED
    BY <1>1, <1>2, <1>3, <2>3, <2>4, ZenonT(60)
<1>5. CASE b # Genesis
  <2> DEFINE n == Fork(b)
  <2>1. n \in 1..(Len(Path[b]) - 1) /\ Path[b] \in Seq(Block) /\ Len(Path[b]) \in Nat
    BY <1>1, <1>5, ForkIs, PathEnds
  <2>2. Path[b][n] \in Range(main)
    OBVIOUS
  <2> HIDE DEF n
  <2>3. n \in 1..Len(Path[b])
    BY <2>1
  <2>4. n \in 1..Len(main) /\ main[n] = Path[b][n]
    BY <1>1, <2>2, <2>3, Splice
  <2>5. \A i \in 1..n : main[i] = Path[b][i]
    BY <1>1, <1>3, <2>3, <2>4, AgreeUpTo
  <2>6. ~ (p + 1 <= n)
    <3>1. SUFFICES ASSUME p + 1 <= n PROVE FALSE
      OBVIOUS
    <3>2. p + 1 \in 1..n /\ p + 1 \in 1..Len(Path[b])
      BY <1>3, <2>1, <3>1
    <3>3. main[p + 1] = Path[b][p + 1]
      BY <2>5, <3>2
    <3>4. Path[b][p + 1] \in Range(Path[b])
      <4>1. p + 1 \in DOMAIN Path[b]
        BY <2>1, <3>2
      <4> QED
        BY <4>1 DEF Range
    <3> QED
      BY <1>2, <3>3, <3>4
  <2>7. n <= p
    BY <1>3, <2>1, <2>6
  <2> QED
    BY <1>1, <1>2, <2>7 DEF n
<1> QED
  BY <1>4, <1>5

\* For every block tree, every verdict of validation and every order in which blocks arrive,
\* switches fail and the daemon restarts: no alternative branch that the node could switch to
\* is heavier than the main chain (handle_alternative_block,
\* switch_to_alternative_blockchain), if nobody pops blocks, the database does not fail, no
\* block spends a key image twice, none is pruned, and the checkpoints are those compiled in.
THEOREM HeaviestIsMain ==
  ASSUME Faults = FALSE, MayPop = FALSE, Pruned = {}, Loaded = DOMAIN Checkpoints
  PROVE  Spec => []HeaviestKnown
<1>1. Init /\ CheckInv => HeaviestInv
  <2>1. SUFFICES ASSUME Init, CheckInv PROVE HeaviestInv
    OBVIOUS
  <2>2. alt = {} /\ batch.alt = {}
    BY <2>1, NoBatchIs, ZenonT(60) DEF Init
  <2> QED
    BY <2>1, <2>2 DEF HeaviestInv, Weighed
<1>2. HeaviestInv /\ CheckInv' /\ [Next]_vars => HeaviestInv'
  <2>1. SUFFICES ASSUME HeaviestInv, CheckInv', [Next]_vars PROVE HeaviestInv'
    OBVIOUS
  <2>2. CheckInv /\ ChainInv /\ Weighed(main, alt) /\ Weighed(batch.main, batch.alt)
    BY <2>1 DEF HeaviestInv, CheckInv
  <2>3. Weighed(main', alt') /\ Weighed(batch'.main, batch'.alt)
    <3>1. CASE UNCHANGED vars
      BY <2>2, <3>1 DEF vars
    <3>2. CASE \E b \in Block : add_new_block(b)
      <4>1. PICK b \in Block : add_new_block(b)
        BY <3>2
      <4>2. Weighed(main', alt')
        BY <2>1, <2>2, <4>1, AddWeighed, ZenonT(60)
      <4>3. batch'.main = batch.main /\ batch'.alt = batch.alt
        BY <2>2, <4>1, AddIs
      <4> QED
        BY <2>2, <4>2, <4>3
    <3>3. CASE Next /\ ~ (\E b \in Block : add_new_block(b))
      BY <2>1, <3>3, OthersWeighed, ZenonT(60)
    <3> QED
      BY <2>1, <3>1, <3>2, <3>3
  <2> QED
    BY <2>1, <2>3 DEF HeaviestInv, Weighed, Outweighed
<1> QED
  BY <1>1, <1>2, HeaviestFollows, CheckInvHolds, PTL DEF Spec
=============================================================================
