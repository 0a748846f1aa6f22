--------------------------- MODULE BlockSyncProofs ---------------------------
(***************************************************************************)
(* Proofs about BlockSync, for any peers, chain, sizes and bounds.  First  *)
(* the indices of the block queue: QueueOK adds to NoPhantoms and          *)
(* HaveIsRequested that the queue and its spans are records; every method  *)
(* of the queue keeps it, so that the order in which the connections call  *)
(* them does not matter.  Then the connections: SyncInv says of each one   *)
(* where its handler is, what is on its way, and whether it has the lock.  *)
(***************************************************************************)
EXTENDS BlockSync, DataLemmas

\* Leaves that name no prover are for the SMT solver first, with time to spare.
USE SMTT(60), ZenonT(60), SMTT(120)

IsSpan(s) ==
  s = [start |-> s.start, nblocks |-> s.nblocks, hashes |-> s.hashes, conn |-> s.conn,
       filled |-> s.filled]

QueueOK(q) ==
  /\ q = [blocks |-> q.blocks, requested |-> q.requested, have |-> q.have]
  /\ \A s \in q.blocks : IsSpan(s)
  /\ q.requested \subseteq Hashes(q.blocks)
  /\ q.have \subseteq Hashes(Filled(q))
  /\ q.have \subseteq q.requested

\* Erasing spans.
LEMMA EraseKeeps ==
  ASSUME NEW q, QueueOK(q), NEW S
  PROVE  QueueOK(erase_block(q, S))
<1> DEFINE e == erase_block(q, S)
<1>1. /\ e.blocks = q.blocks \ S /\ e.requested = q.requested \ Hashes(S)
      /\ e.have = q.have \ Hashes(S)
      /\ e = [blocks |-> e.blocks, requested |-> e.requested, have |-> e.have]
  BY DEF erase_block
<1> HIDE DEF e
<1>2. e.requested \subseteq Hashes(e.blocks)
  BY <1>1 DEF QueueOK, Hashes
<1>3. e.have \subseteq Hashes(Filled(e))
  BY <1>1 DEF QueueOK, Hashes, Filled
<1>4. e.have \subseteq e.requested
  BY <1>1 DEF QueueOK
<1>5. \A s \in e.blocks : IsSpan(s)
  BY <1>1 DEF QueueOK
<1> QED
  BY <1>1, <1>2, <1>3, <1>4, <1>5 DEF QueueOK, e

\* Spans that arrive.
LEMMA AddKeeps ==
  ASSUME NEW q, QueueOK(q), NEW h, NEW n, NEW c
  PROVE  QueueOK(add_blocks(q, h, n, c))
<1> DEFINE e == add_blocks(q, h, n, c)
           hashes == Hashes(At(q, h))
           s == [start |-> h, nblocks |-> n, hashes |-> hashes, conn |-> c, filled |-> TRUE]
<1>1. /\ e.blocks = (q.blocks \ At(q, h)) \cup {s} /\ e.requested = q.requested \cup hashes
      /\ e.have = q.have \cup hashes
      /\ e = [blocks |-> e.blocks, requested |-> e.requested, have |-> e.have]
  BY DEF add_blocks
<1>2. IsSpan(s) /\ s.hashes = hashes /\ s.filled
  BY DEF IsSpan
<1>3. \A t \in At(q, h) : t.hashes \subseteq hashes
  BY DEF Hashes
<1> HIDE DEF e, s, hashes
<1>4. e.requested \subseteq Hashes(e.blocks)
  BY <1>1, <1>2, <1>3 DEF QueueOK, Hashes
<1>5. e.have \subseteq Hashes(Filled(e))
  BY <1>1, <1>2, <1>3 DEF QueueOK, Hashes, Filled
<1>6. e.have \subseteq e.requested
  BY <1>1 DEF QueueOK
<1>7. \A t \in e.blocks : IsSpan(t)
  BY <1>1, <1>2 DEF QueueOK
<1> QED
  BY <1>1, <1>4, <1>5, <1>6, <1>7 DEF QueueOK, e

\* Hashes of spans.
LEMMA SetKeeps ==
  ASSUME NEW q, QueueOK(q), NEW h, NEW c, NEW hashes
  PROVE  QueueOK(set_span_hashes(q, h, c, hashes))
<1> DEFINE S == {s \in At(q, h) : s.conn = c}
           e == erase_block(q, S)
           r == set_span_hashes(q, h, c, hashes)
           N == {[s EXCEPT !.hashes = hashes] : s \in S}
<1>1. CASE S = {}
  BY <1>1 DEF set_span_hashes
<1>2. CASE S # {}
  <2>1. /\ r.blocks = e.blocks \cup N
        /\ r.requested = e.requested \cup hashes /\ r.have = e.have
        /\ r = [blocks |-> r.blocks, requested |-> r.requested, have |-> r.have]
    BY <1>2, ZenonT(60) DEF set_span_hashes
  <2>2. QueueOK(e)
    BY EraseKeeps
  <2>3. \A s \in N : IsSpan(s) /\ s.hashes = hashes
    <3>1. SUFFICES ASSUME NEW s \in S
                   PROVE  LET t == [s EXCEPT !.hashes = hashes] IN IsSpan(t) /\ t.hashes = hashes
      BY ZenonT(60)
    <3>2. s = [start |-> s.start, nblocks |-> s.nblocks, hashes |-> s.hashes, conn |-> s.conn,
               filled |-> s.filled]
      BY DEF QueueOK, IsSpan, At
    <3> QED
      BY <3>2 DEF IsSpan
  <2>4. N # {}
    BY <1>2, ZenonT(60)
  <2> HIDE DEF r, e, S, N
  <2>5. r.requested \subseteq Hashes(r.blocks)
    BY <2>1, <2>2, <2>3, <2>4 DEF QueueOK, Hashes
  <2>6. r.have \subseteq Hashes(Filled(r))
    BY <2>1, <2>2 DEF QueueOK, Hashes, Filled
  <2>7. r.have \subseteq r.requested
    BY <2>1, <2>2 DEF QueueOK
  <2>8. \A s \in r.blocks : IsSpan(s)
    BY <2>1, <2>2, <2>3 DEF QueueOK
  <2> QED
    BY <2>1, <2>5, <2>6, <2>7, <2>8 DEF QueueOK, r
<1> QED
  BY <1>1, <1>2

\* Spans that are reserved.
LEMMA ReserveKeeps ==
  ASSUME NEW q, QueueOK(q), NEW c, NEW r
  PROVE  QueueOK(reserve_span(q, c, r))
<1> DEFINE s == [start |-> r.start, nblocks |-> r.nblocks, hashes |-> {}, conn |-> c,
                 filled |-> FALSE]
           added == [q EXCEPT !.blocks = @ \cup {s}]
<1>1. /\ added.blocks = q.blocks \cup {s} /\ added.requested = q.requested /\ added.have = q.have
      /\ added = [blocks |-> added.blocks, requested |-> added.requested, have |-> added.have]
  <2>1. q = [blocks |-> q.blocks, requested |-> q.requested, have |-> q.have]
    BY DEF QueueOK
  <2> HIDE DEF s
  <2>2. added = [blocks |-> q.blocks \cup {s}, requested |-> q.requested, have |-> q.have]
    BY <2>1
  <2> HIDE DEF added
  <2> QED
    BY <2>2
<1>2. IsSpan(s)
  BY DEF IsSpan
<1>3. QueueOK(added)
  <2> HIDE DEF added, s
  <2>1. added.requested \subseteq Hashes(added.blocks)
    BY <1>1 DEF QueueOK, Hashes
  <2>2. added.have \subseteq Hashes(Filled(added))
    BY <1>1 DEF QueueOK, Hashes, Filled
  <2>3. added.have \subseteq added.requested /\ \A t \in added.blocks : IsSpan(t)
    BY <1>1, <1>2 DEF QueueOK
  <2> QED
    BY <1>1, <2>1, <2>2, <2>3 DEF QueueOK
<1>4. \A e : QueueOK(e) => QueueOK(set_span_hashes(e, r.start, c, r.hashes))
  BY SetKeeps
<1> QED
  BY <1>3, <1>4, ZenonT(60) DEF reserve_span
-----------------------------------------------------------------------------
(***************************************************************************)
(* The steps.                                                              *)
(***************************************************************************)
LEMMA CloseKeeps ==
  ASSUME NEW q, QueueOK(q), NEW p, Close(p, q)
  PROVE  QueueOK(queue')
<1> DEFINE f == flush_spans(q, p, FALSE)
           Rename(s) == IF s.conn = p THEN [s EXCEPT !.conn = Gone(p)] ELSE s
           r == [f EXCEPT !.blocks = {Rename(s) : s \in @}]
<1>1. QueueOK(f)
  BY EraseKeeps DEF flush_spans
<1>2. ASSUME NEW s \in f.blocks
      PROVE  IsSpan(Rename(s)) /\ Rename(s).hashes = s.hashes /\ Rename(s).filled = s.filled
  <2>1. s = [start |-> s.start, nblocks |-> s.nblocks, hashes |-> s.hashes, conn |-> s.conn,
             filled |-> s.filled]
    BY <1>1, ZenonT(60) DEF QueueOK, IsSpan
  <2>2. [s EXCEPT !.conn = Gone(p)] =
          [start |-> s.start, nblocks |-> s.nblocks, hashes |-> s.hashes, conn |-> Gone(p),
           filled |-> s.filled]
    BY <2>1
  <2> QED
    BY <2>1, <2>2 DEF IsSpan
<1>3. f = [blocks |-> f.blocks, requested |-> f.requested, have |-> f.have]
  BY <1>1, ZenonT(60) DEF QueueOK
<1> HIDE DEF f, Rename
<1>4. r = [blocks |-> {Rename(s) : s \in f.blocks}, requested |-> f.requested, have |-> f.have]
  BY <1>3
<1>5. queue' = r
  BY DEF Close, f, Rename
<1> HIDE DEF r
<1>6. /\ r.blocks = {Rename(s) : s \in f.blocks} /\ r.requested = f.requested /\ r.have = f.have
      /\ r = [blocks |-> r.blocks, requested |-> r.requested, have |-> r.have]
  BY <1>4
<1>7. r.requested \subseteq Hashes(r.blocks)
  BY <1>1, <1>2, <1>6 DEF QueueOK, Hashes
<1>8. r.have \subseteq Hashes(Filled(r))
  BY <1>1, <1>2, <1>6 DEF QueueOK, Hashes, Filled
<1>9. r.have \subseteq r.requested /\ \A s \in r.blocks : IsSpan(s)
  BY <1>1, <1>2, <1>6 DEF QueueOK
<1> QED
  BY <1>5, <1>6, <1>7, <1>8, <1>9 DEF QueueOK

\* Every step of a handler keeps the queue in order.
LEMMA StepKeeps ==
  ASSUME QueueOK(queue), NEW p \in Peer,
         \/ Connect(p) \/ TimedSync(p) \/ CheckStandby(p) \/ OnCallback(p) \/ Deliver(p) \/ Run(p)
         \/ KickIdle(p) \/ Disconnect(p)
  PROVE  QueueOK(queue')
<1>1. UNCHANGED queue => QueueOK(queue')
  OBVIOUS
<1>2. Close(p, queue) => QueueOK(queue')
  BY CloseKeeps
<1>3. CASE \/ Connect(p) \/ TimedSync(p) \/ CheckStandby(p) \/ KickIdle(p) \/ TryLock(p)
           \/ AddToChain(p) \/ Pick(p) \/ Reset(p)
  BY <1>1, <1>3 DEF Connect, TimedSync, CheckStandby, KickIdle, TryLock, AddToChain, Pick, Reset
<1>4. CASE Disconnect(p)
  BY <1>2, <1>4 DEF Disconnect
<1>5. CASE OnCallback(p)
  <2>1. Close(p, queue) \/ UNCHANGED queue
    BY <1>5, ZenonT(60) DEF OnCallback
  <2> QED
    BY <1>1, <1>2, <2>1
<1>6. CASE HandleChainEntry(p) \/ ScanChainEntry(p)
  BY <1>1, <1>2, <1>6 DEF HandleChainEntry, ScanChainEntry
<1>7. CASE HandleObjects(p)
  <2>1. Close(p, queue) \/ \E h, n : queue' = add_blocks(queue, h, n, p)
    BY <1>7 DEF HandleObjects
  <2> QED
    BY <1>2, <2>1, AddKeeps
<1>8. CASE NextSpan(p) \/ RemoveAdded(p)
  <2>1. UNCHANGED queue \/ \E c, h : queue' = remove_spans(queue, c, h)
    BY <1>8, ZenonT(60) DEF NextSpan, RemoveAdded
  <2> QED
    BY <1>1, <2>1, EraseKeeps, ZenonT(60) DEF remove_spans
<1>9. CASE RequestStart(p)
  <2> DEFINE q == flush_stale_spans(queue, Live)
  <2>1. QueueOK(q)
    BY EraseKeeps DEF flush_stale_spans
  <2>2. queue' = q \/ Close(p, q)
    <3>1. PICK c : \/ queue' = q
                   \/ NothingToGet(p, c, q)
                   \/ \E small \in BOOLEAN : Decide(p, c, q, small)
      BY <1>9, ZenonT(60) DEF RequestStart
    <3> HIDE DEF q
    <3>2. NothingToGet(p, c, q) => queue' = q \/ Close(p, q)
      BY DEF NothingToGet
    <3>3. ASSUME NEW small \in BOOLEAN, Decide(p, c, q, small) PROVE queue' = q
      BY <3>3, ZenonT(60) DEF Decide
    <3> QED
      BY <3>1, <3>2, <3>3
  <2> QED
    BY <2>1, <2>2, CloseKeeps
<1>10. CASE Reserve(p)
  <2>1. \/ UNCHANGED queue \/ Close(p, queue)
        \/ \E r : queue' = reserve_span(queue, p, r)
    <3>1. \A c : NothingToGet(p, c, queue) => UNCHANGED queue \/ Close(p, queue)
      BY DEF NothingToGet
    <3> QED
      BY <1>10, <3>1, ZenonT(60) DEF Reserve
  <2> QED
    BY <1>1, <1>2, <2>1, ReserveKeeps
<1>11. CASE Skip(p)
  <2>1. UNCHANGED queue \/ Close(p, queue)
    BY <1>11, ZenonT(60) DEF Skip
  <2> QED
    BY <1>1, <1>2, <2>1
<1> QED
  BY <1>3, <1>4, <1>5, <1>6, <1>7, <1>8, <1>9, <1>10, <1>11 DEF Run, Deliver

LEMMA QueueHolds == Spec => []QueueOK(queue)
<1>1. Init => QueueOK(queue)
  <2>1. QueueOK(EmptyQueue)
    BY DEF EmptyQueue, QueueOK, Hashes, Filled
  <2> QED
    BY <2>1 DEF Init
<1>2. QueueOK(queue) /\ [Next]_vars => QueueOK(queue)'
  BY StepKeeps DEF Next, vars
<1> QED
  BY <1>1, <1>2, PTL DEF Spec

\* For any number of peers, whatever they have, and any sizes and thresholds: the indices of
\* the block queue name only hashes of its spans, have_blocks only those of spans that arrived,
\* in every interleaving of the handlers and however many answers are late or connections lost.
THEOREM IndicesMatchSpans == Spec => []NoPhantoms
<1>1. QueueOK(queue) => NoPhantoms
  BY DEF QueueOK, NoPhantoms
<1> QED
  BY <1>1, QueueHolds, PTL

\* A block that arrived stays requested as long as the queue knows of it, so that reserve_span
\* does not start a span with it.
THEOREM ArrivedIsRequested == Spec => []HaveIsRequested
<1>1. QueueOK(queue) => HaveIsRequested
  BY DEF QueueOK, HaveIsRequested
<1> QED
  BY <1>1, QueueHolds, PTL
-----------------------------------------------------------------------------
(***************************************************************************)
(* The types of the download.  Spans are scheduled with hashes, or were    *)
(* delivered and end within what some peer has.                            *)
(***************************************************************************)
Block == 0..(Top - 1)
Picked == [start : Nat, nblocks : Nat, hashes : SUBSET Block]
Spans ==
  [start : Nat, nblocks : Nat, hashes : SUBSET Block, conn : Peer \cup {Gone(p) : p \in Peer},
   filled : BOOLEAN]
Delivered == {s \in Spans : s.filled /\ End(s) <= Top}
Scheduled == {s \in Spans : ~ s.filled /\ s.hashes # {}}
Queues == [blocks : SUBSET (Delivered \cup Scheduled), requested : SUBSET Block, have : SUBSET Block]

LEMMA TopIs ==
  /\ Top \in Nat \ {0}
  /\ \A p \in Peer : Remote[p] \in Nat \ {0} /\ Remote[p] <= Top
<1>1. Remote \in [Peer -> Nat]
  BY SyncAssumption
<1>2. PICK b \in Nat : \A p \in Peer : Remote[p] <= b
  <2>1. PICK f : SumsOf(f, Peer, Remote)
    BY <1>1, SumsExist, SyncAssumption
  <2>2. f[Peer] \in Nat
    BY <2>1 DEF SumsOf
  <2>3. ASSUME NEW p \in Peer PROVE Remote[p] <= f[Peer]
    <3>1. f[Peer] = Remote[p] + f[Peer \ {p}] /\ f[Peer \ {p}] \in Nat
      BY <2>1 DEF SumsOf
    <3> QED
      BY <1>1, <3>1
  <2> QED
    BY <2>2, <2>3
<1> DEFINE R == {Remote[p] : p \in Peer}
<1>3. R \subseteq 0..b /\ R # {}
  BY <1>1, <1>2, SyncAssumption
<1>4. Max(R) \in R /\ \A m \in R : m <= Max(R)
  <2> HIDE DEF R
  <2> QED
    BY <1>3, MaxIs, ZenonT(60)
<1> QED
  BY <1>4, SyncAssumption DEF Top

\* The first span of some.
LEMMA FirstIs ==
  ASSUME NEW S, S \subseteq Delivered \cup Scheduled, S # {}
  PROVE  First(S) \in S
<1> DEFINE H == {s.start : s \in S}
<1>1. H \subseteq Nat /\ H # {}
  BY DEF Delivered, Scheduled, Spans
<1>2. PICK h \in H : \A y \in H : h <= y
  <2> HIDE DEF H
  <2> QED
    BY <1>1, LeastExists, ZenonT(60)
<1>3. \E s \in S : \A t \in S : s.start <= t.start
  BY <1>2, ZenonT(60)
<1> QED
  BY <1>3, ZenonT(60) DEF First

LEMMA HashesAreBlocks ==
  ASSUME NEW S, S \subseteq Delivered \cup Scheduled
  PROVE  Hashes(S) \subseteq Block
  BY DEF Hashes, Delivered, Scheduled, Spans

LEMMA EraseTyped ==
  ASSUME NEW q \in Queues, NEW S
  PROVE  erase_block(q, S) \in Queues
<1> DEFINE D == Delivered \cup Scheduled
<1> HIDE DEF D
<1>1. /\ q.blocks \subseteq D /\ q.requested \subseteq Block /\ q.have \subseteq Block
  BY DEF Queues, D
<1>2. erase_block(q, S) \in [blocks : SUBSET D, requested : SUBSET Block, have : SUBSET Block]
  BY <1>1 DEF erase_block
<1> QED
  BY <1>2 DEF Queues, D

LEMMA AddTyped ==
  ASSUME NEW q \in Queues, NEW h \in Nat, NEW n \in Nat, h + n <= Top, NEW p \in Peer
  PROVE  add_blocks(q, h, n, p) \in Queues
<1> DEFINE D == Delivered \cup Scheduled
           hashes == Hashes(At(q, h))
           s == [start |-> h, nblocks |-> n, hashes |-> hashes, conn |-> p, filled |-> TRUE]
<1>1. q.blocks \subseteq D /\ q.requested \subseteq Block /\ q.have \subseteq Block
  BY DEF Queues
<1>2. hashes \subseteq Block
  BY <1>1, HashesAreBlocks DEF At
<1> HIDE DEF hashes
<1>3. s \in Delivered
  BY <1>2 DEF Delivered, Spans, End
<1>4. s \in D
  BY <1>3
<1> HIDE DEF D, s
<1>5. /\ (q.blocks \ At(q, h)) \cup {s} \subseteq D
      /\ q.requested \cup hashes \subseteq Block /\ q.have \cup hashes \subseteq Block
  BY <1>1, <1>2, <1>4
<1>6. add_blocks(q, h, n, p) =
        [blocks |-> (q.blocks \ At(q, h)) \cup {s}, requested |-> q.requested \cup hashes,
         have |-> q.have \cup hashes]
  BY ZenonT(60) DEF add_blocks, s, hashes
<1>7. add_blocks(q, h, n, p) \in [blocks : SUBSET D, requested : SUBSET Block, have : SUBSET Block]
  BY <1>5, <1>6
<1> QED
  BY <1>7 DEF Queues, D

\* A reserved span has hashes.
LEMMA ReserveTyped ==
  ASSUME NEW q \in Queues, NEW p \in Peer, NEW r \in Picked, r.nblocks > 0 => r.hashes # {}
  PROVE  reserve_span(q, p, r) \in Queues
<1>1. CASE r.nblocks = 0
  BY <1>1 DEF reserve_span
<1>2. CASE r.nblocks # 0
  <2> DEFINE D == Delivered \cup Scheduled
             new == [start |-> r.start, nblocks |-> r.nblocks, hashes |-> {}, conn |-> p,
                     filled |-> FALSE]
             e == IF At(q, r.start) = {} THEN [q EXCEPT !.blocks = @ \cup {new}] ELSE q
             S == {s \in At(e, r.start) : s.conn = p}
             f == erase_block(e, S)
             N == {[s EXCEPT !.hashes = r.hashes] : s \in S}
             g == set_span_hashes(e, r.start, p, r.hashes)
  <2>1. /\ r.hashes # {} /\ r.hashes \subseteq Block /\ r.start \in Nat /\ r.nblocks \in Nat
    BY <1>2 DEF Picked
  <2>2. q.blocks \subseteq D /\ q.requested \subseteq Block /\ q.have \subseteq Block
        /\ q = [blocks |-> q.blocks, requested |-> q.requested, have |-> q.have]
    BY DEF Queues
  <2>3. new \in Spans /\ ~ new.filled /\ new.conn = p /\ new.start = r.start
    BY <2>1 DEF Spans
  <2> HIDE DEF new
  <2>4. /\ e.blocks = q.blocks \/ (e.blocks = q.blocks \cup {new} /\ At(q, r.start) = {})
        /\ e.requested = q.requested /\ e.have = q.have
    <3>1. [q EXCEPT !.blocks = @ \cup {new}] =
             [blocks |-> q.blocks \cup {new}, requested |-> q.requested, have |-> q.have]
      BY <2>2
    <3> QED
      BY <3>1
  <2>5. e.blocks = q.blocks => e = q
    BY <2>2, <2>4 DEF At
  <2> HIDE DEF e
  <2>6. CASE S = {}
    <3>1. e.blocks = q.blocks
      BY <2>3, <2>4, <2>6 DEF At
    <3>2. g = e
      BY <2>6, ZenonT(60) DEF set_span_hashes
    <3> QED
      BY <1>2, <2>5, <3>1, <3>2, ZenonT(60) DEF reserve_span, e, new
  <2>7. CASE S # {}
    <3>1. g = [blocks |-> f.blocks \cup N, requested |-> f.requested \cup r.hashes, have |-> f.have]
      BY <2>7, ZenonT(60) DEF set_span_hashes
    <3>2. /\ f.blocks = e.blocks \ S /\ f.requested \subseteq e.requested /\ f.have \subseteq e.have
      BY DEF erase_block
    <3>3. e.blocks \ S \subseteq D
      BY <2>2, <2>3, <2>4 DEF At
    <3>4. ASSUME NEW s \in S
          PROVE  [s EXCEPT !.hashes = r.hashes] \in D
      <4>1. s \in Spans /\ (s.filled => End(s) <= Top)
        BY <2>2, <2>3, <2>4 DEF At, Delivered, Scheduled
      <4> DEFINE t == [s EXCEPT !.hashes = r.hashes]
      <4>2. /\ t \in Spans /\ t.hashes = r.hashes /\ t.filled = s.filled
            /\ t.start = s.start /\ t.nblocks = s.nblocks
        BY <2>1, <4>1 DEF Spans
      <4> HIDE DEF t
      <4>3. t.filled \in BOOLEAN
        BY <4>2 DEF Spans
      <4>4. t \in D
        BY <2>1, <4>1, <4>2, <4>3 DEF Delivered, Scheduled, End
      <4> QED
        BY <4>4 DEF t
    <3> HIDE DEF D, S, f
    <3>5. N \subseteq D
      BY <3>4
    <3> HIDE DEF N, g
    <3>6. g \in [blocks : SUBSET D, requested : SUBSET Block, have : SUBSET Block]
      BY <2>1, <2>2, <2>4, <3>1, <3>2, <3>3, <3>5
    <3>7. reserve_span(q, p, r) = g
      BY <1>2, ZenonT(60) DEF reserve_span, g, e, new
    <3> QED
      BY <3>6, <3>7 DEF Queues, D
  <2> QED
    BY <2>6, <2>7
<1> QED
  BY <1>1, <1>2
-----------------------------------------------------------------------------
(***************************************************************************)
(* The contexts.  A handler that is about to ask for a span has hashes to  *)
(* ask for, which m_requested_objects names; one that adds blocks to the   *)
(* chain has a span that was delivered; a timed request has an answer on   *)
(* its way; a connection that nothing will wake names blocks it never      *)
(* asked for.                                                              *)
(***************************************************************************)
Context ==
  [pc : Pcs, state : {"before_handshake", "normal", "synchronizing", "standby"},
   needed : Seq(Block), requested : SUBSET Block, last_response : Nat, last_known : Int,
   expect : {"none", "chain", "objects"}, expect_height : Int, asked : BOOLEAN, timed : BOOLEAN, score : Int,
   callbacks : Nat, notified : BOOLEAN, force : BOOLEAN, entry : BOOLEAN, known : Int,
   span : Picked \cup Spans]

Answers ==
  {a \in [kind : {"chain", "objects"}, start : Nat, n : Nat] :
     a.start + a.n <= Top /\ (a.kind = "chain" => a.n >= 1)}

Adding == {"adding", "chaining", "chained"}

\* A connection with context c and answers n on their way.
Served(c, n) ==
  /\ c \in Context /\ n \in Seq(Answers)
  /\ c.timed => n # <<>>
  /\ c.pc = "idle" /\ c.state = "synchronizing" => n # <<>> \/ c.callbacks > 0 \/ c.requested # {}
  /\ c.pc \in {"chaining", "chained"} => c.span \in Delivered
  /\ c.pc = "reset" => c.span \in Picked /\ c.span.hashes # {} /\ c.requested # {}

ConnsOK ==
  /\ conn = [p \in Peer |-> conn[p]] /\ net = [p \in Peer |-> net[p]]
  /\ \A p \in Peer : Served(conn[p], net[p])

TargetOK == target \in Nat /\ target <= Top

SyncInv ==
  /\ queue \in Queues
  /\ height \in Nat \ {0} /\ height <= Top
  /\ TargetOK /\ ConnsOK
  /\ lock \in Peer \cup {Free}
  /\ \A p \in Peer : lock = p <=> conn[p].pc \in Adding

\* What a step leaves of it that neither enters nor leaves the loop of try_add_next_blocks.
Kept ==
  /\ TargetOK' /\ ConnsOK'
  /\ \A p \in Peer : conn'[p].pc \in Adding <=> conn[p].pc \in Adding

LEMMA SubSeqTyped ==
  ASSUME NEW S, NEW s \in Seq(S), NEW m \in Nat, m >= 1
  PROVE  SubSeq(s, m, Len(s)) \in Seq(S)
<1>1. \A i \in m..Len(s) : s[i] \in S
  BY ElementIs
<1> QED
  BY <1>1, SubSeqIs

LEMMA WithoutTyped ==
  ASSUME NEW s \in Seq(Block), NEW H
  PROVE  Without(s, H) \in Seq(Block)
<1> DEFINE V == Seq(Block)
           n == Len(s)
           base == <<>>
           Step(i, v) == IF s[i] \in H THEN v ELSE Append(v, s[i])
           G == [i \in 1..n |-> [v \in V |-> Step(i, v)]]
           Left(f) == [i \in 0..n |-> IF i = 0 THEN base ELSE Step(i, f[i - 1])]
           left == CHOOSE f : f = Left(f)
<1>1. n \in Nat /\ base \in V /\ \A i \in 1..n, v \in V : Step(i, v) \in V
  OBVIOUS
<1>2. Without(s, H) = left[n]
  BY ZenonT(60) DEF Without
<1> HIDE DEF V, n, base, Step
<1>3. G \in Steps(n, V)
  BY <1>1 DEF Steps
<1>4. PICK f : f \in [0..n -> V] /\ f[0] = base /\ \A i \in 1..n : f[i] = G[i][f[i - 1]]
  <2>1. \E f : Computes(f, n, V, base, G)
    <3> HIDE DEF G
    <3> QED
      BY <1>1, <1>3, RecursionExists, ZenonT(60)
  <2> QED
    BY <2>1, ZenonT(60) DEF Computes
<1>5. f = Left(f)
  <2>1. ASSUME NEW i \in 1..n
        PROVE  f[i] = Step(i, f[i - 1])
    <3>1. f[i - 1] \in V
      BY <1>1, <1>4
    <3> QED
      BY <1>4, <3>1, ZenonT(60)
  <2>2. \A i \in 0..n : f[i] = IF i = 0 THEN base ELSE Step(i, f[i - 1])
    BY <1>1, <1>4, <2>1
  <2>3. f = [i \in 0..n |-> f[i]]
    BY <1>4
  <2> QED
    BY <2>2, <2>3, ZenonT(60)
<1>6. left = Left(left)
  BY <1>5, ZenonT(60)
<1> HIDE DEF left
<1> DEFINE U == {k \in Nat : k <= n /\ left[k] \notin V}
<1>7. left[0] = base /\ \A i \in 1..n : left[i] = Step(i, left[i - 1])
  BY <1>1, <1>6
<1>8. U = {}
  <2>1. SUFFICES ASSUME U # {} PROVE FALSE
    OBVIOUS
  <2>2. PICK k \in U : \A y \in U : k <= y
    <3>1. U \subseteq Nat
      OBVIOUS
    <3> HIDE DEF U
    <3> QED
      BY <2>1, <3>1, LeastExists, ZenonT(60)
  <2>3. k # 0
    BY <1>1, <1>7, <2>2
  <2>4. k \in 1..n /\ k - 1 \in Nat /\ k - 1 <= n /\ k - 1 < k
    BY <1>1, <2>2, <2>3
  <2>5. left[k - 1] \in V
    BY <2>2, <2>4
  <2>6. left[k] \in V
    BY <1>1, <1>7, <2>4, <2>5
  <2> QED
    BY <2>2, <2>6
<1>9. left[n] \in V
  BY <1>1, <1>8
<1> QED
  BY <1>2, <1>9 DEF V

\* The front that reserve_span, or skip_unneeded_hashes, goes over.
LEMMA PrefixIs ==
  ASSUME NEW s \in Seq(Block), NEW K, K \subseteq 0..Len(s), 0 \in K
  PROVE  Max(K) \in 0..Len(s)
<1>1. Len(s) \in Nat /\ K # {}
  OBVIOUS
<1>2. Max(K) \in K
  BY <1>1, MaxIs, ZenonT(60)
<1> QED
  BY <1>2, ZenonT(60)

LEMMA ReservedIs ==
  ASSUME NEW q, NEW last \in Nat, NEW s \in Seq(Block)
  PROVE  LET r == Reserved(q, last, SpanSize, s)
         IN  /\ r \in Picked
             /\ r.nblocks > 0 => r.hashes # {} /\ r.start - (last - Len(s) + 1) \in Nat
<1> DEFINE r == Reserved(q, last, SpanSize, s)
           K == {k \in 0..Len(s) : \A i \in 1..k : s[i] \in q.requested}
           k == Max(K)
           n == Min({SpanSize, Len(s) - k})
<1>1. Len(s) \in Nat /\ SpanSize \in Nat \ {0} /\ \A i \in 1..Len(s) : s[i] \in Block
  BY SyncAssumption
<1>2. k \in 0..Len(s)
  <2>1. K \subseteq 0..Len(s) /\ 0 \in K
    BY <1>1
  <2> HIDE DEF K
  <2> QED
    BY <2>1, PrefixIs, ZenonT(60)
<1> HIDE DEF k, K
<1>3. n \in 0..(Len(s) - k)
  BY <1>1, <1>2, MinOfTwo
<1> HIDE DEF n
<1>4. CASE s = <<>> \/ Len(s) > last
  <2>1. r = [start |-> 0, nblocks |-> 0, hashes |-> {}]
    BY <1>4, ZenonT(60) DEF Reserved
  <2> HIDE DEF r
  <2>2. r \in Picked /\ ~ r.nblocks > 0
    BY <2>1 DEF Picked
  <2> QED
    BY <2>2 DEF r
<1>5. CASE ~ (s = <<>> \/ Len(s) > last)
  <2> DEFINE H == {s[i] : i \in (k + 1)..(k + n)}
  <2>1. r = [start |-> last - Len(s) + 1 + k, nblocks |-> n, hashes |-> H]
    BY <1>5, ZenonT(60) DEF Reserved, Skipped, k, K, n
  <2>2. H \subseteq Block /\ (n > 0 => H # {})
    BY <1>1, <1>2, <1>3
  <2> HIDE DEF H, r
  <2>3. last - Len(s) + 1 + k \in Nat /\ last - Len(s) + 1 + k - (last - Len(s) + 1) \in Nat
    BY <1>1, <1>2, <1>5
  <2>4. r.start = last - Len(s) + 1 + k /\ r.nblocks = n /\ r.hashes = H
    BY <2>1
  <2>5. r \in Picked
    <3>1. n \in Nat
      BY <1>1, <1>2, <1>3
    <3> QED
      BY <2>1, <2>2, <2>3, <3>1 DEF Picked
  <2>6. r \in Picked /\ (r.nblocks > 0 => r.hashes # {} /\ r.start - (last - Len(s) + 1) \in Nat)
    <3>1. r.start - (last - Len(s) + 1) \in Nat
      BY <1>1, <1>2, <2>3, <2>4
    <3>2. r.nblocks > 0 => r.hashes # {}
      BY <2>2, <2>4
    <3> QED
      BY <2>5, <3>1, <3>2
  <2> QED
    BY <2>6 DEF r
<1> QED
  BY <1>4, <1>5

LEMMA ScheduledIs ==
  ASSUME NEW q \in Queues
  PROVE  LET s == get_next_span_if_scheduled(q)
         IN  s \in Picked /\ (s.nblocks > 0 => s.hashes # {})
<1> DEFINE s == get_next_span_if_scheduled(q)
           f == First(q.blocks)
<1>1. CASE q.blocks = {} \/ f.filled
  <2>1. s = NoSpan
    BY <1>1, ZenonT(60) DEF get_next_span_if_scheduled
  <2> QED
    BY <2>1 DEF NoSpan, Picked
<1>2. CASE ~ (q.blocks = {} \/ f.filled)
  <2>1. s = [start |-> f.start, nblocks |-> f.nblocks, hashes |-> f.hashes]
    BY <1>2, ZenonT(60) DEF get_next_span_if_scheduled
  <2>2. f \in q.blocks /\ q.blocks \subseteq Delivered \cup Scheduled
    BY <1>2, FirstIs DEF Queues
  <2> HIDE DEF f, s
  <2>3. f \in Spans /\ f.hashes # {}
    BY <1>2, <2>2 DEF Delivered, Scheduled
  <2>4. s \in Picked /\ s.hashes # {}
    BY <2>1, <2>3 DEF Spans, Picked
  <2> QED
    BY <2>4 DEF s
<1> QED
  BY <1>1, <1>2

LEMMA SkipTyped ==
  ASSUME NEW c \in Context, NEW queued
  PROVE  LET d == skip_unneeded_hashes(c, queued)
         IN  /\ d \in Context
             /\ d.pc = c.pc /\ d.state = c.state /\ d.timed = c.timed /\ d.callbacks = c.callbacks
<1> DEFINE K == {n \in 0..Len(c.needed) :
                   \A i \in 1..n : c.needed[i] < height \/ (queued /\ c.needed[i] \in queue.have)}
           k == Max(K)
           rest == SubSeq(c.needed, k + 1, Len(c.needed))
           last == IF k > 0 /\ k = Len(c.needed) THEN c.needed[k] ELSE c.last_known
           d == [c EXCEPT !.needed = rest, !.last_known = last]
<1>1. c.needed \in Seq(Block) /\ c.last_known \in Int
  BY DEF Context
<1>2. k \in 0..Len(c.needed)
  <2>1. K \subseteq 0..Len(c.needed) /\ 0 \in K
    BY <1>1
  <2> HIDE DEF K
  <2> QED
    BY <1>1, <2>1, PrefixIs, ZenonT(60)
<1>3. skip_unneeded_hashes(c, queued) = d
  <2> HIDE DEF K
  <2>1. skip_unneeded_hashes(c, queued) = [c EXCEPT !.needed = SubSeq(@, k + 1, Len(@)),
                !.last_known = IF k > 0 /\ k = Len(c.needed) THEN c.needed[k] ELSE @]
    BY ZenonT(60) DEF skip_unneeded_hashes, K
  <2> HIDE DEF k
  <2> QED
    BY <2>1 DEF Context
<1> HIDE DEF k, K
<1>4. rest \in Seq(Block)
  BY <1>1, <1>2, SubSeqTyped
<1>5. last \in Int
  <2>1. k > 0 /\ k = Len(c.needed) => c.needed[k] \in Block
    BY <1>1, <1>2
  <2>2. Block \subseteq Int
    BY DEF Block
  <2> QED
    BY <1>1, <2>1, <2>2, ZenonT(60)
<1> HIDE DEF rest, last
<1>6. /\ d \in Context
      /\ d.pc = c.pc /\ d.state = c.state /\ d.timed = c.timed /\ d.callbacks = c.callbacks
  BY <1>4, <1>5, ZenonT(60) DEF Context
<1> QED
  BY <1>3, <1>6

\* A step of one connection.
LEMMA OneConn ==
  ASSUME ConnsOK, NEW p \in Peer, NEW d, NEW n, Served(d, n),
         conn' = [conn EXCEPT ![p] = d], net' = [net EXCEPT ![p] = n]
  PROVE  /\ ConnsOK' /\ conn'[p] = d
         /\ \A o \in Peer \ {p} : conn'[o] = conn[o]
<1>1. /\ conn = [o \in Peer |-> conn[o]] /\ net = [o \in Peer |-> net[o]]
      /\ \A o \in Peer : Served(conn[o], net[o])
  BY DEF ConnsOK
<1>2. /\ conn' = [o \in Peer |-> IF o = p THEN d ELSE conn[o]]
      /\ net' = [o \in Peer |-> IF o = p THEN n ELSE net[o]]
  BY <1>1, ZenonT(60)
<1>3. /\ conn' = [o \in Peer |-> conn'[o]] /\ net' = [o \in Peer |-> net'[o]]
      /\ conn'[p] = d /\ \A o \in Peer \ {p} : conn'[o] = conn[o]
  BY <1>2, ZenonT(60)
<1>4. \A o \in Peer : Served(conn'[o], net'[o])
  BY <1>1, <1>2, ZenonT(60)
<1>5. ConnsOK'
  BY <1>3, <1>4, ZenonT(60) DEF ConnsOK, Served, Context, Answers
<1> QED
  BY <1>3, <1>5

\* The same if the answers on their way stay.
LEMMA OneContext ==
  ASSUME ConnsOK, NEW p \in Peer, NEW d, Served(d, net[p]), Goto(p, d), UNCHANGED net
  PROVE  /\ ConnsOK' /\ conn'[p] = d
         /\ \A o \in Peer \ {p} : conn'[o] = conn[o]
<1>1. net' = [net EXCEPT ![p] = net[p]]
  BY DEF ConnsOK
<1>2. conn' = [conn EXCEPT ![p] = d]
  BY DEF Goto
<1> QED
  BY <1>1, <1>2, OneConn, ZenonT(60)

\* request_missing_objects returns: the connection is done, on standby, or has something to
\* wait for.
LEMMA ReturnKeeps ==
  ASSUME ConnsOK, TargetOK, NEW p \in Peer, conn[p].pc \notin Adding,
         NEW c \in Context, NEW n \in Seq(Answers), Return(p, c), net' = [net EXCEPT ![p] = n],
         c.timed => n # <<>>, c.state = "synchronizing" => n # <<>> \/ c.callbacks > 0
  PROVE  Kept
<1> DEFINE d == [c EXCEPT !.pc = "idle", !.force = FALSE, !.entry = FALSE, !.span = NoSpan,
                          !.asked = @ /\ ~ c.entry]
<1>1. /\ d \in Context /\ d.pc = "idle" /\ d.timed = c.timed /\ d.state = c.state
      /\ d.callbacks = c.callbacks
  <2>1. NoSpan \in Picked
    BY DEF NoSpan, Picked
  <2> QED
    BY <2>1, ZenonT(60) DEF Context, Pcs
<1>2. conn' = [conn EXCEPT ![p] = d]
  BY ZenonT(60) DEF Return, Goto
<1> HIDE DEF d
<1>3. Served(d, n)
  BY <1>1 DEF Served
<1>4. ConnsOK' /\ conn'[p] = d /\ \A o \in Peer \ {p} : conn'[o] = conn[o]
  BY <1>2, <1>3, OneConn, ZenonT(60)
<1>5. TargetOK'
  <2>1. Remote[p] \in Nat /\ Remote[p] <= Top /\ Top \in Nat
    BY TopIs
  <2>2. target' = IF c.entry THEN Max({target, Remote[p]}) ELSE target
    BY DEF Return
  <2>3. Max({target, Remote[p]}) \in Nat /\ Max({target, Remote[p]}) <= Top
    BY <2>1, MaxOfTwo DEF TargetOK
  <2> QED
    BY <2>2, <2>3 DEF TargetOK
<1>6. \A o \in Peer : conn'[o].pc \in Adding <=> conn[o].pc \in Adding
  BY <1>1, <1>4 DEF Adding
<1> QED
  BY <1>4, <1>5, <1>6 DEF Kept

\* The same if nothing is asked for.
LEMMA ReturnQuietly ==
  ASSUME ConnsOK, TargetOK, NEW p \in Peer, conn[p].pc \notin Adding,
         NEW c \in Context, Return(p, c), UNCHANGED net,
         c.timed => conn[p].timed, c.state # "synchronizing"
  PROVE  Kept
<1>1. net' = [net EXCEPT ![p] = net[p]]
  BY DEF ConnsOK
<1>2. net[p] \in Seq(Answers) /\ (c.timed => net[p] # <<>>)
  BY DEF ConnsOK, Served
<1> QED
  BY <1>1, <1>2, ReturnKeeps, ZenonT(60)

LEMMA AskChainKeeps ==
  ASSUME SyncInv, NEW p \in Peer, conn[p].pc \notin Adding, NEW c \in Context, NEW front \in Int,
         AskChain(p, c, front)
  PROVE  Kept
<1> DEFINE start == IF front >= 0 /\ front < Remote[p] THEN front ELSE Min({height, Remote[p]}) - 1
           a == [kind |-> "chain", start |-> start, n |-> Min({IdCount, Remote[p] - start})]
           n == Append(net[p], a)
           d == [c EXCEPT !.expect = "chain", !.timed = TRUE,
                          !.expect_height = IF front >= 0 THEN Infinity ELSE height]
<1>1. /\ Remote[p] \in Nat \ {0} /\ Remote[p] <= Top /\ Top \in Nat /\ height \in Nat \ {0}
      /\ IdCount \in Nat \ {0}
  BY TopIs, SyncAssumption DEF SyncInv
<1>2. start \in Nat /\ start < Remote[p]
  BY <1>1, MinOfTwo
<1> HIDE DEF start
<1>3. Min({IdCount, Remote[p] - start}) \in 1..(Remote[p] - start)
  BY <1>1, <1>2, MinOfTwo
<1>4. a \in Answers
  BY <1>1, <1>2, <1>3 DEF Answers
<1>5. net[p] \in Seq(Answers) /\ ConnsOK /\ TargetOK
  BY DEF SyncInv, ConnsOK, Served
<1>6. n \in Seq(Answers) /\ n # <<>>
  <2> HIDE DEF a
  <2> QED
    BY <1>4, <1>5
<1>7. d \in Context
  <2> DEFINE e == IF front >= 0 THEN Infinity ELSE height
  <2>1. e \in Int
    BY <1>1 DEF Infinity, Top
  <2> HIDE DEF e
  <2>2. [c EXCEPT !.expect = "chain", !.timed = TRUE, !.expect_height = e] \in Context
    BY <2>1, ZenonT(60) DEF Context
  <2> QED
    BY <2>2 DEF e
<1>8. net' = [net EXCEPT ![p] = n] /\ Return(p, d)
  <2>1. net' = [net EXCEPT ![p] = Append(@, a)] /\ Return(p, d)
    BY ZenonT(60) DEF AskChain, start
  <2> HIDE DEF a, d
  <2> QED
    BY <1>5, <2>1 DEF ConnsOK
<1> HIDE DEF n, d
<1> QED
  BY <1>5, <1>6, <1>7, <1>8, ReturnKeeps, ZenonT(60)

LEMMA AskObjectsKeeps ==
  ASSUME SyncInv, NEW p \in Peer, conn[p].pc \notin Adding, NEW c \in Context, NEW s \in Picked,
         s.hashes # {}, AskObjects(p, c, s)
  PROVE  Kept
<1> DEFINE start == Min(s.hashes)
           H == {h \in s.hashes : h < Remote[p]}
           a == [kind |-> "objects", start |-> start, n |-> Cardinality(H)]
           n == Append(net[p], a)
           d == [c EXCEPT !.expect = "objects", !.timed = TRUE, !.expect_height = s.start,
                          !.requested = c.requested \cup s.hashes, !.asked = TRUE]
<1>1. Top \in Nat \ {0} /\ s.hashes \subseteq Block /\ s.start \in Nat
  BY TopIs DEF Picked
<1>2. start \in Nat /\ start <= Top - 1 /\ s.hashes \subseteq start..(Top - 1)
  <2>1. s.hashes \subseteq Nat
    BY <1>1 DEF Block
  <2>2. start \in s.hashes /\ \A m \in s.hashes : start <= m
    BY <2>1, MinIs
  <2> QED
    BY <1>1, <2>2 DEF Block
<1> HIDE DEF start
<1>3. Cardinality(H) \in Nat /\ start + Cardinality(H) <= Top
  <2>1. IsFiniteSet(start..(Top - 1)) /\ Cardinality(start..(Top - 1)) = Top - start
    BY <1>1, <1>2, IntervalCount
  <2>2. H \in SUBSET (start..(Top - 1))
    BY <1>2
  <2> HIDE DEF H
  <2>3. IsFiniteSet(H) /\ Cardinality(H) <= Top - start
    BY <2>1, <2>2, FiniteSubset, CardinalityIs, ZenonT(60)
  <2> QED
    BY <1>1, <1>2, <2>3, CardinalityIs
<1> HIDE DEF H
<1>4. a \in Answers
  BY <1>2, <1>3 DEF Answers
<1>5. net[p] \in Seq(Answers) /\ ConnsOK /\ TargetOK
  BY ZenonT(60) DEF SyncInv, ConnsOK, Served
<1>6. n \in Seq(Answers) /\ n # <<>>
  <2> HIDE DEF a
  <2> QED
    BY <1>4, <1>5
<1>7. d \in Context
  <2> DEFINE req == c.requested \cup s.hashes
             at == s.start
  <2>1. req \in SUBSET Block /\ at \in Int
    BY <1>1 DEF Context
  <2> HIDE DEF req, at
  <2>2. [c EXCEPT !.expect = "objects", !.timed = TRUE, !.expect_height = at,
                  !.requested = req, !.asked = TRUE] \in Context
    BY <2>1, ZenonT(60) DEF Context
  <2> QED
    BY <2>2 DEF req, at
<1>8. net' = [net EXCEPT ![p] = n] /\ Return(p, d)
  <2>1. net' = [net EXCEPT ![p] = Append(@, a)] /\ Return(p, d)
    BY ZenonT(60) DEF AskObjects, start, H
  <2> HIDE DEF a, d
  <2> QED
    BY <1>5, <2>1 DEF ConnsOK
<1> HIDE DEF n, d
<1> QED
  BY <1>5, <1>6, <1>7, <1>8, ReturnKeeps, ZenonT(60)

\* The context of a connection that is closed.
LEMMA ClosedIs == Closed \in Context /\ Closed.pc = "closed" /\ ~ Closed.timed
<1>1. NoSpan \in Picked
  BY DEF NoSpan, Picked
<1> QED
  BY <1>1 DEF Closed, Context, Pcs

\* drop_connection: the spans of the connection that wait for blocks go, also the one that
\* another connection is adding gets its new name.
LEMMA CloseTyped ==
  ASSUME SyncInv, NEW q \in Queues, NEW p \in Peer, conn[p].pc \notin Adding, Close(p, q)
  PROVE  queue' \in Queues /\ Kept
<1> DEFINE f == flush_spans(q, p, FALSE)
           Rename(s) == IF s.conn = p THEN [s EXCEPT !.conn = Gone(p)] ELSE s
           r == [f EXCEPT !.blocks = {Rename(s) : s \in @}]
           d(o) == IF o = p THEN Closed
                   ELSE IF conn[o].pc \in {"chaining", "chained"}
                        THEN [conn[o] EXCEPT !.span = Rename(@)] ELSE conn[o]
           left == Max({0} \cup {Remote[o] : o \in Live \ {p}})
<1>1. /\ queue' = r /\ conn' = [o \in Peer |-> d(o)] /\ net' = [net EXCEPT ![p] = <<>>]
      /\ target' = Min({target, left})
  BY ZenonT(60) DEF Close
<1>2. f \in Queues
  BY EraseTyped DEF flush_spans
<1>3. ASSUME NEW s \in Delivered \cup Scheduled
      PROVE  /\ Rename(s) \in Delivered \cup Scheduled
             /\ s \in Delivered => Rename(s) \in Delivered
  <2> DEFINE t == [s EXCEPT !.conn = Gone(p)]
  <2>1. s \in Spans
    BY DEF Delivered, Scheduled
  <2>2. /\ t \in Spans /\ t.start = s.start /\ t.nblocks = s.nblocks /\ t.hashes = s.hashes
        /\ t.filled = s.filled
    BY <2>1 DEF Spans
  <2> HIDE DEF t
  <2>3. /\ t \in Delivered \cup Scheduled
        /\ s \in Delivered => t \in Delivered
    BY <2>2 DEF Delivered, Scheduled, End
  <2> QED
    BY <2>3 DEF t
<1> HIDE DEF Rename
<1>4. queue' \in Queues
  <2>1. f.blocks \subseteq Delivered \cup Scheduled
    BY <1>2, ZenonT(60) DEF Queues
  <2>2. {Rename(s) : s \in f.blocks} \subseteq Delivered \cup Scheduled
    BY <1>3, <2>1, ZenonT(60)
  <2> HIDE DEF f
  <2> QED
    BY <1>1, <1>2, <2>2 DEF Queues
<1>5. ConnsOK
  BY DEF SyncInv
<1>6. /\ net' = [o \in Peer |-> IF o = p THEN <<>> ELSE net[o]]
      /\ net' = [o \in Peer |-> net'[o]]
      /\ conn' = [o \in Peer |-> conn'[o]]
      /\ \A o \in Peer : conn'[o] = d(o)
  <2> HIDE DEF d
  <2> QED
    BY <1>1, <1>5 DEF ConnsOK
<1>7. ASSUME NEW o \in Peer
      PROVE  /\ Served(conn'[o], net'[o])
             /\ conn'[o].pc \in Adding <=> conn[o].pc \in Adding
  <2>1. Served(conn[o], net[o])
    BY <1>5 DEF ConnsOK
  <2>2. CASE o = p
    <3>1. conn'[o] = Closed /\ net'[o] = <<>>
      BY <1>6, <2>2
    <3>3. Closed \in Context /\ Closed.pc = "closed" /\ ~ Closed.timed
      BY ClosedIs
    <3>4. Served(Closed, <<>>)
      BY <3>3 DEF Served
    <3> QED
      BY <2>2, <3>1, <3>3, <3>4 DEF Adding
  <2>3. CASE o # p /\ conn[o].pc \in {"chaining", "chained"}
    <3>1. conn'[o] = [conn[o] EXCEPT !.span = Rename(@)] /\ net'[o] = net[o]
      BY <1>6, <2>3
    <3>2. conn[o] \in Context /\ conn[o].span \in Delivered
      BY <2>1, <2>3 DEF Served
    <3>3. Rename(conn[o].span) \in Delivered /\ Rename(conn[o].span) \in Spans
      BY <1>3, <3>2 DEF Delivered
    <3>4. /\ conn'[o] \in Context /\ conn'[o].span = Rename(conn[o].span)
          /\ conn'[o].pc = conn[o].pc /\ conn'[o].timed = conn[o].timed
      BY <3>1, <3>2, <3>3, ZenonT(60) DEF Context
    <3>5. Served(conn'[o], net'[o])
      BY <2>1, <2>3, <3>1, <3>3, <3>4 DEF Served
    <3> QED
      BY <3>4, <3>5
  <2>4. CASE o # p /\ conn[o].pc \notin {"chaining", "chained"}
    BY <1>6, <2>1, <2>4
  <2> QED
    BY <2>2, <2>3, <2>4
<1>8. TargetOK'
  <2> DEFINE R == {0} \cup {Remote[o] : o \in Live \ {p}}
  <2>1. Top \in Nat /\ \A o \in Peer : Remote[o] \in Nat /\ Remote[o] <= Top
    BY TopIs
  <2>2. R \subseteq 0..Top /\ R # {}
    BY <2>1 DEF Live
  <2>3. left \in Nat
    <3>1. Max(R) \in R
      <4> HIDE DEF R
      <4> QED
        BY <2>1, <2>2, MaxIs, ZenonT(60)
    <3> QED
      BY <2>2, <3>1
  <2>4. target \in Nat /\ target <= Top
    BY DEF SyncInv, TargetOK
  <2>5. target' = Min({target, left})
    BY <1>1
  <2> HIDE DEF left
  <2>6. target' \in Nat /\ target' <= Top
    BY <2>1, <2>3, <2>4, <2>5, MinOfTwo
  <2> QED
    BY <2>6 DEF TargetOK
<1>9. ConnsOK'
  BY <1>6, <1>7, ZenonT(60) DEF ConnsOK, Served, Context, Answers
<1> QED
  BY <1>4, <1>7, <1>8, <1>9 DEF Kept

\* A handler goes on, outside the loop, with a context that serves as the last one did.
LEMMA GotoKeeps ==
  ASSUME ConnsOK, TargetOK, NEW p \in Peer, conn[p].pc \notin Adding, NEW d, Goto(p, d),
         d.pc \notin Adding, Served(d, net[p]), UNCHANGED <<target, net>>
  PROVE  Kept
<1>1. ConnsOK' /\ conn'[p] = d /\ \A o \in Peer \ {p} : conn'[o] = conn[o]
  BY OneContext
<1>2. TargetOK'
  BY DEF TargetOK
<1> QED
  BY <1>1, <1>2 DEF Kept

LEMMA SyncDataKeeps ==
  ASSUME SyncInv, NEW p \in Peer, conn[p].pc \notin Adding, SyncData(p, conn[p]), UNCHANGED net
  PROVE  Kept
<1> DEFINE c == conn[p]
           d == [c EXCEPT !.pc = "idle", !.state = "normal"]
           k == Min({MaxCallbacks, c.callbacks + 1})
           e == [c EXCEPT !.pc = "idle", !.state = "synchronizing", !.asked = FALSE,
                          !.callbacks = k]
<1>1. c \in Context /\ net[p] \in Seq(Answers) /\ (c.timed => net[p] # <<>>) /\ ConnsOK /\ TargetOK
  BY DEF SyncInv, ConnsOK, Served
<1> HIDE DEF c
<1>2. k \in Nat /\ k > 0
  <2>1. c.callbacks \in Nat /\ MaxCallbacks \in Nat \ {0}
    BY <1>1, SyncAssumption DEF Context
  <2> QED
    BY <2>1, MinOfTwo
<1>3. \/ Goto(p, d) /\ UNCHANGED target
      \/ /\ Goto(p, e)
         /\ target' = IF Remote[p] > (IF target = 0 THEN height ELSE target)
                      THEN Remote[p] ELSE target
  <2>1. CASE Remote[p] <= height
    BY <2>1, ZenonT(60) DEF SyncData, c
  <2>2. CASE ~ (Remote[p] <= height)
    <3>1. /\ Goto(p, [c EXCEPT !.pc = "idle", !.state = "synchronizing", !.asked = FALSE,
                                !.callbacks = Min({MaxCallbacks, @ + 1})])
          /\ target' = IF Remote[p] > (IF target = 0 THEN height ELSE target)
                       THEN Remote[p] ELSE target
      BY <2>2, ZenonT(60) DEF SyncData, c
    <3>2. [c EXCEPT !.pc = "idle", !.state = "synchronizing", !.asked = FALSE,
                    !.callbacks = Min({MaxCallbacks, @ + 1})] = e
      BY <1>1 DEF Context
    <3> QED
      BY <3>1, <3>2
  <2> QED
    BY <2>1, <2>2
<1> HIDE DEF k
<1>4. d \in Context /\ d.pc = "idle" /\ d.timed = c.timed /\ d.state = "normal"
  BY <1>1, ZenonT(60) DEF Context, Pcs
<1>5. e \in Context /\ e.pc = "idle" /\ e.timed = c.timed /\ e.callbacks = k
  BY <1>1, <1>2, ZenonT(60) DEF Context, Pcs
<1> HIDE DEF d, e
<1>6. Served(d, net[p]) /\ Served(e, net[p])
  BY <1>1, <1>2, <1>4, <1>5 DEF Served
<1>7. TargetOK'
  BY <1>1, <1>3, TopIs DEF TargetOK
<1>8. ASSUME NEW b, Goto(p, b), Served(b, net[p]), b.pc = "idle"
      PROVE  ConnsOK' /\ \A o \in Peer : conn'[o].pc \in Adding <=> conn[o].pc \in Adding
  <2>1. ConnsOK' /\ conn'[p] = b /\ \A o \in Peer \ {p} : conn'[o] = conn[o]
    BY <1>1, <1>8, OneContext
  <2> QED
    BY <1>8, <2>1 DEF Adding
<1> QED
  BY <1>3, <1>4, <1>5, <1>6, <1>7, <1>8 DEF Kept

\* The callbacks that check_standby_peers and kick_idle_peers ask for.
LEMMA CallbackKeeps ==
  ASSUME SyncInv, NEW p \in Peer, NEW k \in Nat, k > 0, NEW b \in BOOLEAN,
         Goto(p, [conn[p] EXCEPT !.callbacks = k, !.notified = b]), UNCHANGED <<target, net>>
  PROVE  Kept
<1> DEFINE c == conn[p]
           d == [c EXCEPT !.callbacks = k, !.notified = b]
<1>1. c \in Context /\ Served(c, net[p]) /\ ConnsOK /\ TargetOK /\ Goto(p, d)
  BY ZenonT(60) DEF SyncInv, ConnsOK, Served
<1> HIDE DEF c
<1>2. /\ d \in Context /\ d.pc = c.pc /\ d.timed = c.timed /\ d.state = c.state
      /\ d.callbacks = k /\ d.span = c.span /\ d.requested = c.requested
  BY <1>1, ZenonT(60) DEF Context
<1> HIDE DEF d
<1>3. Served(d, net[p])
  BY <1>1, <1>2 DEF Served
<1>4. ConnsOK' /\ conn'[p] = d /\ \A o \in Peer \ {p} : conn'[o] = conn[o]
  BY <1>1, <1>3, OneContext
<1>5. TargetOK'
  BY <1>1 DEF TargetOK
<1> QED
  BY <1>2, <1>4, <1>5 DEF Kept, c

LEMMA NothingKeeps ==
  ASSUME SyncInv, NEW p \in Peer, conn[p].pc \notin Adding, NEW c \in Context, NEW q \in Queues,
         c.timed = conn[p].timed, NothingToGet(p, c, q)
  PROVE  queue' \in Queues /\ Kept
<1> DEFINE d == [c EXCEPT !.state = "normal"]
<1>1. \/ Close(p, q)
      \/ Return(p, d) /\ queue' = q /\ UNCHANGED net
  BY ZenonT(60) DEF NothingToGet
<1>2. d \in Context /\ d.timed = c.timed /\ d.state = "normal"
  BY DEF Context
<1>3. ConnsOK /\ TargetOK
  BY DEF SyncInv
<1> HIDE DEF d
<1>4. CASE Close(p, q)
  BY <1>4, CloseTyped
<1>5. CASE Return(p, d) /\ queue' = q /\ UNCHANGED net
  BY <1>2, <1>3, <1>5, ReturnQuietly
<1> QED
  BY <1>1, <1>4, <1>5

LEMMA StandbyKeeps ==
  ASSUME SyncInv, NEW p \in Peer, conn[p].pc \notin Adding, NEW c \in Context,
         c.timed = conn[p].timed, NEW callbacks \in Nat, Standby(p, c, callbacks)
  PROVE  Kept
<1> DEFINE k == Min({MaxCallbacks, c.callbacks + callbacks})
           d == [c EXCEPT !.state = "standby", !.callbacks = k]
<1>1. c.callbacks \in Nat /\ ConnsOK /\ TargetOK
  BY DEF Context, SyncInv
<1>2. k \in Nat
  BY <1>1, MinOfTwo, SyncAssumption
<1>3. Return(p, d) /\ UNCHANGED net
  <2>1. [c EXCEPT !.state = "standby", !.callbacks = Min({MaxCallbacks, @ + callbacks})] = d
    BY DEF Context
  <2> QED
    BY <2>1 DEF Standby
<1> HIDE DEF k
<1>4. d \in Context /\ d.timed = c.timed /\ d.state = "standby"
  BY <1>2, ZenonT(60) DEF Context
<1> HIDE DEF d
<1> QED
  BY <1>1, <1>3, <1>4, ReturnQuietly

\* The steps of a handler that neither take nor give back the lock.
LEMMA QuietSteps ==
  ASSUME SyncInv, NEW p \in Peer,
         \/ Connect(p) \/ TimedSync(p) \/ CheckStandby(p) \/ KickIdle(p) \/ Disconnect(p)
         \/ HandleChainEntry(p) \/ ScanChainEntry(p) \/ HandleObjects(p) \/ OnCallback(p)
  PROVE  queue' \in Queues /\ Kept /\ UNCHANGED <<height, lock>>
<1> DEFINE c == conn[p]
<1>1. /\ queue \in Queues /\ ConnsOK /\ TargetOK
      /\ c \in Context /\ net[p] \in Seq(Answers) /\ Served(c, net[p])
  BY ZenonT(60) DEF SyncInv, ConnsOK, Served
<1>2. Top \in Nat \ {0}
  BY TopIs
<1>3. CASE Connect(p) \/ TimedSync(p)
  <2>1. /\ SyncData(p, conn[p]) /\ conn[p].pc \notin Adding /\ UNCHANGED <<queue, net, height, lock>>
    BY <1>3 DEF Connect, TimedSync, Adding
  <2> QED
    BY <1>1, <2>1, SyncDataKeeps
<1>4. CASE CheckStandby(p)
  <2> DEFINE k == c.callbacks + 1
             b == c.notified
  <2>1. /\ Goto(p, [conn[p] EXCEPT !.callbacks = @ + 1])
        /\ UNCHANGED <<queue, target, net, height, lock>>
    BY <1>4 DEF CheckStandby
  <2>2. k \in Nat /\ k > 0 /\ b \in BOOLEAN
    BY <1>1 DEF Context
  <2>3. [c EXCEPT !.callbacks = @ + 1] = [c EXCEPT !.callbacks = k, !.notified = b]
    BY <1>1, ZenonT(60) DEF Context
  <2> HIDE DEF k, b
  <2> QED
    BY <1>1, <2>1, <2>2, <2>3, CallbackKeeps, ZenonT(60)
<1>5. CASE KickIdle(p)
  <2> DEFINE k == Min({MaxCallbacks, c.callbacks + 1})
  <2>1. /\ Goto(p, [conn[p] EXCEPT !.callbacks = Min({MaxCallbacks, @ + 1}), !.notified = TRUE])
        /\ UNCHANGED <<queue, target, net, height, lock>>
    BY <1>5 DEF KickIdle
  <2>2. k \in Nat /\ k > 0
    <3>1. c.callbacks \in Nat /\ MaxCallbacks \in Nat \ {0}
      BY <1>1, SyncAssumption DEF Context
    <3> QED
      BY <3>1, MinOfTwo
  <2>3. Goto(p, [conn[p] EXCEPT !.callbacks = k, !.notified = TRUE])
    BY <2>1
  <2> HIDE DEF k
  <2> QED
    BY <1>1, <2>1, <2>2, <2>3, CallbackKeeps, ZenonT(60)
<1>6. CASE Disconnect(p)
  <2>1. Close(p, queue) /\ conn[p].pc \notin Adding /\ UNCHANGED <<height, lock>>
    BY <1>6 DEF Disconnect, Adding
  <2> QED
    BY <1>1, <2>1, CloseTyped
<1>7. CASE HandleChainEntry(p)
  <2> DEFINE m == Head(net[p])
             known == Max({Min({height, m.start + m.n}), m.start})
             needed == [i \in 1..m.n |-> m.start + i - 1]
             last == m.start + m.n - 1
             d == [c EXCEPT !.pc = "scan", !.entry = TRUE, !.expect = "none", !.timed = FALSE,
                            !.known = known, !.needed = needed, !.last_response = last]
  <2>1. /\ c.pc = "idle" /\ net[p] # <<>> /\ m.kind = "chain" /\ UNCHANGED <<height, lock>>
        /\ \/ /\ Goto(p, d)
              /\ net' = [net EXCEPT ![p] = Tail(@)]
              /\ UNCHANGED <<queue, target>>
           \/ Close(p, queue)
    BY <1>7, ZenonT(60) DEF HandleChainEntry
  <2>2. conn[p].pc \notin Adding
    BY <2>1 DEF Adding
  <2>3. CASE Close(p, queue)
    BY <1>1, <2>1, <2>2, <2>3, CloseTyped
  <2>4. CASE Goto(p, d) /\ net' = [net EXCEPT ![p] = Tail(@)] /\ UNCHANGED <<queue, target>>
    <3>1. m \in Answers /\ Tail(net[p]) \in Seq(Answers)
      BY <1>1, <2>1, TailIs
    <3>2. m.start \in Nat /\ m.n \in Nat /\ m.n >= 1 /\ m.start + m.n <= Top
      BY <2>1, <3>1 DEF Answers
    <3>3. height \in Nat
      BY DEF SyncInv
    <3>4. known \in Int
      BY <3>2, <3>3, MinOfTwo, MaxOfTwo
    <3>5. last \in Nat
      BY <3>2
    <3>6. needed \in Seq(Block)
      <4>1. \A i \in 1..m.n : m.start + i - 1 \in Block
        BY <1>2, <3>2 DEF Block
      <4> QED
        BY <3>2, <4>1
    <3> HIDE DEF known, last, needed, c
    <3>7. d \in Context /\ d.pc = "scan" /\ d.timed = FALSE
      BY <1>1, <3>4, <3>5, <3>6, ZenonT(60) DEF Context, Pcs
    <3> HIDE DEF d
    <3>8. Served(d, Tail(net[p]))
      BY <3>1, <3>7 DEF Served
    <3>9. conn' = [conn EXCEPT ![p] = d] /\ net' = [net EXCEPT ![p] = Tail(net[p])]
      BY <1>1, <2>4 DEF Goto, ConnsOK
    <3>10. ConnsOK' /\ conn'[p] = d /\ \A o \in Peer \ {p} : conn'[o] = conn[o]
      BY <1>1, <3>8, <3>9, OneConn, ZenonT(60)
    <3>11. TargetOK'
      BY <1>1, <2>4 DEF TargetOK
    <3>12. Kept
      BY <2>2, <3>7, <3>10, <3>11 DEF Kept, Adding
    <3> QED
      BY <1>1, <2>1, <2>4, <3>12
  <2> QED
    BY <2>1, <2>3, <2>4
<1>8. CASE ScanChainEntry(p)
  <2> DEFINE d == [c EXCEPT !.pc = "request", !.known = 0]
  <2>1. /\ c.pc = "scan" /\ UNCHANGED <<height, lock>>
        /\ (Goto(p, d) /\ UNCHANGED <<queue, target, net>>) \/ Close(p, queue)
    BY <1>8, ZenonT(60) DEF ScanChainEntry
  <2>2. conn[p].pc \notin Adding
    BY <2>1 DEF Adding
  <2>3. CASE Close(p, queue)
    BY <1>1, <2>1, <2>2, <2>3, CloseTyped, ZenonT(60)
  <2>4. CASE Goto(p, d) /\ UNCHANGED <<queue, target, net>>
    <3> HIDE DEF c
    <3>1. d \in Context /\ d.pc = "request" /\ d.timed = c.timed
      <4> DEFINE zero == 0
      <4>1. zero \in Int
        OBVIOUS
      <4> HIDE DEF zero
      <4>2. LET e == [c EXCEPT !.pc = "request", !.known = zero]
            IN  e \in Context /\ e.pc = "request" /\ e.timed = c.timed
        BY <1>1, <4>1, ZenonT(60) DEF Context, Pcs
      <4> QED
        BY <4>2 DEF zero
    <3> HIDE DEF d
    <3>2. Served(d, net[p]) /\ d.pc \notin Adding
      BY <1>1, <3>1 DEF Served, Adding
    <3> QED
      BY <1>1, <2>1, <2>2, <2>4, <3>2, GotoKeeps
  <2> QED
    BY <2>1, <2>3, <2>4
<1>9. CASE HandleObjects(p)
  <2> DEFINE m == Head(net[p])
             last == m.start + m.n - 1
             d == [c EXCEPT !.pc = "add", !.expect = "none", !.timed = FALSE, !.requested = {},
                            !.last_known = last]
  <2>1. /\ c.pc = "idle" /\ net[p] # <<>> /\ UNCHANGED <<height, lock>>
        /\ \/ /\ queue' = add_blocks(queue, m.start, m.n, p)
              /\ Goto(p, d)
              /\ net' = [net EXCEPT ![p] = Tail(@)]
              /\ target' = Max({target, Remote[p]})
           \/ Close(p, queue)
    BY <1>9, ZenonT(60) DEF HandleObjects
  <2>2. conn[p].pc \notin Adding
    BY <2>1 DEF Adding
  <2>3. CASE Close(p, queue)
    BY <1>1, <2>1, <2>2, <2>3, CloseTyped
  <2>4. CASE /\ queue' = add_blocks(queue, m.start, m.n, p) /\ Goto(p, d)
             /\ net' = [net EXCEPT ![p] = Tail(@)] /\ target' = Max({target, Remote[p]})
    <3>1. m \in Answers /\ Tail(net[p]) \in Seq(Answers)
      BY <1>1, <2>1, TailIs
    <3>2. m.start \in Nat /\ m.n \in Nat /\ m.start + m.n <= Top
      BY <3>1 DEF Answers
    <3>3. queue' \in Queues
      BY <1>1, <2>4, <3>2, AddTyped
    <3>4. last \in Int
      BY <3>2
    <3> HIDE DEF last, c
    <3>5. d \in Context /\ d.pc = "add" /\ d.timed = FALSE
      BY <1>1, <3>4, ZenonT(60) DEF Context, Pcs
    <3> HIDE DEF d
    <3>6. Served(d, Tail(net[p]))
      BY <3>1, <3>5 DEF Served
    <3>7. conn' = [conn EXCEPT ![p] = d] /\ net' = [net EXCEPT ![p] = Tail(net[p])]
      BY <1>1, <2>4 DEF Goto, ConnsOK
    <3>8. ConnsOK' /\ conn'[p] = d /\ \A o \in Peer \ {p} : conn'[o] = conn[o]
      BY <1>1, <3>6, <3>7, OneConn, ZenonT(60)
    <3>9. TargetOK'
      <4>1. Remote[p] \in Nat /\ Remote[p] <= Top /\ target \in Nat /\ target <= Top
        BY <1>1, TopIs DEF TargetOK
      <4>2. target' \in Nat /\ target' <= Top
        BY <1>2, <2>4, <4>1, MaxOfTwo
      <4> QED
        BY <4>2 DEF TargetOK
    <3>10. Kept
      BY <2>2, <3>5, <3>8, <3>9 DEF Kept, Adding
    <3> QED
      BY <2>1, <3>3, <3>10
  <2> QED
    BY <2>1, <2>3, <2>4
<1>10. CASE OnCallback(p)
  <2> DEFINE k == c.callbacks - 1
             n == c.score - 1
             d == [c EXCEPT !.callbacks = k, !.notified = FALSE]
             add == [d EXCEPT !.state = "synchronizing", !.pc = "add"]
             late == [d EXCEPT !.score = @ - 1, !.timed = FALSE, !.expect = "none",
                               !.expect_height = 0, !.requested = {}]
             again == [late EXCEPT !.state = "synchronizing", !.pc = "add"]
             ask == [d EXCEPT !.needed = <<>>]
  <2>1. /\ c.pc = "idle" /\ c.callbacks > 0 /\ UNCHANGED <<height, lock>>
        /\ \/ Close(p, queue)
           \/ (Goto(p, again) \/ Goto(p, add)) /\ UNCHANGED <<queue, target, net>>
           \/ AskChain(p, ask, -1) /\ UNCHANGED queue
           \/ /\ d.state = "normal" \/ (d.state = "synchronizing" /\ d.timed)
              /\ Goto(p, d) /\ UNCHANGED <<queue, target, net>>
    BY <1>10, ZenonT(60) DEF OnCallback
  <2>2. conn[p].pc \notin Adding
    BY <2>1 DEF Adding
  <2>3. k \in Nat /\ c.score \in Int
    BY <1>1, <2>1 DEF Context
  <2> HIDE DEF k, c
  <2>4. d \in Context /\ d.pc = "idle" /\ d.timed = c.timed /\ d.state = c.state
    BY <1>1, <2>1, <2>3, ZenonT(60) DEF Context
  <2> HIDE DEF d
  <2>5. add \in Context /\ add.pc = "add" /\ add.timed = c.timed
    BY <2>4, ZenonT(60) DEF Context, Pcs
  <2>6. late \in Context /\ late.timed = FALSE
    <3> DEFINE zero == 0
               less == d.score - 1
    <3>1. zero \in Int /\ less \in Int
      BY <2>4 DEF Context
    <3>2. late = [d EXCEPT !.score = less, !.timed = FALSE, !.expect = "none",
                           !.expect_height = zero, !.requested = {}]
      BY <2>4 DEF Context
    <3> HIDE DEF zero, less, late
    <3> QED
      BY <2>4, <3>1, <3>2, ZenonT(60) DEF Context
  <2> HIDE DEF late
  <2>7. again \in Context /\ again.pc = "add" /\ again.timed = FALSE
    BY <2>6, ZenonT(60) DEF Context, Pcs
  <2>8. ask \in Context
    <3> DEFINE none == <<>>
    <3>1. none \in Seq(Block)
      OBVIOUS
    <3> HIDE DEF none
    <3>2. [d EXCEPT !.needed = none] \in Context
      BY <2>4, <3>1, ZenonT(60) DEF Context
    <3> QED
      BY <3>2 DEF none
  <2> HIDE DEF add, again, ask
  <2>9. CASE Close(p, queue)
    BY <1>1, <2>1, <2>2, <2>9, CloseTyped
  <2>10. CASE (Goto(p, again) \/ Goto(p, add)) /\ UNCHANGED <<queue, target, net>>
    <3>1. Served(again, net[p]) /\ Served(add, net[p]) /\ again.pc \notin Adding /\ add.pc \notin Adding
      BY <1>1, <2>5, <2>7 DEF Served, Adding
    <3> QED
      BY <1>1, <2>1, <2>2, <2>10, <3>1, GotoKeeps, ZenonT(60)
  <2>11. CASE AskChain(p, ask, -1) /\ UNCHANGED queue
    <3>1. -1 \in Int
      OBVIOUS
    <3> QED
      BY <1>1, <2>1, <2>2, <2>8, <2>11, <3>1, AskChainKeeps, ZenonT(60)
  <2>12. CASE /\ d.state = "normal" \/ (d.state = "synchronizing" /\ d.timed)
              /\ Goto(p, d) /\ UNCHANGED <<queue, target, net>>
    <3>1. Served(d, net[p]) /\ d.pc \notin Adding
      BY <1>1, <2>4, <2>12 DEF Served, Adding
    <3> QED
      BY <1>1, <2>1, <2>2, <2>12, <3>1, GotoKeeps, ZenonT(60)
  <2> QED
    BY <2>1, <2>9, <2>10, <2>11, <2>12
<1> QED
  BY <1>3, <1>4, <1>5, <1>6, <1>7, <1>8, <1>9, <1>10

\* request_missing_objects.
LEMMA RequestSteps ==
  ASSUME SyncInv, NEW p \in Peer,
         RequestStart(p) \/ Pick(p) \/ Reset(p) \/ Reserve(p) \/ Skip(p)
  PROVE  queue' \in Queues /\ Kept /\ UNCHANGED <<height, lock>>
<1> DEFINE c == conn[p]
<1>1. /\ queue \in Queues /\ ConnsOK /\ TargetOK
      /\ c \in Context /\ net[p] \in Seq(Answers) /\ Served(c, net[p])
  BY ZenonT(60) DEF SyncInv, ConnsOK, Served
<1>2. CASE RequestStart(p)
  <2> DEFINE q == flush_stale_spans(queue, Live)
             d == skip_unneeded_hashes(c, TRUE)
             e == [c EXCEPT !.pc = "pick"]
  <2>1. /\ c.pc = "request" /\ UNCHANGED <<height, lock>>
        /\ \/ queue' = q /\ Goto(p, e) /\ UNCHANGED <<target, net>>
           \/ NothingToGet(p, d, q)
           \/ \E small \in BOOLEAN : Decide(p, d, q, small)
    BY <1>2, ZenonT(60) DEF RequestStart
  <2>2. q \in Queues
    BY <1>1, EraseTyped DEF flush_stale_spans
  <2>3. d \in Context /\ d.timed = c.timed
    BY <1>1, SkipTyped, ZenonT(60)
  <2>4. conn[p].pc \notin Adding
    BY <2>1, ZenonT(60) DEF Adding
  <2> HIDE DEF q, d
  <2>5. CASE queue' = q /\ Goto(p, e) /\ UNCHANGED <<target, net>>
    <3>1. e \in Context /\ e.pc = "pick" /\ e.timed = c.timed
      <4> HIDE DEF c
      <4> QED
        BY <1>1, ZenonT(60) DEF Context, Pcs
    <3> HIDE DEF e
    <3>2. Served(e, net[p]) /\ e.pc \notin Adding
      BY <1>1, <3>1 DEF Served, Adding
    <3> QED
      BY <1>1, <2>1, <2>2, <2>4, <2>5, <3>2, GotoKeeps
  <2>6. CASE NothingToGet(p, d, q)
    BY <2>1, <2>2, <2>3, <2>4, <2>6, NothingKeeps
  <2>7. ASSUME NEW small \in BOOLEAN, Decide(p, d, q, small)
        PROVE  queue' \in Queues /\ Kept
    <3> DEFINE go(force) == [d EXCEPT !.state = "synchronizing", !.force = force,
                                      !.pc = IF force THEN "pick"
                                             ELSE IF d.needed # <<>> THEN "reserve" ELSE "skip"]
    <3>1. /\ queue' = q
          /\ \/ \E force \in BOOLEAN : Goto(p, go(force)) /\ UNCHANGED <<target, net>>
             \/ Standby(p, d, 1)
             \/ Standby(p, d, 0)
      BY <2>7, ZenonT(60) DEF Decide
    <3>2. ASSUME NEW force \in BOOLEAN, Goto(p, go(force)), UNCHANGED <<target, net>>
          PROVE  Kept
      <4> DEFINE pc == IF force THEN "pick" ELSE IF d.needed # <<>> THEN "reserve" ELSE "skip"
                 g == [d EXCEPT !.state = "synchronizing", !.force = force, !.pc = pc]
      <4>1. pc \in {"pick", "reserve", "skip"}
        OBVIOUS
      <4>2. Goto(p, g)
        BY <3>2
      <4> HIDE DEF pc
      <4>3. g \in Context /\ g.pc = pc /\ g.timed = d.timed
        BY <2>3, <4>1, ZenonT(60) DEF Context, Pcs
      <4> HIDE DEF g
      <4>4. Served(g, net[p]) /\ g.pc \notin Adding
        BY <1>1, <2>3, <4>1, <4>3, ZenonT(60) DEF Served, Adding
      <4> QED
        BY <1>1, <2>4, <3>2, <4>2, <4>4, GotoKeeps
    <3> HIDE DEF go
    <3>3. Standby(p, d, 1) \/ Standby(p, d, 0) => Kept
      BY <2>3, <2>4, StandbyKeeps
    <3> QED
      BY <2>2, <3>1, <3>2, <3>3
  <2> QED
    BY <2>1, <2>5, <2>6, <2>7
<1>3. CASE Pick(p)
  <2> DEFINE s == get_next_span_if_scheduled(queue)
             pc == IF s.nblocks > 0 THEN "reset" ELSE "reserve"
             req == c.requested \cup s.hashes
             d == [c EXCEPT !.pc = pc, !.span = s, !.requested = req]
  <2>1. s \in Picked /\ (s.nblocks > 0 => s.hashes # {})
    BY <1>1, ScheduledIs
  <2>2. /\ c.pc = "pick"
        /\ Goto(p, [c EXCEPT !.pc = pc, !.span = s, !.requested = @ \cup s.hashes])
        /\ UNCHANGED <<queue, height, target, lock, net>>
    BY <1>3, ZenonT(60) DEF Pick
  <2>3. [c EXCEPT !.pc = pc, !.span = s, !.requested = @ \cup s.hashes] = d
    <3> HIDE DEF c, s, pc
    <3> QED
      BY <1>1 DEF Context
  <2>4. /\ pc \in {"reset", "reserve"} /\ (pc = "reset" => s.hashes # {}) /\ s \in Picked \cup Spans
        /\ req \in SUBSET Block /\ (pc = "reset" => req # {})
    <3> HIDE DEF s
    <3> QED
      BY <1>1, <2>1 DEF Context, Picked
  <2> HIDE DEF c, s, pc, req
  <2>5. d \in Context /\ d.pc = pc /\ d.timed = c.timed /\ d.span = s /\ d.requested = req
    BY <1>1, <2>4, ZenonT(60) DEF Context, Pcs
  <2> HIDE DEF d
  <2>6. Served(d, net[p]) /\ d.pc \notin Adding
    BY <1>1, <2>1, <2>4, <2>5 DEF Served, Adding
  <2>7. conn[p].pc \notin Adding
    BY <2>2 DEF Adding, c
  <2> QED
    BY <1>1, <2>2, <2>3, <2>6, <2>7, GotoKeeps, ZenonT(60)
<1>4. CASE Reset(p)
  <2> DEFINE d == [c EXCEPT !.pc = "idle", !.force = FALSE, !.entry = FALSE, !.span = NoSpan]
  <2>1. /\ c.pc = "reset" /\ UNCHANGED <<queue, height, lock>>
        /\ AskObjects(p, c, c.span) \/ (Goto(p, d) /\ UNCHANGED <<target, net>>)
    BY <1>4, ZenonT(60) DEF Reset
  <2>2. conn[p].pc \notin Adding
    BY <2>1 DEF Adding
  <2>3. CASE AskObjects(p, c, c.span)
    <3>1. c.span \in Picked /\ c.span.hashes # {}
      BY <1>1, <2>1 DEF Served
    <3> QED
      BY <1>1, <2>1, <2>2, <2>3, <3>1, AskObjectsKeeps
  <2>4. CASE Goto(p, d) /\ UNCHANGED <<target, net>>
    <3> HIDE DEF c
    <3>0. NoSpan \in Picked
      BY DEF NoSpan, Picked
    <3>1. d \in Context /\ d.pc = "idle" /\ d.timed = c.timed /\ d.requested = c.requested
      BY <1>1, <3>0, ZenonT(60) DEF Context, Pcs
    <3> HIDE DEF d
    <3>2. Served(d, net[p]) /\ d.pc \notin Adding
      BY <1>1, <2>1, <3>1 DEF Served, Adding, c
    <3> QED
      BY <1>1, <2>1, <2>2, <2>4, <3>2, GotoKeeps
  <2> QED
    BY <2>1, <2>3, <2>4
<1>5. CASE Reserve(p)
  <2> DEFINE d == skip_unneeded_hashes(c, FALSE)
             r == Reserved(queue, d.last_response, SpanSize, d.needed)
             s == get_next_span_if_scheduled(queue)
             skipped == r.start - (d.last_response - Len(d.needed) + 1)
             e == [d EXCEPT !.needed = SubSeq(@, skipped + r.nblocks + 1, Len(@))]
             f == [d EXCEPT !.needed = Without(@, s.hashes)]
             g == [d EXCEPT !.state = "normal"]
  <2>1. /\ c.pc = "reserve" /\ UNCHANGED <<height, lock>>
        /\ \/ NothingToGet(p, d, queue)
           \/ r.nblocks > 0 /\ queue' = reserve_span(queue, p, r) /\ AskObjects(p, e, r)
           \/ s.nblocks > 0 /\ AskObjects(p, f, s) /\ UNCHANGED queue
           \/ Return(p, g) /\ UNCHANGED <<queue, net>>
           \/ Close(p, queue)
    BY <1>5, ZenonT(60) DEF Reserve
  <2>2. conn[p].pc \notin Adding
    BY <2>1 DEF Adding
  <2>3. d \in Context /\ d.timed = c.timed
    BY <1>1, SkipTyped, ZenonT(60)
  <2> HIDE DEF d
  <2>4. d.needed \in Seq(Block) /\ d.last_response \in Nat
    BY <2>3 DEF Context
  <2>5. r \in Picked /\ (r.nblocks > 0 => r.hashes # {} /\ skipped \in Nat)
    BY <2>4, ReservedIs
  <2>6. s \in Picked /\ (s.nblocks > 0 => s.hashes # {})
    BY <1>1, ScheduledIs
  <2> HIDE DEF r, s
  <2>7. CASE NothingToGet(p, d, queue)
    BY <1>1, <2>1, <2>2, <2>3, <2>7, NothingKeeps
  <2>8. CASE r.nblocks > 0 /\ queue' = reserve_span(queue, p, r) /\ AskObjects(p, e, r)
    <3> DEFINE m == skipped + r.nblocks + 1
               rest == SubSeq(d.needed, m, Len(d.needed))
    <3>1. m \in Nat /\ m >= 1
      BY <2>5, <2>8 DEF Picked
    <3> HIDE DEF m
    <3>2. rest \in Seq(Block)
      BY <2>4, <3>1, SubSeqTyped
    <3>3. e = [d EXCEPT !.needed = rest]
      BY DEF m
    <3> HIDE DEF rest, e
    <3>4. e \in Context
      BY <2>3, <3>2, <3>3, ZenonT(60) DEF Context
    <3>5. queue' \in Queues
      BY <1>1, <2>5, <2>8, ReserveTyped
    <3>6. Kept
      BY <2>2, <2>5, <2>8, <3>4, AskObjectsKeeps
    <3> QED
      BY <2>1, <3>5, <3>6
  <2>9. CASE s.nblocks > 0 /\ AskObjects(p, f, s) /\ UNCHANGED queue
    <3> DEFINE rest == Without(d.needed, s.hashes)
    <3>1. rest \in Seq(Block)
      BY <2>4, WithoutTyped
    <3>2. f = [d EXCEPT !.needed = rest]
      OBVIOUS
    <3> HIDE DEF rest, f
    <3>3. f \in Context
      BY <2>3, <3>1, <3>2, ZenonT(60) DEF Context
    <3>4. Kept
      BY <2>2, <2>6, <2>9, <3>3, AskObjectsKeeps
    <3> QED
      BY <1>1, <2>1, <2>9, <3>4
  <2>10. CASE Return(p, g) /\ UNCHANGED <<queue, net>>
    <3>1. g \in Context /\ g.timed = d.timed /\ g.state = "normal"
      BY <2>3 DEF Context
    <3> HIDE DEF g
    <3>2. Kept
      BY <1>1, <2>2, <2>3, <2>10, <3>1, ReturnQuietly
    <3> QED
      BY <1>1, <2>1, <2>10, <3>2
  <2>11. CASE Close(p, queue)
    BY <1>1, <2>1, <2>2, <2>11, CloseTyped
  <2> QED
    BY <2>1, <2>7, <2>8, <2>9, <2>10, <2>11
<1>6. CASE Skip(p)
  <2> DEFINE none == <<>>
             d == [c EXCEPT !.needed = none]
             g == [d EXCEPT !.state = "normal"]
             front == IF d.last_known = height - 1 THEN -1 ELSE d.last_known
  <2>1. /\ c.pc = "skip" /\ UNCHANGED <<height, lock>>
        /\ \/ Standby(p, d, 1) /\ UNCHANGED queue
           \/ AskChain(p, d, front) /\ UNCHANGED queue
           \/ Return(p, g) /\ UNCHANGED <<queue, net>>
           \/ Close(p, queue)
    BY <1>6, ZenonT(60) DEF Skip
  <2>2. conn[p].pc \notin Adding
    BY <2>1 DEF Adding
  <2>3. none \in Seq(Block)
    OBVIOUS
  <2> HIDE DEF none, c
  <2>4. d \in Context /\ d.timed = c.timed
    BY <1>1, <2>3, ZenonT(60) DEF Context
  <2> HIDE DEF d
  <2>5. g \in Context /\ g.timed = d.timed /\ g.state = "normal"
    BY <2>4, ZenonT(60) DEF Context
  <2>6. front \in Int
    BY <2>4 DEF Context
  <2> HIDE DEF g, front
  <2>7. CASE Standby(p, d, 1) /\ UNCHANGED queue
    BY <1>1, <2>1, <2>2, <2>4, <2>7, StandbyKeeps DEF c
  <2>8. CASE AskChain(p, d, front) /\ UNCHANGED queue
    BY <1>1, <2>1, <2>2, <2>4, <2>6, <2>8, AskChainKeeps, ZenonT(60)
  <2>9. CASE Return(p, g) /\ UNCHANGED <<queue, net>>
    BY <1>1, <2>1, <2>2, <2>4, <2>5, <2>9, ReturnQuietly, ZenonT(60) DEF c
  <2>10. CASE Close(p, queue)
    BY <1>1, <2>1, <2>2, <2>10, CloseTyped, ZenonT(60)
  <2> QED
    BY <2>1, <2>7, <2>8, <2>9, <2>10
<1> QED
  BY <1>2, <1>3, <1>4, <1>5, <1>6

\* try_add_next_blocks: the lock is taken and given back with the loop.
LEMMA LoopSteps ==
  ASSUME SyncInv, NEW p \in Peer,
         TryLock(p) \/ NextSpan(p) \/ AddToChain(p) \/ RemoveAdded(p)
  PROVE  SyncInv'
<1> DEFINE c == conn[p]
<1>1. /\ queue \in Queues /\ ConnsOK /\ TargetOK /\ height \in Nat \ {0} /\ height <= Top
      /\ c \in Context /\ net[p] \in Seq(Answers) /\ Served(c, net[p])
      /\ lock \in Peer \cup {Free} /\ \A o \in Peer : lock = o <=> conn[o].pc \in Adding
  BY ZenonT(60) DEF SyncInv, ConnsOK, Served
<1>2. Free \notin Peer /\ Top \in Nat
  BY SyncAssumption, TopIs, ZenonT(60)
\* One context changes, and the lock with it.
<1>3. ASSUME NEW d, Goto(p, d), UNCHANGED <<target, net>>, Served(d, net[p]),
             queue' \in Queues, height' \in Nat \ {0}, height' <= Top,
             \/ UNCHANGED lock /\ (d.pc \in Adding <=> c.pc \in Adding)
             \/ lock = Free /\ lock' = p /\ d.pc \in Adding
             \/ lock' = Free /\ c.pc \in Adding /\ d.pc \notin Adding
      PROVE  SyncInv'
  <2>1. ConnsOK' /\ conn'[p] = d /\ \A o \in Peer \ {p} : conn'[o] = conn[o]
    BY <1>1, <1>3, OneContext, ZenonT(60)
  <2>2. TargetOK'
    BY <1>1, <1>3, ZenonT(60) DEF TargetOK
  <2>3. lock' \in Peer \cup {Free} /\ \A o \in Peer : lock' = o <=> conn'[o].pc \in Adding
    BY <1>1, <1>2, <1>3, <2>1, ZenonT(60)
  <2> QED
    BY <1>3, <2>1, <2>2, <2>3, ZenonT(60) DEF SyncInv
<1>4. CASE TryLock(p)
  <2> DEFINE d == [c EXCEPT !.pc = "adding"]
             e == [c EXCEPT !.pc = "request"]
  <2>1. /\ c.pc = "add" /\ UNCHANGED <<queue, height, target, net>>
        /\ \/ lock = Free /\ lock' = p /\ Goto(p, d)
           \/ Goto(p, e) /\ UNCHANGED lock
    BY <1>4, ZenonT(60) DEF TryLock
  <2> HIDE DEF c
  <2>2. /\ d \in Context /\ d.pc = "adding" /\ d.timed = c.timed
        /\ e \in Context /\ e.pc = "request" /\ e.timed = c.timed
    BY <1>1, ZenonT(60) DEF Context, Pcs
  <2> HIDE DEF d, e
  <2>3. Served(d, net[p]) /\ Served(e, net[p]) /\ d.pc \in Adding /\ e.pc \notin Adding /\ c.pc \notin Adding
    BY <1>1, <2>1, <2>2, ZenonT(60) DEF Served, Adding
  <2> QED
    BY <1>1, <1>3, <2>1, <2>3
<1>5. CASE NextSpan(p)
  <2> DEFINE s == First(Filled(queue))
             d == [c EXCEPT !.pc = "chaining", !.span = s]
             e(force) == [c EXCEPT !.pc = "request", !.force = force]
  <2>1. /\ c.pc = "adding" /\ UNCHANGED <<height, target, net>>
        /\ \/ queue' = remove_spans(queue, s.conn, s.start) /\ UNCHANGED <<conn, lock>>
           \/ Filled(queue) # {} /\ Goto(p, d) /\ UNCHANGED <<queue, lock>>
           \/ \E force \in BOOLEAN : lock' = Free /\ Goto(p, e(force)) /\ UNCHANGED queue
    <3>1. should_download_next_span(p, queue) \subseteq BOOLEAN
      BY ZenonT(60) DEF should_download_next_span
    <3> QED
      BY <1>5, <3>1, ZenonT(60) DEF NextSpan
  <2>2. c.pc \in Adding
    BY <2>1, ZenonT(60) DEF Adding
  <2>3. CASE queue' = remove_spans(queue, s.conn, s.start) /\ UNCHANGED <<conn, lock>>
    <3>1. queue' \in Queues
      BY <1>1, <2>3, EraseTyped DEF remove_spans
    <3>2. ConnsOK' /\ TargetOK'
      BY <1>1, <2>1, <2>3 DEF ConnsOK, TargetOK
    <3> QED
      BY <1>1, <2>1, <2>3, <3>1, <3>2 DEF SyncInv
  <2>4. CASE Filled(queue) # {} /\ Goto(p, d) /\ UNCHANGED <<queue, lock>>
    <3>1. s \in Delivered
      <4>1. Filled(queue) \subseteq Delivered /\ Filled(queue) \subseteq Delivered \cup Scheduled
        BY <1>1 DEF Queues, Filled, Delivered, Scheduled
      <4> QED
        BY <2>4, <4>1, FirstIs
    <3>2. s \in Picked \cup Spans
      BY <3>1 DEF Delivered
    <3> HIDE DEF c, s
    <3>3. d \in Context /\ d.pc = "chaining" /\ d.timed = c.timed /\ d.span = s
      BY <1>1, <3>2, ZenonT(60) DEF Context, Pcs
    <3> HIDE DEF d
    <3>4. Served(d, net[p]) /\ d.pc \in Adding
      BY <1>1, <3>1, <3>3 DEF Served, Adding
    <3> QED
      BY <1>1, <1>3, <2>1, <2>2, <2>4, <3>4, ZenonT(60)
  <2>5. ASSUME NEW force \in BOOLEAN, lock' = Free, Goto(p, e(force)), UNCHANGED queue
        PROVE  SyncInv'
    <3> DEFINE f == e(force)
    <3> HIDE DEF c
    <3>1. f \in Context /\ f.pc = "request" /\ f.timed = c.timed
      BY <1>1, ZenonT(60) DEF Context, Pcs
    <3>2. Goto(p, f)
      BY <2>5
    <3> HIDE DEF f
    <3>3. Served(f, net[p]) /\ f.pc \notin Adding
      BY <1>1, <3>1 DEF Served, Adding
    <3> QED
      BY <1>1, <1>3, <2>1, <2>2, <2>5, <3>2, <3>3, ZenonT(60)
  <2> QED
    BY <2>1, <2>3, <2>4, <2>5, ZenonT(60)
<1>6. CASE AddToChain(p)
  <2> DEFINE d == [c EXCEPT !.pc = "chained"]
  <2>1. /\ c.pc = "chaining" /\ height' = Max({height, End(c.span)}) /\ Goto(p, d)
        /\ UNCHANGED <<queue, target, lock, net>>
    BY <1>6, ZenonT(60) DEF AddToChain
  <2>2. c.span \in Delivered
    BY <1>1, <2>1 DEF Served
  <2> HIDE DEF c
  <2>3. End(c.span) \in Nat /\ End(c.span) <= Top
    BY <2>2 DEF Delivered, Spans, End
  <2>4. height' \in Nat \ {0} /\ height' <= Top
    <3>1. height \in Nat \ {0} /\ height <= Top /\ height' = Max({height, End(c.span)})
      BY <1>1, <2>1
    <3> QED
      BY <1>2, <2>3, <3>1, MaxOfTwo
  <2>5. d \in Context /\ d.pc = "chained" /\ d.timed = c.timed /\ d.span = c.span
    BY <1>1, ZenonT(60) DEF Context, Pcs
  <2> HIDE DEF d
  <2>6. Served(d, net[p]) /\ d.pc \in Adding /\ c.pc \in Adding
    BY <1>1, <2>1, <2>2, <2>5, ZenonT(60) DEF Served, Adding
  <2> QED
    BY <1>1, <1>3, <2>1, <2>4, <2>6
<1>7. CASE RemoveAdded(p)
  <2> DEFINE d == [c EXCEPT !.pc = "adding", !.span = NoSpan]
  <2>1. /\ c.pc = "chained" /\ queue' = remove_spans(queue, c.span.conn, c.span.start)
        /\ Goto(p, d) /\ UNCHANGED <<height, target, lock, net>>
    BY <1>7, ZenonT(60) DEF RemoveAdded
  <2>2. queue' \in Queues
    BY <1>1, <2>1, EraseTyped DEF remove_spans
  <2>3. NoSpan \in Picked \cup Spans
    BY DEF NoSpan, Picked
  <2> HIDE DEF c
  <2>4. d \in Context /\ d.pc = "adding" /\ d.timed = c.timed
    BY <1>1, <2>3, ZenonT(60) DEF Context, Pcs
  <2> HIDE DEF d
  <2>5. Served(d, net[p]) /\ d.pc \in Adding /\ c.pc \in Adding
    BY <1>1, <2>1, <2>4, ZenonT(60) DEF Served, Adding
  <2> QED
    BY <1>1, <1>3, <2>1, <2>2, <2>5
<1> QED
  BY <1>4, <1>5, <1>6, <1>7

LEMMA SyncHolds == Spec => []SyncInv
<1>1. Init => SyncInv
  <2>2. Closed \in Context /\ Closed.pc = "closed" /\ ~ Closed.timed
    BY ClosedIs
  <2>3. Served(Closed, <<>>) /\ Closed.pc \notin Adding
    BY <2>2 DEF Served, Adding
  <2>4. EmptyQueue \in Queues
    BY DEF EmptyQueue, Queues
  <2> HIDE DEF Closed
  <2>5. Init => ConnsOK
    BY <2>3 DEF Init, ConnsOK
  <2> QED
    BY <2>3, <2>4, <2>5, TopIs, SyncAssumption DEF Init, SyncInv, TargetOK
<1>2. SyncInv /\ [Next]_vars => SyncInv'
  <2>1. SUFFICES ASSUME SyncInv, [Next]_vars PROVE SyncInv'
    OBVIOUS
  <2>2. CASE UNCHANGED vars
    BY <2>1, <2>2 DEF vars, SyncInv, ConnsOK, TargetOK
  <2>3. ASSUME queue' \in Queues, Kept, UNCHANGED <<height, lock>>
        PROVE  SyncInv'
    BY <2>1, <2>3 DEF SyncInv, Kept
  <2>4. CASE Next
    BY <2>1, <2>3, <2>4, QuietSteps, RequestSteps, LoopSteps DEF Next, Run, Deliver
  <2> QED
    BY <2>1, <2>2, <2>4
<1> QED
  BY <1>1, <1>2, PTL DEF Spec

\* For any finite number of peers: the chain grows no further than what some peer has, the
\* indices name blocks that some peer has, and m_sync_lock is held exactly by the handler in the
\* loop of try_add_next_blocks, so that no two connections add blocks at the same time.
THEOREM OneConnectionAdds == Spec => []TypeOK
<1>1. SyncInv => TypeOK
  <2>1. SUFFICES ASSUME SyncInv PROVE TypeOK
    OBVIOUS
  <2>2. Top \in Nat \ {0}
    BY TopIs
  <2>3. queue.requested \cup queue.have \subseteq Height
    BY <2>1, <2>2 DEF SyncInv, Queues, Block, Height
  <2>4. height \in 1..Top /\ target \in Height
    BY <2>1, <2>2 DEF SyncInv, TargetOK, Height
  <2>5. \A p \in Peer : conn[p].pc \in Pcs
    BY <2>1 DEF SyncInv, ConnsOK, Served, Context
  <2>6. /\ lock \in Peer \cup {Free}
        /\ \A p \in Peer : lock = p <=> conn[p].pc \in {"adding", "chaining", "chained"}
    BY <2>1 DEF SyncInv, Adding
  <2> QED
    BY <2>3, <2>4, <2>5, <2>6 DEF TypeOK
<1> QED
  BY <1>1, SyncHolds, PTL

\* For any finite number of peers, and whatever the interleaving of handlers, timeouts, callbacks
\* and lost connections: a connection in state synchronizing that runs no handler has an answer
\* on its way or a callback requested, or it is one that the exception of reset_next_span_time
\* left with m_requested_objects filled and no request time.
THEOREM OnlyTheThrowWedges == Spec => []NoWedge
<1>1. SyncInv => NoWedge
  <2>1. SUFFICES ASSUME SyncInv, NEW p \in Peer, Unserved(p)
                 PROVE  conn[p].requested # {} /\ ~ conn[p].timed
    BY DEF NoWedge
  <2>2. Served(conn[p], net[p])
    BY <2>1 DEF SyncInv, ConnsOK
  <2> QED
    BY <2>1, <2>2 DEF Served, Unserved
<1> QED
  BY <1>1, SyncHolds, PTL
=============================================================================
