----------------------------- MODULE BlockQueue -----------------------------
(***************************************************************************)
(* The queue of spans of src/src/cryptonote_protocol/block_queue.cpp: the  *)
(* runs of blocks that connections were asked for (scheduled) or have      *)
(* delivered (filled), with the hashes that were requested and those whose *)
(* blocks arrived.                                                         *)
(*                                                                         *)
(* Every method holds the queue's mutex and is an operator from queues to  *)
(* queues.  Peers follow one chain here, so that a block hash is a height. *)
(* No peer is pruned: the skips of reserve_span that look for a stripe do  *)
(* nothing.  Rates, sizes and times are left out.                          *)
(***************************************************************************)
EXTENDS Integers, Sequences, FiniteSets, FiniteSetsExt, Functions

\* A span: its first height, number of blocks, hashes, connection, and whether the blocks
\* are there.  Spans are ordered by start alone; no two in a queue have the same start.
End(s) == s.start + s.nblocks
EmptyQueue == [blocks |-> {}, requested |-> {}, have |-> {}]

Hashes(S) == UNION {s.hashes : s \in S}

At(q, h) == {s \in q.blocks : s.start = h}
First(S) == CHOOSE s \in S : \A t \in S : s.start <= t.start
Filled(q) == {s \in q.blocks : s.filled}

\* MUTANT of erase_block: the hashes stay requested.
erase_block_only(q, S) ==
  [blocks |-> q.blocks \ S, requested |-> q.requested, have |-> q.have \ Hashes(S)]

\* erase_block, for each span of S.
erase_block(q, S) ==
  [blocks    |-> q.blocks \ S,
   requested |-> q.requested \ Hashes(S),
   have      |-> q.have \ Hashes(S)]

flush_spans(q, c, all) == erase_block(q, {s \in q.blocks : s.conn = c /\ (all \/ ~ s.filled)})
flush_stale_spans(q, live) == erase_block(q, {s \in q.blocks : ~ s.filled /\ s.conn \notin live})
remove_spans(q, c, h) == erase_block(q, {s \in q.blocks : s.conn = c /\ s.start <= h})

\* MUTANT of add_blocks: the hashes of the span that is replaced are not requested any more.
add_blocks_unrequested(q, h, n, c) ==
  LET hashes == Hashes(At(q, h))
      s == [start |-> h, nblocks |-> n, hashes |-> hashes, conn |-> c, filled |-> TRUE]
  IN  [blocks    |-> (q.blocks \ At(q, h)) \cup {s},
       requested |-> q.requested \ hashes,
       have      |-> q.have \cup hashes]

(***************************************************************************)
(* add_blocks for blocks that arrived: the span takes the place, and the   *)
(* hashes, of the one that starts at the same height, whoever reserved it. *)
(* If that span is gone, the new one has no hashes.                        *)
(***************************************************************************)
add_blocks(q, h, n, c) ==
  LET hashes == Hashes(At(q, h))
      s == [start |-> h, nblocks |-> n, hashes |-> hashes, conn |-> c, filled |-> TRUE]
  IN  [blocks    |-> (q.blocks \ At(q, h)) \cup {s},
       requested |-> q.requested \cup hashes,
       have      |-> q.have \cup hashes]

\* set_span_hashes: the span loses its old hashes from both indices first.
set_span_hashes(q, h, c, hashes) ==
  LET S == {s \in At(q, h) : s.conn = c}
      e == erase_block(q, S)
  IN  IF S = {} THEN q
      ELSE [blocks    |-> e.blocks \cup {[s EXCEPT !.hashes = hashes] : s \in S},
            requested |-> e.requested \cup hashes,
            have      |-> e.have]

(***************************************************************************)
(* reserve_span: of the hashes needed, which end at height last, skip      *)
(* those at the front that were requested and schedule up to max of the    *)
(* next ones, requested or not.  A span that starts at the same height     *)
(* keeps the new one out of the set, and nobody notices.                   *)
(***************************************************************************)
Skipped(q, needed) ==
  Max({k \in 0..Len(needed) : \A i \in 1..k : needed[i] \in q.requested})

Reserved(q, last, max, needed) ==
  LET k == Skipped(q, needed)
      n == Min({max, Len(needed) - k})
  IN  IF needed = <<>> \/ Len(needed) > last
      THEN [start |-> 0, nblocks |-> 0, hashes |-> {}]
      ELSE [start |-> last - Len(needed) + 1 + k, nblocks |-> n,
            hashes |-> {needed[i] : i \in (k + 1)..(k + n)}]

reserve_span(q, c, r) ==
  LET s == [start |-> r.start, nblocks |-> r.nblocks, hashes |-> {}, conn |-> c,
            filled |-> FALSE]
      e == IF At(q, r.start) = {} THEN [q EXCEPT !.blocks = @ \cup {s}] ELSE q
  IN  IF r.nblocks = 0 THEN q ELSE set_span_hashes(e, r.start, c, r.hashes)

(***************************************************************************)
(* The queries.                                                            *)
(***************************************************************************)
NoSpan == [start |-> 0, nblocks |-> 0, hashes |-> {}]

\* The first span of all, if it is only scheduled.
get_next_span_if_scheduled(q) ==
  IF q.blocks = {} \/ First(q.blocks).filled THEN NoSpan
  ELSE LET s == First(q.blocks)
       IN  [start |-> s.start, nblocks |-> s.nblocks, hashes |-> s.hashes]

\* Does the first span of all start at or below h?
has_next_span(q, h) == q.blocks # {} /\ First(q.blocks).start <= h

\* From h on, the end of the spans that follow one another, the first of them filled, up to
\* the first gap or overlap.
get_next_needed_height(q, h) ==
  LET L == {s \in q.blocks : End(s) > h}
      Before(t) == {s \in L : s.start < t.start}
      Follows(t) == /\ t.start = Max({h} \cup {End(s) : s \in Before(t)})
                    /\ Before(t) = {} => t.filled
      run == {s \in L : \A t \in Before(s) \cup {s} : Follows(t)}
  IN  Max({h} \cup {End(s) : s \in run})
=============================================================================
