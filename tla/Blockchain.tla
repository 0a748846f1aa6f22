----------------------------- MODULE Blockchain -----------------------------
(***************************************************************************)
(* The main chain, the alternative blocks and the invalid blocks of        *)
(* src/src/cryptonote_core/blockchain.cpp: how a block that arrives is put *)
(* on top, kept as an alternative, or makes its branch the main chain, and *)
(* what a switch that fails leaves behind; the checkpoints of              *)
(* src/src/checkpoints; pop_blocks; the database batch around a run of     *)
(* blocks; and restarts.                                                   *)
(*                                                                         *)
(* Each operation holds m_blockchain_lock from its start to its end and is *)
(* one step.  The block at height h is main[h + 1]; Len(main) is           *)
(* m_db->height().  A block's ancestors are fixed by its hash, so the path *)
(* from the genesis block to it and its cumulative difficulty are          *)
(* constants.  What validation finds is a constant as well (Kind), except  *)
(* that the transactions of some blocks may have left the pool (Missing)   *)
(* and that BlockchainDB::add_block may throw (Faults), as it does when    *)
(* the database fails and when transactions of the block, each of them     *)
(* valid by itself, spend one key image (add_spent_key).                   *)
(***************************************************************************)
EXTENDS Naturals, Sequences, FiniteSets, FiniteSetsExt, Functions

CONSTANTS
  Block, Genesis,
  Path,          \* Path[b]: the blocks from Genesis to b
  Cumulative,    \* Cumulative[b]: the cumulative difficulty of b
  Kind,          \* Kind[b]: "good", "bad_inputs" or "bad_miner"
  Missing,       \* blocks whose transactions may be missing when they are connected
  Pruned,        \* blocks whose transactions are stored pruned: not given back to the pool
  Checkpoints,   \* the hash at each height for which there is or will be a checkpoint
  Loaded,        \* the heights of the checkpoints that are compiled in
  Faults,        \* whether add_block may throw: a failure, or a key image spent twice
  MayPop         \* whether the operator uses pop_blocks and flush_invalid_blocks

ASSUME BlockAssumption ==
  /\ Genesis \in Block
  /\ Path \in [Block -> Seq(Block)]
  /\ Path[Genesis] = <<Genesis>>
  /\ \A b \in Block \ {Genesis} :
        \E p \in Block : Path[b] = Append(Path[p], b) /\ b \notin Range(Path[p])
  /\ Cumulative \in [Block -> Nat]
  /\ \A b \in Block : \A i \in 1..(Len(Path[b]) - 1) : Cumulative[Path[b][i]] < Cumulative[b]
  /\ Kind \in [Block -> {"good", "bad_inputs", "bad_miner"}]
  /\ Missing \subseteq Block /\ Pruned \subseteq Block

ASSUME CheckpointAssumption ==
  /\ DOMAIN Checkpoints \subseteq Nat \ {0}
  /\ \A h \in DOMAIN Checkpoints : Checkpoints[h] \in Block
  /\ Loaded \subseteq DOMAIN Checkpoints
  /\ {Faults, MayPop} \subseteq BOOLEAN

VARIABLES
  main,      \* the main chain in the database
  alt,       \* the alternative blocks in the database
  invalid,   \* m_invalid_blocks
  points,    \* the heights of the checkpoints in m_checkpoints
  batch,     \* the open batch: what an abort restores, m_batch_success, and whether
             \* the run of blocks is over because one was refused
  updating,  \* m_checkpoints_updating, between two calls of update_checkpoints
  running    \* FALSE if the daemon could not start

vars == <<main, alt, invalid, points, batch, updating, running>>

Tip == main[Len(main)]
Parent(b) == Path[b][Len(Path[b]) - 1]
Height(b) == Len(Path[b]) - 1
Base(b, n) == SubSeq(Path[b], n + 1, Len(Path[b]))

NoBatch == [open |-> FALSE, main |-> <<Genesis>>, alt |-> {}, success |-> TRUE, over |-> FALSE]

have_block(b) == b \in Range(main) \cup alt \cup invalid
-----------------------------------------------------------------------------
(***************************************************************************)
(* checkpoints.cpp.                                                        *)
(***************************************************************************)
check_block(h, b) == h \in points => Checkpoints[h] = b

is_alternative_block_allowed(blockchain_height, h) ==
  \A p \in points : p <= blockchain_height => p < h

(***************************************************************************)
(* What handle_block_to_main_chain may find when it connects b.            *)
(***************************************************************************)
Results(b) ==
  IF ~ check_block(Height(b), b) \/ Kind[b] = "bad_miner" THEN {"refused"}
  ELSE (IF b \in Missing THEN {"refused"} ELSE {}) \cup
       (IF Kind[b] = "bad_inputs" THEN {"invalid"} ELSE {"added"}) \cup
       (IF Kind[b] = "good" /\ Faults THEN {"thrown"} ELSE {})

\* The same for a block that was just popped.
ResultsAgain(b) ==
  IF ~ check_block(Height(b), b) \/ b \in Pruned THEN {"refused"}
  ELSE {"added"} \cup (IF Faults THEN {"thrown"} ELSE {})

(***************************************************************************)
(* handle_block_to_main_chain for a block on top of the chain.             *)
(***************************************************************************)
AddToMain(b) ==
  /\ Parent(b) = Tip
  /\ \E r \in Results(b) :
        /\ main' = IF r = "added" THEN Append(main, b) ELSE main
        /\ invalid' = IF r = "invalid" THEN invalid \cup {b} ELSE invalid
        /\ batch' = [batch EXCEPT !.success = @ /\ r # "thrown", !.over = r # "added"]
  /\ UNCHANGED alt

(***************************************************************************)
(* build_alt_chain: the alternative blocks below b, and b.  The branch     *)
(* leaves the path to b after its n-th block.                              *)
(***************************************************************************)
Fork(b) == Max({1} \cup {i \in 1..(Len(Path[b]) - 1) : Path[b][i] \notin alt})

build_alt_chain(b) ==
  /\ Path[b][Fork(b)] \in Range(main)
  /\ Fork(b) < Height(b) => Len(main) > Fork(b)

(***************************************************************************)
(* switch_to_alternative_blockchain for the branch that leaves the main    *)
(* chain after its n-th block and ends in b.  Success: the blocks above n  *)
(* are offered as alternatives unless they are to be discarded.  They do   *)
(* not start another switch, since they are lighter than b and have no     *)
(* checkpoint above the new chain.                                         *)
(***************************************************************************)
Disconnected(n) == SubSeq(main, n + 1, Len(main))

Kept(n, new_height) ==
  {main[i] : i \in {j \in (n + 1)..Len(main) :
                      \A k \in (n + 1)..j :
                         /\ is_alternative_block_allowed(new_height, k - 1)
                         /\ check_block(k - 1, main[k])}}

\* MUTANT of SwitchTo: the alternative blocks that are now on the main chain are not removed.
SwitchToKeepsEntries(b, n, discard) ==
  LET chain == Base(b, n)
  IN  /\ \A i \in 1..Len(chain) : "added" \in Results(chain[i])
      /\ main' = SubSeq(main, 1, n) \o chain
      /\ alt' = alt \cup {b} \cup IF discard THEN {} ELSE Kept(n, Len(Path[b]))
      /\ UNCHANGED <<invalid, batch>>

SwitchTo(b, n, discard) ==
  LET chain == Base(b, n)
  IN  /\ \A i \in 1..Len(chain) : "added" \in Results(chain[i])
      /\ main' = SubSeq(main, 1, n) \o chain
      /\ alt' = (alt \cup IF discard THEN {} ELSE Kept(n, Len(Path[b]))) \ Range(chain)
      /\ UNCHANGED <<invalid, batch>>

(***************************************************************************)
(* Failure: the i-th block of the branch is not added.  The old blocks are *)
(* added again, up to one that is not (rollback_blockchain_switching, the  *)
(* result of which is ignored).  The i-th block and the ones after it      *)
(* become invalid, those before it stay alternatives.                      *)
(***************************************************************************)
\* MUTANT of SwitchFails: the blocks of the branch that were added are not removed before
\* the old ones are added again.
SwitchFailsKeepsBranch(b, n) ==
  LET chain == Base(b, n)
      old == Disconnected(n)
  IN  \E i \in 1..Len(chain) :
      \E r \in Results(chain[i]) \ {"added"} :
         /\ \A j \in 1..(i - 1) : "added" \in Results(chain[j])
         /\ main' = SubSeq(main, 1, n) \o SubSeq(chain, 1, i - 1) \o old
         /\ invalid' = invalid \cup Range(Base(b, n + i - 1))
         /\ alt' = (alt \cup {b}) \ Range(Base(b, n + i - 1))
         /\ batch' = [batch EXCEPT !.success = @ /\ r # "thrown", !.over = TRUE]

\* MUTANT of SwitchFails: the old blocks are not added again.
SwitchFailsForgetsOld(b, n) ==
  LET chain == Base(b, n)
  IN  \E i \in 1..Len(chain) :
      \E r \in Results(chain[i]) \ {"added"} :
         /\ \A j \in 1..(i - 1) : "added" \in Results(chain[j])
         /\ main' = SubSeq(main, 1, n)
         /\ invalid' = invalid \cup Range(Base(b, n + i - 1))
         /\ alt' = (alt \cup {b}) \ Range(Base(b, n + i - 1))
         /\ batch' = [batch EXCEPT !.success = @ /\ r # "thrown", !.over = TRUE]

SwitchFails(b, n) ==
  LET chain == Base(b, n)
      old == Disconnected(n)
  IN  \E i \in 1..Len(chain) :
      \E r \in Results(chain[i]) \ {"added"} :
      \E again \in {[k |-> Len(old), r |-> "added"]} \cup
                   UNION {[k : {k - 1}, r : ResultsAgain(old[k]) \ {"added"}] : k \in 1..Len(old)} :
         /\ \A j \in 1..(i - 1) : "added" \in Results(chain[j])
         /\ \A j \in 1..again.k : "added" \in ResultsAgain(old[j])
         /\ main' = SubSeq(main, 1, n) \o SubSeq(old, 1, again.k)
         /\ invalid' = invalid \cup Range(Base(b, n + i - 1))
         /\ alt' = (alt \cup {b}) \ Range(Base(b, n + i - 1))
         /\ batch' = [batch EXCEPT !.success = @ /\ "thrown" \notin {r, again.r},
                                   !.over = TRUE]

(***************************************************************************)
(* handle_alternative_block for a block that connects to the main chain    *)
(* through alternative blocks, or none.                                    *)
(***************************************************************************)
\* MUTANT of HandleAlternative: the longer branch wins.
HandleAlternativeLonger(b) ==
  LET n == Fork(b)
      is_a_checkpoint == Height(b) \in points
      longer == Len(main) < Len(Path[b])
  IN  /\ Parent(b) # Tip
      /\ is_alternative_block_allowed(Len(main), Height(b))
      /\ check_block(Height(b), b)
      /\ build_alt_chain(b)
      /\ \/ /\ is_a_checkpoint \/ longer
            /\ SwitchTo(b, n, is_a_checkpoint) \/ SwitchFails(b, n)
         \/ /\ ~ is_a_checkpoint /\ ~ longer
            /\ alt' = alt \cup {b}
            /\ UNCHANGED <<main, invalid, batch>>

HandleAlternative(b) ==
  LET n == Fork(b)
      is_a_checkpoint == Height(b) \in points
      heavier == Cumulative[Tip] < Cumulative[b]
  IN  /\ Parent(b) # Tip
      /\ is_alternative_block_allowed(Len(main), Height(b))
      /\ check_block(Height(b), b)
      /\ build_alt_chain(b)
      /\ \/ /\ is_a_checkpoint \/ heavier
            /\ SwitchTo(b, n, is_a_checkpoint) \/ SwitchFails(b, n)
         \/ /\ ~ is_a_checkpoint /\ ~ heavier
            /\ alt' = alt \cup {b}
            /\ UNCHANGED <<main, invalid, batch>>

\* A block that is refused by the tests above, or orphaned, and ends the run of blocks;
\* one that does not connect is left without ending it.
RefuseAlternative(b) ==
  /\ Parent(b) # Tip
  /\ \/ ~ is_alternative_block_allowed(Len(main), Height(b))
     \/ ~ check_block(Height(b), b)
     \/ Parent(b) \notin Range(main) \cup alt
  /\ batch' = [batch EXCEPT !.over = TRUE]
  /\ UNCHANGED <<main, alt, invalid>>

add_new_block(b) ==
  /\ running /\ batch.open /\ ~ batch.over
  /\ b # Genesis /\ ~ have_block(b)
  /\ AddToMain(b) \/ HandleAlternative(b) \/ RefuseAlternative(b)
  /\ UNCHANGED <<points, updating, running>>
-----------------------------------------------------------------------------
(***************************************************************************)
(* check_against_checkpoints, enforced, on chain c with the checkpoints P  *)
(* in ascending order.  It compares those below the height c had at first; *)
(* a mismatch at p rolls back to height p - 2, which wraps for p < 2 and   *)
(* then does nothing, and cannot remove the genesis block; the next        *)
(* checkpoint asks for a block that is gone and throws.                    *)
(***************************************************************************)
\* MUTANT of Enforce: the top block is not compared.
EnforceBelowTop(c, P) ==
  LET wrong == {p \in P : p >= 2 /\ p + 1 < Len(c) /\ c[p + 1] # Checkpoints[p]}
      p == Min(wrong)
  IN  IF wrong = {} THEN [main |-> c, thrown |-> FALSE]
      ELSE [main   |-> SubSeq(c, 1, IF p = 2 THEN 1 ELSE p - 2),
            thrown |-> p = 2 \/ \E q \in P : p < q /\ q < Len(c)]

Enforce(c, P) ==
  LET wrong == {p \in P : p >= 2 /\ p < Len(c) /\ c[p + 1] # Checkpoints[p]}
      p == Min(wrong)
  IN  IF wrong = {} THEN [main |-> c, thrown |-> FALSE]
      ELSE [main   |-> SubSeq(c, 1, IF p = 2 THEN 1 ELSE p - 2),
            thrown |-> p = 2 \/ \E q \in P : p < q /\ q < Len(c)]

\* core::update_checkpoints, called by handle_incoming_block, loads the checkpoints up to
\* height h.  An exception leaves m_checkpoints_updating set.
update_checkpoints(h) ==
  LET P == {p \in DOMAIN Checkpoints : p <= h}
  IN  /\ running /\ batch.open /\ ~ batch.over /\ ~ updating
      /\ points \subseteq P
      /\ points' = P
      /\ main' = Enforce(main, P).main
      /\ updating' = Enforce(main, P).thrown
      /\ UNCHANGED <<alt, invalid, batch, running>>

(***************************************************************************)
(* prepare_handle_incoming_blocks, cleanup_handle_incoming_blocks.         *)
(***************************************************************************)
BatchStart ==
  /\ running /\ ~ batch.open
  /\ batch' = [open |-> TRUE, main |-> main, alt |-> alt, success |-> TRUE, over |-> FALSE]
  /\ UNCHANGED <<main, alt, invalid, points, updating, running>>

BatchEnd ==
  /\ running /\ batch.open
  /\ main' = IF batch.success THEN main ELSE batch.main
  /\ alt' = IF batch.success THEN alt ELSE batch.alt
  /\ batch' = NoBatch
  /\ UNCHANGED <<invalid, points, updating, running>>

\* MUTANT of pop_blocks: the genesis block may be popped.
PopGenesis(n) ==
  /\ MayPop /\ running /\ ~ batch.open
  /\ n <= Len(main)
  /\ main' = SubSeq(main, 1, Len(main) - n)
  /\ UNCHANGED <<alt, invalid, points, batch, updating, running>>

pop_blocks(n) ==
  /\ MayPop /\ running /\ ~ batch.open
  /\ n < Len(main)
  /\ main' = SubSeq(main, 1, Len(main) - n)
  /\ UNCHANGED <<alt, invalid, points, batch, updating, running>>

flush_invalid_blocks ==
  /\ MayPop /\ running
  /\ invalid # {}
  /\ invalid' = {}
  /\ UNCHANGED <<main, alt, points, batch, updating, running>>

(***************************************************************************)
(* The daemon stops or crashes and starts again.  The database is what was *)
(* last committed; core::init enforces the checkpoints in a batch of its   *)
(* own, which an exception leaves uncommitted, and drops the alternative   *)
(* blocks unless it is told to keep them.                                  *)
(***************************************************************************)
\* MUTANT of Restart: what was committed since the last batch was opened is lost as well.
RestartLosesCommitted(keep_alt_blocks) ==
  LET e == Enforce(batch.main, points)
  IN  /\ main' = IF e.thrown THEN batch.main ELSE e.main
      /\ alt' = IF keep_alt_blocks \/ e.thrown THEN batch.alt ELSE {}
      /\ invalid' = {}
      /\ batch' = NoBatch
      /\ updating' = FALSE
      /\ running' = ~ e.thrown
      /\ UNCHANGED points

Restart(keep_alt_blocks) ==
  LET c == IF batch.open THEN batch.main ELSE main
      a == IF batch.open THEN batch.alt ELSE alt
      e == Enforce(c, points)
  IN  /\ main' = IF e.thrown THEN c ELSE e.main
      /\ alt' = IF keep_alt_blocks \/ e.thrown THEN a ELSE {}
      /\ invalid' = {}
      /\ batch' = NoBatch
      /\ updating' = FALSE
      /\ running' = ~ e.thrown
      /\ UNCHANGED points
-----------------------------------------------------------------------------
Init ==
  /\ main = <<Genesis>>
  /\ alt = {}
  /\ invalid = {}
  /\ points = Loaded
  /\ batch = NoBatch
  /\ updating = FALSE
  /\ running = TRUE

Next ==
  \/ \E b \in Block : add_new_block(b)
  \/ \E h \in DOMAIN Checkpoints : update_checkpoints(h)
  \/ BatchStart
  \/ BatchEnd
  \/ \E n \in 1..Len(main) : pop_blocks(n)
  \/ flush_invalid_blocks
  \/ \E keep_alt_blocks \in BOOLEAN : Restart(keep_alt_blocks)

Spec == Init /\ [][Next]_vars
-----------------------------------------------------------------------------
\* Every variable has its type.
TypeOK ==
  /\ main \in Seq(Block) /\ Len(main) >= 1
  /\ alt \subseteq Block
  /\ invalid \subseteq Block
  /\ points \subseteq DOMAIN Checkpoints
  /\ batch \in [open : BOOLEAN, main : Seq(Block), alt : SUBSET Block, success : BOOLEAN,
               over : BOOLEAN]
  /\ Len(batch.main) >= 1
  /\ {updating, running} \subseteq BOOLEAN

\* The main chain is the path to its top block: every block is on top of its parent,
\* whatever was switched, rolled back, popped or aborted.
MainIsPath == main = Path[Tip]

\* A block is at one place: no block of the main chain is also stored as an alternative,
\* and none that is on the main chain or an alternative is dismissed as invalid.  It is if
\* the database does not fail and no block spends a key image twice: an aborted batch makes
\* blocks alternatives again that m_invalid_blocks keeps.
OnePlace ==
  /\ Range(main) \cap alt = {}
  /\ (Range(main) \cup alt) \cap invalid = {}

\* A block that arrives never makes the main chain lighter, unless the new top block is
\* a checkpoint: not by a switch, nor by a switch that fails and is rolled back.
NeverLighter ==
  [][(\E b \in Block : add_new_block(b)) =>
        \/ Cumulative[Tip'] >= Cumulative[Tip]
        \/ Height(Tip') \in points]_vars

\* The switch whose failure invalid' records restores the main chain: blockchain.h says "If
\* any step in the reorganization process fails, the blockchain is reverted to its previous
\* state".
FailedSwitchReverts ==
  [][invalid' # invalid /\ (\E b \in Block : add_new_block(b)) => main' = main]_vars

\* No alternative branch that the node could switch to is heavier than the main chain.  A
\* branch that leaves the main chain at or below a checkpoint is not one.
HeaviestKnown ==
  \A b \in alt :
     \/ Cumulative[b] <= Cumulative[Tip]
     \/ Path[b][Fork(b)] \notin Range(main)
     \/ \E p \in points : p < Len(main) /\ Fork(b) <= p

\* The blocks of the main chain agree with the checkpoints that are loaded: those that
\* arrive are compared, and those that are there when a checkpoint is loaded are rolled
\* back.
CheckpointsHold ==
  \A p \in points : p < Len(main) => main[p + 1] = Checkpoints[p]

\* The daemon keeps what Ledger promises: blocks that arrive replace the main chain as a whole
\* or not at all, and a stop, wherever it falls, takes it back to what was last committed
\* (switch_to_alternative_blockchain, prepare_ and cleanup_handle_incoming_blocks, init).
\* It does if nobody pops blocks, the database does not fail, no block spends a key image
\* twice, nothing was pruned and the checkpoints are those compiled in.
Seen == INSTANCE Ledger WITH chain <- main, saved <- IF batch.open THEN batch.main ELSE main
KeepsLedger == Seen!Spec

\* check_against_checkpoints says "if the checkpoint is for a block we don't have yet, move
\* on": it never fails, and leaves m_checkpoints_updating clear for the next update.
UpdateCompletes == ~ updating /\ running
=============================================================================
