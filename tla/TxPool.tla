------------------------------- MODULE TxPool -------------------------------
(***************************************************************************)
(* The transaction pool of src/src/cryptonote_core/tx_pool.cpp and what    *)
(* core and Blockchain do to it: transactions that arrive from peers or in *)
(* blocks, blocks that take transactions out and give them back, pruning,  *)
(* timeouts, relaying, the block template, and restarts.                   *)
(*                                                                         *)
(* The pool lives in two places.  The database holds the metadata of each  *)
(* transaction (pool) and changes in batches that commit or are undone.    *)
(* Memory holds the spent key image index (spent), the transactions by fee *)
(* (sorted), the weight, the timed out ids and the cache of input checks;  *)
(* it is never undone, and is rebuilt only at a restart.                   *)
(*                                                                         *)
(* Every operation runs under the pool's and the blockchain's locks.  The  *)
(* loops that prune, that fill a block template and that give a block's    *)
(* transactions back are taken one transaction per step, everything else   *)
(* being disabled meanwhile; a crash can come between any two steps.       *)
(*                                                                         *)
(* Left out because no control depends on it: double_spend_seen, relayed,  *)
(* relay timestamps, m_cookie and the cache of parsed transactions.  Every *)
(* transaction of Tx passes the checks that only look at the transaction,  *)
(* and the hard fork version is at least 8 throughout.                     *)
(***************************************************************************)
EXTENDS Integers, Sequences, FiniteSets, FiniteSetsExt, Functions

CONSTANTS
  Tx,           \* transaction ids
  KeyImage,     \* key images
  Images,       \* Images[t]: the key images t spends, in the order of its inputs
  Needs,        \* Needs[t]: transactions whose outputs are members of t's rings
  Weight,       \* Weight[t]: tx_weight
  FeeRate,      \* FeeRate[t]: fee / weight, only compared
  Blocks,       \* the transaction lists of the blocks that may arrive
  Arrivals,     \* the relay methods transactions arrive with outside of blocks
  MaxWeight,    \* m_txpool_max_weight
  SizeModulus,  \* m_txpool_weight is unsigned: it wraps at this modulus
  LiveTime,     \* CRYPTONOTE_MEMPOOL_TX_LIVETIME
  AltLiveTime,  \* CRYPTONOTE_MEMPOOL_TX_FROM_ALT_BLOCK_LIVETIME
  MineStem,     \* m_mine_stem_txes
  Faults,       \* whether the database may fail to add a block
  MaxTime,      \* bound on the clock
  MaxHeight     \* bound on the length of the chain

RelayMethod == {"none", "local", "forward", "stem", "fluff", "block"}

ASSUME TxAssumption ==
  /\ Images \in [Tx -> Seq(KeyImage) \ {<<>>}]
  /\ \A t \in Tx : \A i, j \in 1..Len(Images[t]) : Images[t][i] = Images[t][j] => i = j
  /\ Needs \in [Tx -> SUBSET Tx]
  /\ Weight \in [Tx -> Nat \ {0}]
  /\ FeeRate \in [Tx -> Nat]
  /\ Blocks \subseteq Seq(Tx)
  /\ Arrivals \subseteq RelayMethod

ASSUME LimitsAssumption ==
  /\ {MaxWeight, LiveTime, AltLiveTime, MaxTime, MaxHeight} \subseteq Nat
  /\ SizeModulus \in Nat \ {0}
  /\ {MineStem, Faults} \subseteq BOOLEAN

VARIABLES
  chain,      \* the blocks above genesis: chain[h] lists the transactions of height h
  pool,       \* the txpool metadata in the database
  spent,      \* m_spent_key_images: the pool transactions that spend each key image
  sorted,     \* m_txs_by_fee_and_receive_time
  weight,     \* m_txpool_weight
  timed_out,  \* m_timed_out_transactions
  cache,      \* m_input_cache
  now,        \* the clock
  batch,      \* the open database batch: what an abort restores
  todo,       \* transactions of a popped or refused block still to be given back
  prune,      \* the prune loop: whether it runs, its iterator, what an abort restores
  template,   \* the block template that is being filled or was filled last
  running     \* FALSE once init failed and the daemon refused to start

memory == <<spent, sorted, weight, timed_out, cache>>
vars == <<chain, pool, spent, sorted, weight, timed_out, cache, now, batch, todo, prune,
          template, running>>

Rank == [none |-> 0, local |-> 1, forward |-> 2, stem |-> 3, fluff |-> 4, block |-> 5]

\* A transaction's metadata.  used is max_used_block_height, -1 while max_used_block_id is
\* null; failed is <<>> while last_failed_id is null, else <<the chain up to that block>>.
Absent == [relay |-> "absent", receive_time |-> 0, used |-> -1, failed |-> <<>>]

Ids(p) == {t \in Tx : p[t].relay # "absent"}
Kept(p, t) == p[t].relay = "block"
Legacy(p, t) == p[t].relay \in {"none", "fluff", "block"}

Spends(t) == Range(Images[t])

Locked == prune.on \/ template.on \/ todo # <<>>
NoBatch == [open |-> FALSE, pool |-> [t \in Tx |-> Absent], chain |-> <<>>, success |-> TRUE]
NoPrune == [on |-> FALSE, it |-> 0, pool |-> [t \in Tx |-> Absent]]
NoTemplate == [on |-> FALSE, it |-> 0, txs |-> {}, pool |-> [t \in Tx |-> Absent]]
-----------------------------------------------------------------------------
(***************************************************************************)
(* Blockchain::check_tx_inputs, as far as the pool sees it: key images are *)
(* unspent and the ring members are on the chain; and the height of the    *)
(* latest block it used.                                                   *)
(***************************************************************************)
OnChain(c) == UNION {Range(c[h]) : h \in 1..Len(c)}
SpentOnChain(c) == UNION {Spends(t) : t \in OnChain(c)}
InputsOk(c, t) == Spends(t) \cap SpentOnChain(c) = {} /\ Needs[t] \subseteq OnChain(c)
\* The chain c still holds the block at which it was once f.
Holds(c, f) == Len(f) <= Len(c) /\ SubSeq(c, 1, Len(f)) = f
MaxUsed(c, t) == Max({0} \cup {h \in 1..Len(c) : Range(c[h]) \cap Needs[t] # {}})

(***************************************************************************)
(* tx_memory_pool::check_tx_inputs: the answer may come from the cache,    *)
(* unless the transaction is kept by a block.  A failed check leaves the   *)
(* caller's max_used_block_id as it was.                                   *)
(***************************************************************************)
Unknown == [known |-> FALSE, ok |-> FALSE, used |-> -1]

check_tx_inputs(k, c, t, used, kept_by_block) ==
  IF ~ kept_by_block /\ k[t].known THEN k[t]
  ELSE [known |-> TRUE, ok |-> InputsOk(c, t),
        used |-> IF InputsOk(c, t) THEN MaxUsed(c, t) ELSE used]

\* Is one of t's key images spent by a pool transaction, t itself included once it
\* is publicly known (have_tx_keyimges_as_spent)?
have_tx_keyimges_as_spent(t) ==
  \E k \in Spends(t) : spent[k] # {} /\ (spent[k] # {t} \/ Legacy(pool, t))

(***************************************************************************)
(* insert_key_images stops at the first input that violates its            *)
(* assertions, after inserting the ones before it;                         *)
(* remove_transaction_keyimages stops at the first one that is missing.    *)
(***************************************************************************)
OneTxid(s, t, i, m) == m # "block" => s[Images[t][i]] \subseteq {t}
InsertOk(p, s, t, i, m) == OneTxid(s, t, i, m) /\ (t \in s[Images[t][i]] => ~ Legacy(p, t))

InsertSucceeds(p, s, t, m) == \A i \in 1..Len(Images[t]) : InsertOk(p, s, t, i, m)

insert_key_images(p, s, t, m) ==
  [k \in KeyImage |->
     IF \E i \in 1..Len(Images[t]) : /\ Images[t][i] = k
                                     /\ \A j \in 1..(i - 1) : InsertOk(p, s, t, j, m)
                                     /\ OneTxid(s, t, i, m)
     THEN s[k] \cup {t} ELSE s[k]]

\* Mutant: only the first input of each transaction is removed.
remove_first_keyimage(s, T) ==
  [k \in KeyImage |-> s[k] \ {t \in T : Images[t][1] = k}]

remove_transaction_keyimages(s, T) ==
  [k \in KeyImage |->
     s[k] \ {t \in T : \E i \in 1..Len(Images[t]) :
                          /\ Images[t][i] = k
                          /\ \A j \in 1..i : t \in s[Images[t][j]]}]

(***************************************************************************)
(* The transactions by fee, best first, then by receive time; among equals *)
(* the one inserted last comes first (txCompare answers TRUE both ways).   *)
(***************************************************************************)
Before(e, f) ==
  \/ FeeRate[e.id] > FeeRate[f.id]
  \/ FeeRate[e.id] = FeeRate[f.id] /\ e.time < f.time

Place(s, e) == Cardinality({i \in 1..Len(s) : Before(s[i], e)}) + 1
SortedInsert(s, e) ==
  SubSeq(s, 1, Place(s, e) - 1) \o <<e>> \o SubSeq(s, Place(s, e), Len(s))

\* An entry that is there already is found unless one that ties with it comes first:
\* then the search of the tree may miss it, and it is there twice.
SortedInserts(s, e) ==
  (IF e \in Range(s) THEN {s} ELSE {}) \cup
  (IF e \in Range(s) /\ s[Place(s, e)] = e THEN {} ELSE {SortedInsert(s, e)})

EraseAt(s, i) == SubSeq(s, 1, i - 1) \o SubSeq(s, i + 1, Len(s))
EraseId(s, t) ==
  LET at == {i \in 1..Len(s) : s[i].id = t}
  IN  IF at = {} THEN s ELSE EraseAt(s, Min(at))

AddWeight(w, x) == (w + x) % SizeModulus
\* Mutant: the subtraction of a signed weight.
SubSigned(w, x) == w - x
SubWeight(w, x) == (w - x) % SizeModulus
TotalWeight(S) == SumFunctionOnSet(Weight, S)
-----------------------------------------------------------------------------
(***************************************************************************)
(* tx_memory_pool::add_tx.  A refusal before the inputs are checked        *)
(* changes nothing.  A success ends in prune().                            *)
(***************************************************************************)
Store(t, m, used) ==
  /\ pool' = [pool EXCEPT ![t] =
                [relay |-> m, receive_time |-> now, used |-> used, failed |-> <<>>]]
  /\ sorted' \in SortedInserts(sorted, [id |-> t, time |-> now])

\* Mutant: the loop starts one entry too high.
StartPruneAbove == prune' = [on |-> TRUE, it |-> Len(sorted') - 1, pool |-> pool']

StartPrune == prune' = [on |-> TRUE, it |-> Len(sorted'), pool |-> pool']

AddWrongInputs(t, m) ==
  /\ m # "block"
  /\ LET r == check_tx_inputs(cache, chain, t, -1, FALSE)
     IN  ~ r.ok /\ cache' = [cache EXCEPT ![t] = r]
  /\ UNCHANGED <<pool, spent, sorted, weight, prune>>

\* Kept by a block with inputs that do not verify: stored without a verified block.
AddUnverified(t, m) ==
  /\ m = "block"
  /\ ~ InputsOk(chain, t)
  /\ spent' = insert_key_images(pool, spent, t, m)
  /\ IF InsertSucceeds(pool, spent, t, m) /\ t \notin Ids(pool)
     THEN /\ Store(t, m, -1)
          /\ weight' = AddWeight(weight, Weight[t])
          /\ StartPrune
     ELSE UNCHANGED <<pool, sorted, weight, prune>>
  /\ UNCHANGED cache

\* The inputs verify: a new transaction, one that is promoted to a more public relay
\* method, or one that stays as it is.  A stem transaction that comes back is a loop.
AddVerified(t, m) ==
  LET r == check_tx_inputs(cache, chain, t, -1, m = "block")
      relay == IF m = "stem" /\ pool[t].relay = "stem" THEN "fluff" ELSE m
      changes == t \notin Ids(pool) \/ Rank[pool[t].relay] < Rank[relay]
  IN  /\ r.ok
      /\ cache' = IF m = "block" THEN cache ELSE [cache EXCEPT ![t] = r]
      /\ spent' = IF changes THEN insert_key_images(pool, spent, t, relay) ELSE spent
      /\ IF changes /\ ~ InsertSucceeds(pool, spent, t, relay)
         THEN UNCHANGED <<pool, sorted, weight, prune>>
         ELSE /\ IF changes THEN Store(t, relay, r.used) ELSE UNCHANGED <<pool, sorted>>
              /\ weight' = AddWeight(weight, Weight[t])
              /\ StartPrune

add_tx(t, m) ==
  /\ m # "block" => t \notin timed_out /\ ~ have_tx_keyimges_as_spent(t)
  /\ AddWrongInputs(t, m) \/ AddUnverified(t, m) \/ AddVerified(t, m)
  /\ UNCHANGED timed_out

\* core::add_new_tx, which returns early for what is publicly known already.  While
\* blocks are handled in a batch, only the blocks' own transactions arrive.
AddNewTx(t, m) ==
  /\ running /\ ~ Locked
  /\ batch.open => batch.success /\ m = "block"
  /\ ~ Legacy(pool, t)
  /\ t \notin OnChain(chain)
  /\ add_tx(t, m)
  /\ template' = NoTemplate
  /\ UNCHANGED <<chain, now, batch, todo, running>>

(***************************************************************************)
(* tx_memory_pool::prune, one transaction per step from the worst entry    *)
(* up, never the first one.  An entry without metadata ends the loop       *)
(* without commit: unless an outer batch is open, the removals made so far *)
(* are undone in the database, and only there.                             *)
(***************************************************************************)
PruneStep ==
  LET t == sorted[prune.it].id
  IN  /\ prune.on
      /\ prune.it > 1 /\ weight > MaxWeight
      /\ \/ /\ t \notin Ids(pool)
            /\ pool' = IF batch.open THEN pool ELSE prune.pool
            /\ prune' = NoPrune
            /\ UNCHANGED <<spent, sorted, weight>>
         \/ /\ t \in Ids(pool) /\ Kept(pool, t)
            /\ prune' = [prune EXCEPT !.it = @ - 1]
            /\ UNCHANGED <<pool, spent, sorted, weight>>
         \/ /\ t \in Ids(pool) /\ ~ Kept(pool, t)
            /\ pool' = [pool EXCEPT ![t] = Absent]
            /\ weight' = SubWeight(weight, Weight[t])
            /\ spent' = remove_transaction_keyimages(spent, {t})
            /\ sorted' = EraseAt(sorted, prune.it)
            /\ prune' = [prune EXCEPT !.it = @ - 1]
      /\ template' = NoTemplate
      /\ UNCHANGED <<chain, timed_out, cache, now, batch, todo, running>>

PruneDone ==
  /\ prune.on
  /\ prune.it <= 1 \/ weight <= MaxWeight
  /\ prune' = NoPrune
  /\ UNCHANGED <<chain, pool, memory, now, batch, todo, template, running>>
-----------------------------------------------------------------------------
(***************************************************************************)
(* tx_memory_pool::take_tx for the transactions T, all of them present.    *)
(* Mutants: the weight, or the entry in the list by fee, is left.          *)
(***************************************************************************)
TakeAllButWeight(T) ==
  /\ pool' = [t \in Tx |-> IF t \in T THEN Absent ELSE pool[t]]
  /\ spent' = remove_transaction_keyimages(spent, T)
  /\ sorted' = FoldSet(LAMBDA t, s : EraseId(s, t), sorted, T)
  /\ UNCHANGED weight

TakeAllButSorted(T) ==
  /\ pool' = [t \in Tx |-> IF t \in T THEN Absent ELSE pool[t]]
  /\ weight' = SubWeight(weight, TotalWeight(T))
  /\ spent' = remove_transaction_keyimages(spent, T)
  /\ UNCHANGED sorted

TakeAll(T) ==
  /\ pool' = [t \in Tx |-> IF t \in T THEN Absent ELSE pool[t]]
  /\ weight' = SubWeight(weight, TotalWeight(T))
  /\ spent' = remove_transaction_keyimages(spent, T)
  /\ sorted' = FoldSet(LAMBDA t, s : EraseId(s, t), sorted, T)

\* Blockchain::flush_txes_from_pool, for one id.
FlushTx(t) ==
  /\ running /\ ~ Locked /\ ~ batch.open
  /\ t \in Ids(pool)
  /\ TakeAll({t})
  /\ template' = NoTemplate
  /\ UNCHANGED <<chain, timed_out, cache, now, batch, todo, prune, running>>

(***************************************************************************)
(* Blockchain::prepare_handle_incoming_blocks and                          *)
(* cleanup_handle_incoming_blocks: the batch around a run of blocks, and   *)
(* its abort when the database refused one of them (m_batch_success).      *)
(***************************************************************************)
BatchStart ==
  /\ running /\ ~ Locked /\ ~ batch.open
  /\ batch' = [open |-> TRUE, pool |-> pool, chain |-> chain, success |-> TRUE]
  /\ template' = NoTemplate
  /\ UNCHANGED <<chain, pool, memory, now, todo, prune, running>>

BatchEnd ==
  /\ running /\ ~ Locked /\ batch.open
  /\ pool' = IF batch.success THEN pool ELSE batch.pool
  /\ chain' = IF batch.success THEN chain ELSE batch.chain
  /\ batch' = NoBatch
  /\ template' = NoTemplate
  /\ UNCHANGED <<memory, now, todo, prune, running>>

(***************************************************************************)
(* Blockchain::handle_block_to_main_chain: the block's transactions leave  *)
(* the pool one after the other, up to the first that is on the chain, is  *)
(* unknown, or (taken too) has wrong inputs.                               *)
(***************************************************************************)
Available(b, i) ==
  /\ b[i] \notin OnChain(chain)
  /\ b[i] \in Ids(pool)
  /\ \A j \in 1..(i - 1) : b[j] # b[i]

Taken(b) ==
  SubSeq(b, 1, Max({n \in 0..Len(b) :
                      /\ \A i \in 1..n : Available(b, i)
                      /\ \A i \in 1..(n - 1) : InputsOk(chain, b[i])}))

AllTaken(b) == Taken(b) = b /\ \A i \in 1..Len(b) : InputsOk(chain, b[i])

\* m_db->add_block throws KEY_IMAGE_EXISTS for two transactions that spend one image.
Conflict(b) == \E i, j \in 1..Len(b) : i # j /\ Spends(b[i]) \cap Spends(b[j]) # {}

\* on_blockchain_inc and on_blockchain_dec: what was checked against the old chain is
\* forgotten.  Mutant: it is not.
KeepCache == UNCHANGED cache

on_blockchain_inc == cache' = [t \in Tx |-> Unknown]
on_blockchain_dec == cache' = [t \in Tx |-> Unknown]

AddBlock(b) ==
  /\ running /\ ~ Locked /\ batch.open /\ batch.success
  /\ Len(chain) < MaxHeight
  /\ AllTaken(b) /\ ~ Conflict(b)
  /\ TakeAll(Range(b))
  /\ chain' = Append(chain, b)
  /\ on_blockchain_inc
  /\ template' = NoTemplate
  /\ UNCHANGED <<timed_out, now, batch, todo, prune, running>>

\* A block that is refused after taking transactions: because one of them is missing or
\* wrong, because of its miner transaction, or because the database threw.
RefuseBlock(b) ==
  /\ running /\ ~ Locked /\ batch.open /\ batch.success
  /\ Len(chain) < MaxHeight
  /\ Taken(b) # <<>>
  /\ TakeAll(Range(Taken(b)))
  /\ todo' = Taken(b)
  /\ \/ ~ (AllTaken(b) /\ Conflict(b)) /\ UNCHANGED batch
     \/ AllTaken(b) /\ (Conflict(b) \/ Faults) /\ batch' = [batch EXCEPT !.success = FALSE]
  /\ template' = NoTemplate
  /\ UNCHANGED <<chain, timed_out, cache, now, prune, running>>

Backwards(b) == [i \in 1..Len(b) |-> b[Len(b) + 1 - i]]

\* pop_block_from_blockchain, which gives the block's transactions back and then clears
\* the cache; giving back does not read it.
PopBlock ==
  /\ running /\ ~ Locked /\ batch.open /\ batch.success
  /\ chain # <<>>
  /\ chain' = SubSeq(chain, 1, Len(chain) - 1)
  /\ todo' = Backwards(chain[Len(chain)])
  /\ on_blockchain_dec
  /\ template' = NoTemplate
  /\ UNCHANGED <<pool, spent, sorted, weight, timed_out, now, batch, prune, running>>

\* One round of return_tx_to_pool, or of the loop over popped_txs.
ReturnTx ==
  /\ running /\ ~ prune.on /\ todo # <<>>
  /\ add_tx(Head(todo), "block")
  /\ todo' = Tail(todo)
  /\ template' = NoTemplate
  /\ UNCHANGED <<chain, now, batch, running>>
-----------------------------------------------------------------------------
(***************************************************************************)
(* tx_memory_pool::set_relayed and remove_stuck_transactions.  Mutant:     *)
(* fluff is noted even of a transaction that came with a block.            *)
(***************************************************************************)
SetRelayedFluff(t, m) ==
  /\ running /\ ~ Locked /\ ~ batch.open
  /\ t \in Ids(pool)
  /\ Rank[pool[t].relay] < Rank[m] \/ m = "fluff"
  /\ pool' = [pool EXCEPT ![t].relay = m]
  /\ template' = NoTemplate
  /\ UNCHANGED <<chain, memory, now, batch, todo, prune, running>>

SetRelayed(t, m) ==
  /\ running /\ ~ Locked /\ ~ batch.open
  /\ t \in Ids(pool)
  /\ Rank[pool[t].relay] < Rank[m]
  /\ pool' = [pool EXCEPT ![t].relay = m]
  /\ template' = NoTemplate
  /\ UNCHANGED <<chain, memory, now, batch, todo, prune, running>>

Stuck(t) ==
  /\ t \in Ids(pool)
  /\ now - pool[t].receive_time > (IF Kept(pool, t) THEN AltLiveTime ELSE LiveTime)

RemoveStuck ==
  LET T == {t \in Tx : Stuck(t)}
  IN  /\ running /\ ~ Locked /\ ~ batch.open
      /\ T # {}
      /\ TakeAll(T)
      /\ timed_out' = timed_out \cup T
      /\ template' = NoTemplate
      /\ UNCHANGED <<chain, cache, now, batch, todo, prune, running>>

Tick ==
  /\ now < MaxTime
  /\ now' = now + 1
  /\ UNCHANGED <<chain, pool, memory, batch, todo, prune, template, running>>

(***************************************************************************)
(* is_transaction_ready_to_go: not while the block it last failed at is    *)
(* still on the chain or the block it used is not; else the inputs are     *)
(* checked, and the outcome is noted in the metadata.                      *)
(***************************************************************************)
is_transaction_ready_to_go(md, k, t) ==
  LET barred == \/ md.failed # <<>> /\ Holds(chain, md.failed[1])
                \/ md.used > Len(chain)
      r == check_tx_inputs(k, chain, t, md.used, FALSE)
  IN  IF barred THEN [ready |-> FALSE, md |-> md, cache |-> k]
      ELSE [ready |-> r.ok /\ Spends(t) \cap SpentOnChain(chain) = {},
            md    |-> [md EXCEPT !.used = r.used, !.failed = IF r.ok THEN @ ELSE <<chain>>],
            cache |-> [k EXCEPT ![t] = r]]

(***************************************************************************)
(* fill_block_template: the pool in order of fee, one entry per step.  The *)
(* weight and the reward tests may leave any transaction out.              *)
(***************************************************************************)
Eligible(md) ==
  \/ md.relay \in {"none", "fluff", "block"}
  \/ MineStem /\ md.relay = "stem"

\* Mutant: append_key_images is not called, and nothing is ever found.
never_have_key_images(T, t) == FALSE

have_key_images(T, t) == \E u \in T : Spends(t) \cap Spends(u) # {}

FillStart ==
  /\ running /\ ~ Locked /\ ~ batch.open
  /\ template' = [on |-> TRUE, it |-> 1, txs |-> {}, pool |-> pool]
  /\ UNCHANGED <<chain, pool, memory, now, batch, todo, prune, running>>

FillSkip ==
  /\ template.on /\ template.it <= Len(sorted)
  /\ template' = [template EXCEPT !.it = @ + 1]
  /\ UNCHANGED <<chain, pool, memory, now, batch, todo, prune, running>>

FillConsider ==
  LET t == sorted[template.it].id
      r == is_transaction_ready_to_go(pool[t], cache, t)
  IN  /\ template.on /\ template.it <= Len(sorted)
      /\ t \in Ids(pool) /\ Eligible(pool[t])
      /\ pool' = [pool EXCEPT ![t] = r.md]
      /\ cache' = r.cache
      /\ template' = [on   |-> TRUE,
                      it   |-> template.it + 1,
                      txs  |-> IF r.ready /\ ~ have_key_images(template.txs, t)
                               THEN template.txs \cup {t} ELSE template.txs,
                      pool |-> template.pool]
      /\ UNCHANGED <<chain, spent, sorted, weight, timed_out, now, batch, todo, prune, running>>

FillDone ==
  /\ template.on /\ template.it > Len(sorted)
  /\ template' = [template EXCEPT !.on = FALSE, !.it = 0, !.pool = NoTemplate.pool]
  /\ UNCHANGED <<chain, pool, memory, now, batch, todo, prune, running>>
-----------------------------------------------------------------------------
(***************************************************************************)
(* The daemon stops, or crashes, and starts again: the database is what    *)
(* was last committed, tx_memory_pool::init rebuilds the memory from it    *)
(* and refuses if two transactions that no block kept spend one key image, *)
(* and validate drops the transactions that are on the chain.              *)
(***************************************************************************)
CommittedPool ==
  IF batch.open THEN batch.pool
  ELSE IF prune.on THEN prune.pool
  ELSE IF template.on THEN template.pool ELSE pool
CommittedChain == IF batch.open THEN batch.chain ELSE chain

\* Mutant: transactions are loaded in one pass, so that one kept by a block may come first.
InitSucceedsOnePass(p) ==
  \A t, u \in Ids(p) : t # u /\ ~ Kept(p, t) => Spends(t) \cap Spends(u) = {}

InitSucceeds(p) ==
  \A t, u \in Ids(p) :
     t # u /\ ~ Kept(p, t) /\ ~ Kept(p, u) => Spends(t) \cap Spends(u) = {}

Rebuild(p) ==
  /\ pool' = p
  /\ spent' = [k \in KeyImage |-> {t \in Ids(p) : k \in Spends(t)}]
  /\ sorted' = FoldSet(LAMBDA e, s : SortedInsert(s, e), <<>>,
                       {[id |-> t, time |-> p[t].receive_time] : t \in Ids(p)})
  /\ weight' = TotalWeight(Ids(p)) % SizeModulus

Restart ==
  LET p == CommittedPool
      c == CommittedChain
  IN  /\ chain' = c
      /\ IF InitSucceeds(p)
         THEN running' = TRUE /\ Rebuild([t \in Tx |-> IF t \in OnChain(c) THEN Absent ELSE p[t]])
         ELSE running' = FALSE /\ pool' = p /\ spent' = [k \in KeyImage |-> {}]
              /\ sorted' = <<>> /\ weight' = 0
      /\ timed_out' = {}
      /\ cache' = [t \in Tx |-> Unknown]
      /\ batch' = NoBatch
      /\ todo' = <<>>
      /\ prune' = NoPrune
      /\ template' = NoTemplate
      /\ UNCHANGED now
-----------------------------------------------------------------------------
Init ==
  /\ chain = <<>>
  /\ pool = [t \in Tx |-> Absent]
  /\ spent = [k \in KeyImage |-> {}]
  /\ sorted = <<>>
  /\ weight = 0
  /\ timed_out = {}
  /\ cache = [t \in Tx |-> Unknown]
  /\ now = 0
  /\ batch = NoBatch
  /\ todo = <<>>
  /\ prune = NoPrune
  /\ template = NoTemplate
  /\ running = TRUE

Next ==
  \/ \E t \in Tx, m \in Arrivals : AddNewTx(t, m)
  \/ PruneStep
  \/ PruneDone
  \/ \E t \in Tx : FlushTx(t)
  \/ BatchStart
  \/ BatchEnd
  \/ \E b \in Blocks : AddBlock(b) \/ RefuseBlock(b)
  \/ PopBlock
  \/ ReturnTx
  \/ \E t \in Tx, m \in {"local", "stem", "fluff"} : SetRelayed(t, m)
  \/ RemoveStuck
  \/ Tick
  \/ FillStart
  \/ FillSkip
  \/ FillConsider
  \/ FillDone
  \/ Restart

Spec == Init /\ [][Next]_vars
-----------------------------------------------------------------------------
Metadata ==
  [relay : RelayMethod \cup {"absent"}, receive_time : Nat, used : Nat \cup {-1},
   failed : Seq(Seq(Seq(Tx)))]

\* Every variable has its type.
TypeOK ==
  /\ chain \in Seq(Seq(Tx))
  /\ pool \in [Tx -> Metadata]
  /\ spent \in [KeyImage -> SUBSET Tx]
  /\ sorted \in Seq([id : Tx, time : Nat])
  /\ weight \in 0..(SizeModulus - 1)
  /\ timed_out \in SUBSET Tx
  /\ cache \in [Tx -> [known : BOOLEAN, ok : BOOLEAN, used : Nat \cup {-1}]]
  /\ now \in Nat
  /\ batch \in [open : BOOLEAN, pool : [Tx -> Metadata], chain : Seq(Seq(Tx)), success : BOOLEAN]
  /\ todo \in Seq(Tx)
  /\ prune \in [on : BOOLEAN, it : Nat, pool : [Tx -> Metadata]]
  /\ template \in [on : BOOLEAN, it : Nat, txs : SUBSET Tx,
                  pool : [Tx -> Metadata]]
  /\ running \in BOOLEAN

\* Every transaction the spent key image index names is in the pool and spends that key
\* image: a key image counts as spent in the pool only while the pool holds a spender.
IndexSound == \A k \in KeyImage : spent[k] \subseteq {t \in Ids(pool) : k \in Spends(t)}

\* Two pool transactions spend one key image only if at least one of them came with a
\* block: what add_tx promises through the index, seen in the database.
NoDoubleSpend ==
  running => \A t, u \in Ids(pool) :
                t # u /\ Spends(t) \cap Spends(u) # {} => Kept(pool, t) \/ Kept(pool, u)

\* The input checks that are cached are those of the current chain.
CacheFresh == \A t \in Tx : cache[t].known => (cache[t].ok <=> InputsOk(chain, t))

\* The transactions of a block template can go into one block on top of the chain: they
\* are in the pool, their inputs verify, and no two of them spend one key image.
TemplateValid ==
  /\ \A t \in template.txs : t \in Ids(pool) \ OnChain(chain) /\ InputsOk(chain, t)
  /\ \A t, u \in template.txs : t # u => Spends(t) \cap Spends(u) = {}

\* The weight is the total weight of the transactions in the pool.
WeightExact == running => weight = TotalWeight(Ids(pool)) % SizeModulus

\* The index and the list by fee hold exactly the transactions of the pool, each once,
\* in the order of fee and time.
MemoryExact ==
  running =>
    /\ spent = [k \in KeyImage |-> {t \in Ids(pool) : k \in Spends(t)}]
    /\ Range(sorted) = {[id |-> t, time |-> pool[t].receive_time] : t \in Ids(pool)}
    /\ Len(sorted) = Cardinality(Ids(pool))
    /\ \A i, j \in 1..Len(sorted) : i < j => ~ Before(sorted[j], sorted[i])

\* Pruning leaves the pool over its limit only if it may remove nothing more: every
\* transaction but the best one was kept by a block.
PruneEnforcesLimit ==
  [][PruneDone => \/ weight <= MaxWeight
                  \/ \A i \in 2..Len(sorted) : Kept(pool, sorted[i].id)]_vars

\* tx_memory_pool::init returns true: what was committed never keeps the daemon from starting.
InitReturnsTrue == running
=============================================================================
