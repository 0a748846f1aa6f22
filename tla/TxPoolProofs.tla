---------------------------- MODULE TxPoolProofs ----------------------------
(***************************************************************************)
(* Proofs about TxPool, for every set of transactions and blocks and every *)
(* limit: the index of spent key images is sound as long as no batch is    *)
(* aborted, and, aborted batches or not, the cached input checks are those *)
(* of the current chain and the templates built from them are valid.  Last *)
(* comes what adding and dropping transactions does to the memory of the   *)
(* pool, which TxPoolExactProofs rests on.                                 *)
(***************************************************************************)
EXTENDS TxPoolTypeProofs

\* Leaves that name no prover are for the SMT solver first, with time to spare.
USE SMTT(60), ZenonT(60), SMTT(120)

(***************************************************************************)
(* The cache of input checks.  It changes with the chain: a batch that     *)
(* changed the chain has emptied it, and while the batch is open nothing   *)
(* is cached, so that aborting the batch leaves no stale answer.           *)
(***************************************************************************)
Fresh(k, c) == \A t \in Tx : k[t].known => (k[t].ok <=> InputsOk(c, t))

CacheInv ==
  /\ Fresh(cache, chain)
  /\ batch.open => chain = batch.chain \/ \A t \in Tx : ~ cache[t].known
  /\ template.on => ~ batch.open

\* An input check answers for the current chain, be it from the cache.
LEMMA CheckFresh ==
  ASSUME NEW k \in [Tx -> CacheEntry], NEW c, NEW t \in Tx, NEW used, NEW kept, Fresh(k, c)
  PROVE  check_tx_inputs(k, c, t, used, kept).ok <=> InputsOk(c, t)
<1>1. CASE ~ kept /\ k[t].known
  BY <1>1 DEF check_tx_inputs, Fresh
<1>2. CASE ~ (~ kept /\ k[t].known)
  <2>1. check_tx_inputs(k, c, t, used, kept)
          = [known |-> TRUE, ok |-> InputsOk(c, t),
             used |-> IF InputsOk(c, t) THEN MaxUsed(c, t) ELSE used]
    BY <1>2 DEF check_tx_inputs
  <2>2. check_tx_inputs(k, c, t, used, kept).ok = InputsOk(c, t)
    BY <2>1
  <2> QED
    BY <2>2
<1> QED
  BY <1>1, <1>2

\* The cache with one more answer in it.
LEMMA CacheUpdate ==
  ASSUME NEW k \in [Tx -> CacheEntry], NEW c, NEW t \in Tx, NEW used, NEW kept, Fresh(k, c)
  PROVE  Fresh([k EXCEPT ![t] = check_tx_inputs(k, c, t, used, kept)], c)
<1> DEFINE r == check_tx_inputs(k, c, t, used, kept)
<1>1. r.ok <=> InputsOk(c, t)
  BY CheckFresh
<1> HIDE DEF r
<1>2. [k EXCEPT ![t] = r][t] = r /\ \A u \in Tx : u # t => [k EXCEPT ![t] = r][u] = k[u]
  OBVIOUS
<1>3. ASSUME NEW u \in Tx, [k EXCEPT ![t] = r][u].known
      PROVE  [k EXCEPT ![t] = r][u].ok <=> InputsOk(c, u)
  <2>1. CASE u = t
    BY <1>1, <1>2, <2>1
  <2>2. CASE u # t
    BY <1>2, <1>3, <2>2 DEF Fresh
  <2> QED
    BY <2>1, <2>2
<1>4. Fresh([k EXCEPT ![t] = r], c)
  BY <1>3 DEF Fresh
<1> QED
  BY <1>4 DEF r

\* A transaction that is_transaction_ready_to_go accepts has inputs that verify.
LEMMA ReadyFresh ==
  ASSUME PoolTyped, Fresh(cache, chain), NEW t \in Tx
  PROVE  LET r == is_transaction_ready_to_go(pool[t], cache, t)
         IN  Fresh(r.cache, chain) /\ (r.ready => InputsOk(chain, t))
<1> DEFINE md == pool[t]
           c == check_tx_inputs(cache, chain, t, md.used, FALSE)
           barred == \/ md.failed # <<>> /\ Holds(chain, md.failed[1])
                     \/ md.used > Len(chain)
           new == [md EXCEPT !.used = c.used, !.failed = IF c.ok THEN @ ELSE <<chain>>]
           r == is_transaction_ready_to_go(md, cache, t)
<1>0. cache \in [Tx -> CacheEntry]
  BY DEF PoolTyped
<1>1. c.ok <=> InputsOk(chain, t)
  BY <1>0, CheckFresh, ZenonT(60)
<1>2. Fresh([cache EXCEPT ![t] = c], chain)
  BY <1>0, CacheUpdate, ZenonT(60)
<1>3. r = IF barred THEN [ready |-> FALSE, md |-> md, cache |-> cache]
          ELSE [ready |-> c.ok /\ Spends(t) \cap SpentOnChain(chain) = {},
                md |-> new, cache |-> [cache EXCEPT ![t] = c]]
  BY DEF is_transaction_ready_to_go
<1> HIDE DEF c, barred, new
<1>4. CASE barred
  BY <1>3, <1>4
<1>5. CASE ~ barred
  <2>1. /\ r.ready = (c.ok /\ Spends(t) \cap SpentOnChain(chain) = {})
        /\ r.cache = [cache EXCEPT ![t] = c]
    BY <1>3, <1>5
  <2> QED
    BY <1>1, <1>2, <2>1, ZenonT(60)
<1> QED
  BY <1>4, <1>5

\* Adding a transaction keeps the cache fresh.
LEMMA AddCache ==
  ASSUME PoolTyped, CacheInv, NEW t \in Tx, NEW m, add_tx(t, m)
  PROVE  Fresh(cache', chain) /\ (m = "block" => cache' = cache)
<1>1. cache' = cache \/ (m # "block" /\ \E used, kept :
        cache' = [cache EXCEPT ![t] = check_tx_inputs(cache, chain, t, used, kept)])
  <2>1. CASE AddWrongInputs(t, m)
    BY <2>1, ZenonT(60) DEF AddWrongInputs
  <2>2. CASE AddUnverified(t, m)
    BY <2>2 DEF AddUnverified
  <2>3. CASE AddVerified(t, m)
    BY <2>3 DEF AddVerified
  <2> QED
    BY <2>1, <2>2, <2>3 DEF add_tx
<1>2. cache \in [Tx -> CacheEntry] /\ Fresh(cache, chain)
  BY DEF PoolTyped, CacheInv
<1>3. CASE cache' = cache
  BY <1>2, <1>3
<1>4. CASE cache' # cache
  <2>1. PICK used, kept :
          cache' = [cache EXCEPT ![t] = check_tx_inputs(cache, chain, t, used, kept)]
    BY <1>1, <1>4
  <2>2. Fresh([cache EXCEPT ![t] = check_tx_inputs(cache, chain, t, used, kept)], chain)
    BY <1>2, CacheUpdate, ZenonT(60)
  <2> QED
    BY <1>1, <1>4, <2>1, <2>2
<1> QED
  BY <1>3, <1>4

\* Every operation keeps the cache fresh.
LEMMA CacheNext == PoolTyped /\ CacheInv /\ [Next]_vars => CacheInv'
<1> SUFFICES ASSUME PoolTyped, CacheInv, [Next]_vars PROVE CacheInv'
  OBVIOUS
<1>a. ASSUME cache' = [t \in Tx |-> Unknown], template' = NoTemplate PROVE CacheInv'
  BY <1>a DEF CacheInv, Fresh, Unknown, NoTemplate
<1>b. ASSUME UNCHANGED <<chain, cache, batch>>, template'.on => template.on PROVE CacheInv'
  BY <1>b DEF CacheInv, Fresh
<1>c. ~ NoTemplate.on /\ ~ NoBatch.open
  BY DEF NoTemplate, NoBatch
<1>1. ASSUME NEW t \in Tx, NEW m \in Arrivals, AddNewTx(t, m) PROVE CacheInv'
  <2>1. /\ add_tx(t, m) /\ UNCHANGED <<chain, batch>> /\ template' = NoTemplate
        /\ batch.open => m = "block"
    BY <1>1 DEF AddNewTx
  <2>2. Fresh(cache', chain) /\ (m = "block" => cache' = cache)
    BY <2>1, AddCache
  <2> QED
    BY <1>c, <2>1, <2>2 DEF CacheInv
<1>2. CASE PruneStep
  BY <1>2, <1>b, <1>c DEF PruneStep
<1>3. CASE PruneDone
  BY <1>3, <1>b DEF PruneDone, memory
<1>4. ASSUME NEW t \in Tx, FlushTx(t) PROVE CacheInv'
  BY <1>4, <1>b, <1>c DEF FlushTx
<1>5. CASE BatchStart
  BY <1>5, <1>c DEF BatchStart, CacheInv, Fresh, memory
<1>6. CASE BatchEnd
  <2>1. /\ cache' = cache /\ batch' = NoBatch /\ batch.open /\ template' = NoTemplate
        /\ chain' = IF batch.success THEN chain ELSE batch.chain
    BY <1>6 DEF BatchEnd, memory
  <2>2. Fresh(cache, chain')
    <3>1. CASE chain' = chain
      BY <3>1 DEF CacheInv
    <3>2. CASE chain' # chain
      BY <2>1, <3>2 DEF CacheInv, Fresh
    <3> QED
      BY <3>1, <3>2
  <2> QED
    BY <1>c, <2>1, <2>2 DEF CacheInv
<1>7. ASSUME NEW b \in Blocks, AddBlock(b) PROVE CacheInv'
  BY <1>7, <1>a DEF AddBlock, on_blockchain_inc
<1>8. ASSUME NEW b \in Blocks, RefuseBlock(b) PROVE CacheInv'
  <2>1. /\ UNCHANGED <<chain, cache>> /\ template' = NoTemplate
        /\ batch' = batch \/ batch' = [batch EXCEPT !.success = FALSE]
    BY <1>8 DEF RefuseBlock
  <2>2. batch'.open = batch.open /\ batch'.chain = batch.chain
    BY <2>1 DEF PoolTyped
  <2> QED
    BY <1>c, <2>1, <2>2 DEF CacheInv, Fresh
<1>9. CASE PopBlock
  BY <1>9, <1>a DEF PopBlock, on_blockchain_dec
<1>10. CASE ReturnTx
  <2>1. /\ add_tx(Head(todo), "block") /\ UNCHANGED <<chain, batch>> /\ Head(todo) \in Tx
        /\ template' = NoTemplate
    BY <1>10 DEF ReturnTx, PoolTyped
  <2>2. cache' = cache
    BY <2>1, AddCache
  <2> QED
    BY <1>b, <1>c, <2>1, <2>2
<1>11. ASSUME NEW t \in Tx, NEW m \in {"local", "stem", "fluff"}, SetRelayed(t, m) PROVE CacheInv'
  BY <1>11, <1>b, <1>c DEF SetRelayed, memory
<1>12. CASE RemoveStuck
  BY <1>12, <1>b, <1>c DEF RemoveStuck
<1>13. CASE Tick
  BY <1>13, <1>b DEF Tick, memory
<1>14. CASE FillStart
  BY <1>14 DEF FillStart, CacheInv, Fresh, memory
<1>15. CASE FillSkip
  <2>1. template.on /\ UNCHANGED <<chain, cache, batch>>
    BY <1>15 DEF FillSkip, memory
  <2> QED
    BY <1>b, <2>1
<1>16. CASE FillConsider
  <2> DEFINE t == sorted[template.it].id
             r == is_transaction_ready_to_go(pool[t], cache, t)
  <2>1. t \in Tx /\ cache' = r.cache /\ UNCHANGED <<chain, batch>> /\ template.on
    BY <1>16 DEF FillConsider, Ids
  <2>2. Fresh(r.cache, chain)
    BY <2>1, ReadyFresh DEF CacheInv
  <2> HIDE DEF t, r
  <2> QED
    BY <2>1, <2>2 DEF CacheInv
<1>17. CASE FillDone
  <2>1. template.on /\ UNCHANGED <<chain, cache, batch>>
    BY <1>17 DEF FillDone, memory
  <2> QED
    BY <1>b, <2>1
<1>18. CASE Restart
  BY <1>18, <1>a DEF Restart
<1>19. CASE UNCHANGED vars
  BY <1>19, <1>b DEF vars
<1> QED
  BY <1>1, <1>2, <1>3, <1>4, <1>5, <1>6, <1>7, <1>8, <1>9, <1>10, <1>11, <1>12, <1>13,
     <1>14, <1>15, <1>16, <1>17, <1>18, <1>19 DEF Next

\* The invariant holds throughout.
LEMMA CacheHolds == Spec => []CacheInv
<1>1. Init => CacheInv
  BY DEF Init, CacheInv, Fresh, Unknown, NoBatch, NoTemplate
<1> QED
  BY <1>1, TypesHold, CacheNext, PTL DEF Spec

\* The cached input checks are those of the current chain, whatever happened to the
\* batches the chain was changed in (m_input_cache, on_blockchain_inc, on_blockchain_dec).
THEOREM CacheIsFresh == Spec => []CacheFresh
<1>1. CacheInv => CacheFresh
  BY DEF CacheInv, CacheFresh, Fresh
<1> QED
  BY <1>1, CacheHolds, PTL
-----------------------------------------------------------------------------
(***************************************************************************)
(* The block template.                                                     *)
(***************************************************************************)
\* A transaction whose inputs verify is not on the chain: its key images would be spent.
LEMMA ValidIsNew ==
  ASSUME NEW c, NEW t \in Tx, InputsOk(c, t)
  PROVE  t \notin OnChain(c)
<1> SUFFICES ASSUME t \in OnChain(c) PROVE FALSE
  OBVIOUS
<1>0. 1 \in 1..Len(Images[t]) /\ Spends(t) = {Images[t][i] : i \in 1..Len(Images[t])}
  BY ImagesType
<1>1. PICK k : k \in Spends(t)
  <2>1. Images[t][1] \in {Images[t][i] : i \in 1..Len(Images[t])}
    BY <1>0
  <2> QED
    BY <1>0, <2>1, ZenonT(60)
<1>2. k \in SpentOnChain(c)
  BY <1>1 DEF SpentOnChain
<1> QED
  BY <1>1, <1>2 DEF InputsOk

TemplateInv ==
  /\ \A t \in template.txs : t \in Ids(pool) /\ InputsOk(chain, t)
  /\ \A t, u \in template.txs : t # u => Spends(t) \cap Spends(u) = {}

\* Every operation keeps the template valid.
LEMMA TemplateNext ==
  PoolTyped /\ CacheInv /\ TemplateInv /\ [Next]_vars => TemplateInv'
<1> SUFFICES ASSUME PoolTyped, CacheInv, TemplateInv, [Next]_vars PROVE TemplateInv'
  OBVIOUS
<1>a. ASSUME template'.txs = {} PROVE TemplateInv'
  BY <1>a DEF TemplateInv
<1>b. ASSUME template'.txs = template.txs, UNCHANGED <<chain, pool>> PROVE TemplateInv'
  BY <1>b DEF TemplateInv, Ids
<1>c. NoTemplate.txs = {}
  BY DEF NoTemplate
<1>1. ASSUME NEW t \in Tx, NEW m \in Arrivals, AddNewTx(t, m) PROVE TemplateInv'
  BY <1>1, <1>a, <1>c DEF AddNewTx
<1>2. CASE PruneStep
  BY <1>2, <1>a, <1>c DEF PruneStep
<1>3. CASE PruneDone
  BY <1>3, <1>b DEF PruneDone
<1>4. ASSUME NEW t \in Tx, FlushTx(t) PROVE TemplateInv'
  BY <1>4, <1>a, <1>c DEF FlushTx
<1>5. CASE BatchStart
  BY <1>5, <1>a, <1>c DEF BatchStart
<1>6. CASE BatchEnd
  BY <1>6, <1>a, <1>c DEF BatchEnd
<1>7. ASSUME NEW b \in Blocks, AddBlock(b) PROVE TemplateInv'
  BY <1>7, <1>a, <1>c DEF AddBlock
<1>8. ASSUME NEW b \in Blocks, RefuseBlock(b) PROVE TemplateInv'
  BY <1>8, <1>a, <1>c DEF RefuseBlock
<1>9. CASE PopBlock
  BY <1>9, <1>a, <1>c DEF PopBlock
<1>10. CASE ReturnTx
  BY <1>10, <1>a, <1>c DEF ReturnTx
<1>11. ASSUME NEW t \in Tx, NEW m \in {"local", "stem", "fluff"}, SetRelayed(t, m) PROVE TemplateInv'
  BY <1>11, <1>a, <1>c DEF SetRelayed
<1>12. CASE RemoveStuck
  BY <1>12, <1>a, <1>c DEF RemoveStuck
<1>13. CASE Tick
  BY <1>13, <1>b DEF Tick
<1>14. CASE FillStart
  BY <1>14, <1>a DEF FillStart
<1>15. CASE FillSkip
  <2>1. template'.txs = template.txs /\ UNCHANGED <<chain, pool>>
    BY <1>15 DEF FillSkip, PoolTyped
  <2> QED
    BY <1>b, <2>1
<1>16. CASE FillConsider
  <2> DEFINE t == sorted[template.it].id
             r == is_transaction_ready_to_go(pool[t], cache, t)
  <2>1. /\ t \in Ids(pool) /\ t \in Tx
        /\ pool' = [pool EXCEPT ![t] = r.md]
        /\ chain' = chain
    BY <1>16, ZenonT(60) DEF FillConsider, Ids
  <2>2. r.ready => InputsOk(chain, t)
    BY <2>1, ReadyFresh DEF CacheInv
  <2> DEFINE T == IF r.ready /\ ~ have_key_images(template.txs, t)
                  THEN template.txs \cup {t} ELSE template.txs
  <2>3. template' = [on |-> TRUE, it |-> template.it + 1, txs |-> T, pool |-> template.pool]
    BY <1>16, ZenonT(60) DEF FillConsider
  <2>a. template'.txs = T
    <3> HIDE DEF T
    <3> QED
      BY <2>3
  <2> HIDE DEF r, t
  <2>4. Ids(pool') = Ids(pool)
    BY <1>16, ConsiderIs
  <2>5. CASE r.ready /\ ~ have_key_images(template.txs, t)
    <3>1. template'.txs = template.txs \cup {t}
      BY <2>a, <2>5
    <3>2. \A u \in template.txs : Spends(t) \cap Spends(u) = {}
      BY <2>5 DEF have_key_images
    <3>3. \A u \in template'.txs : u \in Ids(pool') /\ InputsOk(chain', u)
      BY <2>1, <2>2, <2>4, <2>5, <3>1 DEF TemplateInv
    <3>4. \A u, v \in template'.txs : u # v => Spends(u) \cap Spends(v) = {}
      BY <3>1, <3>2 DEF TemplateInv
    <3> QED
      BY <3>3, <3>4 DEF TemplateInv
  <2>6. CASE ~ (r.ready /\ ~ have_key_images(template.txs, t))
    <3>1. template'.txs = template.txs
      BY <2>a, <2>6
    <3> QED
      BY <2>1, <2>4, <3>1 DEF TemplateInv
  <2> QED
    BY <2>5, <2>6
<1>17. CASE FillDone
  <2>1. template'.txs = template.txs /\ UNCHANGED <<chain, pool>>
    BY <1>17 DEF FillDone, PoolTyped
  <2> QED
    BY <1>b, <2>1
<1>18. CASE Restart
  BY <1>18, <1>a, <1>c DEF Restart
<1>19. CASE UNCHANGED vars
  BY <1>19, <1>b DEF vars
<1> QED
  BY <1>1, <1>2, <1>3, <1>4, <1>5, <1>6, <1>7, <1>8, <1>9, <1>10, <1>11, <1>12, <1>13,
     <1>14, <1>15, <1>16, <1>17, <1>18, <1>19 DEF Next

\* What fill_block_template chose can go into one block: it is in the pool and not on the
\* chain, its inputs verify against the chain, and no key image is spent twice.
THEOREM TemplatesAreValid == Spec => []TemplateValid
<1>1. Init => TemplateInv
  BY DEF Init, NoTemplate, TemplateInv
<1>2. PoolTyped /\ TemplateInv => TemplateValid
  BY ValidIsNew DEF TemplateInv, TemplateValid, Ids
<1> QED
  BY <1>1, <1>2, TypesHold, CacheHolds, TemplateNext, PTL DEF Spec
-----------------------------------------------------------------------------
(***************************************************************************)
(* The index of spent key images, when no batch is aborted.  Inserting and *)
(* removing stop early, but always after a prefix of the inputs: a         *)
(* transaction is in the index with a prefix of its key images (Closed),   *)
(* so that removing it from the pool removes it from the index altogether. *)
(***************************************************************************)
NoAborts == Faults = FALSE /\ \A b \in Blocks : ~ Conflict(b)

Spenders(s) == \A k \in KeyImage : \A t \in s[k] : k \in Spends(t)

Closed(s) ==
  \A t \in Tx : \A i \in 1..Len(Images[t]) : \A j \in 1..(i - 1) :
     t \in s[Images[t][i]] => t \in s[Images[t][j]]

IndexInv ==
  /\ IndexSound
  /\ Closed(spent)
  /\ batch.success
  /\ prune.on /\ ~ batch.open => Ids(pool) \subseteq Ids(prune.pool)

\* What removing the key images of the transactions T leaves in the index.
LEMMA RemoveIs ==
  ASSUME NEW s \in [KeyImage -> SUBSET Tx], NEW T \in SUBSET Tx, Spenders(s), Closed(s)
  PROVE  remove_transaction_keyimages(s, T) = [k \in KeyImage |-> s[k] \ T]
<1> SUFFICES ASSUME NEW k \in KeyImage, NEW t \in T, t \in s[k]
             PROVE  \E i \in 1..Len(Images[t]) : /\ Images[t][i] = k
                                                 /\ \A j \in 1..i : t \in s[Images[t][j]]
  BY DEF remove_transaction_keyimages
<1>1. PICK i \in 1..Len(Images[t]) : Images[t][i] = k
  BY ImagesType DEF Spenders
<1>2. \A j \in 1..(i - 1) : t \in s[Images[t][j]]
  BY <1>1 DEF Closed
<1>3. Len(Images[t]) \in Nat /\ i \in Nat
  BY ImagesType
<1>4. \A j \in 1..i : j = i \/ j \in 1..(i - 1)
  BY <1>3
<1> QED
  BY <1>1, <1>2, <1>4

\* What entering the key images of t leaves in the index.
LEMMA InsertIs ==
  ASSUME NEW p, NEW s \in [KeyImage -> SUBSET Tx], NEW t \in Tx, NEW m, Closed(s)
  PROVE  /\ \A k \in KeyImage : insert_key_images(p, s, t, m)[k] \in {s[k], s[k] \cup {t}}
         /\ \A k \in KeyImage : k \notin Spends(t) => insert_key_images(p, s, t, m)[k] = s[k]
         /\ Closed(insert_key_images(p, s, t, m))
<1> DEFINE S == insert_key_images(p, s, t, m)
           Into(k) == \E i \in 1..Len(Images[t]) :
                         /\ Images[t][i] = k
                         /\ \A j \in 1..(i - 1) : InsertOk(p, s, t, j, m)
                         /\ OneTxid(s, t, i, m)
<1>1. \A k \in KeyImage : S[k] = IF Into(k) THEN s[k] \cup {t} ELSE s[k]
  BY DEF insert_key_images
<1>2. \A k \in KeyImage : Into(k) => k \in Spends(t)
  BY ImagesType
<1>3. ASSUME NEW i \in 1..Len(Images[t]), NEW j \in 1..(i - 1), Into(Images[t][i])
      PROVE  Into(Images[t][j])
  <2>1. /\ \A n \in 1..(i - 1) : InsertOk(p, s, t, n, m)
        /\ OneTxid(s, t, i, m)
    BY <1>3, TxAssumption
  <2>2. j \in 1..Len(Images[t]) /\ \A n \in 1..(j - 1) : n \in 1..(i - 1)
    BY ImagesType
  <2>3. OneTxid(s, t, j, m)
    BY <2>1 DEF InsertOk
  <2> QED
    BY <2>1, <2>2, <2>3
<1> HIDE DEF S, Into
<1>4. ASSUME NEW u \in Tx, NEW i \in 1..Len(Images[u]), NEW j \in 1..(i - 1),
             u \in S[Images[u][i]]
      PROVE  u \in S[Images[u][j]]
  <2>1. /\ Images[u][i] \in KeyImage /\ Images[u][j] \in KeyImage
        /\ j \in 1..Len(Images[u])
    BY ImagesType
  <2> DEFINE a == Images[u][i]
             b == Images[u][j]
  <2>2. /\ S[a] = IF Into(a) THEN s[a] \cup {t} ELSE s[a]
        /\ S[b] = IF Into(b) THEN s[b] \cup {t} ELSE s[b]
    BY <1>1, <2>1, ZenonT(60)
  <2>3. u \in s[a] => u \in s[b]
    BY DEF Closed
  <2>4. u = t /\ Into(a) => Into(b)
    BY <1>3
  <2>5. u \in S[a]
    BY <1>4
  <2> HIDE DEF a, b
  <2>6. u \in S[b]
    BY <2>2, <2>3, <2>4, <2>5
  <2> QED
    BY <2>6 DEF b
<1>5. Closed(S)
  BY <1>4 DEF Closed
<1>6. \A k \in KeyImage : S[k] \in {s[k], s[k] \cup {t}} /\ (k \notin Spends(t) => S[k] = s[k])
  <2> SUFFICES ASSUME NEW k \in KeyImage
               PROVE  S[k] \in {s[k], s[k] \cup {t}} /\ (k \notin Spends(t) => S[k] = s[k])
    OBVIOUS
  <2>1. S[k] = IF Into(k) THEN s[k] \cup {t} ELSE s[k]
    BY <1>1, ZenonT(60)
  <2>2. Into(k) => k \in Spends(t)
    BY <1>2
  <2> QED
    BY <2>1, <2>2
<1> QED
  BY <1>5, <1>6 DEF S

\* What add_tx does to the index: t joins it only if t is in the pool afterwards.
LEMMA AddIndex ==
  ASSUME PoolTyped, IndexInv, NEW t \in Tx, NEW m \in RelayMethod, add_tx(t, m)
  PROVE  /\ IndexSound'
         /\ Closed(spent')
         /\ prune'.on /\ ~ batch.open => Ids(pool') \subseteq Ids(prune'.pool)
<1>0. /\ pool \in [Tx -> Metadata]
      /\ spent \in [KeyImage -> SUBSET Tx]
      /\ Closed(spent) /\ IndexSound
  BY DEF PoolTyped, IndexInv
<1>a. ASSUME UNCHANGED <<pool, spent, prune>>
      PROVE  /\ IndexSound' /\ Closed(spent')
             /\ prune'.on /\ ~ batch.open => Ids(pool') \subseteq Ids(prune'.pool)
  BY <1>a DEF IndexInv, IndexSound, Ids
<1>b. ASSUME NEW r, spent' = insert_key_images(pool, spent, t, r), t \in Ids(pool'),
             Ids(pool) \subseteq Ids(pool')
      PROVE  IndexSound' /\ Closed(spent')
  <2>1. Closed(spent')
    BY <1>0, <1>b, InsertIs
  <2>a. \A k \in KeyImage :
          insert_key_images(pool, spent, t, r)[k] \in {spent[k], spent[k] \cup {t}}
    BY <1>0, InsertIs, ZenonT(60)
  <2>b. \A k \in KeyImage :
          k \notin Spends(t) => insert_key_images(pool, spent, t, r)[k] = spent[k]
    BY <1>0, InsertIs
  <2>2. ASSUME NEW k \in KeyImage, NEW u \in spent'[k]
        PROVE  u \in Ids(pool') /\ k \in Spends(u)
    <3>1. /\ spent'[k] \in {spent[k], spent[k] \cup {t}}
          /\ k \notin Spends(t) => spent'[k] = spent[k]
      BY <1>b, <2>a, <2>b, ZenonT(60)
    <3>2. u \in spent[k] => u \in Ids(pool) /\ k \in Spends(u)
      BY <1>0 DEF IndexSound
    <3> QED
      BY <1>b, <2>2, <3>1, <3>2
  <2>3. IndexSound'
    BY <2>2 DEF IndexSound, Ids
  <2> QED
    BY <2>1, <2>3
<1>c. ASSUME NEW r \in RelayMethod, NEW u, Store(t, r, u)
      PROVE  Ids(pool') = Ids(pool) \cup {t}
  <2>1. pool' = [pool EXCEPT ![t] = [relay |-> r, receive_time |-> now, used |-> u, failed |-> <<>>]]
    BY <1>c DEF Store
  <2>2. r # "absent"
    BY DEF RelayMethod
  <2> QED
    BY <1>0, <2>1, <2>2 DEF Ids
<1>d. ASSUME StartPrune PROVE Ids(pool') \subseteq Ids(prune'.pool)
  BY <1>d DEF StartPrune
<1>e. ASSUME ~ InsertSucceeds(pool, spent, t, "block") PROVE t \in Ids(pool)
  BY <1>e DEF InsertSucceeds, InsertOk, OneTxid, Legacy, Ids
<1>1. CASE AddWrongInputs(t, m)
  BY <1>1, <1>a DEF AddWrongInputs
<1>2. CASE AddUnverified(t, m)
  <2>1. m = "block" /\ spent' = insert_key_images(pool, spent, t, m)
    BY <1>2 DEF AddUnverified
  <2>2. CASE InsertSucceeds(pool, spent, t, m) /\ t \notin Ids(pool)
    <3>1. Store(t, m, -1) /\ StartPrune
      BY <1>2, <2>2 DEF AddUnverified
    <3>2. Ids(pool') = Ids(pool) \cup {t}
      BY <1>c, <3>1
    <3> QED
      BY <1>b, <1>d, <2>1, <3>1, <3>2
  <2>3. CASE ~ (InsertSucceeds(pool, spent, t, m) /\ t \notin Ids(pool))
    <3>1. t \in Ids(pool) /\ UNCHANGED <<pool, prune>>
      BY <1>2, <1>e, <2>1, <2>3 DEF AddUnverified
    <3>2. IndexSound' /\ Closed(spent')
      BY <1>b, <2>1, <3>1
    <3> QED
      BY <3>1, <3>2 DEF IndexInv
  <2> QED
    BY <2>2, <2>3
<1>3. CASE AddVerified(t, m)
  <2> DEFINE relay == IF m = "stem" /\ pool[t].relay = "stem" THEN "fluff" ELSE m
             changes == t \notin Ids(pool) \/ Rank[pool[t].relay] < Rank[relay]
  <2>1. PICK u :
          /\ spent' = IF changes THEN insert_key_images(pool, spent, t, relay) ELSE spent
          /\ IF changes /\ ~ InsertSucceeds(pool, spent, t, relay)
             THEN UNCHANGED <<pool, sorted, weight, prune>>
             ELSE /\ IF changes THEN Store(t, relay, u) ELSE UNCHANGED <<pool, sorted>>
                  /\ weight' = AddWeight(weight, Weight[t])
                  /\ StartPrune
    BY <1>3, ZenonT(60) DEF AddVerified
  <2>2. relay \in RelayMethod
    BY DEF RelayMethod
  <2>3. ~ InsertSucceeds(pool, spent, t, relay) => relay = "block"
    <3> SUFFICES ASSUME relay # "block" PROVE InsertSucceeds(pool, spent, t, relay)
      OBVIOUS
    <3>1. ~ have_tx_keyimges_as_spent(t)
      BY DEF add_tx
    <3>2. ASSUME NEW i \in 1..Len(Images[t])
          PROVE  InsertOk(pool, spent, t, i, relay)
      <4>1. Images[t][i] \in Spends(t)
        BY ImagesType
      <4>2. \/ spent[Images[t][i]] = {}
            \/ spent[Images[t][i]] = {t} /\ ~ Legacy(pool, t)
        BY <3>1, <4>1 DEF have_tx_keyimges_as_spent
      <4> QED
        BY <4>2 DEF InsertOk, OneTxid
    <3> QED
      BY <3>2 DEF InsertSucceeds
  <2> HIDE DEF relay, changes
  <2>4. CASE changes /\ ~ InsertSucceeds(pool, spent, t, relay)
    <3>1. t \in Ids(pool) /\ UNCHANGED <<pool, prune>>
      BY <1>e, <2>1, <2>3, <2>4
    <3>2. spent' = insert_key_images(pool, spent, t, relay)
      BY <2>1, <2>4
    <3>3. IndexSound' /\ Closed(spent')
      BY <1>b, <3>1, <3>2
    <3> QED
      BY <3>1, <3>3 DEF IndexInv
  <2>5. CASE changes /\ InsertSucceeds(pool, spent, t, relay)
    <3>1. /\ Store(t, relay, u) /\ StartPrune
          /\ spent' = insert_key_images(pool, spent, t, relay)
      BY <2>1, <2>5
    <3>2. Ids(pool') = Ids(pool) \cup {t}
      BY <1>c, <2>2, <3>1
    <3> QED
      BY <1>b, <1>d, <3>1, <3>2
  <2>6. CASE ~ changes
    <3>1. UNCHANGED <<pool, spent>> /\ StartPrune
      BY <2>1, <2>6
    <3> QED
      BY <1>0, <1>d, <3>1 DEF IndexSound, Ids
  <2> QED
    BY <2>4, <2>5, <2>6
<1> QED
  BY <1>1, <1>2, <1>3 DEF add_tx

\* Taking transactions out of the pool takes them out of the index.
LEMMA TakeIndex ==
  ASSUME PoolTyped, IndexInv, NEW T \in SUBSET Tx, TakeAll(T)
  PROVE  IndexSound' /\ Closed(spent')
<1>1. /\ spent \in [KeyImage -> SUBSET Tx] /\ pool \in [Tx -> Metadata]
      /\ Closed(spent) /\ IndexSound
  BY DEF PoolTyped, IndexInv
<1>2. Spenders(spent)
  BY <1>1 DEF IndexSound, Spenders
<1>3. spent' = [k \in KeyImage |-> spent[k] \ T]
  BY <1>1, <1>2, RemoveIs, ZenonT(60) DEF TakeAll
<1>4. Ids(pool') = Ids(pool) \ T
  BY <1>1, ZenonT(60) DEF TakeAll, Ids, Absent
<1>5. IndexSound'
  <2>1. \A k \in KeyImage : spent'[k] \subseteq {t \in Ids(pool') : k \in Spends(t)}
    BY <1>1, <1>3, <1>4 DEF IndexSound
  <2> QED
    BY <2>1 DEF IndexSound, Ids
<1>6. ASSUME NEW t \in Tx, NEW i \in 1..Len(Images[t]), NEW j \in 1..(i - 1),
             t \in spent'[Images[t][i]]
      PROVE  t \in spent'[Images[t][j]]
  <2>1. Images[t][i] \in KeyImage /\ Images[t][j] \in KeyImage
    BY ImagesType
  <2>2. t \in spent[Images[t][i]] => t \in spent[Images[t][j]]
    BY <1>1 DEF Closed
  <2> QED
    BY <1>3, <1>6, <2>1, <2>2
<1> QED
  BY <1>5, <1>6 DEF Closed

\* Every operation but an abort keeps the index sound.
LEMMA IndexNext ==
  ASSUME NoAborts
  PROVE  PoolTyped /\ IndexInv /\ [Next]_vars => IndexInv'
<1> SUFFICES ASSUME PoolTyped, IndexInv, [Next]_vars PROVE IndexInv'
  OBVIOUS
<1>a. ASSUME UNCHANGED <<spent, batch, prune>>, Ids(pool') = Ids(pool) PROVE IndexInv'
  <2>1. Closed(spent)' /\ batch'.success
    BY <1>a DEF IndexInv
  <2>2. IndexSound'
    BY <1>a DEF IndexInv, IndexSound, Ids
  <2>3. prune'.on /\ ~ batch'.open => Ids(pool') \subseteq Ids(prune'.pool)
    BY <1>a DEF IndexInv
  <2> QED
    BY <2>1, <2>2, <2>3 DEF IndexInv, Ids
<1>b. ASSUME NEW T \in SUBSET Tx, TakeAll(T), ~ prune'.on, batch'.success PROVE IndexInv'
  BY <1>b, TakeIndex DEF IndexInv
<1>c. ~ NoPrune.on /\ NoBatch.success
  BY DEF NoPrune, NoBatch
<1>d. ~ Locked => ~ prune.on
  BY DEF Locked
<1>1. ASSUME NEW t \in Tx, NEW m \in Arrivals, AddNewTx(t, m) PROVE IndexInv'
  <2>1. m \in RelayMethod /\ add_tx(t, m) /\ UNCHANGED batch
    BY <1>1, TxAssumption DEF AddNewTx
  <2>2. /\ IndexSound' /\ Closed(spent')
        /\ prune'.on /\ ~ batch.open => Ids(pool') \subseteq Ids(prune'.pool)
    BY <2>1, AddIndex
  <2> QED
    BY <2>1, <2>2 DEF IndexInv, Ids
<1>2. CASE PruneStep
  <2> DEFINE t == sorted[prune.it].id
  <2>1. \/ /\ pool' = IF batch.open THEN pool ELSE prune.pool
           /\ prune' = NoPrune
           /\ UNCHANGED spent
        \/ /\ prune' = [prune EXCEPT !.it = @ - 1]
           /\ UNCHANGED <<pool, spent>>
        \/ /\ t \in Ids(pool)
           /\ pool' = [pool EXCEPT ![t] = Absent]
           /\ spent' = remove_transaction_keyimages(spent, {t})
           /\ prune' = [prune EXCEPT !.it = @ - 1]
    BY <1>2 DEF PruneStep
  <2>2. UNCHANGED batch /\ prune.on
    BY <1>2 DEF PruneStep
  <2>3. prune' = [prune EXCEPT !.it = @ - 1] => prune'.on = prune.on /\ prune'.pool = prune.pool
    <3>1. prune = [on |-> prune.on, it |-> prune.it, pool |-> prune.pool]
      BY DEF PoolTyped
    <3> QED
      BY <3>1
  <2> HIDE DEF t
  <2>4. CASE /\ pool' = IF batch.open THEN pool ELSE prune.pool
             /\ prune' = NoPrune
             /\ UNCHANGED spent
    <3>1. Ids(pool) \subseteq Ids(pool')
      BY <2>2, <2>4 DEF IndexInv
    <3>2. IndexSound'
      <4>1. \A k \in KeyImage : spent[k] \subseteq {u \in Ids(pool') : k \in Spends(u)}
        BY <3>1 DEF IndexInv, IndexSound
      <4> QED
        BY <2>4, <4>1 DEF IndexSound, Ids
    <3> QED
      BY <1>c, <2>2, <2>4, <3>2 DEF IndexInv
  <2>5. CASE prune' = [prune EXCEPT !.it = @ - 1] /\ UNCHANGED <<pool, spent>>
    <3>1. prune'.on = prune.on /\ prune'.pool = prune.pool
      BY <2>3, <2>5
    <3>2. IndexSound' /\ Closed(spent')
      BY <2>5 DEF IndexInv, IndexSound, Ids
    <3> QED
      BY <2>2, <2>5, <3>1, <3>2 DEF IndexInv, Ids
  <2>6. CASE /\ t \in Ids(pool)
             /\ pool' = [pool EXCEPT ![t] = Absent]
             /\ spent' = remove_transaction_keyimages(spent, {t})
             /\ prune' = [prune EXCEPT !.it = @ - 1]
    <3>0. /\ t \in Tx /\ pool \in [Tx -> Metadata] /\ spent \in [KeyImage -> SUBSET Tx]
          /\ Closed(spent) /\ IndexSound
      BY <2>6 DEF PoolTyped, IndexInv, Ids
    <3>1. spent' = [k \in KeyImage |-> spent[k] \ {t}]
      <4> DEFINE T == {t}
      <4>1. Spenders(spent) /\ T \in SUBSET Tx
        BY <3>0 DEF IndexSound, Spenders
      <4> HIDE DEF T
      <4>2. remove_transaction_keyimages(spent, T) = [k \in KeyImage |-> spent[k] \ T]
        BY <3>0, <4>1, RemoveIs
      <4> QED
        BY <2>6, <4>2, ZenonT(60) DEF T
    <3>2. Ids(pool') = Ids(pool) \ {t}
      BY <2>6, <3>0 DEF Ids, Absent
    <3>3. IndexSound'
      <4>1. \A k \in KeyImage : spent'[k] \subseteq {u \in Ids(pool') : k \in Spends(u)}
        BY <3>0, <3>1, <3>2 DEF IndexSound
      <4> QED
        BY <4>1 DEF IndexSound, Ids
    <3>4. ASSUME NEW u \in Tx, NEW i \in 1..Len(Images[u]), NEW j \in 1..(i - 1),
                 u \in spent'[Images[u][i]]
          PROVE  u \in spent'[Images[u][j]]
      <4>1. Images[u][i] \in KeyImage /\ Images[u][j] \in KeyImage
        BY ImagesType
      <4>2. u \in spent[Images[u][i]] => u \in spent[Images[u][j]]
        BY <3>0 DEF Closed
      <4> QED
        BY <3>1, <3>4, <4>1, <4>2
    <3>5. Closed(spent')
      BY <3>4 DEF Closed
    <3>6. prune'.on = prune.on /\ prune'.pool = prune.pool
      BY <2>3, <2>6
    <3> QED
      BY <2>2, <3>2, <3>3, <3>5, <3>6 DEF IndexInv, Ids
  <2> QED
    BY <2>1, <2>4, <2>5, <2>6
<1>3. CASE PruneDone
  <2>1. prune' = NoPrune /\ UNCHANGED <<pool, spent, batch>>
    BY <1>3 DEF PruneDone, memory
  <2>2. IndexSound' /\ Closed(spent')
    BY <2>1 DEF IndexInv, IndexSound, Ids
  <2> QED
    BY <1>c, <2>1, <2>2 DEF IndexInv
<1>4. ASSUME NEW t \in Tx, FlushTx(t) PROVE IndexInv'
  <2>1. TakeAll({t}) /\ ~ prune'.on /\ batch'.success
    BY <1>4, <1>d DEF FlushTx, IndexInv
  <2> QED
    BY <1>b, <2>1
<1>5. CASE BatchStart
  <2>1. UNCHANGED <<pool, spent, prune>> /\ ~ prune.on /\ batch'.success
    BY <1>5, <1>d DEF BatchStart, memory
  <2>2. IndexSound' /\ Closed(spent')
    BY <2>1 DEF IndexInv, IndexSound, Ids
  <2> QED
    BY <2>1, <2>2 DEF IndexInv
<1>6. CASE BatchEnd
  <2>1. UNCHANGED <<pool, spent, prune>> /\ ~ prune.on /\ batch'.success
    BY <1>6, <1>c, <1>d DEF BatchEnd, memory, IndexInv
  <2>2. IndexSound' /\ Closed(spent')
    BY <2>1 DEF IndexInv, IndexSound, Ids
  <2> QED
    BY <2>1, <2>2 DEF IndexInv
<1>7. ASSUME NEW b \in Blocks, AddBlock(b) PROVE IndexInv'
  <2>1. TakeAll(Range(b)) /\ ~ prune'.on /\ batch'.success
    BY <1>7, <1>d DEF AddBlock, IndexInv
  <2>2. Range(b) \in SUBSET Tx
    BY TxAssumption DEF Range
  <2> QED
    BY <1>b, <2>1, <2>2
<1>8. ASSUME NEW b \in Blocks, RefuseBlock(b) PROVE IndexInv'
  <2>1. TakeAll(Range(Taken(b))) /\ ~ prune'.on
    BY <1>8, <1>d DEF RefuseBlock
  <2>2. batch' = batch
    BY <1>8 DEF RefuseBlock, NoAborts
  <2>3. Range(Taken(b)) \in SUBSET Tx
    BY TakenType
  <2> QED
    BY <1>b, <2>1, <2>2, <2>3 DEF IndexInv
<1>9. CASE PopBlock
  <2>1. UNCHANGED <<pool, spent, prune, batch>>
    BY <1>9 DEF PopBlock
  <2> QED
    BY <1>a, <2>1
<1>10. CASE ReturnTx
  <2>1. /\ add_tx(Head(todo), "block") /\ Head(todo) \in Tx /\ UNCHANGED batch
        /\ "block" \in RelayMethod
    BY <1>10 DEF ReturnTx, PoolTyped, RelayMethod
  <2>2. /\ IndexSound' /\ Closed(spent')
        /\ prune'.on /\ ~ batch.open => Ids(pool') \subseteq Ids(prune'.pool)
    BY <2>1, AddIndex
  <2> QED
    BY <2>1, <2>2 DEF IndexInv, Ids
<1>11. ASSUME NEW t \in Tx, NEW m \in {"local", "stem", "fluff"}, SetRelayed(t, m) PROVE IndexInv'
  <2>0. pool \in [Tx -> Metadata] /\ pool[t] \in Metadata
    BY DEF PoolTyped
  <2>1. /\ pool' = [pool EXCEPT ![t] = [pool[t] EXCEPT !.relay = m]] /\ t \in Ids(pool)
        /\ UNCHANGED <<spent, prune, batch>>
    BY <1>11 DEF SetRelayed, memory
  <2>2. [pool[t] EXCEPT !.relay = m].relay = m /\ m # "absent"
    BY <2>0 DEF Metadata
  <2>3. Ids(pool') = Ids(pool)
    BY <2>0, <2>1, <2>2 DEF Ids
  <2> QED
    BY <1>a, <2>1, <2>3
<1>12. CASE RemoveStuck
  <2> DEFINE T == {t \in Tx : Stuck(t)}
  <2>1. TakeAll(T) /\ ~ prune'.on /\ batch'.success
    BY <1>12, <1>d DEF RemoveStuck, IndexInv
  <2>2. T \in SUBSET Tx
    OBVIOUS
  <2> HIDE DEF T
  <2> QED
    BY <1>b, <2>1, <2>2
<1>13. CASE Tick
  BY <1>13, <1>a DEF Tick, memory
<1>14. CASE FillStart
  BY <1>14, <1>a DEF FillStart, memory
<1>15. CASE FillSkip
  BY <1>15, <1>a DEF FillSkip, memory
<1>16. CASE FillConsider
  BY <1>16, <1>a, ConsiderIs
<1>17. CASE FillDone
  BY <1>17, <1>a DEF FillDone, memory
<1>18. CASE Restart
  <2>1. ~ prune'.on /\ batch'.success
    BY <1>18, <1>c DEF Restart
  <2>2. \/ spent' = [k \in KeyImage |-> {}]
        \/ spent' = [k \in KeyImage |-> {t \in Ids(pool') : k \in Spends(t)}]
    <3>1. CASE InitSucceeds(CommittedPool)
      <4>1. Rebuild([t \in Tx |-> IF t \in OnChain(CommittedChain) THEN Absent
                                  ELSE CommittedPool[t]])
        BY <1>18, <3>1 DEF Restart
      <4> QED
        BY <4>1, ZenonT(60) DEF Rebuild
    <3>2. CASE ~ InitSucceeds(CommittedPool)
      BY <1>18, <3>2 DEF Restart
    <3> QED
      BY <3>1, <3>2
  <2>3. \A k \in KeyImage : spent'[k] \subseteq {t \in Ids(pool') : k \in Spends(t)}
    BY <2>2
  <2>4. IndexSound'
    BY <2>3 DEF IndexSound, Ids
  <2>5. ASSUME NEW t \in Tx, NEW i \in 1..Len(Images[t]), NEW j \in 1..(i - 1),
               t \in spent'[Images[t][i]]
        PROVE  t \in spent'[Images[t][j]]
    <3>1. /\ Images[t][i] \in KeyImage /\ Images[t][j] \in KeyImage
          /\ Images[t][j] \in Spends(t)
      BY ImagesType
    <3> QED
      BY <2>2, <2>5, <3>1
  <2>6. Closed(spent')
    BY <2>5 DEF Closed
  <2> QED
    BY <2>1, <2>4, <2>6 DEF IndexInv
<1>19. CASE UNCHANGED vars
  BY <1>19, <1>a DEF vars
<1> QED
  BY <1>1, <1>2, <1>3, <1>4, <1>5, <1>6, <1>7, <1>8, <1>9, <1>10, <1>11, <1>12, <1>13,
     <1>14, <1>15, <1>16, <1>17, <1>18, <1>19 DEF Next

\* As long as the database refuses no block, a key image is in the index only while the
\* pool holds a transaction that spends it: the early returns of insert_key_images and
\* remove_transaction_keyimages and the removals undone by an interrupted prune leave
\* nothing behind.
THEOREM IndexIsSound ==
  ASSUME NoAborts
  PROVE  Spec => []IndexSound
<1>1. Init => IndexInv
  <2> SUFFICES ASSUME Init PROVE IndexInv
    OBVIOUS
  <2>1. spent = [k \in KeyImage |-> {}] /\ batch.success /\ ~ prune.on
    BY DEF Init, NoBatch, NoPrune
  <2>2. IndexSound
    BY <2>1 DEF IndexSound
  <2>3. \A t \in Tx : \A i \in 1..Len(Images[t]) : Images[t][i] \in KeyImage
    BY ImagesType
  <2>4. Closed(spent)
    BY <2>1, <2>3 DEF Closed
  <2> QED
    BY <2>1, <2>2, <2>4 DEF IndexInv
<1>2. IndexInv => IndexSound
  BY DEF IndexInv
<1>3. PoolTyped /\ IndexInv /\ [Next]_vars => IndexInv'
  BY IndexNext
<1> QED
  BY <1>1, <1>2, <1>3, TypesHold, PTL DEF Spec

-----------------------------------------------------------------------------
(***************************************************************************)
(* The memory of the pool, when transactions arrive only with the methods  *)
(* fluff and block and no batch is aborted.  A transaction is then added   *)
(* only while the pool does not have it, and that is what keeps memory and *)
(* database together: core::add_new_tx refuses what is publicly known, and *)
(* what a popped or refused block gives back is neither in the pool nor on *)
(* the chain (PlacesInv).  Whatever a restart goes back to, the pools of   *)
(* the open batch, prune loop or template included, is free of double      *)
(* spends (PoolsInv), and so the daemon always starts.                     *)
(***************************************************************************)
Public(p) == \A t \in Tx : p[t].relay \in {"absent", "fluff", "block"}
Sane(p) == Public(p) /\ InitSucceeds(p)
SpendersIn(p) == [k \in KeyImage |-> {t \in Ids(p) : k \in Spends(t)}]

\* No transaction is twice on the chain.
Once(c) ==
  \A g, h \in 1..Len(c) : \A i \in 1..Len(c[g]), j \in 1..Len(c[h]) :
     c[g][i] = c[h][j] => g = h /\ i = j

PoolsInv ==
  /\ running /\ batch.success
  /\ Sane(pool) /\ Sane(batch.pool) /\ Sane(prune.pool) /\ Sane(template.pool)

PlacesInv ==
  /\ Once(chain) /\ Once(batch.chain)
  /\ Ids(pool) \cap OnChain(chain) = {}
  /\ \A i \in 1..Len(todo) : todo[i] \notin Ids(pool) /\ todo[i] \notin OnChain(chain)
  /\ \A i, j \in 1..Len(todo) : todo[i] = todo[j] => i = j

MemoryInv ==
  /\ spent = SpendersIn(pool)
  /\ Lists(sorted, Times(pool), Ids(pool))
  /\ weight = TotalWeight(Ids(pool)) % SizeModulus

PruneInv ==
  prune.on => \A i \in (prune.it + 1)..Len(sorted) : Kept(pool, sorted[i].id)

ExactInv == PoolsInv /\ PlacesInv /\ MemoryInv /\ PruneInv

\* The instances the proofs are about.
PublicOnly == NoAborts /\ Arrivals \subseteq {"fluff", "block"} /\ IsFiniteSet(Tx)

\* Without some of its transactions, a pool is as sane as before.
LEMMA SaneSubset ==
  ASSUME NEW p \in [Tx -> Metadata], NEW q \in [Tx -> Metadata], Sane(p),
         \A t \in Tx : q[t] = p[t] \/ q[t] = Absent
  PROVE  Sane(q)
<1>1. \A t \in Tx : q[t].relay = p[t].relay \/ q[t].relay = "absent"
  BY DEF Absent
<1>2. Public(q)
  BY <1>1 DEF Sane, Public
<1>3. \A t \in Ids(q) : t \in Ids(p) /\ (Kept(p, t) => Kept(q, t))
  BY <1>1 DEF Ids, Kept
<1>4. InitSucceeds(q)
  BY <1>3, ZenonT(60) DEF Sane, InitSucceeds
<1> QED
  BY <1>2, <1>4 DEF Sane

\* Dropping transactions T from pool, index and weight keeps the three in step.
LEMMA DropExact ==
  ASSUME IsFiniteSet(Tx), PoolTyped, MemoryInv, Sane(pool), NEW T \in SUBSET Ids(pool),
         pool' = [t \in Tx |-> IF t \in T THEN Absent ELSE pool[t]],
         spent' = remove_transaction_keyimages(spent, T),
         weight' = SubWeight(weight, TotalWeight(T))
  PROVE  /\ Sane(pool') /\ pool' \in [Tx -> Metadata]
         /\ Ids(pool') = Ids(pool) \ T
         /\ spent' = SpendersIn(pool')
         /\ weight' = TotalWeight(Ids(pool')) % SizeModulus
         /\ \A t \in Ids(pool') : Times(pool')[t] = Times(pool)[t] /\ pool'[t] = pool[t]
<1>0. pool \in [Tx -> Metadata] /\ spent \in [KeyImage -> SUBSET Tx] /\ T \in SUBSET Tx
  BY DEF PoolTyped, Ids
<1>1. pool' \in [Tx -> Metadata]
  BY <1>0, AbsentType
<1>2. \A t \in Tx : pool'[t] = IF t \in T THEN Absent ELSE pool[t]
  OBVIOUS
<1>3. Sane(pool')
  <2> DEFINE q == pool'
  <2>1. \A t \in Tx : q[t] = pool[t] \/ q[t] = Absent
    BY <1>2, ZenonT(60)
  <2>2. q \in [Tx -> Metadata]
    BY <1>1
  <2> HIDE DEF q
  <2>3. Sane(q)
    BY <1>0, <2>1, <2>2, SaneSubset
  <2> QED
    BY <2>3 DEF q
<1>4. Ids(pool') = Ids(pool) \ T
  BY <1>0, <1>2, ZenonT(60) DEF Ids, Absent
<1>5. spent' = SpendersIn(pool')
  <2>1. Spenders(spent)
    BY DEF Spenders, MemoryInv, SpendersIn
  <2>2. Closed(spent)
    <3> SUFFICES ASSUME NEW t \in Tx, NEW i \in 1..Len(Images[t]), NEW j \in 1..(i - 1),
                        t \in spent[Images[t][i]]
                 PROVE  t \in spent[Images[t][j]]
      BY ZenonT(60) DEF Closed
    <3>1. Images[t][i] \in KeyImage /\ Images[t][j] \in KeyImage /\ Images[t][j] \in Spends(t)
      BY ImagesType
    <3> QED
      BY <3>1, ZenonT(60) DEF MemoryInv, SpendersIn
  <2>3. spent' = [k \in KeyImage |-> spent[k] \ T]
    BY <1>0, <2>1, <2>2, RemoveIs, ZenonT(60)
  <2>4. \A k \in KeyImage : spent[k] \ T = {t \in Ids(pool') : k \in Spends(t)}
    BY <1>4 DEF MemoryInv, SpendersIn
  <2> QED
    BY <2>3, <2>4 DEF SpendersIn
<1>6. weight' = TotalWeight(Ids(pool')) % SizeModulus
  <2> DEFINE I == Ids(pool)
             a == TotalWeight(I)
             b == TotalWeight(T)
             c == TotalWeight(I \ T)
  <2>1. a \in Nat /\ b \in Nat /\ c \in Nat
    BY <1>0, TotalIs, ZenonT(60) DEF Ids
  <2>2. a = b + c
    BY IdsType, TotalSplits
  <2>3. weight = a % SizeModulus
    BY DEF MemoryInv
  <2>4. weight' = (weight - b) % SizeModulus
    BY DEF SubWeight
  <2> HIDE DEF a, b, c
  <2>5. SizeModulus \in Nat \ {0}
    BY LimitsAssumption
  <2> DEFINE d == - b
  <2>6. d \in Int /\ a \in Int /\ a + d = c
    BY <2>1, <2>2
  <2>7. (a % SizeModulus) - b = (a % SizeModulus) + d
    BY <2>1, <2>5
  <2> HIDE DEF d
  <2>8. ((a % SizeModulus) + d) % SizeModulus = (a + d) % SizeModulus
    BY <2>5, <2>6, WrapsTwice, ZenonT(60)
  <2>9. weight' = c % SizeModulus
    BY <2>3, <2>4, <2>6, <2>7, <2>8, ZenonT(60)
  <2> QED
    BY <1>4, <2>9, ZenonT(60) DEF c
<1>7. \A t \in Ids(pool') : Times(pool')[t] = Times(pool)[t] /\ pool'[t] = pool[t]
  <2> SUFFICES ASSUME NEW t \in Ids(pool')
               PROVE  Times(pool')[t] = Times(pool)[t] /\ pool'[t] = pool[t]
    BY ZenonT(60)
  <2>1. t \in Tx /\ t \notin T
    BY <1>4 DEF Ids
  <2>2. pool'[t] = pool[t]
    BY <1>2, <2>1
  <2> QED
    BY <2>1, <2>2 DEF Times
<1> QED
  BY <1>1, <1>3, <1>4, <1>5, <1>6, <1>7, ZenonT(60)

\* take_tx keeps memory and database together.
LEMMA TakeExact ==
  ASSUME IsFiniteSet(Tx), PoolTyped, RestTyped, MemoryInv, Sane(pool), NEW T \in SUBSET Ids(pool),
         TakeAll(T)
  PROVE  Sane(pool') /\ Ids(pool') = Ids(pool) \ T /\ MemoryInv'
<1>1. /\ pool' = [t \in Tx |-> IF t \in T THEN Absent ELSE pool[t]]
      /\ spent' = remove_transaction_keyimages(spent, T)
      /\ weight' = SubWeight(weight, TotalWeight(T))
      /\ sorted' = FoldSet(LAMBDA t, l : EraseId(l, t), sorted, T)
  BY ZenonT(60) DEF TakeAll
<1>2. /\ Sane(pool')
      /\ Ids(pool') = Ids(pool) \ T
      /\ spent' = SpendersIn(pool')
      /\ weight' = TotalWeight(Ids(pool')) % SizeModulus
      /\ \A t \in Ids(pool') : Times(pool')[t] = Times(pool)[t]
  BY <1>1, DropExact, ZenonT(60)
<1>3. IsFiniteSet(T)
  BY IdsType, FiniteSubset
<1>4. sorted \in Seq(Entry) /\ Lists(sorted, Times(pool), Ids(pool))
  BY DEF RestTyped, MemoryInv
<1>5. Lists(sorted', Times(pool), Ids(pool) \ T)
  BY <1>1, <1>3, <1>4, EraseAllLists, ZenonT(60)
<1>6. Lists(sorted', Times(pool'), Ids(pool'))
  <2> DEFINE s == sorted'
             a == Times(pool)
             b == Times(pool')
             X == Ids(pool')
  <2>1. Lists(s, a, X) /\ \A t \in X : a[t] = b[t]
    BY <1>2, <1>5
  <2> HIDE DEF s, a, b, X
  <2>2. Lists(s, b, X)
    BY <2>1, ListsAgree, ZenonT(60)
  <2> QED
    BY <2>2, ZenonT(60) DEF s, b, X
<1> QED
  BY <1>2, <1>6, ZenonT(60) DEF MemoryInv

\* add_tx, for a transaction the pool does not have: it is refused, or it is entered
\* everywhere; and unless a block brought it, no other transaction spends its key images.
LEMMA AddExact ==
  ASSUME IsFiniteSet(Tx), PoolTyped, RestTyped, MemoryInv, Sane(pool),
         NEW t \in Tx, t \notin Ids(pool), NEW m \in {"fluff", "block"}, add_tx(t, m)
  PROVE  \/ UNCHANGED <<pool, spent, sorted, weight, prune>>
         \/ /\ Sane(pool') /\ MemoryInv'
            /\ Ids(pool') = Ids(pool) \cup {t}
            /\ prune' = [on |-> TRUE, it |-> Len(sorted'), pool |-> pool']
<1>0. /\ pool \in [Tx -> Metadata] /\ spent \in [KeyImage -> SUBSET Tx]
      /\ now \in Nat /\ sorted \in Seq(Entry) /\ Ids(pool) \in SUBSET Tx
  BY DEF PoolTyped, RestTyped, Ids
<1>1. \A k \in KeyImage : spent[k] = {u \in Ids(pool) : k \in Spends(u)}
  BY DEF MemoryInv, SpendersIn
<1>2. m = "fluff" => \A k \in Spends(t) : spent[k] = {}
  <2> SUFFICES ASSUME m = "fluff", NEW k \in Spends(t), spent[k] # {} PROVE FALSE
    OBVIOUS
  <2>1. ~ have_tx_keyimges_as_spent(t)
    BY DEF add_tx
  <2>2. spent[k] = {t}
    BY <2>1 DEF have_tx_keyimges_as_spent
  <2>3. k \in KeyImage
    BY ImagesType
  <2> QED
    BY <1>1, <2>2, <2>3
<1>3. ASSUME NEW i \in 1..Len(Images[t]) PROVE InsertOk(pool, spent, t, i, m) /\ OneTxid(spent, t, i, m)
  <2>1. Images[t][i] \in KeyImage /\ Images[t][i] \in Spends(t)
    BY ImagesType
  <2>2. t \notin spent[Images[t][i]]
    BY <1>1, <2>1
  <2>3. m # "block" => spent[Images[t][i]] = {}
    BY <1>2, <2>1
  <2> QED
    BY <2>2, <2>3 DEF InsertOk, OneTxid
<1>4. InsertSucceeds(pool, spent, t, m)
  BY <1>3 DEF InsertSucceeds
<1>5. insert_key_images(pool, spent, t, m)
        = [k \in KeyImage |-> IF k \in Spends(t) THEN spent[k] \cup {t} ELSE spent[k]]
  <2> DEFINE Into(k) == \E i \in 1..Len(Images[t]) :
                           /\ Images[t][i] = k
                           /\ \A j \in 1..(i - 1) : InsertOk(pool, spent, t, j, m)
                           /\ OneTxid(spent, t, i, m)
  <2>1. \A k \in KeyImage : Into(k) <=> k \in Spends(t)
    <3> SUFFICES ASSUME NEW k \in KeyImage PROVE Into(k) <=> k \in Spends(t)
      OBVIOUS
    <3>1. Into(k) => k \in Spends(t)
      BY ImagesType
    <3>2. ASSUME k \in Spends(t) PROVE Into(k)
      <4>1. PICK i \in 1..Len(Images[t]) : Images[t][i] = k
        BY <3>2, ImagesType
      <4>2. \A j \in 1..(i - 1) : j \in 1..Len(Images[t])
        BY ImagesType
      <4> QED
        BY <1>3, <4>1, <4>2, ZenonT(60)
    <3> QED
      BY <3>1, <3>2, ZenonT(60)
  <2>2. insert_key_images(pool, spent, t, m)
          = [k \in KeyImage |-> IF Into(k) THEN spent[k] \cup {t} ELSE spent[k]]
    BY DEF insert_key_images
  <2> HIDE DEF Into
  <2> QED
    BY <2>1, <2>2, ZenonT(60)
<1>6. \/ UNCHANGED <<pool, spent, sorted, weight, prune>>
      \/ \E u : /\ Store(t, m, u)
                /\ spent' = insert_key_images(pool, spent, t, m)
                /\ weight' = AddWeight(weight, Weight[t])
                /\ StartPrune
  <2>1. CASE AddWrongInputs(t, m)
    BY <2>1 DEF AddWrongInputs
  <2>2. CASE AddUnverified(t, m)
    <3>1. /\ Store(t, m, -1)
          /\ spent' = insert_key_images(pool, spent, t, m)
          /\ weight' = AddWeight(weight, Weight[t])
          /\ StartPrune
      BY <1>4, <2>2 DEF AddUnverified
    <3> QED
      BY <3>1
  <2>3. CASE AddVerified(t, m)
    <3> DEFINE r == check_tx_inputs(cache, chain, t, -1, m = "block")
               relay == IF m = "stem" /\ pool[t].relay = "stem" THEN "fluff" ELSE m
               changes == t \notin Ids(pool) \/ Rank[pool[t].relay] < Rank[relay]
    <3>1. /\ spent' = IF changes THEN insert_key_images(pool, spent, t, relay) ELSE spent
          /\ IF changes /\ ~ InsertSucceeds(pool, spent, t, relay)
             THEN UNCHANGED <<pool, sorted, weight, prune>>
             ELSE /\ IF changes THEN Store(t, relay, r.used) ELSE UNCHANGED <<pool, sorted>>
                  /\ weight' = AddWeight(weight, Weight[t])
                  /\ StartPrune
      BY <2>3, ZenonT(60) DEF AddVerified
    <3>2. relay = m /\ changes
      OBVIOUS
    <3> HIDE DEF r, relay, changes
    <3>3. /\ Store(t, m, r.used)
          /\ spent' = insert_key_images(pool, spent, t, m)
          /\ weight' = AddWeight(weight, Weight[t])
          /\ StartPrune
      BY <1>4, <3>1, <3>2
    <3> QED
      BY <3>3
  <2> QED
    BY <2>1, <2>2, <2>3 DEF add_tx
<1>7. CASE UNCHANGED <<pool, spent, sorted, weight, prune>>
  BY <1>7, ZenonT(60)
<1>8. CASE \E u : /\ Store(t, m, u)
                  /\ spent' = insert_key_images(pool, spent, t, m)
                  /\ weight' = AddWeight(weight, Weight[t])
                  /\ StartPrune
  <2>1. PICK u : /\ Store(t, m, u)
                 /\ spent' = insert_key_images(pool, spent, t, m)
                 /\ weight' = AddWeight(weight, Weight[t])
                 /\ StartPrune
    BY <1>8
  <2> DEFINE md == [relay |-> m, receive_time |-> now, used |-> u, failed |-> <<>>]
             e == [id |-> t, time |-> now]
             I == Ids(pool)
  <2>2. pool' = [pool EXCEPT ![t] = md] /\ sorted' \in SortedInserts(sorted, e)
    BY <2>1 DEF Store
  <2>3. md.relay = m /\ md.receive_time = now
    OBVIOUS
  <2> HIDE DEF md
  <2>4. pool'[t] = md /\ \A x \in Tx : x # t => pool'[x] = pool[x]
    BY <1>0, <2>2, ZenonT(60)
  <2>5. Ids(pool') = I \cup {t}
    BY <1>0, <2>3, <2>4 DEF Ids
  <2>6. spent' = SpendersIn(pool')
    <3>1. \A k \in KeyImage : (IF k \in Spends(t) THEN spent[k] \cup {t} ELSE spent[k])
                                = {x \in I \cup {t} : k \in Spends(x)}
      BY <1>1
    <3> QED
      BY <1>5, <2>1, <2>5, <3>1, ZenonT(60) DEF SpendersIn
  <2>7. Sane(pool')
    <3>1. Public(pool')
      BY <2>3, <2>4 DEF Sane, Public
    <3>2. ASSUME NEW x \in Ids(pool'), NEW y \in Ids(pool'), x # y, ~ Kept(pool', x), ~ Kept(pool', y),
                 Spends(x) \cap Spends(y) # {}
          PROVE  FALSE
      <4>1. PICK k \in Spends(x) : k \in Spends(y)
        BY <3>2, ZenonT(60)
      <4>2. x \in Tx /\ y \in Tx
        BY ZenonT(60) DEF Ids
      <4>3. k \in KeyImage
        BY <4>1, <4>2, ImagesType
      <4>4. CASE x # t /\ y # t
        <5>1. x \in I /\ y \in I /\ ~ Kept(pool, x) /\ ~ Kept(pool, y)
          BY <2>4, <2>5, <3>2, <4>2, <4>4, ZenonT(60) DEF Kept
        <5> QED
          BY <3>2, <5>1, ZenonT(60) DEF Sane, InitSucceeds
      <4>5. CASE x = t \/ y = t
        <5>1. m = "fluff"
          BY <2>3, <2>4, <3>2, <4>5, ZenonT(60) DEF Kept
        <5>2. spent[k] = {} /\ k \in Spends(t)
          BY <1>2, <4>1, <4>5, <5>1
        <5>3. PICK z \in I : k \in Spends(z)
          BY <2>5, <3>2, <4>1, <4>5, ZenonT(60)
        <5>4. z \in spent[k]
          BY <1>1, <4>3, <5>3
        <5> QED
          BY <5>2, <5>4, ZenonT(60)
      <4> QED
        BY <4>4, <4>5
    <3>3. InitSucceeds(pool')
      BY <3>2, ZenonT(60) DEF InitSucceeds
    <3> QED
      BY <3>1, <3>3 DEF Sane
  <2>8. Lists(sorted', Times(pool'), Ids(pool'))
    <3>1. Lists(sorted, Times(pool), I)
      BY DEF MemoryInv
    <3>2. Times(pool')[t] = now /\ \A x \in I : Times(pool)[x] = Times(pool')[x]
      BY <1>0, <2>3, <2>4, ZenonT(60) DEF Times
    <3> DEFINE b == Times(pool')
               a == Times(pool)
    <3>3. b[t] = now /\ \A x \in I : a[x] = b[x]
      BY <3>2
    <3> HIDE DEF a, b, I
    <3>4. Lists(sorted, b, I)
      BY <3>1, <3>3, ListsAgree DEF a
    <3>5. e \in Entry /\ e.id = t /\ e.time = b[e.id]
      BY <1>0, <3>3, ZenonT(60) DEF Entry
    <3> HIDE DEF e
    <3>6. e \notin Range(sorted)
      BY <3>4, <3>5 DEF Lists, Range, I
    <3>7. sorted' = SortedInsert(sorted, e)
      BY <2>2, <3>6, ZenonT(60) DEF SortedInserts
    <3>8. Lists(SortedInsert(sorted, e), b, I \cup {e.id})
      BY <1>0, <3>4, <3>5, InsertLists DEF I
    <3> QED
      BY <2>5, <3>5, <3>7, <3>8 DEF b, I
  <2>9. weight' = TotalWeight(Ids(pool')) % SizeModulus
    <3> DEFINE a == TotalWeight(I)
               w == Weight[t]
    <3>1. a \in Int /\ w \in Int
      BY <1>0, TotalIs, TxAssumption
    <3>2. TotalWeight(I \cup {t}) = w + a
      <4> DEFINE J == I \cup {t}
      <4>1. J \in SUBSET Tx /\ t \in J /\ J \ {t} = I
        BY <1>0
      <4> HIDE DEF J, I
      <4>2. TotalWeight(J) = Weight[t] + TotalWeight(J \ {t})
        BY <4>1, TotalIs
      <4> QED
        BY <4>1, <4>2 DEF J
    <3>3. weight = a % SizeModulus /\ weight' = (weight + w) % SizeModulus
      BY <2>1 DEF MemoryInv, AddWeight
    <3> HIDE DEF a, w, I
    <3>4. SizeModulus \in Nat \ {0}
      BY LimitsAssumption
    <3>5. ((a % SizeModulus) + w) % SizeModulus = (a + w) % SizeModulus
      BY <3>1, <3>4, WrapsTwice, ZenonT(60)
    <3>6. a + w = w + a
      BY <3>1
    <3> QED
      BY <2>5, <3>2, <3>3, <3>5, <3>6
  <2>10. MemoryInv'
    BY <2>6, <2>8, <2>9, ZenonT(60) DEF MemoryInv
  <2> QED
    BY <2>1, <2>5, <2>7, <2>10 DEF StartPrune
<1> QED
  BY <1>6, <1>7, <1>8, ZenonT(60)
=============================================================================
