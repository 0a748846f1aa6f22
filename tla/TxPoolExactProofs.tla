-------------------------- MODULE TxPoolExactProofs --------------------------
(***************************************************************************)
(* Proofs about TxPool, for every finite set of transactions: when they    *)
(* arrive publicly and no batch is aborted, the memory of the pool says    *)
(* exactly what its database says, no two of its transactions spend one    *)
(* key image unless a block brought one of them, the daemon starts again   *)
(* from whatever a crash left, and pruning enforces the limit.             *)
(***************************************************************************)
EXTENDS TxPoolProofs

\* Leaves that name no prover are for the SMT solver first, with time to spare.
USE SMTT(60), ZenonT(60), SMTT(120)

\* The ranks of the relay methods that are not "none" and not "forward".
LEMMA RanksAre ==
  /\ Rank["local"] = 1 /\ Rank["stem"] = 3
  /\ Rank["fluff"] = 4 /\ Rank["block"] = 5
  BY DEF Rank

\* The empty pool is sane.
LEMMA SaneEmpty == Sane([t \in Tx |-> Absent])
  BY DEF Sane, Public, InitSucceeds, Ids, Absent

\* Metadata that differs in neither relay method nor time makes no difference.
LEMMA SameExact ==
  ASSUME NEW p, NEW q, \A t \in Tx : q[t].relay = p[t].relay /\ q[t].receive_time = p[t].receive_time
  PROVE  /\ Ids(q) = Ids(p)
         /\ Sane(p) => Sane(q)
         /\ SpendersIn(q) = SpendersIn(p)
         /\ Times(q) = Times(p)
         /\ \A t \in Tx : Kept(q, t) <=> Kept(p, t)
<1>1. Ids(q) = Ids(p)
  BY DEF Ids
<1>2. \A t \in Tx : Kept(q, t) <=> Kept(p, t)
  BY DEF Kept
<1>3. ASSUME InitSucceeds(p) PROVE InitSucceeds(q)
  <2>1. \A t \in Ids(p) : t \in Tx
    BY DEF Ids
  <2> QED
    BY <1>1, <1>2, <1>3, <2>1 DEF InitSucceeds
<1>4. Sane(p) => Sane(q)
  BY <1>3 DEF Sane, Public
<1>5. SpendersIn(q) = SpendersIn(p)
  BY <1>1 DEF SpendersIn
<1>6. Times(q) = Times(p)
  BY DEF Times
<1> QED
  BY <1>1, <1>2, <1>4, <1>5, <1>6

\* A block that is added moves its transactions from the pool to the chain.
LEMMA AddBlockExact ==
  ASSUME PublicOnly, PoolTyped, RestTyped, ExactInv, NEW b \in Blocks, AddBlock(b)
  PROVE  ExactInv'
<1>0. /\ chain \in Seq(Seq(Tx)) /\ b \in Seq(Tx) /\ Len(chain) \in Nat
      /\ todo = <<>> /\ ~ prune.on
  BY TxAssumption DEF PoolTyped, AddBlock, Locked
<1>1. Len(Taken(b)) = Len(b) /\ \A i \in 1..Len(b) : Available(b, i)
  <2>1. Taken(b) = b
    BY DEF AddBlock, AllTaken
  <2> QED
    BY <2>1, TakenIs
<1>2. \A i \in 1..Len(b) : b[i] \notin OnChain(chain) /\ b[i] \in Ids(pool)
  BY <1>1 DEF Available
<1>3. ASSUME NEW i \in 1..Len(b), NEW j \in 1..Len(b), b[i] = b[j] PROVE i = j
  <2>1. \A n \in 1..(i - 1) : b[n] # b[i]
    BY <1>1 DEF Available
  <2>2. \A n \in 1..(j - 1) : b[n] # b[j]
    BY <1>1 DEF Available
  <2> QED
    BY <1>3, <2>1, <2>2
<1>4. Range(b) = {b[i] : i \in 1..Len(b)}
  BY <1>0 DEF Range
<1>5. Sane(pool') /\ Ids(pool') = Ids(pool) \ Range(b) /\ MemoryInv'
  <2>1. TakeAll(Range(b))
    BY DEF AddBlock
  <2>2. Range(b) \in SUBSET Ids(pool)
    BY <1>2, <1>4
  <2>3. MemoryInv /\ Sane(pool) /\ IsFiniteSet(Tx)
    BY DEF ExactInv, PoolsInv, PublicOnly
  <2> QED
    BY <2>1, <2>2, <2>3, TakeExact
<1>6. /\ UNCHANGED <<batch, todo, prune, running>>
      /\ template' = NoTemplate
      /\ chain' = Append(chain, b)
  BY DEF AddBlock
<1>7. PoolsInv'
  <2>1. Sane(template'.pool)
    BY <1>6, SaneEmpty DEF NoTemplate
  <2> QED
    BY <1>5, <1>6, <2>1, ZenonT(60) DEF ExactInv, PoolsInv
<1> DEFINE n == Len(chain)
<1>8. /\ chain' \in Seq(Seq(Tx)) /\ Len(chain') = n + 1
      /\ \A h \in 1..n : chain'[h] = chain[h]
      /\ chain'[n + 1] = b
  BY <1>0, <1>6
<1>9. \A h \in 1..(n + 1) : h \in 1..n \/ h = n + 1
  BY <1>0
<1>10. ASSUME NEW g \in 1..(n + 1), NEW h \in 1..(n + 1), NEW i \in 1..Len(chain'[g]),
              NEW j \in 1..Len(chain'[h]), chain'[g][i] = chain'[h][j]
       PROVE  g = h /\ i = j
  <2>1. CASE g \in 1..n /\ h \in 1..n
    <3>1. chain'[g] = chain[g] /\ chain'[h] = chain[h]
      BY <1>8, <2>1
    <3>2. i \in 1..Len(chain[g]) /\ j \in 1..Len(chain[h]) /\ chain[g][i] = chain[h][j]
      BY <1>10, <3>1
    <3>3. Once(chain)
      BY DEF ExactInv, PlacesInv
    <3>4. \A k \in 1..Len(chain[g]), m \in 1..Len(chain[h]) :
             chain[g][k] = chain[h][m] => g = h /\ k = m
      BY <2>1, <3>3, ZenonT(60) DEF Once
    <3> QED
      BY <3>2, <3>4, ZenonT(60)
  <2>2. CASE g = n + 1 /\ h = n + 1
    BY <1>3, <1>8, <1>10, <2>2
  <2>3. CASE g \in 1..n /\ h = n + 1
    <3>1. chain[g][i] \in OnChain(chain)
      BY <1>0, <1>8, <2>3, OnChainIs
    <3> QED
      BY <1>2, <1>8, <1>10, <2>3, <3>1
  <2>4. CASE g = n + 1 /\ h \in 1..n
    <3>1. chain[h][j] \in OnChain(chain)
      BY <1>0, <1>8, <2>4, OnChainIs, ZenonT(60)
    <3> QED
      BY <1>2, <1>8, <1>10, <2>4, <3>1
  <2> QED
    BY <1>9, <2>1, <2>2, <2>3, <2>4
<1>11. Once(chain')
  BY <1>8, <1>10 DEF Once
<1>12. ASSUME NEW t \in Ids(pool'), t \in OnChain(chain') PROVE FALSE
  <2>1. PICK h \in 1..(n + 1) : \E i \in 1..Len(chain'[h]) : chain'[h][i] = t
    BY <1>8, <1>12, OnChainIs
  <2>2. CASE h = n + 1
    <3>1. t \in Range(b)
      BY <1>4, <1>8, <2>1, <2>2
    <3> QED
      BY <1>5, <3>1
  <2>3. CASE h \in 1..n
    <3>1. t \in OnChain(chain)
      BY <1>0, <1>8, <2>1, <2>3, OnChainIs, ZenonT(60)
    <3>2. t \in Ids(pool)
      BY <1>5
    <3> QED
      BY <3>1, <3>2 DEF ExactInv, PlacesInv
  <2> QED
    BY <1>9, <2>2, <2>3
<1>13. PlacesInv'
  <2>1. Once(batch'.chain) /\ todo' = <<>>
    BY <1>0, <1>6 DEF ExactInv, PlacesInv
  <2>2. Ids(pool') \cap OnChain(chain') = {}
    BY <1>12
  <2>3. 1..Len(todo') = {}
    BY <2>1
  <2> QED
    BY <1>11, <2>1, <2>2, <2>3 DEF PlacesInv
<1>14. PruneInv'
  BY <1>0, <1>6 DEF PruneInv
<1> QED
  BY <1>5, <1>7, <1>13, <1>14 DEF ExactInv

\* A block that is refused leaves what it took to be given back.
LEMMA RefuseExact ==
  ASSUME PublicOnly, PoolTyped, RestTyped, ExactInv, NEW b \in Blocks, RefuseBlock(b)
  PROVE  ExactInv'
<1> DEFINE T == Taken(b)
<1>0. /\ b \in Seq(Tx) /\ T \in Seq(Tx) /\ Len(T) \in Nat /\ ~ prune.on
  BY TxAssumption, TakenType DEF RefuseBlock, Locked
<1>1. \A i \in 1..Len(T) : T[i] = b[i] /\ Available(b, i)
  BY TakenIs
<1> HIDE DEF T
<1>2. \A i \in 1..Len(T) : T[i] \notin OnChain(chain) /\ T[i] \in Ids(pool)
  BY <1>1 DEF Available
<1>3. ASSUME NEW i \in 1..Len(T), NEW j \in 1..Len(T), T[i] = T[j] PROVE i = j
  <2>1. \A n \in 1..(i - 1) : b[n] # b[i]
    BY <1>1 DEF Available
  <2>2. \A n \in 1..(j - 1) : b[n] # b[j]
    BY <1>1 DEF Available
  <2>3. T[i] = b[i] /\ T[j] = b[j]
    BY <1>1
  <2>4. i < j => i \in 1..(j - 1)
    BY <1>0
  <2>5. j < i => j \in 1..(i - 1)
    BY <1>0
  <2>6. i < j \/ j < i \/ i = j
    BY <1>0
  <2> QED
    BY <1>3, <2>1, <2>2, <2>3, <2>4, <2>5, <2>6, ZenonT(60)
<1>4. Range(T) = {T[i] : i \in 1..Len(T)}
  BY <1>0 DEF Range
<1>5. Sane(pool') /\ Ids(pool') = Ids(pool) \ Range(T) /\ MemoryInv'
  <2>1. TakeAll(Range(T))
    BY DEF RefuseBlock, T
  <2>2. Range(T) \in SUBSET Ids(pool)
    BY <1>2, <1>4
  <2>3. MemoryInv /\ Sane(pool) /\ IsFiniteSet(Tx)
    BY DEF ExactInv, PoolsInv, PublicOnly
  <2> QED
    BY <2>1, <2>2, <2>3, TakeExact
<1>6. /\ UNCHANGED <<batch, chain, prune, running>>
      /\ template' = NoTemplate
      /\ todo' = T
  <2>1. batch' = batch
    BY DEF RefuseBlock, PublicOnly, NoAborts
  <2> QED
    BY <2>1 DEF RefuseBlock, T
<1>7. PoolsInv'
  <2>1. Sane(template'.pool)
    BY <1>6, SaneEmpty DEF NoTemplate
  <2> QED
    BY <1>5, <1>6, <2>1 DEF ExactInv, PoolsInv
<1>8. PlacesInv'
  <2>1. Once(chain') /\ Once(batch'.chain) /\ Ids(pool) \cap OnChain(chain) = {}
    BY <1>6 DEF ExactInv, PlacesInv
  <2>2. Ids(pool') \cap OnChain(chain') = {}
    BY <1>5, <1>6, <2>1
  <2>3. \A i \in 1..Len(todo') : todo'[i] \notin Ids(pool') /\ todo'[i] \notin OnChain(chain')
    BY <1>2, <1>4, <1>5, <1>6
  <2>4. \A i, j \in 1..Len(todo') : todo'[i] = todo'[j] => i = j
    BY <1>3, <1>6
  <2> QED
    BY <2>1, <2>2, <2>3, <2>4 DEF PlacesInv
<1>9. PruneInv'
  BY <1>0, <1>6 DEF PruneInv
<1> QED
  BY <1>5, <1>7, <1>8, <1>9 DEF ExactInv

\* A block that is popped leaves its transactions to be given back.
LEMMA PopExact ==
  ASSUME PoolTyped, ExactInv, PopBlock
  PROVE  ExactInv'
<1> DEFINE n == Len(chain)
           b == chain[n]
           T == Backwards(b)
<1>0. chain \in Seq(Seq(Tx)) /\ n \in Nat /\ n >= 1 /\ ~ prune.on /\ todo = <<>>
  BY DEF PoolTyped, PopBlock, Locked
<1>1. b \in Seq(Tx) /\ Len(b) \in Nat /\ n \in 1..n
  BY <1>0
<1>2. Len(T) = Len(b) /\ \A i \in 1..Len(b) : T[i] = b[Len(b) + 1 - i]
  BY <1>1 DEF Backwards
<1>3. /\ UNCHANGED <<pool, spent, sorted, weight, batch, prune, running>>
      /\ template' = NoTemplate
      /\ chain' = SubSeq(chain, 1, n - 1)
      /\ todo' = T
  BY DEF PopBlock
<1>4. /\ chain' \in Seq(Seq(Tx)) /\ Len(chain') = n - 1
      /\ \A h \in 1..(n - 1) : chain'[h] = chain[h]
  <2>1. Len(chain) >= 1
    BY <1>0
  <2> QED
    BY <1>0, <1>3, <2>1, FrontIs
<1>5. Once(chain) /\ Once(batch.chain) /\ Ids(pool) \cap OnChain(chain) = {}
  BY DEF ExactInv, PlacesInv
<1> HIDE DEF T
<1>6. \A h \in 1..(n - 1) : h \in 1..n /\ h # n
  BY <1>0
<1>7. ASSUME NEW i \in 1..Len(b)
      PROVE  /\ Len(b) + 1 - i \in 1..Len(b)
             /\ T[i] = b[Len(b) + 1 - i]
             /\ T[i] \in OnChain(chain) /\ T[i] \notin OnChain(chain')
  <2> DEFINE k == Len(b) + 1 - i
  <2>1. k \in 1..Len(b)
    BY <1>1
  <2> HIDE DEF k
  <2>2. T[i] = b[k]
    BY <1>2 DEF k
  <2>3. b[k] \in OnChain(chain)
    BY <1>0, <1>1, <2>1, OnChainIs
  <2>4. b[k] \notin OnChain(chain')
    <3> SUFFICES ASSUME b[k] \in OnChain(chain') PROVE FALSE
      OBVIOUS
    <3>0. \E h \in 1..Len(chain') : \E j \in 1..Len(chain'[h]) : chain'[h][j] = b[k]
      <4> HIDE DEF b
      <4> QED
        BY <1>4, OnChainIs, ZenonT(60)
    <3>1. PICK h \in 1..(n - 1) : \E j \in 1..Len(chain'[h]) : chain'[h][j] = b[k]
      BY <1>4, <3>0
    <3>2. PICK j \in 1..Len(chain[h]) : chain[h][j] = chain[n][k]
      BY <1>4, <3>1, ZenonT(60)
    <3>3. h = n
      BY <1>1, <1>5, <1>6, <2>1, <3>2, ZenonT(60) DEF Once
    <3> QED
      BY <1>6, <3>3
  <2> QED
    BY <2>1, <2>2, <2>3, <2>4 DEF k
<1>8. PoolsInv'
  <2>1. Sane(template'.pool)
    BY <1>3, SaneEmpty DEF NoTemplate
  <2> QED
    BY <1>3, <2>1 DEF ExactInv, PoolsInv
<1>9. PlacesInv'
  <2>1. Once(chain')
    <3> SUFFICES ASSUME NEW g \in 1..(n - 1), NEW h \in 1..(n - 1), NEW i \in 1..Len(chain'[g]),
                        NEW j \in 1..Len(chain'[h]), chain'[g][i] = chain'[h][j]
                 PROVE  g = h /\ i = j
      BY <1>4, ZenonT(60) DEF Once
    <3>1. chain'[g] = chain[g] /\ chain'[h] = chain[h] /\ g \in 1..n /\ h \in 1..n
      BY <1>4, <1>6
    <3>2. i \in 1..Len(chain[g]) /\ j \in 1..Len(chain[h]) /\ chain[g][i] = chain[h][j]
      BY <3>1
    <3> QED
      BY <1>5, <3>1, <3>2 DEF Once
  <2>2. ASSUME NEW t \in Ids(pool), t \in OnChain(chain') PROVE FALSE
    <3>1. PICK h \in 1..(n - 1) : \E i \in 1..Len(chain'[h]) : chain'[h][i] = t
      BY <1>4, <2>2, OnChainIs
    <3>2. t \in OnChain(chain)
      BY <1>0, <1>4, <1>6, <3>1, OnChainIs, ZenonT(60)
    <3> QED
      BY <1>5, <2>2, <3>2
  <2>3. \A i \in 1..Len(T) : T[i] \notin Ids(pool) /\ T[i] \notin OnChain(chain')
    BY <1>2, <1>5, <1>7
  <2>4. ASSUME NEW i \in 1..Len(T), NEW j \in 1..Len(T), T[i] = T[j] PROVE i = j
    <3>1. /\ Len(b) + 1 - i \in 1..Len(b) /\ T[i] = chain[n][Len(b) + 1 - i]
          /\ Len(b) + 1 - j \in 1..Len(b) /\ T[j] = chain[n][Len(b) + 1 - j]
      BY <1>2, <1>7
    <3>2. Len(b) + 1 - i = Len(b) + 1 - j
      <4> DEFINE k == Len(b) + 1 - i
                 l == Len(b) + 1 - j
      <4>1. k \in 1..Len(chain[n]) /\ l \in 1..Len(chain[n]) /\ chain[n][k] = chain[n][l]
        BY <2>4, <3>1, ZenonT(60)
      <4> HIDE DEF k, l
      <4>2. k = l
        BY <1>1, <1>5, <4>1 DEF Once
      <4> QED
        BY <4>2 DEF k, l
    <3> QED
      BY <1>1, <1>2, <3>2
  <2>5. Ids(pool') \cap OnChain(chain') = {}
    BY <1>3, <2>2
  <2> QED
    BY <1>3, <1>5, <2>1, <2>3, <2>4, <2>5, ZenonT(60) DEF PlacesInv
<1>10. MemoryInv' /\ PruneInv'
  BY <1>0, <1>3, ZenonT(60) DEF ExactInv, MemoryInv, PruneInv
<1> QED
  BY <1>8, <1>9, <1>10 DEF ExactInv

\* A transaction that was neither in the pool nor on the chain is added or refused.
LEMMA AddKeepsExact ==
  ASSUME PublicOnly, PoolTyped, RestTyped, ExactInv, ~ prune.on,
         NEW t \in Tx, t \notin Ids(pool), t \notin OnChain(chain),
         NEW m \in {"fluff", "block"}, add_tx(t, m),
         UNCHANGED <<chain, batch, running>>, template' = NoTemplate,
         \A i \in 1..Len(todo') : /\ todo'[i] \notin Ids(pool) \cup {t}
                                  /\ todo'[i] \notin OnChain(chain),
         \A i, j \in 1..Len(todo') : todo'[i] = todo'[j] => i = j
  PROVE  ExactInv'
<1>0. Sane(template'.pool)
  BY SaneEmpty, ZenonT(60) DEF NoTemplate
<1>1. \/ UNCHANGED <<pool, spent, sorted, weight, prune>>
      \/ /\ Sane(pool') /\ MemoryInv'
         /\ Ids(pool') = Ids(pool) \cup {t}
         /\ prune' = [on |-> TRUE, it |-> Len(sorted'), pool |-> pool']
  <2>1. MemoryInv /\ Sane(pool) /\ IsFiniteSet(Tx)
    BY DEF ExactInv, PoolsInv, PublicOnly
  <2> QED
    BY <2>1, AddExact, ZenonT(60)
<1>2. CASE UNCHANGED <<pool, spent, sorted, weight, prune>>
  <2>1. PoolsInv'
    BY <1>0, <1>2 DEF ExactInv, PoolsInv
  <2>2. MemoryInv' /\ PruneInv'
    BY <1>2, ZenonT(60) DEF ExactInv, MemoryInv, PruneInv
  <2>3. Ids(pool') = Ids(pool)
    BY <1>2
  <2>4. PlacesInv'
    BY <2>3, ZenonT(60) DEF ExactInv, PlacesInv
  <2> QED
    BY <2>1, <2>2, <2>4 DEF ExactInv
<1>3. CASE /\ Sane(pool') /\ MemoryInv'
           /\ Ids(pool') = Ids(pool) \cup {t}
           /\ prune' = [on |-> TRUE, it |-> Len(sorted'), pool |-> pool']
  <2>1. PoolsInv'
    <3>1. prune'.pool = pool'
      BY <1>3, ZenonT(60)
    <3> QED
      BY <1>0, <1>3, <3>1, ZenonT(60) DEF ExactInv, PoolsInv
  <2>2. PlacesInv'
    BY <1>3, ZenonT(60) DEF ExactInv, PlacesInv
  <2>3. PruneInv'
    <3>1. sorted' \in Seq(Entry)
      BY AddRest
    <3>2. prune'.it = Len(sorted')
      BY <1>3
    <3>3. Len(sorted') \in Nat
      BY <3>1
    <3>4. (prune'.it + 1)..Len(sorted') = {}
      BY <3>2, <3>3
    <3> QED
      BY <3>4 DEF PruneInv
  <2> QED
    BY <1>3, <2>1, <2>2, <2>3 DEF ExactInv
<1> QED
  BY <1>1, <1>2, <1>3, ZenonT(60)

\* A step that changes neither the pool nor what memory knows of it.
LEMMA QuietExact ==
  ASSUME ExactInv, UNCHANGED <<pool, spent, sorted, weight, chain, todo, running>>,
         batch'.success, Sane(batch'.pool), Once(batch'.chain), Sane(prune'.pool),
         Sane(template'.pool), prune' = prune \/ ~ prune'.on
  PROVE  ExactInv'
<1>1. PoolsInv'
  BY DEF ExactInv, PoolsInv
<1>2. PlacesInv'
  BY ZenonT(60) DEF ExactInv, PlacesInv
<1>3. MemoryInv'
  BY ZenonT(60) DEF ExactInv, MemoryInv
<1>4. PruneInv'
  BY ZenonT(60) DEF ExactInv, PruneInv
<1> QED
  BY <1>1, <1>2, <1>3, <1>4 DEF ExactInv

\* A step of the prune loop: it finds its entry in the pool, and what it passes is kept.
LEMMA PruneStepExact ==
  ASSUME PublicOnly, PoolTyped, RestTyped, ExactInv, PruneStep
  PROVE  ExactInv'
<1> DEFINE n == prune.it
           t == sorted[n].id
<1>0. /\ prune.on /\ sorted \in Seq(Entry) /\ Len(sorted) \in Nat /\ n \in Nat
      /\ n \in 1..Len(sorted) /\ n > 1
  <2>1. prune.on /\ n > 1
    BY DEF PruneStep
  <2> QED
    BY <2>1 DEF RestTyped
<1>1. t \in Ids(pool)
  BY <1>0 DEF ExactInv, MemoryInv, Lists
<1>2. /\ UNCHANGED <<chain, batch, todo, running>>
      /\ template' = NoTemplate
  BY DEF PruneStep
<1>3. Sane(template'.pool)
  BY <1>2, SaneEmpty DEF NoTemplate
<1>4. \/ /\ Kept(pool, t)
         /\ prune' = [prune EXCEPT !.it = n - 1]
         /\ UNCHANGED <<pool, spent, sorted, weight>>
      \/ /\ ~ Kept(pool, t)
         /\ pool' = [pool EXCEPT ![t] = Absent]
         /\ weight' = SubWeight(weight, Weight[t])
         /\ spent' = remove_transaction_keyimages(spent, {t})
         /\ sorted' = EraseAt(sorted, n)
         /\ prune' = [prune EXCEPT !.it = n - 1]
  BY <1>1, ZenonT(60) DEF PruneStep
<1>5. prune'.on /\ prune'.it = n - 1 /\ prune'.pool = prune.pool
  <2>1. prune = [on |-> prune.on, it |-> prune.it, pool |-> prune.pool]
    BY DEF PoolTyped
  <2>2. prune' = [prune EXCEPT !.it = n - 1]
    BY <1>4, ZenonT(60)
  <2>3. prune' = [on |-> prune.on, it |-> n - 1, pool |-> prune.pool]
    BY <2>1, <2>2
  <2> QED
    BY <1>0, <2>3
<1>6. \A i \in n..Len(sorted) : i = n \/ i \in (n + 1)..Len(sorted)
  BY <1>0
<1>7. \A i \in (n + 1)..Len(sorted) : Kept(pool, sorted[i].id)
  BY <1>0 DEF ExactInv, PruneInv
<1> HIDE DEF t
<1>8. CASE /\ Kept(pool, t)
           /\ UNCHANGED <<pool, spent, sorted, weight>>
  <2>1. PoolsInv'
    BY <1>2, <1>3, <1>5, <1>8 DEF ExactInv, PoolsInv
  <2>2. PlacesInv'
    BY <1>2, <1>8 DEF ExactInv, PlacesInv
  <2>3. MemoryInv'
    BY <1>8, ZenonT(60) DEF ExactInv, MemoryInv
  <2>4. PruneInv'
    <3>1. prune'.it + 1 = n
      BY <1>0, <1>5
    <3>2. \A i \in n..Len(sorted) : Kept(pool, sorted[i].id)
      BY <1>6, <1>7, <1>8, ZenonT(60) DEF t
    <3> QED
      BY <1>8, <3>1, <3>2 DEF PruneInv
  <2> QED
    BY <2>1, <2>2, <2>3, <2>4 DEF ExactInv
<1>9. CASE /\ pool' = [pool EXCEPT ![t] = Absent]
           /\ weight' = SubWeight(weight, Weight[t])
           /\ spent' = remove_transaction_keyimages(spent, {t})
           /\ sorted' = EraseAt(sorted, n)
  <2>1. {t} \in SUBSET Ids(pool) /\ t \in Tx /\ {t} \in SUBSET Tx
    BY <1>1 DEF Ids
  <2>2. pool' = [u \in Tx |-> IF u \in {t} THEN Absent ELSE pool[u]]
    BY <1>9, <2>1, ZenonT(60) DEF PoolTyped
  <2>3. weight' = SubWeight(weight, TotalWeight({t}))
    <3>1. TotalWeight({}) = 0 /\ TotalWeight({t}) = Weight[t] + TotalWeight({t} \ {t})
      BY <2>1, TotalIs DEF PublicOnly
    <3>2. {t} \ {t} = {} /\ Weight[t] \in Nat
      BY <2>1, TxAssumption
    <3>3. TotalWeight({t}) = Weight[t]
      BY <3>1, <3>2
    <3> QED
      BY <1>9, <3>3
  <2>4. IsFiniteSet(Tx) /\ MemoryInv /\ Sane(pool)
    BY DEF PublicOnly, ExactInv, PoolsInv
  <2>5. spent' = remove_transaction_keyimages(spent, {t})
    BY <1>9
  <2>6. /\ Sane(pool') /\ Ids(pool') = Ids(pool) \ {t}
        /\ spent' = SpendersIn(pool')
        /\ weight' = TotalWeight(Ids(pool')) % SizeModulus
        /\ \A u \in Ids(pool') : Times(pool')[u] = Times(pool)[u] /\ pool'[u] = pool[u]
    BY <2>1, <2>2, <2>3, <2>4, <2>5, DropExact, ZenonT(60)
  <2>7. Lists(sorted', Times(pool), Ids(pool'))
    <3>1. Lists(sorted, Times(pool), Ids(pool))
      BY <2>4 DEF MemoryInv
    <3>2. Lists(EraseAt(sorted, n), Times(pool), Ids(pool) \ {sorted[n].id})
      BY <1>0, <3>1, EraseLists
    <3> QED
      BY <1>9, <2>6, <3>2, ZenonT(60) DEF t
  <2>8. Lists(sorted', Times(pool'), Ids(pool'))
    BY <2>6, <2>7, ListsAgree
  <2>9. MemoryInv'
    BY <2>6, <2>8 DEF MemoryInv
  <2>10. PoolsInv'
    BY <1>2, <1>3, <1>5, <2>6 DEF ExactInv, PoolsInv
  <2>11. PlacesInv'
    BY <1>2, <2>6, ZenonT(60) DEF ExactInv, PlacesInv
  <2>12. PruneInv'
    <3> SUFFICES ASSUME NEW i \in (prune'.it + 1)..Len(sorted')
                 PROVE  Kept(pool', sorted'[i].id)
      BY DEF PruneInv
    <3>1. /\ Len(sorted') = Len(sorted) - 1
          /\ \A j \in 1..(Len(sorted) - 1) :
                sorted'[j] = IF j < n THEN sorted[j] ELSE sorted[j + 1]
      BY <1>0, <1>9, EraseAtIs
    <3>2. i \in 1..(Len(sorted) - 1) /\ ~ (i < n) /\ i + 1 \in (n + 1)..Len(sorted)
      BY <1>0, <1>5, <3>1
    <3>3. sorted'[i] = sorted[i + 1]
      BY <3>1, <3>2
    <3>4. Kept(pool, sorted'[i].id)
      BY <1>7, <3>2, <3>3
    <3>5. sorted'[i].id \in Ids(pool')
      <4>1. i \in 1..Len(sorted')
        BY <3>1, <3>2
      <4> QED
        BY <2>7, <4>1 DEF Lists
    <3> QED
      BY <2>6, <3>4, <3>5 DEF Kept
  <2> QED
    BY <2>9, <2>10, <2>11, <2>12 DEF ExactInv
<1> QED
  BY <1>4, <1>8, <1>9, ZenonT(60)

\* A restart goes back to a pool and a chain from which the memory is rebuilt.
LEMMA RestartExact ==
  ASSUME PublicOnly, PoolTyped, ExactInv, Restart
  PROVE  ExactInv'
<1> DEFINE c == CommittedChain
           p == CommittedPool
           q == [t \in Tx |-> IF t \in OnChain(c) THEN Absent ELSE p[t]]
<1>1. p \in [Tx -> Metadata] /\ Sane(p)
  BY DEF CommittedPool, PoolTyped, ExactInv, PoolsInv
<1>2. Once(c)
  BY DEF CommittedChain, ExactInv, PlacesInv
<1>3. InitSucceeds(p)
  BY <1>1 DEF Sane
<1>4. /\ chain' = c /\ Rebuild(q)
      /\ batch' = NoBatch /\ todo' = <<>> /\ prune' = NoPrune /\ template' = NoTemplate
  BY <1>3, ZenonT(60) DEF Restart
<1>5. running'
  BY <1>3, ZenonT(60) DEF Restart
<1> HIDE DEF p, c
<1>6. q \in [Tx -> Metadata] /\ \A t \in Tx : q[t] = p[t] \/ q[t] = Absent
  BY <1>1, AbsentType
<1>7. Ids(q) \cap OnChain(c) = {}
  BY DEF Ids, Absent
<1> HIDE DEF q
<1>8. Sane(q)
  BY <1>1, <1>6, SaneSubset
<1>9. pool' = q
  BY <1>4, ZenonT(60) DEF Rebuild
<1>10. PoolsInv'
  BY <1>4, <1>5, <1>8, <1>9, SaneEmpty DEF PoolsInv, NoBatch, NoPrune, NoTemplate
<1>11. PlacesInv'
  <2>1. Once(batch'.chain)
    BY <1>4 DEF NoBatch, Once
  <2>2. Len(todo') = 0
    BY <1>4
  <2> QED
    BY <1>2, <1>4, <1>7, <1>9, <2>1, <2>2 DEF PlacesInv
<1>12. MemoryInv'
  <2>1. spent' = SpendersIn(q) /\ weight' = TotalWeight(Ids(q)) % SizeModulus
    BY <1>4, ZenonT(60) DEF Rebuild, SpendersIn
  <2>2. Lists(sorted', Times(q), Ids(q))
    BY <1>4, <1>6, RebuildLists DEF PublicOnly
  <2> QED
    BY <1>9, <2>1, <2>2 DEF MemoryInv
<1>13. PruneInv'
  BY <1>4 DEF PruneInv, NoPrune
<1> QED
  BY <1>10, <1>11, <1>12, <1>13 DEF ExactInv

\* A first start is exact.
LEMMA ExactInit ==
  ASSUME PublicOnly
  PROVE  Init => ExactInv
<1> SUFFICES ASSUME Init PROVE ExactInv
  OBVIOUS
<1> DEFINE none == [t \in Tx |-> Absent]
<1>1. /\ pool = none /\ batch.pool = none /\ prune.pool = none /\ template.pool = none
      /\ batch.success /\ ~ prune.on /\ running
      /\ chain = <<>> /\ batch.chain = <<>> /\ todo = <<>> /\ sorted = <<>> /\ weight = 0
  BY DEF Init, NoBatch, NoPrune, NoTemplate
<1>2. Ids(none) = {}
  BY DEF Ids, Absent
<1>3. PoolsInv
  BY <1>1, SaneEmpty DEF PoolsInv
<1>4. PlacesInv
  <2>1. Len(todo) = 0 /\ Len(chain) = 0
    BY <1>1
  <2>2. Once(chain) /\ Once(batch.chain)
    BY <1>1, <2>1 DEF Once
  <2> QED
    BY <1>1, <1>2, <2>1, <2>2 DEF PlacesInv
<1>5. MemoryInv
  <2>1. spent = SpendersIn(pool)
    BY <1>1, <1>2 DEF Init, SpendersIn
  <2>2. Len(sorted) = 0
    BY <1>1
  <2>3. Lists(sorted, Times(pool), Ids(pool))
    BY <1>1, <1>2, <2>2 DEF Lists
  <2>4. weight = TotalWeight(Ids(pool)) % SizeModulus
    <3>1. TotalWeight({}) = 0
      BY TotalIs DEF PublicOnly
    <3>2. 0 % SizeModulus = 0
      BY LimitsAssumption
    <3> QED
      BY <1>1, <1>2, <3>1, <3>2, ZenonT(60)
  <2> QED
    BY <2>1, <2>3, <2>4 DEF MemoryInv
<1>6. PruneInv
  BY <1>1, ZenonT(60) DEF PruneInv
<1> QED
  BY <1>3, <1>4, <1>5, <1>6 DEF ExactInv

\* Every operation keeps the pool and the memory in step.
LEMMA ExactNext ==
  ASSUME PublicOnly
  PROVE  PoolTyped /\ RestTyped /\ ExactInv /\ [Next]_vars => ExactInv'
<1> SUFFICES ASSUME PoolTyped, RestTyped, ExactInv, [Next]_vars PROVE ExactInv'
  OBVIOUS
<1>a. /\ Sane(NoTemplate.pool) /\ Sane(NoPrune.pool) /\ Sane(NoBatch.pool)
      /\ ~ NoPrune.on /\ NoBatch.success /\ Once(NoBatch.chain)
  <2>1. Once(NoBatch.chain)
    BY DEF NoBatch, Once
  <2> QED
    BY <2>1, SaneEmpty DEF NoTemplate, NoPrune, NoBatch
<1>b. /\ batch.success /\ Sane(pool) /\ Sane(batch.pool) /\ Sane(prune.pool)
      /\ Sane(template.pool) /\ Once(chain) /\ Once(batch.chain)
  BY DEF ExactInv, PoolsInv, PlacesInv
<1>c. ASSUME NEW T \in SUBSET Ids(pool), TakeAll(T), ~ prune.on, template' = NoTemplate,
             UNCHANGED <<chain, batch, todo, prune, running>>
      PROVE  ExactInv'
  <2>1. Sane(pool') /\ Ids(pool') = Ids(pool) \ T /\ MemoryInv'
    <3>1. MemoryInv /\ IsFiniteSet(Tx)
      BY DEF ExactInv, PublicOnly
    <3> QED
      BY <1>b, <1>c, <3>1, TakeExact
  <2>2. PoolsInv'
    BY <1>a, <1>c, <2>1 DEF ExactInv, PoolsInv
  <2>3. PlacesInv'
    BY <1>c, <2>1 DEF ExactInv, PlacesInv
  <2>4. PruneInv'
    BY <1>c DEF PruneInv
  <2> QED
    BY <2>1, <2>2, <2>3, <2>4 DEF ExactInv
<1>1. ASSUME NEW t \in Tx, NEW m \in Arrivals, AddNewTx(t, m) PROVE ExactInv'
  <2>1. /\ ~ prune.on /\ todo = <<>> /\ t \notin OnChain(chain) /\ ~ Legacy(pool, t)
        /\ add_tx(t, m) /\ template' = NoTemplate
        /\ UNCHANGED <<chain, batch, todo, running>>
    BY <1>1 DEF AddNewTx, Locked
  <2>2. m \in {"fluff", "block"}
    BY DEF PublicOnly
  <2>3. t \notin Ids(pool)
    BY <1>b, <2>1 DEF Sane, Public, Legacy, Ids
  <2>4. Len(todo') = 0
    BY <2>1
  <2>5. /\ \A i \in 1..Len(todo') : /\ todo'[i] \notin Ids(pool) \cup {t}
                                    /\ todo'[i] \notin OnChain(chain)
        /\ \A i, j \in 1..Len(todo') : todo'[i] = todo'[j] => i = j
    BY <2>4
  <2> QED
    BY <2>1, <2>2, <2>3, <2>5, AddKeepsExact
<1>2. CASE PruneStep
  BY <1>2, PruneStepExact
<1>3. CASE PruneDone
  <2>1. /\ UNCHANGED <<chain, pool, spent, sorted, weight, batch, todo, template, running>>
        /\ prune' = NoPrune
    BY <1>3 DEF PruneDone, memory
  <2> QED
    BY <1>a, <1>b, <2>1, QuietExact, ZenonT(60)
<1>4. ASSUME NEW t \in Tx, FlushTx(t) PROVE ExactInv'
  <2>1. {t} \in SUBSET Ids(pool)
    BY <1>4 DEF FlushTx
  <2>2. /\ TakeAll({t}) /\ ~ prune.on /\ template' = NoTemplate
        /\ UNCHANGED <<chain, batch, todo, prune, running>>
    BY <1>4 DEF FlushTx, Locked
  <2> QED
    BY <1>c, <2>1, <2>2
<1>5. CASE BatchStart
  <2>1. /\ UNCHANGED <<chain, pool, spent, sorted, weight, todo, prune, running>>
        /\ batch' = [open |-> TRUE, pool |-> pool, chain |-> chain, success |-> TRUE]
        /\ template' = NoTemplate
    BY <1>5 DEF BatchStart, memory
  <2>2. batch'.success /\ batch'.pool = pool /\ batch'.chain = chain
    BY <2>1
  <2> QED
    BY <1>a, <1>b, <2>1, <2>2, QuietExact, ZenonT(60)
<1>6. CASE BatchEnd
  <2>1. /\ UNCHANGED <<chain, pool, spent, sorted, weight, todo, prune, running>>
        /\ batch' = NoBatch /\ template' = NoTemplate
    BY <1>6, <1>b, ZenonT(60) DEF BatchEnd, memory
  <2> QED
    BY <1>a, <1>b, <2>1, QuietExact
<1>7. ASSUME NEW b \in Blocks, AddBlock(b) PROVE ExactInv'
  BY <1>7, AddBlockExact
<1>8. ASSUME NEW b \in Blocks, RefuseBlock(b) PROVE ExactInv'
  BY <1>8, RefuseExact
<1>9. CASE PopBlock
  BY <1>9, PopExact
<1>10. CASE ReturnTx
  <2> DEFINE t == Head(todo)
  <2>1. /\ ~ prune.on /\ todo # <<>> /\ todo' = Tail(todo)
        /\ add_tx(t, "block") /\ template' = NoTemplate
        /\ UNCHANGED <<chain, batch, running>>
    BY <1>10 DEF ReturnTx
  <2>2. /\ todo \in Seq(Tx) /\ Len(todo) \in Nat /\ 1 \in 1..Len(todo) /\ t = todo[1]
        /\ t \in Tx
    <3>1. todo \in Seq(Tx)
      BY DEF PoolTyped
    <3> QED
      BY <2>1, <3>1
  <2> HIDE DEF t
  <2>3. /\ Len(todo') = Len(todo) - 1
        /\ \A i \in 1..(Len(todo) - 1) : todo'[i] = todo[i + 1]
    BY <2>1, <2>2
  <2>4. \A i \in 1..Len(todo') : i + 1 \in 1..Len(todo) /\ i + 1 # 1 /\ todo'[i] = todo[i + 1]
    BY <2>2, <2>3
  <2>5. /\ \A i \in 1..Len(todo) : todo[i] \notin Ids(pool) /\ todo[i] \notin OnChain(chain)
        /\ \A i, j \in 1..Len(todo) : todo[i] = todo[j] => i = j
    BY DEF ExactInv, PlacesInv
  <2>6. t \notin Ids(pool) /\ t \notin OnChain(chain)
    BY <2>2, <2>5
  <2>7. ASSUME NEW i \in 1..Len(todo')
        PROVE  todo'[i] \notin Ids(pool) \cup {t} /\ todo'[i] \notin OnChain(chain)
    BY <2>2, <2>4, <2>5
  <2>8. ASSUME NEW i \in 1..Len(todo'), NEW j \in 1..Len(todo'), todo'[i] = todo'[j]
        PROVE  i = j
    <3>1. i + 1 = j + 1
      BY <2>4, <2>5, <2>8
    <3> QED
      BY <3>1
  <2>9. "block" \in {"fluff", "block"}
    OBVIOUS
  <2> QED
    BY <2>1, <2>2, <2>6, <2>7, <2>8, <2>9, AddKeepsExact, ZenonT(60)
<1>11. ASSUME NEW t \in Tx, NEW m \in {"local", "stem", "fluff"}, SetRelayed(t, m) PROVE ExactInv'
  <2>1. Rank[pool[t].relay] < Rank[m] /\ t \in Ids(pool)
    BY <1>11 DEF SetRelayed
  <2>2. pool[t].relay \in {"fluff", "block"}
    BY <1>b, <2>1 DEF Sane, Public, Ids
  <2>3. Rank[pool[t].relay] \in {4, 5} /\ Rank[m] \in {1, 3, 4}
    BY <2>2, RanksAre, ZenonT(60)
  <2> QED
    BY <2>1, <2>3
<1>12. CASE RemoveStuck
  <2> DEFINE T == {t \in Tx : Stuck(t)}
  <2>1. T \in SUBSET Ids(pool)
    BY DEF Stuck
  <2>2. /\ TakeAll(T) /\ ~ prune.on /\ template' = NoTemplate
        /\ UNCHANGED <<chain, batch, todo, prune, running>>
    BY <1>12 DEF RemoveStuck, Locked
  <2> HIDE DEF T
  <2> QED
    BY <1>c, <2>1, <2>2
<1>13. CASE Tick
  BY <1>13, <1>b, QuietExact DEF Tick, memory
<1>14. CASE FillStart
  <2>1. /\ UNCHANGED <<chain, pool, spent, sorted, weight, batch, todo, prune, running>>
        /\ template' = [on |-> TRUE, it |-> 1, txs |-> {}, pool |-> pool]
    BY <1>14 DEF FillStart, memory
  <2>2. template'.pool = pool
    BY <2>1
  <2> QED
    BY <1>b, <2>1, <2>2, QuietExact, ZenonT(60)
<1>d. template = [on |-> template.on, it |-> template.it, txs |-> template.txs,
                  pool |-> template.pool]
  BY DEF PoolTyped
<1>15. CASE FillSkip
  <2>1. /\ UNCHANGED <<chain, pool, spent, sorted, weight, batch, todo, prune, running>>
        /\ template' = [template EXCEPT !.it = template.it + 1]
    BY <1>15 DEF FillSkip, memory
  <2>2. template'.pool = template.pool
    BY <1>d, <2>1
  <2> QED
    BY <1>b, <2>1, <2>2, QuietExact
<1>16. CASE FillConsider
  <2>1. /\ \A u \in Tx : /\ pool'[u].relay = pool[u].relay
                        /\ pool'[u].receive_time = pool[u].receive_time
        /\ UNCHANGED <<chain, spent, sorted, weight, batch, todo, prune, running>>
    BY <1>16, ConsiderIs
  <2>2. template'.pool = template.pool
    BY <1>16, ZenonT(60) DEF FillConsider
  <2>3. /\ Ids(pool') = Ids(pool)
        /\ Sane(pool')
        /\ SpendersIn(pool') = SpendersIn(pool)
        /\ Times(pool') = Times(pool)
        /\ \A u \in Tx : Kept(pool', u) <=> Kept(pool, u)
    BY <1>b, <2>1, SameExact, ZenonT(60)
  <2>4. PoolsInv'
    BY <2>1, <2>2, <2>3, ZenonT(60) DEF ExactInv, PoolsInv
  <2>5. PlacesInv'
    BY <2>1, <2>3 DEF ExactInv, PlacesInv
  <2>6. MemoryInv'
    BY <2>1, <2>3 DEF ExactInv, MemoryInv
  <2>7. PruneInv'
    <3>1. \A i \in 1..Len(sorted) : sorted[i].id \in Tx
      <4>1. sorted \in Seq(Entry)
        BY DEF RestTyped
      <4>2. \A i \in 1..Len(sorted) : sorted[i] \in Entry
        BY <4>1
      <4> QED
        BY <4>2 DEF Entry
    <3>2. Len(sorted) \in Nat /\ prune.it \in Nat
      BY DEF RestTyped
    <3>3. \A i \in (prune.it + 1)..Len(sorted) : i \in 1..Len(sorted)
      BY <3>2
    <3> QED
      BY <2>1, <2>3, <3>1, <3>3, ZenonT(60) DEF ExactInv, PruneInv
  <2> QED
    BY <2>4, <2>5, <2>6, <2>7, ZenonT(60) DEF ExactInv
<1>17. CASE FillDone
  <2>1. /\ UNCHANGED <<chain, pool, spent, sorted, weight, batch, todo, prune, running>>
        /\ template' = [template EXCEPT !.on = FALSE, !.it = 0, !.pool = NoTemplate.pool]
    BY <1>17 DEF FillDone, memory
  <2>2. template'.pool = NoTemplate.pool
    BY <1>d, <2>1
  <2> QED
    BY <1>a, <1>b, <2>1, <2>2, QuietExact
<1>18. CASE Restart
  BY <1>18, RestartExact, ZenonT(60)
<1>19. CASE UNCHANGED vars
  BY <1>19, <1>b, QuietExact DEF vars
<1> QED
  BY <1>1, <1>2, <1>3, <1>4, <1>5, <1>6, <1>7, <1>8, <1>9, <1>10, <1>11, <1>12, <1>13,
     <1>14, <1>15, <1>16, <1>17, <1>18, <1>19 DEF Next

\* Every state of a daemon without aborted batches is exact.
LEMMA ExactHolds ==
  ASSUME PublicOnly
  PROVE  Spec => [](PoolTyped /\ RestTyped /\ ExactInv)
<1>1. Init => ExactInv
  BY ExactInit
<1>2. PoolTyped /\ RestTyped /\ ExactInv /\ [Next]_vars => ExactInv'
  BY ExactNext
<1>3. PoolTyped /\ RestTyped /\ [Next]_vars => RestTyped'
  BY RestNext DEF PublicOnly
<1> QED
  BY <1>1, <1>2, <1>3, RestInit, TypesHold, PTL DEF Spec

\* As long as no batch is aborted and transactions come publicly, the index and the list by
\* fee hold exactly the transactions of the pool, whatever blocks took or gave back, what
\* was pruned or timed out, and wherever a crash came (m_spent_key_images and
\* m_txs_by_fee_and_receive_time of tx_memory_pool).
THEOREM MemoryIsExact ==
  ASSUME PublicOnly
  PROVE  Spec => []MemoryExact
<1>1. RestTyped /\ ExactInv => MemoryExact
  <2> SUFFICES ASSUME RestTyped, ExactInv PROVE MemoryExact
    OBVIOUS
  <2>1. /\ spent = SpendersIn(pool) /\ sorted \in Seq(Entry)
        /\ Lists(sorted, Times(pool), Ids(pool))
    BY DEF ExactInv, MemoryInv, RestTyped
  <2>2. /\ Range(sorted) = {[id |-> t, time |-> Times(pool)[t]] : t \in Ids(pool)}
        /\ Len(sorted) = Cardinality(Ids(pool))
    BY <2>1, ListsCount, ZenonT(60)
  <2>3. \A t \in Ids(pool) : Times(pool)[t] = pool[t].receive_time
    BY DEF Times, Ids
  <2>4. {[id |-> t, time |-> Times(pool)[t]] : t \in Ids(pool)}
          = {[id |-> t, time |-> pool[t].receive_time] : t \in Ids(pool)}
    BY <2>3
  <2>5. \A i, j \in 1..Len(sorted) : i < j => ~ Before(sorted[j], sorted[i])
    BY <2>1 DEF Lists
  <2> QED
    BY <2>1, <2>2, <2>4, <2>5, ZenonT(60) DEF MemoryExact, SpendersIn
<1> QED
  BY <1>1, ExactHolds, PTL

\* The weight is the total weight of the pool's transactions, modulo its width, under the
\* same conditions (m_txpool_weight of tx_memory_pool).
THEOREM WeightIsExact ==
  ASSUME PublicOnly
  PROVE  Spec => []WeightExact
<1>1. ExactInv => WeightExact
  BY DEF ExactInv, MemoryInv, WeightExact
<1> QED
  BY <1>1, ExactHolds, PTL

\* Under the same conditions two transactions of the pool spend one key image only if a
\* block brought one of them (add_tx and have_tx_keyimges_as_spent).
THEOREM PoolHasNoDoubleSpend ==
  ASSUME PublicOnly
  PROVE  Spec => []NoDoubleSpend
<1>1. ExactInv => NoDoubleSpend
  BY ZenonT(60) DEF ExactInv, PoolsInv, Sane, NoDoubleSpend, InitSucceeds
<1> QED
  BY <1>1, ExactHolds, PTL

\* Under the same conditions the daemon starts from whatever a crash left in the database
\* (tx_memory_pool::init).
THEOREM DaemonStarts ==
  ASSUME PublicOnly
  PROVE  Spec => []InitReturnsTrue
<1>1. ExactInv => InitReturnsTrue
  BY DEF ExactInv, PoolsInv, InitReturnsTrue
<1> QED
  BY <1>1, ExactHolds, PTL

\* Under the same conditions prune() leaves the pool over its limit only when every
\* transaction but the best one was kept by a block (tx_memory_pool::prune).
THEOREM PruningIsEnforced ==
  ASSUME PublicOnly
  PROVE  Spec => PruneEnforcesLimit
<1> DEFINE A == PruneDone => \/ weight <= MaxWeight
                             \/ \A i \in 2..Len(sorted) : Kept(pool, sorted[i].id)
<1>1. RestTyped /\ ExactInv => A
  <2> SUFFICES ASSUME RestTyped, ExactInv, PruneDone, ~ (weight <= MaxWeight),
                      NEW i \in 2..Len(sorted)
               PROVE  Kept(pool, sorted[i].id)
    OBVIOUS
  <2>1. prune.on /\ prune.it <= 1
    BY DEF PruneDone
  <2>2. prune.it \in Nat /\ Len(sorted) \in Nat
    BY DEF RestTyped
  <2>3. i \in (prune.it + 1)..Len(sorted)
    BY <2>1, <2>2
  <2> QED
    BY <2>1, <2>3 DEF ExactInv, PruneInv
<1>2. Spec => [](RestTyped /\ ExactInv)
  BY ExactHolds, PTL
<1>3. RestTyped /\ ExactInv => [A]_vars
  BY <1>1
<1>4. Spec => [][A]_vars
  BY <1>2, <1>3, PTL
<1> QED
  BY <1>4 DEF PruneEnforcesLimit
=============================================================================
