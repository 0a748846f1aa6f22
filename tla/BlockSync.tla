------------------------------ MODULE BlockSync ------------------------------
(***************************************************************************)
(* The download of the chain by src/src/cryptonote_protocol/               *)
(* cryptonote_protocol_handler.inl: each connection asks its peer for      *)
(* hashes, reserves spans of them in the block queue, asks for the blocks, *)
(* puts them in the queue, and adds what can be added to the chain if no   *)
(* other connection is doing so.                                           *)
(*                                                                         *)
(* Handlers of one connection run one at a time, those of different        *)
(* connections interleave between any two operations on the queue (pc is   *)
(* where the handler of a connection is).  Answers of a peer arrive in     *)
(* order, at any time; a timeout may come first (KickIdle), and a peer may *)
(* leave (Disconnect).                                                     *)
(*                                                                         *)
(* Peers are honest, unpruned and on one chain, so that a hash is a        *)
(* height; they differ in how much of it they have (Remote).  The genesis  *)
(* block has height 0.                                                     *)
(***************************************************************************)
EXTENDS BlockQueue

CONSTANTS
  Peer,
  Remote,        \* Remote[p]: the number of blocks peer p has
  SpanSize,      \* get_block_sync_size: blocks per request
  IdCount,       \* BLOCKS_IDS_SYNCHRONIZING_DEFAULT_COUNT: hashes per chain entry
  NearBlocks,    \* BLOCK_QUEUE_FORCE_DOWNLOAD_NEAR_BLOCKS
  MaxFilled,     \* BLOCK_QUEUE_NSPANS_THRESHOLD
  MaxCallbacks,  \* bound on the callbacks waiting on a connection
  MaxTrouble     \* bound on the connections that are late or lost

Free == "free"             \* m_sync_lock is held by nobody

ASSUME SyncAssumption ==
  /\ IsFiniteSet(Peer) /\ Peer # {} /\ Free \notin Peer
  /\ Remote \in [Peer -> Nat \ {0}]
  /\ {SpanSize, IdCount, NearBlocks, MaxCallbacks} \subseteq Nat \ {0}
  /\ {MaxFilled, MaxTrouble} \subseteq Nat

VARIABLES
  queue,    \* m_block_queue
  height,   \* the core's number of blocks
  target,   \* the core's target_blockchain_height
  lock,     \* the connection that holds m_sync_lock
  conn,     \* the contexts of the connections
  net,      \* the answers on their way from each peer
  trouble   \* how many connections were late or lost

vars == <<queue, height, target, lock, conn, net, trouble>>

Gone(p) == <<"gone", p>>   \* the id of p's spans once the connection is closed
Infinity == 1 + Max({Remote[p] : p \in Peer})

\* A connection's context and the local state of its handler.  The null hash is -1; timed is
\* m_last_request_time being set, asked is m_num_requested > 0; callbacks counts the
\* callbacks requested, notified is m_idle_peer_notification.  force is force_next_span,
\* entry whether request_missing_objects was called for a chain entry, known the number of
\* blocks when its hashes were first looked up, span what the handler last got from the queue.
Closed ==
  [pc |-> "closed", state |-> "before_handshake", needed |-> <<>>, requested |-> {},
   last_response |-> 0, last_known |-> -1, expect |-> "none", expect_height |-> 0,
   asked |-> FALSE, timed |-> FALSE, score |-> 0, callbacks |-> 0, notified |-> FALSE,
   force |-> FALSE, entry |-> FALSE, known |-> 0, span |-> NoSpan]

Live == {p \in Peer : conn[p].pc # "closed"}

\* p finds m_sync_lock taken: request_missing_objects too takes it, for a moment.
Held(p) == lock # Free \/ \E o \in Peer \ {p} : conn[o].pc \in {"request", "skip"}
-----------------------------------------------------------------------------
\* The handler of p goes on with context c; a handler that returns ends in "idle".
Goto(p, c) == conn' = [conn EXCEPT ![p] = c]

\* request_missing_objects returns true with context c.
Return(p, c) ==
  /\ Goto(p, [c EXCEPT !.pc = "idle", !.force = FALSE, !.entry = FALSE, !.span = NoSpan,
                       !.asked = @ /\ ~ c.entry])
  /\ target' = IF c.entry THEN Max({target, Remote[p]}) ELSE target

\* drop_connection and on_connection_close: q is the queue so far.
Close(p, q) ==
  LET f == flush_spans(q, p, FALSE)
      Rename(s) == IF s.conn = p THEN [s EXCEPT !.conn = Gone(p)] ELSE s
      left == Max({0} \cup {Remote[o] : o \in Live \ {p}})
  IN  /\ queue' = [f EXCEPT !.blocks = {Rename(s) : s \in @}]
      /\ conn' = [o \in Peer |->
                    IF o = p THEN Closed
                    ELSE IF conn[o].pc \in {"chaining", "chained"}
                         THEN [conn[o] EXCEPT !.span = Rename(@)] ELSE conn[o]]
      /\ net' = [net EXCEPT ![p] = <<>>]
      /\ target' = Min({target, left})

(***************************************************************************)
(* The requests.  An honest peer's answer is known when it is asked: the   *)
(* hashes that follow the first one of block_ids it has, or those of the   *)
(* blocks it has.                                                          *)
(***************************************************************************)
AskChain(p, c, front) ==
  LET start == IF front >= 0 /\ front < Remote[p] THEN front ELSE Min({height, Remote[p]}) - 1
  IN  /\ net' = [net EXCEPT ![p] = Append(@, [kind |-> "chain", start |-> start,
                                              n |-> Min({IdCount, Remote[p] - start})])]
      /\ Return(p, [c EXCEPT !.expect = "chain", !.timed = TRUE,
                             !.expect_height = IF front >= 0 THEN Infinity ELSE height])

AskObjects(p, c, s) ==
  /\ net' = [net EXCEPT ![p] =
               Append(@, [kind |-> "objects", start |-> Min(s.hashes),
                          n |-> Cardinality({h \in s.hashes : h < Remote[p]})])]
  /\ Return(p, [c EXCEPT !.expect = "objects", !.timed = TRUE, !.expect_height = s.start,
                         !.requested = c.requested \cup s.hashes, !.asked = TRUE])
-----------------------------------------------------------------------------
(***************************************************************************)
(* process_payload_sync_data: at the handshake, and at every timed sync of *)
(* a connection that is not synchronizing.                                 *)
(***************************************************************************)
\* MUTANT of SyncData: no callback is requested.
SyncDataQuietly(p, c) ==
  LET known == IF target = 0 THEN height ELSE target
  IN  IF Remote[p] <= height
      THEN /\ Goto(p, [c EXCEPT !.pc = "idle", !.state = "normal"])
           /\ UNCHANGED target
      ELSE /\ Goto(p, [c EXCEPT !.pc = "idle", !.state = "synchronizing", !.asked = FALSE])
           /\ target' = IF Remote[p] > known THEN Remote[p] ELSE target

SyncData(p, c) ==
  LET known == IF target = 0 THEN height ELSE target
  IN  IF Remote[p] <= height
      THEN /\ Goto(p, [c EXCEPT !.pc = "idle", !.state = "normal"])
           /\ UNCHANGED target
      ELSE /\ Goto(p, [c EXCEPT !.pc = "idle", !.state = "synchronizing", !.asked = FALSE,
                                !.callbacks = Min({MaxCallbacks, @ + 1})])
           /\ target' = IF Remote[p] > known THEN Remote[p] ELSE target

Connect(p) ==
  /\ conn[p].pc = "closed"
  /\ SyncData(p, conn[p])
  /\ UNCHANGED <<queue, height, lock, net, trouble>>

TimedSync(p) ==
  /\ conn[p].pc = "idle" /\ conn[p].state \in {"normal", "standby"}
  /\ SyncData(p, conn[p])
  /\ UNCHANGED <<queue, height, lock, net, trouble>>

\* MUTANT of CheckStandby: only a connection that was found idle is called back.
CheckIdleStandby(p) ==
  /\ conn[p].state = "standby" /\ conn[p].notified /\ conn[p].callbacks < MaxCallbacks
  /\ Goto(p, [conn[p] EXCEPT !.callbacks = @ + 1])
  /\ UNCHANGED <<queue, height, target, lock, net, trouble>>

\* check_standby_peers and kick_idle_peers, for one connection.
CheckStandby(p) ==
  /\ conn[p].state = "standby" /\ conn[p].callbacks < MaxCallbacks
  /\ Goto(p, [conn[p] EXCEPT !.callbacks = @ + 1])
  /\ UNCHANGED <<queue, height, target, lock, net, trouble>>

KickIdle(p) ==
  /\ conn[p].state = "synchronizing" /\ conn[p].timed
  /\ IF conn[p].score < 0 THEN UNCHANGED trouble
     ELSE trouble < MaxTrouble /\ trouble' = trouble + 1
  /\ Goto(p, [conn[p] EXCEPT !.callbacks = Min({MaxCallbacks, @ + 1}), !.notified = TRUE])
  /\ UNCHANGED <<queue, height, target, lock, net>>

Disconnect(p) ==
  /\ conn[p].pc = "idle"
  /\ trouble < MaxTrouble /\ trouble' = trouble + 1
  /\ Close(p, queue)
  /\ UNCHANGED <<height, lock>>

(***************************************************************************)
(* on_callback.  A peer that was found idle is put on standby once, and    *)
(* dropped the second time, unless a new request was made in the meantime. *)
(***************************************************************************)
OnCallback(p) ==
  LET c == [conn[p] EXCEPT !.callbacks = @ - 1, !.notified = FALSE]
      late == conn[p].notified /\ c.state = "synchronizing" /\ c.timed
      Add(d) == /\ Goto(p, [d EXCEPT !.state = "synchronizing", !.pc = "add"])
                /\ UNCHANGED <<queue, target, net>>
  IN  /\ conn[p].pc = "idle" /\ conn[p].callbacks > 0
      /\ \/ late /\ c.score < 0 /\ Close(p, queue)
         \/ late /\ c.score >= 0 /\ Add([c EXCEPT !.score = @ - 1, !.timed = FALSE, !.expect = "none",
                                                  !.expect_height = 0, !.requested = {}])
         \/ /\ c.state = "synchronizing" /\ ~ c.timed
            /\ AskChain(p, [c EXCEPT !.needed = <<>>], -1)
            /\ UNCHANGED queue
         \/ c.state = "standby" /\ Add(c)
         \/ /\ c.state = "normal" \/ (c.state = "synchronizing" /\ c.timed)
            /\ Goto(p, c)
            /\ UNCHANGED <<queue, target, net>>
      /\ UNCHANGED <<height, lock, trouble>>
-----------------------------------------------------------------------------
(***************************************************************************)
(* handle_response_chain_entry.  The first hash must be known or           *)
(* requested.  The hashes are then looked up one by one without a lock,    *)
(* and no known one may follow an unknown one: if blocks were added        *)
(* between two look-ups this may happen with a faultless answer.           *)
(***************************************************************************)
HandleChainEntry(p) ==
  LET c == conn[p]
      m == Head(net[p])
      ok == /\ c.expect = "chain" /\ m.start + 1 <= c.expect_height
            /\ m.start < height \/ m.start \in queue.requested \cup queue.have
      known == Min({height, m.start + m.n})
  IN  /\ c.pc = "idle" /\ net[p] # <<>> /\ m.kind = "chain"
      /\ IF ok
         THEN /\ Goto(p, [c EXCEPT !.pc = "scan", !.entry = TRUE, !.expect = "none",
                                   !.timed = FALSE, !.known = Max({known, m.start}),
                                   !.needed = [i \in 1..m.n |-> m.start + i - 1],
                                   !.last_response = m.start + m.n - 1])
              /\ net' = [net EXCEPT ![p] = Tail(@)]
              /\ UNCHANGED <<queue, target>>
         ELSE Close(p, queue)
      /\ UNCHANGED <<height, lock, trouble>>

ScanChainEntry(p) ==
  LET c == conn[p]
  IN  /\ c.pc = "scan"
      /\ \/ /\ Goto(p, [c EXCEPT !.pc = "request", !.known = 0])
            /\ UNCHANGED <<queue, target, net>>
         \/ /\ \E i, j \in Range(c.needed) : c.known <= i /\ i < j /\ j < height
            /\ Close(p, queue)
      /\ UNCHANGED <<height, lock, trouble>>

(***************************************************************************)
(* handle_response_get_objects: exactly the blocks that were requested.    *)
(***************************************************************************)
HandleObjects(p) ==
  LET c == conn[p]
      m == Head(net[p])
      ok == /\ c.expect = "objects" /\ m.start <= c.expect_height
            /\ c.requested = m.start..(m.start + m.n - 1)
  IN  /\ c.pc = "idle" /\ net[p] # <<>> /\ m.kind = "objects"
      /\ IF ok
         THEN /\ queue' = add_blocks(queue, m.start, m.n, p)
              /\ Goto(p, [c EXCEPT !.pc = "add", !.expect = "none", !.timed = FALSE,
                                   !.requested = {}, !.last_known = m.start + m.n - 1])
              /\ net' = [net EXCEPT ![p] = Tail(@)]
              /\ target' = Max({target, Remote[p]})
         ELSE Close(p, queue)
      /\ UNCHANGED <<height, lock, trouble>>
-----------------------------------------------------------------------------
(***************************************************************************)
(* should_download_next_span: yes if nobody reserved the next span, no if  *)
(* it is there; if it is scheduled the time since then decides.            *)
(***************************************************************************)
should_download_next_span(p, q) ==
  IF Remote[p] <= height THEN {FALSE}
  ELSE IF ~ has_next_span(q, height) THEN {TRUE}
  ELSE IF First(q.blocks).filled THEN {FALSE} ELSE BOOLEAN

(***************************************************************************)
(* try_add_next_blocks.                                                    *)
(***************************************************************************)
\* MUTANT of TryLock: a lock that is held is taken.
TryLockAnyway(p) ==
  /\ conn[p].pc = "add"
  /\ lock' = p
  /\ Goto(p, [conn[p] EXCEPT !.pc = "adding"])
  /\ UNCHANGED <<queue, height, target, net, trouble>>

TryLock(p) ==
  /\ conn[p].pc = "add"
  /\ \/ /\ lock = Free
        /\ lock' = p
        /\ Goto(p, [conn[p] EXCEPT !.pc = "adding"])
     \/ /\ Held(p)
        /\ Goto(p, [conn[p] EXCEPT !.pc = "request"])
        /\ UNCHANGED lock
  /\ UNCHANGED <<queue, height, target, net, trouble>>

\* One round of the loop, up to the decision what to do with the first filled span.
NextSpan(p) ==
  LET c == conn[p]
      s == First(Filled(queue))
      Stop(force) == lock' = Free /\ Goto(p, [c EXCEPT !.pc = "request", !.force = force])
  IN  /\ c.pc = "adding"
      /\ \/ /\ Filled(queue) # {} /\ End(s) <= height
            /\ queue' = remove_spans(queue, s.conn, s.start)
            /\ UNCHANGED <<conn, lock>>
         \/ /\ Filled(queue) # {} /\ End(s) > height /\ s.start <= height
            /\ Goto(p, [c EXCEPT !.pc = "chaining", !.span = s])
            /\ UNCHANGED <<queue, lock>>
         \/ /\ Filled(queue) # {} => s.start > height
            /\ \E force \in IF Filled(queue) # {} /\ s.start - 1 \notin queue.requested
                            THEN {FALSE} ELSE should_download_next_span(p, queue) :
                  Stop(force)
            /\ UNCHANGED queue
      /\ UNCHANGED <<height, target, net, trouble>>

\* prepare_handle_incoming_blocks to cleanup_handle_incoming_blocks; then remove_spans.
AddToChain(p) ==
  /\ conn[p].pc = "chaining"
  /\ height' = Max({height, End(conn[p].span)})
  /\ Goto(p, [conn[p] EXCEPT !.pc = "chained"])
  /\ UNCHANGED <<queue, target, lock, net, trouble>>

RemoveAdded(p) ==
  /\ conn[p].pc = "chained"
  /\ queue' = remove_spans(queue, conn[p].span.conn, conn[p].span.start)
  /\ Goto(p, [conn[p] EXCEPT !.pc = "adding", !.span = NoSpan])
  /\ UNCHANGED <<height, target, lock, net, trouble>>
-----------------------------------------------------------------------------
(***************************************************************************)
(* request_missing_objects.  First the hashes that are not needed any more *)
(* are dropped (skip_unneeded_hashes); if none is left and nothing was     *)
(* asked for, the peer is of no use, now or at all.                        *)
(***************************************************************************)
skip_unneeded_hashes(c, queued) ==
  LET k == Max({n \in 0..Len(c.needed) :
                  \A i \in 1..n : c.needed[i] < height \/ (queued /\ c.needed[i] \in queue.have)})
  IN  [c EXCEPT !.needed = SubSeq(@, k + 1, Len(@)),
                !.last_known = IF k > 0 /\ k = Len(c.needed) THEN c.needed[k] ELSE @]

\* All the hashes of d were dropped, which leaves c.
Exhausted(c, d) == d.needed # <<>> /\ c.needed = <<>> /\ ~ c.asked

NothingToGet(p, c, q) ==
  IF Remote[p] > get_next_needed_height(q, height)
  THEN Close(p, q)
  ELSE /\ Return(p, [c EXCEPT !.state = "normal"])
       /\ queue' = q
       /\ UNCHANGED net

\* The connection waits for its next callback.
Standby(p, c, callbacks) ==
  /\ Return(p, [c EXCEPT !.state = "standby", !.callbacks = Min({MaxCallbacks, @ + callbacks})])
  /\ UNCHANGED net

\* Whether to go on or to wait; small is the queue's size being below its threshold.  If not
\* near, the next span is filled (NearBlocks is not 0): the connection is called back to add it,
\* unless the lock is taken or another connection has added it in the meantime.
Decide(p, c, q, small) ==
  LET next_needed == get_next_needed_height(q, height)
      next_block == IF c.needed = <<>> THEN next_needed ELSE c.last_response - Len(c.needed) + 1
      near == next_block < height + NearBlocks \/ next_needed < height + NearBlocks
      proceed == near \/ Cardinality(Filled(q)) < MaxFilled \/ small
      forces == IF near THEN should_download_next_span(p, q) ELSE {FALSE}
      Go(force) == /\ Goto(p, [c EXCEPT !.state = "synchronizing", !.force = force,
                                        !.pc = IF force THEN "pick"
                                               ELSE IF c.needed # <<>> THEN "reserve" ELSE "skip"])
                   /\ queue' = q
                   /\ UNCHANGED <<target, net, trouble>>
  IN  \/ TRUE \in forces /\ Go(TRUE)
      \/ FALSE \in forces /\ proceed /\ Go(FALSE)
      \/ /\ FALSE \in forces /\ ~ proceed
         /\ \/ lock = Free /\ Standby(p, c, 1)
            \/ Standby(p, c, 0)
         /\ queue' = q
         /\ UNCHANGED trouble

RequestStart(p) ==
  /\ conn[p].pc = "request"
  /\ \E q \in {flush_stale_spans(queue, Live)}, c \in {skip_unneeded_hashes(conn[p], TRUE)} :
       \/ /\ conn[p].force
          /\ queue' = q
          /\ Goto(p, [conn[p] EXCEPT !.pc = "pick"])
          /\ UNCHANGED <<target, net, trouble>>
       \/ ~ conn[p].force /\ Exhausted(c, conn[p]) /\ NothingToGet(p, c, q) /\ UNCHANGED trouble
       \/ ~ conn[p].force /\ ~ Exhausted(c, conn[p]) /\ \E small \in BOOLEAN : Decide(p, c, q, small)
  /\ UNCHANGED <<height, lock>>

\* get_next_span_if_scheduled, and then reset_next_span_time, which throws if the first span
\* is not a scheduled one any more.  Whoever called the handler catches the exception
\* (handle_invoke_map an answer's, call_back_starter a callback's): the connection stays open,
\* with m_requested_objects filled and no request sent.
Pick(p) ==
  LET s == get_next_span_if_scheduled(queue)
  IN  /\ conn[p].pc = "pick"
      /\ Goto(p, [conn[p] EXCEPT !.pc = IF s.nblocks > 0 THEN "reset" ELSE "reserve",
                                 !.span = s, !.requested = @ \cup s.hashes])
      /\ UNCHANGED <<queue, height, target, lock, net, trouble>>

Reset(p) ==
  /\ conn[p].pc = "reset"
  /\ IF get_next_span_if_scheduled(queue).nblocks > 0
     THEN AskObjects(p, conn[p], conn[p].span)
     ELSE /\ Goto(p, [conn[p] EXCEPT !.pc = "idle", !.force = FALSE, !.entry = FALSE, !.span = NoSpan])
          /\ UNCHANGED <<target, net>>
  /\ UNCHANGED <<queue, height, lock, trouble>>

\* The needed hashes from which those of a span that another connection reserved are erased.
Without(needed, hashes) ==
  LET left[i \in 0..Len(needed)] ==
        IF i = 0 THEN <<>>
        ELSE IF needed[i] \in hashes THEN left[i - 1] ELSE Append(left[i - 1], needed[i])
  IN  left[Len(needed)]

Reserve(p) ==
  /\ conn[p].pc = "reserve"
  /\ \E c \in {skip_unneeded_hashes(conn[p], FALSE)} :
     \E r \in {Reserved(queue, c.last_response, SpanSize, c.needed)}, s \in {get_next_span_if_scheduled(queue)} :
       LET skipped == r.start - (c.last_response - Len(c.needed) + 1)
       IN  \/ Exhausted(c, conn[p]) /\ NothingToGet(p, c, queue)
           \/ /\ ~ Exhausted(c, conn[p]) /\ r.nblocks > 0
              /\ queue' = reserve_span(queue, p, r)
              /\ AskObjects(p, [c EXCEPT !.needed = SubSeq(@, skipped + r.nblocks + 1, Len(@))], r)
           \/ /\ ~ Exhausted(c, conn[p]) /\ r.nblocks = 0 /\ ~ c.force /\ s.nblocks > 0
              /\ AskObjects(p, [c EXCEPT !.needed = Without(@, s.hashes)], s)
              /\ UNCHANGED queue
           \/ /\ ~ Exhausted(c, conn[p]) /\ r.nblocks = 0 /\ (c.force \/ s.nblocks = 0)
              /\ IF get_next_needed_height(queue, height) >= target
                 THEN /\ Return(p, [c EXCEPT !.state = "normal"])
                      /\ UNCHANGED <<queue, net>>
                 ELSE Close(p, queue)
  /\ UNCHANGED <<height, lock, trouble>>

\* No hashes are left: add blocks if there are some, or ask for more hashes, or all is done.
Skip(p) ==
  LET c == [conn[p] EXCEPT !.needed = <<>>]
      add == height < target /\ Filled(queue) # {}
  IN  /\ conn[p].pc = "skip"
      /\ \/ add /\ lock = Free /\ Standby(p, c, 1) /\ UNCHANGED queue
         \/ /\ ~ add \/ Held(p)
            /\ IF c.last_response < Remote[p] - 1
               THEN /\ AskChain(p, c, IF c.last_known = height - 1 THEN -1 ELSE c.last_known)
                    /\ UNCHANGED queue
               ELSE IF c.requested = {}
                    THEN /\ Return(p, [c EXCEPT !.state = "normal"])
                         /\ UNCHANGED <<queue, net>>
                    ELSE Close(p, queue)
      /\ UNCHANGED <<height, lock, trouble>>
-----------------------------------------------------------------------------
Init ==
  /\ queue = EmptyQueue
  /\ height = 1
  /\ target = 0
  /\ lock = Free
  /\ conn = [p \in Peer |-> Closed]
  /\ net = [p \in Peer |-> <<>>]
  /\ trouble = 0

\* The steps of a handler once it runs.
Run(p) ==
  \/ ScanChainEntry(p) \/ TryLock(p) \/ NextSpan(p) \/ AddToChain(p) \/ RemoveAdded(p)
  \/ RequestStart(p) \/ Pick(p) \/ Reset(p) \/ Reserve(p) \/ Skip(p)

Deliver(p) == HandleChainEntry(p) \/ HandleObjects(p)

Next ==
  \E p \in Peer :
     \/ Connect(p) \/ TimedSync(p) \/ CheckStandby(p) \/ OnCallback(p) \/ Deliver(p) \/ Run(p)
     \/ KickIdle(p) \/ Disconnect(p)

\* Threads run, peers answer and can be reached again, and the timers of on_idle and of the
\* timed synchronization keep firing.  An answer that arrived is handled although callbacks
\* keep coming.  The brief locks of request_missing_objects do not make a connection's
\* try_to_lock fail forever; nor does the timed synchronization, once a minute, forever come
\* before check_standby_peers, which runs every second, or the callback of a connection on
\* standby, which is posted at once.
Fairness ==
  \A p \in Peer :
     /\ WF_vars(Run(p)) /\ SF_vars(Deliver(p)) /\ WF_vars(OnCallback(p))
     /\ WF_vars(Connect(p)) /\ WF_vars(TimedSync(p)) /\ SF_vars(CheckStandby(p))
     /\ SF_vars(TryLock(p) /\ lock' = p)
     /\ SF_vars(conn[p].state = "standby" /\ OnCallback(p))

Spec == Init /\ [][Next]_vars /\ Fairness
-----------------------------------------------------------------------------
Top == Max({Remote[p] : p \in Peer})
Height == 0..Top

Pcs == {"closed", "idle", "scan", "add", "adding", "chaining", "chained", "request", "pick", "reset",
        "reserve", "skip"}

\* The types of the variables, and mutual exclusion: m_sync_lock is held exactly by the handler
\* that is in the loop of try_add_next_blocks, so that one connection at a time adds blocks.
TypeOK ==
  /\ queue.requested \cup queue.have \subseteq Height
  /\ height \in 1..Top /\ target \in Height
  /\ lock \in Peer \cup {Free}
  /\ \A p \in Peer : conn[p].pc \in Pcs
  /\ \A p \in Peer : lock = p <=> conn[p].pc \in {"adding", "chaining", "chained"}

\* The indices of the block queue name no block that the queue has forgotten: a hash in
\* requested_hashes is one of a span in the queue, and one in have_blocks is one of a span
\* that arrived.  reserve_span and skip_unneeded_hashes skip what the indices name, so that a
\* hash without a span would never be asked for again; spans overlap, are flushed, replaced
\* and given other hashes meanwhile.
NoPhantoms ==
  /\ queue.requested \subseteq Hashes(queue.blocks)
  /\ queue.have \subseteq Hashes(Filled(queue))

\* A block that arrived counts as requested as long as the queue knows of it, so that
\* reserve_span, which looks at requested_hashes only, does not start a span with it.
HaveIsRequested == queue.have \subseteq queue.requested

\* A connection that is synchronizing and waits for nothing: it runs no handler, no answer is
\* on its way and no callback was requested.  kick_idle_peers looks at connections with a
\* request time only, check_standby_peers and the timed synchronization at other states.
Unserved(p) ==
  conn[p].pc = "idle" /\ conn[p].state = "synchronizing" /\ net[p] = <<>> /\ conn[p].callbacks = 0

\* Nothing but the exception of reset_next_span_time leaves a connection unserved: one that is
\* has blocks in m_requested_objects that it never asked for, and no request time.  So no
\* order of answers, timeouts, callbacks and changes to standby and back loses the
\* last event that would have woken a connection.
NoWedge ==
  \A p \in Peer : Unserved(p) => conn[p].requested # {} /\ ~ conn[p].timed

\* The blocks that a span stands for.
Blocks(S) == UNION {s.start..(End(s) - 1) : s \in S}

\* Whatever answer is late and whichever connection is lost, all blocks the peers have are
\* downloaded in the end: those that are not on the chain are in the queue.  The one way out
\* is a connection that the exception of reset_next_span_time left unserved and that nothing
\* ever closes: its peer may be the only one that has the last blocks.
DownloadCompletes ==
  \/ <>(height..(Top - 1) \subseteq Blocks(Filled(queue)))
  \/ \E p \in Peer : <>[]Unserved(p)
=============================================================================
