------------------------------ MODULE HardFork ------------------------------
(***************************************************************************)
(* The hard fork tracker of src/src/cryptonote_basic/hardfork.cpp together *)
(* with the calls Blockchain and BlockchainDB make to it: a block added on *)
(* top, a block popped, a rescan after a chain switch, and a (re)start of  *)
(* the daemon, possibly with a newer release whose fork table is longer.   *)
(*                                                                         *)
(* Block heights are counted from 0 as in the code: the block at height h  *)
(* is chain[h + 1], and Len(chain) is db.height().  Indices into the fork  *)
(* table are counted from 1.  last_versions[v] is the number of times v    *)
(* occurs in `versions'; every operation of the code updates the two       *)
(* together, so the array is not a variable here.                          *)
(*                                                                         *)
(* The object's lock is held for the whole of a rescan.  Its loop over the *)
(* blocks is taken one block per step, with every other operation disabled *)
(* until it ends (phase "replay"); likewise for the loop that pops blocks  *)
(* at start-up (phase "popping").                                          *)
(***************************************************************************)
EXTENDS Naturals, Sequences, FiniteSets, FiniteSetsExt

CONSTANTS
  Table,        \* the forks the newest release knows: version, height, threshold
  WindowSize,   \* window_size: the number of blocks whose votes count
  MaxHeight,    \* bound on the length of the chain
  MaxMinor      \* bound on minor_version, the vote a block carries

\* What add_fork makes of a table that starts with version 1 (ForkTable).
IsForkTable(t) ==
  /\ t \in Seq([version : Nat \ {0}, height : Nat, threshold : 0..100])
  /\ t # <<>>
  /\ t[1].version = 1
  /\ \A m, n \in 1..Len(t) :
        m < n => /\ t[m].version < t[n].version
                 /\ t[m].height < t[n].height

ASSUME TableAssumption == IsForkTable(Table)

ASSUME BoundsAssumption ==
  /\ WindowSize \in Nat \ {0}
  /\ MaxHeight \in Nat \ {0}
  /\ MaxMinor \in Nat \ {0}

VARIABLES
  release,              \* how many entries of Table the running release has
  chain,                \* the main chain: major_version and minor_version of each block
  hf_versions,          \* the database's hard fork version of each height
  versions,             \* the deque of votes in the window, oldest first
  current_fork_index,
  phase,                \* "run", or the loop that holds the lock: "popping", "replay"
  popped,               \* num_popped_blocks > 0 in the start-up loop
  replay                \* the height the rescan loop re-adds next

vars == <<release, chain, hf_versions, versions, current_fork_index, phase, popped, replay>>

OriginalVersion == 1

Version == {Table[n].version : n \in 1..Len(Table)}

Block == [major : Version, minor : 0..MaxMinor]

Genesis == [major |-> 1, minor |-> 0]

(***************************************************************************)
(* The vote of a block, capped at the highest version the release knows.   *)
(***************************************************************************)
get_block_vote(b) == IF b.minor = 0 THEN 1 ELSE b.minor

get_effective_version(r, v) ==
  IF v > Table[r].version THEN Table[r].version ELSE v

do_check(i, b) ==
  /\ b.major = Table[i].version
  /\ get_block_vote(b) >= Table[i].version

(***************************************************************************)
(* Votes for fork n or a later one among the votes vs, the number a fork   *)
(* needs, and the fork the votes select for the block at height h: the     *)
(* latest one that is due and has enough votes, else the current one.      *)
(***************************************************************************)
Votes(r, vs, n) ==
  Cardinality({i \in 1..Len(vs) : \E m \in n..r : vs[i] = Table[m].version})

Threshold(n) == (WindowSize * Table[n].threshold + 99) \div 100

get_voted_fork_index(r, vs, cur, h) ==
  LET ready == {n \in 1..r : h >= Table[n].height /\ Votes(r, vs, n) >= Threshold(n)}
  IN  IF ready = {} THEN cur ELSE Max(ready)

AtLeast(voted, cur) == IF voted > cur THEN voted ELSE cur

\* The version scheduled for height h, whatever the votes.
get_ideal_index(r, h) == Max({n \in 1..r : n = 1 \/ h >= Table[n].height})

(***************************************************************************)
(* The window: the last WindowSize votes up to and including block height  *)
(* h of chain c, and the window after one more vote.                       *)
(***************************************************************************)
WindowUpTo(r, c, h) ==
  LET first == IF h >= WindowSize - 1 THEN h - (WindowSize - 1) ELSE 0
  IN  [i \in 1..(h - first + 1) |-> get_effective_version(r, get_block_vote(c[first + i]))]

PushVote(vs, v) ==
  LET keep == IF Len(vs) >= WindowSize THEN WindowSize - 1 ELSE Len(vs)
  IN  Append(SubSeq(vs, Len(vs) - keep + 1, Len(vs)), v)

SetVersion(hv, h, v) ==
  IF h + 1 <= Len(hv) THEN [hv EXCEPT ![h + 1] = v] ELSE Append(hv, v)
-----------------------------------------------------------------------------
(***************************************************************************)
(* HardFork::add, for a block that is already in the chain at height h.    *)
(***************************************************************************)
Add(b, h) ==
  IF do_check(current_fork_index, b)
  THEN LET vs == PushVote(versions, get_effective_version(release, get_block_vote(b)))
       IN  /\ hf_versions' = SetVersion(hf_versions, h, Table[current_fork_index].version)
           /\ versions' = vs
           /\ current_fork_index' =
                AtLeast(get_voted_fork_index(release, vs, current_fork_index, h + 1),
                        current_fork_index)
  ELSE UNCHANGED <<hf_versions, versions, current_fork_index>>

\* A block that passes HardFork::check goes on top and is added.
AddBlock(b) ==
  /\ phase = "run"
  /\ Len(chain) < MaxHeight
  /\ do_check(current_fork_index, b)
  /\ chain' = Append(chain, b)
  /\ Add(b, Len(chain))
  /\ UNCHANGED <<release, phase, popped, replay>>

(***************************************************************************)
(* Blockchain::pop_block_from_blockchain and HardFork::on_block_popped(1): *)
(* the newest vote leaves, the stored version of the popped height is put  *)
(* in front, and the fork is chosen by height alone.                       *)
(***************************************************************************)
PoppedWindow(vs, hv, h) == <<hv[h + 1]>> \o SubSeq(vs, 1, Len(vs) - 1)

\* Mutant: the fork in force is left as it was.
PopBlockKeepsFork ==
  LET h == Len(chain) - 1
  IN  /\ phase = "run"
      /\ Len(chain) > 1
      /\ chain' = SubSeq(chain, 1, h)
      /\ versions' = PoppedWindow(versions, hf_versions, h)
      /\ UNCHANGED <<release, hf_versions, current_fork_index, phase, popped, replay>>

PopBlock ==
  LET h == Len(chain) - 1
  IN  /\ phase = "run"
      /\ Len(chain) > 1
      /\ chain' = SubSeq(chain, 1, h)
      /\ versions' = PoppedWindow(versions, hf_versions, h)
      /\ current_fork_index' = get_ideal_index(release, h)
      /\ UNCHANGED <<release, hf_versions, phase, popped, replay>>

(***************************************************************************)
(* reorganize_from_block_height(h): the window is rebuilt up to h, the     *)
(* fork goes back to the one stored for h (never forward), is advanced by  *)
(* the votes, and the blocks above h are added again.                      *)
(***************************************************************************)
StartVersion(h) == IF h = 0 THEN OriginalVersion ELSE hf_versions[h + 1]

BackTo(cur, v) == Max({n \in 1..cur : n = 1 \/ Table[n].version <= v})

\* Mutant: the votes are not counted after the window is rebuilt.
RebuildAtNoVote(h, c) ==
  /\ versions' = WindowUpTo(release, c, h)
  /\ current_fork_index' = BackTo(current_fork_index, StartVersion(h))

RebuildAt(h, c) ==
  LET vs == WindowUpTo(release, c, h)
      cur == BackTo(current_fork_index, StartVersion(h))
  IN  /\ versions' = vs
      /\ current_fork_index' = AtLeast(get_voted_fork_index(release, vs, cur, h + 1), cur)

Reorganize(chain_height) ==
  /\ phase = "run"
  /\ chain_height \in 1..Len(chain)
  /\ RebuildAt(chain_height - 1, chain)
  /\ replay' = chain_height
  /\ phase' = IF chain_height = Len(chain) THEN "run" ELSE "replay"
  /\ UNCHANGED <<release, chain, hf_versions, popped>>

\* Mutant: the loop goes on to the height of the chain itself.
ReplayBlockPastTop ==
  /\ phase = "replay"
  /\ Add(chain[replay + 1], replay)
  /\ replay' = replay + 1
  /\ phase' = IF replay + 1 > Len(chain) THEN "run" ELSE "replay"
  /\ UNCHANGED <<release, chain, popped>>

ReplayBlock ==
  /\ phase = "replay"
  /\ Add(chain[replay + 1], replay)
  /\ replay' = replay + 1
  /\ phase' = IF replay + 1 = Len(chain) THEN "run" ELSE "replay"
  /\ UNCHANGED <<release, chain, popped>>

(***************************************************************************)
(* The daemon (re)starts, on the same release or a newer one.  init() and  *)
(* rescan_from_block_height rebuild the window from the last WindowSize    *)
(* blocks and look up the version stored for the top block; Blockchain's   *)
(* init then pops blocks until the top one has the version scheduled for   *)
(* its height, and rescans if it popped any.                               *)
(***************************************************************************)
StoredIndex(r, v) ==
  LET found == {n \in 1..r : Table[n].version = v}
  IN  IF found = {} THEN r ELSE Max(found)

Restart(r) ==
  LET top == Len(chain) - 1
      vs == WindowUpTo(r, chain, top)
      cur == StoredIndex(r, hf_versions[top + 1])
  IN  /\ phase \in {"run", "popping"}
      /\ r \in release..Len(Table)
      /\ release' = r
      /\ versions' = vs
      /\ current_fork_index' = AtLeast(get_voted_fork_index(r, vs, cur, top + 1), cur)
      /\ phase' = "popping"
      /\ popped' = FALSE
      /\ UNCHANGED <<chain, hf_versions, replay>>

TopAgrees ==
  LET ideal == Table[get_ideal_index(release, Len(chain) - 1)].version
  IN  ideal <= 1 \/ ideal = chain[Len(chain)].major

\* Mutant: one block is popped at most.
StartupPopOnce ==
  /\ phase = "popping"
  /\ ~ TopAgrees /\ ~ popped
  /\ chain' = SubSeq(chain, 1, Len(chain) - 1)
  /\ popped' = TRUE
  /\ UNCHANGED <<release, hf_versions, versions, current_fork_index, phase, replay>>

StartupPop ==
  /\ phase = "popping"
  /\ ~ TopAgrees
  /\ chain' = SubSeq(chain, 1, Len(chain) - 1)
  /\ popped' = TRUE
  /\ UNCHANGED <<release, hf_versions, versions, current_fork_index, phase, replay>>

StartupDone ==
  /\ phase = "popping"
  /\ TopAgrees
  /\ IF popped THEN RebuildAt(Len(chain) - 1, chain)
               ELSE UNCHANGED <<versions, current_fork_index>>
  /\ phase' = "run"
  /\ UNCHANGED <<release, chain, hf_versions, popped, replay>>
-----------------------------------------------------------------------------
\* A first start: only the genesis block, which was added at height 0.
Init ==
  /\ release \in 1..Len(Table)
  /\ chain = <<Genesis>>
  /\ hf_versions = <<1>>
  /\ versions = <<1>>
  /\ current_fork_index = AtLeast(get_voted_fork_index(release, <<1>>, 1, 1), 1)
  /\ phase = "run"
  /\ popped = FALSE
  /\ replay = 1

Next ==
  \/ \E b \in Block : AddBlock(b)
  \/ PopBlock
  \/ \E h \in 1..Len(chain) : Reorganize(h)
  \/ ReplayBlock
  \/ \E r \in 1..Len(Table) : Restart(r)
  \/ StartupPop
  \/ StartupDone

\* The start-up loop and the rescan loop run to their end once entered.
Fairness == WF_vars(StartupPop) /\ WF_vars(StartupDone) /\ WF_vars(ReplayBlock)

Spec == Init /\ [][Next]_vars

FairSpec == Spec /\ Fairness
-----------------------------------------------------------------------------
\* The state of the tracker has the shape the code gives it.
TypeOK ==
  /\ release \in 1..Len(Table)
  /\ chain \in Seq(Block) /\ Len(chain) >= 1
  /\ hf_versions \in Seq(Version) /\ Len(hf_versions) >= Len(chain)
  /\ versions \in Seq(Nat) /\ Len(versions) >= 1
  /\ current_fork_index \in 1..release
  /\ phase \in {"run", "popping", "replay"}
  /\ popped \in BOOLEAN
  /\ replay \in Nat
  /\ phase = "replay" => replay < Len(chain)

(***************************************************************************)
(* With the thresholds of the tables in hardforks.cpp (all 0) every block  *)
(* of the chain has the version scheduled for its height, and the version  *)
(* the next block must have is the one scheduled for the next height:      *)
(* through pops, rescans, restarts and upgrades to a release with more     *)
(* forks (hardfork.cpp add, on_block_popped, reorganize_from_block_height, *)
(* rescan_from_block_height, and the popping loop of Blockchain::init).    *)
(***************************************************************************)
NoVoting == \A n \in 1..Len(Table) : Table[n].threshold = 0

ScheduledBy(r) ==
  \A h \in 0..(Len(chain) - 1) :
     chain[h + 1].major = Table[get_ideal_index(r, h)].version

VersionIsScheduled ==
  phase = "run" =>
    /\ current_fork_index = get_ideal_index(release, Len(chain))
    /\ ScheduledBy(release)

(***************************************************************************)
(* Why it holds: every block carries a vote for its own version and was    *)
(* stored with it, and the chain follows the table of some earlier release *)
(* until the popping loop has gone down to a block on which the old and    *)
(* the new table agree.                                                    *)
(***************************************************************************)
ScheduledInv ==
  /\ TypeOK
  /\ \A h \in 0..(Len(chain) - 1) : /\ hf_versions[h + 1] = chain[h + 1].major
                                    /\ get_block_vote(chain[h + 1]) >= chain[h + 1].major
  /\ \E r \in 1..release : ScheduledBy(r)
  /\ phase # "popping" => ScheduledBy(release)
  /\ phase = "replay" => current_fork_index = get_ideal_index(release, replay)
  /\ phase = "run" \/ (phase = "popping" /\ ~ popped) =>
       current_fork_index = get_ideal_index(release, Len(chain))

\* A start-up that found blocks of the wrong version on top of the chain gets
\* past them: the popping loop of Blockchain::init ends.
StartupFinishes == phase = "popping" ~> phase = "run"
-----------------------------------------------------------------------------
(***************************************************************************)
(* A daemon that only adds blocks and rescans, and the fork its tracker    *)
(* should have in force after each height: that of a tracker that was fed  *)
(* with chain c from the start.                                            *)
(***************************************************************************)
AddOrRescan ==
  \/ \E b \in Block : AddBlock(b)
  \/ \E h \in 1..Len(chain) : Reorganize(h)
  \/ ReplayBlock

SpecNoPop == Init /\ [][AddOrRescan]_vars /\ WF_vars(ReplayBlock)

FromGenesis(r, c) ==
  LET fork[h \in 0..(Len(c) - 1)] ==
        LET before == IF h = 0 THEN 1 ELSE fork[h - 1]
        IN  AtLeast(get_voted_fork_index(r, WindowUpTo(r, c, h), before, h + 1), before)
  IN  fork

\* With voting, rescanning from any height leaves the tracker as it was: the fork in
\* force and the window are those of a tracker fed with the same blocks from genesis
\* (HardFork::reorganize_from_block_height against HardFork::add).
RescanIsTransparent ==
  phase = "run" =>
    /\ versions = WindowUpTo(release, chain, Len(chain) - 1)
    /\ current_fork_index = FromGenesis(release, chain)[Len(chain) - 1]

\* The fork in force for the block at height h.
ForkOf(h) == IF h = 0 THEN 1 ELSE FromGenesis(release, chain)[h - 1]

(***************************************************************************)
(* Why it holds: the version stored for each height is that of the fork in *)
(* force there, which its block passed, so that a rescan goes back to this *)
(* fork; and the loop of a rescan accepts every block again.               *)
(***************************************************************************)
RescanInv ==
  /\ TypeOK
  /\ Len(hf_versions) = Len(chain)
  /\ \A h \in 0..(Len(chain) - 1) : /\ hf_versions[h + 1] = Table[ForkOf(h)].version
                                    /\ do_check(ForkOf(h), chain[h + 1])
  /\ phase \in {"run", "replay"}
  /\ LET added == IF phase = "run" THEN Len(chain) ELSE replay
     IN  /\ added \in 1..Len(chain)
         /\ versions = WindowUpTo(release, chain, added - 1)
         /\ current_fork_index = ForkOf(added)
=============================================================================
