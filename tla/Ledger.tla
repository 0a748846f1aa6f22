------------------------------- MODULE Ledger -------------------------------
(***************************************************************************)
(* What the blockchain of the daemon promises to those who read it: the    *)
(* chain they see is replaced as a whole, by the path to a block with more *)
(* cumulative difficulty (or to a checkpoint), never against a checkpoint; *)
(* and a stop of the daemon takes it back to a chain that was committed.   *)
(* Nothing is said of alternative and invalid blocks, of batches, or of    *)
(* switches that are tried and taken back: Blockchain implements this.     *)
(***************************************************************************)
EXTENDS Naturals, Sequences

CONSTANTS Block, Genesis, Path, Cumulative, Checkpoints

VARIABLES
  chain,   \* the main chain
  saved    \* the chain that a restart would find

Agrees(c) == \A h \in DOMAIN Checkpoints : h < Len(c) => c[h + 1] = Checkpoints[h]

Init == chain = <<Genesis>> /\ saved = <<Genesis>>

\* Adopt the path to b: one more block on top, or another branch.
Adopt(b) ==
  /\ Agrees(Path[b])
  /\ \/ Cumulative[b] > Cumulative[chain[Len(chain)]]
     \/ Len(Path[b]) - 1 \in DOMAIN Checkpoints
  /\ chain' = Path[b]
  /\ UNCHANGED saved

Commit == saved' = chain /\ UNCHANGED chain
Lose == chain' = saved /\ UNCHANGED saved

Next == (\E b \in Block : Adopt(b)) \/ Commit \/ Lose

Spec == Init /\ [][Next]_<<chain, saved>>
=============================================================================
