---------------------------- MODULE MCHardFork ----------------------------
(***************************************************************************)
(* Instances of HardFork for TLC.                                          *)
(***************************************************************************)
EXTENDS HardFork

\* Three forks that are decided by height alone, as in hardforks.cpp.
ScheduledTable ==
  << [version |-> 1, height |-> 1, threshold |-> 0],
     [version |-> 2, height |-> 2, threshold |-> 0],
     [version |-> 3, height |-> 4, threshold |-> 0] >>

\* The same forks decided by votes: a single vote for one, two of three for the other.
VotedTable ==
  << [version |-> 1, height |-> 1, threshold |-> 0],
     [version |-> 2, height |-> 2, threshold |-> 30],
     [version |-> 3, height |-> 3, threshold |-> 60] >>
=============================================================================
