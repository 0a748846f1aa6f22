---------------------------- MODULE MCForkTable ----------------------------
(***************************************************************************)
(* Instances of ForkTable for TLC.                                         *)
(***************************************************************************)
EXTENDS ForkTable

\* Every table of up to three entries with small fields, good and bad ones alike.
SmallEntry == [version : 0..2, height : 1..2, threshold : {0, 101}, time : 1..2]

SmallTables == UNION {[1..k -> SmallEntry] : k \in 0..3}

AllTables ==
  SmallTables \cup {mainnet_hard_forks, testnet_hard_forks, stagenet_hard_forks}
=============================================================================
