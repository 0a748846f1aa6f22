---------------------------- MODULE MCBlockchain ----------------------------
(***************************************************************************)
(* Instances of Blockchain for TLC.                                        *)
(***************************************************************************)
EXTENDS Blockchain, TLC

CONSTANTS g, a1, a2, a3, a4, b1, b2, b3, b4, c2, c3, d3

\* Two branches from the genesis block, c2 c3 on top of a1 and d3 on top of b2.
Blocks == {g, a1, a2, a3, a4, b1, b2, b3, b4, c2, c3, d3}

Paths ==
  (g  :> <<g>>) @@
  (a1 :> <<g, a1>>) @@ (a2 :> <<g, a1, a2>>) @@
  (a3 :> <<g, a1, a2, a3>>) @@ (a4 :> <<g, a1, a2, a3, a4>>) @@
  (b1 :> <<g, b1>>) @@ (b2 :> <<g, b1, b2>>) @@
  (b3 :> <<g, b1, b2, b3>>) @@ (b4 :> <<g, b1, b2, b3, b4>>) @@
  (c2 :> <<g, a1, c2>>) @@ (c3 :> <<g, a1, c2, c3>>) @@
  (d3 :> <<g, b1, b2, d3>>)

\* Every block adds 2, but b1 adds 3 and c3 adds 5: a shorter branch can be heavier.
Weights ==
  [x \in Blocks |->
     2 * Len(Paths[x]) + (IF b1 \in Range(Paths[x]) THEN 1 ELSE 0) + (IF x = c3 THEN 3 ELSE 0)]

AllGood == [x \in Blocks |-> "good"]
OthersBad == [AllGood EXCEPT ![d3] = "bad_inputs", ![a4] = "bad_miner"]

\* The tree without the top of its longest branch, for the instance in which any
\* step of a switch and of its rollback may fail; the heaviest branch is refused at its top.
FewerBlocks == Blocks \ {a4}
FewerPaths == Restrict(Paths, FewerBlocks)
FewerWeights == Restrict(Weights, FewerBlocks)
FewerBad == [x \in FewerBlocks |->
               CASE x = d3 -> "bad_inputs" [] x = c3 -> "bad_miner" [] OTHER -> "good"]

LateCheckpoints == (3 :> b3) @@ (4 :> b4)
OneCheckpoint == 3 :> b3
LastCheckpoint == 4 :> b4
=============================================================================
