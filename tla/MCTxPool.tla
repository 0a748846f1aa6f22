------------------------------ MODULE MCTxPool ------------------------------
(* Instances of TxPool for TLC. *)
EXTENDS TxPool, TLC
CONSTANTS ta, tb, tc, k1, k2

\* ta and tb conflict, tb and tc conflict, and tc spends an output of ta.
ThreeImages == (ta :> <<k1>>) @@ (tb :> <<k1, k2>>) @@ (tc :> <<k2>>)
ThreeNeeds == (ta :> {}) @@ (tb :> {}) @@ (tc :> {ta})
ThreeWeights == (ta :> 1) @@ (tb :> 2) @@ (tc :> 1)
ThreeRates == (ta :> 2) @@ (tb :> 3) @@ (tc :> 1)
ThreeBlocks == {<<ta>>, <<tb>>, <<ta, tc>>}

\* With a block the database refuses, ta and tb spending one key image.
FaultyBlocks == {<<ta>>, <<tc>>, <<ta, tb>>}

\* ta and tb conflict; the two of them in every order of arrival, removal and promotion.
TwoImages == (ta :> <<k1>>) @@ (tb :> <<k1, k2>>)
TwoNeeds == (ta :> {}) @@ (tb :> {})
TwoWeights == (ta :> 1) @@ (tb :> 2)
TwoRates == (ta :> 2) @@ (tb :> 3)
TwoBlocks == {<<ta>>, <<tb>>}

PublicMethods == {"fluff", "block"}
=============================================================================
