--------------------- MODULE MCAurkaSepoliaSwapVMRouter ---------------------
(* A small instance of AurkaSepoliaSwapVMRouter: two tokens with weights   *)
(* in quarters; a raw unit of weth is worth a whole value unit in the      *)
(* first round of prices and half of one in the second.                    *)
EXTENDS AurkaSepoliaSwapVMRouter

MCPrice == <<[usdc |-> 1, weth |-> 2], [usdc |-> 1, weth |-> 1]>>

MCFee == [base |-> 1, slope |-> 1, maximum |-> 2, treasuryBase |-> 0, solver |-> 0,
          protocol |-> 1]
MCTerms(n) == [fee |-> MCFee, feeToTreasury |-> TRUE, maxAge |-> 0]

Weights(min, max) == [min |-> min, max |-> max, paused |-> FALSE]

MCWide  == [maximum |-> 3, bounds |-> [usdc |-> Weights(1, 4), weth |-> Weights(0, 3)]]
MCTight == [maximum |-> 2, bounds |-> [usdc |-> Weights(2, 4), weth |-> Weights(0, 3)]]

MCHardPolicies    == {MCWide}
MCCertifiedLimits == {MCTight}

MCBalances == [usdc |-> 21, weth |-> 8]
MCFundings == {MCBalances}
MCClaims   == {MCBalances}
MCAmounts  == 0 .. 4

Ask(id, n, direction, requested, whole, deadline) ==
    [id |-> id, trader |-> 1, nonce |-> n, direction |-> direction, requested |-> requested,
     minimum |-> 0, whole |-> whole, deadline |-> deadline]

Sell == <<"weth", "usdc">>
Buy  == <<"usdc", "weth">>

MCIntents == {Ask(1, 1, Sell, 2, FALSE, 0), Ask(2, 2, Sell, 2, FALSE, 1),
              Ask(2, 1, Buy, 1, TRUE, 0)}
=============================================================================
