------------------------- MODULE MCRiskModeRegistry -------------------------
(* A small instance of RiskModeRegistry over the policy registry: three    *)
(* tokens with weights in quarters, one of the ranges invalid, an invalid  *)
(* value of each other input, and certificates of two kinds, of which the  *)
(* first is admitted by some policies only, and a pause.                   *)
EXTENDS RiskModeRegistry

CONSTANTS a1

MCWeightRanges == {[min |-> 0, max |-> 2], [min |-> 2, max |-> 4], [min |-> 3, max |-> 2]}
MCProtection   == [maxAge |-> 2, maxDeviation |-> 1]
MCFee == [base |-> 2, slope |-> 1, maximum |-> 3, treasuryBase |-> 1, solver |-> 1,
          protocol |-> 0, treasuryFeeRecipient |-> a1, protocolFeeRecipient |-> a1]
MCFees        == {MCFee, [MCFee EXCEPT !.slope = 2], [MCFee EXCEPT !.treasuryBase = 2]}
MCProtections == {MCProtection, [maxAge |-> 0, maxDeviation |-> 1]}
MCSettlements == {[strategy |-> "strategy", oracle |-> a1],
                  [strategy |-> "strategy", oracle |-> Zero]}

Active(min, max, paused) == [min |-> min, max |-> max, paused |-> paused]

MCClockLeads == {1}

MCCertificateLimits ==
    {[mode |-> "SHOCK", maximum |-> 1,
      bounds |-> [usdc |-> Active(3, 4, FALSE), weth |-> Active(0, 1, FALSE)]],
     [mode |-> "PAUSED", maximum |-> 0,
      bounds |-> [usdc |-> Active(2, 2, TRUE), weth |-> Active(0, 1, FALSE)]]}
=============================================================================
