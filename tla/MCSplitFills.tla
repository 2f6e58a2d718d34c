---------------------------- MODULE MCSplitFills ----------------------------
(* Epochs of 7, 12 and 33 units and fees of up to a half, so that a fee of *)
(* several units and every way to split the epoch occur.                   *)
EXTENDS SplitFills

MCFeeConfigs ==
    [base : {0, 1, 3, 5}, slope : {0, 1, 4, 5}, maximum : {10},
     treasuryBase : 0 .. 4, solver : {0, 1}, protocol : {0, 2}]
        \cup [base : {4}, slope : {4}, maximum : {5}, treasuryBase : {2}, solver : {1},
              protocol : {1}]
=============================================================================
