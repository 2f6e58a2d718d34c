--------------------------- MODULE MCTradingAgents ---------------------------
(* Two processes, two configurations, one of them without the faucet, and  *)
(* a batch of two assets or of one.                                         *)
EXTENDS TradingAgents, TLC

CONSTANTS p1, p2, c1, c2

MCProcesses      == {p1, p2}
MCConfigurations == {c1, c2}
MCFaucet         == {c1}
MCBatches        == {[eth |-> 1, usdc |-> 1, weth |-> 0],
                     [eth |-> 0, usdc |-> 0, weth |-> 1]}

(* Processes are told apart by nothing.                                     *)
MCSymmetry == Permutations(MCProcesses)
==============================================================================
