------------------------------- MODULE MCIndexer -------------------------------
(* The instance of Indexer that TLC checks.                                *)
EXTENDS Indexer

CONSTANTS t1, t2

MCTrades == {t1, t2}
================================================================================
