-------------------------- MODULE MCSafeFillSearch --------------------------
(* Portfolios of two and of three assets with weights in eighths.          *)
EXTENDS SafeFillSearch

Weights(min, max) == [min |-> min, max |-> max]

MCFees == {[base |-> 2, slope |-> 1, maximum |-> 4, treasuryBase |-> 0, solver |-> 1,
            protocol |-> 1],
           [base |-> 0, slope |-> 4, maximum |-> 4, treasuryBase |-> 0, solver |-> 0,
            protocol |-> 0]}

MCPair  == {[values |-> v, bounds |-> b] :
              v \in [{"in", "out"} -> 4 .. 9],
              b \in [{"in", "out"} -> {Weights(0, 5), Weights(2, 6), Weights(0, 8)}]}

MCTriple == {[values |-> v, bounds |-> b] :
               v \in [{"in", "out", "other"} -> {4, 7}],
               b \in [{"in", "out", "other"} -> {Weights(1, 4), Weights(0, 8)}]}

MCProblems ==
    {[search |-> [values |-> p.values, bounds |-> p.bounds, input |-> "in", output |-> "out",
                  baseline |-> b, consumed |-> c, fee |-> f],
      requested |-> r, maximum |-> 9] :
        p \in MCPair \cup MCTriple, b \in {5, 9}, c \in {0, 2}, f \in MCFees, r \in {1, 6, 9}}
=============================================================================
