--------------------------- MODULE SafeFillSearch ---------------------------
(***************************************************************************)
(* The bisection in contracts/src/libraries/DirectSettlement.sol, _solve:  *)
(* it looks for the largest safe fill under a limit, without a proof that  *)
(* safety is monotone in the fill.                                         *)
(***************************************************************************)
EXTENDS DirectSettlement, FiniteSets

CONSTANT Problems    \* inputs: a search with the value requested and the maximum

\* A search is over whole values, two different tokens, an epoch with room left and a
\* valid fee: the code reverts otherwise.
ASSUME ProblemAssumption ==
    \A p \in Problems :
        /\ IsFiniteSet(DOMAIN p.search.values)
        /\ p.search.values \in [DOMAIN p.search.values -> Nat]
        /\ \A t \in DOMAIN p.search.values :
              p.search.bounds[t].min \in Nat /\ p.search.bounds[t].max \in Nat
        /\ {p.search.input, p.search.output} \subseteq DOMAIN p.search.values
        /\ p.search.input # p.search.output
        /\ p.search.baseline \in Nat \ {0} /\ p.search.consumed \in Nat
        /\ p.search.fee \in FeeConfig /\ ValidFeeConfig(p.search.fee)
        /\ p.requested \in Nat /\ p.maximum \in Nat

VARIABLES
    problem,
    low, high    \* the bounds of the bisection

searchVars == <<problem, low, high>>

Limit == SearchLimit(problem.search, problem.requested, problem.maximum)

Safe(fill) == IsSafe(problem.search, fill)

\* _assertCommitments comes first.
SearchInit ==
    /\ problem \in {p \in Problems :
                      /\ WithinBounds(p.search.values, p.search.bounds)
                      /\ p.search.consumed <= p.search.baseline}
    /\ low = 0
    /\ high = Limit

\* Fault: the midpoint is rounded down.
FaultyMiddle == low + (high - low) \div 2

Middle == low + (high - low + 1) \div 2

\* Fault: an unsafe middle moves the upper bound one too far.
FaultyLower ==
    /\ ~Safe(Middle)
    /\ high' = Middle - 2
    /\ UNCHANGED low

Raise ==
    /\ Safe(Middle)
    /\ low' = Middle
    /\ UNCHANGED high

Lower ==
    /\ ~Safe(Middle)
    /\ high' = Middle - 1
    /\ UNCHANGED low

Bisect ==
    /\ low < high
    /\ Raise \/ Lower
    /\ UNCHANGED problem

\* A call runs to its end.
SearchSpec == SearchInit /\ [][Bisect]_searchVars /\ WF_searchVars(Bisect)

Done == low = high

----------------------------------------------------------------------------
(* Properties.                                                             *)

\* The lower bound is safe and the value above the upper bound is not, or beyond the
\* limit; when they meet, that makes the result the fill that IsFill describes.
SearchInvariant ==
    /\ low \in 0 .. high /\ high <= Limit
    /\ Safe(low)
    /\ high < Limit => ~Safe(high + 1)
    /\ Done => IsFill(problem.search, problem.requested, problem.maximum, low)

\* The bisection ends, whatever safety looks like.
SearchEnds == <>Done

\* With two assets no larger fill would have been safe.  With three, a treasury share
\* that falls by a unit as the fill grows can make a larger fill safe again.
MaximalForPairs ==
    Done /\ Cardinality(DOMAIN problem.search.values) = 2 =>
        \A fill \in low + 1 .. Limit : ~Safe(fill)
=============================================================================
