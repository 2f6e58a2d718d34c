------------------------- MODULE MCDelegatedSession -------------------------
(***************************************************************************)
(* Instances of DelegatedSession.  One proposal costs two units of input,  *)
(* the others one: a budget of two ends a session before or with its last  *)
(* trade, or leaves a rest that is too small.                              *)
(***************************************************************************)
EXTENDS DelegatedSession, TLC

Large == CHOOSE p \in Proposals : TRUE

MCInputAmount == [p \in Proposals |-> IF p = Large THEN 2 ELSE 1]

\* Operations are interchangeable, and so are recoveries.
MCSymmetry == Permutations(Handlers) \cup Permutations(Recoveries)
=============================================================================
