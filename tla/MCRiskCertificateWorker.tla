----------------------- MODULE MCRiskCertificateWorker -----------------------
(* Two processes over one database.  The configurations bound the number   *)
(* of certificates, changes of authority, reorganizations and failures.    *)
EXTENDS RiskCertificateWorker, TLC

CONSTANTS w1, w2

\* Nothing tells one process from the other; not used where liveness is checked.
Symmetry == Permutations(Workers)
=============================================================================
