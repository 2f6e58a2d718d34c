SPECIFICATION Spec
CONSTANTS
    w1 = w1
    w2 = w2
    Workers = {w1, w2}
    None = None
    CertificateBound = 2
    AuthorityBound = 0
    ReorgBound = 1
    FailureBound = 2
INVARIANTS
    RecordedOutcomeIsFinal
    NoRivals
PROPERTIES
    WorkflowMovesForward
SYMMETRY Symmetry
CHECK_DEADLOCK FALSE
