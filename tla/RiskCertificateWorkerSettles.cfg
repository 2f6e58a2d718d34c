SPECIFICATION Spec
CONSTANTS
    w1 = w1
    w2 = w2
    Workers = {w1, w2}
    None = None
    CertificateBound = 1
    AuthorityBound = 1
    ReorgBound = 0
    FailureBound = 2
PROPERTIES
    WorkflowSettles
CHECK_DEADLOCK FALSE
