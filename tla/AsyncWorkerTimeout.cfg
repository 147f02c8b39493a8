\* Documented client lifecycle; a git probe of a request may time out.
CONSTANTS
    MaxQueue <- MCMaxQueue
    MaxRequests <- MCMaxRequests
    MaxStarts <- MCMaxStarts
    Kinds <- MCKinds
    NoRequest = NoRequest
    ClientJoinsBeforeDestroy = TRUE
SPECIFICATION Spec
INVARIANT TimeoutReported
CHECK_DEADLOCK FALSE
