\* Documented client lifecycle: every invariant and the refinement hold.
CONSTANTS
    MaxQueue <- MCMaxQueue
    MaxRequests <- MCMaxRequests
    MaxStarts <- MCMaxStarts
    Kinds <- MCKinds
    NoRequest = NoRequest
    ClientJoinsBeforeDestroy = TRUE
SPECIFICATION Spec
INVARIANT TypeOK
INVARIANT StatsAccounting
INVARIANT DrainedWhenNoThread
PROPERTY ServiceRefinement
PROPERTY JoinReturns
\* destroy ends the worker's life: the freed state has no successor.
CHECK_DEADLOCK FALSE
