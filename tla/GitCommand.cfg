\* One call in every environment: signals, a stale errno, a child that exits,
\* hangs, ignores SIGTERM or sleeps uninterruptibly.  The safety properties
\* hold in all of them; the call returns in the benign ones.
CONSTANTS
    MaxOut <- MCMaxOut
    Cap <- MCCap
    Envs <- MCAllEnvs
SPECIFICATION Spec
INVARIANTS TypeOK ChildReapedOnReturn ResultMatchesChild
PROPERTY ReturnsWhenBenign
\* The call returns and the model stops there, or blocks forever in a state
\* only a hostile environment reaches.
CHECK_DEADLOCK FALSE
