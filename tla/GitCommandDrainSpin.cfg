\* Signals may interrupt reads; the child always exits eventually.
CONSTANTS
    MaxOut <- MCMaxOut
    Cap <- MCCap
    Envs <- MCSignalEnv
SPECIFICATION Spec
PROPERTY ReturnsEventually
CHECK_DEADLOCK FALSE
