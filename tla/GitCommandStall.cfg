\* A child that writes part of its output and then hangs, with no signals.
CONSTANTS
    MaxOut <- MCMaxOut
    Cap <- MCCap
    Envs <- MCStallEnv
SPECIFICATION Spec
PROPERTY ReturnsEventually
CHECK_DEADLOCK FALSE
