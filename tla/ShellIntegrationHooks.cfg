\* Init may fail at any of its steps.
CONSTANTS
    ErrorThreshold <- MCErrorThreshold
    PanicCount <- MCPanicCount
    PanicWindow <- MCPanicWindow
    MaxTime <- MCMaxTime
    MaxResets <- MCMaxResets
    MaxEntries <- MCMaxEntries
    UserFormats <- MCUserFormats
    ThemeFormats <- MCThemeFormats
    Envs <- MCEnvs
SPECIFICATION Spec
INVARIANT NoDanglingHooks
CHECK_DEADLOCK FALSE
