\* The lifecycle and the reset ladder from process start to exit.
CONSTANTS
    ErrorThreshold <- MCErrorThreshold
    PanicCount <- MCPanicCount
    PanicWindow <- MCPanicWindow
    MaxTime <- MCMaxTime
    MaxResets <- MCMaxResets
    MaxEntries <- MCMaxEntries
    UserFormats <- MCUserFormats
    ThemeFormats <- MCThemeFormats
    Envs <- MCEnvs
SPECIFICATION Spec
INVARIANTS TypeOK TornDownWhenInactive ExitShutsDown PanicCountMatchesPresses HistoryPreserved
\* After exit() the process is gone.
CHECK_DEADLOCK FALSE
