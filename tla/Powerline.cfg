\* lle_powerline_render for up to three enabled segments, both directions.
CONSTANTS
    MaxSegments <- MCMaxSegments
    MaxVisible <- MCMaxVisible
    Contents <- MCContents
    OutputSizes <- MCOutputSizes
    SepLen <- MCSepLen
    EscLen <- MCEscLen
SPECIFICATION Spec
INVARIANTS
    TypeOK
    SeparatorPerSegment
    ArrowsMatchBlocks
    StrippedPerSpec
\* The render returns: a finished render has no further step.
CHECK_DEADLOCK FALSE
