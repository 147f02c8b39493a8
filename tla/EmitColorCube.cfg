\* emit_color for every spec form, depth and %F/%K.
CONSTANTS
    Reds <- MCReds
    Components <- MCComponents
    Numbers <- MCNumbers
    Words <- MCWords
SPECIFICATION Spec
INVARIANT
    CubeIsNearest
\* emit_color returns once it has appended (or dropped) its escape.
CHECK_DEADLOCK FALSE
