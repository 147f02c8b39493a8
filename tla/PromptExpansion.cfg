\* Pass 2 of lle_prompt_expand, every format of up to four bytes.
CONSTANTS
    Alphabet <- MCAlphabet
    MaxLen <- MCMaxLen
    Size <- MCSize
    User <- MCUser
    Host <- MCHost
    LongFormats <- MCLongFormats
    Depths <- MCDepths
    PathMax = 8
SPECIFICATION Spec
INVARIANTS
    TypeOK
    ExpansionFollowsTables
    TruncatedToPrefix
    SystemEscapesFollowSpec
\* The scan returns: a finished expansion has no further step.
CHECK_DEADLOCK FALSE
