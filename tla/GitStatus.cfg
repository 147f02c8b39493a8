\* Every repository kind, porcelain outputs that fit or are cut mid-line,
\* any probe timing out, and cwds around the length where the git command
\* lines stop fitting their buffer.
CONSTANTS
    Repos <- MCRepos
    Cap <- MCCap
    DirLens <- MCDirLens
SPECIFICATION Spec
INVARIANTS TypeOK StatusMatchesRepo CountsBracketed
\* lle_async_get_git_status returns: nothing follows "done".
CHECK_DEADLOCK FALSE
