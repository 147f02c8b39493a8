----------------------------- MODULE MCGitStatus -----------------------------
(* Repositories for checking GitStatus: up to two porcelain lines of five  *)
(* or six bytes against a seven-byte buffer, so that the output fits, or   *)
(* is cut one or two bytes into its second line.                          *)
EXTENDS GitStatus

MCCap == 7

(* strlen(cwd) with every command fitting; with only rev-list too long;   *)
(* with "rev-parse --short HEAD" too; with "branch --show-current" too;   *)
(* and with even "rev-parse --git-dir" too long.                           *)
MCDirLens == {1, 954, 980, 981, 983}

(* "??", " M", "M " and "MM", with a one- or two-byte path.                *)
MCLine == {l \in [x : {QM, SP, 77}, y : {QM, SP, 77}, plen : {1, 2}] :
              <<l.x, l.y>> \in {<<QM, QM>>, <<SP, 77>>, <<77, SP>>, <<77, 77>>}}

MCLines == UNION {[1..n -> MCLine] : n \in 0..2}

MCRepos ==
    {[kind |-> "none", lines |-> <<>>, tracking |-> FALSE, ahead |-> 0, behind |-> 0,
      merging |-> FALSE, rebasing |-> FALSE]}
    \cup
    {[kind |-> kd, lines |-> ls, tracking |-> tr, ahead |-> IF tr THEN 2 ELSE 0,
      behind |-> IF tr THEN 1 ELSE 0, merging |-> mr[1], rebasing |-> mr[2]] :
         kd \in {"attached", "unborn", "detached"}, ls \in MCLines, tr \in BOOLEAN,
         mr \in {<<FALSE, FALSE>>, <<TRUE, FALSE>>, <<FALSE, TRUE>>}}
=============================================================================
