------------------------------ MODULE GitStatus ------------------------------
(***************************************************************************)
(* lle_async_get_git_status (src/src/lle/core/async_worker.c), the git-    *)
(* status dispatch of the async worker: a fixed sequence of git probes,    *)
(* each run through run_git_in_dir (git_command_in_dir with a timeout),    *)
(* that fills an lle_git_status_data_t, and the line-by-line parse of      *)
(* "git status --porcelain".                                               *)
(*                                                                         *)
(* The repository is a record of what git would answer.  Each probe either *)
(* gets git's answer or times out; a timed-out probe returns false with an *)
(* empty output buffer (git_command_with_timeout).  Names and hashes are   *)
(* model values; the porcelain output is bytes, so that its truncation to  *)
(* the buffer and the parser's byte tests are modelled as they are.        *)
(***************************************************************************)
EXTENDS Integers, Sequences, TLC

CONSTANTS
    Repos,      \* the repositories a request's cwd may be in
    Cap,        \* sizeof(porcelain) - 1: bytes of output the probe keeps
    DirLens     \* strlen(cwd) of the requests

ASSUME Cap \in Nat \ {0}
ASSUME DirLens \subseteq Nat

NL == 10
SP == 32
QM == 63

(* A porcelain line: "XY path\n", with a path of the given length.         *)
Line(l) == <<l.x, l.y, SP>> \o [k \in 1..l.plen |-> 97] \o <<NL>>

RECURSIVE Concat(_)
Concat(ls) == IF ls = <<>> THEN <<>> ELSE Line(Head(ls)) \o Concat(Tail(ls))

(* git_command_with_timeout: keep the first output_size - 1 bytes, then   *)
(* strip trailing '\n' and '\r'.                                           *)
RECURSIVE StripTrailing(_)
StripTrailing(s) ==
    IF s # <<>> /\ s[Len(s)] \in {10, 13} THEN StripTrailing(SubSeq(s, 1, Len(s) - 1)) ELSE s

Received(s) == StripTrailing(SubSeq(s, 1, IF Len(s) < Cap THEN Len(s) ELSE Cap))

(* What git prints and how it exits, for each probe, in repository r.     *)
Answer(r, cmd) ==
    LET inRepo == r.kind # "none"
        onBranch == r.kind \in {"attached", "unborn"}
    IN CASE cmd = "git-dir"   -> [ok |-> inRepo, out |-> ".git"]
         [] cmd = "branch"    -> [ok |-> inRepo, out |-> IF onBranch THEN "main" ELSE ""]
         [] cmd = "short"     -> [ok |-> r.kind \in {"attached", "detached"},
                                  out |-> IF r.kind \in {"attached", "detached"} THEN "c1" ELSE ""]
         [] cmd = "symref"    -> [ok |-> onBranch, out |-> ""]
         [] cmd = "porcelain" -> [ok |-> inRepo, out |-> Received(Concat(r.lines))]
         [] cmd = "revlist"   -> [ok |-> r.kind = "attached" /\ r.tracking,
                                  out |-> [ahead |-> r.ahead, behind |-> r.behind]]

(* The args string of each probe, by its length.                          *)
ArgsLen == ("git-dir" :> 19) @@ ("branch" :> 21) @@ ("short" :> 22) @@ ("symref" :> 17)
           @@ ("porcelain" :> 18) @@ ("revlist" :> 48)

(* git_command_in_dir: snprintf into char cmd[1024] of                     *)
(* "git -C '<dir>' <args> 2>/dev/null", 22 bytes besides dir and args; an  *)
(* output of n >= sizeof(cmd) bytes returns exit -1 without running git.   *)
CmdFits(d, cmd) == 22 + d + ArgsLen[cmd] < 1024

(* run_git_in_dir: "!r.timed_out && r.exit_status == 0"; a timed-out call *)
(* or one whose command does not fit leaves the output empty.             *)
Probe(r, d, cmd, t) ==
    IF t \/ ~CmdFits(d, cmd) THEN [ok |-> FALSE, out |-> CASE cmd = "porcelain" -> <<>>
                                         [] cmd = "revlist" -> [ahead |-> 0, behind |-> 0]
                                         [] OTHER -> ""]
         ELSE Answer(r, cmd)

Zero == [is_git_repo |-> FALSE, branch |-> "", commit |-> "", is_detached |-> FALSE,
         staged |-> 0, unstaged |-> 0, untracked |-> 0, ahead |-> 0, behind |-> 0,
         merging |-> FALSE, rebasing |-> FALSE]

VARIABLES
    repo,       \* the repository cwd is in
    pc,         \* the probe lle_async_get_git_status is at
    st,         \* *status
    buf,        \* porcelain[]: the received bytes (reads past them are NUL)
    k,          \* the parser's line pointer, as an index into buf (0-based)
    timedOut,   \* history: some probe of this call timed out
    dlen        \* strlen(cwd)

vars == <<repo, pc, st, buf, k, timedOut, dlen>>

Byte(s, i) == IF i < Len(s) THEN s[i + 1] ELSE 0

(* strchr(line, '\n'): the offset of the next newline at or after i.       *)
NextNL(s, i) == {j \in i..(Len(s) - 1) : s[j + 1] = NL}

-----------------------------------------------------------------------------
(* The status is zeroed (memset) before the first probe.                   *)
Init ==
    /\ repo \in Repos
    /\ pc = "git-dir"
    /\ st = Zero
    /\ buf = <<>>
    /\ k = 0
    /\ timedOut = FALSE
    /\ dlen \in DirLens

(* History: record that the probe cmd of this step ran and timed out (t). *)
Record(cmd, t) == timedOut' = (timedOut \/ (t /\ CmdFits(dlen, cmd)))

(* "rev-parse --git-dir" gates repo-ness: on failure the call returns with *)
(* is_git_repo false.                                                      *)
CheckRepo ==
    /\ pc = "git-dir"
    /\ \E t \in BOOLEAN : LET p == Probe(repo, dlen, "git-dir", t) IN
            /\ Record("git-dir", t)
            /\ st' = [st EXCEPT !.is_git_repo = p.ok]
            /\ pc' = IF p.ok THEN "branch" ELSE "done"
    /\ UNCHANGED <<repo, dlen, buf, k>>

(* "branch --show-current" into status->branch; if it fails, assume a     *)
(* detached HEAD and read the short commit now.                            *)
GetBranch ==
    /\ pc = "branch"
    /\ \E t \in BOOLEAN : LET p == Probe(repo, dlen, "branch", t) IN
            /\ Record("branch", t)
            /\ st' = [st EXCEPT !.branch = p.out, !.is_detached = IF p.ok THEN @ ELSE TRUE]
            /\ pc' = IF p.ok THEN "symref" ELSE "detached-commit"
    /\ UNCHANGED <<repo, dlen, buf, k>>

(* Mutant: the short commit is read into the branch buffer.                *)
DetachedCommit_IntoBranch ==
    /\ pc = "detached-commit"
    /\ \E t \in BOOLEAN : LET p == Probe(repo, dlen, "short", t) IN
            /\ Record("short", t)
            /\ st' = [st EXCEPT !.branch = p.out] /\ pc' = "symref"
    /\ UNCHANGED <<repo, dlen, buf, k>>

(* "rev-parse --short HEAD" into status->commit; its result is ignored.    *)
DetachedCommit ==
    /\ pc = "detached-commit"
    /\ \E t \in BOOLEAN : LET p == Probe(repo, dlen, "short", t) IN
            /\ Record("short", t)
            /\ st' = [st EXCEPT !.commit = p.out] /\ pc' = "symref"
    /\ UNCHANGED <<repo, dlen, buf, k>>

(* "symbolic-ref HEAD" decides is_detached, overriding the branch probe.   *)
CheckSymbolicRef ==
    /\ pc = "symref"
    /\ \E t \in BOOLEAN : LET p == Probe(repo, dlen, "symref", t) IN
            /\ Record("symref", t)
            /\ st' = [st EXCEPT !.is_detached = ~p.ok] /\ pc' = "commit"
    /\ UNCHANGED <<repo, dlen, buf, k>>

(* Mutant: the commit is read only on the detached path of the branch     *)
(* probe.                                                                  *)
GetCommit_Skipped ==
    /\ pc = "commit"
    /\ pc' = "porcelain"
    /\ UNCHANGED <<repo, dlen, st, buf, k, timedOut>>

(* The short commit, if it was not read yet.                               *)
GetCommit ==
    /\ pc = "commit"
    /\ IF st.commit = ""
          THEN \E t \in BOOLEAN : LET p == Probe(repo, dlen, "short", t) IN
                   Record("short", t) /\ st' = [st EXCEPT !.commit = p.out]
          ELSE UNCHANGED <<st, timedOut>>
    /\ pc' = "porcelain"
    /\ UNCHANGED <<repo, dlen, buf, k>>

(* "status --porcelain" into porcelain[8192]; the counts are zeroed and    *)
(* the parse runs only if the probe succeeded.                             *)
GetPorcelain ==
    /\ pc = "porcelain"
    /\ \E t \in BOOLEAN : LET p == Probe(repo, dlen, "porcelain", t) IN
            /\ Record("porcelain", t)
            /\ buf' = p.out
            /\ pc' = IF p.ok THEN "parse" ELSE "revlist"
    /\ st' = [st EXCEPT !.staged = 0, !.unstaged = 0, !.untracked = 0]
    /\ UNCHANGED <<repo, dlen, k>>

(* Mutant: a line is counted whatever its second byte is.                  *)
LineCounts_NoSecondByteCheck(c0, c1) ==
    [staged |-> IF c0 # QM /\ c0 # SP THEN 1 ELSE 0,
     unstaged |-> IF c0 # QM /\ c1 # SP /\ c1 # QM THEN 1 ELSE 0,
     untracked |-> IF c0 = QM THEN 1 ELSE 0]

(* One line's increments: '?' is untracked; otherwise, when the line has   *)
(* two bytes, X not ' '/'?' is staged and Y not ' '/'?' is unstaged.       *)
LineCounts(c0, c1) ==
    [staged |-> IF c0 # QM /\ c0 # 0 /\ c1 # 0 /\ c0 # SP THEN 1 ELSE 0,
     unstaged |-> IF c0 # QM /\ c0 # 0 /\ c1 # 0 /\ c1 # SP /\ c1 # QM THEN 1 ELSE 0,
     untracked |-> IF c0 = QM THEN 1 ELSE 0]

(* The parse loop, "while ( *line)": count the line, then move past the     *)
(* next '\n', or leave the loop if there is none.                          *)
ParseLine ==
    /\ pc = "parse"
    /\ Byte(buf, k) # 0
    /\ LET inc == LineCounts(Byte(buf, k), Byte(buf, k + 1))
           nl == NextNL(buf, k)
       IN /\ st' = [st EXCEPT !.staged = @ + inc.staged, !.unstaged = @ + inc.unstaged,
                              !.untracked = @ + inc.untracked]
          /\ IF nl = {} THEN pc' = "revlist" /\ UNCHANGED k
                        ELSE k' = (CHOOSE j \in nl : \A i \in nl : j <= i) + 1 /\ UNCHANGED pc
    /\ UNCHANGED <<repo, dlen, buf, timedOut>>

(* "while ( *line)" fails at the terminating NUL.                           *)
ParseEnd ==
    /\ pc = "parse"
    /\ Byte(buf, k) = 0
    /\ pc' = "revlist"
    /\ UNCHANGED <<repo, dlen, st, buf, k, timedOut>>

(* "rev-list --left-right --count HEAD...@{upstream}": on success sscanf   *)
(* "%d %d" reads ahead and behind; a failure leaves them 0.                *)
GetAheadBehind ==
    /\ pc = "revlist"
    /\ \E t \in BOOLEAN : LET p == Probe(repo, dlen, "revlist", t) IN
            /\ Record("revlist", t)
            /\ st' = IF p.ok THEN [st EXCEPT !.ahead = p.out.ahead, !.behind = p.out.behind]
                             ELSE st
            /\ pc' = "merge"
    /\ UNCHANGED <<repo, dlen, buf, k>>

(* "rev-parse --git-dir" again; on success access() on MERGE_HEAD,         *)
(* rebase-merge and rebase-apply under the git dir.                        *)
GetMergeState ==
    /\ pc = "merge"
    /\ \E t \in BOOLEAN : LET p == Probe(repo, dlen, "git-dir", t) IN
            /\ Record("git-dir", t)
            /\ st' = IF p.ok THEN [st EXCEPT !.merging = repo.merging, !.rebasing = repo.rebasing]
                             ELSE st
    /\ pc' = "done"
    /\ UNCHANGED <<repo, dlen, buf, k>>

Next ==
    \/ CheckRepo \/ GetBranch \/ DetachedCommit \/ CheckSymbolicRef \/ GetCommit
    \/ GetPorcelain \/ ParseLine \/ ParseEnd \/ GetAheadBehind \/ GetMergeState

Spec == Init /\ [][Next]_vars

-----------------------------------------------------------------------------
(* Properties                                                               *)

Kinds == {"none", "attached", "unborn", "detached"}

TypeOK ==
    /\ repo.kind \in Kinds
    /\ pc \in {"git-dir", "branch", "detached-commit", "symref", "commit", "porcelain",
               "parse", "revlist", "merge", "done"}
    /\ st.branch \in {"", "main"} /\ st.commit \in {"", "c1"}
    /\ {st.is_git_repo, st.is_detached, st.merging, st.rebasing} \subseteq BOOLEAN
    /\ {st.staged, st.unstaged, st.untracked} \subseteq Nat
    /\ k \in 0..Len(buf) /\ timedOut \in BOOLEAN /\ dlen \in DirLens

(* Spec 4.5 step 4, per line of git's output.                              *)
SpecLine(l) ==
    [staged |-> IF l.x \notin {SP, QM} THEN 1 ELSE 0,
     unstaged |-> IF l.x # QM /\ l.y \notin {SP, QM} THEN 1 ELSE 0,
     untracked |-> IF l.x = QM THEN 1 ELSE 0]

RECURSIVE SpecCounts(_)
SpecCounts(ls) ==
    IF ls = <<>> THEN [staged |-> 0, unstaged |-> 0, untracked |-> 0]
    ELSE LET h == SpecLine(Head(ls)) IN LET t == SpecCounts(Tail(ls)) IN
         [staged |-> h.staged + t.staged, unstaged |-> h.unstaged + t.unstaged,
          untracked |-> h.untracked + t.untracked]

(* The response spec 4.5 describes for repository r.                       *)
Expected(r) ==
    IF r.kind = "none" THEN Zero
    ELSE [is_git_repo |-> TRUE,
          branch |-> IF r.kind = "detached" THEN "" ELSE "main",
          commit |-> IF r.kind = "unborn" THEN "" ELSE "c1",
          is_detached |-> r.kind = "detached",
          staged |-> SpecCounts(r.lines).staged,
          unstaged |-> SpecCounts(r.lines).unstaged,
          untracked |-> SpecCounts(r.lines).untracked,
          ahead |-> IF r.kind = "attached" /\ r.tracking THEN r.ahead ELSE 0,
          behind |-> IF r.kind = "attached" /\ r.tracking THEN r.behind ELSE 0,
          merging |-> r.merging, rebasing |-> r.rebasing]

CountFields == {"staged", "unstaged", "untracked"}

Fits(r) == Len(Concat(r.lines)) <= Cap

(* Every probe's command fits git_command_in_dir's cmd[1024] for this cwd. *)
AllFit == \A cmd \in DOMAIN ArgsLen : CmdFits(dlen, cmd)

(* Spec 4.5 (dispatch, git-status): when no probe times out and the cwd is *)
(* short enough for every git command line, the returned status describes  *)
(* the repository, whatever order the branch and symbolic-ref probes set   *)
(* is_detached in (on a branch, unborn, detached, mid-rebase); the counts  *)
(* do when the porcelain output fits the buffer.                           *)
StatusMatchesRepo ==
    pc = "done" /\ ~timedOut /\ AllFit =>
        /\ \A f \in DOMAIN Zero \ CountFields : st[f] = Expected(repo)[f]
        /\ Fits(repo) => \A f \in CountFields : st[f] = Expected(repo)[f]

(* Lines of git's output that arrived whole in buf.                        *)
WholeLines(r, b) ==
    LET m == CHOOSE j \in 0..Len(r.lines) :
                 /\ Len(Concat(SubSeq(r.lines, 1, j))) <= Len(b) + 1
                 /\ \A i \in 0..Len(r.lines) : Len(Concat(SubSeq(r.lines, 1, i))) <= Len(b) + 1 => i <= j
    IN SubSeq(r.lines, 1, m)

(* Whatever the truncation at the 8 KiB buffer, whatever probes time out   *)
(* and whichever commands the cwd's length makes too long, each count lies between what the lines received whole give and     *)
(* what git's full output gives: a line cut short is counted at most as    *)
(* its whole, and never invents a change.                                  *)
CountsBracketed ==
    pc = "done" =>
        \A f \in CountFields :
            /\ SpecCounts(WholeLines(repo, buf))[f] <= st[f]
            /\ st[f] <= SpecCounts(repo.lines)[f]

=============================================================================
