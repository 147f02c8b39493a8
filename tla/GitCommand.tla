----------------------------- MODULE GitCommand -----------------------------
(***************************************************************************)
(* One call of git_command_in_dir / git_command_with_timeout              *)
(* (src/src/lle/core/git_command.c): the calling thread (parent) and the  *)
(* forked child that runs "sh -c 'git -C ...'", joined by a pipe.          *)
(*                                                                         *)
(* Bytes are counted, not named: the child writes bytes into the pipe, the *)
(* parent reads them into a buffer of Cap usable bytes (output_size - 1)   *)
(* or drains them.  Time is not a clock: select's timeout is an event that *)
(* can happen whenever the pipe has nothing readable, and it is weakly     *)
(* fair, because the wall clock keeps running.                             *)
(***************************************************************************)
EXTENDS Integers

CONSTANTS
    MaxOut,         \* bytes the child may write before it exits
    Cap,            \* output_size - 1: bytes read_all_available stores
    Envs            \* the environments a call may run in (see Environments)

(* What the calling thread and the child are exposed to:                   *)
(*   signals: signals may interrupt the parent's blocking calls;           *)
(*   errno:   the errno the calling thread carries on entry;               *)
(*   exits:   "always", the child eventually exits; "after_output", a      *)
(*            child that has written eventually exits; "never_assumed",    *)
(*            the child may hang at any point;                             *)
(*   dstall:  the child may enter an uninterruptible sleep that never      *)
(*            ends (e.g. a dead NFS server).                               *)
Environments ==
    [signals : BOOLEAN, errno : {"none", "EINTR"},
     exits : {"always", "after_output", "never_assumed"}, dstall : BOOLEAN]

ASSUME MaxOut \in Nat /\ Cap \in Nat \ {0}
ASSUME Envs \subseteq Environments /\ Envs # {}

VARIABLES
    env,         \* the environment of this call (fixed for the call)
    pc,          \* parent: where git_command_with_timeout is
    child,       \* "none", "run", "dstall" (uninterruptible), "zombie", "reaped"
    termIgnored, \* SIGTERM disposition the child inherited is SIG_IGN
    cexit,       \* how the child ended: "exit0", "exit1" or "signal"
    written,     \* bytes the child has written to the pipe
    avail,       \* bytes in the pipe not yet read by the parent
    readOpen,    \* the parent still holds the pipe's read end
    pos,         \* bytes stored in the output buffer
    errno,       \* the calling thread's errno
    timed_out,   \* result.timed_out
    exit_status  \* result.exit_status

vars == <<env, pc, child, termIgnored, cexit, written, avail, readOpen, pos, errno,
          timed_out, exit_status>>

(* The child's stdout is the pipe's only write end (the parent closed its  *)
(* copy after fork); it closes when the child dies.                        *)
WriterOpen == child \in {"run", "dstall"}

(* The pipe is readable for select: bytes are waiting, or EOF.             *)
Readable == avail > 0 \/ ~WriterOpen

Min2(a, b) == IF a < b THEN a ELSE b

(* What "if (WIFEXITED(status)) exit_status = WEXITSTATUS(status)" leaves  *)
(* in a result initialised to -1.                                          *)
StatusOf == [exit0 |-> 0, exit1 |-> 1, signal |-> -1]

(* result = {.exit_status = -1, .timed_out = false}; errno is whatever the *)
(* thread's last failing call left.                                        *)
Init ==
    /\ env \in Envs
    /\ pc = "start"
    /\ child = "none"
    /\ termIgnored = FALSE
    /\ cexit = "exit0"
    /\ written = 0
    /\ avail = 0
    /\ readOpen = FALSE
    /\ pos = 0
    /\ errno = env.errno
    /\ timed_out = FALSE
    /\ exit_status = -1

-----------------------------------------------------------------------------
(* Parent                                                                   *)

(* git_command_in_dir builds the command (fails if it exceeds 1024 bytes); *)
(* then pipe() and fork().  Any failure returns {-1, false} with no child. *)
(* On success the parent closes the write end and waits in select; the     *)
(* child inherits the shell's SIGTERM disposition.                         *)
Spawn ==
    /\ pc = "start"
    /\ \/ /\ pc' = "done"
          /\ UNCHANGED <<child, termIgnored, readOpen>>
       \/ /\ pc' = "select"
          /\ child' = "run"
          /\ termIgnored' \in BOOLEAN
          /\ readOpen' = TRUE
    /\ UNCHANGED <<env, cexit, written, avail, pos, errno, timed_out, exit_status>>

(* select returns > 0: data or EOF on the pipe.                            *)
SelectReady ==
    /\ pc = "select"
    /\ Readable
    /\ pc' = "read"
    /\ UNCHANGED <<env, child, termIgnored, cexit, written, avail, readOpen, pos,
                   errno, timed_out, exit_status>>

(* select returns 0: close the read end, kill_child, timed_out = true.     *)
(* kill_child starts with kill(pid, SIGTERM), which ends the child unless  *)
(* it ignores SIGTERM or sleeps uninterruptibly.                           *)
SelectTimeout ==
    /\ pc = "select"
    /\ ~Readable
    /\ pc' = "grace"
    /\ readOpen' = FALSE
    /\ timed_out' = TRUE
    /\ IF child = "run" /\ ~termIgnored
          THEN child' = "zombie" /\ cexit' = "signal"
          ELSE UNCHANGED <<child, cexit>>
    /\ UNCHANGED <<env, termIgnored, written, avail, pos, errno, exit_status>>

(* Mutant: the still-running child is waited for without SIGKILL.        *)
KillWaitNoHang_NoKill ==
    /\ pc = "grace"
    /\ \/ /\ child = "zombie"
          /\ child' = "reaped"
          /\ pc' = "done"
       \/ /\ child \in {"run", "dstall"}
          /\ pc' = "killwait"
          /\ UNCHANGED child
    /\ UNCHANGED <<env, termIgnored, cexit, written, avail, readOpen, pos, errno,
                   timed_out, exit_status>>

(* Mutant: kill_child returns when WNOHANG finds the child still running.  *)
KillWaitNoHang_NoEscalation ==
    /\ pc = "grace"
    /\ pc' = "done"
    /\ child' = IF child = "zombie" THEN "reaped" ELSE child
    /\ UNCHANGED <<env, termIgnored, cexit, written, avail, readOpen, pos, errno,
                   timed_out, exit_status>>

(* kill_child, after the 100 ms select sleep: waitpid(WNOHANG).  Reaped if *)
(* the child has died; else SIGKILL (ineffective during an uninterruptible *)
(* sleep) and a blocking waitpid.                                          *)
KillWaitNoHang ==
    /\ pc = "grace"
    /\ \/ /\ child = "zombie"
          /\ child' = "reaped"
          /\ pc' = "done"
          /\ UNCHANGED cexit
       \/ /\ child = "run"
          /\ child' = "zombie" /\ cexit' = "signal"
          /\ pc' = "killwait"
       \/ /\ child = "dstall"
          /\ pc' = "killwait"
          /\ UNCHANGED <<child, cexit>>
    /\ UNCHANGED <<env, termIgnored, written, avail, readOpen, pos, errno,
                   timed_out, exit_status>>

(* kill_child: the blocking waitpid after SIGKILL returns once it died.   *)
KillReap ==
    /\ pc = "killwait"
    /\ child = "zombie"
    /\ child' = "reaped"
    /\ pc' = "done"
    /\ UNCHANGED <<env, termIgnored, cexit, written, avail, readOpen, pos, errno,
                   timed_out, exit_status>>

(* Mutant: a short read is taken for the whole output (no loop).          *)
ReadChunk_SingleRead ==
    /\ pc = "read"
    /\ \/ /\ pos = Cap
          /\ pc' = "drain"
          /\ UNCHANGED <<avail, pos>>
       \/ /\ pos < Cap /\ avail > 0
          /\ \E n \in 1..Min2(avail, Cap - pos) :
                pos' = pos + n /\ avail' = avail - n
          /\ pc' = "reap"
       \/ /\ pos < Cap /\ avail = 0 /\ ~WriterOpen
          /\ pc' = "reap"
          /\ UNCHANGED <<avail, pos>>
    /\ UNCHANGED <<env, child, termIgnored, cexit, written, readOpen, errno,
                   timed_out, exit_status>>

(* Mutant: read is passed the whole pipe contents instead of remaining.   *)
ReadChunk_NoRemainingBound ==
    /\ pc = "read"
    /\ \/ /\ pos = Cap
          /\ pc' = "drain"
          /\ UNCHANGED <<avail, pos>>
       \/ /\ pos < Cap /\ avail > 0
          /\ \E n \in 1..avail : pos' = pos + n /\ avail' = avail - n
          /\ UNCHANGED pc
       \/ /\ pos < Cap /\ avail = 0 /\ ~WriterOpen
          /\ pc' = "reap"
          /\ UNCHANGED <<avail, pos>>
    /\ UNCHANGED <<env, child, termIgnored, cexit, written, readOpen, errno,
                   timed_out, exit_status>>

(* read_all_available with room left: read returns 1..n bytes, or 0 at EOF *)
(* (then close, trim, and the final waitpid).  A full buffer goes to the   *)
(* drain loop.                                                             *)
ReadChunk ==
    /\ pc = "read"
    /\ \/ /\ pos = Cap
          /\ pc' = "drain"
          /\ UNCHANGED <<avail, pos>>
       \/ /\ pos < Cap /\ avail > 0
          /\ \E n \in 1..Min2(avail, Cap - pos) :
                pos' = pos + n /\ avail' = avail - n
          /\ UNCHANGED pc
       \/ /\ pos < Cap /\ avail = 0 /\ ~WriterOpen
          /\ pc' = "reap"
          /\ UNCHANGED <<avail, pos>>
    /\ UNCHANGED <<env, child, termIgnored, cexit, written, readOpen, errno,
                   timed_out, exit_status>>

(* A signal interrupts a call blocked on the empty pipe.  select returns  *)
(* -1/EINTR, which the code treats as "data available" and goes on to      *)
(* read; read returns -1/EINTR, and both read loops retry.                 *)
Interrupted ==
    /\ env.signals
    /\ pc \in {"select", "read", "drain"}
    /\ ~Readable
    /\ errno' = "EINTR"
    /\ pc' = IF pc = "select" THEN "read" ELSE pc
    /\ UNCHANGED <<env, child, termIgnored, cexit, written, avail, readOpen, pos,
                   timed_out, exit_status>>

(* The drain loop: "if (n <= 0 && errno != EINTR) break;".  Bytes are      *)
(* discarded.  At EOF read returns 0 without touching errno, so the loop   *)
(* leaves only if errno is not EINTR; with a stale EINTR it keeps reading  *)
(* EOF and never leaves (no step is enabled for it here).                  *)
Drain ==
    /\ pc = "drain"
    /\ \/ /\ avail > 0
          /\ \E n \in 1..avail : avail' = avail - n
          /\ UNCHANGED pc
       \/ /\ avail = 0 /\ ~WriterOpen /\ errno # "EINTR"
          /\ pc' = "reap"
          /\ UNCHANGED avail
    /\ UNCHANGED <<env, child, termIgnored, cexit, written, readOpen, pos, errno,
                   timed_out, exit_status>>

(* Close the read end, trim, then waitpid(pid, &status, 0) retried on      *)
(* EINTR: exit_status is the exit code if the child exited normally.       *)
Reap ==
    /\ pc = "reap"
    /\ child = "zombie"
    /\ child' = "reaped"
    /\ readOpen' = FALSE
    /\ exit_status' = StatusOf[cexit]
    /\ pc' = "done"
    /\ UNCHANGED <<env, termIgnored, cexit, written, avail, pos, errno, timed_out>>

-----------------------------------------------------------------------------
(* Child ("sh -c 'git ...'")                                                *)

(* Write one byte.  With the read end closed the write raises SIGPIPE,     *)
(* which kills the child.                                                  *)
ChildWrite ==
    /\ child = "run"
    /\ written < MaxOut
    /\ written' = written + 1
    /\ IF readOpen
          THEN avail' = avail + 1 /\ UNCHANGED <<child, cexit>>
          ELSE child' = "zombie" /\ cexit' = "signal" /\ UNCHANGED avail
    /\ UNCHANGED <<env, pc, termIgnored, readOpen, pos, errno, timed_out, exit_status>>

(* Exit with a status code, or die of an outside signal (SIGINT to the    *)
(* foreground process group); the pipe's write end closes.               *)
ChildExit ==
    /\ child = "run"
    /\ \E how \in DOMAIN StatusOf : cexit' = how
    /\ child' = "zombie"
    /\ UNCHANGED <<env, pc, termIgnored, written, avail, readOpen, pos, errno,
                   timed_out, exit_status>>

(* Enter an uninterruptible sleep that never ends.                         *)
ChildDStall ==
    /\ env.dstall
    /\ child = "run"
    /\ child' = "dstall"
    /\ UNCHANGED <<env, pc, termIgnored, cexit, written, avail, readOpen, pos,
                   errno, timed_out, exit_status>>

-----------------------------------------------------------------------------
Parent ==
    \/ Spawn \/ SelectReady \/ SelectTimeout \/ Interrupted
    \/ KillWaitNoHang \/ KillReap \/ ReadChunk \/ Drain \/ Reap

Child == ChildWrite \/ ChildExit \/ ChildDStall

Next == Parent \/ Child

(* The parent thread is scheduled and select's timeout expires (weak       *)
(* fairness).  Signals are not fair: they may or may not arrive.  The      *)
(* child's progress is an assumption of the environment (env.exits).              *)
ChildFairness ==
    /\ WF_vars(env.exits = "always" /\ ChildExit)
    /\ WF_vars(env.exits = "after_output" /\ written > 0 /\ ChildExit)

Fairness ==
    /\ WF_vars(Spawn) /\ WF_vars(SelectReady) /\ WF_vars(SelectTimeout)
    /\ WF_vars(KillWaitNoHang) /\ WF_vars(KillReap) /\ WF_vars(ReadChunk)
    /\ WF_vars(Drain) /\ WF_vars(Reap)
    /\ ChildFairness

Spec == Init /\ [][Next]_vars /\ Fairness

-----------------------------------------------------------------------------
(* Properties                                                               *)

TypeOK ==
    /\ env \in Environments
    /\ pc \in {"start", "select", "grace", "killwait", "read", "drain", "reap", "done"}
    /\ child \in {"none", "run", "dstall", "zombie", "reaped"}
    /\ termIgnored \in BOOLEAN /\ readOpen \in BOOLEAN /\ timed_out \in BOOLEAN
    /\ cexit \in DOMAIN StatusOf
    /\ written \in 0..MaxOut /\ avail \in 0..written /\ pos \in 0..Cap
    /\ errno \in {"none", "EINTR"}
    /\ exit_status \in {-1, 0, 1}

(* "Child processes are always reaped to prevent zombies" (file header):   *)
(* whenever git_command_with_timeout returns, the child it forked has been *)
(* waited for, on the timeout path through kill_child's escalation too.    *)
ChildReapedOnReturn == pc = "done" => child \in {"none", "reaped"}

(* The result describes what the child did: a timed-out call reports -1    *)
(* and an empty buffer; otherwise exit_status is the child's exit code (-1 *)
(* if it never ran or died of a signal) and the buffer holds the first Cap *)
(* bytes it wrote, however read() split them.                              *)
ResultMatchesChild ==
    pc = "done" =>
        IF timed_out
           THEN exit_status = -1 /\ pos = 0
           ELSE /\ exit_status = (IF child = "none" THEN -1 ELSE StatusOf[cexit])
                /\ pos = Min2(written, Cap)

(* Spec 4.1: the call returns within the timeout plus the kill escalation; *)
(* with no clock this is: every call eventually returns, whatever the      *)
(* child does within the run's assumption about it.                        *)
ReturnsEventually == <>(pc = "done")

(* No signal, no stale errno, no uninterruptible sleep, and a child that   *)
(* finishes: the environment spec 4.1's bound is meant for.                *)
Benign(e) == ~e.signals /\ e.errno = "none" /\ ~e.dstall /\ e.exits # "never_assumed"

(* Spec 4.1's bound for the environments the code does handle: in a benign *)
(* environment every call returns, the SIGTERM/SIGKILL escalation of a     *)
(* child that ignores SIGTERM or hangs before writing included.            *)
ReturnsWhenBenign == Benign(env) => ReturnsEventually

=============================================================================
