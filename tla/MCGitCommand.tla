---------------------------- MODULE MCGitCommand ----------------------------
(* Bounds and environments for checking GitCommand.                       *)
EXTENDS GitCommand

(* Three bytes against a two-byte buffer: the child's output can both fit  *)
(* and overflow, so both read_all_available loops run.                     *)
MCMaxOut == 3
MCCap == 2

(* Every environment: signals or none, errno clear or a stale EINTR left  *)
(* by an earlier interrupted call, each assumption about the child, and    *)
(* an uninterruptible sleep or none.                                       *)
MCAllEnvs == Environments

(* A child that writes part of its output and then hangs, with no signals. *)
MCStallEnv ==
    {[signals |-> FALSE, errno |-> "none", exits |-> "never_assumed", dstall |-> FALSE]}

(* Signals may interrupt reads; the child always exits eventually.        *)
MCSignalEnv ==
    {[signals |-> TRUE, errno |-> "none", exits |-> "always", dstall |-> FALSE]}

=============================================================================
