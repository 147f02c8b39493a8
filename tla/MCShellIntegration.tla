------------------------- MODULE MCShellIntegration -------------------------
(* Bounds for checking ShellIntegration.                                   *)
EXTENDS ShellIntegration

(* Two errors reach the threshold; three presses panic, as in the spec;   *)
(* a two-tick window over a three-tick clock lets runs both continue and  *)
(* break; two hard resets let a reset follow a reset.                      *)
MCErrorThreshold == 2
MCPanicCount == 3
MCPanicWindow == 2
MCMaxTime == 3
MCMaxResets == 2

(* One history entry is enough to be lost or kept.                        *)
MCMaxEntries == 1

(* The user assigns a format the expansion engine fails on, or one that  *)
(* is not valid UTF-8; the theme has a format the engine renders, or none *)
(* (composer creation then writes "$ ").                                   *)
MCUserFormats ==
    { [src |-> "f", utf8 |-> TRUE, expands |-> FALSE, out |-> ""],
      [src |-> "x", utf8 |-> FALSE, expands |-> TRUE, out |-> "x>"] }
MCThemeFormats ==
    { [src |-> "t", utf8 |-> TRUE, expands |-> TRUE, out |-> "t>"],
      [src |-> "", utf8 |-> TRUE, expands |-> TRUE, out |-> ""] }

(* HOME acts only on the history, the uid only on the fallback text, the  *)
(* newline setting only on the prefix: three environments give each field *)
(* both values.                                                            *)
MCEnvs ==
    { [home |-> TRUE, root |-> FALSE, newline |-> FALSE],
      [home |-> TRUE, root |-> TRUE, newline |-> TRUE],
      [home |-> FALSE, root |-> FALSE, newline |-> TRUE] }

=============================================================================
