---------------------------- MODULE MCPowerline ----------------------------
EXTENDS Powerline

MCMaxSegments == 3
MCMaxVisible == 2
(* "a", a colored "a" (ESC[;m a), an unterminated CSI after "a", and a   *)
(* content that is only a CSI.                                            *)
MCContents == {<<97>>, <<27, 91, 59, 109, 97>>, <<97, 27, 91, 59>>, <<27, 91, 109>>}
(* A buffer that truncates a two-segment render, and one that never does. *)
MCOutputSizes == {60, 1024}
MCSepLen == 3
(* "\033[38;2;R;G;Bm", "\033[38;5;Nm", "\033[3Nm"                        *)
MCEscLen == [true |-> 17, c256 |-> 10, basic |-> 5]
=============================================================================
