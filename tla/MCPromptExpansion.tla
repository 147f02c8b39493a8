------------------------- MODULE MCPromptExpansion -------------------------
EXTENDS PromptExpansion, CwdDisplay

(* ESC [ \ % 0 1 x u $ m F { } and a UTF-8 lead byte (0xC3).               *)
MCAlphabet == {27, 91, 92, 37, 48, 49, 120, 117, 36, 109, 70, 123, 125, 195}
MCMaxLen == 4
MCSize == 4

RECURSIVE FoldLeftPath(_)
FoldLeftPath(cs) == IF cs = <<>> THEN <<>> ELSE <<47>> \o Head(cs) \o FoldLeftPath(Tail(cs))
MCUser == <<97, 98>>
(* What gethostname returns; get_hostname_short makes %m's "h" of it.     *)
MCHostname == [ok |-> TRUE, name |-> <<104, DOT, 100>>]
MCHost == HostnameShort(MCHostname)

(* "/" and absolute paths of components a, b and ab, as getcwd returns     *)
(* them (no trailing '/'), and the empty string of a failed getcwd.        *)
MCCwds == {<<>>, <<47>>} \cup
          {FoldLeftPath(cs) : cs \in UNION {[1..n -> {<<97>>, <<98>>, <<97, 98>>}] : n \in 1..2}}

(* No entry, an empty home, "/", "/a", "/a/" with a trailing slash, "/ab". *)
MCHomes == {[found |-> FALSE, dir |-> <<>>]} \cup
           {[found |-> TRUE, dir |-> d] : d \in {<<>>, <<47>>, <<47, 97>>, <<47, 97, 47>>, <<47, 97, 98>>}}

(* A failed call, an empty name, and names with no, one and two dots and  *)
(* a leading dot.                                                          *)
MCHostnames == {[ok |-> FALSE, name |-> <<>>]} \cup
               {[ok |-> TRUE, name |-> n] : n \in {<<>>, <<104>>, <<104, 46, 100>>, <<46, 100>>,
                                                  <<104, 46, 100, 46, 101>>}}

(* The code's host and cwd strings against the spec's rows, for every     *)
(* host name, user-database entry and working directory above.  A         *)
(* constant, evaluated once.                                               *)
SystemEscapesHold == EscapesAgreeOn(MCHostnames, MCHomes, MCCwds)

(* Wherever the scan stands, a system escape read there renders what      *)
(* spec 4.2's rows say: \h/%m is get_hostname_short's host cut at the     *)
(* first dot, \w/%~ is get_cwd_tilde's directory with the home replaced   *)
(* only when it is followed by '/' or the end (/a is not the home of      *)
(* /ab), and \W/%c/%. is get_cwd_basename's last component taken after    *)
(* that substitution, with ~ and / kept whole.                             *)
SystemEscapesFollowSpec == p \in 1..Len(src) + 1 => SystemEscapesHold

(* Five-byte formats over % F K { } 1 9: a closed color spec with a       *)
(* number in it (%F{1}, %K{9}) or with text, two escapes in a row, or a   *)
(* spec opened twice.  And %D followed by up to four of % D { } Y and '.': *)
(* bare %D, %D{} and %D{%Y}, a strftime conversion it does not know (%.), *)
(* %% and a trailing '%' in the format, an unclosed %D{, and a %D whose    *)
(* format holds another %D.                                                *)
MCLongFormats == [1..5 -> {37, 70, 75, 123, 125, 49, 57}] \cup
                 {<<37, 68>> \o t : t \in UNION {[1..n -> {37, 68, 123, 125, 89, 46}] : n \in 0..4}}

MCDepths == {0, 1, 2}
=============================================================================
