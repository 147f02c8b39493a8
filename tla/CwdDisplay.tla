------------------------------ MODULE CwdDisplay ------------------------------
(***************************************************************************)
(* The system-valued strings of pass 2 (src/src/lle/prompt/               *)
(* prompt_expansion.c): get_hostname_short for \h and %m, get_cwd_tilde    *)
(* for \w and %~, get_cwd_basename for \W, %c and %.  They are pure        *)
(* functions of what getcwd, gethostname and the user database return,     *)
(* written as operators and checked against spec 4.2's escape table.       *)
(*                                                                         *)
(* Strings are byte sequences without their NUL.  A user-database entry   *)
(* is a record whose "found" is FALSE when getpwuid returns NULL, and a    *)
(* host name one whose "ok" is FALSE when gethostname fails.              *)
(***************************************************************************)
EXTENDS Integers, Sequences

LOCAL INSTANCE SequencesExt

CONSTANT PathMax  \* PATH_MAX, the size of the buffers the cwd strings go in

ASSUME PathMax \in Nat \ {0}

SLASH == 47
TILDE == 126
DOT == 46

(* snprintf(buf, size, "%s", s): at most size - 1 bytes.                  *)
Snprintf(s, size) == SubSeq(s, 1, IF Len(s) < size THEN Len(s) ELSE size - 1)

(* get_hostname_short: on failure the empty string, else cut at the first *)
(* '.' (strchr).                                                           *)
HostnameShort(h) ==
    IF ~h.ok THEN <<>>
    ELSE LET dots == {i \in 1..Len(h.name) : h.name[i] = DOT}
         IN IF dots = {} THEN h.name ELSE SubSeq(h.name, 1, Min(dots) - 1)

(* Mutant: the prefix test without the "followed by '/' or end" check.    *)
HomeMatches_NoBoundary(pw, cwd) ==
    pw.found /\ IsPrefix(pw.dir, cwd)

(* "strncmp(cwd, pw->pw_dir, hlen) == 0 && (cwd[hlen] == '/' ||           *)
(* cwd[hlen] == '\0')".                                                    *)
HomeMatches(pw, cwd) ==
    /\ pw.found
    /\ IsPrefix(pw.dir, cwd)
    /\ Len(cwd) = Len(pw.dir) \/ cwd[Len(pw.dir) + 1] = SLASH

(* get_cwd_tilde into a PATH_MAX buffer: "~%s" of what follows the home    *)
(* directory, or the cwd itself.                                           *)
CwdTilde(pw, cwd) ==
    IF HomeMatches(pw, cwd)
       THEN Snprintf(<<TILDE>> \o SubSeq(cwd, Len(pw.dir) + 1, Len(cwd)), PathMax)
       ELSE Snprintf(cwd, PathMax)

(* get_cwd_basename: "~" and "/" as they are, else what follows the last  *)
(* '/' (strrchr), or the whole string when it has none.                    *)
CwdBasename(pw, cwd) ==
    LET t == CwdTilde(pw, cwd)
        last == SelectLastInSeq(t, LAMBDA c : c = SLASH)
    IN CASE t = <<TILDE>> -> <<TILDE>>
         [] t = <<SLASH>> -> <<SLASH>>
         [] OTHER -> Snprintf(SubSeq(t, last + 1, Len(t)), PathMax)

-----------------------------------------------------------------------------
(* Spec 4.2's rows.  \h: the host name "truncated at first '.'" (the       *)
(* longest prefix with no dot).  \w: the working directory "with $HOME     *)
(* replaced by ~ when prefix-matched followed by / or end".  \W: the       *)
(* "basename of the ~-substituted cwd; ~ stays ~; / stays /", the last     *)
(* component being the longest suffix with no '/'.                         *)
SpecHost(h) ==
    IF ~h.ok THEN <<>>
    ELSE CHOOSE pre \in Prefixes(h.name) :
            /\ \A i \in DOMAIN pre : pre[i] # DOT
            /\ \A q \in Prefixes(h.name) : (\A i \in DOMAIN q : q[i] # DOT) => Len(q) <= Len(pre)

SpecTilde(pw, cwd) ==
    IF pw.found /\ \E r \in Suffixes(cwd) : cwd = pw.dir \o r /\ (r = <<>> \/ r[1] = SLASH)
       THEN <<TILDE>> \o SubSeq(cwd, Len(pw.dir) + 1, Len(cwd))
       ELSE cwd

SpecBasename(t) ==
    IF t = <<SLASH>> THEN t
    ELSE CHOOSE s \in Suffixes(t) :
            /\ \A i \in DOMAIN s : s[i] # SLASH
            /\ \A u \in Suffixes(t) : (\A i \in DOMAIN u : u[i] # SLASH) => Len(u) <= Len(s)

(* Over host names Hs, user-database entries Pws and working directories  *)
(* Cs (getcwd results shorter than PATH_MAX), the code's strings and the   *)
(* spec's rows agree; the property built on it is stated by the model      *)
(* that chooses the three sets.                                            *)
EscapesAgreeOn(Hs, Pws, Cs) ==
    /\ \A h \in Hs : HostnameShort(h) = SpecHost(h)
    /\ \A pw \in Pws, c \in Cs :
          /\ CwdTilde(pw, c) = SpecTilde(pw, c)
          /\ CwdBasename(pw, c) = SpecBasename(SpecTilde(pw, c))

=============================================================================
