--------------------------- MODULE PromptExpansion ---------------------------
(***************************************************************************)
(* lle_prompt_expand (src/src/lle/prompt/prompt_expansion.c): pass 1, the *)
(* template engine, then pass 2, expand_prompt_escapes, a forward scan     *)
(* that copies ANSI CSI sequences, applies the bash \X and zsh %X tables   *)
(* and copies other bytes, into a bounded buffer.                          *)
(*                                                                         *)
(* Bytes are their integer codes.  The escapes whose value comes from the  *)
(* system (user, host, cwd, tty, version) are represented by \u and %m,    *)
(* which expand to fixed strings; %D reads the clock at a fixed time.      *)
(* Each scan-loop iteration is a step.                                     *)
(***************************************************************************)
EXTENDS Integers, Sequences, TLC

CONSTANTS
    Alphabet,   \* byte codes format strings are built from
    MaxLen,     \* longest format string checked
    Size,       \* output_size
    User,       \* bytes of get_username()
    Host,       \* bytes of get_hostname_short()
    LongFormats,\* formats longer than MaxLen checked as well
    Depths      \* values of ctx->color_depth

ASSUME Alphabet \subseteq 1..255 /\ MaxLen \in Nat /\ Size \in Nat \ {0}
ASSUME LongFormats \subseteq Seq(1..255) /\ Depths \subseteq 0..3

VARIABLES
    fmt,     \* the format string (PS1)
    uid,     \* getuid()
    depth,   \* ctx->color_depth
    templ,   \* ctx->template_ctx != NULL
    src,     \* pass2_input
    p,       \* the scan position in src (1-based)
    out,     \* output bytes before the terminating NUL written by buf_*
    full     \* history: what the scan emitted, with no buffer limit

vars == <<fmt, uid, depth, templ, src, p, out, full>>

ESC == 27
LBRACKET == 91
BSLASH == 92
PERCENT == 37

Min2(a, b) == IF a < b THEN a ELSE b

Rest(s, i) == SubSeq(s, i, Len(s))

-----------------------------------------------------------------------------
(* Pass 1, lle_template_evaluate (external; from spec 4.2): it recognises  *)
(* only \n, \\ and \$ among backslash escapes; everything else, every %X   *)
(* included, passes through.  Formats here contain no ${...}.              *)
RECURSIVE TemplatePass(_)
TemplatePass(s) ==
    IF s = <<>> THEN <<>>
    ELSE IF Len(s) >= 2 /\ s[1] = BSLASH /\ s[2] \in {110, BSLASH, 36}
         THEN <<IF s[2] = 110 THEN 10 ELSE s[2]>> \o TemplatePass(Rest(s, 3))
         ELSE <<s[1]>> \o TemplatePass(Tail(s))

-----------------------------------------------------------------------------
(* buf_append_char / buf_append_str: bytes go in while pos + 1 < size; the *)
(* rest of a string that does not fit is dropped.                          *)
(* Mutants: appending with no room check; appending a string only when   *)
(* all of it fits.                                                         *)
PutUnchecked(o, s) == o \o s
PutWhole(o, s) == IF Len(o) + Len(s) <= Size - 1 THEN o \o s ELSE o

Put(o, s) == o \o SubSeq(s, 1, Min2(Len(s), Size - 1 - Len(o)))

Emit(s) == out' = Put(out, s) /\ full' = full \o s

(* "*p < 0x40" on a signed char: bytes >= 0x80 are negative.               *)
SignedBelow40(c) == c < 64 \/ c >= 128

RECURSIVE ParamRun(_, _)
ParamRun(s, i) == IF i <= Len(s) /\ SignedBelow40(s[i]) THEN ParamRun(s, i + 1) ELSE i

(* Mutant: the final byte is left to the next iteration.                 *)
AnsiEnd_NoFinal(s, i) ==
    IF i < Len(s) /\ s[i + 1] = LBRACKET THEN ParamRun(s, i + 2) ELSE i + 1

(* Index after an ANSI sequence starting at ESC in position i.             *)
AnsiEnd(s, i) ==
    IF i < Len(s) /\ s[i + 1] = LBRACKET
       THEN LET q == ParamRun(s, i + 2) IN IF q <= Len(s) THEN q + 1 ELSE q
       ELSE i + 1

IsOctal(c) == c \in 48..55
IsHex(c) == c \in 48..57 \cup 97..102 \cup 65..70
HexValue(c) == IF c \in 48..57 THEN c - 48 ELSE IF c \in 97..102 THEN c - 87 ELSE c - 55

(* The digit loops of \0NNN (at most 3) and \xNN (at most 2).             *)
RECURSIVE OctalScan(_, _, _, _)
OctalScan(s, j, n, v) ==
    IF n < 3 /\ j <= Len(s) /\ IsOctal(s[j])
       THEN OctalScan(s, j + 1, n + 1, v * 8 + s[j] - 48)
       ELSE [val |-> v, next |-> j]

RECURSIVE HexScan(_, _, _, _)
HexScan(s, j, n, v) ==
    IF n < 2 /\ j <= Len(s) /\ IsHex(s[j])
       THEN HexScan(s, j + 1, n + 1, v * 16 + HexValue(s[j]))
       ELSE [val |-> v, next |-> j]

(* strtol(spec, &end, 10) over a spec of decimal digits.                   *)
RECURSIVE FoldLeftDigits(_)
FoldLeftDigits(b) ==
    IF b = <<>> THEN 0 ELSE 10 * FoldLeftDigits(SubSeq(b, 1, Len(b) - 1)) + b[Len(b)] - 48

(* "if (val <= 255) buf_append_char(&b, (char)val);"                       *)
ByteIfValid(v) == IF v <= 255 THEN <<v>> ELSE <<>>

(* The bash switch, for the backslash at i: emitted bytes and next index. *)
BashEscape(s, i) ==
    LET next == s[i + 1]
        r == CASE next = 48  -> OctalScan(s, i + 2, 0, 0)
               [] next = 120 -> HexScan(s, i + 2, 0, 0)
               [] OTHER      -> [val |-> 0, next |-> i + 2]
    IN [next |-> r.next,
        emit |-> CASE next = 117 -> User
                   [] next = 36 -> <<IF uid = 0 THEN 35 ELSE 36>>
                   [] next = BSLASH -> <<BSLASH>>
                   [] next \in {LBRACKET, 93} -> <<>>
                   [] next \in {48, 120} -> ByteIfValid(r.val)
                   [] OTHER -> <<BSLASH, next>>]

LBRACE == 123
RBRACE == 125

(* emit_color's parse of the spec, to the spec records of EmitColor:      *)
(* "#RRGGBB" read by sscanf "%2x%2x%2x"; digits that strtol reads to the  *)
(* end; any other text goes to the named-color table, in which no text    *)
(* of the checked alphabets is a name.                                     *)
ColorSpecOf(b) ==
    CASE Len(b) = 7 /\ b[1] = 35 /\ \A j \in 2..7 : IsHex(b[j]) ->
            [kind |-> "hex", r |-> 16 * HexValue(b[2]) + HexValue(b[3]),
             g |-> 16 * HexValue(b[4]) + HexValue(b[5]), b |-> 16 * HexValue(b[6]) + HexValue(b[7])]
      [] b # <<>> /\ \A j \in 1..Len(b) : b[j] \in 48..57 ->
            [kind |-> "num", n |-> FoldLeftDigits(b)]
      [] OTHER -> [kind |-> "word", w |-> "unnamed"]

Color == INSTANCE EmitColor WITH Reds <- {}, Components <- {}, Numbers <- {}, Words <- {},
                                  spec <- <<>>, depth <- depth, fg <- TRUE, sgr <- <<>>,
                                  called <- FALSE

(* snprintf's "%d" and "%u": the decimal digits of n.                     *)
RECURSIVE Decimal(_)
Decimal(n) == IF n < 10 THEN <<48 + n>> ELSE Decimal(n \div 10) \o <<48 + (n % 10)>>

(* "\033[" then the parameters joined by ';', then 'm'.                   *)
RECURSIVE Params(_)
Params(ps) == IF Len(ps) = 1 THEN Decimal(ps[1]) ELSE Decimal(ps[1]) \o <<59>> \o Params(Tail(ps))

Sgr(ps) == IF ps = <<>> THEN <<>> ELSE <<ESC, LBRACKET>> \o Params(ps) \o <<109>>

(* The {...} argument of %F, %K or %D at i: it runs to the next '}' or to *)
(* the end of the string, the '}' is skipped when there is one, and the    *)
(* char array of size bytes it is copied to keeps at most size - 1 bytes.  *)
BraceText(s, i, size) ==
    LET ends == {j \in i + 3..Len(s) : s[j] = RBRACE}
        close == IF ends = {} THEN Len(s) + 1 ELSE CHOOSE j \in ends : \A m \in ends : j <= m
    IN [next |-> IF ends = {} THEN close ELSE close + 1,
        text |-> SubSeq(s, i + 3, Min2(close - 1, i + 2 + size - 1))]

(* %F{ or %K{ at i: char spec[64], then emit_color.                       *)
BraceScan(s, i, f) ==
    LET b == BraceText(s, i, 64)
    IN [next |-> b.next, emit |-> Sgr(Color!EmitParams(ColorSpecOf(b.text), depth, f))]

(* strftime (libc) at a fixed local time, 2026-11-09: %Y %y %m %d and %D  *)
(* give that time's fields, %% a '%'; glibc copies any other conversion,  *)
(* and a '%' that ends the format, as written; other bytes are copied.    *)
TimeField == (89 :> <<50, 48, 50, 54>>) @@ (121 :> <<50, 54>>) @@ (109 :> <<49, 49>>)
                 @@ (100 :> <<48, 57>>) @@ (68 :> <<49, 49, 47, 48, 57, 47, 50, 54>>)

RECURSIVE Strftime(_)
Strftime(f) ==
    CASE f = <<>> -> <<>>
      [] f[1] # PERCENT -> <<f[1]>> \o Strftime(Tail(f))
      [] Len(f) = 1 -> <<PERCENT>>
      [] f[2] = PERCENT -> <<PERCENT>> \o Strftime(Rest(f, 3))
      [] f[2] \in DOMAIN TimeField -> TimeField[f[2]] \o Strftime(Rest(f, 3))
      [] OTHER -> <<PERCENT, f[2]>> \o Strftime(Rest(f, 3))

(* "%y-%m-%d", the format of a bare %D.                                    *)
DefaultDate == <<PERCENT, 121, 45, PERCENT, 109, 45, PERCENT, 100>>

(* %D at i: with a '{', char fmt[128] gets the format and strftime writes  *)
(* into char date[256]; without one, strftime of "%y-%m-%d" into date[32]. *)
(* The results here are far shorter than either array.                    *)
DateScan(s, i) ==
    IF i + 2 <= Len(s) /\ s[i + 2] = LBRACE
       THEN LET b == BraceText(s, i, 128) IN [next |-> b.next, emit |-> Strftime(b.text)]
       ELSE [next |-> i + 2, emit |-> Strftime(DefaultDate)]

(* The zsh switch, for the percent sign at i.  %F and %K without a '{'    *)
(* emit nothing; %D reads its format as above.                             *)
ZshEscape(s, i) ==
    LET next == s[i + 1]
        brace == i + 2 <= Len(s) /\ s[i + 2] = LBRACE
    IN IF next = 68 THEN DateScan(s, i)
       ELSE IF next \in {70, 75} /\ brace THEN BraceScan(s, i, next = 70)
       ELSE [next |-> i + 2,
             emit |-> CASE next = 109 -> Host
                        [] next = PERCENT -> <<PERCENT>>
                        [] next = 117 -> <<ESC, LBRACKET, 50, 52, 109>>
                        [] next \in {70, 75} -> <<>>
                        [] OTHER -> <<PERCENT, next>>]

-----------------------------------------------------------------------------
(* lle_prompt_expand: output[0] = NUL; pass 1 when a template context is   *)
(* given; pass 2 starts at the first byte.                                 *)
Init ==
    /\ fmt \in UNION {[1..n -> Alphabet] : n \in 0..MaxLen} \cup LongFormats
    /\ uid \in {0, 1000}
    /\ depth \in Depths
    /\ templ \in BOOLEAN
    /\ src = IF templ THEN TemplatePass(fmt) ELSE fmt
    /\ p = 1
    /\ out = <<>>
    /\ full = <<>>

(* ESC: copy it; after ESC [ copy bytes while *p < 0x40, then one final.  *)
ScanAnsi ==
    /\ p <= Len(src) /\ src[p] = ESC
    /\ Emit(SubSeq(src, p, AnsiEnd(src, p) - 1))
    /\ p' = AnsiEnd(src, p)
    /\ UNCHANGED <<fmt, uid, depth, templ, src>>

(* A backslash with a byte after it: the bash table.                      *)
ScanBash ==
    /\ p < Len(src) /\ src[p] = BSLASH
    /\ Emit(BashEscape(src, p).emit)
    /\ p' = BashEscape(src, p).next
    /\ UNCHANGED <<fmt, uid, depth, templ, src>>

(* A percent sign with a byte after it: the zsh table.                    *)
ScanZsh ==
    /\ p < Len(src) /\ src[p] = PERCENT
    /\ Emit(ZshEscape(src, p).emit)
    /\ p' = ZshEscape(src, p).next
    /\ UNCHANGED <<fmt, uid, depth, templ, src>>

(* Any other byte, a trailing \ or % included, is copied.                 *)
ScanPlain ==
    /\ p <= Len(src) /\ src[p] # ESC
    /\ ~(p < Len(src) /\ src[p] \in {BSLASH, PERCENT})
    /\ Emit(<<src[p]>>)
    /\ p' = p + 1
    /\ UNCHANGED <<fmt, uid, depth, templ, src>>

Next == ScanAnsi \/ ScanBash \/ ScanZsh \/ ScanPlain

Spec == Init /\ [][Next]_vars

Done == p > Len(src)

-----------------------------------------------------------------------------
(* The reference: spec 4.2's dispatch and escape tables, over a whole     *)
(* string.  A CSI runs to a final byte in 0x40..0x7E; \0 takes the longest *)
(* run of at most three octal digits, \x of at most two hex digits.        *)
SpecFinal(c) == c \in 64..126

RECURSIVE CsiBodyLen(_)
CsiBodyLen(t) ==
    IF t = <<>> THEN 0 ELSE IF SpecFinal(t[1]) THEN 1 ELSE 1 + CsiBodyLen(Tail(t))

DigitRun(t, IsDigit(_), most) ==
    LET ks == {k \in 0..most : k <= Len(t) /\ \A j \in 1..k : IsDigit(t[j])}
    IN CHOOSE k \in ks : \A m \in ks : m <= k

(* Octal digits are values of HexValue too.                               *)
RECURSIVE DigitsValue(_, _, _)
DigitsValue(t, k, base) ==
    IF k = 0 THEN 0 ELSE DigitsValue(t, k - 1, base) * base + HexValue(t[k])

SpecBashFixed ==
    (117 :> User) @@ (36 :> <<IF uid = 0 THEN 35 ELSE 36>>) @@ (BSLASH :> <<BSLASH>>)
        @@ (LBRACKET :> <<>>) @@ (93 :> <<>>)

SpecZshFixed ==
    (109 :> Host) @@ (PERCENT :> <<PERCENT>>) @@ (117 :> <<ESC, LBRACKET, 50, 52, 109>>)

(* Spec 4.2's color rules for the text of %F{...} (f) or %K{...}: an      *)
(* integer 0..255 is ESC[38;5;Nm at depth 256 and ESC[(30|40)+N%8m at      *)
(* basic; #RRGGBB and names do not occur in the checked formats; anything  *)
(* else, and every spec at depth none, is dropped.                         *)
SpecColor(text, d, f) ==
    LET isInt == text # <<>> /\ \A j \in 1..Len(text) : IsOctal(text[j]) \/ text[j] \in {56, 57}
        n == DigitsValue(text, Len(text), 10)
    IN CASE d = 0 \/ ~isInt \/ n > 255 -> <<>>
         [] d >= 2 -> <<ESC, LBRACKET>> \o Decimal(IF f THEN 38 ELSE 48) \o <<59, 53, 59>>
                          \o Decimal(n) \o <<109>>
         [] OTHER -> <<ESC, LBRACKET>> \o Decimal((IF f THEN 30 ELSE 40) + (n % 8)) \o <<109>>

(* The {...} argument of %F, %K or %D at the head of t and the length of *)
(* the escape.  The spec does not say what one with no closing '}' does;   *)
(* here it is what the code does: the argument runs to the end.            *)
SpecBraceArg(t) ==
    LET ends == {j \in 4..Len(t) : t[j] = RBRACE}
        close == IF ends = {} THEN Len(t) + 1 ELSE CHOOSE j \in ends : \A m \in ends : j <= m
    IN [len |-> IF ends = {} THEN Len(t) ELSE close, text |-> SubSeq(t, 4, close - 1)]

HasBrace(t) == Len(t) >= 3 /\ t[3] = LBRACE

(* %F{spec} and %K{spec}; %F or %K without a '{' (the spec is silent)      *)
(* emits nothing, as in the code.                                          *)
SpecBrace(t) ==
    IF ~HasBrace(t) THEN [len |-> 2, emit |-> <<>>]
    ELSE [len |-> SpecBraceArg(t).len,
          emit |-> SpecColor(SpecBraceArg(t).text, depth, t[2] = 70)]

(* %D{fmt}: strftime of fmt; a bare %D: strftime of "%y-%m-%d".            *)
SpecDate(t) ==
    IF ~HasBrace(t) THEN [len |-> 2, emit |-> Strftime(<<37, 121, 45, 37, 109, 45, 37, 100>>)]
    ELSE [len |-> SpecBraceArg(t).len, emit |-> Strftime(SpecBraceArg(t).text)]

(* The bytes a \X or %X at the head of t produces, and its length in t.    *)
SpecNumeric(t, IsDigit(_), most, base) ==
    LET k == DigitRun(Rest(t, 3), IsDigit, most)
        v == DigitsValue(Rest(t, 3), k, base)
    IN [len |-> 2 + k, emit |-> IF v <= 255 THEN <<v>> ELSE <<>>]

SpecEscape(t) ==
    CASE t[1] = BSLASH /\ t[2] = 48  -> SpecNumeric(t, IsOctal, 3, 8)
      [] t[1] = BSLASH /\ t[2] = 120 -> SpecNumeric(t, IsHex, 2, 16)
      [] t[1] = BSLASH /\ t[2] \in DOMAIN SpecBashFixed ->
            [len |-> 2, emit |-> SpecBashFixed[t[2]]]
      [] t[1] = PERCENT /\ t[2] \in {70, 75} -> SpecBrace(t)
      [] t[1] = PERCENT /\ t[2] = 68 -> SpecDate(t)
      [] t[1] = PERCENT /\ t[2] \in DOMAIN SpecZshFixed ->
            [len |-> 2, emit |-> SpecZshFixed[t[2]]]
      [] OTHER -> [len |-> 2, emit |-> <<t[1], t[2]>>]

RECURSIVE SpecExpand(_)
SpecExpand(t) ==
    IF t = <<>> THEN <<>>
    ELSE IF Len(t) >= 2 /\ t[1] = ESC /\ t[2] = LBRACKET
         THEN LET k == 2 + CsiBodyLen(Rest(t, 3))
              IN SubSeq(t, 1, k) \o SpecExpand(Rest(t, k + 1))
    ELSE IF Len(t) >= 2 /\ t[1] \in {BSLASH, PERCENT}
         THEN SpecEscape(t).emit \o SpecExpand(Rest(t, SpecEscape(t).len + 1))
    ELSE <<t[1]>> \o SpecExpand(Tail(t))

-----------------------------------------------------------------------------
TypeOK ==
    /\ fmt \in Seq(1..255)
    /\ uid \in {0, 1000} /\ depth \in Depths
    /\ templ \in BOOLEAN
    /\ src \in Seq(1..255)
    /\ p \in 1..Len(src) + 1
    /\ out \in Seq(0..255) /\ Len(out) < Size
    /\ full \in Seq(0..255)

(* When expand_prompt_escapes returns, what its scan emitted is what spec  *)
(* 4.2's tables give for the pass-2 input: the CSI passthrough, the digit  *)
(* loops of \0 and \x, and the literal round-trip of unknown escapes.      *)
ExpansionFollowsTables == Done => full = SpecExpand(src)

(* buf_append_char/buf_append_str truncate silently: at every point of the *)
(* scan the buffer holds exactly the first size-1 bytes of what was        *)
(* emitted, never a later escape squeezed in after an earlier one that did *)
(* not fit.                                                                *)
TruncatedToPrefix == out = SubSeq(full, 1, Min2(Len(full), Size - 1))

(* lle_prompt_expand's comment: the template pass "leaves bash \X and zsh  *)
(* %X untouched"; with a template context (as lle_shell_update_prompt      *)
(* always passes) the prompt is what pass 2 makes of the format itself.    *)
TemplatePassTransparent == Done => full = SpecExpand(fmt)

=============================================================================
