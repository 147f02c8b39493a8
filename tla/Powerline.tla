------------------------------ MODULE Powerline ------------------------------
(***************************************************************************)
(* lle_powerline_render (src/src/lle/prompt/powerline_renderer.c): collect *)
(* the theme's visible segments (strip_ansi on each content, colors from   *)
(* resolve_segment_colors), then assemble colored blocks and separators    *)
(* left to right (PS1) or right to left (RPROMPT) into the output buffer   *)
(* with buf_append, which drops any chunk that does not fit whole.         *)
(*                                                                         *)
(* The output is a sequence of chunks, each one buf_append call: a color   *)
(* escape (its color and byte length), a space, a segment's content, the   *)
(* separator glyph or a reset.  Content is bytes, so that strip_ansi is    *)
(* modelled byte by byte.                                                  *)
(***************************************************************************)
EXTENDS Integers, Sequences, FiniteSets

CONSTANTS
    MaxSegments,     \* theme->enabled_segment_count at most
    MaxVisible,      \* POWERLINE_MAX_VISIBLE
    Contents,        \* what a segment's render may produce (byte sequences)
    OutputSizes,     \* output_size values
    SepLen,          \* strlen(separator): U+E0B0 / U+E0B2 are 3 bytes
    EscLen           \* lle_color_to_ansi length by color mode

ESC == 27
LBRACKET == 91

(* Why collect_visible_segments drops a segment, or "ok".                  *)
Fates == {"missing", "invisible", "hidden", "failed", "empty", "ok"}

(* Segment names and the default backgrounds of default_segment_bg; a     *)
(* per-segment bg_color from the theme is a 256-palette color.            *)
Names == {"directory", "git"}
DefaultBg == [directory |-> [id |-> "blue", mode |-> "true"],
              git |-> [id |-> "purple", mode |-> "true"]]
ConfigBg == [id |-> "p33", mode |-> "c256"]
White == [id |-> "white", mode |-> "true"]
ThemeText == [id |-> "text", mode |-> "c256"]

Segments ==
    [fate : Fates \ {"ok"}]
        \cup [fate : {"ok"}, raw : Contents, name : Names, bgSet : BOOLEAN]

VARIABLES
    segs,      \* the enabled segments, in theme order
    dir,       \* "L" (LLE_POWERLINE_LEFT_TO_RIGHT) or "R"
    caps,      \* ctx->has_true_color, ctx->has_256_color
    textSet,   \* theme->colors.text.mode != NONE
    size,      \* output_size
    pc,        \* "collect", "render", "done"
    i,         \* loop index (1-based)
    vis,       \* visible[]: content, fg, bg
    out,       \* chunks in output
    pos,       \* a.pos
    full       \* history: every chunk the renderer tried to append

vars == <<segs, dir, caps, textSet, size, pc, i, vis, out, pos, full>>

-----------------------------------------------------------------------------
(* strip_ansi.  Bytes after the terminating NUL read as 0: the segment's   *)
(* output struct was memset to 0 before render (line 246).                 *)
Byte(s, k) == IF k < Len(s) THEN s[k + 1] ELSE 0

IsFinal(c) == c >= 64 /\ c <= 126

RECURSIVE CsiStop(_, _)
CsiStop(s, k) == IF Byte(s, k) # 0 /\ ~IsFinal(Byte(s, k)) THEN CsiStop(s, k + 1) ELSE k

(* Mutant: the final byte of a CSI is kept.                               *)
RECURSIVE StripFrom_KeepsFinal(_, _)
StripFrom_KeepsFinal(s, k) ==
    IF Byte(s, k) = 0 THEN <<>>
    ELSE IF Byte(s, k) = ESC /\ Byte(s, k + 1) = LBRACKET
         THEN StripFrom_KeepsFinal(s, CsiStop(s, k + 2))
         ELSE <<Byte(s, k)>> \o StripFrom_KeepsFinal(s, k + 1)

(* The for loop from index i; after a CSI the loop increment steps past    *)
(* the byte the inner while stopped on.                                    *)
RECURSIVE StripFrom(_, _)
StripFrom(s, k) ==
    IF Byte(s, k) = 0 THEN <<>>
    ELSE IF Byte(s, k) = ESC /\ Byte(s, k + 1) = LBRACKET
         THEN StripFrom(s, CsiStop(s, k + 2) + 1)
         ELSE <<Byte(s, k)>> \o StripFrom(s, k + 1)

StripAnsi(s) == StripFrom(s, 0)

(* lle_color_downgrade (external color model; from spec 4.3).              *)
Downgrade(c) ==
    [c EXCEPT !.mode =
        CASE c.mode = "true" /\ ~caps.hasTrue -> IF caps.has256 THEN "c256" ELSE "basic"
          [] c.mode = "c256" /\ ~caps.has256 -> "basic"
          [] OTHER -> c.mode]

(* resolve_segment_colors                                                  *)
ResolveFg(s) == Downgrade(IF textSet THEN ThemeText ELSE White)
ResolveBg(s) == Downgrade(IF s.bgSet THEN ConfigBg ELSE DefaultBg[s.name])

-----------------------------------------------------------------------------
(* The chunks of buf_append_color_bg/_fg, " ", content, separator, reset.  *)
Bg(c) == [k |-> "bg", c |-> c.id, n |-> EscLen[c.mode]]
Fg(c) == [k |-> "fg", c |-> c.id, n |-> EscLen[c.mode]]
Space == [k |-> "text", c |-> "none", n |-> 1]
Text(t) == [k |-> "content", c |-> "none", n |-> Len(t)]
Sep == [k |-> "sep", c |-> "none", n |-> SepLen]
Reset == [k |-> "reset", c |-> "none", n |-> 4]

(* Mutant: no room check.                                                  *)
Fits_NoCheck(used, ch) == TRUE

(* buf_append: "if (a->pos + len >= a->size) return;"                      *)
Fits(used, ch) == used + ch.n < size

RECURSIVE AppendAll(_, _, _)
AppendAll(o, used, cs) ==
    IF cs = <<>> THEN [o |-> o, used |-> used]
    ELSE IF Fits(used, Head(cs))
         THEN AppendAll(Append(o, Head(cs)), used + Head(cs).n, Tail(cs))
         ELSE AppendAll(o, used, Tail(cs))

Emit(cs) ==
    /\ out' = AppendAll(out, pos, cs).o
    /\ pos' = AppendAll(out, pos, cs).used
    /\ full' = full \o cs

(* bg + fg + space + content + space                                       *)
Block(v) == <<Bg(v.bg), Fg(v.fg), Space, Text(v.content), Space>>

(* Mutant: the last segment gets no trailing separator.                   *)
LeftChunks_NoFinalSep(v, k) ==
    Block(v[k]) \o
        IF k + 1 <= Len(v) THEN <<Fg(v[k].bg), Bg(v[k + 1].bg), Sep>> ELSE <<Reset>>

(* One iteration of render_left_to_right.                                  *)
LeftChunks(v, k) ==
    Block(v[k]) \o
        IF k + 1 <= Len(v) THEN <<Fg(v[k].bg), Bg(v[k + 1].bg), Sep>>
                           ELSE <<Reset, Fg(v[k].bg), Sep, Reset>>

(* Mutant: the between-segment separator takes the previous segment's bg.  *)
RightChunks_NextBg(v, k) ==
    (IF k = 1 THEN <<Fg(v[k].bg), Sep>>
              ELSE <<Fg(v[k].bg), Bg(v[IF k + 1 <= Len(v) THEN k + 1 ELSE k].bg), Sep>>)
        \o Block(v[k])

(* One iteration of render_right_to_left.                                  *)
RightChunks(v, k) ==
    (IF k = 1 THEN <<Fg(v[k].bg), Sep>> ELSE <<Fg(v[k].bg), Bg(v[k - 1].bg), Sep>>)
        \o Block(v[k])

-----------------------------------------------------------------------------
(* lle_powerline_render: output[0] = NUL, then the collection loop.        *)
Init ==
    /\ segs \in UNION {[1..m -> Segments] : m \in 0..MaxSegments}
    /\ dir \in {"L", "R"}
    /\ caps \in {[hasTrue |-> TRUE, has256 |-> TRUE],
                 [hasTrue |-> FALSE, has256 |-> TRUE],
                 [hasTrue |-> FALSE, has256 |-> FALSE]}
    /\ textSet \in BOOLEAN
    /\ size \in OutputSizes
    /\ pc = "collect"
    /\ i = 1
    /\ vis = <<>>
    /\ out = <<>>
    /\ pos = 0
    /\ full = <<>>

(* collect_visible_segments, an iteration that skips: not in the registry, *)
(* is_visible false, show = false in the theme, render failed or empty.    *)
CollectSkip ==
    /\ pc = "collect" /\ i <= Len(segs) /\ Len(vis) < MaxVisible
    /\ segs[i].fate # "ok"
    /\ i' = i + 1
    /\ UNCHANGED <<segs, dir, caps, textSet, size, pc, vis, out, pos, full>>

(* An iteration that keeps the segment, its content stripped of CSI.       *)
CollectKeep ==
    /\ pc = "collect" /\ i <= Len(segs) /\ Len(vis) < MaxVisible
    /\ segs[i].fate = "ok"
    /\ vis' = Append(vis, [content |-> StripAnsi(segs[i].raw),
                           fg |-> ResolveFg(segs[i]), bg |-> ResolveBg(segs[i])])
    /\ i' = i + 1
    /\ UNCHANGED <<segs, dir, caps, textSet, size, pc, out, pos, full>>

(* The loop ends at the last enabled segment or at POWERLINE_MAX_VISIBLE;  *)
(* with no visible segment the render returns the empty string.            *)
CollectDone ==
    /\ pc = "collect" /\ (i > Len(segs) \/ Len(vis) = MaxVisible)
    /\ pc' = IF vis = <<>> THEN "done" ELSE "render"
    /\ i' = 1
    /\ UNCHANGED <<segs, dir, caps, textSet, size, vis, out, pos, full>>

RenderLeft ==
    /\ pc = "render" /\ dir = "L" /\ i <= Len(vis)
    /\ Emit(LeftChunks(vis, i))
    /\ i' = i + 1
    /\ UNCHANGED <<segs, dir, caps, textSet, size, pc, vis>>

RenderRight ==
    /\ pc = "render" /\ dir = "R" /\ i <= Len(vis)
    /\ Emit(RightChunks(vis, i))
    /\ i' = i + 1
    /\ UNCHANGED <<segs, dir, caps, textSet, size, pc, vis>>

(* After the loop: render_right_to_left appends a reset; left to right     *)
(* returns.                                                                *)
RenderEnd ==
    /\ pc = "render" /\ i > Len(vis)
    /\ Emit(IF dir = "R" THEN <<Reset>> ELSE <<>>)
    /\ pc' = "done"
    /\ UNCHANGED <<segs, dir, caps, textSet, size, i, vis>>

Next == CollectSkip \/ CollectKeep \/ CollectDone \/ RenderLeft \/ RenderRight \/ RenderEnd

Spec == Init /\ [][Next]_vars

-----------------------------------------------------------------------------
TypeOK ==
    /\ segs \in Seq(Segments) /\ Len(segs) <= MaxSegments
    /\ dir \in {"L", "R"} /\ textSet \in BOOLEAN /\ size \in OutputSizes
    /\ pc \in {"collect", "render", "done"}
    /\ i \in 1..MaxSegments + 1
    /\ Len(vis) <= MaxVisible
    /\ pos \in 0..size - 1

RECURSIVE Bytes(_)
Bytes(cs) == IF cs = <<>> THEN 0 ELSE Head(cs).n + Bytes(Tail(cs))

(* The render returned and every chunk it tried fitted in output.          *)
Fitted == pc = "done" /\ Bytes(full) < size

(* The colors in force when chunk k of o is written: a bg or fg escape     *)
(* sets one, a reset sets both to the terminal default.                    *)
RECURSIVE AttrBefore(_, _)
AttrBefore(o, k) ==
    IF k = 1 THEN [fg |-> "default", bg |-> "default"]
    ELSE LET a == AttrBefore(o, k - 1)
             t == o[k - 1]
         IN CASE t.k = "bg" -> [a EXCEPT !.bg = t.c]
              [] t.k = "fg" -> [a EXCEPT !.fg = t.c]
              [] t.k = "reset" -> [fg |-> "default", bg |-> "default"]
              [] OTHER -> a

Contents_(o) == {k \in DOMAIN o : o[k].k = "content"}
Seps(o) == {k \in DOMAIN o : o[k].k = "sep"}

(* The background of the block whose content is nearest before / after k. *)
BgBefore(o, k) ==
    IF \E j \in Contents_(o) : j < k
       THEN AttrBefore(o, CHOOSE j \in Contents_(o) : j < k /\ \A m \in Contents_(o) : m < k => m <= j).bg
       ELSE "default"
BgAfter(o, k) ==
    IF \E j \in Contents_(o) : j > k
       THEN AttrBefore(o, CHOOSE j \in Contents_(o) : j > k /\ \A m \in Contents_(o) : m > k => m >= j).bg
       ELSE "default"

(* Spec 8, invariant 6: one separator glyph per visible segment, in both  *)
(* directions, when nothing was truncated.                                 *)
SeparatorPerSegment ==
    Fitted => Cardinality(Seps(out)) = Len(vis) /\ Cardinality(Contents_(out)) = Len(vis)

(* The arrows join the blocks (spec 4.3 and glossary): left to right, each *)
(* separator is drawn in the background of the block before it on the     *)
(* background of the block after it (terminal default after the last);   *)
(* right to left, in the background of the block after it on that of the  *)
(* block before it (default before the first).                            *)
ArrowsMatchBlocks ==
    Fitted =>
      \A k \in Seps(out) :
        IF dir = "L"
        THEN AttrBefore(out, k) = [fg |-> BgBefore(out, k), bg |-> BgAfter(out, k)]
        ELSE AttrBefore(out, k) = [fg |-> BgAfter(out, k), bg |-> BgBefore(out, k)]

(* The reference for strip_ansi (spec 4.3): drop every ESC [ ... final    *)
(* byte, where a sequence with no final byte runs to the end.              *)
RECURSIVE AfterCsi(_)
AfterCsi(t) == IF t = <<>> THEN <<>> ELSE IF IsFinal(Head(t)) THEN Tail(t) ELSE AfterCsi(Tail(t))

RECURSIVE SpecStrip(_)
SpecStrip(t) ==
    IF t = <<>> THEN <<>>
    ELSE IF Len(t) >= 2 /\ t[1] = ESC /\ t[2] = LBRACKET
         THEN SpecStrip(AfterCsi(Tail(Tail(t))))
         ELSE <<t[1]>> \o SpecStrip(Tail(t))

Kept == SelectSeq(segs, LAMBDA s : s.fate = "ok")

(* Each visible segment's content is its render output with every CSI      *)
(* sequence removed and nothing else.                                      *)
StrippedPerSpec == \A k \in 1..Len(vis) : vis[k].content = SpecStrip(Kept[k].raw)

=============================================================================
