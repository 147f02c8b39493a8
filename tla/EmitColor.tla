------------------------------ MODULE EmitColor ------------------------------
(***************************************************************************)
(* emit_color (src/src/lle/prompt/prompt_expansion.c), called for the     *)
(* %F{spec} and %K{spec} escapes: the SGR escape it appends for a color   *)
(* spec at the terminal's color depth (0 none, 1 basic, 2 256, 3 true).   *)
(* A spec is abstracted to its parse: "#RRGGBB" that sscanf reads, a      *)
(* decimal that strtol reads entirely, or any other text, which the named *)
(* color table then looks up.  The escape is abstracted to its SGR        *)
(* parameters: snprintf("\033[%d;...m") is the sequence of its numbers.   *)
(***************************************************************************)
EXTENDS Integers, Sequences

CONSTANTS
    Reds,        \* values of R in #RRGGBB specs
    Components,  \* values of G and B
    Numbers,     \* values strtol reads from a numeric spec
    Words        \* other spec texts: color names and unknown words

Named == [black |-> 0, red |-> 1, green |-> 2, yellow |-> 3, blue |-> 4,
          magenta |-> 5, cyan |-> 6, white |-> 7, default |-> 9]

Specs == [kind : {"hex"}, r : Reds, g : Components, b : Components]
    \cup [kind : {"num"}, n : Numbers]
    \cup [kind : {"word"}, w : Words]

VARIABLES
    spec,    \* the spec between the braces
    depth,   \* ctx->color_depth
    fg,      \* %F (TRUE) or %K (FALSE)
    sgr,     \* parameters of the escape appended, <<>> when none
    called   \* emit_color has returned

vars == <<spec, depth, fg, sgr, called>>

(* "int ri = (r > 47) ? (r - 35) / 40 : 0;"                                *)
CubeIndex(c) == IF c > 47 THEN (c - 35) \div 40 ELSE 0

BasicOf(n) == n % 8

(* What a #RRGGBB spec becomes: 24-bit, the 256-color cube, or nothing.   *)
HexMode(d) == CASE d >= 3 -> "true" [] d >= 2 -> "cube" [] OTHER -> "none"

(* The escape emit_color appends for a spec at a depth.                    *)
EmitParams(s, d, f) ==
    LET base == IF f THEN 30 ELSE 40
        ext  == IF f THEN 38 ELSE 48
    IN CASE d = 0 -> <<>>
         [] s.kind = "hex" /\ HexMode(d) = "true" -> <<ext, 2, s.r, s.g, s.b>>
         [] s.kind = "hex" /\ HexMode(d) = "cube" ->
                <<ext, 5, 16 + 36 * CubeIndex(s.r) + 6 * CubeIndex(s.g) + CubeIndex(s.b)>>
         [] s.kind = "hex" -> <<>>
         [] s.kind = "num" /\ s.n \in 0..255 /\ d >= 2 -> <<ext, 5, s.n>>
         [] s.kind = "num" /\ s.n \in 0..255 -> <<base + BasicOf(s.n)>>
         [] s.kind = "word" /\ s.w \in DOMAIN Named -> <<base + Named[s.w]>>
         [] OTHER -> <<>>

Init ==
    /\ spec \in Specs
    /\ depth \in 0..3
    /\ fg \in BOOLEAN
    /\ sgr = <<>>
    /\ called = FALSE

Emit ==
    /\ ~called
    /\ sgr' = EmitParams(spec, depth, fg)
    /\ called' = TRUE
    /\ UNCHANGED <<spec, depth, fg>>

Next == Emit

Spec == Init /\ [][Next]_vars

-----------------------------------------------------------------------------
TypeOK ==
    /\ spec \in Specs /\ depth \in 0..3 /\ fg \in BOOLEAN /\ called \in BOOLEAN
    /\ sgr \in Seq(0..255)

(* The xterm cube levels and the level nearest to a component.             *)
CubeLevel(i) == IF i = 0 THEN 0 ELSE 55 + 40 * i
Dist(a, b) == IF a > b THEN a - b ELSE b - a
Nearest(c, i) == \A j \in 0..5 : Dist(c, CubeLevel(i)) <= Dist(c, CubeLevel(j))

(* "approximate to 6x6x6 cube" (spec 4.2): at depth 2, each component of a *)
(* #RRGGBB spec goes to the cube level nearest to it.                      *)
CubeIsNearest ==
    called /\ spec.kind = "hex" /\ depth = 2 =>
        \A c \in {spec.r, spec.g, spec.b} : Nearest(c, CubeIndex(c))

=============================================================================
