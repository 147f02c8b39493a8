---------------------------- MODULE MCEmitColor ----------------------------
EXTENDS EmitColor

MCReds == 0..255
MCComponents == {0, 60, 128, 255}
(* strtol results: in range, at both ends, and out of range on each side. *)
MCNumbers == {-1, 0, 1, 9, 255, 256}
MCWords == {"red", "default", "purple"}
=============================================================================
