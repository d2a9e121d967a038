--------------------------- MODULE MCFrameCapture ---------------------------
(* Lines of 3 pixel clocks with 2 active pixels.  The round trip uses     *)
(* frames of 5 lines: two active, then front porch, vertical sync and     *)
(* back porch, one line each, and every raster of 4 words out of 2        *)
(* values.  The fault runs use frames of 4 lines with one active line.    *)
EXTENDS FrameCapture

MCImages2 == [1..2 -> {1, 2}]

MCImages4 == [1..4 -> {1, 2}]

MCSyncLines1 == {2}

MCSyncLines2 == {3}

MCBadWords == {1, 2, X}

=============================================================================
