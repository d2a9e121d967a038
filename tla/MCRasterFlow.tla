---------------------------- MODULE MCRasterFlow -----------------------------
(* Images of 3 x 2 pixels (not square, so a transposed loop shows) in two *)
(* colours whose red and blue differ (so a swapped byte order shows).      *)
EXTENDS RasterFlow

MCColors == {[r |-> 1, g |-> 2, b |-> 3], [r |-> 7, g |-> 0, b |-> 5]}

=============================================================================
