--------------------------- MODULE MCRegisterTests ---------------------------
(* Both register-test simulations, at the tests' own loop length.  The     *)
(* DMA master's frame is far longer than the test, as in the pipeline.     *)
EXTENDS RegisterTests

MCSims == {"sync_gen", "pipeline"}
=============================================================================
