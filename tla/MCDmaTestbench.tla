--------------------------- MODULE MCDmaTestbench ---------------------------
(* Scaled instance of tb_dma_master.py for TLC.  The real test uses a 512- *)
(* word FIFO, 64-word bursts, a 518400-word frame and 200-edge windows;    *)
(* here every count is cut down while keeping the relations the tests rely *)
(* on: several bursts per frame, more than one burst in flight, windows    *)
(* longer than the responder's worst-case turnaround, and three bursts in  *)
(* flight (MaxPending) so that two requests queue behind the one served.  *)
EXTENDS DmaTestbench

MCTests      == <<"basic", "backpressure">>
MCMemBytes   == 64          \* 16 words: more than the frame reads
MCMissing    == 195948557   \* 0xBADF00D
=============================================================================
