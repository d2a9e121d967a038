---------------------------- MODULE MCDmaControl ----------------------------
(* Scaled instance of tb_video_dma_master.py for TLC.  The real loop is    *)
(* 100 edges against a 518400-word frame, so the frame can never end       *)
(* inside it: FrameWords stays above what LoopEdges edges can fetch.       *)
EXTENDS DmaControlTestbench

MCTests == <<"single_frame", "continuous">>
=============================================================================
