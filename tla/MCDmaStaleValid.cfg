\* tb_video_dma_master.py with a DMA master that issues single-word bursts:
\* test_dma_single_frame ends with m_readdatavalid still 1
CONSTANTS
    X = X
    Tests <- MCTests
    Burst = 1
    MaxPending = 2
    TimerEdges = 5
    LoopEdges = 100
    FrameWords = 518400
    FullThreshold = 450
    StartAddr = 805306368
SPECIFICATION Spec
INVARIANT NoUnrequestedBeat
CHECK_DEADLOCK FALSE
