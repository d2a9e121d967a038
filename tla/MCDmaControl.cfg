\* tb_video_dma_master.py: both tests in one simulation, at the test's own
\* clock, Timer and loop lengths; 64-word bursts as in tb_dma_master.py
CONSTANTS
    X = X
    Tests <- MCTests
    Burst = 64
    MaxPending = 128
    TimerEdges = 5
    LoopEdges = 100
    FrameWords = 518400
    FullThreshold = 450
    StartAddr = 805306368
SPECIFICATION Spec
INVARIANT TypeOK
INVARIANT NoUnrequestedBeat
PROPERTY AllTestsPass
CHECK_DEADLOCK FALSE
