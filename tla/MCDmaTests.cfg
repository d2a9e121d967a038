\* tb_dma_master.py: test_dma_basic_transfer (data order, burst accounting)
\* and test_dma_fifo_backpressure (silence while fifo_used is near full,
\* reads again after release), each with every Timer/edge race
CONSTANTS
    Tests <- MCTests
    ResetEdges = 2
    SettleEdges = 2
    TargetWords = 6
    TimeoutEdges = 12
    RunEdges = 3
    HoldEdges = 4
    ObserveEdges = 8
    ReleaseEdges = 2
    NearFull = 3
    MemBytes <- MCMemBytes
    LatMin = 2
    LatMax = 4
    Missing <- MCMissing
    X = X
    Burst = 2
    FrameWords = 16
    MaxPending = 6
    FullThreshold = 3
    StartAddr = 0
SPECIFICATION Spec
INVARIANT TypeOK
INVARIANT BeatAccounting
INVARIANT NoDataMismatch
PROPERTY AllTestsPass
PROPERTY ResponderRefinement
CHECK_DEADLOCK FALSE
