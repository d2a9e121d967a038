\* tb_hdmi_sync_gen.py and tb_video_pipeline.py, each in its own simulation
CONSTANTS
    X = X
    Sims <- MCSims
    ResetEdges = 5
    PollIterations = 20
    Burst = 64
    FrameWords = 518400
    MaxPending = 128
    FullThreshold = 450
    StartAddr = 0
SPECIFICATION Spec
INVARIANT TypeOK
PROPERTY AllTestsPass
CHECK_DEADLOCK FALSE
