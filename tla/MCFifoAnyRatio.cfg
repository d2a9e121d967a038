\* tb_fifo.py's three tests in one simulation, against a FIFO of 8 words,
\* with clocks of any frequency ratio from 1:4 to 4:1 (7 + 1 + 8 words
\* written, so both pointers wrap once).
CONSTANTS
    AddrWidth = 3
    X = X
    Tests <- MCTests
    Items = 7
    StartEdges <- MCStartEdges
    GapEdges = 5
    MaxWrPerRd <- MCAnyRatio
    MaxRdPerWr <- MCAnyRatio
SPECIFICATION Spec
INVARIANT TypeOK
PROPERTIES AllTestsPass FifoRefinement
CHECK_DEADLOCK FALSE
