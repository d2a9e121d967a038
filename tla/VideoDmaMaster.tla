--------------------------- MODULE VideoDmaMaster ---------------------------
(***************************************************************************)
(* The device under test of tb_dma_master.py: the video DMA bus master     *)
(* (RTL/video_dma_master.v, which is not among the sources).  Its          *)
(* behaviour is taken from the contract the testbenches and the spec give  *)
(* it (spec 4.3): Idle -> Busy on a start pulse, or on a frame-sync edge   *)
(* in continuous mode; while Busy it issues Avalon burst reads of Burst    *)
(* words at consecutive addresses unless the downstream FIFO occupancy     *)
(* fifo_used has reached FullThreshold or MaxPending words are already     *)
(* requested and not returned; every readdatavalid beat becomes one FIFO   *)
(* write; Busy -> Idle once the frame's FrameWords words have arrived.     *)
(* All of it is one synchronous update per rising edge of clk.             *)
(***************************************************************************)
EXTENDS Naturals

CONSTANTS
    Burst,          \* words per read command (m_burstcount)
    FrameWords,     \* words per frame
    MaxPending,     \* words requested and not yet returned, at most
    FullThreshold,  \* fifo_used at or above which no read is issued
    StartAddr,      \* start_addr input, a byte address
    X               \* an undefined (X) register value

(* Burst and MaxPending may be given by state (the instantiating module    *)
(* checks Burst > 0, FrameWords % Burst = 0 and MaxPending >= Burst).      *)
ASSUME /\ FrameWords \in Nat /\ FullThreshold \in Nat /\ StartAddr \in Nat

VARIABLES
    dut,   \* registers and outputs: busy, read, address, burstcount, wr_en,
           \* wr_data (outputs); nextAddr, toRequest, pending (internal)
    tbIn,  \* inputs driven by the test: reset_n, dma_start, dma_cont_en,
           \* vsync_edge, fifo_used
    m_readdatavalid, m_readdata   \* inputs driven by the responder

ResetRegs == [busy |-> 0, read |-> 0, address |-> 0, burstcount |-> Burst,
              wr_en |-> 0, wr_data |-> 0, nextAddr |-> 0, toRequest |-> 0, pending |-> 0]

(* Registers before the first reset edge are X; the read strobe may power  *)
(* up 0, 1 or X.                                                           *)
PowerUp == { [f \in DOMAIN ResetRegs |-> IF f = "read" THEN r ELSE X] : r \in {0, 1, X} }

Triggered == tbIn.dma_start = 1 \/ (tbIn.dma_cont_en = 1 /\ tbIn.vsync_edge = 1)

(* A read command is issued at this edge: Busy, words of the frame left to *)
(* request, fifo_used below the threshold and room for one more burst     *)
(* among the words in flight (got is the beat arriving at this edge).     *)
IssueAllowed(got) ==
    /\ dut.busy = 1 /\ dut.toRequest > 0
    /\ tbIn.fifo_used < FullThreshold
    /\ dut.pending - got + Burst <= MaxPending

(* The register update at one rising edge of clk.                          *)
DmaEdge ==
    dut' = IF tbIn.reset_n = 0 THEN ResetRegs
           ELSE LET got   == IF m_readdatavalid = 1 THEN 1 ELSE 0
                    start == dut.busy = 0 /\ Triggered
                    issue == IssueAllowed(got)
                    pend  == dut.pending - got + (IF issue THEN Burst ELSE 0)
                    left  == dut.toRequest - (IF issue THEN Burst ELSE 0)
                IN [busy       |-> IF start THEN 1
                                   ELSE IF left = 0 /\ pend = 0 THEN 0 ELSE dut.busy,
                    read       |-> IF issue THEN 1 ELSE 0,
                    address    |-> IF issue THEN dut.nextAddr ELSE dut.address,
                    burstcount |-> Burst,
                    wr_en      |-> got,
                    wr_data    |-> IF got = 1 THEN m_readdata ELSE dut.wr_data,
                    nextAddr   |-> IF start THEN StartAddr
                                   ELSE IF issue THEN dut.nextAddr + 4 * Burst ELSE dut.nextAddr,
                    toRequest  |-> IF start THEN FrameWords ELSE left,
                    pending    |-> pend]

=============================================================================
