---------------------------- MODULE RegisterTests ----------------------------
(***************************************************************************)
(* The register tests, two simulations of their own, Init choosing which: *)
(*  "sync_gen": tb_hdmi_sync_gen.py, test_dma_control_registers and       *)
(*    test_mode_out_connection in one simulation, against the register    *)
(*    slave alone on one clock (clk, 13.468 ns);                          *)
(*  "pipeline": tb_video_pipeline.py, test_pipeline_dma_control, against  *)
(*    the pipeline: the register slave on clk_hdmi (13.468 ns), the DMA   *)
(*    master (VideoDmaMaster) on clk_50 (20 ns), the start command and    *)
(*    the control bit crossing into clk_50, busy crossing back.  Nothing  *)
(*    answers the DMA's bus reads (m_readdatavalid is never driven).      *)
(* The test coroutine awaits every edge it counts on the pixel clock, so  *)
(* each of its steps is one action with that edge; reads right after     *)
(* `await RisingEdge` see the value before the edge.  The two clocks      *)
(* interleave as their periods allow: at most two pixel-clock edges       *)
(* between two 50 MHz edges and at most one 50 MHz edge between two pixel *)
(* clock edges.                                                            *)
(***************************************************************************)
EXTENDS Integers, Sequences

CONSTANTS
    X,
    Sims,           \* the simulations: "sync_gen", "pipeline"
    ResetEdges,     \* reset_dut(50) in pixel-clock edges; reset_pipeline(100) in 50 MHz edges
    PollIterations, \* test_pipeline_dma_control: for _ in range(20)
    Burst, FrameWords, MaxPending, FullThreshold, StartAddr

VARIABLES
    sim,      \* the simulation running
    regs,     \* the register slave (CtrlRegs)
    sync,     \* the 50 MHz synchroniser flops
    dma,      \* the DMA master's registers
    bus,      \* slave inputs the test drives: address, writedata, write, read
    reset_n,
    pc, cnt, verdict, cur, results,
    hSince    \* pixel-clock edges since the last 50 MHz edge

vars == <<sim, regs, sync, dma, bus, reset_n, pc, cnt, verdict, cur, results, hSince>>

R == INSTANCE CtrlRegs

(* The DMA master's inputs as the pipeline wires them: the start pulse    *)
(* and bit 1 from the synchronisers, no FIFO occupancy, no frame sync.    *)
DmaIn == [reset_n |-> reset_n, dma_start |-> R!DmaStartPulse(sync),
          dma_cont_en |-> sync.c2, vsync_edge |-> 0, fifo_used |-> 0]

Dma == INSTANCE VideoDmaMaster WITH dut <- dma, tbIn <- DmaIn,
                                    m_readdatavalid <- X, m_readdata <- X

ASSUME /\ Sims \subseteq {"sync_gen", "pipeline"} /\ ResetEdges > 1 /\ PollIterations > 0

TestsOf == [s \in {"sync_gen", "pipeline"} |->
              IF s = "sync_gen" THEN <<"control_registers", "mode_out">> ELSE <<"pipeline">>]

Test == TestsOf[sim][cur]

Finish(ok) ==
    /\ verdict' = IF ok THEN "pass" ELSE "fail"
    /\ pc' = "ended"

Write(addr, data) == bus' = [address |-> addr, writedata |-> data, write |-> 1, read |-> 0]

Read(addr) == bus' = [bus EXCEPT !.address = addr, !.read = 1]

Busy31(rd) == rd.busy = 1   \* int(s_readdata) & (1 << 31)

-----------------------------------------------------------------------------
(* A Timer of reset_dut / reset_pipeline ends in the time step of an edge *)
(* of the clock it is counted in, or of the one after.                     *)
TimerExpires == cnt \in {1, 2}

(* Mutant: the Timer may run out one period early.                        *)
TimerTickUnguarded ==
    /\ pc \in {"rst_low", "rst_high"}
    /\ cnt' = cnt - 1
    /\ UNCHANGED <<bus, reset_n, pc, verdict>>

(* One more clock period of a Timer.                                       *)
TimerTick ==
    /\ pc \in {"rst_low", "rst_high"} /\ cnt > 1
    /\ cnt' = cnt - 1
    /\ UNCHANGED <<bus, reset_n, pc, verdict>>

ResetRelease ==
    /\ pc = "rst_low" /\ TimerExpires
    /\ reset_n' = 1 /\ pc' = "rst_high" /\ cnt' = ResetEdges
    /\ UNCHANGED <<bus, verdict>>


(* test_dma_control_registers: await RisingEdge after reset, then         *)
(* assert dma_enable_out == 0; write 0x02 to address 1.                   *)
CtrlFirstEdge ==
    /\ Test = "control_registers" /\ pc = "rst_high" /\ TimerExpires
    /\ pc' = "cr_default"
    /\ UNCHANGED <<bus, reset_n, cnt, verdict>>

CtrlDefault ==
    /\ pc = "cr_default"
    /\ IF R!DmaEnableOut(regs) = 0 THEN Write(1, 2) /\ pc' = "cr_en_w" /\ UNCHANGED verdict
       ELSE Finish(FALSE) /\ UNCHANGED bus
    /\ UNCHANGED <<reset_n, cnt>>

(* avs_write = 0 after the write edge; the next edge; the assert.          *)
WriteDone ==
    /\ pc \in {"cr_en_w", "cr_dis_w", "mo_w"}
    /\ bus' = [bus EXCEPT !.write = 0]
    /\ pc' = CASE pc = "cr_en_w" -> "cr_en_x" [] pc = "cr_dis_w" -> "cr_dis_x" [] OTHER -> "mo_x"
    /\ UNCHANGED <<reset_n, cnt, verdict>>

CtrlEnabled ==
    /\ pc = "cr_en_x"
    /\ IF R!DmaEnableOut(regs) = 1 THEN Write(1, 1) /\ pc' = "cr_dis_w" /\ UNCHANGED verdict
       ELSE Finish(FALSE) /\ UNCHANGED bus
    /\ UNCHANGED <<reset_n, cnt>>

CtrlDisabled ==
    /\ pc = "cr_dis_x"
    /\ Finish(R!DmaEnableOut(regs) = 0)
    /\ UNCHANGED <<bus, reset_n, cnt>>

(* test_mode_out_connection: write 8 to address 0 right after reset_dut. *)
ModeWrite ==
    /\ Test = "mode_out" /\ pc = "rst_high" /\ TimerExpires
    /\ Write(0, 8) /\ pc' = "mo_w"
    /\ UNCHANGED <<reset_n, cnt, verdict>>

ModeCheck ==
    /\ pc = "mo_x"
    /\ Finish(R!RegModeOut(regs) = 8)
    /\ UNCHANGED <<bus, reset_n, cnt>>

(* test_pipeline_dma_control: write 8 to address 0 after reset_pipeline,  *)
(* whose Timers end at 50 MHz edges.                                       *)
PipeModeWrite ==
    /\ Test = "pipeline" /\ pc = "rst_high" /\ TimerExpires
    /\ Write(0, 8) /\ pc' = "pl_mode"
    /\ UNCHANGED <<reset_n, cnt, verdict>>

(* s_write = 0; s_address = 1, s_read = 1; two edges.                     *)
PipeModeDone ==
    /\ pc = "pl_mode"
    /\ bus' = [bus EXCEPT !.write = 0, !.address = 1, !.read = 1]
    /\ pc' = "pl_rd0a"
    /\ UNCHANGED <<reset_n, cnt, verdict>>

PipeReadWait ==
    /\ pc \in {"pl_rd0a", "pl_polla"}
    /\ pc' = IF pc = "pl_rd0a" THEN "pl_rd0b" ELSE "pl_pollb"
    /\ UNCHANGED <<bus, reset_n, cnt, verdict>>

(* assert not busy; s_read = 0; write 0x04 (start) to address 1.          *)
PipeIdleCheck ==
    /\ pc = "pl_rd0b"
    /\ IF ~Busy31(regs.rdata) THEN Write(1, 4) /\ pc' = "pl_start" /\ UNCHANGED verdict
       ELSE Finish(FALSE) /\ UNCHANGED bus
    /\ UNCHANGED <<reset_n, cnt>>

(* s_write = 0, then the poll loop's first s_address = 1, s_read = 1.     *)
PipeStartDone ==
    /\ pc = "pl_start"
    /\ bus' = [bus EXCEPT !.write = 0, !.address = 1, !.read = 1]
    /\ pc' = "pl_polla" /\ cnt' = PollIterations
    /\ UNCHANGED <<reset_n, verdict>>

(* The end of one poll iteration: break on bit 31, or the next iteration; *)
(* after the loop the assert, then the write of 0x02 (s_read stays 1).    *)
PipePoll ==
    /\ pc = "pl_pollb"
    /\ IF ~Busy31(regs.rdata) /\ cnt > 1
       THEN Read(1) /\ pc' = "pl_polla" /\ cnt' = cnt - 1 /\ UNCHANGED verdict
       ELSE IF Busy31(regs.rdata)
       THEN bus' = [bus EXCEPT !.address = 1, !.writedata = 2, !.write = 1]
            /\ pc' = "pl_cont" /\ UNCHANGED <<cnt, verdict>>
       ELSE Finish(FALSE) /\ UNCHANGED <<bus, cnt>>
    /\ UNCHANGED reset_n

(* s_write = 0; the test returns.                                          *)
PipeContDone ==
    /\ pc = "pl_cont"
    /\ bus' = [bus EXCEPT !.write = 0]
    /\ Finish(TRUE)
    /\ UNCHANGED <<reset_n, cnt>>

(* The test's step after a pixel-clock edge.                               *)
EdgeStep ==
    \/ CtrlFirstEdge \/ CtrlDefault \/ WriteDone \/ CtrlEnabled \/ CtrlDisabled
    \/ ModeWrite \/ ModeCheck
    \/ PipeModeDone \/ PipeReadWait \/ PipeIdleCheck \/ PipeStartDone
    \/ PipePoll \/ PipeContDone

(* No test step: the test is in a Timer counted in the other clock.       *)
NoStep == UNCHANGED <<bus, reset_n, pc, cnt, verdict>>

-----------------------------------------------------------------------------
Running == pc \notin {"ended", "done"}

(* A rising edge of the pixel clock: the slave's registers, then the      *)
(* test.  Its Timers count these edges in sync_gen.                        *)
HdmiEdge ==
    /\ Running
    /\ sim = "pipeline" => hSince < 2   \* 2 x 13.468 ns > 20 ns
    /\ regs' = R!RegsEdge(regs, reset_n, bus, IF sim = "pipeline" THEN dma.busy ELSE 0)
    /\ hSince' = IF sim = "pipeline" THEN hSince + 1 ELSE hSince
    /\ IF sim = "sync_gen" THEN TimerTick \/ ResetRelease \/ EdgeStep
       ELSE IF pc \in {"rst_low", "rst_high"} THEN NoStep ELSE EdgeStep
    /\ UNCHANGED <<sim, sync, dma, cur, results>>

(* A rising edge of clk_50 (pipeline only): the synchronisers, the DMA    *)
(* master, and the Timers of reset_pipeline.                               *)
Clk50Edge ==
    /\ Running /\ sim = "pipeline"
    /\ hSince > 0                        \* 20 ns > 13.468 ns
    /\ sync' = R!SyncEdge(sync, reset_n, regs)
    /\ Dma!DmaEdge
    /\ hSince' = 0
    /\ IF pc \in {"rst_low", "rst_high"} THEN TimerTick \/ ResetRelease \/ PipeModeWrite
       ELSE NoStep
    /\ UNCHANGED <<sim, regs, cur, results>>

(* cocotb records the verdict and starts the next test of the file,       *)
(* whose reset_dut drives reset_n = 0 at once.                             *)
NextTest ==
    /\ pc = "ended"
    /\ results' = Append(results, verdict)
    /\ IF cur < Len(TestsOf[sim])
       THEN /\ cur' = cur + 1 /\ pc' = "rst_low" /\ cnt' = ResetEdges
            /\ verdict' = "running" /\ reset_n' = 0
       ELSE /\ pc' = "done" /\ UNCHANGED <<cur, cnt, verdict, reset_n>>
    /\ UNCHANGED <<sim, regs, sync, dma, bus, hSince>>

Init ==
    /\ sim \in Sims
    /\ regs = R!RegsPowerUp /\ sync = R!SyncPowerUp /\ dma \in Dma!PowerUp
    /\ bus = [address |-> X, writedata |-> X, write |-> X, read |-> X]
    /\ reset_n = 0
    /\ pc = "rst_low" /\ cnt = ResetEdges /\ verdict = "running"
    /\ cur = 1 /\ results = <<>>
    /\ hSince = 1   \* both clocks rise at time 0

Next == HdmiEdge \/ Clk50Edge \/ NextTest

(* Both clocks run while a test does; cocotb starts the next test.         *)
Spec == Init /\ [][Next]_vars /\ WF_vars(HdmiEdge) /\ WF_vars(Clk50Edge) /\ WF_vars(NextTest)

-----------------------------------------------------------------------------
TypeOK ==
    /\ sim \in Sims /\ reset_n \in {0, 1}
    /\ bus.write \in {0, 1, X} /\ bus.read \in {0, 1, X}
    /\ verdict \in {"running", "pass", "fail"}
    /\ cnt \in 1..(IF ResetEdges > PollIterations THEN ResetEdges ELSE PollIterations)
    /\ hSince \in 0..2

(* Every test of the simulation passes: the register writes reach their   *)
(* outputs one edge later, and in the pipeline the start command crosses  *)
(* into clk_50 and busy crosses back within the 20 two-edge reads of the  *)
(* poll loop, whatever the phase of the two clocks.                        *)
AllTestsPass ==
    <>(pc = "done" /\ \A k \in 1..Len(results) : results[k] = "pass")


=============================================================================
