------------------------- MODULE DmaControlTestbench -------------------------
(***************************************************************************)
(* src/tests/cocotb/tb_video_dma_master.py: test_dma_single_frame and     *)
(* test_dma_continuous_mode, run by cocotb one after the other in one     *)
(* simulation, against the DMA master (VideoDmaMaster).  The only         *)
(* coroutine besides the clock is the test, which awaits every edge it    *)
(* counts, so each of its steps is one action together with the edge.    *)
(* Reads right after `await RisingEdge` see the value from before the     *)
(* edge.  In test_dma_single_frame the test itself answers the bus: after *)
(* each edge it raises m_readdatavalid for one edge if m_read was 1.      *)
(*                                                                         *)
(* The RTL is not among the sources, so its burst length and its limit on *)
(* words in flight are constants each configuration chooses.              *)
(***************************************************************************)
EXTENDS Integers, Sequences

CONSTANTS
    X,
    Tests,         \* "single_frame", "continuous", in source order
    Burst, MaxPending,   \* of the DMA master
    TimerEdges,    \* reset_dut: Timer(100 ns) at a 20 ns clock
    LoopEdges,     \* test_dma_single_frame: for _ in range(100)
    FrameWords, FullThreshold, StartAddr

VARIABLES
    dut, tbIn, m_readdatavalid, m_readdata,   \* the DMA master and its inputs
    pc,        \* where the test coroutine waits
    cnt,       \* edges left of a Timer or of the loop
    verdict,   \* "running", "pass" or "fail"
    cur,       \* the index in Tests of the running test
    results,   \* the verdicts of the tests that have ended
    owed       \* words the DMA master requested since its reset, not yet received

vars == <<dut, tbIn, m_readdatavalid, m_readdata, pc, cnt, verdict, cur, results, owed>>

Dma == INSTANCE VideoDmaMaster

ASSUME /\ Tests \in Seq({"single_frame", "continuous"}) /\ Tests # <<>>
       /\ Burst > 0 /\ FrameWords % Burst = 0 /\ MaxPending >= Burst
       /\ TimerEdges > 1 /\ LoopEdges > 0

Test == Tests[cur]

Pcs == {"rst_low", "rst_high", "sf_arm", "sf_start", "sf_busy", "sf_loop",
        "ct_vsync", "ct_check", "ended", "done"}

Finish(ok) ==
    /\ verdict' = IF ok THEN "pass" ELSE "fail"
    /\ pc' = "ended"

-----------------------------------------------------------------------------
(* Timer(100) expires in the time step of an edge: whatever the test      *)
(* writes next reaches the DUT at that edge (the Timer fired first, cnt = *)
(* 2) or at the one after (the edge came first, cnt = 1).                  *)
TimerExpires == cnt \in {1, 2}

(* Mutant: the Timer may run out one period early.                        *)
TimerTickUnguarded ==
    /\ pc \in {"rst_low", "rst_high"}
    /\ cnt' = cnt - 1
    /\ UNCHANGED <<tbIn, m_readdatavalid, m_readdata, pc, verdict>>

(* One more clock period of a Timer.                                       *)
TimerTick ==
    /\ pc \in {"rst_low", "rst_high"} /\ cnt > 1
    /\ cnt' = cnt - 1
    /\ UNCHANGED <<tbIn, m_readdatavalid, m_readdata, pc, verdict>>

(* reset_dut: reset_n = 1, then the second Timer(100).                     *)
ResetRelease ==
    /\ pc = "rst_low" /\ TimerExpires
    /\ tbIn' = [tbIn EXCEPT !.reset_n = 1]
    /\ pc' = "rst_high" /\ cnt' = TimerEdges
    /\ UNCHANGED <<m_readdatavalid, m_readdata, verdict>>

(* test_dma_single_frame, after reset_dut: all inputs 0, m_waitrequest 0  *)
(* (kept so throughout), then await RisingEdge.                           *)
SingleSetup ==
    /\ Test = "single_frame" /\ pc = "rst_high" /\ TimerExpires
    /\ tbIn' = [tbIn EXCEPT !.dma_start = 0, !.dma_cont_en = 0, !.vsync_edge = 0,
                            !.fifo_used = 0]
    /\ m_readdatavalid' = 0 /\ m_readdata' = 0
    /\ pc' = "sf_arm"
    /\ UNCHANGED <<cnt, verdict>>

(* dma_start = 1; await RisingEdge                                         *)
SingleArm ==
    /\ pc = "sf_arm"
    /\ tbIn' = [tbIn EXCEPT !.dma_start = 1] /\ pc' = "sf_start"
    /\ UNCHANGED <<m_readdatavalid, m_readdata, cnt, verdict>>

(* Mutant: busy is asserted right after the edge that samples the pulse.  *)
SingleStartNoWait ==
    /\ pc = "sf_start"
    /\ tbIn' = [tbIn EXCEPT !.dma_start = 0]
    /\ IF dut.busy = 1 THEN pc' = "sf_loop" /\ cnt' = LoopEdges /\ UNCHANGED verdict
       ELSE Finish(FALSE) /\ UNCHANGED cnt
    /\ UNCHANGED <<m_readdatavalid, m_readdata>>

(* dma_start = 0; await RisingEdge                                         *)
SingleStart ==
    /\ pc = "sf_start"
    /\ tbIn' = [tbIn EXCEPT !.dma_start = 0] /\ pc' = "sf_busy"
    /\ UNCHANGED <<m_readdatavalid, m_readdata, cnt, verdict>>

(* assert busy == 1; the loop begins.                                      *)
SingleBusy ==
    /\ pc = "sf_busy"
    /\ IF dut.busy = 1 THEN pc' = "sf_loop" /\ cnt' = LoopEdges /\ UNCHANGED verdict
       ELSE Finish(FALSE) /\ UNCHANGED cnt
    /\ UNCHANGED <<tbIn, m_readdatavalid, m_readdata>>

(* Mutant: the else branch is missing and valid stays high.              *)
SingleLoopNoClear ==
    /\ pc = "sf_loop"
    /\ m_readdatavalid' = IF dut.read = 1 THEN 1 ELSE m_readdatavalid
    /\ IF cnt > 1 THEN cnt' = cnt - 1 /\ UNCHANGED <<pc, verdict>>
       ELSE Finish(dut.busy = 1) /\ UNCHANGED cnt
    /\ UNCHANGED <<tbIn, m_readdata>>

(* One iteration of `for _ in range(100)`: m_readdatavalid = 1 if m_read  *)
(* was 1 else 0; after the last, assert busy == 1 (still the value from  *)
(* before that edge).                                                      *)
SingleLoop ==
    /\ pc = "sf_loop"
    /\ m_readdatavalid' = IF dut.read = 1 THEN 1 ELSE 0
    /\ IF cnt > 1 THEN cnt' = cnt - 1 /\ UNCHANGED <<pc, verdict>>
       ELSE Finish(dut.busy = 1) /\ UNCHANGED cnt
    /\ UNCHANGED <<tbIn, m_readdata>>

(* test_dma_continuous_mode, after reset_dut: dma_cont_en = 1,             *)
(* vsync_edge = 1; await RisingEdge                                        *)
ContSetup ==
    /\ Test = "continuous" /\ pc = "rst_high" /\ TimerExpires
    /\ tbIn' = [tbIn EXCEPT !.dma_start = 0, !.dma_cont_en = 1, !.vsync_edge = 1]
    /\ pc' = "ct_vsync"
    /\ UNCHANGED <<m_readdatavalid, m_readdata, cnt, verdict>>

(* vsync_edge = 0; await RisingEdge                                        *)
ContVsync ==
    /\ pc = "ct_vsync"
    /\ tbIn' = [tbIn EXCEPT !.vsync_edge = 0] /\ pc' = "ct_check"
    /\ UNCHANGED <<m_readdatavalid, m_readdata, cnt, verdict>>

(* assert busy == 1                                                        *)
ContCheck ==
    /\ pc = "ct_check"
    /\ Finish(dut.busy = 1)
    /\ UNCHANGED <<tbIn, m_readdatavalid, m_readdata, cnt>>

(* The test's step after an edge.                                          *)
TestStep ==
    \/ TimerTick \/ ResetRelease
    \/ SingleSetup \/ SingleArm \/ SingleStart \/ SingleBusy \/ SingleLoop
    \/ ContSetup \/ ContVsync \/ ContCheck

(* A rising edge of clk: the DMA master's update from the inputs as the   *)
(* test left them, then the test's step.  A command is accepted when      *)
(* m_read is 1 (m_waitrequest is 0) and a word taken when                 *)
(* m_readdatavalid is 1; a reset clears what the master expects.          *)
Edge ==
    /\ pc \notin {"ended", "done"}
    /\ Dma!DmaEdge
    /\ owed' = IF tbIn.reset_n = 0 THEN 0
               ELSE owed + (IF dut.read = 1 THEN Burst ELSE 0)
                         - (IF m_readdatavalid = 1 THEN 1 ELSE 0)
    /\ TestStep
    /\ UNCHANGED <<cur, results>>

(* The regression manager records the verdict and starts the next test,  *)
(* whose reset_dut drives reset_n = 0 at once; the DUT and the other      *)
(* inputs stay as the last test left them.                                 *)
NextTest ==
    /\ pc = "ended"
    /\ results' = Append(results, verdict)
    /\ IF cur < Len(Tests)
       THEN /\ cur' = cur + 1 /\ pc' = "rst_low" /\ cnt' = TimerEdges
            /\ verdict' = "running" /\ tbIn' = [tbIn EXCEPT !.reset_n = 0]
       ELSE /\ pc' = "done" /\ UNCHANGED <<cur, cnt, verdict, tbIn>>
    /\ UNCHANGED <<dut, m_readdatavalid, m_readdata, owed>>

(* Power-up: registers X, inputs never driven are X; the first reset_dut  *)
(* drives reset_n = 0 before the first edge.                               *)
Init ==
    /\ dut \in Dma!PowerUp
    /\ tbIn = [reset_n |-> 0, dma_start |-> X, dma_cont_en |-> X, vsync_edge |-> X,
               fifo_used |-> X]
    /\ m_readdatavalid = X /\ m_readdata = X
    /\ pc = "rst_low" /\ cnt = TimerEdges /\ verdict = "running"
    /\ cur = 1 /\ results = <<>>
    /\ owed = 0

(* The simulation ends after the last test.                                *)
Next == Edge \/ NextTest

(* The clock runs while a test does; cocotb starts the next test.          *)
Spec == Init /\ [][Next]_vars /\ WF_vars(Edge) /\ WF_vars(NextTest)

-----------------------------------------------------------------------------
TypeOK ==
    /\ {tbIn.reset_n, m_readdatavalid} \subseteq {0, 1, X}
    /\ pc \in Pcs /\ cnt \in 1..(IF TimerEdges > LoopEdges THEN TimerEdges ELSE LoopEdges)
    /\ verdict \in {"running", "pass", "fail"}
    /\ results \in Seq({"pass", "fail"})
    /\ owed \in Int

(* Both tests of tb_video_dma_master.py pass in one simulation: every     *)
(* busy assertion, each read one edge after the edge it is about, holds   *)
(* whatever the Timer/edge race in reset_dut.                              *)
AllTestsPass ==
    <>(pc = "done" /\ \A k \in 1..Len(results) : results[k] = "pass")

(* The DMA master never takes a data beat it did not request: the words   *)
(* it has received since its reset never exceed the bursts it issued.     *)
(* About the inline responder of test_dma_single_frame and the            *)
(* m_readdatavalid level it leaves behind for the next test.              *)
NoUnrequestedBeat == owed >= 0

=============================================================================
