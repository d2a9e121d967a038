---------------------------- MODULE DmaTestbench ----------------------------
(***************************************************************************)
(* The cocotb testbench tb_dma_master.py: the clock, the DMA master, the   *)
(* AvalonMemory responder's two coroutines and one test coroutine, either  *)
(* test_dma_basic_transfer ("basic") then test_dma_fifo_backpressure       *)
(* ("backpressure"), run by cocotb one after the other in one simulation. *)
(* When a test returns, cocotb kills the coroutines it forked (its clock  *)
(* and responder); the next test starts a new clock and a new responder,  *)
(* drives its inputs and resets the DUT, whose registers keep what the    *)
(* test before left until the first reset edge.                           *)
(*                                                                         *)
(* A rising edge (Edge) updates the DUT's registers from the inputs as     *)
(* the coroutines left them, records the DUT's outputs as they were just   *)
(* before the edge (what a coroutine reads right after `await              *)
(* RisingEdge`), and resumes every coroutine awaiting that edge; they then *)
(* run one at a time, in any order, before the next edge.                  *)
(***************************************************************************)
EXTENDS Naturals, Sequences, SequencesExt

CONSTANTS
    Tests,         \* the tests of the file, in source order
    ResetEdges,    \* Timer(50 ns) at a 10 ns clock: edges with reset_n = 0
    SettleEdges,   \* basic: Timer(50 ns) after reset
    TargetWords,   \* basic: `while expected_count < 512`
    TimeoutEdges,  \* basic: `if timeout_counter > 10000`
    RunEdges,      \* backpressure: Timer(500 ns) before fifo_used := 450
    HoldEdges,     \* backpressure: Timer(2000 ns) before the silent window
    ObserveEdges,  \* backpressure: `for _ in range(200)`, both windows
    ReleaseEdges,  \* backpressure: Timer(500 ns) after fifo_used := 0
    NearFull,      \* backpressure: the 450 written to fifo_used
    MemBytes, LatMin, LatMax, Missing, X,
    Burst, FrameWords, MaxPending, FullThreshold, StartAddr

ASSUME /\ Tests \in Seq({"basic", "backpressure"}) /\ Tests # <<>>
       /\ Burst \in Nat \ {0} /\ FrameWords % Burst = 0 /\ MaxPending >= Burst

VARIABLES reqQueue, drv, m_readdatavalid, m_readdata, seen, awake, dut, tbIn, test,
          Test,    \* the test coroutine running: "basic" or "backpressure"
          results, \* the verdicts of the tests that have returned
          resetDone  \* the DUT has sampled reset_n = 0 since this test started

vars == <<reqQueue, drv, m_readdatavalid, m_readdata, seen, awake, dut, tbIn, test, Test,
          results, resetDone>>

Resp == INSTANCE AvalonMemory
Dma  == INSTANCE VideoDmaMaster

(* Where the test coroutine is suspended.  Timer(n) waits are counted in   *)
(* clock edges (left).                                                     *)
TimerStates == {"reset", "settle", "run", "hold", "release"}
LoopStates  == {"start", "monitor", "silent", "resume"}
Verdicts    == {"running", "pass", "mismatch", "timeout", "read_in_backpressure", "no_resume"}

-----------------------------------------------------------------------------
(* The clock: a rising edge happens once every coroutine resumed by the    *)
(* previous one has run and the driver is not about to leave its get().   *)
Edge ==
    /\ awake = {}
    /\ ~ENABLED Resp!DriverGet
    /\ test.verdict = "running"
    /\ seen' = dut
    /\ Dma!DmaEdge
    /\ awake' = Resp!EdgeWaiters \cup {"test"}
    /\ resetDone' = (resetDone \/ tbIn.reset_n = 0)
    /\ UNCHANGED <<reqQueue, drv, m_readdatavalid, m_readdata, tbIn, test, Test, results>>

(* The test coroutine's step after an edge it awaited.                     *)
TestStep(t, in) ==
    /\ "test" \in awake
    /\ awake' = awake \ {"test"}
    /\ test' = t
    /\ tbIn' = in
    /\ UNCHANGED <<reqQueue, drv, m_readdatavalid, m_readdata, seen, dut, Test, results, resetDone>>

(* Timer(n) ends at a multiple of the 10 ns period, in the time step of   *)
(* an edge: the write that follows reaches the DUT at that edge (the     *)
(* Timer fired first, left = 2) or at the next one (left = 1).            *)
TimerEnds == test.left \in {1, 2}

(* An edge inside Timer(n) that does not end it.                           *)
TimerTick ==
    /\ test.pc \in TimerStates /\ test.left > 1
    /\ TestStep([test EXCEPT !.left = @ - 1], tbIn)

(* test_dma_basic_transfer: reset_n := 1 after Timer(50), dma_start := 1   *)
(* after the next Timer(50), dma_start := 0 after one edge.                *)
BasicResetDone ==
    /\ Test = "basic" /\ test.pc = "reset" /\ TimerEnds
    /\ TestStep([test EXCEPT !.pc = "settle", !.left = SettleEdges], [tbIn EXCEPT !.reset_n = 1])

BasicSettleDone ==
    /\ test.pc = "settle" /\ TimerEnds
    /\ TestStep([test EXCEPT !.pc = "start", !.left = 0], [tbIn EXCEPT !.dma_start = 1])

StartEdge ==
    /\ test.pc = "start"
    /\ TestStep([test EXCEPT !.pc = IF Test = "basic" THEN "monitor" ELSE "run",
                             !.left = IF Test = "basic" THEN 0 ELSE RunEdges],
                [tbIn EXCEPT !.dma_start = 0])

(* The monitor loop: a FIFO write whose data is not expected_count raises  *)
(* AssertionError; a write resets timeout_counter; the counter passing     *)
(* TimeoutEdges raises TimeoutError; expected_count reaching TargetWords   *)
(* ends the test.                                                          *)
MonitorWrite ==
    /\ test.pc = "monitor" /\ seen.wr_en = 1
    /\ TestStep(IF seen.wr_data # test.expected
                THEN [test EXCEPT !.verdict = "mismatch"]
                ELSE [test EXCEPT !.expected = @ + 1, !.timeout = 1,
                                  !.verdict = IF test.expected + 1 < TargetWords
                                              THEN "running" ELSE "pass"],
                tbIn)

MonitorIdle ==
    /\ test.pc = "monitor" /\ seen.wr_en # 1
    /\ TestStep([test EXCEPT !.timeout = @ + 1,
                             !.verdict = IF test.timeout + 1 > TimeoutEdges
                                         THEN "timeout" ELSE "running"], tbIn)

(* test_dma_fifo_backpressure: reset_n := 1 and dma_start := 1 together;  *)
(* fifo_used := NearFull after Timer(500); Timer(2000); 200 edges counting *)
(* m_read; fifo_used := 0; Timer(500); 200 more edges counting m_read.     *)
BpResetDone ==
    /\ Test = "backpressure" /\ test.pc = "reset" /\ TimerEnds
    /\ TestStep([test EXCEPT !.pc = "start", !.left = 0],
                [tbIn EXCEPT !.reset_n = 1, !.dma_start = 1])

BpRunDone ==
    /\ test.pc = "run" /\ TimerEnds
    /\ TestStep([test EXCEPT !.pc = "hold", !.left = HoldEdges], [tbIn EXCEPT !.fifo_used = NearFull])

BpHoldDone ==
    /\ test.pc = "hold" /\ TimerEnds
    /\ TestStep([test EXCEPT !.pc = "silent", !.left = ObserveEdges, !.reads = 0], tbIn)

BpReleaseDone ==
    /\ test.pc = "release" /\ TimerEnds
    /\ TestStep([test EXCEPT !.pc = "resume", !.left = ObserveEdges, !.reads = 0], tbIn)

(* One edge of a counting window; after the last one the assert.          *)
CountRead ==
    /\ test.pc \in {"silent", "resume"}
    /\ LET reads == test.reads + (IF seen.read = 1 THEN 1 ELSE 0)
       IN \/ /\ test.left > 1
             /\ TestStep([test EXCEPT !.left = @ - 1, !.reads = reads], tbIn)
          \/ /\ test.left = 1 /\ test.pc = "silent"
             /\ TestStep([test EXCEPT !.reads = reads, !.left = ReleaseEdges, !.pc = "release",
                                      !.verdict = IF reads = 0 THEN "running" ELSE "read_in_backpressure"],
                         [tbIn EXCEPT !.fifo_used = 0])
          \/ /\ test.left = 1 /\ test.pc = "resume"
             /\ TestStep([test EXCEPT !.reads = reads, !.left = 0,
                                      !.verdict = IF reads > 0 THEN "pass" ELSE "no_resume"], tbIn)

TestNext ==
    \/ TimerTick \/ BasicResetDone \/ BasicSettleDone \/ StartEdge
    \/ MonitorWrite \/ MonitorIdle
    \/ BpResetDone \/ BpRunDone \/ BpHoldDone \/ BpReleaseDone \/ CountRead

-----------------------------------------------------------------------------
(* The start of a test: every input 0 with reset_n = 0, a new             *)
(* AvalonMemory whose run() drives its outputs to 0 and forks its driver, *)
(* then the first Timer.                                                   *)
InputsAtStart == [reset_n |-> 0, dma_start |-> 0, dma_cont_en |-> 0, vsync_edge |-> 0, fifo_used |-> 0]

TestAtStart == [pc |-> "reset", left |-> ResetEdges, expected |-> 0, timeout |-> 0,
                reads |-> 0, verdict |-> "running"]

Init ==
    /\ Test = Tests[1] /\ results = <<>> /\ resetDone = FALSE
    /\ dut \in Dma!PowerUp
    /\ seen = dut
    /\ Resp!MemInit
    /\ awake = {} /\ tbIn = InputsAtStart /\ test = TestAtStart

(* A test has returned or raised: cocotb records its verdict, kills the   *)
(* clock and responder coroutines it forked, whether or not they have run *)
(* after the last edge, and starts the next test.  The DUT keeps its      *)
(* registers.                                                              *)
NextTest ==
    /\ test.verdict # "running"
    /\ Len(results) + 1 < Len(Tests)
    /\ results' = Append(results, test.verdict)
    /\ Test' = Tests[Len(results) + 2]
    /\ reqQueue' = <<>>
    /\ drv' = [pc |-> "get", addr |-> 0, burst |-> 0, left |-> 0, i |-> 0]
    /\ m_readdatavalid' = 0 /\ m_readdata' = 0
    /\ awake' = {} /\ tbIn' = InputsAtStart /\ test' = TestAtStart
    /\ resetDone' = FALSE
    /\ UNCHANGED <<seen, dut>>

(* Once the test coroutine returns, cocotb ends the simulation: Edge is    *)
(* disabled and the system stops.                                          *)
Next ==
    \/ Edge
    \/ Resp!MemNext /\ UNCHANGED <<seen, dut, tbIn, test, Test, results, resetDone>>
    \/ NextTest
    \/ TestNext

(* The clock coroutine never stops and cocotb resumes every coroutine      *)
(* whose trigger has fired, so no enabled step is postponed forever.       *)
Spec == Init /\ [][Next]_vars /\ WF_vars(Next)

-----------------------------------------------------------------------------
TypeOK ==
    /\ reqQueue \in Seq([addr : Nat, burst : Nat])
    /\ drv.pc \in Resp!DriverStates /\ drv.i <= drv.burst
    /\ m_readdatavalid \in {0, 1}
    /\ awake \subseteq {"sampler", "driver", "test"}
    /\ test.pc \in TimerStates \cup LoopStates
    /\ test.verdict \in Verdicts

(* Words the responder still owes the master: the command on the wire,     *)
(* the command the sampler has seen and not yet enqueued, the queued       *)
(* bursts, the current burst's undriven beats, and a driven beat the       *)
(* master has not yet taken.                                               *)
Owed ==
    (IF dut.read = 1 THEN dut.burstcount ELSE 0)
  + (IF "sampler" \in awake /\ Resp!Accepted(seen) /\ Resp!Defined(seen) THEN seen.burstcount ELSE 0)
  + FoldLeft(LAMBDA acc, r : acc + r.burst, 0, reqQueue)
  + (IF drv.pc = "get" THEN 0 ELSE drv.burst - drv.i)
  + (IF m_readdatavalid = 1 /\ "driver" \notin awake THEN 1 ELSE 0)

(* Every word the DMA master requested is answered by exactly one          *)
(* readdatavalid beat: the sampler neither drops nor duplicates a command, *)
(* and response_driver sends burst beats per request, whatever the         *)
(* latencies drawn and whatever order the coroutines run in after an edge. *)
BeatAccounting == resetDone => dut.pending = Owed

(* The assertion of test_dma_basic_transfer never fails: the words the DMA *)
(* writes to its FIFO are 0, 1, 2, ... in order, i.e. the responder        *)
(* answers requests in FIFO order with mem[addr + 4*i] for each beat.      *)
NoDataMismatch == test.verdict # "mismatch"

(* The words a request asks for, in beat order: mem.get(addr + i*4).     *)
BurstWords(r) == [k \in 1..r.burst |-> Resp!Mem(r.addr + (k - 1) * 4)]

(* The words the responder has accepted and not yet driven: the rest of   *)
(* the burst response_driver is serving, then the queued requests.        *)
Unserved ==
    (IF drv.pc \in {"latency", "beat"} THEN SubSeq(BurstWords(drv), drv.i + 1, drv.burst)
     ELSE <<>>)
    \o FoldLeft(LAMBDA acc, r : acc \o BurstWords(r), <<>>, reqQueue)

Slave == INSTANCE AvalonSlave
         WITH Word <- LAMBDA a : Resp!Mem(a),
              Addrs <- {StartAddr + 4 * k : k \in 0..FrameWords},
              Bursts <- 1..MaxPending,
              session <- Len(results), owed <- Unserved, valid <- m_readdatavalid, data <- m_readdata

(* AvalonMemory implements the abstract read slave: each command the      *)
(* sampler enqueues owes its burst words, and every readdatavalid beat    *)
(* the driver raises carries the oldest word owed, whatever the latency   *)
(* drawn and the resume order of run() and response_driver().             *)
ResponderRefinement == Slave!Spec

(* Both tests end with a pass, in one simulation, for every latency        *)
(* randint can draw: the basic transfer never times out, and after it the *)
(* DMA is silent while fifo_used is near full and issues reads again      *)
(* after it is released.                                                   *)
AllTestsPass ==
    <>(/\ Len(results) + 1 = Len(Tests) /\ test.verdict = "pass"
       /\ \A k \in 1..Len(results) : results[k] = "pass")

=============================================================================
