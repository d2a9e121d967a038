--------------------------- MODULE DcFifoTestbench ---------------------------
(***************************************************************************)
(* The FIFO validator, src/tests/cocotb/tb_fifo.py, composed with the      *)
(* dual-clock FIFO it drives (DcFifo).  cocotb runs the file's tests one   *)
(* after the other (Tests, in source order) in one simulation; the FIFO    *)
(* has no reset input, so its registers carry over from test to test.     *)
(* Each test starts its own two clocks, which end with it.  They are       *)
(* free-running and not phase-locked: any interleaving of their rising     *)
(* edges may happen, within the ratio of the periods the test gives them   *)
(* (at most MaxWrPerRd write edges between two read edges, at most         *)
(* MaxRdPerWr read edges between two write edges), and they may rise in    *)
(* the same time step (BothEdges).  The test coroutine is the only one     *)
(* that drives the FIFO's inputs; its step after the edge it awaits is one *)
(* action with that edge.  A value read right after `await RisingEdge` is  *)
(* the one from before the edge (fifo); one read after `await ReadOnly()`  *)
(* is the one after it (fifo').  Timer(n ns) is counted in edges of the    *)
(* 10 ns write clock.                                                      *)
(***************************************************************************)
EXTENDS Naturals, Sequences

CONSTANTS
    AddrWidth, X,
    Tests,         \* the tests run, in order: "basic", "flags", "overflow"
    Items,         \* test_fifo_basic: for i in range(10)
    StartEdges,    \* per test, the first Timer: 50 ns or 100 ns
    GapEdges,      \* test_fifo_basic's Timer(50) between writing and reading
    MaxWrPerRd,    \* per test, from the clock periods it starts
    MaxRdPerWr

VARIABLES
    fifo,                  \* the FIFO's registers
    wrreq, rdreq, data,    \* the inputs the test drives
    pc,                    \* where the test coroutine waits
    cnt,                   \* edges left of a Timer or of a wait loop
    idx,                   \* the loop variable i
    verdict,               \* "running", then "pass" or "fail" (an assert)
    wSince, rSince,        \* write edges since the last read edge, and back
    cur,                   \* the index in Tests of the running test
    results                \* the verdicts of the tests that have ended

vars == <<fifo, wrreq, rdreq, data, pc, cnt, idx, verdict, wSince, rSince, cur, results>>
tbVars == <<wrreq, rdreq, data, pc, cnt, idx, verdict>>

F == INSTANCE DcFifo

Data == 0..255   \* the tests write i < 512, 0xAA and 0xFF; i is kept small

TestNames == {"basic", "flags", "overflow"}

ASSUME /\ Tests \in Seq(TestNames) /\ Tests # <<>>
       /\ Items \in 1..F!Depth - 1   \* test_fifo_basic never fills the FIFO
       /\ GapEdges \in Nat \ {0}
       /\ \A t \in TestNames : {StartEdges[t], MaxWrPerRd[t], MaxRdPerWr[t]} \subseteq Nat \ {0}

Test == Tests[cur]

(* for _ in range(5): await RisingEdge(dut.rdclk)                          *)
CdcWaitEdges == 5

WrWait == {"timer1", "write", "timer2", "fl_write", "ov_fill", "ov_gap", "ov_last", "ov_check"}
RdWait == {"rd_empty", "rd_req", "rd_data", "rd_exit", "fl_cdc", "fl_read", "fl_check"}

Finish(ok) ==
    /\ verdict' = IF ok THEN "pass" ELSE "fail"
    /\ pc' = "ended"

-----------------------------------------------------------------------------
(* Timer(n): one more write-clock period passes.                           *)
TimerTick ==
    /\ pc \in {"timer1", "timer2"} /\ cnt > 1
    /\ cnt' = cnt - 1
    /\ UNCHANGED <<wrreq, rdreq, data, pc, idx, verdict>>

(* test_fifo_basic, after the first Timer: data = 0; wrreq = 1.            *)
BasicStart ==
    /\ Test = "basic" /\ pc = "timer1" /\ cnt = 1
    /\ data' = 0 /\ wrreq' = 1 /\ idx' = 0 /\ pc' = "write"
    /\ UNCHANGED <<rdreq, cnt, verdict>>

(* for i in range(10): data = i; wrreq = 1; await RisingEdge(wrclk)        *)
BasicWriteNext ==
    /\ pc = "write" /\ idx + 1 < Items
    /\ idx' = idx + 1 /\ data' = idx + 1
    /\ UNCHANGED <<wrreq, rdreq, pc, cnt, verdict>>

(* wrreq = 0; await Timer(50)                                              *)
BasicWriteDone ==
    /\ pc = "write" /\ idx + 1 = Items
    /\ wrreq' = 0 /\ pc' = "timer2" /\ cnt' = GapEdges
    /\ UNCHANGED <<rdreq, data, idx, verdict>>

(* The head of the read loop, `while dut.rdempty.value`, with the flag as *)
(* read (f): wait a read edge, or rdreq = 1.                               *)
TryRead(f) ==
    IF F!RdEmpty(f) THEN pc' = "rd_empty" /\ UNCHANGED rdreq
    ELSE pc' = "rd_req" /\ rdreq' = 1

(* After the second Timer: the read loop starts with i = 0.                *)
BasicGapEnd ==
    /\ pc = "timer2" /\ cnt = 1
    /\ idx' = 0 /\ TryRead(fifo)
    /\ UNCHANGED <<wrreq, data, cnt, verdict>>

(* Mutant: q is read right after the request edge, without the extra edge *)
(* and ReadOnly.                                                           *)
RdRequestNoWait ==
    /\ pc = "rd_req"
    /\ rdreq' = 0
    /\ IF fifo.q = idx THEN pc' = "rd_exit" /\ UNCHANGED verdict ELSE Finish(FALSE)
    /\ UNCHANGED <<wrreq, data, cnt, idx>>

(* await RisingEdge(rdclk); rdreq = 0                                      *)
RdRequest ==
    /\ pc = "rd_req"
    /\ rdreq' = 0 /\ pc' = "rd_data"
    /\ UNCHANGED <<wrreq, data, cnt, idx, verdict>>

(* await RisingEdge(rdclk); await ReadOnly(); assert int(q) == i           *)
RdData ==
    /\ pc = "rd_data"
    /\ IF fifo'.q = idx THEN pc' = "rd_exit" /\ UNCHANGED verdict ELSE Finish(FALSE)
    /\ UNCHANGED <<wrreq, rdreq, data, cnt, idx>>

(* A read edge the read loop awaits: inside `while dut.rdempty.value`     *)
(* (rd_empty), or at the end of the loop body (rd_exit), after which the  *)
(* test returns or the next i begins.  Either way the while condition is *)
(* then evaluated on the flag from before the edge.                       *)
RdLoopHead ==
    /\ pc \in {"rd_empty", "rd_exit"}
    /\ IF pc = "rd_exit" /\ idx + 1 = Items
       THEN Finish(TRUE) /\ UNCHANGED <<rdreq, idx>>
       ELSE /\ idx' = IF pc = "rd_exit" THEN idx + 1 ELSE idx
            /\ TryRead(fifo) /\ UNCHANGED verdict
    /\ UNCHANGED <<wrreq, data, cnt>>

-----------------------------------------------------------------------------
(* test_fifo_flags, after Timer(100): assert rdempty == 1 and wrfull == 0; *)
(* then data = 0xAA; wrreq = 1.                                            *)
FlagsStart ==
    /\ Test = "flags" /\ pc = "timer1" /\ cnt = 1
    /\ IF F!RdEmpty(fifo) /\ ~F!WrFull(fifo)
       THEN data' = 170 /\ wrreq' = 1 /\ pc' = "fl_write" /\ UNCHANGED verdict
       ELSE Finish(FALSE) /\ UNCHANGED <<data, wrreq>>
    /\ UNCHANGED <<rdreq, cnt, idx>>

(* await RisingEdge(wrclk); wrreq = 0                                      *)
FlagsWrite ==
    /\ pc = "fl_write"
    /\ wrreq' = 0 /\ pc' = "fl_cdc" /\ cnt' = CdcWaitEdges
    /\ UNCHANGED <<rdreq, data, idx, verdict>>

(* for _ in range(5): await RisingEdge(rdclk)                              *)
FlagsCdcTick ==
    /\ pc = "fl_cdc" /\ cnt > 1
    /\ cnt' = cnt - 1
    /\ UNCHANGED <<wrreq, rdreq, data, pc, idx, verdict>>

(* assert rdempty == 0 (read right after the fifth edge); rdreq = 1.       *)
FlagsCdcDone ==
    /\ pc = "fl_cdc" /\ cnt = 1
    /\ IF ~F!RdEmpty(fifo)
       THEN rdreq' = 1 /\ pc' = "fl_read" /\ UNCHANGED verdict
       ELSE Finish(FALSE) /\ UNCHANGED rdreq
    /\ UNCHANGED <<wrreq, data, cnt, idx>>

(* await RisingEdge(rdclk); rdreq = 0                                      *)
FlagsRead ==
    /\ pc = "fl_read"
    /\ rdreq' = 0 /\ pc' = "fl_check"
    /\ UNCHANGED <<wrreq, data, cnt, idx, verdict>>

(* await RisingEdge(rdclk); await ReadOnly(); assert rdempty == 1          *)
FlagsCheck ==
    /\ pc = "fl_check"
    /\ Finish(F!RdEmpty(fifo'))
    /\ UNCHANGED <<wrreq, rdreq, data, cnt, idx>>

-----------------------------------------------------------------------------
(* test_fifo_overflow_protection, after Timer(100): the fill loop starts. *)
OverflowStart ==
    /\ Test = "overflow" /\ pc = "timer1" /\ cnt = 1
    /\ data' = 0 /\ wrreq' = 1 /\ idx' = 0 /\ pc' = "ov_fill"
    /\ UNCHANGED <<rdreq, cnt, verdict>>

(* for i in range(depth - 1): data = i; wrreq = 1; await RisingEdge(wrclk) *)
OverflowFillNext ==
    /\ pc = "ov_fill" /\ idx + 1 < F!Depth - 1
    /\ idx' = idx + 1 /\ data' = idx + 1
    /\ UNCHANGED <<wrreq, rdreq, pc, cnt, verdict>>

(* wrreq = 0; await RisingEdge(wrclk)                                      *)
OverflowFillDone ==
    /\ pc = "ov_fill" /\ idx + 1 = F!Depth - 1
    /\ wrreq' = 0 /\ pc' = "ov_gap"
    /\ UNCHANGED <<rdreq, data, cnt, idx, verdict>>

(* data = 0xFF; wrreq = 1; await RisingEdge(wrclk)                         *)
OverflowGap ==
    /\ pc = "ov_gap"
    /\ data' = 255 /\ wrreq' = 1 /\ pc' = "ov_last"
    /\ UNCHANGED <<rdreq, cnt, idx, verdict>>

(* wrreq = 0; await RisingEdge(wrclk)                                      *)
OverflowLast ==
    /\ pc = "ov_last"
    /\ wrreq' = 0 /\ pc' = "ov_check"
    /\ UNCHANGED <<rdreq, data, cnt, idx, verdict>>

(* await ReadOnly(); assert wrfull == 1; assert wrusedw == 511             *)
OverflowCheck ==
    /\ pc = "ov_check"
    /\ Finish(F!WrFull(fifo') /\ F!WrUsedW(fifo') = F!Depth - 1)
    /\ UNCHANGED <<wrreq, rdreq, data, cnt, idx>>

-----------------------------------------------------------------------------
(* The test's step when the write clock rises.                             *)
OnWrEdge ==
    \/ TimerTick \/ BasicStart \/ BasicWriteNext \/ BasicWriteDone \/ BasicGapEnd
    \/ FlagsStart \/ FlagsWrite
    \/ OverflowStart \/ OverflowFillNext \/ OverflowFillDone \/ OverflowGap
    \/ OverflowLast \/ OverflowCheck

(* The test's step when the read clock rises.                              *)
OnRdEdge ==
    \/ RdRequest \/ RdData \/ RdLoopHead
    \/ FlagsCdcTick \/ FlagsCdcDone \/ FlagsRead \/ FlagsCheck

(* A write-clock edge; the test resumes if it awaits one.                  *)
WrEdge ==
    /\ verdict = "running" /\ wSince < MaxWrPerRd[Test]
    /\ fifo' = F!WrSide(fifo, wrreq, data)
    /\ wSince' = wSince + 1 /\ rSince' = 0
    /\ IF pc \in WrWait THEN OnWrEdge ELSE UNCHANGED tbVars
    /\ UNCHANGED <<cur, results>>

(* A read-clock edge.                                                      *)
RdEdge ==
    /\ verdict = "running" /\ rSince < MaxRdPerWr[Test]
    /\ fifo' = F!RdSide(fifo, rdreq)
    /\ rSince' = rSince + 1 /\ wSince' = 0
    /\ IF pc \in RdWait THEN OnRdEdge ELSE UNCHANGED tbVars
    /\ UNCHANGED <<cur, results>>

(* Both clocks rise in the same time step.                                 *)
BothEdges ==
    /\ verdict = "running"
    /\ fifo' = F!BothSides(fifo, wrreq, rdreq, data)
    /\ wSince' = 0 /\ rSince' = 0
    /\ IF pc \in WrWait THEN OnWrEdge ELSE OnRdEdge
    /\ UNCHANGED <<cur, results>>

(* The regression manager records the verdict (a failed assert fails the *)
(* test, not the run) and starts the next test: its clocks and Timer are  *)
(* new, the FIFO and its inputs are as the last test left them.           *)
NextTest ==
    /\ pc = "ended"
    /\ results' = Append(results, verdict)
    /\ IF cur < Len(Tests)
       THEN /\ cur' = cur + 1 /\ pc' = "timer1" /\ cnt' = StartEdges[Tests[cur + 1]]
            /\ idx' = 0 /\ verdict' = "running"
       ELSE /\ pc' = "done" /\ UNCHANGED <<cur, cnt, idx, verdict>>
    /\ wSince' = 0 /\ rSince' = 0
    /\ UNCHANGED <<fifo, wrreq, rdreq, data>>

Init ==
    /\ fifo = F!FifoInit
    /\ wrreq = 0 /\ rdreq = 0 /\ data = 0
    /\ pc = "timer1" /\ cnt = StartEdges[Tests[1]] /\ idx = 0
    /\ verdict = "running"
    /\ wSince = 0 /\ rSince = 0
    /\ cur = 1 /\ results = <<>>

(* The simulation stops after the last test.                              *)
Next == WrEdge \/ RdEdge \/ BothEdges \/ NextTest

(* Both clocks keep running while a test does, and the regression manager *)
(* starts the next test once one has ended.                                *)
Spec == Init /\ [][Next]_vars /\ WF_vars(WrEdge) /\ WF_vars(RdEdge) /\ WF_vars(NextTest)

-----------------------------------------------------------------------------
TypeOK ==
    /\ fifo.mem \in [0..F!Depth - 1 -> Data \cup {X}]
    /\ fifo.q \in Data \cup {X}
    /\ {fifo.wbin, fifo.rbin} \subseteq 0..F!PtrMod - 1
    /\ F!WrUsedW(fifo) \in 0..F!Depth - 1     \* wrusedw has AddrWidth bits
    /\ {wrreq, rdreq} \subseteq {0, 1} /\ data \in Data
    /\ pc \in WrWait \cup RdWait \cup {"ended", "done"}
    /\ verdict \in {"running", "pass", "fail"}
    /\ results \in Seq({"pass", "fail"})

(* Every test of the run returns without a failed assert, the FIFO as the *)
(* tests before it left it, whatever the phase and the                    *)
(* drift of the two clocks: reads see 0..n-1 in order one edge after the  *)
(* request (tb_fifo.py:61), rdempty clears within the five-edge budget     *)
(* (:102) and re-asserts one edge after the last read (:120), and wrusedw  *)
(* is clamped at 2^AddrWidth - 1 when full (:155).                         *)
AllTestsPass == <>(pc = "done" /\ \A k \in 1..Len(results) : results[k] = "pass")

Abs == INSTANCE AbstractFifo WITH
    Capacity <- F!Depth, queue <- F!Contents(fifo), out <- fifo.q

(* The gray-pointer FIFO, driven by the validator, behaves as a FIFO of   *)
(* 2^AddrWidth words: whatever the flags' synchronisation delay, a write   *)
(* never overruns a word not yet read, and the data register is loaded    *)
(* only with the oldest word, as it is taken.                              *)
FifoRefinement == Abs!Spec

=============================================================================
