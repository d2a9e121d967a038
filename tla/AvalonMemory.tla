---------------------------- MODULE AvalonMemory ----------------------------
(***************************************************************************)
(* The Avalon-MM read responder of the cocotb testbenches, class           *)
(* AvalonMemory of src/tests/cocotb/tb_dma_master.py.  Two coroutines      *)
(* share one cocotb Queue:                                                 *)
(*   run()             after every rising edge of clk, samples the master's*)
(*                     read command and enqueues (address, burstcount);    *)
(*   response_driver() takes one request at a time, waits a random latency,*)
(*                     drives one readdatavalid beat per burst word, then  *)
(*                     one idle cycle.                                     *)
(* Both are cocotb coroutines: a coroutine runs only when the edge it      *)
(* awaits has happened (it is then in `awake`) or, for the driver, when the*)
(* queue it awaits is non-empty.  The clock edge itself, and what the      *)
(* master does at it, belong to the module that composes this one.         *)
(***************************************************************************)
EXTENDS Naturals, Sequences

CONSTANTS
    MemBytes,     \* the size argument of AvalonMemory(dut, size)
    LatMin,       \* response_driver: latency = random.randint(LatMin, LatMax)
    LatMax,
    Missing,      \* default of self.mem.get(addr_cal, ...) for an unfilled address
    X             \* an undefined (X/Z) signal: int(signal.value) raises ValueError

ASSUME /\ MemBytes \in Nat
       /\ LatMin \in Nat \ {0} /\ LatMax \in Nat /\ LatMin <= LatMax
       /\ Missing \in Nat

VARIABLES
    reqQueue,         \* self.req_queue: sequence of [addr, burst]
    drv,              \* response_driver's locals and where it is suspended
    m_readdatavalid,  \* signals driven by the responder
    m_readdata,
    seen,             \* the master's outputs as a coroutine reads them after an edge
    awake             \* coroutines resumed by the last edge that have not yet run

memVars == <<reqQueue, drv, m_readdatavalid, m_readdata>>

(* run() sets m_waitrequest to 0 once and nothing drives it again.         *)
m_waitrequest == 0

(* __init__ fills every word-aligned byte address below size with i // 4   *)
(* (the mask & 0xFFFFFFFF is the identity for i // 4 < size / 4 = 2^18);   *)
(* a lookup of any other address returns the default of mem.get.          *)
Mem(a) == IF a < MemBytes /\ a % 4 = 0 THEN a \div 4 ELSE Missing

(* Where response_driver is suspended: "get" on req_queue.get(), "latency" *)
(* in the latency loop, "beat" in the burst loop, "end" on the trailing    *)
(* edge.  left is the latency edges still to wait, i the next burst index. *)
DriverStates == {"get", "latency", "beat", "end"}

(* The coroutines that await the next rising edge of clk.                  *)
EdgeWaiters == {"sampler"} \cup (IF drv.pc = "get" THEN {} ELSE {"driver"})

(* int() of m_read or m_waitrequest raising ValueError makes both 0, so a  *)
(* command counts only when read is 1 and waitrequest is 0.                *)
Accepted(cmd) == cmd.read = 1 /\ m_waitrequest = 0

Defined(cmd) == cmd.address # X /\ cmd.burstcount # X

-----------------------------------------------------------------------------
(* run(): the body of the while loop after `await RisingEdge(clk)`.        *)
SampleAccept ==
    /\ "sampler" \in awake
    /\ Accepted(seen) /\ Defined(seen)
    /\ reqQueue' = Append(reqQueue, [addr |-> seen.address, burst |-> seen.burstcount])
    /\ awake' = awake \ {"sampler"}
    /\ UNCHANGED <<drv, m_readdatavalid, m_readdata>>

(* Read asserted with an undefined address or burst count: log a warning   *)
(* and `continue` without enqueueing.                                      *)
SampleUndefined ==
    /\ "sampler" \in awake
    /\ Accepted(seen) /\ ~Defined(seen)
    /\ awake' = awake \ {"sampler"}
    /\ UNCHANGED memVars

SampleIdle ==
    /\ "sampler" \in awake
    /\ ~Accepted(seen)
    /\ awake' = awake \ {"sampler"}
    /\ UNCHANGED memVars

(* Mutant: the newest request is served first.                            *)
DriverGetLast ==
    /\ drv.pc = "get"
    /\ reqQueue # <<>>
    /\ \E lat \in LatMin..LatMax :
          drv' = [pc |-> "latency", addr |-> reqQueue[Len(reqQueue)].addr,
                  burst |-> reqQueue[Len(reqQueue)].burst, left |-> lat, i |-> 0]
    /\ reqQueue' = SubSeq(reqQueue, 1, Len(reqQueue) - 1)
    /\ UNCHANGED <<m_readdatavalid, m_readdata, awake>>

(* Mutant: the request is read from the queue head but not removed.       *)
DriverGetPeek ==
    /\ drv.pc = "get"
    /\ reqQueue # <<>>
    /\ \E lat \in LatMin..LatMax :
          drv' = [pc |-> "latency", addr |-> Head(reqQueue).addr,
                  burst |-> Head(reqQueue).burst, left |-> lat, i |-> 0]
    /\ UNCHANGED <<reqQueue, m_readdatavalid, m_readdata, awake>>

(* response_driver(): `await self.req_queue.get()` returns as soon as the  *)
(* queue is non-empty, within the same time step, then draws the latency.  *)
DriverGet ==
    /\ drv.pc = "get"
    /\ reqQueue # <<>>
    /\ \E lat \in LatMin..LatMax :
          drv' = [pc |-> "latency", addr |-> Head(reqQueue).addr,
                  burst |-> Head(reqQueue).burst, left |-> lat, i |-> 0]
    /\ reqQueue' = Tail(reqQueue)
    /\ UNCHANGED <<m_readdatavalid, m_readdata, awake>>

(* One iteration of `for _ in range(latency)`: the edge, then valid := 0.  *)
(* After the last one the driver awaits the first burst edge, or the       *)
(* trailing edge when range(burst) is empty.                               *)
DriverLatency ==
    /\ "driver" \in awake
    /\ drv.pc = "latency"
    /\ m_readdatavalid' = 0
    /\ drv' = IF drv.left > 1 THEN [drv EXCEPT !.left = @ - 1]
              ELSE [drv EXCEPT !.left = 0, !.pc = IF drv.burst > 0 THEN "beat" ELSE "end"]
    /\ awake' = awake \ {"driver"}
    /\ UNCHANGED <<reqQueue, m_readdata>>

(* Mutant: the burst loop runs range(burst + 1).                          *)
DriverBeatOffByOne ==
    /\ "driver" \in awake
    /\ drv.pc = "beat"
    /\ m_readdatavalid' = 1
    /\ m_readdata' = Mem(drv.addr + drv.i * 4)
    /\ drv' = [drv EXCEPT !.i = @ + 1, !.pc = IF drv.i + 1 < drv.burst + 1 THEN "beat" ELSE "end"]
    /\ awake' = awake \ {"driver"}
    /\ UNCHANGED reqQueue

(* Mutant: the beat address steps by one byte, addr + i.                 *)
DriverBeatByteStep ==
    /\ "driver" \in awake
    /\ drv.pc = "beat"
    /\ m_readdatavalid' = 1
    /\ m_readdata' = Mem(drv.addr + drv.i)
    /\ drv' = [drv EXCEPT !.i = @ + 1, !.pc = IF drv.i + 1 < drv.burst THEN "beat" ELSE "end"]
    /\ awake' = awake \ {"driver"}
    /\ UNCHANGED reqQueue

(* One iteration of `for i in range(burst)`: valid := 1 and readdata :=    *)
(* mem.get(addr + i*4, default).                                           *)
DriverBeat ==
    /\ "driver" \in awake
    /\ drv.pc = "beat"
    /\ m_readdatavalid' = 1
    /\ m_readdata' = Mem(drv.addr + drv.i * 4)
    /\ drv' = [drv EXCEPT !.i = @ + 1, !.pc = IF drv.i + 1 < drv.burst THEN "beat" ELSE "end"]
    /\ awake' = awake \ {"driver"}
    /\ UNCHANGED reqQueue

(* Mutant: the driver never loops back to req_queue.get().               *)
DriverEndNoLoop ==
    /\ "driver" \in awake
    /\ drv.pc = "end"
    /\ m_readdatavalid' = 0
    /\ drv' = drv
    /\ awake' = awake \ {"driver"}
    /\ UNCHANGED <<reqQueue, m_readdata>>

(* End Burst: one more edge, valid := 0, then back to req_queue.get().     *)
DriverEnd ==
    /\ "driver" \in awake
    /\ drv.pc = "end"
    /\ m_readdatavalid' = 0
    /\ drv' = [drv EXCEPT !.pc = "get"]
    /\ awake' = awake \ {"driver"}
    /\ UNCHANGED <<reqQueue, m_readdata>>

(* run() drives valid and readdata to 0 before it forks the driver.        *)
MemInit ==
    /\ reqQueue = <<>>
    /\ drv = [pc |-> "get", addr |-> 0, burst |-> 0, left |-> 0, i |-> 0]
    /\ m_readdatavalid = 0
    /\ m_readdata = 0

MemNext ==
    \/ SampleAccept \/ SampleUndefined \/ SampleIdle
    \/ DriverGet \/ DriverLatency \/ DriverBeat \/ DriverEnd

=============================================================================
