------------------------------ MODULE MCDcFifo -------------------------------
(***************************************************************************)
(* The FIFO validator's run for TLC.  The clock periods of tb_fifo.py:     *)
(* basic 10 ns and 13.46 ns, flags 10 ns and 23 ns, overflow 10 ns and    *)
(* 10 ns.  A read period of 13.46 ns holds one or two write edges, one of *)
(* 23 ns two or three; no read period is shorter than a write period, so  *)
(* two read edges always have a write edge (or a shared one) between them. *)
(* Timers in 10 ns write edges: Timer(50) = 5, Timer(100) = 10.            *)
(***************************************************************************)
EXTENDS DcFifoTestbench

MCTests == <<"basic", "flags", "overflow">>

MCStartEdges == [t \in TestNames |-> IF t = "basic" THEN 5 ELSE 10]

MCMaxWrPerRd == [t \in TestNames |-> CASE t = "basic" -> 2
                                       [] t = "flags" -> 3
                                       [] t = "overflow" -> 1]

MCMaxRdPerWr == [t \in TestNames |-> 1]

(* Any frequency ratio from 1:4 to 4:1, for every test.                   *)
MCAnyRatio == [t \in TestNames |-> 4]

=============================================================================
