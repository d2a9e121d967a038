------------------------------ MODULE CtrlRegs ------------------------------
(***************************************************************************)
(* The control-register slave the register tests drive (its RTL is not    *)
(* among the sources; modelled from what tb_hdmi_sync_gen.py and          *)
(* tb_video_pipeline.py expect of it, spec 2 "configures the device under *)
(* test via register writes").  One Avalon-MM slave in the pixel-clock    *)
(* domain:                                                                 *)
(*   address 0: the mode register, output reg_mode_out;                    *)
(*   address 1: control, bit 0 gamma enable, bit 1 DMA enable (continuous *)
(*              mode in the pipeline), bit 2 start (a command, not kept); *)
(*              read back with the DMA's busy, synchronised into this     *)
(*              domain, in bit 31.                                         *)
(* Writes and the read-data register are loaded at the edge that samples  *)
(* them.  A start command toggles startTgl, which the 50 MHz domain turns *)
(* back into a one-cycle pulse (a toggle synchroniser: a one-cycle pulse  *)
(* of the faster pixel clock could fall between two 50 MHz edges).        *)
(*                                                                         *)
(* Bit 31 does not fit TLC's integers, so read data is a record: busy is  *)
(* bit 31 and low the bits below it.                                       *)
(***************************************************************************)
EXTENDS Naturals, Bitwise

CONSTANT X   \* an undefined (X) register value

RegsPowerUp == [mode |-> X, ctrl |-> X, startTgl |-> X, busy1 |-> X, busy2 |-> X,
                rdata |-> [busy |-> X, low |-> X]]

RegsReset == [mode |-> 0, ctrl |-> 0, startTgl |-> 0, busy1 |-> 0, busy2 |-> 0,
              rdata |-> [busy |-> 0, low |-> 0]]

(* The bus as the test drives it: address, writedata, write, read.        *)
StartCommand(bus) == bus.write = 1 /\ bus.address = 1 /\ (bus.writedata & 4) = 4

(* Mutant: the control register keeps bit 0 only.                        *)
RegsEdgeCtrlMask(r, reset_n, bus, busyIn) ==
    IF reset_n = 0 THEN RegsReset
    ELSE [mode     |-> IF bus.write = 1 /\ bus.address = 0 THEN bus.writedata ELSE r.mode,
          ctrl     |-> IF bus.write = 1 /\ bus.address = 1 THEN bus.writedata & 1 ELSE r.ctrl,
          startTgl |-> IF StartCommand(bus) THEN 1 - r.startTgl ELSE r.startTgl,
          busy1    |-> busyIn,
          busy2    |-> r.busy1,
          rdata    |-> IF bus.read # 1 THEN r.rdata
                       ELSE IF bus.address = 1 THEN [busy |-> r.busy2, low |-> r.ctrl]
                       ELSE [busy |-> 0, low |-> r.mode]]

(* One rising edge of the pixel clock; busyIn is the DMA's busy flag as   *)
(* the first synchroniser flop samples it (0 where there is no DMA).      *)
RegsEdge(r, reset_n, bus, busyIn) ==
    IF reset_n = 0 THEN RegsReset
    ELSE [mode     |-> IF bus.write = 1 /\ bus.address = 0 THEN bus.writedata ELSE r.mode,
          ctrl     |-> IF bus.write = 1 /\ bus.address = 1 THEN bus.writedata & 3 ELSE r.ctrl,
          startTgl |-> IF StartCommand(bus) THEN 1 - r.startTgl ELSE r.startTgl,
          busy1    |-> busyIn,
          busy2    |-> r.busy1,
          rdata    |-> IF bus.read # 1 THEN r.rdata
                       ELSE IF bus.address = 1 THEN [busy |-> r.busy2, low |-> r.ctrl]
                       ELSE [busy |-> 0, low |-> r.mode]]

DmaEnableOut(r) == IF r.ctrl = X THEN X ELSE shiftR(r.ctrl, 1) & 1

RegModeOut(r) == r.mode

-----------------------------------------------------------------------------
(* The 50 MHz side: the start toggle through two flops and an edge        *)
(* detector, the control bit 1 through two flops.                          *)
SyncPowerUp == [s1 |-> X, s2 |-> X, s3 |-> X, c1 |-> X, c2 |-> X]

SyncEdge(s, reset_n, r) ==
    IF reset_n = 0 THEN [s1 |-> 0, s2 |-> 0, s3 |-> 0, c1 |-> 0, c2 |-> 0]
    ELSE [s1 |-> r.startTgl, s2 |-> s.s1, s3 |-> s.s2,
          c1 |-> DmaEnableOut(r), c2 |-> s.c1]

(* dma_start in the 50 MHz domain: the toggle's change, one cycle long.   *)
DmaStartPulse(s) ==
    IF X \in {s.s2, s.s3} THEN X ELSE IF s.s2 # s.s3 THEN 1 ELSE 0

=============================================================================
