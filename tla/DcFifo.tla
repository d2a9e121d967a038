------------------------------- MODULE DcFifo --------------------------------
(***************************************************************************)
(* simple_dcfifo, the device the FIFO validator drives (its RTL is not    *)
(* among the sources; modelled from spec 4.2 and what tb_fifo.py states   *)
(* of it): a dual-clock FIFO of 2^AddrWidth words.  Each side keeps an    *)
(* (AddrWidth+1)-bit binary pointer and its gray code; the other side's   *)
(* gray pointer reaches it through two flip-flops of its own clock.       *)
(*   assign rdempty = (rd_ptr_gray == wr_ptr_gray_sync2);                  *)
(*   wrfull: the write gray pointer equals the synchronised read one with  *)
(*           its top two bits inverted;                                    *)
(*   wrusedw: words in use as the write side sees them, clamped to        *)
(*           2^AddrWidth - 1 (spec 4.2 saturation);                       *)
(*   always @(posedge rdclk) if (rdreq) q <= mem[...]: registered read.    *)
(* Pointers and memory start at 0 and X: the tests assert rdempty = 1     *)
(* with no reset, so the registers are initialised.                        *)
(***************************************************************************)
EXTENDS Naturals, Bitwise

CONSTANTS AddrWidth, X

ASSUME AddrWidth \in Nat \ {0}

Depth == 2^AddrWidth
PtrMod == 2 * Depth

(* bin ^ (bin >> 1)                                                        *)
Gray(b) == b ^^ shiftR(b, 1)

(* The gray-to-binary conversion: the XOR of all right shifts.             *)
RECURSIVE GrayToBin(_)
GrayToBin(g) == IF g = 0 THEN 0 ELSE g ^^ GrayToBin(shiftR(g, 1))

FifoInit ==
    [mem |-> [a \in 0..Depth - 1 |-> X], q |-> X,
     wbin |-> 0, rbin |-> 0,
     wsync1 |-> 0, wsync2 |-> 0,     \* wr_ptr_gray_sync1/2, rdclk domain
     rsync1 |-> 0, rsync2 |-> 0]     \* rd_ptr_gray_sync1/2, wrclk domain

RdEmpty(f) == Gray(f.rbin) = f.wsync2

WrFull(f) == Gray(f.wbin) = f.rsync2 ^^ (3 * 2^(AddrWidth - 1))

(* Mutant: the count is not clamped and needs one bit more than the port. *)
WrUsedWUnclamped(f) == (f.wbin - GrayToBin(f.rsync2)) % PtrMod

WrUsedW(f) ==
    LET used == (f.wbin - GrayToBin(f.rsync2)) % PtrMod
    IN IF used > Depth - 1 THEN Depth - 1 ELSE used

(* posedge wrclk: a write unless full; the read pointer shifts through    *)
(* the two synchroniser flops.                                             *)
WrSide(f, wrreq, data) ==
    LET write == wrreq = 1 /\ ~WrFull(f)
    IN [f EXCEPT !.mem = IF write THEN [@ EXCEPT ![f.wbin % Depth] = data] ELSE @,
                 !.wbin = IF write THEN (@ + 1) % PtrMod ELSE @,
                 !.rsync1 = Gray(f.rbin),
                 !.rsync2 = f.rsync1]

(* Mutant: the data register loads the word after the one being taken.    *)
RdSideAfterIncrement(f, rdreq) ==
    LET read == rdreq = 1 /\ ~RdEmpty(f)
    IN [f EXCEPT !.q = IF rdreq = 1 THEN f.mem[(f.rbin + 1) % Depth] ELSE @,
                 !.rbin = IF read THEN (@ + 1) % PtrMod ELSE @,
                 !.wsync1 = Gray(f.wbin),
                 !.wsync2 = f.wsync1]

(* posedge rdclk: q <= mem[rd_addr] on rdreq; the pointer advances unless *)
(* empty; the write pointer shifts through the two synchroniser flops.    *)
RdSide(f, rdreq) ==
    LET read == rdreq = 1 /\ ~RdEmpty(f)
    IN [f EXCEPT !.q = IF rdreq = 1 THEN f.mem[f.rbin % Depth] ELSE @,
                 !.rbin = IF read THEN (@ + 1) % PtrMod ELSE @,
                 !.wsync1 = Gray(f.wbin),
                 !.wsync2 = f.wsync1]

(* Both clocks rise in the same time step: each side's flops sample the   *)
(* other side's registers before the edge (non-blocking assignment).      *)
BothSides(f, wrreq, rdreq, data) ==
    LET w == WrSide(f, wrreq, data)
        r == RdSide(f, rdreq)
    IN [w EXCEPT !.q = r.q, !.rbin = r.rbin, !.wsync1 = r.wsync1, !.wsync2 = r.wsync2]

(* The words held: from the read pointer up to the write pointer.         *)
Contents(f) ==
    [k \in 1..(f.wbin - f.rbin) % PtrMod |-> f.mem[(f.rbin + k - 1) % Depth]]

=============================================================================
