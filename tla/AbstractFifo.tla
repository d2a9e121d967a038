---------------------------- MODULE AbstractFifo ----------------------------
(***************************************************************************)
(* What a first-in-first-out buffer of Capacity words promises its two    *)
(* sides (spec 4.2, spec 6 FIFO protocol), with no clocks and no flags:    *)
(* a word is put at the tail while fewer than Capacity are held, and the  *)
(* read-data register shows the head word as it is taken.  The memory is  *)
(* dual-ported, so a put and a take may complete at the same instant.     *)
(***************************************************************************)
EXTENDS Naturals, Sequences

CONSTANTS
    Capacity,   \* 2^ADDR_WIDTH words
    Data,       \* the words the writer may present
    X           \* the read-data register before its first load

VARIABLES
    queue,   \* the words held, oldest first
    out      \* the read-data register

vars == <<queue, out>>

Init ==
    /\ queue = <<>>
    /\ out = X

Put(d) ==
    /\ Len(queue) < Capacity
    /\ queue' = Append(queue, d)
    /\ UNCHANGED out

Take ==
    /\ queue # <<>>
    /\ out' = Head(queue)
    /\ queue' = Tail(queue)

PutTake(d) ==
    /\ queue # <<>>
    /\ Len(queue) < Capacity
    /\ out' = Head(queue)
    /\ queue' = Append(Tail(queue), d)

Next == Take \/ \E d \in Data : Put(d) \/ PutTake(d)

Spec == Init /\ [][Next]_vars

=============================================================================
