----------------------------- MODULE AvalonSlave -----------------------------
(***************************************************************************)
(* What an Avalon-MM read slave promises its master (spec 6, "a           *)
(* readDataValid pulse goes with each requested burst word"), without     *)
(* queues, coroutines or latency: an accepted read command of burst words *)
(* at addr owes the words Word(addr), Word(addr + 4), ... after every word *)
(* owed before it; a cycle either carries the oldest owed word with       *)
(* readdatavalid = 1 or drops readdatavalid.  A slave lives as long as   *)
(* the test that created it: the next test's slave starts owing nothing.  *)
(***************************************************************************)
EXTENDS Naturals, Sequences

CONSTANTS
    Word(_),   \* the memory word at a byte address
    Addrs,     \* the addresses a command may carry
    Bursts     \* the burst counts a command may carry

VARIABLES
    session, \* the test whose slave is answering
    owed,    \* the words still to be delivered, oldest first
    valid,   \* m_readdatavalid
    data     \* m_readdata

vars == <<session, owed, valid, data>>

(* The words a command of burst b at addr asks for, in beat order.        *)
Words(addr, b) == [k \in 1..b |-> Word(addr + (k - 1) * 4)]

Init ==
    /\ session = 0
    /\ owed = <<>>
    /\ valid = 0
    /\ data = 0

Accept(addr, b) ==
    /\ owed' = owed \o Words(addr, b)
    /\ UNCHANGED <<session, valid, data>>

Beat ==
    /\ owed # <<>>
    /\ valid' = 1 /\ data' = Head(owed)
    /\ owed' = Tail(owed)
    /\ UNCHANGED session

Pause ==
    /\ valid' = 0
    /\ UNCHANGED <<session, owed, data>>

(* The next test's slave, with both signals driven to 0.                  *)
Restart ==
    /\ session' = session + 1
    /\ owed' = <<>> /\ valid' = 0 /\ data' = 0

Next == Beat \/ Pause \/ Restart \/ \E a \in Addrs, b \in Bursts : Accept(a, b)

Spec == Init /\ [][Next]_vars

=============================================================================
