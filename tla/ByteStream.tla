------------------------------- MODULE ByteStream ------------------------------
(***************************************************************************)
(* What the serial driver promises its reader: the bytes of the device in  *)
(* order, each once.  Bytes are lost only at a fault, when the reader      *)
(* starts afresh (opens the port, sets its attributes), and when they come *)
(* late, for a queue that is full then.  Bytes are numbered modulo Numbers.*)
(***************************************************************************)
EXTENDS Integers, Sequences

CONSTANTS Numbers, Capacity
VARIABLES
    queue,      \* bytes the reader has not had yet
    next,       \* the byte the driver takes next from the device
    faults,     \* number of faults
    late,       \* the next bytes come without regard to the room there is
    session     \* changes when the reader opens or closes the port or sets its attributes

From(first, n) == [k \in 1 .. n |-> (first + k - 1) % Numbers]

Init == queue = <<>> /\ next = 0 /\ faults = 0

Receive ==
    \E n \in 1 .. Capacity - Len(queue) :
        /\ queue' = queue \o From(next, n) /\ next' = (next + n) % Numbers
        /\ UNCHANGED <<faults, session>>

\* The queue takes what it has room for, and the rest is lost.
Overflow ==
    /\ late /\ queue' = queue \o From(next, Capacity - Len(queue)) /\ next' \in 0 .. Numbers - 1
    /\ UNCHANGED <<faults, session>>

Get ==
    \E n \in 1 .. Len(queue) :
        queue' = SubSeq(queue, n + 1, Len(queue)) /\ UNCHANGED <<next, faults, session>>

Fault ==
    /\ faults' = faults + 1 /\ next' \in 0 .. Numbers - 1
    /\ queue' \in {queue, <<>>}

NewSession ==
    /\ session' # session /\ next' \in 0 .. Numbers - 1
    /\ queue' \in {queue, <<>>} /\ UNCHANGED faults

Next == Receive \/ Overflow \/ Get \/ Fault \/ NewSession

Spec == Init /\ [][Next]_<<queue, next, faults, session>>
=============================================================================
