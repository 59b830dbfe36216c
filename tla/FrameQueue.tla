------------------------------- MODULE FrameQueue ------------------------------
(***************************************************************************)
(* What the display driver promises the program: whole frames of the host, *)
(* in order, each once, and unchanged for as long as the program holds one.*)
(* Frames may be dropped before they enter the queue, and a new            *)
(* configuration may empty it.                                             *)
(***************************************************************************)
EXTENDS Naturals, Sequences

CONSTANTS Ids, None, Capacity
VARIABLES arriving, queue, holding

Init == arriving \in Ids /\ queue = <<>> /\ holding = None

Room == Len(queue) + (IF holding = None THEN 0 ELSE 1) < Capacity

\* The host ends a frame, which enters the queue or is dropped.
Arrive ==
    /\ arriving' \in Ids
    /\ queue' \in {queue} \cup IF Room THEN {Append(queue, arriving)} ELSE {}
    /\ UNCHANGED holding

Take ==
    /\ holding = None /\ queue # <<>>
    /\ holding' = Head(queue) /\ queue' = Tail(queue)
    /\ UNCHANGED arriving

Release == holding # None /\ holding' = None /\ UNCHANGED <<arriving, queue>>

Clear == queue' = <<>> /\ arriving' \in Ids /\ UNCHANGED holding

Next == Arrive \/ Take \/ Release \/ Clear

Spec == Init /\ [][Next]_<<arriving, queue, holding>>
=============================================================================
