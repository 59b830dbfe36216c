----------------------------- MODULE ControlPipe -----------------------------
(***************************************************************************)
(* What the default control pipe promises the host: a request it submits   *)
(* ends once, with all of its data and the verdict of the device, unless   *)
(* the host itself calls it off.  Nothing is promised of a request that was*)
(* lost, and a request whose data was spoilt does not pass.                *)
(***************************************************************************)
EXTENDS Integers

CONSTANTS
    Requests,  \* the requests the host may submit
    Goal(_),   \* the number of bytes the data stage of a request moves
    Serves(_)  \* does the device carry the request out?

VARIABLES
    busy,      \* is a request in progress?
    request,   \* the last request submitted
    moved,     \* bytes moved in its data stage
    outcome    \* how it ended, or its course so far: "none", "lost", "spoilt"

vars == <<busy, request, moved, outcome>>

Init ==
    /\ busy = FALSE
    /\ request \in Requests
    /\ moved = 0
    /\ outcome = "none"

Submit ==
    /\ ~busy
    /\ busy' = TRUE
    /\ request' \in Requests
    /\ moved' = 0
    /\ outcome' \in {"none", "lost"}

Lost == outcome = "lost"

Move ==
    /\ busy
    /\ moved' > moved
    /\ Lost \/ moved' <= Goal(request)
    /\ UNCHANGED <<busy, request, outcome>>

Spoil ==
    /\ busy /\ outcome = "none"
    /\ outcome' = "spoilt"
    /\ UNCHANGED <<busy, request, moved>>

Pass ==
    /\ busy
    /\ Lost \/ (outcome = "none" /\ Serves(request) /\ moved = Goal(request))
    /\ busy' = FALSE
    /\ outcome' = "passed"
    /\ UNCHANGED <<request, moved>>

Refuse ==
    /\ busy
    /\ Lost \/ ~Serves(request)
    /\ busy' = FALSE
    /\ outcome' = "refused"
    /\ UNCHANGED <<request, moved>>

CallOff ==
    /\ busy
    /\ busy' = FALSE
    /\ outcome' = "cancelled"
    /\ UNCHANGED <<request, moved>>

Next == Submit \/ Move \/ Spoil \/ Pass \/ Refuse \/ CallOff

Spec == Init /\ [][Next]_vars
=============================================================================
