------------------------------- MODULE UsbhSerial ------------------------------
(***************************************************************************)
(* Reading from a serial port of the host (class/serial/usbh_serial.c):    *)
(* the transfer that is always under way into one of two buffers, its      *)
(* callback, the ring between the callback and the reader, and the calls   *)
(* of the reader.                                                          *)
(*                                                                         *)
(* The host controller fills a buffer at any time; the callback is an      *)
(* interrupt, which the program does not interrupt.  The callback starts   *)
(* the next transfer before it copies the last one, hence its two steps.   *)
(* The reader locks nothing either: its test of the room, its test of the  *)
(* put-off transfer and its submit are steps of their own, and a callback  *)
(* between them may take the room the reader has seen (overtaken).         *)
(* A buffer that was copied and the bytes the reader has had are forgotten.*)
(* The host stack below (transfers, semaphores) is not in this repository. *)
(***************************************************************************)
EXTENDS RingBuffer

CONSTANTS
    BulkIn,         \* CONFIG_USBHOST_SERIAL_BULKIN_SIZE
    Header,         \* ignore_rx_header of the chip's driver
    ReadLens,       \* buflen of the calls of usbh_serial_read
    Numbers,        \* bound: the device counts its bytes modulo this
    SemMax,         \* limit of a semaphore of the system
    MaxFaults,      \* bound: failing transfers, submits and control requests
    MaxFresh        \* bound: times the program opens the port or changes its attributes

ASSUME SerialAssumption ==
    /\ BulkIn \in Nat \ {0} /\ Header \in Nat /\ Header < BulkIn /\ BulkIn <= Size
    /\ ReadLens \subseteq Nat \ {0} /\ Numbers \in Nat \ {0, 1} /\ SemMax \in Nat \ {0}
    /\ MaxFaults \in Nat /\ MaxFresh \in Nat

VARIABLES
    ring,           \* rx_rb
    urb,            \* bulkin_urb: "none", "active" or "filled", and its buffer
    iobuffer,       \* the two halves of iobuffer
    rxIndex,        \* rx_buf_index
    pending,        \* rx_pending
    errorcode,      \* rx_errorcode is negative
    sem,            \* rx_complete_sem
    callback,       \* in the middle of the callback: the buffer to copy, or None
    program,        \* step of the reader, bytes it copied, attributes to set first
    nonblock,       \* open_flags
    overtaken,      \* history: "read" when bytes came after the read under way had tested the
                    \* room, "transfer" when such a read has started the transfer under way
    next,           \* number of the next byte of the device
    faults, fresh   \* counters of the bounds

vars == <<ring, urb, iobuffer, rxIndex, pending, errorcode, sem, callback, program, nonblock,
          overtaken, next, faults, fresh>>

None    == 2
Buffers == {0, 1}
Bytes   == 0 .. Numbers - 1
Testing == {"room", "resume", "submit"}
Steps   == {"closed", "idle", "ready", "wait", "copy", "advance"} \cup Testing

TypeOK ==
    /\ ring \in Ring(Bytes)
    /\ urb \in [state : {"none", "active", "filled"}, buffer : Buffers]
    /\ iobuffer \in [Buffers -> Seq(Bytes)]
    /\ rxIndex \in Buffers /\ callback \in Buffers \cup {None}
    /\ pending \in BOOLEAN /\ errorcode \in BOOLEAN /\ nonblock \in BOOLEAN
    /\ sem \in 0 .. SemMax
    /\ program \in [step : Steps, got : Nat, unset : BOOLEAN]
    /\ overtaken \in {"no", "read", "transfer"}
    /\ next \in Bytes /\ faults \in 0 .. MaxFaults /\ fresh \in 0 .. MaxFresh

\* usbh_serial_alloc and usbh_serial_probe
Init ==
    /\ ring = EmptyRing(0)
    /\ urb = [state |-> "none", buffer |-> 0] /\ iobuffer = [b \in Buffers |-> <<>>]
    /\ rxIndex = 0 /\ pending = FALSE /\ errorcode = FALSE /\ sem = 0 /\ callback = None
    /\ program = [step |-> "closed", got |-> 0, unset |-> TRUE] /\ nonblock \in BOOLEAN
    /\ overtaken = "no" /\ next = 0 /\ faults = 0 /\ fresh = 0

\* What was on its way is lost: one byte stands for any number.
Lose    == next' \in {next, (next + 1) % Numbers}

Idle    == [state |-> "none", buffer |-> 0]
Ends    == overtaken' = IF overtaken = "transfer" THEN "no" ELSE overtaken
Given   == IF sem < SemMax THEN sem + 1 ELSE sem
NoFault == UNCHANGED faults
AFault  == faults < MaxFaults /\ faults' = faults + 1

-----------------------------------------------------------------------------
(***************************************************************************)
(* The controller and the callback.                                        *)
(***************************************************************************)
\* Up to BulkIn bytes arrive, the header of the chip before them.
Fill ==
    /\ urb.state = "active"
    /\ \E n \in 0 .. BulkIn - Header :
         /\ iobuffer' = [iobuffer EXCEPT ![urb.buffer] = [k \in 1 .. n |-> (next + k - 1) % Numbers]]
         /\ next' = (next + n) % Numbers
    /\ urb' = [urb EXCEPT !.state = "filled"]
    /\ UNCHANGED <<ring, rxIndex, pending, errorcode, sem, callback, program, nonblock, overtaken, faults,
                   fresh>>

\* The transfer fails, or is shorter than the header; what it carried is
\* lost, and it is not started again.
TransferFails ==
    /\ urb.state = "active" /\ callback = None /\ AFault
    /\ urb' = Idle
    /\ errorcode' = TRUE /\ sem' = Given
    /\ Lose /\ Ends
    /\ UNCHANGED <<ring, iobuffer, rxIndex, pending, callback, program, nonblock, fresh>>

\* usbh_serial_rx_restart of an idle transfer, into the buffer of index i.
Restart(i) == urb' = [state |-> "active", buffer |-> i]

\* Mutant: only this transfer has to fit.
WouldOverflow_This(n) == n > Free(ring)

\* Would the next transfer fit as well?
WouldOverflow(n) == n + BulkIn > Free(ring)

\* Mutant: both transfers use one buffer.
NextIndex_Same == rxIndex

NextIndex == 1 - rxIndex

CallbackStarts ==
    LET n == Len(iobuffer[urb.buffer]) IN
    /\ urb.state = "filled" /\ callback = None
    /\ rxIndex' = NextIndex
    /\ \/ /\ WouldOverflow(n) /\ pending' = TRUE /\ urb' = Idle
          /\ callback' = rxIndex /\ NoFault /\ UNCHANGED <<errorcode, sem, overtaken>>
       \/ /\ ~WouldOverflow(n) /\ pending' = FALSE /\ Restart(rxIndex')
          /\ callback' = rxIndex /\ errorcode' = FALSE /\ NoFault /\ UNCHANGED <<sem, overtaken>>
       \* The submit fails, and the bytes are dropped.
       \/ /\ ~WouldOverflow(n) /\ pending' = FALSE /\ AFault /\ urb' = Idle
          /\ errorcode' = TRUE /\ sem' = Given /\ Ends /\ UNCHANGED callback
    /\ UNCHANGED <<ring, iobuffer, program, nonblock, next, fresh>>

\* What does not fit into the ring is dropped.
CallbackCopies ==
    /\ callback # None
    /\ ring' = Written(ring, iobuffer[callback])
    /\ overtaken' = IF program.step \in Testing THEN "read" ELSE "no"
    /\ errorcode' = FALSE /\ sem' = Given /\ callback' = None
    /\ iobuffer' = [iobuffer EXCEPT ![callback] = IF urb = [state |-> "filled", buffer |-> callback] THEN @ ELSE <<>>]
    /\ UNCHANGED <<urb, rxIndex, pending, program, nonblock, next, faults, fresh>>

Interrupt == CallbackStarts \/ CallbackCopies

-----------------------------------------------------------------------------
(***************************************************************************)
(* The program.  It sets the attributes of a port it has opened, and after *)
(* each error it is told of.                                               *)
(***************************************************************************)
At(step) == program.step = step /\ callback = None

\* usbh_kill_urb: the callback is told of a shutdown.
Kill ==
    IF urb.state = "none" THEN UNCHANGED <<errorcode, sem>>
    ELSE errorcode' = TRUE /\ sem' = Given

Open ==
    /\ At("closed") /\ fresh < MaxFresh /\ fresh' = fresh + 1
    /\ ring' = EmptyRing(0)
    /\ nonblock' \in BOOLEAN /\ program' = [step |-> "idle", got |-> 0, unset |-> TRUE]
    /\ Lose /\ overtaken' = "no"
    /\ UNCHANGED <<urb, iobuffer, rxIndex, pending, errorcode, sem, callback, faults>>

Close ==
    /\ At("idle") /\ Kill /\ urb' = Idle /\ Ends
    /\ program' = [program EXCEPT !.step = "closed"]
    /\ UNCHANGED <<ring, iobuffer, rxIndex, pending, callback, nonblock, next, faults, fresh>>

\* SET_ATTR.  One of its control requests, or the submit, may fail; only the
\* last statements touch the ring, the semaphore and the index.
SetAttr ==
    /\ At("idle")
    /\ IF program.unset THEN UNCHANGED fresh ELSE fresh < MaxFresh /\ fresh' = fresh + 1
    /\ \/ /\ AFault /\ Kill /\ urb' = Idle
          /\ program' = [program EXCEPT !.unset = TRUE]
          /\ UNCHANGED <<ring, rxIndex>>
       \/ /\ AFault /\ urb' = Idle
          /\ ring' = EmptyRing(0) /\ sem' = 0 /\ rxIndex' = 0 /\ errorcode' = FALSE
          /\ program' = [program EXCEPT !.unset = TRUE]
       \/ /\ NoFault /\ Restart(0)
          /\ ring' = EmptyRing(0) /\ sem' = 0 /\ rxIndex' = 0 /\ errorcode' = FALSE
          /\ program' = [program EXCEPT !.unset = FALSE]
    /\ Lose /\ Ends
    /\ UNCHANGED <<iobuffer, pending, callback, nonblock>>

Failed == program' = [program EXCEPT !.step = "idle", !.unset = TRUE]
Goto(step) == program' = [program EXCEPT !.step = step]

\* The start of usbh_serial_read: is there room for a transfer?
ReadStarts ==
    /\ At("idle") /\ ~program.unset
    /\ Goto(IF Free(ring) >= BulkIn THEN "room" ELSE "ready")
    /\ UNCHANGED <<ring, urb, iobuffer, rxIndex, pending, errorcode, sem, callback, nonblock,
                   overtaken, next, faults, fresh>>

\* Mutant: reading goes on without the transfer that had been put off.
Resumes_Never == FALSE

Resumes == pending

\* The second half of the condition.
TestsPending ==
    /\ At("room")
    /\ \/ Resumes /\ Goto("resume") /\ UNCHANGED overtaken
       \/ ~Resumes /\ Goto("ready") /\ overtaken' = IF overtaken = "read" THEN "no" ELSE overtaken
    /\ UNCHANGED <<ring, urb, iobuffer, rxIndex, pending, errorcode, sem, callback, nonblock, next,
                   faults, fresh>>

\* rx_pending, and the error code by usbh_serial_rx_restart.
ClearsPending ==
    /\ At("resume") /\ Goto("submit") /\ pending' = FALSE /\ errorcode' = FALSE
    /\ UNCHANGED <<ring, urb, iobuffer, rxIndex, sem, callback, nonblock, overtaken, next, faults,
                   fresh>>

\* SET_ATTR leaves rx_pending alone, so the transfer may be under way already;
\* the submit is then refused as busy, and the program reads again.
Submits ==
    /\ At("submit")
    /\ \/ /\ urb.state = "none" /\ Restart(rxIndex) /\ Goto("ready") /\ NoFault
          /\ overtaken' = IF overtaken = "read" THEN "transfer" ELSE overtaken
       \/ /\ urb.state = "none" /\ AFault /\ Failed /\ overtaken' = "no" /\ UNCHANGED urb
       \/ /\ urb.state # "none" /\ Goto("idle") /\ NoFault /\ UNCHANGED urb
          /\ overtaken' = IF overtaken = "read" THEN "no" ELSE overtaken
    /\ UNCHANGED <<ring, iobuffer, rxIndex, pending, errorcode, sem, callback, nonblock, next, fresh>>

ReadsOn ==
    /\ At("ready") /\ Goto(IF ~nonblock /\ Used(ring) = 0 THEN "wait" ELSE "copy")
    /\ UNCHANGED <<ring, urb, iobuffer, rxIndex, pending, errorcode, sem, callback, nonblock,
                   overtaken, next, faults, fresh>>

\* Blocked in usb_osal_sem_take.  The count may be left over from bytes that
\* were read without waiting.
Woken ==
    /\ At("wait") /\ sem > 0 /\ sem' = sem - 1
    /\ IF errorcode THEN Failed ELSE Goto("copy")
    /\ UNCHANGED <<ring, urb, iobuffer, rxIndex, pending, errorcode, callback, nonblock, overtaken,
                   next, faults, fresh>>

Copies ==
    /\ At("copy")
    /\ \E len \in ReadLens : program' = [program EXCEPT !.step = "advance", !.got = Readable(ring, len)]
    /\ UNCHANGED <<ring, urb, iobuffer, rxIndex, pending, errorcode, sem, callback, nonblock, overtaken,
                   next, faults, fresh>>

\* rb->out += size
Advances ==
    /\ At("advance")
    /\ LET popped == Popped(ring, program.got)
       IN  ring' = [popped EXCEPT !.pool =
               [j \in 0 .. Size - 1 |-> IF (j - popped.out) % Size < Used(popped) THEN @[j] ELSE 0]]
    /\ program' = [program EXCEPT !.step = "idle", !.got = 0]
    /\ UNCHANGED <<urb, iobuffer, rxIndex, pending, errorcode, sem, callback, nonblock, overtaken,
                   next, faults, fresh>>

Reads ==
    ReadStarts \/ TestsPending \/ ClearsPending \/ Submits \/ ReadsOn \/ Woken \/ Copies \/ Advances

Next == Fill \/ TransferFails \/ Interrupt \/ Open \/ Close \/ SetAttr \/ Reads

(* The device sends bytes again and again, not only empty packets; an      *)
(* interrupt is taken; a program that reads gets its turn between the      *)
(* interrupts, and sets the attributes when told of an error.              *)
Fairness ==
    /\ SF_vars(Fill /\ next' # next) /\ WF_vars(Interrupt)
    /\ SF_vars(Reads) /\ WF_vars(program.unset /\ SetAttr)

Spec     == Init /\ [][Next]_vars
FairSpec == Spec /\ Fairness

-----------------------------------------------------------------------------
(***************************************************************************)
(* Properties.                                                             *)
(***************************************************************************)
\* Bytes the callback is about to copy, and all that are on their way from
\* the device to the ring.
Copying  == IF callback = None THEN 0 ELSE Len(iobuffer[callback])
OnTheWay ==
    Copying
      + (IF urb.state = "filled" THEN Len(iobuffer[urb.buffer]) ELSE 0)

Stream == INSTANCE ByteStream WITH
    Capacity <- Size, queue <- Content(ring), next <- (next - OnTheWay) % Numbers,
    late <- overtaken = "transfer",
    session <- <<program.step = "closed", program.unset, fresh>>

(* The reader sees the bytes of the device in order and each once, whatever*)
(* the callback does in the middle of a read: no buffer is filled again    *)
(* before it was copied, and the ring drops bytes only of a transfer that  *)
(* an overtaken read has started, and only what it has no room for.        *)
ImplementsStream == Stream!Spec

(* A blocking reader gets bytes again and again: no order of transfers,    *)
(* put-off transfers, errors and new attributes leaves it waiting for a    *)
(* transfer that is not under way.                                         *)
BytesKeepComing ==
    <>[](program.step # "closed" /\ ~nonblock) => []<>(program.step = "advance" /\ program.got > 0)

(* A transfer is under way only while the ring has room for all it may     *)
(* bring, besides what the callback is about to copy: the decision to put  *)
(* it off is taken before the last bytes are in the ring, and by two       *)
(* parties.  But for the transfer of a read that was overtaken between its *)
(* two tests: the code has nothing against that.                           *)
RoomForTransfers ==
    /\ Used(ring) <= Size
    /\ overtaken # "transfer" =>
         Copying + (IF urb.state = "none" THEN 0 ELSE BulkIn) <= Free(ring)
=============================================================================
