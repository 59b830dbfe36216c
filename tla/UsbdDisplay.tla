------------------------------ MODULE UsbdDisplay ------------------------------
(***************************************************************************)
(* The display driver (class/vendor/display/usbd_display.c) and the pool   *)
(* of frames it shares with the program (common/usb_mempool.h).            *)
(*                                                                         *)
(* The bulk OUT callback runs in the interrupt and is one step.  The       *)
(* program runs between interrupts, so its calls into the pool are split   *)
(* where an interrupt makes a difference.  Lengths are in packets: a host  *)
(* frame of length n has n \div 2 full packets and a last one that is      *)
(* short, and empty if n is even.  A packet is <<frame number, length of   *)
(* the frame, position>>; the header in the first one tells the length.    *)
(* Nobody reads a free block, so its content is forgotten.                 *)
(***************************************************************************)
EXTENDS RingBuffer, FiniteSets

CONSTANTS
    Frames, None,       \* the blocks of the pool, and no block
    ReadLen,            \* packets of one read into a frame (16384 bytes)
    BufLen,             \* packets of frame_bufsize, a multiple of ReadLen
    Lengths,            \* lengths of the host's frames
    Numbers,            \* bound: the host counts its frames modulo this
    MaxConfigured       \* bound: CONFIGURED events

ASSUME DisplayAssumption ==
    /\ IsFiniteSet(Frames) /\ Cardinality(Frames) = Size /\ None \notin Frames \cup 0 .. Numbers
    /\ ReadLen \in Nat \ {0} /\ BufLen \in Nat \ {0} /\ BufLen % ReadLen = 0
    /\ Lengths \subseteq Nat \ {0} /\ Numbers \in Nat \ {0, 1} /\ MaxConfigured \in Nat

VARIABLES
    inRing, outRing,    \* pool.in (free blocks) and pool.out (frames for the program)
    sem,                \* pool.out_sem
    current,            \* current_frame
    offset,             \* usb_display_buf_offset
    ignoring,           \* usb_display_ignore_frame
    reading,            \* the read in progress: block or None (dummy), place, packets so far
    buf,                \* frame_buf of each block
    main,               \* the program: its step and the block it works on
    host,               \* number and length of the frame being sent, packets sent of it
    configured,         \* number of CONFIGURED events
    asserted            \* a USB_ASSERT has failed: nothing runs any more

vars == <<inRing, outRing, sem, current, offset, ignoring, reading, buf, main, host,
          configured, asserted>>

Steps   == {"idle", "peek", "advance", "hold", "publish"}
Packets == (0 .. Numbers - 1) \X Lengths \X Nat
Blank   == <<0, 0, 0>>
Unused  == [p \in 0 .. BufLen - 1 |-> Blank]

TypeOK ==
    /\ inRing \in Ring(Frames \cup {None}) /\ outRing \in Ring(Frames \cup {None})
    /\ sem \in 0 .. Size
    /\ current \in Frames \cup {None} /\ offset \in Nat /\ ignoring \in BOOLEAN
    /\ reading \in [block : Frames \cup {None}, at : Nat, got : Nat]
    /\ buf \in [Frames -> [0 .. BufLen - 1 -> Packets \cup {Blank}]]
    /\ main \in [step : Steps, block : Frames \cup {None}]
    /\ host \in [no : 0 .. Numbers - 1, len : Lengths, sent : Nat]
    /\ configured \in 0 .. MaxConfigured /\ asserted \in BOOLEAN

Order == CHOOSE s \in [1 .. Size -> Frames] : \A i, j \in 1 .. Size : s[i] = s[j] => i = j

\* The initial content of pool.in, and that of usb_mempool_reset.
AllFree(ring) == Written(ring, Order)

\* usb_mempool_create, before the first CONFIGURED event.
Init ==
    /\ inRing = AllFree(EmptyRing(None)) /\ outRing = EmptyRing(None)
    /\ sem = 0 /\ current = None /\ offset = 0 /\ ignoring = FALSE
    /\ reading = [block |-> None, at |-> 0, got |-> 0]
    /\ buf = [f \in Frames |-> Unused]
    /\ main = [step |-> "idle", block |-> None]
    /\ \E n \in Lengths : host = [no |-> 0, len |-> n, sent |-> 0]
    /\ configured = 0 /\ asserted = FALSE

-----------------------------------------------------------------------------
(***************************************************************************)
(* The interrupt.                                                          *)
(***************************************************************************)
\* drop_frame: one packet into the dummy buffer.
DropFrame == reading' = [block |-> None, at |-> 0, got |-> 0] /\ UNCHANGED asserted

\* get_frame, with its assertion.
GetFrame(block, at) ==
    /\ asserted' = (at + ReadLen > BufLen)
    /\ reading' = [block |-> block, at |-> at, got |-> 0]

\* Mutant: the block is left in the ring.
Allocated_Peek(block) == inRing

\* usb_mempool_alloc; its result is None if the ring is empty.
Allocated(block) == IF block = None THEN inRing ELSE Popped(inRing, 1)
FirstFree == IF IsEmpty(inRing) THEN None ELSE Peeked(inRing, 1)[1]

\* A frame starts in the next free block, if there is one.
NextFrame ==
    /\ current' = FirstFree /\ inRing' = Allocated(FirstFree)
    /\ ignoring' = (FirstFree = None)
    /\ IF FirstFree = None
       THEN DropFrame /\ UNCHANGED offset
       ELSE GetFrame(FirstFree, 0) /\ offset' = 0

\* Mutant: a dropped frame whose block was kept is waited for again.
StartsOver_NeedsBlock(end) == end /\ current = None

\* The end of a frame that was dropped starts the next one.
StartsOver(end) == end

WhileIgnoring(end) ==
    /\ ignoring
    /\ \/ StartsOver(end) /\ current = None /\ NextFrame
       \/ /\ StartsOver(end) /\ current # None
          /\ ignoring' = FALSE /\ offset' = 0 /\ GetFrame(current, 0)
          /\ UNCHANGED <<inRing, current>>
       \/ /\ ~StartsOver(end) /\ DropFrame
          /\ UNCHANGED <<inRing, current, ignoring, offset>>
    /\ UNCHANGED <<outRing, sem>>

\* The header of the current frame, as the buffers B have it.
Oversized(B) == B[current][0][2] > 2 * BufLen

\* Mutant: the next part of a frame goes where the last one went.
PartEnd_Same(n) == offset

PartEnd(n) == offset + n

\* usb_mempool_send; a semaphore at its limit stays there.
Send(block) ==
    /\ outRing' = Written(outRing, <<block>>)
    /\ sem' = IF sem < Size THEN sem + 1 ELSE sem

WhileReceiving(B, n, end) ==
    /\ ~ignoring
    /\ \/ /\ Oversized(B)
          /\ ignoring' = TRUE /\ DropFrame
          /\ UNCHANGED <<inRing, outRing, sem, current, offset>>
       \/ /\ ~Oversized(B) /\ end
          /\ Send(current) /\ NextFrame
       \/ /\ ~Oversized(B) /\ ~end
          /\ offset' = PartEnd(n) /\ GetFrame(current, offset')
          /\ UNCHANGED <<inRing, outRing, sem, current, ignoring>>

\* A packet of the host arrives.  The read ends with a short packet or when
\* it is full, and usbd_display_bulk_out is told the number of its bytes: the
\* frame ends if that is 0 or no multiple of a packet.
HostPacket ==
    LET last  == host.sent = host.len \div 2
        empty == last /\ host.len % 2 = 0
        n     == IF last THEN reading.got ELSE reading.got + 1
        end   == last /\ (~empty \/ n = 0)
        place == reading.at + reading.got
        B     == IF reading.block = None \/ empty THEN buf
                 ELSE [buf EXCEPT ![reading.block][place] = <<host.no, host.len, host.sent>>]
    IN  /\ configured > 0 /\ ~asserted
        /\ buf' = B
        /\ IF last THEN \E len \in Lengths : host' = [no |-> (host.no + 1) % Numbers, len |-> len, sent |-> 0]
           ELSE host' = [host EXCEPT !.sent = @ + 1]
        /\ IF last \/ n = (IF reading.block = None THEN 1 ELSE ReadLen)
           THEN WhileIgnoring(end) \/ WhileReceiving(B, n, end)
           ELSE /\ reading' = [reading EXCEPT !.got = n]
                /\ UNCHANGED <<inRing, outRing, sem, current, offset, ignoring, asserted>>
        /\ UNCHANGED <<main, configured>>

\* The program has nothing of the pool in its hands, nor is about to.
Quiet == main.step = "idle" /\ sem = 0

\* The CONFIGURED event; the host starts a new frame.  The semaphore stays.
Configured ==
    /\ configured < MaxConfigured /\ ~asserted
    /\ configured' = configured + 1
    /\ inRing' = AllFree(ResetRing(inRing)) /\ outRing' = ResetRing(outRing)
    /\ current' = None /\ offset' = 0 /\ ignoring' = TRUE
    /\ reading' = [block |-> None, at |-> 0, got |-> 0]
    /\ \E len \in Lengths : host' = [no |-> (host.no + 1) % Numbers, len |-> len, sent |-> 0]
    /\ buf' = [f \in Frames |-> IF f = main.block THEN buf[f] ELSE Unused]
    /\ UNCHANGED <<sem, main, asserted>>

-----------------------------------------------------------------------------
(***************************************************************************)
(* The program: dequeue, use the frame, enqueue.                           *)
(***************************************************************************)
Idles == UNCHANGED <<current, offset, ignoring, reading, host, configured, asserted>>

\* usb_mempool_recv waits for the semaphore.
TakeSem ==
    /\ main.step = "idle" /\ sem > 0 /\ ~asserted
    /\ sem' = sem - 1 /\ main' = [main EXCEPT !.step = "peek"]
    /\ UNCHANGED <<inRing, outRing, buf>> /\ Idles

\* usb_ringbuffer_peek; recv fails if the ring is empty.
PeekFrame ==
    /\ main.step = "peek" /\ ~asserted
    /\ main' = IF IsEmpty(outRing) THEN [step |-> "idle", block |-> None]
               ELSE [step |-> "advance", block |-> Peeked(outRing, 1)[1]]
    /\ UNCHANGED <<inRing, outRing, sem, buf>> /\ Idles

\* rb->out += size
Advance ==
    /\ main.step = "advance" /\ ~asserted
    /\ outRing' = Popped(outRing, 1) /\ main' = [main EXCEPT !.step = "hold"]
    /\ UNCHANGED <<inRing, sem, buf>> /\ Idles

\* usb_mempool_free, up to the copy of the block's address.  There is always
\* room: the ring has a place for every block.
FreeFrame ==
    /\ main.step = "hold" /\ ~asserted
    /\ inRing' = IF Free(inRing) = 0 THEN inRing ELSE Copied(inRing, <<main.block>>)
    /\ main' = IF Free(inRing) = 0 THEN [step |-> "idle", block |-> None]
               ELSE [main EXCEPT !.step = "publish"]
    /\ UNCHANGED <<outRing, sem, buf>> /\ Idles

\* rb->in += size
Publish ==
    /\ main.step = "publish" /\ ~asserted
    /\ inRing' = Pushed(inRing, 1) /\ main' = [step |-> "idle", block |-> None]
    /\ buf' = [buf EXCEPT ![main.block] = Unused]
    /\ UNCHANGED <<outRing, sem>> /\ Idles

Program == TakeSem \/ PeekFrame \/ Advance \/ FreeFrame \/ Publish

\* The host configures the device again only while the program waits for a
\* frame and none is there; see AnySpec.
Next    == HostPacket \/ Program \/ (Quiet /\ Configured)
AnyNext == HostPacket \/ Program \/ Configured

Spec     == Init /\ [][Next]_vars
AnySpec  == Init /\ [][AnyNext]_vars
FairSpec == Spec /\ WF_vars(HostPacket) /\ WF_vars(Program)

-----------------------------------------------------------------------------
(***************************************************************************)
(* Properties.                                                             *)
(***************************************************************************)
Holding == main.step \in {"hold", "publish"}

Elements(s) == {s[k] : k \in DOMAIN s}

(* Every block is in one place: free, filled by the interrupt, waiting for *)
(* the program, or in its hands; so the interrupt never writes to a frame  *)
(* the program reads.  The semaphore counts the waiting ones, so a receive *)
(* that got the semaphore finds a frame.                                   *)
OnePlace ==
    /\ LET free    == Content(inRing)
           waiting == Content(outRing)
           mine    == (IF current = None THEN <<>> ELSE <<current>>)
                        \o (IF Holding THEN <<main.block>> ELSE <<>>)
           all     == free \o waiting \o mine
       IN  Len(all) = Size /\ Elements(all) = Frames
    /\ Used(outRing) = sem + (IF main.step \in {"peek", "advance"} THEN 1 ELSE 0)

\* The frame in a block, if it is one frame of the host and all of it.
Torn == Numbers
Delivered(block) ==
    LET first == buf[block][0]
        count == (first[2] + 1) \div 2
    IN  IF \A p \in 0 .. BufLen - 1 : p < count => buf[block][p] = <<first[1], first[2], p>>
        THEN first[1] ELSE Torn

Queue == INSTANCE FrameQueue WITH
    Ids <- 0 .. Numbers - 1, Capacity <- Size,
    arriving <- host.no,
    queue <- [k \in 1 .. Used(outRing) |-> Delivered(Content(outRing)[k])],
    holding <- IF Holding THEN Delivered(main.block) ELSE None

(* The program sees a queue of whole frames: each in the order of the host,*)
(* at most once, and untouched while it holds one.                         *)
ImplementsQueue == Queue!Spec

(* However many frames were dropped, for want of a block or for their      *)
(* size: as long as the host sends frames that fit, frames reach the       *)
(* program again.                                                          *)
FramesKeepComing ==
    []<>(configured > 0 /\ host.len <= 2 * BufLen /\ host.sent = host.len \div 2)
        => []<>(main.step = "hold")

(* The assertion of get_frame holds: a frame accepted for its size leaves  *)
(* room for each read (usbd_display.c:130).                                *)
AssertionHolds == ~asserted
=============================================================================
