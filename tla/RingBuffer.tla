------------------------------- MODULE RingBuffer ------------------------------
(***************************************************************************)
(* The ring buffer (common/usb_ringbuffer.h): two free-running counters    *)
(* and a pool whose size divides their range.  A ring is the record        *)
(* [in, out, pool]; one unit is a byte, or the pointer that the memory     *)
(* pool always reads and writes whole.                                     *)
(*                                                                         *)
(* The functions read the counters, copy, and then move one counter, and   *)
(* nothing is locked: a writer and a reader may be in the middle of theirs.*)
(* The steps are operators of their own, for the modules that interleave.  *)
(***************************************************************************)
EXTENDS Integers, Sequences

CONSTANTS
    Size,       \* mask + 1, a power of 2
    Wrap        \* range of the counters: 2^32

ASSUME RingAssumption == Size \in Nat \ {0} /\ Wrap \in Nat /\ Wrap > Size /\ Wrap % Size = 0

Ring(Data) == [in : 0 .. Wrap - 1, out : 0 .. Wrap - 1, pool : [0 .. Size - 1 -> Data]]

\* usb_ringbuffer_init
EmptyRing(blank) == [in |-> 0, out |-> 0, pool |-> [j \in 0 .. Size - 1 |-> blank]]

\* usb_ringbuffer_reset
ResetRing(r) == [r EXCEPT !.in = 0, !.out = 0]

\* usb_ringbuffer_reset_read
ResetRead(r) == [r EXCEPT !.out = r.in]

\* usb_ringbuffer_get_used
Used(r) == (r.in - r.out) % Wrap

\* usb_ringbuffer_get_free: unsigned as well.
Free(r) == (Size - Used(r)) % Wrap

\* usb_ringbuffer_check_empty
IsEmpty(r) == r.in = r.out

\* What a write of n, and a read of n, will move.
Writable(r, n) == IF n > Free(r) THEN Free(r) ELSE n
Readable(r, n) == IF n > Used(r) THEN Used(r) ELSE n

\* The copies of usb_ringbuffer_write, at most up to the end of the pool and
\* then from its start.
Copied(r, data) ==
    [r EXCEPT !.pool = [j \in 0 .. Size - 1 |->
        LET k == (j - r.in) % Size IN IF k < Len(data) THEN data[k + 1] ELSE r.pool[j]]]

\* The last statement of a write.
Pushed(r, n) == [r EXCEPT !.in = (@ + n) % Wrap]

\* The copies of usb_ringbuffer_peek.
Peeked(r, n) == [k \in 1 .. n |-> r.pool[(r.out + k - 1) % Size]]

\* The last statement of a read.
Popped(r, n) == [r EXCEPT !.out = (@ + n) % Wrap]

\* A whole usb_ringbuffer_write.
Written(r, data) ==
    LET n == Writable(r, Len(data))
    IN  Pushed(Copied(r, SubSeq(data, 1, n)), n)

\* usb_ringbuffer_drop, and usb_ringbuffer_linear_read_done
Dropped(r, n) == Popped(r, Readable(r, n))

\* usb_ringbuffer_overwrite: what does not fit pushes out the oldest units, and
\* of data longer than the ring the start is kept.
Overwritten(r, data) ==
    LET n == IF Len(data) > Free(r) /\ Len(data) > Size THEN Size ELSE Len(data)
        lost == IF Len(data) > Free(r) THEN (n - Free(r)) % Wrap ELSE 0
    IN  Pushed(Copied(Popped(r, lost), SubSeq(data, 1, n)), n)

(* Access without a copy: the place in the pool, and how much of what is   *)
(* there to read, or free to write, lies behind it in one piece.           *)
OnePiece(at, n) == [at |-> at, n |-> IF Size - at > n THEN n ELSE Size - at]

\* usb_ringbuffer_linear_read_setup
LinearRead(r) == IF IsEmpty(r) THEN [at |-> 0, n |-> 0] ELSE OnePiece(r.out % Size, Used(r))

\* usb_ringbuffer_linear_write_setup, and what the caller then does
LinearWrite(r) == IF Free(r) = 0 THEN [at |-> 0, n |-> 0] ELSE OnePiece(r.in % Size, Free(r))

Filled(r, at, data) ==
    [r EXCEPT !.pool = [j \in 0 .. Size - 1 |->
        IF j \in at .. at + Len(data) - 1 THEN data[j - at + 1] ELSE r.pool[j]]]

\* usb_ringbuffer_linear_write_done
LinearWritten(r, n) == Pushed(r, Writable(r, n))

\* All that can be read.
Content(r) == Peeked(r, Used(r))
=============================================================================
