--------------------------- MODULE UsbhSerial_proofs ---------------------------
(***************************************************************************)
(* Type correctness of UsbhSerial, and that a transfer is under way only   *)
(* while the ring has room for it, but for the transfer of an overtaken    *)
(* read, for every size of the ring, of the transfers and of the calls of  *)
(* the reader.                                                             *)
(***************************************************************************)
EXTENDS UsbhSerial, RingBuffer_proofs

\* A transfer fills the half of iobuffer that is not being copied.
OwnHalf ==
    /\ urb.state # "none" => urb.buffer = rxIndex
    /\ callback # None => callback # rxIndex

\* What a transfer brings is no more than was asked for.
ShortBuffers == \A b \in Buffers : Len(iobuffer[b]) <= BulkIn

\* The reader moves on by what it has seen.
GotInRing == program.step = "advance" => program.got <= Used(ring)

\* The room of a read that tests it holds until a callback comes; a transfer
\* the callback has started has room behind what is being copied, whoever
\* started the one before; and only what is on its way is an overtaken read's.
SeenRoom ==
    /\ callback # None /\ urb.state # "none" => Copying + BulkIn <= Free(ring)
    /\ program.step \in Testing /\ overtaken # "read" => BulkIn <= Free(ring)
    /\ overtaken = "transfer" => urb.state # "none" \/ callback # None

IInv == TypeOK /\ RoomForTransfers /\ OwnHalf /\ ShortBuffers /\ GotInRing /\ SeenRoom

-----------------------------------------------------------------------------
LEMMA ModRange == ASSUME NEW w \in Nat \ {0}, NEW a \in Int PROVE a % w \in 0 .. w - 1
OBVIOUS

LEMMA ConstantTypes ==
    /\ BulkIn \in Nat \ {0} /\ Header \in Nat /\ BulkIn <= Size /\ Numbers \in Nat \ {0}
    /\ Size \in Nat \ {0} /\ SemMax \in Nat \ {0} /\ MaxFaults \in Nat /\ MaxFresh \in Nat
    /\ Wrap \in Nat \ {0} /\ Bytes # {} /\ 0 \in Bytes
BY SerialAssumption, RingAssumption DEF Bytes

(* What the calls that several actions make give back.                     *)
LEMMA EmptyType == EmptyRing(0) \in Ring(Bytes) /\ Used(EmptyRing(0)) = 0
<1>1. EmptyRing(0) \in Ring(Bytes)
  BY ConstantTypes DEF EmptyRing, Ring
<1>2. Used(EmptyRing(0)) = (0 - 0) % Wrap
  BY DEF Used, EmptyRing
<1>3. 0 \in 0 .. Wrap - 1 /\ 0 - 0 = 0
  BY ConstantTypes
<1> QED
  BY <1>1, <1>2, <1>3, ConstantTypes, ModSmall

LEMMA GivenType == TypeOK => Given \in 0 .. SemMax
BY ConstantTypes DEF TypeOK, Given

LEMMA LoseType == TypeOK /\ Lose => next' \in Bytes
BY ConstantTypes, ModRange DEF TypeOK, Lose, Bytes

LEMMA FaultType == TypeOK /\ (NoFault \/ AFault) => faults' \in 0 .. MaxFaults
BY ConstantTypes DEF TypeOK, NoFault, AFault

LEMMA CopyingType == TypeOK => Copying \in Nat
BY DEF TypeOK, Copying, None, Buffers

-----------------------------------------------------------------------------
LEMMA InitIInv == Init => IInv
<1> SUFFICES ASSUME Init PROVE IInv
  OBVIOUS
<1>1. Used(ring) = 0 /\ ring \in Ring(Bytes)
  BY EmptyType DEF Init
<1>2. TypeOK
  <2>1. iobuffer \in [Buffers -> Seq(Bytes)]
    BY DEF Init
  <2>2. /\ urb \in [state : {"none", "active", "filled"}, buffer : Buffers]
        /\ rxIndex \in Buffers /\ callback \in Buffers \cup {None}
    BY DEF Init, Buffers
  <2>3. program \in [step : Steps, got : Nat, unset : BOOLEAN] /\ nonblock \in BOOLEAN
    BY DEF Init, Steps
  <2>6. overtaken \in {"no", "read", "transfer"}
    BY DEF Init
  <2>4. sem \in 0 .. SemMax /\ next \in Bytes /\ faults \in 0 .. MaxFaults /\ fresh \in 0 .. MaxFresh
    <3>1. sem = 0 /\ next = 0 /\ faults = 0 /\ fresh = 0
      BY DEF Init
    <3> QED
      BY <3>1, ConstantTypes
  <2>5. pending \in BOOLEAN /\ errorcode \in BOOLEAN
    BY DEF Init
  <2> QED
    BY <1>1, <2>1, <2>2, <2>3, <2>4, <2>5, <2>6 DEF TypeOK
<1>3. Free(ring) = Size
  BY <1>1, FreeIs, ConstantTypes
<1>4. RoomForTransfers
  BY <1>1, <1>3, ConstantTypes DEF Init, RoomForTransfers, Copying
<1>5. OwnHalf /\ ShortBuffers /\ GotInRing
  BY ConstantTypes DEF Init, OwnHalf, ShortBuffers, GotInRing, None, Buffers
<1>6. SeenRoom
  BY DEF Init, SeenRoom, Testing
<1> QED
  BY <1>2, <1>4, <1>5, <1>6 DEF IInv

(* The controller.                                                         *)
LEMMA FillIInv == IInv /\ Fill => IInv'
<1> SUFFICES ASSUME IInv, Fill PROVE IInv'
  OBVIOUS
<1> USE DEF IInv
<1>12. /\ urb.state = "active" /\ urb' = [urb EXCEPT !.state = "filled"]
       /\ UNCHANGED <<ring, rxIndex, pending, errorcode, sem, callback, program, nonblock,
                      overtaken, faults, fresh>>
  BY DEF Fill
<1>1. PICK n \in 0 .. BulkIn - Header :
        /\ iobuffer' = [iobuffer EXCEPT ![urb.buffer] = [k \in 1 .. n |-> (next + k - 1) % Numbers]]
        /\ next' = (next + n) % Numbers
  BY DEF Fill
<1> DEFINE s == [k \in 1 .. n |-> (next + k - 1) % Numbers]
<1>10. next \in Int /\ n \in Nat /\ n <= BulkIn
  BY ConstantTypes DEF TypeOK, Bytes
<1>11. \A a \in Int : a % Numbers \in Bytes
  BY ConstantTypes, ModRange DEF Bytes
<1>2. s \in Seq(Bytes) /\ Len(s) = n
  <2>1. \A k \in 1 .. n : s[k] \in Bytes
    BY <1>10, <1>11
  <2>2. s \in [1 .. n -> Bytes]
    BY <2>1
  <2> HIDE DEF s
  <2> QED
    BY <1>10, <2>2, SeqOf
<1> HIDE DEF s
<1>3. iobuffer' \in [Buffers -> Seq(Bytes)]
  BY <1>1, <1>2 DEF TypeOK, s
<1>4. next' \in Bytes
  BY <1>1, <1>10, <1>11
<1>5. TypeOK'
  BY <1>3, <1>4, <1>12 DEF TypeOK
<1>6. ShortBuffers'
  BY <1>1, <1>2, <1>10 DEF ShortBuffers, TypeOK, s
<1>7. Copying' = Copying
  BY <1>1, <1>12 DEF Copying, OwnHalf, TypeOK
<1>8. RoomForTransfers'
  <2>1. Used(ring)' = Used(ring) /\ Free(ring)' = Free(ring)
    BY <1>12 DEF Used, Free
  <2>2. urb.state # "none" /\ urb'.state # "none"
    BY <1>12 DEF TypeOK
  <2> QED
    BY <1>7, <1>12, <2>1, <2>2 DEF RoomForTransfers
<1>9. OwnHalf' /\ GotInRing'
  BY <1>12 DEF OwnHalf, GotInRing, TypeOK, Used
<1>13. SeenRoom'
  BY <1>7, <1>12 DEF SeenRoom, TypeOK, Free, Used
<1> QED
  BY <1>5, <1>6, <1>8, <1>9, <1>13

(* A step that takes no buffer away from the callback and starts no        *)
(* transfer leaves the room there is.                                      *)
LEMMA SameRoom ==
    ASSUME RoomForTransfers, SeenRoom, TypeOK, ring' = ring, Copying' = Copying,
           callback' = callback, overtaken' = overtaken, urb' = urb,
           program'.step \in Testing => program.step \in Testing \/ BulkIn <= Free(ring)
    PROVE  RoomForTransfers' /\ SeenRoom'
<1>1. Used(ring)' = Used(ring) /\ Free(ring)' = Free(ring)
  BY DEF Used, Free
<1>2. RoomForTransfers'
  BY <1>1 DEF RoomForTransfers
<1>3. SeenRoom'
  BY <1>1 DEF SeenRoom
<1> QED
  BY <1>2, <1>3

(* So does a step that ends the transfer.                                  *)
LEMMA RoomAtRest ==
    ASSUME RoomForTransfers, SeenRoom, TypeOK, ring' = ring, Ends, callback = None,
           callback' = None, urb'.state = "none",
           program'.step \in Testing => program.step \in Testing
    PROVE  RoomForTransfers' /\ SeenRoom' /\ overtaken' \in {"no", "read", "transfer"}
<1>1. Used(ring)' = Used(ring) /\ Free(ring)' = Free(ring)
  BY DEF Used, Free
<1>2. Copying' = 0 /\ Free(ring) \in 0 .. Size
  BY FreeIs DEF Copying, TypeOK, RoomForTransfers
<1>3. overtaken' \in {"no", "read"} /\ (overtaken' # "read" => overtaken # "read")
  BY DEF Ends, TypeOK
<1>4. RoomForTransfers'
  BY <1>1, <1>2, ConstantTypes DEF RoomForTransfers
<1>5. SeenRoom'
  BY <1>1, <1>3 DEF SeenRoom
<1> QED
  BY <1>3, <1>4, <1>5

LEMMA TransferFailsIInv == IInv /\ TransferFails => IInv'
<1> SUFFICES ASSUME IInv, TransferFails PROVE IInv'
  OBVIOUS
<1> USE DEF IInv, TransferFails
<1>1. RoomForTransfers' /\ SeenRoom' /\ overtaken' \in {"no", "read", "transfer"}
  BY RoomAtRest DEF Idle
<1>2. TypeOK'
  BY <1>1, ConstantTypes, GivenType, LoseType, FaultType DEF TypeOK, Idle, Buffers
<1>3. OwnHalf' /\ ShortBuffers' /\ GotInRing'
  BY DEF OwnHalf, ShortBuffers, GotInRing, Idle, Used
<1> QED
  BY <1>1, <1>2, <1>3

(* The callback.                                                           *)
LEMMA CallbackStartsIInv == IInv /\ CallbackStarts => IInv'
<1> SUFFICES ASSUME IInv, CallbackStarts PROVE IInv'
  OBVIOUS
<1> USE ConstantTypes DEF IInv
<1> DEFINE n == Len(iobuffer[urb.buffer])
<1>1. /\ urb.state = "filled" /\ callback = None
      /\ rxIndex' = 1 - rxIndex
      /\ UNCHANGED <<ring, iobuffer, program, nonblock, next, fresh>>
  BY DEF CallbackStarts, NextIndex
<1>2. \/ /\ pending' = TRUE /\ urb' = Idle
         /\ callback' = rxIndex /\ NoFault /\ UNCHANGED <<errorcode, sem, overtaken>>
      \/ /\ ~(n + BulkIn > Free(ring)) /\ pending' = FALSE
         /\ urb' = [state |-> "active", buffer |-> rxIndex']
         /\ callback' = rxIndex /\ errorcode' = FALSE /\ NoFault /\ UNCHANGED <<sem, overtaken>>
      \/ /\ pending' = FALSE /\ AFault /\ urb' = Idle
         /\ errorcode' = TRUE /\ sem' = Given /\ Ends /\ UNCHANGED callback
  BY DEF CallbackStarts, Restart, WouldOverflow
<1>3. urb.buffer = rxIndex /\ n \in Nat /\ n <= BulkIn
  BY <1>1 DEF TypeOK, OwnHalf, ShortBuffers
<1>4. rxIndex' \in Buffers /\ rxIndex' # rxIndex
  BY <1>1 DEF TypeOK, Buffers
<1>5. TypeOK'
  <2>1. /\ urb' \in [state : {"none", "active", "filled"}, buffer : Buffers]
        /\ callback' \in Buffers \cup {None} /\ sem' \in 0 .. SemMax
    BY <1>1, <1>2, <1>4, GivenType DEF TypeOK, Idle, Buffers
  <2>2. errorcode' \in BOOLEAN /\ faults' \in 0 .. MaxFaults
    BY <1>2, FaultType DEF TypeOK
  <2>3. overtaken' \in {"no", "read", "transfer"} /\ pending' \in BOOLEAN
    BY <1>2 DEF TypeOK, Ends
  <2> QED
    BY <1>1, <1>2, <1>4, <2>1, <2>2, <2>3 DEF TypeOK
<1>6. Used(ring)' = Used(ring) /\ Free(ring)' = Free(ring) /\ Free(ring) \in 0 .. Size
  BY <1>1, FreeIs DEF TypeOK, RoomForTransfers, Used, Free
<1>7. RoomForTransfers' /\ SeenRoom'
  <2>1. overtaken # "transfer" => BulkIn <= Free(ring)
    BY <1>1, <1>6 DEF RoomForTransfers, Copying
  <2>2. CASE callback' = rxIndex /\ urb' = Idle /\ overtaken' = overtaken
    <3>1. Copying' = n /\ callback' # None /\ urb'.state = "none"
      BY <1>1, <1>3, <2>2 DEF Copying, TypeOK, None, Buffers, Idle
    <3>2. RoomForTransfers'
      BY <1>3, <1>6, <2>1, <2>2, <3>1 DEF RoomForTransfers
    <3>3. SeenRoom'
      BY <1>1, <1>6, <2>2, <3>1 DEF SeenRoom
    <3> QED
      BY <3>2, <3>3
  <2>3. CASE /\ ~(n + BulkIn > Free(ring)) /\ callback' = rxIndex
             /\ urb' = [state |-> "active", buffer |-> rxIndex'] /\ overtaken' = overtaken
    <3>1. Copying' = n /\ callback' # None /\ urb'.state = "active"
      BY <1>1, <1>3, <2>3 DEF Copying, TypeOK, None, Buffers
    <3>2. n + BulkIn <= Free(ring)
      BY <1>3, <1>6, <2>3
    <3>3. RoomForTransfers'
      BY <1>3, <1>6, <3>1, <3>2 DEF RoomForTransfers
    <3>4. SeenRoom'
      BY <1>1, <1>3, <1>6, <2>3, <3>1, <3>2 DEF SeenRoom
    <3> QED
      BY <3>3, <3>4
  <2>4. CASE callback' = callback /\ urb' = Idle /\ Ends
    BY <1>1, <2>4, RoomAtRest DEF Idle
  <2> QED
    BY <1>2, <2>2, <2>3, <2>4
<1>8. OwnHalf'
  BY <1>1, <1>2, <1>4 DEF OwnHalf, Idle
<1>9. ShortBuffers' /\ GotInRing'
  BY <1>1, <1>6 DEF ShortBuffers, GotInRing
<1> QED
  BY <1>5, <1>7, <1>8, <1>9

(* Of what does not fit into the ring the front is written.                *)
Kept(r, data) == SubSeq(data, 1, Writable(r, Len(data)))

LEMMA WrittenKept ==
    ASSUME NEW Data, NEW r \in Ring(Data), NEW data \in Seq(Data), Used(r) <= Size
    PROVE  /\ Written(r, data) = Written(r, Kept(r, data))
           /\ Kept(r, data) \in Seq(Data) /\ Len(Kept(r, data)) = Writable(r, Len(data))
           /\ Writable(r, Len(data)) \in 0 .. Len(data)
           /\ Used(r) + Writable(r, Len(data)) <= Size
           /\ Used(r) + Len(data) <= Size => Kept(r, data) = data
           /\ Used(r) + Len(data) > Size => Used(r) + Writable(r, Len(data)) = Size
<1> DEFINE w == Writable(r, Len(data))
           kept == SubSeq(data, 1, w)
<1>1. Used(r) \in Nat /\ Size \in Nat /\ Free(r) = Size - Used(r) /\ Free(r) \in Nat
  <2>1. Used(r) \in 0 .. Wrap - 1
    BY UsedType
  <2> QED
    BY <2>1, FreeIs, ConstantTypes
<1>2. w \in Nat /\ w <= Len(data) /\ w <= Free(r)
  BY <1>1 DEF Writable
<1>3. w = Len(data) \/ w = Free(r)
  BY DEF Writable
<1>4. Used(r) + Len(data) <= Size => w = Len(data)
  BY <1>1 DEF Writable
<1>5. Used(r) + Len(data) > Size => w = Free(r)
  <2>1. Len(data) \in Nat
    OBVIOUS
  <2> HIDE DEF w
  <2> QED
    BY <1>1, <1>2, <1>3, <2>1
<1> HIDE DEF w
<1>6. kept \in Seq(Data) /\ Len(kept) = w
  BY <1>2
<1>7. SubSeq(data, 1, Len(data)) = data
  OBVIOUS
<1> HIDE DEF kept
<1>8. SubSeq(kept, 1, w) = kept
  BY <1>6
<1>9. Writable(r, w) = w
  BY <1>1, <1>2 DEF Writable
<1>10. Written(r, kept) = Written(r, data)
  <2>1. Written(r, kept) = Pushed(Copied(r, SubSeq(kept, 1, w)), w)
    BY <1>6, <1>9 DEF Written
  <2>2. Written(r, data) = Pushed(Copied(r, kept), w)
    BY DEF Written, kept, w
  <2> QED
    BY <1>8, <2>1, <2>2
<1>11. kept = Kept(r, data)
  BY DEF Kept, kept, w
<1>12. Used(r) + Len(data) <= Size => kept = data
  BY <1>4, <1>7 DEF kept
<1>13. Used(r) + w <= Size /\ (Used(r) + Len(data) > Size => Used(r) + w = Size)
  BY <1>1, <1>2, <1>5
<1> QED
  BY <1>2, <1>6, <1>10, <1>11, <1>12, <1>13 DEF w

LEMMA CallbackCopiesIInv == IInv /\ CallbackCopies => IInv'
<1> SUFFICES ASSUME IInv, CallbackCopies PROVE IInv'
  OBVIOUS
<1> USE ConstantTypes DEF IInv
<1> DEFINE data == iobuffer[callback]
           w    == Writable(ring, Len(data))
<1>1. /\ callback # None /\ callback' = None /\ ring' = Written(ring, data)
      /\ overtaken' = (IF program.step \in Testing THEN "read" ELSE "no")
      /\ errorcode' = FALSE /\ sem' = Given
      /\ iobuffer' = [iobuffer EXCEPT ![callback] =
                        IF urb = [state |-> "filled", buffer |-> callback] THEN @ ELSE <<>>]
      /\ UNCHANGED <<urb, rxIndex, pending, program, nonblock, next, faults, fresh>>
  BY DEF CallbackCopies
<1>2. data \in Seq(Bytes) /\ Len(data) \in Nat /\ Copying = Len(data)
  BY <1>1 DEF TypeOK, Copying
<1>3. Used(ring) \in Nat /\ Used(ring) <= Size /\ Free(ring) = Size - Used(ring) /\ ring \in Ring(Bytes)
  BY FreeIs, UsedType DEF TypeOK, RoomForTransfers
<1>4. ring' \in Ring(Bytes) /\ Used(ring') = Used(ring) + w /\ w \in Nat /\ w <= Len(data)
        /\ Used(ring) + w <= Size
  <2> DEFINE kept == Kept(ring, data)
  <2>1. /\ ring' = Written(ring, kept) /\ kept \in Seq(Bytes) /\ Len(kept) = w
        /\ w \in 0 .. Len(data) /\ Used(ring) + w <= Size
    <3> HIDE DEF data
    <3> QED
      BY <1>1, <1>2, <1>3, WrittenKept
  <2> HIDE DEF kept, w, data
  <2>2. Written(ring, kept) \in Ring(Bytes) /\ Used(Written(ring, kept)) = Used(ring) + Len(kept)
    BY <1>3, <2>1, WrittenIs
  <2> QED
    BY <1>2, <2>1, <2>2
<1> HIDE DEF w
<1>5. Free(ring') = Size - (Used(ring) + w) /\ Used(ring)' = Used(ring') /\ Free(ring)' = Free(ring')
  <2>1. Used(ring') <= Size
    BY <1>4
  <2>2. Free(ring') = Size - Used(ring')
    BY <1>4, <2>1, FreeIs
  <2>3. Used(ring)' = Used(ring') /\ Free(ring)' = Free(ring')
    BY DEF Used, Free
  <2> QED
    BY <1>4, <2>2, <2>3
<1>6. /\ iobuffer' \in [Buffers -> Seq(Bytes)]
      /\ \A b \in Buffers : iobuffer'[b] = iobuffer[b] \/ iobuffer'[b] = <<>>
  BY <1>1 DEF TypeOK
<1>7. TypeOK'
  BY <1>1, <1>4, <1>6, GivenType DEF TypeOK
<1>8. Copying' = 0
  BY <1>1 DEF Copying
<1>9. RoomForTransfers'
  <2> DEFINE free == Free(ring)'
  <2>3. Used(ring)' <= Size /\ free = Size - (Used(ring) + w) /\ free \in Nat
    BY <1>3, <1>4, <1>5
  <2> HIDE DEF free, data
  <2>1. CASE urb.state = "none"
    <3>1. urb'.state = "none" /\ 0 + 0 <= free
      BY <1>1, <2>1, <2>3
    <3> QED
      BY <1>8, <2>3, <3>1 DEF RoomForTransfers, free
  <2>2. CASE urb.state # "none"
    <3>1. Len(data) + BulkIn <= Free(ring)
      BY <1>1, <1>2, <2>2 DEF SeenRoom
    <3>2. 0 + BulkIn <= free
      <4>1. w \in Int /\ Len(data) \in Int /\ Used(ring) \in Int /\ Size \in Int /\ BulkIn \in Int
        BY <1>2, <1>3, <1>4
      <4>2. w <= Len(data) /\ Len(data) + BulkIn <= Size - Used(ring)
        BY <1>3, <1>4, <3>1
      <4> QED
        BY <2>3, <4>1, <4>2
    <3>3. urb'.state # "none"
      BY <1>1, <2>2
    <3> QED
      BY <1>8, <2>3, <3>2, <3>3 DEF RoomForTransfers, free
  <2> QED
    BY <2>1, <2>2
<1>10. OwnHalf'
  BY <1>1 DEF OwnHalf
<1>11. ShortBuffers'
  BY <1>6 DEF ShortBuffers
<1>12. GotInRing'
  BY <1>1, <1>3, <1>4, <1>5 DEF GotInRing, TypeOK
<1>13. SeenRoom'
  BY <1>1 DEF SeenRoom
<1> QED
  BY <1>7, <1>9, <1>10, <1>11, <1>12, <1>13

-----------------------------------------------------------------------------
(* The calls of the program.                                               *)
LEMMA KillType == TypeOK /\ Kill => errorcode' \in BOOLEAN /\ sem' \in 0 .. SemMax
BY GivenType DEF TypeOK, Kill

(* A fresh ring has room for a transfer.                                   *)
LEMMA RoomInEmpty ==
    ASSUME ring' = EmptyRing(0), callback' = None, overtaken' # "transfer"
    PROVE  ring' \in Ring(Bytes) /\ RoomForTransfers' /\ SeenRoom'
<1>1. Used(ring') = 0 /\ ring' \in Ring(Bytes)
  BY EmptyType
<1>2. Free(ring') = Size
  BY <1>1, FreeIs, ConstantTypes
<1>3. Copying' = 0 /\ Used(ring)' = Used(ring') /\ Free(ring)' = Free(ring')
  BY DEF Copying, Used, Free
<1> QED
  BY <1>1, <1>2, <1>3, ConstantTypes DEF RoomForTransfers, SeenRoom

LEMMA OpenIInv == IInv /\ Open => IInv'
<1> SUFFICES ASSUME IInv, Open PROVE IInv'
  OBVIOUS
<1> USE DEF IInv, Open, At
<1>1. fresh' \in 0 .. MaxFresh
  BY ConstantTypes DEF TypeOK
<1>2. program' \in [step : Steps, got : Nat, unset : BOOLEAN]
  BY DEF TypeOK, Steps
<1>3. ring' \in Ring(Bytes) /\ RoomForTransfers' /\ SeenRoom'
  BY RoomInEmpty
<1>4. TypeOK'
  BY <1>1, <1>2, <1>3, LoseType DEF TypeOK
<1>5. OwnHalf' /\ ShortBuffers' /\ GotInRing'
  BY DEF OwnHalf, ShortBuffers, GotInRing
<1> QED
  BY <1>3, <1>4, <1>5

LEMMA CloseIInv == IInv /\ Close => IInv'
<1> SUFFICES ASSUME IInv, Close PROVE IInv'
  OBVIOUS
<1> USE DEF IInv, Close, At
<1>1. program' \in [step : Steps, got : Nat, unset : BOOLEAN] /\ program'.step = "closed"
  BY DEF TypeOK, Steps
<1>2. RoomForTransfers' /\ SeenRoom' /\ overtaken' \in {"no", "read", "transfer"}
  BY <1>1, RoomAtRest DEF Idle, Testing
<1>3. TypeOK'
  BY <1>1, <1>2, KillType DEF TypeOK, Idle, Buffers
<1>4. OwnHalf' /\ ShortBuffers' /\ GotInRing'
  BY <1>1 DEF OwnHalf, ShortBuffers, GotInRing, Idle
<1> QED
  BY <1>2, <1>3, <1>4

LEMMA SetAttrIInv == IInv /\ SetAttr => IInv'
<1> SUFFICES ASSUME IInv, SetAttr PROVE IInv'
  OBVIOUS
<1> USE DEF IInv
<1>1. /\ program.step = "idle" /\ callback = None
      /\ UNCHANGED <<iobuffer, pending, callback, nonblock>> /\ Lose
      /\ fresh' = fresh \/ (fresh < MaxFresh /\ fresh' = fresh + 1)
      /\ \/ AFault /\ Kill /\ urb' = Idle /\ UNCHANGED <<ring, rxIndex>>
         \/ /\ AFault \/ NoFault
            /\ urb' = Idle \/ urb' = [state |-> "active", buffer |-> 0]
            /\ ring' = EmptyRing(0) /\ sem' = 0 /\ rxIndex' = 0 /\ errorcode' = FALSE
      /\ \E u \in BOOLEAN : program' = [program EXCEPT !.unset = u]
  BY DEF SetAttr, At, Restart
<1>7. Ends /\ overtaken' \in {"no", "read"}
  BY DEF SetAttr, Ends, TypeOK
<1>2. fresh' \in 0 .. MaxFresh /\ faults' \in 0 .. MaxFaults
  BY <1>1, ConstantTypes, FaultType DEF TypeOK
<1>3. program' \in [step : Steps, got : Nat, unset : BOOLEAN] /\ program'.step = "idle"
  BY <1>1 DEF TypeOK
<1>4. next' \in Bytes
  BY <1>1, LoseType
<1>5. CASE AFault /\ Kill /\ urb' = Idle /\ UNCHANGED <<ring, rxIndex>>
  <2>1. TypeOK'
    BY <1>1, <1>2, <1>3, <1>4, <1>5, <1>7, KillType DEF TypeOK, Idle, Buffers
  <2>2. RoomForTransfers' /\ SeenRoom'
    BY <1>1, <1>3, <1>5, <1>7, RoomAtRest DEF Idle, Testing
  <2>3. OwnHalf' /\ ShortBuffers' /\ GotInRing'
    BY <1>1, <1>3, <1>5 DEF OwnHalf, ShortBuffers, GotInRing, Idle
  <2> QED
    BY <2>1, <2>2, <2>3
<1>6. CASE /\ urb' = Idle \/ urb' = [state |-> "active", buffer |-> 0]
           /\ ring' = EmptyRing(0) /\ sem' = 0 /\ rxIndex' = 0 /\ errorcode' = FALSE
  <2>1. ring' \in Ring(Bytes) /\ RoomForTransfers' /\ SeenRoom'
    BY <1>1, <1>6, <1>7, RoomInEmpty
  <2>2. TypeOK'
    <3>1. urb' \in [state : {"none", "active", "filled"}, buffer : Buffers] /\ rxIndex' \in Buffers
      BY <1>6 DEF Idle, Buffers
    <3>2. sem' \in 0 .. SemMax
      BY <1>6, ConstantTypes
    <3>3. errorcode' \in BOOLEAN
      BY <1>6
    <3> QED
      BY <1>1, <1>2, <1>3, <1>4, <1>7, <2>1, <3>1, <3>2, <3>3 DEF TypeOK
  <2>3. OwnHalf' /\ ShortBuffers' /\ GotInRing'
    BY <1>1, <1>3, <1>6 DEF OwnHalf, ShortBuffers, GotInRing, Idle
  <2> QED
    BY <2>1, <2>2, <2>3
<1> QED
  BY <1>1, <1>5, <1>6

(* The steps of a read that move neither bytes nor the transfer.           *)
LEMMA ReaderIInv ==
    ASSUME IInv, callback = None,
           UNCHANGED <<ring, urb, iobuffer, rxIndex, callback, nonblock, next, fresh>>,
           NoFault \/ AFault,
           program' \in [step : Steps, got : Nat, unset : BOOLEAN], program'.step # "advance",
           pending' \in BOOLEAN, errorcode' \in BOOLEAN, sem' \in 0 .. SemMax,
           \/ overtaken' = overtaken
           \/ overtaken # "transfer" /\ overtaken' = "no" /\ program'.step \notin Testing,
           program'.step \in Testing => program.step \in Testing \/ BulkIn <= Free(ring)
    PROVE  IInv'
<1> USE DEF IInv
<1>1. TypeOK'
  BY FaultType DEF TypeOK
<1>2. Used(ring)' = Used(ring) /\ Free(ring)' = Free(ring) /\ Copying' = Copying
  BY DEF Used, Free, Copying
<1>3. RoomForTransfers'
  BY <1>2 DEF RoomForTransfers
<1>4. SeenRoom'
  BY <1>2 DEF SeenRoom
<1>5. OwnHalf' /\ ShortBuffers' /\ GotInRing'
  BY DEF OwnHalf, ShortBuffers, GotInRing
<1> QED
  BY <1>1, <1>3, <1>4, <1>5

LEMMA GotoTo ==
    ASSUME TypeOK, NEW step \in Steps, Goto(step)
    PROVE  program' \in [step : Steps, got : Nat, unset : BOOLEAN] /\ program'.step = step
BY DEF TypeOK, Goto

LEMMA FailedTo ==
    ASSUME TypeOK, Failed
    PROVE  program' \in [step : Steps, got : Nat, unset : BOOLEAN] /\ program'.step = "idle"
BY DEF TypeOK, Failed, Steps

LEMMA ReadStartsIInv == IInv /\ ReadStarts => IInv'
<1> SUFFICES ASSUME IInv, ReadStarts PROVE IInv'
  OBVIOUS
<1> DEFINE to == IF Free(ring) >= BulkIn THEN "room" ELSE "ready"
<1>1. TypeOK /\ to \in Steps /\ Goto(to) /\ Free(ring) \in 0 .. Size
  BY FreeIs DEF ReadStarts, Steps, Testing, IInv, TypeOK, RoomForTransfers
<1>2. /\ program' \in [step : Steps, got : Nat, unset : BOOLEAN] /\ program'.step = to
  <2> HIDE DEF to
  <2> QED
    BY <1>1, GotoTo
<1>3. to \in Testing => BulkIn <= Free(ring)
  BY <1>1, ConstantTypes DEF Testing
<1>4. NoFault /\ pending' \in BOOLEAN /\ errorcode' \in BOOLEAN /\ sem' \in 0 .. SemMax
  BY <1>1 DEF ReadStarts, NoFault, TypeOK
<1> QED
  BY <1>2, <1>3, <1>4, ReaderIInv DEF ReadStarts, At

LEMMA TestsPendingIInv == IInv /\ TestsPending => IInv'
<1> SUFFICES ASSUME IInv, TestsPending PROVE IInv'
  OBVIOUS
<1>1. TypeOK /\ program.step \in Testing /\ callback = None
  BY DEF TestsPending, At, Testing, IInv
<1>2. NoFault /\ pending' \in BOOLEAN /\ errorcode' \in BOOLEAN /\ sem' \in 0 .. SemMax
  BY <1>1 DEF TestsPending, NoFault, TypeOK
<1>3. CASE Goto("resume") /\ overtaken' = overtaken
  <2>1. program' \in [step : Steps, got : Nat, unset : BOOLEAN] /\ program'.step = "resume"
    BY <1>1, <1>3, GotoTo DEF Steps, Testing
  <2> QED
    BY <1>1, <1>2, <1>3, <2>1, ReaderIInv DEF TestsPending
<1>4. CASE Goto("ready") /\ overtaken' = IF overtaken = "read" THEN "no" ELSE overtaken
  <2>1. program' \in [step : Steps, got : Nat, unset : BOOLEAN] /\ program'.step = "ready"
    BY <1>1, <1>4, GotoTo DEF Steps
  <2>2. program'.step \notin Testing
    BY <2>1 DEF Testing
  <2> QED
    BY <1>1, <1>2, <1>4, <2>1, <2>2, ReaderIInv DEF TestsPending
<1> QED
  BY <1>3, <1>4 DEF TestsPending

LEMMA ClearsPendingIInv == IInv /\ ClearsPending => IInv'
<1> SUFFICES ASSUME IInv, ClearsPending PROVE IInv'
  OBVIOUS
<1>1. TypeOK /\ program.step \in Testing /\ callback = None
  BY DEF ClearsPending, At, Testing, IInv
<1>2. NoFault /\ pending' \in BOOLEAN /\ errorcode' \in BOOLEAN /\ sem' \in 0 .. SemMax
  BY <1>1 DEF ClearsPending, NoFault, TypeOK
<1>3. program' \in [step : Steps, got : Nat, unset : BOOLEAN] /\ program'.step = "submit"
  BY <1>1, GotoTo DEF ClearsPending, Steps, Testing
<1> QED
  BY <1>1, <1>2, <1>3, ReaderIInv DEF ClearsPending

LEMMA SubmitsIInv == IInv /\ Submits => IInv'
<1> SUFFICES ASSUME IInv, Submits PROVE IInv'
  OBVIOUS
<1>1. TypeOK /\ program.step \in Testing /\ callback = None
      /\ UNCHANGED <<ring, iobuffer, rxIndex, pending, errorcode, sem, callback, nonblock, next, fresh>>
  BY DEF Submits, At, Testing, IInv
<1>2. pending' \in BOOLEAN /\ errorcode' \in BOOLEAN /\ sem' \in 0 .. SemMax
  BY <1>1 DEF TypeOK
<1>3. CASE /\ urb.state = "none" /\ Restart(rxIndex) /\ Goto("ready") /\ NoFault
           /\ overtaken' = IF overtaken = "read" THEN "transfer" ELSE overtaken
  <2>1. program' \in [step : Steps, got : Nat, unset : BOOLEAN] /\ program'.step = "ready"
    BY <1>1, <1>3, GotoTo DEF Steps
  <2>2. urb' = [state |-> "active", buffer |-> rxIndex]
    BY <1>3 DEF Restart
  <2>3. TypeOK'
    <3>1. urb' \in [state : {"none", "active", "filled"}, buffer : Buffers]
      BY <1>1, <2>2 DEF TypeOK
    <3>2. overtaken' \in {"no", "read", "transfer"} /\ faults' \in 0 .. MaxFaults
      BY <1>1, <1>3, FaultType DEF TypeOK
    <3> QED
      BY <1>1, <1>2, <2>1, <3>1, <3>2 DEF TypeOK
  <2>4. Copying' = 0 /\ Used(ring)' = Used(ring) /\ Free(ring)' = Free(ring)
    BY <1>1 DEF Copying, Used, Free
  <2>5. overtaken' # "transfer" => BulkIn <= Free(ring)
    BY <1>1, <1>3 DEF IInv, SeenRoom
  <2>6. RoomForTransfers'
    BY <2>2, <2>4, <2>5, ConstantTypes DEF IInv, RoomForTransfers
  <2>7. SeenRoom'
    BY <1>1, <2>1, <2>2 DEF SeenRoom, Testing
  <2>8. OwnHalf' /\ ShortBuffers' /\ GotInRing'
    BY <1>1, <2>1, <2>2 DEF OwnHalf, ShortBuffers, GotInRing, IInv
  <2> QED
    BY <2>3, <2>6, <2>7, <2>8 DEF IInv
<1>4. CASE urb.state = "none" /\ AFault /\ Failed /\ overtaken' = "no" /\ UNCHANGED urb
  <2>1. program' \in [step : Steps, got : Nat, unset : BOOLEAN] /\ program'.step = "idle"
    BY <1>1, <1>4, FailedTo
  <2>2. overtaken # "transfer" /\ program'.step \notin Testing
    BY <1>1, <1>4, <2>1 DEF IInv, SeenRoom, Testing
  <2> QED
    BY <1>1, <1>2, <1>4, <2>1, <2>2, ReaderIInv
<1>5. CASE /\ Goto("idle") /\ NoFault /\ UNCHANGED urb
           /\ overtaken' = IF overtaken = "read" THEN "no" ELSE overtaken
  <2>1. program' \in [step : Steps, got : Nat, unset : BOOLEAN] /\ program'.step = "idle"
    BY <1>1, <1>5, GotoTo DEF Steps
  <2>2. program'.step \notin Testing
    BY <2>1 DEF Testing
  <2> QED
    BY <1>1, <1>2, <1>5, <2>1, <2>2, ReaderIInv
<1> QED
  BY <1>3, <1>4, <1>5 DEF Submits

LEMMA ReadsOnIInv == IInv /\ ReadsOn => IInv'
<1> SUFFICES ASSUME IInv, ReadsOn PROVE IInv'
  OBVIOUS
<1> DEFINE to == IF ~nonblock /\ Used(ring) = 0 THEN "wait" ELSE "copy"
<1>1. TypeOK /\ to \in Steps /\ Goto(to) /\ to \notin Testing /\ to # "advance"
  BY DEF ReadsOn, Steps, Testing, IInv
<1>2. NoFault /\ pending' \in BOOLEAN /\ errorcode' \in BOOLEAN /\ sem' \in 0 .. SemMax
  BY <1>1 DEF ReadsOn, NoFault, TypeOK
<1> HIDE DEF to
<1>3. program' \in [step : Steps, got : Nat, unset : BOOLEAN] /\ program'.step = to
  BY <1>1, GotoTo
<1> QED
  BY <1>1, <1>2, <1>3, ReaderIInv DEF ReadsOn, At

LEMMA WokenIInv == IInv /\ Woken => IInv'
<1> SUFFICES ASSUME IInv, Woken PROVE IInv'
  OBVIOUS
<1>1. TypeOK /\ callback = None
  BY DEF Woken, At, IInv
<1>2. /\ program' \in [step : Steps, got : Nat, unset : BOOLEAN]
      /\ program'.step \in {"idle", "copy"}
  BY <1>1, GotoTo, FailedTo DEF Woken, Steps
<1>3. NoFault /\ pending' \in BOOLEAN /\ errorcode' \in BOOLEAN /\ sem' \in 0 .. SemMax
  BY <1>1, ConstantTypes DEF Woken, NoFault, TypeOK
<1>4. program'.step # "advance" /\ program'.step \notin Testing
  BY <1>2 DEF Testing
<1> QED
  BY <1>1, <1>2, <1>3, <1>4, ReaderIInv DEF Woken

LEMMA CopiesIInv == IInv /\ Copies => IInv'
<1> SUFFICES ASSUME IInv, Copies PROVE IInv'
  OBVIOUS
<1> USE DEF IInv
<1>8. /\ callback = None
      /\ UNCHANGED <<ring, urb, iobuffer, rxIndex, pending, errorcode, sem, callback, nonblock, overtaken,
                     next, faults, fresh>>
  BY DEF Copies, At
<1>1. Used(ring) \in Nat
  BY UsedType DEF TypeOK
<1>2. PICK len \in ReadLens :
        program' = [program EXCEPT !.step = "advance", !.got = Readable(ring, len)]
  BY Zenon DEF Copies
<1>3. Readable(ring, len) \in Nat /\ Readable(ring, len) <= Used(ring)
  BY <1>1, SerialAssumption DEF Readable
<1>4. /\ program' \in [step : Steps, got : Nat, unset : BOOLEAN]
      /\ program'.got <= Used(ring) /\ program'.step \notin Testing
  BY <1>2, <1>3 DEF TypeOK, Steps, Testing
<1>5. TypeOK'
  BY <1>4, <1>8 DEF TypeOK
<1>6. RoomForTransfers' /\ SeenRoom'
  BY <1>4, <1>8, SameRoom DEF Copying
<1>7. OwnHalf' /\ ShortBuffers' /\ GotInRing'
  BY <1>4, <1>8 DEF OwnHalf, ShortBuffers, GotInRing, Used
<1> QED
  BY <1>5, <1>6, <1>7

LEMMA AdvancesIInv == IInv /\ Advances => IInv'
<1> SUFFICES ASSUME IInv, Advances PROVE IInv'
  OBVIOUS
<1> USE DEF IInv
<1> DEFINE popped == Popped(ring, program.got)
<1>1. /\ program.step = "advance" /\ callback = None
      /\ program' = [program EXCEPT !.step = "idle", !.got = 0]
      /\ UNCHANGED <<urb, iobuffer, rxIndex, pending, errorcode, sem, callback, nonblock, overtaken,
                     next, faults, fresh>>
  BY DEF Advances, At
<1>2. program.got \in Nat /\ program.got <= Used(ring)
  BY <1>1 DEF TypeOK, GotInRing
<1>3. popped \in Ring(Bytes) /\ Used(popped) = Used(ring) - program.got
  BY <1>2, UsedPopped DEF TypeOK
<1>4. /\ ring'.in = popped.in /\ ring'.out = popped.out /\ ring' \in Ring(Bytes)
  <2> HIDE DEF popped
  <2>1. ring' = [popped EXCEPT !.pool =
          [j \in 0 .. Size - 1 |-> IF (j - popped.out) % Size < Used(popped) THEN popped.pool[j] ELSE 0]]
    BY DEF Advances, popped
  <2>2. \A j \in 0 .. Size - 1 :
          (IF (j - popped.out) % Size < Used(popped) THEN popped.pool[j] ELSE 0) \in Bytes
    BY <1>3, ConstantTypes DEF Ring
  <2> QED
    BY <1>3, <2>1, <2>2 DEF Ring
<1>5. Used(ring') = Used(ring) - program.got
  BY <1>3, <1>4 DEF Used
<1>6. TypeOK'
  <2>1. program' \in [step : Steps, got : Nat, unset : BOOLEAN]
    BY <1>1 DEF TypeOK, Steps
  <2> QED
    BY <1>1, <1>4, <2>1 DEF TypeOK
<1>7. RoomForTransfers'
  <2>1. Used(ring) \in Nat /\ Used(ring) <= Size /\ Free(ring) = Size - Used(ring)
    BY UsedType, FreeIs DEF TypeOK, RoomForTransfers
  <2>2. Used(ring') <= Size
    BY <1>2, <1>5, <2>1, ConstantTypes
  <2>3. Free(ring') = Size - Used(ring')
    BY <1>4, <2>2, FreeIs
  <2>4. Copying' = Copying /\ Used(ring)' = Used(ring') /\ Free(ring)' = Free(ring')
    BY <1>1 DEF Copying, Used, Free
  <2>5. Copying \in Nat
    BY CopyingType
  <2> QED
    BY <1>1, <1>2, <1>5, <2>1, <2>2, <2>3, <2>4, <2>5, ConstantTypes DEF RoomForTransfers
<1>8. OwnHalf' /\ ShortBuffers' /\ GotInRing'
  BY <1>1 DEF OwnHalf, ShortBuffers, GotInRing
<1>9. SeenRoom'
  BY <1>1 DEF SeenRoom, Testing, TypeOK
<1> QED
  BY <1>6, <1>7, <1>8, <1>9

-----------------------------------------------------------------------------
(* Every step keeps the inductive invariant.                               *)
LEMMA NextIInv == IInv /\ [Next]_vars => IInv'
<1> SUFFICES ASSUME IInv, [Next]_vars PROVE IInv'
  OBVIOUS
<1>1. CASE Fill
  BY <1>1, FillIInv
<1>2. CASE TransferFails
  BY <1>2, TransferFailsIInv
<1>3. CASE Interrupt
  BY <1>3, CallbackStartsIInv, CallbackCopiesIInv DEF Interrupt
<1>4. CASE Open
  BY <1>4, OpenIInv
<1>5. CASE Close
  BY <1>5, CloseIInv
<1>6. CASE SetAttr
  BY <1>6, SetAttrIInv
<1>7. CASE Reads
  BY <1>7, ReadStartsIInv, TestsPendingIInv, ClearsPendingIInv, SubmitsIInv, ReadsOnIInv, WokenIInv,
     CopiesIInv, AdvancesIInv DEF Reads
<1>8. CASE UNCHANGED vars
  BY <1>8 DEF vars, IInv, TypeOK, RoomForTransfers, Copying, OwnHalf, ShortBuffers, GotInRing,
              SeenRoom, Used, Free
<1> QED
  BY <1>1, <1>2, <1>3, <1>4, <1>5, <1>6, <1>7, <1>8 DEF Next

(* The inductive invariant holds in every state.                           *)
LEMMA Invariance == Spec => []IInv
<1>1. Init => IInv
  BY InitIInv
<1>2. IInv /\ [Next]_vars => IInv'
  BY NextIInv
<1> QED
  BY <1>1, <1>2, PTL DEF Spec

(* The state of the driver keeps its types (usbh_serial.c), the ring among *)
(* it: its counters run over and its bytes are bytes of the device.        *)
THEOREM SerialTypes == Spec => []TypeOK
<1>1. IInv => TypeOK
  BY DEF IInv
<1> QED
  BY <1>1, Invariance, PTL

(* A transfer is under way only while the ring has room for all it may     *)
(* bring and for what the callback is copying, so usb_ringbuffer_write of  *)
(* the callback drops no byte, for every size and read length; but for the *)
(* transfer of a read that a callback overtook between its tests.          *)
THEOREM SerialRoom == Spec => []RoomForTransfers
<1>1. IInv => RoomForTransfers
  BY DEF IInv
<1> QED
  BY <1>1, Invariance, PTL

-----------------------------------------------------------------------------
(***************************************************************************)
(* The driver implements the stream of bytes.                              *)
(***************************************************************************)
\* The buffers hold the last bytes the device has sent, the one the callback
\* is copying before the one of the transfer.
Numbered ==
    /\ callback # None =>
         \A k \in 1 .. Copying :
            iobuffer[callback][k] = (next - OnTheWay + k - 1) % Numbers
    /\ urb.state = "filled" =>
         \A k \in 1 .. Len(iobuffer[urb.buffer]) :
            iobuffer[urb.buffer][k] = (next - Len(iobuffer[urb.buffer]) + k - 1) % Numbers

\* Nothing is under way while the port is closed.
ClosedIdle == program.step = "closed" => urb.state = "none" /\ callback = None

SInv == IInv /\ Numbered /\ ClosedIdle

\* The next byte of the abstract stream.
Due == (next - OnTheWay) % Numbers

(* A remainder taken early makes no difference.                            *)
LEMMA ModEarly ==
    ASSUME NEW w \in Nat \ {0}, NEW a \in Int, NEW b \in Int
    PROVE  ((a % w) + b) % w = (a + b) % w
<1> DEFINE q == a \div w
           r == a % w
<1>1. q \in Int /\ r \in 0 .. w - 1 /\ a = w * q + r
  BY DivMod
<1> HIDE DEF q, r
<1>2. w * q \in Int
  BY <1>1, Multiple
<1>3. a + b = (r + b) + w * q /\ r + b \in Int
  BY <1>1, <1>2
<1>4. (a + b) % w = (r + b) % w
  BY <1>1, <1>3, ModShift
<1> QED
  BY <1>4 DEF r

LEMMA OnTheWayType == TypeOK => OnTheWay \in Nat /\ next \in Int /\ Due \in 0 .. Numbers - 1
<1> SUFFICES ASSUME TypeOK PROVE OnTheWay \in Nat /\ next \in Int /\ Due \in 0 .. Numbers - 1
  OBVIOUS
<1>1. Copying \in Nat
  BY CopyingType
<1>2. OnTheWay \in Nat
  BY <1>1 DEF OnTheWay, TypeOK
<1>3. next \in Int
  BY DEF TypeOK, Bytes
<1> QED
  BY <1>2, <1>3, ModRange, ConstantTypes DEF Due

(* The same of the next state.                                             *)
LEMMA DueTypeNext ==
    ASSUME TypeOK'
    PROVE  Due' \in 0 .. Numbers - 1
<1>1. Copying' \in Nat
  <2>1. CASE callback' = None
    BY <2>1 DEF Copying
  <2>2. CASE callback' # None
    <3>1. iobuffer'[callback'] \in Seq(Bytes)
      BY <2>2 DEF TypeOK
    <3> QED
      BY <2>2, <3>1 DEF Copying
  <2> QED
    BY <2>1, <2>2
<1>2. OnTheWay' \in Nat
  <2>1. iobuffer'[urb'.buffer] \in Seq(Bytes)
    BY DEF TypeOK
  <2>2. Len(iobuffer'[urb'.buffer]) \in Nat
    BY <2>1
  <2>3. CASE urb'.state = "filled"
    <3>1. OnTheWay' = Copying' + Len(iobuffer'[urb'.buffer])
      BY <2>3 DEF OnTheWay
    <3> QED
      BY <1>1, <2>2, <3>1
  <2>4. CASE urb'.state # "filled"
    <3>1. OnTheWay' = Copying' + 0
      BY <2>4 DEF OnTheWay
    <3>2. \A c \in Nat : c + 0 = c
      OBVIOUS
    <3> QED
      BY <1>1, <3>1, <3>2, Zenon
  <2> QED
    BY <2>3, <2>4
<1>3. next' \in Int
  BY DEF TypeOK, Bytes
<1>4. next' - OnTheWay' \in Int
  BY <1>2, <1>3
<1> QED
  BY <1>4, ModRange, ConstantTypes DEF Due

LEMMA InitSInv == Init => SInv
BY InitIInv DEF Init, SInv, Numbered, ClosedIdle

(* What arrives continues what is on its way.                              *)
LEMMA FillStep ==
    ASSUME SInv, Fill
    PROVE  Numbered' /\ ClosedIdle' /\ ring' = ring /\ Due' = Due
<1> USE DEF SInv, IInv
<1>1. /\ urb.state = "active" /\ urb' = [urb EXCEPT !.state = "filled"]
      /\ UNCHANGED <<ring, callback, program>>
  BY DEF Fill
<1>2. PICK n \in 0 .. BulkIn - Header :
        /\ iobuffer' = [iobuffer EXCEPT ![urb.buffer] = [k \in 1 .. n |-> (next + k - 1) % Numbers]]
        /\ next' = (next + n) % Numbers
  BY DEF Fill
<1> DEFINE b == urb.buffer
           f == [k \in 1 .. n |-> (next + k - 1) % Numbers]
<1>3. /\ b \in Buffers /\ (callback # None => callback # b) /\ urb'.buffer = b
      /\ urb'.state = "filled" /\ callback \in Buffers \cup {None}
  BY <1>1 DEF TypeOK, OwnHalf
<1>4. n \in Nat /\ next \in Int /\ Numbers \in Nat \ {0}
  BY ConstantTypes, OnTheWayType
<1>5. iobuffer'[b] = f /\ (callback # None => iobuffer'[callback] = iobuffer[callback])
  BY <1>2, <1>3 DEF TypeOK
<1>6. Len(f) = n /\ \A k \in 1 .. n : f[k] = (next + k - 1) % Numbers
  <2>1. \A k \in 1 .. n : f[k] \in Bytes
    <3> TAKE k \in 1 .. n
    <3>1. next + k - 1 \in Int
      BY <1>4
    <3> QED
      BY <1>4, <3>1, ModRange DEF Bytes
  <2>2. f \in [1 .. n -> Bytes]
    BY <2>1
  <2>3. \A k \in 1 .. n : f[k] = (next + k - 1) % Numbers
    OBVIOUS
  <2> HIDE DEF f
  <2> QED
    BY <1>4, <2>2, <2>3, SeqOf
<1> HIDE DEF f
<1>7. Copying' = Copying /\ Copying \in Nat /\ OnTheWay = Copying
  <2>1. Copying' = Copying
    BY <1>1, <1>5 DEF Copying
  <2> QED
    BY <1>1, <2>1, CopyingType DEF OnTheWay
<1>8. OnTheWay' = Copying + n
  BY <1>3, <1>5, <1>6, <1>7 DEF OnTheWay
<1>9. \A a \in Int : (next' - n + a) % Numbers = (next + a) % Numbers
  <2> TAKE a \in Int
  <2>1. a - n \in Int /\ next + n \in Int
    BY <1>4
  <2>2. (next' + (a - n)) % Numbers = ((next + n) + (a - n)) % Numbers
    BY <1>2, <1>4, <2>1, ModEarly
  <2>3. next' \in Int
    BY <1>2, <1>4, ModRange
  <2>4. next' + (a - n) = next' - n + a /\ (next + n) + (a - n) = next + a
    BY <1>4, <2>3
  <2> QED
    BY <2>2, <2>4
<1>10. next' \in Int
  BY <1>2, <1>4, ModRange
<1>11. Due' = Due
  <2>1. next' - OnTheWay' = next' - n + (-Copying) /\ next - OnTheWay = next + (-Copying)
    BY <1>4, <1>7, <1>8, <1>10
  <2>2. -Copying \in Int
    BY <1>7
  <2> QED
    BY <1>9, <2>1, <2>2 DEF Due
<1>12. Numbered'
  <2>1. ASSUME callback' # None, NEW k \in 1 .. Copying'
        PROVE  iobuffer'[callback'][k] = (next' - OnTheWay' + k - 1) % Numbers
    <3>1. iobuffer'[callback'][k] = (next - OnTheWay + k - 1) % Numbers
      BY <1>1, <1>5, <1>7, <2>1 DEF Numbered
    <3>2. /\ next' - OnTheWay' + k - 1 = next' - n + (k - 1 - Copying) /\ k - 1 - Copying \in Int
          /\ next - OnTheWay + k - 1 = next + (k - 1 - Copying)
      BY <1>4, <1>7, <1>8, <1>10
    <3> QED
      BY <1>9, <3>1, <3>2
  <2>2. ASSUME NEW k \in 1 .. Len(iobuffer'[b])
        PROVE  iobuffer'[b][k] = (next' - Len(iobuffer'[b]) + k - 1) % Numbers
    <3>1. iobuffer'[b][k] = (next + k - 1) % Numbers
      BY <1>5, <1>6
    <3>2. next' - n + k - 1 = next' - n + (k - 1) /\ k - 1 \in Int /\ next + k - 1 = next + (k - 1)
      BY <1>4, <1>10
    <3> QED
      BY <1>5, <1>6, <1>9, <3>1, <3>2
  <2> QED
    BY <1>3, <2>1, <2>2 DEF Numbered
<1>13. ClosedIdle'
  BY <1>1 DEF ClosedIdle
<1> QED
  BY <1>1, <1>11, <1>12, <1>13

(* A transfer goes to the callback.                                        *)
LEMMA CallbackStartsStep ==
    ASSUME SInv, CallbackStarts
    PROVE  /\ Numbered' /\ ClosedIdle' /\ ring' = ring /\ program' = program /\ fresh' = fresh
           /\ (Due' = Due /\ faults' = faults) \/ faults' = faults + 1
<1> USE DEF SInv, IInv
<1>1. /\ urb.state = "filled" /\ callback = None
      /\ UNCHANGED <<ring, iobuffer, program, next, fresh>>
      /\ \/ callback' = rxIndex /\ NoFault
         \/ callback' = callback /\ AFault /\ urb' = Idle
      /\ urb'.state # "filled"
  BY DEF CallbackStarts, Idle, Restart
<1>2. urb.buffer = rxIndex /\ rxIndex \in Buffers /\ rxIndex # None
  BY <1>1 DEF TypeOK, OwnHalf, Buffers, None
<1>3. program.step # "closed"
  BY <1>1 DEF ClosedIdle
<1>4. OnTheWay = Len(iobuffer[rxIndex]) /\ Len(iobuffer[rxIndex]) \in Nat
  BY <1>1, <1>2 DEF OnTheWay, Copying, TypeOK
<1>5. CASE callback' = rxIndex /\ NoFault
  <2>1. Copying' = Len(iobuffer[rxIndex])
    BY <1>1, <1>2, <1>5 DEF Copying
  <2>2. OnTheWay' = OnTheWay
    BY <1>1, <1>4, <2>1 DEF OnTheWay
  <2>3. Numbered'
    BY <1>1, <1>2, <1>4, <1>5, <2>1, <2>2 DEF Numbered
  <2> QED
    BY <1>1, <1>3, <1>5, <2>2, <2>3 DEF Due, NoFault, ClosedIdle
<1>6. CASE callback' = callback /\ AFault
  BY <1>1, <1>3, <1>6 DEF Numbered, ClosedIdle, AFault
<1> QED
  BY <1>1, <1>5, <1>6

\* The state of the stream.
Session == <<program.step = "closed", program.unset, fresh>>
Same    == Content(ring)' = Content(ring) /\ Due' = Due /\ faults' = faults /\ Session' = Session

(* The bytes that are copied are the next ones; they all fit unless the    *)
(* transfer was that of an overtaken read, and then they fill the ring.    *)
LEMMA CallbackCopiesStep ==
    ASSUME SInv, TypeOK', CallbackCopies
    PROVE  Numbered' /\ ClosedIdle' /\ (Stream!Receive \/ Stream!Overflow \/ Same)
<1> USE DEF SInv, IInv
<1>1. /\ callback # None /\ callback' = None
      /\ ring' = Written(ring, iobuffer[callback])
      /\ iobuffer' = [iobuffer EXCEPT ![callback] =
                        IF urb = [state |-> "filled", buffer |-> callback] THEN @ ELSE <<>>]
      /\ UNCHANGED <<urb, program, next, faults, fresh>>
  BY DEF CallbackCopies
<1> DEFINE data == iobuffer[callback]
           n    == Len(data)
           w    == Writable(ring, n)
           rest == IF urb.state = "filled" THEN Len(iobuffer[urb.buffer]) ELSE 0
<1>2. /\ data \in Seq(Bytes) /\ n \in Nat /\ Copying = n
      /\ Numbers \in Nat \ {0} /\ next \in Int /\ Size \in Nat
  BY <1>1, ConstantTypes, OnTheWayType DEF TypeOK, Copying
<1>3. rest \in Nat /\ OnTheWay = n + rest
  BY <1>1, <1>2 DEF OnTheWay, TypeOK
<1>4. urb.state = "filled" => urb.buffer # callback /\ iobuffer'[urb.buffer] = iobuffer[urb.buffer]
  BY <1>1 DEF OwnHalf, TypeOK
<1>5. OnTheWay' = rest
  <2>1. Copying' = 0
    BY <1>1 DEF Copying
  <2> QED
    BY <1>1, <1>3, <1>4, <2>1 DEF OnTheWay
<1>6. /\ next - OnTheWay \in Int /\ next' - OnTheWay' = (next - OnTheWay) + n
  <2> HIDE DEF n, rest
  <2> QED
    BY <1>1, <1>2, <1>3, <1>5
<1>7. Due' = (Due + n) % Numbers
  <2> HIDE DEF n
  <2> DEFINE a == next - OnTheWay
  <2>1. a \in Int /\ n \in Int /\ Numbers \in Nat \ {0}
    BY <1>2, <1>6
  <2>2. ((a % Numbers) + n) % Numbers = (a + n) % Numbers
    <3> HIDE DEF a
    <3> QED
      BY <2>1, ModEarly
  <2> QED
    BY <1>6, <2>2 DEF Due
<1>8. Numbered' /\ ClosedIdle'
  BY <1>1, <1>4 DEF Numbered, ClosedIdle
<1>9. /\ Used(ring) \in Nat /\ Used(ring) <= Size /\ ring \in Ring(Bytes)
      /\ Content(ring) \in Seq(Bytes) /\ Len(Content(ring)) = Used(ring)
      /\ Free(ring) = Size - Used(ring)
  <2>1. Used(ring) \in 0 .. Wrap - 1 /\ Free(ring) = Size - Used(ring)
    BY UsedType, FreeIs DEF TypeOK, RoomForTransfers
  <2>2. Content(ring) \in Seq(Bytes) /\ Len(Content(ring)) = Used(ring)
    BY ContentType DEF TypeOK
  <2> QED
    BY <2>1, <2>2 DEF TypeOK, RoomForTransfers
<1>10. /\ Content(ring') = Content(ring) \o SubSeq(data, 1, w)
       /\ w \in Nat /\ w <= n /\ Used(ring) + w <= Size
       /\ Used(ring) + n <= Size => w = n
       /\ Used(ring) + n > Size => Used(ring) + w = Size
  <2> DEFINE kept == Kept(ring, data)
  <2>1. /\ ring' = Written(ring, kept) /\ kept \in Seq(Bytes) /\ Len(kept) = w
        /\ w \in 0 .. n /\ Used(ring) + w <= Size
        /\ Used(ring) + n <= Size => kept = data
        /\ Used(ring) + n > Size => Used(ring) + w = Size
    <3> HIDE DEF data
    <3> QED
      BY <1>1, <1>2, <1>9, WrittenKept DEF data
  <2>2. kept = SubSeq(data, 1, w)
    BY DEF Kept
  <2> HIDE DEF kept, data, n, w
  <2>3. Content(Written(ring, kept)) = Content(ring) \o kept
    BY <1>9, <2>1, WriteAppends
  <2>4. Used(ring) + n <= Size => w = n
    BY <2>1 DEF n
  <2> QED
    BY <1>2, <2>1, <2>2, <2>3, <2>4
<1>11. Content(ring)' = Content(ring')
  BY DEF Content, Peeked, Used
<1>12. SubSeq(data, 1, w) = Stream!From(Due, w)
  <2>1. SubSeq(data, 1, w) = [k \in 1 .. w |-> data[k]]
    <3> HIDE DEF data, w
    <3>1. \A m \in Nat : m <= Len(data) => SubSeq(data, 1, m) = [k \in 1 .. m |-> data[k]]
      BY <1>2
    <3> QED
      BY <1>10, <3>1
  <2>2. \A k \in 1 .. w : data[k] = (Due + k - 1) % Numbers
    <3> TAKE k \in 1 .. w
    <3>1. k - 1 \in Int
      OBVIOUS
    <3>2. (((next - OnTheWay) % Numbers) + (k - 1)) % Numbers = ((next - OnTheWay) + (k - 1)) % Numbers
      BY <1>2, <1>6, <3>1, ModEarly
    <3>6. k \in 1 .. n
      <4> HIDE DEF n, w
      <4> QED
        BY <1>2, <1>10
    <3>3. data[k] = (next - OnTheWay + k - 1) % Numbers
      BY <1>1, <1>2, <3>6 DEF Numbered
    <3>4. Due \in Int
      BY <1>2, <1>6, ModRange DEF Due
    <3>5. Due + (k - 1) = Due + k - 1 /\ (next - OnTheWay) + (k - 1) = next - OnTheWay + k - 1
      BY <1>6, <3>4
    <3> QED
      BY <3>2, <3>3, <3>5 DEF Due
  <2> HIDE DEF data, n, w
  <2> QED
    BY <2>1, <2>2 DEF Stream!From
<1>13. Session' = Session
  BY <1>1 DEF Session
<1>16. Content(ring)' = Content(ring) \o Stream!From(Due, w)
  BY <1>10, <1>11, <1>12
<1> HIDE DEF data, w, rest
<1>14. CASE n = 0
  <2>1. w = 0
    BY <1>10, <1>14
  <2>2. Stream!From(Due, w) = <<>>
    BY <2>1 DEF Stream!From
  <2>3. Content(ring)' = Content(ring)
    BY <1>9, <1>16, <2>2
  <2>4. Due' = Due
    BY <1>3, <1>5, <1>6, <1>14, <1>1 DEF Due
  <2> QED
    BY <1>1, <1>8, <1>13, <2>3, <2>4 DEF Same
<1>15. CASE n # 0 /\ Used(ring) + n <= Size
  <2> HIDE DEF n
  <2>1. w = n /\ n \in 1 .. Size - Len(Content(ring))
    BY <1>2, <1>9, <1>10, <1>15
  <2>2. Stream!Receive
    BY <1>1, <1>7, <1>13, <1>16, <2>1 DEF Stream!Receive, Due, Session
  <2> QED
    BY <1>8, <2>2
<1>17. CASE Used(ring) + n > Size
  <2>1. overtaken = "transfer"
    <3> SUFFICES ASSUME overtaken # "transfer" PROVE FALSE
      BY DEF TypeOK
    <3>1. Copying + 0 <= Free(ring) \/ Copying + BulkIn <= Free(ring)
      BY DEF RoomForTransfers
    <3> HIDE DEF n
    <3> QED
      BY <1>2, <1>9, <1>17, <3>1, ConstantTypes
  <2>2. w = Size - Len(Content(ring))
    <3> HIDE DEF n
    <3> QED
      BY <1>2, <1>9, <1>10, <1>17
  <2>3. Due' \in 0 .. Numbers - 1
    BY DueTypeNext
  <2>4. Stream!Overflow
    BY <1>1, <1>13, <1>16, <2>1, <2>2, <2>3 DEF Stream!Overflow, Due, Session
  <2> QED
    BY <1>8, <2>4
<1>18. n = 0 \/ (n # 0 /\ Used(ring) + n <= Size) \/ Used(ring) + n > Size
  <2> HIDE DEF n
  <2> QED
    BY <1>2, <1>9
<1> QED
  BY <1>14, <1>15, <1>17, <1>18

(* Steps after which nothing is on its way.                                *)
LEMMA NothingComing ==
    ASSUME callback' = None, urb'.state # "filled"
    PROVE  Numbered'
BY DEF Numbered

(* The content of a ring that is left alone, and of a fresh one.           *)
LEMMA ContentKept == ring' = ring => Content(ring)' = Content(ring)
BY DEF Content, Peeked, Used

LEMMA ContentEmpty == ring' = EmptyRing(0) => Content(ring)' = <<>>
<1> SUFFICES ASSUME ring' = EmptyRing(0) PROVE Content(ring)' = <<>>
  OBVIOUS
<1>1. Content(EmptyRing(0)) \in Seq(Bytes) /\ Len(Content(EmptyRing(0))) = 0
  BY EmptyType, ContentType
<1>2. Content(ring)' = Content(EmptyRing(0))
  BY DEF Content, Peeked, Used
<1> QED
  BY <1>1, <1>2

(* A fault, and a fresh start, may lose bytes.                             *)
LEMMA FaultImplements ==
    ASSUME TypeOK', AFault, ring' = ring \/ ring' = EmptyRing(0)
    PROVE  Stream!Fault
<1>1. Due' \in 0 .. Numbers - 1
  BY DueTypeNext
<1>2. Content(ring)' \in {Content(ring), <<>>}
  BY ContentKept, ContentEmpty
<1> QED
  BY <1>1, <1>2 DEF Stream!Fault, Due, AFault

LEMMA SessionImplements ==
    ASSUME TypeOK', Session' # Session, faults' = faults, ring' = ring \/ ring' = EmptyRing(0)
    PROVE  Stream!NewSession
<1>1. Due' \in 0 .. Numbers - 1
  BY DueTypeNext
<1>2. Content(ring)' \in {Content(ring), <<>>}
  BY ContentKept, ContentEmpty
<1> QED
  BY <1>1, <1>2 DEF Stream!NewSession, Due, Session

LEMMA TransferFailsStep ==
    ASSUME SInv, TypeOK', TransferFails
    PROVE  Numbered' /\ ClosedIdle' /\ Stream!Fault
<1>1. Stream!Fault
  BY FaultImplements DEF TransferFails
<1>2. Numbered' /\ ClosedIdle'
  BY NothingComing DEF TransferFails, Idle, ClosedIdle
<1> QED
  BY <1>1, <1>2

LEMMA OpenStep ==
    ASSUME SInv, TypeOK', Open
    PROVE  Numbered' /\ ClosedIdle' /\ Stream!NewSession
<1>1. /\ program.step = "closed" /\ program'.step = "idle" /\ callback = None
      /\ ring' = EmptyRing(0) /\ UNCHANGED <<urb, callback, faults>>
  BY DEF Open, At
<1>2. urb.state = "none"
  BY <1>1 DEF SInv, ClosedIdle
<1>3. Session' # Session
  BY <1>1 DEF Session
<1>4. Stream!NewSession
  BY <1>1, <1>3, SessionImplements
<1>5. Numbered' /\ ClosedIdle'
  BY <1>1, <1>2, NothingComing DEF ClosedIdle
<1> QED
  BY <1>4, <1>5

LEMMA CloseStep ==
    ASSUME SInv, TypeOK', Close
    PROVE  Numbered' /\ ClosedIdle' /\ Stream!NewSession
<1>1. /\ program.step = "idle" /\ program'.step = "closed" /\ callback = None
      /\ ring' = ring /\ urb' = Idle /\ UNCHANGED <<callback, faults>>
  BY DEF Close, At, SInv, IInv, TypeOK
<1>2. Session' # Session
  BY <1>1 DEF Session
<1>3. Stream!NewSession
  BY <1>1, <1>2, SessionImplements
<1>4. Numbered' /\ ClosedIdle'
  BY <1>1, NothingComing DEF ClosedIdle, Idle
<1> QED
  BY <1>3, <1>4

LEMMA SetAttrStep ==
    ASSUME SInv, TypeOK', SetAttr
    PROVE  Numbered' /\ ClosedIdle' /\ (Stream!Fault \/ Stream!NewSession)
<1>1. /\ program.step = "idle" /\ callback = None /\ callback' = None
      /\ urb' = Idle \/ urb' = [state |-> "active", buffer |-> 0]
      /\ ring' = ring \/ ring' = EmptyRing(0)
      /\ program'.step = "idle"
  BY DEF SetAttr, At, Restart, SInv, IInv, TypeOK
<1>2. Numbered' /\ ClosedIdle'
  BY <1>1, NothingComing DEF ClosedIdle, Idle
<1>3. CASE AFault
  BY <1>1, <1>2, <1>3, FaultImplements
<1>4. CASE NoFault /\ program' = [program EXCEPT !.unset = FALSE]
  <2>1. CASE program.unset
    <3>1. program'.unset = FALSE
      BY <1>4 DEF SInv, IInv, TypeOK
    <3>2. program.unset # program'.unset
      BY <2>1, <3>1
    <3>3. Session' # Session
      BY <3>2 DEF Session
    <3> QED
      BY <1>1, <1>2, <1>4, <3>3, SessionImplements DEF NoFault
  <2>2. CASE ~program.unset
    <3>1. fresh' = fresh + 1 /\ fresh \in Int
      BY <2>2, ConstantTypes DEF SetAttr, SInv, IInv, TypeOK
    <3>2. fresh' # fresh
      BY <3>1
    <3>3. Session' # Session
      BY <3>2 DEF Session
    <3> QED
      BY <1>1, <1>2, <1>4, <3>3, SessionImplements DEF NoFault
  <2> QED
    BY <2>1, <2>2
<1> QED
  BY <1>3, <1>4 DEF SetAttr

(* The steps of a read that move no bytes; one may start a transfer, and   *)
(* one may fail.                                                           *)
LEMMA ReaderStep ==
    ASSUME SInv, TypeOK', callback = None, UNCHANGED <<ring, iobuffer, callback, next, fresh>>,
           urb' = urb \/ (urb.state = "none" /\ urb'.state = "active"),
           program.step # "closed", program'.step # "closed",
           AFault \/ (NoFault /\ program'.unset = program.unset)
    PROVE  Numbered' /\ ClosedIdle' /\ (Stream!Fault \/ Same)
<1>1. Numbered' /\ ClosedIdle'
  <2>1. CASE urb' = urb
    BY <2>1 DEF Numbered, ClosedIdle, SInv
  <2>2. CASE urb'.state = "active"
    BY <2>2, NothingComing DEF ClosedIdle
  <2> QED
    BY <2>1, <2>2
<1>2. CASE AFault
  BY <1>1, <1>2, FaultImplements
<1>3. CASE NoFault /\ program'.unset = program.unset
  <2>1. Session' = Session
    BY <1>3 DEF Session
  <2>2. OnTheWay' = OnTheWay
    BY DEF OnTheWay, Copying
  <2> QED
    BY <1>1, <1>3, <2>1, <2>2, ContentKept DEF Same, Due, NoFault
<1> QED
  BY <1>2, <1>3

LEMMA TestsStep ==
    ASSUME SInv, TypeOK', ReadStarts \/ TestsPending \/ ClearsPending \/ ReadsOn
    PROVE  Numbered' /\ ClosedIdle' /\ (Stream!Fault \/ Same)
<1>1. /\ callback = None /\ UNCHANGED <<ring, iobuffer, callback, next, fresh, urb>> /\ NoFault
      /\ program.step \in {"idle", "room", "resume", "ready"}
  BY DEF ReadStarts, TestsPending, ClearsPending, ReadsOn, At, NoFault
<1>2. \E to \in Steps \ {"closed"} : Goto(to)
  BY DEF ReadStarts, TestsPending, ClearsPending, ReadsOn, Steps, Testing
<1>3. program' \in [step : Steps, got : Nat, unset : BOOLEAN]
      /\ program'.step # "closed" /\ program'.unset = program.unset
  BY <1>2 DEF Goto, SInv, IInv, TypeOK
<1> QED
  BY <1>1, <1>3, ReaderStep

LEMMA SubmitsStep ==
    ASSUME SInv, TypeOK', Submits
    PROVE  Numbered' /\ ClosedIdle' /\ (Stream!Fault \/ Same)
<1>1. /\ callback = None /\ UNCHANGED <<ring, iobuffer, callback, next, fresh>>
      /\ program.step = "submit"
      /\ urb' = urb \/ (urb.state = "none" /\ urb' = [state |-> "active", buffer |-> rxIndex])
      /\ \/ AFault /\ Failed
         \/ NoFault /\ \E to \in {"ready", "idle"} : Goto(to)
  BY DEF Submits, At, Restart
<1>2. program'.step # "closed" /\ (AFault \/ (NoFault /\ program'.unset = program.unset))
  BY <1>1 DEF Failed, Goto, SInv, IInv, TypeOK
<1>3. urb' = urb \/ (urb.state = "none" /\ urb'.state = "active")
  BY <1>1
<1> QED
  BY <1>1, <1>2, <1>3, ReaderStep

LEMMA WokenStep ==
    ASSUME SInv, TypeOK', Woken
    PROVE  Numbered' /\ ClosedIdle' /\ (Stream!NewSession \/ Same)
<1>1. /\ program.step = "wait"
      /\ UNCHANGED <<ring, urb, iobuffer, callback, next, faults, fresh>>
      /\ program'.step # "closed"
  <2>1. program \in [step : Steps, got : Nat, unset : BOOLEAN]
    BY DEF SInv, IInv, TypeOK
  <2>2. Failed \/ Goto("copy")
    BY DEF Woken
  <2>3. program'.step # "closed"
    BY <2>1, <2>2 DEF Failed, Goto
  <2> QED
    BY <2>3 DEF Woken, At
<1>2. Numbered' /\ ClosedIdle'
  <2>1. Copying' = Copying /\ OnTheWay' = OnTheWay
    BY <1>1 DEF Copying, OnTheWay
  <2> QED
    BY <1>1, <2>1 DEF Numbered, ClosedIdle, SInv
<1>3. CASE Session' = Session
  <2>1. OnTheWay' = OnTheWay
    BY <1>1 DEF OnTheWay, Copying
  <2> QED
    BY <1>1, <1>2, <1>3, <2>1, ContentKept DEF Same, Due
<1>4. CASE Session' # Session
  BY <1>1, <1>2, <1>4, SessionImplements
<1> QED
  BY <1>3, <1>4

LEMMA CopiesStep ==
    ASSUME SInv, Copies
    PROVE  Numbered' /\ ClosedIdle' /\ Same
<1>1. /\ program.step = "copy" /\ program'.step = "advance" /\ program'.unset = program.unset
      /\ UNCHANGED <<ring, urb, iobuffer, callback, next, faults, fresh>>
  BY DEF Copies, At, SInv, IInv, TypeOK
<1>2. Copying' = Copying /\ OnTheWay' = OnTheWay
  BY <1>1 DEF Copying, OnTheWay
<1>3. Numbered' /\ ClosedIdle'
  BY <1>1, <1>2 DEF Numbered, ClosedIdle, SInv
<1> QED
  BY <1>1, <1>2, <1>3, ContentKept DEF Same, Due, Session

(* The reader takes the front of the queue; what the units it gave back    *)
(* hold does not matter.                                                   *)
LEMMA AdvancesStep ==
    ASSUME SInv, Advances
    PROVE  Numbered' /\ ClosedIdle' /\ (Stream!Get \/ Same)
<1> USE DEF SInv, IInv
<1> DEFINE popped == Popped(ring, program.got)
           n == program.got
<1>1. /\ program.step = "advance" /\ program'.step = "idle" /\ program'.unset = program.unset
      /\ UNCHANGED <<urb, iobuffer, callback, next, faults, fresh>>
  BY DEF Advances, At, TypeOK
<1>2. Copying' = Copying /\ OnTheWay' = OnTheWay
  BY <1>1 DEF Copying, OnTheWay
<1>3. Numbered' /\ ClosedIdle'
  BY <1>1, <1>2 DEF Numbered, ClosedIdle
<1>4. Due' = Due /\ Session' = Session
  BY <1>1, <1>2 DEF Due, Session
<1>5. n \in Nat /\ n <= Used(ring)
  BY <1>1 DEF TypeOK, GotInRing
<1>6. popped \in Ring(Bytes) /\ Used(popped) = Used(ring) - n
  BY <1>5, UsedPopped DEF TypeOK
<1>7. /\ ring' = [popped EXCEPT !.pool =
           [j \in 0 .. Size - 1 |-> IF (j - popped.out) % Size < Used(popped) THEN @[j] ELSE 0]]
  BY DEF Advances
<1>8. /\ Used(ring) \in Nat /\ Used(ring) <= Size
      /\ Content(ring) \in Seq(Bytes) /\ Len(Content(ring)) = Used(ring)
  <2>1. Used(ring) \in 0 .. Wrap - 1
    BY UsedType DEF TypeOK
  <2> QED
    BY <2>1, ContentType DEF TypeOK, RoomForTransfers
<1>9. Content(popped) = SubSeq(Content(ring), n + 1, Used(ring))
  BY <1>5, ReadTakesFront DEF TypeOK
<1>10. Content(ring') = Content(popped)
  <2> HIDE DEF popped, n
  <2>1. ring'.in = popped.in /\ ring'.out = popped.out
    BY <1>6, <1>7 DEF Ring
  <2>2. Used(ring') = Used(popped)
    BY <2>1 DEF Used
  <2>3. \A j \in 0 .. Size - 1 : (j - popped.out) % Size < Used(popped) => ring'.pool[j] = popped.pool[j]
    BY <1>6, <1>7 DEF Ring
  <2>4. \A k \in 1 .. Used(popped) :
          ring'.pool[(popped.out + k - 1) % Size] = popped.pool[(popped.out + k - 1) % Size]
    <3> TAKE k \in 1 .. Used(popped)
    <3> DEFINE j == (popped.out + k - 1) % Size
    <3>1. /\ popped.out \in Int /\ Size \in Nat \ {0} /\ k - 1 \in Int /\ k \in Int
          /\ popped.out + k - 1 \in Int
      BY <1>6, ConstantTypes DEF Ring
    <3>2. j \in 0 .. Size - 1
      BY <3>1, DivMod
    <3>3. (j + (-popped.out)) % Size = (popped.out + k - 1 + (-popped.out)) % Size
      <4>1. -popped.out \in Int
        BY <3>1
      <4> QED
        BY <3>1, <4>1, ModEarly
    <3>4. k - 1 \in 0 .. Size - 1 /\ k - 1 < Used(popped)
      <4>1. Used(popped) \in Int /\ Used(popped) <= Size
        BY <1>5, <1>6, <1>8, <3>1
      <4> QED
        BY <3>1, <4>1
    <3>5. popped.out + k - 1 + (-popped.out) = k - 1
      BY <3>1
    <3>6. (k - 1) % Size = k - 1
      BY <3>1, <3>4, ModSmall
    <3> HIDE DEF j
    <3>7. j + (-popped.out) = j - popped.out
      BY <3>1, <3>2
    <3>8. (j - popped.out) % Size < Used(popped)
      BY <3>3, <3>4, <3>5, <3>6, <3>7
    <3> QED
      BY <2>3, <3>2, <3>8 DEF j
  <2> QED
    BY <2>1, <2>2, <2>4 DEF Content, Peeked
<1>11. Content(ring)' = SubSeq(Content(ring), n + 1, Len(Content(ring)))
  <2>1. Content(ring)' = Content(ring')
    BY DEF Content, Peeked, Used
  <2> QED
    BY <1>8, <1>9, <1>10, <2>1
<1>12. CASE n = 0
  <2>1. SubSeq(Content(ring), 0 + 1, Len(Content(ring))) = Content(ring)
    <3> DEFINE c == Content(ring)
    <3>1. c \in Seq(Bytes)
      BY <1>8
    <3> HIDE DEF c
    <3>2. SubSeq(c, 0 + 1, Len(c)) = c
      BY <3>1
    <3> QED
      BY <3>2 DEF c
  <2>2. Content(ring)' = Content(ring)
    BY <1>11, <1>12, <2>1
  <2> QED
    BY <1>1, <1>3, <1>4, <2>2 DEF Same
<1>13. CASE n # 0
  <2>1. n \in 1 .. Len(Content(ring))
    BY <1>5, <1>8, <1>13
  <2>2. Stream!Get
    BY <1>1, <1>4, <1>11, <2>1 DEF Stream!Get, Due, Session
  <2> QED
    BY <1>3, <2>2
<1> QED
  BY <1>12, <1>13

-----------------------------------------------------------------------------
(* The mapping of every step, and the invariant it needs.                  *)
LEMMA SameStutters == Same => UNCHANGED <<Content(ring), Due, faults, Session>>
BY DEF Same

LEMMA NextStep ==
    ASSUME SInv, [Next]_vars
    PROVE  SInv' /\ (Stream!Next \/ Same)
<1> USE DEF Stream!Next
<1>1. IInv' /\ TypeOK'
  BY NextIInv DEF SInv, IInv
<1>2. CASE Fill
  <2>1. Session' = Session /\ faults' = faults
    BY <1>2 DEF Fill, Session
  <2> QED
    BY <1>1, <1>2, <2>1, FillStep, ContentKept DEF SInv, Same
<1>3. CASE TransferFails
  BY <1>1, <1>3, TransferFailsStep DEF SInv
<1>4. CASE CallbackStarts
  <2>1. Session' = Session
    BY <1>4, CallbackStartsStep DEF Session
  <2>2. CASE Due' = Due /\ faults' = faults
    BY <1>1, <1>4, <2>1, <2>2, CallbackStartsStep, ContentKept DEF SInv, Same
  <2>3. CASE faults' = faults + 1
    <3>1. CASE AFault
      BY <1>1, <1>4, <3>1, CallbackStartsStep, FaultImplements DEF SInv
    <3>2. CASE NoFault
      <4>1. faults \in Int
        BY ConstantTypes DEF SInv, IInv, TypeOK
      <4> QED
        BY <2>3, <3>2, <4>1 DEF NoFault
    <3> QED
      BY <1>4, <3>1, <3>2 DEF CallbackStarts
  <2> QED
    BY <1>4, <2>2, <2>3, CallbackStartsStep
<1>5. CASE CallbackCopies
  BY <1>1, <1>5, CallbackCopiesStep DEF SInv
<1>6. CASE Open
  BY <1>1, <1>6, OpenStep DEF SInv
<1>7. CASE Close
  BY <1>1, <1>7, CloseStep DEF SInv
<1>8. CASE SetAttr
  BY <1>1, <1>8, SetAttrStep DEF SInv
<1>9. CASE ReadStarts \/ TestsPending \/ ClearsPending \/ ReadsOn
  BY <1>1, <1>9, TestsStep DEF SInv
<1>14. CASE Submits
  BY <1>1, <1>14, SubmitsStep DEF SInv
<1>10. CASE Woken
  BY <1>1, <1>10, WokenStep DEF SInv
<1>11. CASE Copies
  BY <1>1, <1>11, CopiesStep DEF SInv
<1>12. CASE Advances
  BY <1>1, <1>12, AdvancesStep DEF SInv
<1>13. CASE UNCHANGED vars
  <2>1. OnTheWay' = OnTheWay /\ Copying' = Copying
    BY <1>13 DEF vars, OnTheWay, Copying
  <2>2. Numbered' /\ ClosedIdle'
    BY <1>13, <2>1 DEF vars, Numbered, ClosedIdle, SInv
  <2>3. Same
    BY <1>13, <2>1, ContentKept DEF vars, Same, Due, Session
  <2> QED
    BY <1>1, <2>2, <2>3 DEF SInv
<1> QED
  BY <1>2, <1>3, <1>4, <1>5, <1>6, <1>7, <1>8, <1>9, <1>10, <1>11, <1>12, <1>13, <1>14
     DEF Next, Interrupt, Reads

(* The reader of a port sees the bytes of the device in order and each     *)
(* once (ByteStream), but for faults, fresh starts and the bytes of the    *)
(* transfer of an overtaken read that find the ring full: for every size   *)
(* of the ring and of the transfers, and however the callback falls into a *)
(* read.                                                                   *)
THEOREM SerialImplementsStream == Spec => ImplementsStream
<1>1. Init => Stream!Init
  <2> SUFFICES ASSUME Init PROVE Stream!Init
    OBVIOUS
  <2>1. Content(EmptyRing(0)) \in Seq(Bytes) /\ Len(Content(EmptyRing(0))) = 0
    BY EmptyType, ContentType
  <2>2. Content(ring) = <<>>
    BY <2>1 DEF Init
  <2>3. OnTheWay = 0
    BY DEF Init, OnTheWay, Copying
  <2>4. 0 \in 0 .. Numbers - 1 /\ next - OnTheWay = 0
    BY <2>3, ConstantTypes DEF Init
  <2>5. (next - OnTheWay) % Numbers = 0
    BY <2>4, ConstantTypes, ModSmall
  <2> QED
    BY <2>2, <2>5 DEF Stream!Init, Init
<1>2. Init => SInv
  BY InitSInv
<1>3. SInv /\ [Next]_vars => SInv'
  BY NextStep
<1>4. SInv /\ [Next]_vars
        => [Stream!Next]_<<Content(ring), (next - OnTheWay) % Numbers, faults,
                           <<program.step = "closed", program.unset, fresh>>>>
  BY NextStep, SameStutters DEF Due, Session
<1> QED
  BY <1>1, <1>2, <1>3, <1>4, PTL DEF Spec, ImplementsStream, Stream!Spec
=============================================================================
