-------------------------- MODULE UsbfsBulk_proofs ---------------------------
(***************************************************************************)
(* Machine-checked proofs about UsbfsBulk, for every value of its          *)
(* constants.                                                              *)
(***************************************************************************)
EXTENDS UsbfsBulk, TLAPS

Resp == {"NAK", "ACK", "STALL"}

\* What is left of a write and what was sent of it make up the write, and
\* the packet offered is the first of what is left.
Progress ==
    tx.resp = "ACK" => in.actual + in.len = writing /\ tx.len = Least(in.len, Mps)

TypeInv == TypeOK /\ Progress

\* The device has the host's packet exactly when their OUT toggles differ.
OutInStep ==
    IF hOut.fate = "sending"
    THEN IF hOut.tog = rx.tog THEN copies = 0 ELSE copies = 1
    ELSE /\ hOut.tog = rx.tog
         /\ IF hOut.fate = "acked" THEN copies = 1 ELSE copies <= 1

\* Between writes the IN toggles agree.
InInStep == tx.resp # "ACK" => tx.tog = hInTog

InInv == InOrder /\ InInStep

-----------------------------------------------------------------------------
(* Arithmetic. *)

LEMMA WordArith ==
    /\ W \in Nat \ {0} /\ Mps \in 1 .. W - 1
    /\ \A a \in Int : a % W \in 0 .. W - 1
    /\ \A a \in 0 .. W - 1 : a % W = a
  BY SizesAssumption

LEMMA LeastType ==
    ASSUME NEW len \in 0 .. W - 1
    PROVE  Least(len, Mps) \in 0 .. Mps /\ Least(len, Mps) <= len
  BY SizesAssumption DEF Least

-----------------------------------------------------------------------------
(* Types. *)

LEMMA DropType ==
    Drop \in [fate : {"dropped", "sending", "acked"}, n : 0 .. Mps, tog : BOOLEAN]
  BY WordArith DEF Drop

LEMMA TypeInit == Init => TypeInv
  <1>1. 0 \in 0 .. W - 1 /\ 0 \in 0 .. Mps BY WordArith
  <1> SUFFICES ASSUME Init PROVE TypeInv
    OBVIOUS
  <1>3. /\ rx \in [resp : {"NAK", "ACK", "STALL"}, tog : BOOLEAN]
        /\ tx \in [resp : {"NAK", "ACK", "STALL"}, tog : BOOLEAN, len : 0 .. Mps]
        /\ tx.resp = "NAK"
    BY <1>1 DEF Init
  <1>4. out \in [len : 0 .. W - 1, actual : 0 .. W - 1] /\ in \in [len : 0 .. W - 1, actual : 0 .. W - 1]
    BY <1>1 DEF Init
  <1> QED BY <1>1, <1>3, <1>4, DropType DEF Init, TypeInv, TypeOK, Progress

LEMMA OutType ==
    ASSUME TypeOK, OutInterrupt
    PROVE  /\ rx' \in [resp : Resp, tog : BOOLEAN]
           /\ out' \in [len : 0 .. W - 1, actual : 0 .. W - 1]
           /\ reading' \in 0 .. W - 1 /\ astray' \in {"no", "spilt", "unread"} /\ copies' \in Nat
  <1>1. CASE ~Expected
    BY <1>1 DEF OutInterrupt, TypeOK, Resp
  <1>2. CASE Expected
    <2> DEFINE left == (out.len - hOut.n) % W
    <2>1. left \in 0 .. W - 1 /\ (out.actual + hOut.n) % W \in 0 .. W - 1
      BY WordArith DEF TypeOK
    <2>2. out' = [len |-> left, actual |-> (out.actual + hOut.n) % W]
      BY <1>2 DEF OutInterrupt
    <2>3. /\ rx' = [resp |-> IF ReadDone(hOut.n, left) THEN "NAK" ELSE "ACK", tog |-> ~rx.tog]
          /\ reading' = IF ReadDone(hOut.n, left) THEN 0 ELSE reading
          /\ astray' = IF reading > 0 /\ hOut.n > out.len THEN "spilt" ELSE astray
          /\ copies' = copies + 1
      BY <1>2 DEF OutInterrupt
    <2> HIDE DEF left
    <2>4. rx' \in [resp : Resp, tog : BOOLEAN] BY <2>3 DEF Resp
    <2>5. reading' \in 0 .. W - 1 /\ copies' \in Nat BY <2>3, WordArith DEF TypeOK
    <2>6. astray' \in {"no", "spilt", "unread"} BY <2>3 DEF TypeOK
    <2> QED BY <2>1, <2>2, <2>4, <2>5, <2>6
  <1> QED BY <1>1, <1>2

LEMMA InType ==
    ASSUME TypeInv, tx.resp = "ACK", InInterrupt
    PROVE  /\ tx' \in [resp : Resp, tog : BOOLEAN, len : 0 .. Mps]
           /\ in' \in [len : 0 .. W - 1, actual : 0 .. W - 1]
           /\ Progress'
  <1> USE DEF TypeInv, TypeOK
  <1>1. CASE LastPacket
    <2>1. /\ in' = [len |-> 0, actual |-> in.actual + in.len]
          /\ tx' = [tx EXCEPT !.resp = "NAK", !.tog = ~@]
      BY <1>1 DEF InInterrupt
    <2>2. in.actual + in.len = writing BY DEF Progress
    <2>3. in' \in [len : 0 .. W - 1, actual : 0 .. W - 1] BY <2>1, <2>2, WordArith
    <2>4. tx' \in [resp : Resp, tog : BOOLEAN, len : 0 .. Mps] /\ tx'.resp = "NAK"
      BY <2>1 DEF Resp
    <2> QED BY <2>3, <2>4 DEF Progress
  <1>2. CASE ~LastPacket
    <2>1. /\ in' = [len |-> in.len - Mps, actual |-> in.actual + Mps]
          /\ tx' = [resp |-> "ACK", tog |-> ~tx.tog, len |-> Least(in.len - Mps, Mps)]
          /\ UNCHANGED writing
      BY <1>2 DEF InInterrupt
    <2>2. in.actual + in.len = writing /\ in.len > Mps BY <1>2, WordArith DEF Progress, LastPacket
    <2>3. in.len - Mps \in 0 .. W - 1 /\ in.actual + Mps \in 0 .. W - 1
      BY <2>2, WordArith
    <2>4. in' \in [len : 0 .. W - 1, actual : 0 .. W - 1] BY <2>1, <2>3
    <2>5. Least(in.len - Mps, Mps) \in 0 .. Mps BY <2>3, LeastType
    <2>6. tx' \in [resp : Resp, tog : BOOLEAN, len : 0 .. Mps] BY <2>1, <2>5 DEF Resp
    <2>7. in'.actual + in'.len = writing'
      <3>1. in'.actual = in.actual + Mps /\ in'.len = in.len - Mps /\ writing' = writing
        BY <2>1
      <3>2. in.actual \in Int /\ in.len \in Int /\ Mps \in Int BY WordArith
      <3> HIDE DEF TypeInv, TypeOK
      <3> QED BY <2>2, <3>1, <3>2
    <2>8. tx'.len = Least(in'.len, Mps) BY <2>1
    <2> QED BY <2>4, <2>6, <2>7, <2>8 DEF Progress
  <1> QED BY <1>1, <1>2

LEMMA FetchType ==
    ASSUME TypeOK, Fetch
    PROVE  hInGot' \in Nat /\ hInTog' \in BOOLEAN /\ UNCHANGED <<hOut, copies>>
  <1>1. hInGot + tx.len \in Nat BY WordArith DEF TypeOK
  <1> QED BY <1>1 DEF Fetch, TypeOK

LEMMA TypeStep == TypeInv /\ [Next]_vars => TypeInv'
  <1> SUFFICES ASSUME TypeInv, [Next]_vars PROVE TypeInv'
    OBVIOUS
  <1>t. TypeOK /\ Progress BY DEF TypeInv
  <1>1. ASSUME NEW len \in Reads, StartRead(len) PROVE TypeInv'
    <2>1. len \in 0 .. W - 1 /\ 0 \in 0 .. W - 1 BY SizesAssumption
    <2> QED BY <1>t, <1>1, <2>1 DEF StartRead, TypeInv, TypeOK, Progress
  <1>2. ASSUME NEW len \in Writes, StartWrite(len) PROVE TypeInv'
    <2>1. len \in 0 .. W - 1 /\ 0 \in 0 .. W - 1 BY SizesAssumption
    <2>2. Least(len, Mps) \in 0 .. Mps BY <2>1, LeastType
    <2>3. /\ in' = [len |-> len, actual |-> 0] /\ writing' = len /\ hInGot' = 0
          /\ tx' = [tx EXCEPT !.resp = "ACK", !.len = Least(len, Mps)]
          /\ UNCHANGED <<rx, out, reading, astray, hOut, copies, hInTog>>
      BY <1>2 DEF StartWrite
    <2>4. TypeOK' BY <1>t, <2>1, <2>2, <2>3 DEF TypeOK
    <2>5. in'.actual + in'.len = writing' BY <2>1, <2>3
    <2>6. tx'.len = Least(in'.len, Mps) BY <1>t, <2>3 DEF TypeOK
    <2> QED BY <2>4, <2>5, <2>6 DEF TypeInv, Progress
  <1>3. CASE StallOut \/ StallIn
    BY <1>t, <1>3 DEF StallOut, StallIn, TypeInv, TypeOK, Progress
  <1>4. CASE NewPacket
    <2>1. Packets \subseteq 0 .. Mps BY SizesAssumption
    <2> QED BY <1>t, <1>4, <2>1 DEF NewPacket, device, TypeInv, TypeOK, Progress
  <1>5. CASE OutToken \/ OutTokenLost
    <2>1. /\ UNCHANGED <<tx, in, writing, hInTog, hInGot>> /\ OutInterrupt
          /\ hOut' \in [fate : {"dropped", "sending", "acked"}, n : 0 .. Mps, tog : BOOLEAN]
      BY <1>t, <1>5 DEF OutToken, OutTokenLost, Send, TypeOK
    <2> QED BY <1>t, <2>1, OutType DEF TypeInv, TypeOK, Progress, Resp
  <1>6. CASE InToken \/ InTokenLost
    <2>1. Fetch /\ tx.resp = "ACK" BY <1>6 DEF InToken, InTokenLost, Fetch
    <2>2. CASE InInterrupt
      <3>1. UNCHANGED <<rx, out, reading, astray, writing>> BY <2>2 DEF InInterrupt
      <3>2. hInGot' \in Nat /\ hInTog' \in BOOLEAN /\ UNCHANGED <<hOut, copies>>
        BY <1>t, <2>1, FetchType
      <3>3. /\ tx' \in [resp : Resp, tog : BOOLEAN, len : 0 .. Mps]
            /\ in' \in [len : 0 .. W - 1, actual : 0 .. W - 1]
            /\ Progress'
        BY <2>1, <2>2, InType
      <3>4. TypeOK' BY <1>t, <3>1, <3>2, <3>3 DEF TypeOK, Resp
      <3> QED BY <3>3, <3>4 DEF TypeInv
    <2>3. CASE UNCHANGED device
      BY <1>t, <2>1, <2>3, FetchType DEF device, TypeInv, TypeOK, Progress
    <2> QED BY <1>6, <2>2, <2>3 DEF InToken, InTokenLost
  <1>7. CASE ClearHaltOut \/ ClearHaltIn
    <2>1. CASE ClearHaltOut
      BY <1>t, <2>1, DropType DEF ClearHaltOut, TypeInv, TypeOK, Progress
    <2>2. CASE ClearHaltIn
      BY <1>t, <2>2 DEF ClearHaltIn, TypeInv, TypeOK, Progress
    <2> QED BY <1>7, <2>1, <2>2
  <1>8. ASSUME NEW alt \in Alts, SetInterface(alt) PROVE TypeInv'
    <2>1. 0 \in 0 .. Mps /\ 0 \in 0 .. W - 1 BY WordArith
    <2>2. hOut' = Drop /\ copies' = 0 /\ hInTog' = FALSE BY <1>8 DEF SetInterface
    <2>3. CASE CloseEndpoints
      BY <1>t, <2>1, <2>2, <2>3, DropType DEF CloseEndpoints, device, TypeInv, TypeOK, Progress
    <2>4. CASE OpenEndpoints
      BY <1>t, <2>1, <2>2, <2>4, DropType DEF OpenEndpoints, TypeInv, TypeOK, Progress
    <2> QED BY <1>8, <2>3, <2>4 DEF SetInterface
  <1>9. CASE UNCHANGED vars
    BY <1>t, <1>9 DEF vars, device, TypeInv, TypeOK, Progress
  <1> QED BY <1>1, <1>2, <1>3, <1>4, <1>5, <1>6, <1>7, <1>8, <1>9 DEF Next

(* Every register, transfer record and counter keeps its type: no length   *)
(* handed to the controller exceeds the packet size, and the lengths of a  *)
(* transfer never leave the 32-bit word.                                   *)
THEOREM TypeCorrect == Spec => []TypeOK
  <1>1. TypeInv => TypeOK BY DEF TypeInv
  <1> QED BY TypeInit, TypeStep, <1>1, PTL DEF Spec
-----------------------------------------------------------------------------
(* Reads. *)

LEMMA FitsInit == Init => TransferFits
  BY DEF Init, TransferFits

\* A packet that fits moves from what is left of a read to what was received.
LEMMA Shift ==
    ASSUME NEW actual \in 0 .. W - 1, NEW left \in 0 .. W - 1, NEW total \in 0 .. W - 1,
           NEW n \in 0 .. Mps, actual + left = total, n <= left
    PROVE  /\ (left - n) % W = left - n /\ (actual + n) % W = actual + n
           /\ (actual + n) + (left - n) = total /\ left - n >= 0
  <1>1. left - n \in 0 .. W - 1 /\ actual + n \in 0 .. W - 1
    BY WordArith
  <1>2. (left - n) % W = left - n /\ (actual + n) % W = actual + n
    BY <1>1, WordArith
  <1> QED BY <1>1, <1>2, WordArith

\* The next packet, of a read in progress or of none.
LEMMA FitsReceive ==
    ASSUME TypeOK, TransferFits, rx.resp = "ACK", OutInterrupt
    PROVE  TransferFits'
  <1>1. CASE ~Expected
    BY <1>1 DEF OutInterrupt, TransferFits
  <1>2. CASE Expected
    <2> DEFINE n    == hOut.n
               left == (out.len - n) % W
    <2>1. /\ out' = [len |-> left, actual |-> (out.actual + n) % W]
          /\ rx' = [resp |-> IF ReadDone(n, left) THEN "NAK" ELSE "ACK", tog |-> ~rx.tog]
          /\ reading' = IF ReadDone(n, left) THEN 0 ELSE reading
          /\ astray' = IF reading > 0 /\ n > out.len THEN "spilt" ELSE astray
      BY <1>2 DEF OutInterrupt
    <2>2. /\ n \in 0 .. Mps /\ out.len \in 0 .. W - 1 /\ out.actual \in 0 .. W - 1
          /\ reading \in 0 .. W - 1
      BY DEF TypeOK
    <2>3. left \in 0 .. W - 1
      BY <2>2, WordArith
    <2>4. CASE ReadDone(n, left)
      <3>1. reading' = 0 /\ rx'.resp = "NAK"
        BY <2>1, <2>4
      <3> QED BY <3>1 DEF TransferFits
    <2>5. CASE ~ReadDone(n, left) /\ reading = 0
      <3>1. reading' = 0 /\ astray' = astray /\ astray = "unread"
        BY <2>1, <2>5 DEF TransferFits
      <3> QED BY <3>1 DEF TransferFits
    <2>6. CASE ~ReadDone(n, left) /\ reading > 0 /\ (astray = "spilt" \/ n > out.len)
      <3>1. reading' > 0 /\ astray' = "spilt"
        BY <2>1, <2>6
      <3> QED BY <3>1 DEF TransferFits
    <2>7. CASE ~ReadDone(n, left) /\ reading > 0 /\ astray # "spilt" /\ n <= out.len
      <3>1. out.actual + out.len = reading
        BY <2>7 DEF TransferFits
      <3>2. left = out.len - n /\ (out.actual + n) % W = out.actual + n
            /\ (out.actual + n) + (out.len - n) = reading
        BY <2>2, <2>7, <3>1, Shift
      <3>3. reading' = reading /\ out'.len = left /\ out'.actual = (out.actual + n) % W
        BY <2>1, <2>7
      <3>4. left # 0
        BY <2>7 DEF ReadDone
      <3> HIDE DEF left, n
      <3>5. out'.actual + out'.len = reading' /\ out'.len > 0
        BY <2>3, <3>2, <3>3, <3>4, WordArith
      <3>6. reading' > 0
        BY <2>7, <3>3
      <3> QED BY <3>5, <3>6 DEF TransferFits
    <2>8. n <= out.len \/ n > out.len
      BY <2>2, WordArith
    <2> QED BY <2>2, <2>4, <2>5, <2>6, <2>7, <2>8
  <1> QED BY <1>1, <1>2

LEMMA FitsStep == TypeInv /\ TransferFits /\ [Next]_vars => TransferFits'
  <1> SUFFICES ASSUME TypeOK, TransferFits, [Next]_vars PROVE TransferFits'
    BY DEF TypeInv
  <1>1. ASSUME NEW len \in Reads, StartRead(len) PROVE TransferFits'
    <2>1. len \in 1 .. W - 1 /\ W \in Nat
      BY SizesAssumption
    <2>2. out'.len = len /\ out'.actual = 0 /\ reading' = len
      BY <1>1 DEF StartRead
    <2> QED BY <2>1, <2>2 DEF TransferFits
  <1>2. CASE OutToken \/ OutTokenLost
    BY <1>2, FitsReceive DEF OutToken, OutTokenLost, Send
  <1>3. ASSUME rx'.resp = rx.resp \/ rx'.resp # "ACK", UNCHANGED <<out, reading, astray>>
        PROVE  TransferFits'
    BY <1>3 DEF TransferFits
  <1>4. ASSUME NEW alt \in Alts, SetInterface(alt) PROVE TransferFits'
    <2>1. CASE CloseEndpoints
      BY <1>3, <2>1 DEF CloseEndpoints, device
    <2>2. CASE OpenEndpoints
      BY <2>2 DEF OpenEndpoints, TransferFits
    <2> QED BY <1>4, <2>1, <2>2 DEF SetInterface
  <1>5. ASSUME NEW len \in Writes, StartWrite(len) PROVE TransferFits'
    BY <1>3, <1>5 DEF StartWrite
  <1>6. CASE StallOut
    <2>1. rx'.resp = "STALL" BY <1>6 DEF StallOut, TypeOK
    <2> QED BY <1>3, <1>6, <2>1 DEF StallOut
  <1>7. CASE ClearHaltOut
    <2>1. astray' = (IF reading = 0 THEN "unread" ELSE astray) /\ UNCHANGED <<out, reading>>
      BY <1>7 DEF ClearHaltOut
    <2>2. reading \in 0 .. W - 1 /\ W \in Nat
      BY WordArith DEF TypeOK
    <2> QED BY <2>1, <2>2 DEF TransferFits
  <1>8. CASE StallIn \/ NewPacket \/ InTokenLost \/ ClearHaltIn
    BY <1>3, <1>8 DEF StallIn, NewPacket, InTokenLost, ClearHaltIn, device
  <1>9. CASE InToken
    BY <1>3, <1>9 DEF InToken, InInterrupt
  <1>10. CASE UNCHANGED vars
    BY <1>3, <1>10 DEF vars, device
  <1> QED BY <1>1, <1>2, <1>4, <1>5, <1>6, <1>7, <1>8, <1>9, <1>10 DEF Next

(* While a read is in progress the driver knows what is left of the        *)
(* caller's buffer, and without one the endpoint takes no packet: data     *)
(* passes the end of a buffer only if the host sends more than is left, or *)
(* has cleared a halt where no read was in progress.  For every length of  *)
(* reads and size of packets.                                              *)
THEOREM ReadsFit == Spec => []TransferFits
  BY TypeInit, TypeStep, FitsInit, FitsStep, PTL DEF Spec
-----------------------------------------------------------------------------
(* Packets of the host, as long as it selects no setting 0. *)

LEMMA OutInit == Init => OutInStep
  BY DEF Init, Drop, OutInStep

\* The device takes a packet with the expected toggle, and only that one.
LEMMA OutSend ==
    ASSUME TypeOK, OutInStep, Send
    PROVE  copies' = 1 /\ hOut.tog # rx'.tog
  <1>1. hOut.tog \in BOOLEAN /\ rx.tog \in BOOLEAN BY DEF TypeOK
  <1>2. CASE Expected
    <2>1. copies = 0 BY <1>2 DEF Send, Expected, OutInStep
    <2>2. copies' = copies + 1 /\ rx'.tog = ~rx.tog BY <1>2 DEF Send, OutInterrupt
    <2> QED BY <1>1, <1>2, <2>1, <2>2 DEF Expected
  <1>3. CASE ~Expected
    <2>1. copies = 1 /\ UNCHANGED <<rx, copies>>
      BY <1>3 DEF Send, Expected, OutInStep, OutInterrupt
    <2> QED BY <1>3, <2>1 DEF Expected
  <1> QED BY <1>2, <1>3

LEMMA OutStep ==
    ASSUME 0 \notin Alts, TypeOK, OutInStep, [Next]_vars
    PROVE  OutInStep'
  <1>1. CASE OutToken
    <2>1. copies' = 1 /\ hOut.tog # rx'.tog BY <1>1, OutSend DEF OutToken
    <2>2. hOut.tog \in BOOLEAN /\ rx'.tog \in BOOLEAN
      <3>1. rx' \in [resp : Resp, tog : BOOLEAN] BY <1>1, OutType DEF OutToken, Send
      <3> QED BY <3>1 DEF TypeOK
    <2>3. hOut'.fate = "acked" /\ hOut'.tog = ~hOut.tog BY <1>1 DEF OutToken, TypeOK
    <2> QED BY <2>1, <2>2, <2>3 DEF OutInStep
  <1>2. CASE OutTokenLost
    <2>1. copies' = 1 /\ hOut.tog # rx'.tog BY <1>2, OutSend DEF OutTokenLost
    <2>2. UNCHANGED hOut /\ hOut.fate = "sending" BY <1>2 DEF OutTokenLost, Send
    <2> QED BY <2>1, <2>2 DEF OutInStep
  <1>3. CASE NewPacket
    <2>1. hOut.tog = rx.tog /\ UNCHANGED rx /\ copies' = 0
      BY <1>3 DEF NewPacket, OutInStep, device
    <2>2. hOut'.fate = "sending" /\ hOut'.tog = hOut.tog BY <1>3 DEF NewPacket, TypeOK
    <2> QED BY <2>1, <2>2 DEF OutInStep
  <1>4. CASE ClearHaltOut
    <2>1. copies <= 1 BY DEF OutInStep
    <2> QED BY <1>4, <2>1 DEF ClearHaltOut, Drop, OutInStep
  <1>5. ASSUME NEW alt \in Alts, SetInterface(alt) PROVE OutInStep'
    <2>1. OpenEndpoints /\ hOut' = Drop /\ copies' = 0 BY <1>5 DEF SetInterface
    <2> QED BY <2>1 DEF OpenEndpoints, Drop, OutInStep
  <1>6. ASSUME rx'.tog = rx.tog, UNCHANGED <<hOut, copies>> PROVE OutInStep'
    BY <1>6 DEF OutInStep
  <1>7. ASSUME NEW len \in Reads, StartRead(len) PROVE OutInStep'
    BY <1>6, <1>7 DEF StartRead, TypeOK
  <1>8. ASSUME NEW len \in Writes, StartWrite(len) PROVE OutInStep'
    BY <1>6, <1>8 DEF StartWrite
  <1>9. CASE StallOut \/ StallIn \/ ClearHaltIn
    BY <1>6, <1>9 DEF StallOut, StallIn, ClearHaltIn, TypeOK
  <1>10. CASE InToken \/ InTokenLost
    BY <1>6, <1>10 DEF InToken, InTokenLost, Fetch, InInterrupt, device
  <1>11. CASE UNCHANGED vars
    BY <1>6, <1>11 DEF vars, device
  <1> QED BY <1>1, <1>2, <1>3, <1>4, <1>5, <1>7, <1>8, <1>9, <1>10, <1>11 DEF Next

(* Whatever handshakes get lost and wherever endpoints are stalled, cleared*)
(* and opened again, the device takes a packet of the host exactly once    *)
(* before the host believes it delivered, if the host selects no setting 0.*)
THEOREM PacketsOnce ==
    ASSUME 0 \notin Alts
    PROVE  Spec => []ExactlyOnce
  <1>1. TypeInv /\ OutInStep /\ [Next]_vars => OutInStep'
    BY OutStep DEF TypeInv
  <1>2. OutInStep => ExactlyOnce
    BY DEF OutInStep, ExactlyOnce
  <1> QED BY TypeInit, TypeStep, OutInit, <1>1, <1>2, PTL DEF Spec

-----------------------------------------------------------------------------
(* Packets of the device. *)

LEMMA InInit == Init => InInv
  <1> SUFFICES ASSUME Init PROVE InInv
    OBVIOUS
  <1>1. tx.resp = "NAK" /\ tx.tog = FALSE /\ hInTog = FALSE /\ hInGot = 0 /\ writing = 0
    BY DEF Init
  <1> QED BY <1>1 DEF InInv, InOrder, InInStep

\* After a fetch the host has the packet, and expects the other toggle.
LEMMA HostHas ==
    ASSUME TypeInv, InInv, Fetch
    PROVE  /\ tx.resp = "ACK"
           /\ hInGot' = in.actual + tx.len /\ hInTog' = ~tx.tog
  <1>1. hInGot \in Nat /\ in.actual \in Nat /\ tx.len \in Nat BY WordArith DEF TypeInv, TypeOK
  <1> QED BY <1>1 DEF Fetch, InInv, InOrder

LEMMA InFetched ==
    ASSUME TypeInv, InInv, InToken
    PROVE  InInv'
  <1>1. /\ tx.resp = "ACK" /\ hInGot' = in.actual + tx.len /\ hInTog' = ~tx.tog
        /\ InInterrupt
    BY HostHas DEF InToken
  <1>2. /\ in.len \in 0 .. W - 1 /\ in.actual \in 0 .. W - 1 /\ tx.tog \in BOOLEAN
        /\ in.actual + in.len = writing /\ tx.len = Least(in.len, Mps)
    BY <1>1 DEF TypeInv, TypeOK, Progress
  <1>3. CASE LastPacket
    <2>1. tx.len = in.len BY <1>2, <1>3 DEF LastPacket, Least
    <2>2. tx'.resp = "NAK" /\ tx'.tog = ~tx.tog /\ writing' = writing
      BY <1>1, <1>3 DEF InInterrupt, TypeInv, TypeOK
    <2> QED BY <1>1, <1>2, <2>1, <2>2 DEF InInv, InOrder, InInStep
  <1>4. CASE ~LastPacket
    <2>1. tx.len = Mps BY <1>2, <1>4, WordArith DEF LastPacket, Least
    <2>2. tx'.resp = "ACK" /\ tx'.tog = ~tx.tog /\ in'.actual = in.actual + Mps
      BY <1>1, <1>4 DEF InInterrupt
    <2>3. in.actual + Mps \in Int BY <1>2, WordArith
    <2> QED BY <1>1, <1>2, <2>1, <2>2, <2>3 DEF InInv, InOrder, InInStep
  <1> QED BY <1>3, <1>4

LEMMA InStep ==
    ASSUME 0 \notin Alts, TypeInv, InInv, [Next]_vars
    PROVE  InInv'
  <1>1. CASE InToken
    BY <1>1, InFetched
  <1>2. CASE InTokenLost
    <2>1. /\ tx.resp = "ACK" /\ hInGot' = in.actual + tx.len /\ hInTog' = ~tx.tog
          /\ UNCHANGED device
      BY <1>2, HostHas DEF InTokenLost
    <2>2. tx.tog \in BOOLEAN BY DEF TypeInv, TypeOK
    <2> QED BY <2>1, <2>2 DEF device, InInv, InOrder, InInStep
  <1>3. ASSUME NEW len \in Writes, StartWrite(len) PROVE InInv'
    <2>1. tx.tog = hInTog BY <1>3 DEF StartWrite, InInv, InInStep
    <2>2. /\ tx'.resp = "ACK" /\ tx'.tog = tx.tog /\ UNCHANGED hInTog
          /\ in'.actual = 0 /\ hInGot' = 0
      BY <1>3 DEF StartWrite, TypeInv, TypeOK
    <2> QED BY <2>1, <2>2 DEF InInv, InOrder, InInStep
  <1>4. CASE StallIn
    <2>1. tx.resp # "ACK" /\ tx'.resp = "STALL" /\ tx'.tog = tx.tog
          /\ UNCHANGED <<hInTog, hInGot, writing>>
      BY <1>4 DEF StallIn, TypeInv, TypeOK
    <2> QED BY <2>1 DEF InInv, InOrder, InInStep
  <1>5. CASE ClearHaltIn
    <2>1. tx.resp # "ACK" /\ tx'.resp = "NAK" /\ tx'.tog = FALSE /\ hInTog' = FALSE
          /\ UNCHANGED <<hInGot, writing>>
      BY <1>5 DEF ClearHaltIn, TypeInv, TypeOK
    <2> QED BY <2>1 DEF InInv, InOrder, InInStep
  <1>6. ASSUME NEW alt \in Alts, SetInterface(alt) PROVE InInv'
    <2>1. OpenEndpoints /\ hInTog' = FALSE BY <1>6 DEF SetInterface
    <2>2. tx'.resp = "NAK" /\ tx'.tog = FALSE /\ writing' = 0 /\ hInGot' = 0
      BY <2>1 DEF OpenEndpoints, TypeInv, TypeOK
    <2> QED BY <2>1, <2>2 DEF InInv, InOrder, InInStep
  <1>7. ASSUME UNCHANGED <<tx, in, writing, hInTog, hInGot>> PROVE InInv'
    BY <1>7 DEF InInv, InOrder, InInStep
  <1>8. ASSUME NEW len \in Reads, StartRead(len) PROVE InInv'
    BY <1>7, <1>8 DEF StartRead
  <1>9. CASE StallOut \/ NewPacket \/ OutToken \/ OutTokenLost \/ ClearHaltOut
    BY <1>7, <1>9 DEF StallOut, NewPacket, OutToken, OutTokenLost, ClearHaltOut, device
  <1>10. CASE UNCHANGED vars
    BY <1>7, <1>10 DEF vars, device
  <1> QED BY <1>1, <1>2, <1>3, <1>4, <1>5, <1>6, <1>8, <1>9, <1>10 DEF Next

(* The host gets every write in order and once, and all of it by the time  *)
(* the driver reports the write complete, under the same condition.        *)
THEOREM WritesInOrder ==
    ASSUME 0 \notin Alts
    PROVE  Spec => []InOrder
  <1>1. TypeInv /\ InInv /\ [Next]_vars => InInv'
    BY InStep
  <1>2. InInv => InOrder
    BY DEF InInv
  <1> QED BY TypeInit, TypeStep, InInit, <1>1, <1>2, PTL DEF Spec
=============================================================================
