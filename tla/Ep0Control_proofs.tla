-------------------------- MODULE Ep0Control_proofs --------------------------
(***************************************************************************)
(* Machine-checked proofs about Ep0Control, for every value of its         *)
(* constants.                                                              *)
(***************************************************************************)
EXTENDS Ep0Control, TLAPS

Handshakes == {"NAK", "ACK", "STALL"}
TxType     == [resp : Handshakes, tog : BOOLEAN, len : 0 .. Mps]
InEpType   == [len : 0 .. W - 1, actual : Nat]

\* The part of TypeOK a handler of the device can change.
DeviceOK ==
    /\ ep0State \in {"SETUP", "IN_DATA", "OUT_DATA", "IN_STATUS", "OUT_STATUS"}
    /\ residue \in 0 .. W - 1 /\ zlp \in BOOLEAN
    /\ setup \in Requests /\ setupMem \in Requests
    /\ dma \in {"setup", "data"}
    /\ tx \in TxType /\ rx \in {"NAK", "ACK"}
    /\ inEp \in InEpType /\ outActual \in Nat
    /\ txToggle \in BOOLEAN
    /\ devAddr \in 0 .. MaxAddr /\ hwAddr \in 0 .. MaxAddr

HostOK ==
    /\ phase \in Phases /\ req \in Requests /\ moved \in Nat
    /\ hTog \in BOOLEAN /\ hAddr \in 0 .. MaxAddr
    /\ outcome \in {"none", "lost", "spoilt", "passed", "refused", "cancelled"}

LEMMA TypeParts == TypeOK <=> DeviceOK /\ HostOK
  BY DEF TypeOK, DeviceOK, HostOK, TxType, InEpType, Handshakes

-----------------------------------------------------------------------------
(* Types. *)

LEMMA Words ==
    /\ W \in Nat \ {0} /\ Mps \in 1 .. W - 1 /\ MaxAddr \in Nat
    /\ 0 \in 0 .. W - 1 /\ 0 \in 0 .. Mps /\ 0 \in 0 .. MaxAddr
    /\ \A a \in Int : a % W \in 0 .. W - 1
  BY SizesAssumption

LEMMA RequestsTyped ==
    /\ ZeroSetup \in Requests
    /\ \A r \in Requests :
         /\ r.wLength \in 0 .. W - 1 /\ r.offer \in 0 .. W - 1
         /\ r.ok \in BOOLEAN /\ r.addr \in {NoAddr} \cup 0 .. MaxAddr
         /\ r.dir \in {"in", "out"}
         /\ Reply(r) \in 0 .. W - 1
  <1>1. ZeroSetup \in Requests /\ Requests \subseteq RequestType BY HostAssumption
  <1>2. ASSUME NEW r \in RequestType PROVE Reply(r) \in 0 .. W - 1
    BY <1>2 DEF RequestType, Reply, Least
  <1> QED BY <1>1, <1>2 DEF RequestType

LEMMA StartWriteType ==
    ASSUME NEW len \in 0 .. W - 1, NEW toggle \in BOOLEAN, StartWrite(len, toggle)
    PROVE  /\ tx' \in TxType /\ inEp' \in InEpType
           /\ tx'.resp = "ACK"
  <1>1. Least(len, Mps) \in 0 .. Mps BY SizesAssumption DEF Least
  <1>2. tx' = [resp |-> "ACK", tog |-> toggle, len |-> Least(len, Mps)]
        /\ inEp' = [len |-> len, actual |-> 0]
    BY DEF StartWrite
  <1> QED BY <1>1, <1>2 DEF TxType, InEpType, Handshakes

LEMMA SetStallType ==
    ASSUME tx \in TxType, SetStall
    PROVE  tx' \in TxType /\ tx'.resp = "STALL" /\ dma' = "setup" /\ rx' = "ACK"
  BY DEF SetStall, TxType, Handshakes

LEMMA SetupType ==
    ASSUME DeviceOK, NEW r \in Requests, SetupInterrupt(r)
    PROVE  DeviceOK'
  <1> DEFINE s == IF dma = "setup" THEN r ELSE setupMem
  <1>1. s \in Requests /\ setupMem' = s /\ setup' = s /\ UNCHANGED txToggle
    BY DEF SetupInterrupt, DeviceOK
  <1>2. SetupTooLong(s) \/ SetupWrite(s) \/ SetupRefused(s) \/ SetupServed(s)
    BY DEF SetupInterrupt
  <1> HIDE DEF s
  <1>3. /\ s.wLength \in 0 .. W - 1 /\ s.offer \in 0 .. W - 1
        /\ s.addr \in {NoAddr} \cup 0 .. MaxAddr /\ Reply(s) \in 0 .. W - 1
    BY <1>1, RequestsTyped
  <1>4. CASE SetupTooLong(s)
    BY <1>1, <1>4, SetStallType DEF SetupTooLong, DeviceOK
  <1>5. CASE SetupWrite(s)
    <2>1. tx' = [tx EXCEPT !.resp = "NAK", !.tog = FALSE] BY <1>5 DEF SetupWrite
    <2>2. tx' \in TxType BY <2>1 DEF DeviceOK, TxType, Handshakes
    <2> QED BY <1>1, <1>3, <1>5, <2>2 DEF SetupWrite, StartRead, DeviceOK
  <1>6. CASE SetupRefused(s)
    BY <1>1, <1>3, <1>6, SetStallType DEF SetupRefused, DeviceOK
  <1>7. CASE SetupServed(s)
    <2>1. tx' \in TxType /\ inEp' \in InEpType
      BY <1>3, <1>7, StartWriteType DEF SetupServed, DeviceOK
    <2>2. zlp' \in BOOLEAN BY <1>7 DEF SetupServed, NeedsZlp
    <2>3. dma' \in {"setup", "data"} BY <1>7 DEF SetupServed, ReplyDma, DeviceOK
    <2>4. devAddr' \in 0 .. MaxAddr /\ hwAddr' \in 0 .. MaxAddr
      BY <1>3, <1>7, Words DEF SetupServed, TakeAddress, DeviceOK, NoAddr
    <2>5. ep0State' \in {"IN_DATA", "IN_STATUS"} /\ residue' = Reply(s) /\ rx' = "NAK"
          /\ UNCHANGED outActual
      BY <1>7 DEF SetupServed
    <2> QED BY <1>1, <1>3, <2>1, <2>2, <2>3, <2>4, <2>5 DEF DeviceOK
  <1> QED BY <1>2, <1>4, <1>5, <1>6, <1>7

\* The parts of the IN completion: either more is sent, or the stage ends.
LEMMA InShape ==
    ASSUME DeviceOK, tx.resp = "ACK", InInterrupt
    PROVE  /\ ep0State' \in {ep0State, "SETUP", "OUT_STATUS"}
           /\ residue' \in 0 .. W - 1 /\ zlp' \in BOOLEAN
           /\ tx' \in TxType /\ tx'.resp = "ACK" /\ inEp' \in InEpType
           /\ rx' \in {rx, "ACK"}
           /\ outActual' \in {0, outActual} /\ txToggle' \in BOOLEAN
           /\ dma' \in {"setup", "data"} /\ (InStatus => dma' = "setup")
           /\ devAddr' = 0 /\ hwAddr' = IF devAddr > 0 THEN devAddr ELSE hwAddr
           /\ UNCHANGED <<setup, setupMem>>
  <1> DEFINE full   == inEp.len >= Mps
             n      == inEp.actual + (IF full THEN Mps ELSE inEp.len)
             left   == InLeft(n)
             toggle == NextToggle(full)
             more   == left # 0 \/ zlp
  <1>1. n \in Nat /\ full \in BOOLEAN BY Words DEF DeviceOK, InEpType
  <1> HIDE DEF n
  <1>2. left \in 0 .. W - 1 BY <1>1, Words DEF InLeft, Sub, DeviceOK
  <1>3. toggle \in BOOLEAN BY DEF NextToggle, DeviceOK
  <1>4. /\ residue' = left /\ zlp' = (zlp /\ left # 0)
        /\ dma' = IF InStatus THEN "setup" ELSE IF left # 0 THEN "data" ELSE dma
        /\ txToggle' = (toggle \/ InStatus)
        /\ hwAddr' = IF devAddr > 0 THEN devAddr ELSE hwAddr
        /\ devAddr' = 0 /\ UNCHANGED <<setup, setupMem>>
    BY DEF InInterrupt, n
  <1>5. \/ /\ StartWrite(left, toggle)
           /\ rx' = IF InStatus THEN "ACK" ELSE rx
           /\ UNCHANGED <<ep0State, outActual>>
        \/ /\ inEp' = [len |-> IF full THEN inEp.len - Mps ELSE 0, actual |-> n]
           /\ UNCHANGED tx
           /\ \/ ep0State' = "OUT_STATUS" /\ StartRead
              \/ /\ ep0State' = IF ep0State = "IN_STATUS" THEN "SETUP" ELSE ep0State
                 /\ rx' = IF InStatus THEN "ACK" ELSE rx
                 /\ UNCHANGED outActual
    BY DEF InInterrupt, n
  <1>6. (IF full THEN inEp.len - Mps ELSE 0) \in 0 .. W - 1
    <2>1. inEp.len \in 0 .. W - 1 BY DEF DeviceOK, InEpType
    <2> QED BY <2>1, SizesAssumption
  <1> HIDE DEF full, left, toggle, more
  <1>7. tx' \in TxType /\ tx'.resp = "ACK" /\ inEp' \in InEpType
    <2>1. CASE StartWrite(left, toggle) BY <1>2, <1>3, <2>1, StartWriteType
    <2>2. CASE inEp' = [len |-> IF full THEN inEp.len - Mps ELSE 0, actual |-> n] /\ UNCHANGED tx
      BY <1>1, <1>6, <2>2 DEF DeviceOK, InEpType
    <2> QED BY <1>5, <2>1, <2>2
  <1>8. /\ ep0State' \in {ep0State, "SETUP", "OUT_STATUS"} /\ rx' \in {rx, "ACK"}
        /\ outActual' \in {0, outActual}
    BY <1>5 DEF StartRead
  <1>9. InStatus \in BOOLEAN BY DEF InStatus
  <1>10. zlp' \in BOOLEAN /\ txToggle' \in BOOLEAN
    BY <1>3, <1>4, <1>9 DEF DeviceOK
  <1>11. dma' \in {"setup", "data"} BY <1>4 DEF DeviceOK
  <1> QED BY <1>2, <1>4, <1>7, <1>8, <1>10, <1>11

LEMMA InType ==
    ASSUME DeviceOK, tx.resp = "ACK", InInterrupt
    PROVE  DeviceOK'
  <1>1. devAddr' \in 0 .. MaxAddr /\ hwAddr' \in 0 .. MaxAddr BY InShape, Words DEF DeviceOK
  <1> QED BY <1>1, InShape DEF DeviceOK

LEMMA OutType ==
    ASSUME DeviceOK, NEW n \in Nat, OutInterrupt(n)
    PROVE  DeviceOK'
  <1> DEFINE total == outActual + n
             left  == Sub(residue, total)
  <1>1. total \in Nat BY DEF DeviceOK
  <1>2. left \in 0 .. W - 1 BY <1>1, Words DEF Sub, DeviceOK
  <1>3. /\ txToggle' = (txToggle \/ n = 0)
        /\ IF dma = "setup" /\ n > 0 THEN setupMem' \in Requests ELSE UNCHANGED setupMem
        /\ UNCHANGED <<zlp, setup, devAddr, hwAddr>>
    BY DEF OutInterrupt
  <1>4. \/ /\ ep0State' = "SETUP" /\ residue' = left /\ SetStall
           /\ outActual' = total /\ UNCHANGED inEp
        \/ /\ ep0State' = "IN_STATUS" /\ residue' = left /\ StartWrite(0, txToggle)
           /\ rx' = IF n = 0 THEN "ACK" ELSE "NAK"
           /\ dma' = IF n = 0 THEN "setup" ELSE dma
           /\ outActual' = total
        \/ /\ residue' = left /\ StartRead
           /\ dma' = IF n = 0 THEN "setup" ELSE "data"
           /\ UNCHANGED <<ep0State, inEp, tx>>
        \/ /\ ep0State' = "SETUP" /\ dma' = "setup" /\ rx' = "ACK"
           /\ UNCHANGED <<residue, inEp, outActual, tx>>
    BY DEF OutInterrupt
  <1> HIDE DEF total, left
  <1>5. setupMem' \in Requests /\ txToggle' \in BOOLEAN BY <1>3 DEF DeviceOK
  <1>6. tx' \in TxType /\ inEp' \in InEpType
    <2>1. CASE SetStall /\ UNCHANGED inEp BY <2>1, SetStallType DEF DeviceOK
    <2>2. CASE StartWrite(0, txToggle) BY <2>2, Words, StartWriteType DEF DeviceOK
    <2>3. CASE UNCHANGED <<inEp, tx>> BY <2>3 DEF DeviceOK
    <2> QED BY <1>4, <2>1, <2>2, <2>3
  <1>7. /\ ep0State' \in {ep0State, "SETUP", "IN_STATUS"}
        /\ residue' \in 0 .. W - 1 /\ outActual' \in Nat
        /\ dma' \in {"setup", "data"} /\ rx' \in {"NAK", "ACK"}
    BY <1>1, <1>2, <1>4 DEF SetStall, StartRead, DeviceOK
  <1> QED BY <1>3, <1>5, <1>6, <1>7 DEF DeviceOK

(***************************************************************************)
(* The data of a control write never runs past wLength: without this the   *)
(* length of the next packet is not a number of bytes.                     *)
(***************************************************************************)
DataBounded ==
    /\ phase = "again" => moved = 0
    /\ phase = "dataOut" => moved < req.wLength
    /\ phase = "resend" => moved <= req.wLength

TypeInv == DeviceOK /\ HostOK /\ DataBounded

LEMMA FirstStageTyped ==
    ASSUME NEW r \in Requests
    PROVE  /\ FirstStage(r) \in {"dataIn", "dataOut", "statusIn"}
           /\ FirstStage(r) = "dataOut" => IsWrite(r) /\ 0 < r.wLength
           /\ FirstStage(r) = "statusIn" => ~IsRead(r)
           /\ FirstStage(r) = "dataIn" => IsRead(r)
  BY DEF FirstStage, IsWrite

LEMMA AcceptType ==
    ASSUME TypeInv, AcceptIn
    PROVE  HostOK' /\ DataBounded' /\ phase' \in {"dataIn", "statusOut", "idle"}
  <1>1. tx.len \in Nat BY Words DEF TypeInv, DeviceOK, TxType
  <1>2. req.addr \in {NoAddr} \cup 0 .. MaxAddr BY RequestsTyped DEF TypeInv, HostOK
  <1>3. CASE AcceptData
    <2>1. moved' \in Nat BY <1>1, <1>3 DEF AcceptData, TypeInv, HostOK
    <2>2. phase' \in {"dataIn", "statusOut"} /\ hTog' \in BOOLEAN BY <1>3 DEF AcceptData, TypeInv, HostOK
    <2> QED BY <1>3, <2>1, <2>2 DEF AcceptData, TypeInv, HostOK, DataBounded, Phases
  <1>4. CASE AcceptStatus
    BY <1>2, <1>4 DEF AcceptStatus, TypeInv, HostOK, DataBounded, Phases
  <1> QED BY <1>3, <1>4 DEF AcceptIn

LEMMA TypeInit == Init => TypeInv
  <1>1. Init => HostOK /\ DataBounded
    BY Words, RequestsTyped DEF Init, HostOK, DataBounded, Phases
  <1>2. Init => tx \in TxType /\ inEp \in InEpType
    BY Words DEF Init, TxType, InEpType, Handshakes
  <1>3. Init => /\ ep0State = "SETUP" /\ residue = 0 /\ zlp = FALSE /\ dma = "setup"
                /\ setup = ZeroSetup /\ setupMem = ZeroSetup /\ rx = "ACK"
                /\ outActual = 0 /\ txToggle = TRUE /\ devAddr = 0 /\ hwAddr = 0
    BY DEF Init
  <1>4. ASSUME Init PROVE DeviceOK
    <2>1. setup \in Requests /\ setupMem \in Requests BY <1>3, <1>4, RequestsTyped
    <2>2. residue \in 0 .. W - 1 /\ devAddr \in 0 .. MaxAddr /\ hwAddr \in 0 .. MaxAddr
      BY <1>3, <1>4, Words
    <2>3. zlp \in BOOLEAN /\ txToggle \in BOOLEAN BY <1>3, <1>4
    <2> QED BY <1>2, <1>3, <1>4, <2>1, <2>2, <2>3 DEF DeviceOK
  <1> QED BY <1>1, <1>4 DEF TypeInv

LEMMA TypeStep == TypeInv /\ [Next]_vars => TypeInv'
  <1> SUFFICES ASSUME TypeInv, [Next]_vars PROVE TypeInv'
    OBVIOUS
  <1> USE DEF TypeInv
  <1>1. CASE Submit
    <2>1. PICK r \in Requests :
            /\ req' = r /\ SetupInterrupt(r) /\ phase' \in {FirstStage(r), "again"}
      BY <1>1 DEF Submit
    <2>2. moved' = 0 /\ hTog' = TRUE /\ outcome' \in {"none", "lost"} /\ UNCHANGED hAddr
      BY <1>1 DEF Submit
    <2>3. DeviceOK' BY <2>1, SetupType
    <2>4. phase' \in Phases BY <2>1, FirstStageTyped DEF Phases
    <2>5. HostOK' BY <2>1, <2>2, <2>4 DEF HostOK
    <2>6. DataBounded' BY <2>1, <2>2, FirstStageTyped DEF DataBounded
    <2> QED BY <2>3, <2>5, <2>6
  <1>2. CASE Resubmit
    <2>1. DeviceOK' BY <1>2, SetupType DEF Resubmit, HostOK
    <2>2. req \in Requests BY DEF HostOK
    <2>3. /\ phase' = FirstStage(req) /\ phase = "again"
          /\ UNCHANGED <<req, moved, hTog, hAddr, outcome>>
      BY <1>2 DEF Resubmit
    <2>4. HostOK' BY <2>2, <2>3, FirstStageTyped DEF HostOK, Phases
    <2>5. DataBounded' BY <2>2, <2>3, FirstStageTyped DEF DataBounded
    <2> QED BY <2>1, <2>4, <2>5
  <1>3. CASE InToken BY <1>3, AcceptType, InType DEF InToken, Offered
  <1>4. CASE InTokenLost
    <2>1. DeviceOK' BY <1>4 DEF InTokenLost, core, port, DeviceOK
    <2> QED BY <1>4, <2>1, AcceptType DEF InTokenLost
  <1>5. CASE InStalled
    <2>1. DeviceOK' BY <1>5 DEF InStalled, core, port, DeviceOK
    <2> QED BY <1>5, <2>1 DEF InStalled, HostOK, DataBounded, Phases
  <1>6. CASE SendData
    <2> DEFINE n == Least(req.wLength - moved, Mps)
    <2>1. /\ req.wLength \in Nat /\ moved \in Nat /\ moved < req.wLength /\ Mps \in Nat
      BY <1>6, Words, RequestsTyped DEF SendData, HostOK, DataBounded
    <2>2. n \in Nat /\ moved + n \in Nat /\ moved + n <= req.wLength
      BY <2>1 DEF Least
    <2>3. OutInterrupt(n) /\ moved' = moved + n /\ hTog' = TRUE
          /\ phase' \in {AfterData(moved'), "resend"} /\ UNCHANGED <<req, hAddr, outcome>>
      BY <1>6 DEF SendData
    <2> HIDE DEF n
    <2>4. DeviceOK' BY <2>2, <2>3, OutType
    <2>5. HostOK' BY <2>2, <2>3 DEF HostOK, AfterData, Phases
    <2>6. DataBounded' BY <2>1, <2>2, <2>3 DEF DataBounded, AfterData
    <2> QED BY <2>4, <2>5, <2>6
  <1>7. CASE Resend
    <2> DEFINE n == IF moved % Mps = 0 THEN Mps ELSE moved % Mps
    <2>1. n \in Nat BY SizesAssumption DEF HostOK
    <2>2. OutInterrupt(n) /\ phase' = AfterData(moved) /\ phase = "resend"
          /\ outcome' \in {outcome, "spoilt"} /\ UNCHANGED <<req, moved, hTog, hAddr>>
      BY <1>7 DEF Resend
    <2> HIDE DEF n
    <2>3. DeviceOK' BY <2>1, <2>2, OutType
    <2>4. HostOK' BY <2>2 DEF HostOK, AfterData, Phases
    <2>5. req.wLength \in Nat /\ moved \in Nat BY Words, RequestsTyped DEF HostOK
    <2>6. DataBounded' BY <2>2, <2>5 DEF DataBounded, AfterData
    <2> QED BY <2>3, <2>4, <2>6
  <1>8. CASE SendStatus
    <2>1. DeviceOK' BY <1>8, OutType DEF SendStatus
    <2>2. HostOK' /\ DataBounded' BY <1>8 DEF SendStatus, HostOK, DataBounded, Phases
    <2> QED BY <2>1, <2>2
  <1>9. CASE CallOff
    <2>1. DeviceOK' BY <1>9 DEF CallOff, core, port, DeviceOK
    <2> QED BY <1>9, <2>1 DEF CallOff, HostOK, DataBounded, Phases
  <1>10. CASE BusReset
    <2>1. tx' \in TxType /\ inEp' \in InEpType
      BY <1>10, Words DEF BusReset, TxType, InEpType, Handshakes
    <2>2. DeviceOK' BY <1>10, <2>1, Words, RequestsTyped DEF BusReset, DeviceOK
    <2>3. HostOK' /\ DataBounded'
      BY <1>10, Words DEF BusReset, HostOK, DataBounded, Phases
    <2> QED BY <2>2, <2>3
  <1>11. CASE UNCHANGED vars
    BY <1>11 DEF vars, DeviceOK, HostOK, DataBounded
  <1> QED BY <1>1, <1>2, <1>3, <1>4, <1>5, <1>6, <1>7, <1>8, <1>9, <1>10, <1>11
           DEF Next, Deliver

LEMMA TypeAlways == Spec => []TypeInv
  BY TypeInit, TypeStep, PTL DEF Spec

(***************************************************************************)
(* Every variable keeps its type, whatever the host does.  In the code:    *)
(* the residue stays an unsigned number, and no packet of endpoint 0 is    *)
(* longer than its maximum (usb_dc_usbfs.c, usbd_ep_start_write).          *)
(***************************************************************************)
THEOREM TypeCorrect == Spec => []TypeOK
  <1>1. TypeInv => TypeOK BY TypeParts DEF TypeInv
  <1> QED BY <1>1, TypeAlways, PTL
-----------------------------------------------------------------------------
(* Endpoint 0 is never mute. *)

LEMMA NeverMuteStep == NeverMute /\ [Next]_vars => NeverMute'
  <1> SUFFICES ASSUME NeverMute, [Next]_vars PROVE NeverMute'
    OBVIOUS
  <1>1. ASSUME NEW r, SetupInterrupt(r) PROVE NeverMute'
    <2>1. PICK s : SetupTooLong(s) \/ SetupWrite(s) \/ SetupRefused(s) \/ SetupServed(s)
      BY <1>1 DEF SetupInterrupt
    <2> QED
      BY <2>1 DEF SetupTooLong, SetupWrite, SetupRefused, SetupServed, SetStall, StartRead,
                  StartWrite, NeverMute
  <1>2. ASSUME tx.resp = "ACK", InInterrupt PROVE NeverMute'
    BY <1>2 DEF InInterrupt, StartWrite, NeverMute
  <1>3. ASSUME NEW n, OutInterrupt(n), rx = "ACK" PROVE NeverMute'
    BY <1>3 DEF OutInterrupt, SetStall, StartWrite, StartRead, NeverMute
  <1>4. CASE Submit \/ Resubmit BY <1>1, <1>4 DEF Submit, Resubmit
  <1>5. CASE InToken BY <1>2, <1>5 DEF InToken, Offered
  <1>6. CASE SendData \/ Resend \/ SendStatus
    BY <1>3, <1>6 DEF SendData, Resend, SendStatus
  <1>7. CASE InTokenLost \/ InStalled \/ CallOff
    BY <1>7 DEF InTokenLost, InStalled, CallOff, core, port, NeverMute
  <1>8. CASE BusReset BY <1>8 DEF BusReset, NeverMute
  <1>9. CASE UNCHANGED vars BY <1>9 DEF vars, NeverMute
  <1> QED BY <1>4, <1>5, <1>6, <1>7, <1>8, <1>9 DEF Next, Deliver

(***************************************************************************)
(* Whatever the host does and whatever gets lost, one direction of         *)
(* endpoint 0 answers after every interrupt (usb_dc_usbfs.c, USBD_IRQHandler*)
(* with the three completion handlers of usbd_core.c).                     *)
(***************************************************************************)
THEOREM AlwaysAnswers == Spec => []NeverMute
  <1>1. Init => NeverMute BY DEF Init, NeverMute
  <1> QED BY <1>1, NeverMuteStep, PTL DEF Spec

-----------------------------------------------------------------------------
(* The setup packet lands in the setup structure. *)

(***************************************************************************)
(* A host that finishes what it begins and writes no more than the request *)
(* buffer holds, on a bus that does not lose the two handshakes this       *)
(* device cannot tell from none: of a data packet it received and of its   *)
(* status.                                                                 *)
(***************************************************************************)
OrderlyHost ==
    /\ Aborts = {}
    /\ "dataOut" \notin Loss /\ "statusIn" \notin Loss
    /\ \A r \in Requests : IsWrite(r) => r.wLength <= ReqBuf

(***************************************************************************)
(* The strengthening: where the DMA pointer is in every stage, and the     *)
(* position of a control write, which decides when the pointer returns.    *)
(***************************************************************************)
SetupInv ==
    /\ phase # "idle" => setup = req /\ setupMem = req /\ outcome = "none"
    /\ phase = "idle" => dma = "setup"
    /\ tx.resp = "STALL" => dma = "setup" /\ txToggle = TRUE
    /\ phase \notin {"dataIn", "statusOut"} => txToggle = TRUE
    /\ phase = "statusIn" => ~IsRead(req)
    /\ phase = "dataOut" =>
         /\ dma = "data" /\ tx.resp = "NAK"
         /\ IsWrite(req)
         /\ outActual = 0 /\ residue = req.wLength - moved
    /\ phase # "resend"

LEMMA SetupLands ==
    ASSUME OrderlyHost, DeviceOK, NEW r \in Requests, SetupInterrupt(r),
           dma = "setup" \/ setupMem = r, txToggle = TRUE
    PROVE  /\ setup' = r /\ setupMem' = r /\ txToggle' = TRUE
           /\ tx'.resp = "STALL" => dma' = "setup"
           /\ IsWrite(r) => /\ dma' = "data" /\ tx'.resp = "NAK"
                            /\ outActual' = 0 /\ residue' = r.wLength
  <1>1. /\ setup' = r /\ setupMem' = r /\ UNCHANGED txToggle
        /\ SetupTooLong(r) \/ SetupWrite(r) \/ SetupRefused(r) \/ SetupServed(r)
    BY DEF SetupInterrupt
  <1>2. r.wLength \in Nat /\ ReqBuf \in Nat BY Words, RequestsTyped, SizesAssumption
  <1>3. ~SetupTooLong(r)
    <2>1. SetupTooLong(r) => r.dir = "out" /\ r.wLength > ReqBuf BY DEF SetupTooLong
    <2>2. r.dir = "out" /\ r.wLength > 0 => r.wLength <= ReqBuf BY DEF OrderlyHost, IsWrite
    <2>3. ReqBuf > 0 BY SizesAssumption
    <2> QED BY <1>2, <2>1, <2>2, <2>3
  <1>4. CASE SetupWrite(r)
    <2>1. tx' = [tx EXCEPT !.resp = "NAK", !.tog = FALSE] BY <1>4 DEF SetupWrite
    <2>2. tx'.resp = "NAK" BY <2>1 DEF DeviceOK, TxType
    <2> QED BY <1>1, <1>4, <2>2 DEF SetupWrite, StartRead
  <1>5. CASE SetupRefused(r) BY <1>1, <1>5 DEF SetupRefused, SetStall
  <1>6. CASE SetupServed(r) BY <1>1, <1>6 DEF SetupServed, StartWrite
  <1> QED BY <1>1, <1>3, <1>4, <1>5, <1>6

\* An empty OUT packet ends in the state a SETUP packet needs.
LEMMA StatusReceived ==
    ASSUME DeviceOK, OutInterrupt(0)
    PROVE  /\ dma' = "setup" /\ txToggle' = TRUE
           /\ UNCHANGED <<setup, setupMem>>
  <1>1. txToggle' = TRUE BY DEF OutInterrupt
  <1>2. UNCHANGED <<setup, setupMem>> BY DEF OutInterrupt
  <1>3. dma' = "setup" BY DEF OutInterrupt, SetStall
  <1> QED BY <1>1, <1>2, <1>3

\* A data packet of a control write counts down what is to come.
LEMMA DataReceived ==
    ASSUME DeviceOK, NEW n \in Nat \ {0}, OutInterrupt(n),
           dma = "data", outActual = 0, n <= residue
    PROVE  /\ setup' = setup /\ setupMem' = setupMem /\ txToggle' = txToggle
           /\ n < residue => /\ dma' = "data" /\ tx' = tx
                             /\ outActual' = 0 /\ residue' = residue - n
           /\ n = residue => (tx'.resp = "STALL" => dma' = "setup")
  <1> DEFINE total == outActual + n
             left  == Sub(residue, total)
  <1>1. total = n /\ total > 0 OBVIOUS
  <1>2. left = residue - n
    <2>1. residue - n \in 0 .. W - 1 BY Words DEF DeviceOK
    <2>2. (residue - n) % W = residue - n BY <2>1, SizesAssumption
    <2> QED BY <1>1, <2>2 DEF Sub
  <1>3. residue \in Nat BY Words DEF DeviceOK
  <1>4. n < residue => left # 0 BY <1>2, <1>3
  <1>5. n = residue => left = 0 BY <1>2, <1>3
  <1>6. \/ /\ OutReceived(left) /\ SetStall
        \/ /\ OutReceived(left) /\ tx'.resp = "ACK"
        \/ /\ ~OutReceived(left) /\ residue' = left /\ outActual' = 0
           /\ dma' = "data" /\ UNCHANGED tx
    BY <1>1 DEF OutInterrupt, StartWrite, StartRead
  <1>7. UNCHANGED <<setup, setupMem>> /\ txToggle' = txToggle
    BY DEF OutInterrupt, DeviceOK
  <1> HIDE DEF left, total
  <1>8. CASE n < residue
    <2>1. ~OutReceived(left) BY <1>4, <1>8 DEF OutReceived
    <2> QED BY <1>2, <1>6, <1>7, <1>8, <2>1
  <1>9. CASE n = residue
    <2>1. OutReceived(left) BY <1>5, <1>9 DEF OutReceived
    <2> QED BY <1>3, <1>6, <1>7, <1>9, <2>1 DEF SetStall
  <1> QED BY <1>3, <1>7, <1>8, <1>9

LEMMA SetupStep ==
    ASSUME OrderlyHost, TypeInv, SetupInv, [Next]_vars
    PROVE  SetupInv'
  <1> USE DEF TypeInv
  <1>1. CASE Submit
    <2>1. PICK r \in Requests :
            /\ req' = r /\ SetupInterrupt(r) /\ phase' \in {FirstStage(r), "again"}
      BY <1>1 DEF Submit
    <2>2. moved' = 0 /\ phase = "idle" BY <1>1 DEF Submit
    <2>3. dma = "setup" /\ txToggle = TRUE BY <2>2 DEF SetupInv
    <2>8. outcome' = "none" BY <1>1, <2>3 DEF Submit
    <2>4. r.wLength - 0 = r.wLength BY Words, RequestsTyped
    <2>5. /\ setup' = r /\ setupMem' = r /\ txToggle' = TRUE
          /\ tx'.resp = "STALL" => dma' = "setup"
          /\ IsWrite(r) => /\ dma' = "data" /\ tx'.resp = "NAK"
                           /\ outActual' = 0 /\ residue' = r.wLength
      BY <2>1, <2>3, SetupLands
    <2>6. CASE phase' = "again" BY <2>1, <2>5, <2>6, <2>8 DEF SetupInv
    <2>7. CASE phase' = FirstStage(r)
      BY <2>1, <2>2, <2>4, <2>5, <2>7, <2>8, FirstStageTyped DEF SetupInv
    <2> QED BY <2>1, <2>6, <2>7
  <1>2. CASE Resubmit
    <2>1. /\ phase = "again" /\ SetupInterrupt(req) /\ phase' = FirstStage(req)
          /\ UNCHANGED <<req, moved, outcome>>
      BY <1>2 DEF Resubmit
    <2>2. moved = 0 /\ req \in Requests BY <2>1 DEF DataBounded, HostOK
    <2>3. setupMem = req /\ txToggle = TRUE BY <2>1 DEF SetupInv
    <2>4. req.wLength - 0 = req.wLength BY Words, <2>2, RequestsTyped
    <2>5. /\ setup' = req /\ setupMem' = req /\ txToggle' = TRUE
          /\ tx'.resp = "STALL" => dma' = "setup"
          /\ IsWrite(req) => /\ dma' = "data" /\ tx'.resp = "NAK"
                             /\ outActual' = 0 /\ residue' = req.wLength
      BY <2>1, <2>2, <2>3, SetupLands
    <2> QED BY <2>1, <2>2, <2>4, <2>5, FirstStageTyped DEF SetupInv
  <1>3. CASE InToken
    <2>1. /\ setup' = setup /\ setupMem' = setupMem /\ tx'.resp = "ACK"
          /\ InStatus => dma' = "setup" /\ txToggle' = TRUE
      BY <1>3, InShape DEF InToken, Offered, InInterrupt
    <2>2. CASE AcceptData
      <3>1. /\ phase' \in {"dataIn", "statusOut"} /\ phase = "dataIn" /\ req' = req
            /\ outcome' = outcome
        BY <2>2 DEF AcceptData
      <3> QED BY <2>1, <3>1 DEF SetupInv
    <2>3. CASE AcceptStatus
      <3>1. phase = "statusIn" /\ phase' = "idle" /\ req' = req BY <2>3 DEF AcceptStatus
      <3>2. setupMem = req /\ ~IsRead(req) BY <3>1 DEF SetupInv
      <3>3. req.wLength \in Nat /\ req.dir \in {"in", "out"} BY Words, RequestsTyped DEF HostOK
      <3>4. InStatus BY <3>2, <3>3 DEF InStatus, IsRead
      <3> QED BY <2>1, <3>1, <3>4 DEF SetupInv
    <2> QED BY <1>3, <2>2, <2>3 DEF InToken, AcceptIn
  <1>4. CASE InTokenLost
    <2>1. phase' \in {"dataIn", "statusOut"} /\ UNCHANGED <<core, port>> /\ AcceptIn
      BY <1>4 DEF InTokenLost, OrderlyHost
    <2>2. req' = req /\ phase # "idle" /\ outcome' = outcome
      BY <2>1 DEF AcceptIn, AcceptData, AcceptStatus
    <2> QED BY <2>1, <2>2 DEF SetupInv, core, port
  <1>5. CASE InStalled
    <2>1. phase' = "idle" /\ tx.resp = "STALL" /\ UNCHANGED <<core, port, req>>
      BY <1>5 DEF InStalled
    <2> QED BY <2>1 DEF SetupInv, core, port
  <1>6. CASE SendData
    <2> DEFINE n == Least(req.wLength - moved, Mps)
    <2>1. /\ req.wLength \in Nat /\ moved \in Nat /\ moved < req.wLength /\ Mps \in Nat \ {0}
      BY <1>6, Words, RequestsTyped DEF SendData, HostOK, DataBounded
    <2>2. n \in Nat \ {0} /\ n <= req.wLength - moved BY <2>1 DEF Least
    <2>3. /\ OutInterrupt(n) /\ phase = "dataOut" /\ moved' = moved + n /\ req' = req
          /\ phase' = AfterData(moved') /\ outcome' = outcome
      BY <1>6 DEF SendData, OrderlyHost
    <2> HIDE DEF n
    <2>4. /\ dma = "data" /\ outActual = 0 /\ residue = req.wLength - moved
          /\ tx.resp = "NAK" /\ IsWrite(req) /\ setup = req /\ setupMem = req
          /\ txToggle = TRUE
      BY <2>3 DEF SetupInv
    <2>5. /\ setup' = setup /\ setupMem' = setupMem /\ txToggle' = txToggle
          /\ n < residue => /\ dma' = "data" /\ tx' = tx
                            /\ outActual' = 0 /\ residue' = residue - n
          /\ n = residue => (tx'.resp = "STALL" => dma' = "setup")
      BY <2>2, <2>3, <2>4, DataReceived
    <2>6. CASE n = residue
      <3>1. phase' = "statusIn" BY <2>1, <2>2, <2>3, <2>4, <2>6 DEF AfterData
      <3>2. ~IsRead(req) BY <2>4 DEF IsRead, IsWrite
      <3> QED BY <2>3, <2>4, <2>5, <2>6, <3>1, <3>2 DEF SetupInv
    <2>7. CASE n # residue
      <3>1. n < residue /\ phase' = "dataOut"
        BY <2>1, <2>2, <2>3, <2>4, <2>7 DEF AfterData
      <3>2. residue' = req'.wLength - moved' BY <2>1, <2>2, <2>3, <2>4, <2>5, <3>1
      <3> QED BY <2>3, <2>4, <2>5, <3>1, <3>2 DEF SetupInv
    <2> QED BY <2>6, <2>7
  <1>7. CASE Resend BY <1>7 DEF Resend, SetupInv
  <1>8. CASE SendStatus
    <2>1. /\ OutInterrupt(0) /\ phase' \in {"idle", "statusOut"} /\ phase = "statusOut"
          /\ req' = req /\ (phase' # "idle" => outcome' = outcome)
      BY <1>8 DEF SendStatus
    <2> QED BY <2>1, StatusReceived DEF SetupInv
  <1>9. CASE CallOff BY <1>9 DEF CallOff, OrderlyHost
  <1>10. CASE BusReset BY <1>10 DEF BusReset, SetupInv
  <1>11. CASE UNCHANGED vars BY <1>11 DEF vars, SetupInv
  <1> QED BY <1>1, <1>2, <1>3, <1>4, <1>5, <1>6, <1>7, <1>8, <1>9, <1>10, <1>11
           DEF Next, Deliver

LEMMA SetupAlways ==
    ASSUME OrderlyHost
    PROVE  Spec => []SetupInv
  <1>1. Init => SetupInv BY DEF Init, SetupInv
  <1>2. TypeInv /\ SetupInv /\ [Next]_vars => SetupInv' BY SetupStep
  <1> QED BY <1>1, <1>2, TypeAlways, PTL DEF Spec

(***************************************************************************)
(* With an orderly host the device always works on the request the host    *)
(* has in progress: no SETUP packet is stored in the request buffer, and no*)
(* data in the setup structure (usb_dc_usbfs.c, lines 298 to 308 and 331 to*)
(* 349; usbd_core.c "In status, start reading setup").                     *)
(***************************************************************************)
THEOREM RequestsLand ==
    ASSUME OrderlyHost
    PROVE  Spec => []ActsOnRequest
  <1>1. SetupInv => ActsOnRequest BY DEF SetupInv, ActsOnRequest, Busy
  <1> QED BY <1>1, SetupAlways, PTL

(***************************************************************************)
(* With an orderly host endpoint 0 is ready for a SETUP packet, with DATA1 *)
(* as the next toggle, whenever no request is in progress.                 *)
(***************************************************************************)
THEOREM ReadyBetweenRequests ==
    ASSUME OrderlyHost
    PROVE  Spec => []ReadyForSetup
  <1>1. SetupInv => ReadyForSetup BY DEF SetupInv, ReadyForSetup
  <1> QED BY <1>1, SetupAlways, PTL

-----------------------------------------------------------------------------
(* The two sides in step. *)

(* The device has the new address only from the SETUP to the status stage  *)
(* of a SET_ADDRESS that it carries out.                                   *)
AddressInv ==
    /\ hwAddr = hAddr
    /\ \/ devAddr = 0
       \/ /\ phase \in {"again", "statusIn"} /\ devAddr = req.addr
          /\ tx.resp = "ACK" /\ ~Refused(req)
    /\ phase = "statusIn" /\ req.addr # NoAddr /\ tx.resp = "ACK" => devAddr = req.addr
    /\ phase \in {"dataIn", "statusOut"} => IsRead(req)

\* The host has all that the device counts as sent, and perhaps one more packet,
\* whose acknowledgement was lost.
Behind ==
    \/ hTog = txToggle /\ moved = Reply(req) - residue
    \/ /\ hTog # txToggle /\ moved = Reply(req) - residue + Mps
       /\ residue >= Mps /\ (residue > Mps \/ zlp)

(* The reply while it is sent: what is queued is what is left, and an empty*)
(* packet is still to come if the host cannot tell the end.                *)
ReplyInv ==
    phase = "dataIn" /\ tx.resp = "ACK" =>
        /\ inEp = [len |-> residue, actual |-> 0]
        /\ tx = [resp |-> "ACK", tog |-> txToggle, len |-> Least(residue, Mps)]
        /\ residue <= Reply(req) /\ residue % Mps = Reply(req) % Mps
        /\ zlp = (NeedsZlp(req) /\ residue # 0)
        /\ residue = 0 => NeedsZlp(req)
        /\ Behind

\* The device serves what it does not refuse, and the host moves all of it.
VerdictInv ==
    /\ phase \in {"dataIn", "statusIn"} =>
         \/ tx.resp = "STALL" /\ ~Serves(req)
         \/ tx.resp = "ACK" /\ Serves(req)
    /\ phase = "statusIn" /\ tx.resp = "ACK" => moved = Goal(req)
    /\ phase = "statusOut" => moved = Reply(req) /\ Serves(req)

\* The state of the device after the data stage.
DoneInv ==
    /\ phase = "statusOut" /\ "lastIn" \notin Loss =>
         /\ ep0State \in {"OUT_STATUS", "SETUP"} /\ residue = 0 /\ ~zlp /\ outActual = 0
    /\ phase = "statusIn" =>
         \/ ep0State = "IN_STATUS" /\ tx = [resp |-> "ACK", tog |-> TRUE, len |-> 0]
         \/ ep0State = "SETUP" /\ tx.resp = "STALL"

StageInv ==
    /\ AddressInv /\ ReplyInv /\ VerdictInv /\ DoneInv
    /\ phase = "again" => hTog = TRUE

\* How far a reply is from its last full packet does not change with full packets.
LEMMA RestOf ==
    ASSUME NEW w \in Nat \ {0}, NEW a \in Nat, a >= w
    PROVE  (a - w) % w = a % w
  <1> DEFINE q == a \div w
             p == (a - w) \div w
             r == a % w
             t == (a - w) % w
  <1>1. q \in Int /\ r \in 0 .. w - 1 /\ a = w * q + r
    OBVIOUS
  <1>2. p \in Int /\ t \in 0 .. w - 1 /\ a - w = w * p + t
    OBVIOUS
  <1> HIDE DEF q, p, r, t
  <1>3. q - 1 - p \in Int /\ w * q \in Int /\ w * p \in Int
    BY <1>1, <1>2
  <1>4. w * (q - 1 - p) = w * q - w - w * p
    BY <1>1, <1>2
  <1>5. w * (q - 1 - p) = t - r
    BY <1>1, <1>2, <1>3, <1>4
  <1>6. \A d \in Int : (d >= 1 => w * d >= w) /\ (d <= -1 => w * d <= -w) /\ w * d \in Int
    OBVIOUS
  <1>7. q - 1 - p = 0
    BY <1>1, <1>2, <1>3, <1>5, <1>6
  <1>8. t = r
    BY <1>1, <1>2, <1>5, <1>7
  <1> QED BY <1>8 DEF t, r

LEMMA RestSmall ==
    ASSUME NEW w \in Nat \ {0}
    PROVE  w % w = 0 /\ (\A a \in 0 .. w - 1 : a % w = a)
  OBVIOUS

LEMMA ReplyBounds ==
    ASSUME NEW r \in Requests
    PROVE  /\ Reply(r) \in Nat /\ Reply(r) <= r.wLength /\ Reply(r) <= r.offer
           /\ Reply(r) \in {r.wLength, r.offer}
           /\ r.wLength \in Nat /\ r.offer \in Nat
  BY RequestsTyped, Words DEF Reply, Least

\* What the SETUP interrupt decides, if the packet is in the setup structure.
LEMMA SetupCases ==
    ASSUME OrderlyHost, DeviceOK, NEW r \in Requests, SetupInterrupt(r),
           dma = "setup" \/ setupMem = r, txToggle = TRUE
    PROVE  \/ /\ IsWrite(r) /\ tx'.resp = "NAK" /\ UNCHANGED <<devAddr, hwAddr>>
           \/ /\ ~IsWrite(r) /\ Refused(r) /\ tx'.resp = "STALL" /\ ep0State' = "SETUP"
              /\ UNCHANGED <<devAddr, hwAddr>>
           \/ /\ ~IsWrite(r) /\ ~Refused(r) /\ TakeAddress(r) /\ txToggle' = TRUE
              /\ residue' = Reply(r) /\ zlp' = NeedsZlp(r)
              /\ inEp' = [len |-> Reply(r), actual |-> 0]
              /\ tx' = [resp |-> "ACK", tog |-> TRUE, len |-> Least(Reply(r), Mps)]
              /\ ep0State' = IF Reply(r) > 0 THEN "IN_DATA" ELSE "IN_STATUS"
  <1>1. SetupTooLong(r) \/ SetupWrite(r) \/ SetupRefused(r) \/ SetupServed(r)
    BY DEF SetupInterrupt
  <1>2. txToggle' = TRUE
    BY SetupLands
  <1>3. CASE SetupTooLong(r)
    <2>1. r.dir = "out" /\ r.wLength > ReqBuf /\ ReqBuf > 0 /\ r.wLength \in Nat /\ ReqBuf \in Nat
      BY <1>3, ReplyBounds, SizesAssumption DEF SetupTooLong
    <2> QED BY <2>1 DEF OrderlyHost, IsWrite
  <1>4. CASE SetupWrite(r)
    BY <1>4, SetupLands DEF SetupWrite
  <1>5. CASE SetupRefused(r)
    <2>1. tx' = [tx EXCEPT !.resp = "STALL", !.tog = TRUE]
      BY <1>5 DEF SetupRefused, SetStall
    <2>2. tx'.resp = "STALL"
      BY <2>1 DEF DeviceOK, TxType
    <2> QED BY <1>5, <2>2 DEF SetupRefused
  <1>6. CASE SetupServed(r)
    BY <1>2, <1>6 DEF SetupServed, StartWrite
  <1> QED BY <1>1, <1>3, <1>4, <1>5, <1>6

\* Both of a new request and of one that is sent again.
LEMMA StageBegins ==
    ASSUME OrderlyHost, OrderlyRequests, DeviceOK, NEW r \in Requests, SetupInterrupt(r),
           dma = "setup" \/ setupMem = r, txToggle = TRUE,
           devAddr = 0 \/ (devAddr = r.addr /\ ~Refused(r)), hwAddr = hAddr,
           req' = r, moved' = 0, hTog' = TRUE, hAddr' = hAddr, phase' \in {FirstStage(r), "again"}
    PROVE  StageInv'
  <1>1. /\ Reply(r) \in Nat /\ Reply(r) <= r.wLength /\ Reply(r) <= r.offer
        /\ r.wLength \in Nat /\ r.offer \in Nat /\ r.dir \in {"in", "out"}
        /\ r.ok \in BOOLEAN /\ Reply(r) \in {r.wLength, r.offer}
    BY ReplyBounds, RequestsTyped
  <1>2. r.addr # NoAddr => r.wLength = 0 /\ r.addr # 0
    BY DEF OrderlyRequests
  <1>3. phase' # "again" => /\ phase' \in {"dataIn", "dataOut", "statusIn"}
                            /\ phase' = "dataOut" => IsWrite(r)
                            /\ phase' = "statusIn" => ~IsRead(r) /\ ~IsWrite(r)
                            /\ phase' = "dataIn" => IsRead(r)
    BY FirstStageTyped DEF FirstStage
  <1>4. IsRead(r) => ~IsWrite(r)
    BY DEF IsRead, IsWrite
  <1>5. Mps \in Nat \ {0} /\ ReqBuf \in Nat
    BY SizesAssumption
  <1>6. devAddr # 0 => ~IsWrite(r)
    BY <1>1, <1>2, SizesAssumption DEF IsWrite, NoAddr, DeviceOK
  <1>7. CASE IsWrite(r) /\ tx'.resp = "NAK" /\ UNCHANGED <<devAddr, hwAddr>>
    <2>1. phase' \in {"again", "dataOut"}
      BY <1>3, <1>4, <1>7
    <2> QED BY <1>6, <1>7, <2>1 DEF StageInv, AddressInv, ReplyInv, VerdictInv, DoneInv
  <1>8. CASE /\ ~IsWrite(r) /\ Refused(r) /\ tx'.resp = "STALL" /\ ep0State' = "SETUP"
             /\ UNCHANGED <<devAddr, hwAddr>>
    <2>1. phase' \in {"again", "dataIn", "statusIn"}
      BY <1>3, <1>8
    <2>2. devAddr' = 0 /\ hwAddr' = hAddr'
      BY <1>8
    <2>3. phase' # "again" => ~Serves(r)
      <3>1. r.dir = "out" => Reply(r) = 0
        BY <1>1, <1>8 DEF IsWrite
      <3>2. r.dir = "out" => ~r.ok
        BY <1>5, <1>8, <3>1 DEF Refused
      <3>3. r.dir = "in" => (Serves(r) <=> r.ok /\ Reply(r) <= ReqBuf)
        BY DEF Serves, Goal
      <3> QED BY <1>1, <1>5, <1>8, <3>2, <3>3 DEF Refused, Serves
    <2> QED BY <1>3, <1>8, <2>1, <2>2, <2>3 DEF StageInv, AddressInv, ReplyInv, VerdictInv, DoneInv
  <1>9. CASE /\ ~IsWrite(r) /\ ~Refused(r) /\ TakeAddress(r) /\ txToggle' = TRUE
             /\ residue' = Reply(r) /\ zlp' = NeedsZlp(r)
             /\ inEp' = [len |-> Reply(r), actual |-> 0]
             /\ tx' = [resp |-> "ACK", tog |-> TRUE, len |-> Least(Reply(r), Mps)]
             /\ ep0State' = IF Reply(r) > 0 THEN "IN_DATA" ELSE "IN_STATUS"
    <2>1. phase' \in {"again", "dataIn", "statusIn"} /\ tx'.resp = "ACK"
      BY <1>3, <1>9
    <2>2. hwAddr' = hAddr' /\ devAddr' = IF r.addr = NoAddr THEN 0 ELSE r.addr
      BY <1>1, <1>2, <1>9 DEF TakeAddress, DeviceOK, NoAddr
    <2>3. r.addr # NoAddr => phase' \in {"again", "statusIn"}
      BY <1>1, <1>2, <1>3, <2>1 DEF IsRead
    <2>4. AddressInv'
      BY <1>3, <1>9, <2>1, <2>2, <2>3 DEF AddressInv, Refused
    <2>5. Goal(r) = Reply(r)
      BY <1>1, <1>9 DEF Goal, IsWrite
    <2>6. Serves(r)
      BY <1>1, <1>5, <1>9, <2>5 DEF Serves, Refused
    <2>7. phase' = "statusIn" => Reply(r) = 0
      BY <1>1, <1>3 DEF IsRead, IsWrite
    <2>8. VerdictInv'
      BY <2>1, <2>5, <2>6, <2>7 DEF VerdictInv
    <2>9. DoneInv'
      <3>1. phase' = "statusIn" => Least(0, Mps) = 0
        BY <1>5 DEF Least
      <3>2. phase' # "statusOut"
        BY <2>1
      <3>3. phase' = "statusIn" => ep0State' = "IN_STATUS" /\ tx' = [resp |-> "ACK", tog |-> TRUE, len |-> 0]
        <4> SUFFICES ASSUME phase' = "statusIn"
                     PROVE  ep0State' = "IN_STATUS" /\ tx' = [resp |-> "ACK", tog |-> TRUE, len |-> 0]
          OBVIOUS
        <4>1. Reply(r) = 0 /\ Least(Reply(r), Mps) = 0
          BY <2>7, <3>1
        <4>2. ep0State' = "IN_STATUS"
          BY <1>9, <4>1
        <4>3. tx' = [resp |-> "ACK", tog |-> TRUE, len |-> 0]
          BY <1>9, <4>1
        <4> QED BY <4>2, <4>3
      <3> QED BY <3>2, <3>3 DEF DoneInv
    <2>10. ReplyInv'
      <3> SUFFICES ASSUME phase' = "dataIn" PROVE ReplyInv'
        BY DEF ReplyInv
      <3>1. IsRead(r) /\ r.ok
        BY <1>3, <1>9 DEF Refused
      <3>2. r.offer > 0 /\ r.wLength > 0
        BY <3>1 DEF OrderlyRequests, IsRead
      <3>3. Reply(r) > 0
        BY <1>1, <3>2
      <3>4. (zlp = (NeedsZlp(req) /\ residue # 0))'
        BY <1>1, <1>9, <3>3 DEF NeedsZlp
      <3>5. Behind'
        BY <1>1, <1>9 DEF Behind
      <3> QED BY <1>1, <1>9, <3>3, <3>4, <3>5 DEF ReplyInv
    <2> QED BY <2>4, <2>8, <2>9, <2>10 DEF StageInv
  <1> QED BY <1>7, <1>8, <1>9, SetupCases

\* The host takes a packet of a reply: it sees the end when the device does.
LEMMA HostTakes ==
    ASSUME TypeInv, ReplyInv, tx.resp = "ACK", AcceptData
    PROVE  \/ /\ phase' = "dataIn" /\ hTog' # txToggle /\ moved' = Reply(req) - residue + Mps
              /\ residue >= Mps /\ (residue > Mps \/ zlp)
           \/ /\ phase' = "statusOut" /\ moved' = Reply(req)
              /\ residue <= Mps /\ ~zlp
  <1>1. phase = "dataIn" /\ req \in Requests /\ hTog \in BOOLEAN /\ txToggle \in BOOLEAN
        /\ moved \in Nat /\ residue \in Nat /\ zlp \in BOOLEAN /\ Mps \in Nat \ {0}
    BY Words DEF AcceptData, TypeInv, HostOK, DeviceOK
  <1>2. /\ tx.tog = txToggle /\ tx.len = Least(residue, Mps)
        /\ residue <= Reply(req) /\ residue % Mps = Reply(req) % Mps
        /\ zlp = (NeedsZlp(req) /\ residue # 0) /\ Behind
    BY <1>1 DEF ReplyInv
  <1>3. /\ Reply(req) \in Nat /\ Reply(req) <= req.wLength /\ Reply(req) <= req.offer
        /\ req.wLength \in Nat /\ req.offer \in Nat /\ Reply(req) \in {req.wLength, req.offer}
    BY <1>1, ReplyBounds
  <1>4. CASE tx.tog # hTog /\ UNCHANGED <<phase, moved, hTog>>
    BY <1>1, <1>2, <1>4 DEF Behind
  <1>5. CASE /\ tx.tog = hTog /\ moved' = moved + tx.len /\ hTog' = ~hTog
             /\ phase' = IF tx.len < Mps \/ moved + tx.len >= req.wLength THEN "statusOut" ELSE "dataIn"
    <2>1. moved = Reply(req) - residue /\ hTog' # txToggle
      BY <1>1, <1>2, <1>5 DEF Behind
    <2>2. CASE residue < Mps
      <3>1. tx.len = residue
        BY <1>1, <1>2, <2>2 DEF Least
      <3>2. phase' = "statusOut" /\ moved' = Reply(req)
        BY <1>1, <1>3, <1>5, <2>1, <2>2, <3>1
      <3>3. residue # 0 => Reply(req) % Mps # 0
        BY <1>1, <1>2, <2>2, RestSmall
      <3>4. ~zlp
        <4>1. NeedsZlp(req) => Reply(req) = req.offer /\ req.offer % Mps = 0
          BY <1>3 DEF NeedsZlp
        <4> QED BY <1>2, <3>3, <4>1
      <3> QED BY <1>1, <2>2, <3>2, <3>4
    <2>3. CASE residue >= Mps
      <3>1. tx.len = Mps
        BY <1>1, <1>2, <2>3 DEF Least
      <3>2. moved' = Reply(req) - residue + Mps
        BY <1>1, <1>5, <2>1, <3>1
      <3>3. CASE moved + tx.len >= req.wLength
        <4>1. residue = Mps /\ moved' = Reply(req) /\ Reply(req) = req.wLength
          BY <1>1, <1>3, <1>5, <2>3, <3>2, <3>3
        <4>2. ~NeedsZlp(req)
          BY <1>3, <4>1 DEF NeedsZlp
        <4>3. phase' = "statusOut"
          BY <1>5, <3>3
        <4>4. ~zlp
          BY <1>2, <4>2
        <4> QED BY <1>1, <4>1, <4>3, <4>4
      <3>4. CASE moved + tx.len < req.wLength
        <4>1. phase' = "dataIn"
          <5>1. ~(tx.len < Mps \/ moved + tx.len >= req.wLength)
            BY <1>1, <1>3, <3>1, <3>4
          <5> QED BY <1>5, <5>1
        <4>2. residue = Mps => zlp
          <5> SUFFICES ASSUME residue = Mps PROVE zlp
            OBVIOUS
          <5>1. Reply(req) < req.wLength
            BY <1>1, <1>3, <2>1, <3>1, <3>4
          <5>2. Reply(req) = req.offer /\ Reply(req) % Mps = 0
            BY <1>1, <1>2, <1>3, <5>1, RestSmall
          <5>3. NeedsZlp(req)
            BY <5>1, <5>2 DEF NeedsZlp
          <5> QED BY <1>1, <1>2, <5>3
        <4> QED BY <1>1, <2>1, <2>3, <3>2, <4>1, <4>2
      <3> QED BY <1>1, <1>3, <3>1, <3>3, <3>4
    <2> QED BY <1>1, <2>2, <2>3
  <1> QED BY <1>4, <1>5 DEF AcceptData

\* The device hears that a packet of a reply was taken.
LEMMA DeviceSends ==
    ASSUME TypeInv, ReplyInv, phase = "dataIn", tx.resp = "ACK", InInterrupt,
           setup = req, setupMem = req, IsRead(req)
    PROVE  /\ residue > Mps \/ (residue = Mps /\ zlp) =>
                 /\ residue' = residue - Mps /\ zlp' = (zlp /\ residue' # 0) /\ txToggle' = ~txToggle
                 /\ inEp' = [len |-> residue', actual |-> 0]
                 /\ tx' = [resp |-> "ACK", tog |-> txToggle', len |-> Least(residue', Mps)]
           /\ residue <= Mps /\ ~zlp =>
                 ep0State' = "OUT_STATUS" /\ residue' = 0 /\ ~zlp' /\ outActual' = 0
  <1> DEFINE full   == inEp.len >= Mps
             n      == inEp.actual + (IF full THEN Mps ELSE inEp.len)
             left   == InLeft(n)
             toggle == NextToggle(full)
             more   == left # 0 \/ zlp
  <1>1. /\ residue \in 0 .. W - 1 /\ Mps \in Nat \ {0} /\ W \in Nat \ {0} /\ residue \in Nat
        /\ zlp \in BOOLEAN /\ txToggle \in BOOLEAN
    BY Words DEF TypeInv, DeviceOK
  <1>2. inEp.len = residue /\ inEp.actual = 0
    BY DEF ReplyInv
  <1>3. ~InStatus
    <2>1. req.wLength \in Nat
      BY ReplyBounds DEF TypeInv, HostOK
    <2> QED BY <2>1 DEF InStatus, IsRead
  <1>4. n = (IF residue >= Mps THEN Mps ELSE residue)
    BY <1>1, <1>2
  <1>5. left = (IF residue >= Mps THEN residue - Mps ELSE 0)
    <2>1. residue - n \in 0 .. W - 1
      BY <1>1, <1>4
    <2>2. (residue - n) % W = residue - n
      BY <1>1, <2>1, RestSmall
    <2> QED BY <1>1, <1>4, <2>2 DEF InLeft, Sub
  <1>6. /\ residue' = left /\ zlp' = (zlp /\ left # 0)
        /\ txToggle' = (toggle \/ InStatus)
        /\ more => StartWrite(left, toggle)
        /\ ~more => ep0State' = "OUT_STATUS" /\ StartRead
    BY DEF InInterrupt
  <1>7. toggle = IF residue >= Mps THEN ~txToggle ELSE TRUE
    BY <1>2 DEF NextToggle
  <1> HIDE DEF full, n, left, toggle
  <1>8. ASSUME residue > Mps \/ (residue = Mps /\ zlp)
        PROVE  /\ residue' = residue - Mps /\ zlp' = (zlp /\ residue' # 0) /\ txToggle' = ~txToggle
               /\ inEp' = [len |-> residue', actual |-> 0]
               /\ tx' = [resp |-> "ACK", tog |-> txToggle', len |-> Least(residue', Mps)]
    <2>1. left = residue - Mps /\ (left # 0 \/ zlp)
      BY <1>1, <1>5, <1>8
    <2>2. residue >= Mps
      BY <1>1, <1>8
    <2>3. toggle = ~txToggle
      BY <1>7, <2>2
    <2>4. txToggle' = toggle
      BY <1>1, <1>3, <1>6, <2>3
    <2> QED BY <1>6, <2>1, <2>3, <2>4 DEF StartWrite
  <1>9. ASSUME residue <= Mps, ~zlp
        PROVE  ep0State' = "OUT_STATUS" /\ residue' = 0 /\ ~zlp' /\ outActual' = 0
    <2>1. left = 0
      BY <1>1, <1>5, <1>9
    <2> QED BY <1>6, <1>9, <2>1 DEF StartRead
  <1> QED BY <1>8, <1>9

\* With the last packet of a control write the device decides.
LEMMA DataDecides ==
    ASSUME DeviceOK, NEW n \in Nat \ {0}, OutInterrupt(n), outActual = 0, n = residue, txToggle = TRUE
    PROVE  /\ setup.ok  => ep0State' = "IN_STATUS" /\ tx' = [resp |-> "ACK", tog |-> TRUE, len |-> 0]
           /\ ~setup.ok => ep0State' = "SETUP" /\ tx'.resp = "STALL"
  <1> DEFINE total == outActual + n
             left  == Sub(residue, total)
  <1>1. total = n /\ total > 0
    OBVIOUS
  <1>2. OutReceived(left)
    <2>1. residue - total = 0 /\ W \in Nat \ {0} /\ 0 \in 0 .. W - 1
      BY <1>1, Words
    <2>2. left = 0
      BY <2>1, RestSmall DEF Sub
    <2> QED BY <2>2 DEF OutReceived
  <1>3. \/ setup.ok /\ ep0State' = "IN_STATUS" /\ StartWrite(0, txToggle)
        \/ ~setup.ok /\ ep0State' = "SETUP" /\ SetStall
    BY <1>1, <1>2 DEF OutInterrupt
  <1>4. Least(0, Mps) = 0
    BY SizesAssumption DEF Least
  <1>5. SetStall => tx'.resp = "STALL"
    BY SetStallType DEF DeviceOK
  <1> QED BY <1>3, <1>4, <1>5 DEF StartWrite

LEMMA StageInStep ==
    ASSUME OrderlyHost, OrderlyRequests, TypeInv, SetupInv, StageInv, InToken
    PROVE  StageInv'
  <1>1. tx.resp = "ACK" /\ InInterrupt /\ AcceptIn /\ phase # "idle" /\ setup = req /\ setupMem = req
        /\ req \in Requests /\ DeviceOK /\ HostOK
    <2>1. tx.resp = "ACK" /\ InInterrupt /\ AcceptIn
      BY DEF InToken, Offered
    <2>2. phase # "idle"
      BY <2>1 DEF AcceptIn, AcceptData, AcceptStatus
    <2>3. setup = req /\ setupMem = req
      BY <2>2 DEF SetupInv
    <2> QED BY <2>1, <2>2, <2>3 DEF TypeInv, HostOK
  <1>2. /\ devAddr' = 0 /\ hwAddr' = IF devAddr > 0 THEN devAddr ELSE hwAddr
        /\ tx' \in TxType /\ tx'.resp = "ACK"
    BY <1>1, InShape
  <1>3. CASE AcceptData
    <2>1. /\ phase = "dataIn" /\ phase' \in {"dataIn", "statusOut"} /\ IsRead(req) /\ Serves(req)
          /\ devAddr = 0 /\ UNCHANGED <<req, hAddr>>
      BY <1>1, <1>3 DEF AcceptData, StageInv, AddressInv, VerdictInv
    <2>2. hwAddr' = hAddr'
      BY <1>2, <2>1 DEF StageInv, AddressInv
    <2>3. ReplyInv
      BY DEF StageInv
    <2>4. \/ /\ phase' = "dataIn" /\ hTog' # txToggle /\ moved' = Reply(req) - residue + Mps
             /\ residue >= Mps /\ (residue > Mps \/ zlp)
          \/ /\ phase' = "statusOut" /\ moved' = Reply(req)
             /\ residue <= Mps /\ ~zlp
      BY <1>1, <1>3, <2>3, HostTakes
    <2>5. /\ residue > Mps \/ (residue = Mps /\ zlp) =>
               /\ residue' = residue - Mps /\ zlp' = (zlp /\ residue' # 0) /\ txToggle' = ~txToggle
               /\ inEp' = [len |-> residue', actual |-> 0]
               /\ tx' = [resp |-> "ACK", tog |-> txToggle', len |-> Least(residue', Mps)]
          /\ residue <= Mps /\ ~zlp =>
               ep0State' = "OUT_STATUS" /\ residue' = 0 /\ ~zlp' /\ outActual' = 0
      BY <1>1, <2>1, <2>3, DeviceSends
    <2>6. residue \in Nat /\ Mps \in Nat \ {0} /\ Reply(req) \in Nat /\ hTog' \in BOOLEAN /\ txToggle \in BOOLEAN
          /\ zlp \in BOOLEAN
      <3>1. hTog' \in BOOLEAN
        BY <1>1, <1>3 DEF HostOK, AcceptData
      <3>2. Reply(req) \in Nat
        BY <1>1, ReplyBounds
      <3> QED BY <1>1, <3>1, <3>2, Words DEF DeviceOK
    <2>7. CASE phase' = "statusOut"
      <3>1. moved' = Reply(req) /\ residue <= Mps /\ ~zlp
        BY <2>4, <2>7
      <3> QED BY <1>2, <2>1, <2>2, <2>5, <2>7, <3>1
              DEF StageInv, AddressInv, ReplyInv, VerdictInv, DoneInv
    <2>8. CASE phase' = "dataIn"
      <3>1. /\ hTog' # txToggle /\ moved' = Reply(req) - residue + Mps
            /\ residue >= Mps /\ (residue > Mps \/ (residue = Mps /\ zlp))
        BY <2>4, <2>6, <2>8
      <3>2. /\ residue' = residue - Mps /\ zlp' = (zlp /\ residue' # 0) /\ txToggle' = ~txToggle
            /\ inEp' = [len |-> residue', actual |-> 0]
            /\ tx' = [resp |-> "ACK", tog |-> txToggle', len |-> Least(residue', Mps)]
        BY <2>5, <3>1
      <3>3. /\ residue <= Reply(req) /\ residue % Mps = Reply(req) % Mps
            /\ zlp = (NeedsZlp(req) /\ residue # 0)
        BY <1>1, <2>1, <2>3 DEF ReplyInv
      <3>4. residue' <= Reply(req) /\ residue' % Mps = Reply(req) % Mps
        BY <2>6, <3>1, <3>2, <3>3, RestOf
      <3>5. residue # 0
        BY <2>6, <3>1
      <3>6. zlp' = (NeedsZlp(req) /\ residue' # 0)
        BY <3>2, <3>3, <3>5
      <3>7. residue' = 0 => NeedsZlp(req)
        <4>1. residue' = 0 => residue = Mps
          BY <2>6, <3>2
        <4>2. residue = Mps => zlp
          BY <2>6, <3>1
        <4> QED BY <3>3, <4>1, <4>2
      <3>8. hTog' = txToggle' /\ moved' = Reply(req) - residue'
        BY <2>6, <3>1, <3>2
      <3>9. NeedsZlp(req)' = NeedsZlp(req) /\ Reply(req)' = Reply(req)
        BY <2>1 DEF NeedsZlp
      <3>10. ReplyInv'
        BY <3>2, <3>4, <3>6, <3>7, <3>8, <3>9 DEF ReplyInv, Behind
      <3> QED BY <1>2, <2>1, <2>2, <2>8, <3>10 DEF StageInv, AddressInv, VerdictInv, DoneInv
    <2> QED BY <2>1, <2>7, <2>8
  <1>4. CASE AcceptStatus
    <2>1. phase = "statusIn" /\ phase' = "idle" /\ UNCHANGED req
          /\ hAddr' = IF req.addr = NoAddr THEN hAddr ELSE req.addr
      BY <1>4 DEF AcceptStatus
    <2>2. req.addr \in {NoAddr} \cup 0 .. MaxAddr /\ (req.addr # NoAddr => req.addr # 0)
          /\ MaxAddr \in Nat /\ devAddr \in 0 .. MaxAddr
      BY <1>1, RequestsTyped, SizesAssumption DEF OrderlyRequests, DeviceOK
    <2>3. hwAddr = hAddr /\ (devAddr = 0 \/ devAddr = req.addr) /\ (req.addr # NoAddr => devAddr = req.addr)
      BY <1>1, <2>1 DEF StageInv, AddressInv
    <2>4. hwAddr' = hAddr'
      BY <1>2, <2>1, <2>2, <2>3 DEF NoAddr
    <2> QED BY <1>2, <2>1, <2>4 DEF StageInv, AddressInv, ReplyInv, VerdictInv, DoneInv
  <1> QED BY <1>1, <1>3, <1>4 DEF AcceptIn

LEMMA StageLostStep ==
    ASSUME OrderlyHost, TypeInv, SetupInv, StageInv, InTokenLost
    PROVE  StageInv'
  <1>1. /\ tx.resp = "ACK" /\ AcceptIn /\ UNCHANGED <<core, port>>
        /\ phase' = "dataIn" \/ (phase' = "statusOut" /\ "lastIn" \in Loss)
    BY DEF InTokenLost, Offered, OrderlyHost
  <1>2. AcceptData
    BY <1>1 DEF AcceptIn, AcceptStatus
  <1>3. /\ phase = "dataIn" /\ IsRead(req) /\ Serves(req) /\ hwAddr = hAddr /\ devAddr = 0
        /\ UNCHANGED <<req, hAddr>> /\ ReplyInv /\ hTog' \in BOOLEAN
    BY <1>1, <1>2 DEF AcceptData, StageInv, AddressInv, VerdictInv, TypeInv, HostOK
  <1>4. \/ /\ phase' = "dataIn" /\ hTog' # txToggle /\ moved' = Reply(req) - residue + Mps
           /\ residue >= Mps /\ (residue > Mps \/ zlp)
        \/ /\ phase' = "statusOut" /\ moved' = Reply(req)
           /\ residue <= Mps /\ ~zlp
    BY <1>1, <1>2, <1>3, HostTakes
  <1>5. /\ hwAddr' = hAddr' /\ devAddr' = 0 /\ tx' = tx /\ inEp' = inEp /\ residue' = residue
        /\ zlp' = zlp /\ txToggle' = txToggle /\ req' = req
    BY <1>1, <1>3 DEF core, port
  <1>6. CASE phase' = "statusOut"
    BY <1>1, <1>3, <1>4, <1>5, <1>6 DEF StageInv, AddressInv, ReplyInv, VerdictInv, DoneInv
  <1>7. CASE phase' = "dataIn"
    <2>1. Behind'
      BY <1>4, <1>5, <1>7 DEF Behind
    <2>2. ReplyInv'
      BY <1>1, <1>3, <1>5, <2>1 DEF ReplyInv, NeedsZlp
    <2> QED BY <1>1, <1>3, <1>5, <1>7, <2>2 DEF StageInv, AddressInv, VerdictInv, DoneInv
  <1> QED BY <1>1, <1>6, <1>7

LEMMA StageOutStep ==
    ASSUME OrderlyHost, OrderlyRequests, TypeInv, SetupInv, StageInv, SendData
    PROVE  StageInv'
  <1>0. PICK n \in Int : n = Least(req.wLength - moved, Mps)
    <2>1. req.wLength \in Nat /\ moved \in Nat /\ Mps \in Nat
      BY Words, RequestsTyped DEF TypeInv, HostOK
    <2>2. Least(req.wLength - moved, Mps) \in Int
      BY <2>1 DEF Least
    <2> QED BY <2>2
  <1>1. /\ req.wLength \in Nat /\ moved \in Nat /\ moved < req.wLength /\ Mps \in Nat \ {0}
        /\ ReqBuf \in Nat /\ req \in Requests /\ DeviceOK /\ phase = "dataOut" /\ req.ok \in BOOLEAN
    BY Words, RequestsTyped, SizesAssumption DEF SendData, TypeInv, HostOK, DataBounded
  <1>2. n \in Nat \ {0} /\ n <= req.wLength - moved
    BY <1>0, <1>1 DEF Least
  <1>3. /\ OutInterrupt(n) /\ moved' = moved + n /\ UNCHANGED <<req, hAddr>>
        /\ phase' = AfterData(moved')
    BY <1>0 DEF SendData, OrderlyHost
  <1>4. /\ outActual = 0 /\ residue = req.wLength - moved
        /\ IsWrite(req) /\ setup = req /\ txToggle = TRUE
    BY <1>1 DEF SetupInv
  <1>5. UNCHANGED <<devAddr, hwAddr>>
    BY <1>3 DEF OutInterrupt
  <1>6. devAddr' = 0 /\ hwAddr' = hAddr' /\ req.addr = NoAddr
    <2>1. req.addr = NoAddr
      BY <1>1, <1>4 DEF OrderlyRequests, IsWrite
    <2> QED BY <1>1, <1>3, <1>5, <2>1 DEF StageInv, AddressInv
  <1>7. CASE n = residue
    <2>1. phase' = "statusIn" /\ moved' = req.wLength
      BY <1>1, <1>2, <1>3, <1>4, <1>7 DEF AfterData
    <2>2. /\ req.ok  => ep0State' = "IN_STATUS" /\ tx' = [resp |-> "ACK", tog |-> TRUE, len |-> 0]
          /\ ~req.ok => ep0State' = "SETUP" /\ tx'.resp = "STALL"
      BY <1>1, <1>2, <1>3, <1>4, <1>7, DataDecides
    <2>3. Goal(req) = req.wLength /\ (Serves(req) <=> req.ok)
      BY <1>1, <1>4 DEF Goal, Serves, IsWrite, OrderlyHost
    <2>4. tx'.resp = "ACK" <=> req.ok
      BY <2>2
    <2> QED BY <1>3, <1>6, <2>1, <2>2, <2>3, <2>4
            DEF StageInv, AddressInv, ReplyInv, VerdictInv, DoneInv
  <1>8. CASE n # residue
    <2>1. phase' = "dataOut"
      BY <1>1, <1>2, <1>3, <1>4, <1>8 DEF AfterData
    <2> QED BY <1>6, <2>1 DEF StageInv, AddressInv, ReplyInv, VerdictInv, DoneInv
  <1> QED BY <1>7, <1>8

LEMMA StageStep ==
    ASSUME OrderlyHost, OrderlyRequests, TypeInv, SetupInv, StageInv, [Next]_vars
    PROVE  StageInv'
  <1>1. CASE Submit
    <2>1. PICK r \in Requests :
            /\ req' = r /\ SetupInterrupt(r) /\ phase' \in {FirstStage(r), "again"}
      BY <1>1 DEF Submit
    <2>2. moved' = 0 /\ hTog' = TRUE /\ hAddr' = hAddr /\ phase = "idle"
      BY <1>1 DEF Submit
    <2>3. dma = "setup" /\ txToggle = TRUE /\ devAddr = 0 /\ hwAddr = hAddr /\ DeviceOK
      BY <2>2 DEF SetupInv, StageInv, AddressInv, TypeInv
    <2> QED BY <2>1, <2>2, <2>3, StageBegins
  <1>2. CASE Resubmit
    <2>1. /\ phase = "again" /\ SetupInterrupt(req) /\ phase' = FirstStage(req)
          /\ UNCHANGED <<req, moved, hTog, hAddr>>
      BY <1>2 DEF Resubmit
    <2>2. moved = 0 /\ req \in Requests /\ DeviceOK
      BY <2>1 DEF TypeInv, DataBounded, HostOK
    <2>3. setupMem = req /\ txToggle = TRUE
      BY <2>1 DEF SetupInv
    <2>4. hTog = TRUE /\ (devAddr = 0 \/ (devAddr = req.addr /\ ~Refused(req))) /\ hwAddr = hAddr
      BY <2>1 DEF StageInv, AddressInv
    <2>5. PICK r \in Requests : r = req
      BY <2>2
    <2> QED BY <2>1, <2>2, <2>3, <2>4, <2>5, StageBegins
  <1>3. CASE InToken
    BY <1>3, StageInStep
  <1>4. CASE InTokenLost
    BY <1>4, StageLostStep
  <1>5. CASE SendData
    BY <1>5, StageOutStep
  <1>6. CASE InStalled
    <2>1. phase' = "idle" /\ phase \in {"dataIn", "statusIn"} /\ tx.resp = "STALL"
          /\ UNCHANGED <<core, port, req, hAddr>>
      BY <1>6 DEF InStalled
    <2> QED BY <2>1 DEF StageInv, AddressInv, ReplyInv, VerdictInv, DoneInv, core, port
  <1>7. CASE Resend
    BY <1>7 DEF Resend, SetupInv
  <1>8. CASE SendStatus
    <2>1. OutInterrupt(0) /\ phase' \in {"idle", "statusOut"} /\ phase = "statusOut"
          /\ UNCHANGED <<req, moved, hTog, hAddr>>
      BY <1>8 DEF SendStatus
    <2>2. UNCHANGED <<zlp, devAddr, hwAddr>>
      BY <2>1 DEF OutInterrupt
    <2>3. AddressInv' /\ ReplyInv' /\ VerdictInv'
      BY <2>1, <2>2 DEF StageInv, AddressInv, ReplyInv, VerdictInv
    <2>4. outActual = 0 => ep0State' = "SETUP" /\ UNCHANGED <<residue, outActual>>
      BY <2>1 DEF OutInterrupt
    <2> QED BY <2>1, <2>2, <2>3, <2>4 DEF StageInv, DoneInv
  <1>9. CASE CallOff
    BY <1>9 DEF CallOff, OrderlyHost
  <1>10. CASE BusReset
    BY <1>10 DEF BusReset, StageInv, AddressInv, ReplyInv, VerdictInv, DoneInv
  <1>11. CASE UNCHANGED vars
    BY <1>11 DEF vars, StageInv, AddressInv, ReplyInv, VerdictInv, DoneInv, Behind
  <1> QED BY <1>1, <1>2, <1>3, <1>4, <1>5, <1>6, <1>7, <1>8, <1>9, <1>10, <1>11
           DEF Next, Deliver

LEMMA StageAlways ==
    ASSUME OrderlyHost, OrderlyRequests
    PROVE  Spec => [](TypeInv /\ SetupInv /\ StageInv)
  <1>1. Init => StageInv
    BY DEF Init, StageInv, AddressInv, ReplyInv, VerdictInv, DoneInv
  <1>2. TypeInv /\ SetupInv /\ StageInv /\ [Next]_vars => StageInv'
    BY StageStep
  <1> QED BY <1>1, <1>2, TypeAlways, SetupAlways, PTL DEF Spec

(***************************************************************************)
(* The device answers at the address the host uses in every state: a new   *)
(* address waits for the status stage (usb_dc_usbfs.c, usbd_set_address and*)
(* the IN interrupt of endpoint 0), for every such host, however often     *)
(* handshakes get lost or the bus is reset.                                *)
(***************************************************************************)
THEOREM AddressesAgree ==
    ASSUME OrderlyHost, OrderlyRequests
    PROVE  Spec => []AddressInStep
  <1>1. StageInv => AddressInStep
    BY DEF StageInv, AddressInv, AddressInStep
  <1> QED BY <1>1, StageAlways, PTL

(***************************************************************************)
(* The two sides agree that the data stage is over: the host has all of the*)
(* reply, with the empty packet where it needs one, when the device waits  *)
(* for the status, and the device has decided when the host waits for it.  *)
(* The acknowledgement of the last packet must not get lost: a device that *)
(* misses it goes on offering that packet.                                 *)
(***************************************************************************)
THEOREM StagesInStep ==
    ASSUME OrderlyHost, OrderlyRequests, "lastIn" \notin Loss
    PROVE  Spec => []StagesAgree
  <1>1. StageInv => StagesAgree
    BY DEF StageInv, VerdictInv, DoneInv, StagesAgree
  <1> QED BY <1>1, StageAlways, PTL

-----------------------------------------------------------------------------
(* The control pipe. *)

LEMMA PipeInit == Init => Pipe!Init
  BY RequestsTyped DEF Init, Pipe!Init, Busy

\* A packet of a reply moves data or is a repeated or an empty one.
LEMMA PipeData ==
    ASSUME OrderlyHost, TypeInv, SetupInv, StageInv, tx.resp = "ACK", AcceptData
    PROVE  Pipe!Move \/ UNCHANGED Pipe!vars
  <1>1. /\ phase = "dataIn" /\ phase' \in {"dataIn", "statusOut"} /\ UNCHANGED <<req, outcome>>
        /\ IsRead(req) /\ ReplyInv /\ req \in Requests
        /\ moved \in Nat /\ residue \in Nat /\ Mps \in Nat \ {0} /\ tx.len \in Nat
    BY Words DEF AcceptData, StageInv, AddressInv, TypeInv, HostOK, DeviceOK, TxType
  <1>2. Goal(req) = Reply(req) /\ Reply(req) \in Nat
    BY <1>1, ReplyBounds DEF Goal, IsRead
  <1>3. \/ moved' = Reply(req) - residue + Mps /\ residue >= Mps
        \/ moved' = Reply(req)
    BY <1>1, HostTakes
  <1>4. moved' = moved \/ moved' = moved + tx.len
    BY DEF AcceptData
  <1>5. moved' = moved \/ (moved' > moved /\ moved' <= Goal(req))
    BY <1>1, <1>2, <1>3, <1>4
  <1>6. Busy /\ Busy'
    BY <1>1 DEF Busy
  <1> QED BY <1>1, <1>5, <1>6 DEF Pipe!Move, Pipe!vars

LEMMA PipeStep ==
    ASSUME OrderlyHost, OrderlyRequests, TypeInv, SetupInv, StageInv, [Next]_vars
    PROVE  [Pipe!Next]_Pipe!vars
  <1>1. CASE Submit
    <2>1. PICK r \in Requests : req' = r /\ phase' \in {FirstStage(r), "again"}
      BY <1>1 DEF Submit
    <2>2. phase = "idle" /\ phase' # "idle" /\ moved' = 0 /\ outcome' \in {"none", "lost"}
      BY <1>1, <2>1, FirstStageTyped DEF Submit
    <2> QED BY <2>1, <2>2 DEF Pipe!Next, Pipe!Submit, Busy
  <1>2. CASE Resubmit
    <2>1. phase = "again" /\ phase' \in {"dataIn", "dataOut", "statusIn"} /\ UNCHANGED <<req, moved, outcome>>
      BY <1>2, FirstStageTyped DEF Resubmit, TypeInv, HostOK
    <2> QED BY <2>1 DEF Pipe!vars, Busy
  <1>3. CASE InToken \/ InTokenLost
    <2>1. tx.resp = "ACK" /\ AcceptIn /\ (phase' # "idle" \/ InToken)
      BY <1>3 DEF InToken, InTokenLost, Offered, OrderlyHost
    <2>2. CASE AcceptData
      BY <2>1, <2>2, PipeData DEF Pipe!Next
    <2>3. CASE AcceptStatus
      <3>1. phase = "statusIn" /\ phase' = "idle" /\ outcome' = "passed" /\ UNCHANGED <<req, moved>>
        BY <2>3 DEF AcceptStatus
      <3>2. Serves(req) /\ moved = Goal(req) /\ outcome = "none"
        BY <2>1, <3>1 DEF StageInv, VerdictInv, SetupInv
      <3> QED BY <3>1, <3>2 DEF Pipe!Next, Pipe!Pass, Busy
    <2> QED BY <2>1, <2>2, <2>3 DEF AcceptIn
  <1>4. CASE InStalled
    <2>1. /\ phase \in {"dataIn", "statusIn"} /\ tx.resp = "STALL"
          /\ phase' = "idle" /\ outcome' = "refused" /\ UNCHANGED <<req, moved>>
      BY <1>4 DEF InStalled
    <2>2. ~Serves(req)
      BY <2>1 DEF StageInv, VerdictInv
    <2> QED BY <2>1, <2>2 DEF Pipe!Next, Pipe!Refuse, Busy
  <1>5. CASE SendData
    <2>1. /\ req.wLength \in Nat /\ moved \in Nat /\ moved < req.wLength /\ Mps \in Nat \ {0}
          /\ phase = "dataOut"
      BY <1>5, Words, RequestsTyped DEF SendData, TypeInv, HostOK, DataBounded
    <2>0. PICK n \in Nat : n = Least(req.wLength - moved, Mps)
      <3>1. Least(req.wLength - moved, Mps) \in Nat
        BY <2>1 DEF Least
      <3> QED BY <3>1
    <2>2. moved' = moved + n /\ UNCHANGED <<req, outcome>> /\ phase' = AfterData(moved')
      BY <1>5, <2>0 DEF SendData, OrderlyHost
    <2>3. IsWrite(req)
      BY <2>1 DEF SetupInv
    <2>4. moved' > moved /\ moved' <= Goal(req)
      <3>1. n > 0 /\ n <= req.wLength - moved
        BY <2>0, <2>1 DEF Least
      <3>2. Goal(req) = req.wLength
        BY <2>3 DEF Goal, IsWrite
      <3> QED BY <2>1, <2>2, <3>1, <3>2
    <2>5. phase' \in {"statusIn", "dataOut"}
      BY <2>2 DEF AfterData
    <2> QED BY <2>1, <2>2, <2>4, <2>5 DEF Pipe!Next, Pipe!Move, Busy
  <1>6. CASE Resend
    BY <1>6 DEF Resend, SetupInv
  <1>7. CASE SendStatus
    <2>1. phase = "statusOut" /\ UNCHANGED <<req, moved>>
          /\ ((phase' = "idle" /\ outcome' = "passed") \/ UNCHANGED <<phase, outcome>>)
      BY <1>7 DEF SendStatus
    <2>2. moved = Goal(req) /\ Serves(req) /\ outcome = "none"
      BY <2>1 DEF StageInv, AddressInv, VerdictInv, SetupInv, IsRead, Goal
    <2> QED BY <2>1, <2>2 DEF Pipe!Next, Pipe!Pass, Pipe!vars, Busy
  <1>8. CASE CallOff
    BY <1>8 DEF CallOff, OrderlyHost
  <1>9. CASE BusReset
    <2>1. phase' = "idle" /\ UNCHANGED <<req, moved>>
          /\ outcome' = IF phase = "idle" THEN outcome ELSE "cancelled"
      BY <1>9 DEF BusReset
    <2> QED BY <2>1 DEF Pipe!Next, Pipe!CallOff, Pipe!vars, Busy
  <1>10. CASE UNCHANGED vars
    BY <1>10 DEF vars, Pipe!vars, Busy
  <1> QED BY <1>1, <1>2, <1>3, <1>4, <1>5, <1>6, <1>7, <1>8, <1>9, <1>10 DEF Next, Deliver

(***************************************************************************)
(* The device core, the port and the host together are a control pipe: a   *)
(* request passes only if the device serves it and all of its data was     *)
(* moved, is refused only by a device that does not serve it, and ends     *)
(* otherwise only with a bus reset, also if the acknowledgement of the last*)
(* packet of a reply gets lost.  No request of such a host is lost and no  *)
(* data taken twice, so that this is promised of every request.            *)
(***************************************************************************)
THEOREM ControlImplementsPipe ==
    ASSUME OrderlyHost, OrderlyRequests
    PROVE  Spec => ImplementsPipe /\ [](Busy => outcome = "none")
  <1>1. Init => Pipe!Init
    BY PipeInit
  <1>2. TypeInv /\ SetupInv /\ StageInv /\ [Next]_vars => [Pipe!Next]_Pipe!vars
    BY PipeStep
  <1>3. SetupInv => (Busy => outcome = "none")
    BY DEF SetupInv, Busy
  <1> QED BY <1>1, <1>2, <1>3, StageAlways, PTL DEF Spec, ImplementsPipe, Pipe!Spec
=============================================================================
