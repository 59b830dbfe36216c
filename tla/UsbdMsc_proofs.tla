--------------------------- MODULE UsbdMsc_proofs ----------------------------
(***************************************************************************)
(* Machine-checked proofs about UsbdMsc, for every value of its constants: *)
(* under a host that follows the protocol, under the driver of the host    *)
(* stack (UsbhMsc), and at the end about the disk the firmware gives it.   *)
(***************************************************************************)
EXTENDS UsbhMsc, FakeDisk, TLAPS

\* The part of TypeOK a handler of the device can change.
DeviceOK ==
    /\ stage \in {"READ_CBW", "DATA_OUT", "DATA_IN", "SEND_CSW", "WAIT_CSW"}
    /\ csw \in [tag : {0, 1}, residue : 0 .. W - 1, status : {"PASSED", "FAILED"}]
    /\ sense \in SenseKeys
    /\ startSector \in 0 .. W - 1 /\ nsectors \in 0 .. W - 1 /\ block \in 0 .. W
    /\ outEp \in EpType /\ inEp \in EpType

\* Unsigned arithmetic stays in the word, and division in the naturals.
LEMMA WordArith ==
    /\ W \in Nat \ {0}
    /\ \A a \in Int : a % W \in 0 .. W - 1
    /\ \A a \in Nat : a \div BlkSize \in Nat
  BY SizesAssumption

LEMMA ChunkType ==
    ASSUME NEW n \in 0 .. W - 1
    PROVE  ChunkLen(n) \in 0 .. W - 1
  <1>1. n * BlkSize \in Int BY SizesAssumption
  <1>2. Bytes(n) \in 0 .. W - 1 BY <1>1, WordArith DEF Bytes
  <1> QED BY <1>2, SizesAssumption DEF ChunkLen, Least

\* Starting a transfer, and the two ways the interrupt handler advances one.
LEMMA StartType ==
    ASSUME NEW b \in Buffers, NEW n \in 0 .. W - 1
    PROVE  Start(b, n) \in EpType
  BY DEF Start, EpType

LEMMA ReadCbwType == ReadCbw \in EpType
  <1>1. CbwLen \in 0 .. W - 1 BY SizesAssumption
  <1> QED BY <1>1, StartType DEF ReadCbw, Buffers

LEMMA ReceiveType ==
    ASSUME NEW ep \in EpType, NEW n \in Nat
    PROVE  /\ Receive(ep, n) \in EpType
           /\ [Receive(ep, n) EXCEPT !.resp = "ACK"] \in EpType
  <1>1. ep.len - n \in Int BY DEF EpType
  <1>2. Sub(ep.len, n) \in 0 .. W - 1 BY <1>1, WordArith DEF Sub
  <1>3. ep.actual + n \in Nat BY DEF EpType
  <1> QED BY <1>2, <1>3 DEF Receive, EpType

LEMMA TransmitType ==
    ASSUME NEW ep \in EpType
    PROVE  Transmit(ep) \in EpType
  <1>1. CASE ep.len > Mps
    <2>1. ep.len - Mps \in 0 .. W - 1 /\ ep.actual + Mps \in Nat
      BY <1>1, SizesAssumption DEF EpType
    <2> QED BY <1>1, <2>1 DEF Transmit, EpType
  <1>2. CASE ~(ep.len > Mps)
    <2>1. 0 \in 0 .. W - 1 /\ ep.actual + ep.len \in Nat BY SizesAssumption DEF EpType
    <2> QED BY <1>2, <2>1 DEF Transmit, EpType
  <1> QED BY <1>1, <1>2

LEMMA RespType ==
    ASSUME NEW ep \in EpType, NEW r \in {"NAK", "ACK", "STALL"}
    PROVE  [ep EXCEPT !.resp = r] \in EpType
  BY DEF EpType
-----------------------------------------------------------------------------
(* The helpers of the SCSI layer preserve the device's types. *)

LEMMA SendCswType ==
    ASSUME NEW tag \in {0, 1}, NEW res \in 0 .. W - 1, NEW st \in {"PASSED", "FAILED"},
           SendCsw(tag, res, st)
    PROVE  /\ stage' = "WAIT_CSW"
           /\ csw' \in [tag : {0, 1}, residue : 0 .. W - 1, status : {"PASSED", "FAILED"}]
           /\ inEp' \in EpType
  <1>1. CswLen \in 0 .. W - 1 BY SizesAssumption
  <1> QED BY <1>1, StartType DEF SendCsw, Buffers

LEMMA ProcessReadType ==
    ASSUME DeviceOK, NEW lba \in 0 .. W - 1, NEW n \in 0 .. W - 1,
           NEW tag \in {0, 1}, NEW res \in 0 .. W - 1,
           ProcessRead(lba, n, tag, res), outEp' \in EpType
    PROVE  DeviceOK'
  <1> DEFINE len  == ChunkLen(n)
             blks == len \div BlkSize
  <1>1. len \in 0 .. W - 1 BY ChunkType
  <1>2. blks \in Nat BY <1>1, WordArith
  <1> HIDE DEF len, blks
  <1>3. /\ block' = lba
        /\ startSector' = Add(lba, blks)
        /\ nsectors' = Sub(n, blks)
        /\ csw' = [csw EXCEPT !.tag = tag, !.residue = Sub(res, len)]
        /\ stage' \in {"SEND_CSW", "DATA_IN"}
        /\ inEp' = Start("block", len)
        /\ sense' = sense
    BY DEF ProcessRead, len, blks
  <1>4. lba + blks \in Int /\ n - blks \in Int /\ res - len \in Int BY <1>1, <1>2
  <1>5. Add(lba, blks) \in 0 .. W - 1 /\ Sub(n, blks) \in 0 .. W - 1
        /\ Sub(res, len) \in 0 .. W - 1
    BY <1>4, WordArith DEF Add, Sub
  <1>6. inEp' \in EpType BY <1>1, <1>3, StartType DEF Buffers
  <1>7. block' \in 0 .. W BY <1>3, WordArith
  <1> QED BY <1>3, <1>5, <1>6, <1>7 DEF DeviceOK

LEMMA RejectType ==
    ASSUME DeviceOK, NEW c \in CommandType, NEW k \in SenseKeys, Reject(c, k)
    PROVE  DeviceOK'
  <1>1. outEp' \in EpType /\ inEp' \in EpType
    BY ReadCbwType, RespType DEF Reject, BotAbort, DeviceOK
  <1> QED BY <1>1 DEF Reject, DeviceOK, CommandType

LEMMA RejectTransferType ==
    ASSUME DeviceOK, NEW c \in CommandType, NEW n \in 0 .. W - 1, NEW k \in SenseKeys,
           NEW st \in {"READ_CBW", "DATA_OUT", "DATA_IN", "SEND_CSW", "WAIT_CSW"},
           RejectTransfer(c, n, k, st)
    PROVE  DeviceOK'
  <1>1. outEp' \in EpType /\ inEp' \in EpType
    BY ReadCbwType, RespType DEF RejectTransfer, BotAbort, DeviceOK
  <1> QED BY <1>1 DEF RejectTransfer, DeviceOK, CommandType

LEMMA SucceedType ==
    ASSUME DeviceOK, NEW c \in CommandType, NEW o \in EpType, Succeed(c, o)
    PROVE  DeviceOK'
  <1>1. c.tag \in {0, 1} /\ c.dlen \in 0 .. W - 1 BY DEF CommandType
  <1>2. SendCsw(c.tag, c.dlen, "PASSED") BY DEF Succeed
  <1> QED BY <1>1, <1>2, SendCswType DEF Succeed, DeviceOK

LEMMA ReplyType ==
    ASSUME DeviceOK, NEW c \in CommandType, NEW o \in EpType, NEW len \in 0 .. Mps,
           Reply(c, o, len)
    PROVE  DeviceOK'
  <1>1. CASE len = 0 BY <1>1, SucceedType DEF Reply
  <1>2. CASE len # 0
    <2> DEFINE size == Least(len, c.dlen)
    <2>1. c.tag \in {0, 1} /\ c.dlen \in 0 .. W - 1 BY DEF CommandType
    <2>2. size \in 0 .. W - 1 /\ c.dlen - size \in Int BY <2>1, SizesAssumption DEF Least
    <2>3. Sub(c.dlen, size) \in 0 .. W - 1 BY <2>2, WordArith DEF Sub
    <2>4. Start("block", size) \in EpType BY <2>2, StartType DEF Buffers
    <2>5. NoSector \in 0 .. W BY WordArith DEF NoSector
    <2> HIDE DEF size
    <2>6. /\ stage' = "SEND_CSW" /\ inEp' = Start("block", size) /\ outEp' = o
          /\ csw' = [tag |-> c.tag, residue |-> Sub(c.dlen, size), status |-> "PASSED"]
          /\ block' = NoSector /\ UNCHANGED <<sense, startSector, nsectors>>
      BY <1>2 DEF Reply, size
    <2> QED BY <2>1, <2>3, <2>4, <2>5, <2>6 DEF DeviceOK
  <1> QED BY <1>1, <1>2

-----------------------------------------------------------------------------
(* The commands. *)

LEMMA InformType ==
    ASSUME DeviceOK, NEW c \in CommandType, NEW o \in EpType, NEW len \in 0 .. Mps,
           Inform(c, o, len)
    PROVE  DeviceOK'
  BY RejectType, ReplyType DEF Inform, SenseKeys

LEMMA NoDataType ==
    ASSUME DeviceOK, NEW c \in CommandType, NEW o \in EpType, NoData(c, o)
    PROVE  DeviceOK'
  BY RejectType, SucceedType DEF NoData, SenseKeys

LEMMA ReadType ==
    ASSUME DeviceOK, NEW c \in CommandType, NEW o \in EpType, NEW n \in 0 .. W - 1,
           Read(c, o, n)
    PROVE  DeviceOK'
  <1>1. CASE Reject(c, "invalidCommand") BY <1>1, RejectType DEF SenseKeys
  <1>2. CASE RejectTransfer(c, n, "lbaOutOfRange", stage)
    BY <1>2, RejectTransferType DEF SenseKeys, DeviceOK
  <1>3. CASE RejectTransfer(c, n, sense, stage) BY <1>3, RejectTransferType DEF DeviceOK
  <1>4. CASE ProcessRead(c.lba, n, c.tag, c.dlen) /\ outEp' = o
    <2>1. c.lba \in 0 .. W - 1 /\ c.tag \in {0, 1} /\ c.dlen \in 0 .. W - 1
      BY DEF CommandType
    <2> QED BY <1>4, <2>1, ProcessReadType
  <1>5. CASE RejectTransfer(c, n, "readError", "DATA_IN")
    BY <1>5, RejectTransferType DEF SenseKeys
  <1> QED BY <1>1, <1>2, <1>3, <1>4, <1>5 DEF Read

LEMMA WriteType ==
    ASSUME DeviceOK, NEW c \in CommandType, NEW n \in 0 .. W - 1, Write(c, n)
    PROVE  DeviceOK'
  <1>1. CASE Reject(c, "invalidCommand") BY <1>1, RejectType DEF SenseKeys
  <1>2. CASE RejectTransfer(c, n, sense, stage) BY <1>2, RejectTransferType DEF DeviceOK
  <1>3. CASE /\ startSector' = c.lba
             /\ nsectors'    = n
             /\ csw'   = [csw EXCEPT !.tag = c.tag, !.residue = c.dlen]
             /\ stage' = "DATA_OUT"
             /\ outEp' = Start("block", ChunkLen(n))
             /\ UNCHANGED <<sense, inEp, block>>
    <2>1. outEp' \in EpType BY <1>3, ChunkType, StartType DEF Buffers
    <2>2. c.lba \in 0 .. W - 1 /\ c.tag \in {0, 1} /\ c.dlen \in 0 .. W - 1
      BY DEF CommandType
    <2> QED BY <1>3, <2>1, <2>2 DEF DeviceOK
  <1> QED BY <1>1, <1>2, <1>3 DEF Write

LEMMA DispatchType ==
    ASSUME DeviceOK, NEW c \in CommandType, NEW o \in EpType, Dispatch(c, o)
    PROVE  DeviceOK'
  <1>1. \A op \in InfoOps : RespLen[op] \in 0 .. Mps
    BY RespLenAssumption, SizesAssumption
  <1>2. c.n \in 0 .. W - 1 /\ c.n % W16 \in 0 .. W - 1 /\ c.alloc \in Nat
    BY SizesAssumption DEF CommandType
  <1>3. c.op \in InfoOps => Least(c.alloc, RespLen[c.op]) \in 0 .. Mps
    BY <1>1, <1>2, SizesAssumption DEF Least
  <1>4. CASE TestUnitReady(c, o) \/ StartStopUnit(c, o) \/ PreventAllow(c, o)
    BY <1>4, NoDataType DEF TestUnitReady, StartStopUnit, PreventAllow
  <1>5. CASE \/ RequestSense(c, o) \/ ModeSense6(c, o) \/ ModeSense10(c, o)
             \/ ReadFormatCapacity(c, o) \/ ReadCapacity10(c, o)
    <2>1. c.op \in InfoOps
      BY <1>5 DEF RequestSense, ModeSense6, ModeSense10, ReadFormatCapacity,
                  ReadCapacity10, InfoOps
    <2>2. Inform(c, o, Least(c.alloc, RespLen[c.op])) \/ Inform(c, o, RespLen[c.op])
      BY <1>5 DEF RequestSense, ModeSense6, ModeSense10, ReadFormatCapacity, ReadCapacity10
    <2> QED BY <1>1, <1>3, <2>1, <2>2, InformType
  <1>6. CASE Inquiry(c, o)
    <2>1. CASE c.op = "inquiry" /\ Inform(c, o, Least(c.alloc, RespLen[c.op]))
      BY <1>3, <2>1, InformType DEF InfoOps
    <2>2. CASE c.op = "inquiryVpd" /\ Inform(c, o, RespLen[c.op])
      BY <1>1, <2>2, InformType DEF InfoOps
    <2>3. CASE Reject(c, IF c.dlen = 0 THEN "invalidCommand" ELSE "invalidField")
      BY <2>3, RejectType DEF SenseKeys
    <2> QED BY <1>6, <2>1, <2>2, <2>3 DEF Inquiry
  <1>7. CASE Read10(c, o) \/ Read12(c, o)
    BY <1>2, <1>7, ReadType DEF Read10, Read12
  <1>8. CASE Write10(c) \/ Write12(c)
    BY <1>2, <1>8, WriteType DEF Write10, Write12
  <1>9. CASE Others(c, o)
    BY <1>9, RejectType, SucceedType DEF Others, SenseKeys, DeviceOK
  <1> QED BY <1>4, <1>5, <1>6, <1>7, <1>8, <1>9 DEF Dispatch

LEMMA CbwDecodeType ==
    ASSUME DeviceOK, NEW c \in CommandType, NEW o \in EpType, NEW nb \in Nat,
           CbwDecode(c, o, nb)
    PROVE  DeviceOK'
  <1>1. CASE /\ sense' = "invalidCommand" /\ BotAbort
             /\ UNCHANGED <<stage, csw, startSector, nsectors, block>>
    BY <1>1, ReadCbwType, RespType DEF BotAbort, DeviceOK, SenseKeys
  <1>2. CASE Reject(c, "invalidCommand") BY <1>2, RejectType DEF SenseKeys
  <1>3. CASE Dispatch(c, o) BY <1>3, DispatchType
  <1> QED BY <1>1, <1>2, <1>3 DEF CbwDecode

-----------------------------------------------------------------------------
(* The callbacks and the interrupt handlers. *)

LEMMA ProcessWriteType ==
    ASSUME DeviceOK, NEW o \in EpType, NEW nb \in Nat, ProcessWrite(o, nb)
    PROVE  DeviceOK'
  <1> DEFINE blks == nb \div BlkSize
             left == Sub(nsectors, blks)
             res  == Sub(csw.residue, nb)
  <1>1. blks \in Nat BY WordArith
  <1>2. /\ nsectors - blks \in Int /\ startSector + blks \in Int
        /\ csw.residue - nb \in Int /\ csw.residue \in 0 .. W - 1 /\ csw.tag \in {0, 1}
    BY <1>1 DEF DeviceOK
  <1>3. left \in 0 .. W - 1 /\ res \in 0 .. W - 1 /\ Add(startSector, blks) \in 0 .. W - 1
    BY <1>2, WordArith DEF Sub, Add
  <1> HIDE DEF blks, left, res
  <1>4. CASE /\ startSector' = Add(startSector, blks) /\ nsectors' = left
             /\ UNCHANGED <<sense, block>>
             /\ SendCsw(csw.tag, res, "PASSED") /\ outEp' = o
    BY <1>2, <1>3, <1>4, SendCswType DEF DeviceOK
  <1>5. CASE /\ startSector' = Add(startSector, blks) /\ nsectors' = left
             /\ UNCHANGED <<sense, block>>
             /\ csw' = [csw EXCEPT !.residue = res]
             /\ outEp' = Start("block", ChunkLen(left)) /\ UNCHANGED <<stage, inEp>>
    <2>1. outEp' \in EpType BY <1>3, <1>5, ChunkType, StartType DEF Buffers
    <2> QED BY <1>3, <1>5, <2>1 DEF DeviceOK
  <1>6. CASE /\ sense' = "writeFault"
             /\ SendCsw(csw.tag, csw.residue, "FAILED") /\ outEp' = o
             /\ UNCHANGED <<startSector, nsectors, block>>
    BY <1>2, <1>6, SendCswType DEF DeviceOK, SenseKeys
  <1> QED BY <1>4, <1>5, <1>6 DEF ProcessWrite, blks, left, res

LEMMA BulkOutType ==
    ASSUME DeviceOK, NEW c \in CommandType, NEW o \in EpType, NEW nb \in Nat,
           BulkOut(c, o, nb)
    PROVE  DeviceOK'
  BY CbwDecodeType, ProcessWriteType DEF BulkOut, DeviceOK

LEMMA BulkInType ==
    ASSUME DeviceOK, NEW i \in EpType, BulkIn(i)
    PROVE  DeviceOK'
  <1>1. csw.tag \in {0, 1} /\ csw.residue \in 0 .. W - 1 BY DEF DeviceOK
  <1>2. CASE ProcessRead(startSector, nsectors, csw.tag, csw.residue) /\ UNCHANGED outEp
    BY <1>1, <1>2, ProcessReadType DEF DeviceOK
  <1>3. CASE /\ sense' = "readError" /\ SendCsw(csw.tag, csw.residue, "FAILED")
             /\ UNCHANGED <<startSector, nsectors, block, outEp>>
    BY <1>1, <1>3, SendCswType DEF DeviceOK, SenseKeys
  <1>4. CASE /\ SendCsw(csw.tag, csw.residue, "PASSED")
             /\ UNCHANGED <<sense, startSector, nsectors, block, outEp>>
    BY <1>1, <1>4, SendCswType DEF DeviceOK
  <1>5. CASE CswSent(i) BY <1>5, ReadCbwType DEF CswSent, DeviceOK
  <1>6. CASE /\ inEp' = i
             /\ UNCHANGED <<stage, csw, sense, startSector, nsectors, block, outEp>>
    BY <1>6 DEF DeviceOK
  <1> QED BY <1>2, <1>3, <1>4, <1>5, <1>6 DEF BulkIn

LEMMA OutInterruptType ==
    ASSUME DeviceOK, NEW c \in CommandType, NEW n \in Nat, OutInterrupt(c, n)
    PROVE  DeviceOK'
  <1>1. /\ outEp \in EpType /\ outEp.actual + n \in Nat
        /\ Receive(outEp, n) \in EpType
        /\ [Receive(outEp, n) EXCEPT !.resp = "ACK"] \in EpType
    BY ReceiveType DEF DeviceOK, EpType
  <1>2. CASE ReceiveDone(outEp, n) BY <1>1, <1>2, BulkOutType DEF OutInterrupt
  <1>3. CASE ~ReceiveDone(outEp, n) BY <1>1, <1>3 DEF OutInterrupt, DeviceOK
  <1> QED BY <1>2, <1>3

LEMMA InInterruptType ==
    ASSUME DeviceOK, InInterrupt
    PROVE  DeviceOK'
  <1>1. Transmit(inEp) \in EpType BY TransmitType DEF DeviceOK
  <1>2. CASE TransmitDone(inEp) BY <1>1, <1>2, BulkInType DEF InInterrupt
  <1>3. CASE ~TransmitDone(inEp) BY <1>1, <1>3 DEF InInterrupt, DeviceOK
  <1> QED BY <1>2, <1>3

-----------------------------------------------------------------------------
(***************************************************************************)
(* TypeOK is inductive only together with the fact that a host in the      *)
(* data-out phase still has bytes to send.                                 *)
(***************************************************************************)
TypeInv == TypeOK /\ (phase = "dataOut" => moved < cmd.dlen)

LEMMA TypeInit == Init => TypeInv
  <1>1. NoCommand \in CommandType BY SizesAssumption DEF NoCommand, CommandType, Ops, NoDataOps
  <1>2. ClosedEp \in EpType BY SizesAssumption DEF ClosedEp, EpType, Buffers
  <1>3. 0 \in 0 .. W - 1 /\ W \in 0 .. W BY SizesAssumption
  <1> QED BY <1>1, <1>2, <1>3 DEF Init, TypeInv, TypeOK, SenseKeys, Phases, NoSector

LEMMA TypeStep == TypeInv /\ [Next]_vars => TypeInv'
  <1> SUFFICES ASSUME TypeInv, [Next]_vars PROVE TypeInv' OBVIOUS
  <1>d. DeviceOK /\ cbw \in CommandType /\ cmd \in CommandType /\ phase \in Phases /\ moved \in Nat
    BY DEF TypeInv, TypeOK, DeviceOK
  <1>e. outEp \in EpType /\ inEp \in EpType BY <1>d DEF DeviceOK
  <1>f. cmd.dlen \in Nat BY <1>d DEF CommandType
  <1>g. /\ DeviceOK' /\ cbw' \in CommandType /\ cmd' \in CommandType
        /\ phase' \in Phases /\ moved' \in Nat
        /\ phase' = "dataOut" => moved' < cmd'.dlen
        => TypeInv'
    BY DEF TypeInv, TypeOK, DeviceOK
  <1>1. ASSUME NEW c \in Commands, SendCommand(c) PROVE TypeInv'
    <2>1. c \in CommandType BY HostAssumption
    <2>2. cbw' \in CommandType BY <1>1, <1>d, <2>1 DEF SendCommand
    <2>3. DeviceOK'
      <3>1. CbwLen \in Nat /\ CbwLen - 1 \in Nat BY SizesAssumption
      <3>2. \E n \in Nat : OutInterrupt(cbw', n) BY <1>1, <3>1 DEF SendCommand
      <3> QED BY <1>d, <2>2, <3>2, OutInterruptType
    <2>4. phase' \in Phases /\ (phase' = "dataOut" => c.dlen # 0)
      BY <1>1 DEF SendCommand, DataPhase, Phases
    <2>5. cmd' = c /\ moved' = 0 BY <1>1 DEF SendCommand
    <2>6. phase' = "dataOut" => moved' < cmd'.dlen BY <2>1, <2>4, <2>5 DEF CommandType
    <2> QED BY <1>g, <2>1, <2>2, <2>3, <2>4, <2>5, <2>6
  <1>2. CASE SendData
    <2> DEFINE n == Least(cmd.dlen - moved, Mps)
    <2>1. n \in Nat /\ moved + n <= cmd.dlen
      BY <1>2, <1>d, <1>f, SizesAssumption DEF SendData, TypeInv, Least
    <2> HIDE DEF n
    <2>2. /\ moved' = moved + n /\ OutInterrupt(cbw, n) /\ UNCHANGED <<cbw, cmd>>
          /\ phase' = IF moved + n = cmd.dlen THEN "status" ELSE "dataOut"
      BY <1>2 DEF SendData, n
    <2>3. DeviceOK' BY <1>d, <2>1, <2>2, OutInterruptType
    <2>4. moved' \in Nat /\ phase' \in Phases BY <1>d, <2>1, <2>2 DEF Phases
    <2>5. phase' = "dataOut" => moved' < cmd'.dlen BY <1>d, <1>f, <2>1, <2>2
    <2> QED BY <1>d, <1>g, <2>2, <2>3, <2>4, <2>5
  <1>3. CASE FetchData
    <2>1. DeviceOK' BY <1>3, <1>d, InInterruptType DEF FetchData
    <2>2. PacketLen(inEp) \in Nat BY <1>e, SizesAssumption DEF PacketLen, EpType, Least
    <2>3. moved' \in Nat /\ phase' \in {"status", "dataIn"} /\ UNCHANGED <<cbw, cmd>>
      BY <1>3, <1>d, <2>2 DEF FetchData
    <2> QED BY <1>d, <1>g, <2>1, <2>3 DEF Phases
  <1>4. CASE FetchStatus
    <2>1. DeviceOK' BY <1>4, <1>d, InInterruptType DEF FetchStatus
    <2>2. phase' \in {"idle", "recover"} /\ UNCHANGED <<cbw, cmd, moved>>
      BY <1>4 DEF FetchStatus
    <2> QED BY <1>d, <1>g, <2>1, <2>2 DEF Phases
  <1>5. CASE ClearHalt \/ ClearHaltIn
    <2>1. inEp' \in EpType BY <1>5, <1>e, RespType DEF ClearHalt, ClearHaltIn
    <2>2. phase' \in {"status", "clearOut"} /\ UNCHANGED <<priv, outEp, cmd, moved>>
      BY <1>5 DEF ClearHalt, ClearHaltIn
    <2>3. DeviceOK' BY <1>d, <2>1, <2>2 DEF DeviceOK, priv
    <2> QED BY <1>d, <1>g, <2>2, <2>3 DEF Phases, priv
  <1>6. CASE GiveUp
    <2>1. phase' = "recover" /\ UNCHANGED <<priv, outEp, inEp, cmd, moved>>
      BY <1>6 DEF GiveUp
    <2>2. DeviceOK' BY <1>d, <2>1 DEF DeviceOK, priv
    <2> QED BY <1>d, <1>g, <2>1, <2>2 DEF Phases, priv
  <1>7. CASE BusReset
    <2>1. ClosedEp \in EpType BY SizesAssumption DEF ClosedEp, EpType, Buffers
    <2>2. DeviceOK' BY <1>7, <1>d, <2>1 DEF BusReset, DeviceReset, DeviceOK
    <2>3. phase' = "off" /\ UNCHANGED <<cbw, cmd, moved>> BY <1>7 DEF BusReset, DeviceReset
    <2> QED BY <1>d, <1>g, <2>2, <2>3 DEF Phases
  <1>8. CASE SetConfiguration
    <2>1. inEp' \in EpType /\ outEp' \in EpType
      BY <1>8, <1>e, ReadCbwType, RespType DEF SetConfiguration, DeviceConfigured, Open
    <2>2. phase' = "idle" /\ UNCHANGED <<priv, cmd, moved>> BY <1>8 DEF SetConfiguration, DeviceConfigured
    <2>3. DeviceOK' BY <1>d, <2>1, <2>2 DEF DeviceOK, priv
    <2> QED BY <1>d, <1>g, <2>2, <2>3 DEF Phases, priv
  <1>9. CASE ClassReset
    <2>1. DeviceOK' BY <1>9, <1>d DEF ClassReset, DeviceOK
    <2>2. phase' = "clearIn" /\ UNCHANGED <<cbw, cmd, moved>> BY <1>9 DEF ClassReset
    <2> QED BY <1>d, <1>g, <2>1, <2>2 DEF Phases
  <1>10. CASE ClearHaltOut
    <2>1. outEp' \in EpType BY <1>10, <1>e, RespType DEF ClearHaltOut
    <2>2. phase' = "idle" /\ UNCHANGED <<priv, inEp, cmd, moved>> BY <1>10 DEF ClearHaltOut
    <2>3. DeviceOK' BY <1>d, <2>1, <2>2 DEF DeviceOK, priv
    <2> QED BY <1>d, <1>g, <2>2, <2>3 DEF Phases, priv
  <1>11. CASE UNCHANGED vars
    BY <1>11 DEF vars, TypeInv, TypeOK
  <1> QED BY <1>1, <1>2, <1>3, <1>4, <1>5, <1>6, <1>7, <1>8, <1>9, <1>10, <1>11 DEF Next

(* Every variable of the transport, of its endpoints and of the host keeps *)
(* its type in every behaviour: no counter leaves the 32-bit word and no   *)
(* stage, handshake or sense key outside those of the code appears.        *)
THEOREM TypeCorrect == Spec => []TypeOK
  <1>1. TypeInv => TypeOK BY DEF TypeInv
  <1> QED BY TypeInit, TypeStep, <1>1, PTL DEF Spec

-----------------------------------------------------------------------------
(***************************************************************************)
(* Lengths.  A chunk is a whole number of sectors, a sector a whole number *)
(* of packets.                                                             *)
(***************************************************************************)
Packets == {q * Mps : q \in Nat \ {0}}

\* Sectors add up to bytes.
LEMMA Spread ==
    /\ \A a, b \in Int : (a + b) * BlkSize = a * BlkSize + b * BlkSize
    /\ \A a, b \in Int : (a - b) * BlkSize = a * BlkSize - b * BlkSize
    /\ \A a \in Nat : a * BlkSize \in Nat
    /\ \A a \in Nat \ {0} : a * BlkSize >= BlkSize
    /\ 0 * BlkSize = 0
  <1>1. BlkSize \in Nat \ {0} BY SizesAssumption
  <1>2. \A a \in Nat \ {0} : a * BlkSize >= BlkSize
    <2> SUFFICES ASSUME NEW a \in Nat \ {0} PROVE a * BlkSize >= BlkSize OBVIOUS
    <2>1. a * BlkSize = (a - 1) * BlkSize + BlkSize BY <1>1
    <2>2. (a - 1) \in Nat BY SMT
    <2>3. (a - 1) * BlkSize \in Nat BY <1>1, <2>2
    <2> QED BY <1>1, <2>1, <2>3
  <1> QED BY <1>1, <1>2

LEMMA PacketStep ==
    ASSUME NEW len \in Packets
    PROVE  /\ len \in Nat /\ len >= Mps
           /\ len > Mps => len - Mps \in Packets
           /\ ~(len > Mps) => len = Mps
  <1>1. PICK q \in Nat \ {0} : len = q * Mps BY DEF Packets
  <1>2. Mps \in Nat \ {0} BY SizesAssumption
  <1>3. q * Mps = (q - 1) * Mps + Mps /\ (q - 1) \in Nat BY <1>2
  <1>4. (q - 1) * Mps \in Nat BY <1>2, <1>3
  <1>5. len \in Nat /\ len >= Mps BY <1>1, <1>2, <1>3, <1>4
  <1>6. CASE q = 1 BY <1>1, <1>2, <1>5, <1>6
  <1>7. CASE q # 1
    <2>1. len - Mps = (q - 1) * Mps /\ (q - 1) \in Nat \ {0} BY <1>1, <1>2, <1>3, <1>7
    <2>2. len - Mps \in Packets BY <2>1 DEF Packets
    <2>3. q - 2 \in Nat /\ (q - 1) * Mps = (q - 2) * Mps + Mps BY <1>2, <1>7
    <2>4. (q - 2) * Mps \in Nat BY <1>2, <2>3
    <2>5. len > Mps BY <1>1, <1>2, <1>3, <2>3, <2>4
    <2> QED BY <1>5, <2>2, <2>5
  <1> QED BY <1>6, <1>7

LEMMA SectorsArePackets ==
    ASSUME NEW n \in Nat \ {0}
    PROVE  n * BlkSize \in Packets
  <1>1. PICK p \in 1 .. BlkSize : BlkSize = p * Mps BY BlocksAssumption
  <1>2. p \in Nat \ {0} /\ Mps \in Nat \ {0} BY <1>1, SizesAssumption
  <1>3. n * BlkSize = (n * p) * Mps BY <1>1, <1>2
  <1>4. n * p \in Nat \ {0}
    <2>1. n * p = (n - 1) * p + p /\ (n - 1) \in Nat BY <1>2
    <2>2. (n - 1) * p \in Nat BY <1>2, <2>1
    <2> QED BY <1>2, <2>1, <2>2
  <1> QED BY <1>3, <1>4 DEF Packets

LEMMA BytesFacts ==
    ASSUME NEW n \in Nat, n * BlkSize < W
    PROVE  Bytes(n) = n * BlkSize /\ n * BlkSize \in Nat
  <1>1. BlkSize \in Nat /\ W \in Nat BY SizesAssumption
  <1>2. n * BlkSize \in Nat BY <1>1
  <1> QED BY <1>1, <1>2 DEF Bytes

\* ChunkLen for a transfer that fits the word.
LEMMA ChunkFacts ==
    ASSUME NEW n \in Nat \ {0}, n * BlkSize < W
    PROVE  \E m \in 1 .. n :
             /\ ChunkLen(n) = m * BlkSize /\ ChunkLen(n) \div BlkSize = m
             /\ ChunkLen(n) \in Packets /\ ChunkLen(n) <= BufSize
             /\ ChunkLen(n) <= n * BlkSize
  <1>1. BlkSize \in Nat \ {0} /\ BufSize \in Nat /\ W \in Nat BY SizesAssumption
  <1>2. PICK k \in 1 .. BufSize : BufSize = k * BlkSize BY BlocksAssumption
  <1>3. n * BlkSize \in Nat BY <1>1
  <1>4. Bytes(n) = n * BlkSize BY <1>1, <1>3 DEF Bytes
  <1>5. k \in Nat \ {0} BY <1>1, <1>2
  <1>6. \A m \in Nat : (m * BlkSize) \div BlkSize = m BY <1>1
  <1>7. CASE n * BlkSize <= BufSize
    <2>1. ChunkLen(n) = n * BlkSize BY <1>4, <1>7 DEF ChunkLen, Least
    <2> QED BY <1>3, <1>6, <1>7, <2>1, SectorsArePackets
  <1>8. CASE ~(n * BlkSize <= BufSize)
    <2>1. ChunkLen(n) = k * BlkSize BY <1>2, <1>4, <1>8 DEF ChunkLen, Least
    <2>2. k \in 1 .. n
      <3> SUFFICES ASSUME ~(k <= n) PROVE FALSE BY <1>5
      <3>1. k - n \in Nat BY <1>5
      <3>2. (k - n) * BlkSize \in Nat BY <1>1, <3>1
      <3>3. k * BlkSize = n * BlkSize + (k - n) * BlkSize BY <1>1, <1>5
      <3> QED BY <1>1, <1>2, <1>3, <1>8, <3>2, <3>3
    <2>3. ChunkLen(n) \in Packets BY <1>5, <2>1, SectorsArePackets
    <2>4. ChunkLen(n) <= BufSize /\ ChunkLen(n) <= n * BlkSize
      BY <1>1, <1>2, <1>3, <1>8, <2>1
    <2>5. (k * BlkSize) \div BlkSize = k BY <1>5, <1>6
    <2> QED BY <2>1, <2>2, <2>3, <2>4, <2>5
  <1> QED BY <1>7, <1>8

-----------------------------------------------------------------------------
(***************************************************************************)
(* The inductive invariant of the transport: the states a command goes     *)
(* through, each with what host and device must agree on.                  *)
(***************************************************************************)
Resting == stage = "READ_CBW" /\ outEp = ReadCbw

\* The host meant, and the device will take, what is within the medium.
Accepted(c) == c.lba + c.n <= BlkNbr /\ c.dlen = c.n * BlkSize

\* The command was refused: nothing comes until the host clears the halt.
Refused == Resting /\ phase # "dataOut" /\ inEp.resp # "ACK"

\* The sectors and bytes to come.
Remaining ==
    /\ startSector + nsectors = cmd.lba + cmd.n
    /\ csw.residue = nsectors * BlkSize /\ csw.tag = cmd.tag

ReadUnderway ==
    /\ stage \in {"DATA_IN", "SEND_CSW"} /\ (stage = "SEND_CSW" <=> nsectors = 0)
    /\ phase = "dataIn" /\ cmd.op \in ReadOps /\ Accepted(cmd) /\ Remaining
    /\ inEp.resp = "ACK" /\ inEp.buf = "block" /\ inEp.len \in Packets
    /\ outEp.resp = "NAK"
    /\ (startSector - block) * BlkSize = inEp.actual + inEp.len
    /\ (block - cmd.lba) * BlkSize + inEp.actual = moved
    /\ moved + inEp.len + csw.residue = cmd.dlen

ReplyUnderway ==
    /\ stage = "SEND_CSW"
    /\ phase = "dataIn" /\ cmd.op \notin ReadOps \cup WriteOps
    /\ inEp.resp = "ACK" /\ inEp.buf = "block" /\ inEp.len \in 1 .. Mps - 1
    /\ outEp.resp = "NAK" /\ block = NoSector
    /\ csw.tag = cmd.tag /\ csw.residue + inEp.len = cmd.dlen /\ moved = 0
    /\ cmd.op = "readCapacity10" => inEp.len = Least(RespLen[cmd.op], cmd.dlen)

\* The first access to the medium failed, and the endpoints were halted.
ReadFailed ==
    /\ stage = "DATA_IN" /\ "read" \in MediaFaults
    /\ phase # "dataOut" /\ outEp = ReadCbw /\ inEp.resp # "ACK"

WriteUnderway ==
    /\ stage = "DATA_OUT"
    /\ phase = "dataOut" /\ cmd.op \in WriteOps /\ Accepted(cmd) /\ Remaining
    /\ outEp.resp = "ACK" /\ outEp.buf = "block" /\ outEp.len \in Packets
    /\ inEp.resp # "ACK" /\ nsectors # 0 /\ cmd.lba <= startSector
    /\ outEp.actual + outEp.len = ChunkLen(nsectors)
    /\ (startSector - cmd.lba) * BlkSize + outEp.actual = moved
    /\ moved + csw.residue = cmd.dlen + outEp.actual

StatusTrue ==
    /\ csw.tag = cmd.tag
    /\ csw.status = "PASSED" => csw.residue + moved = cmd.dlen
    /\ csw.status = "FAILED" => csw.residue + moved >= cmd.dlen /\ csw.residue <= cmd.dlen
    /\ csw.status = "PASSED" /\ cmd.op \in ReadOps \cup WriteOps =>
         moved = cmd.dlen /\ startSector = cmd.lba + cmd.n /\ nsectors = 0

StatusOffered ==
    /\ stage = "WAIT_CSW" /\ inEp = Start("csw", CswLen) /\ outEp.resp = "NAK"
    /\ phase = "dataOut" => "write" \in MediaFaults
    /\ StatusTrue

\* The device has the command the host works on, and is in one of these states.
InStep ==
    /\ cbw = cmd
    /\ \/ Refused \/ ReadUnderway \/ ReplyUnderway \/ ReadFailed
       \/ WriteUnderway \/ StatusOffered

Service == Working => InStep

\* Between commands.
Rest ==
    /\ phase = "off"  => stage = "READ_CBW" /\ outEp = ClosedEp /\ inEp = ClosedEp
    /\ phase = "idle" => Resting /\ inEp.resp = "NAK"
    /\ phase \in {"recover", "clearIn", "clearOut"} => Recoveries \subseteq {"bus"} \/ Resting
    /\ phase \in {"clearIn", "clearOut"} => "class" \in Recoveries
    /\ phase = "clearOut" => inEp.resp = "NAK"

\* What holds in every phase.
Always == MediaInRange /\ TransferFits /\ ("read" \notin MediaFaults => ReadyForCommand)

ServiceInv == Service /\ Rest /\ Always

LEMMA ServiceProperties ==
    ASSUME TypeInv, ServiceInv
    PROVE  HonestStatus /\ ReadPosition /\ WritePosition /\ MediaInRange /\ TransferFits
  <1>1. HonestStatus
    <2> SUFFICES ASSUME CswQueued, Working PROVE StatusTrue
      BY DEF HonestStatus, StatusTrue
    <2>1. inEp.resp = "ACK" /\ inEp.buf = "csw" BY DEF CswQueued
    <2> QED BY <2>1 DEF ServiceInv, Service, InStep, Refused, ReadUnderway, ReplyUnderway,
                        ReadFailed, WriteUnderway, StatusOffered
  <1>2. ReadPosition
    <2> SUFFICES ASSUME phase = "dataIn", cmd.op \in ReadOps, inEp.resp = "ACK", inEp.buf = "block"
                 PROVE  (block - cmd.lba) * BlkSize + inEp.actual = moved
      BY DEF ReadPosition
    <2>1. Working BY DEF Working
    <2> QED BY <2>1 DEF ServiceInv, Service, InStep, Refused, ReadUnderway, ReplyUnderway,
                        ReadFailed, WriteUnderway, StatusOffered, Start
  <1>3. WritePosition
    <2> SUFFICES ASSUME stage = "DATA_OUT", phase = "dataOut"
                 PROVE  /\ outEp.buf = "block"
                        /\ (startSector - cmd.lba) * BlkSize + outEp.actual = moved
      BY DEF WritePosition
    <2>1. Working BY DEF Working
    <2> QED BY <2>1 DEF ServiceInv, Service, InStep, Refused, Resting, ReadUnderway, ReplyUnderway,
                        ReadFailed, WriteUnderway, StatusOffered
  <1> QED BY <1>1, <1>2, <1>3 DEF ServiceInv, Always

\* In a command, these states and the buffers are all there is to the invariant.
LEMMA InService == Working /\ InStep /\ MediaInRange /\ TransferFits => ServiceInv
  <1> SUFFICES ASSUME Working, InStep, MediaInRange, TransferFits PROVE ServiceInv
    OBVIOUS
  <1>1. Service BY DEF Service
  <1>2. Rest BY DEF Rest, Working
  <1>3. "read" \notin MediaFaults => ReadyForCommand
    <2>1. ReadCbw.resp = "ACK" /\ ReadCbw.buf = "cbw" BY DEF ReadCbw, Start
    <2> QED BY <2>1 DEF InStep, Refused, Resting, ReadUnderway, ReplyUnderway, ReadFailed,
                        WriteUnderway, StatusOffered, ReadyForCommand
  <1> QED BY <1>1, <1>2, <1>3 DEF ServiceInv, Always

\* A step in a command ends in one of these states.
LEMMA ServiceStep ==
    ASSUME Working', cbw' = cmd', MediaInRange', TransferFits',
           \/ Refused' \/ ReadUnderway' \/ ReplyUnderway' \/ ReadFailed'
           \/ WriteUnderway' \/ StatusOffered'
    PROVE  ServiceInv'
  <1>1. InStep' BY DEF InStep
  <1>2. (Working /\ InStep /\ MediaInRange /\ TransferFits)' => ServiceInv'
    BY InService, PTL
  <1> QED BY <1>1, <1>2

-----------------------------------------------------------------------------
(***************************************************************************)
(* What becomes of a new command.                                          *)
(***************************************************************************)
\* The host's side of SendCommand, with the command in cbw.
Commanded(c) == cmd' = c /\ cbw' = c /\ moved' = 0 /\ phase' = DataPhase(c)

LEMMA PhaseFacts ==
    ASSUME NEW c \in CommandType, Commanded(c)
    PROVE  /\ Working' /\ cbw' = cmd'
           /\ phase' = "dataOut" <=> c.dir = "out" /\ c.dlen # 0
           /\ phase' = "dataIn" <=> c.dir = "in" /\ c.dlen # 0
  BY DEF Commanded, DataPhase, Working, CommandType

LEMMA EndpointFacts ==
    /\ ReadCbw = [resp |-> "ACK", buf |-> "cbw", len |-> CbwLen, actual |-> 0]
    /\ CbwLen \in Nat /\ CswLen \in 1 .. Mps - 1 /\ Room("cbw") = CbwLen /\ Room("block") = BufSize
    /\ Room("csw") = CswLen /\ BufSize \in Nat
  BY SizesAssumption DEF ReadCbw, Start, Room

\* An abort in the state that waits for a command.
LEMMA AbortRefuses ==
    ASSUME TypeInv, stage = "READ_CBW", MediaInRange, BotAbort,
           UNCHANGED <<stage, block>>, phase' # "dataOut"
    PROVE  Refused' /\ MediaInRange' /\ TransferFits'
  <1>1. outEp' = ReadCbw /\ inEp'.resp = "STALL" BY DEF BotAbort, TypeInv, TypeOK, EpType
  <1>2. TransferFits' BY <1>1, EndpointFacts DEF TransferFits
  <1>3. stage' = "READ_CBW" /\ MediaInRange' BY DEF MediaInRange
  <1> QED BY <1>1, <1>2, <1>3 DEF Refused, Resting

LEMMA RejectRefuses ==
    ASSUME TypeInv, Resting, MediaInRange,
           NEW c \in CommandType, Commanded(c), phase' # "dataOut",
           NEW k, NEW n, Reject(c, k) \/ RejectTransfer(c, n, k, stage)
    PROVE  ServiceInv'
  <1>1. stage = "READ_CBW" /\ BotAbort /\ UNCHANGED <<stage, block>>
    BY DEF Resting, Reject, RejectTransfer
  <1>2. Refused' /\ MediaInRange' /\ TransferFits' BY <1>1, AbortRefuses
  <1> QED BY <1>2, PhaseFacts, ServiceStep

\* Success without data.
LEMMA SuccessStep ==
    ASSUME TypeInv, Resting, MediaInRange, TransferFits, NEW c \in CommandType, Commanded(c),
           phase' # "dataOut", c.op \notin ReadOps \cup WriteOps,
           NEW o \in EpType, o.resp = "NAK", o.actual <= Room(o.buf), Succeed(c, o)
    PROVE  ServiceInv'
  <1>1. /\ csw' = [tag |-> c.tag, residue |-> c.dlen, status |-> "PASSED"]
        /\ stage' = "WAIT_CSW" /\ inEp' = Start("csw", CswLen) /\ outEp' = o /\ block' = block
    BY DEF Succeed, SendCsw
  <1>2. cmd' = c /\ moved' = 0 /\ c.dlen \in Nat BY DEF Commanded, CommandType
  <1>3. StatusTrue' BY <1>1, <1>2 DEF StatusTrue
  <1>4. StatusOffered' BY <1>1, <1>3 DEF StatusOffered
  <1>5. MediaInRange' /\ TransferFits' BY <1>1 DEF MediaInRange, TransferFits
  <1> QED BY <1>4, <1>5, PhaseFacts, ServiceStep

LEMMA ReplyStep ==
    ASSUME TypeInv, Resting, MediaInRange, TransferFits, NEW c \in CommandType, Commanded(c),
           phase' # "dataOut", c.dlen # 0, c.op \notin ReadOps \cup WriteOps,
           NEW o \in EpType, o.resp = "NAK", o.actual <= Room(o.buf),
           NEW len \in 0 .. Mps - 1, Reply(c, o, len),
           c.op = "readCapacity10" => len = RespLen[c.op]
    PROVE  ServiceInv'
  <1>1. CASE len = 0 BY <1>1, SuccessStep DEF Reply
  <1>2. CASE len # 0
    <2> DEFINE size == Least(len, c.dlen)
    <2>1. c.dlen \in Nat \ {0} /\ c.dlen < W BY SizesAssumption DEF CommandType
    <2>2. size \in 1 .. Mps - 1 /\ size <= c.dlen BY <1>2, <2>1, SizesAssumption DEF Least
    <2>3. Sub(c.dlen, size) = c.dlen - size BY <2>1, <2>2, SizesAssumption DEF Sub
    <2> HIDE DEF size
    <2>4. /\ stage' = "SEND_CSW" /\ inEp' = Start("block", size) /\ outEp' = o /\ block' = NoSector
          /\ csw' = [tag |-> c.tag, residue |-> Sub(c.dlen, size), status |-> "PASSED"]
      BY <1>2 DEF Reply, size
    <2>5. cmd' = c /\ moved' = 0 /\ phase' = "dataIn"
      BY PhaseFacts DEF Commanded, DataPhase, CommandType
    <2>6. inEp'.resp = "ACK" /\ inEp'.buf = "block" /\ inEp'.len = size BY <2>4 DEF Start
    <2>7. csw'.tag = c.tag /\ csw'.residue + size = c.dlen BY <2>1, <2>2, <2>3, <2>4
    <2>a. cmd'.op = "readCapacity10" => inEp'.len = Least(RespLen[cmd'.op], cmd'.dlen)
      BY <2>5, <2>6 DEF size
    <2>8. ReplyUnderway' BY <2>2, <2>4, <2>5, <2>6, <2>7, <2>a DEF ReplyUnderway
    <2>9. MediaInRange' /\ TransferFits' BY <2>4 DEF MediaInRange, TransferFits
    <2> QED BY <2>8, <2>9, PhaseFacts, ServiceStep
  <1> QED BY <1>1, <1>2

\* The next chunk of n sectors that are left.
LEMMA ProcessReadEffect ==
    ASSUME NEW lba \in Nat, NEW n \in Nat \ {0}, NEW tag, NEW res, n * BlkSize < W,
           lba + n <= BlkNbr, res = n * BlkSize, csw \in [tag : {0, 1}, residue : 0 .. W - 1, status : {"PASSED", "FAILED"}],
           ProcessRead(lba, n, tag, res)
    PROVE  \E m \in 1 .. n :
             /\ block' = lba /\ startSector' = lba + m /\ nsectors' = n - m
             /\ csw' = [csw EXCEPT !.tag = tag, !.residue = (n - m) * BlkSize]
             /\ stage' = IF n = m THEN "SEND_CSW" ELSE "DATA_IN"
             /\ inEp' = Start("block", m * BlkSize)
             /\ m * BlkSize \in Packets /\ m * BlkSize <= n * BlkSize
  <1>1. PICK m \in 1 .. n :
          /\ ChunkLen(n) = m * BlkSize /\ ChunkLen(n) \div BlkSize = m
          /\ ChunkLen(n) \in Packets /\ ChunkLen(n) <= BufSize
          /\ ChunkLen(n) <= n * BlkSize
    BY ChunkFacts
  <1>2. W \in Nat /\ BlkNbr < W /\ BlkNbr \in Nat BY SizesAssumption
  <1>3. n < W /\ lba + m < W BY <1>1, <1>2
  <1>4. Add(lba, m) = lba + m /\ Sub(n, m) = n - m BY <1>1, <1>2, <1>3 DEF Add, Sub
  <1>5. m * BlkSize \in Nat /\ n * BlkSize \in Nat BY <1>1, Spread
  <1>6. (n - m) * BlkSize = n * BlkSize - m * BlkSize BY <1>1, Spread
  <1>7. Sub(res, m * BlkSize) = (n - m) * BlkSize BY <1>1, <1>2, <1>5, <1>6 DEF Sub
  <1>8. LastChunk(Sub(n, m)) <=> n = m BY <1>1, <1>4 DEF LastChunk
  <1> QED BY <1>1, <1>4, <1>7, <1>8 DEF ProcessRead

LEMMA ReadGoesOn ==
    ASSUME NEW lba \in Nat, NEW n \in Nat \ {0}, NEW c \in CommandType,
           csw \in [tag : {0, 1}, residue : 0 .. W - 1, status : {"PASSED", "FAILED"}],
           cmd' = c, phase' = "dataIn", c.op \in ReadOps, Accepted(c), lba + n = c.lba + c.n,
           outEp'.resp = "NAK", moved' \in Nat,
           (lba - c.lba) * BlkSize = moved', moved' + n * BlkSize = c.dlen,
           ProcessRead(lba, n, c.tag, n * BlkSize)
    PROVE  ReadUnderway' /\ MediaInRange'
  <1>1. c.dlen \in Nat /\ c.dlen < W /\ c.lba \in Nat /\ c.n \in Nat
    BY SizesAssumption DEF CommandType
  <1>2. n * BlkSize \in Nat /\ n * BlkSize < W
    <2>1. n * BlkSize \in Nat BY Spread
    <2> QED BY <1>1, <2>1, SizesAssumption
  <1>3. lba + n <= BlkNbr BY DEF Accepted
  <1>4. PICK m \in 1 .. n :
          /\ block' = lba /\ startSector' = lba + m /\ nsectors' = n - m
          /\ csw' = [csw EXCEPT !.tag = c.tag, !.residue = (n - m) * BlkSize]
          /\ stage' = IF n = m THEN "SEND_CSW" ELSE "DATA_IN"
          /\ inEp' = Start("block", m * BlkSize)
          /\ m * BlkSize \in Packets /\ m * BlkSize <= n * BlkSize
    BY <1>2, <1>3, ProcessReadEffect
  <1>5. (n - m) * BlkSize = n * BlkSize - m * BlkSize /\ m * BlkSize \in Nat BY <1>4, Spread
  <1>6. csw'.residue = nsectors' * BlkSize /\ csw'.tag = c.tag BY <1>4
  <1>7. startSector' + nsectors' = c.lba + c.n BY <1>4
  <1>8. inEp'.resp = "ACK" /\ inEp'.buf = "block" /\ inEp'.len = m * BlkSize /\ inEp'.actual = 0
    BY <1>4 DEF Start
  <1>9. (startSector' - block') * BlkSize = inEp'.actual + inEp'.len
    <2>1. startSector' - block' = m BY <1>4
    <2> QED BY <1>5, <1>8, <2>1
  <1>10. (block' - c.lba) * BlkSize + inEp'.actual = moved' BY <1>4, <1>8
  <1>11. moved' + inEp'.len + csw'.residue = c.dlen BY <1>2, <1>4, <1>5, <1>6, <1>8
  <1>12. stage' \in {"DATA_IN", "SEND_CSW"} /\ (stage' = "SEND_CSW" <=> nsectors' = 0) BY <1>4
  <1>13. ReadUnderway'
    BY <1>4, <1>6, <1>7, <1>8, <1>9, <1>10, <1>11, <1>12 DEF ReadUnderway, Remaining, Accepted
  <1>14. MediaInRange'
    <2>1. startSector' + nsectors' <= BlkNbr /\ block' < BlkNbr BY <1>3, <1>4, SizesAssumption
    <2> QED BY <2>1 DEF MediaInRange
  <1> QED BY <1>13, <1>14

LEMMA ReadStep ==
    ASSUME TypeInv, Resting, MediaInRange, TransferFits,
           NEW c \in CommandType, OrderlyCommand(c), Commanded(c), c.op \in ReadOps,
           NEW o \in EpType, o.resp = "NAK", o.actual <= Room(o.buf),
           Read(c, o, c.n)
    PROVE  ServiceInv'
  <1>2. /\ c.lba \in Nat /\ c.n \in Nat /\ c.dlen \in Nat /\ W \in Nat /\ c.lba + c.n < W
        /\ c.n * BlkSize < W /\ c.op \notin WriteOps
    BY SizesAssumption DEF OrderlyCommand, CommandType, ReadOps, WriteOps
  <1>3. OutOfRange(c, c.n) <=> c.lba + c.n > BlkNbr
    <2>1. (c.lba + c.n) % W = c.lba + c.n BY <1>2
    <2> QED BY <2>1 DEF OutOfRange, Add
  <1>4. Bytes(c.n) = c.n * BlkSize /\ c.n * BlkSize \in Nat BY <1>2, BytesFacts
  <1>5. phase' # "dataOut"
    BY <1>2, PhaseFacts DEF OrderlyCommand
  <1>6. CASE Reject(c, "invalidCommand") BY <1>5, <1>6, RejectRefuses
  <1>7. CASE \E k : RejectTransfer(c, c.n, k, stage) BY <1>5, <1>7, RejectRefuses
  <1>8. ASSUME c.dir = "in", c.dlen # 0, ~OutOfRange(c, c.n), c.dlen = Bytes(c.n),
               ProcessRead(c.lba, c.n, c.tag, c.dlen), outEp' = o
        PROVE  ServiceInv'
    <2>1. Accepted(c) BY <1>2, <1>3, <1>4, <1>8, SizesAssumption DEF Accepted
    <2>2. c.n # 0 BY <1>4, <1>8, Spread
    <2>3. cmd' = c /\ moved' = 0 /\ phase' = "dataIn" BY <1>8, PhaseFacts DEF Commanded
    <2>4. (c.lba - c.lba) * BlkSize = 0 /\ 0 + c.n * BlkSize = c.dlen
      <3>1. c.lba - c.lba = 0 BY <1>2
      <3>2. (c.lba - c.lba) * BlkSize = 0 BY <3>1, Spread
      <3> QED BY <1>4, <1>8, <3>2
    <2>5. csw \in [tag : {0, 1}, residue : 0 .. W - 1, status : {"PASSED", "FAILED"}]
      BY DEF TypeInv, TypeOK
    <2>6. ProcessRead(c.lba, c.n, c.tag, c.n * BlkSize) BY <1>4, <1>8
    <2>7. ReadUnderway' /\ MediaInRange'
      BY <1>2, <1>8, <2>1, <2>2, <2>3, <2>4, <2>5, <2>6, ReadGoesOn
    <2>8. TransferFits' BY <1>8 DEF TransferFits
    <2> QED BY <2>7, <2>8, PhaseFacts, ServiceStep
  <1>9. ASSUME ~OutOfRange(c, c.n), "read" \in MediaFaults,
               RejectTransfer(c, c.n, "readError", "DATA_IN")
        PROVE  ServiceInv'
    <2>1. /\ outEp' = ReadCbw /\ inEp'.resp = "STALL" /\ stage' = "DATA_IN" /\ block' = block
          /\ startSector' = c.lba /\ nsectors' = c.n
      BY <1>9 DEF RejectTransfer, BotAbort, TypeInv, TypeOK, EpType
    <2>2. ReadFailed' BY <1>5, <1>9, <2>1 DEF ReadFailed
    <2>3. MediaInRange' BY <1>2, <1>3, <1>9, <2>1, SizesAssumption DEF MediaInRange
    <2>4. TransferFits' BY <2>1, EndpointFacts DEF TransferFits
    <2> QED BY <2>2, <2>3, <2>4, PhaseFacts, ServiceStep
  <1> QED BY <1>6, <1>7, <1>8, <1>9 DEF Read

LEMMA WriteStep ==
    ASSUME TypeInv, Resting, inEp.resp # "ACK", MediaInRange, TransferFits,
           NEW c \in CommandType, OrderlyCommand(c), Commanded(c), c.op \in WriteOps, Write(c, c.n)
    PROVE  ServiceInv'
  <1>2. /\ c.lba \in Nat /\ c.n \in Nat /\ c.dlen \in Nat /\ W \in Nat /\ c.lba + c.n < W
        /\ c.n * BlkSize < W
    BY SizesAssumption DEF OrderlyCommand, CommandType
  <1>3. OutOfRange(c, c.n) <=> c.lba + c.n > BlkNbr
    <2>1. (c.lba + c.n) % W = c.lba + c.n BY <1>2
    <2> QED BY <2>1 DEF OutOfRange, Add
  <1>4. Bytes(c.n) = c.n * BlkSize /\ c.n * BlkSize \in Nat BY <1>2, BytesFacts
  <1>5. CASE c.dir # "out" \/ c.dlen = 0
    <2>1. Reject(c, "invalidCommand") BY <1>5 DEF Write
    <2>2. phase' # "dataOut" BY <1>5, PhaseFacts
    <2> QED BY <2>1, <2>2, RejectRefuses
  <1>6. CASE c.dir = "out" /\ c.dlen # 0
    <2>1. Accepted(c) BY <1>6 DEF OrderlyCommand, Accepted
    <2>2. ~OutOfRange(c, c.n) /\ c.dlen = Bytes(c.n)
      BY <1>2, <1>3, <1>4, <2>1, SizesAssumption DEF Accepted
    <2>3. /\ startSector' = c.lba /\ nsectors' = c.n
          /\ csw' = [csw EXCEPT !.tag = c.tag, !.residue = c.dlen]
          /\ stage' = "DATA_OUT" /\ outEp' = Start("block", ChunkLen(c.n))
          /\ UNCHANGED <<sense, inEp, block>>
      BY <1>6, <2>2 DEF Write
    <2>4. c.n # 0 BY <1>4, <1>6, <2>2, Spread
    <2>5. ChunkLen(c.n) \in Packets /\ ChunkLen(c.n) \in Nat BY <1>2, <2>4, ChunkFacts, PacketStep
    <2>6. cmd' = c /\ moved' = 0 /\ phase' = "dataOut" BY <1>6, PhaseFacts DEF Commanded
    <2>7. csw'.tag = c.tag /\ csw'.residue = c.n * BlkSize
      BY <1>4, <2>2, <2>3 DEF TypeInv, TypeOK
    <2>8. /\ outEp'.resp = "ACK" /\ outEp'.buf = "block"
          /\ outEp'.len = ChunkLen(c.n) /\ outEp'.actual = 0
      BY <2>3 DEF Start
    <2>9. (c.lba - c.lba) * BlkSize = 0
      <3>1. c.lba - c.lba = 0 BY <1>2
      <3> QED BY <3>1, Spread
    <2>10. WriteUnderway'
      BY <1>2, <2>1, <2>3, <2>4, <2>5, <2>6, <2>7, <2>8, <2>9
      DEF WriteUnderway, Remaining, Accepted
    <2>11. MediaInRange' BY <2>1, <2>3 DEF MediaInRange, Accepted
    <2>12. TransferFits' BY <2>8, EndpointFacts DEF TransferFits
    <2> QED BY <2>10, <2>11, <2>12, PhaseFacts, ServiceStep
  <1> QED BY <1>5, <1>6 DEF CommandType

LEMMA DispatchStep ==
    ASSUME TypeInv, Resting, inEp.resp # "ACK", MediaInRange, TransferFits,
           NEW c \in CommandType, OrderlyCommand(c), Commanded(c),
           NEW o \in EpType, o.resp = "NAK", o.actual <= Room(o.buf), Dispatch(c, o)
    PROVE  ServiceInv'
  <1>2. c.op \notin WriteOps => phase' # "dataOut" BY PhaseFacts DEF OrderlyCommand
  <1>3. c.op \in InfoOps => c.op \notin ReadOps \cup WriteOps
    BY DEF InfoOps, ReadOps, WriteOps
  <1>4. c.alloc \in Nat BY DEF CommandType
  <1>5. \A op \in InfoOps : RespLen[op] \in 0 .. Mps - 1 BY RespLenAssumption, SizesAssumption
  <1>6. c.op \in InfoOps => Least(c.alloc, RespLen[c.op]) \in 0 .. Mps - 1
    BY <1>4, <1>5, SizesAssumption DEF Least
  <1>7. ASSUME NEW k, Reject(c, k), c.op \notin WriteOps PROVE ServiceInv'
    BY <1>2, <1>7, RejectRefuses
  <1>8. ASSUME c.op \notin ReadOps \cup WriteOps, Succeed(c, o) PROVE ServiceInv'
    BY <1>2, <1>8, SuccessStep
  <1>9. ASSUME c.op \in InfoOps, NEW len \in 0 .. Mps - 1, Inform(c, o, len),
               c.op = "readCapacity10" => len = RespLen[c.op]
        PROVE  ServiceInv'
    <2>1. CASE Reject(c, "invalidCommand") BY <1>3, <1>7, <1>9, <2>1
    <2>2. CASE c.dlen # 0 /\ Reply(c, o, len) BY <1>2, <1>3, <1>9, <2>2, ReplyStep
    <2> QED BY <1>9, <2>1, <2>2 DEF Inform
  <1>10. CASE TestUnitReady(c, o) \/ StartStopUnit(c, o) \/ PreventAllow(c, o)
    <2>1. c.op \in NoDataOps /\ NoData(c, o)
      BY <1>10 DEF TestUnitReady, StartStopUnit, PreventAllow, NoDataOps
    <2>2. c.op \notin ReadOps \cup WriteOps BY <2>1 DEF NoDataOps, ReadOps, WriteOps
    <2> QED BY <1>7, <1>8, <2>1, <2>2 DEF NoData
  <1>11. CASE \/ RequestSense(c, o) \/ ModeSense6(c, o) \/ ModeSense10(c, o)
              \/ ReadFormatCapacity(c, o) \/ ReadCapacity10(c, o)
    <2>1. c.op \in InfoOps
      BY <1>11 DEF RequestSense, ModeSense6, ModeSense10, ReadFormatCapacity,
                   ReadCapacity10, InfoOps
    <2>2. \/ c.op # "readCapacity10" /\ Inform(c, o, Least(c.alloc, RespLen[c.op]))
          \/ Inform(c, o, RespLen[c.op])
      BY <1>11 DEF RequestSense, ModeSense6, ModeSense10, ReadFormatCapacity, ReadCapacity10
    <2> QED BY <1>5, <1>6, <1>9, <2>1, <2>2
  <1>12. CASE Inquiry(c, o)
    <2>1. CASE c.op = "inquiry" /\ Inform(c, o, Least(c.alloc, RespLen[c.op]))
      BY <1>6, <1>9, <2>1 DEF InfoOps
    <2>2. CASE c.op = "inquiryVpd" /\ Inform(c, o, RespLen[c.op])
      BY <1>5, <1>9, <2>2 DEF InfoOps
    <2>3. CASE /\ c.op = "inquiryBadVpd"
               /\ Reject(c, IF c.dlen = 0 THEN "invalidCommand" ELSE "invalidField")
      BY <1>7, <2>3 DEF WriteOps
    <2> QED BY <1>12, <2>1, <2>2, <2>3 DEF Inquiry
  <1>13. CASE Read10(c, o) \/ Read12(c, o)
    <2>1. c.op \in ReadOps BY <1>13 DEF Read10, Read12, ReadOps
    <2>2. c.op = "read10" => c.n % W16 = c.n
      <3>1. c.op = "read10" => c.n < W16 BY <2>1 DEF OrderlyCommand
      <3>2. c.n \in Nat /\ W16 \in Nat BY SizesAssumption DEF CommandType
      <3> QED BY <3>1, <3>2
    <2>3. Read(c, o, c.n) BY <1>13, <2>2 DEF Read10, Read12
    <2> QED BY <2>1, <2>3, ReadStep
  <1>14. CASE Write10(c) \/ Write12(c)
    <2>1. c.op \in WriteOps BY <1>14 DEF Write10, Write12, WriteOps
    <2>2. c.op = "write10" => c.n % W16 = c.n
      <3>1. c.op = "write10" => c.n < W16 BY <2>1 DEF OrderlyCommand
      <3>2. c.n \in Nat /\ W16 \in Nat BY SizesAssumption DEF CommandType
      <3> QED BY <3>1, <3>2
    <2>3. Write(c, c.n) BY <1>14, <2>2 DEF Write10, Write12
    <2> QED BY <2>1, <2>3, WriteStep
  <1>15. CASE Others(c, o)
    BY <1>7, <1>8, <1>15 DEF Others, ReadOps, WriteOps
  <1> QED BY <1>10, <1>11, <1>12, <1>13, <1>14, <1>15 DEF Dispatch

\* A CBW of n bytes arrives where the device waits for one.
LEMMA CommandArrives ==
    ASSUME TypeInv, Resting, inEp.resp # "ACK", MediaInRange, TransferFits,
           NEW c \in CommandType, OrderlyCommand(c), Commanded(c),
           NEW n, n = (IF c.form = "short" THEN CbwLen - 1 ELSE CbwLen), OutInterrupt(c, n)
    PROVE  ServiceInv'
  <1> DEFINE o == Receive(ReadCbw, n)
  <1>1. stage = "READ_CBW" /\ outEp = ReadCbw BY DEF Resting
  <1>2. n \in Nat /\ n < Mps /\ n <= CbwLen BY SizesAssumption
  <1>3. ReceiveDone(outEp, n) BY <1>2 DEF ReceiveDone
  <1>4. BulkOut(c, o, n) BY <1>1, <1>2, <1>3, EndpointFacts DEF OutInterrupt
  <1>5. CbwDecode(c, o, n) BY <1>1, <1>4 DEF BulkOut
  <1>6. o \in EpType BY <1>2, ReadCbwType, ReceiveType
  <1>7. o.resp = "NAK" /\ o.actual = n /\ o.buf = "cbw" BY <1>2, EndpointFacts DEF Receive
  <1>8. o.actual <= Room(o.buf) BY <1>2, <1>7, EndpointFacts
  <1> HIDE DEF o
  <1>9. c.form # "good" => phase' # "dataOut" BY PhaseFacts DEF OrderlyCommand
  <1>10. n # CbwLen => c.form # "good" OBVIOUS
  <1>11. CASE n # CbwLen
    <2>1. BotAbort /\ UNCHANGED <<stage, block>> /\ phase' # "dataOut"
      BY <1>5, <1>9, <1>10, <1>11 DEF CbwDecode
    <2>2. Refused' /\ MediaInRange' /\ TransferFits' BY <1>1, <2>1, AbortRefuses
    <2> QED BY <2>2, PhaseFacts, ServiceStep
  <1>12. CASE n = CbwLen /\ c.form # "good"
    <2>1. Reject(c, "invalidCommand") BY <1>5, <1>12 DEF CbwDecode
    <2> QED BY <1>9, <1>12, <2>1, RejectRefuses
  <1>13. CASE n = CbwLen /\ c.form = "good"
    <2>1. Dispatch(c, o) BY <1>5, <1>13 DEF CbwDecode
    <2> QED BY <1>6, <1>7, <1>8, <2>1, DispatchStep
  <1> QED BY <1>11, <1>12, <1>13

LEMMA CommandStep ==
    ASSUME OrderlyCommands, TypeInv, ServiceInv, NEW c \in Commands, SendCommand(c)
    PROVE  ServiceInv'
  <1> DEFINE n == IF c.form = "short" THEN CbwLen - 1 ELSE CbwLen
  <1>1. c \in CommandType /\ OrderlyCommand(c) BY HostAssumption DEF OrderlyCommands
  <1>2. phase = "idle" BY DEF SendCommand
  <1>3. Resting /\ inEp.resp # "ACK" /\ MediaInRange /\ TransferFits
    BY <1>2 DEF ServiceInv, Rest, Always
  <1>4. cbw' = c BY <1>3, EndpointFacts DEF SendCommand, Resting
  <1>5. Commanded(c) /\ OutInterrupt(c, n) BY <1>4 DEF Commanded, SendCommand
  <1> QED BY <1>1, <1>3, <1>5, CommandArrives

-----------------------------------------------------------------------------
(***************************************************************************)
(* The data of a write.                                                    *)
(***************************************************************************)
\* The facts about a write that its three outcomes need.
LEMMA WriteFacts ==
    ASSUME TypeInv, WriteUnderway
    PROVE  \E m \in 1 .. nsectors :
             /\ outEp.actual + outEp.len = m * BlkSize
             /\ (m * BlkSize) \div BlkSize = m /\ m * BlkSize \in Nat /\ m * BlkSize <= BufSize
             /\ Sub(nsectors, m) = nsectors - m /\ Add(startSector, m) = startSector + m
             /\ (nsectors - m) * BlkSize = nsectors * BlkSize - m * BlkSize
             /\ (nsectors - m) * BlkSize \in Nat /\ nsectors * BlkSize < W
             /\ nsectors # m => (nsectors - m) * BlkSize > 0
             /\ Sub(csw.residue, m * BlkSize) = (nsectors - m) * BlkSize
             /\ (startSector + m - cmd.lba) * BlkSize = (startSector - cmd.lba) * BlkSize + m * BlkSize
  <1>1. /\ nsectors \in Nat \ {0} /\ startSector \in Nat /\ W \in Nat /\ nsectors < W
        /\ csw.residue \in Nat /\ csw.residue < W /\ cmd.lba \in Nat /\ cmd.n \in Nat
    BY SizesAssumption DEF TypeInv, TypeOK, WriteUnderway, CommandType
  <1>2. startSector + nsectors <= BlkNbr /\ csw.residue = nsectors * BlkSize
    BY DEF WriteUnderway, Remaining, Accepted
  <1>3. PICK m \in 1 .. nsectors :
          /\ ChunkLen(nsectors) = m * BlkSize /\ ChunkLen(nsectors) \div BlkSize = m
          /\ ChunkLen(nsectors) \in Packets /\ ChunkLen(nsectors) <= BufSize
          /\ ChunkLen(nsectors) <= nsectors * BlkSize
    BY <1>1, <1>2, ChunkFacts
  <1>4. m \in Nat /\ nsectors - m \in Nat BY <1>1, <1>3
  <1>5. m * BlkSize \in Nat /\ (nsectors - m) * BlkSize \in Nat BY <1>4, Spread
  <1>6. (nsectors - m) * BlkSize = nsectors * BlkSize - m * BlkSize BY <1>1, <1>4, Spread
  <1>7. Sub(nsectors, m) = nsectors - m /\ Add(startSector, m) = startSector + m
    <2>1. nsectors - m \in 0 .. W - 1 /\ startSector + m \in 0 .. W - 1
      BY <1>1, <1>2, <1>3, SizesAssumption
    <2> QED BY <1>1, <2>1 DEF Sub, Add
  <1>8. Sub(csw.residue, m * BlkSize) = (nsectors - m) * BlkSize
    BY <1>1, <1>2, <1>3, <1>5, <1>6 DEF Sub
  <1>9. nsectors # m => (nsectors - m) * BlkSize > 0
    <2>1. nsectors # m => nsectors - m \in Nat \ {0} BY <1>1, <1>4
    <2>2. nsectors # m => (nsectors - m) * BlkSize >= BlkSize BY <2>1, Spread
    <2> QED BY <1>5, <2>2, SizesAssumption
  <1>10. (startSector + m - cmd.lba) * BlkSize = (startSector - cmd.lba) * BlkSize + m * BlkSize
    <2>1. startSector + m - cmd.lba = (startSector - cmd.lba) + m BY <1>1, <1>4
    <2>2. startSector - cmd.lba \in Int BY <1>1
    <2>3. \A x \in Int : (x + m) * BlkSize = x * BlkSize + m * BlkSize BY <1>4, Spread
    <2>4. ((startSector - cmd.lba) + m) * BlkSize = (startSector - cmd.lba) * BlkSize + m * BlkSize
      BY <2>2, <2>3
    <2> QED BY <2>1, <2>4
  <1> QED BY <1>1, <1>2, <1>3, <1>5, <1>6, <1>7, <1>8, <1>9, <1>10 DEF WriteUnderway

LEMMA DataOutStep ==
    ASSUME TypeInv, ServiceInv, SendData
    PROVE  ServiceInv' /\ startSector <= startSector'
  <1>1. phase = "dataOut" /\ outEp.resp = "ACK" /\ Working BY DEF SendData, Working
  <1>2. WriteUnderway /\ cbw = cmd
    BY <1>1 DEF ServiceInv, Service, InStep, Refused, ReadUnderway, ReplyUnderway, ReadFailed, StatusOffered
  <1>3. MediaInRange /\ TransferFits BY DEF ServiceInv, Always
  <1> DEFINE L == outEp.len
             A == outEp.actual
             o == Receive(outEp, Mps)
  <1>4. PICK m \in 1 .. nsectors :
             /\ A + L = m * BlkSize
             /\ (m * BlkSize) \div BlkSize = m /\ m * BlkSize \in Nat /\ m * BlkSize <= BufSize
             /\ Sub(nsectors, m) = nsectors - m /\ Add(startSector, m) = startSector + m
             /\ (nsectors - m) * BlkSize = nsectors * BlkSize - m * BlkSize
             /\ (nsectors - m) * BlkSize \in Nat /\ nsectors * BlkSize < W
             /\ nsectors # m => (nsectors - m) * BlkSize > 0
             /\ Sub(csw.residue, m * BlkSize) = (nsectors - m) * BlkSize
             /\ (startSector + m - cmd.lba) * BlkSize = (startSector - cmd.lba) * BlkSize + m * BlkSize
    BY <1>2, WriteFacts
  <1>5. /\ nsectors \in Nat /\ startSector \in Nat /\ W \in Nat /\ csw.residue \in Nat
        /\ cmd.lba \in Nat /\ cmd.n \in Nat /\ cmd.dlen \in Nat /\ moved \in Nat
        /\ L \in Nat /\ A \in Nat /\ L < W /\ Mps \in Nat \ {0} /\ Mps < W
    BY SizesAssumption DEF TypeInv, TypeOK, CommandType, EpType
  <1>6. /\ cmd.op \in WriteOps /\ Accepted(cmd) /\ startSector + nsectors = cmd.lba + cmd.n
        /\ csw.residue = nsectors * BlkSize /\ csw.tag = cmd.tag /\ stage = "DATA_OUT"
        /\ outEp.buf = "block" /\ inEp.resp # "ACK" /\ L \in Packets /\ nsectors # 0
        /\ cmd.lba <= startSector
        /\ (startSector - cmd.lba) * BlkSize + A = moved
        /\ moved + csw.residue = cmd.dlen + A
    BY <1>2 DEF WriteUnderway, Remaining
  <1>7. L >= Mps /\ (L > Mps => L - Mps \in Packets) /\ (~(L > Mps) => L = Mps) BY <1>6, PacketStep
  <1> HIDE DEF L, A
  <1>8. cmd.dlen - moved = (nsectors - m) * BlkSize + L BY <1>4, <1>5, <1>6
  <1>9. Least(cmd.dlen - moved, Mps) = Mps BY <1>4, <1>5, <1>7, <1>8 DEF Least
  <1>10. /\ moved' = moved + Mps /\ OutInterrupt(cbw, Mps) /\ UNCHANGED <<cbw, cmd>>
         /\ phase' = IF moved + Mps = cmd.dlen THEN "status" ELSE "dataOut"
    BY <1>9 DEF SendData
  <1>11. Sub(L, Mps) = L - Mps BY <1>5, <1>7 DEF Sub
  <1>12. /\ o.resp = "NAK" /\ o.buf = "block" /\ o.actual = A + Mps /\ o.len = L - Mps
         /\ o \in EpType
    BY <1>5, <1>6, <1>11, ReceiveType DEF Receive, TypeInv, TypeOK, EpType, L, A
  <1>13. Working' /\ cbw' = cmd' BY <1>2, <1>10 DEF Working
  <1>14. ReceiveDone(outEp, Mps) <=> L = Mps BY <1>5, <1>12 DEF ReceiveDone
  <1>15. CASE L # Mps
    <2>1. /\ outEp' = [o EXCEPT !.resp = "ACK"]
          /\ UNCHANGED <<stage, csw, sense, startSector, nsectors, block, inEp>>
      BY <1>10, <1>14, <1>15 DEF OutInterrupt
    <2>2. /\ outEp'.resp = "ACK" /\ outEp'.buf = "block"
          /\ outEp'.actual = A + Mps /\ outEp'.len = L - Mps
      BY <1>12, <2>1 DEF EpType
    <2>3. phase' = "dataOut" BY <1>4, <1>5, <1>7, <1>8, <1>10, <1>15
    <2>4. outEp'.actual + outEp'.len = ChunkLen(nsectors)
      BY <1>2, <1>5, <2>2 DEF WriteUnderway, L, A
    <2>5. (startSector - cmd.lba) * BlkSize + outEp'.actual = moved'
      <3>1. startSector - cmd.lba \in Nat BY <1>5, <1>6
      <3>2. (startSector - cmd.lba) * BlkSize \in Nat BY <3>1, Spread
      <3> QED BY <1>5, <1>6, <1>10, <2>2, <3>2
    <2>6. moved' + csw'.residue = cmd'.dlen + outEp'.actual BY <1>5, <1>6, <1>10, <2>1, <2>2
    <2>7. WriteUnderway'
      BY <1>6, <1>7, <1>10, <1>15, <2>1, <2>2, <2>3, <2>4, <2>5, <2>6, <1>5
      DEF WriteUnderway, Remaining, Accepted
    <2>8. MediaInRange' BY <1>3, <2>1 DEF MediaInRange
    <2>9. A + Mps <= BufSize BY <1>4, <1>5, <1>7, SizesAssumption
    <2>10. TransferFits' BY <2>2, <2>9, EndpointFacts DEF TransferFits
    <2>11. startSector <= startSector' BY <1>5, <2>1
    <2> QED BY <1>13, <2>7, <2>8, <2>10, <2>11, ServiceStep
  <1>16. CASE L = Mps
    <2>1. outEp.actual + Mps = m * BlkSize /\ A + Mps = m * BlkSize BY <1>4, <1>16 DEF A
    <2>2. BulkOut(cbw, o, m * BlkSize) BY <1>10, <1>14, <1>16, <2>1 DEF OutInterrupt
    <2>3. ProcessWrite(o, m * BlkSize)
      BY <1>2, <1>6, <2>2 DEF BulkOut
    <2>4. o.actual <= Room(o.buf) BY <1>4, <1>12, <2>1, EndpointFacts
    <2>5. moved' = (startSector - cmd.lba) * BlkSize + m * BlkSize
      <3>1. startSector - cmd.lba \in Nat BY <1>5, <1>6
      <3>2. (startSector - cmd.lba) * BlkSize \in Nat BY <3>1, Spread
      <3> QED BY <1>4, <1>5, <1>6, <1>10, <2>1, <3>2
    <2>6. moved' + (nsectors - m) * BlkSize = cmd.dlen BY <1>4, <1>5, <1>8, <1>10, <1>16
    <2>7. ASSUME startSector' = startSector + m, nsectors' = nsectors - m, UNCHANGED block,
                 nsectors = m,
                 SendCsw(csw.tag, (nsectors - m) * BlkSize, "PASSED"), outEp' = o
          PROVE  ServiceInv' /\ startSector <= startSector'
      <3>1. (nsectors - m) * BlkSize = 0
        <4>1. nsectors - m = 0 BY <1>5, <2>7
        <4> QED BY <4>1, Spread
      <3>2. /\ csw' = [tag |-> csw.tag, residue |-> 0, status |-> "PASSED"]
            /\ stage' = "WAIT_CSW" /\ inEp' = Start("csw", CswLen)
        BY <2>7, <3>1 DEF SendCsw
      <3>3. moved' = cmd'.dlen /\ moved' \in Nat BY <1>5, <1>10, <2>6, <3>1
      <3>4. startSector' = cmd'.lba + cmd'.n /\ nsectors' = 0 BY <1>5, <1>6, <1>10, <2>7
      <3>5. StatusTrue' BY <1>6, <1>10, <3>2, <3>3, <3>4 DEF StatusTrue
      <3>6. phase' = "status" BY <1>10, <3>3
      <3>7. StatusOffered' BY <1>12, <2>7, <3>2, <3>5, <3>6 DEF StatusOffered
      <3>8. MediaInRange' BY <1>3, <2>7, <3>2 DEF MediaInRange
      <3>9. TransferFits' BY <2>4, <2>7 DEF TransferFits
      <3>10. startSector <= startSector' BY <1>5, <2>7
      <3> QED BY <1>13, <3>7, <3>8, <3>9, <3>10, ServiceStep
    <2>8. ASSUME startSector' = startSector + m, nsectors' = nsectors - m, UNCHANGED block,
                 nsectors # m, csw' = [csw EXCEPT !.residue = (nsectors - m) * BlkSize],
                 outEp' = Start("block", ChunkLen(nsectors - m)), UNCHANGED <<stage, inEp>>
          PROVE  ServiceInv' /\ startSector <= startSector'
      <3>1. nsectors - m \in Nat \ {0} BY <1>5, <2>8
      <3>2. (nsectors - m) * BlkSize < W BY <1>4, <1>5, <1>6
      <3>3. ChunkLen(nsectors - m) \in Packets /\ ChunkLen(nsectors - m) \in Nat
        BY <3>1, <3>2, ChunkFacts, PacketStep
      <3>4. /\ outEp'.resp = "ACK" /\ outEp'.buf = "block"
            /\ outEp'.len = ChunkLen(nsectors - m) /\ outEp'.actual = 0
        BY <2>8 DEF Start
      <3>5. moved' # cmd.dlen BY <1>4, <1>5, <1>10, <2>6, <2>8
      <3>6. phase' = "dataOut" BY <1>10, <3>5
      <3>7. csw'.residue = (nsectors - m) * BlkSize /\ csw'.tag = csw.tag
        BY <2>8 DEF TypeInv, TypeOK
      <3>8. Remaining'
        <4>1. startSector' + nsectors' = cmd'.lba + cmd'.n BY <1>5, <1>6, <1>10, <2>8, <1>4
        <4> QED BY <1>6, <1>10, <2>8, <3>7, <4>1 DEF Remaining
      <3>9. (startSector' - cmd'.lba) * BlkSize + outEp'.actual = moved'
        BY <1>4, <1>5, <1>10, <2>5, <2>8, <3>4
      <3>10. moved' + csw'.residue = cmd'.dlen + outEp'.actual
        BY <1>4, <1>5, <1>10, <2>6, <3>4, <3>7
      <3>11. outEp'.actual + outEp'.len = ChunkLen(nsectors') /\ nsectors' # 0
             /\ cmd'.lba <= startSector'
        BY <1>5, <1>6, <1>10, <2>8, <3>1, <3>3, <3>4
      <3>12. WriteUnderway'
        BY <1>6, <1>10, <2>8, <3>3, <3>4, <3>6, <3>8, <3>9, <3>10, <3>11 DEF WriteUnderway, Accepted
      <3>13. MediaInRange'
        <4>1. startSector' + nsectors' = startSector + nsectors BY <1>5, <2>8
        <4>2. stage' = "DATA_OUT" /\ stage = "DATA_OUT" BY <1>6, <2>8
        <4> QED BY <1>3, <2>8, <4>1, <4>2 DEF MediaInRange
      <3>14. TransferFits' BY <3>4, EndpointFacts DEF TransferFits
      <3>15. startSector <= startSector' BY <1>5, <2>8
      <3> QED BY <1>13, <3>12, <3>13, <3>14, <3>15, ServiceStep
    <2>9. ASSUME "write" \in MediaFaults, SendCsw(csw.tag, csw.residue, "FAILED"), outEp' = o,
                 UNCHANGED <<startSector, nsectors, block>>
          PROVE  ServiceInv' /\ startSector <= startSector'
      <3>1. /\ csw' = [tag |-> csw.tag, residue |-> csw.residue, status |-> "FAILED"]
            /\ stage' = "WAIT_CSW" /\ inEp' = Start("csw", CswLen)
        BY <2>9 DEF SendCsw
      <3>2. csw.residue + moved' >= cmd.dlen BY <1>5, <1>6, <1>10
      <3>3. csw.residue <= cmd.dlen
        <4>1. startSector - cmd.lba \in Nat BY <1>5, <1>6
        <4>2. (startSector - cmd.lba) * BlkSize \in Nat BY <4>1, Spread
        <4> QED BY <1>5, <1>6, <4>2
      <3>4. StatusTrue' BY <1>6, <1>10, <3>1, <3>2, <3>3 DEF StatusTrue
      <3>5. StatusOffered' BY <1>12, <2>9, <3>1, <3>4 DEF StatusOffered
      <3>6. MediaInRange' BY <1>3, <2>9, <3>1 DEF MediaInRange
      <3>7. TransferFits' BY <2>4, <2>9 DEF TransferFits
      <3>8. startSector <= startSector' BY <1>5, <2>9
      <3> QED BY <1>13, <3>5, <3>6, <3>7, <3>8, ServiceStep
    <2> HIDE DEF o
    <2>10. LastChunk(Sub(nsectors, m)) <=> nsectors = m BY <1>4, <1>5 DEF LastChunk
    <2> QED BY <1>4, <2>3, <2>7, <2>8, <2>9, <2>10 DEF ProcessWrite
  <1> QED BY <1>15, <1>16

-----------------------------------------------------------------------------
(***************************************************************************)
(* The data of a read or a reply, and the status.                          *)
(***************************************************************************)
LEMMA ReadPacketStep ==
    ASSUME TypeInv, ServiceInv, ReadUnderway, cbw = cmd, FetchData
    PROVE  ServiceInv'
  <1> DEFINE L == inEp.len
             A == inEp.actual
  <1>1. /\ nsectors \in Nat /\ startSector \in Nat /\ W \in Nat /\ csw.residue \in Nat
        /\ cmd.lba \in Nat /\ cmd.n \in Nat /\ cmd.dlen \in Nat /\ moved \in Nat /\ block \in Nat
        /\ L \in Nat /\ A \in Nat /\ L < W /\ Mps \in Nat \ {0} /\ Mps < W
        /\ csw \in [tag : {0, 1}, residue : 0 .. W - 1, status : {"PASSED", "FAILED"}]
        /\ cmd \in CommandType /\ inEp \in EpType
    BY SizesAssumption DEF TypeInv, TypeOK, CommandType, EpType
  <1>2. /\ cmd.op \in ReadOps /\ Accepted(cmd) /\ startSector + nsectors = cmd.lba + cmd.n
        /\ csw.residue = nsectors * BlkSize /\ csw.tag = cmd.tag
        /\ stage \in {"DATA_IN", "SEND_CSW"} /\ (stage = "SEND_CSW" <=> nsectors = 0)
        /\ phase = "dataIn" /\ inEp.resp = "ACK" /\ inEp.buf = "block" /\ L \in Packets
        /\ outEp.resp = "NAK"
        /\ (startSector - block) * BlkSize = A + L
        /\ (block - cmd.lba) * BlkSize + A = moved
        /\ moved + L + csw.residue = cmd.dlen
    BY DEF ReadUnderway, Remaining
  <1>3. L >= Mps /\ (L > Mps => L - Mps \in Packets) /\ (~(L > Mps) => L = Mps) BY <1>2, PacketStep
  <1>4. PacketLen(inEp) = Mps BY <1>1, <1>3 DEF PacketLen, Least
  <1>5. MediaInRange /\ TransferFits BY DEF ServiceInv, Always
  <1> HIDE DEF L, A
  <1>6. /\ moved' = moved + Mps /\ InInterrupt /\ UNCHANGED <<cbw, cmd>>
        /\ phase' = IF moved + Mps >= cmd.dlen THEN "status" ELSE "dataIn"
    BY <1>1, <1>4 DEF FetchData
  <1>7. Working' /\ cbw' = cmd' BY <1>6 DEF Working
  <1>8. TransmitDone(inEp) <=> L = Mps BY <1>1, <1>3 DEF TransmitDone, L
  <1>9. CASE L # Mps
    <2>1. L > Mps BY <1>1, <1>3, <1>9
    <2>2. /\ inEp' = [inEp EXCEPT !.len = L - Mps, !.actual = A + Mps]
          /\ UNCHANGED <<stage, csw, sense, startSector, nsectors, block, outEp>>
      BY <1>6, <1>8, <1>9, <2>1 DEF InInterrupt, Transmit, L, A
    <2>3. /\ inEp'.resp = "ACK" /\ inEp'.buf = "block" /\ inEp'.len = L - Mps
          /\ inEp'.actual = A + Mps
      BY <1>1, <1>2, <2>2 DEF EpType
    <2>4. phase' = "dataIn" BY <1>1, <1>2, <1>6, <2>1
    <2>5. (startSector' - block') * BlkSize = inEp'.actual + inEp'.len
      BY <1>1, <1>2, <2>2, <2>3
    <2>6. (block' - cmd'.lba) * BlkSize + inEp'.actual = moved'
      <3>1. block - cmd.lba \in Int BY <1>1
      <3>2. (block - cmd.lba) * BlkSize \in Int BY <3>1, SizesAssumption
      <3> QED BY <1>1, <1>2, <1>6, <2>2, <2>3, <3>2
    <2>7. moved' + inEp'.len + csw'.residue = cmd'.dlen BY <1>1, <1>2, <1>6, <2>2, <2>3
    <2>8. ReadUnderway'
      BY <1>2, <1>3, <1>6, <2>1, <2>2, <2>3, <2>4, <2>5, <2>6, <2>7
      DEF ReadUnderway, Remaining, Accepted
    <2>9. MediaInRange' /\ TransferFits' BY <1>5, <2>2 DEF MediaInRange, TransferFits
    <2> QED BY <1>7, <2>8, <2>9, ServiceStep
  <1>10. CASE L = Mps
    <2>1. BulkIn(Transmit(inEp)) BY <1>6, <1>8, <1>10 DEF InInterrupt
    <2>2. moved' + csw.residue = cmd.dlen /\ moved' \in Nat BY <1>1, <1>2, <1>6, <1>10
    <2>3. CASE stage = "DATA_IN"
      <3>1. nsectors # 0 BY <1>2, <2>3
      <3>2. nsectors * BlkSize \in Nat /\ nsectors * BlkSize >= BlkSize
        <4>1. nsectors \in Nat \ {0} BY <1>1, <3>1
        <4> QED BY <4>1, Spread
      <3>3. phase' = "dataIn" BY <1>1, <1>2, <1>6, <2>2, <3>2, SizesAssumption
      <3>4. (startSector - cmd.lba) * BlkSize = moved'
        <4>1. startSector - cmd.lba = (startSector - block) + (block - cmd.lba) BY <1>1
        <4>2. startSector - block \in Int /\ block - cmd.lba \in Int BY <1>1
        <4>3. ((startSector - block) + (block - cmd.lba)) * BlkSize
                = (startSector - block) * BlkSize + (block - cmd.lba) * BlkSize
          BY <4>2, Spread
        <4>4. (block - cmd.lba) * BlkSize \in Int BY <4>2, SizesAssumption
        <4> QED BY <1>1, <1>2, <1>6, <1>10, <4>1, <4>3, <4>4
      <3>5. CASE ProcessRead(startSector, nsectors, csw.tag, csw.residue) /\ UNCHANGED outEp
        <4>1. ProcessRead(startSector, nsectors, cmd.tag, nsectors * BlkSize) BY <1>2, <3>5
        <4>2. outEp'.resp = "NAK" /\ TransferFits' BY <1>2, <1>5, <3>5 DEF TransferFits
        <4>3. moved' + nsectors * BlkSize = cmd.dlen BY <1>2, <2>2
        <4>4. cmd' = cmd BY <1>6
        <4>5. nsectors \in Nat \ {0} BY <1>1, <3>1
        <4>6. ReadUnderway' /\ MediaInRange'
          BY <1>1, <1>2, <2>2, <3>3, <3>4, <4>1, <4>2, <4>3, <4>4, <4>5, ReadGoesOn
        <4> QED BY <1>7, <4>2, <4>6, ServiceStep
      <3>6. CASE /\ "read" \in MediaFaults /\ SendCsw(csw.tag, csw.residue, "FAILED")
                 /\ UNCHANGED <<startSector, nsectors, block, outEp>>
        <4>1. /\ csw' = [tag |-> csw.tag, residue |-> csw.residue, status |-> "FAILED"]
              /\ stage' = "WAIT_CSW" /\ inEp' = Start("csw", CswLen)
          BY <3>6 DEF SendCsw
        <4>2. StatusTrue' BY <1>1, <1>2, <1>6, <2>2, <4>1 DEF StatusTrue
        <4>3. StatusOffered' BY <1>2, <3>3, <3>6, <4>1, <4>2 DEF StatusOffered
        <4>4. MediaInRange' /\ TransferFits' BY <1>5, <3>6, <4>1 DEF MediaInRange, TransferFits
        <4> QED BY <1>7, <4>3, <4>4, ServiceStep
      <3> QED BY <1>2, <2>1, <2>3, <3>5, <3>6 DEF BulkIn
    <2>4. CASE stage = "SEND_CSW"
      <3>1. SendCsw(csw.tag, csw.residue, "PASSED") /\ UNCHANGED <<sense, startSector, nsectors, block, outEp>>
        BY <2>1, <2>4 DEF BulkIn
      <3>2. /\ csw' = [tag |-> csw.tag, residue |-> csw.residue, status |-> "PASSED"]
            /\ stage' = "WAIT_CSW" /\ inEp' = Start("csw", CswLen)
        BY <3>1 DEF SendCsw
      <3>3. nsectors = 0 /\ nsectors * BlkSize = 0
        <4>1. nsectors = 0 BY <1>2, <2>4
        <4> QED BY <4>1, Spread
      <3>4. moved' = cmd.dlen /\ startSector = cmd.lba + cmd.n BY <1>1, <1>2, <2>2, <3>3
      <3>5. StatusTrue' BY <1>1, <1>2, <1>6, <2>2, <3>1, <3>2, <3>3, <3>4 DEF StatusTrue
      <3>6. phase' = "status" BY <1>1, <1>6, <3>4
      <3>7. StatusOffered' BY <1>2, <3>1, <3>2, <3>5, <3>6 DEF StatusOffered
      <3>8. MediaInRange' /\ TransferFits' BY <1>5, <3>1, <3>2 DEF MediaInRange, TransferFits
      <3> QED BY <1>7, <3>7, <3>8, ServiceStep
    <2> QED BY <1>2, <2>3, <2>4
  <1> QED BY <1>9, <1>10

LEMMA ReplyPacketStep ==
    ASSUME TypeInv, ServiceInv, ReplyUnderway, cbw = cmd, FetchData
    PROVE  ServiceInv'
  <1>1. /\ stage = "SEND_CSW" /\ phase = "dataIn" /\ cmd.op \notin ReadOps \cup WriteOps
        /\ inEp.len \in 1 .. Mps - 1 /\ outEp.resp = "NAK"
        /\ csw.tag = cmd.tag /\ csw.residue + inEp.len = cmd.dlen /\ moved = 0
    BY DEF ReplyUnderway
  <1>2. MediaInRange /\ TransferFits BY DEF ServiceInv, Always
  <1>3. PacketLen(inEp) = inEp.len /\ PacketLen(inEp) < Mps /\ TransmitDone(inEp)
    BY <1>1, SizesAssumption DEF PacketLen, Least, TransmitDone
  <1>4. /\ moved' = moved + inEp.len /\ InInterrupt /\ UNCHANGED <<cbw, cmd>> /\ phase' = "status"
    BY <1>3 DEF FetchData
  <1>5. /\ SendCsw(csw.tag, csw.residue, "PASSED")
        /\ UNCHANGED <<sense, startSector, nsectors, block, outEp>>
    BY <1>1, <1>3, <1>4 DEF InInterrupt, BulkIn
  <1>6. /\ csw' = [tag |-> csw.tag, residue |-> csw.residue, status |-> "PASSED"]
        /\ stage' = "WAIT_CSW" /\ inEp' = Start("csw", CswLen)
    BY <1>5 DEF SendCsw
  <1>7. csw.residue \in Nat BY DEF TypeInv, TypeOK
  <1>8. csw'.residue + moved' = cmd'.dlen BY <1>1, <1>4, <1>6, <1>7, SizesAssumption
  <1>9. StatusTrue' BY <1>1, <1>4, <1>6, <1>8 DEF StatusTrue
  <1>10. StatusOffered' BY <1>1, <1>4, <1>5, <1>6, <1>9 DEF StatusOffered
  <1>11. MediaInRange' /\ TransferFits' BY <1>2, <1>5, <1>6 DEF MediaInRange, TransferFits
  <1>12. Working' /\ cbw' = cmd' BY <1>4 DEF Working
  <1> QED BY <1>10, <1>11, <1>12, ServiceStep

\* The host takes the CSW, in its place or in the place of data.
LEMMA CswTaken ==
    ASSUME TypeInv, ServiceInv, StatusOffered, InInterrupt
    PROVE  /\ stage' = "READ_CBW" /\ outEp' = ReadCbw /\ inEp'.resp = "NAK"
           /\ MediaInRange' /\ TransferFits'
           /\ PacketLen(inEp) < Mps /\ inEp.buf = "csw" /\ csw.tag = cmd.tag
  <1>1. /\ stage = "WAIT_CSW" /\ csw.tag = cmd.tag /\ inEp \in EpType
        /\ inEp.buf = "csw" /\ inEp.len = CswLen
    BY DEF StatusOffered, StatusTrue, Start, TypeInv, TypeOK
  <1>2. PacketLen(inEp) < Mps /\ TransmitDone(inEp) /\ ~(inEp.len > Mps)
    BY <1>1, EndpointFacts, SizesAssumption DEF PacketLen, Least, TransmitDone
  <1>3. CswSent(Transmit(inEp)) BY <1>1, <1>2 DEF InInterrupt, BulkIn
  <1>4. Transmit(inEp).resp = "NAK" BY <1>1, <1>2 DEF Transmit, EpType
  <1>5. stage' = "READ_CBW" /\ outEp' = ReadCbw /\ inEp'.resp = "NAK" /\ block' = block
    BY <1>3, <1>4 DEF CswSent
  <1>6. MediaInRange' BY <1>5 DEF MediaInRange, ServiceInv, Always
  <1>7. TransferFits' BY <1>5, EndpointFacts DEF TransferFits
  <1> QED BY <1>1, <1>2, <1>5, <1>6, <1>7

LEMMA DataInStep ==
    ASSUME TypeInv, ServiceInv, FetchData
    PROVE  ServiceInv'
  <1>1. phase = "dataIn" /\ inEp.resp = "ACK" /\ Working BY DEF FetchData, Working
  <1>2. cbw = cmd /\ (ReadUnderway \/ ReplyUnderway \/ StatusOffered)
    BY <1>1 DEF ServiceInv, Service, InStep, Refused, ReadFailed, WriteUnderway
  <1>3. CASE StatusOffered
    <2>1. InInterrupt /\ UNCHANGED <<cbw, cmd>> BY DEF FetchData
    <2>2. /\ stage' = "READ_CBW" /\ outEp' = ReadCbw /\ inEp'.resp = "NAK"
          /\ MediaInRange' /\ TransferFits' /\ PacketLen(inEp) < Mps
      BY <1>3, <2>1, CswTaken
    <2>3. phase' = "status" BY <2>2 DEF FetchData
    <2>4. Refused' BY <2>2, <2>3 DEF Refused, Resting
    <2>5. Working' /\ cbw' = cmd' BY <1>2, <2>1, <2>3 DEF Working
    <2> QED BY <2>2, <2>4, <2>5, ServiceStep
  <1> QED BY <1>2, <1>3, ReadPacketStep, ReplyPacketStep

LEMMA StatusStep ==
    ASSUME TypeInv, ServiceInv, FetchStatus
    PROVE  ServiceInv'
  <1>1. phase = "status" /\ inEp.resp = "ACK" /\ Working BY DEF FetchStatus, Working
  <1>2. StatusOffered
    BY <1>1 DEF ServiceInv, Service, InStep, Refused, ReadUnderway, ReplyUnderway, ReadFailed, WriteUnderway
  <1>3. InInterrupt BY DEF FetchStatus
  <1>4. /\ stage' = "READ_CBW" /\ outEp' = ReadCbw /\ inEp'.resp = "NAK"
        /\ MediaInRange' /\ TransferFits' /\ inEp.buf = "csw" /\ csw.tag = cmd.tag
    BY <1>2, <1>3, CswTaken
  <1>5. phase' = "idle" BY <1>4 DEF FetchStatus
  <1>6. Service' /\ Rest' BY <1>4, <1>5 DEF Service, Working, Rest, Resting
  <1>7. ReadyForCommand' BY <1>4 DEF ReadyForCommand
  <1> QED BY <1>4, <1>6, <1>7 DEF ServiceInv, Always

\* Steps that leave the transport as it is.
LEMMA AlwaysKept ==
    ASSUME ServiceInv, UNCHANGED <<stage, startSector, nsectors, block, outEp>>,
           phase # "off"
    PROVE  Always'
  <1>1. MediaInRange' /\ TransferFits' BY DEF ServiceInv, Always, MediaInRange, TransferFits
  <1>2. "read" \notin MediaFaults => ReadyForCommand'
    BY DEF ServiceInv, Always, ReadyForCommand
  <1> QED BY <1>1, <1>2 DEF Always

(***************************************************************************)
(* Every step keeps the invariant.                                         *)
(***************************************************************************)
LEMMA ServiceInit == Init => ServiceInv
  <1> SUFFICES ASSUME Init PROVE ServiceInv OBVIOUS
  <1>1. Service /\ Rest BY DEF Init, Service, Working, Rest
  <1>2. MediaInRange BY DEF Init, MediaInRange
  <1>3. TransferFits BY DEF Init, TransferFits, ClosedEp, Room
  <1>4. ReadyForCommand BY DEF Init, ReadyForCommand
  <1> QED BY <1>1, <1>2, <1>3, <1>4 DEF ServiceInv, Always

LEMMA RecoveryStep ==
    ASSUME OrderlyRecovery, TypeInv, ServiceInv,
           \/ ClearHalt \/ GiveUp \/ BusReset \/ SetConfiguration
           \/ ClassReset \/ ClearHaltIn \/ ClearHaltOut
    PROVE  ServiceInv'
  <1> USE DEF priv
  <1>1. inEp \in EpType /\ outEp \in EpType BY DEF TypeInv, TypeOK
  <1>2. CASE ClearHalt
    <2>1. /\ Working /\ phase \notin {"off", "dataOut"} /\ phase' = "status"
          /\ inEp.resp = "STALL"
          /\ inEp' = [inEp EXCEPT !.resp = "NAK"]
          /\ UNCHANGED <<priv, outEp, cmd, moved>>
      BY <1>2 DEF ClearHalt, Working
    <2>2. cbw = cmd /\ (Refused \/ ReadFailed)
      BY <2>1 DEF ServiceInv, Service, InStep, ReadUnderway, ReplyUnderway, WriteUnderway, StatusOffered, Start
    <2>3. inEp'.resp = "NAK" BY <1>1, <2>1 DEF EpType
    <2>4. Refused' \/ ReadFailed' BY <2>1, <2>2, <2>3 DEF Refused, Resting, ReadFailed
    <2>5. MediaInRange' /\ TransferFits'
      BY <2>1, AlwaysKept DEF Always
    <2>6. Working' /\ cbw' = cmd' BY <2>1, <2>2 DEF Working
    <2> QED BY <2>4, <2>5, <2>6, ServiceStep
  <1>3. CASE GiveUp
    <2>1. phase' = "recover" /\ UNCHANGED <<priv, outEp, inEp, cmd, moved>> BY <1>3 DEF GiveUp
    <2>2. Recoveries \subseteq {"bus"} \/ Resting
      <3> SUFFICES ASSUME ~Impatient, MediaFaults = {} PROVE Resting
        BY DEF OrderlyRecovery
      <3>1. Stuck BY <1>3 DEF GiveUp
      <3>2. CASE phase = "idle" BY <3>2 DEF ServiceInv, Rest
      <3>3. CASE Working
        <4>1. CASE phase = "dataOut" /\ outEp.resp = "NAK"
          BY <3>3, <4>1 DEF ServiceInv, Service, InStep, Refused, ReadUnderway, ReplyUnderway,
                            ReadFailed, WriteUnderway, StatusOffered
        <4>2. CASE phase \in {"dataIn", "status"} /\ inEp.resp = "NAK"
          BY <3>3, <4>2 DEF ServiceInv, Service, InStep, Refused, ReadUnderway, ReplyUnderway,
                            ReadFailed, WriteUnderway, StatusOffered, Start
        <4> QED BY <3>1, <3>3, <4>1, <4>2 DEF Stuck, Working
      <3> QED BY <3>1, <3>2, <3>3 DEF Stuck, Working
    <2>3. phase # "off" BY <1>3 DEF GiveUp, Stuck
    <2>4. Always' BY <2>1, <2>3, AlwaysKept
    <2>5. Service' /\ Rest' BY <2>1, <2>2 DEF Service, Working, Rest, Resting
    <2> QED BY <2>4, <2>5 DEF ServiceInv
  <1>4. CASE BusReset
    <2>1. /\ stage' = "READ_CBW" /\ outEp' = ClosedEp /\ inEp' = ClosedEp /\ phase' = "off"
          /\ block' = block
      BY <1>4 DEF BusReset, DeviceReset
    <2>2. Service' /\ Rest' BY <2>1 DEF Service, Working, Rest
    <2>3. MediaInRange' BY <2>1 DEF ServiceInv, Always, MediaInRange
    <2>4. TransferFits' BY <2>1 DEF TransferFits, ClosedEp, Room
    <2>5. ReadyForCommand' BY <2>1 DEF ReadyForCommand
    <2> QED BY <2>2, <2>3, <2>4, <2>5 DEF ServiceInv, Always
  <1>5. CASE SetConfiguration
    <2>1. /\ inEp' = Open(inEp) /\ outEp' = ReadCbw /\ phase' = "idle" /\ UNCHANGED priv
      BY <1>5 DEF SetConfiguration, DeviceConfigured
    <2>2. stage = "READ_CBW"
      BY <1>5 DEF SetConfiguration, ServiceInv, Rest, Resting
    <2>3. inEp'.resp = "NAK" BY <1>1, <2>1 DEF Open, EpType
    <2>4. Service' /\ Rest' BY <2>1, <2>2, <2>3 DEF Service, Working, Rest, Resting
    <2>5. MediaInRange' BY <2>1 DEF ServiceInv, Always, MediaInRange
    <2>6. TransferFits' BY <2>1, EndpointFacts DEF TransferFits
    <2>7. ReadyForCommand' BY <2>1, <2>2 DEF ReadyForCommand
    <2> QED BY <2>4, <2>5, <2>6, <2>7 DEF ServiceInv, Always
  <1>6. CASE ClassReset
    <2>1. /\ phase = "recover" /\ "class" \in Recoveries /\ stage' = "READ_CBW" /\ phase' = "clearIn"
          /\ UNCHANGED <<startSector, nsectors, block, outEp>>
      BY <1>6 DEF ClassReset
    <2>2. Resting /\ Resting' BY <2>1 DEF ServiceInv, Rest, Resting
    <2>3. Service' /\ Rest' BY <2>1, <2>2 DEF Service, Working, Rest
    <2>4. Always' BY <2>1, <2>2, AlwaysKept DEF Resting
    <2> QED BY <2>3, <2>4 DEF ServiceInv
  <1>7. CASE ClearHaltIn
    <2>1. /\ phase = "clearIn" /\ phase' = "clearOut" /\ inEp' = [inEp EXCEPT !.resp = "NAK"]
          /\ UNCHANGED <<priv, outEp, cmd, moved>>
      BY <1>7 DEF ClearHaltIn
    <2>2. inEp'.resp = "NAK" BY <1>1, <2>1 DEF EpType
    <2>3. Service' /\ Rest'
      BY <2>1, <2>2 DEF Service, Working, ServiceInv, Rest, Resting
    <2>4. Always' BY <2>1, AlwaysKept
    <2> QED BY <2>3, <2>4 DEF ServiceInv
  <1>8. CASE ClearHaltOut
    <2>1. /\ phase = "clearOut" /\ phase' = "idle" /\ outEp' = [outEp EXCEPT !.resp = "ACK"]
          /\ UNCHANGED <<priv, inEp, cmd, moved>>
      BY <1>8 DEF ClearHaltOut
    <2>2. Resting /\ inEp.resp = "NAK" BY <2>1 DEF ServiceInv, Rest
    <2>3. outEp' = outEp BY <1>1, <2>1, <2>2, EndpointFacts DEF Resting, EpType
    <2>4. Service' /\ Rest' BY <2>1, <2>2, <2>3 DEF Service, Working, Rest, Resting
    <2>5. Always' BY <2>1, <2>3, AlwaysKept
    <2> QED BY <2>4, <2>5 DEF ServiceInv
  <1> QED BY <1>2, <1>3, <1>4, <1>5, <1>6, <1>7, <1>8

LEMMA ServiceInvStep ==
    ASSUME OrderlyHost, TypeInv, ServiceInv, [Next]_vars
    PROVE  ServiceInv'
  <1>1. OrderlyCommands /\ OrderlyRecovery BY DEF OrderlyHost
  <1>2. ASSUME NEW c \in Commands, SendCommand(c) PROVE ServiceInv' BY <1>1, <1>2, CommandStep
  <1>3. CASE UNCHANGED vars
    BY <1>3 DEF vars, ServiceInv, Service, InStep, Rest, Always, Working, Refused, Resting, ReadUnderway,
                ReplyUnderway, ReadFailed, WriteUnderway, StatusOffered, StatusTrue, Remaining,
                Accepted, MediaInRange, TransferFits, ReadyForCommand
  <1> QED BY <1>1, <1>2, <1>3, DataOutStep, DataInStep, StatusStep, RecoveryStep DEF Next

LEMMA ServiceAlways ==
    ASSUME OrderlyHost
    PROVE  Spec => [](TypeInv /\ ServiceInv)
  <1>1. TypeInv /\ ServiceInv /\ [Next]_vars => (TypeInv /\ ServiceInv)'
    BY TypeStep, ServiceInvStep
  <1> QED BY TypeInit, ServiceInit, <1>1, PTL DEF Spec

(* The status a host gets answers its command and tells the truth about    *)
(* the bytes that were moved and the sectors that were covered, for every  *)
(* size of buffer, sector and packet and every set of commands that do not *)
(* wrap the words of the device.                                           *)
THEOREM StatusIsHonest ==
    ASSUME OrderlyHost
    PROVE  Spec => []HonestStatus
  <1>1. TypeInv /\ ServiceInv => HonestStatus BY ServiceProperties
  <1> QED BY ServiceAlways, <1>1, PTL

(* Whatever is sent comes from the sector the host expects next, however   *)
(* the transfer is cut into chunks of the block buffer and packets of the  *)
(* endpoint.                                                               *)
THEOREM ReadsAtPosition ==
    ASSUME OrderlyHost
    PROVE  Spec => []ReadPosition
  <1>1. TypeInv /\ ServiceInv => ReadPosition BY ServiceProperties
  <1> QED BY ServiceAlways, <1>1, PTL

(* What the host writes goes to the sectors it named, and what has not     *)
(* gone there is in the block buffer.                                      *)
THEOREM WritesAtPosition ==
    ASSUME OrderlyHost
    PROVE  Spec => []WritePosition
  <1>1. TypeInv /\ ServiceInv => WritePosition BY ServiceProperties
  <1> QED BY ServiceAlways, <1>1, PTL

(* No access leaves the medium.                                            *)
THEOREM AccessesInRange ==
    ASSUME OrderlyHost
    PROVE  Spec => []MediaInRange
  <1>1. TypeInv /\ ServiceInv => MediaInRange BY ServiceProperties
  <1> QED BY ServiceAlways, <1>1, PTL

(* No packet is put past the end of the buffer it is received into.        *)
THEOREM PacketsFit ==
    ASSUME OrderlyHost
    PROVE  Spec => []TransferFits
  <1>1. TypeInv /\ ServiceInv => TransferFits BY ServiceProperties
  <1> QED BY ServiceAlways, <1>1, PTL

(* The transport waits for a command exactly when its endpoint does,       *)
(* provided that reading the medium never fails: the handler that loses    *)
(* this agreement is the one for a first read that fails.                  *)
THEOREM WaitsForCommand ==
    ASSUME OrderlyHost, "read" \notin MediaFaults
    PROVE  Spec => []ReadyForCommand
  <1>1. TypeInv /\ ServiceInv => ReadyForCommand BY DEF ServiceInv, Always
  <1> QED BY ServiceAlways, <1>1, PTL

-----------------------------------------------------------------------------
(***************************************************************************)
(* The driver of the host against this device (UsbhMsc).  It never clears  *)
(* a halt, so that a transfer that ends early leaves an endpoint that      *)
(* answers nothing, or one that takes the next command as it should or     *)
(* for the data of the last: the states in which a later success could be  *)
(* the device's answer to something else.                                  *)
(***************************************************************************)
\* Neither endpoint moves anything until the next connection.
Dead == outEp.resp = "NAK" /\ inEp.resp # "ACK"

\* What the driver finds of the device in each phase.
Device ==
    /\ phase \in {"off", "idle"} \/ Working
    /\ phase = "off"  => stage = "READ_CBW" /\ outEp = ClosedEp /\ inEp = ClosedEp
    /\ phase = "idle" => \/ outEp.resp = "NAK"
                         \/ /\ outEp = ReadCbw /\ inEp.resp # "ACK"
                            /\ stage \in {"READ_CBW", "DATA_IN"}
    /\ Working => Dead \/ InStep
    /\ MediaInRange /\ TransferFits

\* The command under way is one of the initialisation or the program's.
AskedFor ==
    Working => /\ result = "none"
               /\ \/ step \in Starting /\ cmd = InitBlock
                  \/ step = "up" /\ \E k \in Calls : cmd = CallBlock(k) /\ asked = k.n

\* The sectors stored are those behind startSector, when the medium is written.
StoredSoFar == cmd.op \in WriteOps => stored = startSector - cmd.lba

\* What the ghost variables say when a command passes.
Passed ==
    /\ right /\ StoredSoFar
    /\ step = "capacity" => blocks = BlkNbr

Tracked ==
    Working => /\ ReadUnderway \/ ReplyUnderway \/ WriteUnderway => right
               /\ WriteUnderway => StoredSoFar
               /\ StatusOffered /\ phase = "status" /\ csw.status = "PASSED" => Passed

HostInv == TypeInv /\ Device /\ AskedFor /\ Tracked /\ SuccessIsReal

LEMMA HostInitInv == HostInit => HostInv
  <1> SUFFICES ASSUME HostInit PROVE HostInv OBVIOUS
  <1>1. Init /\ phase = "off" /\ step = "off" /\ result = "none" BY DEF HostInit, Init
  <1>2. Device
    <2>1. MediaInRange BY <1>1 DEF Init, MediaInRange
    <2>2. TransferFits BY <1>1 DEF Init, TransferFits, ClosedEp, Room
    <2> QED BY <1>1, <2>1, <2>2 DEF Device, Init, Working
  <1> QED BY <1>1, <1>2, TypeInit DEF HostInv, AskedFor, Tracked, SuccessIsReal, Working

-----------------------------------------------------------------------------
(* The commands the driver sends. *)

LEMMA InitBlockFacts ==
    ASSUME step \in Starting
    PROVE  /\ InitBlock \in CommandType /\ OrderlyCommand(InitBlock)
           /\ InitBlock.form = "good" /\ InitBlock.op \notin ReadOps \cup WriteOps
           /\ step = "capacity" => /\ InitBlock.op = "readCapacity10" /\ InitBlock.dir = "in"
                                   /\ InitBlock.dlen = RespLen["readCapacity10"]
                                   /\ InitBlock.dlen \in Nat \ {0}
  <1>1. \A op \in InfoOps : RespLen[op] \in 1 .. Mps - 1 /\ Mps \in Nat /\ Mps < W /\ W \in Nat
    BY RespLenAssumption, SizesAssumption
  <1>2. \E op \in {"testUnitReady", "requestSense", "inquiry", "readCapacity10"},
           dlen \in 0 .. W - 1 :
          /\ InitBlock = Block(op, IF op = "testUnitReady" THEN "out" ELSE "in", dlen, 0, 0)
          /\ op = "testUnitReady" => dlen = 0
          /\ step = "capacity" => /\ op = "readCapacity10" /\ dlen = RespLen["readCapacity10"]
                                  /\ dlen \in Nat \ {0}
    <2>1. CASE step = "ready"
      <3>1. InitBlock = Block("testUnitReady", "out", 0, 0, 0) BY <2>1 DEF InitBlock
      <3> QED BY <1>1, <2>1, <3>1, SizesAssumption
    <2>2. CASE step = "sense"
      <3>1. InitBlock = Block("requestSense", "in", RespLen["requestSense"], 0, 0)
        BY <2>2 DEF InitBlock
      <3>2. RespLen["requestSense"] \in 0 .. W - 1 BY <1>1 DEF InfoOps
      <3> QED BY <2>2, <3>1, <3>2
    <2>3. CASE step = "inquiry"
      <3>1. InitBlock = Block("inquiry", "in", RespLen["inquiry"], 0, 0) BY <2>3 DEF InitBlock
      <3>2. RespLen["inquiry"] \in 0 .. W - 1 BY <1>1 DEF InfoOps
      <3> QED BY <2>3, <3>1, <3>2
    <2>4. CASE step = "capacity"
      <3>1. InitBlock = Block("readCapacity10", "in", RespLen["readCapacity10"], 0, 0)
        BY <2>4 DEF InitBlock
      <3>2. RespLen["readCapacity10"] \in 0 .. W - 1 /\ RespLen["readCapacity10"] \in Nat \ {0}
        BY <1>1 DEF InfoOps
      <3> QED BY <2>4, <3>1, <3>2
    <2> QED BY <2>1, <2>2, <2>3, <2>4 DEF Starting
  <1>3. PICK op \in {"testUnitReady", "requestSense", "inquiry", "readCapacity10"},
             dlen \in 0 .. W - 1 :
          /\ InitBlock = Block(op, IF op = "testUnitReady" THEN "out" ELSE "in", dlen, 0, 0)
          /\ op = "testUnitReady" => dlen = 0
          /\ step = "capacity" => /\ op = "readCapacity10" /\ dlen = RespLen["readCapacity10"]
                                  /\ dlen \in Nat \ {0}
    BY <1>2
  <1> DEFINE b == InitBlock
  <1>4. /\ b.tag = 0 /\ b.form = "good" /\ b.op = op /\ b.dlen = dlen /\ b.lba = 0 /\ b.n = 0
        /\ b.dir = (IF op = "testUnitReady" THEN "out" ELSE "in")
    BY <1>3 DEF Block
  <1>5. b \in CommandType
    <2>1. op \in Ops BY DEF Ops, InfoOps, NoDataOps
    <2>2. (IF dlen < 256 THEN dlen ELSE 0) \in 0 .. 255 /\ 0 \in 0 .. W - 1 BY SizesAssumption
    <2>3. (IF op = "testUnitReady" THEN "out" ELSE "in") \in {"in", "out"} OBVIOUS
    <2> QED BY <1>3, <2>1, <2>2, <2>3 DEF Block, CommandType
  <1>6. op \notin ReadOps \cup WriteOps BY DEF ReadOps, WriteOps
  <1>7. OrderlyCommand(b) BY <1>3, <1>4, <1>6 DEF OrderlyCommand
  <1> QED BY <1>3, <1>4, <1>5, <1>6, <1>7

LEMMA CallBlockFacts ==
    ASSUME OrderlyProgram, NEW k \in Calls
    PROVE  /\ CallBlock(k) \in CommandType /\ OrderlyCommand(CallBlock(k))
           /\ CallBlock(k).form = "good" /\ CallBlock(k).op = k.op
           /\ CallBlock(k).lba = k.lba /\ CallBlock(k).n = k.n
           /\ CallBlock(k).dlen = k.n * BlkSize
           /\ CallBlock(k).op \in {"read10", "write10"}
  <1>1. k \in [op : {"read10", "write10"}, lba : 0 .. W - 1, n : Nat] BY DriverAssumption
  <1>2. k.op \in {"read10", "write10"} /\ k.lba \in 0 .. W - 1 /\ k.n \in Nat BY <1>1
  <1>3. /\ k.n < W16 /\ k.lba + k.n < W /\ k.n * BlkSize < W
        /\ k.op = "write10" /\ k.n # 0 => k.lba + k.n <= BlkNbr
    BY DEF OrderlyProgram
  <1>4. W16 \in Nat /\ W16 <= W /\ W \in Nat BY SizesAssumption
  <1>5. k.n % W16 = k.n /\ k.n \in 0 .. W - 1 BY <1>2, <1>3, <1>4
  <1>6. Bytes(k.n) = k.n * BlkSize /\ k.n * BlkSize \in Nat BY <1>2, <1>3, BytesFacts
  <1> DEFINE b == CallBlock(k)
             dir == IF k.op = "read10" THEN "in" ELSE "out"
             dlen == k.n * BlkSize
  <1>7. b = Block(k.op, dir, dlen, k.lba, k.n) BY <1>5, <1>6 DEF CallBlock
  <1>8. /\ b.tag = 0 /\ b.form = "good" /\ b.op = k.op /\ b.dlen = dlen /\ b.lba = k.lba
        /\ b.n = k.n /\ b.dir = dir
    BY <1>7 DEF Block
  <1>9. dlen \in 0 .. W - 1 BY <1>3, <1>4, <1>6
  <1>10. dir \in {"in", "out"} /\ (dir = "out" => k.op = "write10") BY <1>2
  <1>11. dlen # 0 => k.n # 0 BY Spread
  <1> HIDE DEF dir, dlen, b
  <1>12. b \in CommandType
    <2>1. k.op \in Ops BY <1>2 DEF Ops, ReadOps, WriteOps
    <2>2. (IF dlen < 256 THEN dlen ELSE 0) \in 0 .. 255 BY <1>9
    <2> QED BY <1>2, <1>5, <1>7, <1>9, <1>10, <2>1, <2>2 DEF Block, CommandType
  <1>13. OrderlyCommand(b)
    <2>1. b.op \in {"read10", "write10"} /\ (b.op = "write10" => b.op \in WriteOps)
      BY <1>2, <1>8 DEF WriteOps
    <2> QED BY <1>2, <1>3, <1>8, <1>10, <1>11, <2>1 DEF OrderlyCommand, dlen
  <1> QED BY <1>2, <1>8, <1>12, <1>13 DEF b, dlen

-----------------------------------------------------------------------------
(* A command is sent. *)

\* Whole sectors and bytes that come to nothing are none.
LEMMA NoBytes ==
    ASSUME NEW a \in Nat, NEW b \in Nat, a * BlkSize + b = 0
    PROVE  a = 0
  <1> SUFFICES ASSUME a # 0 PROVE FALSE OBVIOUS
  <1>1. a * BlkSize \in Nat /\ a * BlkSize >= BlkSize BY Spread
  <1> QED BY <1>1, SizesAssumption

LEMMA SendCbwEffect ==
    ASSUME HostInv, phase = "idle", NEW c \in CommandType, OrderlyCommand(c), c.form = "good",
           NEW n, SendCbw(c, n)
    PROVE  TypeInv' /\ Device' /\ Working' /\ Commanded(c)
  <1>1. TypeInv /\ Device BY DEF HostInv
  <1>2. /\ outEp = ReadCbw /\ inEp.resp # "ACK" /\ stage \in {"READ_CBW", "DATA_IN"}
        /\ MediaInRange /\ TransferFits
    BY <1>1 DEF SendCbw, Device
  <1>3. cbw' = c BY <1>2, EndpointFacts DEF SendCbw
  <1>4. Commanded(c) /\ OutInterrupt(c, CbwLen) BY <1>3 DEF SendCbw, Commanded
  <1>5. Working' /\ cbw' = cmd' BY <1>4, PhaseFacts
  <1>6. TypeInv'
    <2>1. DeviceOK BY <1>1 DEF TypeInv, TypeOK, DeviceOK
    <2>2. DeviceOK' BY <1>4, <2>1, EndpointFacts, OutInterruptType
    <2>3. phase' = "dataOut" => c.dlen # 0 BY <1>4, PhaseFacts
    <2>4. phase' \in Phases /\ cmd' = c /\ cbw' = c /\ moved' = 0
      BY <1>4, <1>5 DEF Commanded, Working, Phases
    <2> QED BY <2>2, <2>3, <2>4 DEF TypeInv, TypeOK, DeviceOK, CommandType
  <1>7. CASE stage = "READ_CBW"
    <2>1. Resting BY <1>2, <1>7 DEF Resting
    <2>2. ServiceInv' BY <1>1, <1>2, <1>4, <2>1, CommandArrives
    <2>3. InStep' /\ MediaInRange' /\ TransferFits'
      BY <1>5, <2>2 DEF ServiceInv, Service, Always
    <2> QED BY <1>4, <1>5, <1>6, <2>3 DEF Device, Working
  <1>8. CASE stage = "DATA_IN"
    <2> DEFINE o == Receive(outEp, CbwLen)
    <2>1. ReceiveDone(outEp, CbwLen) BY SizesAssumption DEF ReceiveDone
    <2>2. BulkOut(c, o, outEp.actual + CbwLen) BY <1>4, <2>1 DEF OutInterrupt
    <2>3. outEp' = o /\ UNCHANGED <<stage, startSector, nsectors, block, inEp>>
      BY <1>8, <2>2 DEF BulkOut
    <2>4. o.resp = "NAK" /\ o.buf = "cbw" /\ o.actual = CbwLen
      BY <1>2, EndpointFacts DEF Receive
    <2> HIDE DEF o
    <2>5. Dead' BY <1>2, <2>3, <2>4 DEF Dead
    <2>6. TransferFits' BY <2>3, <2>4, EndpointFacts DEF TransferFits
    <2>7. MediaInRange' BY <1>2, <2>3 DEF MediaInRange
    <2> QED BY <1>4, <1>5, <1>6, <2>5, <2>6, <2>7 DEF Device, Working
  <1> QED BY <1>2, <1>7, <1>8

LEMMA SendCbwStep ==
    ASSUME HostInv, phase = "idle", NEW c \in CommandType, OrderlyCommand(c), c.form = "good",
           NEW n, SendCbw(c, n), AskedFor',
           c.op \in WriteOps => c.dlen = c.n * BlkSize,
           step = "capacity" => c.dir = "in" /\ c.dlen # 0
    PROVE  HostInv'
  <1>1. TypeInv' /\ Device' /\ Working' /\ Commanded(c) BY SendCbwEffect
  <1>2. /\ cmd' = c /\ moved' = 0 /\ right' /\ stored' = 0 /\ result' = "none"
        /\ UNCHANGED <<step, blocks>>
    BY DEF SendCbw
  <1>3. startSector' \in Nat /\ outEp'.actual \in Nat /\ c.lba \in Nat /\ c.n \in Nat
    BY <1>1 DEF TypeInv, TypeOK, EpType, CommandType
  <1>4. WriteUnderway' => StoredSoFar'
    <2> SUFFICES ASSUME WriteUnderway' PROVE stored' = startSector' - cmd'.lba
      BY DEF StoredSoFar
    <2>1. /\ (startSector' - c.lba) * BlkSize + outEp'.actual = 0
          /\ c.lba <= startSector'
      BY <1>2 DEF WriteUnderway
    <2>2. startSector' - c.lba \in Nat BY <1>3, <2>1
    <2>3. startSector' - c.lba = 0 BY <1>3, <2>1, <2>2, NoBytes
    <2> QED BY <1>2, <2>3
  <1>5. ASSUME StatusOffered', phase' = "status", csw'.status = "PASSED" PROVE Passed'
    <2>1. step' # "capacity" BY <1>1, <1>2, <1>5, PhaseFacts
    <2>2. StoredSoFar'
      <3> SUFFICES ASSUME c.op \in WriteOps PROVE stored' = startSector' - c.lba
        BY <1>2 DEF StoredSoFar
      <3>1. 0 = c.n * BlkSize /\ startSector' = c.lba + c.n
        BY <1>2, <1>5 DEF StatusOffered, StatusTrue
      <3>2. c.n * BlkSize + 0 = 0 BY <3>1
      <3>3. c.n = 0 BY <1>3, <3>2, NoBytes
      <3> QED BY <1>2, <1>3, <3>1, <3>3
    <2> QED BY <1>2, <2>1, <2>2 DEF Passed
  <1>6. Tracked' BY <1>2, <1>4, <1>5 DEF Tracked
  <1>7. SuccessIsReal' BY <1>2 DEF HostInv, SuccessIsReal
  <1> QED BY <1>1, <1>6, <1>7 DEF HostInv

LEMMA InitialiseStep ==
    ASSUME HostInv, Initialise
    PROVE  HostInv'
  <1>1. phase = "idle" /\ step \in Starting /\ SendCbw(InitBlock, 0) BY DEF Initialise
  <1>2. /\ InitBlock \in CommandType /\ OrderlyCommand(InitBlock)
        /\ InitBlock.form = "good" /\ InitBlock.op \notin ReadOps \cup WriteOps
        /\ step = "capacity" => InitBlock.dir = "in" /\ InitBlock.dlen \in Nat \ {0}
    BY <1>1, InitBlockFacts
  <1>3. step' = step /\ cmd' = InitBlock /\ result' = "none" BY <1>1 DEF SendCbw
  <1>4. InitBlock' = InitBlock BY <1>3 DEF InitBlock, Block
  <1>5. AskedFor' BY <1>1, <1>3, <1>4 DEF AskedFor
  <1> QED BY <1>1, <1>2, <1>5, SendCbwStep

LEMMA CallStep ==
    ASSUME OrderlyProgram, HostInv, Call
    PROVE  HostInv'
  <1>1. phase = "idle" /\ step = "up" BY DEF Call
  <1>2. PICK k \in Calls : SendCbw(CallBlock(k), k.n) BY DEF Call
  <1> DEFINE c == CallBlock(k)
  <1>3. /\ c \in CommandType /\ OrderlyCommand(c) /\ c.form = "good"
        /\ c.n = k.n /\ c.dlen = k.n * BlkSize
    BY CallBlockFacts
  <1>4. step' = "up" /\ cmd' = c /\ asked' = k.n /\ result' = "none" BY <1>1, <1>2 DEF SendCbw
  <1>5. AskedFor' BY <1>4 DEF AskedFor
  <1> QED BY <1>1, <1>2, <1>3, <1>5, SendCbwStep

-----------------------------------------------------------------------------
(* The data and the status. *)

\* A transfer that moves something finds the device in a command.
LEMMA MovingInStep ==
    ASSUME HostInv, Working, ~Dead
    PROVE  ServiceInv /\ InStep
  BY InService DEF HostInv, Device

\* The command and the step of the driver are those they were.
LEMMA StillAskedFor ==
    ASSUME AskedFor, Working, UNCHANGED <<cmd, step, asked, result>>
    PROVE  AskedFor'
  <1>1. InitBlock' = InitBlock BY DEF InitBlock, Block
  <1> QED BY <1>1 DEF AskedFor

LEMMA PushDataStep ==
    ASSUME HostInv, PushData
    PROVE  HostInv'
  <1>1. /\ phase = "dataOut" /\ outEp.resp = "ACK" /\ Working /\ ~Dead
    BY DEF PushData, Working, Dead
  <1>2. ServiceInv /\ InStep /\ TypeInv BY <1>1, MovingInStep DEF HostInv
  <1>3. WriteUnderway
    BY <1>1, <1>2 DEF InStep, Refused, ReadUnderway, ReplyUnderway, ReadFailed, StatusOffered
  <1>4. SendData BY DEF PushData, SendData
  <1>5. TypeInv' BY <1>2, <1>4, TypeStep DEF Next
  <1>6. ServiceInv' /\ startSector <= startSector' BY <1>2, <1>4, DataOutStep
  <1>7. Working' /\ UNCHANGED <<cmd, step, asked, blocks, result>> BY DEF PushData, Working
  <1>8. Device' BY <1>6, <1>7 DEF Device, ServiceInv, Service, Always, Working
  <1>9. AskedFor' BY <1>1, <1>7, StillAskedFor DEF HostInv
  <1>10. right' BY <1>1, <1>3 DEF PushData, HostInv, Tracked, WriteUnderway
  <1>11. StoredSoFar'
    <2>1. stored = startSector - cmd.lba
      BY <1>1, <1>3 DEF HostInv, Tracked, StoredSoFar, WriteUnderway
    <2>2. startSector \in Nat /\ startSector' \in Nat /\ startSector' < W /\ W \in Nat /\ cmd.lba \in Nat
      BY <1>2, <1>5, SizesAssumption DEF TypeInv, TypeOK, CommandType
    <2>3. Sub(startSector', startSector) = startSector' - startSector BY <1>6, <2>2 DEF Sub
    <2>4. stored' = startSector' - cmd'.lba BY <1>7, <2>1, <2>2, <2>3 DEF PushData
    <2> QED BY <2>4 DEF StoredSoFar
  <1>12. step # "capacity"
    <2>1. cmd.op \notin ReadOps \cup WriteOps \/ step = "up"
      BY <1>1, InitBlockFacts DEF HostInv, AskedFor
    <2> QED BY <1>3, <2>1 DEF WriteUnderway
  <1>13. Tracked' BY <1>7, <1>10, <1>11, <1>12 DEF Tracked, Passed
  <1>14. SuccessIsReal'
    BY <1>1, <1>7 DEF HostInv, AskedFor, SuccessIsReal
  <1> QED BY <1>5, <1>8, <1>9, <1>13, <1>14 DEF HostInv

LEMMA PullDataStep ==
    ASSUME HostInv, PullData
    PROVE  HostInv'
  <1>1. /\ phase = "dataIn" /\ inEp.resp = "ACK" /\ Working /\ ~Dead
    BY DEF PullData, Working, Dead
  <1>2. ServiceInv /\ InStep /\ TypeInv BY <1>1, MovingInStep DEF HostInv
  <1>3. ReadUnderway \/ ReplyUnderway \/ StatusOffered
    BY <1>1, <1>2 DEF InStep, Refused, ReadFailed, WriteUnderway
  <1> DEFINE n == PacketLen(inEp)
  <1>4. n \in Nat /\ cmd.dlen \in Nat /\ moved \in Nat /\ Mps \in Nat /\ inEp.len \in Nat
    BY <1>2, SizesAssumption DEF PacketLen, Least, TypeInv, TypeOK, EpType, CommandType
  <1>5. /\ moved' = moved + n /\ n <= cmd.dlen - moved
        /\ phase' = IF n < Mps \/ n = cmd.dlen - moved THEN "status" ELSE "dataIn"
        /\ InInterrupt /\ UNCHANGED <<cbw, cmd, step, asked, stored, result>>
        /\ right' = (right /\ InPlace)
    BY <1>1 DEF PullData, Wanted
  <1>6. FetchData
    <2>1. n = cmd.dlen - moved <=> moved + n >= cmd.dlen BY <1>4, <1>5
    <2> QED BY <1>1, <1>5, <2>1 DEF FetchData
  <1>7. TypeInv' BY <1>2, <1>6, TypeStep DEF Next
  <1>8. ServiceInv' BY <1>2, <1>6, DataInStep
  <1>9. Working' /\ phase' # "dataOut" BY <1>5 DEF Working
  <1>10. Device' BY <1>8, <1>9 DEF Device, ServiceInv, Service, Always, Working
  <1>11. AskedFor' BY <1>1, <1>5, StillAskedFor DEF HostInv
  <1>12. step # "capacity" => blocks' = blocks BY DEF PullData
  <1>13. SuccessIsReal'
    BY <1>1, <1>5, <1>12 DEF HostInv, AskedFor, SuccessIsReal
  <1>14. CASE StatusOffered
    <2>1. stage' = "READ_CBW" BY <1>2, <1>5, <1>14, CswTaken
    <2>2. Tracked'
      BY <1>9, <2>1 DEF Tracked, ReadUnderway, ReplyUnderway, WriteUnderway, StatusOffered
    <2> QED BY <1>7, <1>10, <1>11, <1>13, <2>2 DEF HostInv
  <1>15. CASE ReadUnderway \/ ReplyUnderway
    <2>1. InPlace
      BY <1>2, <1>15 DEF InPlace, ReadUnderway, ReplyUnderway, InStep
    <2>2. right' BY <1>1, <1>5, <1>15, <2>1 DEF HostInv, Tracked
    <2>3. cmd.op \notin WriteOps BY <1>15 DEF ReadUnderway, ReplyUnderway, ReadOps, WriteOps
    <2>4. StoredSoFar' BY <1>5, <2>3 DEF StoredSoFar
    <2>5. ASSUME step = "capacity" PROVE blocks' = BlkNbr
      <3>1. /\ cmd.op = "readCapacity10" /\ cmd.dlen = RespLen["readCapacity10"]
            /\ cmd.op \notin ReadOps
        BY <1>1, <2>5, InitBlockFacts DEF HostInv, AskedFor
      <3>2. ReplyUnderway BY <1>15, <3>1 DEF ReadUnderway
      <3>3. inEp.len = cmd.dlen /\ inEp.len < Mps /\ moved = 0
        BY <1>4, <3>1, <3>2 DEF ReplyUnderway, Least
      <3>4. n = cmd.dlen /\ n < Mps BY <1>4, <3>3 DEF PacketLen, Least
      <3>5. moved' = cmd.dlen BY <1>4, <1>5, <3>3, <3>4
      <3> HIDE DEF n
      <3>6. n < Mps /\ n = PacketLen(inEp) BY <3>4 DEF n
      <3> QED BY <2>2, <2>5, <3>5, <3>6 DEF PullData
    <2>6. Tracked' BY <1>5, <1>9, <2>2, <2>4, <2>5 DEF Tracked, Passed, WriteUnderway
    <2> QED BY <1>7, <1>10, <1>11, <1>13, <2>6 DEF HostInv
  <1> QED BY <1>3, <1>14, <1>15

LEMMA PullCswStep ==
    ASSUME OrderlyProgram, HostInv, PullCsw
    PROVE  HostInv'
  <1>1. /\ phase = "status" /\ inEp.resp = "ACK" /\ Working /\ ~Dead /\ InInterrupt
        /\ phase' = "idle" /\ UNCHANGED <<cbw, cmd, moved, blocks, asked, right, stored>>
    BY DEF PullCsw, Return, Working, Dead
  <1>2. ServiceInv /\ InStep /\ TypeInv BY <1>1, MovingInStep DEF HostInv
  <1>3. StatusOffered
    BY <1>1, <1>2 DEF InStep, Refused, ReadUnderway, ReplyUnderway, ReadFailed, WriteUnderway
  <1>4. /\ stage' = "READ_CBW" /\ outEp' = ReadCbw /\ inEp'.resp = "NAK"
        /\ MediaInRange' /\ TransferFits'
    BY <1>1, <1>2, <1>3, CswTaken
  <1>5. Device' BY <1>1, <1>4 DEF Device, Working
  <1>6. TypeInv'
    <2>1. DeviceOK BY <1>2 DEF TypeInv, TypeOK, DeviceOK
    <2>2. DeviceOK' BY <1>1, <2>1, InInterruptType
    <2> QED BY <1>1, <1>2, <2>2 DEF TypeInv, TypeOK, DeviceOK, Phases
  <1>7. AskedFor' /\ Tracked' BY <1>1 DEF AskedFor, Tracked, Working
  <1>8. CswGood => Passed BY <1>1, <1>3 DEF CswGood, HostInv, Tracked
  <1>9. step' = "up" => blocks' = BlkNbr
    BY <1>1, <1>8 DEF PullCsw, Return, NextStep, Passed, HostInv, AskedFor, Starting, SuccessIsReal
  <1>10. result' = "ok" => step = "up" /\ CswGood
    BY <1>1 DEF PullCsw, Return, HostInv, AskedFor
  <1>11. ASSUME step = "up", CswGood
         PROVE  right /\ moved = asked * BlkSize /\ (cmd.op = "write10" => stored = asked)
    <2>1. PICK k \in Calls : cmd = CallBlock(k) /\ asked = k.n
      BY <1>1, <1>11 DEF HostInv, AskedFor, Starting
    <2>2. /\ cmd.op \in {"read10", "write10"} /\ cmd.n = asked /\ cmd.dlen = asked * BlkSize
      BY <2>1, CallBlockFacts
    <2>3. moved = cmd.dlen /\ startSector = cmd.lba + cmd.n
      BY <1>3, <1>11, <2>2 DEF CswGood, StatusOffered, StatusTrue, ReadOps, WriteOps
    <2>4. right /\ StoredSoFar BY <1>8, <1>11 DEF Passed
    <2>5. cmd.op = "write10" => stored = startSector - cmd.lba
      BY <2>4 DEF StoredSoFar, WriteOps
    <2>6. cmd.lba \in Nat /\ cmd.n \in Nat BY <1>2 DEF TypeInv, TypeOK, CommandType
    <2> QED BY <2>2, <2>3, <2>4, <2>5, <2>6
  <1>12. SuccessIsReal' BY <1>1, <1>9, <1>10, <1>11 DEF SuccessIsReal
  <1> QED BY <1>5, <1>6, <1>7, <1>12 DEF HostInv

-----------------------------------------------------------------------------
(* The end of a transfer that fails, and the connection. *)

\* A command that fails leaves the device as it is: what the driver finds next
\* is an endpoint that takes no command, or one that takes nothing else.
LEMMA FailStep ==
    ASSUME HostInv, phase = "idle" \/ Working, phase = "dataOut" => outEp.resp # "ACK",
           Fail, UNCHANGED <<priv, outEp, inEp, cmd, moved>>
    PROVE  HostInv'
  <1>1. phase' = "idle" /\ UNCHANGED <<blocks, asked, right, stored>> BY DEF Fail, Return
  <1>2. UNCHANGED <<stage, cbw, csw, sense, startSector, nsectors, block>> BY DEF priv
  <1>3. TypeInv' BY <1>1, <1>2 DEF HostInv, TypeInv, TypeOK, Phases
  <1>4. \/ outEp.resp = "NAK"
        \/ outEp = ReadCbw /\ inEp.resp # "ACK" /\ stage \in {"READ_CBW", "DATA_IN"}
    <2>1. CASE phase = "idle" BY <2>1 DEF HostInv, Device
    <2>2. CASE Working /\ Dead BY <2>2 DEF Dead
    <2>3. CASE Working /\ InStep
      BY <2>3 DEF InStep, Refused, Resting, ReadUnderway, ReplyUnderway, ReadFailed, WriteUnderway,
                  StatusOffered
    <2> QED BY <2>1, <2>2, <2>3 DEF HostInv, Device
  <1>5. Device'
    BY <1>1, <1>2, <1>4 DEF HostInv, Device, Working, MediaInRange, TransferFits
  <1>6. AskedFor' /\ Tracked' BY <1>1 DEF AskedFor, Tracked, Working
  <1>7. step' = "up" => step = "up" BY DEF Fail, Return, NextStep
  <1>8. result' = "ok" => result = "ok" BY DEF Fail, Return
  <1>9. SuccessIsReal' BY <1>1, <1>7, <1>8 DEF HostInv, SuccessIsReal
  <1> QED BY <1>3, <1>5, <1>6, <1>9 DEF HostInv

LEMMA FailuresStep ==
    ASSUME OrderlyProgram, HostInv, CbwFails \/ TransferFails
    PROVE  HostInv'
  <1>1. CASE CbwFails BY <1>1, FailStep DEF CbwFails
  <1>2. CASE TransferFails
    <2>1. Working /\ (phase = "dataOut" => outEp.resp # "ACK")
      BY <1>2, DriverAssumption DEF TransferFails, OrderlyProgram, Working
    <2> QED BY <1>2, <2>1, FailStep DEF TransferFails
  <1> QED BY <1>1, <1>2

LEMMA ConnectionStep ==
    ASSUME HostInv, Plug \/ InitAgain \/ Unplug
    PROVE  HostInv'
  <1>1. CASE Plug
    <2>1. /\ phase = "off" /\ phase' = "idle" /\ step' = "ready" /\ UNCHANGED priv
          /\ inEp' = Open(inEp) /\ outEp' = ReadCbw
          /\ UNCHANGED <<cmd, moved, asked, right, stored, result>>
      BY <1>1 DEF Plug, DeviceConfigured
    <2>2. SetConfiguration BY <1>1 DEF Plug, SetConfiguration
    <2>3. TypeInv' BY <2>2, TypeStep DEF HostInv, Next
    <2>4. inEp'.resp = "NAK" /\ stage = "READ_CBW"
      BY <2>1 DEF HostInv, Device, Open, ClosedEp
    <2>5. TransferFits' BY <2>1, EndpointFacts DEF TransferFits
    <2>6. MediaInRange' BY <2>1 DEF HostInv, Device, MediaInRange, priv
    <2>7. Device' BY <2>1, <2>4, <2>5, <2>6 DEF Device, priv, Working
    <2>8. AskedFor' /\ Tracked' BY <2>1 DEF AskedFor, Tracked, Working
    <2>9. SuccessIsReal' BY <2>1 DEF HostInv, SuccessIsReal
    <2> QED BY <2>3, <2>7, <2>8, <2>9 DEF HostInv
  <1>2. CASE InitAgain
    <2>1. /\ phase = "idle" /\ step' = "ready" /\ UNCHANGED vars
          /\ UNCHANGED <<blocks, asked, right, stored, result>>
      BY <1>2 DEF InitAgain
    <2>2. TypeInv' BY <2>1, TypeStep DEF HostInv
    <2>3. Device' BY <2>1 DEF vars, HostInv, Device, Working, MediaInRange, TransferFits
    <2>4. AskedFor' /\ Tracked' BY <2>1 DEF vars, AskedFor, Tracked, Working
    <2>5. SuccessIsReal' BY <2>1 DEF vars, HostInv, SuccessIsReal
    <2> QED BY <2>2, <2>3, <2>4, <2>5 DEF HostInv
  <1>3. CASE Unplug
    <2>1. /\ stage' = "READ_CBW" /\ outEp' = ClosedEp /\ inEp' = ClosedEp
          /\ UNCHANGED <<cbw, csw, sense, startSector, nsectors, block>>
          /\ phase' = "off" /\ step' = "off"
          /\ result' = (IF phase # "idle" /\ step = "up" THEN "error" ELSE result)
          /\ UNCHANGED <<cmd, moved, blocks, asked, right, stored>>
      BY <1>3 DEF Unplug, DeviceReset
    <2>2. ClosedEp \in EpType BY SizesAssumption DEF ClosedEp, EpType, Buffers
    <2>3. TypeInv' BY <2>1, <2>2 DEF HostInv, TypeInv, TypeOK, Phases
    <2>4. TransferFits' BY <2>1 DEF TransferFits, ClosedEp, Room
    <2>5. MediaInRange' BY <2>1 DEF HostInv, Device, MediaInRange
    <2>6. Device' BY <2>1, <2>4, <2>5 DEF Device, Working
    <2>7. AskedFor' /\ Tracked' BY <2>1 DEF AskedFor, Tracked, Working
    <2>8. SuccessIsReal' BY <2>1 DEF HostInv, SuccessIsReal
    <2> QED BY <2>3, <2>6, <2>7, <2>8 DEF HostInv
  <1> QED BY <1>1, <1>2, <1>3

LEMMA HostStutter ==
    ASSUME HostInv, UNCHANGED allVars
    PROVE  HostInv'
  <1>1. UNCHANGED vars /\ UNCHANGED driver BY DEF allVars
  <1>2. UNCHANGED <<step, blocks, asked, right, stored, result>> BY <1>1 DEF driver
  <1>3. UNCHANGED <<stage, cbw, csw, sense, startSector, nsectors, block, outEp, inEp,
                    phase, cmd, moved>>
    BY <1>1 DEF vars
  <1>4. TypeInv' BY <1>1, TypeStep DEF HostInv
  <1>5. /\ Working' = Working /\ Dead' = Dead /\ InStep' = InStep
        /\ ReadUnderway' = ReadUnderway /\ ReplyUnderway' = ReplyUnderway
        /\ WriteUnderway' = WriteUnderway /\ StatusOffered' = StatusOffered
    BY <1>3 DEF Working, Dead, InStep, Refused, Resting, ReadUnderway, ReplyUnderway, ReadFailed,
                WriteUnderway, StatusOffered, StatusTrue, Remaining, Accepted
  <1>6. Device' BY <1>3, <1>5 DEF HostInv, Device, MediaInRange, TransferFits
  <1>7. AskedFor'
    <2>1. CASE Working BY <1>2, <1>3, <2>1, StillAskedFor DEF HostInv
    <2>2. CASE ~Working BY <1>5, <2>2 DEF AskedFor
    <2> QED BY <2>1, <2>2
  <1>8. Tracked' BY <1>2, <1>3, <1>5 DEF HostInv, Tracked, Passed, StoredSoFar
  <1>9. SuccessIsReal' BY <1>2, <1>3 DEF HostInv, SuccessIsReal
  <1> QED BY <1>4, <1>6, <1>7, <1>8, <1>9 DEF HostInv

(* What the driver of the host tells the program is so: a call that        *)
(* succeeded moved every byte of every sector it named to or from its      *)
(* place, a write has reached the medium to the last sector, and a device  *)
(* that is up has the size the driver believes; whatever fails, times out  *)
(* or is unplugged before, and although the driver asks for neither the    *)
(* tag nor the residue nor the length of what it got.                      *)
THEOREM SuccessAlwaysReal ==
    ASSUME OrderlyProgram
    PROVE  HostSpec => []SuccessIsReal
  <1>1. HostInv /\ [HostNext]_allVars => HostInv'
    BY InitialiseStep, CallStep, PushDataStep, PullDataStep, PullCswStep, FailuresStep,
       ConnectionStep, HostStutter DEF HostNext
  <1>2. HostInv => SuccessIsReal BY DEF HostInv
  <1> QED BY HostInitInv, <1>1, <1>2, PTL DEF HostSpec

-----------------------------------------------------------------------------
(***************************************************************************)
(* The computed disk (FakeDisk).                                           *)
(***************************************************************************)
(* Whoever follows the tables finds the structures: the FAT begins where   *)
(* the boot sector says, and the first sectors of the clusters of the      *)
(* bitmap, the root directory and the up-case table hold these.            *)
THEOREM TablesAgree ==
    /\ Held(PartLba) = "boot"
    /\ Held(PartLba + FatOffset) = "fat"
    /\ Held(ClusterLba(BitmapCluster)) = "bitmap"
    /\ Held(ClusterLba(RootCluster)) = "root"
    /\ Held(ClusterLba(UpcaseCluster)) = "upcase"
  BY SMT DEF Held, InBoot, BootSector, BootOffset, BootPart, FirstSector, ClusterLba, PartLba,
         TailLba, FatOffset, HeapOffset, BitmapCluster, RootCluster, UpcaseCluster, SectorsPerCluster

(* Nothing else on the disk is other than zero, and no structure appears   *)
(* twice but the boot region: a read never confuses two of them.           *)
THEOREM NothingElse ==
    ASSUME NEW s \in Sectors, ~InBoot(s), Held(s) # "zero"
    PROVE  s \in {0, PartLba + FatOffset, ClusterLba(BitmapCluster), ClusterLba(RootCluster),
                  ClusterLba(UpcaseCluster)}
  BY SMT DEF Held, FirstSector, ClusterLba, PartLba, FatOffset, HeapOffset, BitmapCluster, RootCluster,
         UpcaseCluster, SectorsPerCluster

(* The sizes fit: the partition ends with the disk and holds the volume,   *)
(* the FAT reaches up to the heap and has an entry of four bytes for every *)
(* cluster, the heap holds the clusters and no further one would fit, and  *)
(* the bitmap has a bit for each and lies within one cluster.              *)
THEOREM SizesFit ==
    /\ PartLba + PartSectors = BlockNum /\ VolumeLength <= PartSectors
    /\ FatOffset + FatLength = HeapOffset /\ (ClusterCount + 2) * 4 <= FatLength * 512
    /\ HeapOffset + ClusterCount * SectorsPerCluster <= VolumeLength
    /\ VolumeLength < HeapOffset + (ClusterCount + 1) * SectorsPerCluster
    /\ BitmapLength * 8 >= ClusterCount /\ BitmapLength <= SectorsPerCluster * 512
  BY SMT DEF PartLba, PartSectors, BlockNum, VolumeLength, FatOffset, FatLength, HeapOffset,
         ClusterCount, SectorsPerCluster, BitmapLength

(* The backup boot region behind the main one is its copy.                 *)
THEOREM BackupIsCopy ==
    ASSUME NEW k \in 0 .. 11
    PROVE  Held(PartLba + 12 + k) = Held(PartLba + k)
<1>1. (12 + k) % 12 = k /\ k % 12 = k
  BY SMT
<1>2. BootOffset(PartLba + k) = k /\ BootOffset(PartLba + 12 + k) = 12 + k
  BY SMT DEF BootOffset, PartLba
<1>3. /\ Held(PartLba + k) = BootSector(PartLba + k)
      /\ Held(PartLba + 12 + k) = BootSector(PartLba + 12 + k)
  BY SMT DEF Held, InBoot, PartLba
<1> QED
  BY <1>1, <1>2, <1>3, SMT DEF BootSector

(* The copy at the end of the disk lies outside every cluster, but is not  *)
(* a copy: the test that was to tell the two regions apart holds for both, *)
(* the offset comes from the wrong one and is four sectors out.            *)
THEOREM TailIsShifted ==
    /\ \A c \in Int : c >= 2 /\ c <= ClusterCount + 1 => ClusterLba(c) + SectorsPerCluster <= TailLba
    /\ Held(TailLba) = "extended" /\ Held(TailLba + 8) = "boot"
<1>1. ASSUME NEW c \in Int, c >= 2, c <= ClusterCount + 1
      PROVE  ClusterLba(c) + SectorsPerCluster <= TailLba
  <2>1. c <= 4194270
    BY <1>1, SMT DEF ClusterCount
  <2>2. (c - 2) * 1024 <= 4294930432
    BY <2>1, SMT
  <2> QED
    BY <2>1, <2>2, SMT DEF ClusterLba, PartLba, HeapOffset, SectorsPerCluster, TailLba
<1>2. Held(TailLba) = "extended"
  BY SMT DEF Held, InBoot, BootSector, BootOffset, BootPart, TailLba, PartLba
<1>3. Held(TailLba + 8) = "boot"
  BY SMT DEF Held, InBoot, BootSector, BootOffset, BootPart, TailLba, PartLba
<1> QED
  BY <1>1, <1>2, <1>3
=============================================================================
