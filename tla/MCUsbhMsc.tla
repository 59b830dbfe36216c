------------------------------ MODULE MCUsbhMsc ------------------------------
(* A small instance of UsbhMsc for TLC: packets of 4 bytes, sectors of 8, a *)
(* buffer of two sectors, and calls of one to three sectors at either end   *)
(* of the medium; a read may run past its end.                              *)
EXTENDS UsbhMsc

MCRespLen == [op \in InfoOps |-> IF op \in {"requestSense", "inquiry"} THEN 3 ELSE 2]

MCCalls ==
    [op : {"read10", "write10"}, lba : {0}, n : 1 .. 3]
    \cup [op : {"read10", "write10"}, lba : {BlkNbr - 2}, n : {2}]
    \cup [op : {"read10"}, lba : {BlkNbr - 1}, n : {2}]

ASSUME MCOrderly == OrderlyProgram
=============================================================================
