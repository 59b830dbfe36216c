------------------------------ MODULE MCUsbdMsc ------------------------------
(* Small instances of UsbdMsc for TLC: a 6-bit word, packets of 4 bytes,   *)
(* sectors of 8 bytes and a medium whose size is two short of the word.    *)
EXTENDS UsbdMsc

MCRespLen == [op \in InfoOps |-> IF op \in {"requestSense", "inquiry"} THEN 3 ELSE 2]

Cmd(op, dir, dlen, lba, n, alloc) ==
    [tag : {0, 1}, form : {"good"}, dir : {dir}, dlen : {dlen}, op : {op},
     lba : {lba}, n : {n}, alloc : {alloc}]

Transfer(op, dir, lba, n) == Cmd(op, dir, n * BlkSize, lba, n, 0)

\* Reads and writes of one to three sectors, at the start and at the end.
MCGoodTransfers ==
    UNION {Transfer("read10", "in", 0, n) : n \in 1 .. 3}
    \cup UNION {Transfer("write10", "out", 0, n) : n \in 1 .. 3}
    \cup Transfer("read12", "in", BlkNbr - 2, 2)
    \cup Transfer("write12", "out", BlkNbr - 2, 2)

MCGoodOthers ==
    UNION {Cmd(op, "in", 5, 0, 0, a) : op \in InfoOps, a \in {1, 4}}
    \cup UNION {Cmd(op, "out", 0, 0, 0, 0) : op \in NoDataOps \cup {"synchCache10"}}

\* Commands the device refuses, none of which makes the host send data.
MCRefused ==
    UNION {Cmd(op, "in", 0, 0, 0, 4) : op \in InfoOps}
    \cup UNION {Cmd(op, "in", 5, 0, 0, 0) : op \in NoDataOps}
    \cup UNION {Cmd(op, "in", 5, 0, 0, 0) : op \in {"inquiryBadVpd", "unknown", "verify10"}}
    \cup Cmd("inquiryBadVpd", "in", 0, 0, 0, 0)
    \cup Cmd("read10", "out", 0, 0, 1, 0) \cup Cmd("write10", "in", 8, 0, 1, 0)
    \cup Cmd("read10", "in", 5, 0, 1, 0)
    \cup Transfer("read10", "in", BlkNbr - 1, 2)
    \cup Transfer("write12", "out", 0, 0)
    \cup [tag : {0, 1}, form : {"badSignature", "short"}, dir : {"in"}, dlen : {5}, op : {"inquiry"},
          lba : {0}, n : {0}, alloc : {4}]

MCTransfers == MCGoodTransfers \cup Cmd("requestSense", "in", 5, 0, 0, 4)
               \cup Transfer("read10", "in", BlkNbr - 1, 2)

MCServable  == MCGoodTransfers \cup MCGoodOthers \cup MCRefused

\* The theorems of UsbdMsc_proofs are about hosts like these.
ASSUME MCOrderly == OrderlyHost
=============================================================================
