----------------------------- MODULE MCEp0Control ----------------------------
(* Small instances of Ep0Control for TLC: packets of 2 bytes and a request *)
(* buffer of 5, so that replies of zero to three packets, full and short   *)
(* last packets, and replies too long for the buffer all occur.            *)
EXTENDS Ep0Control

Reads(lens, offers, verdicts) ==
    [dir : {"in"}, wLength : lens, offer : offers, ok : verdicts, addr : {NoAddr}]

Writes(lens, verdicts) ==
    [dir : {"out"}, wLength : lens, offer : {0}, ok : verdicts, addr : {NoAddr}]

SetAddress(addrs) ==
    [dir : {"out"}, wLength : {0}, offer : {0}, ok : {TRUE}, addr : addrs]

\* A read whose handler succeeds always has something to offer.
MCReads    == Reads(1 .. 6, 1 .. 7, BOOLEAN)
MCNoData   == Reads({0}, {0, 3}, BOOLEAN) \cup Writes({0}, BOOLEAN)
MCWrites   == Writes(1 .. ReqBuf, BOOLEAN)
MCRequests == SetAddress(1 .. MaxAddr) \cup MCReads \cup MCNoData \cup MCWrites

\* Fewer lengths of the same kinds.
MCFewer ==
    SetAddress({MaxAddr}) \cup Reads({1, 4}, {1, 2, 4}, BOOLEAN)
    \cup Writes({0, 3, 4}, BOOLEAN)

\* What the theorems about the stages assume of the requests.
ASSUME MCOrderly == OrderlyRequests
=============================================================================
