----------------------------- MODULE RndisMessages -----------------------------
(***************************************************************************)
(* Ethernet frames in RNDIS messages, as the device and the host driver    *)
(* put them together (class/wireless).  A message is a sequence of units:  *)
(* a head that tells the length of the frame, the rest of the header, the  *)
(* data.  A unit stands for several octets, and the octet that pads a      *)
(* message for a unit of its own.                                          *)
(***************************************************************************)
EXTENDS Integers, Sequences

CONSTANTS
    Mps,            \* maximum packet size, in units
    HeaderLen       \* sizeof(rndis_data_packet_t)

ASSUME MessagesAssumption == Mps \in Nat \ {0, 1} /\ HeaderLen \in Nat \ {0}

Unit(t, no, k) == [type |-> t, no |-> no, k |-> k]
Frame(no, len) == [k \in 1 .. len |-> Unit("data", no, k)]
Message(no, len) ==
    <<Unit("head", no, len)>> \o [k \in 1 .. HeaderLen - 1 |-> Unit("header", no, k)]
        \o Frame(no, len)

\* The message at the start of s, and its frame.
StartsMessage(s) == s # <<>> /\ s[1].type = "head"
MessageLen(s)    == HeaderLen + s[1].k
FrameAt(s)       == SubSeq(s, HeaderLen + 1, MessageLen(s))

\* Mutant: a transfer may end with a full packet.
Padded_Never(m) == m

\* A transfer must end with a short packet, which must not be empty.
Padded(m) == IF Len(m) % Mps = 0 THEN Append(m, Unit("pad", 0, 0)) ELSE m

\* The next packet of what an endpoint has to send.
Packet(s) == SubSeq(s, 1, IF Len(s) < Mps THEN Len(s) ELSE Mps)
Rest(s)   == SubSeq(s, Len(Packet(s)) + 1, Len(s))
=============================================================================
