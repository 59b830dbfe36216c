----------------------------- MODULE UsbdStreams -------------------------------
(***************************************************************************)
(* The streaming interfaces: volume and SET_INTERFACE of the audio driver  *)
(* (class/audio/usbd_audio.c), and the video driver, which cuts a frame    *)
(* into payloads (class/video/usbd_video.c).                               *)
(*                                                                         *)
(* Volumes are 16-bit numbers in 1/256 dB on the bus and whole dB in the   *)
(* application; VolWord and VolUnit stand for 2^16 and 256.  A byte of a   *)
(* frame is the pair <<frame, position>>.  The program that produces the   *)
(* frames (not in this repository) starts one when the stream is open and  *)
(* the last one was handed over.                                           *)
(***************************************************************************)
EXTENDS Integers, Sequences

CONSTANTS
    AudioIntfs, VideoIntfs,     \* interfaces of the two drivers
    VolWord, VolUnit, QuietDb,  \* the lowest volume is -QuietDb dB
    FrameLens,                  \* possible lengths of a frame
    Payload,                    \* payload size without the header
    MaxFrames                   \* bound: frames are numbered modulo this

ASSUME StreamAssumption ==
    /\ AudioIntfs \cap VideoIntfs = {}
    /\ VolUnit \in Nat \ {0} /\ QuietDb \in Nat \ {0} /\ VolWord \in Nat
    /\ QuietDb * VolUnit <= VolWord \div 2
    /\ FrameLens \subseteq Nat \ {0} /\ Payload \in Nat \ {0} /\ MaxFrames \in Nat \ {0, 1}

VARIABLES
    opened,     \* streaming interfaces whose driver was told to open
    volume,     \* of the application, in dB
    stream,     \* stream_len, stream_offset, stream_finish, stream_frameid
    producing,  \* the program waits for the frame to be handed over
    frame,      \* the frame it works on, and its length
    packet,     \* the payload in the endpoint
    taken       \* the host: frame identifier and bytes of the frame it collects

streamVars == <<opened, volume, stream, producing, frame, packet, taken>>

NoPacket == [from |-> 0, n |-> 0, id |-> 0, eof |-> FALSE, valid |-> FALSE]
NoTaken  == [id |-> 2, bytes |-> <<>>, whole |-> FALSE]

StreamInit ==
    /\ opened = {} /\ volume = 0
    /\ stream = [len |-> 0, offset |-> 0, finish |-> FALSE, id |-> 0]
    /\ producing = FALSE /\ frame = [no |-> 0, len |-> 1]
    /\ packet = NoPacket /\ taken = NoTaken

StreamTypeOK ==
    /\ opened \subseteq AudioIntfs \cup VideoIntfs
    /\ volume \in Int
    /\ stream \in [len : Nat, offset : Nat, finish : BOOLEAN, id : {0, 1}]
    /\ producing \in BOOLEAN
    /\ packet \in [from : Nat, n : Nat, id : {0, 1}, eof : BOOLEAN, valid : BOOLEAN]

-----------------------------------------------------------------------------
\* SET_CUR: the upper half of the words are negative volumes; division
\* truncates.
ToDb(v) == IF v < VolWord \div 2 THEN v \div VolUnit ELSE -((VolWord - v) \div VolUnit)

\* GET_CUR
FromDb(db) == IF db >= 0 THEN db * VolUnit ELSE db * VolUnit + VolWord

\* The volumes GET_MIN, GET_MAX and GET_RES offer to the host.
OfferedVolumes == {FromDb(db) : db \in -QuietDb .. 0}

SetVolume(v) ==
    /\ volume' = ToDb(v)
    /\ UNCHANGED <<opened, stream, producing, frame, packet, taken>>

-----------------------------------------------------------------------------
(***************************************************************************)
(* SET_INTERFACE: audio streams in every setting but 0, video in setting 1.*)
(* The program forgets the frame it was at when its stream opens or closes.*)
(***************************************************************************)
Streams(i, a) == (i \in AudioIntfs /\ a # 0) \/ (i \in VideoIntfs /\ a = 1)

StreamSetInterface(i, a) ==
    /\ opened' = IF Streams(i, a) THEN opened \cup {i} ELSE opened \ {i}
    /\ IF i \in VideoIntfs
       THEN producing' = FALSE /\ packet' = NoPacket /\ taken' = NoTaken
       ELSE UNCHANGED <<producing, packet, taken>>
    /\ UNCHANGED <<volume, stream, frame>>

\* A closed endpoint drops what it held; the host forgets its half frame.
StreamReset ==
    /\ packet' = NoPacket /\ taken' = NoTaken
    /\ UNCHANGED <<opened, volume, stream, producing, frame>>

Least(a, b) == IF a <= b THEN a ELSE b
VideoOpen == opened \cap VideoIntfs # {}

\* usbd_video_stream_start_write; "enable" says whether the endpoint takes it.
\* The payload never carries the end-of-frame mark, even if it is the only one.
StartFrame(len, configured, enable) ==
    LET n == Least(len, Payload) IN
    /\ VideoOpen /\ ~producing /\ configured
    /\ frame' = [no |-> (frame.no + 1) % MaxFrames, len |-> len]
    /\ stream' = [len |-> len - n, offset |-> n, finish |-> FALSE, id |-> stream.id]
    /\ packet' = IF enable THEN [from |-> 0, n |-> n, id |-> stream.id, eof |-> FALSE, valid |-> TRUE]
                 ELSE packet
    /\ producing' = TRUE
    /\ UNCHANGED <<opened, volume, taken>>

\* Mutant: what is left is compared with a packet, its header included.
IsLast_Header(len) == len <= Payload + 1

IsLast(len) == len <= Payload

\* usbd_video_stream_split_transfer
SplitTransfer ==
    LET n    == Least(stream.len, Payload)
        last == IsLast(stream.len)
    IN  \/ /\ stream.finish
           /\ stream' = [stream EXCEPT !.finish = FALSE]
           /\ producing' = FALSE /\ packet' = NoPacket
        \/ /\ ~stream.finish
           /\ stream' = [len |-> stream.len - n, offset |-> stream.offset + n,
                         finish |-> last, id |-> IF last THEN 1 - stream.id ELSE stream.id]
           /\ packet' = [from |-> stream.offset, n |-> n, id |-> stream.id,
                         eof |-> last, valid |-> TRUE]
           /\ UNCHANGED producing

\* The host takes the payload and the controller reports its completion.
PayloadTaken ==
    LET bytes == [j \in 1 .. packet.n |-> <<frame.no, packet.from + j>>]
        old   == IF taken.id = packet.id /\ ~taken.whole THEN taken.bytes ELSE <<>>
    IN  /\ packet.valid
        /\ taken' = [id |-> packet.id, bytes |-> old \o bytes, whole |-> packet.eof]
        /\ SplitTransfer
        /\ UNCHANGED <<opened, volume, frame>>
=============================================================================
