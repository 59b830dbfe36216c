-------------------------------- MODULE UsbdAdb --------------------------------
(***************************************************************************)
(* The debug bridge class (class/adb/usbd_adb.c): messages of a header and *)
(* perhaps a payload over two bulk endpoints, one buffer for what is sent  *)
(* and one for what is received; the shell behind it, and its host.        *)
(*                                                                         *)
(* A transfer is one step; UsbfsBulk is about its packets.  The host opens *)
(* one stream at a time, and may write to one the device has never opened. *)
(* What it fetches is what the one send buffer holds when it fetches it,   *)
(* whatever that held when the write began.                                *)
(***************************************************************************)
EXTENDS Naturals

CONSTANTS
    Duplex,     \* may one side begin a message while the other sends one?
    Wanted      \* services the host opens

ASSUME ChatAssumption == Duplex \in BOOLEAN /\ Wanted \subseteq {"shell", "sync", "other"}

VARIABLES
    adb,        \* common_state, write_state, writable and localid of adb_client
    rx, tx,     \* the messages in rx_packet and tx_packet
    reading,    \* the OUT transfer under way: into the header, the payload, or none
    writing,    \* the IN transfer under way
    shell,      \* the program: idle, with input to reply to, blocked in a write
    peer        \* the host: its step, the message it sent last, the header it got

adbVars == <<adb, rx, tx, reading, writing, shell, peer>>

Services == {"shell", "sync"}   \* those the driver knows
Commands == {"CNXN", "OPEN", "OKAY", "WRTE", "CLSE"}

\* A message has a payload or not; to OPEN and WRTE belongs the service.
Msg(command, full) == [command |-> command, full |-> full, service |-> "shell"]
Open(service)      == [command |-> "OPEN", full |-> TRUE, service |-> service]
Stray              == [command |-> "WRTE", full |-> TRUE, service |-> "other"]
Messages == [command : Commands \cup {"none"}, full : BOOLEAN, service : Services \cup {"other"}]
NoMsg    == Msg("none", FALSE)

Transfers == {"none", "msg", "data"}

AdbTypeOK ==
    /\ adb \in [common : {"READ_MSG", "READ_DATA", "WRITE_MSG", "WRITE_DATA"},
                write : {"none", "AWRITE_MSG", "AWRITE_DATA"},
                writable : BOOLEAN, localid : Services \cup {"none"}]
    /\ rx \in Messages /\ tx \in Messages
    /\ reading \in Transfers /\ writing \in Transfers
    /\ shell \in {"idle", "input", "write", "lost"}
    /\ peer \in [step : {"off", "fresh", "sending", "waiting", "ready", "stream", "confused"},
                 sent : Messages, got : Messages, owes : BOOLEAN]

Away == [step |-> "off", sent |-> NoMsg, got |-> NoMsg, owes |-> FALSE]

AdbInit ==
    /\ adb = [common |-> "READ_MSG", write |-> "none", writable |-> FALSE, localid |-> "none"]
    /\ rx = NoMsg /\ tx = NoMsg /\ reading = "none" /\ writing = "none"
    /\ shell = "idle" /\ peer = Away

-----------------------------------------------------------------------------
(***************************************************************************)
(* The driver.                                                             *)
(***************************************************************************)
\* A program that has still to reply hears of the event and does not; one
\* in a write waits for usbd_adb_notify_write_done, which nothing calls.
Abandoned == IF shell = "write" THEN "lost" ELSE IF shell = "input" THEN "idle" ELSE shell

\* The CONFIGURED event.  The endpoints are open, with nothing under way.
AdbConfigured ==
    /\ adb' = [adb EXCEPT !.common = "READ_MSG"]
    /\ reading' = "msg" /\ writing' = "none"
    /\ shell' = Abandoned
    /\ UNCHANGED <<rx, tx>>

\* The RESET event is not looked at; the port has closed the endpoints.
AdbReset ==
    /\ reading' = "none" /\ writing' = "none"
    /\ shell' = Abandoned
    /\ UNCHANGED <<adb, rx, tx>>

\* usbd_adb_notify_write_done
WriteDone == IF shell \in {"write", "lost"} THEN "idle" ELSE shell

\* adb_send_msg; the messages without a payload come from adb_send_okay and
\* adb_send_close.
SendMsg(m) == tx' = m /\ writing' = "msg"

\* usbd_adb_bulk_out while a message goes out: what came is not looked at.
Ignored == reading' = "none" /\ UNCHANGED <<adb, shell, tx, writing>>

\* usbd_adb_bulk_out with a header.
TakeHeader(m) ==
    /\ IF m.full
       THEN /\ adb' = [adb EXCEPT !.common = "READ_DATA"]
            /\ reading' = "data" /\ UNCHANGED shell
       ELSE /\ adb' = [adb EXCEPT !.writable = IF m.command = "CLSE" THEN FALSE ELSE @]
            /\ shell' = IF m.command = "CLSE" THEN WriteDone ELSE shell
            /\ reading' = "msg"
    /\ UNCHANGED <<tx, writing>>

HeaderReceived(m) ==
    /\ rx' = m
    /\ IF adb.common = "READ_MSG" THEN TakeHeader(m) ELSE Ignored

\* usbd_adb_bulk_out with a payload.  A write with ids the device does not know
\* is answered with a close.  A service it does not know and the other commands
\* are not answered, and nothing is read any more.
TakePayload ==
    /\ CASE rx.command = "CNXN" ->
              /\ SendMsg(Msg("CNXN", TRUE))
              /\ adb' = [adb EXCEPT !.common = "WRITE_MSG", !.writable = FALSE]
         [] rx.command = "OPEN" /\ rx.service \in Services ->
              /\ SendMsg(Msg("OKAY", FALSE))
              /\ adb' = [adb EXCEPT !.common = "WRITE_MSG", !.localid = rx.service]
         [] rx.command = "WRTE" ->
              /\ SendMsg(Msg(IF rx.service \in Services THEN "OKAY" ELSE "CLSE", FALSE))
              /\ adb' = [adb EXCEPT !.common = "WRITE_MSG"]
         [] OTHER -> UNCHANGED <<tx, writing, adb>>
    /\ reading' = "none" /\ UNCHANGED shell

PayloadReceived ==
    /\ IF adb.common = "READ_DATA" THEN TakePayload ELSE Ignored
    /\ UNCHANGED rx

\* Mutant: only an answer with a payload is followed by the next read.
NextRead_AfterData == IF adb.common = "WRITE_DATA" THEN "msg" ELSE reading

\* Where an answer has been sent the next header is read.
NextRead == "msg"

\* usbd_adb_bulk_in
Sent ==
    \/ /\ adb.common = "WRITE_MSG" /\ tx.full
       /\ adb' = [adb EXCEPT !.common = "WRITE_DATA"]
       /\ writing' = "data" /\ UNCHANGED <<reading, shell>>
    \/ /\ adb.common = "WRITE_MSG" /\ ~tx.full
       /\ adb' = [adb EXCEPT !.common = "READ_MSG",
                             !.writable = IF rx.command = "WRTE" THEN TRUE ELSE @]
       /\ shell' = IF rx.command = "WRTE" /\ adb.localid = "shell" /\ shell = "idle"
                   THEN "input" ELSE shell
       /\ writing' = "none" /\ reading' = NextRead
    \/ /\ adb.common = "WRITE_DATA"
       /\ adb' = [adb EXCEPT !.common = "READ_MSG"]
       /\ writing' = "none" /\ reading' = NextRead /\ UNCHANGED shell
    \/ /\ adb.common \in {"READ_MSG", "READ_DATA"} /\ adb.write = "AWRITE_MSG" /\ tx.full
       /\ adb' = [adb EXCEPT !.write = "AWRITE_DATA"]
       /\ writing' = "data" /\ UNCHANGED <<reading, shell>>
    \/ /\ adb.common \in {"READ_MSG", "READ_DATA"} /\ adb.write = "AWRITE_MSG" /\ ~tx.full
       /\ writing' = "none" /\ UNCHANGED <<adb, reading, shell>>
    \/ /\ adb.common \in {"READ_MSG", "READ_DATA"} /\ adb.write = "AWRITE_DATA"
       /\ shell' = WriteDone
       /\ writing' = "none" /\ UNCHANGED <<adb, reading>>

-----------------------------------------------------------------------------
(***************************************************************************)
(* The program: it replies to its input with a write, has nothing to say,  *)
(* or closes the stream.                                                   *)
(***************************************************************************)
\* usbd_adb_can_write and usbd_abd_write
ShellWrites ==
    /\ shell = "input" /\ adb.writable
    /\ tx' = Msg("WRTE", TRUE) /\ writing' = "msg"
    /\ adb' = [adb EXCEPT !.write = "AWRITE_MSG"]
    /\ shell' = "write"
    /\ UNCHANGED <<rx, reading, peer>>

\* usbd_adb_close.  If the last message of the host was a WRTE, Sent will hand
\* the program the same input again.
ShellCloses ==
    /\ shell = "input" /\ shell' = "idle"
    /\ SendMsg(Msg("CLSE", FALSE)) /\ adb' = [adb EXCEPT !.common = "WRITE_MSG"]
    /\ UNCHANGED <<rx, reading, peer>>

ShellSilent ==
    /\ shell = "input" /\ shell' = "idle"
    /\ UNCHANGED <<adb, rx, tx, reading, writing, peer>>

-----------------------------------------------------------------------------
(***************************************************************************)
(* The host.                                                               *)
(***************************************************************************)
\* The device has nothing to say and nothing on its way.
Silent == writing = "none" /\ shell # "input"

HostSends(m) ==
    /\ reading = "msg"
    /\ HeaderReceived(m)
    /\ peer' = [peer EXCEPT !.sent = m,
                            !.owes = IF m.command = "OKAY" THEN FALSE ELSE @,
                            !.step = CASE m.full             -> "sending"
                                       [] m.command = "CLSE" -> "ready"
                                       [] OTHER              -> @]

HostConnects == peer.step = "fresh" /\ HostSends(Msg("CNXN", TRUE))

HostSendsPayload ==
    /\ peer.step = "sending" /\ reading = "data"
    /\ PayloadReceived
    /\ peer' = [peer EXCEPT !.step = "waiting"]

\* The host acknowledges what the shell has written.
HostAcknowledges == peer.owes /\ HostSends(Msg("OKAY", FALSE))

HostOpens ==
    /\ peer.step = "ready" /\ (Duplex \/ Silent)
    /\ \E s \in Wanted : HostSends(Open(s))

HostWrites ==
    /\ peer.step = "stream" /\ ~peer.owes /\ (Duplex \/ Silent)
    /\ HostSends(Msg("WRTE", TRUE))

\* The host writes to a stream that is not open.
HostStrays == peer.step = "ready" /\ (Duplex \/ Silent) /\ HostSends(Stray)

\* The host closes its stream whenever it likes.
HostCloses == peer.step = "stream" /\ ~peer.owes /\ HostSends(Msg("CLSE", FALSE))

\* What becomes of the host when it has all of a message.
Heard(m) ==
    LET told == [peer EXCEPT !.got = NoMsg] IN
    CASE m.command = "CNXN" /\ peer.step = "waiting" /\ peer.sent.command = "CNXN" ->
           [told EXCEPT !.step = "ready"]
      [] m.command = "OKAY" /\ peer.step = "waiting" /\ peer.sent.command \in {"OPEN", "WRTE"} ->
           [told EXCEPT !.step = IF peer.sent = Stray THEN "confused" ELSE "stream"]
      [] m.command = "WRTE" /\ peer.step = "stream" -> [told EXCEPT !.owes = TRUE]
      [] m.command = "WRTE" /\ peer.step = "ready"  -> told
      [] m.command = "CLSE" /\ peer.step \in {"stream", "ready"} -> [told EXCEPT !.step = "ready"]
      [] m.command = "CLSE" /\ peer.step = "waiting" /\ peer.sent = Stray ->
           [told EXCEPT !.step = "ready"]
      [] OTHER -> [told EXCEPT !.step = "confused"]

HostFetches ==
    /\ writing # "none" /\ peer.step # "off"
    /\ peer' = CASE writing = "msg" /\ peer.got = NoMsg ->
                      IF tx.full THEN [peer EXCEPT !.got = tx] ELSE Heard(tx)
                 [] writing = "data" /\ peer.got # NoMsg -> Heard(peer.got)
                 [] OTHER -> [peer EXCEPT !.step = "confused"]
    /\ Sent /\ UNCHANGED <<rx, tx>>

\* What must go on once it was begun.
AdbGoesOn ==
    \/ HostConnects \/ HostSendsPayload \/ HostAcknowledges \/ HostFetches
    \/ ShellWrites \/ ShellCloses \/ ShellSilent

Chat == AdbGoesOn \/ HostOpens \/ HostWrites \/ HostStrays \/ HostCloses

Underway == {"fresh", "sending", "waiting", "confused"}

(* The host gets the answer to each message that asks for one, whole and   *)
(* of the right kind, the device listens again after each, and a write of  *)
(* the program ends, unless the bus was reset under it: header and payload *)
(* share one buffer with the answers, and each callback must find the      *)
(* state the other one left.                                               *)
ChatGoesOn ==
    /\ peer.step \in Underway ~> peer.step \notin Underway
    /\ reading = "none" /\ peer.step # "off" ~> reading # "none" \/ peer.step = "off"
    /\ shell = "write" ~> shell # "write"
=============================================================================
