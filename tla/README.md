# Formal models of the CH32L103 USB firmware and its CherryUSB stack

The firmware is a composite USB device (CDC ACM, mass storage, HID) for the
CH32L103, built on the CherryUSB device stack. `main` calls `msc_ram_init(0)`
and then spins: everything after that happens in one interrupt handler,
`USBD_IRQHandler` of `port/ch32/ch32fs/usb_dc_usbfs.c`. The repository also has
the class drivers the firmware does not register (DFU, audio, video, display,
RNDIS, ...) and the class drivers of a host. The modules here model the parts
that keep state from one packet, interrupt or call to the next; TLC checks them
on small instances, and TLAPS proves some of their properties for every
instance.

Paths are relative to `src/User/CherryUSB/` unless they start with `src/`.

## The system

| part | state it keeps | operations |
|---|---|---|
| endpoint driver, `port/ch32/ch32fs/usb_dc_usbfs.c` | `in_ep[]`, `out_ep[]` (buffer, `xfer_len`, `actual_xfer_len`), the setup structure, `dev_addr`, the two endpoint 0 toggles; in the controller: response bits, toggles, DMA pointer, `DEV_ADDR` | open, close, stall, clear stall, start read, start write, set address; the interrupts SETUP, IN, OUT, bus reset |
| control transfers, `core/usbd_core.c` 999-1213 | `ep0_next_state`, `ep0_data_buf_residue`, `zlp_flag`, `setup` | the setup, IN and OUT completion handlers of endpoint 0, the reset handler |
| requests and configuration, `core/usbd_core.c` 125-997 | `configuration`, `intf_altsetting[]`, `device_address`, `remote_wakeup_enabled`, `is_suspend` | standard, class and vendor request handlers, `usbd_set_configuration`, `usbd_set_interface`, notification of the class drivers |
| mass storage, `class/msc/usbd_msc.c` | `stage`, `cbw`, `csw`, sense data, `start_sector`, `nsectors`, `block_buffer` | `mass_storage_bulk_out`, `mass_storage_bulk_in`, 15 SCSI commands, two class requests, RESET and CONFIGURED events |
| application, `src/User/USB/usb_msc.c` | none: the disk is computed | sector read and write, registration of the classes |
| CDC ACM, HID | none the firmware uses: endpoint callbacks are NULL | answers to class requests |
| firmware update, `class/dfu/usbd_dfu.c` | `dfu_state`, block number, address pointer | seven class requests, and weak functions of the application |
| audio, video, `class/audio`, `class/video` | open streams, volume; position in a frame, `frameid` | class requests, SET_INTERFACE, splitting of a frame into payloads |
| debug bridge, `class/adb/usbd_adb.c` | `common_state`, `write_state`, `writable`, `localid`; one packet to send, one received | bulk callbacks, write and close of the program, CONFIGURED event |
| display, `class/vendor/display/usbd_display.c` | pool of frames, `current_frame`, offset, "ignore" flag | bulk callback, CONFIGURED event, take and free a frame |
| ring buffer and pool, `common/usb_ringbuffer.h`, `usb_mempool.h` | two free-running counters and a pool | write, overwrite, peek, read, drop, linear access |
| network device, `class/wireless/usbd_rndis.c` | one answer buffer, link state, one frame in each direction | encapsulated commands and answers, bulk callbacks, link changes |
| network host, `class/wireless/usbh_rndis.c` | one control buffer, request number, receive buffer | connection, receive thread, send |
| serial host, `class/serial/usbh_serial.c` | two transfer buffers, ring, "pending" flag, error code, semaphore | transfer callback, open, close, set attributes, read |
| hub, `class/hub/usbh_hub.c` | children, change bitmaps, interrupt transfer and timer of each hub, queue | one thread: debounce, reset, enumerate, release |
| mass-storage host, `class/msc/usbh_msc.c` | `blocknum`, one static CBW/CSW buffer | connection, initialisation, sector read and write |

**How they interact.** On the device the controller interrupts the processor
when a packet was moved. The driver updates its endpoint record and calls the
core (`usbd_event_ep0_*`, `usbd_event_ep_in/out_complete_handler`), which calls
the class driver through the callback table; the class driver starts the next
transfer by calling back down. All of it happens before the handler returns, so
one packet is one atomic step, and the concurrency is between the device and the
host, and between the handler and the program where a class driver shares data
with it (display, RNDIS). There is no timer: **only a packet makes the device do
anything**, so a step that forgets to arm an endpoint silences it for ever. A
host driver has threads, which wait for transfers, and callbacks of the
controller's interrupt, which run between any two of their steps.

**What is hard.**

- Transfers are cut twice: into chunks of a buffer by the class driver and into
  packets by the endpoint driver.
- Endpoint 0 has one DMA pointer for both directions, and SETUP packets land
  wherever it points.
- Handshakes get lost: the side that sent one has finished the transaction, the
  other repeats it. The driver keeps the toggles of endpoint 0 by hand; the
  controller keeps those of the others.
- Hosts call transfers off, clear halts, select settings, suspend and reset the
  bus in the middle of anything, and then assume a known state.
- Rings are shared without a lock; flags are set in a callback and cleared in a
  call.
- Host drivers go on after an error with a device that has not noticed it, and
  devices are unplugged while a thread works on them.
- Lengths are unsigned and differences wrap.

**What makes each part correct.** Mass storage: a status honest about tag,
residue and success, data at the right position, accesses inside the medium,
readiness for the next command. Control transfers: the device works on the
request the host has in progress, each byte once and in order, stages that agree,
an end to every request. Bulk endpoints: every packet exactly once and in order,
no byte past the buffer. Requests: what the host selected is open, served and
truly reported. Updates: whole images. Frames and streams: whole, in order, once.
Rings: a queue, whoever interrupts whom. Hub: what is enumerated is what is
plugged in. Host drivers: no success that was none.

## The modules

### UsbdMsc (MCUsbdMsc, UsbdMsc_proofs)

`class/msc/usbd_msc.c` on its two bulk endpoints. `stage`, `cbw`, `csw`,
`startSector` and `nsectors` are the fields of `g_usbd_msc`; `sense` is the
key/code pair. `block_buffer` is reduced to `block`, the sector whose data it
starts with: enough to say *which* data is sent. An endpoint is a record of the
response bits (`resp`) and of `xfer_buf`, `xfer_len`, `actual_xfer_len`. Each SCSI
command is an operator named after its function, and the operators `CbwDecode`,
`BulkOut` and `BulkIn` are the dispatching of the code. One action is one packet
(`SendCommand`, `SendData`, `FetchData`, `FetchStatus`) with everything the handler
does, or one control request (`ClearHalt`, `ClassReset`, ...).

The host follows the Bulk-Only protocol. It gives up on an endpoint that NAKs and
will go on to (`Stuck`), and when `Impatient` on any transfer; it then recovers by a
bus reset, by the class request and clearing both halts, or by SET_CONFIGURATION,
as the constant `Recoveries` allows. An error of the medium is a free choice wherever a
sector function is called, if `MediaFaults` has it. Handshakes do not get lost here;
`UsbfsBulk` covers that and shows that the driver hides it.

### UsbhMsc (MCUsbhMsc, UsbdMsc_proofs)

`class/msc/usbh_msc.c` in the place of that host: the same device actions, but the
commands, their order and the reaction to errors are those of the driver and not of
the protocol. `step` is where `usbh_msc_scsi_init` is, with its loop of TEST UNIT
READY and REQUEST SENSE; `SendCbw`, `PushData`, `PullData`, `PullCsw` are the parts of
`usbh_bulk_cbw_csw_xfer`. Every transfer may fail as the bus makes it fail, and those in
`Timeouts` also when the device would still have answered. `right` and `stored` record
whether each packet came from, or went to, its place.

### FakeDisk (UsbdMsc_proofs)

`usbd_msc_sector_read` of the application: what each of the 4,294,967,280 sectors
reads as, against the places the partition table, the boot sector and the root directory
name. The numbers are those of the code, which is why this module is proved about
(in `UsbdMsc_proofs`) and not run. `UsbdMsc` has a general medium in its place.

### Ep0Control, ControlPipe (MCEp0Control, Ep0Control_proofs)

`Ep0Control` composes the three completion handlers of `core/usbd_core.c` with the
endpoint 0 half of the interrupt handler, because the two share the transfer:
which one restores the DMA pointer, the toggles and the response bits, and when,
is what can go wrong. `dma` says where the DMA pointer is; if it is not at the
setup structure when a SETUP packet arrives, the handler reads the old request
(`SetupInterrupt`). A request is reduced to direction, `wLength`, the length the
handler offers, its verdict, and the address of a SET_ADDRESS. The host keeps its own
stage, toggle, position and address; `Loss` names the packets whose handshake may
get lost, `Aborts` the stages in which the host may call the request off, `BusResets`
whether it may reset the bus.

`ControlPipe` is the abstract specification: a request is submitted, its data moves
forward, and it passes with all of its data exactly if the device serves it, is
refused if it does not, or is called off. Two things are recorded in `outcome` while a
request is in progress: that its SETUP packet was not taken (`dma` was not at the setup
structure), after which the device executes an older request and the pipe promises nothing
("lost"); and that a packet of a write was taken twice ("spoilt"), after which the
request does not pass. In `ImplementsPipe` `busy` is the host's phase,
`Goal` the length of the data stage, `Serves` the verdict and the size of the request
buffer.

### UsbfsBulk (MCUsbfsBulk, UsbfsBulk_proofs)

The other endpoints of the driver: one OUT and one IN endpoint with transfers of any
length, toggles, lost handshakes in both directions, stalls, cleared halts and
SET_INTERFACE. `AUTO_TOG` is external: the controller flips the transmit toggle on an
acknowledgement and the receive toggle on an expected packet; the handler looks at
`TOG_OK` (`Expected`). `copies` counts how often the packet of the host was taken;
`astray` records the two ways in which data gets past the end of a read: more than is
left of it ("spilt"), or an endpoint that acknowledges after a cleared halt although no
read is in progress ("unread").

### UsbdCore, UsbdDfu, UsbdStreams, UsbdAdb, and CompositeDevice which composes them (MCCompositeDevice, CompositeDevice_proofs)

`UsbdCore` is what lies above the stages of endpoint 0: SET_CONFIGURATION, SET_INTERFACE,
features and halts, addresses, bus reset, suspend and resume, and the order in which
endpoints are opened and class drivers are told. The walk over the descriptor bytes is
a table from interface and setting to endpoints. `UsbdDfu` is the state machine of the
update class with the weak functions of the application; `UsbdStreams` the volume and
SET_INTERFACE of the audio driver and the splitting of a frame by the video driver.
`UsbdAdb` is the debug bridge with a program behind it (a shell that replies, keeps
silent or closes) and a host that connects, opens, writes (also to a stream that is not open), acknowledges and closes: the
answers to the host and the writes of the program share one send buffer and one
endpoint, and two state words tell the callbacks whose transfer has ended.
A handler is an operator; `CompositeDevice` makes actions of them: an operating system
sends any request in any order (`System`), the bus is reset, suspended and resumed
(`Bus`), an update tool loads, polls, uploads, misses answers and resets
(`Tool...`), a player consumes frames (`Play`), a debugger talks to the shell (`Debug`). `known` is what the host may believe
after what it did: the settings of interfaces it has selected, halts, the wakeup
feature, the volume. The four kinds of user do not run together: they share no state
of the device, and the product would only multiply the states.

### RingBuffer (RingBuffer_proofs), UsbdDisplay, FrameQueue (MCUsbdDisplay, UsbdDisplay_proofs)

`RingBuffer` has every function of `common/usb_ringbuffer.h` as an operator on a record
`[in, out, pool]` with counters modulo `Wrap`. A write is also given in two parts, the
copy (`Copied`) and the index (`Pushed`), and a read likewise, so that a module can
put another context between them. `UsbdDisplay` is the bulk callback and the pool of
`class/vendor/display`: the callback is one step, `usb_mempool_recv` and
`usb_mempool_free` of the program are four. `FrameQueue` is what the program is
promised: whole frames, in order, each once, unchanged while it holds one, with drops
only before the queue.

### UsbhSerial, ByteStream (MCUsbhSerial, UsbhSerial_proofs)

The receive path of `class/serial/usbh_serial.c`. The callback is two steps, because the
controller fills one buffer (`Fill`) while the callback still copies the other
(`CallbackStarts`, `CallbackCopies`). The program's read locks nothing and is cut wherever the
callback may interrupt it: the test of the room (`ReadStarts`), the test of `rx_pending`
(`TestsPending`), the write of it (`ClearsPending`), the submit (`Submits`), and then waiting,
copying and advancing. `Open`, `Close` and
`SetAttr` are the calls of the same program. `pending`, `errorcode` and `sem` are
`rx_pending`, `rx_errorcode` and the count of the semaphore. `overtaken` records that a callback put
bytes into the ring between the first test of a read and its submit, and that such a read has started
the transfer under way: the room it has seen may be gone. `ByteStream` is the promise to the
reader: bytes in order, each once, lost only at a fault, at a new session, or as the tail of
an overtaken transfer that finds the ring full.

### RndisMessages, UsbdRndis, UsbhRndis, and RndisLink which composes them (MCRndisLink, UsbHost_proofs)

The network function and the network driver on one bus: the exchange of commands and
answers over one buffer on each side, indications of the device's program in between
(`TestConnect` and `SetConnect` are the test and the writes of `usbd_rndis_set_connect`; `indicating`
records a command that came between them), and
frames in messages, cut into packets, padded and reassembled. A unit of data stands for
several octets. `Control`, `DeviceSends`, `PacketToHost`, ... are the actions of
`RndisLink`, which also keeps what is on its way. Its specification is `LinkSpec`, since the
proofs about it share a module with those about the hub.

### UsbhHub (MCUsbhHub, UsbHost_proofs)

The hub thread of `class/hub/usbh_hub.c`, cut at each request it sends and each delay:
receive a message, read the status of a port, acknowledge, debounce, reset, enumerate,
release; the interrupt transfer and the timer of an external hub; and a user who plugs
functions and a hub in and out at any moment (`Replug`). `usbh_hub_disconnect` is three steps
(`Release` kills the transfer, then `DeleteTimer`, then `FreeHub` clears the structure), and the timer
and the transfer go on between them; `refired` records that the timer fired there. `gaveUp` and `deaf` record the ports
and hubs that an error has silenced, so that the properties can say what is promised
for all others.

## Runs

| run | question | states | bounds |
|---|---|---|---|
| `msc_commands` | every command, accepted and refused, every recovery after a stall | 29,474 | 6-bit words, packets of 4, sectors of 8 (two packets), a buffer of one sector, transfers of 1 to 3 sectors |
| `msc_faults` | medium errors, impatient host, bus reset | 8,254 | the same with a buffer of two sectors, so that last chunks are full and partial |
| `msc_host` | can the host driver report a success that was none? | 8,884 | the same sizes; calls of 1 to 3 sectors at both ends of the medium, two tries of the initialisation |
| `ep0_transfers` | all control transfers, the losses USB expects a device to survive, resets | 6,205 | packets of 2, request buffer of 5: zero to three packets, full and short last ones, replies too long; addresses 0 to 2 |
| `ep0_lossy` | every loss, every stage called off, refused requests of both directions, resets | 143,374 | the same sizes, fewer lengths |
| `bulk_pipes` | both directions, losses, stalls, another setting | 195,040 | packets of 2, reads of 1 and 3 packets, writes of 0 to 5 bytes |
| `composite_device` | requests, settings, halts, suspensions, resets; updates; streams; the debug bridge | 482,073 | three interfaces (a reader, an audio stream out, a video stream in), images of two blocks, frames of 1, 4 and 5 bytes in payloads of 2; both services of the bridge, one side speaking at a time |
| `display_frames` | frames of every kind against a slow program | 299,289 | two blocks of four packets, reads of two packets, frames from one short packet to too long, two configurations |
| `display_assert` | does the assertion of line 130 hold? (violated) | | |
| `serial_port` | reader, callback and controller, faults, new sessions | 675,230 | ring of 4 bytes with counters modulo 8, transfers of 3 with a header of 1, one fault, 2 sessions |
| `rndis_link` | commands, frames both ways, failing requests, resets | 966,251 | packets of 4 units, a device buffer of 6 and a host buffer of 8, messages that fill a packet and that do not, two frames on their way at most, one fault |
| `hub_ports` | devices and a hub come and go | 272,001 | a hub of two ports on a root port, 5 times plugged in or out, one fault, queue of two |

The bounds are enough for what the properties tell apart: a middle, a full last and a
short last packet, chunk or payload; the first and last sectors of the medium; words just
large enough for every length that occurs, so that a wrong difference wraps; rings
that fill, empty and wrap. One command, request, transfer or update is in progress
at a time in the code itself; sequences of them are unbounded in every run, except
that faults, resets of `rndis_link`, sessions and plugs are counted, each high enough
for a fault to meet every step of what follows another event. Numbers that only
identify (frames, bytes, commands) are counted modulo a bound above what can be on
its way at once.

Deadlock is checked but for `serial_port` (a program that has opened its port as often as
the bound says and closed it), `rndis_link` (a host that has hung or is not registered) and
`hub_ports` (the thread may be ended).

### Fairness

- `UsbdMsc`: weak fairness of `Next`. The host controller retries a NAKed token for as
  long as a transfer is queued, a driver gives up on a dead endpoint and recovers; the
  device needs no fairness of its own, since its code runs inside the packet.
- `Ep0Control`: weak fairness of `Deliver`, the host's side of the request in progress. It
  retries what was not answered, and handshakes are not lost for ever. `Submit`,
  losses, call-offs and resets are not fair: they need not happen.
- `UsbfsBulk`: weak fairness of one packet getting through in each direction, and of the
  class driver asking for more data after a read, which is what a registered callback
  does.
- `CompositeDevice`: weak fairness of the update tool, which goes on with what it has
  begun and resets a device that refuses everything; of the debugger and the shell,
  which answer what they got. Neither has to begin anything.
- `UsbdDisplay`: weak fairness of the host's packets and of the program, which loops over
  receive and free.
- `UsbhSerial`: the interrupt is taken (weak); the program's read and a packet with data
  are strongly fair, since interrupts, empty packets and restarts disable and enable them
  again and again; the attributes are set after an error.
- `RndisLink`: packets move, the receive thread and the device's polling program run, the
  host goes on connecting. Nobody has to send.
- `UsbhHub`: the thread and the timer run, and a poll of a hub that has something to
  report completes. `msc_host` and `ep0_lossy` state safety only and assume nothing.

### What the runs show

- *Mass storage.* A conforming host never gets stuck with commands the device accepts; a
  status carries its tag and the true residue; a passed transfer has moved all of its bytes;
  the sector in the buffer is the one the host expects; after any refusal and any
  recovery service resumes.
- *The host driver*, which checks neither tag, length nor residue and recovers from
  nothing, still never reports a success that was none, as long as no transfer of data
  *to* the device times out while the device would have gone on: the device's stalls
  protect it.
- *Control transfers* are a control pipe, and every request ends, under the losses USB
  expects a device to survive. Under any loss and any call-off, a request whose SETUP packet the
  device has taken passes only if it is served, with all of its data and none of it
  counted twice, and is refused only by a device that means it; but it may not end without a bus
  reset. Of a request whose SETUP packet is lost, because an earlier one left the DMA pointer
  on the request buffer, nothing is shown: the device executes an older request in its place.
- *Bulk packets* are taken once and in order, and transfers end, as long as the host does
  not select alternate setting 0. No data passes the end of a read, as long as
  the host sends no more than was asked for and clears a halt only where a read is in
  progress.
- *Requests.* Endpoints of what the host has selected are open, read from and truly
  reported in any order of configurations, settings, halts, suspensions and resets; no
  broken-off update leaves a mixed image; an update can always be ended; each video
  frame arrives whole. A debugger gets an answer to every message that asks for one and a
  write of the shell ends, while one side speaks at a time and the bus is not reset.
- *Display.* The pool is a queue of whole frames as long as the device is not configured
  while the program works on frames; dropping of a frame always ends.
- *Serial.* The callback starts a transfer only when the ring has room for it and for what is on
  its way, and so does a read that no callback overtakes between its tests; bytes come in order and
  once, but for those of an overtaken transfer that find the ring full; a blocked reader is never the one who should have
  started the transfer.
- *Network.* Each command gets its own answer, unless it comes between the test and the writes of
  `usbd_rndis_set_connect`; frames arrive whole, in order and once.
- *Hub.* What the driver has enumerated is what is plugged in, or a change is still to be
  worked on; the thread works for no hub that was released. Timer and transfer of a hub end with it, unless
  the timer fired while it was released: then the transfer may outlive the structure.

The violated run, listed with its quotation under "findings" in `PROJECT.json`:
*display_assert*. A frame that fills its last packet is not seen to end
(`usbd_display.c:100`): the next one is appended until the assertion of line 130 fails.

## Theorems

`tlapm` proves these for all values of the constants that satisfy the named assumptions
of the modules.

| theorem | statement | argument |
|---|---|---|
| `UsbdMsc_proofs!TypeCorrect` | `Spec => []TypeOK` | `TypeInv`: `TypeOK` strengthened by the fact that a host in its data stage still has data to send, without which the length of the next packet need not be a number of bytes |
| `StatusIsHonest`, `ReadsAtPosition`, `WritesAtPosition`, `AccessesInRange`, `PacketsFit` | `OrderlyHost` implies `Spec => []HonestStatus`, and likewise `ReadPosition`, `WritePosition`, `MediaInRange`, `TransferFits` | `ServiceInv`: while a command is worked on, the device is in one of six situations (refused, reading, replying, read failed, writing, status offered), and each ties `startSector`, `nsectors`, the endpoint and the residue to what the host has moved. None of the five is inductive, nor is any two of them: where the next packet goes depends on what the last chunk left |
| `WaitsForCommand` | with `"read" \notin MediaFaults` also `Spec => []ReadyForCommand` | the same; after a first read that fails, stage and endpoint disagree (`ReadFailed`) |
| `SuccessAlwaysReal` | `OrderlyProgram` implies `HostSpec => []SuccessIsReal` | `HostInv`: the six situations again, and what else the driver of the host, which recovers from nothing, can meet: two endpoints that move nothing until the next connection (`Dead`), or, between commands, one that is silent or takes a command. Each command finds the device waiting for it or gets no status at all; `Tracked` says in which situations every byte was in its place so far |
| `Ep0Control_proofs!TypeCorrect` | `Spec => []TypeOK` | strengthened by `DataBounded`: the data of a control write does not run past `wLength` |
| `AlwaysAnswers` | `Spec => []NeverMute` | inductive as it stands, for any host and any request |
| `RequestsLand`, `ReadyBetweenRequests` | `OrderlyHost` implies `Spec => []ActsOnRequest`, `Spec => []ReadyForSetup` | `SetupInv`: where the DMA pointer is in each stage, that a stall takes it back, and the position of a control write, which decides when its data is complete |
| `AddressesAgree`, `StagesInStep` | with `OrderlyRequests` also `Spec => []AddressInStep`, and, if the acknowledgement of a last packet is not lost, `Spec => []StagesAgree` | `StageInv`: how much of a reply the device still has, against the host's position; it is one packet behind when an acknowledgement was lost, and the toggle says which of the two it is (`Behind`) |
| `ControlImplementsPipe` | with both assumptions `Spec => ImplementsPipe` and `Spec => [](Busy => outcome = "none")`, so that no request is lost or spoilt | the refinement step by step: a packet that the host takes moves its position, a repeated one is a stutter, a status ends a request with all of its data moved |
| `UsbfsBulk_proofs!TypeCorrect` | `Spec => []TypeOK` | strengthened by `Progress` |
| `ReadsFit` | `Spec => []TransferFits` | inductive with the types: a packet takes from what is left of a read and adds to what it has |
| `PacketsOnce` | `0 \notin Alts` implies `Spec => []ExactlyOnce` | `OutInStep`: the two toggles tell whether the packet was taken |
| `WritesInOrder` | `0 \notin Alts` implies `Spec => []InOrder` | `InInv`: position, toggle and last packet together |
| `CompositeDevice_proofs!TypeCorrect` | `Spec => []TypeOK` | with the invariants of updates, frames and the bridge, on which the types of lengths and positions depend |
| `AwakeAlways` | `Spec => []AwakeWhenActive` | inductive as it stands |
| `AnswersAgree` | `Spec => []AnswersTruly` | `AnswersInv`: what the host has noted of a selected interface stays true without the guard that the device is configured; the volume survives the conversion to decibels and back |
| `ServesAlways` | `OrderlyLayout` implies `Spec => []Serves` | `ServesInv`: also the default settings stay open, since no class driver closes what another opened |
| `ImagesWhole` | `Spec => []WholeImages` | `LoadInv`: for each step of the tool the states in which the device can be; a lost answer leaves it one state ahead, in a state that refuses the repetition |
| `FramesAreWhole` | `Spec => FramesWhole` | `FrameInv`: position of driver and host around the payload in the endpoint; the identifier of frames flips with the last payload |
| `RingBuffer_proofs!WriteAppends`, `ReadTakesFront` | a write appends to the content what fits, a read takes its front | the content as a function of the two counters; a position of the pool determines the unit, since fewer than `Size` are in the ring and `Size` divides `Wrap` |
| `WriteDuringRead` | a write between the two halves of a read disturbs neither | the positions a write copies to are free ones |
| `OverwriteKeepsNewest`, `LinearReadIsFront`, `LinearWriteAppends` | what the overwriting write drops and keeps; access in place | from the two theorems on write and drop |
| `UsbdDisplay_proofs!TypeCorrect` | `Spec => []TypeOK` | counting: the blocks in the rings and in hands are `Size`, so the semaphore, whose count follows the ring of full frames, stays below its limit |
| `OnePlaceEach` | `Spec => []OnePlace` | `PoolInv`: `Size` places in all (`Places`), each block in one of them, hence by the pigeonhole principle none in two (`Apart`); a receive that got the semaphore finds a frame; `WriteDuringRead` and its like for the interrupt between two steps of a call |
| `DisplayImplementsQueue` | `FramesEnd` implies `Spec => ImplementsQueue` | `Receiving`: the block under way holds what the host has sent of its frame, and the read goes on from there |
| `AssertsNothing` | `FramesEnd` and `FramesFit` imply `Spec => []AssertionHolds` | the same: reads are full until the frame ends, so the offset is a multiple of `ReadLen` below a length that the size test has let pass |
| `UsbhSerial_proofs!SerialTypes` | `Spec => []TypeOK` | with the lengths of the two buffers |
| `SerialRoom` | `Spec => []RoomForTransfers` | `IInv`: the room counts what the callback still copies; a reader that was not overtaken only makes more (`SeenRoom`), and the callback looks at the room itself after an overtaken one |
| `SerialImplementsStream` | `Spec => ImplementsStream` | the refinement step by step: what is in the ring and in the buffers is one run of consecutive bytes; only a copy of an overtaken transfer may be cut (`Overflow`) |
| `UsbHost_proofs!TypeCorrect` | `Spec => []TypeOK` | inductive as it stands |
| `HubIsOwn` | `Spec => []OwnHub` | `OwnPorts`: a hub reports its own ports only, and the thread keeps to those of the hub whose message it received, so it is not in a hub whose release has begun; only the timer starts a transfer again once it was killed |
| `NoChangeIsLost` | `Spec => []NothingStale` | `Tree`: without a hub there is nothing on its ports, for the user and for the driver; `Fresh`: what is plugged in while the thread resets or enumerates a port reports a change |
| `FramesAreIntact` | `LinkSpec => FramesIntact` | `LinkInv`: for each direction where the frames on their way are: what the receiver has, in full packets, and what is still to come make up the message of the first; the padding keeps every message from a multiple of the packet size (`WholeIs`), so that exactly its last packet is short (`PacketArrives`) |
| `AnswersOwn` | `LinkSpec => OwnAnswer` | `OwnInv`: while an answer is to be fetched the buffer holds it, or was spoilt by an indication that tested before the command; nothing is being asked when the device is configured anew |
| `UsbdMsc_proofs!TablesAgree`, `NothingElse`, `SizesFit` | the chain of tests of `FakeDisk` puts every structure where the tables say it is, and nothing anywhere else; the areas fit | arithmetic |
| `BackupIsCopy`, `TailIsShifted` | the backup boot region is a copy; the one at the end of the disk is not | arithmetic; see below |

Assumptions on constants. `SizesAssumption` and its like in each module: sizes are positive and smaller than
the word; in `UsbdMsc` a sector is a whole number of packets and the buffer a whole number of
sectors (512, 64 and `CONFIG_USBDEV_MSC_MAX_BUFSIZE`); in `UsbdRndis` the frames fit the receive buffer with their header, whose
size need not be a number of packets (it is 1580);
`RingAssumption`: the size of a ring divides the range of its counters, since both are powers of
two and `usb_ringbuffer_init` refuses other sizes.

Hypotheses of theorems. They say of the host, or of the application, what the code relies on and does
not enforce; the observations below show for each what happens without it.

- `OrderlyHost` of `UsbdMsc`: the host sends data only with a write that the device accepts, the numbers of its
  transfers do not wrap the words of the device, and it recovers by a bus reset or else never has to in the middle
  of a transfer. Both mass-storage runs satisfy it (`MCOrderly` of `MCUsbdMsc`).
- `OrderlyProgram` of `UsbhMsc`: the numbers of the program's calls do not wrap the words of the driver, which cuts
  the count to 16 bits, or of the device; it writes only to sectors the medium has; and no transfer of the data of a
  write times out while the device would have gone on, where `SuccessIsReal` is false. The run satisfies it
  (`MCOrderly` of `MCUsbhMsc`).
- `OrderlyHost` of `Ep0Control_proofs`: the host calls nothing off and writes no more than the request buffer
  holds, and no handshake of a received data packet or of an IN status is lost. `ep0_transfers` satisfies it;
  `ep0_lossy` does not, where TLC checks `ImplementsPipe` under losses the theorem leaves out.
- `OrderlyRequests` of `Ep0Control`: a successful reply to a read is not empty, and SET_ADDRESS has no data and
  another address than 0. Both runs satisfy it (`MCOrderly` of `MCEp0Control`).
- `OrderlyLayout` of `CompositeDevice`: a driver that reads from the start does so in the default setting, and a
  streaming driver opens exactly in the settings that have endpoints, as the descriptors of such devices do. The run satisfies
  it (`MCOrderly` of `MCCompositeDevice`).
- `0 \notin Alts` of `UsbfsBulk` excludes the alternate setting that keeps its toggles.
- `FramesEnd` and `FramesFit` of `UsbdDisplay_proofs`: a frame ends with a short packet, or else fills a whole number of reads,
  so that the empty packet after it ends a read of its own; no frame has exactly the size of a buffer. `display_frames` satisfies
  both, and `display_assert` violates the first.

Every safety and action property of the runs is stated by a theorem. Only model-checked: all liveness (`ServiceResumes`,
`EveryRequestEnds`, `PacketSettled`, `WriteEnds`, `UpdateEnds`, `ChatGoesOn`, `FramesKeepComing`,
`BytesKeepComing`, `FramesArrive`, `PortsSettle`), which is beyond the prover's backends.

## Observations

Found while modelling; where a property would be violated by one, its run leaves the case out by
the constant or guard named here.

Mass storage device
- A medium error makes the code queue a failed CSW while the host is still in its data phase
  (`usbd_msc.c:792`, 821, whose comments promise the host a status to retry on). The fake disk never fails.
- `usbd_msc_bot_abort` re-arms the OUT endpoint it has just stalled (146); the data of a refused write
  goes into the 31-byte `cbw` (`MCRefused` has no write whose host sends data).
- The class reset only rewrites the stage (71): in the middle of a write the next CBW is received into
  `block_buffer` and the old one is decoded again. SET_CONFIGURATION likewise arms a read for a CBW and keeps
  the stage (132). Both recoveries are taken between commands.
- A READ whose `lba + n` wraps passes the range check (521); `n * block size` wraps for READ(12) (526).
- The copy of the boot region at the end of the fake disk is read with the offset of the first one
  (`src/User/USB/usb_msc.c:223`), four sectors out (`TailIsShifted`). The first byte of its bitmap, 0x1C, marks
  clusters 4 to 6 by the rule that bit 0 is cluster 2, where the comment and the FAT mean 2 to 4. The header
  comment disagrees with the tables on nearly every number. The tables are 512 bytes: a larger block buffer would read past them.

Mass storage host
- A timeout in the data phase of a write puts the next CBW into the device's block buffer, the next data at the
  sectors of the first call, and the CSW is accepted since all tags are 0 (`Timeouts` leaves out "dataOut").
- The sector count is cut to 16 bits, so a call for 65,536 sectors or more reports success for fewer. Two callers
  share the CBW buffer without a lock. After a read that times out the driver is useless until the next connection.

Control transfers
- A successful empty reply to a read gets two empty packets and no status stage (`usbd_core.c:1105`); requests for the
  report descriptor of an interface without one get there. The runs have no empty reply.
- The SETUP interrupt does not point the DMA at the setup structure (`usb_dc_usbfs.c:276`). It is left on the request buffer by a
  request with data that is called off in any stage, by a lost status handshake of a write, and by a repeated last packet of a refused
  write. The next SETUP packet then lands there and the previous request is executed again, so that a request the device would refuse may
  pass, or the other way round ("lost" in `ImplementsPipe`; `ep0_transfers` leaves these cases out).
- A write longer than the request buffer is stalled, but the data of a host that sends them all the same land in the setup structure and are counted
  against the residue of an earlier request. The runs have no such write.
- SET_ADDRESS(0) is taken at once, before its status. If the status handshake of a SET_ADDRESS is lost or it is called
  off, the sides differ in the address until a bus reset (`Loss`, `Aborts`).

Bulk endpoints
- CLEAR_FEATURE of an OUT endpoint makes it acknowledge even if no read is in progress (`usb_dc_usbfs.c:163`): the next packet is copied
  behind the buffer of the last read, and `xfer_len` wraps (355-359). "unread" in `TransferFits`.
- A packet is copied whole, whatever is left of the read (355). The debug bridge reads 24 bytes and the network device 1580, which are no numbers of
  packets, so a host that sends more than a message writes behind them. "spilt" in `TransferFits`.

Device core
- SET_INTERFACE with setting 0 keeps toggles and transfers, since `usbd_ep_close` does nothing (455): the host's next
  packet may be dropped as a repetition (`0 \notin Alts`).
- `intf_altsetting` is not cleared by SET_CONFIGURATION or a reset, `remote_wakeup_enabled` and `is_suspend` survive
  a reset; SET_CONFIGURATION(0) only clears the value although 339 says "A configuration index of 0 unconfigures the device.".
- Starting a transfer overrides a halt of the host. SET_FEATURE(HALT) and CLEAR_FEATURE during a write drop it silently (728).
  GET_STATUS of an endpoint answers from an uninitialised variable (704). SET_INTERFACE indexes `intf_altsetting[16]` unchecked (668), and
  one for a missing setting notifies the drivers with NULL, which audio and video dereference.
- `usbd_set_interface` stops at the end of the first configuration of several. String lengths are cut to 8 bits.

DFU, streams, display
- DFU: UPLOAD in UPLOAD_IDLE leaves the length unset, and an image whose first block is not full leaves the device in UPLOAD_IDLE; DFU_ERROR refuses GETSTATUS; an empty DNLOAD is accepted in
  DFU_IDLE; `begin_load` and `end_load` are called for uploads as well.
- The video driver has its interface numbers fixed to 0 and 1.
- Debug bridge: a write to a stream that is not open is answered with CLSE, and its payload is given to the shell all the same if the
  stream opened last is the shell's. A message of the host that arrives while the program writes overwrites `tx_packet` under the transfer
  (`Duplex`); an OPEN of an unknown service is never answered, and nothing is read after it nor after
  another command with a payload it does not expect (`Wanted` leaves out "other"). The
  RESET event is ignored: a program in a write then waits until the host sends a CLSE, `writable` survives, and a reply after a
  reset would collide with the answer to CNXN (`Abandoned` drops it). `usbd_adb_close` after a WRTE hands the program the same
  input again, and a CLSE of the host meanwhile is ignored. `localid` and `writable` are shared by both services.
- Display: the CONFIGURED event resets the rings under a program that uses them, and not the semaphore (55, with the
  comment "should be add lock in multithread"); `AnySpec` of `UsbdDisplay` violates `OnePlace`. The first frame after it is always dropped.
  A frame of exactly the size of its buffer passes the size test (91) and then fails the assertion of line 130 like one that is
  not seen to end (`FramesFit`).

Host drivers
- Serial: `usbh_serial_read` tests the room, tests `rx_pending` and submits without a lock (`usbh_serial.c:499-501`). A callback between the first
  test and the second fills the ring and puts its transfer off, and the reader starts one for which there is no room; the write of
  line 132 then drops bytes without an error (`overtaken`).
- Serial: after a failed transfer only SET_ATTR revives the port; SET_ATTR leaves `rx_pending` set, so the next read is refused as
  busy; left-over counts of the semaphore make a blocking read return 0; a failed submit in the callback drops bytes. SET_ATTR or close in a second
  thread would corrupt the ring.
- RNDIS device: `usbd_rndis_set_connect` tests and writes the shared buffer unlocked (`usbd_rndis.c:631-649`), and a command in between loses
  its answer ("spoilt"). The clip of `usbd_rndis_eth_tx` (575-577) leaves no room for the header it adds, so a frame near the size of the buffer passes its
  end; the frames of the model fit. HALT leaves an answer on offer; SET_CONFIGURATION without a reset leaves the send path busy; a frame of length 0 leaves the receiver off; a reset during
  `usbd_rndis_start_read` loses a frame (`Quiet`).
- RNDIS host: request number and type of an answer are not looked at; an overflow of the receive buffer loops for ever (`hung`).
- Hub: `usbh_hub_disconnect` kills the transfer (`usbh_hub.c:456`) before it deletes the timer (460), which may submit it again in between: it then
  outlives the structure cleared at 473 (`refired`), and a callback that was called before the timer was deleted may start the deleted timer. A new hub
  in the same structure begins with whatever is left of it.
  `hub_mq` is deleted twice, by the thread as it ends (707) and by `usbh_hub_deinitialize` (762); what the second does depends on the system.
- Hub: an acknowledgement that fails because the hub is gone is repeated for ever (`LateUnplug`); an interrupt transfer that fails, or a message
  that finds the queue full, silences a hub (`deaf`); a failed debounce drops the remaining ports of the round (`gaveUp`); the last message of
  `usbh_hub_deinitialize` may be lost in a full queue, which then waits for ever.

## Not modelled

- CDC ACM and HID: registered with NULL callbacks; what is left are stateless answers to class requests.
- GET_DESCRIPTOR and the Microsoft and WebUSB descriptors, vendor requests, registration: answers and set-up without later state.
- ECM, gamepad and template drivers: not registered; ECM is the frame path of RNDIS without its header, the others
  answer from constants or start the next transfer in the callback of the last.
- The other host drivers: mostly one transfer awaited. The host core, host controller drivers and operating-system layer are not in the
  repository; the host models take them as environment.
- `port/fsdev`: a second controller driver which the build does not compile.
- Vendor library, start-up code, debug output, headers: register access and constants, which are more than half of the lines of the repository.
- Suspend and resume in the port (the interrupt only clears its flag), isochronous endpoints, clocks and pins.
- Contents of sectors, descriptors and buffers.

## Plan

What is left is to weaken hypotheses. In the order of importance:

1. `ControlImplementsPipe` and `StagesInStep` for the losses `OrderlyHost` excludes and `ep0_lossy` checks: the
   position of the host against that of the device when a data packet or a status is repeated.
2. `AwakeAlways`, `AnswersAgree`, `ServesAlways` say nothing of the control pipe they are reached through; one theorem that
   puts them on `Ep0Control` would need the two modules composed.
