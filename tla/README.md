# Formal models of the smart-home gateway

The gateway is an STM32F407 board between a CAN bus (CANopen) and Ethernet
(lwIP). Its firmware is three programs for one flash: a first stage (`preldr`),
a bootloader (`ldr`) and the application (`app`). This directory holds TLA+
models of the parts whose correctness depends on the order of events, the TLC
configurations that check them, and proofs checked by TLAPS.

There is no operating system and no interrupt handler of the project's own:
`main` polls the CAN module, the network stack and the tasks in one loop, and
every callback runs to its end inside that loop (`src/app/app.c:309-426`,
`src/ldr/ldr.c:100-140`). Concurrency comes from outside: the network, the
CAN bus, the broker, the power supply, the watchdog, and the operator with two
uploads at the same time. One step of a model is therefore one callback or one
poll, and everything that can happen between two of them is an action of the
environment.

## Inventory

| Component | State | Operations | Interacts with | What makes it correct |
|---|---|---|---|---|
| Boot chain (`preldr/`, `ldr/`, `common/ret_mem.c`, `common/fw_header/`) | retention register `BKP0R`, verdicts `g_fw_info[].locked`, `g_stay_in_boot`, `boot_delay` | choose a program, start, count down, reset | flash driver, TFTP, console | a bootable image always exists; no reset on a stale verdict; the bootloader is never locked out; the gateway settles |
| Flash driver (`common/platform.c`) | flash, erase flag per sector | write with erase on first touch, read back | all that stores | an undisturbed transfer leaves the file; the running program is never erased |
| TFTP server (`common/eth/tftp_*.c`) | session per control block, block number, offset, global callbacks | RRQ, WRQ, DATA, ACK | firmware callbacks, lwIP | what is acknowledged is stored; complete means whole; a session ends |
| MQTT publisher (`app/comm/mqtt_app.c`) | ring, `is_sending`, client, timer | publish, completion, reconnect | router, lwIP's MQTT client | order, at most once, one reconnect timer, the ring moves on |
| CAN transmission (`CO_driver_target.c`, `can_driver.c`) | buffers, `CANtxCount`, `bufferInhibitFlag`, mailboxes, receive FIFO | send, poll, abort, reset | CANopen stack, bus | no message stranded, newest last, each transmitted once |
| PDO router (`app/comm/router.c`) | routes, new-message flags, publish timers | add route, PDO received, poll | CAN reception, MQTT publisher | the newest value is published, or its flag is set; intervals are kept |
| PDO switch, load switcher (`pdo_router.c`, `load_switcher.c`) | permission, SYNC on/off, load on/off, timers | enable, poll, faults | firmware transfers, communication reset, console | SYNC exactly while permitted and loaded; faults and overloads switch off |
| PoE switcher, mains sense | channel states, sampling phases | poll, edges in `main` | main loop, console | the outlet of channel 0 follows the mains unless it was switched otherwise |
| Configuration storage (`config_system.c`, `CO_driver_storage.c`) | table in flash, `config_valid`, parser | write, validate, read | LSS, CANopen 1010/1011, console | the old table, the new one or none, never a mixture; other programs' entries survive |
| SDO flasher (`co_sdo_flasher.c`, `sdo.c`) | node, block, blocking exchange | write, read | TFTP callbacks, watchdog | what is acknowledged is on the node that was meant; a client that tries again succeeds |
| LSS and bit rate (`CO_LSSslave.c`, `lss_cb.c`, `can_driver.c`) | pending and active node-ID and bit rate, slave state, stored configuration | select, fastscan, configure, activate, store, reset | CANopen stack, console, configuration | the gateway comes up with what is stored; an assigned node-ID is used; a fastscan selects the right node |
| TCP sockets (`sock_cli.c`, `sock_srv.c`) | control blocks and their arguments | connect, receive, poll, close | lwIP, CANopen gateway | no use of a closed control block |
| Energy meter, debounce (`emeter.c`, `debounce.c`) | level history, pulse timers, count in FRAM | poll | ADC, FRAM | each pulse counted once, count survives |
| Time base (`prof.h`, remainders in `app.c`) | 24-bit mark, remainders | mark | all timers | no time lost or counted twice |
| Drivers, console, logger, signing tool, network set-up | - | - | - | see "Not modelled" |

What is hard: power lost inside a flash write; an upload that changes what was
checked before; datagrams lost, repeated or late; requests whose callback never
comes; two queues (buffers and mailboxes) for the same messages; counters that
are maintained beside the thing they count; globals that one request sets and
the packets of another use; values that are pending, active and stored at once;
passes of the main loop that take seconds. `PROJECT.json` lists the hazards at
their lines, the ones no property covers included.

## Modules

| Module | Models | Checked by | Proved in |
|---|---|---|---|
| `BootChain` | boot chain, flash driver, uploads of the gateway's own firmware | `MCBootChain` | `BootChainProofs` |
| `FileTransfer` | abstract: what an upload promises to the firmware behind the server | through `TftpServer` | `TftpServerProofs` |
| `TftpServer` | the TFTP server between clients and a flash region; implements `FileTransfer` | `MCTftpServer` | `TftpServerProofs` |
| `NodeFlasher` | the server's callbacks for the nodes on the CAN bus, exchange by exchange | `MCNodeFlasher` | `NodeFlasherProofs` |
| `Outbox` | abstract: what the publisher promises to its callers | through `MqttQueue`, `Router` | `MqttQueueProofs` |
| `MqttQueue` | the publisher and, as its environment, lwIP's MQTT client; implements `Outbox` | `MCMqttQueue` | `MqttQueueProofs` |
| `Router` | routes from PDOs to topics, over an `Outbox` | `MCRouter` | `RouterProofs` |
| `CanTx` | transmit buffers, mailboxes and the reception that comes before them | `MCCanTx` | `CanTxProofs` |
| `SavedConfig` | abstract: a table that is replaced or lost as a whole | through `ConfigStorage` | `ConfigStorageProofs` |
| `ConfigStorage` | the configuration sector shared by the programs; implements `SavedConfig` | `MCConfigStorage` | `ConfigStorageProofs` |
| `PowerControl` | switched load and SYNC producer | `MCMainLoop` | `MainLoopProofs` |
| `Outlets` | mains sense and PoE outlets | `MCMainLoop` | `MainLoopProofs` |
| `LssSlave` | node-ID and bit rate: LSS slave, a scanning master, console, communication reset | `MCMainLoop` | `MainLoopProofs` |

The publisher and the router meet in `Outbox`: `MqttQueue` is shown to implement
it (checked and proved), and `Router` is written over it, so that neither has to
be checked inside the other. The server and its callbacks meet in the block:
`TftpServer` has the datagrams and a simple region behind the callback,
`NodeFlasher` has the callbacks and hands every packet over once and in order.
`LssSlave` keeps of the configuration the last valid table, which is what
`ConfigStorage` promises.

### BootChain

A region ("slot") is a sequence of blocks of one TFTP payload in erase sectors;
a block holds the number of the image it belongs to, so that "the CRC matches"
is "all blocks belong to one image of the right product" (`fw_header_check_all`;
the CRC is taken as perfect). `mode` is the program that runs. `Preldr`,
`LdrInit`, `AppInit` are the three `main`s up to their loops; `LdrTick` and
`LdrTimeout` one pass of the bootloader's loop; `Console`, `WriteRequest`,
`OtherRequest`, `DataPacket`, `StrayEnd` the datagrams; `PowerLoss`,
`TornWrite` and `HangReset` what the hardware does. A write follows
`platform_flash_write`: the sector is erased when its flag is clear, programming
only clears bits, the result is read back. The bootloader's loop sets
`g_stay_in_boot` on any request; the check `ldr.c:113-118` uses the verdicts
cached in `locked`, which change only where the code calls
`fw_header_check_all`. `lastRun` and `clean` are history variables.

An image that is well-formed but never serves (`HangImages`) is reset by the
watchdog. What it has left in the register is nothing or what this repository's
programs write, unless it is one of `LockImages`: an application that records
`BOOT`, the risk `boot_and_update_logic.md:59` names. It makes the first stage
take it for the bootloader's choice, and the bootloader is not executed again
while the power is on. The properties that promise the bootloader its turn say
so (`LocksOut`). An application of this repository that leaves its loop to reset
itself (`app.c:269-298`) is such an image as well, of the kind that hangs.

### TftpServer and FileTransfer

A session is a UDP control block with its arguments; `net` is the set of
datagrams in flight, from which a datagram may never be taken (loss), may be
taken late and out of order, and, for the types in `DupTypes`, several times.
`ProcessWrite`, `ProcessRead`, `NoMemory` are `process_tftp_request` and what it
calls; `WrqPacket` and `RrqAck` are the two receive callbacks, with what they do
after they have closed the session: the code does not return there, so the model
lets the freed session's answer be sent or not. The operation code of a packet
is not looked at by the write callback, hence an ERROR of the client is data.
Clients are RFC 1350 clients with one file each. `misled` is history: the read
sessions that got a packet which did not acknowledge their current block, and so
read on too far. `FileTransfer` says what the
firmware may expect: chunks in order, each once, and the end after the last one;
`UploadImplements` is the refinement: what was handed over is the file up to
where the flash holds it without a gap.

### MqttQueue

`storage`, `head`, `tail`, `is_sending` are `mq` of the code. A message is
numbered when it enters the ring. `mqtt_queue_publish`, `mqtt_pub_request_cb`,
`mqtt_queue_send_next`, `reconnect_cb` are the functions of those names;
`PubAck`, `RequestTimeout` and `TcpSent` are the three places in lwIP's `mqtt.c`
that call the completion callback. `TcpSent(k)` is the loop of
`mqtt_tcp_sent_cb` in one step: a callback inside it may publish the next
message of quality 0, which the same loop completes. `mqtt_close` drops the
pending requests without calling anyone, as `mqtt_clear_requests` does. A new
client is taken from a heap that fits `Heap` of them: the code frees none.

### CanTx

A message goes to the lowest free mailbox or stays in the buffer of its object
(`CO_CANsend`); both when messages were waiting. `CO_CANinterrupt` looks at the
receive FIFO first: a call that finds a frame takes it and nothing else
(`TakeReceived`). Only a call that finds none moves one buffer, when a
completion flag (`RQCP`) is set (`Refill`); clearing one flag clears all (`TSR
|= mask` of write-one-to-clear bits). `Transmit` is the bus, in the order of the
requests (`TXFP` is set in `can_drv_start`). `CO_CANclearPendingSyncPDOs` aborts
all mailboxes, the frame on the wire may still get through. `CO_CANmodule_init`
is a communication reset. `Receive` is a frame of another node; with a full FIFO
it sets the overrun, which the next poll only notes.

### NodeFlasher

`flasher_id`, `fw`, `write` are the globals `g_sdo_flasher_id`, `g_nd_fw_cb` and
`tftp_cb.write`, which `CheckFile` (`tftp_server_check_file`) sets for every
session at once. A callback is a sequence of SDO exchanges, `todo`; one `Step`
is one exchange with the polling of its status, and it may get no answer
although the node did what it was asked (`NoAnswer`). `Packet` and `Returned`
are `wrq_recv_callback` around the callback; the announcement of the end of a
file is a callback of its own (`ending`), whose result is ignored. While a
callback runs nothing else of the gateway does: requests and packets wait for
`todo = <<>>`, except that the watchdog may bite (`GatewayReset`).
The nodes are external. Assumed of them: a node runs its loader or its
application and writes the other of the two; it refuses a block on flash that is
programmed; START_BOOTLOADER leads to the loader or is lost; after a restart it
runs a whole application, or else its loader.

### Router and Outbox

A pass is `Receive` and `router_add_pdo` for every frame and route, the network
stack (`NetStart`; messages leave, routes are added, time passes, frames are
received by callbacks that block) and `router_poll` route by route. `diff` is
the time `router_poll` adds, that of the pass before; `last_pub_td` wraps at
`Wrap`. A value is the part of a frame the route cuts out, so only whether two
are equal counts. `check_try_send` asks the `Outbox`.

### ConfigStorage and SavedConfig

The sector is the sequence of entries written since the last erase and `whole`,
a CRC that matches; bytes, alignment and the flush buffer are abstracted to
entries. A save is the two loops of `config_write_storage` entry by entry
(`WriteForeign`, `WriteNative`), and may fail or lose power before each of them;
a failed erase may have erased. `addr` is `data_abs_address`, as a position,
kept across calls as in the code. `Boot(p)` starts any program on the sector
the last one has left. The refinement maps the sector to a table, or to `Lost`
while there is no CRC, and a save under way to the table it will leave.

### PowerControl, Outlets, LssSlave

`PowerControl` follows one pass: communication reset (`CommReset`), CAN stack
(`CanPhase`, where a SYNC may be sent), callbacks of the network stack, load,
PDO switch, and the exit from the loop. A pass takes any time up to
`MaxDuration` (`lasted`), of which `prof_mark` measures what is left beyond the
wraps of its 24 bits (`Measured`): that is `diff`. The mark is taken anew at a
communication reset, whose duration is not measured at all. `pdo_en` and the
producer of the SYNC object are two variables: `CO_SYNC_init` resets one of them
at a communication reset.
`sinceOn`, `warm`, `missed` (what was not measured of an overload) and `quiet`
are history.

`Outlets` follows the same pass for channel 0 of the mains sense (the others
have no pins), the edge detector of the loop and the PoE channels, which share
current sensors (`adc_idx`). `sensed` is the configuration bit, which the
console may change between any two polls: nothing is polled without it, and a
measurement goes on where it was when it is set again. `wired` is that bit at
the start, when the pins are set up; without them a sample may be anything.
`steady` says for how long the mains have not changed and were sensed, `byHand`
that console or over-current have switched the outlet since. Time here is
measured time.

`LssSlave` has the requests as `CO_LSSslave_receive` takes them (one at a time,
dropped while one is unprocessed), `CO_LSSslave_process`, the callbacks of
`lss_cb.c`, and `CanInit`, the start of `CO_CANinit` with the pending bit rate.
`Divides` is the search of `can_drv_check_set_bitrate`, evaluated with the clock
of the board; `accepted` is history: the rates outside the LSS table the console
has taken, which it does while it knows of no node (`can_baud(rate, nodes)`).
A part of the identity only matches or does not. `Probe` and `Verify` are the
messages of a fastscan as the master of the same stack sends them
(`CO_LSSmaster.c`): it looks at a part bit by bit, verifies it, and names the
part it goes to next, any later one or the first, which ends the scan; `scanAt`
is where it is. It goes on with the answer of any slave, so that the gateway may
differ or have dropped a message. The slave goes where the message says
(`FastscanPart`). `differs` and `deaf` are history: a part the gateway has not
confirmed, and a scan whose start it has not taken. Selective switching and the
other requests come in any order.

`MCMainLoop` puts the three side by side; they share no state, and a behaviour
follows one of them.

## Runs

| Run | Question | Instance |
|---|---|---|
| `boot_safety` | bootable, current verdict, turn of the bootloader, clean upload installs; settles, serviceable | slots of 3 blocks in 2 sectors, 6 images (one too long, three that hang, one of them an application that records `BOOT`), 2 sessions, 3 requests, 1 fault |
| `tftp_upload` | upload implements the abstract transfer, sessions end | one upload and one download of 3 chunks, DATA and ACK of either side repeated, flash that fails |
| `tftp_faults` | acknowledged is stored, done is stored, a download is the file, and in order | the same with 3 sessions, an empty last block, repeated read requests, a client that gives up |
| `flasher` | acknowledged blocks are on the node that was meant, no other node is touched, a client that tries again succeeds | 2 nodes, files of 2 blocks, 3 attempts, another client, 2 faults |
| `mqtt_safety` | order, at most once, one timer, implements `Outbox`, requests end, reconnection is tried | ring of 4, 6 messages, heap for 3 clients |
| `router` | newest value published, intervals | 3 kinds of routes, 2 values, publisher for 1 message, a counter that wraps at 4 |
| `can_safety` | nothing stranded, refill fits, newest last, drains | 3 buffers, 2 mailboxes, a receive FIFO of 2, 4 messages |
| `config` | valid means whole, no duplicates, what is loaded was stored, implements `SavedConfig` | 3 programs, 3 keys, 2 contents |
| `main_loop` | SYNC and load, quiet after a transfer, overload ends; outlet follows the mains; comes up, node-ID in force, fastscan selects a match | blanking of 2 and long-term time of 4 ticks, passes and resets of up to 4 with a mark that wraps at 3; a measurement and a pause of 2 ticks each and passes of up to 3, 2 outlets on a sensor, sensing switched at any time; a node-ID and none, 3 rates of the table and 2 of the console, with and without nodes |
| `tftp_failedack` | violation: a block whose write failed is acknowledged | one upload, flash that fails |
| `tftp_resend` | violation: a repeated ACK of a download is answered with the next chunk | one download, its ACKs repeated |
| `mqtt_flag` | violation: `is_sending` stays set after a lost connection | ring as above |

Each violation is a disagreement between the code and a comment or a message
beside it; `PROJECT.json` quotes the sentence under "findings". Eight more such
sentences are stated in the modules without a run of their own; each is
violated when it is added to the configuration of the run named:

| Sentence | States | In |
|---|---|---|
| `WaitsForNext` | the same as in `tftp_failedack`: without a failure, a write request that is repeated in the middle of the transfer clears the erase flags (`ldr/tftp_server_callback.c:49`), and the next block erases the acknowledged ones | `tftp_failedack` with `WriteMayFail = FALSE` and `"WRQ"` in `DupTypes` |
| `QuitsWithWholeFile` | `tftp_server.c:149`: a short packet means the whole file (an ERROR is a short packet, too) | `tftp_faults` |
| `ClientIsNotNull` | `mqtt.c:1115`: the client is not null (the heap is used up by clients that are never freed) | `mqtt_safety` |
| `SentOnce` | `CO_driver.h:286`: directly sent or buffered (both, while others wait) | `can_safety` |
| `WaitingIsSent` | `CO_driver.h:287`: a waiting message is sent as soon as the CAN module is free (not while every poll finds a received frame) | `can_safety` |
| `AcceptedIsSupported` | `console_can.h:467`: the console refuses a rate that is not supported (without nodes it takes 5 or 2000 kbit/s, with which `CO_CANmodule_init` fails) | `main_loop` |
| `DelayComesFirst` | `CO_LSSslave.h:242`: the delay comes before and after the switch of the bit rate (`lss_cb.c:27` switches at once) | `main_loop` |
| `AbortsOnlySync` | `CO_driver.h:338`: the abort is for synchronous messages (it takes all mailboxes) | `can_safety` |

The type invariant of a module is not in a run where it is proved.

### Why the bounds are enough

- `BootChain`: three blocks in two sectors give a sector with a block before and
  one behind the erased one, an image that ends inside a sector, one that ends
  with the slot, and one that does not fit. Two sessions are what it takes to
  disturb a transfer. Three requests allow an upload, a second one that
  interferes, and a reset. The proofs remove these bounds.
- `TftpServer`: three chunks have a first, a middle and a last block; four
  positions leave room for data behind the file; two sectors make one erase in
  mid-file. The pool of two is exhausted by three requests. Numbers of blocks
  stay far below the 16 bits of the field, and the largest file the flash can
  hold has fewer than 2000 blocks. A write request is not repeated: what that
  does to a transfer is stated above, and would be all there is to see.
- `MqttQueue`: six messages make a ring of four wrap (three of them can be
  used); two of the messages wait for the broker, four do not; three clients
  make two reconnections before the heap is used up.
- `CanTx`: two mailboxes and three buffers reach every combination of
  free and busy mailbox, waiting and empty buffer, with four messages. A
  receive FIFO of two (`RxDepth`) is empty, filled and full, with and without an
  overrun.
- `NodeFlasher`: two blocks have a first and a last one; a third client would
  only repeat the second. Two faults are a lost answer and the restart or the
  reset that meets its effect; three attempts are one more than the faults can
  spoil. Files of other clients may be empty, which erases a node unchecked.
- `Router`: a route of each kind, two of them fed by one frame; the publisher
  refuses as soon as it holds one message. The counter wraps one tick beyond
  the interval, so that a wrap happens with and without a value waiting.
- `ConfigStorage`: three programs such that two know an entry the third does
  not, and one stores a key in another size; the sector never holds more than
  three entries, so TLC exhausts the state space without a bound.
- `PowerControl`: passes of length 0, shorter than, as long as and longer than
  each timer and than the wrap of the mark (`Wrap`, `MaxDuration`); the time of
  one overload that is not measured is bounded by `MaxMissed`, enough for a wrap
  and a reset, or for a reset alone of full length. `Outlets`: passes as long as
  a measurement and longer; three samples in a measurement (`MaxHit`) and the
  one that ends it give a majority that differs from the last. The proofs remove
  all these bounds.
- `LssSlave`: one assigned node-ID and none; of the table a rate that can be
  made exactly, two that are refused (800 kbit/s and the automatic 0), and of
  the console one more that only it takes. No bound: TLC exhausts the state
  space.

Deadlock is checked in `config`, `main_loop` and `router`, whose programs never
stop. `CHECK_DEADLOCK FALSE` is stated elsewhere: the requests of
the environment are bounded, and a gateway to which nobody talks any more stops
taking steps.

### Fairness

Weak fairness is assumed of what the main loop polls, which runs for as long as
there is power: the start-up of each program and the bootloader's loop
(`boot_safety`), the exchanges of a callback (`flasher`: an SDO exchange ends by
its answer or its time-out), the timers of lwIP (`mqtt_safety`: `reconnect_cb`,
the request time-out of 30 s) and the poll `CO_CANinterrupt` (`can_safety`) -
whatever it finds to do. Of the environment only this is assumed: the bus
transmits what is in a mailbox; in `flasher` the one client asks again and sends
on; and a TCP connection that was asked for is accepted or refused. Nothing is
assumed of power, lost connections, publishers, or a client that gives up.

That the poll of the CAN module ever gets to the mailboxes is not assumed but
part of the property: `Drains` has the premise `BusLeavesGaps`, that the receive
FIFO is empty time and again and a poll that could refill does so in the end.
Without it a message may wait for ever (`WaitingIsSent` above).

The TFTP server has no timer and sends nothing twice by itself. `tftp_upload`
therefore assumes only what a waiting client's repetitions bring about: the
block it repeats arrives at last, and so does an acknowledgement that the open
session gives to every repetition; and the ACK a reader repeats arrives.
Requests and their answers, the blocks of a download, and the acknowledgement of
a session that is closed may be lost for good. `TransfersEnd` says no more than
that: the session ends. A client may wait for ever for the last acknowledgement
of an upload, since nobody is left to repeat it (`tftp_server.c:153-157`), and a
client that stays away leaves its session open.

`EventuallyUploaded` is void once another client uses the server: the callbacks
are shared, and the code promises nothing then.

## Proofs

`BootChainProofs` (all constants arbitrary, from the three named assumptions on
them: products are disjoint, sizes are positive, bounds are naturals):

- `TypeCorrect`: every variable keeps its type.
- `BootInvHolds`: the inductive invariant. `AlwaysBootable` alone is not
  inductive: an upload into one slot must not meet a damaged other one. What is
  needed is that the program that runs is intact (`RunningImageIntact`), which
  holds because each program writes only the slot of the other and the first
  stage starts only what it has checked. For the verdict of the bootloader,
  `CachedVerdictCurrent` needs that without a request there is no session
  (`QuietUntilRequest`); for the choice after the time-out and for the turn of
  the bootloader, what the retention register says about who ran
  (`LoadSourceTellsWhoRan`).
- `Bootable`, `VerdictNeverStale`, `TimeoutLeadsToApp`, `LdrTurnGuaranteed`:
  the invariants and action properties that follow.
- `CleanTransferCorrect`: an undisturbed transfer installs its image, for every
  division of the slot into sectors (blocks of a sector need not be neighbours).
  `CleanInv` says that a session nobody interfered with is the only one and goes
  to the slot the program does not run from, and `Installing` what that slot
  holds meanwhile: the blocks sent so far in sectors erased in this transfer,
  and blank blocks in the rest of those sectors. The second half is what an
  erase on first touch is for: the next block is either in a sector that is
  not erased yet, and then no block sent before shares it, or blank.

`MqttQueueProofs` (a ring of any size above one, any number of messages, any
heap of lwIP):

- `TypeCorrect`, `RingHolds`: `RingInv` is inductive. That the callback which
  is due belongs to the oldest message is not inductive alone: the next message
  handed over must be known to be the oldest one, for which the ring must be a
  queue (`RingIsFifo`), and what has left it must have been handed over
  (`NothingSkipped`); `HandedIsNext` says that lwIP is never ahead of the ring
  by more than the message in flight. The lemmas on `(tail + i) % size` carry
  the wrap; `PublishRing` and `PopRing` say what the two ends of the ring do.
- `CallbackFits`, `NoneSkipped`: the two invariants the rest of the firmware
  relies on.
- `OneTimer`: a connection or exactly one reconnect timer, by induction alone.
- `OutboxCorrect`: the publisher implements `Outbox`. The ring from `tail` on is
  the sequence of the abstract box; `PublishAccepts` and `PopLeaves` say that a
  message that is accepted is appended and that completions remove from the
  front, whatever the wrap; `Leave(k)` is the loop of `mqtt_tcp_sent_cb`.
- `OnceInOrder`: the invariant is that what the broker has, followed by what is
  in the output of lwIP, is strictly increasing and below what was handed over
  last. Lost connections cut the output, they never reorder it.

`CanTxProofs` (any number of buffers, mailboxes and requests):

- `TypeCorrect` (the counter, an unsigned number, is never counted below zero),
  `CountHolds`, `NothingStranded`, `RefillsFit`. `NeverStranded` needs
  `CountCoversFull` (`CO_CANinterrupt` drops its RQCP without looking into the
  buffers when the counter is 0), and `RefillFits` needs that no two frames
  share a mailbox (`BoxesOnce`), since the end of one frame must mean that the
  mailbox is free.
- `OrderCorrect`: `NewestLast` by induction over where the requests of an object
  can be: nothing of it is newer than what its buffer holds (`BufferNewest`),
  and only that is ever loaded, behind the other frames; so the mailboxes keep
  the order of the requests (`MailInOrder`) and hold none older than the bus has
  seen (`BusBeforeMail`).

`TftpServerProofs` (files of any length, any number of sessions and readers, any
flash area, any loss and reordering):

- `UploadCorrect`: `AckedIsStored` and `DoneIsStored`, with one upload at a time
  whose request is not repeated (`OneUpload`: another WRQ clears the erase flags
  under the first, and then it is false, see `WaitsForNext` above) and a file
  that is not empty (of an empty one the firmware is not told). A block whose
  own write has failed is excepted in both, because the code acknowledges it
  (`tftp_failedack`); what lies before it is stored. `Counted` says of the write
  session that what `tot_bytes` counts is in the flash, in sectors that are not
  due to be erased; `NextBlock` that no ERROR of a client has the number of the
  next block, although its text would be written as one.
- `DownloadOrdered`: `DownloadInOrder`, whatever is repeated. Of the blocks a
  session has in flight, one of a higher number carries a later chunk
  (`RowInv`), since the offset only grows; and a reader takes each number once.
- `DownloadCorrect`: `DownloadIsFile`. A session that was only ever sent the
  acknowledgement of its current block is exactly one acknowledgement behind its
  reader or level with it (`SentUpTo`); sessions that repeated requests have
  opened get ERRORs and run on under a number nobody waits for.
- `TftpTypes`: `TypeOK`, which needs the invariant of downloads, as the client
  counts with them.
- `UploadRefines`: the refinement of `FileTransfer`, with one upload at a time
  that its client does not give up (the text of an ERROR would be written as a
  chunk), repeated blocks included. `OrderInv` says that nothing of the file
  lies behind what the session has counted, that no packet in flight is ahead
  of it, and that the end is announced by a session that is closed; so a write
  appends the next chunk or repeats one that is there. This is safety only: that
  transfers end is `TransfersEnd`, which is checked.

`NodeFlasherProofs` (any nodes, sessions, wanted programs, length of the file,
number of faults; of the constants only that the names are told apart: own from
other sessions, the gateway from the programs of a node, `FlasherAssumption`):

- `FlasherCorrect`: `AckedIsOnTarget` and `NodeUntouched`, which are proved
  together with what they rest on. `CallInv` lists the exchanges that can be
  left of a callback, by who called it. `BusyInv` is about the globals: unless
  two uploads overlap, the node, the program and the callback in force are those
  of the request (`Linked`), which is lost as soon as a second request comes in
  while the first has blocks to write. `Progress` follows the one upload that
  met no other: from its first block on the target runs the other program, so
  that what is written stays; when the last exchange is due the area is blank
  from the block on. A restart of the node or of the gateway in the middle
  leaves a transfer that is refused or given up, never acknowledged.

`ConfigStorageProofs` (any programs, tables, contents):

- `ConfigCorrect`: `NoDuplicates` needs, of a save under way, that the entries
  of other programs come first and each is one of the old ones that are done
  with (`WriteInv`), and that the old table had no duplicates, which is why a
  save reads it only while `config_valid`; that in turn must imply a whole
  sector.
- `LoadCorrect`: an address that is left from an earlier call is harmless,
  because no save of the running program leaves its entry out (`AddrInv`), so
  that the next validation finds it anew.
- `SavesCorrect`: the refinement of `SavedConfig`. `SaveInv` follows the two
  loops: what the sector holds while they run is what the table at the end will
  have, and all of it that they have passed, so that the CRC makes the sector
  exactly the table that was wanted (`WrittenTable`). `Lost` and `Quiet` are
  assumed to be no tables (`NoTableAssumption`).

`MainLoopProofs`, power control (any time-outs, passes up to any bound):

- `PowerCorrect`: `PdoInv` says where `pdo_en` and the producer agree; between
  the exit of the loop and `CO_SYNC_init` both are off, which is what
  `LeaveLoop` is for.
- `OverloadCorrect`: `BlankInv` and `WarmInv` account for the time: what is left
  of the blanking and the measured time since the load was switched on make up
  no more than the blanking time, and a high current was either blanked or
  counted or not measured (`missed`).

`MainLoopProofs`, outlets (any durations, sensors, number of samples, passes up
to any bound):

- `OutletsCorrect`: `SamplesInv` says that the samples of a measurement are all
  alike, and like the mains, once the mains have been steady for longer than the
  measurement has run; `VerdictInv` that a verdict can only disagree with the
  mains for as long as the measurement that gave it and the pause behind it can
  have taken (`Unseen`), plus the measurement under way; `OutletInv` that the
  outlet is what the last edge has made of it. The bound `Settled` is the least
  one that holds: two measurements and a pause, each overshot by a pass but the
  last; with one tick less TLC finds a verdict that is still the old one. A
  measurement that was interrupted by switching the sensing off counts samples
  of two times, like one during which the mains change: the next one does not.

`MainLoopProofs`, LSS slave (any node-IDs and rates, with and without nodes):

- `LssCorrect`: type, `FailsOnlyByConsole`, `NoIdleId`, `FastscanSelectsMatch`.
  `RatesInv` says of all three copies of the rate, pending, active and stored,
  that they can be initialised or were accepted from the console (`Usable`):
  each way into one of them asks by another rule. `ScanInv` says of a scan whose
  start the gateway has heard that it is where the master is, or behind it once
  it has not confirmed a part: the master only goes up, so that it never comes
  back to where the gateway has stayed.

`RouterProofs` (any routes, values, capacity of the publisher, width of the
counter and duration of a pass):

- `RouterCorrect`: `NewestIsPublished` is inductive together with
  `data_prev = data` (`KnownOrFlagged`): what on-change compares with is what
  was received last, and that is published or flagged.
- `PollCorrect`: `PollLeavesNothing`, a postcondition of `router_poll` that is
  proved only: the same of the routes the loop has been at (`PolledWaits`); later
  routes may fill the publisher, never empty it.
- `IntervalCorrect`: `Charged` accounts for the time of a route: its counter,
  what `router_poll` will still add in this pass and what this pass has taken
  exceed the time that has gone by through two passes at most. The wrap of the
  counter only makes it smaller (`WrapShortens`).

What is only model-checked: the liveness properties (`EventuallySettles`,
`Serviceable`, `TransfersEnd`, `EventuallyUploaded`, `RequestsEnd`, `Retries`,
`Drains`), since fairness and ENABLED are out of reach of the prover, and the
violations. Every invariant and every action property of the other runs is
stated by a theorem; those about uploads in `TftpServer` under the hypotheses
named above.

## Not modelled

The vendored libraries (lwIP, CANopenNode, StdPeriph, CMSIS) make up nearly all
of the lines of the repository; they are modelled only where the state of the
gateway lives in them (lwIP's MQTT client, the LSS slave). The object dictionary
is generated. The register-level drivers (I2C, SPI, ADC, RTC, Ethernet set-up)
poll with time-outs and keep no state others depend on. The console's other
commands print, or drive nodes as SDO and LSS master. The signing tool runs on
the build host. The damage a use of freed memory does to the heap
(`tftp_server.c:128-156, 217-224`) is not modelled, only what the code sends.

Hazards outside the models: `sock_cli.c` and `sock_srv.c` keep pointers to
control blocks that lwIP may have freed, which a model of this code alone cannot
tell from live ones; the loop of `console_can.h:174` counts sub-indices in a
byte; the energy count restarts at 0 when the FRAM does not answer at start
(`app.c:197`). `app.c:431-437`: an NMT reset of the node leaves both loops and
enters them again without a reset of the board.

## Plan

1. `BootChain`, `MqttQueue`, `CanTx`, `TftpServer` with proofs; `FileTransfer` -
   done.
2. `ConfigStorage` with `SavedConfig`, `PowerControl`, `LssSlave` with proofs;
   `Outlets`, `Router` with `Outbox`, `NodeFlasher`; delivery of the publisher,
   the refinement of `SavedConfig` and the invariants and intervals of the
   router as theorems - done.
3. The invariants of `Outlets` and `NodeFlasher`, the refinement of
   `FileTransfer`, and the undisturbed transfer of `BootChain` as theorems -
   done.
4. Time as the 24-bit mark measures it, reception before transmission, sensing
   switched at run time, scans that skip parts, rates taken without nodes,
   applications that lock the bootloader out, and repeated acknowledgements of a
   download - done.
5. Models still worth writing: the error state of the CAN module, the
   pulse count with its debounce and FRAM, the remainders of the time base.
