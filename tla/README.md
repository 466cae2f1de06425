# UsbGpib in TLA+

This directory is a formal model of the UsbGpib adapter: the firmware that makes a GPIB
instrument look like a USBTMC device, and the boot loader that updates it. It contains TLA+
modules translated from the source, TLC configurations that check them on small instances, and
proofs that TLAPS checks for every value of the constants. Paths below are relative to
`SW/TestAndMeasurement` of the repository unless they say otherwise; `T` abbreviates
`TestAndMeasurement.c`. `PROJECT.json` maps every definition to the lines it stands for.

    tlasany UsbTmc.tla                             parse
    tlc -config tmc_write.cfg MCUsbTmc.tla         model-check
    tlapm UsbTmcProofs.tla                         prove

## 1. The system

| component | state it keeps | operations | modelled in |
|---|---|---|---|
| USB-TMC task and bulk messages (T:959-1454) | bytes still to receive, both "last message complete" flags, busy flag, transfer tag | `TMC_Task`, `ProcessSentMessage`, `GetNextMessage`, `ReadTMCHeader`, `TMC_resetstates` | TmcTransfer, TmcTask |
| USB-TMC control requests (T:669-957) | request in progress, two abort flags, five "handle" flags, status byte | `EVENT_USB_Device_ControlRequest`, `handle_control_Req_ReadStatusByte` | TmcControl |
| GPIB transactions (`gpib.c`) | REN, transaction flag, read terminator | addressing, serial poll, device clear, trigger, go to local, lockout, recovery, search | GpibTransactions (bytes), GpibBus, TmcTransfer, TmcTask (effects), GpibAddress |
| GPIB handshake (`gpib_priv.h`, `gpib_recover`) | the lines DAV, NRFD, NDAC, ATN, EOI, REN, IFC | one byte out, one byte in, one command byte, recovery | GpibHandshake; one byte per step in TmcTransfer |
| main loop and boot (T:435-606) | GPIB address, serial string, EEPROM | wait, search, identify, store, attach, disconnect | Adapter |
| internal commands (`miniparser.c`) | settings in EEPROM and RAM, response buffer | AutoID, termination, string length, address, reset | Adapter, GpibAddress |
| LED pulse (T:573-593) | pulse counter, start time | | not modelled |
| USB descriptors | none | table lookup | not modelled, constant |
| boot loader (`SW/MassStorage`) | flash, EEPROM, the start clusters of two files, exit counter | SCSI commands, virtual FAT, page erase and write, start and exit | VirtualFat, BootDisk |
| GUIs (`SW/NiceGUI`, `SW/UsbGpibGUI`) | user interface | they send internal commands | not modelled |

**How they interact.** The firmware has a single thread, so it seems to have no concurrency,
but it does. Every GPIB handshake is a loop that polls the bus lines and calls a timeout
function. During a write or a read that function is `tmc_gpib_write_timedout` or
`tmc_gpib_read_timedout` (T:201-216), and both call `USB_USBTask`. So a control request of
the host is handled *inside* the GPIB transfer of an earlier bulk message, at any poll of any
byte. Most requests only set a flag that `TMC_Task` looks at later. A status request
may run a whole serial poll on the bus at once. An abort raises a flag that ends the handshake,
and all functions between the handshake and `TMC_Task` then have to unwind. On the other side
of the wires the instrument follows the lines in its own time. The boot loader is a program of its own: it and
the application share only flash, EEPROM and the reset.

**What is hard.** A request that meets a transfer (atomicity); flags that belong to two
endpoints with no order between them, of which one has two banks (ordering); the
split requests of USBTMC with their status checks (protocol); an instrument that stops or is switched off in
the middle of a handshake (liveness), lines that float high when nobody is there, and two sides that must not
drive the data lines at once (interleaving); byte counts of message, packet and buffer that are
subtracted from one another (boundaries); outside a session, EEPROM that is written byte
by byte while power may fail and instruments may be exchanged; and in the boot loader, a disk without
storage, whose host writes directory and data in its own order, any block at any address, and may lose power between two page
operations. `PROJECT.json` lists each such
place with its line and the properties that watch it.

**What makes it correct.** Every byte of a message reaches an addressed instrument, once, with
EOI at its end, and what is reported as sent or timed out is what happened. Header and payload are never confused.
An instrument is left unaddressed between
transfers. No status that was taken from the instrument is lost. Aborts end and leave nothing behind.
Local control comes after the writes that precede it. The address in use is one at which
the instrument answers, and the name on USB is that of the instrument connected. A file written to the disk is in the flash or
the EEPROM, whole, and nothing else is touched, the boot loader least of all.

## 2. The modules

| module | contents |
|---|---|
| GpibBus | the command bytes of `gpib.c`, and what they do to the instrument |
| TmcState | constants, variables, types and `Init` of the firmware model |
| TmcControl | one operator per control request, deferred and immediate status reads |
| TmcTransfer | the handshakes with their timeout functions, `ProcessSentMessage`, `GetNextMessage` |
| TmcTask | one action per block of `TMC_Task`, in the order of the code |
| UsbTmc | host and instrument, `Next`, the specifications, all properties |
| TmcDelivery | abstract: what the adapter promises the instrument about the messages of a host |
| UsbTmcInv | the inductive invariant `IInv`; the mapping by which UsbTmc implements TmcDelivery |
| UsbTmcTypes, UsbTmcProofs | proofs that `IInv` is inductive, and the theorems about writes |
| UsbTmcSync | more invariants: split requests, the OUT endpoint, addressing, the talker, clearing |
| UsbTmcSyncProofs | proofs about the endpoint: headers and payload stay in step |
| UsbTmcTalkProofs | proofs about the bus between transfers and during reads, and about clears |
| MCUsbTmc | request sets for TLC |
| GpibTransfer | abstract: what a GPIB transaction promises its caller |
| GpibHandshake | the lines: adapter and instrument, loop by loop; implements GpibTransfer |
| GpibTransactions | the functions of `gpib.c` as sequences of steps |
| HandshakeInv, HandshakeProofs | the inductive invariant, its proof, the refinement proof |
| MCHandshake | fourteen transactions and a reply for TLC |
| GpibAddress | pure: coding of `gpib_addr`, `gpib_search`, the numbers of `!addr` |
| Adapter | `main()`, EEPROM, internal commands, exchanges and power failures |
| AdapterProofs | proofs about stored and reported name, the types, the search and address commands |
| MCAdapter | five instruments and the address texts for TLC |
| VirtualFat | pure: layout of the boot loader's disk, FAT12 entries and chains |
| BootDisk | SCSI commands, block writes page by page, start and exit, power failures |
| VirtualFatProofs | lemmas about FAT12 entries, chains, clusters and blocks |
| BootDiskProofs | the inductive invariant of BootDisk and the theorems |
| MCBootDisk | a small disk and the real one |

### UsbTmc: one session

`pc` is the location of the thread. Outside handshakes it is a place in `TMC_Task` ("usb",
"srq", "sdc", "llo", "gtl", "hdr", "more", "in_reply", "rstb", "reset"), in
`ProcessSentMessage` ("psm_...", and "poll_..." where it answers a deferred status
request) or in `GetNextMessage` ("gnm_..."). A GPIB function in progress is `pc = "bus"` with the function
`fn`, the command byte `k` it is at, and the place `ret` to return to. While
`pc = "bus"` three things can happen, in any order and number: the timeout function is polled
and handles one request (`PollTimeout`, `PollTimeoutReadStatusByte`), the instrument
completes the handshake (`CommandAccepted`, `DataAccepted`, `DataRead`), or an abort flag ends it
(`TimedOut`, with the IFC pulse and REN of `gpib_recover`). A serial poll nested in a handshake disturbs
the interrupted byte: its own handshakes release DAV and the data lines. The outcome the hardware
can produce is a choice: the byte goes out as zero ("nul") or is waited for in vain ("jam").

The firmware variables carry the names of the code. External are the host (`outq`, the two
banks of the OUT endpoint; `ctl`, the control request under way; `hleft`, `hin`,
`hmore`, what it still owes or expects) and the instrument (`addr`, how it is addressed; `stb`, unread
status events; `reply`, bytes it has ready; `rx`, `rxEoi`, what it accepted of the current
message). Four variables only record history for properties: `told`, `raised`, `msgsize`, `reqTag`.

The host is polite: one bulk message at a time, no new message while a response or a split
request is outstanding. `Habits` adds what some hosts do: "rush" (the next message right after a refused
abort), "interrupt" (a new message before the response was read to its end), "curious" (a status request
while a response is outstanding, as `viReadSTB` from a second thread does).

`TmcDelivery` is what the instrument may rely on, with neither packets nor addressing nor polls: one message at a time, its bytes one by one, EOI with the last and with no other,
and a message ends early only while an abort is pending, of which nothing is left when it is over. The mapping is in UsbTmcInv: a message is open from its header until the bank of its last packet is released
(`Open`), and an abort is pending while either flag is up. `MessageDelivered` looks at the end of a message that nobody aborts; `DeliverySpec` also says what happens on the way (a packet that ends with EOI in the middle
of a message passes the first and not the second) and what an aborted message looks like. A handshake that gives up may find its byte, with the EOI that was on the line, accepted all the same (`TimedOut`, `InstrumentHears`).

What is abstracted:
- Payload is counted, not carried. A message is its size, its end-of-message bit and whether
  it starts with `!`; an internal command is executed as a whole and leaves 0 to `MaxResponse` response bytes.
- A primary address and its secondary address are one command byte (GpibHandshake has both).
- GPIB functions that `TMC_Task` calls with `is_timedout` (T:228-234) handle no control request, so each is
  one step that succeeds or times out.
- A stalled OUT endpoint and the host's CLEAR_HALT are one step (`UnknownMessage`).
- `gpib_is_connected` inside a session, `s_gpib_transaction_active`, LED, watchdog, the
  timeouts of LUFA's stream functions and `GET_CAPABILITIES` are left out.
- Status bytes are sets of events, so that a lost one is seen.

### GpibHandshake: the wires

A transaction is a sequence of steps: a command byte, a data byte, a reading loop, a look at NDAC, or NDAC pulled
(GpibTransactions writes the functions of `gpib.c` and their callers that way, with the flag `checked`: a step's result
is looked at, or thrown away as that of a primary address byte is; and `quick`: the timeout function is called in every round, or only when the 16 ms timer has ticked). `pc` is the place in
`gpib_tx_quick`/`gpib_writedat_quick` ("settle", "ready", "accept"), `gpib_readdat_quick` ("open", "valid", "sampled", "unvalid"), the probe of
`gpib_search`, or `gpib_recover` ("release", "clear"). `drives` is the set of lines the adapter pulls low; a line is low if either side pulls it. Each change
of a line and each test of one is a step of its own, so the instrument can move between any two.

The instrument is external: the acceptor (AIDS, ANRS, ACRS, ACDS, AWNS) and source (SIDS, SGNS, SDYS, STRS) functions
of IEEE 488.1. What its hardware does at once (`Reacts`: follow ATN, DAV and IFC) is fair; what its program does (`Proceeds`) may stop for ever. It may be switched off at any
step; then all lines are low (comment at `gpib.c:56`: ATN is low only if no device is connected or powered).

What is abstracted, and why it may be:
- A delay after a change of ATN or IFC is the guard `Settled`: the instrument has followed the change. It constrains nothing when ATN did not change.
- `expired` is what the timeout function says. It stays true until the transaction is over, as an abort flag and a clock at zero do. The
  poll and the line test of one round are one step: only the instrument could act between, and then the next round sees it.
- An instrument that was switched off comes back at the next transaction, not within one.
- Control requests inside a handshake are UsbTmc's matter.

`GpibTransfer` is what callers believe: steps happen one by one, each exactly once, until all are done ("ok") or one is given up ("timedout"), after
which no step follows. The refinement mapping is at the head of GpibHandshake: a byte counts as sent when the instrument takes
it, not when the adapter sees NDAC; after a step that was given up the place no longer matters.

### Adapter: from power up to power down

`pc` is where `main()` is. The search is computed by `gpib_search` of GpibAddress, on an
instrument described by its primary address and the set of secondary addresses at which it listens. Identification is a
choice between the answers the instrument may give and none, because every answer may come
too late. The identified string has `Cells` cells, so that `Save` can store it one by one, as
`eeprom_update_if_changed` does with the 66 bytes of `tmc_serial_string`; address first. Power fails between any
two steps, and only `eeprom` survives; `!reset` restarts the application through the boot loader, which stays if its button is
held. Commands are atomic: each writes at most one EEPROM byte.
`last`, `partial` and `wanted` are history for the properties.
Abstracted are the characters of a name, delays, LED, the walk of `parser_add` along its table
(replaced by the command it ends at) and queries, which only fill the response buffer.

### BootDisk: an update

The disk has two files, FLASH.BIN and EEPROM.BIN, and stores no block. The loader knows each file by a start cluster that the host wrote into the
directory (`FirmwareFileEntries`), and recognises a file's blocks by their distance from there, in 16 bits. `pc` is "boot" in the main
loop, or a place in a WRITE (10): "block" between blocks, "erase" and "program" for each page of a sector, "eeprom" and "bytes" for the
EEPROM. The power fails between any two of these steps (`PowerFails`); start clusters and counters are lost, flash and EEPROM are kept.
`Application_Jump_Check` chooses application or loader.

The host is external: `plan` is where its file system has the files. It may move a file, and write any directory and
any run of blocks before, after or between: the loader copies the start clusters without a look at them, and `Directories` may be every pair of 16-bit values.
`written` is the history the promises are about: the blocks of the plan's files that came in whole while the directory agreed
with it. (`Lib/VirtualFAT.c:184-188`: some hosts store a rewritten file in its old clusters, others elsewhere, and the loader has to follow.) A block
counts only while the two agree, because nothing in the code could place it otherwise.

The host may also stop in the middle of a WRITE (10), or reset the bus (`StreamBreaks`). The code does not see it: `Lib/VirtualFAT.c:404` throws the result of
`Endpoint_Read_Stream_LE` away. From then on (`broken`) each block of the command that is left is written from what is in the buffer, one of `Leftovers`, into flash, EEPROM or directory. Such a block does not count in
`written`, and one that it overwrites counts no more.

What a page holds is the sector of the image it was written from, or a word ("old", "erased", "loader", "settings", "mixed").

What is abstracted:
- Commands with constant answers, REQUEST SENSE data and the success or failure they report change nothing: they are the one action `Command`.
- READ is the operator `ReadBlock`. Only the first block of READ (10) and WRITE (10) is checked against the capacity, so the model's runs of blocks go beyond the last.
- Block addresses of 2^16 and more, which the code cuts to 16 bits (`Lib/SCSI.c:245`), are not sent.
- `MagicBootKey` does not matter: `JumpToApplication` is set in every case after it was looked at.
- A buffer that was filled in part is one content of its own, for all pages of the sector. The command after a broken one starts afresh: how host and LUFA get back in step is left out.
- Arithmetic is that of the code, with `W` in place of 2^16. On the real disk, with 4 sectors to a cluster, start clusters 0 and 1 wrap to a range at the end of the 16 bits.

## 3. The runs

Bounds in every UsbTmc run: `FirstChunk = 1`, `Chunk = 2`, `BufferSize = 2` in place of 52, 64 and 1012. So
a message of 1 byte fills one packet exactly, one of 3 fills two packets exactly, 2 ends inside the second,
and a response of 3 bytes needs two read requests. The code compares and subtracts the three sizes
and uses them for nothing else; the proofs hold for all of them. Two control requests and two or three messages are enough
for a request to meet a request, each at any place of a transfer, with a message before and one after.

The handshake run takes any two of fourteen transactions in a row (`MaxStarts = 2`), so that each begins with lines and an instrument as each other one left them,
given up at any place or not. They contain each kind of step, with and without secondary address, with and without an instrument
at the address; reads that end with EOI, with the terminator, or with a full buffer; the reply has five bytes.

The bootdisk run has a disk of 7 blocks with clusters of one, 2 sectors of flash and one of EEPROM, 2 pages in each, and 16-bit arithmetic replaced by `W = 8`.
Runs of two blocks cross every boundary between files, directory, free blocks and the end, block 7 just behind the disk included, and two layouts let the host move and overlap
old and new places of both files. Three more directories store nothing a file system would: FLASH.BIN emptied (start cluster 0), FLASH.BIN from block 7 on, so that its range wraps to block 0 and block 7 is a sector of it,
and FLASH.BIN from the directory block on and over EEPROM.BIN. A broken write leaves one content that no image has.
The proofs hold for all sizes, every set of pairs of 16-bit start clusters, and any leftovers. bug_fat has the geometry of the ATmega32U4.

| run | question | what it shows |
|---|---|---|
| tmc_write | writes against status requests, aborts, clears, go to local, lockout, REN and service requests | `TypeOK`, `WriteReachesListener`, `MessageDelivered`, `HeaderSync`, `NoStatusLost`, `SplitInv`, `SyncInv`, `AbortFlushes`, `LocalAfterWrites`, `DeliverySpec` (2.6 million states) |
| tmc_read | reads in several chunks, with aborts, clears, writes, triggers, internal commands | `IInv`, `EndpointInv`, `AddressInv`, `TalkerInv`, `ReadKeepsTalker`, `BusMatchesTransfers` (4.0 million states) |
| live_abort | an instrument that may be dead at any byte, a host with every habit | `AbortsEnd`, `SplitRequestsEnd` |
| live_transfer | an instrument that takes part | `ReadsEnd`, `DeferredStatusAnswered` |
| handshake | the lines, transaction by transaction, against an instrument that may stop or be switched off, and an abort at any poll | `TypeOK`, `OneDriver`, `IInv`, `TransferSpec`, `EndsWhenExpired`, `EndsWithInstrument` (80 thousand states) |
| adapter | boots, exchanges, commands and power failures, two of each | `TypeOK`, `NamesInv`, `ReportedNameIsLast`, `SearchFinds`, `AddressAsTyped`, `BootEnds` (255 thousand states) |
| bootdisk | every order of blocks, directory writes, data that breaks off, ejects, and a power failure | `TypeOK`, `BootLoaderIntact`, `UpdateComplete`, `ReadsBack`, `FilesChained`, `SettingsUntouched`, `ExitAfterQuiet`, `EjectEnds` (3.2 million states) |
| bug_* | one documented statement each that the code does not keep | a counterexample, see section 5 |

The properties say:
- `WriteReachesListener`: a data byte on the bus always has a listener and an undisturbed handshake.
- `MessageDelivered`: a message that nobody aborts is accepted completely, each byte once, EOI exactly at its end.
- `DeliverySpec`: the firmware implements TmcDelivery: bytes of one message at a time, each once, EOI with the last only; an aborted message may be cut short, but never looks complete.
- `HeaderSync`: aborts and resets keep `s_remaining_bytes_receive` in step with the packets in the endpoint.
- `NoStatusLost`: each event is unread, in `srq_statusbyte`, or told to the host.
- `AbortFlushes`: when an abort flag falls, endpoint, counters and addressing are clean.
- `LocalAfterWrites`: go to local finds the bus quiet and no earlier packet left.
- `BusMatchesTransfers`: between rounds, the instrument listens while a message is unfinished, and is unaddressed when neither message nor response is. (That it talks while a response is unfinished is `TalkerInv`'s.)
- `ReadKeepsTalker`: nobody takes the talker role from an instrument that is being read. The polite host is
  the condition: see finding 1.
- `IInv`, `SplitInv`, `SyncInv`, `EndpointInv`, `AddressInv`, `TalkerInv`: the inductive invariants of the proofs, see section 4.
- `AbortsEnd`, `SplitRequestsEnd`: abort flags fall and a host that checks sees the request end, even with a dead instrument.
- `ReadsEnd`: a read request is answered if the instrument answers.
- `DeferredStatusAnswered`: a status request deferred by a write is answered while the write goes on.
- `TransferSpec`: the handshake implements GpibTransfer. Each byte is taken or read exactly once, in order, with its EOI; a probe sees a listener exactly if there is one; "not timed out"
  means that nothing is missing; and nothing follows a step that was given up, though the result of a primary address byte is thrown away.
- `OneDriver`: adapter and instrument never drive the data lines at the same time.
- `EndsWhenExpired`: once the timeout function says so, the transaction ends, whatever the instrument does.
- `EndsWithInstrument`: with an instrument that goes on, it ends by itself, unless it waits for a byte that nobody has.
- `ReportedNameIsLast`: at attach, name and address are those of the last completed identification, unless
  the power failed during a save.
- `SearchFinds`: the search finds every instrument that listens without a secondary address or at secondary address 0, at an
  address that works, without a secondary address if it can be had.
- `AddressAsTyped`: `!addr` sets the documented addresses and ignores others.
- `BootEnds`: a reachable instrument gets the adapter onto USB, address 0 included.
- `BootLoaderIntact`: no block, no directory and no broken write of a host reaches the loader's own code, of which the part below `BOOT_START_ADDR` has no address check.
- `UpdateComplete`: once all blocks of FLASH.BIN have come in whole, in any order, every page holds the image. In between there may be power failures, other directories and broken writes; a block that one of these has overwritten has to be repeated.
- `ReadsBack`: the disk gives back what came in whole for either file, until the block is written again.
- `FilesChained`: when the directory stores both files, on the disk and apart, the FAT made up for the host gives them as unbroken chains, except for the first entry of a file right behind an EEPROM.BIN that ends with an even cluster.
- `SettingsUntouched`: while directory and host agree, only blocks of EEPROM.BIN change the settings.
- `ExitAfterQuiet`, `EjectEnds`: after an eject the loader answers what is still to come, and leaves in the end.

Every property has a mutant in `PROJECT.json`: a plausible slip in a mapped
definition that makes the run fail. The alternatives stand beside the definitions and are marked "(Mutant: ...)".
Deadlock is checked in BootDisk, whose main loop never stops. It is not checked elsewhere, because those systems really stop: a read of an instrument with nothing to say waits
until the host aborts, the search for an absent instrument repeats in place, and the bounds end the rest.

**Fairness.** UsbTmc's `Spec` has `WF_vars(Firmware)`: the thread never rests and each waiting handshake keeps polling its
timeout function, as the loops in `gpib_priv.h` do. It assumes nothing of host or instrument. `CheckingSpec` adds a
host that polls split requests and gives up control transfers after its timeout (USBTMC demands the first).
`HelpfulSpec` adds an instrument that completes handshakes and answers, and a host that completes what it began; under plain
`Spec` no read could be shown to end, and should not. `GpibHandshake!Spec` has the adapter's loops, the timer interrupt and the instrument's hardware
(`Reacts`); only `EndsWithInstrument` assumes, as its hypothesis, that the instrument's program goes on. `Adapter!Spec` has `WF_vars(Main)`: `main()` goes on.
`BootDisk!Spec` has the loader's own steps and the watchdog; `EjectEnds` assumes that the host falls silent at last.

## 4. The proofs

**UsbTmcTypes, UsbTmcProofs.** `Inductive` proves `Spec => []IInv` for every
value of the constants that satisfies the assumptions in TmcState: all chunk and buffer sizes, any number of messages
and requests, any set of habits. From it follow
- `TypeCorrect`: the types; in particular no byte counter falls below zero,
- `WriteSafe`: `[]WriteReachesListener`,
- `Delivered`: `[]MessageDelivered`,
- `Delivers`: `DeliverySpec`, that UsbTmc implements TmcDelivery,

and, as separate results, `StatusKept` (`[]NoStatusLost`) and `AbortsFlush` (the action property `AbortFlushes`).

`WriteReachesListener` alone is not inductive: whether a byte finds a listener depends on whether a status request was allowed
to poll the bus at some earlier byte. `IInv` therefore says, where the thread is (`CallOK`: which function waits on behalf of which place);
that `gpib_write_is_busy` is set at every place of a write, which keeps status polls out of its handshakes and out of the gaps between packets
(`BusyOK`); that the instrument listens whenever bytes are still to come (`ListenOK`): each of the three polls between bytes is followed
by `gpib_make_listener`; that `lastmessage` inside `ProcessSentMessage`, and `TMC_LastMessageComplete` outside, mean the same as
`s_remaining_bytes_receive = 0` (`RemainingOK`); that a timeout in a write comes only from an abort flag (`TimeoutOK`); that internal commands
fit one packet (`ShortInternalCommands`), since a longer one would leave payload with no listener; and that the bytes accepted, those in the packet and those to be
received add up to the message (`CountOK`). Every conjunct is restricted to "no abort pending" where an abort breaks it, and `FinishTask`, the only step that
clears the flags, restores it with `s_remaining_bytes_receive = 0`.
The proof has one lemma per action; UsbTmcTypes does the types, UsbTmcProofs the structure.

The refinement of TmcDelivery needs one thing that `IInv` does not say, since `CountOK` is silent while an abort is pending and bytes still go out then (the handshake of a data byte looks at the flags only on a timer tick).
`HeardOK`: as long as the instrument still listens, the bytes accepted, those in the packet and those to be received add up to the message, abort or not. It is inductive because a handshake that gives up clears the bus, and no
`gpib_make_listener` succeeds while a flag is up; the bytes that `ProcessSentMessage` goes on to write after one that failed (T:1045-1048 overwrite its result) find no listener. Each step is then a step of TmcDelivery (`Takes`: the next byte) or leaves the message alone
(`MessageRests`: a stutter, or the beginning of an abort).

**UsbTmcSyncProofs, UsbTmcTalkProofs.** What `IInv` leaves open is the OUT endpoint with its two banks, the host behind it, and the instrument while nobody writes to it.
The invariants of UsbTmcSync build on `IInv` and on one another; each step is proved from `IInv` and those before, and each is checked by a run; `ClearInv`, which needs a careful host, only by the proof.

| theorem | states | for a host that is not |
|---|---|---|
| `SplitQuiet` | `[]SplitInv` | (any host) |
| `InStep`, `HeadersInSync` | `[]SyncInv`, `[]HeaderSync` | "rush" |
| `OneAtATime`, `Addressed`, `BusMatches`, `LocalLast` | `[]EndpointInv`, `[]AddressInv`, `[]BusMatchesTransfers`, `LocalAfterWrites` | "interrupt" |
| `TalksOn`, `FirstReadTalker` | `[]TalkerInv`, `[]FirstReadKeepsTalker` | "interrupt", "curious" |
| `ReadTalker` | `[]ReadKeepsTalker` | the same, and `Undisturbed` |
| `CarefulClears` | `[][CarefulClear]_vars => ClearReachesInstrument` | "interrupt" |

The argument for `HeaderSync`: as long as no abort flag is up, the packets that `TMC_Task` has not begun, taken in order, fit its byte counter (`StreamOK`: `InOrder` for both banks, and what is left
after them is what the host still owes). An abort breaks that. While a flag is up nothing is said but that the host has stopped sending (`AbortQuiet`); when it falls, the endpoint is empty and the counter zero, and
`SplitInv` keeps it so until the host has learned that the abort is over (`Flushed`), although the request stays in progress for any number of rounds and the host may give up its control transfer in between.
For `BusMatchesTransfers`, `AddressInv` says how the instrument is addressed in every block of `TMC_Task` and inside both transfer functions: unaddressed at the end of every message and every complete response, never a listener in a read, and
idle after a poll that disturbed a byte. It needs `EndpointInv`, because a write between two read requests of one response leaves an instrument unaddressed that `TMC_Task` believes to talk.

The hypotheses cannot be dropped; for each of them TLC gives a counterexample without it. A host that rushes sends the next message after a refused abort, and the flag that was raised all the same flushes its first packet but not the rest.
A host that interrupts makes `BusMatchesTransfers` and `ReadKeepsTalker` fail, a curious one `ReadKeepsTalker` (finding 1).
`Undisturbed` says that no service request is raised and no lockout asked for: the poll of the one and the recovery of the other when it times out take the bus between two read requests of a response (section 5).
`FirstReadKeepsTalker` is what is left without it: the first read request of a response keeps its talker in any case. All chunk and buffer sizes, numbers of messages, and the other requests are arbitrary.

`CarefulClears` is the other half of finding 2: it says which hosts never lose a clear. The host may rush and be curious, but asks for a clear only when every read request is answered and no abort flag is up (`CarefulClear`). Then nothing is read, and nothing can be, between its
request and the device clear (`ClearInv`): the endpoint holds no read request when it asks, and takes none until the split request is over, which is not before `handleSDC` has fallen. So the reset in the IN branch (T:1342) finds no clear to drop. The second half of the
condition is needed, TLC finds the clear lost without it: after an abort that was refused the host may believe its read to be over while the adapter is still in it.

**HandshakeProofs.** `Refines` proves `Spec => TransferSpec`: for every set of transactions that keep to `TransactionsAssumption`, every reply and any number of transactions, the wires do
what GpibTransfer promises. `Inductive`, `TypeCorrect` and `NeverTwoDrivers` (`[]OneDriver`) come with it. `TransactionsAssumption` is what the functions of `gpib.c` have in common: TLC evaluates it
on the fourteen transactions of the run. Its clauses are needed: only the result of a primary address byte, or of the address bytes of a search, is thrown away; command bytes call the timeout function in every round; and nothing is written to an instrument that was told to talk.

The refinement is not provable from the steps alone: whether high NDAC means "accepted" depends on what the other side was doing when DAV fell. `IInv` (HandshakeInv) says which lines the adapter holds at
each place (`AdapterLines`); that, while a byte is offered, the instrument's acceptor is active exactly if it is addressed or ATN is low, and its source is idle (`ByteOut`), which the delay before
the first data byte establishes and which makes high NDAC mean "taken, or nobody listens"; which byte of the reply is on the lines when the adapter samples them, and that no byte goes between two reads
because NRFD or NDAC is held (`ByteIn`); that a talker is told to stop before the adapter writes (`Untalked`); and that after a step that was given up the timeout function still says so, so that the secondary
address, or the next address of a search, can only be given up as well or find an instrument that the interface clear has made idle (`GivenUp`).
There is one lemma per action for the invariant and one per visible action for the refinement.

**AdapterProofs.** `NamesKept` proves `Spec => []NamesInv` and `ReportedName` its conjunct `ReportedNameIsLast`, for every
set of instruments, every length of the string and any number of exchanges, commands and failures. The invariant: while a name is being stored, the address is in EEPROM
before any cell, and the cells passed equal the new name (`SavingPrefix`); at any other time EEPROM holds the last name whole (`StoredIsLast`), unless the power failed during a save. Hence an unnamed
instrument at the stored address is given exactly the name stored for that address.

`TypeCorrect` (`[]TypeOK`) holds for every set of instruments and of texts; its point is that `gpib_addr` is always an address, also between a search and a save and after any address command, and never has the primary address 31, which
on the bus would be UNL or UNT. It needs `NamesInv` for the name that is being stored.
`Finds` (`[]SearchFinds`) follows `gpib_search` through its probes and the second try without the secondary address, for an arbitrary set of secondary addresses. `AddressTyped` (`[]AddressAsTyped`) has the hypothesis that a command has one or two numbers in 0..254: the
parser computes in a byte, 255 is its mark for "no number", and 257 sets address 1 (section 5). For those it follows the parser digit by digit.

**BootDiskProofs.** For every geometry that keeps to `VirtualFatAssumption` and `BootDiskAssumption`, every set of directories (all pairs of 16-bit start clusters, if one likes), every set of layouts among them with the files apart and on the disk (`LayoutsAssumption`), any leftovers of broken writes, and any number of failures:
`LoaderKept` (`BootLoaderIntact`), `Updated` (`UpdateComplete`), `ReadBack` (`ReadsBack`), `SettingsKept` (`SettingsUntouched`), `QuietExit` (`ExitAfterQuiet`), `TypeCorrect`. Two lemmas carry the arithmetic:
`SectorInFile`, a block that is recognised as one of a file is a sector of it, for every start cluster and in spite of the wrap (this is why `LoaderKept` needs nothing of the directory); `Located`, the loader's range and the host's are the same. `IInv` adds to the properties that counted blocks are in the
flash or the EEPROM, and, for the block under way, that it holds the host's data unless its stream is broken, and which pages were written (`Progress`); `QuietExit` rests on the counter never being ahead of the silent loops.

`FatChains` (`[]FilesChained`) rests on VirtualFatProofs. `EntryUpdate`: an update of one entry changes no other, but for an odd one right after an even one, which it damages (finding 5). `ChainSet`: a chain of
updates repairs all of that but the entry behind it. `Chains`: of two chains apart from each other, FLASH.BIN's first, both are whole at the end, except that the entry behind EEPROM.BIN may be FLASH.BIN's first.
The last is the exception that `FilesChained` states; a host that stores FLASH.BIN right behind an EEPROM.BIN that ends with an even cluster reads a broken chain. `ApartClusters` and `AddressableClusters` carry that over from blocks
to clusters of any size. The hypothesis is a disk of at most 169 clusters, since `UpdateFAT12ClusterEntry` computes the place of an entry in 8 bits; that of the ATmega32U4 has 20.
`UpdateFAT12ClusterChain` is a recursive function; its recursion (that the function exists, and what n steps leave) is followed by a least counterexample, `LeastNumber`, in place of the library's induction theorems.

**Only model-checked:** what is temporal beyond invariants, action properties and the two refinements: `AbortsEnd`, `SplitRequestsEnd`, `ReadsEnd`, `DeferredStatusAnswered`, `EndsWhenExpired`, `EndsWithInstrument`, `BootEnds`, `EjectEnds`. They need fairness
and `ENABLED`, which are out of the reach of the prover here. Every invariant and every action property of the runs that pass is proved, those of UsbTmc under the hypotheses above.

## 5. What the runs found

1. **bug_status_in_read.** A status request that arrives inside a read is answered at once, with a serial poll that ends in UNT. The interrupted read then waits for a talker that
   is none any more, until the host aborts. The comment at T:213 says this cannot race. With the "curious" habit `ReadKeepsTalker` fails; for writes the code defers the poll.
2. **bug_clear_in_read.** INITIATE_CLEAR during a read: `TMC_resetstates` clears `handleSDC` before the device clear is sent; the host is told the clear is complete (T:1342 against the comment T:1406).
   A host that clears outside reads is safe: theorem `CarefulClears`.
3. **bug_term_command.** `!term lf` and `!term cr` set the terminator but never enable it, and each read request without TermCharEnabled disables it again (`miniparser.c:132-140`, T:1292, `README.md` of the repository).
4. **bug_no_acceptor.** With nobody at the address both NRFD and NDAC float high, and a byte counts as sent. The comment at `gpib_priv.h:86` says that NDAC is waited for to be low; the code looks at NRFD only.
5. **bug_fat.** The FAT entry behind EEPROM.BIN, cluster 15, reads 0x00F instead of free: for an even cluster `UpdateFAT12ClusterEntry` takes the upper nibble from the byte it has just written (`Lib/VirtualFAT.c:263`).
   Inside a chain the next update repairs it, which is why `FilesChained` holds; a host that trusts the table takes one free cluster for used.

Also observed while modelling; no run keeps the counterexample:
- An abort in the middle of a message leaves `gpib_write_is_busy` set, so the next status request is deferred until some later write (T:113, T:1117).
- A refused abort raises the abort flag all the same and drops a transfer (T:743, T:799).
- A service request between two chunks of one response is polled, although the instrument is still the talker (T:1187).
- Local lockout overtakes messages that wait in the OUT endpoint; go to local and REN do not (T:1215, `Updates.md`).
- A lockout that times out between two chunks of a response pulses IFC and so untalks the instrument.
- `gpib_recover` sets REN after every timeout, so an instrument sent to local comes back to remote.
- `!addr 257` sets address 1, because the number parser computes in a byte.
- Two status requests answered during one write leave one interrupt notification.
- A WRITE (10) whose data breaks off is reported as successful: `Lib/VirtualFAT.c:404` ignores the result of the stream, and `Lib/SCSI.c:262-274` goes on with the remaining blocks and returns true ("Boolean `true` if the
  command completed successfully"). Sectors, and the directory if it is among the blocks, are written from a stale buffer. What holds all the same is that the loader stays intact (`BootLoaderIntact`), and that sending the blocks again repairs the image (`UpdateComplete`).

## 6. Not modelled, and the plan

The LED pulse (T:573-593) changes nothing but the LED. USB descriptors are constant tables. The GUIs are programs on the host that send internal commands; to the firmware they are hosts like any other.
LUFA and the VISA declarations are third-party code; hardware design files, tutorials and pictures have no behaviour. In the components that are
modelled in part, `PROJECT.json` names what is missing.

Next, in this order:
1. **Proofs**: an abstract session for the reads, as TmcDelivery is for the writes.
2. **IN stream**: the response packets, the timeout of the endpoint wait (T:1138) and the tag of a partly sent response; an abort in the middle of the upload.
3. **Long internal commands**: a command of more than one packet (T:1371), whose tail reaches the bus with no listener.
4. **Power cycles within a transaction** in GpibHandshake: an instrument that comes back between two bytes.
