# lightBLUE in TLA+

lightBLUE is a C library that drives a Bluetooth Low Energy controller (TI or
ST) over a serial line. This directory models the library: the parts in which
threads, events and time meet, its setup and shutdown, and what it makes of the
bytes. TLC checks the models and TLAPS proves the most important properties.
Paths below are relative to the repository.

## The system

Application threads call blocking `lb_` functions. One I/O thread
(`lib/osal/src/io_win32.c`, `ioThreadHandler`) reads the serial ports, cuts the
bytes into HCI events and runs every handler and every callback of the
application. The two meet in shared memory: a table of pending commands, a
condition per controller, a condition per device, the completion ports of the OS.

    application thread                               I/O thread
    lb_connect, lb_disconnect - ports, memory -----  read loop
    lb_readCharValue        --- device condition ---  vendor event handlers
      lb_executeCommand     --- pendingCommands ----  signalCondition
        io_sendData         --- byte counters ------  write completions
                                                      read completions
                                                        -> processBuffer

| Component | State | Operations | What is hard |
|---|---|---|---|
| HCI command table (`hci.c`, `lb_executeCommand`) | `pendingCommands[4]`, `pendingLock` | allocate, wait, signal | only the reservation is locked; slots are found by opcode alone; timeouts leak slots |
| Event framing (`processBuffer`, `io_on_dataReceived`) | `buffer[128]`, `length` | append, cut into events, dispatch | events split over reads, partial headers, noise, a full buffer |
| Serial transmit (`io_win32.c`) | `writeScheduled`, `writeCompleted`, a condition variable | `io_sendData`, `io_waitForTransmitComplete`, completion | several senders, failing writes, counters that wrap |
| Lifecycle (`controller.c`, `io_win32.c`) | the controller, the channel, three completion ports, the I/O thread | initialize, connect, disconnect, sleep, wait for Ctrl-C, cleanup | failing calls of the OS; the I/O thread may still use what is freed |
| Vendor selection (`lb_initializeHCI`, `lb_configureAsCentral`, device discovery) | `manufacturerId`, `vendorFunctions` | reset, version, select, the vendors' sequences | a failed step leaves an old selection; events nobody asked for |
| Device table and connections (`commands.c`, `lb_priv.h`) | `device[8]`, `operationLock`, `operationComplete` | open, close, link up, link down | a link event answers whichever call waits; failures and timeouts; the searches of the table |
| Attribute operations (`commands.c`, `ti_hci.c`, `st_aci.c`) | `pendingOperation`, `pendingRead`, device lock and condition | discover, write, read, the ATT events | the answers name no operation; late answers |
| OSAL conditions and locks (`cond_win32.c`, `lock_win32.c`) | a manual-reset event and a status; an SRW lock | create, reset, signal, wait | a wait that runs out as it is signaled |
| Decoding and encoding (`gap.c`, `utils.c`, `hci.c` 229-252, `sensor_tag.c`, the packets of `ti_hci.c` and `st_aci.c`) | none | addresses, advertising data, services, sensor values, commands | lengths at their boundaries |
| HCI texts, tests, build files | none | | |

What makes each one correct: a call gets the answer to its own request and to
no other; two calls never share a slot, a lock or a buffer; data is written only
into buffers of calls in progress; every byte received belongs to one event,
dispatched once and in order; a chip gets the commands of its own vendor; what is
decoded is what was sent; what is created is destroyed once, and not under
the feet of the I/O thread; no assertion of the code fails; every call returns.
`PROJECT.json` lists the hazards line by line, with the properties about each.

## The modules

| Module | Models | Notes |
|---|---|---|
| `PendingCommands` | the command table and its users | one step is one access to the table |
| `CommandService` | what `lb_executeCommand` promises | abstract: a call is sent, answered by the controller, and returns that answer or a timeout before it |
| `Framing` | `io_on_dataReceived`, `processBuffer`, the read loop | one step is one event, one read or one leaving of the loop |
| `Transmit` | `io_sendData`, `io_waitForTransmitComplete`, the completions | counters modulo `Modulus` (2^32 in the code) |
| `Lifecycle` | `lb_initialize` to `lb_cleanup`, the I/O thread, Ctrl-C | one step is one call of the OS |
| `Bringup` | `lb_initializeHCI`, `lb_configureAsCentral`, device discovery, both vendors' sequences and events | composes the calls, the command table, the chip and the dispatch of events; one step is one access to the table, one command of the chip or one choice of a handler |
| `Connections` | open, close, link events | `controller->operationLock` and `operationComplete` |
| `Attributes` | discover, write, read and the events that answer them | `device->operationLock` and `operationComplete`; both vendors |
| `Codec` | decoders and command packets | one step is one pass of a loop |
| `MC...` | constants for TLC | |
| `...Proofs` | theorems | one module per component, about the module it is named after |

State and actions correspond to the code like this.

- A thread's program counter (`pc`, `app`, `thread`) names where it is in the
  function it runs; an action is the code between two accesses to shared state.
  What the code does under an SRW lock without being visible outside is one step,
  and 16-bit and pointer-sized accesses are atomic, as on the machines it is built
  for.
- `PendingCommands`: `opcode`, `buffer`, `status`, `signaled` are the fields of
  `struct hci_condition`; `ii` is the index of `allocateCondition`, `jj` the one
  of `signalCondition`. `inFlight` is what the controller has received and not
  acknowledged; acknowledgments come in any order. `DoubleAck` lists opcodes
  acknowledged by a Command Status and a Command Complete. The I/O thread's
  steps interleave with every step of every caller. A command is sent as the code
  sends it: `io_sendData` may fail (`WriteFails`), and a caller that still finds
  bytes to be written sleeps (`SleepOnWrite`) until a completion wakes one of the
  sleepers (`WriteComplete`). `Transmit` looks at these steps closer.
- `Framing`: `buffer` and `length` are the accumulator; `Bytes` lays an event out
  with its header of three bytes. `Noise` is a byte that is no event marker.
  `split` is for the properties: the events of which exactly two header bytes were
  left behind others in the accumulator, the case that `processBuffer` gets wrong.
- `Lifecycle`: a channel `c` is one call of `lb_connect`; `channel[c]`,
  `controller[c]` and `serial[c]` are the memory and the handle it owns,
  `packets`, `posts` and `stopped` what is queued at the three completion ports.
  `InitCalls` and `OpenCalls` list the calls of `os_initialize` and
  `io_openSerialPort` in their order, each of which may fail; the code's way back
  is `Done` and the steps after it. Memory, handles and ports count what is done to
  them: one that is freed or closed again is "twice", which `NoLeak` excludes. Whether the I/O thread, in a handler, still
  needs what `lb_disconnect` destroys is left open (`Data`). A callback that
  executes a command leaves it "stuck".
- `Bringup`: `todo` is what the call has yet to execute, `slots` the table with the
  opcode, the capacity, the result buffer, the status and the condition of each slot.
  `Reserve` takes a slot under the lock; `ResetSlot` to `SetBusy` fill it in after
  it, and `ScanSlot` to `SignalSlot` are the accesses of `signalCondition`, which has
  no lock. `overtaken` says that a command took the free slot which that scan had
  found for opcode 0, and `common` how the reset and the version, which
  `lb_initializeHCI` asks for before it knows the vendor, ended: the code overwrites
  their status. `vendor` and
  `manufacturer` the fields of the controller, `version` the local variable of
  `lb_initializeHCI`. `chip` is the other end: its maker, and for the properties
  what it has executed. `events` are handled one at a time, in order. `Odd` sends a
  Meta event or a Command Complete with opcode 0, which asks for nothing.
- `Connections`: `handle[d]` is `device[d].connectionHandle`; `late` counts the waits
  that run out while their event is under way and the closes that are refused; an
  event carries its
  link and, for the properties only, the thread whose connection it is. Both
  searches of the table (`on_connectedToDevice`, `getDevice`) stay at entry 0,
  as in the code; `Spinning` says when they do so for ever. An optimising
  compiler may read entry 0 once, so that the search spins on although the
  entry changes later; the runs do not reach that case without also spinning
  here.
- `Attributes`: an answer carries the call it belongs to, which the code cannot
  see: the properties compare it with the call that returns it. `Answers` gives
  what each vendor sends for a request, `Copied` the length the code copies.
  `reported` is the length that the caller is told; `data` records what the buffer got:
  whose value, how long that value is and how many bytes were written.
- `Codec`: a job says what a peer or a caller means, `Layout` the bytes on the
  line, the actions what the code makes of them in `out`; `reach` and `limit` are
  the last byte touched and the last one allowed. `Expected` is the reference. A
  job of kind "air" is advertising data as they come: any bytes, which need not be
  elements.
- Definitions marked `\* mutant` are not the code: they are wrong variants of the
  definition below them (a dropped guard, a missing reset), kept to show that
  each property notices them. Nothing else uses them.

## The runs

Passing runs:

| Run | Question | Bounds |
|---|---|---|
| `commands_disjoint` | Does every call get its own acknowledgment and data, and return, when no two calls in flight share an opcode? Is `lb_executeCommand` a `CommandService`? | 2 threads, 2 slots, 3 opcodes, 2 calls each, 1 failed write, no timeouts |
| `commands_shared` | What holds with shared opcodes, timeouts and double acknowledgments? Slots stay exclusive, and a timeout costs exactly one slot. | 2 threads, 2 slots, 2 opcodes of which one is acknowledged twice, 2 calls each, 2 timeouts, every command succeeds |
| `framing_events` | Is every event dispatched once and in order with its payload, however reads cut it, and with its own opcode? Is nothing written behind the accumulator? | 3 events of two opcodes, one as long as the accumulator of 10, reads up to 11 bytes, 1 byte of noise |
| `transmit_shared` | Is a command's memory in use only while its sender waits? Does a sender with the channel to itself return? | 3 threads, 2 sends each, counters modulo 32, 1 failed write |
| `lifecycle_two` | Does anything leak when calls of the OS fail? Is the port always read? When is freed memory used? Does `lb_cleanup` return, after the I/O thread's end? Is a Ctrl-C lost? | 2 rounds, 2 channels, 2 reads, 2 failures, 1 Ctrl-C |
| `bringup_chips` | Is LB_OK true, the vendor the right one, the process alive, the result buffer in use, whatever is refused, lost or late? | 2 slots, chips of TI, ST and another maker, 3 calls, 1 lost, 1 late answer, 1 odd event, every order of the two threads |
| `attributes_shared` | Do operations and answers find each other, for both vendors? Is a read told the length of its value? | 2 threads, 3 operations in all, 2 handles, buffers and values of 1 and 2 bytes, 1 operation given up before its answer |
| `connections_shared` | Until when are no link and no device lost? Which link events are handled, which opens are right, does every call end? | 2 threads, up to 2 devices at a time in a table of 8, 2 opens each, 2 lost links, 1 failed connection, 1 early timeout or refused close |
| `codec_jobs` | Is what is decoded what was sent? Have commands the length they say? Is nothing touched outside the data? | the jobs of `MCCodec`, write buffer of 64 bytes; from the air every sequence of up to 3 bytes of 9 values, and one of 255 |

Why these bounds: two threads and the I/O thread are all the parties of every
race found in the code, and two slots with two threads let the table become full
through leaks. Two calls per thread reuse a slot. The accumulator is small, and the
reads are longer than it by one byte, as the code's reads (256) are longer than its
accumulator (128); an event can span several reads and a read hold several events,
with two opcodes, of which the wrong one shows. The wrap of the counters is
reached with modulus 32 (the code compares them for equality only).
Two rounds of `lifecycle_two` reuse the handler and the ports, two channels let a
packet of the first one meet the second, two failures one while another is undone.
Three calls of `bringup_chips` initialize a controller again after a failed or a
complete start and use it afterwards; a call has one command in flight, so that two
slots are the command's own and the one that a timeout or an event without opcode
can take. The jobs of `codec_jobs` have every kind of element, alone and before each
other one, every place of a typing error in an address, and lengths on both sides
of each limit.
`connections_shared` and `attributes_shared` let a wait run out whenever no answer
is to come, and once before an answer that is on its way. Several of their properties
hold until then (`late = 0`) and are not claimed afterwards; what such a timeout
breaks is said below. In the same way `connections_shared` opens a second device, and
`LinkEventsHandled` names the search that this leaves without end, and `CallsReturn`
excludes the failed write and the second sleeper for which the code has no way out.

Runs that show a disagreement between the code and what the repository says:

| Run | What it shows |
|---|---|
| `commands_stale_slot` | After one timeout, the answer to the next command of that opcode goes to the stale slot and the caller times out although it was answered. |
| `transmit_two_waiters` | Two senders sleep until all is sent; `WakeConditionVariable` wakes one, and the other sleeps for ever. |
| `connections_dropped` | A link lost as an open completes: the reason of the disconnection is returned as the device pointer. |

### Known limits of the code

What the models showed and no run repeats:

- *Commands.* Two calls of one opcode in flight (as two controllers produce)
  exchange their answers; a double acknowledgment finds no slot and fails the
  assertion of `signalCondition`; a full table gives NULL, which
  `lb_executeCommand` does not look at.
- *Sending.* A WriteFile that fails leaves bytes that are never completed: every later
  command sleeps for ever in `io_waitForTransmitComplete` (`io_win32.c:525`), as may one
  of two that sleep there at a time (`transmit_two_waiters`).
- *Framing.* One or two bytes of a header left behind a dispatched event stay at
  their offset (`commands.c:137`); with two, the next event is read with the opcode of
  an earlier one. A read may bring 256 bytes for an accumulator of 128, so a
  burst fails the assertion of `commands.c:150`, on a clean line too.
- *Setup.* `CreateIoCompletionPort` reports a failure with NULL, which is compared
  with `INVALID_HANDLE_VALUE` (`io_win32.c:213`); an `os_initialize` that fails for
  another reason leaves the ports it has made (`io_win32.c:243`). A read that fails is never
  started again (`io_win32.c:186`). `lb_disconnect` frees what the I/O thread may
  be using if a read ends at that time (`controller.c:98`).
- *Bringing up.* TI has no `on_metaEvent` and `processBuffer` calls it. A vendor
  chosen by an odd event's bytes is the wrong one; its handler does not know the
  chip's answers, the commands time out and leave their slots taken. A Command Complete
  with opcode 0 matches a free slot (`hci.c:178`); if a command reserves this slot before
  it is signaled, its caller gets LB_OK for what the chip has not executed, and the real
  answer may find no slot and fail the assertion of `hci.c:209`. `lb_initializeHCI`
  returns the vendor's status when the reset or the version failed (`commands.c:226`).
- *Connections.* With a second device the search for a free entry never ends and
  the I/O thread spins (`commands.c:341`). A link that comes up after its open has timed
  out, or whose close was refused, has no owner, and its end is searched for in vain
  (`lb_priv.h:125`). The status of a failed connection event
  is not looked at.
- *Attributes.* A read response that comes after its timeout is returned as the
  value of the next read. The length of a response is raised to the capacity
  of the buffer, not limited to it (`ti_hci.c:389`, `st_aci.c:350`): a shorter value is
  reported as long as the buffer, although `commands.h:206` calls this length the size of
  the value, and a longer one is written behind it. TI's error
  response to a discovery is ignored, and ST's failed discovery is reported as a
  success.
- *Decoding.* Legal advertisements with two bytes of flags or two 16-bit UUIDs fail
  assertions (`gap.c:46,51`); zero padding is read twice, and one byte past the
  end is looked at (`gap.c:37`). Data from the air whose lengths do not add up are read up
  to 255 bytes behind their end. A sensor value shorter than expected is decoded
  with the bytes the buffer held before (`sensor_tag.c:64,102`); a negative
  temperature comes out 2^24 hundredths of a degree too high (`sensor_tag.c:66`).
- *Encoding.* ST's connection command is sent with six bytes more than its header
  says, never written (`st_aci.c:418`). A write of more than 56 (TI) or 55 (ST)
  bytes overruns `cmd[64]` (`ti_hci.c:484`, `st_aci.c:473`).

## Fairness

Safety needs `Spec` only. Liveness assumes: each thread that can run does (weak
fairness of `CallerStep(t)` or `SenderStep(t)`, as Windows schedules threads); the
I/O thread runs (weak fairness of its step); in `PendingCommands` the controller
acknowledges every command; there and in `Transmit` the operating system completes every
write it has taken (there is no timeout in `io_waitForTransmitComplete`); in `Framing` the line
delivers what was sent; in `Attributes` the peer answers, and in `Connections`
every connection attempt ends, but the waits of callers run out anyway. In
`Lifecycle` the steps of the application that take down what is up are fair
(`Returning`) and so are those of the I/O thread; reads need not end, and Ctrl-C
need not come. Nothing is assumed of the order in which locks are granted. No
thread is assumed to call anything, and no link to be lost.

## What is proved

For every value of the constants, under no assumption but those named:

*The command table.*
- `TypeCorrect` and `SlotsAreExclusive` (`PendingCommandsProofs`), whatever is
  shared, acknowledged twice or late. The invariant `SlotInv` says who can be
  between `os_lock` and `os_unlock`, that a thread about to reserve sees its slot
  free, and that a slot in use is marked by its owner's opcode: only the owner
  unmarks it, so no other thread's scan stops there.
- `EachTimeoutLeaks`, as unconditionally. The number of leaked
  slots is inductive given `SlotInv`: a timeout adds the slot of its caller, which
  no other caller owns.
- `RepliesAreOwn` and `BuffersAreLive`, assuming `Disciplined`: no
  opcode is sent by two threads, none is acknowledged twice, and no wait times
  out. `OwnInv` ties each command on its way, each acknowledgment handled and each
  slot to the one call of that opcode in progress.
- `NoFault`, assuming `Disciplined` and `EnoughSlots` (as many
  slots as threads). The scans are shown to pass only slots of other threads.
- `ImplementsService`, assuming `Disciplined`: each step of
  `PendingCommands` is a step of `CommandService` or leaves its state alone.

`Disciplined` and `EnoughSlots` are what the table needs and does not check:
`commands_stale_slot` shows what one timeout does to it, and the known limits above
are what a shared opcode, a second acknowledgment and a full table do.

*Event framing* (`FramingProofs`).
- `TypeCorrect` (no assumption): what `processBuffer` has not used ends where the
  bytes received end (`Window`).
- `EventsAreFramed` (no assumption). `StreamInv`
  compares the accumulator with all bytes sent so far, and the place in them where
  each event begins: the bytes held and those on the line are the ones behind the
  events dispatched. Only the second byte of a header left behind another event may
  be an earlier one's, and then the event is one of `split`.
- `StaysInBounds` (no assumption): `Window` bounds what is held, and the assertion of
  `io_on_dataReceived` ends the process before a read that does not fit is stored.

*Sending* (`TransmitProofs`).
- `TypeCorrect` (no assumption).
- `SendersWait`, assuming finitely many threads and a `Limit` of the lengths whose
  product with the threads and the failed writes is below the counters' wrap.
  `TransmitInv`: the bytes scheduled and not completed are, modulo the wrap, the sum
  of the commands under way and the bytes that failed writes left behind. The sum is
  less than the wrap and more than zero while the sender's own command is under way,
  so that the two counters differ.

*Setup and shutdown* (`LifecycleProofs`, no assumption).
- `TypeCorrect`: no step beyond the last call of the OS, given who is where
  (`MemoryInv`, `ShutdownInv`).
- `NothingLeaks`: `MemoryInv` says for each place of the application which channel,
  controller and handle are live, and that all others are unused or given back; `PortInv`
  which ports are open. Each release finds what it releases live, so that nothing is
  given back twice.
- `CleanupWaits`: `ShutdownInv` counts the post of the I/O thread, which is there
  only if the thread has come to its end.
- `PortIsRead`: `ReadInv` follows the one read of the connected port from the OS to
  the queue, to the I/O thread and back.
- `FreedMemoryNeedsRace`: `RaceInv` says that every packet and every read served of
  a channel that is not the connected one's is marked as raced.
- `InterruptIsKept`: `InterruptInv` says that a Ctrl-C has left its post, or is
  about to, unless a call took it.

*Bringing a controller up* (`BringupProofs`).
- `TheVendorIsRight` (no assumption): by `VendorInv` the version read, the
  manufacturer and the vendor kept are none or the chip's, and every command in the application
  or on the line is one of the chip's own, as long as no odd event has come.
- `TypeCorrect` (no assumption): the first free slot exists, and the scan of the I/O thread
  stops at a slot or fails the assertion. That a set of numbers has
  a least element is the one induction of these proofs (`Least`), stated over sets.
- `NoSlotPointsBack` (no assumption): by `OrderInv` the used slots are the first ones and
  the caller's is the last of them, whatever step of filling it in has been reached; the
  slot that `lb_initializeHCI` gave its version to is used again by the next call's command.
- `OkIsDone` (no assumption): `DoneInv` holds whatever is lost, late, odd or of the
  wrong vendor, until a slot is overtaken. An older slot of the same opcode, left by a
  timeout, takes every answer before the caller could: the I/O thread is at the caller's
  slot, and this is signaled, only with the answer to its own command (`Found`,
  `Unsettled`), and what the chip did last are the commands of the call that are behind it
  (`Calling`). What LB_OK says after the end is `Returned`.
- `NoCallCrashes` (at least two slots): by `TableInv`, as long as nothing is lost,
  late, ignored or overtaken, the command in progress has the only slot in use and is at one
  place: in preparation, on the line, with the I/O thread, or answered. A scan for it ends
  at that slot, one for opcode 0 at the first or the second.

*Attributes* (`AttributesProofs`).
- `TypeCorrect` (no assumption).
- `EntriesFindIdle` (no assumption): by `EntryInv` whoever holds the device's lock
  is the only one past it, and the device is idle whenever the lock is free, just
  taken or about to be released.
- `AnswersAreExpected` and `AnswersAreOwn` (no assumption; both say what holds until an
  operation is given up before its answer): by `AnswerInv` one answer at most is on its
  way, and it is for the holder of the lock, which waits for it.

*Connections* (`ConnectionsProofs`, no assumption).
- `TypeCorrect`.
- `OpensAreSteady`: by `SteadyInv`,
  until a link is lost, a wait runs out early or a close is refused, a link event under
  way is for the holder of the lock, and a signaled status is the one it waits for.
- `LinksAreOwned`, with links lost at any time and second devices opened: by `LinksInv`,
  until such a wait or refusal, entry 0 is the only one used, the link the
  chip has is in it or its event is under way (a second one stays there for ever), and an
  entry in use has an owner or is about to be given to the caller that waits.

*Bytes and what they mean* (`CodecProofs`), for every set of jobs of which
`JobAssumption` holds: a number fits the bytes that tell it, a list the byte that
counts it, and the memory goes on for three bytes behind a report, 255 behind data from the
air, and for the bytes a sensor value lacks. Those are the values that the chips' events and the code's own
types can hold. Elements, services and the bytes of names and values are as many and
as long as that allows.
- `TypeCorrect`.
- `TellsAsSent`, `CommandsAreFramed` and `StaysInBytes`, by `CodecInv`, one invariant
  per kind of job (`KindInv`). That of an address (`AddressInv`) is the prefix
  parsed: its characters are valid and the bytes they complete are in place. That of
  services (`ServicesInv`) is the number of entries told. That of a report
  (`ReportInv`) needs to know where in the data each element begins: `Flatten`
  finds these places for any sequence of sequences, by induction over a set of
  numbers (`Induction`, from the library's theorem that the order of Nat is
  well-founded), and `ElementAt` describes the bytes there. Zero padding, in which the
  code takes the zeros for elements, has a disjunct of its own (`InPadding`). Data from the
  air (`AirInv`) may be any bytes: what has been looked at never ends more than 255 bytes
  behind them, nor more than three behind the place where the next element is expected.
- The lemmas below are about the operators: what `FlattenSeq` puts where
  (`Flatten`, `FlattenEqual`), that a number comes back from its bytes (`Word16`,
  `Word24`, `Byte8`), that a hexadecimal digit comes back from its character, and what
  each type of element is told as (`ElementTold`).
- Proving it uncovered two guards of `Reported` that both held for manufacturer data,
  of which TLC took the first; the second one now leaves it out.

Model-checked only: all liveness, which needs fairness and ENABLED, beyond the
prover's reach, and what the three runs of disagreement find violated.

## Not modelled

- ATT notifications: the code does not settle what their length byte counts.
- The device's own lock and condition, which open creates and close destroys while
  an operation may be entering (`commands.c:542`): what happens to a thread that
  sleeps on a destroyed lock is not defined.
- Several controllers connected at once, and a second I/O thread.
- `writeOverlapped`, which is cleared under a write that may be in flight
  (`io_win32.c:517`): the outcome is the operating system's.
- What a command's constant bytes mean, `utl_printBuffer`, the scaling to floating
  point of `sensor_tag.c`, the strings of `hci_text.c`, the serial port's
  configuration values, the test programs.
- `hci_cleanup`'s effect on the table of commands, which is a step of `Lifecycle`
  without it; `releaseCondition`, which nobody calls.

What a next step would take up: `Attributes` and `Connections` over
`CommandService` in place of their own steps for a command's acknowledgment; an
abstract service of one request and one answer that `Attributes` implements when no
answer is late.
