# NMEA2CAN: TLA+ models, checks and proofs

NMEA2CAN is a small gateway: it receives NMEA 0183 sentences in UDP datagrams,
converts them to NMEA 2000 messages and sends those on a CAN bus through Linux
SocketCAN. It carries a copy of two libraries, `NMEA2000` and `NMEA0183`, of which it
uses a part. This directory holds TLA+ modules of the program and of both libraries,
the TLC configurations that check them on small instances, and theorems that hold for
every value of the constants, with proofs checked by TLAPS.

Paths below are relative to the repository's root, `NMEA2000.cpp` standing for
`NMEA2000/NMEA2000.cpp`, `MessageHandler.cpp` for `Handlers/MessageHandler.cpp` and so
on. `PROJECT.json` lists, by definition, the lines of the source each one stands for.

## 1. The system

    UDP socket --> UDPReader thread --> MessageHandler --> NMEA0183Converter::HandleMessage()
                                                                 |  SafeQueue<tNMEA0183Msg>
                                                                 v
        CAN bus <-- SocketCAN <-- tNMEA2000::SendMsg() <-- NMEA0183Converter::Thread()
                                     ^                            |  tBoatData
                                     |  Open(), announcement
                                  main()

Three threads run: `main()`, the UDP reader and the converter. They share

- the map of subscriptions of `MessageHandler`, under `m_mapLock`;
- the sentence queue, under the mutex inside `SafeQueue`;
- `m_threadRunning` and `m_socket` of `UDPReader`, plain members;
- the library object `NMEA2000` and the boat data, which have no lock at all and
  rely on the order in which `main()` starts the threads.

The library is a set of classes around `tNMEA2000`. Everything in it happens inside the
calls the program makes, `Open()`, `SendMsg()` and `ParseMessages()`:

    frames in --> SetN2kCANBufMsg --+--> TestHandleTPMessage (ISO transport)
                   (five slots)     |
                                    +--> HandleReceivedSystemMessage --> address claims, ISO requests,
                                    |                                    group functions --> SendMsg
                                    +--> RunMessageHandlers --> tN2kDeviceList, the application
    ParseMessages --> SendFrames, SendPendingTPMessage, SendPendingInformation, SendHeartbeat

The gateway itself runs the library in `N2km_ListenAndSend` mode with one device and never
calls `ParseMessages()`; the receiving half, address claiming, transport protocol, group
functions, heartbeat and device list are modelled as the library offers them to a program
that does.

### Inventory

| Component | State | Operations | Hard about it | What makes it correct |
|---|---|---|---|---|
| `main()` (`nmea2can.cpp`) | the objects it builds, in order | open the library, announce the node, start the converter, start the reader, poll | partial failure (CAN or socket does not open), order of starts against two threads | nothing is used by two threads without a lock; threads are over before their objects are |
| Sentence queue (`SafeQueue.h`) | `std::queue`, mutex, condition variable | `enqueue`, `dequeue`, `isEmpty`, `size` | `isEmpty()` and `dequeue()` lock separately; lost and spurious wakeups | FIFO, nothing lost or repeated, nobody sleeps while there is work |
| Sending side of `tNMEA2000` | open state, ring buffer of frames, sequence counters, pending information | `Open`, `SendMsg`, `SendFrame(s)`, `SendProductInformation`, first half of `ParseMessages` | driver refuses in the middle of a message; ring full or wrapped; retry on a timer | frames in order, no holes in fast packets, a promise kept when `true` is returned, pending things sent in the end |
| `UDPReader` | socket, running flag, thread handle | constructor, thread, `StopThread`, destructor | unlocked flag and socket shared by two threads; socket closed under `select()`/`recvfrom()` | datagrams in order, once; stop is final |
| `MessageHandler` | map of subscriptions, singleton pointer, network | `HandleMessage`, `SubscribeHandler`, `UnSubscribeHandler`, `SetNetwork` | handlers come and go during a dispatch; a byte count passed by reference through several handlers | no call to a handler that left; calls inside the datagram; a dispatch ends |
| `NMEA0183Converter`, boat data | queue, thread, `tBoatData` | `Init`, `HandleMessage`, `Thread`, eleven sentence handlers | `Init` clears data its thread writes; fields of one sentence used by another; empty fields | accepted sentences converted in order; what is sent was measured, in the right unit, by one moment |
| NMEA 0183 messages | `tNMEA0183Msg`: fields, checksum | `SetMessage`, `AddXField`, `NMEA0183SetX`, `NMEA0183ParseX` | units, hemispheres, fields that are empty or missing | a reader reads what a writer wrote, and no other sentence |
| NMEA 0183 ports (`NMEA0183.cpp`) | line buffer, ring of bytes to be written | `GetMessage`, `SendMessage`, `SendBuf`, `kick` | a sentence cut off, another beginning inside; the port takes part of a sentence | sentences found after any disturbance; bytes in order |
| Fast packet reassembly (`SetN2kCANBufMsg`) | five slots with source, PGN, frame expected | frame in, message out | lost, repeated, interleaved frames; no free slot; timeout | a message out is one that was sent; stale slots do not block |
| ISO transport (`NMEA2000.cpp:1696-1994`) | per device one pending message, sequence, timer | RTS/CTS/data/EOM/abort, BAM | late and lost answers, retries | no message completed with a hole; the sender does not hang |
| Address claiming (`NMEA2000.cpp:2427-2574`) | name, address, claim timer | claim, answer a claim, next address, commanded address | simultaneous claims of several nodes, claims refused or dropped | distinct names end with distinct addresses, if their claims arrive |
| Heartbeat, schedulers (`N2kTimer.*`) | next time, interval, offset | `SetHeartbeatIntervalAndOffset`, `SendHeartbeat`, `UpdateNextTime` | held back by a claim for longer than a period; settings that restart the grid | one heartbeat for every period the program looks in |
| Handler lists | linked lists | attach, detach, run | a handler detaches itself or another one while the list is walked | everyone who asked is called once |
| Group functions | product and configuration information, NAME, PGN lists | request, command, read, write | several parameter pairs of which some are refused | asked means answered; only what is allowed changes |
| Device list (`N2kDeviceList.*`) | table of sources, request counters | `HandleMsg` | devices move, vanish, return while they are asked | one entry per name, every device found in the end |
| NMEA 2000 messages | `tN2kMsg`: data bytes | `SetN2kPGN`, `ParseN2kPGN`, `Append...`, Actisense and Seasmart forms | some 70 pairs of functions written apart; values at both ends; short messages; counts in the middle | what is read is what was written |
| Ring buffers (`RingBuffer.*`) | array, indices, priority chains | add, read, getReadRef, clear | wrap, full, released slots | FIFO within a priority |
| Event logger | last message, level, singleton | `LogEvent`, `Error`, `Debug` from any thread | creation race, suppression of repetitions | no line twice in a row |
| Streams, UDP sender, `Wait`, display, utilities | buffers, device handles | output | little | not modelled, see section 5 |

## 2. Modules

| Module | Models | Checked by | Proofs |
|---|---|---|---|
| `Fifo` | what a queue here promises: what comes out is what went in, in order | as a property of three modules | |
| `PriorityFifo` | the same with priorities | as a property of the ring buffers | |
| `SafeQueue` | `SafeQueue.h`, with the consumer's loop of `NMEA0183Converter::Thread` | `MCSupport` | `Support_proofs` |
| `CanSend` | the sending side of `tNMEA2000` | `MCCanSend` | `CanSend_proofs` |
| `UdpReader` | `UDPReader` | `MCUdpReader` | `UdpReader_proofs` |
| `MessageHandler` | `MessageHandler` and its subscribers | itself | `MessageHandler_proofs` |
| `Gateway` | `main()`, the converter's thread and how the parts above are put together | `MCGateway` | `Gateway_proofs` |
| `NMEA0183Messages` | the Set and Parse functions of the sentences, `SetMessage()` | through `Converter` | |
| `Converter` | the handlers of the sentences, the boat data, the messages they send | `MCConverter` | |
| `CanMsgBuf` | the slots of `N2kCANMsgBuf` | through the next two | |
| `FastPacketRx` | receiving fast packets and single frames | `MCFastPacketRx` | `FastPacketRx_proofs` |
| `IsoTransport` | the ISO transport protocol, sender and receiver | itself | `IsoTransport_proofs` |
| `AddressClaim` | claiming addresses, several nodes and devices | `MCAddressClaim` | `AddressClaim_proofs` |
| `GroupFunction` | group functions, ISO requests, the information a node gives | through the next two | |
| `DeviceList` | `tN2kDeviceList` | through `N2kServices` | |
| `N2kServices` | nodes, one of them with a device list, on a bus | `MCN2kServices` | |
| `N2kMsg` | `tN2kMsg`: the Add and Get functions, bit by bit | through `N2kCodec` | |
| `N2kTypes` | the enumerations and bit sets | " | |
| `N2kMessages` | the messages of `N2kMessages.cpp`, `N2kMaretron.cpp` | " | |
| `N2kSystemMessages` | the messages `NMEA2000.cpp` sends; the lists of fast packets | " | |
| `N2kAliases` | the inline functions of `N2kMessages.h` and older forms | " | |
| `N2kFormats` | CAN identifiers, Actisense and Seasmart forms | " | |
| `N2kCodec` | the life of a message: set, appended to, cut, read, forwarded | `MCN2kCodec` | |
| `RingBuffer` | `tRingBuffer` | `MCSupport` | `Support_proofs` |
| `PriorityRingBuffer` | `tPriorityRingBuffer` | `MCSupport` | |
| `HandlerLists` | lists of message handlers and group function handlers | `MCSupport` | `Support_proofs` |
| `NMEA0183Port` | `tNMEA0183`: reading and writing sentences byte by byte | `MCSupport` | `Support_proofs` |
| `EventLogger` | `EventLogger` | `MCSupport` | `Support_proofs` |
| `Heartbeat` | heartbeat and `tN2kSyncScheduler` | `MCSupport` | `Support_proofs` |

`MCSupport` puts seven classes that do not use each other side by side: its variable `part`
says whose behaviour this is, one of nine, and the others stay as they begin.

`Gateway` composes the others by what they are shown to promise, not by their text: its
queue is an instance of `Fifo`, which `SafeQueue` implements (theorem
`Support_proofs!ImplementsFifo`), and its reader hands over one datagram at a time, in
order, which is `UdpReader`'s `HandledInOrder` (theorem
`UdpReader_proofs!NothingOutOfOrder`). What it calls a conversion of two steps is
`Converter`. `FastPacketRx` takes from `CanSend` that the frames of a message are
consecutive and in order (`FastPacketContiguous`); `N2kServices` takes from `AddressClaim`
that a claim ends with an address of one's own.

An operator named `X_bug_...` is `X` with a defect a programmer could make. No
specification uses one; replacing `X` by it must make TLC report the property it is listed
with in `PROJECT.json` under `mutants`, which shows that the property looks at the code.

### The gateway

**SafeQueue.** A step is what a thread does between two points where another may run: take
the mutex, do the body, release it. `EnqueueLock/Push/Unlock` are `enqueue()`; `DequeueLock`,
`DequeueWait`, `WaitRelock`, `DequeueTake` are `dequeue()` with its `while (q.empty())
c.wait(lock)`; `IsEmptyLock/Return` are the converter's call of `isEmpty()` and what it does
with the answer. `c.wait` gives up the mutex and enters the wait set `cw` in one step, and
may be left without a notification (`SpuriousWakeup`). `put` and `got` record what was
pushed and popped. `size()` is left out: only a commented-out log line calls it.

**CanSend.** One step is one attempt to hand a frame to the driver, since each may be refused.
`BeginFrames` is `SendMsg()` up to the loop over the frames, with the sequence counter drawn;
`FlushFrame` is one turn of the loop of `SendFrames()`; then `SendDirect` (the driver takes
the frame), `BufferFrame` (refused, or an older frame was refused, and put in the ring) or
`FrameLost` (refused and the ring full, which ends the message). `Return` is the end of
`SendMsg()` and, for the product information, of `SendProductInformation()`. `Open` is used
by `main()`, `SendMsg()` and `ParseMessages()` alike, with its four states. The ring has the
code's two indices, `rd` at the slot last read and `wr` at the slot last written, one slot
always free; `Backlog` is the sequence it stands for. Frames carry message, PGN, sequence
counter and index, not their bytes. The model is of the mode the gateway sets,
`N2km_ListenAndSend` with one device: there `StartAddressClaim()` and `SendHeartbeat()` return
at once, so the address-claim test in `SendMsg()` never refuses. `ParsesMessages` tells whether
the application calls `ParseMessages()`; the gateway does not.

**UdpReader.** The owner (constructor, `StopThread()`, destructor) and the reader thread are two
processes that share `m_threadRunning` and `m_socket`; each reading or writing of one is a
step. The kernel's half of the socket is external: it is open, closed or never came to be,
and has an inbox. A datagram is its size, and `recvfrom()` cuts it to the buffer.
`DestroyClose`, `DestroyInvalidate`, `DestroyStop`, `DestroyJoin` are the destructor's steps in
its order: the socket goes first, the thread afterwards, so the thread may meet a closed
socket in `select()`, between `select()` and `recvfrom()`, or `-1` as the descriptor.
`m_threadRunning` is not atomic: strictly, a data race. The makefile compiles without
optimisation, so each test reads memory, and that is what the model does.

**MessageHandler.** `HandleMessage()` is taken apart at each call of a handler, because other
threads may ask to subscribe or leave meanwhile: `Begin` (lock), `LoopTest`, `CallNext`,
`HandlerReturns`, `RoundEnd`, `Finish` (report, unlock). A datagram is its size and the offsets
where a `$` stands. The header is cut to one character (`cHeaderSize - 1`) and always taken
from the start of the datagram, so it is `"$"` whenever the loop runs. A handler is external:
it returns either verdict and reports any number of the bytes it was given. A handler that
has left is destroyed.

**Gateway.** `main()` walks through `open`, `announce`, `subscribe`, `start`, `clear`, `reader`,
`poll`; `subscribe`, `start` and `clear` are the three statements of `NMEA0183Converter::Init()`.
`Return` is the end of `main()`: the process aborts if the converter's thread can still be
joined. `Receive` and `Dispatch` are the reader's thread with `MessageHandler` and
`NMEA0183Converter::HandleMessage()`; `Take`, `Parse` and `Send` are the converter's. A
sentence is `good` (converted), `ignored` (queued, but with no handler or with fields its
handler rejects) or `corrupt` (rejected by `SetMessage()`).

**NMEA0183Messages, Converter.** A sentence is a sequence of fields, and a field or a
variable is a value `[n, u]`: `n` units of a quantity, told in the unit `u`. A conversion
changes `u`, and only if the value was in the unit it starts from; anything else gives
`Junk`. So a reader that scales before it tests for "not available", or takes knots for
metres per second, is seen, while no floating point is needed. Each `NMEA0183SetX` and
`NMEA0183ParseX` is an operator, and each `HandleX` of the converter an operator from the
boat data to the boat data and the messages sent. `boat` is `tBoatData`, `out` what was sent
last, `said` and `told` what the talkers meant.

### The library: between nodes

**CanMsgBuf, FastPacketRx.** A slot is found by PGN and source (a "line"), destination and kind
of transfer. `Receive` sends and receives the next frame of a line, `Lost` and `Repeated` are
what the bus may do to it; CAN does not reorder. `Tick` ages the slots. A frame is its message
and index, so a slot shows what it is made of.

**IsoTransport.** Two nodes with a queue in each direction. `StartSendTPMessage` is the
application's `SendMsg()` of a long message; `SendPendingTPMessage` the timer's part, also when
it has run out before an answer on its way arrives; `HandleAnswer` the sender's, and
`TestHandleTPMessage` the receiver's half of the function of that name; `OtherMessage` a fast
packet of a third node that takes a slot. `LoseFrame` loses a frame on the bus; a frame may
also be refused by `SendMsg()`, whose result the code looks at or not.

**AddressClaim.** Every node parses the claims of the others in the order of the bus, some time
after they were sent (`inbox`). `StartDevice` claims for one device after the other, as
`StartAddressClaim()` does; `ParseClaim` is `HandleISOAddressClaim()`, which keeps the address
and claims again, or goes on (`GetNextAddress()`); `ClaimTimeout` is the end of the 250 ms;
`Restart` begins again; `CommandAddress` is `HandleCommandedAddress()`. A claim may be lost on two ways.
`Refused`: `SendMsg()` returns `false`, since the driver refuses the frame and the ring is full;
`SendIsoAddressClaim()` does not look at the result (`NMEA2000.cpp:2144`), nothing is pending, no node
hears the claim. `DropClaim`: one receiver has no free slot for it (`FindFreeCANMsgIndex()`). `missed` is a
history: per node the addresses whose last claim, of those that should have reached it, was lost in
one of these ways. A NAME is a number whose device instance the code may increment.

**GroupFunction, DeviceList, N2kServices.** Handlers are operators that take a node (or a list) and a
message, and yield the node behind it and what it sends: each handler is one loop over the
parameter pairs with what it matches or sets per field. Pairs are bytes, so a field whose
length the code does not know is met as the code meets it. In `N2kServices` they stand on a bus:
`Deliver` lets all nodes parse the next message, `Lose` drops it, `SendPending` is
`SendPendingInformation()`, `ClaimEnds` the end of the time of a claim, `HandleCommandedAddress`
moves a node, `Ask` sends a group function. `Heartbeat` stands for whatever a node says now and
then; `Second` and `Minute` let time pass, `Again` makes two messages of a node come within a second.

### The library: messages

**N2kMsg, N2kMessages and the modules beside it.** The data of a message is a sequence of bits.
A message is described by two layouts, the sequence of calls that write it
(`SetN2kPGN127250`) and the sequence that reads it (`ParseN2kPGN127250`); they are
translated from two functions of the code, each with its own widths, masks, scales and
order. `Put` and `Get` give an item its meaning on bits, down to two's complement, the
values reserved for "not available" and "out of range", and a read behind the end of
the data. A number is a whole number of the field's resolution; rounding is left out.
`N2kAliases` has the same for the functions with names instead of PGNs, where parameters are
reordered or fixed.

**N2kCodec.** `SetMessage` gives a codec all-low or all-high values, and one field each value
at the end of its range and each value that has a name; `AppendItem` appends until the function refuses; `Shorten` cuts the message
at any item (the sequence ends there: what an older message left behind `DataLen` has no counterpart,
and a read behind the end takes nothing from the sequence); `Parse` reads it; `Forward` turns it
into an Actisense or a Seasmart form and back; `Damage` changes a character of that.

### The small classes

`RingBuffer` and `PriorityRingBuffer` have an action per method and map to `PriorityFifo`.
`HandlerLists` keeps the lists as the code links them; a running walk is in `run`, and
handlers attach and detach while it stands on one of them. `NMEA0183Port` reads byte by byte
(`GetMessage`) sentences that are whole, cut off or too long (`Talk`), and writes through a
ring a port that takes at most `room` bytes (`SendPart`, `kick`). `EventLogger` has the steps
of `GetInstance()`, of the level test and of the write under the lock. `Heartbeat` has
`SendHeartbeat()`, its settings and a clock of 64 bits, which does not wrap.

## 3. What is checked

### Runs

| Run | Question | Properties |
|---|---|---|
| `Gateway_run` | the whole program | `OrderInv` (`TypeOK`, `NothingBeforeClear`, `OneBusUser`), `SentencesConverted` (implements `Fifo`, `FirstSentencesConverted`) |
| `CanSend_parsed` | an application that may call `ParseMessages()` at any time; two fast-packet PGNs and one counter slot | `SendInv` (`TypeOK`, `RingIsFifo`, `SequenceAdvances`, `SharedAdvances`), `FastPacketContiguous`, `SentMeansComplete`, `CanFifo` (implements `Fifo`), `NothingStaysPending` |
| `UdpReader_lifecycle` | construction to destruction, with datagrams and failing `select()` | `ReaderInv` (`TypeOK`, `StoppedMeansExited`, `HandledInOrder`), `ReadsUntilStopped` (`DatagramsHandled`, `DestructionEnds`) |
| `MessageHandler_dispatch` | dispatch while handlers come and go | `NoCallAfterUnSubscribe`, `RoundsInv` (`TypeOK`, `CallsInBounds`, `RoundServesAll`), `DispatchEnds` |
| `Converter_sentences` | three sentences of every kind, complete or odd | `SentenceReadBack`, `FixHonest`, `NumbersHonest` |
| `FastPacketRx_lossy` | three lines on two slots, frames lost, repeated, interleaved, timed out | `ReassemblyInv`, `IntactDelivered`, `TakeoverInTime` |
| `IsoTransport_faults` | transport messages with frames lost or refused and late answers | `TransportInv`, `OnlyLateAnswersHarm`, `TransferEnds` |
| `AddressClaim_nodes` | three devices of two nodes claim, with claims refused and dropped, restarts and a command | `ClaimInv`, `SmallestNameStays`, `ClaimsEndWell` |
| `N2kServices_bus` | group functions and the device list | `AddressBook`, `QuestionsAnswered`, `CommandsObeyed`, `EventuallyListed` |
| `N2kCodec_messages` | every message with a Set function | `ReadBack`, `ShortReadsUnavailable`, `ListsKept`, `SentAsReceived`, `FormsKept` |
| `Support` | the small classes, each by itself | `QueueInv`, `QueueDelivers` (implements `Fifo`, `Delivered`), `RingsAreQueues` (implement `PriorityFifo`), `HandlersServed`, `LinesPass`, `NoLineTwice`, `EachPeriodBeats` |
| `Converter_variation` | the statement of a comment, which the code contradicts | `VariationSaved` (violated) |

What they show, in words:

- **Queue.** However many consumers there are, one `notify_one()` per element is enough: while
  a consumer sleeps there is an awake consumer for every element queued. `isEmpty()`
  followed by `dequeue()` is a check and an act under two separate locks, and still never
  blocks, because the gateway has one consumer (`SoleConsumerNeverWaits`, proved).
- **Sending.** A frame never overtakes a buffered one, whether the ring has wrapped or not; a
  fast packet cut short is cut at its end, never in its middle; `true` from `SendMsg()` means
  every frame was accepted; the sequence counter of a PGN advances by one per packet when
  the PGN has a counter of its own; the PGNs without one share a counter that advances by one with
  each of their packets, so two of them carry the same number only with a whole round between them.
- **Reader.** Nothing but a stop ends the loop; after `StopThread()` or the destructor the
  thread has been joined, although the socket is closed under it first.
- **Dispatch.** No handler is called after its `UnSubscribeHandler()` returned; whatever numbers
  handlers report, the next one is given a part of the datagram that starts with `$`; a
  dispatch ends.
- **Whole.** `main()` and the two threads use the boat data and the CAN library without locks.
  That is safe, and only because the reader is constructed last: until then there is
  nothing to convert. From the accepted sentences to the converted ones the gateway is a `Fifo`.
- **Conversion.** A sentence is read as it was meant, with fields empty, cut or negative. A GNSS
  message has the position of its own sentence and the number of satellites of the last GSV;
  its date and time are a moment that has been, when time and date are of the same day. Numbers sent are
  measured and in the documented unit, but for those in `KnownJunk`.
- **Fast packets.** A message handed on is a message sent, unless a whole round of the sequence
  counter was lost between two of its frames. A line that loses nothing is delivered
  whatever the others do. Stale slots are taken over when they are old enough and not before.
- **Transport.** What is handed on has every packet once and in order; an acknowledgement means it was
  handed on; every transfer ends; the sender is never more than a window ahead. An answer ends
  another transfer, or makes it send, only when its own, or one before it, had been given up.
- **Addresses.** However claims cross, a conflict is forgotten only if a claim was lost: as long as two
  nodes share an address, a claim for it is on its way to one of them, or the last one for it never
  reached one of them, refused by the sender's full ring or dropped by the receiver. Then the code does
  nothing more, and both may keep the address until another claim shows it. Only a smaller NAME, or a
  command, drives a device from its address; nobody gives up before every address was tried. With
  NAMEs of their own claiming comes to an end (`ClaimsSettled`: all loops through, nothing to parse, no
  timer running, no address shared but where a claim was missed), and unless a command
  took part everybody ends with an address.
- **Services.** Whoever is asked answers, positively or with a judgement of every pair; a command
  whose every field may be set changes what it names and nothing else (after a refused field the
  code loses its place in the message, see below); the list has one entry per device and in the end
  every device at its address.
- **Messages.** Readers read what writers wrote, at both ends of every field; short messages read
  as "not available"; lists stay within 223 bytes; sender and receiver agree on what is a
  fast packet; the other forms lose nothing and notice damage. `ReadOtherwise` names the
  fields where the two functions do not agree.

### Bounds

All bounds are constants: `MaxPuts`, `MaxMsgs`, `MaxDatagrams`, `MaxRefusals`, `MaxFailures`,
`MaxFaults`, `MaxOdd`, `MaxTime`, `MaxCalls`, `MaxChanges`, `MaxCommands`, `MaxRestarts`, `MaxSentences` ...
They cap what the environment does and stand in its guards; where a module keeps a
history, in the domain of the history as well.

- `SafeQueue`: two producers with two elements each, two consumers: one may sleep while the
  other is on its way to the queue, which is the case that needs `NoLostWakeup`.
- `CanSend`: `RingSize = 3` leaves two usable slots. A three-frame packet overflows it in its
  middle, and four refusals are enough to fill it, empty it in part and wrap it.
  `SeqModulus = 2` makes counters wrap within three messages; `CounterSlots = 1` makes
  whichever fast-packet PGN is sent second use the common counter. A call of
  `ParseMessages()` is possible at any time but never forced for the safety properties, so the
  run covers the gateway, which never calls it, as well.
- `UdpReader`: `BufferSize = 2` with sizes 0, 1, 2 and 3 has an empty datagram, a fitting one, one
  that fills the buffer and one that is cut.
- `MessageHandler`: three bytes with every placement of `$` give up to three rounds; two handlers,
  two headers. One datagram at a time is enough, since nothing of a datagram outlives its
  dispatch, and the map may be in any state when it comes.
- `Gateway`: three datagrams of one or two sentences of every kind.
- `Converter`: three sentences, since what a handler reads was written by one or two others (a
  date and a time by two); one of them odd. A circle has 8 units, so a course and its
  opposite, a sum beyond the circle and a negative sum occur; a day has 4 units and the clock
  begins one before midnight, so the date changes between two sentences. Sentences without
  a handler come last.
- `FastPacketRx`: fewer slots than lines, messages of one to three frames, a sequence counter that
  wraps at 2, so that a message may be confused with the one after next, two faults.
- `IsoTransport`: messages of three packets in windows of two, so a window is full or not, and of
  one, refused as too long; three messages, so that a late answer to the first meets the second and
  what the second did because of it meets the third (two messages were not enough to see that);
  two slots and one disturbance: a frame lost or refused, or a fast packet in the way.
- `AddressClaim`: three devices on three addresses, both nodes beginning at the second, so
  claims collide, walk round the end of the range and use up all addresses; NAMEs in three
  orders, one with two that are equal. `MaxOdd = 2` of restarts, commands and lost claims
  (`MaxLosses = 2`): both claims of a conflict may be lost, which leaves it forgotten, or one of them
  and the answer that would have shown it again; or one beside a restart or a command.
- `N2kServices`: two nodes, three addresses, two of the odd events that the head of the
  module lists, each at most once: so one of two requests of a kind can be lost, beside a
  question, a move or a full buffer of a node or of the list. The questions in `Mixed`, one for each
  way a node is changed or owes an answer, may go with another odd event; the others are asked
  alone, since what they are about is in their bytes.
- `N2kCodec`: all codecs. One field at a time takes its extreme values, over a background of
  all lowest and one of all highest, so that a field that spills into another is seen in one of the two.
- `Support`: ring buffers of four slots and two priorities wrap and fill; two handlers for all
  messages and two for one PGN on two buses; a line of at most 10 characters, bodies of
  one, three and five; three log calls of two threads; a heartbeat of two devices with intervals of 2 to 4 and
  offsets of 1 (that of `Open()`) and 3 in a time of 7.

Deadlock is checked in `N2kCodec_messages` and `N2kServices_bus`, where a further step is always
possible. The others end where the bounds do, or the program itself ends
(`CHECK_DEADLOCK FALSE`).

### Fairness

Only weak fairness is assumed, and only of threads that have begun something or that poll:

- `SafeQueue`: each thread that stands inside an operation goes on, and the consumer loop keeps
  asking, as `while (m_threadRunning)` does. Starting an `enqueue()` and spurious wakeups are
  not fair. Weak fairness suffices because a mutex is released again and its rivals end.
- `CanSend`: time passes (`Tick`), a library call runs on, `main()` gets to its announcement, and
  an application that calls `ParseMessages()` does so periodically, as the library's doc
  demands. The driver may refuse `MaxRefusals` times, then accepts: the bus works again in the end.
- `UdpReader`: both threads run; `select()` returns after its one second at the latest;
  `HandleMessage()` returns. Calling `StopThread()` or the destructor is not fair, nor are
  failures and arrivals.
- `MessageHandler`: the thread inside `HandleMessage()` goes on and handlers return.
- `Gateway`: a datagram received is dispatched, and the converter's thread polls. Neither
  `main()` nor the arrival of datagrams is fair.
- `IsoTransport`: the sender calls `ParseMessages()` again and again, so a timer that has run out is
  seen. That alone ends a transfer; nothing is assumed of the receiver or the bus.
- `AddressClaim`: all nodes call `ParseMessages()` again and again, so claims
  that arrived are parsed and timers that run are looked at. Refused and dropped claims (bounded
  together by `MaxOdd`), restarts and commands are not fair. The bus itself loses nothing: CAN
  repeats a frame until every node has it.
- `N2kServices`: a message on the bus is parsed, the time of a claim ends, pending information is
  tried, a heartbeat that is due is sent, each per node, and time goes on. Odd events are not fair
  and bounded; a new second begins when all that was to be done in the last one has been done,
  which takes well below a second in the library. The fairness of `Deliver` is spelled out as
  `[]<>(bus = <<>>) \/ []<><<Deliver>>_vars`, its meaning, since `Deliver` is enabled
  just when the bus holds a message.

### A comment the code contradicts

`Converter_variation`: "Save variation for Magnetic heading" (`nmea0183converter.cpp:424`).
`HandleVTG` has just set `MagneticCOG` to 0, so what it saves is the whole course, and the
magnetic heading of the next HDT is wrong by it.

Six more statements are written down beside the model whose behaviours contradict them, as
definitions no run checks:

| Definition | Statement | What the code does |
|---|---|---|
| `CanSend!ProductInformationSent` with `ParsesMessages = FALSE` | `NMEA2000.h:2693-2710`: call `ParseMessages()` periodically, the node then informs others about itself | `main()` announces before the library is open, so the announcement stays pending, and never calls `ParseMessages()` |
| `UdpReader!OpenMeansRunning` | `UDPReader.h:124`: `m_initOk` is "true if the Reader is running OK" | the flag the thread tests is set after the thread is started; a quick thread leaves at once |
| `MessageHandler!UnheardIsReported` | `MessageHandler.cpp:103`: "if the message was not handled, tell the client" | a message nobody subscribed to counts as handled |
| `MessageHandler!RemainderPassed` | `MessageHandler.cpp:80`: "pass the remainder of the message to the handler" | the second handler of a round is given the first one's byte count |
| `Gateway!ReportedWasParsed` | `MessageHandlerInterface.h:68`: `p_size` returns the number of bytes processed | of several sentences in a datagram the first is parsed and all are reported |
| `Gateway!ThreadsShutDown` | `IThread.h:36`: the interface is there "to ensure that the thread can be shutdown" | when the socket fails `main()` returns with the converter's thread running |

### Seen while modelling

What the models do because the code does it, and a reader of the code may want to know.
Nothing here is assumed away by a property, except where a property names it.

Gateway:

- `recvfrom()` may fill the buffer, and `UDPReader.cpp:316` then writes the terminator one past it.
- A subscription made before the `MessageHandler` exists is dropped (`MessageHandler.cpp:128`).
- `memset` clears the boat data after the converter's thread was started (`nmea0183converter.cpp:109`).
- GGA sends the time of an earlier sentence and GSV's count of satellites (358). GLL and ZDA
  may put an old date beside a new time over midnight.
- RMC without a variation lets `HandleHDT` add circles some hundred million times; RMC's
  empty speed and course read as 0 and its status `V` is not looked at.
- VTG's speed over ground is sent as speed through water; VHW sends deviation, variation and
  ground speed 0; MWV `T` goes out as referenced to true north; empty MWV and SHR fields are
  scaled before they are tested.
- `ParseZDA` does not look at the code of the sentence; `ParseHDM` reads through `ParseHDT`.

Between nodes:

- Data packets of the transport protocol carry no PGN and go to the first open transfer of
  source and destination; a broadcast whose announcement was lost may complete the one before it.
- A late EndAck or Abort ends the next transfer to the same node (`NMEA2000.cpp:1990`), a late CTS
  too, or, if PGN and packet number fit, makes it send: such a transfer (`misled`) may send more than a
  window, be acknowledged for an earlier message, or complete that one with its own packets.
  Messages of exactly 223 bytes are refused; `SendTPDT`'s result is ignored for broadcasts.
- `HandleCommandedAddress` does not look at the other devices of its node; a device that tried
  all addresses does not try again when one becomes free; default NAMEs are all equal (738-761).
- Setting the interval a heartbeat had before it was disabled does not enable it again; a device
  that was given the default settings before `Open()` keeps the time it was to send at
  (1402-1408) when `Open()` moves its grid (1277-1280), and its first heartbeat comes up to a
  period too early; the
  loop over all devices overwrites its arguments with the first one's (1388); the "restore"
  value of the offset is not implemented (`NMEA2000.h:2498`).
- The handler of commands to 60928 computes the error of the priority after the acknowledge
  was begun (`N2kGroupFunctionDefaultHandlers.cpp:147-152`); the value of an invalid field is
  read as the next field; four fields of 126996 are compared with the model's name (312-326); the
  text behind a non-ASCII string is what the stack held.
- The device list takes the time 0 for the future when the clock is in the upper half of its
  range, and then asks nobody; a request that could not be sent ends the repetition; answers
  may be put down to a device that has moved; the configuration of a device that was displaced
  is not asked for again.

Messages:

- `ReadOtherwise` in `N2kCodec`: fields whose reader differs from the writer, among them upper
  bits of 127489's second status, `BatteryTemperature` of 127510, `Log` of 128275.
- Signed bytes read as -1 instead of "not available". `GetBuf` with a buffer does not advance.
  `AddVarStr` and the list of 126464 do not look at the room left.
- A heartbeat interval over 65535 ms is sent modulo 2^16. A fast packet shorter than its
  first frame sends bytes of an older one.
- An Actisense frame from 256 bytes on is garbled by its one-byte index (`N2kMsg.cpp:897`); the
  reader of Seasmart sentences skips the commas unread (`Seasmart.cpp:166-170`).

Small classes:

- A handler that detaches itself ends the walk over the list (`NMEA2000.cpp:2661`). A group
  handler with PGN 0 may end behind the default one. A user's handler is asked first only if
  added before `Open()`.
- A reference into the priority ring may be overwritten once `tail` has passed released slots;
  `clean()` does nothing.
- `NMEA0183` does not forget the place of the star at a new `$`; the line buffer is written one
  past its end; the free room of a wrapped ring is counted too large; `SendMessage` ignores
  that a part was refused.
- `EventLogger` drops a message that begins like the last one and has its length
  (`EventLogger.cpp:233`), and remembers one it could not write. The race of `GetInstance()` is
  real, but `main()` makes the first call before it starts threads.
- `N2kIsTimeBefore` and `N2kHasElapsed` compare modulo 2^32, equal times counting as before
  (`N2kTimer.h:96`). Times are plain numbers in `CanMsgBuf`; only `DeviceList` tells the halves apart.

## 4. What is proved

The theorems hold for every value of the constants that satisfies the module's `ASSUME`, so
for any number of threads, messages, frames and datagrams.

**SafeQueue.** `TypeCorrect`, then `MutualExclusion` from the types (the owner of the mutex is
exactly the thread inside a critical section), `NothingLost` (`put = got \o q`) and from it
`ImplementsFifo`, a refinement: `enqueue` maps to `Put`, a successful `dequeue` to `Get`,
everything else to a stutter. `LoneConsumerNeverBlocks` needs a stronger invariant: a
consumer between `isEmpty()` and `dequeue()` stands before a queue that is not empty, which
holds because nobody else takes. `WakeupsSuffice` counts awake consumers; it is inductive
together with the types, and each step changes the count or the length of the queue by at
most one. `QueueKept` puts these together: it is the invariant `QueueInv` of the run.

**CanSend.** `TypeCorrect`; `InOrder` (`RingIsFifo`) rests on two lemmas about the ring, `BacklogPop`
and `BacklogPush`, which say that advancing `rd` takes the head of the sequence the ring
stands for and writing at `Succ(wr)` appends to it, in the wrapped case too. `FifoSteps` sums
up every action by what it does to the histories; `ImplementsFifo` follows, with `SendDirect`
as `Fifo`'s `PassThrough`. `NoHoles` and `NoFalseSuccess` rest on `InProgress`: while a message
is being sent, its frames before `next` have been accepted, and the one before `next` is the
last frame accepted of all.

`CountersAdvance` (`SendInv`) needs `TableHoldsLast`: a slot of the counter table
holds the number of the last packet of its PGN, as a slot is never given to another, so the next
one is its successor; and `SharedHoldsLast`: the common counter holds the number of the last packet of a
PGN without a slot. A PGN that has found no slot never will (`SlotWasThere`), one that has keeps it
(`SlotStays`), so who shares the counter does not change (`SharedKept`).

**UdpReader.** `TypeCorrect`; `StopIsFinal` from `FlagInv`, which ties the flag to where the owner is
and says that a cleared flag outside the stopping steps means the thread has ended and
been joined. `NothingOutOfOrder` (`ReaderInv`) from `OrderInv`: while the reader is
live, what arrived is what was handed on, the datagram in the thread's hands and what the inbox
holds, in this order, where `InboxHolds` leads over the empty datagrams.

**MessageHandler.** One inductive invariant, `IInv`: types; `LockInv` (the lock is held exactly while a
datagram is dispatched, whoever is in the map is alive); `RoundInv` (inside a round the
rest passed on lies inside the datagram, and those called are the subscribers up to the
current one). `UnSubscribeIsFinal`, `InBounds`, `AllServed` and their conjunction `RoundsKept`
follow. It is needed in full: that the current handler is alive follows from its being in
the map, which cannot change because the lock is held.

**Gateway.** `StartInv`: until the reader is open, nothing was queued and the converter has nothing
to do; the reader opens only when `main()` polls, after the data is cleared.
`DataClearedFirst` and `BusUsedByOne` follow. `TypeCorrect` needs `Working` beside the types: a
converter that parses or sends has taken a sentence. `OrderKept` puts the three together.
`DeliversInOrder` is `EndToEndFifo`, a refinement: what is converted is, each once and in order, what
was accepted and good. `DeliveryInv` says that what the converter took is a front of what was
queued, and that its good sentences are those converted and the one, if any, it is working on. `Good`
keeps the order of fronts (`GoodFront`), so a queued good sentence is a `Put`, `Send` is a `Get`.

**FastPacketRx.** `ReassemblyKept` (`ReassemblyInv`) from what a slot in use holds: the frames 0, 1, ...
of its line under one sequence counter, fewer than its message needs. One call of
`SetN2kCANBufMsg()` changes at most one slot, which is of the frame's line, free, or timed out
(`SetEffect`, on lemmas about `Lowest` and `Oldest`); `TakenOverInTime` follows for every step.
`IntactMeansDelivered` follows the message of one line from slot to slot until it is handed on
(`IntactKept`).

**IsoTransport.** `TransportKept` (`TransportInv`) and `OnlyLateHarms` (`OnlyLateAnswersHarm`), for any
number of messages and faults. One invariant, `IsoInv`, whose parts need each other:
`Ordered`: frames on their way are in the order of their messages and packets, so what is received
comes before all that is left; `SlotsKept`: a transfer in a slot holds the packets 1, 2, ... of
messages not younger than those on their way; `AnswersKept`: a CTS asks for packets behind
those that were received. From these, `SpreadKept` (the packets on their way are those of one
window, which makes `WindowKept` a matter of counting) and `AskedKept` (once the receiver has
asked for packets of a message, none of an earlier one is left in its slot or on the bus, so
what it completes and acknowledges is one message: `DeliveredWhole`, `AckedWasDelivered`).
`BroadcastsKept` says where each broadcast is as long as nothing disturbs it: its BAM
with all its packets on their way, or part of it in the open slot and the rest behind, or handed on.
`CleanKept` says that, as long as no transfer was given up, a transfer has at most one answer
on its way, and leaves neither answer nor slot behind: an answer to another message must be a late one.
Every step is first brought to one of nineteen forms (`StepCases`), whose effects on queues, slots
and histories are lemmas of their own.

**AddressClaim.** `OnlyLostClaimsForget` (`ClaimInv`) for any number of nodes, devices and addresses, any
NAMEs, and any restarts, commands, refused and dropped claims: if two nodes' devices have one address, a
claim that will show it is on its way to one of them, or the last one for that address missed one of
them (`missed`). A conflict begins with a claim (`StartAddressClaim()`), which at that moment is sent or
missed by the other node; parsing it drives one device away or makes it claim again, and again that
claim is sent or missed (`SentEffect`, `SendEffect`). The exception is needed: without `missed` two lost
claims refute the invariant in TLC. It needs besides that a closed node has not begun its loop, that
an address a device has not lost lies ahead on its way to the end source (arithmetic round the
circle of addresses, lemmas about `Steps` and `FirstVacant`), and, with different NAMEs,
that a claim on its way names a device of another node. `SmallestStays` follows for every step.

**Small classes** (`Support_proofs`, for `MCSupport`'s specification; the parts that do not run keep
still). `LogNeverRepeats` from `LogInv`: before the first logger only `main()` runs, so there is one;
its lock has one holder; and what that thread is about to append is not the last line.
`SentencesPass` (`LinesPass`) from `InInv`, which says for every point of the talk what the line buffer
and the star are, and `OutInv`: what was given to the port and what the ring of bytes holds
are the bytes of the accepted sentences in their order, wrapped or not. `RingIsQueue`: `tRingBuffer`
implements `PriorityFifo` with one priority, and a reference keeps its value until the next read.
`HandlersAreServed` (`HandlersServed`) for any handlers, objects and PGNs, and any of them
attached and detached during a walk, but for walks (`run.tame` false) in which a handler detaches itself inside its
own call, where the code skips the rest of the list (`NMEA2000.cpp:2661`). `MessagesOK` says that the
links of each list lead through a sequence of different handlers, sorted by PGN, and where a
run stands in it: whoever asked and stands before has been called once if it stayed, whoever
stands behind not yet. `GroupsOK` says that once the library is open its own handlers are in the list of
group handlers in their order, and nothing with a PGN of its own stands behind the default one. The
walks of the code (`before`, `after`, `last`, the two loops of `RunMessageHandlers()`) are functions that call
themselves along the links; what they return is shown by looking at the last position of the
sequence at which it would not hold, which exists because a strict subset relation on a finite set
is well-founded. Taking a handler out and putting one in are lemmas about links (`CutOut`, `PutIn`).
`PeriodsBeat` (`EachPeriodBeats`) from `HeartOK`, for any devices, settings and pauses: the next time
of a device is the beginning of the slot after that of its last heartbeat, or after the slot in
which its settings were made, and its counter is the successor of the last number sent. Then a
device is due exactly if the program looks in a later slot (`DueLater`, `NotDueYet`, on division),
and what `UpdateNextTime()` sets is the end of that slot. The loop that overwrites its own arguments is
followed device by device (`AfterSetting`). The proof found the early heartbeat of a device that
had the default settings before `Open()`; `tame` leaves it out.
The constants' assumptions are `LoggerAssumption`, `PortAssumption`, `ListsAssumption` and
`HeartbeatAssumption` of the modules.

Only model-checked are

- all liveness properties, which are outside the reach of the prover;
- of `RingsAreQueues` the half about the ring with priorities, whose slots are linked in one chain
  per priority and released out of order;
- `Converter`, whose properties are case analyses over the sentences of a table that the run goes
  through in full, so a proof would say no more than the run;
- `N2kMsg` (with what extends it), `N2kFormats`, `N2kCodec` and `N2kServices`, which have
  `RECURSIVE` operators, so that no module with proofs may reach them.

## 5. Not modelled

- NMEA 2000 streams: forwarding is switched off (`EnableForward(false)`); the forms it would
  write are in `N2kFormats`. The rest prints.
- `UDPSender`: used by nothing; one `sendto()` under a lock. `Close()` is followed by a `shutdown()` of the
  same descriptor.
- `Wait` (`Handlers/Wait.h`): included by `IThread.h`, used by nothing. Its wait tests the flag
  before it takes the lock, so a signal in between is noticed only at the timeout.
- The display, the utilities, log texts and time stamps, texts of enumerations, printing.
- Floating point: numbers are whole multiples of a field's resolution.
- Of the NMEA 0183 library the second form of `ParseZDA` and the builders that format into a
  buffer, which nobody calls; of the converter `StopThread()` and the helpers for date and
  time as text; of the reader `SendData()`, `Read()` and the socket options.
- Debug modes, other platforms, a failed memory allocation, the destruction order of static objects.
- Two nodes' transfers to one receiver at the same time, and claims, transport and services
  on one bus: each is a run of its own.

## 6. Plan

Done: everything above. What is left to prove is `RingsAreQueues` for `PriorityRingBuffer`:
`IsPriorityQueue` with the chain of each priority as a sequence of slots, in the way of the lists of
`HandlerLists`, and `SlotsAccounted` with the slots between `tail` and `head` that are in no chain.
To prove about `N2kMsg`, `N2kFormats`, `N2kCodec` and `N2kServices`, their `RECURSIVE` operators would
first have to become recursive functions.

## 7. Running

    tlc -workers 2 -config Support.cfg MCSupport         # any run of PROJECT.json
    tlapm CanSend_proofs.tla                              # the proofs of a component
