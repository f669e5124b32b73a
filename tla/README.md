# A TLA+ verification of iec61850-server

`iec61850-server` is a GUI program that publishes sampled values (IEC 61850-9-2)
on an Ethernet network: the user adds *channels* (ASDUs) and *values* (slots in
an ASDU), presses START, and the program sends a frame per iteration of its
display loop. Its own code is `src/main.cpp`, `src/publisher.hpp` and
`src/time.hpp`; everything below comes from the copy of libiec61850 in
`src/libiec61850`, of which the program links all and calls the sampled-values
publisher, the Ethernet HAL and the thread HAL.

These modules model that program, both halves of the library's sampled-values
implementation, and the concurrent cores of its other protocols: GOOSE, buffered
reporting, the control model and the MMS client. Paths below are relative to
`src/`; `lib/` stands for `libiec61850/src/`, `map/` for
`libiec61850/src/iec61850/server/mms_mapping/`.

Contents: [inventory](#1-inventory) · [modules](#2-modules-and-the-code) ·
[runs](#3-runs) · [fairness](#4-fairness) · [proofs](#5-proofs) ·
[what the checks found](#6-what-the-checks-found) ·
[abstractions](#7-abstractions) · [not modelled](#8-not-modelled) · [plan](#9-plan)

## 1. Inventory

### The server program

**Loop (`main.cpp`).** One thread. An iteration polls the events, draws the menu,
draws a pane per channel - writing the values into the publisher as it draws them
- recomputes the sine value, calls `Publisher::broadcast` and sleeps. State: the
flags of the publisher, the array `values` of typed-in numbers, the settings
(sample rate, frequency, each with the value of the iteration before), the step
`loops` of the wave and `sine_value`. Operations: Quit, START, STOP, NETWORK,
the settings, and in the panes the options of a value, "Remove channel", "Remove
value", "New value", "New channel". Hard: records of the GUI and objects of the
library have different lifetimes, buttons are live in some states only, and a
value is written one iteration after it was computed.
*Correct when* no write goes through a pointer that is not set, what is sent is
what is shown, no sample is skipped or repeated, and a started server keeps
sending.

**Publisher, Channel, Value (`publisher.hpp`).** A `Channel` points to an ASDU of
the library, a `Value` holds the index `addFLOAT` returned. `Publisher` owns the
library's handle; assigning a new one copies the handle and destroys it with the
temporary. *Correct when* no two values shown share a slot, all live channels
count samples together, and the handle outlives its use.

**Send clock (`time.hpp`, `main.cpp`).** The nanoseconds between two broadcasts,
from a reading that drops the seconds. *Correct when* the difference is the time
that passed.

### The library

**Sampled-values publisher (`lib/sampled_values/sv_publisher.c`).** A handle with
a 1518-byte message buffer and a list of ASDUs. `addASDU`, `add*`, `resetBuffer`,
`setRefrTm` and `setSmpMod` change the list; `setupComplete` computes the nested BER
lengths, encodes the list into the buffer and stores, per ASDU, pointers to its
counter and its data; `set*`, `setSmpCnt` and `increaseSmpCnt` write through these;
`publish` sends. Hard: two computations of one layout (sizes declared first,
bytes written afterwards), pointers that are NULL or stale until the next setup, a
counter kept twice. *Correct when* the areas written never overlap, a reader
that follows the lengths finds every ASDU, and setting a value changes that
value alone.

**Sampled-values subscriber (`lib/sampled_values/sv_subscriber.c`).** A receiver
with a background thread, the flags `running` and `stopped`, a socket and a list
of subscribers with listeners. The application's thread calls start, stop,
destroy, add and remove; nothing is locked. *Correct when* stop returns, the
thread is gone once it has, no freed list element is followed, and listeners are
called for their own frames, all ASDUs in order.

**GOOSE (`map/mms_goose.c`, `lib/goose`).** A control block with a publisher, the
repetitions left and the time of the next one. The application changes data and
triggers an event with a new state number; the worker thread repeats the message,
quickly at first; clients enable and disable. The subscriber keeps the numbers and
data of the last message, whether it was new, and until when it may be trusted.
Hard: data, state number and sequence number are set by two threads at three
moments, the time a message allows to live is decided before the next one is
scheduled, and the network loses and repeats. *Correct when* a state number
stands for one set of data, the time allowed covers the next interval, a copy is not
taken for news, and changes arrive in spite of losses.

**Buffered reporting (`map/reporting.c`).** A block of memory with reports
of different lengths, linked and wrapping; flags of the members that changed; RptEna,
EntryID, PurgeBuf and other attributes written by clients; a worker that makes and
sends reports; disconnection, which takes no lock. *Correct when* entries are linked
and apart, no flagged change is dropped, reports go, in order, to the client that
enabled the block, and lost ones are announced.

**Control model (`map/control.c`, connections in `map/mms_mapping.c`).** Controllable objects
with a state machine, the client that selected them, and a select time-out. Clients
select, operate (at once or at a time) and cancel under the model mutex; the worker
performs without it; a closing connection waits for its tasks and gives up its
objects, without it too. Hard: the worker may come between any two reads and writes of a request.
*Correct when* an accepted order is performed once at most, and at its time, an object changes hands
only when nobody has selected it, a selection ends, and every object becomes free again.

**MMS client (`lib/mms/iso_mms/client/mms_client_connection.c`,
`lib/mms/iso_client/iso_client_connection.c`).** Several threads call one server;
one thread receives into one buffer and hands it over by an invoke id; a counting
semaphore gives the buffer back. *Correct when* every call returns its own answer,
answers arrive however many reports come first, and close returns.

**BER encoder, linked list, Ethernet and threads (`lib/mms/asn1/ber_encoder.c`,
`lib/common/linked_list.c`, `lib/hal/*/linux`).** Modelled as far as the above
use them.

### How they interact

    user ── clicks ──> main.cpp loop ── writes, counts, sends ──> sv_publisher.c handle
                         │   Channel/Value records ── point into ──┘      │
                         └─ time.hpp                             frame on the network
                                                                          │
    application thread ── flags, subscriber list ──> receiver thread <────┘
                                                     └─ calls listeners

    application thread ── updates, triggers ──┐
    event worker thread ── time, repetition ──┼─> GOOSE publisher ── network ──> subscriber
    connection threads ── attributes, orders ─┼─> report buffer ───> client that enabled it
                                              └─> controllable objects <── worker

    calling threads ── transmit buffer, invoke ids ──> MMS server
          └── responseInvokeId, receive buffer, semaphore ── receiving thread <──┘

All calls of the server program are made by one thread, in the order of the loop. In the library,
the receivers, the event worker (`processPeriodicTasks` of `map/mms_mapping.c`: GOOSE, control actions, reports,
in that order), the connection threads and the calling threads share state, under
different locks or none: that is where the hazards are.

## 2. Modules and the code

| module | models | role |
|---|---|---|
| `SvFrame` | `sv_publisher.c`, `ber_encoder.c` | the sizes and positions of a frame as pure operators |
| `SvPublisher` | `sv_publisher.c` | the handle, byte by byte |
| `SvStream` | | abstract: what a publisher promises, without bytes |
| `SvPublisherProofs` | | the two lengths of an ASDU, layout and content of the buffer, the refinement of `SvStream` |
| `SvServer`, `SvServerProofs` | `main.cpp`, `publisher.hpp` | the loop over an abstract handle; all its safety properties |
| `SendClock`, `SendClockProofs` | `time.hpp`, `main.cpp:274-284` | the delta between broadcasts as pure operators, and its proof |
| `SvReceiver`, `SvReceiverProofs` | `sv_subscriber.c`, HAL, list | the receiver's threads and the application; all its safety properties |
| `GooseControl` | `mms_goose.c`, `goose_publisher.c` | control block and publisher |
| `GooseSubscriber` | `goose_subscriber.c`, `goose_receiver.c` | what a message does to a subscriber |
| `Goose`, `GooseProofs` | the two, network, clocks | their composition; theorems about it |
| `ReportBuffer` | `reporting.c`, `reporting.h` | the memory block, pure operators on a record |
| `ReportQueue` | | abstract: what a buffered report control block promises |
| `ReportControl`, `ReportControlProofs` | `reporting.c` | application, worker, clients, disconnection; the buffer and the refinement of `ReportQueue` |
| `ControlObject`, `ControlObjectProofs` | `control.c`, `mms_mapping.c` | requests, worker, connections; two theorems |
| `MmsClient`, `MmsClientProofs` | `mms_client_connection.c`, `iso_client_connection.c` | callers, receiver, server; own answers |
| `MCSvPublisher`, `MCSvServer`, `MCSvReceiver`, `MCReportControl`, `MCControlObject`, `MCMmsClient` | | constants for TLC (Goose is run as it is; SendClock is part of MCSvServer) |

**SvFrame.** `EncodedSize` is `SV_ASDU_getEncodedSize`, the size *declared*;
`WrittenSize` is the size `SV_ASDU_encodeToBuffer` *writes*; `ASDUStart`,
`SmpCntPos` and `DataPos` place an ASDU, its counter and its data; `LengthSize`,
`TLSize` and `TLVSize` are the encoder's. `Reachable` walks a frame by
the declared lengths and says which ASDUs are found that way. It is conservative: `sv_subscriber.c:259-282` steps over tags it does not know and over
zero bytes, so behind an ASDU with `smpMod` 0, two bytes longer than declared, it may still come upon the next one; with other bytes it need not.

**SvPublisher.** `asdus` is the list, `slots` what `add*` returned, `frame` the
layout of the last setup (the pointers `smpCntBuf` and `_dataBuffer` are positions
in it), `mem` the bytes behind the headers. A byte says what wrote it, so
that two writes to one place show. One action per function: `Create`, `AddASDU`,
`AddINT8` .. `AddFLOAT64`, `ResetBuffer`, `SetRefrTm`, `SetSmpMod`, `SetupComplete`,
`SetValue`, `SetSmpCnt`, `IncreaseSmpCnt`, `Publish`, `Destroy`. The caller is
arbitrary, but writes a value only where the last setup laid one out (`InFrame`). That is an assumption about the caller: `sv_publisher.c:489-561` checks
nothing, dereferences NULL before the first setup, and writes a value added after it behind the data of its ASDU.
`SvServer!LaidOutBeforeUse` says that this repository's caller keeps to that.

**SvStream** knows only counters, values, how many ASDUs the last setup
laid out, and the frame just sent. `SvPublisher` implements it: `Stream` is an
instance whose values are *read back* from the bytes at their places, so
`ImplementsStream` fails as soon as one write touches another value, a counter in
the buffer differs from the record, or a reader would not find an ASDU. The
refinement is the link between the levels: SvServer uses the handle as SvStream
describes it.

**SvServer.** `pc` walks `menu -> panes -> tail`; an iteration handles at most one click
(`clicked`), as one mouse does. `asdus` is the handle's list at the level of
SvStream, plus `laid`, the length of the data at the last setup (`NotLaid` while
the pointers are NULL). `channels` are the GUI's records. `DrawPanes`, `EditValue`,
`EditHertz`, `SelectOption`, `RemoveValue`, `NewValue` and `NewChannel` are
passes over the panes with different clicks; all of them write the shown values
(`Written`) if setup is completed. `RemoveChannel` breaks off as the code does: it
pops the record the rest of the pane is drawn from. `FinishIteration` is the rest of
the loop body, wave and broadcast included. `NewPublisher` is the assignment
`publisher = Publisher{interface}`, after which `buffer = "freed"`; every later use
of that buffer may go on, send `Garbage`, or end the program.

**SvReceiver.** Every access of the background thread to shared state is a step of
its own (`Begin`, `ClearStopped`, `OpenSocket`, `CheckRunning`, `Tick`, `Find`,
`Deliver`, `CloseSocket`, `End`); every call of the application is one, but stop,
which is two (`Stop` clears the flag, `StopReturns` is the poll that succeeds). Each start takes a
new element of `Thread`, because a detached thread that has not ended runs on beside
the next one. `Patient` makes the application stop only a receiver that is up.
Frames queue in the socket, overflow, and are lost while it is closed.

**SendClock.** `get_curr_nanosec` is the reading, `Delta` the code's compensation: pure operators, over moments of the
monotonic clock.

**GooseControl, GooseSubscriber, Goose.** Each section under `publisherMutex` is one step; what
is read before the lock (the time in `checkAndPublish`, `goEna` in `triggerGOOSEObservers`) is a
step before it (`CheckTime`, `TriggerObservers`), so a client may disable the block
in between, as it may between the two halves of disabling. The data set is one
number, the count of its changes; `nextPublishTime` is the time left. An update and its trigger are two
steps of the application, between which the worker may repeat. `wire` is the network in order of publication;
`Arrive`, `ArriveTwice` and `Lose` deliver, deliver and keep a copy, and lose; with `Reorders` any message may be next. `Receive` is
`parseGoosePayload` and `GooseSubscriber_isValid`. The marks `late` and `past` on messages and the variable
`disturbed` are history that the properties speak about.

**ReportBuffer** is a record with the pointers `oldest` (`oldestReport`), `last`
(`lastEnqueuedReport`), `next` (`nextToTransmit`), the count, `overflow` and a memory `mem` from positions to
the headers that are still intact: writing an entry destroys the headers under it, and a header that no pointer or link leads to is forgotten (`Used`). `Store` is `enqueueReport`'s
placement with its four cases (`Cleared` and the operators above it), `RemoveGI` is
`removeAllGIReportsFromReportBuffer`, `ResumeAfter` is `checkReportBufferForEntryID`.
**ReportControl** adds the threads. `holder` is who has `createNotificationsMutex`; each
report made under it is a step (`ReportEvent`, `ReportGI`, `ReportIntegrity`, in the order of
`processEventsForReport`) since disconnection takes no lock and may come anywhere between them: `CloseDisables` and
`CloseReleases` are its two writes. `ValueUpdated` reports pending changes first when the
member's flag is already set. Writes of clients are one action per attribute, those that purge for the
same reason in one. **ReportQueue** is a sequence of identifiers with a cursor. `Queue` maps the linked entries to the sequence.

**ControlObject.** A request holds the model mutex, so there is one at a time (`request`), but the mutex keeps out neither the
worker nor a closing connection. What is read or written while they may come in between is a step of its own: `request.at` walks
`expire` (the select time-out), `look` (the state is read, the check handler asked), `select` and `selected` (connection, then state),
`take timed` and `hand over timed` (connection and count, then state), `decide` (is `timeActivatedOperate` set, `control.c:1493`), `take`, `hand over`, `count`
(connection, state, count), `unselect`, `abort`, `exit`. The worker walks `look` and `look again` (the state is read at line 689 and once more at 723), `time`,
`check`, `execute`, `start`, `abort`, `abort once`, `exit`, `exit again`, a step per read or write; it executes an object that waits for its time like one that waits for execution, as
`executeControlTask` does. The handlers of the application answer anything, "not finished" included. `connection` and `tasksCount`
are the client list of `ied_server.c`: a closing connection is not found any more (`Counted`), and walks `closing`, `gives up`, `leaves`. Connections are
known by address, which a later connection may reuse. A selectTimeout of 0 never ends a selection (`Expired`).

**MmsClient.** A caller walks `sending`, `waiting`, `remove`, `look`, `parse`, `release`, `post`, `return`, the receiver `starting`, `acquire`, `reading`, `callback`,
`store`, `ending`; each access to `responseInvokeId`, `lastResponseError`, the buffer or the semaphore is a step.
`buffer` is the one receive buffer; what a caller parses is what is in it by then. The server answers in
any order or never, sends reports and may close. `Return` puts "connection lost" in the place of the error when the association has been closed by then
(`mms_client_connection.c:1378-1379`); what the call returned stays visible in the idle thread until its next call. The model begins when connect has returned: the receiving thread may not have reached
`iso_client_connection.c:95` yet, where it forgets that it was told to stop (`StartHandling`). `answers` and `unanswered` are history.

Definitions named `...NoWrap`, `...Always`, `...OffByOne` and so on, commented "A
variant ...", are wrong versions of the definition below them. Nothing uses them:
they document which bug each property excludes, and replacing the definition by its
variant makes the property fail (`PROJECT.json`, "mutants").

## 3. Runs

`tlc -config X.cfg M`, each below five minutes on two workers.

| run | configuration | checks | distinct states |
|---|---|---|---|
| publisher_stream | `MCSvPublisher_stream.cfg` | `AreasDisjoint`, `EveryASDUReachable`, `ImplementsStream` | 109 000 |
| publisher_reset | `MCSvPublisher_reset.cfg` | `SlotsDisjoint`, `CounterInFrame` | 174 000 |
| server_edit | `MCSvServer_edit.cfg` | `LaidOutBeforeUse`, `SlotsOwned`, `LiveCountersAgree` | 2 100 000 |
| server_wave | `MCSvServer_wave.cfg` | `FrameShowsPanes`, `StreamAdvances`, `KeepsSending` | 363 000 |
| receiver | `MCSvReceiver_careful.cfg` | `QuietWhenStopped`, `ElementInList`, `CallsInOrder`, `CallsMatch`, `StopTerminates`, `FramesTaken` | 31 885 |
| goose | `Goose_stream.cfg` | `TypeOK`, `SameStateSameData`, `TimeAllowedKept`, `UpToDate`, `ChangesReceived`, `KeepsPublishing` | 272 822 |
| report | `MCReportControl_queue.cfg` | `BufferLinked`, `BufferApart`, `FlagsTriggered`, `ImplementsQueue`, `ChangesKept`, `SentToEnabler`, `ReportsSent`, `ChangesReported` | 202 975 |
| control | `MCControlObject_orders.cfg` | `TypeOK`, `NeverTwice`, `ControlFreed`, `SelectionEnds` | 664 212 |
| client | `MCMmsClient_calls.cfg` | `OwnAnswer`, `AnswersArrive`, `CloseReturns` | 975 808 |

The runs report_gi (`MCReportControl_gi.cfg`), control_close (`MCControlObject_close.cfg`) and control_exclusive (`MCControlObject_exclusive.cfg`) each exhibit one disagreement of code and documentation (section 6).
Five more configurations, listed there, show a trace each and are not among the runs.

**publisher_stream.** Two ASDUs and two values altogether, of one and of four
bytes, with and without `RefrTm`; two bytes are enough for two values that lie side by
side in one ASDU or in neighbouring ones, which is where overlaps happen, and a second
setup with a longer layout over an old one. `Base = 2` makes the two-byte counter
wrap after four samples. The buffer (`Capacity`) holds the longest of these frames.
Three ASDUs would add no new neighbourhood; elements of 128 bytes and more, and more ASDUs, are left to
the theorems.

**publisher_reset.** One ASDU with one- and eight-byte values, a data set name, `smpMod`
and `resetBuffer` at any time; here indexes are handed out a second time, and the frame
keeps the layout of before.

**server_edit.** Three ASDUs in the life of a handle, two values each, with STOP
and START and both removals: enough to remove the last channel, add another behind
the orphaned ASDU, and do the same with values, before and after a restart. The third
ASDU exceeds `MAX_NUM_CHANNELS = 2` once, through the code's `<=`. Counters wrap
at three. Two descriptors: the second NewPublisher finds the last, the third none.
The wave is irrelevant here, so settings have one value.

**server_wave.** Two channels with a value each, all settings and options with two
values, NETWORK at any time: a setting may change at any step of the wave. Before either run of the server TLC evaluates `DeltaWithinASecond` (`MCSvServer!ClockChecked`) for all
pairs of moments within three and a half "seconds" of ten nanoseconds; the theorem covers 10^9.

**receiver.** Two subscribers to different application identifiers, frames of one ASDU, of two
and of none, a queue of two that a third frame overflows, two starts: the second start is
where a stale `stopped` would matter. `Patient = TRUE`, and subscribers are removed only while
the receiver is stopped: without either, the code fails (section 6).

**goose.** Retransmission intervals of one and four ticks, two quick repetitions, `sqNum` modulo two (it
wraps within one stable state), one change of data between any enabling and disabling, two messages in flight,
the clock set back once by up to nine ticks - one more than the `2 * MaxTime` from which the code repairs it, so both sides of
the limit are reached. `Reorders = FALSE`; section 6 says what is lost otherwise.

**report.** A block of five units, entries of two to four: one entry fits beside another or
not, wraps or pushes out one or two, and the lone entry that gives way occurs. Four reports, so that the block
wraps twice. Two clients: one takes over from the other, resumes after any entry, and disappears in the middle of a transmission.
One general interrogation, since a second one fails an assertion (report_gi).

**control.** One object to be selected, with enhanced security, and operated many times, so that its owner keeps the selection and an aborted
operation leads back to it; two clients that may select, take over, cancel, operate once altogether, close and come back, with every answer of every
handler, and the worker and the closing connections between any two steps of a request. One order, with or without a time, already meets every interleaving of
its request with the worker. More orders or objects take TLC longer than five minutes; for any number of them there are the theorems, and liveness is checked for this instance only. control_exclusive has an object that is operated once, control_close one that is operated directly.

**client.** Two threads, two places for outstanding calls, two calls, a report, a close of either side. Of one thread with two calls
the second meets what the first left behind; of two threads with one each the answers cross. A close may come at any time, also before the
receiving thread has begun.

`CHECK_DEADLOCK FALSE` is set except in the configurations of ControlObject, whose worker and connections never end: elsewhere the bounds end every behaviour, the user may quit,
the receiver may be destroyed, a server that has failed an assertion or used a NULL pointer stops, and the
client's association ends.

Bounds: `MaxASDUs`, `MaxValues`, `MaxSlots`, `Capacity`, `MaxSockets`, `MaxStarts`,
`MaxFrames`, `QueueSize`, `LastMoment`, `MaxValue`, `WireSize`, `SetBack`, `MaxSetBacks`, `MaxReports`, `MaxGI`,
`MaxOrders`, `MaxCalls`, and `CounterSize`/`Base` for 65536/256, `SqNums` for 2^32.

## 4. Fairness

- `SvServer!FairSpec`: `WF_vars(Next)`. The loop has no blocking call: it polls the
  events, and `Thread_sleep` is bounded. No single action is fair: nobody has to click. A click is
  not repeated within an iteration, so the loop comes to its end and `KeepsSending` needs
  nothing from the user.
- `SvReceiver!FairSpec`: `WF` of each thread's `Step` (the operating system schedules a runnable
  thread; every step is non-blocking: `Ethernet_receivePacket` does not wait) and of
  `StopReturns` (the poll in `SVReceiver_stop`). `Start`, `Stop`, `Destroy`, adding and
  removing subscribers and the arrival of frames have no fairness.
- `Goose!Fairness`: the application finishes a trigger it has begun, the worker (called every
  millisecond) does what is due, a disabling client comes to its second half; a message does not stay on the network for ever
  (delivered or lost), and of infinitely many not all are lost (`SF` of `Deliver`); time passes. Nobody has to change
  data, enable or disable, and no clock has to be set back.
- `ReportControl!Fairness`: whoever holds the mutex goes on to release it (nothing blocks in between; the
  formula `[]<>(holder = "free")` says the same as `WF` of `Working` and is cheaper to check); the worker
  comes round again and gets the mutex some time (`SF`: the mutex is a semaphore, and other threads take it for a short
  time each); buffer times elapse (`SF`, as a pending flag may come and go). No client does anything.
- `ControlObject!Fairness`: the worker goes round (`WF` of its steps together); a handler that is asked again and again to go on
  finishes some time (`SF` of `Wait` or `Perform` of each object: an assumption about the application, without which no control would ever end);
  a request that has begun goes on (`WF`); select time-outs and operate times are reached; a closing connection goes on once nothing
  holds it (`WF` for each); and, for `SelectionEnds` alone, of the clients that are connected some one tries to select each object
  again and again (`SF`) - the time-out is only looked at when somebody asks.
- `MmsClient!Fairness`: each caller's thread and the receiving thread run. Nothing is assumed of the server, and
  no time-out has to happen; `CloseReturns` therefore says in its premise that no call waits for ever, which the
  time-out of each call ensures. It is about a thread that still knows it was told to stop.

SvPublisher is safety only, and so are the runs publisher_stream, publisher_reset and server_edit.

## 5. Proofs

TLAPS 1.4.5 checks every theorem from nothing, for all values of the constants, under the named assumptions and
no others.

| theorem | says | assumes |
|---|---|---|
| `SvServerProofs!LaidOut` | `[]LaidOutBeforeUse` | nothing: any constants |
| `SvServerProofs!SlotsAreOwned` | `[]SlotsOwned` | nothing |
| `SvServerProofs!CountersAgree` | `[]LiveCountersAgree` | nothing |
| `SvServerProofs!FramesCarryPanes` | `FrameShowsPanes` | `RateAssumption` |
| `SvServerProofs!StreamIsGapless` | `StreamAdvances` | `RateAssumption` |
| `SvReceiverProofs!QuietAfterStop` | `[]QuietWhenStopped` | `BoundAssumption`, `Patient` |
| `SvReceiverProofs!ElementsNotFreed` | `[]ElementInList` | `BoundAssumption`, `Patient` |
| `SvReceiverProofs!CalledInOrder` | `CallsInOrder` | and `FrameAssumption`, `NoneAssumption` |
| `SvReceiverProofs!CalledForItsFrame` | `CallsMatch` | the same |
| `SvPublisherProofs!ValuesNeverOverlap` | `[]SlotsDisjoint` | `ConstantsAssumption` |
| `SvPublisherProofs!HandleTypes` | `[]HandleTypeOK` | `ConstantsAssumption` |
| `SvPublisherProofs!AreasNeverOverlap` | `[]AreasDisjoint` | `ConstantsAssumption` |
| `SvPublisherProofs!ReachableExactly` | `[](EveryASDUReachable <=> ReadableFrame)` | `ConstantsAssumption` |
| `SvPublisherProofs!CountersAgree` | `[]CounterInFrame` | and `[]FrameFits` |
| `SvPublisherProofs!HandleImplementsStream` | `ImplementsStream` | and `[](FrameFits /\ EveryASDUReachable)` |
| `SvPublisherProofs!ModestFramesFit` | `[](FrameFits /\ EveryASDUReachable)` | `ConstantsAssumption`, `[]Modest(K, w)`, room for `K` ASDUs as large as `w` |
| `SvPublisherProofs!ModestCallerStreams` | `ImplementsStream /\ []CounterInFrame` | the same |
| `SvPublisherProofs!FullServerStreams` | the same for 16 channels of 16 values in a buffer of 1518 bytes | `ConstantsAssumption`, `[]Modest(16, FullChannel)` |
| `SvPublisherProofs!DeclaredSizeError` | how far `WrittenSize` exceeds `EncodedSize`, for every ASDU | nothing |
| `SvPublisherProofs!LengthsAgreeExactly` | when the two agree | nothing |
| `SvPublisherProofs!CounterBeforeData` | counter before data, both inside the ASDU | nothing |
| `SendClockProofs!DeltaIsElapsed` | `DeltaWithinASecond` | `NanosAssumption` |
| `GooseProofs!GooseTypes` | `[]TypeOK` | `GooseAssumption`, `NetworkAssumption` |
| `GooseProofs!StateGoesWithData` | `[]SameStateSameData` | the same |
| `GooseProofs!DataUpToDate` | `[]UpToDate` | and `~Reorders` |
| `GooseProofs!AllowedTimeIsEnough` | `[]TimeAllowedKept` | and `~Reorders` |
| `ReportControlProofs!FlaggedIsReported` | `ChangesKept` | `ReportAssumption`, `BlockAssumption` |
| `ReportControlProofs!FlaggedIsTriggered` | `[]FlagsTriggered` | and that every report fits into the block |
| `ReportControlProofs!SentToWhoEnabled` | `SentToEnabler` | `ReportAssumption`, `BlockAssumption` |
| `ReportControlProofs!EntriesStayApart` | `[]BufferApart` | `ReportAssumption`, `BlockAssumption` |
| `ReportControlProofs!CountNeverTooLow` | `[]CountCovers`: `reportsCount` is never below the number of linked reports | `ReportAssumption`, `BlockAssumption` |
| `ReportControlProofs!LinksAgree` | `[]BufferLinked` | and `NoneReplaced` |
| `ReportControlProofs!QueueImplemented` | `ImplementsQueue` | and `NoneReplaced` |
| `ReportControlProofs!AssertionsHoldUnreplaced` | `[]AssertionsHold` | and `NoneReplaced` |
| `ControlObjectProofs!Types` | `[]TypeOK` | `ControlAssumption` |
| `ControlObjectProofs!NoOrderTwice` | `[]NeverTwice` | `ControlAssumption` |
| `MmsClientProofs!CallsGetTheirOwnAnswer` | `[]OwnAnswer` | `ClientAssumption` |

**SvServer.** `LaidOutBeforeUse` is not inductive: it says nothing about the state before START, in which the
records are made. `SvServerProofs!IInv` adds that `running` and `setup_completed` are one
flag; that the panes point into the list in strictly increasing order, and the values of a pane into its
row likewise (`Points`, `Increasing`), which removing from the end preserves and a new ASDU or slot, being
the last of its list, extends; that after setup *every* row is laid out completely (`AllLaid`), because the
buttons that add are dead while it runs; and that before it all counters are zero (`Fresh`), because
STOP abandons the handle instead of stopping it. Then two different values differ in their slot by the order, what is shown is
laid out because everything is, and live counters agree because they started at zero
together and `Broadcast` counts exactly the live ones. One lemma per action.

The two action properties need, beside `IInv`, what is in the slots and on the wire (`Carried`). `Slots`: a slot that no value shown writes
is as `malloc` left it - nothing writes before START, and nothing is removed after it - and at the end of drawing every other one holds a
typed-in value or the sine value *of this iteration*, because `SlotsOwned` makes `Written` write each slot once. `PanesWritten`: without a click that is what the
pane shows. `WaveSteps`: `loops` is the step after the last one computed, or zero, and stays below the rate, also when the rate was lowered
meanwhile, because the wave then starts anew; this takes `RateAssumption`, the lower end of the widget
(`main.cpp:200`). `LastFrame`: the last frame was sent by the server that runs now, shows its counters, and shows the wave one step ago.
Garbage from a freed buffer is excepted by the properties themselves (`IsFrame`): after a STOP nothing better can be promised.

**SvReceiver.** `IInv` = `Threads` (what a thread at each place holds), `Succession` (threads are numbered by
their starts, and only the last one can be alive), `Awaited` (while the application
waits, its thread is still to come to `End` or has set `stopped`; a patient
application's thread has cleared the flag of the last run before), `SocketOfThread` (a socket is open exactly between
`OpenSocket` and `CloseSocket`), `ElementInList`. For the calls, `Order` adds that the queue is in the order of arrival (`Arrivals`),
that the frame a thread is at and the frame of the last call have left it (`InHand`, `CallTaken`), that a thread at a listener has found one that
matches (`AtListener`), and where the last call stands: before the first ASDU it ended an older frame (`Untold`), between two ASDUs it was the one before (`Halfway`).
As one thread at most is alive, the last call can only be its own or complete. `FrameAssumption` says that a frame has a natural number of ASDUs,
`NoneAssumption` that the mark for "nothing" is neither a frame nor a call. `Patient` is essential: without it the property
fails (section 6, stale stop).

**SvPublisher.** `IInv` = `HandleTypeOK /\ SlotsDisjoint` knows nothing of bytes. Three theorems about sizes
are about a single ASDU of any lengths. The positions in a frame are sums over the ASDUs before it (`SizeUpTo`, a function over 0..n);
what such a sum satisfies for every n is shown from the least number that would violate it (`WFMin` and `NatLessThanWellFounded` of the
library: sets in place of predicates). On that rest three invariants and a lemma.
`FrameInv`: the frame of the last setup has as many elements, with the same lengths, as the records had then (the list may have grown since), so that areas lie in
order and apart. `ReachableIff`: a reader that walks by declared lengths finds all ASDUs exactly if the two length
computations agree on all but the last (`ReadableFrame`); with `LengthsAgreeExactly` that names every frame that cannot be read.
`MemInv`: the two bytes at a counter's place are those of the record's counter. A write changes one area, so
it stays true. `WireInv`: nothing is sent before a setup, and what is sent has an ASDU. The values need no invariant: for the refinement it is enough that
a write changes what is read back (`ReadSlot`) at its own slot and at no other, which is `SlotPlace`, `SetValueReads` and `SlotsDisjoint`; each operation is
then shown to be a step of the stream (`AddASDURefines` to `PublishRefines`). `FrameFits` is a hypothesis and not an invariant: no line
of `sv_publisher.c` compares the frame with the 1518 bytes of the buffer (hazard `sv_publisher.c:122`), and what is written
past its end is lost to the model. Likewise a frame that cannot be read by its declared lengths does not show the stream: the
theorem says that these two are all that stands between the handle and its abstract specification.

The last part replaces both hypotheses by one about the caller. `Modest(K, w)`: there are at most `K` ASDUs and none is larger than `w`, whose two lengths agree
(strings and data below 128 bytes, no `smpMod`). Sizes grow with the fields (`SmallerASDU`), a sum of `n` of them is at most `n` times the largest (`BoundedSum`), the tags and lengths before
the first ASDU take 15 bytes at most, and the frame of the last setup is no larger than the list was then (`ModestFrame`, kept by every step): so `15 + K * DeclaredSize(w) <= Capacity` is all
that is left to check. `FullServerStreams` does so for this program: 16 channels (`MAX_NUM_CHANNELS`) of 16 values of four bytes (`MAX_NUM_VALUES`) with names of up to nine
characters fit, by a margin of less than a byte a channel: with ten characters they take 1499 of the 1492 bytes behind the 26 of the headers. The theorem does not cover the 17th channel that `add_channel` lets pass, longer names (the field takes
63 characters), more values (nothing stops the 17th), nor a user who removes channels and adds others on one handle, whose orphaned ASDUs count as well.

**SendClock.** Arithmetic of `%` and `\div`, for any number of nanoseconds in a second.

**Goose.** `Types` adds to `TypeOK` that the publisher is at most one state ahead of the application (`StatesCounted`).
`SameStateSameData` needs the same of every message on its way (`Agree`): what was published since the block was
enabled is not newer than the publisher, and what carries its state number carries its data - except while the
application is between an update and its trigger, when a repetition sends new data under the old number. For
`UpToDate`: the message published last carries the data, unless the application is about to publish, and in an ordered network
it was taken in after all others (`Current`); with reordering the property is false. For
`TimeAllowedKept`: in the stable state the publisher allows the long time (`LongWhenStable`); the message published
last allows for the next one (`LastAllows`); and, when nothing is on its way, what was heard lives at
least until the next message - or, when the clock was set back, until `MinTime` after its repair (`LivesOn`).

**ReportControl.** `Inv` = `Held` (who is about to transmit holds the mutex) and `Flags` (types). With it, one
lemma sorts the steps of `Next` into five kinds, by what they do to flags, mutex and owner, and each theorem
looks at five cases. `FlagsTriggered` needs that no report is larger than the block: such a report is never made,
`triggered` is cleared all the same, and its flags stay behind.

The buffer is proved about in two stages, because one operation breaks the second. The walk along the links is a recursive function; a proof
does not compute it but names it: `Links(b, c, n)` says that `c` is a row of `n` different entries, from `oldest` on, each linked to the next.
`Placed` says how the row lies in the block: ascending from `oldest`, and then, from one turning point on, ascending again from zero, below `oldest`. `Holds`
adds that `last` is the row's end or lies behind it where it can do no harm. Every operation - dropping the oldest while the new entry does not fit,
appending at the end or wrapped, unlinking the interrogation's entries - is shown to take one such row to another; `ValidBuffer`, that some row holds, is
therefore invariant, and `BufferApart` follows for *every* behaviour, `EntriesStayApart`.

So does one half of what the finding leaves of `reportsCount`. `Counted` adds to a row that its length is at most the count. Giving up `k` entries takes `k` off the count and off the row; a
report that is stored adds one to the count and at most one to the row (none, if `last` was left behind the row); unlinking the interrogations shortens the row alone. `CountNeverTooLow`: the
count is never *below* the number of linked reports, whatever is removed. The assertion of `enqueueReport` can therefore only be met with a count that is too high, over a single linked report. How much too high has no bound:
once `last` is behind the row, every further report is counted and not linked.

`Exact` is stronger: `last` is the end of the row, the count its length, `next` a place in it. This is lost when `RemoveGI` takes out entries of an
earlier interrogation, which updates neither `reportsCount` nor `lastEnqueuedReport` (`reporting.c:1641`, the finding of report_gi).
`NoneReplaced` says that an interrogation only starts while no entry of an earlier one is stored: then `BufferExact` is invariant, the links agree, all four
kinds of steps are steps of the queue or leave it alone, and the assertions of `enqueueReport` hold. With the run, which violates them, the
theorem says that this replacement is the *only* way to fail them, for any number of reports, any sizes and any block.
`ReportAssumption` says in addition that the data set is finite.

**ControlObject.** `TypeOK` includes that a connection whose request is handled has not begun to close, and that a direct object is never unselected (`RequestOK`, `StateOK`).
`NeverTwice` is not inductive: it must be known that who performs has something left to perform. `OrderKept`: an object under way has an unperformed order, except
while the worker is between performing it and putting the state back; and so has one the worker is about to start. The exception is why
cancelling in that window is harmless for this property. A hand-over raises the count in the step that makes the object wait, every other step of a request can only end an operation, and so
the splitting of requests does not disturb it.

**MmsClient.** `Inv` is `Facts` (types, invoke ids are handed out once, an id is answered once, what is on the wire is what the
server answered) together with `HandOver`, unless a call has ended unanswered. `HandOver` says the buffer is the
server's only while the semaphore counts zero and the receiver waits for it (`Unreleased`): then `responseInvokeId`,
`lastResponseError` and the buffer belong to one caller, from `Store` to that caller's `Post`, and no second
caller can be at `post`. What a call has taken (`Taken`) it keeps until it returns, and after (`Done`); a connection lost by then only replaces the error. A single call that ends unanswered posts once too often, and all of this is lost: hence the exception in `OwnAnswer`, which is the code's, not the proof's.

**Only model-checked.** Liveness (`KeepsSending`, `StopTerminates`, `FramesTaken`, `ChangesReceived`, `KeepsPublishing`, `ReportsSent`,
`ChangesReported`, `ControlFreed`, `SelectionEnds`, `AnswersArrive`, `CloseReturns`) is out of the
prover's reach, as is whatever needs ENABLED. Every invariant, action property and refinement that a passing run checks is a theorem,
under the hypotheses of the table, of which `FrameFits` and readability are themselves a theorem for modest callers; without `NoneReplaced`, `FrameFits` or readability the properties in question are false of the code, and without
`Patient` too.

## 6. What the checks found

| run | property | what the code does |
|---|---|---|
| report_gi | `AssertionsHold` | A second general interrogation removes the entries of the first and does not count them (`reporting.c:1641`): with one entry left the assertion `reportsCount == 1` of `enqueueReport` (`reporting.c:1772`) fails and ends the server. |
| control_close | `ClosingEnds` | `mmsConnectionHandler` takes the connection out of the list before it waits for its tasks (`mms_mapping.c:2360-2364`); `exitControlTask` no longer finds it, the count stays above zero and the wait never ends. |
| control_exclusive | `SelectionExclusive` | The worker is about to write `STATE_OPERATE` (`control.c:393`) when the owner cancels and another client's SBOw finds the object unselected (`control.c:1337`); the worker writes, and `selectObject` (`control.c:616`) gives the object in operation to the other client. `iec61850_server.h:821` calls an object that "is already selected or operated" unavailable. |

Further configurations, each with a property that the model, like the code, violates. They are not among the runs; `tlc -config X.cfg M` prints the trace.

| configuration | property | what the code does |
|---|---|---|
| `Goose_reorder.cfg` (Goose) | `ValidAdvances` | The network delivers a message of an earlier state after one of a later state. `goose_receiver.c:588-596` compares sequence numbers only when the states are equal, so it is called valid and its old data is taken over, against `goose_subscriber.h:90-91`. In an ordered network only an immediate duplicate can be late, which is why the run goose has `UpToDate` instead. |
| `MCControlObject_lost.cfg` | `ExecutedInstantly` | Select, order with a time, cancel, select, order without one: cancelling a selected object leaves `timeActivatedOperate` set, so the last order is answered and forgotten (`control.c:1493`). No interleaving is needed. |
| `MCControlObject_twice.cfg` | `HandedOverOnce` | The time of an order comes between its hand-over (`control.c:1482`) and the look at `timeActivatedOperate` (`control.c:1493`), which the worker has cleared (`control.c:696`): the request hands the same order over again, for immediate execution. |
| `MCControlObject_early.cfg` | `NotBeforeItsTime` | An order with a time begins to wait after the worker has found the object not waiting for a time (`control.c:689`) and before it reads the state again (`control.c:723`): it is executed at once. |
| `MCMmsClient_close.cfg` | `CloseCloses` | connect waits for `handlingThreadRunning`, which the receiving thread sets before it clears `stopHandlingThread` (`iso_client_connection.c:94-95`): a close in between is forgotten, the thread goes on, and `close` waits for it. |

Seen while modelling. Where they change state they are in the models, unless the entry says otherwise.

*Server program and sampled values*

- STOP or NETWORK copies a handle whose buffer the temporary's destructor frees (`main.cpp:169`): the next START
  encodes into freed memory. `src/README.md` says the program "seems to slowly corrupting some memory".
- "Remove channel" forgets the record (`main.cpp:232`), the ASDU is sent for ever; "Remove value" leaves the slot, whose bytes
  are sent as malloc or the last value left them. After `pop_back` the rest of the pane is drawn from the removed Channel (`main.cpp:234`).
- Every value is created as FLOAT and `set_value` for a time stamp asserts INT (`publisher.hpp:78`, `publisher.hpp:84`): choosing TIME on a running server ends it.
- `add_channel` compares with `<=` (`publisher.hpp:132`), so 17 channels can exist for 16 rows of `values`;
  the limit on values per channel is never enforced (`publisher.hpp:62`), the 17th shares its typed-in number with the next channel.
- STOP and NETWORK never close the raw socket (`main.cpp:169`, `main.cpp:179`): `sockets` only grows. Once none is
  left the new handle's socket is NULL and the next broadcast dereferences it.
- The comment at `main.cpp:276` says durations over *two* seconds will not work; the computation is wrong from one second on.
  The sleep is truncated to whole milliseconds (`main.cpp:396`): from 1000 samples a second on the display sets the rate.
- From 128 bytes of data on, `getEncodedSize` (`sv_publisher.c:326`) still counts two bytes of tag and length where three are
  written; `smpMod` is counted with four bytes and written with six (`sv_publisher.c:383`). The theorem `DeclaredSizeError` says by how much the frame is declared
  too short. The frame's length is never compared with the buffer's 1518 bytes.
- The receiver's thread sets `running` itself (`sv_subscriber.c:127`): a stop before that is overwritten and never returns. `stopped`
  is cleared by the thread, not by start (`sv_subscriber.c:128`): a stop right after a restart returns while the thread lives. The list element of a subscriber removed while the receiver runs is freed
  under the thread (`sv_subscriber.c:119`). A failed `socket()` is dereferenced (`sv_subscriber.c:188`). The GOOSE receiver uses its flags in the same way (`goose_receiver.c:700`).
- The destination-address check of the receiver cannot be enabled: nothing sets the flag (`sv_subscriber.c:89`, against the comment at `sv_subscriber.h:134`).
- `src/README.md` gives "eth0" as the default interface; `main.cpp` uses "lo".

*GOOSE*

- Data is changed before the state number is (`ied_server.c:914-937`); a repetition in between carries new data under the old
  number (`mms_goose.c:296-331`). That is why `SameStateSameData` excepts the moment of the change.
- A client that disables between the look at `goEna` and the lock leaves the worker, or the application, with a NULL publisher (`halted`). Enabling while another client
  is between the halves of disabling leaves `goEna` set without a publisher.
- After disabling and enabling, the first message (state 1, sequence 0) may look like a repetition to a subscriber that last heard state 1.

*Reporting*

- Enabling a block while a change is pending loads fresh flags and leaves `triggered` (`reporting.c:1294`): an empty report is made, and the change is
  reported by nobody. `ChangesKept` excepts this; the changelog mentions a repair of something similar.
- The removal of an interrogation leaves `lastEnqueuedReport` at the removed entry when other entries stay (`reporting.c:1674-1675`): the next report is linked behind an entry
  that no link leads to. With older reports still unsent, it and all later ones are never transmitted, and no client can resume after them.
- A lone unsent report that gives way to the next one is not announced by BufOvfl (`reporting.c:1785`); `ReportQueue!Store` says so.
- Disconnection takes no lock (`reporting.c:1561-1564`): the worker, having found the block enabled, may find no owner and dereference NULL. Between its two writes another client can enable the block and then lose it.
- `isResync` set by one client's EntryID applies to the next client that enables (`reporting.c:1302`). A report larger than the block is never made (`reporting.c:1738`).

*Control model*

- An operation leaves its task twice (`abortControlOperation` and `executeControlTask`, `control.c:377-378`), so that a count can go below zero and later waits are void; a rejected Oper leaves a task it
  never began; a cancelled operation of a selected object never leaves its own. The worker then may use a connection that was freed.
- Another client's Cancel is told "locked by other client" and aborts the time-activated operation all the same (`control.c:1561-1582`).
- A closing connection gives up only the first of its objects (`mms_mapping.c:2339`, `break`); others are freed by the select time-out, and with a time-out of zero never.
- The worker takes no mutex: between performing and putting the state back it can undo a selection made meanwhile, and between its look and `setState(OPERATE)` it revives an order that
  was cancelled. `NeverTwice`, `ControlFreed` and `SelectionEnds` hold nevertheless.

*MMS client*

- Every call posts the semaphore, also one that was given up (`iso_client_connection.c:152` says "wait for user to release the buffer"): after one time-out the
  receiver is a message ahead, and a caller may parse the answer to another. `lastResponseError` is shared as well.
- An answer that is stored within the last sleep (10 ms) of its call's time-out leaves `responseInvokeId` set until some call releases it; of a single calling thread every later call
  gets its answer one call late and times out. `close` returns even then.
- `addToOutstandingCalls` may fail, and its result is ignored (`mms_client_connection.c:296`): the eleventh call at a time is sent and always times out.
- A malformed confirmed error, or an unknown PDU, never releases the buffer (`mms_client_connection.c:693-696`): the model has a server that sends neither, and `ForNobody` releases always. Establishing the connection may overwrite a CLOSED that the thread has set already (`mms_client_connection.c:1099-1101`), which is before the model begins; the flag is looked at only when there is nothing to read.
- A connection that is lost after an answer was parsed is reported as CONNECTION_LOST together with the value (`mms_client_connection.c:1378-1379`).
- `close` called from a report handler waits for its own thread. Concluding posts twice.

## 7. Abstractions

- A sine value is the step it was computed for; amplitude and displacement only scale it. `loops` is kept modulo the sample rate, as the sine is
  periodic; what is lost is the rounding of a large `loops` in floating point.
- Contents of headers, names and `confRev` are one byte `Other`; their *sizes* are exact.
- Typed-in values are a small set; the array has one row more than the code's, so that the 17th channel
  has a place in the model (in the code it writes behind the array).
- Uninitialised and freed memory: `Raw` and `Garbage`, or the end of the process, chosen nondeterministically.
- Timing: a `Thread_sleep` is a stutter. Goose has ticks that are longer than a message's way and the worker's
  millisecond; in ReportControl and ControlObject time is the passing of deadlines.
- The receiver's sockets are counted and share a queue; more than one is open only after `QuietWhenStopped` was violated.
- Of the parsing in the subscribers, which ASDUs reach which listener, and which numbers and data a message carries; not the fields of an ASDU
  nor malformed frames.
- A failed `socket()` in the receiver, and out-of-memory: the code dereferences NULL.
- ReportControl has one block with BufOvfl, general interrogation and integrity period switched on and a data set of the model. The
  identifier of an entry is its number, not the time and pointer it is displayed as; `sqNum` is left out.
- ControlObject leaves out the values of a request (a request that does not agree with the selection is a refused one) and the texts of negative answers. One request at a time is
  the model mutex (`request`). A count of tasks below `-2 * MaxOrders` is kept there: only whether it is above zero is looked at, and a request counts two at most. A closing connection's
  search for its first object is one step: meanwhile nobody gives it another.
- MmsClient: messages are an id and whether it is data or an error; ids do not wrap at 2^32.

## 8. Not modelled

- **Reporting**: unbuffered blocks, reservation, data sets created by clients, segmentation of a long report, reading the attributes. They
  share the trigger flags with the model; the segmentation is encoding.
- **MMS client**: connect, reconnect, conclude, abort, the file service; **MMS and ISO servers**, and the **stack** beneath them (COTP,
  session, presentation, ACSE): mostly encoding and decoding of PDUs, with the state of a connection kept by one thread.
- **IEC 61850 client** (`lib/iec61850/client`): a layer over the MMS client with no thread of its own.
- **Logging, setting groups, the data model**: logging writes entries to a database through callbacks, the others are trees of data and their access functions; what
  control, reporting and GOOSE use of the model is in their modules.
- **GOOSE receiver thread**: its life cycle is, line by line, that of SvReceiver. The decoding of data sets is left out.
- **Other platforms** (bsd, win32): the program builds on Linux only. **asn1c** and its output, **nuklear.h** and its backend, the static models and
  demos: third-party or generated code. With the examples and the .NET bindings these are well over half of the repository's lines, and most of the rest encodes and decodes PDUs; which is why
  the share of lines behind the models (about 4 000) is small: they are the lines where threads, messages and time meet.

## 9. Plan

Done: SvFrame, SvPublisher with SvStream, SvServer, SendClock, SvReceiver, Goose, ReportBuffer with ReportQueue and ReportControl,
ControlObject, MmsClient, and the proofs of section 5. What would add most from here:

1. A larger instance for the liveness of ControlObject, two objects or two orders, which takes a stronger machine or symmetry by hand.
2. A lemma behind the liveness of ReportControl and Goose that is safety: what the worker needs next is never taken from it.
3. That, after a replaced interrogation, the next report to transmit is never in memory that another report has overwritten. It rests on an interrogation being no
   shorter than any other report.
4. The receiver with two live threads, which share one receive buffer: SvReceiver gives each its own frame, as it must under `Patient`.
5. Connecting and concluding in MmsClient; the PDUs that do not release its buffer; unbuffered reporting and reservation in ReportControl.
