# Verification of the hardware support layer: RIL, gralloc, GPS engine

This directory holds TLA+ models of the parts of this repository whose own logic is concurrent: the
radio interface layer under `src/ril` (the event loop and the command socket of the radio daemon, the
AT channel and the radio state of the reference vendor RIL), the pmem allocator of the MSM7k graphics
memory, and the location engine of the Qualcomm GPS library. TLC checks the models on small instances;
TLAPS proves the theorems of the `*_proofs` modules for every value of the constants.

## 1. The system

The repository collects hardware support for Android: the RIL, the HAL loader and sample HAL modules,
`libhardware_legacy` (power, Wi-Fi, vibrator, ...), and device-specific code (MSM7k, i.MX5, OMAP3,
Qualcomm, Broadcom). Most of it wraps drivers that are not here, or is vendored. Three parts have
protocols of their own, and they are what is modelled. They share no state with each other.

The radio interface layer:

```
 telephony client            vendor threads (AT reader, main loop of reference-ril)
      | command socket             | RIL_onRequestComplete, RIL_onUnsolicitedResponse,
      v                            v RIL_requestTimedCallback
 +--------------------------- libril/ril.cpp ---------------------------+
 |  pending requests, tokens, write mutex, NITZ, wake lock              |   RilRequests, RequestService, WakeLock
 +----------------------------------------------------------------------+
 |  libril/ril_event.cpp: fd table, timers, pending list, wakeup pipe   |   RilEvent, EventService
 +----------------------------------------------------------------------+
      | onRequest, timed callbacks (all on the event loop's thread)
      v
 reference-ril.c: sState, initialisation, SIM poll, close and reopen        RadioState
 atchannel.c: one pending command, reader thread, close and reopen          AtChannel
      | tty or socket
    modem
```

The graphics memory and the GPS engine:

```
 threads that want buffers (gpu.cpp)           framework's threads
      | alloc_pmem_buffer, free_pmem_buffer         | start, stop, answers of the user,
      v                                             v data connection opened/closed/failed
 pmemalloc.cpp: master fd, sub-heaps   Gralloc   loc_eng.cpp: deferred thread      LocEng
 allocator.cpp: list of chunks     GrallocHeap     | hands in          | requests
      | ioctls                                   loc_eng_ni.cpp  LocNi   loc_eng_ioctl.cpp  LocIoctl
    pmem driver                                     (NI thread)          | RPC, events
                                                                       modem
```

| Component | State | Operations | What is hard | What makes it correct |
|---|---|---|---|---|
| Event loop, `ril_event.cpp` | `watch_table`, `readFds`, `nfds`, `timer_list`, `pending_list`, wakeup pipe | `ril_event_add/del`, `ril_timer_add`, the loop, `triggerEvLoop` | other threads change what the loop reads without the mutex; callbacks change the lists being walked; `select()` errors end the thread | tables agree; no lost wakeup; timers once, in order, never early; handlers only for watched events; everything is served |
| Command socket, `ril.cpp` | `s_fdCommand`, `s_pendingRequests`, `RequestInfo`s, `s_writeMutex`, `s_lastNITZTimeData` | `listenCallback`, `processCommandsCallback`, `RIL_onRequestComplete`, `RIL_onUnsolicitedResponse`, the debug port | connections end at any point and their descriptor number is used again; several threads write; tokens are addresses that are freed and reused | a reply reaches the client that asked, once, in one piece; each `RequestInfo` is freed once; the next client is accepted |
| Wake lock, `ril.cpp` | the lock, `s_last_wake_timeout_info` | grab, cancel the previous timer, leave a timer | an unprotected pointer shared with timers that free it | a lock that is held has someone left to release it |
| AT channel, `atchannel.c` | `sp_response`, `s_smsPDU`, `s_fd`, `s_readerClosed`, `s_ATBuffer` | `at_handshake`, `at_send_command_*`, `readerLoop`, `at_open`, `at_close` | answers carry no name; timeouts leave answers behind; the channel closes under a command | the pending response has one owner; a command gets its own answer; calls return; the channel comes back |
| Radio state, `reference-ril.c` | `sState`, `s_closed`, timed callbacks | `setRadioState`, `initializeCallback`, `pollSIMState`, `requestRadioPower`, `onATReaderClosed`, `mainLoop` | three threads; the state is read again after the unlock; callbacks straddle a reopening | unavailable while closed; reader thread sends nothing; SMS set up; the state follows the modem in the end |
| Graphics memory, `allocator.cpp`, `pmemalloc.cpp` | `mList`, `mHeapSize`, `master_fd`, the driver's mappings | `init_pmem_area`, `alloc_pmem_buffer`, `free_pmem_buffer`, `allocate`, `deallocate` | the mutex is released between the lookup of a block and its mapping, and between the unmapping and the return; every ioctl may fail; neighbours are merged in a list that shrinks under the loop | chunks tile the heap; free space is coalesced; blocks lie apart, on pages of their own and inside what is mapped; a buffer is refused only for lack of room |
| GPS engine, `loc_eng*.cpp` | `loc_event`, `deferred_action_flags`, `agps_status`, `stop_request_pending`, `ioctl_data`, `loc_eng_ni_data` | event callback, deferred thread, NI thread, calls of the framework, `loc_eng_ioctl` | one-place slots and flags between four threads; a lock kept across a request to the modem; the thread that waits for a report may be the one that delivers it | no cycle of waiting; the wake lock is held while there is work; each connection request is told once and in order; flags, stops put off and notifications are dealt with |

The components that are not modelled, each with its reason, are listed in `PROJECT.json`
(`components`); section 7 groups them. `hazards` there lists what is hard to test in the modelled
code, each at its line, with the properties that cover it or the reason none does.

## 2. Modules

Each part has a module for the code, an MC module with the values of its constants, one `.cfg` per
question, and a `_proofs` module. Names are the source's where TLA+ allows it; `PROJECT.json` maps
every definition to its lines. An operator marked "Variant" or "Bug to look for" is a plausible bug; it
is not part of any specification and serves only to show that a property would catch it.

The parts of the RIL are kept apart by what each needs of the others, stated where it is assumed:

- `RilRequests`, `WakeLock` and `RadioState` use the event loop as what `EventService` promises (a
  handler runs while its event is added, a timer runs once); `RilEvent` is proved to implement
  `EventService`. `RilRequests` in turn is proved to implement `RequestService`, the promise to the
  telephony client.
- `RilRequests` takes vendor code as threads that complete tokens; `RadioState` takes an AT command as
  something that works or fails. `AtChannel` has its own view of the main loop's close and reopen.

### RilEvent, EventService (`ril_event.cpp`, part of `ril.cpp`)

Every function of `ril_event.cpp` that changes state, and the wakeup pipe. The loop is one thread with
a program counter `lpc` (copy `readFds`, compute the timeout, `select()`, time-outs, ready slots,
callbacks); `pc[t]` says where each thread is inside libril. What runs under `listMutex` without
anything in between is one step; what the code reads without it (`readFds`, the head of `timer_list`,
`nfds`) are steps of their own. Time is a discrete clock. `EventService` is the promise to callers,
with no lists, locks or threads.

The clients keep `ril.cpp`'s contract: an event is added only when it is neither watched nor queued,
descriptors are distinct, a handler removes only its own event. `DelTimers` is the set of timers a
handler hands to `ril_event_del`. No caller does that, so the runs take it empty; the theorems hold
for any. (With a non-empty set the early return of line 321 leaves the timer listed and `listMutex`
locked, although the comment at line 315 says "watch or timer list".)

### AtChannel (`atchannel.c`, `waitForClose`/`mainLoop`/`onATReaderClosed` of `reference-ril.c`)

Command threads, the reader thread, the main loop and the modem. A line is a record of what it looks
like (`ok`, `error`, `match`, `pdu`, `prompt`, `unsol`, `sms`), the command it answers and its number;
`processLine` sees only the look. `at_close` and `onReaderClosed` are split where the code unlocks. An
unsolicited line may look like an answer, as the source warns. A line that the end of the channel cuts
short stays in `s_ATBuffer` (`partial`) and begins the first line of the next channel, or takes it in.
`at_open` runs whenever the main loop gets there, also under a waiting command; if that command's thread
then follows `sp_response`, which is NULL, `rild` is gone (`FollowsNull`).

The code cannot keep its promises in all of these cases, and the properties say in which, by four history
variables: `late` (an answer nobody waits for may come), `strays` (what lines that answer nothing have
looked like on this channel), `eaten` (lines of an answer that went into a cut line, or for an SMS that was
one) and `undercut` (threads that were waiting while `at_open` ran).

Assumed: the modem answers commands in turn. `PauseEnds` takes the late answers of a handshake to have
arrived by the end of its pause. One commander: the reference RIL sends its commands on the event loop's
thread, but for what run `radio_late` shows.
Not modelled: `pppcheckLoop`, lines longer than the buffer, the OMAP power ioctls, a write that is
overtaken by a close between its test of `s_fd` and its `write`.

### RilRequests, RequestService (`ril.cpp`)

The event loop's thread accepts a client, reads its records, dispatches them; any thread of `Vendors`
may report events, as may the loop's own thread, in a request or a timed callback, and those of `Completers` complete tokens. `sendResponseRaw` is five steps (read
`s_fdCommand`, lock, header, body, unlock or fail). `CommandFd` is the number `accept` returns every
time, `peer` the connection it denotes at the moment: that is how a write meant for one client can
reach the next. `stream[c]` is what was written to connection c.

`RequestService` is what clients are promised, with no threads, tokens, descriptors or mutexes: they are
served one at a time in the order they come; a request that was taken up is answered at most once, to the
client that sent it, and stays due until then or until the connection ends, when nothing of it is left.
The mapping is at the end of `RilRequests`: the client served is `peer`; a request is due while it is
pending for that client or a thread is on its way to write its reply; it is answered when the body of its
reply is in the stream. A cancelled request, or a reply on its way to a connection that is gone, is due to
nobody: that such a reply then reaches nobody is what the refinement comes down to.

Assumed: `accept` reuses the number; a failed write returns an error (SIGPIPE ignored, a full
non-blocking socket); a second completion of a token comes before `onRequest` has returned
(`reference-ril.c:828-862`), as a later one cannot be told from a completion of the memory's next use.
Not modelled: `RIL_register` and start-up, marshalling, `accept` failing, records over
`MAX_COMMAND_BYTES`, the debug port and a command becoming ready in the same pass (the assertion of
line 2180).

### WakeLock (`ril.cpp`)

The wake-lock half of `RIL_onUnsolicitedResponse` and `wakeTimeoutCallback`/`userTimerCallback`. Each
access to `s_last_wake_timeout_info` is a step of its own, because nothing protects it; following a
null pointer is the outcome `crashed`. `power.c` is a flag. `malloc` does not fail.

### RadioState (`reference-ril.c`)

`setRadioState` is three steps (under the mutex; the notification, after the unlock; the follow-up,
which reads `sState` again), for whichever thread calls it; `then[t]` is where the caller goes on. The
dispatch thread runs `initializeCallback`, `pollSIMState` and requests; the reader of the n-th channel
runs `onATReaderClosed`; the main thread runs `mainLoop`. The modem has a radio (`cfun`) and a SIM.
`since` is the channel a callback began on: a command sent by a callback that began on an earlier
channel may have failed or may work on the new one.

The reader sets `s_closed` without the mutex (line 2330), and the main loop may see it and clear it again
(line 2450) before the reader has come back from `setRadioState`. The history variable `overtaken` says
that this has happened to the channel being opened. `UnavailableWhenClosed`, `CloseIsNoticed` and
`ClosedIsReopened` hold all the same; `NotOnReader`, `SmsSetUp` and `RadioComesUp` hold only of a channel that
was not opened so, and the run `radio_late` shows the first one's violation otherwise (finding 2). In the
other two what goes wrong is that the late reader's commands are in the way, or that its UNAVAILABLE falls
on the new channel and stays.

Assumed: a command works on an open channel when its thread is the only one that sends commands and began
on that channel (a modem that keeps answering ERROR is not modelled).
Not modelled: what the other requests send and answer, unsolicited lines, data calls, `onATTimeout`
(never called: no `at_send_command_*` has a timeout), discovery of the modem's port.

### GrallocHeap, Gralloc, BlockPool (`libgralloc-qsd8k/allocator.cpp`, `pmemalloc.cpp`, part of `gpu.cpp`)

`GrallocHeap` is `SimpleBestFitAllocator` as operators: `mList` is a function from the start of each
chunk to its size and whether it is free, `AfterAlloc` carves a block out of the smallest chunk that
fits once its start is rounded up to a page, `AfterDealloc` joins a block with its free neighbours in
the order of the loop's passes.

`Gralloc` is `PmemUserspaceAllocator` over it. `pc[b]` is where the thread that allocates or frees
buffer b is: *allocate*, *connect* (open, `PMEM_CONNECT`, `PMEM_MAP`), *undo* when that fails, *live*,
*deallocate* (after `PMEM_UNMAP`) and *close*. The initialisation fails in each of its ways: the device
cannot be opened, or not mapped, or its size cannot be asked for (limp mode). `maps` is what the
kernel's driver has mapped for each buffer; `lost` are the blocks the code never gives back because
`PMEM_UNMAP` failed. `BlockPool` is what those who ask for buffers are promised, with no chunks, lists
or descriptors; `Gralloc` implements it.

The size the heap takes in limp mode (8 << 20, `LimpBytes`) is never compared by the code with that of the
region (`PmemBytes`), and a failed `mmap` may leave the heap that size for good. Neither does the model:
`BlocksMapped` speaks of a heap that is no larger than the region; all other properties of any.

Assumed: a driver that maps what it is asked to; sizes are those of `gpu.cpp` (whole pages) and of the
repository's tests (256). Not modelled: `PmemKernelAllocator` (no state shared between buffers), the
buffers of the framebuffer, registration of handles in other processes, cache maintenance.

### LocIoctl, LocNi, LocEng (`loc_eng_ioctl.cpp`, `loc_eng_ni.cpp`, `loc_eng.cpp`)

`LocIoctl` is the one record (`ioctl_data`) through which a thread waits for the report that answers
its request: select, send, wait, reset, each under `cb_data_mutex`. `LocNi` is the notification of the
network that is shown to the user, with its thread that counts the seconds and answers for a user who
does not; it keeps `loc_ni_lock` across a request. `LocEng` composes them: the RPC callback that fills
the one-place slot `loc_event` (the next event overwrites one that was not taken), the deferred thread
(`dpc`, with its copies `local` of the shared data), the threads of the framework, the modem. `asked`
and `told` record the connection requests processed and passed on, `stopOwed` that a stop was put off.

Assumed: one client handle; the condition variable of a request returns only when signalled or at the
timeout, while the deferred thread's, which is not in a loop, may also wake spuriously; the random ids
of notifications are fresh. `POSITION` stands for every report that is only handed to a callback,
`FIX_CRITERIA` for the injections of time and orbit. The engine is initialised and never cleaned up (the
clean-up is compiled out by `DISABLE_CLEANUP`). Not modelled: the XTRA parts but the last, APN and
server addresses, the payloads of reports.

## 3. Runs

| Run | Bounds | What it shows |
|---|---|---|
| `event_loop` | the wakeup pipe and a one-shot event that takes turns at descriptors 4 and 5; two timers, one thread besides the loop, three slots, clock 0..2, delays 0 and 1 | `TypeOK` (no negative `select()` timeout), `TablesAgree`, `NoLostWakeup`; the loop implements `EventService` (`ImplementsService`); `TimersRun` and `InputServed` unless `select()` failed |
| `at_channel` | handshakes of two attempts, MULTILINE, CMGR and SMS commands (the prompt and the PDU), two calls, two intermediate lines, one line that is unsolicited (of any look, or an SMS) or cut short, two channels, opened whenever the main loop gets there | `ResponseOwned`, `RightAnswer`, also across a close; `NeverForgotten`: no command sleeps without somebody and something to wake it; `CommandReturns`, `ChannelReopens`; that `FollowsNull` is taken |
| `at_drain` | handshake and SMS, two calls, one channel | violation of `HandshakeDrains` (finding 1) |
| `ril_requests` | two connections, one request, one unsolicited message, two `RequestInfo` addresses; the loop completes, one other thread reports | `AnsweredOnce`, `Framed`, `CellsOwned`; the daemon implements `RequestService` (`ImplementsRequests`); `Answered`, `AcceptsWhileAlive` |
| `ril_thread` | two connections, one request; any thread completes | violation of `RepliesBelong` (finding 3) |
| `ril_accept` | two connections, one unsolicited message | violation of `AcceptsAgain` (finding 4) |
| `wake_release` | the loop and two threads, four reports, four addresses | `LockAccounted`, `WakeLockReleased` |
| `radio_state` | two channels, one request, a SIM that is not ready, ready or locked | `UnavailableWhenClosed`, `NotOnReader`, `SmsSetUp`, `CloseIsNoticed`; `RadioComesUp`, `ClosedIsReopened` |
| `radio_late` | two channels, no request | violation of `NeverOnReader` (finding 2) |
| `gralloc_heap` | three buffers of 256 bytes, a page or two pages in a region of three pages, limp mode with two; buffers symmetric | `Tiled`, `Coalesced`, `NoSharedPage`, `BlocksMapped`; the allocator implements `BlockPool` (`ImplementsPool`) |
| `gps_engine` | two events of the modem of any kind, the reports that answer requests among them, one thread of the framework with one call besides the answers it owes, two seconds to answer a notification; deadlock checked | `NiTimed`, `DeferredNeverAnswered`, `DeliveryNotBlocked`, `AwakeWhileBusy`, `NothingOverlooked`, `StatusToldInOrder`, `StopNotStranded`; `FlagsTaken`, `StopHonoured`, `NiClears` |
| `gps_aiding` | the same with two kinds of event: the engine goes on, and a report for a callback | violation of `AidingDeletedWhenOff` (finding 5) |

Every bound is a constant or a number named in its module's CONSTANTS. They are small because the
races need few actors: every hazard of `PROJECT.json` that a property covers is a matter of two or
three threads, two channels or connections, and one or two items, and each property is broken by at
least one plausible bug (`mutants`) within its run's own bounds. Two timers are the least for order; two
connections are the least for a reply that goes astray; two openings the least for a late answer or a
late reader; two calls the least for a handshake whose late answer completes another command; one stray or
cut line the least for one that passes for an answer, takes one in, or falls between two; three
pages and three buffers the least for a hole between two blocks; two events the least for a
notification that overlaps another or a release that follows a request. Repetition beyond the bounds is
what the theorems are for.

Every component has a `TypeOK`. Only `event_loop` still checks one, because it says that no `select()`
timeout is negative; the others were checked while the models were written and are proved
(`TypeCorrect` in every `_proofs` module).

Deadlock is checked in the runs of the GPS engine, whose threads go on for ever. It says little there: while
a thread sleeps a spurious wake-up is always possible. That no thread waits for another in a circle is
what `DeliveryNotBlocked` says, and that the threads get on, under a fairness that owes no spurious wake-up,
the liveness properties. Elsewhere it is not: a
bounded model stops when its clients, modem and counters are used up, and that is a legal end. The
liveness properties say what must happen before.

### Fairness

- `RilEvent`: the loop, callbacks and threads inside libril are strongly fair (a thread that waits for
  `listMutex` gets it although others take it in between); the clock ticks. Nothing obliges anyone to
  call libril, to send input, or `select()` to fail.
- `AtChannel`: each thread runs, a timed wait ends, and the modem answers what it is asked or hangs up
  (no `at_send_command_*` has a timeout of its own, so nothing less would do).
- `RilRequests`: the threads run; vendor code completes the tokens it is given ("Must be completed with
  a call to RIL_onRequestComplete()", `reference-ril.c:1515`). Clients and the debug port promise
  nothing.
- `WakeLock`: the threads run and timers expire (`TimersRun`).
- `RadioState`: the threads run; `initializeCallback` and `pollSIMState` are strongly fair, as the event
  loop runs timers in order of their times and one kind cannot starve the other. Client, modem and SIM
  promise nothing: `RadioComesUp` assumes in its own statement that the modem settles.
- `LocEng`: the threads run, timed waits end, seconds pass, and the framework answers each data
  connection it is asked for. The modem need not report anything, callers need not call, and no
  spurious wake-up is owed.
- `Gralloc`: none. Its properties are safety properties; nobody is obliged to free a buffer.

## 4. Theorems

| Module | Theorem | For every | Assuming |
|---|---|---|---|
| `RilEvent_proofs` | `TypeCorrect`, `TablesCorrect`, `ServiceImplemented` | set of events, timers, threads, descriptors; number of slots; `DelTimers` | the client contract in the actions |
|  | `WakeupNotLost` | same | `EnoughSlots`: a slot for every event (`ril.cpp` has four, the table eight) |
| `AtChannel_proofs` | `TypeCorrect` | kinds, attempts, bounds, command threads | |
|  | `ResponseCorrect`, `CommandsAnswered`, `NobodyForgotten` | same | one command thread (`SoleCommander`) |
| `RilRequests_proofs` | `TypeCorrect`, `CellsCorrect` | threads, addresses, connections, requests, messages; any completing threads | |
|  | `RepliesCorrect` | same | `LoopCompletes`: only the loop's thread completes, as in reference-ril |
| `RilStreams_proofs` | `FramesCorrect`, `AnswersCorrect` | same; any completing threads | |
|  | `RequestsImplemented` | same | `LoopCompletes` |
| `WakeLock_proofs` | `TypeCorrect`, `LockIsAccounted` | threads, addresses, calls | |
| `RadioState_proofs` | `TypeCorrect`, `ClosedIsUnavailable`, `ClosesAreNoticed` | openings, requests, SIM states | |
|  | `ReaderSendsNothing`, `SmsIsSetUp` | same | (their statements except an opening that overtook the reader) |
| `Gralloc_proofs` | `TypeCorrect`, `AlwaysTiled`, `AlwaysCoalesced`, `NeverSharedPage`, `AlwaysMapped`, `PoolImplemented` | buffers, sizes, sizes of the region and of limp mode, whichever is larger | (`BlocksMapped` is about a heap no larger than the region) |
| `LocEng_proofs` | `TypeCorrect`, `NotificationsTimed`, `OwnRequestsTimeOut`, `NoLockCycle`, `WakeLockHeld`, `ConnectionsTold`, `StopsAreNotStranded`, `NoFlagOverlooked` | threads of the framework, kinds of event, time to answer, events, calls | |

The arguments. Hardly any of the invariants is inductive by itself; each proof strengthens it, and TLC
was used to check the strengthening first.

- **Types.** `RilEvent`: `TypeInv` adds to `TypeOK` what a thread inside libril works on (`CallArgs`).
  `AtChannel`: `TypeInv` adds that the reader has a line in hand when it processes one (`LineInHand`)
  and that a thread that is not idle is in a call with an attempt left (`CallUnderWay`). `RadioState`: `OpensLeft`.
- **TablesCorrect.** `TablesInv` says slot by slot what `ril_event_add` and `removeWatch` do between
  the two halves of an addition: slots and index fields agree (`SlotsAgree`), descriptor bits are those
  of the watched events (`BitsAgree`), `nfds` covers every watched descriptor but the one being added
  (`NfdsCovers`), the thread in the middle holds the mutex (`MutexHeld`), no two threads add the same
  event (`AddsApart`) and descriptors are distinct (`FdsApart`), without which a bit cleared for one
  event would be lost to another.
- **WakeupNotLost.** `WakeInv`: the pipe's event stays in the table (`WakeWatched`, which needs
  `EnoughSlots` and the pigeonhole principle), and from the copy of `readFds` on, either the copy and the
  computed timeout are up to date or a byte is in the pipe or coming (`SleepFresh`).
- **ServiceImplemented.** Each step of `RilEvent` is a step of `EventService` or a stutter, under the
  mapping that takes lists to sets. `QueuesInv` makes that possible: each timer is in at most one list
  and once (`TimersOnce`), `timer_list` is sorted by time (`TimersInOrder`, so that its head is the
  earliest), one callback runs at a time and its event is not queued (`OneAtATime`), and a
  descriptor event that is queued is watched exactly if it is persistent (`QueuedEvents`). It rests on lemmas on sequences without repetitions:
  insertion in order, appending, taking the head, splitting.
- **ResponseCorrect.** `OwnInv` adds to `ResponseOwned` that a thread which `at_open` caught waiting waits on,
  and that nothing is pending once `at_open` is over (`CaughtWaiting`): it leaves its loop by a crash or not at all.
- **CommandsAnswered.** Nothing in a line names its command, so the invariant is about the order of what
  is under way. As long as the channel is `Promised` anything (no attempt has timed out on it, no stray line
  looks like a final response, nobody was undercut), the lines the reader has yet to process (`Coming`: the one in its hand,
  then the wire) are either nobody's or the pending command's, and after its final response none of the
  latter follow (`Orderly`); the modem has at most that command to answer (`OneAsked`); the command's
  intermediate lines are those in its response, newest first, followed by those that are coming, in order,
  and without a gap if none was eaten and no stray line can displace one (`Numbered`, `Whole`), and each looks
  as its kind of command expects (`Fitting`; what is said of the response is weaker where a stray prefix was
  seen, `Clear`). All of it is `InTurn`. So when a command completes nothing of it is left
  behind, and `InOrder` turns its lines round (`Reversed`). Beside it: how the threads stand to the state of
  the line (`LinesInv`, with `CutShort`: the rest of a cut line counts among the stray ones), that commands are
  numbered as they are written (`Issued`), that the modem adds nothing to a command answered before
  (`Settled`), and that nothing is asked of a channel that is being opened under a command (`NothingAsked`).
- **NobodyForgotten.** `WakeupInv` is about a thread that sleeps on the pending response. As long as nobody has
  been told of a close its reader is still reading, and a channel to be opened again is closed (`ReaderThere`); a
  thread asleep that `at_open` did not catch waits for a response that is not complete on a channel that is
  not closed (`Asleep`); and what will complete it is to come, or was eaten: the modem has the command to
  answer, or its final response is among the lines the reader has yet to process, or the modem has hung up
  (`Awaited`). It rests on `OwnInv` and `LinesInv`, and not on `InTurn`: a late answer, or a stray line, may
  complete the wrong command, but it leaves none asleep.
- **CellsCorrect.** `CellsInv` adds that a thread outside `sendResponseRaw` holds no `RequestInfo` (`EmptyHanded`).
- **RepliesCorrect.** `RepliesInv`: the loop listens only when it serves nobody and every pending
  request is cancelled, so a request that is not belongs to the connection that is open, if any
  (`OneAtATime`); a reply on its way is the loop's own and for that connection (`RepliesUnderWay`); what
  is kept for the next client is never a reply (`NitzOnly`).
- **FramesCorrect.** `FramedInv`: only the holder of `s_writeMutex` is between header and body
  (`WriterLocks`), and its message is the one whose header the stream ends in (`BacklogInLine`,
  `StreamEnds`), while streams of connections to come are empty (`Untouched`).
- **AnswersCorrect.** `IdsInv`: the identity of a request is in one place only, once: in the inbox, among
  the pending, carried by a thread, or in a stream (`InboxOnce`, `PendingOnce`, `CarriedOnce`, `OutOnce`,
  `OnePlace`), and those not yet given out are nowhere (`Fresh`). It uses `CellsInv`.
- **RequestsImplemented.** Each step of `RilRequests` is a step of `RequestService` or a stutter. It takes all the
  invariants above together: that nobody is served while the loop listens, and so nothing of an old client
  is due when the next is accepted (`RepliesInv`, with `SocketInv` for the descriptor); that an identity
  is pending, carried or written in one place only, so that answering a request ends its being due
  (`IdsInv`); that the body of a reply follows its own header (`FramedInv`); that a `RequestInfo` that is
  pending is not freed or given to another request (`CellsInv`).
- **LockIsAccounted.** `LockAccounted` is inductive together with `TypeOK`: a step that cancels a timer
  is taken by a thread that has yet to leave its own.
- **ClosedIsUnavailable.** `ClosedInv` adds that a reader of a channel not yet opened is idle
  (`UnopenedIdle`), so that `at_open` does not overlook one on its way to `setRadioState`.
- **ClosesAreNoticed.** Inductive together with the types: `waitForClose` sleeps only while `s_closed` is clear, so
  the reader is still to set it, and from there the reader goes through the critical section of
  `setRadioState`, which wakes the main thread whether or not the state changes.
- **ReaderSendsNothing.** `ReadersInv`: at most one reader has yet to report the end of its channel, and the
  channel is not opened again before it has (`LiveReaders`); and on a channel whose opening overtook no reader one is alive
  at a time, in `setRadioState` only while `s_closed`, past its critical section only while the
  state is `UNAVAILABLE`, and none while the main loop opens the channel (`Undisturbed`). When the next
  opening finds all readers back, the second half begins anew, whatever the earlier ones did.
- **SmsIsSetUp.** `SmsInv`: when the SIM is ready, the modem is not set up and no initialisation is due, the
  dispatch thread is on its way to `onSIMReady` or about to leave the state (`OnItsWay`). It needs that the
  follow-up of `SIM_READY` comes from another state (`ReadyFromOther`) and that a callback of an earlier
  channel implies an initialisation of this one to come (`SinceThisChannel`). All three are about a channel whose
  opening overtook no reader; `LateInv` says what is left of the others when such a channel begins.
- **Gralloc.** `IInv` joins `TypeOK` to what the heap knows of the region (`Region`), what a list of chunks looks
  like (`GoodList`: tiled and coalesced) and which chunk belongs to whom (`Owned`: the taken chunks are
  exactly the blocks held and the lost ones, each once). That alloc and dealloc keep a list good are
  lemmas of their own. `PoolImplemented` needs, for a refusal, that room anywhere in the heap is inside
  one free chunk (`RoomFits`): that is where coalescing matters to the caller.
- **LocEng.** One invariant, with a part for each module (`IoctlOK`, `NiOK`, `EngOK`). `NoLockCycle` rests on
  the NI thread keeping `loc_ni_lock` only while a notification is in progress (`NiOK`) and the deferred
  thread waiting for it only when none is (`LockSoon`); `OwnRequestsTimeOut` on the deferred thread having
  no request under way while it handles an event (`FreeToHandle`); `ConnectionsTold` on what the deferred
  thread carries from one step to the next (`Carried`): while it handles an event `agps_status` is empty.
  `StopsAreNotStranded` and `NoFlagOverlooked` rest on `IInv`: what a turn has copied it carries, whichever
  way it goes, until the modem and the framework have been told (`TurnGoesOn`, `TakeKeeps`), and only the
  step that makes the stop ends the connection's way without another to follow.

Only model-checked: liveness and everything under fairness (the prover does not reach it; `NeverForgotten`,
`CloseIsNoticed`, `NothingOverlooked` and `StopNotStranded` are the safety half of `CommandReturns`,
`ChannelReopens`, `ClosedIsReopened`, `FlagsTaken` and `StopHonoured`, and that half is proved), and the
violations. Every safety property of a passing run is stated by a theorem.

## 5. Findings

Each is a run whose single property states what the repository says, and that TLC finds violated; the
quotations are in `PROJECT.json`.

1. `at_drain` (`atchannel.c:1077`): the pause that should drain unmatched OKs of the handshake holds the
   mutex the reader needs to process them; a late OK completes a later command.
2. `radio_late` (`reference-ril.c:2450`): the main loop may clear `s_closed` and open the channel again before
   the reader that set it has returned from `setRadioState`; the reader then takes a state set by the dispatch
   thread for its own change and polls the SIM, which the comment at line 1887 says does not happen.
3. `ril_thread` (`ril.cpp:2709`): `RIL_onRequestComplete` on another thread than the event loop's may
   send the reply to the next client. The reference RIL never does this; vendor code may.
4. `ril_accept` (`ril.cpp:1229`): a failed write closes a descriptor that `select()` still watches; the
   loop ends and the next client is never accepted.
5. `gps_aiding` (`loc_eng.cpp:1479`): the deferred thread decides from a copy of the wrong variable
   whether the engine is on; aiding data marked for deletion is deleted in the middle of a session.

Known limits of the code that the models contain without a run of their own: `at_open` clears the pending
response under a waiting command thread, without the mutex that lines 83-86 say protects it
(`atchannel.c:686-692`; the run `at_channel` takes `FollowsNull`, the crash, and reaches the thread that
sleeps on), a line cut short by a hang-up completes, or takes in, an answer of the next channel
(`atchannel.c:382`; `eaten`, `strays`), an unsolicited line that looks like an answer is taken for one
(`atchannel.c:154`), a late `RADIO_STATE_UNAVAILABLE` of the reader stays on the new channel
(`reference-ril.c:2330`; `overtaken`), the heap is larger than its mapping when limp mode's size exceeds the region's
(`pmemalloc.cpp:104`), a NITZ time stored
too late or freed unsent (`ril.cpp:2850`), a wake lock released by the timer of an earlier report
(`ril.cpp:2762`), a null pointer in the wake-lock code (`ril.cpp:2872`), a request the library does not
support is never answered (`ril.cpp:344`), an accepted PIN never leads out of
`RADIO_STATE_SIM_LOCKED_OR_ABSENT` (`reference-ril.c:1461`), an event of the modem overwritten in its
slot before the deferred thread took it (`loc_eng.cpp:1318`), a user's answer that goes out for a newer
notification (`loc_eng_ni.cpp:601`).

## 6. Plan

Done, in the order of importance: `RilEvent` (everything else in the RIL runs on this loop), `AtChannel`
(everything the reference RIL knows comes through it), `RilRequests` (what the telephony framework
sees), `WakeLock` (what the battery sees), `RadioState`, the allocator of the graphics memory, the GPS
engine; the theorems of section 4.

Left:

1. More of the reference RIL: unsolicited lines and the single SMS index (`onUnsolicited`,
   `onNewSmsArrived`), the state after a PIN has been accepted, requests that are answered twice or
   never (`AT+COPS=0`, `requestSMSAcknowledge`), the order in which the client sees radio states.
2. Runs for the limits listed in section 5: the lost NITZ time, the early release of the wake lock, `at_open`
   under a waiting command.
3. Composition: `RadioState` over `AtChannel`, in place of "a command works or fails"; `RilRequests`
   over `EventService`.
4. Other candidates: the i.MX5 overlay thread, the worker queue of the mock RIL, the page flip of the
   MSM7k framebuffer, the supplicant control of `wifi.c`.

## 7. Not modelled

The models cover a small share of a large tree, for three reasons.

- Most of the tree is vendored or generated and is not this repository's own logic: the Broadcom and TI
  WLAN drivers and their tools, the TI DSP bridge and OpenMAX components, the Qualcomm OpenMAX
  components, the protocol-buffer classes of the mock RIL.
- Most of the rest is bound to a driver that is not here: cameras, audio, sensors, lights, copybit,
  overlays. Their behaviour is that of the driver; a model of the wrapper alone would say nothing.
- What remains is sequential and stateless, where a unit test does better: the AT tokenizer, the
  encoders of SMS, the module loader, the marshalling of requests, `rild`'s arguments.

Of the modelled components, what is left out is said under each in section 2.

## 8. Reading order

`EventService`, `RilEvent`, `AtChannel`, `RequestService`, `RilRequests`, `WakeLock`, `RadioState`; then `BlockPool`,
`GrallocHeap`, `Gralloc`; then `LocIoctl`, `LocNi`, `LocEng`. Each module's properties are at its end,
each with the code behaviour it is about. Then the `_proofs` modules. `PROJECT.json` holds the map from
definitions to source lines, the mutants and the hazards.
