# Rolling WAF: models, checks and proofs

TLA+ models of the WWAN Application Framework (WAF): what its client libraries and its adaptation
layer do when connections break, calls nest, threads race and modems restart. The modules are translated from `src/src/`; line numbers below
are of those files.

## 1. The system

WAF consists of two daemons, the libraries applications use to talk to them, and an adaptation layer.

| part | state it keeps | operations | talks to |
|---|---|---|---|
| device service (`wsf/wwan_dev_service`, prebuilt `libprivate_dev.so`) | modem presence, ports, subscriptions per client | answers requests, sends indications | AFAL device, its clients |
| device client (`wwan_dev_lib/ClientImpl.cpp`) | socket, receive buffer, callbacks by event type, retry timer | Init, Deinit, GetDeviceinfo, ResetDevice, SubscribeDeviceEvent, socket and timer slots | device service over a local socket; the application by callback |
| function service (`wsf/wwan_func_service`, prebuilt `libprivate_func.so`) | switch, running flash | flash, switch, availability | AFAL product, its clients |
| function client (`wwan_func_lib/wwan_func.cpp`) | socket, retry timer | SvcAvailable, Turnon/TurnoffSwitch, QuerySwitchStatus, Init, Deinit | function service |
| flash tool client (`wwan_func_lib_tool/wwan_func_tool.cpp`) | worker thread, socket, receive buffer, callback, flash-wait atomics | the function client's requests, TriggerFlash, SubscribeFlashProgressEvent, ResetFlashWait, AbortFlashWait, ForceCompleteFlashWait | function service; any application thread |
| AFAL device (`afal/adapter_os/device`) | udev monitor thread, device list | start, stop, checkDeviceEvents, GPIO and bus resets | udev, sysfs; the device service by callback |
| AFAL MBIM (`afal/adapter_os/mbim`) | device handle, two message queues, helper thread, semaphore, alarm, SIM flag | init, deinit, nine synchronous requests, notifications to watchers | libmbim, the kernel; any application thread |
| AFAL power, osinfo, log, display (`afal/adapter_os`) | D-Bus subscription, log file | thin wrappers | systemd, files |
| AFAL flash (`afal/adapter_product/flash`) | current flasher, child process | Create, SwitchFlashMode, EDL wait, flash, progress parsing | modem, `qdl`, `fastboot` |
| AFAL mdlog, dump, lpa, common | log session, child processes, eSIM session | start/stop logging, collect dumps, profile management | modem, files |

The services' logic is in prebuilt binaries without source, so the code that can be modelled is what
surrounds it. The most intricate part is the client side: one thread doing blocking requests and
asynchronous indications over one socket, callbacks that call back in, nested event loops, and (in the
tool client) other threads that interfere with a running wait. That is modelled first.

What is hard in it, and what correctness means there:

* *Device client.* A blocking request reads the socket itself with the socket's signals blocked, so it
  has to hand on everything it reads that is not its answer, and a disconnect meanwhile is not signalled.
  Correct: no indication is lost or duplicated, answers go to their requests, subscriptions survive a
  reconnect, the connection is always retried, every call returns.
* *Flash tool client.* A waiting flash can be ended by the answer, a progress indication, the timeout or
  any application thread. Correct: the wait always ends, with the first verdict, and nobody touches the
  loop of a wait that is over. Requests nest in each other's event loops under one mutex.
* *Function client.* Each read is parsed as one JSON document, and requests wait in event loops on the
  application's thread. Correct: answers reach their requests, every request ends within its timeout.
* *AFAL device.* A monitor thread is started and stopped from outside through a plain flag and a pipe, and
  nobody waits for it. Correct: one loop at most, which ends after stop; every event told; nothing freed in
  use; a reset that leaves the modem running.
* *AFAL MBIM.* A synchronous request crosses two queues, a thread, a chain of callbacks, a semaphore and a
  signal. Correct: one answer per request, every wait ended, OK only for what was done, every indication
  told once.
* *AFAL flash.* Mode switches with retries around a modem that restarts, and a request-and-answer protocol
  on a port. Correct: the verdict is the truth about the modem, and every call returns.

## 2. Modules

| module | contents |
|---|---|
| `JsonStream` | the scan that splits a byte stream into JSON objects, over fragments |
| `DevClient` | the device client |
| `IndicationChannel` | abstract specification: what the device client promises about indications |
| `DevRefinement` | `DevClient` implements `IndicationChannel` |
| `JsonStreamProofs` | lemmas about `JsonStream` |
| `DevClientProofs` | theorems about `DevClient` |
| `FuncTool`, `FuncToolProofs` | the flash tool client, and theorems about it |
| `FuncClient`, `FuncClientProofs` | the function client, and theorems about it |
| `MbimRequest` | the request side of the MBIM adapter |
| `Mbim` | `MbimRequest` composed with the adapter's notifications |
| `MbimProofs` | theorems about both |
| `DeviceMonitor`, `MonitorProofs` | the udev monitor and its thread, and its inductive invariant |
| `ModemReset` | GPIO and PCIe reset |
| `FastbootFlash`, `FlashProofs` | flashing an MTK modem on PCIe through fastboot, and its inductive invariant |
| `ModemAdapters` | the three above in one specification |
| `AdaptersProofs` | theorems about `ModemAdapters` |
| `MC*` + `*.cfg` | instances for TLC |

### JsonStream

A message is two fragments, so that a read boundary or the end of a connection can fall inside it.
`Objects` and `Leftover` are what `extractJsonObjects` (`json_stream.h` 12-77) returns and keeps. Three
cases of the scan are kept: bytes before the first `{` are skipped, an incomplete object at the end
stays, and an object whose end never comes swallows what follows, because the braces of the following
objects nest in it (`Blocked`). The tool client's `onReadyRead` (`wwan_func_tool.cpp` 660-708) contains
the same scan.

### DevClient

Everything in `DevClientImpl` runs on the thread that owns the socket, so the control state is that
thread's call stack `stk`, one record per handler in progress: `onReadyRead`, `drain`
(`drainSocketMessages`), `get`, `sub`, `refresh` (`refreshAfterReconnect`), `reset`, `init`, and `cb` for
an application callback. The event loop runs only when the stack is empty or the top frame is a
`ResetDevice` in its `QEventLoop`. A callback may call the library (constant `Reentrant`).

* A blocking request is `SyncWrite` (write and `waitForBytesWritten`, with its failures), then any
  number of `SyncRead`, ended by an answer, `SyncTimeout` or `SyncEof`. Then the loops that hand on what
  was read: `LeftoverNext`, `PendingNext`, `DrainSocketMessages`.
* `blockSignals(true)` is modelled by its effect: while a request runs, a loss of the connection changes
  `sock` but runs no handler (`h.silent` remembers it).
* Connection: `ConnectToServer` has three outcomes: accepted (`connected()` is emitted inside the call,
  so `refresh` starts on top of the caller), refused (`onError`), pending because the listen queue is
  full. `RetryConnection` is a tick of the 5 s timer; a tick while the socket is connecting does nothing.
* `ResetDevice` leaves its lambda connected with references to its stack frame: `slot` says whether the
  frame is still there.
* `QIODevice::isOpen()` after a loss is left open (`open' \in {open, FALSE}`): the code does not depend
  on which.
* `ResetDevice` holds `functionMutex` over its event loop. A callback or an event of the application that
  calls `ResetDevice` or `Deinit` in that loop locks it again on the same thread, which then stops for ever
  (`ResetLocks`, `Deadlocked`): the mutex problem of the two function clients, below.
* Left out: `registerForSignals` (never called), the payload of device information beyond "gone", a second
  Init without a Deinit (it leaves the first instance connected and never deletes it), Init or Deinit in
  a handler outside `ResetDevice`'s loop, and calls that could only end in undefined behaviour (a call
  before Init, a call with the socket deleted by Deinit).

The service and `QLocalSocket` are external. `SrvAnswer` answers in request order, `SrvIgnores` takes a
request and never answers it, `SrvEvent` sends an indication if its type is registered on this connection, `SrvCrash` cuts the stream anywhere.

*Refinement.* `IndicationChannel` has four variables: the connection, the last event, the indications
pending, the ones delivered. `DevRefinement` maps `pending` to the indications that are in the kernel, in
`QLocalSocket`, in `rxBuffer`, in a handler's list or among what a synchronous call has read. Every step of
the client is then a delivery, the start or end of a connection, or a stutter: handing bytes from the event
loop to a call and back is invisible. `IndicationSettles` adds that nothing stays pending on a live
connection.

### FuncTool

The worker thread's stack as above; application threads are `thr[t]`. `InvokeOnWorker` posts a request and
blocks; the worker takes it in whatever event loop it runs, so requests nest. `functionMutex` is held by a
request while it waits; a second request on the same stack stops at `lock` for ever.
`ForceCompleteFlashWait` is three separate steps on the calling thread (exchange, store, test and post of
the quit in two), `ResetFlashWait` two, interleaved with `TriggerFlash`'s steps reset, send, enter, wait,
leave, return. `abort_flash_wait_` is written and never read, so it is not a variable. The four simple
requests have the same shape and are one set of actions over `Kinds`. Assumed of the application: Deinit
is called when no other call is in progress, and the progress callback does not call the library.

### FuncClient

The application's own thread, on which requests wait in nested event loops, so the control state is one
call in progress (`call`) and whether a second one has blocked on its mutex (`stuck`). The four requests
are one pair of actions over `Kinds`. `Document` is `QJsonDocument::fromJson` applied to a whole read:
anything but exactly one message is no document and is dropped. Each request leaves its lambda connected
(`slot`: "dead" once its frame is gone). Left out: a call after a Deinit that deleted the socket
(a null dereference), and Init while the socket of an earlier Deinit is still connecting.

### MbimRequest and Mbim

One caller at a time (`mtx`), the helper thread (`mbim_thread_init`), libmbim's callbacks on the main loop,
and the handler of SIGALRM. A request is a record in `reqq`; the helper turns it into a chain of commands
(`ChainLength`), waits on `force_sync_sem` and puts one answer in `respq`; the handler of the alarm puts one
there too, and in the blocked caller it also ends `msgrcv`. An answer has the datatype of its request, and
in the model its number, which only the properties read. `Results` is what each request makes of the answer
it gets, the wrong datatype included (the bytes are read through another structure, so anything comes out).
A command on a null device is never answered, which is what makes `deinit` in the middle of a chain
dangerous. `Mbim` adds the modem's indications on the same main loop: each starts a chain of queries and
ends in a notify thread, except where the code drops it; `g_sim_inserted_flag` is shared with the SIM
request. An indication whose message cannot be parsed is dropped, and a SIM indication then leaves the flag
as it was (`hn.unseen`). One action per handler; the seven ways a command can end are `AllOutcomes`. Left out: the lists of
watchers (a watcher of every kind is registered), failing `malloc`, the fields of messages.

### DeviceMonitor and ModemReset

`start` and `stop` are split where another thread can see the difference: pipe, thread, flag; flag, pipe,
unref of the monitor, clearing of the member (`StopFree`, `StopClear`): a handler may fetch the member between
the last two. Pipes, monitors and threads carry the number of the `start` that made them, so that a descriptor
number used again is a choice (`Same`). `moveToThread` has an effect only from the thread the object lives
in, so a second `start` posts `checkDeviceEvents` to the first thread (`ThreadStarted`, `home`).
`checkDeviceEvents` takes its descriptors once (`PollEnter`) and compares them with the members afterwards
(`PollNext`). `Reports` is `handleDeviceEvent`'s decision, over what it can read of a device: a `wwan` port
that is added is reported whether or not `getDeviceinfoWithBus` finds the modem on the bus, whose result the
code ignores. The run has a `wwan` add, a `pci` add, which is not reported, and a `usb` remove.

`ModemReset` is a sequence of writes to sysfs, each of which may fail to open its file, be refused by the
kernel unnoticed, or work; `CheckResetPara` is a call whose parameters are refused.

### FastbootFlash

The calling thread goes through `SwitchFlashMode`'s attempts, `WaitForAction` included, or through the
writes and reads of a flash; the modem takes what is written, answers, restarts by itself or comes up in
dump mode, where the same port exists. Images are numbered by the call that writes them, and a piece that is
missing, or mixed with another, makes an image that is nobody's.

* The port (`modem.mode`) and its announcement by udev (`UdevAdds`, `modem.known`) are two steps: an
  enumeration or a monitor sees the second only. `WaitForAction` tests its deadline before it reads the event,
  so `WaitDeadline` is possible at any point of the wait. Its monitor is a member: it stays open after the
  call and is replaced by the next wait (`WaitArm`).
* Every system call on the way may fail: no modem found, no enumeration, no monitor, a state node that cannot
  be opened or read, in download mode too. `op.hole` collects, for the last attempt only, why it may fail with
  the modem ready; the properties alone read it.
* `FlashWrite` is each of the five `write()` calls. They have no deadline: one may block while the driver has
  no room (`op.blocked`), until `ModemRoom` or the end of the port. The image is written in blocks, so it may
  also fail or be accepted in part (`short`).
* Assumed: the modem sends one answer per command (`OKAY`, `DATA` or `FAIL`, no `INFO` lines).

`EdlFlash` and the mode switch over MBIM are left out: on this platform they do nothing but reboot the modem.

### ModemAdapters

The three parts share no memory and no lock and no property relates two of them; a behaviour of the
composition exercises one of them, chosen at the start, so that their interleavings are not enumerated.

## 3. Runs

| run | instance | shows |
|---|---|---|
| `dev_safety` | 1 event type, 2 events, 4 calls, 1 fault, depth 3, callbacks that do not call in | `TypeOK`, `RetryDiscipline`, `StreamAligned`, `ChannelSpec` (the refinement) |
| `dev_reentrant` | 2 events, 3 calls, 1 fault, callbacks that call in, depth 4, fairness | `IndicationsConserved`, `AnswerMatches`, `Resubscribed`, `CallsReturn`, `RetryReconnects`, `IndicationSettles` |
| `dev_retry_promise` | 2 calls, 1 fault, fairness | **violated**: `KeepsRetrying` |
| `tool_flash` | 2 callers, 1 controller with 2 calls, 3 calls | `FlashWakeup`, `FirstVerdictWins`, `LoopAlive` |
| `tool_link` | 1 caller, 3 calls, 2 kinds, 2 indications, 2 faults, fairness | `OwnAnswer`, `ToolRetryDiscipline`, `ToolResubscribed`, `ToolCallsReturn`, `ToolKeepsRetrying` |
| `tool_abort` | 1 caller, 1 controller, fairness | **violated**: `TimeoutEndsFlash` |
| `tool_overlap` | 2 callers, fairness | **violated**: `TimeoutEndsRequest` |
| `tool_torn` | 1 caller, 1 crash | **violated**: `ToolStreamAligned` |
| `func_link` | 2 kinds, 5 calls, 2 faults, nested calls, fairness | `FuncTypeOK`, `FuncRetryDiscipline`, `FuncOwnAnswer`, `FuncHeard`, `FuncCallsReturn`, `FuncKeepsRetrying` |
| `func_nested` | 3 calls, no faults, nested calls, fairness | **violated**: `FuncTimeoutEnds` |
| `mbim` | 8 of the 10 requests, 2 inits, 2 requests or indications in all, every kind of indication, fairness | `AnswersConserved`, `WaiterHasWaker`, `OkMeansDone`, `SimFlagAgrees`, `IndicationAccounted`, `MbimCallReturns` |
| `adapters` | 2 starts, 2 stops, 2 device events; 2 resets; 3 flash calls, 2 attempts, 1 restart; fairness | `AdaptersTypeOK`, `OnePoller`, `ToldPerStart`, `FreedUnused`, `StopEnds`, `EventTold`; `ResetReleases`; `SwitchVerdict`, `FlashVerdict`, `FlashReturns` |

Why the bounds are enough to be interesting. Two device events give an order to get wrong and one to
mistake for an answer; four calls allow Init, a subscription, and two requests, three a request nested in a
callback; one fault is a crash at any point, an early timeout or a full listen queue, and the restart is
free. A depth of four frames is a callback inside a drain inside a request inside a reset loop. In the tool
client three calls are Init and two overlapping requests or flashes, and two controller calls are a
completion racing a reset. In the function client five calls are Init, two requests of one kind and one of
another, and a Deinit or a nested call. In the MBIM adapter two events are two requests (the second can get
the first one's answer), two indications, or a request and an indication that both touch the SIM flag; the
two requests left out have the chains of two that are in. Two starts and two stops are a restart, a double
start and a double stop. Three flash calls are an erase and two flashes, or a switch, a flash and a reboot.

What the five violated properties show is in `PROJECT.json` under findings:

1. *The connection is not retried after a loss that a blocking request meets* (`ClientImpl.cpp` 124, 354):
   the signals that would start the retry timer are blocked. In the run the service stops and comes back right
   after Init, and a `GetDeviceinfo` is the first to notice. `RetryDiscipline` says this is the only hole.
2. *A flash aborted in its first instants waits for ever* (`wwan_func_tool.cpp` 204, 229-248), timeout
   included. `FlashWakeup` says this is the only way to lose the wake-up, apart from a second
   TriggerFlash nested in the first.
3. *Two overlapping requests stop the worker* (342): the second locks the first one's mutex on the same
   thread.
4. *After a connection lost inside a message the tool client is deaf* (658): `recv_buffer_` is never
   cleared.
5. *A request made from an event while another one waits stops the application* (`wwan_func.cpp` 49): the
   function client has the mutex problem of the tool client on the application's own thread.

Several passing properties have an exception in them. Each says what the code gets wrong and that it gets
it wrong in no other case:

* `AnswerMatches`, `OwnAnswer`, `FuncOwnAnswer`: answers carry no request number, so after a timeout the next
  request may take the late answer; a request leaves its lambda connected, so a late answer (in the tool
  client also the answer to the registration that every reconnect repeats) writes to a stack frame that is
  gone.
* `Resubscribed`: a registration refused or answered too late; the next one may take that answer for its own.
* `ToolResubscribed`: the service refused, or the registration waits for `functionMutex`.
* `LoopAlive`: an abort while TriggerFlash returns may post to the destroyed loop.
* `FuncHeard`: the function client drops what does not come as one document.
* `CallsReturn`, `RetryReconnects`: a `ResetDevice` or `Deinit` inside the loop of a `ResetDevice` stops the
  thread (`Deadlocked`).
* `IndicationSettles`: an indication stays in `QLocalSocket`'s buffer after a `GetDeviceinfo` that gave up (its
  write timed out, and it drains nothing), or after a `ResetDevice` made from an indication's callback, which
  can only time out; or the thread has stopped.
* `AnswersConserved`: every alarm leaves one answer too many in the queue, for ever; from then on each request
  gets the answer to an earlier one.
* `WaiterHasWaker`: a SIM state the callback does not list, or `deinit` in the middle of a chain, leaves the
  helper waiting for ever. Calls still return (`MbimCallReturns`), by their alarm.
* `SimFlagAgrees`: nothing was heard of a SIM that was there from the start, or the last thing heard could not
  be read.
* `OkMeansDone`: it speaks of a call's own answer (after an alarm a call may get another one's). Queries and setting the radio return OK when the command failed; a second `init` after one
  that failed returns OK without a device.
* `IndicationAccounted`: slot watchers are told before the slots are known, and again if a query fails; network
  watchers are not told that the registration was lost.
* `EventTold`: the new thread may test `monitoring` before `start` has set it, and then nobody polls. After a
  `stop` a new `start` may be deaf.
* `StopEnds`: a `start` while monitoring replaces the pipe through which the loop would be woken.
* `FreedUnused`: `stop` may free the monitor under a running handler, and a handler may fetch it between the
  unref and the clearing of the member.
* `ToldPerStart`: each `start` connects the handler once more.
* `ResetReleases`: the GPIO stays low after a failed write, and a refused write is not noticed.
* `SwitchVerdict`: the port's add event is lost between `FindDevice` and the monitor, the deadline comes before
  the event is read or announced, or a system call fails.
* `FlashReturns`: a write that blocks for ever, because the modem keeps its port and takes nothing more.
* `FlashVerdict`: `FAIL` is not looked at, and a port opened before the modem has answered an erase gives the
  flash that answer.

Fairness. The client's thread keeps running (`Unwind`), its event loop delivers pending events
(`OnReadyRead`, `OnDisconnected`, `ConnectDone`, `Take`), timers fire, and a service that stopped comes
back: its systemd unit says `Restart=on-abort` (`script/linux/make_install/install` 167), and the fault of
the models is a crash. No service need answer: in `dev_reentrant` a connected one takes each request and
answers it or not (`SrvAnswer \/ SrvIgnores`), so that the time limits of the calls have to end them. In `mbim` the kernel delivers the alarm, the helper's thread and the main loop
run, and libmbim ends every command, by its own timeout at the latest. In `adapters` every thread keeps
running, and `poll` and `select` return at their deadlines. A `write()` has none and is given none: nothing is
assumed of one that blocks while its port is there, and the modem need do nothing.
Application calls, crashes and controller calls are never forced. `CHECK_DEADLOCK FALSE`: with its calls
used up the application may stop.

## 4. Proofs

Every theorem holds for every value of the constants that the module's assumption allows: any number of
calls, faults, events and messages, any depth of nesting, any number of application threads. The assumptions
(`ConstantsAssumption`, `ToolAssumption`, `FuncAssumption`, `MbimAssumption`, `MbimIndAssumption`,
`MonitorAssumption`, `EventsAssumption`, `ResetAssumption`, `FlashAssumption`) say that bounds are natural
numbers and that the sets of kinds, threads and events are what the code has; nothing else is assumed, except
one calling thread where a theorem says so (`OwnAnswerCorrect`). All 28 invariants the passing runs check are
proved, and the refinement. Lemmas are in the order in which they are used; a proof about a step has one case
per action.

`JsonStreamProofs` holds what the others need of the scan: `ExtractProperties` (types), `ScanAligned` (on a
sequence of whole messages the scan takes exactly the messages that are complete and leaves at most one
fragment), `ScanPositions` (the fragments it takes are pairs, in order, all before what it leaves).

`DevClientProofs`
* `TypeCorrect`: `ExtractType` and `StackType` carry what the scan and the stack operators return.
* `RetryTimerCorrect`: `RetryDiscipline` is inductive next to `TypeOK`. Most steps change neither the
  connection nor the timer (`RetryKept`); a connect ends with the timer right whatever the outcome
  (`ConnectRetry`); a blocking request can lose the connection only silently (`SyncWriteRetry`).
* `StreamAlignedCorrect`. Not inductive: after a loss the stream is no longer aligned, and the next connection
  is only as good as what was dropped. `StreamInv` adds what there may be without a connection (a message cut
  at its end, and only there) and that `rx` holds at most one fragment. The proof sorts all actions by what
  they do to the stream (`MoveStep`: keep it, empty it, scan it, grow it by a message, cut it, drop a part) and
  then treats those seven cases instead of thirty actions.
* `IndicationsConservedCorrect`. The invariant `IndInv` keeps the books (`Conserved`, in `Balanced`) together
  with what makes a move from one place to another count once: the indications in a list rise and no two frames
  hold the same one (`Good`), they rise in the stream too, where only the two adjacent fragments of one message
  agree (`StreamSeq`), and nothing is sent with a number the service has not reached. A read moves indications
  from the stream to a frame's list (`PushRead`, `SyncReadHeld`, `DrainHeld`), a call hands its lists on to the
  frame below or to the callbacks, `Tells` is the one step that delivers.
* `ChannelCorrect`, the refinement. Order is what conservation does not need and the channel does: `Balanced`
  says that whatever is held was sent before whatever is unread, and `Lone` (in `Good`) that without calls from
  callbacks only a callback runs above a frame that holds indications, so that a handler hands on the oldest
  one there is. The indications pending in the channel are `OnTheWay`; a step that delivers none adds to them
  what it sends and takes away what it loses (`Moves`), whatever it reads. By that and by `MoveStep` every step
  is `Event`, `Deliver`, `Connect`, `Disconnect` or leaves the channel (`ChannelStep`).
* `ResubscribedCorrect` and the first half of `AnswerMatchesCorrect`, from `AskInv`. Answers are matched with
  requests by their kind alone, so what has to be shown is that there is at most one of a kind: `Unique` says it
  of the queue of requests and the stream together, `Fewer` that a step adds none. `WaitInv` says that only the
  top frame is in a blocking wait, since the signals are blocked there; `GetInv` that the one `get` request or
  answer on the connection, before any gave up, is the waiting frame's; `SubInv` that a type with a callback is
  registered, or a subscription for it is waiting, or a refresh on the stack has it still to do (`Covered`).
  What a step does to the stack is summed up in `Steady`.
* the second half of `AnswerMatchesCorrect`, from `ResetInv`. A ResetDevice does not block: other frames come
  above it, and they may read its answer and hold it in a list. As long as none timed out there is one token
  per waiting ResetDevice (`ResetWire`): its request, its answer in the stream, or the message a frame has still
  to hand on (`Carry`). `functionMutex` allows one ResetDevice on the stack (a second one stops as `lock`), so the answer finds the lambda of
  the one that waits. A step that moves no token is `Bears`; `TakeReset` moves it from the stream into a frame,
  `HandOnReset` from a frame to the lambda.

`FuncToolProofs`
* `ToolRetryCorrect`: as in the device client, without its hole.
* `FlashWakeupCorrect`. Not inductive: the quit must be on its way to this loop and not to an earlier one
  (`WakeInv`), and `LoopInv` says that the loop known to other threads belongs to a TriggerFlash still on the
  stack. `StackInv` carries the shape of the stack: only the top frame is not waiting, numbers are unique, a
  thread has one call.
* `FirstVerdictCorrect`, `LoopAliveCorrect`: `VerdictInv` says, as long as no thread straddled a reset, who
  may still write the verdict, and that whoever has read a loop still finds it.
* `ToolResubscribedCorrect`: with `OpenInv` (a connected socket is open, so no registration is skipped).
* `RequestAnswersCorrect`, for any number of calling threads: the part of `OwnAnswer` about requests. Answers
  carry no number, so the proof has to follow each one from the request to the lambda. `StreamInv` says what
  the client can still read: whole messages, each answer once (`Once`), or, after a connection was lost in the
  middle of a message, a buffer in which the scan finds nothing any more (`Stuck`); it also says that nothing in
  the stream will be sent again (`SpentInv`). `CutInv` carries this over to what a read has cut out and
  `onReadyRead` has still to handle. `OneRequest` and `SlotInv` are what `functionMutex` gives: one request
  waits at a time, and its lambda is connected. On these rests `AnswerInv`: until a request times out, the
  request of every answer that is to come, in the stream or at hand is still waiting for it. Two lemmas reduce
  all actions to what matters here: `LinkSteps` (nine things that can happen to the connection) and
  `AnswerSteps` (ten that can happen to the waiting calls and to the list they are answered from).
* `OwnAnswerCorrect`, with one calling thread (`OneCaller`). `FlashInv`: unless a TriggerFlash has returned
  before its answer, whatever the service still owes to a flash (`Owed`: a request, a running flash, an answer
  that will be read) is owed to the one on the stack, and all reports that will be read are about that one.
  When the next TriggerFlash writes its request nothing is owed, but that alone does not rule out an old
  progress report in the stream; `ProgressInv` does: progress is followed by its answer as long as the
  connection stands. A write on a broken connection leaves nothing to read (`LiveDrops`). With two callers the
  statement is false: a flash can hear another's progress without either having returned early.

`FuncClientProofs`
* `FuncTypeCorrect`, `FuncRetryCorrect`.
* `FuncOwnAnswerCorrect`, `FuncHeardCorrect`, both from `Untimely`: until a request has timed out there is at
  most one outstanding, and everything between the client and the service belongs to it.

`MbimProofs`, two parts: `RequestInv` for the request side, and the notifications on top of it.
* `AnswersConservedCorrect`: `AnswersInv` counts queued requests, the helper's request, answers, alarms and
  waiting callers against each other; before the first alarm all of it belongs to the call that waits.
* `WaiterHasWakerCorrect`: `OpenInv` and `WakeInv` say which threads and commands there are in each phase of
  `init` and `deinit`, and that a command runs only for a helper that waits for it.
* `OkMeansDoneCorrect`: `DoneInv` follows an answer by its number through the two queues and the helper.
* `SimFlagAgreesCorrect`: the last SIM indication on its way tells the truth (`LastTells`), if it can be read.
* `IndicationAccountedCorrect`: by each indication's number, where it is (queue, chain, thread, told, dropped)
  and how often (`Settled`).

`AdaptersProofs`, on top of `MonitorProofs` and `FlashProofs`; the invariant is `MonitorInv`, `ResetInv` and
`FlashInv`, and a step of one part leaves the others alone.
* `AdaptersTypeCorrect`.
* `OnePollerCorrect`: `PostedInv` counts the posted `checkDeviceEvents` against the threads that have begun.
* `ToldPerStartCorrect`: `ToldInv` relates what was told and what is queued to what the kernel sent.
* `FreedUnusedCorrect`: `FreedInv` follows the monitor's pointer from the poll to the handler, and says that the
  member holds a freed monitor only between the two steps of `stop`.
* `ResetReleasesCorrect`: the line is low only for a reason that a step before it can tell.
* `SwitchVerdictCorrect`, `FlashVerdictCorrect`: `SwitchProgress` and `FlashProgress` say at each program counter
  what the modem, the wire and the port hold, as long as nothing went wrong unnoticed; for the switch, that a
  port announced before the monitor was there has left a hole, and one announced since has its event in it.

What the proofs changed in the models. `Resubscribed` demanded more than the code does: with two event types
and a refused or late registration, the next one may take that answer for its own, so that a type that was not
refused is not registered; one event type cannot show it. `ToolResubscribed` had left out the registration that
waits for the mutex, which takes a second calling thread.

Only model-checked:
* the eleven liveness properties (`CallsReturn`, `RetryReconnects`, `IndicationSettles`, `ToolCallsReturn`,
  `ToolKeepsRetrying`, `FuncCallsReturn`, `FuncKeepsRetrying`, `MbimCallReturns`, `StopEnds`, `EventTold`,
  `FlashReturns`): they need fairness, which is out of the prover's reach.

## 5. Not modelled, and the plan

Not modelled, with the reasons in `PROJECT.json`:

* the two services: no source;
* vendored and third-party code (LPA SDK, log capture, adb, cJSON, snappy, dlmalloc, headers of Qt, OpenSSL
  and curl): some 200,000 of the repository's 226,000 lines of C and C++, so the models cover a small share
  of all lines and the concurrent core of what is the project's own;
* the Qualcomm and MTK USB flash paths, modem logging and dump collection: they run external programs and
  closed libraries, and keep a process id and file names about them;
* device enumeration, the eSIM agent, power, OS information, logging, display, packaging, demos: single
  calls into a library or reads of files.

Next: a weaker form of `OwnAnswer` for flashes of several calling threads, in terms of which of them overlap.
