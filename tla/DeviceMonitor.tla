--------------------------- MODULE DeviceMonitor ---------------------------
(***************************************************************************)
(* The device monitor (Device, DeviceImpl).  start() makes a pipe, a udev  *)
(* monitor and a QThread whose started() signal runs checkDeviceEvents;    *)
(* that loop polls monitor and pipe and reports device events, which reach *)
(* the application through a queued connection.  stop() clears a plain     *)
(* flag, wakes the loop through the pipe and frees the monitor, without    *)
(* waiting for the thread.                                                 *)
(*                                                                         *)
(* Pipes, monitors and threads are numbered by the start() that made them. *)
(* The kernel, udev and Qt's event loops are external.                     *)
(***************************************************************************)
EXTENDS Naturals, Sequences, FiniteSets

CONSTANTS MaxStarts, MaxStops,   \* bounds: calls of start() and stop()
          MaxEvents,             \* bound: device events
          Events                 \* the device events that occur

ASSUME MonitorAssumption ==
    {MaxStarts, MaxStops, MaxEvents} \subseteq Nat

Gen == 1..MaxStarts

VARIABLES
    app,          \* where the application's thread is in start() or stop()
    monitoring,
    pipFd,        \* the pipe of the member pipFd; 0: none yet
    monitorFd,    \* the monitor whose descriptor is in the member monitorFd
    monitor,      \* the member monitor; 0: nullptr
    monitoringThread,
    home,         \* the thread the object DeviceImpl lives in; 0: the application's
    conns,        \* connections from DeviceChanged to OnDeviceChangeHandle
    exits,        \* pipes that hold "exit" and whose write end is closed
    shut,         \* pipes whose read end is closed
    freed,        \* monitors that are freed
    thread,       \* each thread: "none", "run", "poll", "exec" or "done"
    quit,         \* threads that quit() was called on
    posted,       \* calls of checkDeviceEvents queued for the thread `home'
    poll,         \* each thread's call of checkDeviceEvents
    queue,        \* events the open monitor has received
    appq          \* DeviceChanged queued for the application's thread

VARIABLES starts, stops,
          h       \* history, for the properties only:
                  \* sent: the device events; told: those told, in order
                  \* raced: the loop's first test ran before start() set the flag
                  \* twice: start() was called while monitoring or while an
                  \* earlier loop had not ended
                  \* cut: stop() freed the monitor a handler was using, or a
                  \* handler fetched it before stop() had cleared the member
                  \* uaf: a handler used a freed monitor

members == <<monitoring, pipFd, monitorFd, monitor, monitoringThread, home, conns>>
kernel == <<exits, shut, freed, queue>>
qthreads == <<thread, quit, posted, poll>>
monitorVars == <<app, members, kernel, qthreads, appq, starts, stops, h>>

NoPoll == [pc |-> "none", mon |-> 0, pipe |-> 0, list |-> <<>>, ptr |-> 0]

MonitorInit ==
    /\ app = "idle" /\ monitoring = FALSE
    /\ pipFd = 0 /\ monitorFd = 0 /\ monitor = 0 /\ monitoringThread = 0
    /\ home = 0 /\ conns = 0
    /\ exits = {} /\ shut = {} /\ freed = {} /\ queue = <<>>
    /\ thread = [g \in Gen |-> "none"] /\ quit = {} /\ posted = 0
    /\ poll = [g \in Gen |-> NoPoll]
    /\ appq = <<>> /\ starts = 0 /\ stops = 0
    /\ h = [sent |-> <<>>, told |-> <<>>, raced |-> FALSE, twice |-> FALSE, cut |-> FALSE,
            uaf |-> FALSE]

-----------------------------------------------------------------------------
Looping == \E g \in Gen : poll[g].pc # "none"

(* Device::start connects once more, whatever comes of it; then            *)
(* DeviceImpl::start replaces the pipe, and only when it is not monitoring *)
(* the monitor and the thread.                                             *)
Start ==
    /\ app = "idle" /\ starts < MaxStarts
    /\ starts' = starts + 1 /\ conns' = conns + 1
    /\ \/ UNCHANGED <<app, pipFd, h>>                             \* no pipe
       \/ /\ pipFd' = starts'
          /\ app' \in (IF monitoring THEN {"idle"} ELSE {"idle", "start"})
          /\ h' = [h EXCEPT !.twice = @ \/ monitoring \/ Looping]  \* "idle": no udev
    /\ UNCHANGED <<monitoring, monitorFd, monitor, monitoringThread, home, kernel, qthreads, appq,
                   stops>>

(* moveToThread only works from the thread the object lives in: after the  *)
(* first start() it has no effect.                                         *)
MoveToThreadAlways(g) == g                             \* mutant: as if it always moved

MoveToThread(g) == IF home = 0 THEN g ELSE home

StartThread ==
    /\ app = "start" /\ app' = "flag"
    /\ monitor' = starts /\ monitorFd' = starts /\ queue' = <<>>
    /\ monitoringThread' = starts
    /\ home' = MoveToThread(starts)
    /\ thread' = [thread EXCEPT ![starts] = "run"]
    /\ UNCHANGED <<monitoring, pipFd, conns, exits, shut, freed, quit, posted, poll, appq,
                   starts, stops, h>>

StartDone ==                                           \* after the thread was started
    /\ app = "flag" /\ app' = "idle"
    /\ monitoring' = TRUE
    /\ UNCHANGED <<pipFd, monitorFd, monitor, monitoringThread, home, conns, kernel, qthreads,
                   appq, starts, stops, h>>

Stop ==
    /\ app = "idle" /\ stops < MaxStops /\ stops' = stops + 1
    /\ IF monitoring THEN monitoring' = FALSE /\ app' = "pipe"
       ELSE UNCHANGED <<monitoring, app>>
    /\ UNCHANGED <<pipFd, monitorFd, monitor, monitoringThread, home, conns, kernel, qthreads,
                   appq, starts, h>>

StopPipeSilent ==                                      \* mutant: the loop is not woken
    /\ app = "pipe" /\ app' = "free"
    /\ UNCHANGED <<members, kernel, qthreads, appq, starts, stops, h>>

StopPipe ==
    /\ app = "pipe" /\ app' = "free"
    /\ exits' = exits \cup {pipFd}
    /\ UNCHANGED <<members, shut, freed, queue, qthreads, appq, starts, stops, h>>

(* udev_monitor_unref, and a step later the member is cleared: a handler   *)
(* may fetch the freed monitor between the two.                            *)
StopFree ==
    /\ app = "free" /\ app' = "clear"
    /\ freed' = freed \cup {monitor} /\ queue' = <<>>
    /\ h' = [h EXCEPT !.cut = @ \/ \E g \in Gen : poll[g].pc = "use" /\ poll[g].ptr = monitor]
    /\ UNCHANGED <<members, exits, shut, qthreads, appq, starts, stops>>

StopClearNot ==                                        \* mutant: the member is not cleared
    /\ app = "clear" /\ app' = "idle"
    /\ UNCHANGED <<members, kernel, qthreads, appq, starts, stops, h>>

StopClear ==
    /\ app = "clear" /\ app' = "idle"
    /\ monitor' = 0
    /\ UNCHANGED <<monitoring, pipFd, monitorFd, monitoringThread, home, conns, kernel, qthreads,
                   appq, starts, stops, h>>

-----------------------------------------------------------------------------
(* A QThread emits started().  The slot runs at once when the object lives *)
(* in this thread; otherwise it is queued for the thread it lives in.      *)
ThreadStarted(g) ==
    /\ thread[g] = "run"
    /\ IF home = g
       THEN /\ thread' = [thread EXCEPT ![g] = "poll"]
            /\ poll' = [poll EXCEPT ![g].pc = "enter"]
            /\ UNCHANGED posted
       ELSE /\ thread' = [thread EXCEPT ![g] = "exec"]
            /\ posted' = posted + 1
            /\ UNCHANGED poll
    /\ UNCHANGED <<app, members, kernel, quit, appq, starts, stops, h>>

(* QThread::exec: ends after quit(), or runs what is queued.               *)
ThreadQuits(g) ==
    /\ thread[g] = "exec" /\ g \in quit
    /\ thread' = [thread EXCEPT ![g] = "done"]
    /\ UNCHANGED <<app, members, kernel, quit, posted, poll, appq, starts, stops, h>>

ThreadRunsQueued(g) ==
    /\ thread[g] = "exec" /\ home = g /\ posted > 0
    /\ posted' = posted - 1
    /\ thread' = [thread EXCEPT ![g] = "poll"]
    /\ poll' = [poll EXCEPT ![g].pc = "enter"]
    /\ UNCHANGED <<app, members, kernel, quit, appq, starts, stops, h>>

-----------------------------------------------------------------------------
(* checkDeviceEvents.  A monitor that is already freed cannot be polled.   *)
PollEnter(g) ==
    /\ poll[g].pc = "enter"
    /\ IF monitorFd \in freed
       THEN /\ poll' = [poll EXCEPT ![g] = NoPoll]
            /\ thread' = [thread EXCEPT ![g] = "exec"]
       ELSE /\ poll' = [poll EXCEPT ![g] = [NoPoll EXCEPT !.pc = "test", !.mon = monitorFd,
                                                          !.pipe = pipFd]]
            /\ UNCHANGED thread
    /\ UNCHANGED <<app, members, kernel, quit, posted, appq, starts, stops, h>>

(* while (monitoring).  At its end the loop quits the member's thread.     *)
PollTest(g) ==
    /\ poll[g].pc = "test"
    /\ IF monitoring
       THEN /\ poll' = [poll EXCEPT ![g].pc = "wait"]
            /\ UNCHANGED <<thread, quit, h>>
       ELSE /\ poll' = [poll EXCEPT ![g] = NoPoll]
            /\ thread' = [thread EXCEPT ![g] = "exec"]
            /\ quit' = quit \cup {monitoringThread}
            /\ h' = [h EXCEPT !.raced = @ \/ app = "flag"]
    /\ UNCHANGED <<app, members, kernel, posted, appq, starts, stops>>

(* epoll_wait on the descriptors the loop began with.                      *)
Ready(p) == (IF p.mon \notin freed /\ queue # <<>> THEN {"mon"} ELSE {})
            \cup (IF p.pipe \in exits \ shut THEN {"pipe"} ELSE {})
Orders(s) == {q \in [1..Cardinality(s) -> s] : \A x \in s : \E i \in DOMAIN q : q[i] = x}

PollWait(g) ==
    /\ poll[g].pc = "wait" /\ Ready(poll[g]) # {}
    /\ \E q \in Orders(Ready(poll[g])) :
          poll' = [poll EXCEPT ![g].pc = "list", ![g].list = q]
    /\ UNCHANGED <<app, members, kernel, thread, quit, posted, appq, starts, stops, h>>

(* Each descriptor is compared with what the members hold now.  The number *)
(* of a monitor that was closed may be that of its successor.              *)
Same(fd) == {fd = monitorFd, fd = monitorFd \/ fd \in freed}

PollNextSkips(g) ==                                    \* mutant: the event is not handled
    /\ poll[g].pc = "list"
    /\ LET p == poll[g] IN
       \/ /\ p.list = <<>>
          /\ poll' = [poll EXCEPT ![g].pc = "test"]
          /\ UNCHANGED shut
       \/ /\ p.list # <<>> /\ Head(p.list) = "mon"
          /\ poll' = [poll EXCEPT ![g].list = <<>>]
          /\ UNCHANGED shut
       \/ /\ p.list # <<>> /\ Head(p.list) = "pipe"
          /\ shut' = IF p.pipe = pipFd THEN shut \cup {pipFd} ELSE shut
          /\ poll' = [poll EXCEPT ![g].list = <<>>]
    /\ UNCHANGED <<app, members, exits, freed, queue, thread, quit, posted, appq, starts, stops, h>>

PollNext(g) ==
    /\ poll[g].pc = "list"
    /\ LET p == poll[g]
           rest == [p EXCEPT !.list = Tail(@)]
       IN  \/ /\ p.list = <<>>
              /\ poll' = [poll EXCEPT ![g].pc = "test"]
              /\ UNCHANGED <<shut, h>>
           \/ /\ p.list # <<>> /\ Head(p.list) = "mon"
              /\ \/ /\ TRUE \in Same(p.mon)
                    /\ poll' = [poll EXCEPT ![g] = [rest EXCEPT !.pc = "use", !.ptr = monitor]]
                    /\ h' = [h EXCEPT !.cut = @ \/ app = "clear"]
                 \/ /\ FALSE \in Same(p.mon)
                    /\ poll' = [poll EXCEPT ![g] = rest]
                    /\ UNCHANGED h
              /\ UNCHANGED shut
           \/ /\ p.list # <<>> /\ Head(p.list) = "pipe"
              /\ shut' = IF p.pipe = pipFd THEN shut \cup {pipFd} ELSE shut
              /\ poll' = [poll EXCEPT ![g] = rest]
              /\ UNCHANGED h
    /\ UNCHANGED <<app, members, exits, freed, queue, thread, quit, posted, appq, starts, stops>>

-----------------------------------------------------------------------------
(* Device events as udev shows them: `ids' are readable, except for what   *)
(* is being removed; `listed' stands for the whitelist of a USB device or  *)
(* PCI function, and for a wwan port with one of the names that count;     *)
(* `found': getDeviceinfoWithBus finds a modem on PCI, whose bus and name  *)
(* then replace those of the wwan port.                                    *)
Event == [bus : {"usb", "pci", "wwan"}, act : {"add", "remove", "change", "bind"},
          ids : BOOLEAN, listed : BOOLEAN, found : BOOLEAN]
ASSUME EventsAssumption == Events \subseteq Event

(* What handleDeviceEvent reports.  A PCI function whose id has the        *)
(* expected length is turned away before the whitelist is asked; a removal *)
(* of anything but a wwan port is reported whatever it was.  A wwan port   *)
(* that appears is reported whether or not its modem is found; a change    *)
(* only of what is then on bus PCI.                                        *)
Reports(e) ==
    /\ \/ e.ids /\ e.bus = "usb" /\ e.listed
       \/ ~e.ids /\ e.act # "remove" /\ e.bus = "wwan" /\ e.listed
       \/ ~e.ids /\ e.act = "remove" /\ (e.bus = "wwan" => e.listed)
    /\ \/ e.act \in {"add", "remove"}
       \/ e.act = "change" /\ e.bus = "wwan" /\ e.found

HandleDeviceEventAgain(g) ==                           \* mutant: the event stays queued
    /\ poll[g].pc = "use"
    /\ poll' = [poll EXCEPT ![g].pc = "list", ![g].ptr = 0]
    /\ appq' = IF /\ poll[g].ptr \notin freed \cup {0} /\ queue # <<>>
                  /\ Len(appq) < 3 /\ Reports(h.sent[Head(queue)])
               THEN appq \o [i \in 1..conns |-> Head(queue)] ELSE appq
    /\ UNCHANGED <<app, members, kernel, thread, quit, posted, starts, stops, h>>

HandleDeviceEvent(g) ==
    /\ poll[g].pc = "use"
    /\ poll' = [poll EXCEPT ![g].pc = "list", ![g].ptr = 0]
    /\ LET p == poll[g].ptr IN
       IF p \notin freed \cup {0} /\ queue # <<>>
       THEN /\ queue' = Tail(queue)
            /\ appq' = IF Reports(h.sent[Head(queue)])
                       THEN appq \o [i \in 1..conns |-> Head(queue)] ELSE appq
            /\ UNCHANGED h
       ELSE /\ h' = [h EXCEPT !.uaf = @ \/ p \in freed]
            /\ UNCHANGED <<queue, appq>>
    /\ UNCHANGED <<app, members, exits, shut, freed, thread, quit, posted, starts, stops>>

(* The kernel; and the application's event loop.                           *)
KernelEvent(e) ==
    /\ Len(h.sent) < MaxEvents /\ monitor \notin freed \cup {0}
    /\ h' = [h EXCEPT !.sent = Append(@, e)]
    /\ queue' = Append(queue, Len(h'.sent))
    /\ UNCHANGED <<app, members, exits, shut, freed, qthreads, appq, starts, stops>>

OnDeviceChangeHandle ==
    /\ app = "idle" /\ appq # <<>>
    /\ appq' = Tail(appq)
    /\ h' = [h EXCEPT !.told = Append(@, Head(appq))]
    /\ UNCHANGED <<app, members, kernel, qthreads, starts, stops>>

Poller(g) == PollEnter(g) \/ PollTest(g) \/ PollWait(g) \/ PollNext(g) \/ HandleDeviceEvent(g)
Qt(g) == ThreadStarted(g) \/ ThreadQuits(g) \/ ThreadRunsQueued(g)

-----------------------------------------------------------------------------
MonitorNext ==
    \/ Start \/ StartThread \/ StartDone \/ Stop \/ StopPipe \/ StopFree \/ StopClear
    \/ \E g \in Gen : Qt(g) \/ Poller(g)
    \/ \E e \in Events : KernelEvent(e)
    \/ OnDeviceChangeHandle

(* Every thread keeps running; the application calls when it likes.        *)
MonitorFairness ==
    /\ WF_monitorVars(StartThread \/ StartDone \/ StopPipe \/ StopFree \/ StopClear)
    /\ WF_monitorVars(OnDeviceChangeHandle)
    /\ \A g \in Gen : WF_monitorVars(Qt(g)) /\ WF_monitorVars(Poller(g))

-----------------------------------------------------------------------------
(* Every member holds a value of its kind: in particular stop() never      *)
(* frees a monitor that is not there.                                      *)
MonitorTypeOK ==
    /\ app \in {"idle", "start", "flag", "pipe", "free", "clear"} /\ monitoring \in BOOLEAN
    /\ {pipFd, monitorFd, monitor, monitoringThread, home} \subseteq {0} \cup Gen
    /\ exits \subseteq Gen /\ shut \subseteq Gen /\ freed \subseteq Gen
    /\ conns \in 0..MaxStarts /\ starts \in 0..MaxStarts /\ stops \in 0..MaxStops
    /\ thread \in [Gen -> {"none", "run", "poll", "exec", "done"}]
    /\ quit \subseteq Gen /\ posted \in 0..MaxStarts
    /\ \A g \in Gen : /\ poll[g].pc \in {"none", "enter", "test", "wait", "list", "use"}
                      /\ (poll[g].pc = "none") = (thread[g] # "poll")
                      /\ {poll[g].mon, poll[g].pipe, poll[g].ptr} \subseteq {0} \cup Gen
    /\ \A i \in DOMAIN h.sent : h.sent[i] \in Event

(* However start() and stop() follow each other, also while an earlier     *)
(* thread is still in its loop, two threads never poll at the same time    *)
(* (checkDeviceEvents only takes deviceMutex around one event, and the     *)
(* members it works with are not protected at all).                        *)
OnePoller == Cardinality({g \in Gen : poll[g].pc # "none"}) <= 1

(* The application is told of device events in the order udev saw them,    *)
(* and of each at most once for every start(): Device::start connects its  *)
(* handler each time and stop() does not disconnect it.                    *)
ToldPerStart ==
    LET all == h.told \o appq
    IN  /\ \A i, j \in DOMAIN all : i < j => all[i] <= all[j]
        /\ \A e \in DOMAIN h.sent : Cardinality({i \in DOMAIN all : all[i] = e}) <= conns

(* A freed monitor is used only by a handler that stop() overtook: one     *)
(* that held it when stop() freed it, or fetched it before stop() cleared  *)
(* the member, two statements that nothing keeps a handler out of.  A      *)
(* handler that begins after stop() finds the member cleared.              *)
FreedUnused == h.uaf => h.cut

(* After stop() the polling loop ends, wherever it was, unless start() was *)
(* called while monitoring or before an earlier loop had ended: that       *)
(* replaced the pipe the loop would have to be woken through.              *)
StopEnds == (stops > 0 /\ ~monitoring) ~> (~Looping \/ monitoring \/ h.twice)

(* A device event that is reported reaches the application, as long as     *)
(* stop() is not called, unless the new thread tested the flag before      *)
(* start() had set it: then nobody polls although monitoring is set.       *)
EventTold ==
    \A e \in 1..MaxEvents :
        (e \in DOMAIN h.sent /\ Reports(h.sent[e])) ~>
            ((\E i \in DOMAIN h.told : h.told[i] = e) \/ stops > 0 \/ h.raced)
=============================================================================
