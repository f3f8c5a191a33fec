----------------------------- MODULE DevClient -----------------------------
(***************************************************************************)
(* The client library of the WWAN device service (DevClientImpl): one      *)
(* QLocalSocket to the service, a 5 s reconnect timer, synchronous         *)
(* requests that read the socket with its signals blocked, and callbacks   *)
(* for device indications.                                                 *)
(*                                                                         *)
(* Everything in the client runs on one thread, so its control state is    *)
(* that thread's call stack, `stk', top first.  Each handler is one frame; *)
(* the event loop runs when the stack is empty or when ResetDevice is in   *)
(* its nested QEventLoop.  Application callbacks are frames too: they may  *)
(* call the library again.                                                 *)
(*                                                                         *)
(* The service and QLocalSocket are external: they are modelled by what    *)
(* the client relies on (a FIFO byte stream, answers in request order,     *)
(* signals that are dropped while blockSignals(true) is in force).         *)
(***************************************************************************)
EXTENDS Naturals, Sequences, JsonStream

CONSTANTS AppTypes,   \* the event types the application subscribes to
          Reentrant,  \* TRUE: callbacks may call the library again
          MaxVer,     \* bound: device events the service sees
          MaxCalls,   \* bound: calls the application makes
          MaxFaults,  \* bound: crashes, busy listens, slow closes, write and early timeouts
          MaxDepth    \* bound: stack depth at which a callback still calls

SignalType == {"ADDED", "REMOVED", "CHANGED"}

ASSUME ConstantsAssumption ==
    /\ AppTypes \subseteq SignalType
    /\ Reentrant \in BOOLEAN
    /\ MaxVer \in Nat /\ MaxCalls \in Nat /\ MaxFaults \in Nat /\ MaxDepth \in Nat

VARIABLES
    sock,       \* "none": no DevClientImpl yet; "null": socket is a null pointer;
                \* else QLocalSocket::state()
    open,       \* QIODevice::isOpen() of the socket
    timer,      \* retryTimer->isActive()
    stopping,   \* stopping
    func,       \* the keys of the callback map func
    rx,         \* rxBuffer: fragments not yet made into an object
    slot,       \* the lambda connected to resetDeviceRecived: "none", "live"
                \* (its ResetDevice is on the stack) or "dead" (it has returned)
    stk         \* the thread's call stack, top first

link == <<sock, open, timer, stopping>>
client == <<link, func, rx, slot, stk>>

VARIABLES
    up,         \* the service listens
    conn,       \* the service's end of the connection is open
    reqs,       \* requests written and not yet handled
    subs,       \* event types registered for this connection
    present,    \* a modem is present
    ver,        \* number of device events so far
    net,        \* fragments in the kernel, not yet seen by QLocalSocket
    buf         \* fragments in QLocalSocket's read buffer (bytesAvailable)

service == <<up, conn, reqs, subs, present, ver>>
wire == <<net, buf>>
device == <<up, present, ver>>
session == <<conn, reqs, subs, net, buf>>

VARIABLES
    calls, faults,  \* application calls and faults so far, for the bounds
    nreq,           \* requests so far; a request's number is its rid
    h               \* history, for the properties only:
                    \* sent: indications the service wrote, by version
                    \* delivered: indications given to onIndicationReceived, in order
                    \* lost: indications whose bytes were discarded
                    \* silent: the last disconnect was not signalled to the client
                    \* expired: a GetDeviceinfo gave up waiting on this connection
                    \* refused: types a registration of which failed on this connection
                    \* late: a ResetDevice gave up waiting
                    \* wild: the lambda of a ResetDevice that had returned was called
                    \* wrong: GetDeviceinfo took the answer to another request
                    \*        although none had expired on this connection

count == <<calls, faults, nreq>>
vars == <<client, service, wire, count, h>>
-----------------------------------------------------------------------------
(* Messages.  `t' is the action of an indication, `n' the device version   *)
(* it describes, `gone' an empty device id with portState NO-PORT, `rid'   *)
(* the request it answers.                                                 *)

Msg == [fn : {"ind", "get", "reset", "event"}, t : SignalType, ok : BOOLEAN,
        gone : BOOLEAN, n : Nat, rid : Nat]
Frag == [m : Msg, last : BOOLEAN]
Req == [fn : {"get", "reset", "event"}, t : SignalType, rid : Nat]

IndsIn(ms) == {ms[i].n : i \in {j \in DOMAIN ms : ms[j].fn = "ind"}}
IndFrags(fs) == {fs[i].m.n : i \in {j \in DOMAIN fs : fs[j].m.fn = "ind"}}

(* The first element of ms that satisfies P.                               *)
First(ms, i, P(_)) == P(ms[i]) /\ \A j \in 1..(i-1) : ~P(ms[j])

IsInd(m) == m.fn = "ind"
IsAnyResp(m) == m.fn # "ind"   \* mutant: function_id is not compared
IsGetResp(m) == m.fn = "get"
IsLeftover(m) == m.fn \notin {"ind", "event"}
HasAnswer(op, ms) ==
    \E i \in DOMAIN ms : IF op = "get" THEN ms[i].fn = "get"
                         ELSE ms[i].fn = "event" /\ ms[i].ok
-----------------------------------------------------------------------------
(* Stack frames.  `list' holds the messages still to be handled, `raw' all *)
(* that a synchronous call has read, `todo' the event types a refresh has  *)
(* still to look at, `ok' the result.                                      *)

Op == {"cb", "onReadyRead", "drain", "get", "sub", "refresh", "reset", "lock", "init"}
Pc == {"run", "wait", "left", "ind", "ret"}
Frame == [op : Op, pc : Pc, list : Seq(Msg), raw : Seq(Msg),
          todo : Seq(SignalType), rid : Nat, ok : BOOLEAN]

NewFrame(op, pc) == [op |-> op, pc |-> pc, list |-> <<>>, raw |-> <<>>,
                     todo |-> <<>>, rid |-> 0, ok |-> FALSE]
Push(f, s) == <<f>> \o s
Running(op, pc) == stk # <<>> /\ Head(stk).op = op /\ Head(stk).pc = pc
Syncing == Running("get", "wait") \/ Running("sub", "wait")
Below == Tail(stk)
Top(f) == Push(f, Below)
OnStack(op) == \E i \in DOMAIN stk : stk[i].op = op

(* The event loop runs: idle, or inside ResetDevice's QEventLoop.          *)
InLoop == stk = <<>> \/ Running("reset", "wait")

(* The application can call: from an event of its own, or from a callback. *)
CanCall == /\ calls < MaxCalls
           /\ sock # "none"
           /\ \/ InLoop
              \/ Reentrant /\ Running("cb", "run") /\ Len(stk) < MaxDepth
-----------------------------------------------------------------------------
EventsShort == <<"ADDED", "REMOVED">>   \* mutant: a type is not refreshed
Events == <<"ADDED", "REMOVED", "CHANGED">>

Init ==
    /\ sock = "none" /\ open = FALSE /\ timer = FALSE /\ stopping = FALSE
    /\ func = {} /\ rx = <<>> /\ slot = "none" /\ stk = <<>>
    /\ up \in BOOLEAN /\ conn = FALSE /\ reqs = <<>> /\ subs = {}
    /\ present \in BOOLEAN /\ ver = 0
    /\ net = <<>> /\ buf = <<>>
    /\ calls = 0 /\ faults = 0 /\ nreq = 0
    /\ h = [sent |-> {}, delivered |-> <<>>, lost |-> {}, silent |-> FALSE,
            expired |-> FALSE, refused |-> {}, late |-> FALSE, wild |-> FALSE,
            wrong |-> FALSE]
-----------------------------------------------------------------------------
(* Connection management.                                                  *)

Unread == IndFrags(net) \union IndFrags(buf) \union IndFrags(rx)
EndSession == conn' = FALSE /\ reqs' = <<>> /\ subs' = {} /\ net' = <<>> /\ buf' = <<>>

(* startReconnectTimer: does nothing once Deinit has run.                  *)
StartReconnectTimer(isStopping) == timer' = (timer \/ ~isStopping)

StopReconnectTimerNot == UNCHANGED timer   \* mutant: the timer is not stopped
StopReconnectTimer == timer' = FALSE

(* The service accepts.  QLocalSocket emits connected() inside             *)
(* connectToServer, so onConnected and refreshAfterReconnect start here,   *)
(* above the frames s of whoever asked.                                    *)
OnConnected(s) ==
    /\ sock' = "connected" /\ open' = TRUE /\ StopReconnectTimer /\ rx' = <<>>
    /\ conn' = TRUE /\ reqs' = <<>> /\ subs' = {} /\ net' = <<>> /\ buf' = <<>>
    /\ stk' = Push([NewFrame("refresh", "run") EXCEPT !.todo = Events], s)
    /\ h' = [h EXCEPT !.lost = @ \union Unread, !.silent = FALSE, !.expired = FALSE,
                      !.refused = {}]
    /\ UNCHANGED faults

(* Mutant: the retry timer is single-shot.                                 *)
ConnectFailsOnce(s, isStopping, o) ==
    /\ sock' = "unconnected" /\ open' = o /\ stk' = s /\ timer' = FALSE
    /\ UNCHANGED <<rx, session, faults, h>>

(* The service does not listen: errorOccurred, then onError.  The device   *)
(* stays open or closed as it was, o.                                      *)
ConnectFails(s, isStopping, o) ==
    /\ sock' = "unconnected" /\ open' = o /\ stk' = s
    /\ StartReconnectTimer(isStopping)
    /\ UNCHANGED <<rx, session, faults, h>>

(* The listen queue is full: QLocalSocket tries again later by itself.     *)
ConnectPends(s, o) ==
    /\ faults < MaxFaults /\ faults' = faults + 1
    /\ sock' = "connecting" /\ open' = o /\ stk' = s
    /\ UNCHANGED <<timer, rx, session, h>>

(* connectToServer from a socket that is not connected or connecting.      *)
ConnectToServer(s, o) ==
    \/ up /\ OnConnected(s)
    \/ ~up /\ ConnectFails(s, FALSE, o)
    \/ up /\ ConnectPends(s, o)

(* DevClient::Init makes a new DevClientImpl and calls its Init, which     *)
(* connects; what follows connectToServer is InitReturn.  A second Init    *)
(* without Deinit, which leaves the first instance behind, connected and   *)
(* never deleted, is left out, and so is one inside a handler.             *)
DevInit ==
    /\ calls < MaxCalls /\ calls' = calls + 1
    /\ stk = <<>>
    /\ sock \in {"none", "null"} \/ (stopping /\ sock = "unconnected")
    /\ stopping' = FALSE
    /\ func' = {} /\ slot' = "none"
    /\ ConnectToServer(<<NewFrame("init", "run")>>, FALSE)
    /\ UNCHANGED <<device, nreq>>

(* Init's waitForConnected is over, one way or the other.                  *)
InitReturn ==
    /\ Running("init", "run")
    /\ IF sock = "connected" THEN UNCHANGED timer ELSE StartReconnectTimer(stopping)
    /\ stk' = Below
    /\ UNCHANGED <<sock, open, stopping, func, rx, slot, service, wire, count, h>>

(* A pending connect ends, in the event loop or in Init's waitForConnected. *)
ConnectDone ==
    /\ sock = "connecting"
    /\ InLoop \/ Running("init", "run")
    /\ \/ up /\ OnConnected(stk)
       \/ ~up /\ ConnectFails(stk, stopping, open)
    /\ UNCHANGED <<stopping, func, slot, device, calls, nreq>>

(* retryConnection, every 5 s while the timer runs; connectToServer leaves *)
(* a socket that is connecting alone.  (The timer is off once stopping is  *)
(* set, see RetryDiscipline, so the early return for it is never taken.)   *)
RetryConnection ==
    /\ InLoop /\ timer /\ ~stopping
    /\ sock = "unconnected"
    /\ ConnectToServer(stk, open)
    /\ UNCHANGED <<stopping, func, slot, device, calls, nreq>>

(* The event loop sees the service's end closed: onDisconnected (and       *)
(* onError).  Qt may or may not leave the device open.                     *)
OnDisconnected ==
    /\ InLoop /\ sock = "connected" /\ ~conn /\ net = <<>>
    /\ sock' = "unconnected" /\ open' \in {open, FALSE}
    /\ rx' = <<>>
    /\ StartReconnectTimer(stopping)
    /\ h' = [h EXCEPT !.lost = @ \union IndFrags(rx), !.silent = FALSE]
    /\ UNCHANGED <<stopping, func, slot, stk, service, wire, count>>

(* Deinit.  A socket that is open is closed; if that takes too long it is  *)
(* aborted and kept.  A socket that is not open, a connecting one for      *)
(* example, is left as it is.                                              *)
Deinit ==
    /\ calls < MaxCalls /\ calls' = calls + 1
    /\ stk = <<>> /\ sock # "none"
    /\ stopping' = TRUE /\ rx' = <<>> /\ StopReconnectTimer
    /\ \/ /\ open /\ sock = "connected" /\ sock' = "null" /\ open' = FALSE
          /\ EndSession
          /\ h' = [h EXCEPT !.lost = @ \union Unread]
          /\ UNCHANGED faults
       \/ /\ open /\ sock = "connected" /\ sock' = "unconnected" /\ open' \in {open, FALSE}
          /\ faults < MaxFaults /\ faults' = faults + 1
          /\ EndSession
          /\ h' = [h EXCEPT !.lost = @ \union Unread]
       \/ /\ sock # "connected"
          /\ sock' = IF open THEN "unconnected" ELSE sock
          /\ open' \in {open, FALSE}
          /\ h' = [h EXCEPT !.lost = @ \union IndFrags(rx)]
          /\ UNCHANGED <<session, faults>>
    /\ UNCHANGED <<func, slot, stk, device, nreq>>
-----------------------------------------------------------------------------
(* Messages to their receivers.                                            *)

(* A reset answer reaches the lambda of the ResetDevice on the stack: it   *)
(* leaves its event loop; a refusal does not undo an earlier success.      *)
Answered(s, ok) ==
    [i \in DOMAIN s |-> IF s[i].op = "reset"
                        THEN [s[i] EXCEPT !.pc = "ret", !.ok = @ \/ ok]
                        ELSE s[i]]

(* dispatchJsonMessage and onIndicationReceived, above the frames s.       *)
Dispatch(m, s) ==
    /\ stk' = CASE m.fn = "ind" /\ m.t \in func -> Push(NewFrame("cb", "run"), s)
                [] m.fn = "reset" /\ slot = "live" -> Answered(s, m.ok)
                [] OTHER -> s
    /\ h' = [h EXCEPT !.delivered = IF m.fn = "ind" THEN Append(@, m.n) ELSE @,
                      !.wild = @ \/ (m.fn = "reset" /\ slot = "dead")]
    /\ UNCHANGED <<link, func, slot, service, count>>

(* Mutant: one message for every readyRead.                                *)
OnReadyReadFirst ==
    /\ InLoop /\ sock = "connected" /\ net # <<>>
    /\ LET all == rx \o buf \o net
       IN  /\ net' = <<>>
           /\ IF OnStack("onReadyRead")
              THEN buf' = buf \o net /\ UNCHANGED <<rx, stk>>
              ELSE /\ buf' = <<>>
                   /\ rx' = IF Len(all) > 2 THEN After(all, 2) ELSE Leftover(all)
                   /\ stk' = Push([NewFrame("onReadyRead", "run")
                                     EXCEPT !.list = IF Objects(all) = <<>> THEN <<>>
                                                     ELSE <<Head(Objects(all))>>], stk)
    /\ UNCHANGED <<link, func, slot, service, count, h>>

(* Bytes arrive while the event loop runs.  readyRead is not emitted again *)
(* inside a slot connected to it: then they only move into Qt's buffer.    *)
OnReadyRead ==
    /\ InLoop /\ sock = "connected"
    /\ \E k \in {Len(net) - 1, Len(net)} :
        /\ k \in 1..Len(net)
        /\ LET all == rx \o buf \o SubSeq(net, 1, k)
           IN  /\ net' = After(net, k)
               /\ IF OnStack("onReadyRead")
                  THEN /\ buf' = buf \o SubSeq(net, 1, k)
                       /\ UNCHANGED <<rx, stk>>
                  ELSE /\ buf' = <<>>
                       /\ rx' = Leftover(all)
                       /\ stk' = Push([NewFrame("onReadyRead", "run")
                                         EXCEPT !.list = Objects(all)], stk)
    /\ UNCHANGED <<link, func, slot, service, count, h>>

(* The loop over the messages read by onReadyRead or drainSocketMessages.  *)
HandleNext ==
    /\ Running("onReadyRead", "run") \/ Running("drain", "run")
    /\ Head(stk).list # <<>>
    /\ Dispatch(Head(Head(stk).list), Top([Head(stk) EXCEPT !.list = Tail(@)]))
    /\ UNCHANGED <<rx, wire>>

HandleDone ==
    /\ Running("onReadyRead", "run") \/ Running("drain", "run")
    /\ Head(stk).list = <<>>
    /\ stk' = Below
    /\ UNCHANGED <<link, func, rx, slot, service, wire, count, h>>

(* An application callback returns.                                        *)
CallbackReturn ==
    /\ Running("cb", "run")
    /\ stk' = Below
    /\ UNCHANGED <<link, func, rx, slot, service, wire, count, h>>
-----------------------------------------------------------------------------
(* Synchronous requests: the socket's signals are blocked from the write   *)
(* until the answer, so what happens to the connection meanwhile reaches   *)
(* neither onReadyRead nor onDisconnected nor onError.                     *)

(* Write a request and wait for its bytes to leave.  The call continues    *)
(* with frame w when they do, with frame e when they do not: the peer is   *)
(* gone (the write aborts the socket, unsignalled), the socket is not      *)
(* connected at all, or the 2 s are over (the bytes stay queued, and what  *)
(* arrived meanwhile sits in Qt's buffer).                                 *)
SyncWrite(fn, t, w, e, s) ==
    LET req == [fn |-> fn, t |-> t, rid |-> nreq + 1]
    IN  /\ nreq' = nreq + 1
        /\ \/ /\ sock = "connected" /\ conn
              /\ reqs' = Append(reqs, req) /\ stk' = Push([w EXCEPT !.rid = req.rid], s)
              /\ UNCHANGED <<sock, wire, faults, h>>
           \/ /\ sock = "connected" /\ conn
              /\ faults < MaxFaults /\ faults' = faults + 1
              /\ reqs' = Append(reqs, req) /\ stk' = Push(e, s)
              /\ net' = <<>> /\ buf' = buf \o net
              /\ h' = [h EXCEPT !.expired = @ \/ fn = "get"]
              /\ UNCHANGED sock
           \/ /\ sock = "connected" /\ ~conn
              /\ sock' = "unconnected" /\ stk' = Push(e, s)
              /\ net' = <<>> /\ buf' = <<>>
              /\ h' = [h EXCEPT !.silent = TRUE,
                                !.lost = @ \union IndFrags(net) \union IndFrags(buf)]
              /\ UNCHANGED <<reqs, faults>>
           \/ /\ sock # "connected" /\ stk' = Push(e, s)
              /\ UNCHANGED <<sock, reqs, wire, faults, h>>

NoWrite(f, s) ==
    /\ stk' = Push(f, s)
    /\ UNCHANGED <<sock, reqs, wire, nreq, faults, h>>

CallUnchanged == UNCHANGED <<open, timer, stopping, rx, slot, conn, subs, device>>

(* GetDeviceinfo: FALSE at once without an open socket or after a failed   *)
(* write.                                                                  *)
GetDeviceinfo(s) ==
    /\ \/ ~open /\ NoWrite(NewFrame("get", "ret"), s)
       \/ open /\ SyncWrite("get", "CHANGED", NewFrame("get", "wait"), NewFrame("get", "ret"), s)
    /\ UNCHANGED func /\ CallUnchanged

(* SubscribeDeviceEvent stores the callback first.  Without an open socket *)
(* that is all; after a failed write the loops over the messages and the   *)
(* drain still run.                                                        *)
SubscribeDeviceEvent(t, s) ==
    LET f(pc) == [NewFrame("sub", pc) EXCEPT !.todo = <<t>>]
    IN  /\ func' = func \union {t}
        /\ \/ ~open /\ NoWrite([f("ret") EXCEPT !.ok = TRUE], s)
           \/ open /\ SyncWrite("event", t, f("wait"), f("left"), s)
        /\ CallUnchanged

(* Mutant: indications read while waiting are not handed out.              *)
EndWaitDropping(f) == [f EXCEPT !.pc = IF f.op = "get" THEN "ind" ELSE "left"]

(* What a synchronous call does with what it has read once it stops        *)
(* waiting: GetDeviceinfo hands out the indications only (anything else it *)
(* read is dropped), SubscribeDeviceEvent the other messages first.        *)
EndWait(f) == [f EXCEPT !.pc = IF f.op = "get" THEN "ind" ELSE "left", !.list = f.raw]

(* The answer GetDeviceinfo takes, the first one, is to another request.   *)
TakesOther(f) == \E i \in DOMAIN f.raw : First(f.raw, i, IsGetResp) /\ f.raw[i].rid # f.rid

(* One turn of the wait loop: what Qt has buffered, or else what arrives.  *)
SyncRead ==
    /\ Syncing
    /\ \E k \in {Len(net) - 1, Len(net)} :
        /\ buf # <<>> \/ k \in 1..Len(net)
        /\ LET chunk == IF buf # <<>> THEN buf ELSE SubSeq(net, 1, k)
               all == rx \o chunk
               f == [Head(stk) EXCEPT !.raw = @ \o Objects(all)]
           IN  /\ buf' = <<>>
               /\ net' = IF buf # <<>> THEN net ELSE After(net, k)
               /\ rx' = Leftover(all)
               /\ stk' = Top(IF HasAnswer(f.op, f.raw) THEN EndWait(f) ELSE f)
               /\ h' = [h EXCEPT !.wrong = @ \/ (f.op = "get" /\ ~h.expired /\ TakesOther(f))]
    /\ UNCHANGED <<link, func, slot, service, count>>

(* Mutant: the wait for a subscription's answer has no time limit.         *)
SyncTimeoutGetOnly ==
    /\ Running("get", "wait") /\ faults' = faults
    /\ stk' = Top(EndWait(Head(stk)))
    /\ h' = [h EXCEPT !.expired = TRUE]
    /\ UNCHANGED <<link, func, rx, slot, service, wire, calls, nreq>>

(* The time is up.  While the service still owes something this is a       *)
(* fault: what it sends comes too late.                                    *)
SyncTimeout ==
    /\ Syncing
    /\ \/ conn /\ reqs = <<>> /\ net = <<>> /\ buf = <<>> /\ faults' = faults
       \/ faults < MaxFaults /\ faults' = faults + 1
    /\ stk' = Top(EndWait(Head(stk)))
    /\ h' = [h EXCEPT !.expired = @ \/ Head(stk).op = "get"]
    /\ UNCHANGED <<link, func, rx, slot, service, wire, calls, nreq>>

(* waitForReadyRead finds the service's end closed: the socket is          *)
(* unconnected now, and disconnected() was dropped.                        *)
SyncEof ==
    /\ Syncing /\ ~conn /\ net = <<>> /\ buf = <<>>
    /\ sock' = "unconnected" /\ open' \in {open, FALSE}
    /\ stk' = Top(EndWait(Head(stk)))
    /\ h' = [h EXCEPT !.silent = TRUE]
    /\ UNCHANGED <<timer, stopping, func, rx, slot, service, wire, count>>

(* SubscribeDeviceEvent: leftoverMessages, one by one.                     *)
LeftoverNext ==
    /\ Running("sub", "left")
    /\ LET f == Head(stk)
       IN  \E i \in DOMAIN f.list :
            /\ First(f.list, i, IsLeftover)
            /\ Dispatch(f.list[i], Top([f EXCEPT !.list = After(@, i)]))
    /\ UNCHANGED <<rx, wire>>

LeftoverDone ==
    /\ Running("sub", "left")
    /\ \A i \in DOMAIN Head(stk).list : ~IsLeftover(Head(stk).list[i])
    /\ stk' = Top([Head(stk) EXCEPT !.pc = "ind", !.list = Head(stk).raw])
    /\ UNCHANGED <<link, func, rx, slot, service, wire, count, h>>

(* Mutant: the last pending indication is taken first.                     *)
PendingLast ==
    /\ Running("get", "ind") \/ Running("sub", "ind")
    /\ LET f == Head(stk)
       IN  \E i \in DOMAIN f.list :
            /\ IsInd(f.list[i]) /\ \A j \in (i+1)..Len(f.list) : ~IsInd(f.list[j])
            /\ Dispatch(f.list[i], Top([f EXCEPT !.list = SubSeq(@, 1, i - 1)]))
    /\ UNCHANGED <<rx, wire>>

(* Both: pendingIndications, one by one, then drainSocketMessages.         *)
PendingNext ==
    /\ Running("get", "ind") \/ Running("sub", "ind")
    /\ LET f == Head(stk)
       IN  \E i \in DOMAIN f.list :
            /\ First(f.list, i, IsInd)
            /\ Dispatch(f.list[i], Top([f EXCEPT !.list = After(@, i)]))
    /\ UNCHANGED <<rx, wire>>

DrainSocketMessages ==
    /\ Running("get", "ind") \/ Running("sub", "ind")
    /\ \A i \in DOMAIN Head(stk).list : ~IsInd(Head(stk).list[i])
    /\ buf' = <<>> /\ rx' = Leftover(rx \o buf)
    /\ stk' = Push([NewFrame("drain", "run") EXCEPT !.list = Objects(rx \o buf)],
                   Top([Head(stk) EXCEPT !.pc = "ret", !.list = <<>>]))
    /\ UNCHANGED <<link, func, slot, service, net, count, h>>

(* GetDeviceinfo returns: TRUE with the first answer, if that is "ok".     *)
GetReturn ==
    /\ Running("get", "ret")
    /\ LET f == Head(stk)
           refreshing == Below # <<>> /\ Head(Below).op = "refresh"
       IN  \/ \E i \in DOMAIN f.raw :
               /\ First(f.raw, i, IsGetResp)
               /\ stk' = IF ~refreshing THEN Below
                         ELSE IF ~f.raw[i].ok THEN Tail(Below)
                         ELSE Push([Head(Below) EXCEPT !.pc = "ret", !.raw = <<f.raw[i]>>],
                                   Tail(Below))
           \/ /\ \A i \in DOMAIN f.raw : ~IsGetResp(f.raw[i])
              /\ stk' = IF refreshing THEN Tail(Below) ELSE Below
    /\ UNCHANGED <<link, func, rx, slot, service, wire, count, h>>

SubReturn ==
    /\ Running("sub", "ret")
    /\ LET f == Head(stk)
           ok == f.ok \/ HasAnswer("sub", f.raw)
       IN  h' = [h EXCEPT !.refused = IF ok THEN @ ELSE @ \union {f.todo[i] : i \in DOMAIN f.todo}]
    /\ stk' = Below
    /\ UNCHANGED <<link, func, rx, slot, service, wire, count>>
-----------------------------------------------------------------------------
(* refreshAfterReconnect: subscribe again to every type that has a         *)
(* callback, then fetch the device and report it as an indication.         *)

HasCallback(t) == t \in func

RefreshSubscribe ==
    /\ Running("refresh", "run")
    /\ LET f == Head(stk)
       IN  \E i \in DOMAIN f.todo :
            /\ First(f.todo, i, HasCallback)
            /\ SubscribeDeviceEvent(f.todo[i],
                    Top([f EXCEPT !.todo = After(@, i), !.ok = TRUE]))
    /\ UNCHANGED calls

RefreshGet ==
    /\ Running("refresh", "run") /\ Head(stk).ok
    /\ \A i \in DOMAIN Head(stk).todo : ~HasCallback(Head(stk).todo[i])
    /\ GetDeviceinfo(Top([Head(stk) EXCEPT !.pc = "wait"]))
    /\ UNCHANGED calls

RefreshNothing ==
    /\ Running("refresh", "run") /\ ~Head(stk).ok
    /\ \A i \in DOMAIN Head(stk).todo : ~HasCallback(Head(stk).todo[i])
    /\ stk' = Below
    /\ UNCHANGED <<link, func, rx, slot, service, wire, count, h>>

RefreshReport ==
    /\ Running("refresh", "ret")
    /\ LET t == IF Head(stk).raw[1].gone THEN "REMOVED" ELSE "CHANGED"
       IN  stk' = IF t \in func THEN Top(NewFrame("cb", "run")) ELSE Below
    /\ UNCHANGED <<link, func, rx, slot, service, wire, count, h>>
-----------------------------------------------------------------------------
(* ResetDevice holds functionMutex until it returns, and connects its      *)
(* lambda instead of the previous one.  A socket that is not open is       *)
(* reported as success.                                                    *)

ResetDevice ==
    /\ CanCall /\ calls' = calls + 1
    /\ sock # "null" /\ ~OnStack("reset")
    /\ \/ /\ ~open
          /\ NoWrite([NewFrame("reset", "ret") EXCEPT !.ok = TRUE], stk)
          /\ UNCHANGED <<open, timer, rx, slot>>
       \/ /\ open /\ slot' = "live"
          /\ stk' = Push(NewFrame("reset", "wait"), stk)
          /\ nreq' = nreq + 1
          /\ \/ /\ sock = "connected" /\ conn
                /\ reqs' = Append(reqs, [fn |-> "reset", t |-> "CHANGED", rid |-> nreq'])
                /\ UNCHANGED <<sock, open, timer, rx, wire, h>>
             \/ /\ sock = "connected" /\ ~conn    \* the write fails, and is signalled
                /\ sock' = "unconnected" /\ open' \in {open, FALSE}
                /\ rx' = <<>> /\ net' = <<>> /\ buf' = <<>>
                /\ StartReconnectTimer(stopping)
                /\ h' = [h EXCEPT !.lost = @ \union Unread, !.silent = FALSE]
                /\ UNCHANGED reqs
             \/ /\ sock # "connected"
                /\ UNCHANGED <<sock, open, timer, rx, reqs, wire, h>>
          /\ UNCHANGED faults
    /\ UNCHANGED <<stopping, func, conn, subs, device>>

(* ResetDevice or Deinit, called from a callback or from another event     *)
(* inside the event loop of a ResetDevice that has not returned: the       *)
(* thread waits for functionMutex, which is not recursive and which it     *)
(* holds itself.                                                           *)
ResetLocks ==
    /\ CanCall /\ calls' = calls + 1
    /\ OnStack("reset")
    /\ stk' = Push(NewFrame("lock", "wait"), stk)
    /\ UNCHANGED <<link, func, rx, slot, service, wire, faults, nreq, h>>

(* 130 s without an answer.                                                *)
ResetTimeout ==
    /\ Running("reset", "wait")
    /\ stk' = Top([Head(stk) EXCEPT !.pc = "ret"])
    /\ h' = [h EXCEPT !.late = TRUE]
    /\ UNCHANGED <<link, func, rx, slot, service, wire, count>>

(* The lambda stays connected, with references to the frame that is gone.  *)
ResetReturn ==
    /\ Running("reset", "ret")
    /\ stk' = Below
    /\ slot' = IF slot = "live" THEN "dead" ELSE slot
    /\ UNCHANGED <<link, func, rx, service, wire, count, h>>
-----------------------------------------------------------------------------
(* The application's other calls, and the service.                         *)

AppGet == /\ CanCall /\ calls' = calls + 1
          /\ GetDeviceinfo(stk)

AppSubscribe(t) == /\ CanCall /\ calls' = calls + 1
                   /\ SubscribeDeviceEvent(t, stk)

SrvUnchanged == UNCHANGED <<client, buf, calls, nreq>>

SrvAnswer ==
    /\ conn /\ reqs # <<>>
    /\ \E ok \in BOOLEAN :
        LET r == Head(reqs)
        IN  /\ net' = net \o Frags([fn |-> r.fn, t |-> r.t, ok |-> ok, gone |-> ~present,
                                    n |-> ver, rid |-> r.rid])
            /\ subs' = IF ok /\ r.fn = "event" THEN subs \union {r.t} ELSE subs
    /\ reqs' = Tail(reqs)
    /\ UNCHANGED <<device, conn, faults, h>> /\ SrvUnchanged

(* The service takes a request and never answers it.                       *)
SrvIgnores ==
    /\ conn /\ reqs # <<>> /\ reqs' = Tail(reqs)
    /\ UNCHANGED <<device, conn, subs, net, faults, h>> /\ SrvUnchanged

SrvEvent(t) ==
    /\ ver < MaxVer /\ ver' = ver + 1
    /\ present = (t # "ADDED")
    /\ present' = (t # "REMOVED")
    /\ IF conn /\ t \in subs
       THEN /\ net' = net \o Frags([fn |-> "ind", t |-> t, ok |-> TRUE, gone |-> ~present',
                                    n |-> ver', rid |-> 0])
            /\ h' = [h EXCEPT !.sent = @ \union {ver'}]
       ELSE UNCHANGED <<net, h>>
    /\ UNCHANGED <<up, conn, reqs, subs, faults>> /\ SrvUnchanged

(* The service stops; bytes it had not yet handed to the kernel are gone.  *)
SrvCrash ==
    /\ up /\ up' = FALSE
    /\ faults < MaxFaults /\ faults' = faults + 1
    /\ conn' = FALSE /\ reqs' = <<>> /\ subs' = {}
    /\ \E k \in 0..Len(net) :
        /\ net' = SubSeq(net, 1, k)
        /\ h' = [h EXCEPT !.lost = @ \union IndFrags(After(net, k))]
    /\ UNCHANGED <<present, ver>> /\ SrvUnchanged

SrvStart ==
    /\ ~up /\ up' = TRUE
    /\ UNCHANGED <<conn, reqs, subs, present, ver, net, faults, h>> /\ SrvUnchanged
-----------------------------------------------------------------------------
Unwind == \/ InitReturn \/ HandleNext \/ HandleDone \/ CallbackReturn
          \/ LeftoverNext \/ LeftoverDone \/ PendingNext \/ DrainSocketMessages
          \/ GetReturn \/ SubReturn \/ RefreshSubscribe \/ RefreshGet
          \/ RefreshNothing \/ RefreshReport \/ ResetReturn
Waiting == SyncRead \/ SyncTimeout \/ SyncEof \/ ResetTimeout
LoopEvent == OnReadyRead \/ OnDisconnected \/ RetryConnection \/ ConnectDone
App == \/ DevInit \/ Deinit \/ ResetDevice \/ ResetLocks \/ AppGet
       \/ \E t \in AppTypes : AppSubscribe(t)
Service == \/ SrvAnswer \/ SrvIgnores \/ SrvCrash \/ SrvStart
           \/ \E t \in SignalType : SrvEvent(t)

Next == Unwind \/ Waiting \/ LoopEvent \/ App \/ Service
Spec == Init /\ [][Next]_vars

(* The thread keeps running, timers fire, and a service that stopped is    *)
(* started again (it is a systemd unit).  It need not answer: a request is *)
(* answered or will never be.                                              *)
FairSpec == /\ Spec
            /\ WF_vars(Unwind) /\ WF_vars(Waiting)
            /\ WF_vars(OnReadyRead) /\ WF_vars(OnDisconnected)
            /\ WF_vars(RetryConnection) /\ WF_vars(ConnectDone)
            /\ WF_vars(SrvAnswer \/ SrvIgnores) /\ WF_vars(SrvStart)
-----------------------------------------------------------------------------
History == [sent : SUBSET Nat, delivered : Seq(Nat), lost : SUBSET Nat, silent : BOOLEAN,
            expired : BOOLEAN, refused : SUBSET SignalType, late : BOOLEAN,
            wild : BOOLEAN, wrong : BOOLEAN]

TypeOK ==
    /\ sock \in {"none", "null", "unconnected", "connecting", "connected"}
    /\ open \in BOOLEAN /\ timer \in BOOLEAN /\ stopping \in BOOLEAN
    /\ func \in SUBSET SignalType
    /\ rx \in Seq(Frag)
    /\ slot \in {"none", "live", "dead"}
    /\ stk \in Seq(Frame)
    /\ up \in BOOLEAN /\ conn \in BOOLEAN /\ present \in BOOLEAN
    /\ reqs \in Seq(Req) /\ subs \in SUBSET SignalType /\ ver \in Nat
    /\ net \in Seq(Frag) /\ buf \in Seq(Frag)
    /\ calls \in Nat /\ faults \in Nat /\ nreq \in Nat
    /\ h \in History

(* The reconnect timer never runs after Deinit nor beside a live           *)
(* connection, and it runs whenever the connection is down, unless the     *)
(* loss was swallowed by a synchronous call (startReconnectTimer,          *)
(* stopReconnectTimer and all their callers).                              *)
RetryDiscipline ==
    /\ timer => ~stopping /\ sock # "connected"
    /\ sock = "unconnected" /\ ~stopping /\ ~h.silent => timer

(* On a live connection the buffer holds at most the beginning of the      *)
(* object whose end comes next: the rest of an earlier connection never    *)
(* stands in front of a new message, and no object that was handed on is   *)
(* still there (onConnected, onDisconnected, extractJsonObjects).          *)
StreamAligned ==
    sock = "connected" /\ conn =>
        LET fs == rx \o buf \o net
        IN  /\ Len(rx) <= 1 /\ Len(fs) % 2 = 0
            /\ \A i \in DOMAIN fs : /\ fs[i].last = (i % 2 = 0)
                                    /\ fs[i].last => fs[i].m = fs[i-1].m

Held == (UNION {IndsIn(stk[i].list) : i \in {j \in DOMAIN stk : stk[j].pc # "wait"}})
        \union (UNION {IndsIn(stk[i].raw) : i \in {j \in DOMAIN stk : stk[j].pc \in {"wait", "left"}}})
Delivered == {h.delivered[i] : i \in DOMAIN h.delivered}

(* Every indication the service wrote is still on the way, held by a       *)
(* handler, delivered, or was lost with its connection; none is delivered  *)
(* twice, and none that is gone comes back.  In particular no synchronous  *)
(* call takes an indication for its answer or drops it, whatever callbacks *)
(* call in between (GetDeviceinfo, SubscribeDeviceEvent, onReadyRead).     *)
IndicationsConserved ==
    /\ h.sent = Unread \union Held \union Delivered \union h.lost
    /\ (Unread \union Held \union h.lost) \intersect Delivered = {}
    /\ Held \intersect (Unread \union h.lost) = {}
    /\ \A i, j \in DOMAIN h.delivered : i # j => h.delivered[i] # h.delivered[j]

(* GetDeviceinfo returns the answer to its own request unless an earlier   *)
(* one gave up waiting on the same connection (answers carry no number);   *)
(* and the lambda a ResetDevice leaves connected, with its dangling        *)
(* references, is called by an answer only after a ResetDevice timed out.  *)
AnswerMatches == ~h.wrong /\ (h.wild => h.late)

(* Once the thread is idle on a live connection, every type with a         *)
(* callback is registered there, unless the service refused a registration *)
(* or did not answer it in time: the next one may then take that answer    *)
(* for its own (refreshAfterReconnect, SubscribeDeviceEvent).              *)
Resubscribed ==
    sock = "connected" /\ conn /\ stk = <<>> /\ h.refused = {} => func \subseteq subs

(* The thread waits for the functionMutex it holds, for ever.              *)
Deadlocked == Running("lock", "wait")

(* Every call returns, also the ones made from callbacks, whether or not   *)
(* the service answers: the waits end by their own time limits.  The one   *)
(* exception is a ResetDevice or Deinit called inside the loop of a        *)
(* ResetDevice, which stops the thread.                                    *)
CallsReturn == (stk # <<>>) ~> (stk = <<>> \/ Deadlocked)

(* While the retry timer runs the client gets back to the service, unless  *)
(* its thread has stopped on functionMutex.                                *)
RetryReconnects == timer ~> (sock = "connected" \/ stopping \/ Deadlocked)

(* The promise of the log lines "will keep retrying" and "keep retrying    *)
(* every 5s": a client that lost its connection gets it back.              *)
KeepsRetrying == (sock = "unconnected" /\ ~stopping) ~> (sock = "connected" \/ stopping)
=============================================================================
