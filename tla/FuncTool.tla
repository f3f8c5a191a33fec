------------------------------ MODULE FuncTool ------------------------------
(***************************************************************************)
(* The flash tool's client of the WWAN function service (class             *)
(* WwanFuncSvcClientTool and its WwanClientImpl).                          *)
(*                                                                         *)
(* All socket work happens on one worker thread.  An application thread    *)
(* that makes a request posts it to the worker and blocks until it has     *)
(* run there; the worker's control state is its call stack `stk', top      *)
(* first, because a request waits for its answer in a nested event loop,   *)
(* where the worker takes other posted requests.  ResetFlashWait,          *)
(* AbortFlashWait and ForceCompleteFlashWait do not go through the worker: *)
(* they run on the calling thread, step by step, against the same atomics  *)
(* and the same QEventLoop pointer.                                        *)
(*                                                                         *)
(* Deinit is called when no other call is in progress, and the progress    *)
(* callback does not call the library.  The service and Qt are external.   *)
(***************************************************************************)
EXTENDS Naturals, Sequences, JsonStream

CONSTANTS Callers,      \* threads that make requests
          Controllers,  \* threads that abort, complete or reset a flash wait
          W,            \* the worker thread
          Kinds,        \* the requests in use, besides flash and subscribe
          MaxCalls,     \* bound: requests, Init and Deinit calls
          MaxControls,  \* bound: calls of the controllers
          MaxInds,      \* bound: progress indications
          MaxFaults     \* bound: service crashes and busy listens

Threads == Callers \union Controllers
Reqs == Kinds \union {"sub"}

ASSUME ToolAssumption ==
    /\ W \notin Threads
    /\ Kinds \subseteq {"avail", "on", "off", "query"}
    /\ MaxCalls \in Nat /\ MaxControls \in Nat /\ MaxInds \in Nat /\ MaxFaults \in Nat

VARIABLES
    inst,       \* Instance # nullptr
    sock, open, \* QLocalSocket::state() and isOpen()
    timer,      \* retryTimer->isActive()
    cb,         \* func is set
    rx,         \* recv_buffer_
    slot,       \* per request: the lambda connected to its signal: "none",
                \* "live" (its call is on the stack), "dead" (it has returned)
    fslot,      \* the flash call whose lambda flashResultReceived reaches, or 0
    stk,        \* the worker's call stack, top first
    queue       \* requests posted to the worker

socket == <<inst, sock, open, timer, rx>>
calling == <<cb, slot, fslot, stk, queue>>

VARIABLES
    completed, success, \* flash_wait_completed_, flash_wait_success_
    loop,       \* flash_wait_loop_: the flash call whose loop it is, or 0
    thr         \* per thread: where it is in the library

waitflags == <<completed, success, loop>>

VARIABLES
    up, conn,   \* the service listens; its end of the connection is open
    reqs,       \* requests written and not yet handled
    subd,       \* progress events are registered on this connection
    flashes,    \* flash requests the service works on
    net         \* fragments on their way to the client

service == <<up, conn, reqs, subd, flashes>>

VARIABLES
    calls, controls, inds, faults,  \* for the bounds
    nreq,       \* requests so far; a request's number is its rid
    h           \* history, for the properties only:
                \* first: the verdict of the first ForceCompleteFlashWait to win
                \*        since the last ResetFlashWait
                \* straddle: a ForceCompleteFlashWait overlapped a ResetFlashWait or
                \*           the return of a TriggerFlash
                \* overruled: a flash returned another verdict, without that
                \* dangling: a quit was posted to a loop that is gone
                \* foreign: a message about one flash ended the wait of another
                \* early: a flash returned before its own answer had come
                \* late: a request timed out
                \* resub: a reconnect registered for progress events again
                \* wild: the lambda of a request that had returned was called
                \* wrong: a request took the answer to another one
                \* refused: the service refused a registration on this connection

bounds == <<calls, controls, inds, faults, nreq>>
vars == <<socket, calling, waitflags, thr, service, net, bounds, h>>
-----------------------------------------------------------------------------
(* Messages: `res' is the outcome; for an indication, whether progress has *)
(* reached 99 and its text speaks of no failure.  `rid' is the request an  *)
(* answer belongs to, or the flash an indication is about.                 *)
Msg == [fn : {"ind", "flash", "event"} \union Kinds, res : {"low", "ok", "fail"},
        rid : Nat, n : Nat]
Frag == [m : Msg, last : BOOLEAN]

(* Frames: `quit' is set once the frame's loop has been told to quit,      *)
(* `armed' until its timer fires, `doomed' if the wait was over before it  *)
(* began (for the properties only).                                        *)
Frame == [op : Reqs \union {"flash", "init", "rx"}, t : Threads \union {W},
          pc : {"run", "lock", "reset", "send", "enter", "wait", "ret"},
          rid : Nat, ok : BOOLEAN, quit : BOOLEAN, armed : BOOLEAN, doomed : BOOLEAN,
          list : Seq(Msg)]
NewFrame(op, t, pc) == [op |-> op, t |-> t, pc |-> pc, rid |-> 0, ok |-> FALSE,
                        quit |-> FALSE, armed |-> TRUE, doomed |-> FALSE, list |-> <<>>]

Push(f, s) == <<f>> \o s
Below == Tail(stk)
Top(f) == Push(f, Below)
OnStack(op) == \E i \in DOMAIN stk : stk[i].op = op
Running(op, pc) == stk # <<>> /\ Head(stk).op = op /\ Head(stk).pc = pc /\ thr[W].pc = "idle"
Waiting(op) == {i \in DOMAIN stk : stk[i].op = op /\ stk[i].pc = "wait"}

(* A request holds functionMutex until it returns.  The mutex is not       *)
(* recursive: a frame at "lock" waits for one further down its own stack.  *)
Locked == \E i \in DOMAIN stk : stk[i].op \in Reqs /\ stk[i].pc = "wait"

(* The worker runs an event loop: the thread's own, or a request's.        *)
InLoop == /\ inst /\ thr[W].pc = "idle"
          /\ stk # <<>> => Head(stk).pc = "wait" /\ ~Head(stk).quit

Idle == [pc |-> "idle", ok |-> FALSE, p |-> 0]
Release(t) == thr' = [thr EXCEPT ![t] = Idle]
-----------------------------------------------------------------------------
Init ==
    /\ inst = FALSE /\ sock = "unconnected" /\ open = FALSE /\ timer = FALSE
    /\ cb = FALSE /\ rx = <<>> /\ slot = [k \in Reqs |-> "none"] /\ fslot = 0
    /\ stk = <<>> /\ queue = <<>>
    /\ completed = FALSE /\ success = FALSE /\ loop = 0
    /\ thr = [t \in Threads \union {W} |-> Idle]
    /\ up \in BOOLEAN /\ conn = FALSE /\ reqs = <<>> /\ subd = FALSE /\ flashes = {}
    /\ net = <<>>
    /\ calls = 0 /\ controls = 0 /\ inds = 0 /\ faults = 0 /\ nreq = 0
    /\ h = [first |-> "none", straddle |-> FALSE, overruled |-> FALSE, dangling |-> FALSE,
            foreign |-> FALSE, early |-> FALSE, late |-> FALSE, resub |-> FALSE,
            wild |-> FALSE, wrong |-> FALSE, refused |-> FALSE]
-----------------------------------------------------------------------------
(* The flash wait, on any thread t.                                        *)

MidForce(t) == \E u \in DOMAIN thr \ {t} : thr[u].pc \in {"store", "look", "post"}
MidReset == \/ \E u \in DOMAIN thr : thr[u].pc = "clear"
            \/ \E i \in DOMAIN stk : stk[i].op = "flash" /\ stk[i].pc = "ret"

(* Mutant: every call goes on, not only the first.                         *)
ForceBeginAlways(t, ok, alien) ==
    /\ thr' = [thr EXCEPT ![t].pc = "store", ![t].ok = ok]
    /\ h' = [h EXCEPT !.first = IF completed THEN @ ELSE IF ok THEN "ok" ELSE "fail",
                      !.straddle = @ \/ (~completed /\ MidReset),
                      !.foreign = @ \/ (~completed /\ alien)]
    /\ completed' = TRUE
    /\ UNCHANGED <<success, loop>>

(* ForceCompleteFlashWait: whoever finds flash_wait_completed_ set returns. *)
ForceBegin(t, ok, alien) ==
    /\ completed' = TRUE
    /\ IF completed
       THEN UNCHANGED <<thr, h>>
       ELSE /\ thr' = [thr EXCEPT ![t].pc = "store", ![t].ok = ok]
            /\ h' = [h EXCEPT !.first = IF ok THEN "ok" ELSE "fail",
                              !.straddle = @ \/ MidReset, !.foreign = @ \/ alien]
    /\ UNCHANGED <<success, loop>>

ForceStore(t) ==
    /\ thr[t].pc = "store"
    /\ success' = thr[t].ok
    /\ thr' = [thr EXCEPT ![t].pc = "look"]
    /\ UNCHANGED <<socket, calling, completed, loop, service, net, bounds, h>>

(* Mutant: only a success wakes the waiting call.                          *)
ForceLookOnSuccess(t) ==
    /\ thr[t].pc = "look"
    /\ IF loop # 0 /\ success THEN thr' = [thr EXCEPT ![t].pc = "post", ![t].p = loop]
       ELSE Release(t)
    /\ UNCHANGED <<socket, calling, waitflags, service, net, bounds, h>>

ForceLook(t) ==
    /\ thr[t].pc = "look"
    /\ IF loop # 0 THEN thr' = [thr EXCEPT ![t].pc = "post", ![t].p = loop]
       ELSE Release(t)
    /\ UNCHANGED <<socket, calling, waitflags, service, net, bounds, h>>

(* The quit is queued to the loop; it is gone if its TriggerFlash is.      *)
ForcePost(t) ==
    /\ thr[t].pc = "post"
    /\ Release(t)
    /\ stk' = [i \in DOMAIN stk |-> IF stk[i].op = "flash" /\ stk[i].rid = thr[t].p
                                    THEN [stk[i] EXCEPT !.quit = TRUE] ELSE stk[i]]
    /\ h' = [h EXCEPT !.dangling = @ \/ \A i \in DOMAIN stk : stk[i].rid # thr[t].p]
    /\ UNCHANGED <<socket, cb, slot, fslot, queue, waitflags, service, net, bounds>>

(* ResetFlashWait clears one flag after the other.                         *)
ResetBegin(t) ==
    /\ completed' = FALSE
    /\ thr' = [thr EXCEPT ![t].pc = "clear"]
    /\ UNCHANGED <<success>>

AfterReset(t) == [h EXCEPT !.first = "none", !.straddle = @ \/ MidForce(t)]

ResetClear(t) ==
    /\ thr[t].pc = "clear"
    /\ success' = FALSE
    /\ Release(t)
    /\ UNCHANGED <<socket, calling, completed, loop, service, net, bounds, h>>

(* The application's calls that do not go through the worker.  Abort is a  *)
(* ForceCompleteFlashWait(false): nobody reads abort_flash_wait_.          *)
Control(t) ==
    /\ inst /\ thr[t].pc = "idle"
    /\ controls < MaxControls /\ controls' = controls + 1
    /\ \/ \E ok \in BOOLEAN : ForceBegin(t, ok, FALSE)
       \/ ResetBegin(t) /\ h' = AfterReset(t) /\ UNCHANGED loop
    /\ UNCHANGED <<socket, calling, service, net, calls, inds, faults, nreq>>
-----------------------------------------------------------------------------
(* The connection.                                                         *)

EndSession == conn' = FALSE /\ reqs' = <<>> /\ subd' = FALSE /\ flashes' = {}

ResubscribeNever == FALSE   \* mutant: refreshAfterReconnect does nothing
Resubscribe == cb   \* refreshAfterReconnect asks again if there is a callback

(* onConnected stops the timer and registers for progress again, without   *)
(* waiting for the answer.  What recv_buffer_ holds stays there.           *)
OnConnected(s) ==
    /\ sock' = "connected" /\ open' = TRUE /\ timer' = FALSE /\ stk' = s
    /\ conn' = TRUE /\ subd' = FALSE /\ flashes' = {} /\ net' = <<>>
    /\ reqs' = IF Resubscribe THEN <<[fn |-> "event", rid |-> nreq + 1]>> ELSE <<>>
    /\ nreq' = IF Resubscribe THEN nreq + 1 ELSE nreq
    /\ h' = [h EXCEPT !.resub = @ \/ Resubscribe, !.refused = FALSE]
    /\ UNCHANGED faults

(* Mutant: the retry timer is single-shot.                                 *)
ConnectFailsOnce(s) ==
    /\ sock' = "unconnected" /\ stk' = s /\ timer' = FALSE
    /\ UNCHANGED <<open, conn, reqs, subd, flashes, net, nreq, faults, h>>

(* The service does not listen: onError.                                   *)
ConnectFails(s) ==
    /\ sock' = "unconnected" /\ stk' = s /\ timer' = TRUE
    /\ UNCHANGED <<open, conn, reqs, subd, flashes, net, nreq, faults, h>>

(* The listen queue is full: QLocalSocket tries again later by itself.     *)
ConnectPends(s) ==
    /\ faults < MaxFaults /\ faults' = faults + 1
    /\ sock' = "connecting" /\ stk' = s
    /\ UNCHANGED <<open, timer, conn, reqs, subd, flashes, net, nreq, h>>

ConnectToServerInternal(s) ==
    \/ up /\ OnConnected(s)
    \/ ~up /\ ConnectFails(s)
    \/ up /\ ConnectPends(s)

(* Init: a new worker and a new instance, whose Init runs on the worker.   *)
ToolInit(t) ==
    /\ ~inst /\ inst' = TRUE
    /\ calls < MaxCalls /\ calls' = calls + 1
    /\ thr' = [thr EXCEPT ![t].pc = "call"]
    /\ ConnectToServerInternal(<<NewFrame("init", t, "run")>>)
    /\ UNCHANGED <<rx, cb, slot, fslot, queue, waitflags, up, controls, inds>>

InitReturn ==
    /\ Running("init", "run")
    /\ timer' = (timer \/ sock # "connected")
    /\ stk' = Below /\ Release(Head(stk).t)
    /\ UNCHANGED <<inst, sock, open, rx, cb, slot, fslot, queue, waitflags, service, net,
                   bounds, h>>

ConnectDone ==
    /\ sock = "connecting"
    /\ InLoop \/ Running("init", "run")
    /\ (up /\ OnConnected(stk)) \/ (~up /\ ConnectFails(stk))
    /\ UNCHANGED <<inst, rx, cb, slot, fslot, queue, waitflags, thr, up, calls, controls, inds>>

RetryConnection ==
    /\ InLoop /\ timer /\ sock = "unconnected"
    /\ ConnectToServerInternal(stk)
    /\ UNCHANGED <<inst, rx, cb, slot, fslot, queue, waitflags, thr, up, calls, controls, inds>>

(* Mutant: a lost connection does not start the timer.                     *)
OnDisconnectedQuiet ==
    /\ InLoop /\ sock = "connected" /\ ~conn /\ net = <<>>
    /\ sock' = "unconnected" /\ open' \in {open, FALSE}
    /\ UNCHANGED <<inst, timer, rx, calling, waitflags, thr, service, net, bounds, h>>

OnDisconnected ==
    /\ InLoop /\ sock = "connected" /\ ~conn /\ net = <<>>
    /\ sock' = "unconnected" /\ open' \in {open, FALSE}
    /\ timer' = TRUE
    /\ UNCHANGED <<inst, rx, calling, waitflags, thr, service, net, bounds, h>>

(* Deinit closes the socket, ends the worker and deletes the instance.     *)
Deinit ==
    /\ inst /\ stk = <<>> /\ queue = <<>>
    /\ \A t \in DOMAIN thr : thr[t].pc = "idle"
    /\ calls < MaxCalls /\ calls' = calls + 1
    /\ inst' = FALSE /\ sock' = "unconnected" /\ open' = FALSE /\ timer' = FALSE
    /\ cb' = FALSE /\ rx' = <<>> /\ slot' = [k \in Reqs |-> "none"]
    /\ completed' = FALSE /\ success' = FALSE
    /\ EndSession /\ net' = <<>>
    /\ UNCHANGED <<fslot, stk, queue, loop, thr, up, controls, inds, faults, nreq, h>>
-----------------------------------------------------------------------------
(* Writing a request.  A peer that is gone is noticed, and signalled.      *)
WriteReq(fn) ==
    /\ nreq' = nreq + 1
    /\ \/ /\ sock = "connected" /\ conn
          /\ reqs' = Append(reqs, [fn |-> fn, rid |-> nreq'])
          /\ UNCHANGED <<sock, open, timer, net>>
       \/ /\ sock = "connected" /\ ~conn
          /\ sock' = "unconnected" /\ open' \in {open, FALSE} /\ timer' = TRUE
          /\ net' = <<>>
          /\ UNCHANGED reqs
       \/ /\ sock # "connected"
          /\ UNCHANGED <<sock, open, timer, reqs, net>>

NoWrite == UNCHANGED <<sock, open, timer, reqs, net, nreq>>

(* invokeOnWorker: post the request and block.                             *)
InvokeOnWorker(t, op) ==
    /\ inst /\ thr[t].pc = "idle"
    /\ calls < MaxCalls /\ calls' = calls + 1
    /\ queue' = Append(queue, [t |-> t, op |-> op])
    /\ thr' = [thr EXCEPT ![t].pc = "call"]
    /\ UNCHANGED <<socket, cb, slot, fslot, stk, waitflags, service, net, controls, inds,
                   faults, nreq, h>>

(* SvcAvailable, TurnonSwitch, TurnoffSwitch, QuerySwitchStatus and        *)
(* SubscribeFlashProgressEvent up to their event loop.  The lambda of the  *)
(* last call of this kind is replaced.  Without an open socket they return *)
(* at once.                                                                *)
TakeRequest ==
    /\ InLoop /\ queue # <<>> /\ Head(queue).op \in Reqs
    /\ LET q == Head(queue)
       IN  /\ cb' = (cb \/ q.op = "sub")
           /\ \/ /\ Locked
                 /\ stk' = Push(NewFrame(q.op, q.t, "lock"), stk)
                 /\ NoWrite /\ UNCHANGED <<slot, thr>>
              \/ /\ ~Locked /\ ~open
                 /\ Release(q.t)
                 /\ NoWrite /\ UNCHANGED <<slot, stk>>
              \/ /\ ~Locked /\ open
                 /\ WriteReq(IF q.op = "sub" THEN "event" ELSE q.op)
                 /\ slot' = [slot EXCEPT ![q.op] = "live"]
                 /\ stk' = Push([NewFrame(q.op, q.t, "wait") EXCEPT !.rid = nreq'], stk)
                 /\ UNCHANGED thr
    /\ queue' = Tail(queue)
    /\ UNCHANGED <<inst, rx, fslot, waitflags, up, conn, subd, flashes, calls, controls,
                   inds, faults, h>>

(* 5 s are over.                                                           *)
RequestTimeout ==
    /\ InLoop
    /\ \E i \in DOMAIN stk :
        /\ stk[i].op \in Reqs /\ stk[i].pc = "wait" /\ stk[i].armed
        /\ stk' = [stk EXCEPT ![i].armed = FALSE, ![i].quit = TRUE]
    /\ h' = [h EXCEPT !.late = TRUE]
    /\ UNCHANGED <<socket, cb, slot, fslot, queue, waitflags, thr, service, net, bounds>>

(* The lambda stays connected, with references to the frame that is gone.  *)
RequestReturn ==
    /\ stk # <<>> /\ Head(stk).op \in Reqs /\ Running(Head(stk).op, "wait")
    /\ Head(stk).quit
    /\ slot' = [slot EXCEPT ![Head(stk).op] = "dead"]
    /\ stk' = Below /\ Release(Head(stk).t)
    /\ UNCHANGED <<socket, cb, fslot, queue, waitflags, service, net, bounds, h>>
-----------------------------------------------------------------------------
(* TriggerFlash.                                                           *)

TakeFlash ==
    /\ InLoop /\ queue # <<>> /\ Head(queue).op = "flash"
    /\ stk' = Push(NewFrame("flash", Head(queue).t, "reset"), stk)
    /\ queue' = Tail(queue)
    /\ UNCHANGED <<socket, cb, slot, fslot, waitflags, thr, service, net, bounds, h>>

FlashReset ==
    /\ Running("flash", "reset")
    /\ ResetBegin(W) /\ h' = AfterReset(W)
    /\ stk' = Top([Head(stk) EXCEPT !.pc = "send"])
    /\ UNCHANGED <<socket, cb, slot, fslot, queue, loop, service, net, bounds>>

FlashSend ==
    /\ Running("flash", "send")
    /\ \/ ~open /\ NoWrite /\ stk' = Below /\ Release(Head(stk).t)
       \/ /\ open /\ ~Locked
          /\ WriteReq("flash")
          /\ stk' = Top([Head(stk) EXCEPT !.pc = "enter", !.rid = nreq'])
          /\ UNCHANGED thr
    /\ UNCHANGED <<inst, rx, cb, slot, fslot, queue, waitflags, up, conn, subd, flashes,
                   calls, controls, inds, faults, h>>

(* The loop is made known, the lambda connected in place of any other, the *)
(* timer started, and the loop entered.                                    *)
FlashEnter ==
    /\ Running("flash", "enter")
    /\ loop' = Head(stk).rid /\ fslot' = Head(stk).rid
    /\ stk' = Top([Head(stk) EXCEPT !.pc = "wait", !.doomed = completed])
    /\ UNCHANGED <<socket, cb, slot, queue, completed, success, thr, service, net, bounds, h>>

(* Mutant: the timeout only logs.                                          *)
FlashTimeoutLogged ==
    /\ InLoop
    /\ \E i \in Waiting("flash") :
        /\ stk[i].armed
        /\ stk' = [stk EXCEPT ![i].armed = FALSE]
    /\ UNCHANGED <<socket, cb, slot, fslot, queue, waitflags, thr, service, net, bounds, h>>

(* 26 minutes are over; the timer does not fire again.                     *)
FlashTimeout ==
    /\ InLoop
    /\ \E i \in Waiting("flash") :
        /\ stk[i].armed
        /\ stk' = [stk EXCEPT ![i].armed = FALSE]
    /\ ForceBegin(W, FALSE, FALSE)
    /\ UNCHANGED <<socket, cb, slot, fslot, queue, service, net, bounds>>

(* The loop was told to quit: read the flags, and clear them.              *)
FlashLeave ==
    /\ Running("flash", "wait") /\ Head(stk).quit
    /\ LET result == completed /\ success
       IN  /\ stk' = Top([Head(stk) EXCEPT !.pc = "ret", !.ok = result])
           /\ h' = [AfterReset(W) EXCEPT
                      !.overruled = @ \/ (result # (h.first = "ok") /\ ~AfterReset(W).straddle)]
    /\ ResetBegin(W)
    /\ fslot' = IF fslot = Head(stk).rid THEN 0 ELSE fslot
    /\ UNCHANGED <<socket, cb, slot, queue, loop, service, net, bounds>>

AnswerPending(rid) ==
    \/ \E i \in DOMAIN reqs : reqs[i].rid = rid
    \/ rid \in flashes
    \/ \E i \in DOMAIN net : net[i].m.fn = "flash" /\ net[i].m.rid = rid
    \/ /\ rx # <<>> /\ ~rx[Len(rx)].last                  \* its beginning was read
       /\ rx[Len(rx)].m.fn = "flash" /\ rx[Len(rx)].m.rid = rid

(* Mutant: flash_wait_loop_ keeps its value.                               *)
FlashReturnUnguarded ==
    /\ Running("flash", "ret")
    /\ stk' = Below /\ Release(Head(stk).t)
    /\ h' = [h EXCEPT !.early = @ \/ AnswerPending(Head(stk).rid)]
    /\ UNCHANGED <<socket, cb, slot, fslot, queue, waitflags, service, net, bounds>>

(* LoopGuard forgets the loop, which dies with the frame.                  *)
FlashReturn ==
    /\ Running("flash", "ret")
    /\ loop' = 0
    /\ stk' = Below /\ Release(Head(stk).t)
    /\ h' = [h EXCEPT !.early = @ \/ AnswerPending(Head(stk).rid)]
    /\ UNCHANGED <<socket, cb, slot, fslot, queue, completed, success, service, net, bounds>>
-----------------------------------------------------------------------------
(* What arrives.                                                           *)

(* onReadyRead: the rest of the last read, and what there is now.          *)
OnReadyRead ==
    /\ InLoop /\ sock = "connected"
    /\ \E k \in {Len(net) - 1, Len(net)} :
        /\ k \in 1..Len(net)
        /\ LET all == rx \o SubSeq(net, 1, k)
           IN  /\ net' = After(net, k)
               /\ rx' = Leftover(all)
               /\ stk' = Push([NewFrame("rx", W, "run") EXCEPT !.list = Objects(all)], stk)
    /\ UNCHANGED <<inst, sock, open, timer, cb, slot, fslot, queue, waitflags, thr, service,
                   bounds, h>>

(* Mutant: a final answer is emitted to every receiver.                    *)
ReceiversAll(fn) == {k \in Reqs : slot[k] # "none"}

(* The signal handleOneSocketMessage emits for an answer, by function_id.  *)
Receivers(fn) == {k \in Reqs : k = (IF fn = "event" THEN "sub" ELSE fn) /\ slot[k] # "none"}

(* The lambdas of the requests: note the outcome and quit the loop.  A     *)
(* refused request only quits; QuerySwitchStatus and a registration take   *)
(* any answer.                                                             *)
AnswerRequest(m, s) ==
    LET mine(i) == s[i].op \in Receivers(m.fn) /\ s[i].pc = "wait"
    IN  /\ stk' = [i \in DOMAIN s |->
                    IF mine(i)
                    THEN [s[i] EXCEPT !.quit = TRUE,
                                      !.ok = @ \/ m.res = "ok" \/ s[i].op \in {"query", "sub"}]
                    ELSE s[i]]
        /\ h' = [h EXCEPT
                   !.wild = @ \/ \E k \in Receivers(m.fn) : slot[k] = "dead",
                   !.wrong = @ \/ \E i \in DOMAIN s : mine(i) /\ s[i].op # "sub" /\ s[i].rid # m.rid]

(* An outcome of a flash, for the wait in progress if there is one.        *)
FlashVerdict(m) ==
    ForceBegin(W, m.res = "ok", \E i \in Waiting("flash") : stk[i].rid # m.rid)

(* handleOneSocketMessage and onIndicationReceived for the next object.    *)
HandleOneSocketMessage ==
    /\ Running("rx", "run") /\ Head(stk).list # <<>>
    /\ LET m == Head(Head(stk).list)
           s == Top([Head(stk) EXCEPT !.list = Tail(@)])
       IN  \/ /\ (m.fn = "ind" /\ m.res # "low") \/ (m.fn = "flash" /\ fslot # 0)
              /\ stk' = s
              /\ FlashVerdict(m)
           \/ /\ (m.fn = "ind" /\ m.res = "low") \/ (m.fn = "flash" /\ fslot = 0)
              /\ stk' = s
              /\ UNCHANGED <<waitflags, thr, h>>
           \/ /\ m.fn \notin {"ind", "flash"}
              /\ AnswerRequest(m, s)
              /\ UNCHANGED <<waitflags, thr>>
    /\ UNCHANGED <<socket, cb, slot, fslot, queue, service, net, bounds>>

ReadyReadReturn ==
    /\ Running("rx", "run") /\ Head(stk).list = <<>>
    /\ stk' = Below
    /\ UNCHANGED <<socket, cb, slot, fslot, queue, waitflags, thr, service, net, bounds, h>>
-----------------------------------------------------------------------------
(* The service.  It answers requests in order, except that a flash runs    *)
(* beside them and is answered when it ends, after its progress.           *)

SrvUnchanged == UNCHANGED <<socket, calling, waitflags, thr, calls, controls, nreq>>

SrvAnswer ==
    /\ conn /\ reqs # <<>>
    /\ reqs' = Tail(reqs)
    /\ LET r == Head(reqs)
       IN  \/ /\ r.fn = "flash"
              /\ flashes' = flashes \union {r.rid}
              /\ UNCHANGED <<subd, net, h>>
           \/ /\ r.fn # "flash"
              /\ \E res \in {"ok", "fail"} :
                  /\ net' = net \o Frags([fn |-> r.fn, res |-> res, rid |-> r.rid, n |-> 0])
                  /\ subd' = (subd \/ (r.fn = "event" /\ res = "ok"))
                  /\ h' = [h EXCEPT !.refused = @ \/ (r.fn = "event" /\ res = "fail")]
              /\ UNCHANGED flashes
    /\ UNCHANGED <<up, conn, inds, faults>> /\ SrvUnchanged

SrvProgress ==
    /\ conn /\ subd
    /\ inds < MaxInds /\ inds' = inds + 1
    /\ \E r \in flashes, res \in {"low", "ok", "fail"} :
        net' = net \o Frags([fn |-> "ind", res |-> res, rid |-> r, n |-> inds'])
    /\ UNCHANGED <<service, faults, h>> /\ SrvUnchanged

SrvFlashEnds ==
    /\ conn
    /\ \E r \in flashes, res \in {"ok", "fail"} :
        /\ flashes' = flashes \ {r}
        /\ net' = net \o Frags([fn |-> "flash", res |-> res, rid |-> r, n |-> 0])
    /\ UNCHANGED <<up, conn, reqs, subd, inds, faults, h>> /\ SrvUnchanged

(* The service stops; bytes it had not yet handed to the kernel are gone.  *)
SrvCrash ==
    /\ up /\ up' = FALSE
    /\ faults < MaxFaults /\ faults' = faults + 1
    /\ EndSession
    /\ \E k \in 0..Len(net) : net' = SubSeq(net, 1, k)
    /\ UNCHANGED <<inds, h>> /\ SrvUnchanged

SrvStart ==
    /\ ~up /\ up' = TRUE
    /\ UNCHANGED <<conn, reqs, subd, flashes, net, inds, faults, h>> /\ SrvUnchanged
-----------------------------------------------------------------------------
Unwind == \/ InitReturn \/ RequestReturn \/ FlashReset \/ FlashSend \/ FlashEnter
          \/ FlashLeave \/ FlashReturn \/ HandleOneSocketMessage \/ ReadyReadReturn
          \/ ForceStore(W) \/ ForceLook(W) \/ ForcePost(W) \/ ResetClear(W)
Take == TakeRequest \/ TakeFlash
LoopEvent == OnReadyRead \/ OnDisconnected \/ RetryConnection \/ ConnectDone
Timeout == RequestTimeout \/ FlashTimeout
Caller(t) == ToolInit(t) \/ \E op \in Reqs \union {"flash"} : InvokeOnWorker(t, op)
Controller(t) == ForceStore(t) \/ ForceLook(t) \/ ForcePost(t) \/ ResetClear(t)
Service == SrvAnswer \/ SrvProgress \/ SrvFlashEnds \/ SrvCrash \/ SrvStart

Next == \/ Unwind \/ Take \/ LoopEvent \/ Timeout \/ Deinit \/ Service
        \/ \E t \in Callers : Caller(t)
        \/ \E t \in Controllers : Control(t) \/ Controller(t)
Spec == Init /\ [][Next]_vars

(* Threads keep running, timers fire, and a service that stopped is        *)
(* started again (it is a systemd unit).  It need not answer.              *)
FairSpec == /\ Spec
            /\ WF_vars(Unwind) /\ WF_vars(Take)
            /\ WF_vars(OnReadyRead) /\ WF_vars(OnDisconnected)
            /\ WF_vars(RetryConnection) /\ WF_vars(ConnectDone)
            /\ WF_vars(RequestTimeout) /\ WF_vars(FlashTimeout)
            /\ WF_vars(SrvStart)
            /\ \A t \in Controllers : WF_vars(Controller(t))
-----------------------------------------------------------------------------
(* A flash wait that is over is left: somebody has told the loop to quit   *)
(* or is about to, unless the wait was over before the loop was made       *)
(* known, or a second TriggerFlash has taken its place                     *)
(* (ForceCompleteFlashWait, TriggerFlash).                                 *)
FlashWakeup ==
    \A i \in Waiting("flash") :
        completed /\ stk[i].rid = loop => \/ stk[i].quit \/ stk[i].doomed
                     \/ \E t \in DOMAIN thr : thr[t].pc \in {"store", "look", "post"}

(* TriggerFlash returns the verdict of the first ForceCompleteFlashWait    *)
(* after its ResetFlashWait, whichever threads raced for it, unless one of *)
(* them overlapped a ResetFlashWait.                                       *)
FirstVerdictWins == ~h.overruled

(* A quit is posted to a loop that still exists, unless the call overlaps  *)
(* a ResetFlashWait or the return of TriggerFlash, which destroys the loop *)
(* between the test of flash_wait_loop_ and its use.                       *)
LoopAlive == h.dangling => h.straddle

(* Answers carry no number, yet a request takes the answer to another one  *)
(* only after a timeout, and the lambda that a request leaves connected,   *)
(* with its dangling references, is called only after some request timed   *)
(* out or after a reconnect registered again (functionMutex, and the       *)
(* slots of the requests), whatever the number of calling threads.         *)
RequestAnswers ==
    /\ h.wrong => h.late
    /\ h.wild => h.late \/ h.resub

(* With one calling thread every message reaches the call it is for: what  *)
(* one flash reports ends the wait of another only after a TriggerFlash    *)
(* that returned before its own answer had come (progress 99 ends a wait   *)
(* before the answer does), and the answers to requests are as above.      *)
OwnAnswer ==
    /\ RequestAnswers
    /\ h.foreign => h.early

(* The timer runs exactly while there is no connection and none is being   *)
(* made: nothing in this client hides the loss of a connection.            *)
ToolRetryDiscipline ==
    /\ timer => inst /\ sock # "connected"
    /\ inst /\ sock = "unconnected" => timer

(* On a live connection a client with a callback is registered for         *)
(* progress, or its registration is on the way, or the service refused, or *)
(* the call that asks for it waits for functionMutex.                      *)
ToolResubscribed ==
    sock = "connected" /\ conn /\ cb =>
        \/ subd \/ h.refused \/ \E i \in DOMAIN reqs : reqs[i].fn = "event"
        \/ \E i \in DOMAIN stk : stk[i].op = "sub" /\ stk[i].pc = "lock"

(* With one calling thread every call returns, whatever the service does.  *)
ToolCallsReturn == \A t \in Callers : (thr[t].pc = "call") ~> (thr[t].pc = "idle")

(* A client that lost its connection gets it back.                         *)
ToolKeepsRetrying == (inst /\ sock = "unconnected") ~> (sock = "connected" \/ ~inst)

(* The comment in TriggerFlash that the timeout takes the common exit too: *)
(* a flash whose timer has fired ends.                                     *)
TimeoutEndsFlash ==
    (\E i \in Waiting("flash") : ~stk[i].armed) ~> (Waiting("flash") = {})

(* The comments "timeout 5 s" and "wait for the timeout or the answer" in  *)
(* every request: a request that waits ends.                               *)
TimeoutEndsRequest == Locked ~> ~Locked

(* The log line "incomplete json, wait more": what is kept is the          *)
(* beginning of a message whose end comes next.                            *)
ToolStreamAligned ==
    sock = "connected" /\ conn /\ rx # <<>> =>
        /\ Len(rx) = 1 /\ ~rx[1].last
        /\ net # <<>> /\ net[1] = [rx[1] EXCEPT !.last = TRUE]
=============================================================================
