----------------------------- MODULE FuncClient -----------------------------
(***************************************************************************)
(* The client library of the WWAN function service (wwan_func.cpp): four   *)
(* requests that differ in nothing but their names, each of which writes   *)
(* to a local socket and waits 5 s for its answer in a nested event loop   *)
(* on the application's own thread, with functionMutex held.               *)
(*                                                                         *)
(* Every read is parsed as one JSON document: half a message, or two, is   *)
(* no document and is dropped.                                             *)
(*                                                                         *)
(* A call after a Deinit that deleted the socket is left out: it is        *)
(* undefined.  The service and Qt are external.                            *)
(***************************************************************************)
EXTENDS Naturals, Sequences, JsonStream

CONSTANTS Kinds,      \* the requests in use
          Nested,     \* TRUE: the application calls from its own events, also
                      \* while a request waits in its event loop
          MaxCalls,   \* bound: calls of the application
          MaxFaults   \* bound: crashes, busy listens and slow disconnects

ASSUME FuncAssumption ==
    /\ Kinds \subseteq {"SvcAvailable", "TurnonSwitch", "TurnoffSwitch", "QuerySwitchStatus"}
    /\ Nested \in BOOLEAN /\ MaxCalls \in Nat /\ MaxFaults \in Nat

VARIABLES
    sock,       \* "none": no instance; "null": no socket; else QLocalSocket::state()
    open,       \* QIODevice::isOpen()
    timer,      \* retryTimer->isActive()
    stopping,   \* stopping
    slot,       \* per request: the lambda connected to its signal: "none",
                \* "live" (its call is waiting) or "dead" (it has returned)
    call,       \* the call in progress
    stuck       \* a second call waits for the functionMutex of the first

link == <<sock, open, timer, stopping>>

VARIABLES
    up, conn,   \* the service listens; its end of the connection is open
    reqs, net,  \* requests not yet handled; fragments on their way to the client
    calls, faults, nreq,
    h           \* history, for the properties only:
                \* late: a request timed out; torn: a read ended inside a message
                \* unheard: an answer was dropped
                \* wild: the lambda of a request that had returned was called
                \* wrong: a request took the answer to another one

vars == <<link, slot, call, stuck, up, conn, reqs, net, calls, faults, nreq, h>>

NoCall == [op |-> "none", rid |-> 0, quit |-> FALSE]
NewCall(op) == [NoCall EXCEPT !.op = op]
Msg == [fn : Kinds, rid : Nat]

(* The event loop runs: idle, or inside a request that waits.              *)
InLoop == /\ ~stuck /\ call.op # "Init"
          /\ ~call.quit

Init ==
    /\ sock = "none" /\ open = FALSE /\ timer = FALSE /\ stopping = FALSE
    /\ slot = [k \in Kinds |-> "none"] /\ call = NoCall /\ stuck = FALSE
    /\ up \in BOOLEAN /\ conn = FALSE /\ reqs = <<>> /\ net = <<>>
    /\ calls = 0 /\ faults = 0 /\ nreq = 0
    /\ h = [late |-> FALSE, torn |-> FALSE, unheard |-> FALSE, wild |-> FALSE, wrong |-> FALSE]
-----------------------------------------------------------------------------
(* The connection.                                                         *)

StartReconnectTimer(isStopping) == timer' = (timer \/ ~isStopping)

OnConnected ==
    /\ sock' = "connected" /\ open' = TRUE /\ timer' = FALSE
    /\ conn' = TRUE /\ reqs' = <<>> /\ net' = <<>>
    /\ UNCHANGED faults

(* Mutant: the retry timer is single-shot.                                 *)
ConnectFailsOnce(isStopping, o) ==
    /\ sock' = "unconnected" /\ open' = o /\ timer' = FALSE
    /\ UNCHANGED <<conn, reqs, net, faults>>

(* Mutant: the attempt is given up half-way.                               *)
ConnectFailsClosing(isStopping, o) ==
    /\ sock' = "closing" /\ open' = o
    /\ UNCHANGED <<timer, conn, reqs, net, faults>>

(* The service does not listen: onError.  The device stays open or closed  *)
(* as it was, o.                                                           *)
ConnectFails(isStopping, o) ==
    /\ sock' = "unconnected" /\ open' = o
    /\ StartReconnectTimer(isStopping)
    /\ UNCHANGED <<conn, reqs, net, faults>>

(* The listen queue is full: QLocalSocket tries again later by itself.     *)
ConnectPends(o) ==
    /\ faults < MaxFaults /\ faults' = faults + 1
    /\ sock' = "connecting" /\ open' = o
    /\ UNCHANGED <<timer, conn, reqs, net>>

ConnectToServerInternal(o) ==
    \/ up /\ OnConnected
    \/ ~up /\ ConnectFails(FALSE, o)
    \/ up /\ ConnectPends(o)

(* Init makes a new instance with a new socket and connects.               *)
FuncInit ==
    /\ calls < MaxCalls /\ calls' = calls + 1
    /\ call = NoCall
    /\ sock \in {"none", "null"} \/ (stopping /\ sock = "unconnected")
    /\ stopping' = FALSE /\ slot' = [k \in Kinds |-> "none"]
    /\ call' = NewCall("Init")
    /\ ConnectToServerInternal(FALSE)
    /\ UNCHANGED <<stuck, up, nreq, h>>

(* waitForConnected is over, one way or the other.                         *)
InitReturn ==
    /\ call.op = "Init" /\ call' = NoCall
    /\ IF sock = "connected" THEN UNCHANGED timer ELSE StartReconnectTimer(stopping)
    /\ UNCHANGED <<sock, open, stopping, slot, stuck, up, conn, reqs, net, calls, faults, nreq, h>>

(* A pending connect ends.                                                 *)
ConnectDone ==
    /\ sock = "connecting"
    /\ InLoop \/ call.op = "Init"
    /\ (up /\ OnConnected) \/ (~up /\ ConnectFails(stopping, open))
    /\ UNCHANGED <<stopping, slot, call, stuck, up, calls, nreq, h>>

RetryConnection ==
    /\ InLoop /\ timer /\ ~stopping /\ sock = "unconnected"
    /\ ConnectToServerInternal(open)
    /\ UNCHANGED <<stopping, slot, call, stuck, up, calls, nreq, h>>

OnDisconnected ==
    /\ InLoop /\ sock = "connected" /\ ~conn /\ net = <<>>
    /\ sock' = "unconnected" /\ open' \in {open, FALSE}
    /\ StartReconnectTimer(stopping)
    /\ UNCHANGED <<stopping, slot, call, stuck, up, conn, reqs, net, calls, faults, nreq, h>>

(* Mutant: Deinit leaves the timer running.                                *)
DeinitTimerKept ==
    /\ calls < MaxCalls /\ calls' = calls + 1
    /\ call = NoCall /\ sock # "none"
    /\ stopping' = TRUE
    /\ sock' = IF open THEN "null" ELSE sock
    /\ open' = FALSE
    /\ conn' = FALSE /\ reqs' = <<>> /\ net' = <<>>
    /\ UNCHANGED <<timer, slot, call, stuck, up, faults, nreq, h>>

(* Deinit: an open socket is closed and deleted, or aborted and kept if    *)
(* that takes too long.  Any other socket, a connecting one too, is left   *)
(* as it is.                                                               *)
Deinit ==
    /\ calls < MaxCalls /\ calls' = calls + 1
    /\ call = NoCall /\ sock # "none"
    /\ stopping' = TRUE /\ timer' = FALSE
    /\ \/ /\ open /\ sock = "connected" /\ sock' = "null" /\ open' = FALSE
          /\ conn' = FALSE /\ reqs' = <<>> /\ net' = <<>>
          /\ UNCHANGED faults
       \/ /\ open /\ sock = "connected" /\ sock' = "unconnected" /\ open' \in {open, FALSE}
          /\ faults < MaxFaults /\ faults' = faults + 1
          /\ conn' = FALSE /\ reqs' = <<>> /\ net' = <<>>
       \/ /\ sock # "connected"
          /\ sock' = IF open THEN "unconnected" ELSE sock
          /\ open' \in {open, FALSE}
          /\ UNCHANGED <<conn, reqs, net, faults>>
    /\ UNCHANGED <<slot, call, stuck, up, nreq, h>>
-----------------------------------------------------------------------------
(* Requests.                                                               *)

(* A request or a Deinit made while another request waits in its loop: the *)
(* mutex is not recursive, and its owner is this thread.                   *)
NestedCall ==
    /\ Nested /\ InLoop /\ call # NoCall
    /\ calls < MaxCalls /\ calls' = calls + 1
    /\ stuck' = TRUE
    /\ UNCHANGED <<link, slot, call, up, conn, reqs, net, faults, nreq, h>>

(* SvcAvailable and its like, up to the event loop.  Without an open       *)
(* socket they return at once.                                             *)
Request(k) ==
    /\ call = NoCall /\ sock \notin {"none", "null"}
    /\ calls < MaxCalls /\ calls' = calls + 1
    /\ \/ /\ ~open
          /\ UNCHANGED <<sock, open, timer, slot, call, reqs, net, nreq>>
       \/ /\ open
          /\ nreq' = nreq + 1
          /\ slot' = [slot EXCEPT ![k] = "live"]
          /\ call' = [NewCall(k) EXCEPT !.rid = nreq']
          /\ \/ /\ sock = "connected" /\ conn
                /\ reqs' = Append(reqs, [fn |-> k, rid |-> nreq'])
                /\ UNCHANGED <<sock, open, timer, net>>
             \/ /\ sock = "connected" /\ ~conn    \* the write fails, and is signalled
                /\ sock' = "unconnected" /\ open' \in {open, FALSE} /\ net' = <<>>
                /\ StartReconnectTimer(stopping)
                /\ UNCHANGED reqs
             \/ /\ sock # "connected"
                /\ UNCHANGED <<sock, open, timer, reqs, net>>
    /\ UNCHANGED <<stopping, stuck, up, conn, faults, h>>

(* Mutant: nothing ends the wait but an answer.                            *)
RequestTimeoutNever ==
    /\ InLoop /\ call.op \in Kinds /\ FALSE
    /\ UNCHANGED vars

(* 5 s are over.                                                           *)
RequestTimeout ==
    /\ InLoop /\ call.op \in Kinds
    /\ call' = [call EXCEPT !.quit = TRUE]
    /\ h' = [h EXCEPT !.late = TRUE]
    /\ UNCHANGED <<link, slot, stuck, up, conn, reqs, net, calls, faults, nreq>>

(* The lambda stays connected, with references to the frame that is gone.  *)
RequestReturn ==
    /\ ~stuck /\ call.op \in Kinds /\ call.quit
    /\ slot' = [slot EXCEPT ![call.op] = "dead"]
    /\ call' = NoCall
    /\ UNCHANGED <<link, stuck, up, conn, reqs, net, calls, faults, nreq, h>>

(* The signal onReadyRead emits, by function_id.                           *)
Receivers(fn) == {k \in Kinds : k = fn /\ slot[k] # "none"}

(* Mutant: an answer that came in one piece is no document.                *)
DocumentHalf(fs) == IF Len(fs) = 2 THEN <<>> ELSE Objects(fs)

(* fromJson takes the whole read as one document.                          *)
Document(fs) == IF Len(fs) = 2 /\ fs = Frags(fs[1].m) THEN Objects(fs) ELSE <<>>

OnReadyRead ==
    /\ InLoop /\ sock = "connected"
    /\ \E k \in 1..Len(net) :
        LET fs == SubSeq(net, 1, k)
            doc == Document(fs)
            to == IF doc = <<>> THEN {} ELSE Receivers(doc[1].fn)
            mine == call.op \in to
        IN  /\ net' = After(net, k)
            /\ call' = IF mine THEN [call EXCEPT !.quit = TRUE] ELSE call
            /\ h' = [h EXCEPT !.torn = @ \/ k % 2 = 1,
                              !.unheard = @ \/ (doc = <<>> /\ fs[k].last),
                              !.wild = @ \/ \E r \in to : slot[r] = "dead",
                              !.wrong = @ \/ (mine /\ doc[1].rid # call.rid)]
    /\ UNCHANGED <<link, slot, stuck, up, conn, reqs, calls, faults, nreq>>
-----------------------------------------------------------------------------
(* The service.                                                            *)

SrvUnchanged == UNCHANGED <<link, slot, call, stuck, calls, nreq, h>>

SrvAnswer ==
    /\ conn /\ reqs # <<>> /\ reqs' = Tail(reqs)
    /\ net' = net \o Frags(Head(reqs))
    /\ UNCHANGED <<up, conn, faults>> /\ SrvUnchanged

SrvCrash ==
    /\ up /\ up' = FALSE
    /\ faults < MaxFaults /\ faults' = faults + 1
    /\ conn' = FALSE /\ reqs' = <<>>
    /\ \E k \in 0..Len(net) : net' = SubSeq(net, 1, k)
    /\ SrvUnchanged

SrvStart ==
    /\ ~up /\ up' = TRUE
    /\ UNCHANGED <<conn, reqs, net, faults>> /\ SrvUnchanged
-----------------------------------------------------------------------------
Next == \/ FuncInit \/ InitReturn \/ ConnectDone \/ RetryConnection \/ OnDisconnected
        \/ Deinit \/ NestedCall \/ (\E k \in Kinds : Request(k)) \/ RequestTimeout \/ RequestReturn
        \/ OnReadyRead \/ SrvAnswer \/ SrvCrash \/ SrvStart
Spec == Init /\ [][Next]_vars

(* The thread keeps running, timers fire, and a service that stopped is    *)
(* started again (it is a systemd unit).  It need not answer.              *)
FairSpec == /\ Spec
            /\ WF_vars(InitReturn) /\ WF_vars(RequestTimeout) /\ WF_vars(RequestReturn)
            /\ WF_vars(OnReadyRead) /\ WF_vars(OnDisconnected)
            /\ WF_vars(RetryConnection) /\ WF_vars(ConnectDone) /\ WF_vars(SrvStart)
-----------------------------------------------------------------------------
FuncHistory == [late : BOOLEAN, torn : BOOLEAN, unheard : BOOLEAN, wild : BOOLEAN,
                wrong : BOOLEAN]
Frag == [m : Msg, last : BOOLEAN]

FuncTypeOK ==
    /\ sock \in {"none", "null", "unconnected", "connecting", "connected"}
    /\ open \in BOOLEAN /\ timer \in BOOLEAN /\ stopping \in BOOLEAN
    /\ slot \in [Kinds -> {"none", "live", "dead"}]
    /\ call \in [op : Kinds \union {"none", "Init"}, rid : Nat, quit : BOOLEAN]
    /\ stuck \in BOOLEAN
    /\ up \in BOOLEAN /\ conn \in BOOLEAN
    /\ reqs \in Seq(Msg) /\ net \in Seq(Frag)
    /\ calls \in Nat /\ faults \in Nat /\ nreq \in Nat
    /\ h \in FuncHistory

(* The timer runs exactly while the connection is down, never after        *)
(* Deinit nor beside a live connection: unlike the device client's, these  *)
(* requests never hide a loss (startReconnectTimer and its callers).       *)
FuncRetryDiscipline ==
    /\ timer => ~stopping /\ sock # "connected"
    /\ sock = "unconnected" /\ ~stopping => timer

(* A request takes the answer to another one, and the lambda that a        *)
(* request leaves connected with its dangling references is called, only   *)
(* after a timeout.                                                        *)
FuncOwnAnswer == h.wrong \/ h.wild => h.late

(* Parsing each read as one document drops an answer only if a read ended  *)
(* inside a message or an answer came late: with one request at a time two *)
(* answers meet in no other case.                                          *)
FuncHeard == h.unheard => h.torn \/ h.late

(* Every call returns, answered or not (timer.start(5000) in each request, *)
(* waitForConnected(3000) in Init), unless the application calls again     *)
(* while it waits.                                                         *)
FuncCallsReturn == (call # NoCall) ~> (call = NoCall \/ stuck)

(* The log lines "will keep retrying" and "keep retrying every 5s": the    *)
(* client gets its connection back, unless it is stuck in a second call.   *)
FuncKeepsRetrying ==
    (sock = "unconnected" /\ ~stopping) ~> (sock = "connected" \/ stopping \/ stuck)

(* The comment "timeout 5 seconds" in every request, for an application    *)
(* whose events make requests as well.                                     *)
FuncTimeoutEnds == (call.op \in Kinds) ~> (call = NoCall)
=============================================================================
