-------------------------- MODULE FuncClientProofs --------------------------
(* The function client, for any number of calls, faults and messages.      *)
EXTENDS FuncClient, JsonStreamProofs

-----------------------------------------------------------------------------
(* Types.                                                                  *)

CallType == [op : Kinds \union {"none", "Init"}, rid : Nat, quit : BOOLEAN]

(* The variables that no queue is part of.                                 *)
ClientTypes ==
    /\ sock \in {"none", "null", "unconnected", "connecting", "connected"}
    /\ open \in BOOLEAN /\ timer \in BOOLEAN /\ stopping \in BOOLEAN
    /\ slot \in [Kinds -> {"none", "live", "dead"}]
    /\ call \in CallType
    /\ stuck \in BOOLEAN
    /\ up \in BOOLEAN /\ conn \in BOOLEAN
    /\ calls \in Nat /\ faults \in Nat /\ nreq \in Nat

LEMMA KindsAssumption == "none" \notin Kinds /\ "Init" \notin Kinds
  BY FuncAssumption

LEMMA NewCallType ==
    ASSUME NEW k \in Kinds \union {"none", "Init"}, NEW r \in Nat
    PROVE  /\ NoCall \in CallType /\ NoCall.op = "none" /\ ~NoCall.quit
           /\ NewCall(k) \in CallType
           /\ [NewCall(k) EXCEPT !.rid = r] \in CallType
<1>1. NoCall \in CallType /\ NoCall.op = "none" /\ ~NoCall.quit
  BY DEF NoCall, CallType
<1>2. \A c \in CallType : [c EXCEPT !.op = k] \in CallType
  BY DEF CallType
<1>3. \A c \in CallType : [c EXCEPT !.rid = r] \in CallType
  BY DEF CallType
<1> QED BY <1>1, <1>2, <1>3 DEF NewCall

LEMMA FragsType ==
    ASSUME NEW m \in Msg
    PROVE  /\ Frags(m) \in Seq(Frag) /\ Len(Frags(m)) = 2
           /\ Frags(m)[1] = [m |-> m, last |-> FALSE] /\ Frags(m)[2] = [m |-> m, last |-> TRUE]
  BY DEF Frags, Frag

LEMMA FuncTypeInit == Init => FuncTypeOK
<1> SUFFICES ASSUME Init PROVE FuncTypeOK
  OBVIOUS
<1>1. NoCall \in CallType
  BY DEF NoCall, CallType
<1>2. <<>> \in Seq(Msg) /\ <<>> \in Seq(Frag)
  OBVIOUS
<1> QED BY <1>1, <1>2 DEF Init, FuncTypeOK, CallType, FuncHistory

(* The queues: only a request adds to reqs, and only an answer to net.     *)
LEMMA FuncQueueTypes ==
    ASSUME FuncTypeOK, Next
    PROVE  reqs' \in Seq(Msg) /\ net' \in Seq(Frag)
<1>0. /\ reqs \in Seq(Msg) /\ net \in Seq(Frag) /\ nreq \in Nat
      /\ <<>> \in Seq(Msg) /\ <<>> \in Seq(Frag)
  BY DEF FuncTypeOK
<1>1. CASE reqs' \in {reqs, <<>>} /\ net' \in {net, <<>>}
  BY <1>0, <1>1
<1>2. CASE FuncInit \/ InitReturn \/ ConnectDone \/ RetryConnection \/ OnDisconnected \/ Deinit
           \/ NestedCall \/ RequestTimeout \/ RequestReturn \/ SrvStart
  BY <1>1, <1>2 DEF FuncInit, InitReturn, ConnectDone, RetryConnection, OnDisconnected, Deinit,
       NestedCall, RequestTimeout, RequestReturn, SrvStart, ConnectToServerInternal, OnConnected,
       ConnectFails, ConnectPends
<1>3. ASSUME NEW k \in Kinds, Request(k) PROVE reqs' \in Seq(Msg) /\ net' \in Seq(Frag)
  <2>1. CASE reqs' = Append(reqs, [fn |-> k, rid |-> nreq + 1]) /\ net' = net
    <3>1. [fn |-> k, rid |-> nreq + 1] \in Msg
      BY <1>0 DEF Msg
    <3> QED BY <1>0, <2>1, <3>1, AppendProperties
  <2> QED BY <1>1, <1>3, <2>1 DEF Request
<1>4. CASE OnReadyRead
  <2>1. reqs' = reqs /\ \E k \in 1..Len(net) : net' = After(net, k)
    BY <1>4 DEF OnReadyRead
  <2> QED BY <1>0, <2>1, ReadProperties
<1>5. CASE SrvAnswer
  <2>1. reqs # <<>> /\ reqs' = Tail(reqs) /\ net' = net \o Frags(Head(reqs))
    BY <1>5 DEF SrvAnswer
  <2>2. Head(reqs) \in Msg /\ Tail(reqs) \in Seq(Msg)
    BY <1>0, <2>1, HeadTailProperties
  <2>3. Frags(Head(reqs)) \in Seq(Frag)
    BY <2>2, FragsType
  <2> QED BY <1>0, <2>1, <2>2, <2>3, ConcatProperties
<1>6. CASE SrvCrash
  <2>1. reqs' = <<>> /\ \E k \in 0..Len(net) : net' = SubSeq(net, 1, k)
    BY <1>6 DEF SrvCrash
  <2> QED BY <1>0, <2>1, ReadProperties
<1> QED BY <1>2, <1>3, <1>4, <1>5, <1>6 DEF Next

LEMMA ClientTypesOK == FuncTypeOK <=> ClientTypes /\ reqs \in Seq(Msg) /\ net \in Seq(Frag) /\ h \in FuncHistory
  BY DEF FuncTypeOK, ClientTypes, CallType

(* A connection attempt, whatever comes of it.                             *)
Connects(s, o) == OnConnected \/ ConnectFails(s, o) \/ ConnectPends(o)

LEMMA ConnectTypes ==
    ASSUME ClientTypes, NEW s \in BOOLEAN, NEW o \in BOOLEAN, Connects(s, o)
    PROVE  /\ sock' \in {"unconnected", "connecting", "connected"} /\ open' \in BOOLEAN
           /\ timer' \in BOOLEAN /\ conn' \in BOOLEAN /\ faults' \in Nat
<1>1. CASE OnConnected
  <2>1. sock' = "connected" /\ open' = TRUE /\ timer' = FALSE /\ conn' = TRUE /\ faults' = faults
    BY <1>1 DEF OnConnected
  <2> QED BY <2>1 DEF ClientTypes
<1>2. CASE ConnectFails(s, o)
  <2>1. sock' = "unconnected" /\ open' = o /\ timer' = (timer \/ ~s) /\ UNCHANGED <<conn, faults>>
    BY <1>2 DEF ConnectFails, StartReconnectTimer
  <2> QED BY <2>1 DEF ClientTypes
<1>3. CASE ConnectPends(o)
  <2>1. sock' = "connecting" /\ open' = o /\ faults' = faults + 1 /\ UNCHANGED <<timer, conn>>
    BY <1>3 DEF ConnectPends
  <2> QED BY <2>1 DEF ClientTypes
<1> QED BY <1>1, <1>2, <1>3 DEF Connects

LEMMA ConnectAttempts ==
    ASSUME ClientTypes, ConnectDone \/ RetryConnection
    PROVE  /\ Connects(stopping, open) /\ sock \notin {"none", "null"}
           /\ UNCHANGED <<stopping, slot, call, stuck, up, calls, nreq, h>>
<1>1. CASE ConnectDone
  BY <1>1 DEF ConnectDone, Connects
<1>2. CASE RetryConnection
  <2>1. stopping = FALSE
    BY <1>2 DEF RetryConnection, ClientTypes
  <2>2. Connects(FALSE, open)
    BY <1>2, Zenon DEF RetryConnection, ConnectToServerInternal, Connects
  <2> QED BY <1>2, <2>1, <2>2 DEF RetryConnection
<1> QED BY <1>1, <1>2

LEMMA FuncClientTypes ==
    ASSUME FuncTypeOK, Next
    PROVE  ClientTypes'
<1>0. ClientTypes
  BY ClientTypesOK
<1>1. CASE FuncInit
  <2>1. call' \in CallType
    BY <1>1, NewCallType DEF FuncInit
  <2>2. /\ calls' = calls + 1 /\ slot' = [k \in Kinds |-> "none"] /\ stopping' = FALSE
        /\ UNCHANGED <<stuck, up, nreq>>
    BY <1>1 DEF FuncInit
  <2>3. slot' \in [Kinds -> {"none", "live", "dead"}]
    BY <2>2
  <2>4. Connects(FALSE, FALSE)
    BY <1>1, Zenon DEF FuncInit, ConnectToServerInternal, Connects
  <2>5. FALSE \in BOOLEAN
    OBVIOUS
  <2>6. /\ sock' \in {"unconnected", "connecting", "connected"} /\ open' \in BOOLEAN
        /\ timer' \in BOOLEAN /\ conn' \in BOOLEAN /\ faults' \in Nat
    BY <1>0, <2>4, <2>5, ConnectTypes
  <2>7. calls' \in Nat /\ nreq' \in Nat
    BY <1>0, <2>2 DEF ClientTypes
  <2>8. stopping' \in BOOLEAN /\ stuck' \in BOOLEAN /\ up' \in BOOLEAN
    BY <1>0, <2>2, Zenon DEF ClientTypes
  <2> QED BY <2>1, <2>3, <2>6, <2>7, <2>8 DEF ClientTypes
<1>2. CASE InitReturn
  <2>1. call' \in CallType
    BY <1>2, NewCallType DEF InitReturn
  <2> QED BY <1>0, <1>2, <2>1 DEF InitReturn, ClientTypes, StartReconnectTimer
<1>3. CASE ConnectDone \/ RetryConnection
  <2>1. Connects(stopping, open) /\ UNCHANGED <<stopping, slot, call, stuck, up, calls, nreq>>
    BY <1>0, <1>3, ConnectAttempts
  <2>2. /\ sock' \in {"unconnected", "connecting", "connected"} /\ open' \in BOOLEAN
        /\ timer' \in BOOLEAN /\ conn' \in BOOLEAN /\ faults' \in Nat
    <3>1. stopping \in BOOLEAN /\ open \in BOOLEAN
      BY <1>0 DEF ClientTypes
    <3> QED BY <1>0, <2>1, <3>1, ConnectTypes
  <2> QED BY <1>0, <2>1, <2>2 DEF ClientTypes
<1>4. CASE OnDisconnected
  BY <1>0, <1>4 DEF OnDisconnected, ClientTypes, StartReconnectTimer
<1>5. CASE Deinit
  <2>1. /\ stopping' = TRUE /\ timer' = FALSE /\ calls' = calls + 1 /\ UNCHANGED <<slot, call, stuck, up, nreq>>
        /\ open' = open \/ open' = FALSE
        /\ conn' = conn \/ conn' = FALSE
        /\ faults' = faults \/ faults' = faults + 1
        /\ sock' \in {"null", "unconnected", sock}
    BY <1>5 DEF Deinit
  <2>2. calls' \in Nat /\ faults' \in Nat /\ nreq' \in Nat
    BY <1>0, <2>1 DEF ClientTypes
  <2>3. /\ stopping' \in BOOLEAN /\ timer' \in BOOLEAN /\ stuck' \in BOOLEAN /\ up' \in BOOLEAN
        /\ open' \in BOOLEAN /\ conn' \in BOOLEAN
    BY <1>0, <2>1, Zenon DEF ClientTypes
  <2>4. sock' \in {"none", "null", "unconnected", "connecting", "connected"}
    BY <1>0, <2>1 DEF ClientTypes
  <2> QED BY <1>0, <2>1, <2>2, <2>3, <2>4 DEF ClientTypes
<1>6. CASE NestedCall
  BY <1>0, <1>6 DEF NestedCall, ClientTypes, link
<1>7. ASSUME NEW k \in Kinds, Request(k) PROVE ClientTypes'
  <2>1. nreq + 1 \in Nat /\ nreq' \in Nat
    <3>1. nreq' = nreq \/ nreq' = nreq + 1
      BY <1>7 DEF Request
    <3> QED BY <1>0, <3>1 DEF ClientTypes
  <2>2. call' = call \/ call' = [NewCall(k) EXCEPT !.rid = nreq + 1]
    BY <1>7 DEF Request
  <2>3. call' \in CallType
    BY <1>0, <2>1, <2>2, NewCallType DEF ClientTypes
  <2>4. slot' \in [Kinds -> {"none", "live", "dead"}]
    BY <1>0, <1>7 DEF Request, ClientTypes
  <2>5. /\ UNCHANGED <<stopping, stuck, up, conn, faults>> /\ calls' = calls + 1
        /\ open' = open \/ open' = FALSE
        /\ timer' = timer \/ timer' = (timer \/ ~stopping)
        /\ sock' \in {"unconnected", sock}
    BY <1>7 DEF Request, StartReconnectTimer
  <2>6. calls' \in Nat /\ faults' \in Nat
    BY <1>0, <2>5 DEF ClientTypes
  <2>7. (timer \/ ~stopping) \in BOOLEAN
    OBVIOUS
  <2>8. /\ stopping' \in BOOLEAN /\ timer' \in BOOLEAN /\ stuck' \in BOOLEAN /\ up' \in BOOLEAN
        /\ open' \in BOOLEAN /\ conn' \in BOOLEAN
    BY <1>0, <2>5, <2>7, Zenon DEF ClientTypes
  <2>9. sock' \in {"none", "null", "unconnected", "connecting", "connected"}
    BY <1>0, <2>5 DEF ClientTypes
  <2> QED BY <2>1, <2>3, <2>4, <2>6, <2>8, <2>9 DEF ClientTypes
<1>8. CASE RequestTimeout
  BY <1>0, <1>8 DEF RequestTimeout, ClientTypes, CallType, link
<1>9. CASE RequestReturn
  <2>1. call' \in CallType
    BY <1>9, NewCallType DEF RequestReturn
  <2>2. slot' \in [Kinds -> {"none", "live", "dead"}]
    BY <1>0, <1>9 DEF RequestReturn, ClientTypes
  <2> QED BY <1>0, <1>9, <2>1, <2>2 DEF RequestReturn, ClientTypes, link
<1>10. CASE OnReadyRead
  <2>1. call' = call \/ call' = [call EXCEPT !.quit = TRUE]
    BY <1>10 DEF OnReadyRead
  <2>2. call' \in CallType
    BY <1>0, <2>1 DEF ClientTypes, CallType
  <2> QED BY <1>0, <1>10, <2>2 DEF OnReadyRead, ClientTypes, link
<1>11. CASE SrvAnswer \/ SrvCrash \/ SrvStart
  <2>1. /\ UNCHANGED <<sock, open, timer, stopping, slot, call, stuck, calls, nreq>>
        /\ up' = up \/ up' = FALSE \/ up' = TRUE
        /\ conn' = conn \/ conn' = FALSE
        /\ faults' = faults \/ faults' = faults + 1
    BY <1>11 DEF SrvAnswer, SrvCrash, SrvStart, SrvUnchanged, link
  <2>2. faults' \in Nat
    BY <1>0, <2>1 DEF ClientTypes
  <2>3. up' \in BOOLEAN /\ conn' \in BOOLEAN
    BY <1>0, <2>1, Zenon DEF ClientTypes
  <2> QED BY <1>0, <2>1, <2>2, <2>3 DEF ClientTypes
<1> QED BY <1>1, <1>2, <1>3, <1>4, <1>5, <1>6, <1>7, <1>8, <1>9, <1>10, <1>11 DEF Next

LEMMA FuncHistoryType ==
    ASSUME FuncTypeOK, Next
    PROVE  h' \in FuncHistory
<1>0. h \in FuncHistory /\ net \in Seq(Frag)
  BY DEF FuncTypeOK
<1>1. CASE h' = h
  BY <1>0, <1>1
<1>2. CASE RequestTimeout
  BY <1>0, <1>2 DEF RequestTimeout, FuncHistory
<1>3. CASE OnReadyRead
  <2>1. PICK k \in 1..Len(net), unheard, wild \in BOOLEAN, wrong \in BOOLEAN :
          /\ h' = [h EXCEPT !.torn = @ \/ k % 2 = 1, !.unheard = @ \/ unheard,
                            !.wild = @ \/ wild, !.wrong = @ \/ wrong]
    BY <1>3 DEF OnReadyRead
  <2> QED BY <1>0, <2>1 DEF FuncHistory
<1> QED BY <1>1, <1>2, <1>3 DEF Next, FuncInit, InitReturn, ConnectDone, RetryConnection,
      OnDisconnected, Deinit, NestedCall, Request, RequestReturn, SrvAnswer, SrvCrash, SrvStart,
      SrvUnchanged

LEMMA FuncStutter == FuncTypeOK /\ UNCHANGED vars => FuncTypeOK'
  BY DEF FuncTypeOK, vars, link

(* Every variable of the function client keeps its type.                   *)
THEOREM FuncTypeCorrect == Spec => []FuncTypeOK
<1>1. FuncTypeOK /\ [Next]_vars => FuncTypeOK'
  <2>1. FuncTypeOK /\ Next => ClientTypes' /\ reqs' \in Seq(Msg) /\ net' \in Seq(Frag) /\ h' \in FuncHistory
    BY FuncClientTypes, FuncQueueTypes, FuncHistoryType
  <2>2. ClientTypes' /\ reqs' \in Seq(Msg) /\ net' \in Seq(Frag) /\ h' \in FuncHistory => FuncTypeOK'
    BY DEF ClientTypes, FuncTypeOK, CallType
  <2> QED BY <2>1, <2>2, FuncStutter
<1> QED BY <1>1, FuncTypeInit, PTL DEF Spec

-----------------------------------------------------------------------------
(* The retry timer.                                                        *)

LEMMA ConnectRetry ==
    ASSUME NEW s \in BOOLEAN, NEW o \in BOOLEAN, Connects(s, o), timer \in BOOLEAN,
           stopping' = s, timer => ~s
    PROVE  FuncRetryDiscipline'
<1>1. CASE OnConnected
  BY <1>1 DEF OnConnected, FuncRetryDiscipline
<1>2. CASE ConnectFails(s, o)
  <2>1. sock' = "unconnected" /\ timer' = (timer \/ ~s)
    BY <1>2 DEF ConnectFails, StartReconnectTimer
  <2> QED BY <2>1 DEF FuncRetryDiscipline
<1>3. CASE ConnectPends(o)
  <2>1. sock' = "connecting" /\ timer' = timer
    BY <1>3 DEF ConnectPends
  <2> QED BY <2>1 DEF FuncRetryDiscipline
<1> QED BY <1>1, <1>2, <1>3 DEF Connects

LEMMA FuncRetryNext == FuncTypeOK /\ FuncRetryDiscipline /\ [Next]_vars => FuncRetryDiscipline'
<1> SUFFICES ASSUME FuncTypeOK, FuncRetryDiscipline, [Next]_vars PROVE FuncRetryDiscipline'
  OBVIOUS
<1>0. ClientTypes /\ stopping \in BOOLEAN /\ open \in BOOLEAN /\ timer \in BOOLEAN
  BY ClientTypesOK DEF ClientTypes
<1>1. CASE UNCHANGED <<sock, timer, stopping>>
  BY <1>1 DEF FuncRetryDiscipline
<1>2. CASE FuncInit
  <2>1. Connects(FALSE, FALSE) /\ FALSE \in BOOLEAN
    BY <1>2, Zenon DEF FuncInit, ConnectToServerInternal, Connects
  <2>2. stopping' = FALSE
    BY <1>2 DEF FuncInit
  <2>3. \/ sock' = "connected" /\ timer' = FALSE
        \/ sock' = "unconnected" /\ timer' = TRUE
        \/ sock' = "connecting" /\ timer' = timer
    BY <2>1, Zenon DEF Connects, OnConnected, ConnectFails, ConnectPends, StartReconnectTimer
  <2> QED BY <2>2, <2>3 DEF FuncRetryDiscipline
<1>3. CASE InitReturn
  BY <1>3 DEF InitReturn, StartReconnectTimer, FuncRetryDiscipline, FuncTypeOK
<1>4. CASE ConnectDone \/ RetryConnection
  <2>1. Connects(stopping, open) /\ stopping' = stopping
    BY <1>0, <1>4, ConnectAttempts
  <2>2. timer => ~stopping
    BY DEF FuncRetryDiscipline
  <2> QED BY <1>0, <2>1, <2>2, ConnectRetry
<1>5. CASE OnDisconnected
  BY <1>5 DEF OnDisconnected, StartReconnectTimer, FuncRetryDiscipline, FuncTypeOK
<1>6. CASE Deinit
  BY <1>6 DEF Deinit, FuncRetryDiscipline
<1>7. ASSUME NEW k \in Kinds, Request(k) PROVE FuncRetryDiscipline'
  <2>1. \/ UNCHANGED <<sock, timer, stopping>>
        \/ sock' = "unconnected" /\ StartReconnectTimer(stopping) /\ stopping' = stopping
    BY <1>7 DEF Request
  <2>2. CASE sock' = "unconnected" /\ StartReconnectTimer(stopping) /\ stopping' = stopping
    BY <2>2 DEF StartReconnectTimer, FuncRetryDiscipline, FuncTypeOK
  <2> QED BY <1>1, <2>1, <2>2
<1> QED BY <1>1, <1>2, <1>3, <1>4, <1>5, <1>6, <1>7 DEF Next, NestedCall, RequestTimeout, RequestReturn,
      OnReadyRead, SrvAnswer, SrvCrash, SrvStart, SrvUnchanged, link, vars

(* For every number of calls and faults the retry timer runs exactly while *)
(* the connection is down: no path of wwan_func.cpp stops retrying, and    *)
(* none goes on after Deinit.                                              *)
THEOREM FuncRetryCorrect == Spec => []FuncRetryDiscipline
<1>1. Init => FuncRetryDiscipline
  BY DEF Init, FuncRetryDiscipline
<1> QED BY <1>1, FuncRetryNext, FuncTypeCorrect, PTL DEF Spec

-----------------------------------------------------------------------------
(* Whose answer it is.  As long as no request has timed out, all that is   *)
(* on its way belongs to the request that waits: its question, or its      *)
(* answer, or what a crash or a read left of it.                           *)

Waiting == call.op \in Kinds /\ ~call.quit
Mine == [fn |-> call.op, rid |-> call.rid]

OneOutstanding ==
    /\ ~Waiting => reqs = <<>> /\ net = <<>>
    /\ Len(reqs) <= 1 /\ (reqs # <<>> => reqs[1] = Mine /\ net = <<>>)
    /\ Len(net) <= 2 /\ \A i \in 1..Len(net) : net[i].m = Mine
    /\ Len(net) = 2 => ~net[1].last /\ net[2].last
    /\ call.op \in Kinds => slot[call.op] = "live"

Untimely == h.late \/ (OneOutstanding /\ ~h.wrong /\ ~h.wild /\ (h.unheard => h.torn))

(* The connection is new, or the line loses some of what is on its way.    *)
LEMMA OutstandingLost ==
    ASSUME FuncTypeOK, OneOutstanding, UNCHANGED <<slot, call>>,
           reqs' = reqs \/ reqs' = <<>>,
           net' = net \/ net' = <<>>
    PROVE  OneOutstanding'
<1>1. Len(<<>>) = 0
  OBVIOUS
<1>2. Waiting' = Waiting /\ Mine' = Mine
  BY DEF Waiting, Mine
<1>3. ~Waiting => reqs' = <<>> /\ net' = <<>>
  BY DEF OneOutstanding
<1>4. Len(reqs') <= 1 /\ (reqs' # <<>> => reqs'[1] = Mine /\ net' = <<>>)
  BY <1>1 DEF OneOutstanding
<1>5. Len(net') <= 2 /\ \A i \in 1..Len(net') : net'[i].m = Mine
  BY <1>1 DEF OneOutstanding
<1>6. Len(net') = 2 => ~net'[1].last /\ net'[2].last
  BY <1>1 DEF OneOutstanding
<1> QED BY <1>2, <1>3, <1>4, <1>5, <1>6 DEF OneOutstanding

(* Between two requests there is nothing.                                  *)
LEMMA OutstandingNone ==
    ASSUME reqs' = <<>>, net' = <<>>, call'.op \in Kinds => slot'[call'.op] = "live"
    PROVE  OneOutstanding'
<1>1. Len(<<>>) = 0 /\ 1..0 = {}
  OBVIOUS
<1> QED BY <1>1 DEF OneOutstanding

(* A read, or what a crash leaves: the request still waits.                *)
LEMMA OutstandingPart ==
    ASSUME FuncTypeOK, OneOutstanding, UNCHANGED <<slot, call>>, reqs' = reqs \/ reqs' = <<>>,
           NEW d \in 0..Len(net), net' \in Seq(Frag), Len(net') <= Len(net) - d,
           \A i \in 1..Len(net') : net'[i] = net[d + i]
    PROVE  OneOutstanding'
<1>0. net \in Seq(Frag) /\ Len(net) \in Nat /\ Len(net') \in Nat /\ Len(net) <= 2 /\ Len(<<>>) = 0
  BY DEF FuncTypeOK, OneOutstanding
<1>1. Waiting' = Waiting /\ Mine' = Mine
  BY DEF Waiting, Mine
<1>2. net = <<>> => net' = <<>>
  <2>1. net = <<>> => Len(net') = 0
    BY <1>0
  <2> QED BY <2>1, EmptySeq
<1>3. ~Waiting => reqs' = <<>> /\ net' = <<>>
  BY <1>2 DEF OneOutstanding
<1>4. Len(reqs') <= 1 /\ (reqs' # <<>> => reqs'[1] = Mine /\ net' = <<>>)
  BY <1>0, <1>2 DEF OneOutstanding
<1>5. Len(net') <= 2 /\ \A i \in 1..Len(net') : net'[i].m = Mine
  <2>1. \A i \in 1..Len(net') : d + i \in 1..Len(net)
    BY <1>0
  <2> QED BY <1>0, <2>1 DEF OneOutstanding
<1>6. Len(net') = 2 => ~net'[1].last /\ net'[2].last
  <2> SUFFICES ASSUME Len(net') = 2 PROVE ~net'[1].last /\ net'[2].last
    OBVIOUS
  <2>1. d = 0 /\ Len(net) = 2
    BY <1>0
  <2>2. net'[1] = net[1] /\ net'[2] = net[2]
    BY <2>1
  <2> QED BY <2>1, <2>2 DEF OneOutstanding
<1> QED BY <1>1, <1>3, <1>4, <1>5, <1>6 DEF OneOutstanding

LEMMA UntimelyNext == FuncTypeOK /\ Untimely /\ Next => Untimely'
<1> SUFFICES ASSUME FuncTypeOK, Untimely, Next PROVE Untimely'
  OBVIOUS
<1>0. /\ reqs \in Seq(Msg) /\ net \in Seq(Frag) /\ h \in FuncHistory /\ call \in CallType
      /\ slot \in [Kinds -> {"none", "live", "dead"}] /\ nreq \in Nat
  BY DEF FuncTypeOK, CallType
<1>1. CASE h.late
  <2>1. h'.late
    <3>1. CASE h' = h
      BY <1>1, <3>1
    <3>2. CASE RequestTimeout
      BY <1>0, <1>1, <3>2 DEF RequestTimeout, FuncHistory
    <3>3. CASE OnReadyRead
      BY <1>0, <1>1, <3>3 DEF OnReadyRead, FuncHistory
    <3> QED BY <3>1, <3>2, <3>3 DEF Next, FuncInit, InitReturn, ConnectDone, RetryConnection,
          OnDisconnected, Deinit, NestedCall, Request, RequestReturn, SrvAnswer, SrvCrash, SrvStart,
          SrvUnchanged
  <2> QED BY <2>1 DEF Untimely
<1>2. CASE ~h.late
  <2>0. OneOutstanding /\ ~h.wrong /\ ~h.wild /\ (h.unheard => h.torn)
    BY <1>2 DEF Untimely
  <2>a. ASSUME h' = h, OneOutstanding' PROVE Untimely'
    BY <2>0, <2>a DEF Untimely
  <2>b. call = NoCall => reqs = <<>> /\ net = <<>>
    BY <2>0, KindsAssumption DEF OneOutstanding, Waiting, NoCall
  <2>1. CASE FuncInit
    <3>1. reqs' = <<>> /\ net' = <<>> /\ h' = h
      BY <1>0, <2>b, <2>1, Zenon DEF FuncInit, ConnectToServerInternal, OnConnected, ConnectFails,
                                 ConnectPends
    <3>2. call'.op \notin Kinds
      BY <2>1, KindsAssumption DEF FuncInit, NewCall, NoCall
    <3> QED BY <2>a, <3>1, <3>2, OutstandingNone
  <2>2. CASE InitReturn
    <3>1. call.op \notin Kinds /\ call' = NoCall /\ h' = h /\ UNCHANGED <<reqs, net>>
      BY <2>2, KindsAssumption DEF InitReturn
    <3>2. reqs' = <<>> /\ net' = <<>>
      BY <2>0, <3>1 DEF OneOutstanding, Waiting
    <3>3. call'.op \notin Kinds
      BY <3>1, KindsAssumption DEF NoCall
    <3> QED BY <2>a, <3>1, <3>2, <3>3, OutstandingNone
  <2>3. CASE ConnectDone \/ RetryConnection
    <3>1. Connects(stopping, open) /\ UNCHANGED <<slot, call, h>>
      BY <2>3, ConnectAttempts, ClientTypesOK
    <3>2. (reqs' = reqs \/ reqs' = <<>>) /\ (net' = net \/ net' = <<>>)
      BY <3>1, Zenon DEF Connects, OnConnected, ConnectFails, ConnectPends
    <3> QED BY <2>0, <2>a, <3>1, <3>2, OutstandingLost
  <2>4. CASE OnDisconnected \/ NestedCall \/ SrvStart
    <3>1. UNCHANGED <<slot, call, h, reqs, net>>
      BY <2>4 DEF OnDisconnected, NestedCall, SrvStart, SrvUnchanged, link
    <3> QED BY <2>0, <2>a, <3>1, OutstandingLost
  <2>5. CASE Deinit
    <3>1. UNCHANGED <<slot, call, h>> /\ (reqs' = reqs \/ reqs' = <<>>) /\ (net' = net \/ net' = <<>>)
      BY <2>5, Zenon DEF Deinit
    <3> QED BY <2>0, <2>a, <3>1, OutstandingLost
  <2>6. ASSUME NEW k \in Kinds, Request(k) PROVE Untimely'
    <3>1. h' = h /\ reqs = <<>> /\ net = <<>>
      BY <2>6, <2>b DEF Request
    <3>2. CASE UNCHANGED <<slot, call, reqs, net>>
      BY <2>0, <2>a, <3>1, <3>2, OutstandingLost
    <3>3. CASE slot' = [slot EXCEPT ![k] = "live"] /\ call' = [NewCall(k) EXCEPT !.rid = nreq + 1]
      <4>1. call'.op = k /\ call'.rid = nreq + 1 /\ ~call'.quit
        BY <3>3 DEF NewCall, NoCall
      <4>2. slot'[call'.op] = "live"
        BY <1>0, <3>3, <4>1
      <4>3. CASE reqs' = <<>> /\ net' = <<>>
        BY <2>a, <3>1, <4>2, <4>3, OutstandingNone
      <4>4. CASE reqs' = <<[fn |-> k, rid |-> nreq + 1]>> /\ net' = <<>>
        <5>1. Len(<<>>) = 0 /\ 1..0 = {} /\ Len(reqs') = 1 /\ reqs'[1] = [fn |-> k, rid |-> nreq + 1]
          BY <4>4
        <5>2. Waiting' /\ Mine' = [fn |-> k, rid |-> nreq + 1]
          BY <4>1 DEF Waiting, Mine
        <5> QED BY <2>a, <3>1, <4>2, <4>4, <5>1, <5>2 DEF OneOutstanding
      <4>5. \/ reqs' = reqs \/ reqs' = Append(reqs, [fn |-> k, rid |-> nreq + 1])
        BY <2>6 DEF Request
      <4>6. net' = net \/ net' = <<>>
        BY <2>6 DEF Request
      <4> QED BY <3>1, <4>3, <4>4, <4>5, <4>6
    <3> QED BY <2>6, <3>2, <3>3 DEF Request
  <2>7. CASE RequestTimeout
    BY <1>0, <2>7 DEF RequestTimeout, Untimely, FuncHistory
  <2>8. CASE RequestReturn
    <3>1. call.quit /\ call' = NoCall /\ UNCHANGED <<reqs, net, h>>
      BY <2>8 DEF RequestReturn
    <3>2. reqs' = <<>> /\ net' = <<>> /\ call'.op \notin Kinds
      BY <2>0, <3>1, KindsAssumption DEF OneOutstanding, Waiting, NoCall
    <3> QED BY <2>a, <3>1, <3>2, OutstandingNone
  <2>10. CASE SrvAnswer
    <3>1. UNCHANGED <<slot, call, h>> /\ reqs # <<>> /\ reqs' = Tail(reqs) /\ net' = net \o Frags(Head(reqs))
      BY <2>10 DEF SrvAnswer, SrvUnchanged
    <3>2. Len(reqs) = 1 /\ reqs[1] = Mine /\ net = <<>> /\ Waiting /\ Mine \in Msg /\ Head(reqs) = Mine
      <4>1. Len(reqs) = 1 /\ reqs[1] = Mine /\ net = <<>> /\ Waiting
        <5>1. Len(reqs) \in Nat /\ Len(reqs) # 0
          BY <1>0, <3>1, EmptySeq, LenProperties
        <5>2. Len(reqs) <= 1
          BY <2>0 DEF OneOutstanding
        <5>3. Len(reqs) = 1
          <6> DEFINE n == Len(reqs)
          <6>1. n \in Nat /\ n # 0 /\ n <= 1
            BY <5>1, <5>2, Zenon
          <6> HIDE DEF n
          <6>2. n = 1
            BY <6>1
          <6> QED BY <6>2 DEF n
        <5> QED BY <2>0, <3>1, <5>3, Zenon DEF OneOutstanding
      <4>2. Mine \in Msg
        BY <1>0, <4>1 DEF Waiting, Mine, Msg, CallType
      <4> QED BY <1>0, <3>1, <4>1, <4>2
    <3>3. reqs' = <<>>
      BY <1>0, <3>1, <3>2, HeadTailProperties, EmptySeq
    <3>4. net' = Frags(Mine)
      BY <3>1, <3>2, FragsType, ConcatEmptySeq
    <3>5. /\ Len(net') = 2 /\ net'[1] = [m |-> Mine, last |-> FALSE]
          /\ net'[2] = [m |-> Mine, last |-> TRUE]
      BY <3>2, <3>4, FragsType
    <3>6. Len(<<>>) = 0 /\ \A i \in 1..2 : i = 1 \/ i = 2
      OBVIOUS
    <3>7. Waiting' /\ Mine' = Mine /\ (call'.op \in Kinds => slot'[call'.op] = "live")
      BY <2>0, <3>1, <3>2 DEF Waiting, Mine, OneOutstanding
    <3> QED BY <2>a, <3>1, <3>3, <3>5, <3>6, <3>7 DEF OneOutstanding
  <2>11. CASE SrvCrash
    <3>1. UNCHANGED <<slot, call, h>> /\ reqs' = <<>> /\ \E k \in 0..Len(net) : net' = SubSeq(net, 1, k)
      BY <2>11 DEF SrvCrash, SrvUnchanged
    <3>2. PICK k \in 0..Len(net) : net' = SubSeq(net, 1, k)
      BY <3>1
    <3>3. net' \in Seq(Frag) /\ Len(net') = k /\ \A i \in 1..k : net'[i] = net[i]
      BY <1>0, <3>2, ReadProperties
    <3>4. /\ 0 \in 0..Len(net) /\ Len(net') <= Len(net) - 0
          /\ \A i \in 1..Len(net') : net'[i] = net[0 + i]
      BY <1>0, <3>3, LenProperties
    <3> QED BY <2>0, <2>a, <3>1, <3>3, <3>4, OutstandingPart
  <2>9. CASE OnReadyRead
    <3> DEFINE fs(k) == SubSeq(net, 1, k)
               doc(k) == Document(fs(k))
               to(k) == IF doc(k) = <<>> THEN {} ELSE Receivers(doc(k)[1].fn)
               mine(k) == call.op \in to(k)
    <3>1. PICK k \in 1..Len(net) :
            /\ net' = After(net, k)
            /\ call' = IF mine(k) THEN [call EXCEPT !.quit = TRUE] ELSE call
            /\ h' = [h EXCEPT !.torn = @ \/ k % 2 = 1,
                              !.unheard = @ \/ (doc(k) = <<>> /\ fs(k)[k].last),
                              !.wild = @ \/ \E r \in to(k) : slot[r] = "dead",
                              !.wrong = @ \/ (mine(k) /\ doc(k)[1].rid # call.rid)]
      BY <2>9 DEF OnReadyRead
    <3>2. UNCHANGED <<slot, reqs>>
      BY <2>9 DEF OnReadyRead
    <3>3. /\ fs(k) \in Seq(Frag) /\ Len(fs(k)) = k /\ \A i \in 1..k : fs(k)[i] = net[i]
          /\ After(net, k) \in Seq(Frag) /\ Len(After(net, k)) = Len(net) - k
          /\ \A i \in 1..(Len(net) - k) : After(net, k)[i] = net[k + i]
      BY <1>0, ReadProperties
    <3>4. Len(net) \in 1..2 /\ k \in 1..2 /\ k <= Len(net)
      <4>1. Len(net) \in Nat
        BY <1>0, LenProperties
      <4>2. Len(net) <= 2
        BY <2>0 DEF OneOutstanding
      <4> DEFINE n == Len(net)
      <4>3. n \in Nat /\ n <= 2 /\ k \in 1..n
        BY <4>1, <4>2, Zenon
      <4> HIDE DEF n
      <4>4. n \in 1..2 /\ k \in 1..2 /\ k <= n
        BY <4>3
      <4> QED BY <4>4, Zenon DEF n
    <3>5. CASE k = 1
      <4>1. doc(k) = <<>>
        BY <3>3, <3>5 DEF Document
      <4>2. to(k) = {} /\ ~mine(k)
        BY <4>1
      <4>3. call' = call
        BY <3>1, <4>2
      <4>4. OneOutstanding'
        <5>1. /\ k \in 0..Len(net) /\ net' \in Seq(Frag) /\ Len(net') <= Len(net) - k
              /\ \A i \in 1..Len(net') : net'[i] = net[k + i]
          <6>1. k \in 0..Len(net)
            BY <3>4
          <6>2. net' = After(net, k)
            BY <3>1
          <6>3. Len(net') = Len(net) - k
            BY <3>3, <6>2, Zenon
          <6>4. Len(net') <= Len(net) - k
            BY <3>4, <6>3
          <6> QED BY <3>3, <6>1, <6>2, <6>3, <6>4, Zenon
        <5> QED BY <2>0, <3>2, <4>3, <5>1, OutstandingPart
      <4>5. k % 2 = 1
        BY <3>5
      <4>6. h'.torn /\ ~h'.wild /\ ~h'.wrong
        BY <1>0, <2>0, <3>1, <4>2, <4>5 DEF FuncHistory
      <4> QED BY <4>4, <4>6 DEF Untimely
    <3>6. CASE k = 2
      <4>1. Len(net) = 2 /\ net[1].m = Mine /\ net[2].m = Mine /\ ~net[1].last /\ net[2].last
            /\ net[1] \in Frag /\ net[2] \in Frag
        BY <1>0, <2>0, <3>4, <3>6 DEF OneOutstanding
      <4>2. fs(k)[1] = net[1] /\ fs(k)[2] = net[2] /\ Len(fs(k)) = 2 /\ fs(k) # <<>>
        BY <3>3, <3>6
      <4>3. fs(k) = Frags(fs(k)[1].m)
        <5>1. Mine \in Msg
          BY <4>1 DEF Frag
        <5>2. net[1] = [m |-> Mine, last |-> FALSE] /\ net[2] = [m |-> Mine, last |-> TRUE]
          BY <4>1 DEF Frag
        <5>3. /\ Frags(Mine) \in Seq(Frag) /\ Len(Frags(Mine)) = 2
              /\ Frags(Mine)[1] = net[1] /\ Frags(Mine)[2] = net[2]
          BY <5>1, <5>2, FragsType
        <5>4. \A i \in 1..Len(fs(k)) : fs(k)[i] = Frags(Mine)[i]
          BY <4>2, <5>3
        <5>5. fs(k)[1].m = Mine
          BY <4>1, <4>2
        <5> QED BY <3>3, <4>2, <5>3, <5>4, <5>5, SeqEqual
      <4>4. doc(k) = Objects(fs(k))
        BY <4>2, <4>3 DEF Document
      <4>5. Aligned(fs(k)) = fs(k) /\ ~Blocked(fs(k))
        BY <4>1, <4>2 DEF Aligned, Blocked
      <4>6. Objects(fs(k)) = [i \in 1..(2 \div 2) |-> fs(k)[2 * i].m]
        BY <4>2, <4>5 DEF Objects
      <4>7. DOMAIN doc(k) = 1..1 /\ doc(k)[1] = fs(k)[2].m
        <5> DEFINE f(n) == [i \in 1..n |-> fs(k)[2 * i].m]
        <5>1. 2 \div 2 = 1 /\ 2 * 1 = 2 /\ 1 \in 1..1
          OBVIOUS
        <5>2. doc(k) = f(2 \div 2)
          BY <4>4, <4>6
        <5> HIDE DEF doc
        <5>3. doc(k) = f(1)
          <6> HIDE DEF f
          <6> QED BY <5>1, <5>2
        <5>4. DOMAIN f(1) = 1..1 /\ f(1)[1] = fs(k)[2 * 1].m
          <6> HIDE DEF fs
          <6> QED OBVIOUS
        <5> HIDE DEF f, fs
        <5> QED BY <5>1, <5>3, <5>4
      <4>8. doc(k)[1] = Mine /\ doc(k) # <<>>
        <5>1. doc(k)[1] = Mine
          BY <4>1, <4>2, <4>7, Zenon
        <5> HIDE DEF doc
        <5>2. doc(k) # <<>>
          <6>1. DOMAIN <<>> = {} /\ 1 \in 1..1
            OBVIOUS
          <6> QED BY <4>7, <6>1
        <5> QED BY <5>1, <5>2
      <4>9. Waiting
        BY <2>0, <3>4 DEF OneOutstanding
      <4>10. slot[call.op] = "live" /\ call.op \in Kinds
        BY <2>0, <4>9 DEF OneOutstanding, Waiting
      <4>11. to(k) = {call.op} /\ mine(k)
        BY <4>8, <4>10 DEF Receivers, Mine
      <4>12. doc(k)[1].rid = call.rid
        BY <4>8 DEF Mine
      <4>13. call'.op = call.op /\ call'.quit
        BY <1>0, <3>1, <4>11 DEF CallType
      <4>14. net' = <<>>
        BY <3>1, <3>3, <3>6, <4>1, EmptySeq
      <4>15. reqs' = <<>>
        BY <2>0, <3>2, <3>4 DEF OneOutstanding
      <4>16. OneOutstanding'
        BY <3>2, <4>10, <4>13, <4>14, <4>15, OutstandingNone
      <4>17. (\E r \in to(k) : slot[r] = "dead") = FALSE
        BY <4>10, <4>11
      <4>18. (doc(k) = <<>> /\ fs(k)[k].last) = FALSE /\ (mine(k) /\ doc(k)[1].rid # call.rid) = FALSE
        BY <4>8, <4>12
      <4> HIDE DEF fs, doc, to, mine
      <4>19. ~h'.wild /\ ~h'.wrong /\ h'.unheard = h.unheard /\ (h.torn => h'.torn)
        BY <1>0, <2>0, <3>1, <4>17, <4>18 DEF FuncHistory
      <4> QED BY <2>0, <4>16, <4>19 DEF Untimely
    <3> QED BY <3>4, <3>5, <3>6
  <2> QED BY <2>1, <2>2, <2>3, <2>4, <2>5, <2>6, <2>7, <2>8, <2>9, <2>10, <2>11 DEF Next
<1> QED BY <1>1, <1>2

LEMMA UntimelyAlways == Spec => []Untimely
<1>1. Init => Untimely
  <2> SUFFICES ASSUME Init PROVE Untimely
    OBVIOUS
  <2>1. Len(<<>>) = 0 /\ 1..0 = {}
    OBVIOUS
  <2>2. reqs = <<>> /\ net = <<>> /\ call.op \notin Kinds
    BY KindsAssumption DEF Init, NoCall
  <2>3. OneOutstanding
    BY <2>1, <2>2 DEF OneOutstanding
  <2> QED BY <2>3 DEF Init, Untimely
<1>2. FuncTypeOK /\ Untimely /\ UNCHANGED vars => Untimely'
  <2> SUFFICES ASSUME FuncTypeOK, Untimely, UNCHANGED vars PROVE Untimely'
    OBVIOUS
  <2>1. UNCHANGED <<slot, call, reqs, net, h>>
    BY DEF vars
  <2>2. OneOutstanding => OneOutstanding'
    BY <2>1, OutstandingLost
  <2> QED BY <2>1, <2>2 DEF Untimely
<1>3. FuncTypeOK /\ Untimely /\ [Next]_vars => Untimely'
  BY <1>2, UntimelyNext
<1> QED BY <1>1, <1>3, FuncTypeCorrect, PTL DEF Spec

(* For every number of requests, crashes and reads: a request takes the    *)
(* answer to another one, and a dangling lambda is called, only after a    *)
(* timeout.                                                                *)
THEOREM FuncOwnAnswerCorrect == Spec => []FuncOwnAnswer
<1>1. Untimely => FuncOwnAnswer
  BY DEF Untimely, FuncOwnAnswer
<1> QED BY <1>1, UntimelyAlways, PTL

(* For every number of requests, crashes and reads: onReadyRead, which     *)
(* takes each read for one document, drops the end of an answer only after *)
(* a read that ended inside a message, or after a timeout.                 *)
THEOREM FuncHeardCorrect == Spec => []FuncHeard
<1>1. Untimely => FuncHeard
  BY DEF Untimely, FuncHeard
<1> QED BY <1>1, UntimelyAlways, PTL
=============================================================================
