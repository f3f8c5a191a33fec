-------------------------- MODULE DevClientProofs --------------------------
(* Theorems about the device-service client, for every value of the        *)
(* constants and any number of faults, events and nested calls.            *)
EXTENDS DevRefinement, JsonStreamProofs

(* What extractJsonObjects takes from a buffer of fragments are messages,  *)
(* what it leaves are fragments.                                           *)
LEMMA ExtractType ==
    ASSUME NEW fs \in Seq(Frag)
    PROVE  Objects(fs) \in Seq(Msg) /\ Leftover(fs) \in Seq(Frag)
<1>1. Frag = FragOf(Msg)
  BY DEF Frag, FragOf
<1> QED BY <1>1, ExtractProperties

(* New frames are frames, and a frame on a stack makes a stack.            *)
LEMMA FrameType ==
    ASSUME NEW op \in Op, NEW pc \in Pc
    PROVE  NewFrame(op, pc) \in Frame
  BY DEF NewFrame, Frame

LEMMA PushType ==
    ASSUME NEW f \in Frame, NEW s \in Seq(Frame)
    PROVE  Push(f, s) \in Seq(Frame)
  BY DEF Push

(* The frames below the top one, and the top one, of a non-empty stack.    *)
LEMMA StackType ==
    ASSUME stk \in Seq(Frame), stk # <<>>
    PROVE  Below \in Seq(Frame) /\ Head(stk) \in Frame
  BY DEF Below

LEMMA AfterType ==
    ASSUME NEW S, NEW ms \in Seq(S), NEW i \in 0..Len(ms)
    PROVE  After(ms, i) \in Seq(S)
  BY DEF After

(* The versions found in a buffer are numbers.                             *)
LEMMA IndFragsType ==
    ASSUME NEW fs \in Seq(Frag)
    PROVE  IndFrags(fs) \in SUBSET Nat
<1>1. ASSUME NEW i \in DOMAIN fs PROVE fs[i].m.n \in Nat
  <2>1. fs[i] \in Frag
    OBVIOUS
  <2>2. fs[i].m \in Msg
    BY <2>1 DEF Frag
  <2> QED BY <2>2 DEF Msg
<1> QED BY <1>1 DEF IndFrags

LEMMA UnreadType == TypeOK => Unread \in SUBSET Nat
  BY IndFragsType DEF TypeOK, Unread

LEMMA TypeInit == Init => TypeOK
<1> SUFFICES ASSUME Init PROVE TypeOK
  OBVIOUS
<1>1. h \in History
  BY DEF Init, History
<1>2. stk \in Seq(Frame) /\ rx \in Seq(Frag) /\ net \in Seq(Frag) /\ buf \in Seq(Frag)
      /\ reqs \in Seq(Req)
  BY DEF Init
<1> QED BY <1>1, <1>2 DEF Init, TypeOK

(* dispatchJsonMessage leaves a stack and a history.                       *)
LEMMA DispatchType ==
    ASSUME TypeOK, NEW m \in Msg, NEW s \in Seq(Frame), Dispatch(m, s), UNCHANGED <<rx, wire>>
    PROVE  TypeOK'
<1>1. Push(NewFrame("cb", "run"), s) \in Seq(Frame)
  BY FrameType, PushType DEF Op, Pc
<1>2. Answered(s, m.ok) \in Seq(Frame)
  <2> DEFINE a(i) == IF s[i].op = "reset"
                     THEN [s[i] EXCEPT !.pc = "ret", !.ok = @ \/ m.ok] ELSE s[i]
  <2>1. ASSUME NEW i \in 1..Len(s) PROVE a(i) \in Frame
    <3>1. s[i] \in Frame /\ m.ok \in BOOLEAN
      BY DEF Msg
    <3>2. [s[i] EXCEPT !.pc = "ret", !.ok = @ \/ m.ok] \in Frame
      BY <3>1 DEF Frame, Pc
    <3> QED BY <3>1, <3>2
  <2>2. DOMAIN s = 1..Len(s) /\ Len(s) \in Nat
    OBVIOUS
  <2>3. Answered(s, m.ok) = [i \in 1..Len(s) |-> a(i)]
    BY <2>2 DEF Answered
  <2> HIDE DEF a
  <2> QED BY <2>1, <2>2, <2>3
<1>3. stk' \in Seq(Frame)
  BY <1>1, <1>2 DEF Dispatch
<1>4. h' \in History
  <2>1. h \in History /\ m.n \in Nat
    BY DEF TypeOK, Msg
  <2>2. Append(h.delivered, m.n) \in Seq(Nat)
    BY <2>1 DEF History
  <2> QED BY <2>1, <2>2 DEF Dispatch, History
<1> QED BY <1>3, <1>4 DEF TypeOK, Dispatch, link, service, wire, count

(* A connection attempt, whatever comes of it.                             *)
LEMMA ConnectType ==
    ASSUME TypeOK, NEW s \in Seq(Frame), NEW stop \in BOOLEAN, NEW o \in BOOLEAN,
           OnConnected(s) \/ ConnectFails(s, stop, o) \/ ConnectPends(s, o),
           UNCHANGED <<device, nreq>>, calls' \in Nat, stopping' \in BOOLEAN,
           func' \in SUBSET SignalType, slot' \in {"none", "live", "dead"}
    PROVE  TypeOK'
<1>1. CASE OnConnected(s)
  <2>1. h' \in History
    <3>1. h \in History /\ Unread \in SUBSET Nat
      BY UnreadType DEF TypeOK
    <3> QED BY <1>1, <3>1 DEF OnConnected, History, SignalType
  <2>2. stk' \in Seq(Frame)
    <3>1. [NewFrame("refresh", "run") EXCEPT !.todo = Events] \in Frame
      <4>1. Events \in Seq(SignalType)
        BY DEF Events, SignalType
      <4>2. NewFrame("refresh", "run") \in Frame
        BY FrameType DEF Op, Pc
      <4> QED BY <4>1, <4>2 DEF Frame
    <3> QED BY <1>1, <3>1, PushType DEF OnConnected
  <2>3. /\ sock' = "connected" /\ open' = TRUE /\ timer' = FALSE /\ rx' = <<>>
        /\ conn' = TRUE /\ reqs' = <<>> /\ subs' = {} /\ net' = <<>> /\ buf' = <<>>
        /\ faults' = faults
    BY <1>1 DEF OnConnected, StopReconnectTimer
  <2>4. /\ rx' \in Seq(Frag) /\ net' \in Seq(Frag) /\ buf' \in Seq(Frag)
        /\ reqs' \in Seq(Req) /\ subs' \in SUBSET SignalType
    BY <2>3
  <2>5. sock' \in {"none", "null", "unconnected", "connecting", "connected"}
    BY <2>3
  <2> QED BY <2>1, <2>2, <2>3, <2>4, <2>5 DEF TypeOK, device
<1>2. CASE ConnectFails(s, stop, o)
  BY <1>2 DEF TypeOK, ConnectFails, StartReconnectTimer, device, session
<1>3. CASE ConnectPends(s, o)
  BY <1>3 DEF TypeOK, ConnectPends, device, session
<1> QED BY <1>1, <1>2, <1>3

(* Writing a request, or not.                                              *)
LEMMA WriteType ==
    ASSUME TypeOK, NEW fn \in {"get", "event"}, NEW t \in SignalType,
           NEW w \in Frame, NEW e \in Frame, NEW s \in Seq(Frame),
           SyncWrite(fn, t, w, e, s) \/ NoWrite(e, s),
           CallUnchanged, calls' \in Nat, func' \in SUBSET SignalType
    PROVE  TypeOK'
<1>1. [w EXCEPT !.rid = nreq + 1] \in Frame /\ nreq + 1 \in Nat
  <2>1. nreq + 1 \in Nat
    BY DEF TypeOK
  <2> QED BY <2>1 DEF Frame
<1>2. Push(e, s) \in Seq(Frame) /\ Push([w EXCEPT !.rid = nreq + 1], s) \in Seq(Frame)
  BY <1>1, PushType
<1>3. Append(reqs, [fn |-> fn, t |-> t, rid |-> nreq + 1]) \in Seq(Req)
  <2>1. [fn |-> fn, t |-> t, rid |-> nreq + 1] \in Req
    BY <1>1 DEF Req
  <2> QED BY <2>1 DEF TypeOK
<1>4. /\ stk' \in {Push(e, s), Push([w EXCEPT !.rid = nreq + 1], s)}
      /\ reqs' \in {reqs, Append(reqs, [fn |-> fn, t |-> t, rid |-> nreq + 1])}
      /\ nreq' \in {nreq, nreq + 1} /\ faults' \in {faults, faults + 1}
      /\ sock' \in {sock, "unconnected"}
      /\ net' = net \/ net' = <<>>
      /\ buf' = buf \/ buf' = <<>> \/ buf' = buf \o net
  BY DEF SyncWrite, NoWrite, wire
<1>5. net' \in Seq(Frag) /\ buf' \in Seq(Frag)
  <2>1. net \in Seq(Frag) /\ buf \in Seq(Frag) /\ buf \o net \in Seq(Frag)
    BY DEF TypeOK
  <2>2. <<>> \in Seq(Frag)
    OBVIOUS
  <2> QED BY <2>1, <2>2, <1>4
<1>6. h' \in History
  <2>1. h \in History /\ IndFrags(net) \in SUBSET Nat /\ IndFrags(buf) \in SUBSET Nat
    BY IndFragsType DEF TypeOK
  <2>2. [h EXCEPT !.expired = @ \/ fn = "get"] \in History
    BY <2>1 DEF History
  <2>3. [h EXCEPT !.silent = TRUE, !.lost = @ \union IndFrags(net) \union IndFrags(buf)] \in History
    BY <2>1 DEF History
  <2> QED BY <2>1, <2>2, <2>3 DEF SyncWrite, NoWrite
<1>7. stk' \in Seq(Frame) /\ reqs' \in Seq(Req)
  <2>1. reqs \in Seq(Req)
    BY DEF TypeOK
  <2> QED BY <2>1, <1>2, <1>3, <1>4
<1>8. nreq' \in Nat /\ faults' \in Nat
  <2>1. nreq \in Nat /\ faults \in Nat
    BY DEF TypeOK
  <2> QED BY <2>1, <1>4
<1>9. sock' \in {"none", "null", "unconnected", "connecting", "connected"}
  BY <1>4 DEF TypeOK
<1> QED BY <1>5, <1>6, <1>7, <1>8, <1>9 DEF TypeOK, CallUnchanged, device

LEMMA GetType ==
    ASSUME TypeOK, NEW s \in Seq(Frame), GetDeviceinfo(s), calls' \in Nat
    PROVE  TypeOK'
<1>1. NewFrame("get", "wait") \in Frame /\ NewFrame("get", "ret") \in Frame
  BY FrameType DEF Op, Pc
<1>2. "CHANGED" \in SignalType
  BY DEF SignalType
<1> QED BY <1>1, <1>2, WriteType DEF GetDeviceinfo, TypeOK

LEMMA SubType ==
    ASSUME TypeOK, NEW t \in SignalType, NEW s \in Seq(Frame), SubscribeDeviceEvent(t, s),
           calls' \in Nat
    PROVE  TypeOK'
<1> DEFINE f(pc) == [NewFrame("sub", pc) EXCEPT !.todo = <<t>>]
<1>1. ASSUME NEW pc \in Pc PROVE f(pc) \in Frame
  <2>1. NewFrame("sub", pc) \in Frame
    BY FrameType DEF Op
  <2>2. <<t>> \in Seq(SignalType)
    OBVIOUS
  <2> QED BY <2>1, <2>2 DEF Frame
<1>2. f("wait") \in Frame /\ f("left") \in Frame /\ [f("ret") EXCEPT !.ok = TRUE] \in Frame
  <2>1. f("ret") \in Frame /\ f("wait") \in Frame /\ f("left") \in Frame
    BY <1>1 DEF Pc
  <2> HIDE DEF f
  <2> QED BY <2>1 DEF Frame
<1>3. func' \in SUBSET SignalType
  BY DEF SubscribeDeviceEvent, TypeOK
<1>4. \/ NoWrite([f("ret") EXCEPT !.ok = TRUE], s)
      \/ SyncWrite("event", t, f("wait"), f("left"), s)
  BY DEF SubscribeDeviceEvent
<1>5. CallUnchanged
  BY DEF SubscribeDeviceEvent
<1> HIDE DEF f
<1> QED BY <1>2, <1>3, <1>4, <1>5, WriteType

(* A pop of the stack, nothing else.                                       *)
LEMMA PopType ==
    ASSUME TypeOK, stk # <<>>, stk' = Below, UNCHANGED <<func, rx, service, wire, count, h>>,
           UNCHANGED <<sock, open, stopping>>, timer' \in BOOLEAN,
           slot' \in {"none", "live", "dead"}
    PROVE  TypeOK'
<1>1. stk' \in Seq(Frame)
  BY StackType DEF TypeOK
<1> QED BY <1>1 DEF TypeOK, service, wire, count

LEMMA UnwindType == TypeOK /\ Unwind => TypeOK'
<1> SUFFICES ASSUME TypeOK, Unwind PROVE TypeOK'
  OBVIOUS
<1> DEFINE f == Head(stk)
<1>0. stk # <<>> => Below \in Seq(Frame) /\ f \in Frame
  BY StackType DEF TypeOK
<1>1. CASE InitReturn
  <2>1. timer' \in BOOLEAN
    BY <1>1 DEF InitReturn, StartReconnectTimer, TypeOK
  <2> QED BY <1>1, <2>1, PopType DEF InitReturn, Running, TypeOK
<1>2. CASE HandleNext
  <2>1. f \in Frame /\ Below \in Seq(Frame) /\ f.list # <<>>
    BY <1>0, <1>2 DEF HandleNext, Running
  <2>2. Head(f.list) \in Msg /\ Tail(f.list) \in Seq(Msg)
    BY <2>1 DEF Frame
  <2>3. [f EXCEPT !.list = Tail(@)] \in Frame
    BY <2>1, <2>2 DEF Frame
  <2>4. Top([f EXCEPT !.list = Tail(@)]) \in Seq(Frame)
    BY <2>1, <2>3, PushType DEF Top
  <2> QED BY <1>2, <2>2, <2>4, DispatchType DEF HandleNext
<1>3. CASE HandleDone
  BY <1>3, PopType DEF HandleDone, Running, TypeOK, link
<1>4. CASE CallbackReturn
  BY <1>4, PopType DEF CallbackReturn, Running, TypeOK, link
<1>5. CASE LeftoverNext \/ PendingNext
  <2>1. f \in Frame /\ Below \in Seq(Frame)
    BY <1>0, <1>5 DEF LeftoverNext, PendingNext, Running
  <2>2. PICK i \in DOMAIN f.list : Dispatch(f.list[i], Top([f EXCEPT !.list = After(@, i)]))
    BY <1>5 DEF LeftoverNext, PendingNext
  <2>3. f.list \in Seq(Msg)
    BY <2>1 DEF Frame
  <2>4. f.list[i] \in Msg /\ i \in 0..Len(f.list)
    BY <2>3
  <2>5. After(f.list, i) \in Seq(Msg)
    BY <2>3, <2>4, AfterType
  <2>6. [f EXCEPT !.list = After(@, i)] \in Frame
    BY <2>1, <2>5 DEF Frame
  <2>7. Top([f EXCEPT !.list = After(@, i)]) \in Seq(Frame)
    BY <2>1, <2>6, PushType DEF Top
  <2> QED BY <1>5, <2>2, <2>4, <2>7, DispatchType DEF LeftoverNext, PendingNext
<1>6. CASE LeftoverDone
  <2>1. f \in Frame /\ Below \in Seq(Frame)
    BY <1>0, <1>6 DEF LeftoverDone, Running
  <2>2. [f EXCEPT !.pc = "ind", !.list = f.raw] \in Frame
    BY <2>1 DEF Frame, Pc
  <2>3. stk' \in Seq(Frame)
    BY <1>6, <2>1, <2>2, PushType DEF LeftoverDone, Top
  <2> QED BY <1>6, <2>3 DEF LeftoverDone, TypeOK, link, service, wire, count
<1>7. CASE DrainSocketMessages
  <2>1. f \in Frame /\ Below \in Seq(Frame)
    BY <1>0, <1>7 DEF DrainSocketMessages, Running
  <2>2. Objects(rx \o buf) \in Seq(Msg) /\ Leftover(rx \o buf) \in Seq(Frag)
    <3>1. rx \o buf \in Seq(Frag)
      BY DEF TypeOK
    <3> QED BY <3>1, ExtractType
  <2>3. [f EXCEPT !.pc = "ret", !.list = <<>>] \in Frame
    <3>1. <<>> \in Seq(Msg)
      OBVIOUS
    <3> QED BY <2>1, <3>1 DEF Frame, Pc
  <2>4. [NewFrame("drain", "run") EXCEPT !.list = Objects(rx \o buf)] \in Frame
    <3>1. NewFrame("drain", "run") \in Frame
      BY FrameType DEF Op, Pc
    <3> QED BY <2>2, <3>1 DEF Frame
  <2>5. stk' \in Seq(Frame)
    BY <1>7, <2>1, <2>3, <2>4, PushType DEF DrainSocketMessages, Top
  <2>6. buf' \in Seq(Frag) /\ rx' \in Seq(Frag)
    BY <1>7, <2>2 DEF DrainSocketMessages
  <2> QED BY <1>7, <2>5, <2>6 DEF DrainSocketMessages, TypeOK, link, service, count
<1>8. CASE GetReturn
  <2>1. f \in Frame /\ Below \in Seq(Frame)
    BY <1>0, <1>8 DEF GetReturn, Running
  <2>2. Below # <<>> => Head(Below) \in Frame /\ Tail(Below) \in Seq(Frame)
    BY <2>1
  <2>3. ASSUME NEW i \in DOMAIN f.raw, Below # <<>>
        PROVE  Push([Head(Below) EXCEPT !.pc = "ret", !.raw = <<f.raw[i]>>], Tail(Below))
                  \in Seq(Frame)
    <3>1. f.raw[i] \in Msg
      BY <2>1 DEF Frame
    <3>2. <<f.raw[i]>> \in Seq(Msg)
      BY <3>1
    <3>3. [Head(Below) EXCEPT !.pc = "ret", !.raw = <<f.raw[i]>>] \in Frame
      BY <2>2, <2>3, <3>2 DEF Frame, Pc
    <3> QED BY <2>2, <2>3, <3>3, PushType
  <2>4. stk' \in Seq(Frame)
    BY <1>8, <2>1, <2>2, <2>3 DEF GetReturn
  <2> QED BY <1>8, <2>4 DEF GetReturn, TypeOK, link, service, wire, count
<1>9. CASE SubReturn
  <2>1. f \in Frame /\ Below \in Seq(Frame)
    BY <1>0, <1>9 DEF SubReturn, Running
  <2>2. {f.todo[i] : i \in DOMAIN f.todo} \in SUBSET SignalType
    <3>1. f.todo \in Seq(SignalType)
      BY <2>1 DEF Frame
    <3> QED BY <3>1
  <2>3. h' \in History
    BY <1>9, <2>2 DEF SubReturn, TypeOK, History
  <2> QED BY <1>9, <2>1, <2>3 DEF SubReturn, TypeOK, link, service, wire, count
<1>10. CASE RefreshSubscribe
  <2>1. f \in Frame /\ Below \in Seq(Frame)
    BY <1>0, <1>10 DEF RefreshSubscribe, Running
  <2>2. PICK i \in DOMAIN f.todo :
          SubscribeDeviceEvent(f.todo[i], Top([f EXCEPT !.todo = After(@, i), !.ok = TRUE]))
    BY <1>10 DEF RefreshSubscribe
  <2>3. f.todo \in Seq(SignalType)
    BY <2>1 DEF Frame
  <2>4. f.todo[i] \in SignalType /\ i \in 0..Len(f.todo)
    BY <2>3
  <2>5. After(f.todo, i) \in Seq(SignalType)
    BY <2>3, <2>4, AfterType
  <2>6. [f EXCEPT !.todo = After(@, i), !.ok = TRUE] \in Frame
    BY <2>1, <2>5 DEF Frame
  <2>7. Top([f EXCEPT !.todo = After(@, i), !.ok = TRUE]) \in Seq(Frame)
    BY <2>1, <2>6, PushType DEF Top
  <2>8. calls' \in Nat
    BY <1>10 DEF RefreshSubscribe, TypeOK
  <2> QED BY <2>2, <2>4, <2>7, <2>8, SubType
<1>11. CASE RefreshGet
  <2>1. f \in Frame /\ Below \in Seq(Frame)
    BY <1>0, <1>11 DEF RefreshGet, Running
  <2>2. [f EXCEPT !.pc = "wait"] \in Frame
    BY <2>1 DEF Frame, Pc
  <2>3. Top([f EXCEPT !.pc = "wait"]) \in Seq(Frame)
    BY <2>1, <2>2, PushType DEF Top
  <2>4. calls' \in Nat
    BY <1>11 DEF RefreshGet, TypeOK
  <2> QED BY <1>11, <2>3, <2>4, GetType DEF RefreshGet
<1>12. CASE RefreshNothing
  BY <1>12, PopType DEF RefreshNothing, Running, TypeOK, link
<1>13. CASE RefreshReport
  <2>1. Below \in Seq(Frame)
    BY <1>0, <1>13 DEF RefreshReport, Running
  <2>2. Top(NewFrame("cb", "run")) \in Seq(Frame)
    BY <2>1, FrameType, PushType DEF Top, Op, Pc
  <2>3. stk' \in Seq(Frame)
    BY <1>13, <2>1, <2>2 DEF RefreshReport
  <2> QED BY <1>13, <2>3 DEF RefreshReport, TypeOK, link, service, wire, count
<1>14. CASE ResetReturn
  BY <1>14, PopType DEF ResetReturn, Running, TypeOK, link
<1> QED BY <1>1, <1>2, <1>3, <1>4, <1>5, <1>6, <1>7, <1>8, <1>9, <1>10, <1>11, <1>12,
           <1>13, <1>14 DEF Unwind

LEMMA WaitingType == TypeOK /\ Waiting => TypeOK'
<1> SUFFICES ASSUME TypeOK, Waiting PROVE TypeOK'
  OBVIOUS
<1> DEFINE f == Head(stk)
<1>1. f \in Frame /\ Below \in Seq(Frame)
  BY StackType DEF TypeOK, Waiting, SyncRead, SyncTimeout, SyncEof, ResetTimeout, Syncing,
     Running
<1>2. ASSUME NEW g \in Frame PROVE EndWait(g) \in Frame
  BY <1>2 DEF EndWait, Frame, Pc
<1>3. CASE SyncRead
  <2>1. PICK k \in {Len(net) - 1, Len(net)} :
          /\ buf # <<>> \/ k \in 1..Len(net)
          /\ LET chunk == IF buf # <<>> THEN buf ELSE SubSeq(net, 1, k)
                 all == rx \o chunk
                 r == [f EXCEPT !.raw = @ \o Objects(all)]
             IN  /\ buf' = <<>>
                 /\ net' = IF buf # <<>> THEN net ELSE After(net, k)
                 /\ rx' = Leftover(all)
                 /\ stk' = Top(IF HasAnswer(r.op, r.raw) THEN EndWait(r) ELSE r)
    BY <1>3 DEF SyncRead
  <2> DEFINE chunk == IF buf # <<>> THEN buf ELSE SubSeq(net, 1, k)
             all == rx \o chunk
             r == [f EXCEPT !.raw = @ \o Objects(all)]
  <2>2. rx \in Seq(Frag) /\ buf \in Seq(Frag) /\ net \in Seq(Frag)
    BY DEF TypeOK
  <2>3. buf = <<>> => SubSeq(net, 1, k) \in Seq(Frag) /\ After(net, k) \in Seq(Frag)
    BY <2>1, <2>2 DEF After
  <2>4. all \in Seq(Frag)
    BY <2>2, <2>3
  <2>5. Objects(all) \in Seq(Msg) /\ Leftover(all) \in Seq(Frag)
    BY <2>4, ExtractType
  <2>6. r \in Frame
    <3>1. f.raw \o Objects(all) \in Seq(Msg)
      BY <1>1, <2>5 DEF Frame
    <3> HIDE DEF all
    <3> QED BY <1>1, <3>1 DEF Frame
  <2>7. stk' = Top(IF HasAnswer(r.op, r.raw) THEN EndWait(r) ELSE r) /\ rx' = Leftover(all)
    BY <2>1
  <2>8. net' \in Seq(Frag) /\ buf' \in Seq(Frag)
    BY <2>1, <2>2, <2>3
  <2> HIDE DEF all, r
  <2>9. (IF HasAnswer(r.op, r.raw) THEN EndWait(r) ELSE r) \in Frame
    BY <1>2, <2>6
  <2>10. stk' \in Seq(Frame)
    BY <1>1, <2>7, <2>9, PushType DEF Top
  <2>11. h' \in History
    BY <1>3 DEF SyncRead, TypeOK, History
  <2> QED BY <1>3, <2>5, <2>7, <2>8, <2>10, <2>11 DEF SyncRead, TypeOK, link, service, count
<1>4. CASE SyncTimeout \/ SyncEof
  <2>1. stk' \in Seq(Frame)
    BY <1>1, <1>2, <1>4, PushType DEF SyncTimeout, SyncEof, Top
  <2>2. h' \in History
    BY <1>4 DEF SyncTimeout, SyncEof, TypeOK, History
  <2>3. faults' \in Nat
    <3>1. faults' = faults \/ faults' = faults + 1
      BY <1>4 DEF SyncTimeout, SyncEof, count
    <3> QED BY <3>1 DEF TypeOK
  <2>4. sock' \in {sock, "unconnected"} /\ open' \in {open, FALSE}
        /\ UNCHANGED <<timer, stopping, func, rx, slot, service, wire, calls, nreq>>
    BY <1>4 DEF SyncTimeout, SyncEof, link, count
  <2> QED BY <2>1, <2>2, <2>3, <2>4 DEF TypeOK, service, wire
<1>5. CASE ResetTimeout
  <2>1. [f EXCEPT !.pc = "ret"] \in Frame
    BY <1>1 DEF Frame, Pc
  <2>2. stk' \in Seq(Frame)
    BY <1>1, <1>5, <2>1, PushType DEF ResetTimeout, Top
  <2>3. h' \in History
    BY <1>5 DEF ResetTimeout, TypeOK, History
  <2> QED BY <1>5, <2>2, <2>3 DEF ResetTimeout, TypeOK, link, service, wire, count
<1> QED BY <1>3, <1>4, <1>5 DEF Waiting

LEMMA LoopEventType == TypeOK /\ LoopEvent => TypeOK'
<1> SUFFICES ASSUME TypeOK, LoopEvent PROVE TypeOK'
  OBVIOUS
<1>1. CASE OnReadyRead
  <2>1. PICK k \in 1..Len(net) :
          LET all == rx \o buf \o SubSeq(net, 1, k)
          IN  /\ net' = After(net, k)
              /\ IF OnStack("onReadyRead")
                 THEN buf' = buf \o SubSeq(net, 1, k) /\ UNCHANGED <<rx, stk>>
                 ELSE /\ buf' = <<>>
                      /\ rx' = Leftover(all)
                      /\ stk' = Push([NewFrame("onReadyRead", "run")
                                        EXCEPT !.list = Objects(all)], stk)
    BY <1>1 DEF OnReadyRead
  <2> DEFINE all == rx \o buf \o SubSeq(net, 1, k)
  <2>2. /\ rx \in Seq(Frag) /\ buf \in Seq(Frag) /\ net \in Seq(Frag)
        /\ SubSeq(net, 1, k) \in Seq(Frag) /\ After(net, k) \in Seq(Frag)
    BY DEF TypeOK, After
  <2>3. all \in Seq(Frag) /\ buf \o SubSeq(net, 1, k) \in Seq(Frag)
    BY <2>2
  <2>4. Objects(all) \in Seq(Msg) /\ Leftover(all) \in Seq(Frag)
    BY <2>3, ExtractType
  <2>5. Push([NewFrame("onReadyRead", "run") EXCEPT !.list = Objects(all)], stk) \in Seq(Frame)
    <3>1. NewFrame("onReadyRead", "run") \in Frame
      BY FrameType DEF Op, Pc
    <3>2. [NewFrame("onReadyRead", "run") EXCEPT !.list = Objects(all)] \in Frame
      BY <2>4, <3>1 DEF Frame
    <3> QED BY <3>2, PushType DEF TypeOK
  <2>6. net' \in Seq(Frag) /\ buf' \in Seq(Frag)
    <3>1. net' = After(net, k) /\ (buf' = buf \o SubSeq(net, 1, k) \/ buf' = <<>>)
      BY <2>1
    <3>2. <<>> \in Seq(Frag)
      OBVIOUS
    <3> QED BY <2>2, <2>3, <3>1, <3>2
  <2>7. rx' \in Seq(Frag) /\ stk' \in Seq(Frame)
    BY <2>1, <2>4, <2>5 DEF TypeOK
  <2> QED BY <1>1, <2>6, <2>7 DEF OnReadyRead, TypeOK, link, service, count
<1>2. CASE OnDisconnected
  <2>1. h' \in History
    BY <1>2, IndFragsType DEF TypeOK, OnDisconnected, History
  <2>2. rx' \in Seq(Frag)
    BY <1>2 DEF OnDisconnected
  <2>3. open' \in BOOLEAN /\ timer' \in BOOLEAN
    BY <1>2 DEF TypeOK, OnDisconnected, StartReconnectTimer
  <2> QED BY <1>2, <2>1, <2>2, <2>3 DEF TypeOK, OnDisconnected, service, wire, count
<1>3. CASE RetryConnection
  BY <1>3, ConnectType DEF RetryConnection, ConnectToServer, TypeOK
<1>4. CASE ConnectDone
  BY <1>4, ConnectType DEF ConnectDone, TypeOK
<1> QED BY <1>1, <1>2, <1>3, <1>4 DEF LoopEvent

LEMMA AppType == TypeOK /\ App => TypeOK'
<1> SUFFICES ASSUME TypeOK, App PROVE TypeOK'
  OBVIOUS
<1>0. calls + 1 \in Nat /\ faults + 1 \in Nat /\ nreq + 1 \in Nat
  BY DEF TypeOK
<1>1. CASE DevInit
  <2>1. <<NewFrame("init", "run")>> \in Seq(Frame)
    <3>1. NewFrame("init", "run") \in Frame
      BY FrameType DEF Op, Pc
    <3> QED BY <3>1
  <2> QED BY <1>0, <1>1, <2>1, ConnectType DEF DevInit, ConnectToServer
<1>2. CASE Deinit
  <2>1. h' \in History
    <3>1. h \in History /\ Unread \in SUBSET Nat /\ IndFrags(rx) \in SUBSET Nat
      BY UnreadType, IndFragsType DEF TypeOK
    <3> QED BY <1>2, <3>1 DEF Deinit, History
  <2>2. /\ rx' \in Seq(Frag) /\ net' \in Seq(Frag) /\ buf' \in Seq(Frag)
        /\ reqs' \in Seq(Req)
    <3>1. /\ rx' = <<>> /\ (net' = net \/ net' = <<>>) /\ (buf' = buf \/ buf' = <<>>)
          /\ (reqs' = reqs \/ reqs' = <<>>)
      BY <1>2 DEF Deinit, EndSession, session
    <3>2. /\ net \in Seq(Frag) /\ buf \in Seq(Frag) /\ reqs \in Seq(Req)
          /\ <<>> \in Seq(Frag) /\ <<>> \in Seq(Req)
      BY DEF TypeOK
    <3> QED BY <3>1, <3>2
  <2>3. /\ sock' \in {sock, "null", "unconnected"} /\ open' \in {open, FALSE}
        /\ timer' = FALSE /\ stopping' = TRUE /\ calls' = calls + 1
        /\ faults' \in {faults, faults + 1} /\ conn' \in {conn, FALSE}
        /\ subs' \in {subs, {}} /\ UNCHANGED <<func, slot, stk, up, present, ver, nreq>>
    BY <1>2 DEF Deinit, StopReconnectTimer, EndSession, session, device
  <2> QED BY <1>0, <2>1, <2>2, <2>3 DEF TypeOK
<1>3. CASE ResetDevice
  <2>1. NewFrame("reset", "ret") \in Frame /\ NewFrame("reset", "wait") \in Frame
    BY FrameType DEF Op, Pc
  <2>2. [NewFrame("reset", "ret") EXCEPT !.ok = TRUE] \in Frame
    BY <2>1 DEF Frame
  <2>3. stk' \in Seq(Frame)
    BY <1>3, <2>1, <2>2, PushType DEF ResetDevice, NoWrite, TypeOK
  <2>4. h' \in History
    <3>1. h \in History /\ Unread \in SUBSET Nat
      BY UnreadType DEF TypeOK
    <3>2. [h EXCEPT !.lost = @ \union Unread, !.silent = FALSE] \in History
      BY <3>1 DEF History
    <3> QED BY <1>3, <3>1, <3>2 DEF ResetDevice, NoWrite
  <2>5. reqs' \in Seq(Req)
    <3>1. [fn |-> "reset", t |-> "CHANGED", rid |-> nreq + 1] \in Req
      BY <1>0 DEF Req, SignalType
    <3>2. Append(reqs, [fn |-> "reset", t |-> "CHANGED", rid |-> nreq + 1]) \in Seq(Req)
      BY <3>1 DEF TypeOK
    <3>3. \/ reqs' = reqs
          \/ reqs' = Append(reqs, [fn |-> "reset", t |-> "CHANGED", rid |-> nreq + 1])
      BY <1>3 DEF ResetDevice, NoWrite
    <3> QED BY <3>2, <3>3 DEF TypeOK
  <2>6. rx' \in Seq(Frag) /\ net' \in Seq(Frag) /\ buf' \in Seq(Frag)
    <3>1. /\ (rx' = rx \/ rx' = <<>>) /\ (net' = net \/ net' = <<>>)
          /\ (buf' = buf \/ buf' = <<>>)
      BY <1>3 DEF ResetDevice, NoWrite, wire
    <3>2. rx \in Seq(Frag) /\ net \in Seq(Frag) /\ buf \in Seq(Frag) /\ <<>> \in Seq(Frag)
      BY DEF TypeOK
    <3> QED BY <3>1, <3>2
  <2>7. /\ sock' \in {sock, "unconnected"} /\ open' \in {open, FALSE} /\ calls' = calls + 1
        /\ nreq' \in {nreq, nreq + 1} /\ slot' \in {slot, "live"}
        /\ UNCHANGED <<stopping, func, conn, subs, up, present, ver, faults>>
    BY <1>3 DEF ResetDevice, NoWrite, device
  <2>8. timer' \in BOOLEAN
    BY <1>3 DEF ResetDevice, StartReconnectTimer, TypeOK
  <2> QED BY <1>0, <2>3, <2>4, <2>5, <2>6, <2>7, <2>8 DEF TypeOK
<1>4. CASE AppGet
  BY <1>0, <1>4, GetType DEF AppGet, TypeOK
<1>5. ASSUME NEW t \in AppTypes, AppSubscribe(t) PROVE TypeOK'
  <2>1. t \in SignalType
    BY ConstantsAssumption
  <2> QED BY <1>0, <1>5, <2>1, SubType DEF AppSubscribe, TypeOK
<1>6. CASE ResetLocks
  <2>1. NewFrame("lock", "wait") \in Frame
    BY FrameType DEF Op, Pc
  <2>2. stk' \in Seq(Frame)
    BY <1>6, <2>1, PushType DEF ResetLocks, TypeOK
  <2> QED BY <1>0, <1>6, <2>2 DEF ResetLocks, TypeOK, link, service, wire, device
<1> QED BY <1>1, <1>2, <1>3, <1>4, <1>5, <1>6 DEF App

LEMMA FragsType ==
    ASSUME NEW m \in Msg, NEW fs \in Seq(Frag)
    PROVE  fs \o Frags(m) \in Seq(Frag)
<1>1. [m |-> m, last |-> FALSE] \in Frag /\ [m |-> m, last |-> TRUE] \in Frag
  BY DEF Frag
<1>2. Frags(m) \in Seq(Frag)
  BY <1>1 DEF Frags
<1> QED BY <1>2

LEMMA ServiceType == TypeOK /\ Service => TypeOK'
<1> SUFFICES ASSUME TypeOK, Service PROVE TypeOK'
  OBVIOUS
<1>0. net \in Seq(Frag) /\ reqs \in Seq(Req) /\ ver \in Nat /\ present \in BOOLEAN
  BY DEF TypeOK
<1>1. CASE SrvAnswer
  <2> DEFINE r == Head(reqs)
             m(ok) == [fn |-> r.fn, t |-> r.t, ok |-> ok, gone |-> ~present, n |-> ver,
                       rid |-> r.rid]
  <2>1. r \in Req /\ Tail(reqs) \in Seq(Req)
    BY <1>0, <1>1 DEF SrvAnswer
  <2>2. ASSUME NEW ok \in BOOLEAN PROVE m(ok) \in Msg
    BY <1>0, <2>1 DEF Req, Msg
  <2>3. PICK ok \in BOOLEAN :
          /\ net' = net \o Frags(m(ok))
          /\ subs' = IF ok /\ r.fn = "event" THEN subs \union {r.t} ELSE subs
    BY <1>1 DEF SrvAnswer
  <2>4. net' \in Seq(Frag)
    <3> HIDE DEF m
    <3> QED BY <1>0, <2>2, <2>3, FragsType
  <2>5. subs' \in SUBSET SignalType
    BY <2>1, <2>3 DEF TypeOK, Req
  <2> QED BY <1>1, <2>1, <2>4, <2>5
          DEF SrvAnswer, SrvUnchanged, TypeOK, client, link, device
<1>2. CASE SrvCrash
  <2>1. PICK k \in 0..Len(net) :
          /\ net' = SubSeq(net, 1, k)
          /\ h' = [h EXCEPT !.lost = @ \union IndFrags(After(net, k))]
    BY <1>2 DEF SrvCrash
  <2>2. net' \in Seq(Frag) /\ After(net, k) \in Seq(Frag)
    BY <1>0, <2>1 DEF After
  <2>3. h' \in History
    <3>1. IndFrags(After(net, k)) \in SUBSET Nat
      BY <2>2, IndFragsType
    <3> QED BY <2>1, <3>1 DEF TypeOK, History
  <2>4. reqs' \in Seq(Req) /\ subs' \in SUBSET SignalType
    BY <1>2 DEF SrvCrash
  <2>5. faults' \in Nat
    BY <1>2 DEF SrvCrash, TypeOK
  <2> QED BY <1>2, <2>2, <2>3, <2>4, <2>5 DEF SrvCrash, SrvUnchanged, TypeOK, client, link
<1>3. CASE SrvStart
  BY <1>3 DEF SrvStart, SrvUnchanged, TypeOK, client, link
<1>4. ASSUME NEW t \in SignalType, SrvEvent(t) PROVE TypeOK'
  <2> DEFINE m == [fn |-> "ind", t |-> t, ok |-> TRUE, gone |-> ~present', n |-> ver',
                   rid |-> 0]
  <2>1. ver' \in Nat /\ present' \in BOOLEAN
    BY <1>0, <1>4 DEF SrvEvent
  <2>2. m \in Msg
    BY <2>1 DEF Msg
  <2>3. \/ net' = net \o Frags(m) /\ h' = [h EXCEPT !.sent = @ \union {ver'}]
        \/ UNCHANGED <<net, h>>
    BY <1>4 DEF SrvEvent
  <2> HIDE DEF m
  <2>4. net' \in Seq(Frag)
    BY <1>0, <2>2, <2>3, FragsType
  <2>5. h' \in History
    <3>1. h \in History
      BY DEF TypeOK
    <3>2. [h EXCEPT !.sent = @ \union {ver'}] \in History
      BY <2>1, <3>1 DEF History
    <3> QED BY <2>3, <3>1, <3>2
  <2> QED BY <1>4, <2>1, <2>4, <2>5 DEF SrvEvent, SrvUnchanged, TypeOK, client, link
<1>5. CASE SrvIgnores
  BY <1>0, <1>5 DEF SrvIgnores, SrvUnchanged, TypeOK, client, link, device
<1> QED BY <1>1, <1>2, <1>3, <1>4, <1>5 DEF Service

(* Every variable keeps its type: whatever the nesting of calls, the stack *)
(* holds frames, the buffers fragments and the queues messages.            *)
THEOREM TypeCorrect == Spec => []TypeOK
<1>1. TypeOK /\ [Next]_vars => TypeOK'
  <2>1. TypeOK /\ UNCHANGED vars => TypeOK'
    BY DEF TypeOK, vars, client, link, service, wire, count
  <2> QED BY <2>1, UnwindType, WaitingType, LoopEventType, AppType, ServiceType DEF Next
<1> QED BY <1>1, TypeInit, PTL DEF Spec
-----------------------------------------------------------------------------
(* RetryDiscipline is inductive next to TypeOK.  Most steps leave the      *)
(* connection, the timer and the silent flag alone.                        *)

LEMMA RetryInit == Init => RetryDiscipline
  BY DEF Init, RetryDiscipline

LEMMA RetryKept ==
  ASSUME RetryDiscipline, UNCHANGED link, h'.silent = h.silent
  PROVE  RetryDiscipline'
  BY DEF RetryDiscipline, link

(* What a history update that names other fields does to silent.           *)
LEMMA DispatchSilent ==
  ASSUME TypeOK, NEW m, NEW s, Dispatch(m, s)
  PROVE  UNCHANGED link /\ h'.silent = h.silent
<1>1. h \in History
  BY DEF TypeOK
<1> QED BY <1>1 DEF Dispatch, History

(* A synchronous write that finds the peer gone leaves the socket          *)
(* unconnected and marks the loss as silent; no other outcome touches the  *)
(* connection.                                                             *)
LEMMA SyncWriteRetry ==
  ASSUME TypeOK, RetryDiscipline, UNCHANGED <<timer, stopping>>,
         NEW fn, NEW t, NEW w, NEW e, NEW s, SyncWrite(fn, t, w, e, s)
  PROVE  RetryDiscipline'
<1>1. h \in History /\ sock \in {"none", "null", "unconnected", "connecting", "connected"}
  BY DEF TypeOK
<1>2. \/ sock' = sock /\ h'.silent = h.silent
      \/ sock = "connected" /\ sock' = "unconnected" /\ h'.silent = TRUE
  BY <1>1 DEF SyncWrite, History
<1> QED BY <1>2 DEF RetryDiscipline

LEMMA NoWriteRetry ==
  ASSUME RetryDiscipline, UNCHANGED <<timer, stopping>>, NEW f, NEW s, NoWrite(f, s)
  PROVE  RetryDiscipline'
  BY DEF NoWrite, RetryDiscipline

LEMMA CallsRetry ==
  ASSUME TypeOK, RetryDiscipline, NEW s,
         GetDeviceinfo(s) \/ \E t \in SignalType : SubscribeDeviceEvent(t, s)
  PROVE  RetryDiscipline'
<1>1. UNCHANGED <<timer, stopping>>
  BY DEF GetDeviceinfo, SubscribeDeviceEvent, CallUnchanged
<1>2. CASE GetDeviceinfo(s)
  BY <1>1, <1>2, SyncWriteRetry, NoWriteRetry DEF GetDeviceinfo
<1>3. ASSUME NEW t \in SignalType, SubscribeDeviceEvent(t, s) PROVE RetryDiscipline'
  BY <1>1, <1>3, SyncWriteRetry, NoWriteRetry DEF SubscribeDeviceEvent
<1> QED BY <1>2, <1>3

(* However a connect ends, the timer runs afterwards exactly if there is   *)
(* no connection and no Deinit.                                            *)
LEMMA ConnectRetry ==
  ASSUME TypeOK, NEW s, NEW o, NEW b \in BOOLEAN, stopping' = b,
         \/ OnConnected(s)
         \/ ConnectFails(s, b, o) /\ (timer => ~b)
         \/ ConnectPends(s, o) /\ (timer => ~b)
  PROVE  RetryDiscipline'
<1>1. h \in History /\ timer \in BOOLEAN
  BY DEF TypeOK
<1>2. CASE OnConnected(s)
  BY <1>2 DEF OnConnected, StopReconnectTimer, RetryDiscipline
<1>3. CASE ConnectFails(s, b, o) /\ (timer => ~b)
  BY <1>1, <1>3 DEF ConnectFails, StartReconnectTimer, RetryDiscipline
<1>4. CASE ConnectPends(s, o) /\ (timer => ~b)
  BY <1>4 DEF ConnectPends, RetryDiscipline
<1> QED BY <1>2, <1>3, <1>4

LEMMA UnwindRetry == TypeOK /\ RetryDiscipline /\ Unwind => RetryDiscipline'
<1> SUFFICES ASSUME TypeOK, RetryDiscipline, Unwind PROVE RetryDiscipline'
  OBVIOUS
<1>0. h \in History /\ stk \in Seq(Frame) /\ timer \in BOOLEAN
  BY DEF TypeOK
<1>1. CASE InitReturn
  BY <1>0, <1>1 DEF InitReturn, StartReconnectTimer, RetryDiscipline
<1>2. CASE HandleNext
  BY <1>2, DispatchSilent, RetryKept DEF HandleNext
<1>3. CASE HandleDone \/ CallbackReturn \/ LeftoverDone \/ DrainSocketMessages
  BY <1>3, RetryKept DEF HandleDone, CallbackReturn, LeftoverDone, DrainSocketMessages
<1>4. CASE LeftoverNext
  BY <1>4, DispatchSilent, RetryKept DEF LeftoverNext
<1>5. CASE PendingNext
  BY <1>5, DispatchSilent, RetryKept DEF PendingNext
<1>6. CASE GetReturn
  BY <1>6, RetryKept DEF GetReturn
<1>7. CASE SubReturn
  <2>1. UNCHANGED link /\ h'.silent = h.silent
    BY <1>0, <1>7 DEF SubReturn, History
  <2> QED BY <2>1, RetryKept
<1>8. CASE RefreshSubscribe
  <2>1. Head(stk) \in Frame
    BY <1>0, <1>8 DEF RefreshSubscribe, Running
  <2>2. PICK i \in DOMAIN Head(stk).todo :
          SubscribeDeviceEvent(Head(stk).todo[i],
              Top([Head(stk) EXCEPT !.todo = After(@, i), !.ok = TRUE]))
    BY <1>8 DEF RefreshSubscribe
  <2>3. Head(stk).todo[i] \in SignalType
    BY <2>1, <2>2 DEF Frame
  <2> QED BY <2>2, <2>3, CallsRetry
<1>9. CASE RefreshGet
  BY <1>9, CallsRetry DEF RefreshGet
<1>10. CASE RefreshNothing \/ RefreshReport
  BY <1>10, RetryKept DEF RefreshNothing, RefreshReport
<1>11. CASE ResetReturn
  BY <1>11, RetryKept DEF ResetReturn
<1> QED BY <1>1, <1>2, <1>3, <1>4, <1>5, <1>6, <1>7, <1>8, <1>9, <1>10, <1>11 DEF Unwind

LEMMA WaitingRetry == TypeOK /\ RetryDiscipline /\ Waiting => RetryDiscipline'
<1> SUFFICES ASSUME TypeOK, RetryDiscipline, Waiting PROVE RetryDiscipline'
  OBVIOUS
<1>0. h \in History
  BY DEF TypeOK
<1>1. CASE SyncRead
  <2>1. UNCHANGED link /\ h'.silent = h.silent
    BY <1>0, <1>1 DEF SyncRead, History
  <2> QED BY <2>1, RetryKept
<1>2. CASE SyncTimeout
  <2>1. UNCHANGED link /\ h'.silent = h.silent
    BY <1>0, <1>2 DEF SyncTimeout, History
  <2> QED BY <2>1, RetryKept
<1>3. CASE SyncEof
  <2>1. sock' = "unconnected" /\ h'.silent = TRUE /\ UNCHANGED <<timer, stopping>>
    BY <1>0, <1>3 DEF SyncEof, History
  <2> QED BY <2>1 DEF RetryDiscipline
<1>4. CASE ResetTimeout
  <2>1. UNCHANGED link /\ h'.silent = h.silent
    BY <1>0, <1>4 DEF ResetTimeout, History
  <2> QED BY <2>1, RetryKept
<1> QED BY <1>1, <1>2, <1>3, <1>4 DEF Waiting

LEMMA LoopEventRetry == TypeOK /\ RetryDiscipline /\ LoopEvent => RetryDiscipline'
<1> SUFFICES ASSUME TypeOK, RetryDiscipline, LoopEvent PROVE RetryDiscipline'
  OBVIOUS
<1>0. timer \in BOOLEAN /\ stopping \in BOOLEAN
  BY DEF TypeOK
<1>1. CASE OnReadyRead
  BY <1>1, RetryKept DEF OnReadyRead
<1>2. CASE OnDisconnected
  BY <1>0, <1>2 DEF OnDisconnected, StartReconnectTimer, RetryDiscipline
<1>3. CASE RetryConnection
  <2>1. stopping' = FALSE
    BY <1>0, <1>3 DEF RetryConnection
  <2> QED BY <1>3, <2>1, ConnectRetry DEF RetryConnection, ConnectToServer
<1>4. CASE ConnectDone
  <2>1. stopping' = stopping /\ (timer => ~stopping)
    BY <1>4 DEF ConnectDone, RetryDiscipline
  <2> QED BY <1>0, <1>4, <2>1, ConnectRetry DEF ConnectDone
<1> QED BY <1>1, <1>2, <1>3, <1>4 DEF LoopEvent

LEMMA AppRetry == TypeOK /\ RetryDiscipline /\ App => RetryDiscipline'
<1> SUFFICES ASSUME TypeOK, RetryDiscipline, App PROVE RetryDiscipline'
  OBVIOUS
<1>0. timer \in BOOLEAN /\ stopping \in BOOLEAN /\ h \in History
  BY DEF TypeOK
<1>1. CASE DevInit
  BY <1>1, ConnectRetry DEF DevInit, ConnectToServer
<1>2. CASE Deinit
  BY <1>2 DEF Deinit, StopReconnectTimer, RetryDiscipline
<1>3. CASE ResetDevice
  <2>1. CASE ~open
    BY <1>3, <2>1, NoWriteRetry DEF ResetDevice
  <2>2. CASE UNCHANGED <<sock, timer, h>>
    BY <1>3, <2>2 DEF ResetDevice, RetryDiscipline
  <2>3. CASE sock' = "unconnected" /\ StartReconnectTimer(stopping)
    BY <1>0, <1>3, <2>3 DEF ResetDevice, StartReconnectTimer, RetryDiscipline
  <2> QED BY <1>3, <2>1, <2>2, <2>3 DEF ResetDevice
<1>4. CASE AppGet
  BY <1>4, CallsRetry DEF AppGet
<1>5. ASSUME NEW t \in AppTypes, AppSubscribe(t) PROVE RetryDiscipline'
  BY <1>5, CallsRetry, ConstantsAssumption DEF AppSubscribe
<1>6. CASE ResetLocks
  BY <1>6, RetryKept DEF ResetLocks
<1> QED BY <1>1, <1>2, <1>3, <1>4, <1>5, <1>6 DEF App

LEMMA ServiceRetry == TypeOK /\ RetryDiscipline /\ Service => RetryDiscipline'
<1> SUFFICES ASSUME TypeOK, RetryDiscipline, Service PROVE RetryDiscipline'
  OBVIOUS
<1>0. h \in History
  BY DEF TypeOK
<1>1. UNCHANGED link
  BY DEF Service, SrvAnswer, SrvIgnores, SrvCrash, SrvStart, SrvEvent, SrvUnchanged, client
<1>2. h'.silent = h.silent
  BY <1>0 DEF Service, SrvAnswer, SrvIgnores, SrvCrash, SrvStart, SrvEvent, History
<1> QED BY <1>1, <1>2, RetryKept

(* For every number of calls, faults, device events and nested callbacks:  *)
(* the reconnect timer never runs after Deinit nor beside a live           *)
(* connection, and it does run whenever the connection is down, except     *)
(* after a loss that a synchronous call swallowed.                         *)
THEOREM RetryTimerCorrect == Spec => []RetryDiscipline
<1>1. TypeOK /\ RetryDiscipline /\ [Next]_vars => RetryDiscipline'
  <2>1. RetryDiscipline /\ UNCHANGED vars => RetryDiscipline'
    BY DEF RetryDiscipline, vars, client, link
  <2> QED BY <2>1, UnwindRetry, WaitingRetry, LoopEventRetry, AppRetry, ServiceRetry DEF Next
<1> QED BY <1>1, RetryInit, TypeCorrect, PTL DEF Spec
-----------------------------------------------------------------------------
(* The stream: what the service has written on this connection and the     *)
(* client has not made into objects, wherever it is.                       *)
Stream == rx \o buf \o net

(* What happens to the stream in a step, and to the record of what was     *)
(* sent and lost.  Most steps leave it, or move bytes inside it.           *)
KeepsStream == /\ conn' = conn /\ (sock' = "connected" <=> sock = "connected")
               /\ rx' = rx /\ Stream' = Stream /\ (net = <<>> => net' = <<>>)
               /\ h'.lost = h.lost /\ h'.sent = h.sent

(* A connection begins, or the client gives one up.                        *)
Empties == /\ rx' = <<>> /\ buf' = <<>> /\ net' = <<>>
           /\ conn' => sock' = "connected" /\ ~conn
           /\ h'.lost = h.lost \union Unread /\ h'.sent = h.sent

(* extractJsonObjects is applied to the beginning of it.                   *)
Scans(fs, rest) == /\ conn' = conn /\ sock' = sock
                   /\ Stream = fs \o rest /\ (fs = <<>> => rx = <<>>)
                   /\ rx' = Leftover(fs) /\ Stream' = Leftover(fs) \o rest
                   /\ net = <<>> => net' = <<>>
                   /\ h'.lost = h.lost /\ h'.sent = h.sent

(* The service writes.                                                     *)
Grows(m) == /\ conn /\ conn' = conn /\ sock' = sock
            /\ rx' = rx /\ Stream' = Stream \o Frags(m)
            /\ h'.lost = h.lost
            /\ IF m.fn = "ind" THEN m.n = ver' /\ ver' = ver + 1 /\ h'.sent = h.sent \union {m.n}
                               ELSE h'.sent = h.sent

(* The service crashes in the middle of its writing.                       *)
Cuts(k) == /\ ~conn' /\ sock' = sock /\ rx' = rx /\ buf' = buf
           /\ net' = SubSeq(net, 1, k)
           /\ h'.lost = h.lost \union IndFrags(After(net, k)) /\ h'.sent = h.sent

(* The client notices the end of the connection in its event loop, or      *)
(* Deinit clears the buffer; or a write finds the service gone.            *)
DropsBuffer == /\ ~conn /\ ~conn' /\ sock' # "connected"
               /\ rx' = <<>> /\ net = <<>> /\ net' = <<>> /\ buf' = buf
               /\ h'.lost = h.lost \union IndFrags(rx) /\ h'.sent = h.sent
DropsUnread == /\ ~conn /\ ~conn' /\ sock' # "connected"
               /\ rx' = rx /\ net' = <<>> /\ buf' = <<>>
               /\ h'.lost = h.lost \union IndFrags(net) \union IndFrags(buf) /\ h'.sent = h.sent

StreamStep ==
    \/ KeepsStream \/ Empties \/ DropsBuffer \/ DropsUnread
    \/ \E fs, rest \in Seq(Frag) : Scans(fs, rest)
    \/ \E m \in Msg : Grows(m)
    \/ \E k \in 0..Len(net) : Cuts(k)

(* Only three actions make objects of it.                                  *)
Reads == OnReadyRead \/ SyncRead \/ DrainSocketMessages
ClientMove == KeepsStream \/ Empties \/ DropsBuffer \/ DropsUnread \/ Reads
MoveStep ==
    \/ ClientMove
    \/ \E m \in Msg : Grows(m)
    \/ \E k \in 0..Len(net) : Cuts(k)

(* On every connection the stream is a sequence of messages, cut nowhere   *)
(* but at its end, and there only by a crash; after the connection at most *)
(* its first fragment stands alone.  The buffer holds at most the          *)
(* beginning of one message.                                               *)
StreamInv ==
    /\ conn => sock = "connected"
    /\ sock # "connected" => net = <<>>
    /\ Len(rx) <= 1 /\ (rx # <<>> => ~rx[1].last)
    /\ sock = "connected" => Paired(Stream)
    /\ Paired(Aligned(Stream))
    /\ conn => Len(Stream) % 2 = 0

LEMMA FragFact == Frag = FragOf(Msg)
  BY DEF Frag, FragOf

LEMMA StreamTypes ==
    ASSUME TypeOK
    PROVE  /\ rx \in Seq(Frag) /\ buf \in Seq(Frag) /\ net \in Seq(Frag) /\ Stream \in Seq(Frag)
           /\ rx \o buf \in Seq(Frag) /\ h \in History /\ stk \in Seq(Frame)
           /\ IndFrags(<<>>) = {}
<1>1. rx \in Seq(Frag) /\ buf \in Seq(Frag) /\ net \in Seq(Frag) /\ h \in History /\ stk \in Seq(Frame)
  BY DEF TypeOK
<1>2. rx \o buf \in Seq(Frag)
  BY <1>1, ConcatProperties
<1>3. Stream \in Seq(Frag)
  BY <1>1, <1>2, ConcatProperties DEF Stream
<1>4. IndFrags(<<>>) = {}
  BY DEF IndFrags
<1> QED BY <1>1, <1>2, <1>3, <1>4

LEMMA Regroup == \A s, t, u \in Seq(Frag) : s \o (t \o u) = (s \o t) \o u
<1> TAKE s, t, u \in Seq(Frag)
<1> QED BY ConcatAssociative

LEMMA StreamInit == Init => StreamInv
<1> SUFFICES ASSUME Init PROVE StreamInv
  OBVIOUS
<1>1. rx = <<>> /\ buf = <<>> /\ net = <<>> /\ sock = "none" /\ conn = FALSE
  BY DEF Init
<1>2. Stream = <<>> /\ Aligned(Stream) = <<>>
  BY <1>1 DEF Stream, Aligned
<1>3. Paired(<<>>)
  BY DEF Paired
<1> QED BY <1>1, <1>2, <1>3 DEF StreamInv

(* Steps that do not touch the socket's data at all.                       *)
LEMMA StreamUntouched ==
    ASSUME UNCHANGED <<rx, buf, net, conn>>, sock' = "connected" <=> sock = "connected",
           h'.lost = h.lost, h'.sent = h.sent
    PROVE  KeepsStream
  BY DEF KeepsStream, Stream

LEMMA DispatchStream ==
    ASSUME TypeOK, NEW m, NEW s, Dispatch(m, s), UNCHANGED <<rx, wire>>
    PROVE  KeepsStream
<1>1. h \in History
  BY DEF TypeOK
<1>2. h'.lost = h.lost /\ h'.sent = h.sent
  BY <1>1 DEF Dispatch, History
<1>3. UNCHANGED <<rx, buf, net, conn, sock>>
  BY DEF Dispatch, wire, service, link
<1> QED BY <1>2, <1>3, StreamUntouched

LEMMA ConnectStream ==
    ASSUME TypeOK, StreamInv, sock # "connected", NEW s, NEW o, NEW b,
           OnConnected(s) \/ ConnectFails(s, b, o) \/ ConnectPends(s, o)
    PROVE  KeepsStream \/ Empties
<1>1. h \in History
  BY DEF TypeOK
<1>2. CASE OnConnected(s)
  <2>1. h'.lost = h.lost \union Unread /\ h'.sent = h.sent
    BY <1>1, <1>2 DEF OnConnected, History
  <2>2. ~conn
    BY DEF StreamInv
  <2> QED BY <1>2, <2>1, <2>2 DEF OnConnected, Empties
<1>3. CASE ConnectFails(s, b, o) \/ ConnectPends(s, o)
  <2>1. UNCHANGED <<rx, buf, net, conn, h>> /\ sock' # "connected"
    BY <1>3 DEF ConnectFails, ConnectPends, session
  <2> QED BY <2>1, StreamUntouched
<1> QED BY <1>2, <1>3

LEMMA WriteStream ==
    ASSUME TypeOK, StreamInv, UNCHANGED <<rx, conn>>,
           NEW fn, NEW t, NEW w, NEW e, NEW s, SyncWrite(fn, t, w, e, s) \/ NoWrite(w, s)
    PROVE  KeepsStream \/ DropsUnread
<1>1. h \in History /\ rx \in Seq(Frag) /\ buf \in Seq(Frag) /\ net \in Seq(Frag)
      /\ rx \o buf \in Seq(Frag) /\ Stream \in Seq(Frag)
  BY StreamTypes
<1>2. CASE UNCHANGED <<sock, wire, h>>
  BY <1>2, StreamUntouched DEF wire
<1>3. CASE /\ sock = "connected" /\ sock' = sock /\ net' = <<>> /\ buf' = buf \o net
           /\ h' = [h EXCEPT !.expired = @ \/ fn = "get"]
  <2>1. h'.lost = h.lost /\ h'.sent = h.sent
    BY <1>1, <1>3 DEF History
  <2>2. rx \o (buf \o net) = Stream /\ buf \o net \in Seq(Frag)
    <3>1. rx \o (buf \o net) = Stream
      BY <1>1, Regroup, Zenon DEF Stream
    <3>2. buf \o net \in Seq(Frag)
      BY <1>1, ConcatProperties, Zenon
    <3> QED BY <3>1, <3>2
  <2>3. rx \o (buf \o net) \in Seq(Frag)
    BY <1>1, <2>2
  <2>4. (rx \o (buf \o net)) \o <<>> = rx \o (buf \o net)
    BY <2>3, ConcatEmptySeq
  <2>5. Stream' = (rx \o (buf \o net)) \o <<>>
    BY <1>3 DEF Stream
  <2> QED BY <1>3, <2>1, <2>2, <2>4, <2>5 DEF KeepsStream
<1>4. CASE /\ sock = "connected" /\ ~conn /\ sock' = "unconnected" /\ net' = <<>> /\ buf' = <<>>
           /\ h' = [h EXCEPT !.silent = TRUE,
                             !.lost = @ \union IndFrags(net) \union IndFrags(buf)]
  <2>1. h'.lost = h.lost \union IndFrags(net) \union IndFrags(buf) /\ h'.sent = h.sent
    BY <1>1, <1>4 DEF History
  <2> QED BY <1>4, <2>1 DEF DropsUnread
<1> QED BY <1>2, <1>3, <1>4 DEF SyncWrite, NoWrite

LEMMA CallStream ==
    ASSUME TypeOK, StreamInv, NEW s,
           GetDeviceinfo(s) \/ \E t \in SignalType : SubscribeDeviceEvent(t, s)
    PROVE  KeepsStream \/ DropsUnread
<1>1. UNCHANGED <<rx, conn>>
  BY DEF GetDeviceinfo, SubscribeDeviceEvent, CallUnchanged
<1>2. CASE GetDeviceinfo(s)
  BY <1>1, <1>2, WriteStream DEF GetDeviceinfo
<1>3. ASSUME NEW t \in SignalType, SubscribeDeviceEvent(t, s) PROVE KeepsStream \/ DropsUnread
  BY <1>1, <1>3, WriteStream DEF SubscribeDeviceEvent
<1> QED BY <1>2, <1>3

(* The three reads of the stream: by onReadyRead, by a synchronous call    *)
(* and by drainSocketMessages.                                             *)
LEMMA ReadyReadStream ==
    ASSUME TypeOK, OnReadyRead
    PROVE  \/ KeepsStream /\ stk' = stk
           \/ \E fs, rest \in Seq(Frag) :
                /\ Scans(fs, rest)
                /\ stk' = Push([NewFrame("onReadyRead", "run") EXCEPT !.list = Objects(fs)], stk)
<1>1. h \in History /\ rx \in Seq(Frag) /\ buf \in Seq(Frag) /\ net \in Seq(Frag)
      /\ rx \o buf \in Seq(Frag) /\ Stream \in Seq(Frag)
  BY StreamTypes
<1>2. PICK k \in {Len(net) - 1, Len(net)} :
        /\ k \in 1..Len(net)
        /\ net' = After(net, k)
        /\ IF OnStack("onReadyRead")
           THEN buf' = buf \o SubSeq(net, 1, k) /\ UNCHANGED <<rx, stk>>
           ELSE /\ buf' = <<>>
                /\ rx' = Leftover(rx \o buf \o SubSeq(net, 1, k))
                /\ stk' = Push([NewFrame("onReadyRead", "run")
                                  EXCEPT !.list = Objects(rx \o buf \o SubSeq(net, 1, k))], stk)
  BY DEF OnReadyRead
<1>3. UNCHANGED <<sock, conn, h>> /\ sock = "connected"
  BY DEF OnReadyRead, link, service
<1> DEFINE a == SubSeq(net, 1, k)
           b == After(net, k)
<1>4. k \in 0..Len(net) /\ net # <<>>
  BY <1>1, <1>2
<1>5. a \in Seq(Frag) /\ b \in Seq(Frag) /\ net = a \o b
  BY <1>1, <1>4, ReadProperties, ReadSplit
<1> HIDE DEF a, b
<1>6. Stream = ((rx \o buf) \o a) \o b
  <2>1. Stream = (rx \o buf) \o (a \o b)
    BY <1>5 DEF Stream
  <2>2. (rx \o buf) \o (a \o b) = ((rx \o buf) \o a) \o b
    BY <1>1, <1>5, Regroup, Zenon
  <2> QED BY <2>1, <2>2
<1>7. CASE OnStack("onReadyRead")
  <2>1. rx \o (buf \o a) = (rx \o buf) \o a
    <3>1. rx \in Seq(Frag) /\ buf \in Seq(Frag) /\ a \in Seq(Frag)
      BY <1>1, <1>5
    <3> QED BY <3>1, Regroup, Zenon
  <2>2. Stream' = (rx \o (buf \o a)) \o b
    BY <1>2, <1>7 DEF Stream, a, b
  <2>3. rx' = rx /\ stk' = stk
    BY <1>2, <1>7
  <2> QED BY <1>3, <1>4, <1>6, <2>1, <2>2, <2>3 DEF KeepsStream
<1>8. CASE ~OnStack("onReadyRead")
  <2> DEFINE fs == (rx \o buf) \o a
  <2>1. fs \in Seq(Frag)
    BY <1>1, <1>5, ConcatProperties
  <2>2. /\ buf' = <<>> /\ rx' = Leftover(fs) /\ net' = b
        /\ stk' = Push([NewFrame("onReadyRead", "run") EXCEPT !.list = Objects(fs)], stk)
    BY <1>2, <1>8 DEF a, b
  <2>3. Stream = fs \o b
    BY <1>6
  <2>4. fs = <<>> => rx = <<>>
    BY <1>1, <1>5, ConcatEqualIffEmpty
  <2> HIDE DEF fs
  <2>5. Leftover(fs) \in Seq(Frag)
    BY <2>1, ExtractType
  <2>6. Stream' = (Leftover(fs) \o <<>>) \o b
    BY <2>2 DEF Stream
  <2>7. Leftover(fs) \o <<>> = Leftover(fs)
    BY <2>5, ConcatEmptySeq
  <2>8. Scans(fs, b)
    BY <1>3, <1>4, <2>2, <2>3, <2>4, <2>6, <2>7 DEF Scans
  <2> QED BY <1>5, <2>1, <2>2, <2>8
<1> QED BY <1>7, <1>8

LEMMA SyncReadStream ==
    ASSUME TypeOK, SyncRead
    PROVE  \E fs, rest \in Seq(Frag) :
             LET f == [Head(stk) EXCEPT !.raw = @ \o Objects(fs)]
             IN  /\ Scans(fs, rest)
                 /\ stk' = Top(IF HasAnswer(f.op, f.raw) THEN EndWait(f) ELSE f)
                 /\ h' = [h EXCEPT !.wrong = @ \/ (f.op = "get" /\ ~h.expired /\ TakesOther(f))]
<1>1. h \in History /\ rx \in Seq(Frag) /\ buf \in Seq(Frag) /\ net \in Seq(Frag)
      /\ rx \o buf \in Seq(Frag) /\ Stream \in Seq(Frag)
  BY StreamTypes
<1> DEFINE f(fs) == [Head(stk) EXCEPT !.raw = @ \o Objects(fs)]
           Got(fs) == /\ rx' = Leftover(fs)
                      /\ stk' = Top(IF HasAnswer(f(fs).op, f(fs).raw) THEN EndWait(f(fs)) ELSE f(fs))
                      /\ h' = [h EXCEPT !.wrong = @ \/ (f(fs).op = "get" /\ ~h.expired
                                                            /\ TakesOther(f(fs)))]
<1>2. PICK k \in {Len(net) - 1, Len(net)} :
        /\ buf # <<>> \/ k \in 1..Len(net)
        /\ buf' = <<>>
        /\ net' = IF buf # <<>> THEN net ELSE After(net, k)
        /\ Got(rx \o (IF buf # <<>> THEN buf ELSE SubSeq(net, 1, k)))
  BY DEF SyncRead
<1>3. UNCHANGED <<sock, conn>>
  BY DEF SyncRead, link, service
<1>4. ASSUME NEW fs \in Seq(Frag), NEW rest \in Seq(Frag), Got(fs), Stream = fs \o rest,
             fs = <<>> => rx = <<>>, buf' = <<>>, net' = rest, net = <<>> => net' = <<>>
      PROVE  Scans(fs, rest) /\ Got(fs)
  <2>1. h'.lost = h.lost /\ h'.sent = h.sent
    BY <1>1, <1>4 DEF History
  <2>2. rx' = Leftover(fs)
    BY <1>4
  <2> HIDE DEF Got
  <2>3. Leftover(fs) \in Seq(Frag)
    BY ExtractType
  <2>4. Stream' = (Leftover(fs) \o <<>>) \o rest
    BY <1>4, <2>2 DEF Stream
  <2>5. Leftover(fs) \o <<>> = Leftover(fs)
    BY <2>3, ConcatEmptySeq
  <2> QED BY <1>3, <1>4, <2>1, <2>2, <2>4, <2>5 DEF Scans
<1> HIDE DEF Got
<1>5. CASE buf # <<>>
  <2>1. Got(rx \o buf) /\ net' = net /\ buf' = <<>>
    BY <1>2, <1>5
  <2>2. rx \o buf = <<>> => rx = <<>>
    BY <1>1, ConcatEqualIffEmpty
  <2>3. Stream = (rx \o buf) \o net
    BY DEF Stream
  <2>4. Scans(rx \o buf, net) /\ Got(rx \o buf)
    BY <1>1, <1>4, <2>1, <2>2, <2>3
  <2> QED BY <1>1, <2>4 DEF Got
<1>6. CASE buf = <<>>
  <2> DEFINE a == SubSeq(net, 1, k)
             b == After(net, k)
  <2>1. k \in 0..Len(net) /\ net # <<>>
    BY <1>1, <1>2, <1>6
  <2>2. a \in Seq(Frag) /\ b \in Seq(Frag) /\ net = a \o b
    BY <1>1, <2>1, ReadProperties, ReadSplit
  <2>3. Got(rx \o a) /\ net' = b /\ buf' = <<>>
    BY <1>2, <1>6
  <2> HIDE DEF a, b
  <2>4. Stream = (rx \o a) \o b
    <3>1. rx \o buf = rx
      BY <1>1, <1>6, ConcatEmptySeq
    <3>2. Stream = rx \o (a \o b)
      BY <2>2, <3>1 DEF Stream
    <3>3. rx \o (a \o b) = (rx \o a) \o b
      <4>1. rx \in Seq(Frag) /\ a \in Seq(Frag) /\ b \in Seq(Frag)
        BY <1>1, <2>2
      <4> QED BY <4>1, Regroup, Zenon
    <3> QED BY <3>2, <3>3
  <2>5. rx \o a \in Seq(Frag) /\ (rx \o a = <<>> => rx = <<>>)
    BY <1>1, <2>2, ConcatProperties, ConcatEqualIffEmpty
  <2>6. Scans(rx \o a, b) /\ Got(rx \o a)
    BY <1>4, <2>1, <2>2, <2>3, <2>4, <2>5
  <2> QED BY <2>2, <2>5, <2>6 DEF Got
<1> QED BY <1>5, <1>6

LEMMA DrainStream ==
    ASSUME TypeOK, DrainSocketMessages
    PROVE  Scans(rx \o buf, net)
<1>1. h \in History /\ rx \in Seq(Frag) /\ buf \in Seq(Frag) /\ net \in Seq(Frag)
      /\ rx \o buf \in Seq(Frag) /\ Stream \in Seq(Frag)
  BY StreamTypes
<1>2. buf' = <<>> /\ rx' = Leftover(rx \o buf) /\ UNCHANGED <<sock, conn, net, h>>
  BY DEF DrainSocketMessages, link, service
<1>3. rx \o buf = <<>> => rx = <<>>
  BY <1>1, ConcatEqualIffEmpty
<1> DEFINE fs == rx \o buf
<1>4. Stream = fs \o net
  BY DEF Stream
<1>5. fs \in Seq(Frag) /\ rx' = Leftover(fs) /\ (fs = <<>> => rx = <<>>)
  BY <1>1, <1>2, <1>3
<1> HIDE DEF fs
<1>6. Leftover(fs) \o <<>> = Leftover(fs)
  BY <1>5, ExtractType, ConcatEmptySeq
<1>7. Stream' = (Leftover(fs) \o <<>>) \o net
  BY <1>2, <1>5 DEF Stream
<1> QED BY <1>2, <1>4, <1>5, <1>6, <1>7 DEF Scans, fs

LEMMA GrowStream ==
    ASSUME TypeOK, NEW m \in Msg, conn, net' = net \o Frags(m), UNCHANGED <<conn, sock, rx, buf>>,
           h'.lost = h.lost,
           IF m.fn = "ind" THEN m.n = ver' /\ ver' = ver + 1 /\ h'.sent = h.sent \union {m.n}
                           ELSE h'.sent = h.sent
    PROVE  Grows(m)
<1>1. net \in Seq(Frag) /\ rx \o buf \in Seq(Frag)
  BY StreamTypes
<1>2. Frags(m) \in Seq(Frag)
  BY DEF Frags, Frag
<1>3. (rx \o buf) \o (net \o Frags(m)) = ((rx \o buf) \o net) \o Frags(m)
  BY <1>1, <1>2, Regroup
<1>4. Stream' = (rx \o buf) \o (net \o Frags(m))
  BY DEF Stream
<1>5. Stream' = Stream \o Frags(m)
  BY <1>3, <1>4 DEF Stream
<1> QED BY <1>5 DEF Grows

LEMMA UnwindStream == TypeOK /\ StreamInv /\ Unwind => ClientMove
<1> SUFFICES ASSUME TypeOK, StreamInv, Unwind PROVE ClientMove
  OBVIOUS
<1>0. h \in History /\ stk \in Seq(Frame) /\ rx \o buf \in Seq(Frag) /\ net \in Seq(Frag)
  BY StreamTypes
<1>1. CASE InitReturn \/ HandleDone \/ CallbackReturn \/ LeftoverDone \/ GetReturn \/ RefreshNothing
           \/ RefreshReport \/ ResetReturn
  <2>1. UNCHANGED <<rx, buf, net, conn, sock, h>>
    BY <1>1 DEF InitReturn, HandleDone, CallbackReturn, LeftoverDone, GetReturn, RefreshNothing,
                RefreshReport, ResetReturn, wire, service, link
  <2> QED BY <2>1, StreamUntouched DEF ClientMove
<1>2. CASE HandleNext
  BY <1>2, DispatchStream DEF HandleNext, ClientMove
<1>3. CASE LeftoverNext
  BY <1>3, DispatchStream DEF LeftoverNext, ClientMove
<1>4. CASE PendingNext
  BY <1>4, DispatchStream DEF PendingNext, ClientMove
<1>5. CASE DrainSocketMessages
  BY <1>5 DEF ClientMove, Reads
<1>6. CASE SubReturn
  <2>1. UNCHANGED <<rx, buf, net, conn, sock>>
    BY <1>6 DEF SubReturn, wire, service, link
  <2>2. h'.lost = h.lost /\ h'.sent = h.sent
    BY <1>0, <1>6 DEF SubReturn, History
  <2> QED BY <2>1, <2>2, StreamUntouched DEF ClientMove
<1>7. CASE RefreshSubscribe
  <2>1. Head(stk) \in Frame
    BY <1>0, <1>7 DEF RefreshSubscribe, Running
  <2>2. PICK i \in DOMAIN Head(stk).todo :
          SubscribeDeviceEvent(Head(stk).todo[i],
              Top([Head(stk) EXCEPT !.todo = After(@, i), !.ok = TRUE]))
    BY <1>7 DEF RefreshSubscribe
  <2>3. Head(stk).todo[i] \in SignalType
    BY <2>1, <2>2 DEF Frame
  <2> QED BY <2>2, <2>3, CallStream DEF ClientMove
<1>8. CASE RefreshGet
  BY <1>8, CallStream DEF RefreshGet, ClientMove
<1> QED BY <1>1, <1>2, <1>3, <1>4, <1>5, <1>6, <1>7, <1>8 DEF Unwind

LEMMA WaitingStream == TypeOK /\ StreamInv /\ Waiting => ClientMove
<1> SUFFICES ASSUME TypeOK, StreamInv, Waiting PROVE ClientMove
  OBVIOUS
<1>0. h \in History /\ IndFrags(<<>>) = {}
  BY StreamTypes
<1>1. CASE SyncRead
  BY <1>1 DEF ClientMove, Reads
<1>2. CASE SyncTimeout \/ ResetTimeout
  <2>1. UNCHANGED <<rx, buf, net, conn, sock>>
    BY <1>2 DEF SyncTimeout, ResetTimeout, wire, service, link
  <2>2. h'.lost = h.lost /\ h'.sent = h.sent
    BY <1>0, <1>2 DEF SyncTimeout, ResetTimeout, History
  <2> QED BY <2>1, <2>2, StreamUntouched DEF ClientMove
<1>3. CASE SyncEof
  <2>1. /\ ~conn /\ net = <<>> /\ buf = <<>> /\ sock' = "unconnected"
        /\ UNCHANGED <<rx, buf, net, conn>>
    BY <1>3 DEF SyncEof, wire, service
  <2>2. h'.lost = h.lost /\ h'.sent = h.sent
    BY <1>0, <1>3 DEF SyncEof, History
  <2>3. h'.lost = h.lost \union IndFrags(net) \union IndFrags(buf)
    BY <1>0, <2>1, <2>2
  <2> QED BY <2>1, <2>2, <2>3 DEF ClientMove, DropsUnread
<1> QED BY <1>1, <1>2, <1>3 DEF Waiting

LEMMA LoopEventStream == TypeOK /\ StreamInv /\ LoopEvent => ClientMove
<1> SUFFICES ASSUME TypeOK, StreamInv, LoopEvent PROVE ClientMove
  OBVIOUS
<1>0. h \in History
  BY StreamTypes
<1>1. CASE OnReadyRead
  BY <1>1 DEF ClientMove, Reads
<1>2. CASE OnDisconnected
  <2>1. h'.lost = h.lost \union IndFrags(rx) /\ h'.sent = h.sent
    BY <1>0, <1>2 DEF OnDisconnected, History
  <2> QED BY <1>2, <2>1 DEF OnDisconnected, ClientMove, DropsBuffer, service, wire
<1>3. CASE RetryConnection
  BY <1>3, ConnectStream DEF RetryConnection, ConnectToServer, ClientMove
<1>4. CASE ConnectDone
  BY <1>4, ConnectStream DEF ConnectDone, ClientMove
<1> QED BY <1>1, <1>2, <1>3, <1>4 DEF LoopEvent

LEMMA AppStream == TypeOK /\ StreamInv /\ App => ClientMove
<1> SUFFICES ASSUME TypeOK, StreamInv, App PROVE ClientMove
  OBVIOUS
<1>0. h \in History
  BY StreamTypes
<1>1. CASE DevInit
  <2>1. sock # "connected"
    BY <1>1 DEF DevInit
  <2> QED BY <1>1, <2>1, ConnectStream DEF DevInit, ConnectToServer, ClientMove
<1>2. CASE Deinit
  <2>1. CASE sock = "connected"
    <3>1. /\ sock' # "connected" /\ EndSession /\ rx' = <<>>
          /\ h' = [h EXCEPT !.lost = @ \union Unread]
      BY <1>2, <2>1 DEF Deinit
    <3>2. h'.lost = h.lost \union Unread /\ h'.sent = h.sent
      BY <1>0, <3>1 DEF History
    <3> QED BY <3>1, <3>2 DEF EndSession, ClientMove, Empties
  <2>2. CASE sock # "connected"
    <3>1. /\ sock' # "connected" /\ UNCHANGED <<buf, net, conn>> /\ rx' = <<>>
          /\ h' = [h EXCEPT !.lost = @ \union IndFrags(rx)]
      BY <1>2, <2>2 DEF Deinit, session
    <3>2. h'.lost = h.lost \union IndFrags(rx) /\ h'.sent = h.sent
      BY <1>0, <3>1 DEF History
    <3>3. ~conn /\ net = <<>>
      BY <2>2 DEF StreamInv
    <3> QED BY <3>1, <3>2, <3>3 DEF ClientMove, DropsBuffer
  <2> QED BY <2>1, <2>2
<1>3. CASE ResetDevice
  <2>1. CASE UNCHANGED <<sock, rx, wire, h>>
    <3>1. UNCHANGED <<rx, buf, net, conn, sock, h>>
      BY <1>3, <2>1 DEF ResetDevice, wire
    <3> QED BY <3>1, StreamUntouched DEF ClientMove
  <2>2. CASE /\ sock' = "unconnected" /\ rx' = <<>> /\ net' = <<>> /\ buf' = <<>> /\ ~conn
             /\ h' = [h EXCEPT !.lost = @ \union Unread, !.silent = FALSE]
    <3>1. h'.lost = h.lost \union Unread /\ h'.sent = h.sent
      BY <1>0, <2>2 DEF History
    <3> QED BY <1>3, <2>2, <3>1 DEF ResetDevice, ClientMove, Empties
  <2> QED BY <1>3, <2>1, <2>2 DEF ResetDevice, NoWrite
<1>4. CASE AppGet
  BY <1>4, CallStream DEF AppGet, ClientMove
<1>5. ASSUME NEW t \in AppTypes, AppSubscribe(t) PROVE ClientMove
  BY <1>5, CallStream, ConstantsAssumption DEF AppSubscribe, ClientMove
<1>6. CASE ResetLocks
  <2>1. UNCHANGED <<rx, buf, net, conn, sock, h>>
    BY <1>6 DEF ResetLocks, link, service, wire
  <2> QED BY <2>1, StreamUntouched DEF ClientMove
<1> QED BY <1>1, <1>2, <1>3, <1>4, <1>5, <1>6 DEF App

LEMMA ServiceStream == TypeOK /\ StreamInv /\ Service => MoveStep
<1> SUFFICES ASSUME TypeOK, StreamInv, Service PROVE MoveStep
  OBVIOUS
<1>0. h \in History /\ reqs \in Seq(Req) /\ ver \in Nat /\ present \in BOOLEAN
  BY DEF TypeOK
<1>a. UNCHANGED <<rx, buf, sock>>
  BY DEF Service, SrvAnswer, SrvIgnores, SrvCrash, SrvStart, SrvEvent, SrvUnchanged, client, link
<1>1. CASE SrvAnswer
  <2>1. PICK ok \in BOOLEAN :
          net' = net \o Frags([fn |-> Head(reqs).fn, t |-> Head(reqs).t, ok |-> ok, gone |-> ~present,
                               n |-> ver, rid |-> Head(reqs).rid])
    BY <1>1 DEF SrvAnswer
  <2> DEFINE m == [fn |-> Head(reqs).fn, t |-> Head(reqs).t, ok |-> ok, gone |-> ~present,
                   n |-> ver, rid |-> Head(reqs).rid]
  <2>2. conn /\ reqs # <<>> /\ UNCHANGED <<conn, h>>
    BY <1>1 DEF SrvAnswer
  <2>3. Head(reqs) \in Req
    BY <1>0, <2>2
  <2>4. m \in Msg /\ m.fn # "ind"
    BY <1>0, <2>3 DEF Msg, Req
  <2>5. net' = net \o Frags(m)
    BY <2>1
  <2> HIDE DEF m
  <2>6. Grows(m)
    BY <1>a, <2>2, <2>4, <2>5, GrowStream
  <2> QED BY <2>4, <2>6 DEF MoveStep
<1>2. CASE SrvCrash
  <2>1. PICK k \in 0..Len(net) : /\ net' = SubSeq(net, 1, k)
                                 /\ h' = [h EXCEPT !.lost = @ \union IndFrags(After(net, k))]
    BY <1>2 DEF SrvCrash
  <2>2. h'.lost = h.lost \union IndFrags(After(net, k)) /\ h'.sent = h.sent
    BY <1>0, <2>1 DEF History
  <2>3. ~conn'
    BY <1>2 DEF SrvCrash
  <2>4. Cuts(k)
    BY <1>a, <2>1, <2>2, <2>3 DEF Cuts
  <2> QED BY <2>4 DEF MoveStep
<1>3. CASE SrvStart
  <2>1. UNCHANGED <<conn, net, h>>
    BY <1>3 DEF SrvStart
  <2> QED BY <1>a, <2>1, StreamUntouched DEF MoveStep, ClientMove
<1>4. ASSUME NEW t \in SignalType, SrvEvent(t) PROVE MoveStep
  <2>1. CASE conn /\ t \in subs
    <3> DEFINE m == [fn |-> "ind", t |-> t, ok |-> TRUE, gone |-> ~present', n |-> ver', rid |-> 0]
    <3>1. ver' = ver + 1 /\ net' = net \o Frags(m) /\ h' = [h EXCEPT !.sent = @ \union {ver'}]
          /\ conn' = conn /\ present' \in BOOLEAN
      BY <1>4, <2>1 DEF SrvEvent
    <3>2. m \in Msg /\ m.fn = "ind" /\ m.n = ver'
      BY <1>0, <3>1 DEF Msg
    <3> HIDE DEF m
    <3>3. h'.sent = h.sent \union {m.n} /\ h'.lost = h.lost
      BY <1>0, <3>1, <3>2 DEF History
    <3>4. Grows(m)
      BY <1>a, <2>1, <3>1, <3>2, <3>3, GrowStream
    <3> QED BY <3>2, <3>4 DEF MoveStep
  <2>2. CASE ~(conn /\ t \in subs)
    <3>1. UNCHANGED <<conn, net, h>>
      BY <1>4, <2>2 DEF SrvEvent
    <3> QED BY <1>a, <3>1, StreamUntouched DEF MoveStep, ClientMove
  <2> QED BY <2>1, <2>2
<1>5. CASE SrvIgnores
  <2>1. UNCHANGED <<conn, net, h>>
    BY <1>5 DEF SrvIgnores
  <2> QED BY <1>a, <2>1, StreamUntouched DEF MoveStep, ClientMove
<1> QED BY <1>1, <1>2, <1>3, <1>4, <1>5 DEF Service

LEMMA MoveSteps == TypeOK /\ StreamInv /\ [Next]_vars => MoveStep
<1>1. UNCHANGED vars => KeepsStream
  BY StreamUntouched DEF vars, client, link, service, wire
<1> QED BY <1>1, UnwindStream, WaitingStream, LoopEventStream, AppStream, ServiceStream
        DEF Next, MoveStep, ClientMove

LEMMA StreamSteps == TypeOK /\ StreamInv /\ [Next]_vars => StreamStep
<1> SUFFICES ASSUME TypeOK, StreamInv, [Next]_vars PROVE StreamStep
  OBVIOUS
<1>1. CASE OnReadyRead
  BY <1>1, ReadyReadStream DEF StreamStep
<1>2. CASE SyncRead
  BY <1>2, SyncReadStream DEF StreamStep
<1>3. CASE DrainSocketMessages
  BY <1>3, DrainStream, StreamTypes DEF StreamStep
<1> QED BY <1>1, <1>2, <1>3, MoveSteps DEF MoveStep, ClientMove, Reads, StreamStep

(* A stream that is scanned stays a stream.                                *)
LEMMA ScannedStream ==
    ASSUME TypeOK, StreamInv, NEW fs \in Seq(Frag), NEW rest \in Seq(Frag), Scans(fs, rest)
    PROVE  StreamInv'
<1>0. Stream \in Seq(Frag) /\ rest \in Seq(FragOf(Msg)) /\ fs \in Seq(FragOf(Msg))
  BY StreamTypes, FragFact
<1>1. CASE fs = <<>>
  <2>1. Leftover(fs) = <<>>
    BY <1>1 DEF Leftover, Aligned, Blocked
  <2>2. Stream' = Stream /\ rx' = <<>>
    BY <1>1, <2>1 DEF Scans
  <2>3. /\ conn' => sock' = "connected"
        /\ sock' # "connected" => net' = <<>>
        /\ Len(rx') <= 1
    BY <2>2 DEF StreamInv, Scans
  <2> QED BY <2>2, <2>3 DEF StreamInv, Scans
<1>2. CASE fs # <<>>
  <2> DEFINE g == Aligned(fs)
             r == Leftover(fs)
             n == Len(g) \div 2
  <2>1. /\ g \in Seq(FragOf(Msg)) /\ g \o rest = Aligned(Stream) /\ r = Leftover(g)
        /\ Paired(g \o rest)
    BY <1>0, <1>2, ScanAligned DEF Scans, StreamInv
  <2>2. /\ r \in Seq(FragOf(Msg)) /\ Len(r) = Len(g) % 2 /\ (r # <<>> => ~r[1].last)
        /\ Len(r \o rest) = Len(g \o rest) - 2 * n /\ Paired(r \o rest)
    <3> HIDE DEF g
    <3> QED BY <1>0, <2>1, ScanRest
  <2>3. rx' = r /\ Stream' = r \o rest
    BY DEF Scans
  <2>4. Len(r) <= 1 /\ Len(g) \in Nat /\ n \in Nat
    BY <2>1, <2>2, LenProperties
  <2>5. conn => Len(r \o rest) % 2 = 0
    <3>1. conn => Paired(Stream) /\ Len(Stream) % 2 = 0
      BY DEF StreamInv
    <3>2. conn => Aligned(Stream) = Stream
      BY <1>0, <3>1, AlignedPaired
    <3>3. conn => Len(g \o rest) = Len(Stream) /\ Len(Stream) \in Nat
      BY <1>0, <2>1, <3>2, LenProperties
    <3>4. ASSUME NEW x \in Nat, NEW y \in Nat, NEW z, z = x - 2 * y, x % 2 = 0 PROVE z % 2 = 0
      BY <3>4
    <3> HIDE DEF g, r, n
    <3> QED BY <2>2, <2>4, <3>1, <3>3, <3>4
  <2>6. r \o rest \in Seq(FragOf(Msg))
    BY <1>0, <2>2, ConcatProperties
  <2> HIDE DEF g, r, n
  <2>7. Aligned(r \o rest) = r \o rest
    <3> DEFINE q == r \o rest
    <3>1. Paired(q) /\ q \in Seq(FragOf(Msg))
      BY <2>2, <2>6
    <3> HIDE DEF q
    <3>2. Aligned(q) = q
      BY <3>1, AlignedPaired
    <3> QED BY <3>2 DEF q
  <2>8. /\ conn' => sock' = "connected"
        /\ sock' # "connected" => net' = <<>>
    BY DEF StreamInv, Scans
  <2>9. conn' = conn
    BY DEF Scans
  <2> QED BY <2>2, <2>3, <2>4, <2>5, <2>7, <2>8, <2>9 DEF StreamInv
<1> QED BY <1>1, <1>2

LEMMA StreamKept ==
    ASSUME TypeOK, StreamInv, StreamStep
    PROVE  StreamInv'
<1>0. /\ rx \in Seq(Frag) /\ buf \in Seq(Frag) /\ net \in Seq(Frag) /\ Stream \in Seq(Frag)
      /\ rx \o buf \in Seq(Frag) /\ Frag = FragOf(Msg)
  BY StreamTypes, FragFact
<1>1. CASE KeepsStream
  BY <1>1 DEF KeepsStream, StreamInv
<1>2. CASE Empties
  <2>1. Stream' = <<>> /\ Aligned(<<>>) = <<>> /\ Paired(<<>>) /\ Len(<<>>) = 0
    BY <1>2 DEF Empties, Stream, Aligned, Paired
  <2>2. 0 % 2 = 0 /\ 0 <= 1
    OBVIOUS
  <2> QED BY <1>2, <2>1, <2>2 DEF Empties, StreamInv
<1>3. CASE DropsBuffer
  <2>1. Stream = rx \o buf
    BY <1>0, <1>3, ConcatEmptySeq DEF DropsBuffer, Stream
  <2>2. <<>> \o buf = buf /\ buf \o <<>> = buf
    BY <1>0, ConcatEmptySeq
  <2>3. Stream' = (<<>> \o buf) \o <<>>
    BY <1>3 DEF DropsBuffer, Stream
  <2>4. Stream' = buf
    BY <2>2, <2>3
  <2>5. CASE rx = <<>>
    <3>1. Stream = buf
      BY <2>1, <2>2, <2>5
    <3> QED BY <1>3, <2>4, <2>5, <3>1 DEF DropsBuffer, StreamInv
  <2>6. CASE rx # <<>> /\ buf = <<>>
    <3>1. Stream' = <<>> /\ Aligned(<<>>) = <<>> /\ Paired(<<>>) /\ Len(<<>>) = 0
      BY <2>4, <2>6 DEF Aligned, Paired
    <3> QED BY <1>3, <3>1 DEF DropsBuffer, StreamInv
  <2>7. CASE rx # <<>> /\ buf # <<>>
    <3> DEFINE fs == rx \o <<Head(buf)>>
               rest == Tail(buf)
    <3>1. Head(buf) \in Frag /\ rest \in Seq(Frag) /\ buf = <<Head(buf)>> \o rest
      BY <1>0, <2>7
    <3>2. <<Head(buf)>> \in Seq(Frag)
      BY <3>1
    <3>3. Stream = fs \o rest
      BY <1>0, <2>1, <3>1, <3>2, Regroup
    <3>4. Len(rx) = 1 /\ ~rx[1].last /\ Len(<<Head(buf)>>) = 1
      <4>1. Len(rx) \in Nat /\ Len(rx) # 0 /\ Len(rx) <= 1
        BY <1>0, <2>7, LenProperties, EmptySeq DEF StreamInv
      <4>2. ~rx[1].last
        BY <2>7 DEF StreamInv
      <4>3. Len(rx) = 1
        <5>1. \A n \in Nat : n # 0 /\ n <= 1 => n = 1
          OBVIOUS
        <5> QED BY <4>1, <5>1
      <4>4. Len(<<Head(buf)>>) = 1
        OBVIOUS
      <4> QED BY <4>2, <4>3, <4>4
    <3>5. fs \in Seq(Frag) /\ Len(fs) = 2 /\ fs[1] = rx[1] /\ fs[2] = Head(buf)
      <4>1. fs \in Seq(Frag) /\ Len(fs) = Len(rx) + Len(<<Head(buf)>>)
            /\ \A i \in 1..(Len(rx) + Len(<<Head(buf)>>)) :
                  fs[i] = IF i <= Len(rx) THEN rx[i] ELSE <<Head(buf)>>[i - Len(rx)]
        BY <1>0, <3>2, ConcatProperties
      <4>2. 1 \in 1..2 /\ 2 \in 1..2 /\ 1 + 1 = 2 /\ ~(2 <= 1) /\ 2 - 1 = 1 /\ 1 <= 1
        OBVIOUS
      <4>3. fs[1] = rx[1] /\ fs[2] = <<Head(buf)>>[1]
        <5> HIDE DEF fs
        <5> QED BY <3>4, <4>1, <4>2
      <4>4. Len(fs) = 2
        <5> HIDE DEF fs
        <5> QED BY <3>4, <4>1, <4>2
      <4> QED BY <4>1, <4>3, <4>4
    <3>6. Stream # <<>> /\ Stream[1] = rx[1]
      BY <1>0, <2>1, <2>7, <3>4
    <3>7. Aligned(Stream) = Stream
      BY <3>4, <3>6 DEF Aligned
    <3>8. Paired(fs \o rest)
      BY <3>3, <3>7 DEF StreamInv
    <3> HIDE DEF fs
    <3>9. Paired(fs) /\ Paired(Leftover(fs) \o rest)
      BY <1>0, <3>1, <3>5, <3>8, ScanRest
    <3>10. Leftover(fs) = <<>>
      <4>1. fs \in Seq(FragOf(Msg))
        BY <1>0, <3>5
      <4>2. Leftover(fs) = IF Len(fs) % 2 = 1 THEN <<fs[Len(fs)]>> ELSE <<>>
        BY <3>9, <4>1, ScanPaired
      <4>3. Len(fs) % 2 # 1
        BY <3>5
      <4> QED BY <4>2, <4>3
    <3>11. Paired(rest)
      BY <3>1, <3>9, <3>10, ConcatEmptySeq
    <3>12. fs[2].last
      BY <3>5, <3>9 DEF Paired
    <3>13. Aligned(buf) = rest
      BY <2>7, <3>5, <3>12 DEF Aligned
    <3> QED BY <1>3, <2>4, <3>11, <3>13 DEF DropsBuffer, StreamInv
  <2> QED BY <2>5, <2>6, <2>7
<1>4. CASE DropsUnread
  <2>1. (rx \o <<>>) \o <<>> = rx
    BY <1>0, ConcatEmptySeq
  <2>2. Stream' = rx
    BY <1>4, <2>1 DEF DropsUnread, Stream
  <2>3. Paired(rx)
    BY <1>0, ShortPaired DEF StreamInv
  <2>4. Aligned(rx) = rx
    BY <1>0, <2>3, AlignedPaired
  <2> QED BY <1>4, <2>2, <2>3, <2>4 DEF DropsUnread, StreamInv
<1>5. ASSUME NEW fs \in Seq(Frag), NEW rest \in Seq(Frag), Scans(fs, rest) PROVE StreamInv'
  BY <1>5, ScannedStream
<1>6. ASSUME NEW m \in Msg, Grows(m) PROVE StreamInv'
  <2>1. conn /\ sock = "connected" /\ Paired(Stream) /\ Len(Stream) % 2 = 0
    BY <1>6 DEF Grows, StreamInv
  <2> DEFINE g == Stream \o Frags(m)
  <2>2. Paired(g) /\ Len(g) % 2 = 0
    BY <1>0, <2>1, GrowPaired
  <2>3. Frags(m) \in Seq(Frag)
    BY DEF Frags, Frag
  <2>4. g \in Seq(Frag)
    BY <1>0, <2>3, ConcatProperties
  <2> HIDE DEF g
  <2>5. Aligned(g) = g
    BY <2>2, <2>4, AlignedPaired
  <2>6. Stream' = g /\ UNCHANGED <<conn, sock, rx>>
    BY <1>6 DEF Grows, g
  <2> QED BY <2>1, <2>2, <2>5, <2>6 DEF StreamInv
<1>7. ASSUME NEW k \in 0..Len(net), Cuts(k) PROVE StreamInv'
  <2> DEFINE a == SubSeq(net, 1, k)
             b == After(net, k)
  <2>1. a \in Seq(Frag) /\ b \in Seq(Frag) /\ net = a \o b
    BY <1>0, ReadProperties, ReadSplit
  <2>2. ~conn' /\ sock' = sock /\ rx' = rx /\ net' = a /\ Stream' = (rx \o buf) \o a
    BY <1>7 DEF Cuts, Stream
  <2> HIDE DEF a, b
  <2>3. Stream = ((rx \o buf) \o a) \o b
    BY <1>0, <2>1, Regroup DEF Stream
  <2> DEFINE g == (rx \o buf) \o a
  <2>4. g \in Seq(Frag)
    BY <1>0, <2>1, ConcatProperties
  <2>5. CASE sock = "connected"
    <3>1. Paired(g \o b)
      BY <2>3, <2>5 DEF StreamInv
    <3> HIDE DEF g
    <3>2. Paired(g)
      BY <1>0, <2>1, <2>4, <3>1, PrefixPaired
    <3>3. Aligned(g) = g
      BY <2>4, <3>2, AlignedPaired
    <3>4. Stream' = g
      BY <2>2 DEF g
    <3> QED BY <2>2, <2>5, <3>2, <3>3, <3>4 DEF StreamInv
  <2>6. CASE sock # "connected"
    <3>1. net = <<>>
      BY <2>6 DEF StreamInv
    <3>2. a = <<>>
      <4>1. a \o b = <<>>
        BY <2>1, <3>1
      <4> QED BY <2>1, <4>1, ConcatEqualIffEmpty
    <3>3. Stream' = Stream
      BY <2>2, <3>1, <3>2 DEF Stream
    <3> QED BY <2>2, <2>6, <3>2, <3>3 DEF StreamInv
  <2> QED BY <2>5, <2>6
<1> QED BY <1>1, <1>2, <1>3, <1>4, <1>5, <1>6, <1>7 DEF StreamStep

LEMMA StreamAlways == Spec => []StreamInv
<1>1. TypeOK /\ StreamInv /\ [Next]_vars => StreamInv'
  BY StreamSteps, StreamKept
<1> QED BY <1>1, StreamInit, TypeCorrect, PTL DEF Spec

(* For every number of calls, faults, device events and nested callbacks:  *)
(* however reads, crashes and synchronous calls cut the stream, on a live  *)
(* connection the client's buffer holds nothing but the beginning of the   *)
(* message whose end comes next (extractJsonObjects, onConnected).         *)
THEOREM StreamAlignedCorrect == Spec => []StreamAligned
<1>1. TypeOK /\ StreamInv => StreamAligned
  <2> SUFFICES ASSUME TypeOK, StreamInv, sock = "connected", conn
               PROVE  /\ Len(rx) <= 1 /\ Len(Stream) % 2 = 0
                      /\ \A i \in DOMAIN Stream : /\ Stream[i].last = (i % 2 = 0)
                                                  /\ Stream[i].last => Stream[i].m = Stream[i-1].m
    BY DEF StreamAligned, Stream
  <2>1. Len(rx) <= 1 /\ Len(Stream) % 2 = 0 /\ Paired(Stream)
    BY DEF StreamInv
  <2>2. ASSUME NEW i \in DOMAIN Stream PROVE Stream[i].last = (i % 2 = 0)
    <3>1. Stream[i].last \in BOOLEAN
      <4>1. Stream[i] \in Frag
        BY StreamTypes, ElementOfSeq, LenProperties
      <4> QED BY <4>1 DEF Frag
    <3>2. Stream[i].last <=> i % 2 = 0
      BY <2>1 DEF Paired
    <3>3. (i % 2 = 0) \in BOOLEAN
      OBVIOUS
    <3> QED BY <3>1, <3>2, <3>3
  <2> QED BY <2>1, <2>2 DEF Paired
<1> QED BY <1>1, StreamAlways, TypeCorrect, PTL
-----------------------------------------------------------------------------
(* The indications a frame holds and has still to hand on, each list in    *)
(* the order of their sending.                                             *)
HeldIn(f) == (IF f.pc # "wait" THEN IndsIn(f.list) ELSE {})
             \union (IF f.pc \in {"wait", "left"} THEN IndsIn(f.raw) ELSE {})
Rising(ms) == \A i, j \in DOMAIN ms :
                 i < j /\ ms[i].fn = "ind" /\ ms[j].fn = "ind" => ms[i].n < ms[j].n
Before(a, b) == \A x \in a, y \in b : x < y

FrameInv(f) ==
    /\ f.op \in {"cb", "refresh", "reset", "init"} => f.list = <<>> /\ (f.pc # "ret" => f.raw = <<>>)
    /\ f.op \in {"get", "sub"} /\ f.pc = "ret" => f.list = <<>>
    /\ f.op \in {"onReadyRead", "drain"} => f.pc = "run"
    /\ f.pc # "wait" => Rising(f.list)
    /\ f.pc \in {"wait", "left"} => Rising(f.raw)
    /\ f.pc = "left" => IndsIn(f.list) \subseteq IndsIn(f.raw)

(* A stack no two frames of which hold the same indication, and where only *)
(* a callback runs above a frame that holds some, unless callbacks call    *)
(* the library again.                                                      *)
HeldOf(s) == UNION {HeldIn(s[i]) : i \in DOMAIN s}
Lone(s) == \A i, j \in DOMAIN s : i < j /\ s[i].op # "cb" => HeldIn(s[j]) = {}
Good(s) == /\ \A i \in DOMAIN s : FrameInv(s[i])
           /\ \A i, j \in DOMAIN s : i # j => HeldIn(s[i]) \intersect HeldIn(s[j]) = {}
           /\ Reentrant \/ Lone(s)

LEMMA NoInds == IndsIn(<<>>) = {} /\ Rising(<<>>)
  BY DEF IndsIn, Rising

LEMMA IndsMember ==
    ASSUME NEW ms, NEW x
    PROVE  x \in IndsIn(ms) <=> \E i \in DOMAIN ms : ms[i].fn = "ind" /\ ms[i].n = x
  BY DEF IndsIn

LEMMA FragsMember ==
    ASSUME NEW fs, NEW x
    PROVE  x \in IndFrags(fs) <=> \E i \in DOMAIN fs : fs[i].m.fn = "ind" /\ fs[i].m.n = x
  BY DEF IndFrags

LEMMA HeldMember ==
    ASSUME NEW s, NEW x
    PROVE  x \in HeldOf(s) <=> \E i \in DOMAIN s : x \in HeldIn(s[i])
  BY DEF HeldOf

(* Taking the messages up to the i-th from a list, and adding some.        *)
LEMMA TakeInds ==
    ASSUME NEW ms \in Seq(Msg), Rising(ms), NEW i \in DOMAIN ms
    PROVE  /\ After(ms, i) \in Seq(Msg) /\ Rising(After(ms, i))
           /\ IndsIn(After(ms, i)) \subseteq IndsIn(ms)
           /\ ms[i].fn = "ind" => ms[i].n \in IndsIn(ms) /\ Before({ms[i].n}, IndsIn(After(ms, i)))
           /\ (\A j \in 1..(i-1) : ms[j].fn # "ind") =>
                 IndsIn(ms) \subseteq IndsIn(After(ms, i))
                                      \union (IF ms[i].fn = "ind" THEN {ms[i].n} ELSE {})
<1> DEFINE t == After(ms, i)
<1>1. Len(ms) \in Nat /\ DOMAIN ms = 1..Len(ms) /\ i \in 0..Len(ms) /\ i \in Nat
  BY LenProperties
<1>2. /\ t \in Seq(Msg) /\ Len(t) = Len(ms) - i
      /\ \A j \in 1..(Len(ms) - i) : t[j] = ms[i + j]
  BY <1>1, ReadProperties
<1>3. DOMAIN t = 1..(Len(ms) - i)
  BY <1>2, LenProperties
<1> HIDE DEF t
<1>4. \A j \in DOMAIN t : i + j \in DOMAIN ms /\ t[j] = ms[i + j] /\ i < i + j /\ j \in Nat
  BY <1>1, <1>2, <1>3
<1>5. \A j \in DOMAIN ms : j \in 1..(i-1) \/ j = i \/ (j - i \in DOMAIN t /\ t[j - i] = ms[j])
  <2> SUFFICES ASSUME NEW j \in DOMAIN ms, j \notin 1..(i-1), j # i
               PROVE  j - i \in DOMAIN t /\ t[j - i] = ms[j]
    OBVIOUS
  <2>1. j - i \in 1..(Len(ms) - i) /\ i + (j - i) = j
    BY <1>1
  <2> QED BY <1>2, <1>3, <2>1
<1>6. Rising(t)
  <2> SUFFICES ASSUME NEW a \in DOMAIN t, NEW b \in DOMAIN t, a < b, t[a].fn = "ind", t[b].fn = "ind"
               PROVE  t[a].n < t[b].n
    BY DEF Rising
  <2>1. i + a < i + b
    BY <1>1, <1>4
  <2> QED BY <1>4, <2>1 DEF Rising
<1>7. ASSUME NEW x \in IndsIn(t) PROVE x \in IndsIn(ms)
  <2>1. PICK j \in DOMAIN t : t[j].fn = "ind" /\ t[j].n = x
    BY <1>7, IndsMember
  <2>2. i + j \in DOMAIN ms /\ ms[i + j].fn = "ind" /\ ms[i + j].n = x
    BY <1>4, <2>1
  <2> QED BY <2>2, IndsMember
<1>8. ms[i].fn = "ind" => ms[i].n \in IndsIn(ms)
  BY IndsMember
<1>9. ASSUME ms[i].fn = "ind", NEW x \in IndsIn(t) PROVE ms[i].n < x
  <2>1. PICK j \in DOMAIN t : t[j].fn = "ind" /\ t[j].n = x
    BY <1>9, IndsMember
  <2> QED BY <1>4, <1>9, <2>1 DEF Rising
<1>10. ASSUME \A j \in 1..(i-1) : ms[j].fn # "ind", NEW x \in IndsIn(ms)
       PROVE  x \in IndsIn(t) \/ (ms[i].fn = "ind" /\ x = ms[i].n)
  <2>1. PICK j \in DOMAIN ms : ms[j].fn = "ind" /\ ms[j].n = x
    BY <1>10, IndsMember
  <2>2. j = i \/ (j - i \in DOMAIN t /\ t[j - i] = ms[j])
    BY <1>5, <1>10, <2>1
  <2> QED BY <2>1, <2>2, IndsMember
<1> QED BY <1>2, <1>6, <1>7, <1>8, <1>9, <1>10 DEF t, Before

LEMMA JoinInds ==
    ASSUME NEW a \in Seq(Msg), NEW b \in Seq(Msg)
    PROVE  /\ a \o b \in Seq(Msg) /\ IndsIn(a \o b) = IndsIn(a) \union IndsIn(b)
           /\ Rising(a) /\ Rising(b) /\ Before(IndsIn(a), IndsIn(b)) => Rising(a \o b)
<1> DEFINE c == a \o b
<1>1. Len(a) \in Nat /\ Len(b) \in Nat /\ DOMAIN a = 1..Len(a) /\ DOMAIN b = 1..Len(b)
  BY LenProperties
<1>2. /\ c \in Seq(Msg) /\ Len(c) = Len(a) + Len(b)
      /\ \A i \in 1..(Len(a) + Len(b)) : c[i] = IF i <= Len(a) THEN a[i] ELSE b[i - Len(a)]
  BY ConcatProperties
<1>3. DOMAIN c = 1..(Len(a) + Len(b))
  BY <1>2, LenProperties
<1> HIDE DEF c
<1>4. \A i \in DOMAIN a : i \in DOMAIN c /\ c[i] = a[i]
  BY <1>1, <1>2, <1>3
<1>5. \A i \in DOMAIN b : Len(a) + i \in DOMAIN c /\ c[Len(a) + i] = b[i]
  <2> TAKE i \in DOMAIN b
  <2>1. Len(a) + i \in 1..(Len(a) + Len(b)) /\ ~(Len(a) + i <= Len(a)) /\ (Len(a) + i) - Len(a) = i
    BY <1>1
  <2> QED BY <1>2, <1>3, <2>1
<1>6. \A i \in DOMAIN c : \/ i \in DOMAIN a /\ c[i] = a[i]
                          \/ i - Len(a) \in DOMAIN b /\ c[i] = b[i - Len(a)]
  <2> TAKE i \in DOMAIN c
  <2>1. i \in 1..(Len(a) + Len(b)) /\ (i <= Len(a) => i \in 1..Len(a))
        /\ (~(i <= Len(a)) => i - Len(a) \in 1..Len(b))
    BY <1>1, <1>3
  <2> QED BY <1>1, <1>2, <2>1
<1>7. IndsIn(c) = IndsIn(a) \union IndsIn(b)
  <2>1. ASSUME NEW x \in IndsIn(c) PROVE x \in IndsIn(a) \union IndsIn(b)
    BY <1>6, <2>1, IndsMember
  <2>2. ASSUME NEW x \in IndsIn(a) PROVE x \in IndsIn(c)
    BY <1>4, <2>2, IndsMember
  <2>3. ASSUME NEW x \in IndsIn(b) PROVE x \in IndsIn(c)
    BY <1>5, <2>3, IndsMember
  <2> QED BY <2>1, <2>2, <2>3
<1>8. ASSUME Rising(a), Rising(b), Before(IndsIn(a), IndsIn(b)),
             NEW i \in DOMAIN c, NEW j \in DOMAIN c, i < j, c[i].fn = "ind", c[j].fn = "ind"
      PROVE  c[i].n < c[j].n
  <2>1. CASE i \in DOMAIN a /\ c[i] = a[i] /\ j \in DOMAIN a /\ c[j] = a[j]
    BY <1>8, <2>1 DEF Rising
  <2>2. CASE i - Len(a) \in DOMAIN b /\ c[i] = b[i - Len(a)] /\ j - Len(a) \in DOMAIN b
             /\ c[j] = b[j - Len(a)]
    <3>1. i - Len(a) < j - Len(a)
      BY <1>1, <1>3, <1>8
    <3> QED BY <1>8, <2>2, <3>1 DEF Rising
  <2>3. CASE i \in DOMAIN a /\ c[i] = a[i] /\ j - Len(a) \in DOMAIN b /\ c[j] = b[j - Len(a)]
    <3>1. c[i].n \in IndsIn(a) /\ c[j].n \in IndsIn(b)
      BY <1>8, <2>3, IndsMember
    <3> QED BY <1>8, <3>1 DEF Before
  <2>4. CASE j \in DOMAIN a /\ i - Len(a) \in DOMAIN b
    BY <1>1, <1>3, <1>8, <2>4
  <2> QED BY <1>6, <2>1, <2>2, <2>3, <2>4
<1> QED BY <1>2, <1>7, <1>8 DEF Rising, c

(* Frames put on a stack and taken from it.                                *)
LEMMA PushGood ==
    ASSUME NEW f \in Frame, NEW s \in Seq(Frame), Good(s), FrameInv(f),
           HeldIn(f) \intersect HeldOf(s) = {}, f.op = "cb" \/ Reentrant \/ HeldOf(s) = {}
    PROVE  /\ Push(f, s) \in Seq(Frame) /\ Good(Push(f, s))
           /\ HeldOf(Push(f, s)) = HeldIn(f) \union HeldOf(s)
<1> DEFINE p == Push(f, s)
<1>1. Len(s) \in Nat /\ DOMAIN s = 1..Len(s)
  BY LenProperties
<1>2. /\ p \in Seq(Frame) /\ DOMAIN p = 1..(Len(s) + 1) /\ p[1] = f
      /\ \A i \in 1..Len(s) : p[i + 1] = s[i]
  BY DEF Push
<1> HIDE DEF p
<1>3. \A i \in DOMAIN p : i = 1 \/ (i - 1 \in DOMAIN s /\ p[i] = s[i - 1] /\ i # 1 /\ i \in Nat)
  <2> SUFFICES ASSUME NEW i \in DOMAIN p, i # 1 PROVE i - 1 \in DOMAIN s /\ p[i] = s[i - 1] /\ i \in Nat
    OBVIOUS
  <2>1. i - 1 \in 1..Len(s) /\ (i - 1) + 1 = i /\ i \in Nat
    BY <1>1, <1>2
  <2> QED BY <1>1, <1>2, <2>1
<1>4. \A i \in DOMAIN s : i + 1 \in DOMAIN p /\ p[i + 1] = s[i]
  BY <1>1, <1>2
<1>5. 1 \in DOMAIN p
  BY <1>1, <1>2
<1>6. \A i \in DOMAIN p : FrameInv(p[i])
  BY <1>2, <1>3 DEF Good
<1>7. ASSUME NEW i \in DOMAIN s PROVE HeldIn(f) \intersect HeldIn(s[i]) = {}
  BY HeldMember
<1>8. ASSUME NEW i \in DOMAIN p, NEW j \in DOMAIN p, i # j
      PROVE  HeldIn(p[i]) \intersect HeldIn(p[j]) = {}
  <2>1. CASE i = 1
    BY <1>2, <1>3, <1>7, <1>8, <2>1
  <2>2. CASE j = 1
    BY <1>2, <1>3, <1>7, <1>8, <2>2
  <2>3. CASE i # 1 /\ j # 1
    <3>1. i - 1 \in DOMAIN s /\ j - 1 \in DOMAIN s /\ i - 1 # j - 1 /\ p[i] = s[i - 1] /\ p[j] = s[j - 1]
      BY <1>3, <1>8, <2>3
    <3> QED BY <3>1 DEF Good
  <2> QED BY <2>1, <2>2, <2>3
<1>9. HeldOf(p) = HeldIn(f) \union HeldOf(s)
  <2>1. ASSUME NEW x \in HeldOf(p) PROVE x \in HeldIn(f) \union HeldOf(s)
    <3>1. PICK i \in DOMAIN p : x \in HeldIn(p[i])
      BY <2>1, HeldMember
    <3> QED BY <1>2, <1>3, <3>1, HeldMember
  <2>2. ASSUME NEW x \in HeldIn(f) PROVE x \in HeldOf(p)
    BY <1>2, <1>5, <2>2, HeldMember
  <2>3. ASSUME NEW x \in HeldOf(s) PROVE x \in HeldOf(p)
    <3>1. PICK i \in DOMAIN s : x \in HeldIn(s[i])
      BY <2>3, HeldMember
    <3>2. i + 1 \in DOMAIN p /\ x \in HeldIn(p[i + 1])
      BY <1>4, <3>1
    <3> QED BY <3>2, HeldMember
  <2> QED BY <2>1, <2>2, <2>3
<1>10. ASSUME ~Reentrant PROVE Lone(p)
  <2> SUFFICES ASSUME NEW i \in DOMAIN p, NEW j \in DOMAIN p, i < j, p[i].op # "cb"
               PROVE  HeldIn(p[j]) = {}
    BY DEF Lone
  <2>1. j # 1 /\ j - 1 \in DOMAIN s /\ p[j] = s[j - 1]
    BY <1>1, <1>2, <1>3
  <2>2. CASE i = 1
    <3>1. HeldOf(s) = {}
      BY <1>2, <1>10, <2>2
    <3>2. HeldIn(s[j - 1]) \subseteq HeldOf(s)
      BY <2>1, HeldMember
    <3> QED BY <2>1, <3>1, <3>2
  <2>3. CASE i # 1
    <3>1. i - 1 \in DOMAIN s /\ p[i] = s[i - 1] /\ i - 1 < j - 1
      BY <1>1, <1>2, <1>3, <2>3
    <3>2. Lone(s)
      BY <1>10 DEF Good
    <3> QED BY <2>1, <3>1, <3>2 DEF Lone
  <2> QED BY <2>2, <2>3
<1> QED BY <1>2, <1>6, <1>8, <1>9, <1>10 DEF Good, p

LEMMA PopGood ==
    ASSUME NEW s \in Seq(Frame), s # <<>>, Good(s)
    PROVE  /\ Head(s) \in Frame /\ Tail(s) \in Seq(Frame)
           /\ FrameInv(Head(s)) /\ Good(Tail(s))
           /\ HeldOf(s) = HeldIn(Head(s)) \union HeldOf(Tail(s))
           /\ HeldIn(Head(s)) \intersect HeldOf(Tail(s)) = {}
           /\ Head(s).op = "cb" \/ Reentrant \/ HeldOf(Tail(s)) = {}
<1> DEFINE t == Tail(s)
           f == Head(s)
<1>1. Len(s) \in Nat \ {0} /\ DOMAIN s = 1..Len(s)
  BY LenProperties, EmptySeq
<1>2. /\ f \in Frame /\ t \in Seq(Frame) /\ Len(t) = Len(s) - 1
      /\ \A i \in 1..Len(t) : t[i] = s[i + 1]
  BY HeadTailProperties
<1>3. f = s[1] /\ DOMAIN t = 1..Len(t) /\ 1 \in DOMAIN s
  BY <1>1, <1>2, LenProperties
<1> HIDE DEF t, f
<1>4. \A i \in DOMAIN t : i + 1 \in DOMAIN s /\ t[i] = s[i + 1] /\ i + 1 # 1 /\ i \in Nat
  BY <1>1, <1>2, <1>3
<1>5. \A i \in DOMAIN s : i = 1 \/ (i - 1 \in DOMAIN t /\ t[i - 1] = s[i])
  <2> SUFFICES ASSUME NEW i \in DOMAIN s, i # 1 PROVE i - 1 \in DOMAIN t /\ t[i - 1] = s[i]
    OBVIOUS
  <2>1. i - 1 \in 1..Len(t) /\ (i - 1) + 1 = i
    BY <1>1, <1>2
  <2> QED BY <1>2, <1>3, <2>1
<1>6. FrameInv(f) /\ \A i \in DOMAIN t : FrameInv(t[i])
  BY <1>3, <1>4 DEF Good
<1>7. ASSUME NEW i \in DOMAIN t, NEW j \in DOMAIN t, i # j
      PROVE  HeldIn(t[i]) \intersect HeldIn(t[j]) = {}
  <2>1. i + 1 \in DOMAIN s /\ j + 1 \in DOMAIN s /\ i + 1 # j + 1 /\ t[i] = s[i + 1] /\ t[j] = s[j + 1]
    BY <1>4, <1>7
  <2> QED BY <2>1 DEF Good
<1>8. HeldOf(s) = HeldIn(f) \union HeldOf(t)
  <2>1. ASSUME NEW x \in HeldOf(s) PROVE x \in HeldIn(f) \union HeldOf(t)
    <3>1. PICK i \in DOMAIN s : x \in HeldIn(s[i])
      BY <2>1, HeldMember
    <3> QED BY <1>3, <1>5, <3>1, HeldMember
  <2>2. ASSUME NEW x \in HeldIn(f) PROVE x \in HeldOf(s)
    BY <1>3, <2>2, HeldMember
  <2>3. ASSUME NEW x \in HeldOf(t) PROVE x \in HeldOf(s)
    <3>1. PICK i \in DOMAIN t : x \in HeldIn(t[i])
      BY <2>3, HeldMember
    <3>2. i + 1 \in DOMAIN s /\ x \in HeldIn(s[i + 1])
      BY <1>4, <3>1
    <3> QED BY <3>2, HeldMember
  <2> QED BY <2>1, <2>2, <2>3
<1>9. ASSUME NEW x \in HeldIn(f), x \in HeldOf(t) PROVE FALSE
  <2>1. PICK i \in DOMAIN t : x \in HeldIn(t[i])
    BY <1>9, HeldMember
  <2>2. i + 1 \in DOMAIN s /\ i + 1 # 1 /\ x \in HeldIn(s[i + 1]) /\ x \in HeldIn(s[1])
    BY <1>3, <1>4, <1>9, <2>1
  <2> QED BY <1>3, <2>2 DEF Good
<1>10. ASSUME ~Reentrant PROVE Lone(s) /\ Lone(t)
  <2>1. Lone(s)
    BY <1>10 DEF Good
  <2>2. ASSUME NEW i \in DOMAIN t, NEW j \in DOMAIN t, i < j, t[i].op # "cb" PROVE HeldIn(t[j]) = {}
    <3>1. /\ i + 1 \in DOMAIN s /\ j + 1 \in DOMAIN s /\ i + 1 < j + 1
          /\ t[i] = s[i + 1] /\ t[j] = s[j + 1]
      BY <1>4, <2>2
    <3> QED BY <2>1, <2>2, <3>1 DEF Lone
  <2> QED BY <2>1, <2>2 DEF Lone
<1>11. Good(t)
  BY <1>6, <1>7, <1>10 DEF Good
<1>12. HeldIn(f) \intersect HeldOf(t) = {}
  BY <1>9
<1>13. ASSUME f.op # "cb", ~Reentrant PROVE HeldOf(t) = {}
  <2> SUFFICES ASSUME NEW x \in HeldOf(t) PROVE FALSE
    OBVIOUS
  <2>1. PICK i \in DOMAIN t : x \in HeldIn(t[i])
    BY HeldMember
  <2>2. i + 1 \in DOMAIN s /\ 1 < i + 1 /\ x \in HeldIn(s[i + 1])
    BY <1>4, <2>1
  <2> QED BY <1>3, <1>10, <1>13, <2>2 DEF Lone
<1> QED BY <1>2, <1>6, <1>8, <1>11, <1>12, <1>13 DEF t, f

(* ResetDevice's lambda ends its loop, which holds nothing.                *)
LEMMA AnsweredGood ==
    ASSUME NEW s \in Seq(Frame), NEW ok \in BOOLEAN, Good(s)
    PROVE  Good(Answered(s, ok)) /\ HeldOf(Answered(s, ok)) = HeldOf(s)
<1> DEFINE a == Answered(s, ok)
<1>1. DOMAIN a = DOMAIN s
  BY DEF Answered
<1>2. ASSUME NEW i \in DOMAIN s
      PROVE  FrameInv(a[i]) /\ HeldIn(a[i]) = HeldIn(s[i]) /\ a[i].op = s[i].op
  <2>1. s[i] \in Frame /\ FrameInv(s[i])
    BY ElementOfSeq, LenProperties DEF Good
  <2>2. CASE s[i].op # "reset"
    <3>1. a[i] = s[i]
      BY <2>2 DEF Answered
    <3> QED BY <2>1, <3>1
  <2>3. CASE s[i].op = "reset"
    <3>1. a[i] = [s[i] EXCEPT !.pc = "ret", !.ok = @ \/ ok]
      BY <2>3 DEF Answered
    <3>2. a[i].op = "reset" /\ a[i].pc = "ret" /\ a[i].list = s[i].list /\ a[i].raw = s[i].raw
      BY <2>1, <2>3, <3>1 DEF Frame
    <3> HIDE DEF a
    <3>3. s[i].list = <<>> /\ (s[i].pc # "ret" => s[i].raw = <<>>)
      BY <2>1, <2>3 DEF FrameInv
    <3>4. FrameInv(a[i])
      BY <3>2, <3>3, NoInds DEF FrameInv
    <3>5. HeldIn(a[i]) = {}
      BY <3>2, <3>3, NoInds DEF HeldIn
    <3>6. HeldIn(s[i]) = {}
      BY <3>3, NoInds DEF HeldIn
    <3> QED BY <2>3, <3>2, <3>4, <3>5, <3>6
  <2> QED BY <2>2, <2>3
<1> HIDE DEF a
<1>3. Good(a)
  <2>1. Reentrant \/ Lone(s)
    BY DEF Good
  <2>2. Lone(s) => Lone(a)
    BY <1>1, <1>2 DEF Lone
  <2> QED BY <1>1, <1>2, <2>1, <2>2 DEF Good
<1>4. HeldOf(a) = HeldOf(s)
  <2>1. ASSUME NEW x PROVE x \in HeldOf(a) <=> x \in HeldOf(s)
    BY <1>1, <1>2, HeldMember
  <2> QED BY <2>1
<1> QED BY <1>3, <1>4 DEF a

LEMMA HeldFact == Held = HeldOf(stk)
<1>1. ASSUME NEW x PROVE x \in Held <=> x \in HeldOf(stk)
  <2>1. x \in Held <=>
          \/ \E i \in DOMAIN stk : stk[i].pc # "wait" /\ x \in IndsIn(stk[i].list)
          \/ \E i \in DOMAIN stk : stk[i].pc \in {"wait", "left"} /\ x \in IndsIn(stk[i].raw)
    <3>1. x \in UNION {IndsIn(stk[i].list) : i \in {j \in DOMAIN stk : stk[j].pc # "wait"}} <=>
            \E i \in DOMAIN stk : stk[i].pc # "wait" /\ x \in IndsIn(stk[i].list)
      OBVIOUS
    <3>2. x \in UNION {IndsIn(stk[i].raw) : i \in {j \in DOMAIN stk : stk[j].pc \in {"wait", "left"}}} <=>
            \E i \in DOMAIN stk : stk[i].pc \in {"wait", "left"} /\ x \in IndsIn(stk[i].raw)
      OBVIOUS
    <3> QED BY <3>1, <3>2, Zenon DEF Held
  <2>2. ASSUME NEW i \in DOMAIN stk
        PROVE  x \in HeldIn(stk[i]) <=>
                 \/ stk[i].pc # "wait" /\ x \in IndsIn(stk[i].list)
                 \/ stk[i].pc \in {"wait", "left"} /\ x \in IndsIn(stk[i].raw)
    BY DEF HeldIn
  <2> QED BY <2>1, <2>2, HeldMember
<1> QED BY <1>1

(* Where the fragments of two sequences are in their concatenation.        *)
Joins(s, a, b) ==
    /\ Len(a) \in Nat
    /\ \A i \in DOMAIN a : i \in DOMAIN s /\ s[i] = a[i] /\ i \in 1..Len(a)
    /\ \A i \in DOMAIN b : Len(a) + i \in DOMAIN s /\ s[Len(a) + i] = b[i] /\ i \in Nat \ {0}
    /\ \A i \in DOMAIN s : \/ i \in DOMAIN a /\ s[i] = a[i]
                           \/ i - Len(a) \in DOMAIN b /\ s[i] = b[i - Len(a)]

LEMMA Joining == \A a, b \in Seq(Frag) : Joins(a \o b, a, b)
<1> TAKE a, b \in Seq(Frag)
<1> DEFINE c == a \o b
<1>1. Len(a) \in Nat /\ Len(b) \in Nat /\ DOMAIN a = 1..Len(a) /\ DOMAIN b = 1..Len(b)
  BY LenProperties
<1>2. /\ c \in Seq(Frag) /\ Len(c) = Len(a) + Len(b)
      /\ \A i \in 1..(Len(a) + Len(b)) : c[i] = IF i <= Len(a) THEN a[i] ELSE b[i - Len(a)]
  BY ConcatProperties
<1>3. DOMAIN c = 1..(Len(a) + Len(b))
  BY <1>2, LenProperties
<1> HIDE DEF c
<1>4. \A i \in DOMAIN a : i \in DOMAIN c /\ c[i] = a[i] /\ i \in 1..Len(a)
  BY <1>1, <1>2, <1>3
<1>5. \A i \in DOMAIN b : Len(a) + i \in DOMAIN c /\ c[Len(a) + i] = b[i] /\ i \in Nat \ {0}
  <2> TAKE i \in DOMAIN b
  <2>1. Len(a) + i \in 1..(Len(a) + Len(b)) /\ ~(Len(a) + i <= Len(a)) /\ (Len(a) + i) - Len(a) = i
        /\ i \in Nat \ {0}
    BY <1>1
  <2> QED BY <1>2, <1>3, <2>1
<1>6. \A i \in DOMAIN c : \/ i \in DOMAIN a /\ c[i] = a[i]
                          \/ i - Len(a) \in DOMAIN b /\ c[i] = b[i - Len(a)]
  <2> TAKE i \in DOMAIN c
  <2>1. i \in 1..(Len(a) + Len(b)) /\ (i <= Len(a) => i \in 1..Len(a))
        /\ (~(i <= Len(a)) => i - Len(a) \in 1..Len(b))
    BY <1>1, <1>3
  <2> QED BY <1>1, <1>2, <2>1
<1> QED BY <1>1, <1>4, <1>5, <1>6 DEF Joins, c

LEMMA JoinFrags ==
    ASSUME NEW a \in Seq(Frag), NEW b \in Seq(Frag)
    PROVE  IndFrags(a \o b) = IndFrags(a) \union IndFrags(b)
<1> DEFINE c == a \o b
<1>1. Joins(c, a, b)
  BY Joining
<1> HIDE DEF c
<1>4. \A i \in DOMAIN a : i \in DOMAIN c /\ c[i] = a[i]
  BY <1>1 DEF Joins
<1>5. \A i \in DOMAIN b : Len(a) + i \in DOMAIN c /\ c[Len(a) + i] = b[i]
  BY <1>1 DEF Joins
<1>6. \A i \in DOMAIN c : \/ i \in DOMAIN a /\ c[i] = a[i]
                          \/ i - Len(a) \in DOMAIN b /\ c[i] = b[i - Len(a)]
  BY <1>1 DEF Joins
<1>7. ASSUME NEW x \in IndFrags(c) PROVE x \in IndFrags(a) \union IndFrags(b)
  <2>1. PICK i \in DOMAIN c : c[i].m.fn = "ind" /\ c[i].m.n = x
    BY <1>7, FragsMember
  <2> QED BY <1>6, <2>1, FragsMember
<1>8. ASSUME NEW x \in IndFrags(a) PROVE x \in IndFrags(c)
  <2>1. PICK i \in DOMAIN a : a[i].m.fn = "ind" /\ a[i].m.n = x
    BY <1>8, FragsMember
  <2> QED BY <1>4, <2>1, FragsMember
<1>9. ASSUME NEW x \in IndFrags(b) PROVE x \in IndFrags(c)
  <2>1. PICK i \in DOMAIN b : b[i].m.fn = "ind" /\ b[i].m.n = x
    BY <1>9, FragsMember
  <2>2. Len(a) + i \in DOMAIN c /\ c[Len(a) + i] = b[i]
    BY <1>5
  <2> QED BY <2>1, <2>2, FragsMember
<1> QED BY <1>7, <1>8, <1>9 DEF c

LEMMA UnreadFact == TypeOK => Unread = IndFrags(Stream)
<1> SUFFICES ASSUME TypeOK PROVE Unread = IndFrags(Stream)
  OBVIOUS
<1>1. rx \in Seq(Frag) /\ buf \in Seq(Frag) /\ net \in Seq(Frag) /\ rx \o buf \in Seq(Frag)
  BY StreamTypes
<1>2. IndFrags(rx \o buf) = IndFrags(rx) \union IndFrags(buf)
  BY <1>1, JoinFrags
<1>3. IndFrags((rx \o buf) \o net) = IndFrags(rx \o buf) \union IndFrags(net)
  BY <1>1, JoinFrags
<1> QED BY <1>2, <1>3 DEF Unread, Stream

(* The indications come in the order of their sending, and the fragments   *)
(* of one follow each other; an end without its beginning is that of an    *)
(* indication given up as lost, and no other whole one is.                 *)
Apart(s) == \A i, j \in DOMAIN s :
               i < j /\ s[i].m.fn = "ind" /\ s[j].m.fn = "ind" =>
                   \/ s[i].m.n < s[j].m.n
                   \/ s[i].m.n = s[j].m.n /\ j = i + 1 /\ ~s[i].last
LooseEnd(s, lost) == \A i \in DOMAIN s :
                        s[i].m.fn = "ind" /\ s[i].last => (s[i].m.n \in lost <=> i = 1)

(* Fragments of the same indication.                                       *)
LEMMA SameInd ==
    ASSUME NEW s \in Seq(Frag), Apart(s), NEW i \in DOMAIN s, NEW j \in DOMAIN s, i < j,
           s[i].m.fn = "ind", s[j].m.fn = "ind", s[i].m.n = s[j].m.n
    PROVE  j = i + 1 /\ ~s[i].last
<1>1. s[i] \in Frag
  BY ElementOfSeq, LenProperties
<1>2. s[i].m.n \in Nat
  BY <1>1 DEF Frag, Msg
<1>3. ~(s[i].m.n < s[i].m.n)
  BY <1>2
<1> QED BY <1>3 DEF Apart

LEMMA ShiftApart ==
    ASSUME NEW s \in Seq(Frag), NEW t \in Seq(Frag), Apart(s), NEW c \in Nat,
           \A i \in DOMAIN t : c + i \in DOMAIN s /\ t[i] = s[c + i]
    PROVE  Apart(t) /\ IndFrags(t) \subseteq IndFrags(s)
<1>1. \A i \in DOMAIN t : i \in Nat
  BY LenProperties
<1>2. Apart(t)
  <2> SUFFICES ASSUME NEW i \in DOMAIN t, NEW j \in DOMAIN t, i < j, t[i].m.fn = "ind",
                      t[j].m.fn = "ind"
               PROVE  \/ t[i].m.n < t[j].m.n
                      \/ t[i].m.n = t[j].m.n /\ j = i + 1 /\ ~t[i].last
    BY DEF Apart
  <2>1. c + i \in DOMAIN s /\ c + j \in DOMAIN s /\ t[i] = s[c + i] /\ t[j] = s[c + j]
    OBVIOUS
  <2>2. i \in Nat /\ j \in Nat
    BY <1>1
  <2>3. c + i < c + j
    BY <2>2
  <2>4. \/ t[i].m.n < t[j].m.n
        \/ t[i].m.n = t[j].m.n /\ c + j = (c + i) + 1 /\ ~t[i].last
    BY <2>1, <2>3 DEF Apart
  <2>5. c + j = (c + i) + 1 => j = i + 1
    BY <2>2
  <2> QED BY <2>4, <2>5
<1>3. ASSUME NEW x \in IndFrags(t) PROVE x \in IndFrags(s)
  <2>1. PICK i \in DOMAIN t : t[i].m.fn = "ind" /\ t[i].m.n = x
    BY <1>3, FragsMember
  <2> QED BY <2>1, FragsMember
<1> QED BY <1>2, <1>3

(* What a scan makes of the indications in the stream s: the objects o and *)
(* the stream t.                                                           *)
LEMMA SplitInds ==
    ASSUME NEW s \in Seq(Frag), NEW t \in Seq(Frag), NEW o \in Seq(Msg), NEW lost,
           Apart(s), LooseEnd(s, lost), NEW d \in {0, 1}, NEW k \in Nat, Splits(s, o, t, d, k)
    PROVE  /\ Apart(t) /\ LooseEnd(t, lost) /\ IndFrags(t) \subseteq IndFrags(s)
           /\ Rising(o) /\ IndsIn(o) \subseteq IndFrags(s)
           /\ IndsIn(o) \intersect lost = {} /\ Before(IndsIn(o), IndFrags(t))
           /\ IndFrags(s) \subseteq IndFrags(t) \union IndsIn(o) \union lost
<1>1. DOMAIN o = 1..k
  BY DEF Splits
<1>2. \A i \in DOMAIN t : i \in Nat /\ i # 0
  BY LenProperties
<1> DEFINE c == d + 2 * k
<1>3. c \in Nat
  OBVIOUS
<1>4. \A i \in 1..k : /\ i \in Nat /\ d + 2 * i \in DOMAIN s /\ o[i] = s[d + 2 * i].m
                      /\ s[d + 2 * i].last /\ d + 2 * i # 1 /\ d + 2 * i <= c /\ d + 2 * i \in Nat
  <2> TAKE i \in 1..k
  <2>1. i \in Nat /\ d + 2 * i # 1 /\ d + 2 * i <= c /\ d + 2 * i \in Nat
    OBVIOUS
  <2> QED BY <2>1 DEF Splits
<1>5. \A i \in DOMAIN t : c + i \in DOMAIN s /\ t[i] = s[c + i]
  BY DEF Splits
<1>6. \A j \in DOMAIN s : \/ j = 1 /\ s[1].last
                          \/ \E i \in 1..k : s[j].m = o[i]
                          \/ j - c \in DOMAIN t /\ t[j - c] = s[j]
  BY DEF Splits
<1>7. c = 0 \/ Paired(t)
  BY DEF Splits
<1> HIDE DEF c
<1>8. Apart(t) /\ IndFrags(t) \subseteq IndFrags(s)
  BY <1>3, <1>5, ShiftApart
<1>9. LooseEnd(t, lost)
  <2> SUFFICES ASSUME NEW i \in DOMAIN t, t[i].m.fn = "ind", t[i].last
               PROVE  t[i].m.n \in lost <=> i = 1
    BY DEF LooseEnd
  <2>1. c + i \in DOMAIN s /\ t[i] = s[c + i] /\ i \in Nat /\ i # 0
    BY <1>2, <1>5
  <2>2. CASE c = 0
    <3>1. c + i = i
      BY <2>1, <2>2
    <3> QED BY <2>1, <3>1 DEF LooseEnd
  <2>3. CASE c # 0 /\ Paired(t)
    <3>1. i % 2 = 0
      BY <2>3 DEF Paired
    <3>2. ASSUME NEW a \in Nat, NEW b \in Nat, a # 0, b # 0, b % 2 = 0 PROVE b # 1 /\ a + b # 1
      BY <3>2
    <3>3. i # 1 /\ c + i # 1
      BY <1>3, <2>1, <2>3, <3>1, <3>2
    <3> QED BY <2>1, <3>3 DEF LooseEnd
  <2> QED BY <1>7, <2>2, <2>3
<1>10. Rising(o)
  <2> SUFFICES ASSUME NEW i \in 1..k, NEW j \in 1..k, i < j, o[i].fn = "ind", o[j].fn = "ind"
               PROVE  o[i].n < o[j].n
    BY <1>1 DEF Rising
  <2> DEFINE p == d + 2 * i
             q == d + 2 * j
  <2>1. p < q
    BY <1>4
  <2>2. /\ p \in DOMAIN s /\ q \in DOMAIN s /\ s[p].last /\ s[p].m = o[i] /\ s[q].m = o[j]
    BY <1>4
  <2> HIDE DEF p, q
  <2> QED BY <2>1, <2>2, Zenon DEF Apart
<1>11. ASSUME NEW x \in IndsIn(o)
       PROVE  x \in IndFrags(s) /\ x \notin lost /\ \A y \in IndFrags(t) : x < y
  <2>1. PICK i \in 1..k : o[i].fn = "ind" /\ o[i].n = x
    BY <1>1, <1>11, IndsMember
  <2> DEFINE p == d + 2 * i
  <2>2. /\ p \in DOMAIN s /\ o[i] = s[p].m /\ s[p].last /\ p # 1 /\ p <= c /\ p \in Nat
    BY <1>4
  <2> HIDE DEF p
  <2>3. x \in IndFrags(s)
    BY <2>1, <2>2, FragsMember
  <2>4. x \notin lost
    BY <2>1, <2>2 DEF LooseEnd
  <2>5. ASSUME NEW y \in IndFrags(t) PROVE x < y
    <3>1. PICK j \in DOMAIN t : t[j].m.fn = "ind" /\ t[j].m.n = y
      BY <2>5, FragsMember
    <3>2. c + j \in DOMAIN s /\ t[j] = s[c + j] /\ j \in Nat /\ j # 0
      BY <1>2, <1>5
    <3>3. p < c + j
      BY <1>3, <2>2, <3>2
    <3> QED BY <2>1, <2>2, <3>1, <3>2, <3>3 DEF Apart
  <2> QED BY <2>3, <2>4, <2>5
<1>12. ASSUME NEW x \in IndFrags(s) PROVE x \in IndFrags(t) \/ x \in IndsIn(o) \/ x \in lost
  <2>1. PICK j \in DOMAIN s : s[j].m.fn = "ind" /\ s[j].m.n = x
    BY <1>12, FragsMember
  <2>2. CASE j = 1 /\ s[1].last
    BY <2>1, <2>2 DEF LooseEnd
  <2>3. CASE \E i \in 1..k : s[j].m = o[i]
    BY <1>1, <2>1, <2>3, IndsMember
  <2>4. CASE j - c \in DOMAIN t /\ t[j - c] = s[j]
    BY <2>1, <2>4, FragsMember
  <2> QED BY <1>6, <2>2, <2>3, <2>4
<1> QED BY <1>8, <1>9, <1>10, <1>11, <1>12 DEF Before

(* The books: s sent, u unread, k held, d delivered in order, l lost.      *)
Conserved(s, u, k, d, l) ==
    /\ s = u \union k \union {d[i] : i \in DOMAIN d} \union l
    /\ (u \union k \union l) \intersect {d[i] : i \in DOMAIN d} = {}
    /\ k \intersect (u \union l) = {}
    /\ \A i, j \in DOMAIN d : i # j => d[i] # d[j]

LEMMA ConservedFact == IndicationsConserved <=> Conserved(h.sent, Unread, Held, h.delivered, h.lost)
  BY DEF IndicationsConserved, Conserved, Delivered

(* Indications n are sent, o read, x lost.                                 *)
LEMMA ConservedMove ==
    ASSUME NEW s, NEW u, NEW k, NEW d, NEW l, NEW v, NEW o, NEW x, NEW n,
           Conserved(s, u, k, d, l),
           o \subseteq u, x \subseteq u, o \intersect (x \union l \union v) = {},
           u \subseteq v \union o \union x \union l,
           v \subseteq u \union n, n \subseteq v, n \intersect s = {}
    PROVE  Conserved(s \union n, v, k \union o, d, l \union x)
<1> DEFINE e == {d[i] : i \in DOMAIN d}
<1>1. /\ s = u \union k \union e \union l /\ (u \union k \union l) \intersect e = {}
      /\ k \intersect (u \union l) = {} /\ \A i, j \in DOMAIN d : i # j => d[i] # d[j]
  BY DEF Conserved
<1> HIDE DEF e
<1>2. s \union n = v \union (k \union o) \union e \union (l \union x)
  BY <1>1
<1>3. (v \union (k \union o) \union (l \union x)) \intersect e = {}
  BY <1>1
<1>4. (k \union o) \intersect (v \union (l \union x)) = {}
  BY <1>1
<1> QED BY <1>1, <1>2, <1>3, <1>4 DEF Conserved, e

(* One of those held is delivered.                                         *)
LEMMA ConservedTell ==
    ASSUME NEW s, NEW u, NEW k, NEW d \in Seq(Nat), NEW l, NEW n \in Nat, n \in k,
           Conserved(s, u, k, d, l)
    PROVE  Conserved(s, u, k \ {n}, Append(d, n), l)
<1> DEFINE c == Append(d, n)
           e == {d[i] : i \in DOMAIN d}
           f == {c[i] : i \in DOMAIN c}
<1>1. /\ s = u \union k \union e \union l /\ (u \union k \union l) \intersect e = {}
      /\ k \intersect (u \union l) = {} /\ \A i, j \in DOMAIN d : i # j => d[i] # d[j]
  BY DEF Conserved
<1>2. Len(d) \in Nat /\ DOMAIN d = 1..Len(d)
  BY LenProperties
<1>3. /\ c \in Seq(Nat) /\ DOMAIN c = 1..(Len(d) + 1)
      /\ \A i \in 1..Len(d) : c[i] = d[i] /\ c[Len(d) + 1] = n
  BY <1>2
<1>4. c[Len(d) + 1] = n
  BY <1>2
<1> HIDE DEF c
<1>5. f = e \union {n}
  <2>1. ASSUME NEW x \in f PROVE x \in e \union {n}
    <3>1. PICK i \in DOMAIN c : c[i] = x
      BY <2>1
    <3>2. i \in 1..Len(d) \/ i = Len(d) + 1
      BY <1>2, <1>3
    <3> QED BY <1>2, <1>3, <1>4, <3>1, <3>2
  <2>2. ASSUME NEW x \in e PROVE x \in f
    <3>1. PICK i \in 1..Len(d) : d[i] = x
      BY <1>2, <2>2
    <3>2. i \in DOMAIN c /\ c[i] = x
      BY <1>2, <1>3, <3>1
    <3> QED BY <3>2
  <2>3. n \in f
    BY <1>2, <1>3, <1>4
  <2> QED BY <2>1, <2>2, <2>3
<1>6. n \notin e /\ \A i \in 1..Len(d) : d[i] # n
  BY <1>1, <1>2
<1>7. ASSUME NEW i \in DOMAIN c, NEW j \in DOMAIN c, i # j PROVE c[i] # c[j]
  <2>1. /\ i \in 1..Len(d) \/ i = Len(d) + 1
        /\ j \in 1..Len(d) \/ j = Len(d) + 1
    BY <1>2, <1>3
  <2>2. \A a \in 1..Len(d) : c[a] = d[a]
    BY <1>3
  <2>3. CASE i \in 1..Len(d) /\ j \in 1..Len(d)
    BY <1>1, <1>2, <1>7, <2>2, <2>3
  <2>4. CASE i \in 1..Len(d) /\ j = Len(d) + 1
    BY <1>4, <1>6, <2>2, <2>4
  <2>5. CASE i = Len(d) + 1 /\ j \in 1..Len(d)
    BY <1>4, <1>6, <2>2, <2>5
  <2> QED BY <1>7, <2>1, <2>3, <2>4, <2>5
<1> HIDE DEF e, f
<1>8. s = u \union (k \ {n}) \union f \union l
  BY <1>1, <1>5
<1>9. (u \union (k \ {n}) \union l) \intersect f = {}
  BY <1>1, <1>5
<1>10. (k \ {n}) \intersect (u \union l) = {}
  BY <1>1
<1> QED BY <1>7, <1>8, <1>9, <1>10 DEF Conserved, f, c

LEMMA VerSteps == TypeOK /\ [Next]_vars => /\ ver \in Nat /\ ver' \in {ver, ver + 1}
                                           /\ ver' = ver \/ \E t \in SignalType : SrvEvent(t)
<1> SUFFICES ASSUME TypeOK, [Next]_vars
             PROVE  /\ ver \in Nat /\ ver' \in {ver, ver + 1}
                    /\ ver' = ver \/ \E t \in SignalType : SrvEvent(t)
  OBVIOUS
<1>0. ver \in Nat
  BY DEF TypeOK
<1>1. CASE UNCHANGED vars
  BY <1>0, <1>1 DEF vars, service
<1>2. CASE Unwind
  <2>1. InitReturn \/ HandleDone \/ CallbackReturn \/ LeftoverDone \/ DrainSocketMessages
        \/ GetReturn \/ SubReturn \/ RefreshNothing \/ RefreshReport \/ ResetReturn => ver' = ver
    BY DEF InitReturn, HandleDone, CallbackReturn, LeftoverDone, DrainSocketMessages,
           GetReturn, SubReturn, RefreshNothing, RefreshReport, ResetReturn, service
  <2>2. HandleNext \/ LeftoverNext \/ PendingNext => ver' = ver
    BY DEF HandleNext, LeftoverNext, PendingNext, Dispatch, service
  <2>3. RefreshSubscribe \/ RefreshGet => ver' = ver
    BY DEF RefreshSubscribe, RefreshGet, SubscribeDeviceEvent, GetDeviceinfo, CallUnchanged, device
  <2> QED BY <1>0, <1>2, <2>1, <2>2, <2>3 DEF Unwind
<1>3. CASE Waiting
  BY <1>0, <1>3 DEF Waiting, SyncRead, SyncTimeout, SyncEof, ResetTimeout, service
<1>4. CASE LoopEvent
  BY <1>0, <1>4 DEF LoopEvent, OnReadyRead, OnDisconnected, RetryConnection, ConnectDone, service, device
<1>5. CASE App
  <2>1. DevInit \/ Deinit \/ ResetDevice \/ ResetLocks => ver' = ver
    BY DEF DevInit, Deinit, ResetDevice, ResetLocks, service, device
  <2>2. AppGet \/ (\E t \in AppTypes : AppSubscribe(t)) => ver' = ver
    BY DEF AppGet, AppSubscribe, SubscribeDeviceEvent, GetDeviceinfo, CallUnchanged, device
  <2> QED BY <1>0, <1>5, <2>1, <2>2 DEF App
<1>6. CASE Service
  <2>1. SrvAnswer \/ SrvIgnores \/ SrvCrash \/ SrvStart => ver' = ver
    BY DEF SrvAnswer, SrvIgnores, SrvCrash, SrvStart, device
  <2>2. \A t \in SignalType : SrvEvent(t) => ver' = ver + 1
    BY DEF SrvEvent
  <2> QED BY <1>0, <1>6, <2>1, <2>2 DEF Service
<1> QED BY <1>0, <1>1, <1>2, <1>3, <1>4, <1>5, <1>6 DEF Next

(* The end b of the stream is cut off, its beginning a dropped, or a       *)
(* message m added.                                                        *)
LEMMA CutSeq ==
    ASSUME NEW s \in Seq(Frag), NEW a \in Seq(Frag), NEW b \in Seq(Frag), Joins(s, a, b),
           NEW lost, Apart(s), LooseEnd(s, lost)
    PROVE  Apart(a) /\ LooseEnd(a, lost \union IndFrags(b))
<1>1. \A i \in DOMAIN a : i \in DOMAIN s /\ s[i] = a[i] /\ i \in 1..Len(a)
  BY DEF Joins
<1>2. Len(a) \in Nat /\ \A i \in DOMAIN b : Len(a) + i \in DOMAIN s /\ s[Len(a) + i] = b[i] /\ i \in Nat \ {0}
  BY DEF Joins
<1>3. Apart(a)
  BY <1>1 DEF Apart
<1>4. ASSUME NEW i \in DOMAIN a, a[i].m.fn = "ind", a[i].last
      PROVE  a[i].m.n \in lost \union IndFrags(b) <=> i = 1
  <2>1. i \in DOMAIN s /\ s[i] = a[i] /\ i \in 1..Len(a)
    BY <1>1
  <2>2. a[i].m.n \in lost <=> i = 1
    BY <1>4, <2>1 DEF LooseEnd
  <2>3. ASSUME a[i].m.n \in IndFrags(b) PROVE FALSE
    <3>1. PICK j \in DOMAIN b : b[j].m.fn = "ind" /\ b[j].m.n = a[i].m.n
      BY <2>3, FragsMember
    <3>2. Len(a) + j \in DOMAIN s /\ s[Len(a) + j] = b[j] /\ j \in Nat \ {0}
      BY <1>2
    <3>3. i < Len(a) + j
      BY <1>2, <2>1, <3>2
    <3> QED BY <1>4, <2>1, <3>1, <3>2, <3>3, SameInd
  <2> QED BY <2>2, <2>3
<1> QED BY <1>3, <1>4 DEF LooseEnd

LEMMA DropSeq ==
    ASSUME NEW s \in Seq(Frag), NEW a \in Seq(Frag), NEW b \in Seq(Frag), Joins(s, a, b),
           Len(a) = 1, ~a[1].last, Paired(s),
           NEW lost, Apart(s), LooseEnd(s, lost)
    PROVE  Apart(b) /\ LooseEnd(b, lost \union IndFrags(a))
<1>1. 1 \in DOMAIN a /\ \A i \in DOMAIN a : i = 1
  BY LenProperties
<1>2. 1 \in DOMAIN s /\ s[1] = a[1]
  BY <1>1 DEF Joins
<1>3. \A i \in DOMAIN b : 1 + i \in DOMAIN s /\ b[i] = s[1 + i] /\ i \in Nat \ {0}
  BY DEF Joins
<1>4. Apart(b)
  BY <1>3, ShiftApart
<1>5. ASSUME NEW i \in DOMAIN b, b[i].m.fn = "ind", b[i].last
      PROVE  b[i].m.n \in lost \union IndFrags(a) <=> i = 1
  <2>1. 1 + i \in DOMAIN s /\ b[i] = s[1 + i] /\ i \in Nat \ {0} /\ 1 + i # 1 /\ 1 < 1 + i
    BY <1>3
  <2>2. b[i].m.n \notin lost
    BY <1>5, <2>1 DEF LooseEnd
  <2>3. ASSUME b[i].m.n \in IndFrags(a) PROVE i = 1
    <3>1. a[1].m.fn = "ind" /\ a[1].m.n = b[i].m.n
      BY <1>1, <2>3, FragsMember
    <3>2. 1 + i = 1 + 1
      BY <1>2, <1>5, <2>1, <3>1, SameInd
    <3> QED BY <2>1, <3>2
  <2>4. ASSUME i = 1 PROVE b[i].m.n \in IndFrags(a)
    <3>1. 2 \in DOMAIN s /\ b[i] = s[2]
      BY <2>1, <2>4
    <3>2. s[2].last => s[2].m = s[2 - 1].m
      BY <3>1 DEF Paired
    <3>3. s[2].m = a[1].m
      BY <1>2, <1>5, <3>1, <3>2
    <3> QED BY <1>1, <1>5, <3>1, <3>3, FragsMember
  <2> QED BY <2>2, <2>3, <2>4
<1> QED BY <1>4, <1>5 DEF LooseEnd

LEMMA GrowSeq ==
    ASSUME NEW s \in Seq(Frag), NEW a \in Seq(Frag), NEW b \in Seq(Frag), Joins(s, a, b),
           NEW m \in Msg, b = Frags(m), NEW lost, Apart(a), LooseEnd(a, lost),
           m.fn = "ind" => Before(IndFrags(a), {m.n}) /\ m.n \notin lost, Paired(s)
    PROVE  Apart(s) /\ LooseEnd(s, lost)
<1>1. DOMAIN b = {1, 2} /\ b[1].m = m /\ ~b[1].last /\ b[2].m = m /\ b[2].last
  BY DEF Frags
<1> DEFINE k == Len(a)
<1>2. /\ k \in Nat /\ \A i \in DOMAIN a : i \in DOMAIN s /\ s[i] = a[i] /\ i \in 1..k
      /\ \A i \in DOMAIN s : \/ i \in DOMAIN a /\ s[i] = a[i]
                             \/ i - k \in DOMAIN b /\ s[i] = b[i - k]
  BY DEF Joins
<1> HIDE DEF k
<1>3. \A i \in DOMAIN s : \/ i \in DOMAIN a /\ s[i] = a[i] /\ i \in 1..k
                          \/ i = k + 1 /\ s[i].m = m /\ ~s[i].last
                          \/ i = k + 2 /\ s[i].m = m /\ s[i].last
  <2> TAKE i \in DOMAIN s
  <2>1. i \in Nat
    BY LenProperties
  <2>2. CASE i - k \in DOMAIN b /\ s[i] = b[i - k]
    <3>1. i - k = 1 \/ i - k = 2
      BY <1>1, <2>2
    <3>2. (i - k = 1 => i = k + 1) /\ (i - k = 2 => i = k + 2)
      BY <1>2, <2>1
    <3> QED BY <1>1, <2>2, <3>1, <3>2
  <2> QED BY <1>2, <2>2
<1>4. \A i \in DOMAIN a : m.fn = "ind" /\ a[i].m.fn = "ind" => a[i].m.n < m.n
  BY FragsMember DEF Before
<1>5. ASSUME NEW i \in DOMAIN s, NEW j \in DOMAIN s, i < j, s[i].m.fn = "ind", s[j].m.fn = "ind"
      PROVE  \/ s[i].m.n < s[j].m.n
             \/ s[i].m.n = s[j].m.n /\ j = i + 1 /\ ~s[i].last
  <2>1. CASE i \in DOMAIN a /\ s[i] = a[i] /\ j \in DOMAIN a /\ s[j] = a[j]
    BY <1>5, <2>1 DEF Apart
  <2>2. CASE i \in DOMAIN a /\ s[i] = a[i] /\ s[j].m = m
    BY <1>4, <1>5, <2>2
  <2>3. CASE i = k + 1 /\ s[i].m = m /\ ~s[i].last
    <3>1. j = i + 1 /\ s[j].m = m
      BY <1>2, <1>3, <1>5, <2>3
    <3> QED BY <2>3, <3>1
  <2>4. CASE i = k + 2
    <3>1. j \in 1..k \/ j = k + 1 \/ j = k + 2
      BY <1>3
    <3> QED BY <1>2, <1>5, <2>4, <3>1
  <2>5. CASE i = k + 1 /\ j \in DOMAIN a
    BY <1>2, <1>5, <2>5
  <2> QED BY <1>3, <2>1, <2>2, <2>3, <2>4, <2>5
<1>6. ASSUME NEW i \in DOMAIN s, s[i].m.fn = "ind", s[i].last
      PROVE  s[i].m.n \in lost <=> i = 1
  <2>1. CASE i \in DOMAIN a /\ s[i] = a[i]
    BY <1>6, <2>1 DEF LooseEnd
  <2>2. CASE i = k + 2 /\ s[i].m = m
    <3>1. i # 1
      BY <1>2, <2>2
    <3> QED BY <1>6, <2>2, <3>1
  <2> QED BY <1>3, <1>6, <2>1, <2>2
<1> QED BY <1>5, <1>6 DEF Apart, LooseEnd

LEMMA NextTypes ==
    TypeOK' => /\ Stream' \in Seq(Frag) /\ rx' \in Seq(Frag) /\ buf' \in Seq(Frag) /\ net' \in Seq(Frag)
               /\ Unread' = IndFrags(Stream')
<1> SUFFICES ASSUME TypeOK' PROVE TypeOK' => /\ Stream' \in Seq(Frag) /\ rx' \in Seq(Frag)
                                             /\ buf' \in Seq(Frag) /\ net' \in Seq(Frag)
                                             /\ Unread' = IndFrags(Stream')
  OBVIOUS
<1>1. rx' \in Seq(Frag) /\ buf' \in Seq(Frag) /\ net' \in Seq(Frag)
  BY DEF TypeOK
<1>2. rx' \o buf' \in Seq(Frag)
  BY <1>1, ConcatProperties
<1>3. (rx' \o buf') \o net' \in Seq(Frag)
  BY <1>1, <1>2, ConcatProperties
<1>4. IndFrags(rx' \o buf') = IndFrags(rx') \union IndFrags(buf')
  BY <1>1, JoinFrags
<1>5. IndFrags((rx' \o buf') \o net') = IndFrags(rx' \o buf') \union IndFrags(net')
  BY <1>1, <1>2, JoinFrags
<1>6. Stream' = (rx' \o buf') \o net'
  BY DEF Stream
<1>7. Unread' = IndFrags(net') \union IndFrags(buf') \union IndFrags(rx')
  BY DEF Unread, IndFrags
<1>8. Unread' = IndFrags(Stream')
  BY <1>4, <1>5, <1>6, <1>7
<1> QED BY <1>1, <1>3, <1>6, <1>8

(* What a step does to the stream's part of the books: the indications o   *)
(* are read, x are lost, n are sent.                                       *)
Books(o, x, n) ==
    /\ h'.sent = h.sent \union n /\ h'.lost = h.lost \union x
    /\ o \subseteq IndFrags(Stream) /\ x \subseteq IndFrags(Stream)
    /\ o \intersect (x \union h.lost \union IndFrags(Stream')) = {}
    /\ IndFrags(Stream) \subseteq IndFrags(Stream') \union o \union x \union h.lost
    /\ IndFrags(Stream') \subseteq IndFrags(Stream) \union n
    /\ n \subseteq IndFrags(Stream') /\ n \intersect h.sent = {}
    /\ Before(o, IndFrags(Stream')) /\ Before(h.sent, n)
StreamSeq == Apart(Stream) /\ LooseEnd(Stream, h.lost)

LEMMA KeepBooks ==
    ASSUME TypeOK, StreamSeq, KeepsStream
    PROVE  StreamSeq' /\ Books({}, {}, {})
<1>1. Stream' = Stream /\ h'.lost = h.lost /\ h'.sent = h.sent
  BY DEF KeepsStream
<1> QED BY <1>1 DEF StreamSeq, Books, Before

LEMMA DropBooks ==
    ASSUME TypeOK, TypeOK', StreamInv, StreamSeq,
           Empties \/ DropsBuffer \/ DropsUnread \/ \E k \in 0..Len(net) : Cuts(k)
    PROVE  StreamSeq' /\ \E x : Books({}, x, {})
<1>0. /\ rx \in Seq(Frag) /\ buf \in Seq(Frag) /\ net \in Seq(Frag) /\ Stream \in Seq(Frag)
      /\ rx \o buf \in Seq(Frag) /\ IndFrags(<<>>) = {} /\ Frag = FragOf(Msg)
  BY StreamTypes, FragFact
<1>1. Stream' \in Seq(Frag)
  BY NextTypes
<1>2. Unread = IndFrags(Stream) /\ Unread = IndFrags(net) \union IndFrags(buf) \union IndFrags(rx)
  BY UnreadFact DEF Unread
<1>3. Apart(<<>>) /\ \A l : LooseEnd(<<>>, l)
  BY DEF Apart, LooseEnd
<1>4. ASSUME NEW x, NEW s, Stream' = s, Apart(s), LooseEnd(s, h.lost \union x),
             h'.sent = h.sent, h'.lost = h.lost \union x, x \subseteq IndFrags(Stream),
             IndFrags(s) \subseteq IndFrags(Stream), IndFrags(Stream) \subseteq IndFrags(s) \union x
      PROVE  StreamSeq' /\ \E y : Books({}, y, {})
  <2>1. StreamSeq'
    BY <1>4 DEF StreamSeq
  <2>2. Books({}, x, {})
    BY <1>4 DEF Books, Before
  <2> QED BY <2>1, <2>2
<1>5. CASE Empties
  <2>1. Stream' = <<>>
    BY <1>5 DEF Empties, Stream
  <2> QED BY <1>0, <1>2, <1>3, <1>4, <1>5, <2>1 DEF Empties
<1>6. CASE DropsUnread
  <2>1. Stream' = rx
    <3>1. Stream' = (rx \o <<>>) \o <<>>
      BY <1>6 DEF DropsUnread, Stream
    <3> QED BY <1>0, <3>1, ConcatEmptySeq
  <2>2. Apart(rx) /\ LooseEnd(rx, h'.lost)
    <3>1. Len(rx) <= 1 /\ (rx # <<>> => ~rx[1].last)
      BY DEF StreamInv
    <3>2. \A i \in DOMAIN rx : i = 1 /\ rx # <<>>
      BY <1>0, <3>1, LenProperties
    <3> QED BY <3>1, <3>2 DEF Apart, LooseEnd
  <2>3. /\ h'.sent = h.sent
        /\ h'.lost = h.lost \union (IndFrags(net) \union IndFrags(buf))
    BY <1>6 DEF DropsUnread
  <2>4. /\ IndFrags(net) \union IndFrags(buf) \subseteq IndFrags(Stream)
        /\ IndFrags(rx) \subseteq IndFrags(Stream)
        /\ IndFrags(Stream) \subseteq IndFrags(rx) \union (IndFrags(net) \union IndFrags(buf))
    BY <1>2
  <2> QED BY <1>4, <2>1, <2>2, <2>3, <2>4
<1>7. CASE DropsBuffer
  <2>1. Stream' = buf
    <3>1. Stream' = (<<>> \o buf) \o <<>>
      BY <1>7 DEF DropsBuffer, Stream
    <3> QED BY <1>0, <3>1, ConcatEmptySeq
  <2>2. Stream = rx \o buf
    <3>1. Stream = (rx \o buf) \o <<>>
      BY <1>7 DEF DropsBuffer, Stream
    <3> QED BY <1>0, <3>1, ConcatEmptySeq
  <2>3. h'.sent = h.sent /\ h'.lost = h.lost \union IndFrags(rx)
    BY <1>7 DEF DropsBuffer
  <2>4. Apart(buf) /\ LooseEnd(buf, h.lost \union IndFrags(rx))
    <3>1. CASE rx = <<>>
      <4>1. Stream = buf
        BY <1>0, <2>2, <3>1, ConcatEmptySeq
      <4>2. h.lost \union IndFrags(rx) = h.lost
        BY <1>0, <3>1
      <4> QED BY <4>1, <4>2 DEF StreamSeq
    <3>2. CASE rx # <<>>
      <4>1. Len(rx) = 1 /\ ~rx[1].last
        <5>1. Len(rx) <= 1 /\ ~rx[1].last /\ Len(rx) \in Nat \ {0}
          BY <1>0, <3>2, EmptySeq DEF StreamInv
        <5>2. \A n \in Nat \ {0} : n <= 1 => n = 1
          OBVIOUS
        <5> QED BY <5>1, <5>2
      <4>2. Joins(Stream, rx, buf)
        BY <1>0, <2>2, Joining
      <4>3. Paired(Stream)
        <5>1. 1 \in DOMAIN rx
          BY <1>0, <4>1, LenProperties
        <5>2. 1 \in DOMAIN Stream /\ Stream[1] = rx[1]
          BY <4>2, <5>1 DEF Joins
        <5>3. Aligned(Stream) = Stream
          BY <4>1, <5>2 DEF Aligned
        <5> QED BY <5>3 DEF StreamInv
      <4> QED BY <1>0, <4>1, <4>2, <4>3, DropSeq DEF StreamSeq
    <3> QED BY <3>1, <3>2
  <2>5. IndFrags(Stream) = IndFrags(rx) \union IndFrags(buf)
    BY <1>0, <2>2, JoinFrags
  <2> QED BY <1>4, <2>1, <2>3, <2>4, <2>5
<1>8. ASSUME NEW k \in 0..Len(net), Cuts(k) PROVE StreamSeq' /\ \E x : Books({}, x, {})
  <2> DEFINE b == After(net, k)
             p == SubSeq(net, 1, k)
             a == (rx \o buf) \o p
  <2>1. p \in Seq(Frag) /\ b \in Seq(Frag) /\ net = p \o b
    BY <1>0, ReadProperties, ReadSplit
  <2>2. Stream' = a /\ h'.sent = h.sent /\ h'.lost = h.lost \union IndFrags(b)
    BY <1>8 DEF Cuts, Stream
  <2> HIDE DEF p, b
  <2>3. a \in Seq(Frag)
    BY <1>0, <2>1, ConcatProperties
  <2>4. Stream = a \o b
    <3>1. Stream = (rx \o buf) \o (p \o b)
      BY <2>1 DEF Stream
    <3>2. (rx \o buf) \o (p \o b) = ((rx \o buf) \o p) \o b
      <4>1. rx \o buf \in Seq(Frag) /\ p \in Seq(Frag) /\ b \in Seq(Frag)
        BY <1>0, <2>1
      <4> QED BY <4>1, Regroup
    <3> QED BY <3>1, <3>2
  <2> HIDE DEF a
  <2>5. Joins(Stream, a, b)
    BY <2>1, <2>3, <2>4, Joining
  <2>6. Apart(a) /\ LooseEnd(a, h.lost \union IndFrags(b))
    BY <1>0, <2>1, <2>3, <2>5, CutSeq DEF StreamSeq
  <2>7. IndFrags(Stream) = IndFrags(a) \union IndFrags(b)
    BY <2>1, <2>3, <2>4, JoinFrags
  <2> QED BY <1>4, <2>2, <2>6, <2>7
<1> QED BY <1>5, <1>6, <1>7, <1>8

LEMMA GrowBooks ==
    ASSUME TypeOK, TypeOK', StreamInv, StreamInv', StreamSeq, NEW m \in Msg, Grows(m),
           IndFrags(Stream) \subseteq h.sent, h.lost \subseteq h.sent, \A n \in h.sent : n <= ver
    PROVE  StreamSeq' /\ \E n : Books({}, {}, n)
<1> DEFINE b == Frags(m)
           n == IF m.fn = "ind" THEN {m.n} ELSE {}
           s == Stream \o b
<1>0. Stream \in Seq(Frag) /\ Stream' \in Seq(Frag)
  BY StreamTypes, NextTypes
<1>1. /\ Stream' = s /\ h'.lost = h.lost /\ conn' /\ h'.sent = h.sent \union n
      /\ m.fn = "ind" => m.n = ver + 1
  BY DEF Grows
<1>2. b \in Seq(Frag) /\ IndFrags(b) = n
  <2>1. b \in Seq(Frag)
    BY DEF Frags, Frag
  <2>2. DOMAIN b = {1, 2} /\ b[1].m = m /\ b[2].m = m
    BY DEF Frags
  <2> HIDE DEF b
  <2>3. IndFrags(b) = n
    BY <2>2 DEF IndFrags
  <2> QED BY <2>1, <2>3
<1>3. Paired(Stream')
  BY <1>1 DEF StreamInv
<1>4. n \intersect h.sent = {} /\ Before(h.sent, n)
  <2>1. ver \in Nat /\ h.sent \subseteq Nat
    BY StreamTypes DEF TypeOK, History
  <2>2. ASSUME m.fn = "ind", NEW k \in h.sent PROVE k < m.n /\ k # m.n
    <3>1. k \in Nat /\ k <= ver /\ m.n = ver + 1
      BY <1>1, <2>1, <2>2
    <3> QED BY <2>1, <3>1
  <2> QED BY <2>2 DEF Before
<1> HIDE DEF b
<1>5. Joins(s, Stream, b)
  BY <1>0, <1>2, Joining
<1>6. IndFrags(s) = IndFrags(Stream) \union n
  BY <1>0, <1>2, JoinFrags
<1>7. Apart(s) /\ LooseEnd(s, h.lost)
  <2>1. m.fn = "ind" => Before(IndFrags(Stream), {m.n}) /\ m.n \notin h.lost
    BY <1>4 DEF Before
  <2>2. Paired(s) /\ s \in Seq(Frag) /\ b = Frags(m)
    BY <1>0, <1>1, <1>3 DEF b
  <2> HIDE DEF s
  <2> QED BY <1>0, <1>2, <1>5, <2>1, <2>2, GrowSeq DEF StreamSeq
<1> HIDE DEF n, s
<1>8. StreamSeq'
  BY <1>1, <1>7 DEF StreamSeq
<1>9. Books({}, {}, n)
  BY <1>1, <1>4, <1>6 DEF Books, Before
<1> QED BY <1>8, <1>9

LEMMA ScanBooks ==
    ASSUME TypeOK, TypeOK', StreamInv, StreamSeq, NEW fs \in Seq(Frag), NEW rest \in Seq(Frag),
           Scans(fs, rest)
    PROVE  /\ StreamSeq' /\ Books(IndsIn(Objects(fs)), {}, {})
           /\ Objects(fs) \in Seq(Msg) /\ Rising(Objects(fs))
<1> DEFINE o == Objects(fs)
<1>0. Stream \in Seq(Frag) /\ Stream' \in Seq(Frag) /\ o \in Seq(Msg)
  BY StreamTypes, NextTypes, ExtractType
<1>1. /\ Stream = fs \o rest /\ Stream' = Leftover(fs) \o rest
      /\ h'.lost = h.lost /\ h'.sent = h.sent /\ Paired(Aligned(fs \o rest))
  BY DEF Scans, StreamInv
<1>2. PICK d \in {0, 1}, k \in Nat : Splits(Stream, o, Stream', d, k)
  <2>1. fs \in Seq(FragOf(Msg)) /\ rest \in Seq(FragOf(Msg))
    BY FragFact
  <2> QED BY <1>1, <2>1, ScanPositions
<1> HIDE DEF o
<1>3. /\ Apart(Stream') /\ LooseEnd(Stream', h.lost) /\ IndFrags(Stream') \subseteq IndFrags(Stream)
      /\ Rising(o) /\ IndsIn(o) \subseteq IndFrags(Stream)
      /\ IndsIn(o) \intersect h.lost = {} /\ Before(IndsIn(o), IndFrags(Stream'))
      /\ IndFrags(Stream) \subseteq IndFrags(Stream') \union IndsIn(o) \union h.lost
  BY <1>0, <1>2, SplitInds DEF StreamSeq
<1>4. StreamSeq'
  BY <1>1, <1>3 DEF StreamSeq
<1>5. IndsIn(o) \intersect IndFrags(Stream') = {}
  <2>1. IndFrags(Stream') \subseteq Nat
    BY <1>0, IndFragsType
  <2>2. \A x \in Nat : ~(x < x)
    OBVIOUS
  <2> QED BY <1>3, <2>1, <2>2 DEF Before
<1>6. Books(IndsIn(o), {}, {})
  BY <1>1, <1>3, <1>5 DEF Books, Before
<1> QED BY <1>0, <1>3, <1>4, <1>6 DEF o
-----------------------------------------------------------------------------
(* What a step does to the indications the handlers hold.  A stack that    *)
(* holds the same ones as the current stack:                               *)
Same(s) == s \in Seq(Frame) /\ Good(s) /\ HeldOf(s) = HeldOf(stk)
Blank(f) == f \in Frame /\ f.list = <<>> /\ f.raw = <<>> /\ f.op \notin {"onReadyRead", "drain"}

(* A handler that holds some may start above the stack.                    *)
Free == Reentrant \/ HeldOf(stk) = {}

(* A step keeps them, or one of them is delivered, the oldest unless       *)
(* callbacks call the library again.                                       *)
Kept == Good(stk') /\ HeldOf(stk') = HeldOf(stk) /\ h'.delivered = h.delivered
Tells(n) == /\ n \in Nat /\ n \in HeldOf(stk)
            /\ Good(stk') /\ HeldOf(stk') = HeldOf(stk) \ {n}
            /\ h'.delivered = Append(h.delivered, n)
            /\ Reentrant \/ \A k \in HeldOf(stk) : n <= k

LEMMA BlankFrame ==
    ASSUME NEW f, Blank(f)
    PROVE  FrameInv(f) /\ HeldIn(f) = {}
<1>1. f.list = <<>> /\ f.raw = <<>> /\ f.op \notin {"onReadyRead", "drain"}
  BY DEF Blank
<1>2. HeldIn(f) = {}
  BY <1>1, NoInds DEF HeldIn
<1> QED BY <1>1, <1>2, NoInds DEF FrameInv

LEMMA QuietFrame ==
    ASSUME NEW f, FrameInv(f), \/ f.op \in {"cb", "refresh", "reset", "init"}
                               \/ f.list = <<>> /\ f.pc \in {"run", "ind", "ret"}
    PROVE  HeldIn(f) = {}
<1>1. CASE f.op \in {"cb", "refresh", "reset", "init"}
  <2>1. f.list = <<>> /\ (f.pc # "ret" => f.raw = <<>>)
    BY <1>1 DEF FrameInv
  <2> QED BY <2>1, NoInds DEF HeldIn
<1>2. CASE f.list = <<>> /\ f.pc \in {"run", "ind", "ret"}
  BY <1>2, NoInds DEF HeldIn
<1> QED BY <1>1, <1>2

LEMMA SameStack == TypeOK /\ Good(stk) => Same(stk)
  BY StreamTypes DEF Same

LEMMA SamePush ==
    ASSUME NEW f, NEW s, Blank(f), Same(s), f.op = "cb" \/ Free
    PROVE  Same(Push(f, s))
<1>1. f \in Frame /\ s \in Seq(Frame) /\ Good(s) /\ HeldOf(s) = HeldOf(stk)
  BY DEF Blank, Same
<1>2. FrameInv(f) /\ HeldIn(f) = {}
  BY BlankFrame
<1>3. Push(f, s) \in Seq(Frame) /\ Good(Push(f, s)) /\ HeldOf(Push(f, s)) = HeldIn(f) \union HeldOf(s)
  <2>1. f.op = "cb" \/ Reentrant \/ HeldOf(s) = {}
    BY <1>1 DEF Free
  <2> QED BY <1>1, <1>2, <2>1, PushGood
<1> QED BY <1>1, <1>2, <1>3 DEF Same

LEMMA TopFrame ==
    ASSUME TypeOK, Good(stk), stk # <<>>
    PROVE  /\ Head(stk) \in Frame /\ Below \in Seq(Frame) /\ FrameInv(Head(stk)) /\ Good(Below)
           /\ HeldOf(stk) = HeldIn(Head(stk)) \union HeldOf(Below)
           /\ HeldIn(Head(stk)) \intersect HeldOf(Below) = {}
           /\ Head(stk).list \in Seq(Msg) /\ Head(stk).raw \in Seq(Msg)
           /\ Head(stk).op = "cb" \/ Reentrant \/ HeldOf(Below) = {}
<1>1. stk \in Seq(Frame)
  BY StreamTypes
<1>2. /\ Head(stk) \in Frame /\ Below \in Seq(Frame) /\ FrameInv(Head(stk)) /\ Good(Below)
      /\ HeldOf(stk) = HeldIn(Head(stk)) \union HeldOf(Below)
      /\ HeldIn(Head(stk)) \intersect HeldOf(Below) = {}
      /\ Head(stk).op = "cb" \/ Reentrant \/ HeldOf(Below) = {}
  BY <1>1, PopGood DEF Below
<1> QED BY <1>2 DEF Frame

LEMMA SamePop ==
    ASSUME TypeOK, Good(stk), stk # <<>>, HeldIn(Head(stk)) = {}
    PROVE  Same(Below)
  BY TopFrame DEF Same

(* The event loop, and the calls that the library makes itself, run above  *)
(* frames that hold nothing.                                               *)
LEMMA QuietFree ==
    ASSUME TypeOK, Good(stk), stk # <<>>, Head(stk).op # "cb", HeldIn(Head(stk)) = {}
    PROVE  Free
<1>1. HeldOf(stk) = HeldIn(Head(stk)) \union HeldOf(Below)
  BY TopFrame
<1>2. Reentrant \/ HeldOf(Below) = {}
  BY TopFrame
<1> QED BY <1>1, <1>2 DEF Free

LEMMA LoopFree ==
    ASSUME TypeOK, Good(stk), InLoop \/ Running("init", "run")
    PROVE  Free
<1>1. CASE stk = <<>>
  BY <1>1 DEF Free, HeldOf
<1>2. CASE stk # <<>>
  <2>1. Head(stk).op \in {"reset", "init"}
    BY <1>2 DEF InLoop, Running
  <2>2. FrameInv(Head(stk))
    BY <1>2, TopFrame
  <2>3. HeldIn(Head(stk)) = {}
    BY <2>1, <2>2, QuietFrame
  <2> QED BY <1>2, <2>1, <2>3, QuietFree
<1> QED BY <1>1, <1>2

LEMMA SameTop ==
    ASSUME TypeOK, Good(stk), stk # <<>>, NEW f \in Frame, FrameInv(f), f.op = Head(stk).op,
           HeldIn(f) = HeldIn(Head(stk))
    PROVE  Same(Top(f))
<1>1. /\ Below \in Seq(Frame) /\ Good(Below)
      /\ HeldOf(stk) = HeldIn(Head(stk)) \union HeldOf(Below)
      /\ HeldIn(f) \intersect HeldOf(Below) = {}
      /\ f.op = "cb" \/ Reentrant \/ HeldOf(Below) = {}
  BY TopFrame
<1>2. /\ Push(f, Below) \in Seq(Frame) /\ Good(Push(f, Below))
      /\ HeldOf(Push(f, Below)) = HeldIn(f) \union HeldOf(Below)
  BY <1>1, PushGood
<1> QED BY <1>1, <1>2 DEF Same, Top

(* dispatchJsonMessage puts nothing on the stack that holds an indication. *)
LEMMA DispatchHeld ==
    ASSUME TypeOK, NEW m \in Msg, NEW s \in Seq(Frame), Good(s), Dispatch(m, s)
    PROVE  /\ Good(stk') /\ HeldOf(stk') = HeldOf(s)
           /\ h'.delivered = IF m.fn = "ind" THEN Append(h.delivered, m.n) ELSE h.delivered
<1>1. h \in History /\ m.ok \in BOOLEAN
  BY StreamTypes DEF Msg
<1>2. h'.delivered = IF m.fn = "ind" THEN Append(h.delivered, m.n) ELSE h.delivered
  BY <1>1 DEF Dispatch, History
<1>3. stk' = Push(NewFrame("cb", "run"), s) \/ stk' = Answered(s, m.ok) \/ stk' = s
  BY DEF Dispatch
<1>4. CASE stk' = Push(NewFrame("cb", "run"), s)
  <2>1. Blank(NewFrame("cb", "run"))
    BY FrameType DEF Blank, NewFrame, Op, Pc
  <2> DEFINE f == NewFrame("cb", "run")
  <2>2. f \in Frame /\ FrameInv(f) /\ HeldIn(f) = {} /\ f.op = "cb"
    BY <2>1, BlankFrame DEF Blank, NewFrame
  <2> HIDE DEF f
  <2>3. Good(Push(f, s)) /\ HeldOf(Push(f, s)) = HeldIn(f) \union HeldOf(s)
    BY <2>2, PushGood
  <2> QED BY <1>2, <1>4, <2>2, <2>3 DEF f
<1>5. CASE stk' = Answered(s, m.ok)
  BY <1>1, <1>2, <1>5, AnsweredGood
<1>6. CASE stk' = s
  BY <1>2, <1>6
<1> QED BY <1>3, <1>4, <1>5, <1>6

(* The loops that hand on messages one by one.                             *)
LEMMA TakeHeld ==
    ASSUME TypeOK, Good(stk), stk # <<>>, Head(stk).pc \in {"run", "ind"},
           NEW i \in DOMAIN Head(stk).list, \A j \in 1..(i-1) : Head(stk).list[j].fn # "ind",
           Dispatch(Head(stk).list[i], Top([Head(stk) EXCEPT !.list = After(@, i)]))
    PROVE  Kept \/ \E n : Tells(n)
<1> DEFINE f == Head(stk)
           m == f.list[i]
           g == [f EXCEPT !.list = After(@, i)]
<1>1. /\ f \in Frame /\ Below \in Seq(Frame) /\ FrameInv(f) /\ Good(Below)
      /\ HeldOf(stk) = HeldIn(f) \union HeldOf(Below) /\ HeldIn(f) \intersect HeldOf(Below) = {}
      /\ f.list \in Seq(Msg) /\ f.raw \in Seq(Msg)
      /\ f.op = "cb" \/ Reentrant \/ HeldOf(Below) = {}
  BY TopFrame
<1>2. f.pc \in {"run", "ind"} /\ i \in DOMAIN f.list /\ Dispatch(m, Top(g))
      /\ \A j \in 1..(i-1) : f.list[j].fn # "ind"
  OBVIOUS
<1> HIDE DEF f
<1>3. m \in Msg /\ m.n \in Nat
  <2>1. m \in Msg
    BY <1>1, <1>2, ElementOfSeq, LenProperties
  <2> QED BY <2>1 DEF Msg
<1>4. HeldIn(f) = IndsIn(f.list) /\ Rising(f.list)
  BY <1>1, <1>2 DEF HeldIn, FrameInv
<1> DEFINE rest == After(f.list, i)
<1>5. /\ rest \in Seq(Msg) /\ Rising(rest) /\ IndsIn(rest) \subseteq IndsIn(f.list)
      /\ m.fn = "ind" => m.n \in IndsIn(f.list) /\ Before({m.n}, IndsIn(rest))
      /\ IndsIn(f.list) \subseteq IndsIn(rest) \union (IF m.fn = "ind" THEN {m.n} ELSE {})
  BY <1>1, <1>2, <1>4, TakeInds
<1>6. g \in Frame /\ g.op = f.op /\ g.pc = f.pc /\ g.list = rest /\ g.raw = f.raw
  <2> HIDE DEF rest
  <2>1. g = [f EXCEPT !.list = rest]
    BY DEF rest
  <2> QED BY <1>1, <1>5, <2>1 DEF Frame
<1>7. f.op \notin {"cb", "refresh", "reset", "init"}
  <2>1. f.list # <<>>
    BY <1>2
  <2> QED BY <1>1, <2>1 DEF FrameInv
<1> HIDE DEF g, rest, m
<1>8. FrameInv(g) /\ HeldIn(g) = IndsIn(rest)
  <2>1. f.op \in {"onReadyRead", "drain"} => f.pc = "run"
    BY <1>1 DEF FrameInv
  <2>2. FrameInv(g)
    BY <1>2, <1>5, <1>6, <1>7, <2>1 DEF FrameInv
  <2>3. HeldIn(g) = IndsIn(rest)
    BY <1>2, <1>6 DEF HeldIn
  <2> QED BY <2>2, <2>3
<1>9. /\ Top(g) \in Seq(Frame) /\ Good(Top(g)) /\ HeldOf(Top(g)) = HeldIn(g) \union HeldOf(Below)
  <2>1. HeldIn(g) \intersect HeldOf(Below) = {}
    BY <1>1, <1>4, <1>5, <1>8
  <2>2. g.op = "cb" \/ Reentrant \/ HeldOf(Below) = {}
    BY <1>1, <1>6
  <2> QED BY <1>1, <1>6, <1>8, <2>1, <2>2, PushGood DEF Top
<1>10. /\ Good(stk') /\ HeldOf(stk') = HeldOf(Top(g))
       /\ h'.delivered = IF m.fn = "ind" THEN Append(h.delivered, m.n) ELSE h.delivered
  BY <1>2, <1>3, <1>9, DispatchHeld
<1>11. CASE m.fn = "ind"
  <2>1. ~(m.n < m.n) /\ m.n <= m.n
    BY <1>3
  <2>2. m.n \notin IndsIn(rest)
    BY <1>5, <1>11, <2>1 DEF Before
  <2>3. m.n \in HeldOf(stk) /\ HeldOf(stk') = HeldOf(stk) \ {m.n}
    BY <1>1, <1>4, <1>5, <1>8, <1>9, <1>10, <1>11, <2>2
  <2>4. ASSUME ~Reentrant, NEW k \in HeldOf(stk) PROVE m.n <= k
    <3>1. k \in IndsIn(rest) \/ k = m.n
      BY <1>1, <1>4, <1>5, <1>7, <1>11, <2>4
    <3>2. rest \in Seq(Msg)
      BY <1>5
    <3>3. CASE k \in IndsIn(rest)
      <4>1. m.n < k
        BY <1>5, <1>11, <3>3 DEF Before
      <4>2. PICK j \in DOMAIN rest : rest[j].n = k
        BY <3>3, IndsMember
      <4>3. rest[j] \in Msg
        BY <3>2, ElementOfSeq, LenProperties
      <4>4. k \in Nat
        BY <4>2, <4>3 DEF Msg
      <4> QED BY <1>3, <4>1, <4>4
    <3> QED BY <2>1, <3>1, <3>3
  <2>5. Tells(m.n)
    BY <1>3, <1>10, <1>11, <2>3, <2>4 DEF Tells
  <2> QED BY <2>5
<1>12. CASE m.fn # "ind"
  <2>1. HeldOf(stk') = HeldOf(stk)
    BY <1>1, <1>4, <1>5, <1>8, <1>9, <1>10, <1>12
  <2> QED BY <1>10, <1>12, <2>1 DEF Kept
<1> QED BY <1>11, <1>12

LEMMA LeftHeld ==
    ASSUME TypeOK, Good(stk), LeftoverNext
    PROVE  Kept
<1> DEFINE f == Head(stk)
<1>1. stk # <<>> /\ f.op = "sub" /\ f.pc = "left"
  BY DEF LeftoverNext, Running
<1>2. /\ f \in Frame /\ Below \in Seq(Frame) /\ FrameInv(f) /\ Good(Below)
      /\ HeldOf(stk) = HeldIn(f) \union HeldOf(Below) /\ HeldIn(f) \intersect HeldOf(Below) = {}
      /\ f.list \in Seq(Msg) /\ f.raw \in Seq(Msg)
  BY <1>1, TopFrame
<1>3. PICK i \in DOMAIN f.list : /\ IsLeftover(f.list[i])
                                 /\ Dispatch(f.list[i], Top([f EXCEPT !.list = After(@, i)]))
  BY DEF LeftoverNext, First
<1> DEFINE g == [f EXCEPT !.list = After(@, i)]
           rest == After(f.list, i)
<1> HIDE DEF f
<1>4. f.list[i] \in Msg /\ f.list[i].fn # "ind"
  <2>1. f.list[i] \in Msg
    BY <1>2, <1>3, ElementOfSeq, LenProperties
  <2> QED BY <1>3, <2>1 DEF IsLeftover
<1>5. Rising(f.list) /\ Rising(f.raw) /\ IndsIn(f.list) \subseteq IndsIn(f.raw)
  BY <1>1, <1>2 DEF FrameInv
<1>6. rest \in Seq(Msg) /\ Rising(rest) /\ IndsIn(rest) \subseteq IndsIn(f.list)
  BY <1>2, <1>3, <1>5, TakeInds
<1>7. g \in Frame /\ g.op = "sub" /\ g.pc = "left" /\ g.list = rest /\ g.raw = f.raw
  <2> HIDE DEF rest
  <2>1. g = [f EXCEPT !.list = rest]
    BY DEF rest
  <2> QED BY <1>1, <1>2, <1>6, <2>1 DEF Frame
<1>8. Dispatch(f.list[i], Top(g))
  BY <1>3
<1> HIDE DEF g, rest
<1>9. FrameInv(g)
  BY <1>5, <1>6, <1>7 DEF FrameInv
<1>10. HeldIn(g) = HeldIn(f)
  BY <1>1, <1>5, <1>6, <1>7 DEF HeldIn
<1>11. Same(Top(g))
  <2>1. g.op = f.op
    BY <1>1, <1>7
  <2> QED BY <1>1, <1>7, <1>9, <1>10, <2>1, SameTop DEF f
<1> QED BY <1>4, <1>8, <1>11, DispatchHeld DEF Kept, Same

LEMMA SameKept ==
    ASSUME Same(stk'), h'.delivered = h.delivered
    PROVE  Kept
  BY DEF Same, Kept

LEMMA BlankNew ==
    ASSUME NEW op \in Op \ {"onReadyRead", "drain"}, NEW pc \in Pc
    PROVE  Blank(NewFrame(op, pc))
<1>1. NewFrame(op, pc) \in Frame
  BY FrameType
<1>2. NewFrame(op, pc).op = op /\ NewFrame(op, pc).list = <<>> /\ NewFrame(op, pc).raw = <<>>
  BY DEF NewFrame
<1> QED BY <1>1, <1>2 DEF Blank

LEMMA BlankWith ==
    ASSUME NEW f, Blank(f)
    PROVE  /\ \A b \in BOOLEAN : Blank([f EXCEPT !.ok = b])
           /\ \A n \in Nat : Blank([f EXCEPT !.rid = n])
           /\ \A t \in Seq(SignalType) : Blank([f EXCEPT !.todo = t])
           /\ \A b \in BOOLEAN, t \in Seq(SignalType) : Blank([f EXCEPT !.todo = t, !.ok = b])
  BY DEF Blank, Frame

(* The beginnings of calls and connections.                                *)
LEMMA WriteHeld ==
    ASSUME TypeOK, Free, NEW fn, NEW t, NEW w, NEW e, NEW s, Blank(w), Blank(e), Same(s),
           SyncWrite(fn, t, w, e, s)
    PROVE  Kept
<1>1. h \in History /\ nreq + 1 \in Nat
  BY StreamTypes DEF TypeOK
<1>2. Blank([w EXCEPT !.rid = nreq + 1])
  BY <1>1, BlankWith
<1>3. stk' = Push([w EXCEPT !.rid = nreq + 1], s) \/ stk' = Push(e, s)
  BY DEF SyncWrite
<1>4. h'.delivered = h.delivered
  BY <1>1 DEF SyncWrite, History
<1>5. Same(stk')
  BY <1>2, <1>3, SamePush
<1> QED BY <1>4, <1>5, SameKept

LEMMA CallHeld ==
    ASSUME TypeOK, Free, NEW s, Same(s),
           GetDeviceinfo(s) \/ \E t \in SignalType : SubscribeDeviceEvent(t, s)
    PROVE  Kept
<1>1. ASSUME NEW f, Blank(f), NoWrite(f, s) PROVE Kept
  <2>1. stk' = Push(f, s) /\ h' = h
    BY <1>1 DEF NoWrite
  <2> QED BY <1>1, <2>1, SamePush, SameKept
<1>2. CASE GetDeviceinfo(s)
  <2>1. Blank(NewFrame("get", "ret")) /\ Blank(NewFrame("get", "wait"))
    BY BlankNew DEF Op, Pc
  <2> QED BY <1>1, <1>2, <2>1, WriteHeld DEF GetDeviceinfo
<1>3. ASSUME NEW t \in SignalType, SubscribeDeviceEvent(t, s) PROVE Kept
  <2> DEFINE f(pc) == [NewFrame("sub", pc) EXCEPT !.todo = <<t>>]
  <2>1. \A pc \in {"ret", "wait", "left"} : Blank(f(pc))
    <3> TAKE pc \in {"ret", "wait", "left"}
    <3>1. Blank(NewFrame("sub", pc))
      BY BlankNew DEF Op, Pc
    <3>2. <<t>> \in Seq(SignalType)
      OBVIOUS
    <3> QED BY <3>1, <3>2, BlankWith
  <2>2. Blank([f("ret") EXCEPT !.ok = TRUE])
    <3> HIDE DEF f
    <3> QED BY <2>1, BlankWith
  <2>3. \/ NoWrite([f("ret") EXCEPT !.ok = TRUE], s)
        \/ SyncWrite("event", t, f("wait"), f("left"), s)
    BY <1>3 DEF SubscribeDeviceEvent
  <2> HIDE DEF f
  <2> QED BY <1>1, <2>1, <2>2, <2>3, WriteHeld
<1> QED BY <1>2, <1>3

LEMMA ConnectHeld ==
    ASSUME TypeOK, Free, NEW s, NEW o, NEW b, Same(s),
           OnConnected(s) \/ ConnectFails(s, b, o) \/ ConnectPends(s, o)
    PROVE  Kept
<1>1. h \in History
  BY StreamTypes
<1>2. CASE OnConnected(s)
  <2>1. Blank(NewFrame("refresh", "run"))
    BY BlankNew DEF Op, Pc
  <2>2. Events \in Seq(SignalType)
    BY DEF Events, SignalType
  <2>3. Blank([NewFrame("refresh", "run") EXCEPT !.todo = Events])
    BY <2>1, <2>2, BlankWith
  <2>4. stk' = Push([NewFrame("refresh", "run") EXCEPT !.todo = Events], s)
        /\ h'.delivered = h.delivered
    BY <1>1, <1>2 DEF OnConnected, History
  <2> QED BY <2>3, <2>4, SamePush, SameKept
<1>3. CASE ConnectFails(s, b, o) \/ ConnectPends(s, o)
  <2>1. stk' = s /\ h' = h
    BY <1>3 DEF ConnectFails, ConnectPends
  <2> QED BY <2>1, SameKept
<1> QED BY <1>2, <1>3

LEMMA UnwindHeld ==
    ASSUME TypeOK, Good(stk), Unwind, ~DrainSocketMessages
    PROVE  Kept \/ (KeepsStream /\ \E n : Tells(n))
<1> DEFINE f == Head(stk)
<1>0. h \in History /\ stk \in Seq(Frame)
  BY StreamTypes
<1>1. stk # <<>> => /\ f \in Frame /\ Below \in Seq(Frame) /\ FrameInv(f) /\ Good(Below)
                    /\ f.list \in Seq(Msg) /\ f.raw \in Seq(Msg)
  BY TopFrame
<1>2. CASE InitReturn \/ HandleDone \/ CallbackReturn \/ RefreshNothing \/ SubReturn \/ ResetReturn
  <2>1. stk # <<>> /\ stk' = Below
    BY <1>2 DEF InitReturn, HandleDone, CallbackReturn, RefreshNothing, SubReturn, ResetReturn, Running
  <2>2. \/ f.op \in {"cb", "refresh", "reset", "init"}
        \/ f.list = <<>> /\ f.pc \in {"run", "ind", "ret"}
        \/ f.op = "sub" /\ f.pc = "ret"
    BY <1>2 DEF InitReturn, HandleDone, CallbackReturn, RefreshNothing, SubReturn, ResetReturn, Running
  <2>3. HeldIn(f) = {}
    <3>1. f.op = "sub" /\ f.pc = "ret" => f.list = <<>>
      BY <1>1, <2>1 DEF FrameInv
    <3> HIDE DEF f
    <3> QED BY <1>1, <2>1, <2>2, <3>1, QuietFrame
  <2>4. h'.delivered = h.delivered
    BY <1>0, <1>2 DEF InitReturn, HandleDone, CallbackReturn, RefreshNothing, SubReturn, ResetReturn,
                      History
  <2> QED BY <2>1, <2>3, <2>4, SamePop, SameKept
<1>3. CASE HandleNext
  <2>1. /\ stk # <<>> /\ f.pc = "run" /\ f.list # <<>>
        /\ Dispatch(Head(f.list), Top([f EXCEPT !.list = Tail(@)])) /\ UNCHANGED <<rx, wire>>
    BY <1>3 DEF HandleNext, Running
  <2>2. 1 \in DOMAIN f.list /\ Head(f.list) = f.list[1] /\ Tail(f.list) = After(f.list, 1)
        /\ \A j \in 1..(1-1) : f.list[j].fn # "ind"
    <3> DEFINE l == f.list
    <3>1. l \in Seq(Msg) /\ l # <<>>
      BY <1>1, <2>1
    <3> HIDE DEF l
    <3>2. 1 \in DOMAIN l /\ Head(l) = l[1]
      BY <3>1
    <3>3. Tail(l) = SubSeq(l, 1 + 1, Len(l))
      BY <3>1, TailIsSubSeq
    <3> QED BY <3>2, <3>3 DEF After, l
  <2>3. Dispatch(f.list[1], Top([f EXCEPT !.list = After(@, 1)]))
    <3>1. [f EXCEPT !.list = Tail(@)] = [f EXCEPT !.list = After(@, 1)]
      BY <2>2
    <3> QED BY <2>1, <2>2, <3>1
  <2>4. KeepsStream
    BY <2>1, DispatchStream
  <2>5. Kept \/ \E n : Tells(n)
    BY <2>1, <2>2, <2>3, TakeHeld
  <2> QED BY <2>4, <2>5
<1>4. CASE PendingNext
  <2>1. stk # <<>> /\ f.pc = "ind" /\ UNCHANGED <<rx, wire>>
    BY <1>4 DEF PendingNext, Running
  <2>2. PICK i \in DOMAIN f.list : /\ First(f.list, i, IsInd)
                                   /\ Dispatch(f.list[i], Top([f EXCEPT !.list = After(@, i)]))
    BY <1>4 DEF PendingNext
  <2>3. \A j \in 1..(i-1) : f.list[j].fn # "ind"
    BY <2>2 DEF First, IsInd
  <2>4. KeepsStream
    BY <2>1, <2>2, DispatchStream
  <2>5. Kept \/ \E n : Tells(n)
    BY <2>1, <2>2, <2>3, TakeHeld
  <2> QED BY <2>4, <2>5
<1>5. CASE LeftoverNext
  BY <1>5, LeftHeld
<1>6. CASE LeftoverDone
  <2> DEFINE g == [f EXCEPT !.pc = "ind", !.list = f.raw]
  <2>1. stk # <<>> /\ f.op = "sub" /\ f.pc = "left" /\ stk' = Top(g) /\ h' = h
    BY <1>6 DEF LeftoverDone, Running
  <2>2. f \in Frame /\ FrameInv(f)
    BY <1>1, <2>1
  <2> HIDE DEF f
  <2>3. g \in Frame /\ g.op = "sub" /\ g.pc = "ind" /\ g.list = f.raw
    BY <2>1, <2>2 DEF Frame, Pc
  <2>4. Rising(f.raw) /\ IndsIn(f.list) \subseteq IndsIn(f.raw)
    BY <2>1, <2>2 DEF FrameInv
  <2> HIDE DEF g
  <2>5. FrameInv(g)
    BY <2>3, <2>4 DEF FrameInv
  <2>6. HeldIn(g) = HeldIn(f)
    BY <2>1, <2>3, <2>4 DEF HeldIn
  <2>7. Same(Top(g))
    <3>1. g.op = f.op
      BY <2>1, <2>3
    <3> QED BY <2>1, <2>3, <2>5, <2>6, <3>1, SameTop DEF f
  <2> QED BY <2>1, <2>7, SameKept
<1>7. CASE RefreshReport
  <2>1. stk # <<>> /\ f.op = "refresh" /\ h' = h
        /\ (stk' = Top(NewFrame("cb", "run")) \/ stk' = Below)
    BY <1>7 DEF RefreshReport, Running
  <2>2. HeldIn(f) = {}
    <3> HIDE DEF f
    <3> QED BY <1>1, <2>1, QuietFrame
  <2>3. Blank(NewFrame("cb", "run"))
    BY BlankNew DEF Op, Pc
  <2>4. Same(Below)
    BY <2>1, <2>2, SamePop
  <2>5. Same(Top(NewFrame("cb", "run")))
    <3>1. NewFrame("cb", "run").op = "cb"
      BY DEF NewFrame
    <3> QED BY <2>3, <2>4, <3>1, SamePush DEF Top
  <2> QED BY <2>1, <2>4, <2>5, SameKept
<1>8. CASE RefreshSubscribe
  <2>1. stk # <<>> /\ f.op = "refresh" /\ f.pc = "run"
    BY <1>8 DEF RefreshSubscribe, Running
  <2>2. PICK i \in DOMAIN f.todo :
          SubscribeDeviceEvent(f.todo[i], Top([f EXCEPT !.todo = After(@, i), !.ok = TRUE]))
    BY <1>8 DEF RefreshSubscribe
  <2>3. Blank(f)
    BY <1>1, <2>1 DEF FrameInv, Blank
  <2>4. f.todo[i] \in SignalType /\ After(f.todo, i) \in Seq(SignalType)
    <3>1. f.todo \in Seq(SignalType)
      BY <1>1, <2>1 DEF Frame
    <3>2. i \in 0..Len(f.todo)
      BY <3>1
    <3> QED BY <3>1, <3>2, AfterType
  <2> DEFINE g == [f EXCEPT !.todo = After(f.todo, i), !.ok = TRUE]
  <2>5. Blank(g)
    <3> HIDE DEF f
    <3> QED BY <2>3, <2>4, BlankWith
  <2>6. HeldIn(f) = {}
    <3> HIDE DEF f
    <3> QED BY <2>3, BlankFrame
  <2>7. Same(Top(g)) /\ Free
    <3>1. Same(Below)
      BY <2>1, <2>6, SamePop
    <3>2. Free
      BY <2>1, <2>6, QuietFree
    <3> HIDE DEF g
    <3> QED BY <2>5, <3>1, <3>2, SamePush DEF Top
  <2>8. SubscribeDeviceEvent(f.todo[i], Top(g))
    BY <2>2
  <2> HIDE DEF g
  <2> QED BY <2>4, <2>7, <2>8, CallHeld
<1>9. CASE RefreshGet
  <2> DEFINE g == [f EXCEPT !.pc = "wait"]
  <2>1. stk # <<>> /\ f.op = "refresh" /\ f.pc = "run" /\ GetDeviceinfo(Top(g))
    BY <1>9 DEF RefreshGet, Running
  <2>2. Blank(f)
    BY <1>1, <2>1 DEF FrameInv, Blank
  <2>3. Blank(g) /\ HeldIn(f) = {}
    <3> HIDE DEF f
    <3>1. Blank(g)
      BY <2>2 DEF Blank, Frame, Pc
    <3> QED BY <2>2, <3>1, BlankFrame
  <2>4. Same(Top(g)) /\ Free
    <3>1. Same(Below)
      BY <2>1, <2>3, SamePop
    <3>2. Free
      BY <2>1, <2>3, QuietFree
    <3> HIDE DEF g
    <3> QED BY <2>3, <3>1, <3>2, SamePush DEF Top
  <2> HIDE DEF g
  <2> QED BY <2>1, <2>4, CallHeld
<1>10. CASE GetReturn
  <2>1. stk # <<>> /\ f.op = "get" /\ f.pc = "ret" /\ h' = h
    BY <1>10 DEF GetReturn, Running
  <2>2. HeldIn(f) = {}
    <3>1. FrameInv(f) /\ f.list = <<>>
      BY <1>1, <2>1 DEF FrameInv
    <3> HIDE DEF f
    <3> QED BY <2>1, <3>1, QuietFrame
  <2>3. Same(Below) /\ Free
    BY <2>1, <2>2, SamePop, QuietFree
  <2> DEFINE k == Head(Below)
  <2>4. Below # <<>> /\ k.op = "refresh" => Same(Tail(Below)) /\ k \in Frame /\ k.list = <<>>
    <3> SUFFICES ASSUME Below # <<>>, k.op = "refresh"
                 PROVE  Same(Tail(Below)) /\ k \in Frame /\ k.list = <<>>
      OBVIOUS
    <3>1. /\ k \in Frame /\ Tail(Below) \in Seq(Frame) /\ FrameInv(k) /\ Good(Tail(Below))
          /\ HeldOf(Below) = HeldIn(k) \union HeldOf(Tail(Below))
      BY <2>3, PopGood DEF Same
    <3> HIDE DEF k
    <3>2. HeldIn(k) = {} /\ k.list = <<>>
      BY <3>1, QuietFrame DEF FrameInv
    <3> QED BY <2>3, <3>1, <3>2 DEF Same
  <2>5. \/ stk' = Below
        \/ Below # <<>> /\ k.op = "refresh" /\ stk' = Tail(Below)
        \/ /\ Below # <<>> /\ k.op = "refresh"
           /\ \E i \in DOMAIN f.raw :
                stk' = Push([k EXCEPT !.pc = "ret", !.raw = <<f.raw[i]>>], Tail(Below))
    BY <1>10 DEF GetReturn
  <2>6. ASSUME Below # <<>>, k.op = "refresh", NEW i \in DOMAIN f.raw
        PROVE  Same(Push([k EXCEPT !.pc = "ret", !.raw = <<f.raw[i]>>], Tail(Below)))
    <3> DEFINE g == [k EXCEPT !.pc = "ret", !.raw = <<f.raw[i]>>]
    <3>1. f.raw[i] \in Msg
      <4>1. f.raw \in Seq(Msg)
        BY <1>1, <2>1
      <4> HIDE DEF f
      <4> QED BY <4>1, <2>6, ElementOfSeq, LenProperties
    <3>2. Same(Tail(Below)) /\ k \in Frame /\ k.list = <<>>
      BY <2>4, <2>6
    <3> HIDE DEF k, f
    <3>3. g \in Frame /\ g.op = "refresh" /\ g.pc = "ret" /\ g.list = <<>>
      <4> DEFINE q == <<f.raw[i]>>
      <4>1. q \in Seq(Msg)
        BY <3>1
      <4>2. g = [k EXCEPT !.pc = "ret", !.raw = q]
        OBVIOUS
      <4> HIDE DEF q, g
      <4> QED BY <2>6, <3>2, <4>1, <4>2 DEF Frame, Pc
    <3> HIDE DEF g
    <3>4. FrameInv(g)
      BY <3>3, NoInds DEF FrameInv
    <3>5. HeldIn(g) = {}
      BY <3>3, NoInds DEF HeldIn
    <3> DEFINE r == Tail(Below)
    <3>6. r \in Seq(Frame) /\ Good(r) /\ HeldOf(r) = HeldOf(stk)
      BY <3>2 DEF Same
    <3> HIDE DEF r
    <3>7. Push(g, r) \in Seq(Frame) /\ Good(Push(g, r)) /\ HeldOf(Push(g, r)) = HeldIn(g) \union HeldOf(r)
      <4>1. Reentrant \/ HeldOf(r) = {}
        BY <2>3, <3>6 DEF Free
      <4> QED BY <3>3, <3>4, <3>5, <3>6, <4>1, PushGood
    <3>8. Same(Push(g, r))
      BY <3>5, <3>6, <3>7 DEF Same
    <3> QED BY <3>8 DEF g, r
  <2>7. Same(stk')
    <3> HIDE DEF k, f
    <3> QED BY <2>3, <2>4, <2>5, <2>6
  <2> QED BY <2>1, <2>7, SameKept
<1> QED BY <1>2, <1>3, <1>4, <1>5, <1>6, <1>7, <1>8, <1>9, <1>10 DEF Unwind

(* A synchronous call that stops waiting holds what it has read.           *)
LEMMA EndWaitFrame ==
    ASSUME NEW f \in Frame, FrameInv(f), f.pc = "wait", f.op \in {"get", "sub"}
    PROVE  /\ EndWait(f) \in Frame /\ FrameInv(EndWait(f)) /\ HeldIn(EndWait(f)) = HeldIn(f)
           /\ EndWait(f).op = f.op
<1> DEFINE g == EndWait(f)
<1>1. /\ g \in Frame /\ g.op = f.op /\ g.list = f.raw /\ g.raw = f.raw
      /\ g.pc = (IF f.op = "get" THEN "ind" ELSE "left")
  BY DEF EndWait, Frame, Pc
<1> HIDE DEF g
<1>2. Rising(f.raw)
  BY DEF FrameInv
<1>3. FrameInv(g)
  BY <1>1, <1>2 DEF FrameInv
<1>4. HeldIn(g) = HeldIn(f)
  BY <1>1 DEF HeldIn
<1> QED BY <1>1, <1>3, <1>4 DEF g

LEMMA WaitingHeld ==
    ASSUME TypeOK, Good(stk), Waiting, ~SyncRead
    PROVE  Kept
<1> DEFINE f == Head(stk)
<1>0. h \in History
  BY StreamTypes
<1>1. stk # <<>> /\ f.pc = "wait" /\ f.op \in {"get", "sub", "reset"}
  BY DEF Waiting, SyncTimeout, SyncEof, ResetTimeout, Syncing, Running
<1>2. f \in Frame /\ FrameInv(f)
  BY <1>1, TopFrame
<1>3. CASE SyncTimeout \/ SyncEof
  <2>1. stk' = Top(EndWait(f)) /\ f.op \in {"get", "sub"} /\ h'.delivered = h.delivered
    BY <1>0, <1>3 DEF SyncTimeout, SyncEof, Syncing, Running, History
  <2> DEFINE g == EndWait(f)
  <2>2. g \in Frame /\ FrameInv(g) /\ HeldIn(g) = HeldIn(f) /\ g.op = f.op
    <3> HIDE DEF f
    <3> QED BY <1>1, <1>2, <2>1, EndWaitFrame
  <2> HIDE DEF g
  <2>3. Same(Top(g))
    BY <1>1, <2>2, SameTop
  <2> QED BY <2>1, <2>3, SameKept DEF g
<1>4. CASE ResetTimeout
  <2> DEFINE g == [f EXCEPT !.pc = "ret"]
  <2>1. stk' = Top(g) /\ f.op = "reset" /\ h'.delivered = h.delivered
    BY <1>0, <1>4 DEF ResetTimeout, Running, History
  <2>2. Blank(f)
    BY <1>1, <1>2, <2>1 DEF FrameInv, Blank
  <2>3. Blank(g) /\ HeldIn(f) = {}
    <3> HIDE DEF f
    <3>1. Blank(g)
      BY <2>2 DEF Blank, Frame, Pc
    <3> QED BY <2>2, <3>1, BlankFrame
  <2>4. Same(Below) /\ Free
    BY <1>1, <2>1, <2>3, SamePop, QuietFree
  <2> HIDE DEF g
  <2>5. Same(Top(g))
    BY <2>3, <2>4, SamePush DEF Top
  <2> QED BY <2>1, <2>5, SameKept
<1> QED BY <1>3, <1>4 DEF Waiting

LEMMA LoopEventHeld ==
    ASSUME TypeOK, Good(stk), LoopEvent, ~OnReadyRead
    PROVE  Kept
<1>0. h \in History /\ Same(stk)
  BY StreamTypes, SameStack
<1>1. CASE OnDisconnected
  <2>1. stk' = stk /\ h'.delivered = h.delivered
    BY <1>0, <1>1 DEF OnDisconnected, History
  <2> QED BY <1>0, <2>1, SameKept
<1>2. CASE RetryConnection
  <2>1. OnConnected(stk) \/ ConnectFails(stk, FALSE, open) \/ ConnectPends(stk, open)
    BY <1>2 DEF RetryConnection, ConnectToServer
  <2>2. Free
    BY <1>2, LoopFree DEF RetryConnection
  <2> QED BY <1>0, <2>1, <2>2, ConnectHeld
<1>3. CASE ConnectDone
  <2>1. OnConnected(stk) \/ ConnectFails(stk, stopping, open)
    BY <1>3 DEF ConnectDone
  <2>2. Free
    BY <1>3, LoopFree DEF ConnectDone
  <2> QED BY <1>0, <2>1, <2>2, ConnectHeld
<1> QED BY <1>1, <1>2, <1>3 DEF LoopEvent

LEMMA AppHeld ==
    ASSUME TypeOK, Good(stk), App
    PROVE  Kept
<1>0. h \in History /\ Same(stk) /\ AppTypes \subseteq SignalType
  BY StreamTypes, SameStack, ConstantsAssumption
<1>a. CanCall \/ stk = <<>> => Free
  <2>1. CanCall => InLoop \/ Reentrant
    BY DEF CanCall
  <2>2. stk = <<>> => InLoop
    BY DEF InLoop
  <2>3. InLoop => Free
    BY LoopFree
  <2> QED BY <2>1, <2>2, <2>3 DEF Free
<1>1. CASE DevInit
  <2> DEFINE f == NewFrame("init", "run")
  <2>1. /\ stk = <<>>
        /\ OnConnected(<<f>>) \/ ConnectFails(<<f>>, FALSE, FALSE) \/ ConnectPends(<<f>>, FALSE)
    BY <1>1 DEF DevInit, ConnectToServer
  <2>2. Blank(f)
    BY BlankNew DEF Op, Pc
  <2> HIDE DEF f
  <2>3. Same(Push(f, stk)) /\ Free
    BY <1>0, <1>a, <2>1, <2>2, SamePush
  <2>4. Push(f, stk) = <<f>>
    BY <2>1 DEF Push
  <2> QED BY <2>1, <2>3, <2>4, ConnectHeld
<1>2. CASE Deinit
  <2>1. stk' = stk /\ h'.delivered = h.delivered
    BY <1>0, <1>2 DEF Deinit, History
  <2> QED BY <1>0, <2>1, SameKept
<1>3. CASE ResetDevice
  <2>1. h'.delivered = h.delivered
    BY <1>0, <1>3 DEF ResetDevice, NoWrite, History
  <2>2. \/ stk' = Push([NewFrame("reset", "ret") EXCEPT !.ok = TRUE], stk)
        \/ stk' = Push(NewFrame("reset", "wait"), stk)
    BY <1>3 DEF ResetDevice, NoWrite
  <2>3. Blank(NewFrame("reset", "ret")) /\ Blank(NewFrame("reset", "wait"))
    BY BlankNew DEF Op, Pc
  <2>4. Blank([NewFrame("reset", "ret") EXCEPT !.ok = TRUE])
    BY <2>3, BlankWith
  <2>5. Free
    BY <1>3, <1>a DEF ResetDevice
  <2>6. Same(stk')
    BY <1>0, <2>2, <2>3, <2>4, <2>5, SamePush
  <2> QED BY <2>1, <2>6, SameKept
<1>4. CASE AppGet
  BY <1>0, <1>a, <1>4, CallHeld DEF AppGet
<1>5. ASSUME NEW t \in AppTypes, AppSubscribe(t) PROVE Kept
  BY <1>0, <1>a, <1>5, CallHeld DEF AppSubscribe
<1>6. CASE ResetLocks
  <2>1. stk' = Push(NewFrame("lock", "wait"), stk) /\ h' = h /\ Free
    BY <1>6, <1>a DEF ResetLocks
  <2>2. Blank(NewFrame("lock", "wait"))
    BY BlankNew DEF Op, Pc
  <2>3. Same(stk')
    BY <1>0, <2>1, <2>2, SamePush
  <2> QED BY <2>1, <2>3, SameKept
<1> QED BY <1>1, <1>2, <1>3, <1>4, <1>5, <1>6 DEF App

LEMMA ServiceHeld ==
    ASSUME TypeOK, Good(stk), Service
    PROVE  Kept
<1>0. h \in History /\ Same(stk)
  BY StreamTypes, SameStack
<1>1. stk' = stk
  BY DEF Service, SrvAnswer, SrvIgnores, SrvCrash, SrvStart, SrvEvent, SrvUnchanged, client
<1>2. h'.delivered = h.delivered
  BY <1>0 DEF Service, SrvAnswer, SrvIgnores, SrvCrash, SrvStart, SrvEvent, History
<1> QED BY <1>0, <1>1, <1>2, SameKept

LEMMA HoldSteps ==
    ASSUME TypeOK, Good(stk), [Next]_vars, ~Reads
    PROVE  Kept \/ (KeepsStream /\ \E n : Tells(n))
<1>1. CASE UNCHANGED vars
  <2>1. stk' = stk /\ h' = h
    BY <1>1 DEF vars, client
  <2> QED BY <2>1, SameStack, SameKept
<1> QED BY <1>1, UnwindHeld, WaitingHeld, LoopEventHeld, AppHeld, ServiceHeld DEF Next, Reads

(* The three reads: the messages o become objects held by a handler.       *)
Holds(o) == /\ Good(stk') /\ HeldOf(stk') = HeldOf(stk) \union IndsIn(o)
            /\ h'.delivered = h.delivered

LEMMA PushRead ==
    ASSUME NEW s, Same(s), Free, NEW o \in Seq(Msg), Rising(o), IndsIn(o) \intersect HeldOf(stk) = {},
           NEW op \in {"onReadyRead", "drain"}, h'.delivered = h.delivered,
           stk' = Push([NewFrame(op, "run") EXCEPT !.list = o], s)
    PROVE  Holds(o)
<1> DEFINE f == [NewFrame(op, "run") EXCEPT !.list = o]
<1>1. f \in Frame /\ f.op = op /\ f.pc = "run" /\ f.list = o
  <2>1. NewFrame(op, "run") \in Frame
    BY FrameType DEF Op, Pc
  <2> QED BY <2>1 DEF NewFrame, Frame
<1>2. s \in Seq(Frame) /\ Good(s) /\ HeldOf(s) = HeldOf(stk)
  BY DEF Same
<1>3. stk' = Push(f, s)
  OBVIOUS
<1> HIDE DEF f
<1>4. FrameInv(f) /\ HeldIn(f) = IndsIn(o)
  <2>1. FrameInv(f)
    BY <1>1 DEF FrameInv
  <2> QED BY <1>1, <2>1 DEF HeldIn
<1>5. Good(Push(f, s)) /\ HeldOf(Push(f, s)) = HeldIn(f) \union HeldOf(s)
  <2>1. Reentrant \/ HeldOf(s) = {}
    BY <1>2 DEF Free
  <2> QED BY <1>1, <1>2, <1>4, <2>1, PushGood
<1> QED BY <1>2, <1>3, <1>4, <1>5 DEF Holds

LEMMA DrainHeld ==
    ASSUME TypeOK, Good(stk), DrainSocketMessages, NEW o, o = Objects(rx \o buf),
           o \in Seq(Msg), Rising(o), IndsIn(o) \intersect HeldOf(stk) = {}
    PROVE  Holds(o)
<1> DEFINE f == Head(stk)
           g == [f EXCEPT !.pc = "ret", !.list = <<>>]
<1>1. /\ stk # <<>> /\ f.op \in {"get", "sub"} /\ f.pc = "ind" /\ h' = h
      /\ \A i \in DOMAIN f.list : ~IsInd(f.list[i])
      /\ stk' = Push([NewFrame("drain", "run") EXCEPT !.list = o], Top(g))
  BY DEF DrainSocketMessages, Running
<1>2. f \in Frame /\ FrameInv(f)
  BY <1>1, TopFrame
<1> HIDE DEF f
<1>3. g \in Frame /\ g.op = f.op /\ g.pc = "ret" /\ g.list = <<>>
  <2>1. <<>> \in Seq(Msg)
    OBVIOUS
  <2> QED BY <1>2, <2>1 DEF Frame, Pc
<1> HIDE DEF g
<1>4. FrameInv(g) /\ HeldIn(g) = {}
  <2>1. FrameInv(g)
    BY <1>1, <1>3, NoInds DEF FrameInv
  <2> QED BY <1>3, <2>1, NoInds DEF HeldIn
<1>5. HeldIn(f) = {}
  <2>1. IndsIn(f.list) = {}
    BY <1>1 DEF IndsIn, IsInd
  <2> QED BY <1>1, <2>1 DEF HeldIn
<1>6. Same(Top(g)) /\ Free
  BY <1>1, <1>3, <1>4, <1>5, SameTop, QuietFree DEF f
<1> QED BY <1>1, <1>6, PushRead

LEMMA SyncReadHeld ==
    ASSUME TypeOK, Good(stk), Syncing, NEW o \in Seq(Msg), Rising(o),
           Before(HeldOf(stk), IndsIn(o)), IndsIn(o) \intersect HeldOf(stk) = {},
           h'.delivered = h.delivered, NEW f, f = [Head(stk) EXCEPT !.raw = @ \o o],
           stk' = Top(IF HasAnswer(f.op, f.raw) THEN EndWait(f) ELSE f)
    PROVE  Holds(o)
<1> DEFINE e == Head(stk)
<1>1. stk # <<>> /\ e.op \in {"get", "sub"} /\ e.pc = "wait"
  BY DEF Syncing, Running
<1>2. /\ e \in Frame /\ Below \in Seq(Frame) /\ FrameInv(e) /\ Good(Below)
      /\ HeldOf(stk) = HeldIn(e) \union HeldOf(Below) /\ HeldIn(e) \intersect HeldOf(Below) = {}
      /\ e.raw \in Seq(Msg) /\ (Reentrant \/ HeldOf(Below) = {})
  BY <1>1, TopFrame
<1> DEFINE r == e.raw \o o
<1>3. f = [e EXCEPT !.raw = r]
  OBVIOUS
<1> HIDE DEF e
<1>4. HeldIn(e) = IndsIn(e.raw) /\ Rising(e.raw)
  BY <1>1, <1>2 DEF HeldIn, FrameInv
<1>5. r \in Seq(Msg) /\ IndsIn(r) = IndsIn(e.raw) \union IndsIn(o) /\ Rising(r)
  <2>1. Before(IndsIn(e.raw), IndsIn(o))
    BY <1>2, <1>4 DEF Before
  <2> QED BY <1>2, <1>4, <2>1, JoinInds
<1> HIDE DEF r
<1>6. f \in Frame /\ f.op = e.op /\ f.pc = "wait" /\ f.raw = r
  BY <1>1, <1>2, <1>3, <1>5 DEF Frame
<1>7. FrameInv(f) /\ HeldIn(f) = IndsIn(r)
  <2>1. FrameInv(f)
    BY <1>1, <1>5, <1>6 DEF FrameInv
  <2> QED BY <1>6, <2>1 DEF HeldIn
<1>8. EndWait(f) \in Frame /\ FrameInv(EndWait(f)) /\ HeldIn(EndWait(f)) = IndsIn(r)
  BY <1>1, <1>6, <1>7, EndWaitFrame
<1> DEFINE g == IF HasAnswer(f.op, f.raw) THEN EndWait(f) ELSE f
<1>9. g \in Frame /\ FrameInv(g) /\ HeldIn(g) = IndsIn(r) /\ stk' = Push(g, Below)
  BY <1>6, <1>7, <1>8 DEF Top
<1> HIDE DEF g
<1>10. HeldIn(g) \intersect HeldOf(Below) = {}
  BY <1>2, <1>4, <1>5, <1>9
<1>11. Good(Push(g, Below)) /\ HeldOf(Push(g, Below)) = HeldIn(g) \union HeldOf(Below)
  BY <1>2, <1>9, <1>10, PushGood
<1>12. HeldOf(stk') = HeldOf(stk) \union IndsIn(o)
  BY <1>2, <1>4, <1>5, <1>9, <1>11
<1> QED BY <1>9, <1>11, <1>12 DEF Holds
-----------------------------------------------------------------------------
(* The inductive invariant behind IndicationsConserved and the refinement: *)
(* the books balance, what is held was sent before what is unread, no      *)
(* indication is in a handler's list twice or in the stream twice, all in  *)
(* order, and none is yet to be sent.                                      *)
Balanced == /\ Conserved(h.sent, IndFrags(Stream), HeldOf(stk), h.delivered, h.lost)
            /\ Before(HeldOf(stk), IndFrags(Stream))
IndInv == /\ Good(stk) /\ StreamSeq
          /\ \A n \in h.sent : n <= ver
          /\ Balanced

LEMMA SentBound ==
    ASSUME TypeOK, StreamInv, [Next]_vars, \A n \in h.sent : n <= ver
    PROVE  \A n \in h'.sent : n <= ver'
<1>1. ver \in Nat /\ ver' \in {ver, ver + 1}
  BY VerSteps
<1>2. h.sent \in SUBSET Nat
  BY StreamTypes DEF History
<1>3. \A n \in h.sent : n <= ver'
  BY <1>1, <1>2
<1>4. CASE h'.sent = h.sent
  BY <1>3, <1>4
<1>5. ASSUME NEW m \in Msg, Grows(m), h'.sent # h.sent PROVE \A n \in h'.sent : n <= ver'
  <2>1. h'.sent = h.sent \union {m.n} /\ m.n = ver'
    BY <1>5 DEF Grows
  <2>2. ver' <= ver'
    BY <1>1
  <2> QED BY <1>3, <2>1, <2>2
<1>6. h'.sent = h.sent \/ \E m \in Msg : Grows(m)
  BY StreamSteps DEF StreamStep, KeepsStream, Empties, DropsBuffer, DropsUnread, Scans, Cuts
<1> QED BY <1>4, <1>5, <1>6

LEMMA MoveBooks ==
    ASSUME TypeOK, TypeOK', StreamInv, StreamInv', IndInv, [Next]_vars, ~Reads
    PROVE  StreamSeq' /\ \E x, n : Books({}, x, n)
<1>1. StreamSeq /\ IndFrags(Stream) \subseteq h.sent /\ h.lost \subseteq h.sent
      /\ \A n \in h.sent : n <= ver
  BY DEF IndInv, Balanced, Conserved
<1>2. CASE KeepsStream
  BY <1>1, <1>2, KeepBooks
<1>3. CASE Empties \/ DropsBuffer \/ DropsUnread \/ \E k \in 0..Len(net) : Cuts(k)
  BY <1>1, <1>3, DropBooks
<1>4. ASSUME NEW m \in Msg, Grows(m) PROVE StreamSeq' /\ \E x, n : Books({}, x, n)
  BY <1>1, <1>4, GrowBooks
<1> QED BY <1>2, <1>3, <1>4, MoveSteps DEF MoveStep, ClientMove

(* The indications neither delivered nor lost, and a step that delivers    *)
(* none: those it sends come to them, those it loses go, reading changes   *)
(* nothing.                                                                *)
OnTheWay == (IndFrags(Stream) \union HeldOf(stk)) \ h.lost
Moves == /\ OnTheWay' = (OnTheWay \ h'.lost) \union (h'.sent \ h.sent)
         /\ h'.delivered = h.delivered

(* The books after a step that reads o, loses x, sends n.                  *)
LEMMA BooksKept ==
    ASSUME IndInv, NEW o, NEW x, NEW n, Books(o, x, n), h'.delivered = h.delivered,
           HeldOf(stk') = HeldOf(stk) \union o
    PROVE  Balanced' /\ Moves
<1> DEFINE u == IndFrags(Stream)
           v == IndFrags(Stream')
           k == HeldOf(stk)
<1>1. Conserved(h.sent, u, k, h.delivered, h.lost) /\ Before(k, u)
  BY DEF IndInv, Balanced
<1>2. /\ h'.sent = h.sent \union n /\ h'.lost = h.lost \union x
      /\ o \subseteq u /\ x \subseteq u /\ o \intersect (x \union h.lost \union v) = {}
      /\ u \subseteq v \union o \union x \union h.lost
      /\ v \subseteq u \union n /\ n \subseteq v /\ n \intersect h.sent = {}
      /\ Before(o, v) /\ Before(h.sent, n)
  BY DEF Books
<1>3. Conserved(h.sent \union n, v, k \union o, h.delivered, h.lost \union x)
  <2> HIDE DEF u, v, k
  <2> QED BY <1>1, <1>2, ConservedMove
<1>4. Before(k \union o, v)
  <2>1. k \subseteq h.sent
    BY <1>1 DEF Conserved
  <2> HIDE DEF u, v, k
  <2> QED BY <1>1, <1>2, <2>1 DEF Before
<1>5. Moves
  <2>1. /\ OnTheWay = (u \union k) \ h.lost
        /\ OnTheWay' = (v \union (k \union o)) \ (h.lost \union x)
        /\ h'.lost = h.lost \union x
    BY <1>2 DEF OnTheWay
  <2>2. h'.sent \ h.sent = n
    BY <1>2
  <2>3. /\ u \union k \union h.lost \subseteq h.sent
        /\ k \intersect (u \union h.lost) = {}
    BY <1>1 DEF Conserved
  <2> HIDE DEF u, v, k
  <2>4. (v \union (k \union o)) \ (h.lost \union x)
          = (((u \union k) \ h.lost) \ (h.lost \union x)) \union n
    BY <1>2, <2>3
  <2> QED BY <2>1, <2>2, <2>4 DEF Moves
<1> QED BY <1>2, <1>3, <1>4, <1>5 DEF Balanced

LEMMA ReadKept ==
    ASSUME TypeOK, TypeOK', StreamInv, IndInv, Reads
    PROVE  Good(stk') /\ StreamSeq' /\ Balanced' /\ Moves
<1>0. h \in History /\ Good(stk) /\ StreamSeq /\ Same(stk)
  BY StreamTypes, SameStack DEF IndInv
<1>1. ASSUME NEW fs \in Seq(Frag), NEW rest \in Seq(Frag), Scans(fs, rest)
      PROVE  /\ StreamSeq' /\ Books(IndsIn(Objects(fs)), {}, {})
             /\ Objects(fs) \in Seq(Msg) /\ Rising(Objects(fs))
             /\ IndsIn(Objects(fs)) \intersect HeldOf(stk) = {}
             /\ Before(HeldOf(stk), IndsIn(Objects(fs)))
  <2>1. /\ StreamSeq' /\ Books(IndsIn(Objects(fs)), {}, {})
        /\ Objects(fs) \in Seq(Msg) /\ Rising(Objects(fs))
    BY <1>0, <1>1, ScanBooks
  <2>2. IndsIn(Objects(fs)) \subseteq IndFrags(Stream)
    BY <2>1 DEF Books
  <2>3. HeldOf(stk) \intersect IndFrags(Stream) = {} /\ Before(HeldOf(stk), IndFrags(Stream))
    BY DEF IndInv, Balanced, Conserved
  <2> QED BY <2>1, <2>2, <2>3 DEF Before
<1>2. ASSUME NEW o, Books(IndsIn(o), {}, {}), StreamSeq', Holds(o)
      PROVE  Good(stk') /\ StreamSeq' /\ Balanced' /\ Moves
  <2>1. Good(stk') /\ HeldOf(stk') = HeldOf(stk) \union IndsIn(o) /\ h'.delivered = h.delivered
    BY <1>2 DEF Holds
  <2> QED BY <1>2, <2>1, BooksKept
<1>3. CASE OnReadyRead
  <2>1. h' = h
    BY <1>3 DEF OnReadyRead
  <2>2. CASE KeepsStream /\ stk' = stk
    <3>1. StreamSeq' /\ Books({}, {}, {})
      BY <1>0, <2>2, KeepBooks
    <3>2. Balanced' /\ Moves
      BY <2>1, <2>2, <3>1, BooksKept
    <3> QED BY <1>0, <2>2, <3>1, <3>2
  <2>3. ASSUME NEW fs \in Seq(Frag), NEW rest \in Seq(Frag), Scans(fs, rest),
               stk' = Push([NewFrame("onReadyRead", "run") EXCEPT !.list = Objects(fs)], stk)
        PROVE  Good(stk') /\ StreamSeq' /\ Balanced' /\ Moves
    <3> DEFINE o == Objects(fs)
    <3>1. /\ StreamSeq' /\ Books(IndsIn(o), {}, {}) /\ o \in Seq(Msg) /\ Rising(o)
          /\ IndsIn(o) \intersect HeldOf(stk) = {}
      BY <1>1, <2>3
    <3>2. stk' = Push([NewFrame("onReadyRead", "run") EXCEPT !.list = o], stk)
      BY <2>3
    <3> HIDE DEF o
    <3>3. Free
      BY <1>0, <1>3, LoopFree DEF OnReadyRead
    <3>4. Holds(o)
      BY <1>0, <2>1, <3>1, <3>2, <3>3, PushRead
    <3> QED BY <1>2, <3>1, <3>4
  <2> QED BY <1>3, <2>2, <2>3, ReadyReadStream
<1>4. CASE SyncRead
  <2> DEFINE g(fs) == [Head(stk) EXCEPT !.raw = @ \o Objects(fs)]
  <2>1. PICK fs \in Seq(Frag), rest \in Seq(Frag) :
          /\ Scans(fs, rest)
          /\ stk' = Top(IF HasAnswer(g(fs).op, g(fs).raw) THEN EndWait(g(fs)) ELSE g(fs))
          /\ h' = [h EXCEPT !.wrong = @ \/ (g(fs).op = "get" /\ ~h.expired /\ TakesOther(g(fs)))]
    BY <1>4, SyncReadStream
  <2> DEFINE o == Objects(fs)
             f == [Head(stk) EXCEPT !.raw = @ \o o]
  <2>2. h'.delivered = h.delivered
    BY <1>0, <2>1 DEF History
  <2>3. stk' = Top(IF HasAnswer(f.op, f.raw) THEN EndWait(f) ELSE f)
    BY <2>1
  <2>4. /\ StreamSeq' /\ Books(IndsIn(o), {}, {}) /\ o \in Seq(Msg) /\ Rising(o)
        /\ IndsIn(o) \intersect HeldOf(stk) = {} /\ Before(HeldOf(stk), IndsIn(o))
    BY <1>1, <2>1
  <2>5. Syncing
    BY <1>4 DEF SyncRead
  <2> HIDE DEF o
  <2>6. Holds(o)
    <3>1. f = [Head(stk) EXCEPT !.raw = @ \o o]
      OBVIOUS
    <3> HIDE DEF f
    <3> QED BY <1>0, <2>2, <2>3, <2>4, <2>5, <3>1, SyncReadHeld
  <2> QED BY <1>2, <2>4, <2>6
<1>5. CASE DrainSocketMessages
  <2> DEFINE o == Objects(rx \o buf)
  <2>1. /\ StreamSeq' /\ Books(IndsIn(o), {}, {}) /\ o \in Seq(Msg) /\ Rising(o)
        /\ IndsIn(o) \intersect HeldOf(stk) = {}
    <3>1. Scans(rx \o buf, net) /\ rx \o buf \in Seq(Frag) /\ net \in Seq(Frag)
      BY <1>5, DrainStream, StreamTypes
    <3> QED BY <1>1, <3>1
  <2>2. o = Objects(rx \o buf)
    OBVIOUS
  <2> HIDE DEF o
  <2>3. Holds(o)
    BY <1>0, <1>5, <2>1, <2>2, DrainHeld
  <2> QED BY <1>2, <2>1, <2>3
<1> QED BY <1>3, <1>4, <1>5 DEF Reads

LEMMA IndStep ==
    ASSUME TypeOK, TypeOK', StreamInv, StreamInv', IndInv, [Next]_vars
    PROVE  IndInv' /\ (Moves \/ (KeepsStream /\ \E n : Tells(n)))
<1>1. \A n \in h'.sent : n <= ver'
  BY SentBound DEF IndInv
<1> DEFINE Told == KeepsStream /\ \E n : Tells(n)
<1> HIDE DEF Told
<1> SUFFICES Good(stk') /\ StreamSeq' /\ Balanced' /\ (Moves \/ Told)
  BY <1>1 DEF IndInv, Told
<1>2. CASE Reads
  BY <1>2, ReadKept
<1>3. CASE ~Reads /\ Kept
  <2>1. PICK x, n : Books({}, x, n)
    BY <1>3, MoveBooks
  <2>2. Good(stk') /\ HeldOf(stk') = HeldOf(stk) \union {} /\ h'.delivered = h.delivered
    BY <1>3 DEF Kept
  <2> QED BY <1>3, <2>1, <2>2, BooksKept, MoveBooks
<1>4. ASSUME KeepsStream, NEW n, Tells(n)
      PROVE  Good(stk') /\ StreamSeq' /\ Balanced'
  <2>1. /\ n \in Nat /\ n \in HeldOf(stk) /\ Good(stk') /\ HeldOf(stk') = HeldOf(stk) \ {n}
        /\ h'.delivered = Append(h.delivered, n)
    BY <1>4 DEF Tells
  <2>2. Stream' = Stream /\ h'.lost = h.lost /\ h'.sent = h.sent
    BY <1>4 DEF KeepsStream
  <2>3. /\ Conserved(h.sent, IndFrags(Stream), HeldOf(stk), h.delivered, h.lost) /\ StreamSeq
        /\ Before(HeldOf(stk), IndFrags(Stream))
    BY DEF IndInv, Balanced
  <2>4. h.delivered \in Seq(Nat)
    BY StreamTypes DEF History
  <2>5. Conserved(h.sent, IndFrags(Stream), HeldOf(stk) \ {n}, Append(h.delivered, n), h.lost)
    BY <2>1, <2>3, <2>4, ConservedTell
  <2>6. StreamSeq'
    BY <1>4, <2>3, KeepBooks
  <2>7. Before(HeldOf(stk) \ {n}, IndFrags(Stream))
    BY <2>3 DEF Before
  <2>8. Balanced'
    BY <2>1, <2>2, <2>5, <2>7 DEF Balanced
  <2> QED BY <2>1, <2>6, <2>8
<1>5. Good(stk)
  BY DEF IndInv
<1> QED BY <1>2, <1>3, <1>4, <1>5, HoldSteps DEF Told

LEMMA IndInit == Init => IndInv
<1> SUFFICES ASSUME Init PROVE IndInv
  OBVIOUS
<1>1. /\ rx = <<>> /\ buf = <<>> /\ net = <<>> /\ stk = <<>>
      /\ h.sent = {} /\ h.delivered = <<>> /\ h.lost = {}
  BY DEF Init
<1>2. Stream = <<>>
  BY <1>1 DEF Stream
<1>3. Good(<<>>) /\ HeldOf(<<>>) = {} /\ IndFrags(<<>>) = {}
  BY DEF Good, Lone, HeldOf, IndFrags
<1>4. StreamSeq
  BY <1>2 DEF StreamSeq, Apart, LooseEnd
<1>5. Conserved({}, {}, {}, <<>>, {}) /\ Before({}, {})
  BY DEF Conserved, Before
<1> QED BY <1>1, <1>2, <1>3, <1>4, <1>5 DEF IndInv, Balanced

LEMMA IndAlways == Spec => []IndInv
<1>1. TypeOK /\ TypeOK' /\ StreamInv /\ StreamInv' /\ IndInv /\ [Next]_vars => IndInv'
  BY IndStep
<1> QED BY <1>1, IndInit, TypeCorrect, StreamAlways, PTL DEF Spec

(* For every number of calls, faults, device events and nested callbacks:  *)
(* every indication the service wrote is on the way, held by one handler,  *)
(* delivered or lost with its connection, and is delivered at most once;   *)
(* no synchronous call swallows one it read while waiting for its answer   *)
(* (GetDeviceinfo, SubscribeDeviceEvent, onReadyRead,                      *)
(* drainSocketMessages).                                                   *)
THEOREM IndicationsConservedCorrect == Spec => []IndicationsConserved
<1>1. TypeOK /\ IndInv => IndicationsConserved
  BY UnreadFact, HeldFact, ConservedFact DEF IndInv, Balanced
<1> QED BY <1>1, IndAlways, TypeCorrect, PTL
-----------------------------------------------------------------------------
(* The refinement.  What is pending in the channel is what is on the way.  *)
LEMMA PendingFact == TypeOK => Pending = OnTheWay
  BY UnreadFact, HeldFact DEF Pending, OnTheWay

LEMMA NextPending == TypeOK' => Pending' = OnTheWay'
<1> DEFINE Known == Pending = OnTheWay
<1>1. TypeOK => Known
  BY PendingFact
<1> HIDE DEF Known
<1>2. TypeOK' => Known'
  BY <1>1, PTL
<1> QED BY <1>2 DEF Known

(* The three ways a step changes the connection or the books.              *)
LEMMA ConnSteps ==
    ASSUME TypeOK, StreamInv, [Next]_vars, ver' = ver
    PROVE  /\ h'.sent = h.sent
           /\ \/ conn' = conn /\ h'.lost = h.lost
              \/ ~conn'
              \/ ~conn /\ conn'
<1>1. ver \in Nat /\ ver + 1 # ver
  BY VerSteps
<1>2. ASSUME NEW m \in Msg, Grows(m)
      PROVE  h'.sent = h.sent /\ conn' = conn /\ h'.lost = h.lost
  BY <1>1, <1>2 DEF Grows
<1>3. KeepsStream \/ (\E fs, rest \in Seq(Frag) : Scans(fs, rest))
        => h'.sent = h.sent /\ conn' = conn /\ h'.lost = h.lost
  BY DEF KeepsStream, Scans
<1>4. Empties => h'.sent = h.sent /\ (~conn' \/ (~conn /\ conn'))
  BY DEF Empties
<1>5. DropsBuffer \/ DropsUnread \/ (\E k \in 0..Len(net) : Cuts(k)) => h'.sent = h.sent /\ ~conn'
  BY DEF DropsBuffer, DropsUnread, Cuts
<1> QED BY <1>2, <1>3, <1>4, <1>5, StreamSteps DEF StreamStep

LEMMA ChannelInit == Init => Channel!Init
<1> SUFFICES ASSUME Init PROVE Channel!Init
  OBVIOUS
<1>1. conn = FALSE /\ ver = 0 /\ h.delivered = <<>> /\ rx = <<>> /\ buf = <<>> /\ net = <<>> /\ stk = <<>>
  BY DEF Init
<1>2. IndFrags(<<>>) = {} /\ HeldOf(<<>>) = {}
  BY DEF IndFrags, HeldOf
<1>3. Pending = {}
  BY <1>1, <1>2, HeldFact DEF Pending, Unread
<1> QED BY <1>1, <1>3 DEF Channel!Init

(* A device event.                                                         *)
LEMMA EventStep ==
    ASSUME TypeOK, TypeOK', IndInv, Moves, NEW t \in SignalType, SrvEvent(t)
    PROVE  Channel!Event
<1>1. /\ Pending = OnTheWay /\ Pending' = OnTheWay'
      /\ h \in History /\ ver \in Nat /\ h.sent \subseteq Nat
  BY PendingFact, NextPending, StreamTypes DEF TypeOK, History
<1>2. ver' = ver + 1 /\ conn' = conn
  BY DEF SrvEvent
<1>3. /\ h'.lost = h.lost
      /\ (conn /\ h'.sent = h.sent \union {ver'}) \/ h'.sent = h.sent
  BY <1>1 DEF SrvEvent, History
<1>4. ver' \notin h.sent
  BY <1>1, <1>2 DEF IndInv
<1>5. /\ OnTheWay' = (OnTheWay \ h.lost) \union (h'.sent \ h.sent)
      /\ h'.delivered = h.delivered
  BY <1>3 DEF Moves
<1>6. OnTheWay \ h.lost = OnTheWay
  BY DEF OnTheWay
<1>7. (conn /\ Pending' = Pending \union {ver'}) \/ Pending' = Pending
  BY <1>1, <1>3, <1>4, <1>5, <1>6
<1> QED BY <1>2, <1>5, <1>7 DEF Channel!Event

(* An indication reaches the callback: it was held, so it is not lost, and *)
(* it is older than whatever else is held, and that than what is unread.   *)
LEMMA DeliverStep ==
    ASSUME TypeOK, TypeOK', IndInv, KeepsStream, ver' = ver, NEW n, Tells(n)
    PROVE  n \in Pending /\ Channel!Deliver(n)
<1>1. Pending = OnTheWay /\ Pending' = OnTheWay'
  BY PendingFact, NextPending
<1>2. /\ n \in Nat /\ n \in HeldOf(stk) /\ HeldOf(stk') = HeldOf(stk) \ {n}
      /\ h'.delivered = Append(h.delivered, n)
      /\ Reentrant \/ \A k \in HeldOf(stk) : n <= k
  BY DEF Tells
<1>3. Stream' = Stream /\ h'.lost = h.lost /\ conn' = conn
  BY DEF KeepsStream
<1>4. /\ n \notin IndFrags(Stream) /\ n \notin h.lost
      /\ \A k \in IndFrags(Stream) : n < k
  BY <1>2 DEF IndInv, Balanced, Conserved, Before
<1>5. n \in OnTheWay /\ OnTheWay' = OnTheWay \ {n}
  BY <1>2, <1>3, <1>4 DEF OnTheWay
<1>6. ASSUME ~Reentrant, NEW k \in OnTheWay PROVE n <= k
  <2>1. IndFrags(Stream) \subseteq Nat
    BY StreamTypes, IndFragsType
  <2>2. \A j \in Nat : n < j => n <= j
    BY <1>2
  <2>3. k \in HeldOf(stk) \/ k \in IndFrags(Stream)
    BY DEF OnTheWay
  <2> QED BY <1>2, <1>4, <1>6, <2>1, <2>2, <2>3
<1> QED BY <1>1, <1>2, <1>3, <1>5, <1>6 DEF Channel!Deliver

(* Every step of the client is a step of the channel, or leaves it.        *)
LEMMA ChannelStep ==
    ASSUME TypeOK, TypeOK', StreamInv, StreamInv', IndInv, [Next]_vars
    PROVE  [Channel!Next]_(Channel!channelVars)
<1>1. Pending = OnTheWay /\ Pending' = OnTheWay'
  BY PendingFact, NextPending
<1>2. CASE Moves /\ ver' = ver
  <2>1. /\ h'.sent = h.sent
        /\ \/ conn' = conn /\ h'.lost = h.lost
           \/ ~conn'
           \/ ~conn /\ conn'
    BY <1>2, ConnSteps
  <2>2. OnTheWay' = OnTheWay \ h'.lost /\ h'.delivered = h.delivered
    BY <1>2, <2>1 DEF Moves
  <2>3. CASE conn' = conn /\ h'.lost = h.lost
    <3>1. OnTheWay \ h.lost = OnTheWay
      BY DEF OnTheWay
    <3>2. UNCHANGED Channel!channelVars
      BY <1>1, <1>2, <2>2, <2>3, <3>1 DEF Channel!channelVars
    <3> QED BY <3>2
  <2>4. Pending' \subseteq Pending
    BY <1>1, <2>2
  <2>5. CASE ~conn'
    <3>1. Channel!Disconnect
      BY <1>2, <2>2, <2>4, <2>5 DEF Channel!Disconnect
    <3> QED BY <3>1 DEF Channel!Next
  <2>6. CASE ~conn /\ conn'
    <3>1. Channel!Connect
      BY <1>2, <2>2, <2>4, <2>6 DEF Channel!Connect
    <3> QED BY <3>1 DEF Channel!Next
  <2> QED BY <2>1, <2>3, <2>5, <2>6
<1>3. ASSUME Moves, ver' # ver PROVE [Channel!Next]_(Channel!channelVars)
  <2>1. PICK t \in SignalType : SrvEvent(t)
    BY <1>3, VerSteps
  <2>2. Channel!Event
    BY <1>3, <2>1, EventStep
  <2> QED BY <2>2 DEF Channel!Next
<1>4. ASSUME KeepsStream, NEW n, Tells(n) PROVE [Channel!Next]_(Channel!channelVars)
  <2>1. ver' = ver
    <3>1. ASSUME NEW t \in SignalType, SrvEvent(t) PROVE FALSE
      <4>1. h \in History /\ h.delivered \in Seq(Nat) /\ n \in Nat
        BY <1>4, StreamTypes DEF History, Tells
      <4>2. h'.delivered = h.delivered
        BY <3>1, <4>1 DEF SrvEvent, History
      <4>3. Append(h.delivered, n) # h.delivered
        BY <4>1, AppendProperties
      <4> QED BY <1>4, <4>2, <4>3 DEF Tells
    <3> QED BY <3>1, VerSteps
  <2>2. n \in Pending /\ Channel!Deliver(n)
    BY <1>4, <2>1, DeliverStep
  <2> QED BY <2>2 DEF Channel!Next
<1> QED BY <1>2, <1>3, <1>4, IndStep

(* For every number of calls, faults, device events and nested callbacks   *)
(* the client implements the channel of IndicationChannel: an indication   *)
(* the service sends on a live connection is delivered once, in the order  *)
(* of sending when callbacks do not call the library again, and is lost    *)
(* only with its connection, whatever synchronous calls, nested handlers   *)
(* and reconnects lie between (onReadyRead, GetDeviceinfo,                 *)
(* SubscribeDeviceEvent, drainSocketMessages, onDisconnected).             *)
THEOREM ChannelCorrect == Spec => ChannelSpec
<1>1. TypeOK /\ TypeOK' /\ StreamInv /\ StreamInv' /\ IndInv /\ [Next]_vars
        => [Channel!Next]_(Channel!channelVars)
  BY ChannelStep
<1> QED BY <1>1, ChannelInit, TypeCorrect, StreamAlways, IndAlways, PTL
        DEF Spec, ChannelSpec, Channel!Spec
-----------------------------------------------------------------------------
(* Requests and their answers.  The messages, or requests, of one function *)
(* in a list, and the ones whose fragments are in a stream; at most one of *)
(* them is in a list, and at most the two fragments of one in a stream.    *)
Of(q, fn) == {q[i] : i \in {j \in DOMAIN q : q[j].fn = fn}}
Answers(s, fn) == {s[i].m : i \in {j \in DOMAIN s : s[j].m.fn = fn}}
Single(q, fn) == \A i, j \in DOMAIN q : i < j /\ q[i].fn = fn => q[j].fn # fn
Once(s, fn) == \A i, j \in DOMAIN s :
                  i < j /\ s[i].m.fn = fn /\ s[j].m.fn = fn => j = i + 1 /\ ~s[i].last
Unique(q, s, fn) == /\ Single(q, fn) /\ Once(s, fn)
                    /\ Of(q, fn) = {} \/ Answers(s, fn) = {}

LEMMA OfMember ==
    ASSUME NEW q, NEW fn, NEW x
    PROVE  x \in Of(q, fn) <=> \E i \in DOMAIN q : q[i].fn = fn /\ q[i] = x
  BY DEF Of

LEMMA AnswersMember ==
    ASSUME NEW s, NEW fn, NEW x
    PROVE  x \in Answers(s, fn) <=> \E i \in DOMAIN s : s[i].m.fn = fn /\ s[i].m = x
  BY DEF Answers

LEMMA NoneOf == \A fn : /\ Of(<<>>, fn) = {} /\ Answers(<<>>, fn) = {}
                        /\ Single(<<>>, fn) /\ Once(<<>>, fn)
  BY DEF Of, Answers, Single, Once

(* t is the part of the stream s from position c on, or the beginning of   *)
(* that part.                                                              *)
Shift(s, t, c) == \A i \in DOMAIN t : c + i \in DOMAIN s /\ t[i] = s[c + i]

LEMMA ShiftOnce ==
    ASSUME NEW s \in Seq(Frag), NEW t \in Seq(Frag), NEW c \in Nat, Shift(s, t, c), NEW fn
    PROVE  (Once(s, fn) => Once(t, fn)) /\ Answers(t, fn) \subseteq Answers(s, fn)
<1>1. \A i \in DOMAIN t : i \in Nat /\ c + i \in DOMAIN s /\ t[i] = s[c + i]
  BY LenProperties DEF Shift
<1>2. ASSUME Once(s, fn), NEW i \in DOMAIN t, NEW j \in DOMAIN t, i < j,
             t[i].m.fn = fn, t[j].m.fn = fn
      PROVE  j = i + 1 /\ ~t[i].last
  <2>1. /\ i \in Nat /\ j \in Nat /\ c + i \in DOMAIN s /\ c + j \in DOMAIN s
        /\ t[i] = s[c + i] /\ t[j] = s[c + j]
    BY <1>1
  <2>2. c + i < c + j
    BY <1>2, <2>1
  <2>3. c + j = (c + i) + 1 /\ ~t[i].last
    BY <1>2, <2>1, <2>2 DEF Once
  <2> QED BY <2>1, <2>3
<1>3. ASSUME NEW x \in Answers(t, fn) PROVE x \in Answers(s, fn)
  <2>1. PICK i \in DOMAIN t : t[i].m.fn = fn /\ t[i].m = x
    BY <1>3, AnswersMember
  <2> QED BY <1>1, <2>1, AnswersMember
<1> QED BY <1>2, <1>3 DEF Once

(* A scan takes both fragments of a message or none.                       *)
Split(s, o, t) == \E d \in {0, 1}, k \in Nat : Splits(s, o, t, d, k)

LEMMA SplitOnce ==
    ASSUME NEW s \in Seq(Frag), NEW t \in Seq(Frag), NEW o \in Seq(Msg), Split(s, o, t), NEW fn
    PROVE  /\ \E c \in Nat : Shift(s, t, c)
           /\ Of(o, fn) \subseteq Answers(s, fn)
           /\ Once(s, fn) => Single(o, fn) /\ (Of(o, fn) = {} \/ Answers(t, fn) = {})
<1>0. PICK d \in {0, 1}, k \in Nat : Splits(s, o, t, d, k)
  BY DEF Split
<1> DEFINE c == d + 2 * k
<1>1. c \in Nat /\ DOMAIN o = 1..k
  BY <1>0 DEF Splits
<1>2. \A i \in DOMAIN t : i \in Nat /\ i # 0
  BY LenProperties
<1>3. \A i \in 1..k : /\ d + 2 * i \in DOMAIN s /\ o[i] = s[d + 2 * i].m /\ s[d + 2 * i].last
                      /\ d + 2 * i <= c /\ d + 2 * i \in Nat
  <2> TAKE i \in 1..k
  <2>1. i \in Nat /\ d + 2 * i <= c /\ d + 2 * i \in Nat
    OBVIOUS
  <2>2. d + 2 * i \in DOMAIN s /\ o[i] = s[d + 2 * i].m /\ s[d + 2 * i].last
    BY <1>0 DEF Splits
  <2> QED BY <2>1, <2>2
<1>4. \A i \in DOMAIN t : c + i \in DOMAIN s /\ t[i] = s[c + i]
  BY <1>0 DEF Splits
<1> HIDE DEF c
<1>5. ASSUME NEW x \in Of(o, fn) PROVE x \in Answers(s, fn)
  <2>1. PICK i \in 1..k : o[i].fn = fn /\ o[i] = x
    BY <1>1, <1>5, OfMember
  <2> DEFINE p == d + 2 * i
  <2>2. p \in DOMAIN s /\ o[i] = s[p].m
    BY <1>3
  <2> HIDE DEF p
  <2> QED BY <2>1, <2>2, AnswersMember
<1>6. ASSUME Once(s, fn), NEW i \in 1..k, NEW j \in 1..k, i < j, o[i].fn = fn PROVE o[j].fn # fn
  <2> DEFINE p == d + 2 * i
             q == d + 2 * j
  <2>1. p < q
    BY <1>6
  <2>2. p \in DOMAIN s /\ q \in DOMAIN s /\ s[p].last /\ s[p].m = o[i] /\ s[q].m = o[j]
    BY <1>3
  <2> HIDE DEF p, q
  <2> QED BY <1>6, <2>1, <2>2 DEF Once
<1>7. ASSUME Once(s, fn), NEW x \in Of(o, fn), NEW y \in Answers(t, fn) PROVE FALSE
  <2>1. PICK i \in 1..k : o[i].fn = fn
    BY <1>1, <1>7, OfMember
  <2>2. PICK j \in DOMAIN t : t[j].m.fn = fn
    BY <1>7, AnswersMember
  <2> DEFINE p == d + 2 * i
  <2>3. p \in DOMAIN s /\ o[i] = s[p].m /\ s[p].last /\ p <= c /\ p \in Nat
    BY <1>3
  <2> HIDE DEF p
  <2>4. c + j \in DOMAIN s /\ t[j] = s[c + j] /\ j \in Nat /\ j # 0
    BY <1>2, <1>4
  <2>5. p < c + j
    BY <1>1, <2>3, <2>4
  <2> QED BY <1>7, <2>1, <2>2, <2>3, <2>4, <2>5 DEF Once
<1>8. \E n \in Nat : Shift(s, t, n)
  BY <1>1, <1>4 DEF Shift
<1>9. Once(s, fn) => Single(o, fn)
  BY <1>1, <1>6 DEF Single
<1>10. Once(s, fn) => Of(o, fn) = {} \/ Answers(t, fn) = {}
  BY <1>7
<1>11. Of(o, fn) \subseteq Answers(s, fn)
  BY <1>5
<1> QED BY <1>8, <1>9, <1>10, <1>11

(* The service writes m.                                                   *)
LEMMA GrowOnce ==
    ASSUME NEW a \in Seq(Frag), NEW m \in Msg, NEW fn
    PROVE  LET s == a \o Frags(m)
           IN  /\ m.fn # fn => Answers(s, fn) = Answers(a, fn) /\ (Once(a, fn) => Once(s, fn))
               /\ m.fn = fn /\ Answers(a, fn) = {} => Answers(s, fn) = {m} /\ Once(s, fn)
<1> DEFINE b == Frags(m)
           s == a \o b
           k == Len(a)
<1>1. DOMAIN b = {1, 2} /\ b[1].m = m /\ ~b[1].last /\ b[2].m = m /\ b[2].last /\ b \in Seq(Frag)
  BY DEF Frags, Frag
<1>2. Joins(s, a, b)
  <2> HIDE DEF b
  <2> QED BY <1>1, Joining
<1> HIDE DEF b
<1>3. /\ k \in Nat /\ \A i \in DOMAIN a : i \in DOMAIN s /\ s[i] = a[i] /\ i \in 1..k
      /\ \A i \in DOMAIN s : \/ i \in DOMAIN a /\ s[i] = a[i]
                             \/ i - k \in DOMAIN b /\ s[i] = b[i - k]
  BY <1>2 DEF Joins
<1>4. k + 1 \in DOMAIN s /\ s[k + 1] = b[1]
  BY <1>1, <1>2 DEF Joins
<1>5. \A i \in DOMAIN s : i \in Nat
  <2>1. s \in Seq(Frag)
    BY <1>1, ConcatProperties
  <2> QED BY <2>1, LenProperties
<1> HIDE DEF s, k
<1>6. \A i \in DOMAIN s : \/ i \in DOMAIN a /\ s[i] = a[i]
                          \/ i = k + 1 /\ s[i].m = m /\ ~s[i].last
                          \/ i = k + 2 /\ s[i].m = m
  <2> TAKE i \in DOMAIN s
  <2>1. i \in Nat /\ k \in Nat /\ (i - k = 1 => i = k + 1) /\ (i - k = 2 => i = k + 2)
    BY <1>3, <1>5
  <2> QED BY <1>1, <1>3, <2>1
<1>7. ASSUME NEW x PROVE x \in Answers(s, fn) <=> x \in Answers(a, fn) \/ (m.fn = fn /\ x = m)
  <2>1. ASSUME x \in Answers(s, fn) PROVE x \in Answers(a, fn) \/ (m.fn = fn /\ x = m)
    <3>1. PICK i \in DOMAIN s : s[i].m.fn = fn /\ s[i].m = x
      BY <2>1, AnswersMember
    <3> QED BY <1>6, <3>1, AnswersMember
  <2>2. ASSUME x \in Answers(a, fn) PROVE x \in Answers(s, fn)
    <3>1. PICK i \in DOMAIN a : a[i].m.fn = fn /\ a[i].m = x
      BY <2>2, AnswersMember
    <3> QED BY <1>3, <3>1, AnswersMember
  <2>3. m.fn = fn => m \in Answers(s, fn)
    BY <1>1, <1>4, AnswersMember
  <2> QED BY <2>1, <2>2, <2>3
<1>8. m.fn # fn => Answers(s, fn) = Answers(a, fn)
  BY <1>7
<1>9. m.fn = fn /\ Answers(a, fn) = {} => Answers(s, fn) = {m}
  BY <1>7
<1>10. ASSUME m.fn # fn, Once(a, fn) PROVE Once(s, fn)
  BY <1>6, <1>10 DEF Once
<1>11. ASSUME m.fn = fn, Answers(a, fn) = {} PROVE Once(s, fn)
  <2> SUFFICES ASSUME NEW i \in DOMAIN s, NEW j \in DOMAIN s, i < j, s[i].m.fn = fn, s[j].m.fn = fn
               PROVE  j = i + 1 /\ ~s[i].last
    BY DEF Once
  <2>1. \A n \in DOMAIN a : a[n].m.fn # fn
    BY <1>11, AnswersMember
  <2>2. (i = k + 1 /\ ~s[i].last) \/ i = k + 2
    BY <1>6, <2>1
  <2>3. j = k + 1 \/ j = k + 2
    BY <1>6, <2>1
  <2>4. i \in Nat /\ j \in Nat /\ k \in Nat
    BY <1>3, <1>5
  <2> QED BY <2>2, <2>3, <2>4
<1> QED BY <1>8, <1>9, <1>10, <1>11 DEF s, b

(* A request is written, or handled.                                       *)
LEMMA AppendOf ==
    ASSUME NEW q \in Seq(Req), NEW r \in Req, NEW fn
    PROVE  LET p == Append(q, r)
           IN  /\ r.fn # fn => Of(p, fn) = Of(q, fn) /\ (Single(q, fn) => Single(p, fn))
               /\ r.fn = fn /\ Of(q, fn) = {} => Of(p, fn) = {r} /\ Single(p, fn)
<1> DEFINE p == Append(q, r)
           k == Len(q) + 1
<1>1. /\ Len(q) \in Nat /\ k \in Nat /\ DOMAIN q = 1..Len(q) /\ DOMAIN p = 1..k /\ p[k] = r
      /\ \A i \in DOMAIN q : p[i] = q[i] /\ i \in DOMAIN p
  BY LenProperties
<1>2. \A i \in DOMAIN p : i \in Nat /\ ((i \in DOMAIN q /\ p[i] = q[i]) \/ (i = k /\ p[i] = r))
  BY <1>1
<1>3. k \in DOMAIN p /\ p[k] = r /\ \A i \in DOMAIN q : i < k
  BY <1>1
<1>4. \A i \in DOMAIN q : p[i] = q[i] /\ i \in DOMAIN p
  BY <1>1
<1> HIDE DEF p, k
<1>5. ASSUME NEW x PROVE x \in Of(p, fn) <=> x \in Of(q, fn) \/ (r.fn = fn /\ x = r)
  <2>1. ASSUME x \in Of(p, fn) PROVE x \in Of(q, fn) \/ (r.fn = fn /\ x = r)
    <3>1. PICK i \in DOMAIN p : p[i].fn = fn /\ p[i] = x
      BY <2>1, OfMember
    <3> QED BY <1>2, <3>1, OfMember
  <2>2. ASSUME x \in Of(q, fn) PROVE x \in Of(p, fn)
    <3>1. PICK i \in DOMAIN q : q[i].fn = fn /\ q[i] = x
      BY <2>2, OfMember
    <3> QED BY <1>4, <3>1, OfMember
  <2>3. r.fn = fn => r \in Of(p, fn)
    BY <1>3, OfMember
  <2> QED BY <2>1, <2>2, <2>3
<1>6. ASSUME r.fn # fn, Single(q, fn) PROVE Single(p, fn)
  BY <1>2, <1>6 DEF Single
<1>7. ASSUME r.fn = fn, Of(q, fn) = {} PROVE Single(p, fn)
  <2>1. \A i \in DOMAIN q : q[i].fn # fn
    BY <1>7, OfMember
  <2>2. ~(k < k)
    BY <1>1 DEF k
  <2> QED BY <1>2, <2>1, <2>2 DEF Single
<1> QED BY <1>5, <1>6, <1>7 DEF p

LEMMA TailOf ==
    ASSUME NEW q \in Seq(Req), q # <<>>, NEW fn
    PROVE  /\ Of(Tail(q), fn) \subseteq Of(q, fn) /\ (Single(q, fn) => Single(Tail(q), fn))
           /\ Head(q).fn = fn => Head(q) \in Of(q, fn) /\ (Single(q, fn) => Of(Tail(q), fn) = {})
<1> DEFINE p == Tail(q)
<1>1. /\ Len(q) \in Nat \ {0} /\ DOMAIN q = 1..Len(q) /\ p \in Seq(Req) /\ Len(p) = Len(q) - 1
      /\ \A i \in 1..Len(p) : p[i] = q[i + 1]
  BY LenProperties, EmptySeq, HeadTailProperties
<1>2. DOMAIN p = 1..Len(p) /\ Head(q) = q[1] /\ 1 \in DOMAIN q
  BY <1>1, LenProperties
<1> HIDE DEF p
<1>3. \A i \in DOMAIN p : i \in Nat /\ i + 1 \in DOMAIN q /\ p[i] = q[i + 1] /\ 1 < i + 1
  BY <1>1, <1>2
<1>4. ASSUME NEW x \in Of(p, fn) PROVE x \in Of(q, fn)
  <2>1. PICK i \in DOMAIN p : p[i].fn = fn /\ p[i] = x
    BY <1>4, OfMember
  <2> QED BY <1>3, <2>1, OfMember
<1>5. ASSUME Single(q, fn), NEW i \in DOMAIN p, NEW j \in DOMAIN p, i < j, p[i].fn = fn
      PROVE  p[j].fn # fn
  <2>1. /\ i + 1 \in DOMAIN q /\ j + 1 \in DOMAIN q /\ i + 1 < j + 1
        /\ p[i] = q[i + 1] /\ p[j] = q[j + 1]
    BY <1>3, <1>5
  <2> QED BY <1>5, <2>1 DEF Single
<1>6. ASSUME Head(q).fn = fn PROVE Head(q) \in Of(q, fn)
  BY <1>2, <1>6, OfMember
<1>7. ASSUME Head(q).fn = fn, Single(q, fn), NEW x \in Of(p, fn) PROVE FALSE
  <2>1. PICK i \in DOMAIN p : p[i].fn = fn
    BY <1>7, OfMember
  <2> QED BY <1>2, <1>3, <1>7, <2>1 DEF Single
<1> QED BY <1>4, <1>5, <1>6, <1>7 DEF Single, p

(* What a step does on the wire to the messages of function fn: some go,   *)
(* or the request r is written, or the service answers with m.             *)
Fewer(fn) == /\ Unique(reqs, Stream, fn) => Unique(reqs', Stream', fn)
             /\ Of(reqs', fn) \subseteq Of(reqs, fn)
             /\ Answers(Stream', fn) \subseteq Answers(Stream, fn)

LEMMA ShiftSteps ==
    ASSUME TypeOK, TypeOK', StreamInv,
           \/ KeepsStream \/ Empties \/ DropsBuffer \/ DropsUnread
           \/ \E fs, rest \in Seq(Frag) : Scans(fs, rest)
           \/ \E k \in 0..Len(net) : Cuts(k)
    PROVE  \E c \in Nat : Shift(Stream, Stream', c)
<1>0. /\ rx \in Seq(Frag) /\ buf \in Seq(Frag) /\ net \in Seq(Frag) /\ Stream \in Seq(Frag)
      /\ rx \o buf \in Seq(Frag) /\ Stream' \in Seq(Frag)
  BY StreamTypes, NextTypes
<1>1. ASSUME NEW a \in Seq(Frag), NEW b \in Seq(Frag), Joins(Stream, a, b)
      PROVE  Shift(Stream, a, 0) /\ Shift(Stream, b, Len(a)) /\ Len(a) \in Nat
  <2>1. \A i \in DOMAIN a : 0 + i = i
    BY LenProperties
  <2>2. Shift(Stream, a, 0)
    BY <1>1, <2>1 DEF Joins, Shift
  <2>3. Shift(Stream, b, Len(a)) /\ Len(a) \in Nat
    BY <1>1 DEF Joins, Shift
  <2> QED BY <2>2, <2>3
<1>2. CASE KeepsStream
  <2>1. Stream' = Stream /\ \A i \in DOMAIN Stream : 0 + i = i
    BY <1>0, <1>2, LenProperties DEF KeepsStream
  <2>2. Shift(Stream, Stream', 0)
    BY <2>1 DEF Shift
  <2> QED BY <2>2
<1>3. CASE Empties
  <2>1. Stream' = <<>>
    BY <1>3 DEF Empties, Stream
  <2>2. Shift(Stream, <<>>, 0)
    BY DEF Shift
  <2> QED BY <2>1, <2>2
<1>4. CASE DropsBuffer
  <2>1. Stream' = (<<>> \o buf) \o <<>> /\ Stream = (rx \o buf) \o <<>>
    BY <1>4 DEF DropsBuffer, Stream
  <2>2. Stream' = buf /\ Stream = rx \o buf
    BY <1>0, <2>1, ConcatEmptySeq
  <2>3. Joins(Stream, rx, buf)
    BY <1>0, <2>2, Joining
  <2> QED BY <1>0, <1>1, <2>2, <2>3
<1>5. CASE DropsUnread
  <2>1. Stream' = (rx \o <<>>) \o <<>> /\ Stream = (rx \o buf) \o net
    BY <1>5 DEF DropsUnread, Stream
  <2>2. Stream' = rx
    BY <1>0, <2>1, ConcatEmptySeq
  <2>3. (rx \o buf) \o net = rx \o (buf \o net) /\ buf \o net \in Seq(Frag)
    <3>1. rx \in Seq(Frag) /\ buf \in Seq(Frag) /\ net \in Seq(Frag)
      BY <1>0
    <3>2. buf \o net \in Seq(Frag)
      BY <3>1, ConcatProperties
    <3> QED BY <3>1, <3>2, Regroup
  <2>4. Joins(Stream, rx, buf \o net)
    BY <1>0, <2>1, <2>3, Joining
  <2>5. Shift(Stream, rx, 0)
    BY <1>0, <1>1, <2>3, <2>4
  <2> QED BY <2>2, <2>5
<1>6. ASSUME NEW fs \in Seq(Frag), NEW rest \in Seq(Frag), Scans(fs, rest)
      PROVE  \E c \in Nat : Shift(Stream, Stream', c)
  <2>1. /\ Stream = fs \o rest /\ Stream' = Leftover(fs) \o rest /\ Paired(Aligned(fs \o rest))
        /\ Objects(fs) \in Seq(Msg) /\ fs \in Seq(FragOf(Msg)) /\ rest \in Seq(FragOf(Msg))
    BY <1>6, FragFact, ExtractType DEF Scans, StreamInv
  <2> DEFINE o == Objects(fs)
  <2>2. o \in Seq(Msg) /\ Split(Stream, o, Stream')
    BY <2>1, ScanPositions DEF Split
  <2> HIDE DEF o
  <2> QED BY <1>0, <2>2, SplitOnce
<1>7. ASSUME NEW k \in 0..Len(net), Cuts(k) PROVE \E c \in Nat : Shift(Stream, Stream', c)
  <2> DEFINE b == After(net, k)
             p == SubSeq(net, 1, k)
             a == (rx \o buf) \o p
  <2>1. p \in Seq(Frag) /\ b \in Seq(Frag) /\ net = p \o b
    BY <1>0, ReadProperties, ReadSplit
  <2>2. Stream' = a
    BY <1>7 DEF Cuts, Stream
  <2> HIDE DEF p, b
  <2>3. a \in Seq(Frag)
    BY <1>0, <2>1, ConcatProperties
  <2>4. Stream = a \o b
    <3>1. Stream = (rx \o buf) \o (p \o b)
      BY <2>1 DEF Stream
    <3>2. (rx \o buf) \o (p \o b) = ((rx \o buf) \o p) \o b
      <4>1. rx \o buf \in Seq(Frag) /\ p \in Seq(Frag) /\ b \in Seq(Frag)
        BY <1>0, <2>1
      <4> QED BY <4>1, Regroup
    <3> QED BY <3>1, <3>2
  <2> HIDE DEF a
  <2>5. Joins(Stream, a, b)
    BY <2>1, <2>3, <2>4, Joining
  <2>6. Shift(Stream, a, 0)
    BY <1>1, <2>1, <2>3, <2>5
  <2> QED BY <2>2, <2>6
<1> QED BY <1>2, <1>3, <1>4, <1>5, <1>6, <1>7

LEMMA ShiftFewer ==
    ASSUME TypeOK, TypeOK', NEW c \in Nat, Shift(Stream, Stream', c),
           reqs' = reqs \/ reqs' = <<>>, NEW fn
    PROVE  Fewer(fn)
<1>1. Stream \in Seq(Frag) /\ Stream' \in Seq(Frag)
  BY StreamTypes, NextTypes
<1>2. (Once(Stream, fn) => Once(Stream', fn)) /\ Answers(Stream', fn) \subseteq Answers(Stream, fn)
  BY <1>1, ShiftOnce
<1>3. (Single(reqs, fn) => Single(reqs', fn)) /\ Of(reqs', fn) \subseteq Of(reqs, fn)
  BY NoneOf
<1> QED BY <1>2, <1>3 DEF Fewer, Unique

LEMMA GrowFewer ==
    ASSUME TypeOK, NEW m \in Msg, Grows(m), NEW fn, m.fn # fn,
           reqs' = reqs \/ (reqs # <<>> /\ reqs' = Tail(reqs))
    PROVE  Fewer(fn)
<1>1. Stream \in Seq(Frag) /\ Stream' = Stream \o Frags(m) /\ reqs \in Seq(Req)
  BY StreamTypes DEF Grows, TypeOK
<1>2. Answers(Stream', fn) = Answers(Stream, fn) /\ (Once(Stream, fn) => Once(Stream', fn))
  BY <1>1, GrowOnce
<1>3. (Single(reqs, fn) => Single(reqs', fn)) /\ Of(reqs', fn) \subseteq Of(reqs, fn)
  BY <1>1, TailOf
<1> QED BY <1>2, <1>3 DEF Fewer, Unique

LEMMA GrowUnique ==
    ASSUME TypeOK, NEW m \in Msg, Grows(m), reqs # <<>>, reqs' = Tail(reqs), Head(reqs).fn = m.fn,
           Unique(reqs, Stream, m.fn)
    PROVE  /\ Unique(reqs', Stream', m.fn) /\ Head(reqs) \in Of(reqs, m.fn)
           /\ Of(reqs', m.fn) = {} /\ Answers(Stream', m.fn) = {m}
<1>1. Stream \in Seq(Frag) /\ Stream' = Stream \o Frags(m) /\ reqs \in Seq(Req)
  BY StreamTypes DEF Grows, TypeOK
<1>2. Single(reqs, m.fn) /\ (Of(reqs, m.fn) = {} \/ Answers(Stream, m.fn) = {})
  BY DEF Unique
<1>3. Head(reqs) \in Of(reqs, m.fn) /\ Of(reqs', m.fn) = {} /\ Single(reqs', m.fn)
  BY <1>1, <1>2, TailOf
<1>4. Answers(Stream', m.fn) = {m} /\ Once(Stream', m.fn)
  BY <1>1, <1>2, <1>3, GrowOnce
<1> QED BY <1>3, <1>4 DEF Unique

LEMMA AskFewer ==
    ASSUME TypeOK, NEW r \in Req, reqs' = Append(reqs, r), Stream' = Stream, NEW fn, r.fn # fn
    PROVE  Fewer(fn)
<1>1. reqs \in Seq(Req)
  BY DEF TypeOK
<1>2. (Single(reqs, fn) => Single(reqs', fn)) /\ Of(reqs', fn) \subseteq Of(reqs, fn)
  BY <1>1, AppendOf
<1> QED BY <1>2 DEF Fewer, Unique

LEMMA AskUnique ==
    ASSUME TypeOK, NEW r \in Req, reqs' = Append(reqs, r), Stream' = Stream,
           Unique(reqs, Stream, r.fn), Of(reqs, r.fn) = {}, Answers(Stream, r.fn) = {}
    PROVE  Unique(reqs', Stream', r.fn) /\ Of(reqs', r.fn) = {r} /\ Answers(Stream', r.fn) = {}
<1>1. reqs \in Seq(Req)
  BY DEF TypeOK
<1>2. Single(reqs', r.fn) /\ Of(reqs', r.fn) = {r}
  BY <1>1, AppendOf
<1> QED BY <1>2 DEF Unique

(* A scan that makes the objects o.                                        *)
LEMMA ScanUnique ==
    ASSUME TypeOK, TypeOK', StreamInv, NEW fs \in Seq(Frag), NEW rest \in Seq(Frag), Scans(fs, rest),
           reqs' = reqs, NEW fn
    PROVE  /\ Fewer(fn) /\ Objects(fs) \in Seq(Msg)
           /\ Of(Objects(fs), fn) \subseteq Answers(Stream, fn)
           /\ Unique(reqs, Stream, fn) => /\ Single(Objects(fs), fn)
                                          /\ Of(Objects(fs), fn) # {} =>
                                               Of(reqs', fn) = {} /\ Answers(Stream', fn) = {}
<1>0. Stream \in Seq(Frag) /\ Stream' \in Seq(Frag)
  BY StreamTypes, NextTypes
<1>1. /\ Stream = fs \o rest /\ Stream' = Leftover(fs) \o rest /\ Paired(Aligned(fs \o rest))
      /\ Objects(fs) \in Seq(Msg) /\ fs \in Seq(FragOf(Msg)) /\ rest \in Seq(FragOf(Msg))
  BY FragFact, ExtractType DEF Scans, StreamInv
<1> DEFINE o == Objects(fs)
<1>2. o \in Seq(Msg) /\ Split(Stream, o, Stream')
  BY <1>1, ScanPositions DEF Split
<1> HIDE DEF o
<1>3. /\ \E c \in Nat : Shift(Stream, Stream', c)
      /\ Of(o, fn) \subseteq Answers(Stream, fn)
      /\ Once(Stream, fn) => Single(o, fn) /\ (Of(o, fn) = {} \/ Answers(Stream', fn) = {})
  BY <1>0, <1>2, SplitOnce
<1>5. Fewer(fn)
  BY <1>3, ShiftFewer
<1>6. Unique(reqs, Stream, fn) =>
        Single(o, fn) /\ (Of(o, fn) # {} => Of(reqs', fn) = {} /\ Answers(Stream', fn) = {})
  BY <1>3 DEF Unique
<1> QED BY <1>2, <1>3, <1>5, <1>6 DEF o
-----------------------------------------------------------------------------
(* The frames of a stack.  A synchronous call that waits is on top, and    *)
(* the socket is connected then.                                           *)
FramesIn(s) == {s[i] : i \in DOMAIN s}
SyncWait(f) == f.op \in {"get", "sub"} /\ f.pc = "wait"
NoWait(s) == \A f \in FramesIn(s) : ~SyncWait(f)
WaitInv == stk # <<>> => NoWait(Below) /\ (SyncWait(Head(stk)) => sock = "connected")

LEMMA FramesPush ==
    ASSUME NEW f \in Frame, NEW s \in Seq(Frame)
    PROVE  /\ Push(f, s) \in Seq(Frame) /\ Push(f, s) # <<>>
           /\ Head(Push(f, s)) = f /\ Tail(Push(f, s)) = s
           /\ FramesIn(Push(f, s)) = {f} \union FramesIn(s)
<1> DEFINE p == Push(f, s)
<1>1. Len(s) \in Nat /\ DOMAIN s = 1..Len(s)
  BY LenProperties
<1>2. /\ p \in Seq(Frame) /\ DOMAIN p = 1..(Len(s) + 1) /\ p[1] = f
      /\ \A i \in 1..Len(s) : p[i + 1] = s[i]
  BY DEF Push
<1>3. p # <<>> /\ Head(p) = f /\ Tail(p) = s
  BY DEF Push
<1> HIDE DEF p
<1>4. ASSUME NEW i \in DOMAIN p PROVE i = 1 \/ (i - 1 \in DOMAIN s /\ p[i] = s[i - 1])
  <2>1. i = 1 \/ (i - 1 \in 1..Len(s) /\ (i - 1) + 1 = i)
    BY <1>1, <1>2
  <2> QED BY <1>1, <1>2, <2>1
<1>5. \A i \in DOMAIN s : i + 1 \in DOMAIN p /\ p[i + 1] = s[i]
  BY <1>1, <1>2
<1>6. 1 \in DOMAIN p
  BY <1>1, <1>2
<1>7. FramesIn(p) \subseteq {f} \union FramesIn(s)
  BY <1>2, <1>4 DEF FramesIn
<1>8. {f} \union FramesIn(s) \subseteq FramesIn(p)
  BY <1>2, <1>5, <1>6 DEF FramesIn
<1> QED BY <1>2, <1>3, <1>7, <1>8 DEF p

LEMMA FramesPop ==
    ASSUME NEW s \in Seq(Frame), s # <<>>
    PROVE  /\ Head(s) \in Frame /\ Tail(s) \in Seq(Frame)
           /\ FramesIn(s) = {Head(s)} \union FramesIn(Tail(s))
<1>1. Head(s) \in Frame /\ Tail(s) \in Seq(Frame)
  BY HeadTailProperties
<1>2. Push(Head(s), Tail(s)) = s
  BY DEF Push
<1> QED BY <1>1, <1>2, FramesPush

LEMMA FramesType ==
    ASSUME NEW s \in Seq(Frame)
    PROVE  FramesIn(s) \subseteq Frame /\ FramesIn(<<>>) = {}
<1>1. \A i \in DOMAIN s : s[i] \in Frame
  BY ElementOfSeq, LenProperties
<1> QED BY <1>1 DEF FramesIn

(* The answer to a ResetDevice changes that frame only.                    *)
Ended(f, ok) == IF f.op = "reset" THEN [f EXCEPT !.pc = "ret", !.ok = @ \/ ok] ELSE f

LEMMA FramesAnswered ==
    ASSUME NEW s \in Seq(Frame), NEW ok \in BOOLEAN
    PROVE  /\ Answered(s, ok) \in Seq(Frame)
           /\ FramesIn(Answered(s, ok)) = {Ended(f, ok) : f \in FramesIn(s)}
<1> DEFINE a == Answered(s, ok)
<1>1. DOMAIN a = DOMAIN s /\ \A i \in DOMAIN s : a[i] = Ended(s[i], ok)
  BY DEF Answered, Ended
<1>2. Len(s) \in Nat /\ DOMAIN s = 1..Len(s)
  BY LenProperties
<1>3. \A i \in DOMAIN s : Ended(s[i], ok) \in Frame
  <2> TAKE i \in DOMAIN s
  <2>1. s[i] \in Frame
    BY ElementOfSeq, LenProperties
  <2>2. (s[i].ok \/ ok) \in BOOLEAN /\ "ret" \in Pc
    BY DEF Pc
  <2> QED BY <2>1, <2>2 DEF Ended, Frame
<1>4. a \in Seq(Frame)
  <2>1. a = [i \in 1..Len(s) |-> Ended(s[i], ok)]
    BY <1>2 DEF Answered, Ended
  <2> HIDE DEF a
  <2> QED BY <1>2, <1>3, <2>1
<1> HIDE DEF a
<1>5. FramesIn(a) = {Ended(f, ok) : f \in FramesIn(s)}
  BY <1>1 DEF FramesIn
<1> QED BY <1>4, <1>5 DEF a

(* A SubscribeDeviceEvent that will report a failure, and the types a      *)
(* refresh has still to subscribe to.                                      *)
Doomed(f) == f.op = "sub" /\ f.pc # "wait" /\ ~f.ok /\ ~HasAnswer("sub", f.raw)
Duty(f, t) == f.op = "refresh" /\ f.pc = "run" /\ \E j \in DOMAIN f.todo : f.todo[j] = t
SubShape(f) == f.op = "sub" => 1 \in DOMAIN f.todo /\ (f.pc = "wait" => ~f.ok)

(* A GetDeviceinfo directly above a refresh is the one that refresh made.  *)
OwnGet(s) == \A i \in DOMAIN s : i + 1 \in DOMAIN s /\ s[i].op = "get" /\ s[i + 1].op = "refresh" =>
                                   s[i + 1].pc # "run"
MayStandOn(f, s) == f.op = "get" /\ s # <<>> /\ Head(s).op = "refresh" => Head(s).pc # "run"

LEMMA OwnGetPush ==
    ASSUME NEW f \in Frame, NEW s \in Seq(Frame)
    PROVE  OwnGet(Push(f, s)) <=> OwnGet(s) /\ MayStandOn(f, s)
<1> DEFINE p == Push(f, s)
<1>1. Len(s) \in Nat /\ DOMAIN s = 1..Len(s)
  BY LenProperties
<1>2. /\ p \in Seq(Frame) /\ DOMAIN p = 1..(Len(s) + 1) /\ p[1] = f
      /\ \A i \in 1..Len(s) : p[i + 1] = s[i]
  BY DEF Push
<1> HIDE DEF p
<1>3. s # <<>> => 1 \in DOMAIN s /\ Head(s) = s[1]
  OBVIOUS
<1>4. s = <<>> => Len(s) = 0
  OBVIOUS
<1>5. ASSUME OwnGet(p) PROVE OwnGet(s)
  <2> SUFFICES ASSUME NEW i \in DOMAIN s, i + 1 \in DOMAIN s, s[i].op = "get", s[i + 1].op = "refresh"
               PROVE  s[i + 1].pc # "run"
    BY DEF OwnGet
  <2>1. i + 1 \in DOMAIN p /\ (i + 1) + 1 \in DOMAIN p /\ p[i + 1] = s[i] /\ p[(i + 1) + 1] = s[i + 1]
    BY <1>1, <1>2
  <2> QED BY <1>5, <2>1 DEF OwnGet
<1>6. ASSUME OwnGet(p) PROVE MayStandOn(f, s)
  <2> SUFFICES ASSUME f.op = "get", s # <<>>, Head(s).op = "refresh" PROVE Head(s).pc # "run"
    BY DEF MayStandOn
  <2>1. 1 \in DOMAIN p /\ 1 + 1 \in DOMAIN p /\ p[1 + 1] = Head(s)
    BY <1>1, <1>2, <1>3
  <2> QED BY <1>2, <1>6, <2>1 DEF OwnGet
<1>7. ASSUME OwnGet(s), MayStandOn(f, s) PROVE OwnGet(p)
  <2> SUFFICES ASSUME NEW i \in DOMAIN p, i + 1 \in DOMAIN p, p[i].op = "get", p[i + 1].op = "refresh"
               PROVE  p[i + 1].pc # "run"
    BY DEF OwnGet
  <2>1. CASE i = 1
    <3>1. s # <<>> /\ p[i + 1] = Head(s)
      BY <1>1, <1>2, <1>3, <1>4, <2>1
    <3> QED BY <1>2, <1>7, <2>1, <3>1 DEF MayStandOn
  <2>2. CASE i # 1
    <3> DEFINE j == i - 1
    <3>1. j \in DOMAIN s /\ j + 1 \in DOMAIN s /\ j + 1 = i /\ p[i] = s[j] /\ p[i + 1] = s[j + 1]
      BY <1>1, <1>2, <2>2
    <3> HIDE DEF j
    <3> QED BY <1>7, <3>1 DEF OwnGet
  <2> QED BY <2>1, <2>2
<1> QED BY <1>5, <1>6, <1>7 DEF p

(* The calls of stack s that concern the registrations go on in stack t,   *)
(* and none starts to wait.                                                *)
Steady(s, t, types) ==
    /\ NoWait(s) => NoWait(t)
    /\ OwnGet(s) => OwnGet(t)
    /\ (\A f \in FramesIn(s) : SubShape(f)) => \A f \in FramesIn(t) : SubShape(f)
    /\ (\E f \in FramesIn(s) : Doomed(f)) => \E f \in FramesIn(t) : Doomed(f)
    /\ \A x \in types : (\E f \in FramesIn(s) : Duty(f, x)) => \E f \in FramesIn(t) : Duty(f, x)

(* Frames that have no part in this, and a frame that takes another's      *)
(* place.                                                                  *)
Inert(f) == f.op \notin {"sub", "refresh"} /\ ~SyncWait(f)
Follows(f, g, types) ==
    /\ ~SyncWait(g)
    /\ g.op = "sub" => (SubShape(f) => SubShape(g))
    /\ g.op # "get" \/ f.op = "get"
    /\ Doomed(f) => Doomed(g)
    /\ \A x \in types : Duty(f, x) => Duty(g, x)

LEMMA InertFrame ==
    ASSUME NEW f, Inert(f)
    PROVE  ~SyncWait(f) /\ ~Doomed(f) /\ SubShape(f) /\ \A x : ~Duty(f, x)
  BY DEF Inert, Doomed, SubShape, Duty

LEMMA SteadySame == \A s, types : Steady(s, s, types)
  BY DEF Steady

LEMMA SteadyTrans ==
    ASSUME NEW s, NEW t, NEW u, NEW types, Steady(s, t, types), Steady(t, u, types)
    PROVE  Steady(s, u, types)
  BY DEF Steady

LEMMA SteadyPush ==
    ASSUME NEW s \in Seq(Frame), NEW f \in Frame, Inert(f), MayStandOn(f, s), NEW types
    PROVE  Steady(s, Push(f, s), types)
<1>1. FramesIn(Push(f, s)) = {f} \union FramesIn(s)
  BY FramesPush
<1>2. ~SyncWait(f) /\ SubShape(f)
  BY InertFrame
<1>3. OwnGet(s) => OwnGet(Push(f, s))
  BY OwnGetPush
<1> QED BY <1>1, <1>2, <1>3 DEF Steady, NoWait

LEMMA SteadyPop ==
    ASSUME NEW s \in Seq(Frame), s # <<>>, NEW types,
           Inert(Head(s)) \/ (~Doomed(Head(s)) /\ \A x \in types : ~Duty(Head(s), x))
    PROVE  Steady(s, Tail(s), types)
<1>1. FramesIn(s) = {Head(s)} \union FramesIn(Tail(s)) /\ Head(s) \in Frame /\ Tail(s) \in Seq(Frame)
  BY FramesPop
<1>2. ~Doomed(Head(s)) /\ \A x \in types : ~Duty(Head(s), x)
  BY InertFrame
<1>3. OwnGet(s) => OwnGet(Tail(s))
  <2>1. Push(Head(s), Tail(s)) = s
    BY DEF Push
  <2> QED BY <1>1, <2>1, OwnGetPush
<1> QED BY <1>1, <1>2, <1>3 DEF Steady, NoWait

LEMMA SteadyTop ==
    ASSUME NEW s \in Seq(Frame), s # <<>>, NEW g \in Frame, NEW types, Follows(Head(s), g, types)
    PROVE  Steady(s, Push(g, Tail(s)), types)
<1>1. FramesIn(s) = {Head(s)} \union FramesIn(Tail(s)) /\ Tail(s) \in Seq(Frame)
  BY FramesPop
<1>2. FramesIn(Push(g, Tail(s))) = {g} \union FramesIn(Tail(s))
  BY <1>1, FramesPush
<1>3. /\ ~SyncWait(g) /\ (SubShape(Head(s)) => SubShape(g)) /\ (Doomed(Head(s)) => Doomed(g))
      /\ \A x \in types : Duty(Head(s), x) => Duty(g, x)
  BY DEF Follows, SubShape
<1>4. OwnGet(s) => OwnGet(Push(g, Tail(s)))
  <2>1. Push(Head(s), Tail(s)) = s /\ Head(s) \in Frame
    BY FramesPop DEF Push
  <2>2. OwnGet(s) => OwnGet(Tail(s)) /\ MayStandOn(Head(s), Tail(s))
    BY <1>1, <2>1, OwnGetPush
  <2>3. MayStandOn(Head(s), Tail(s)) => MayStandOn(g, Tail(s))
    BY DEF MayStandOn, Follows
  <2> QED BY <1>1, <2>2, <2>3, OwnGetPush
<1> QED BY <1>1, <1>2, <1>3, <1>4 DEF Steady, NoWait

LEMMA SteadyAnswered ==
    ASSUME NEW s \in Seq(Frame), NEW ok \in BOOLEAN, NEW types
    PROVE  Steady(s, Answered(s, ok), types)
<1>1. FramesIn(Answered(s, ok)) = {Ended(f, ok) : f \in FramesIn(s)}
  BY FramesAnswered
<1>2. ASSUME NEW f \in FramesIn(s)
      PROVE  /\ SyncWait(Ended(f, ok)) => SyncWait(f)
             /\ SubShape(f) => SubShape(Ended(f, ok))
             /\ Doomed(f) => Doomed(Ended(f, ok))
             /\ \A x : Duty(f, x) => Duty(Ended(f, ok), x)
  <2>1. f \in Frame
    BY FramesType
  <2>2. CASE f.op # "reset"
    <3>1. Ended(f, ok) = f
      BY <2>2 DEF Ended
    <3> QED BY <3>1
  <2>3. CASE f.op = "reset"
    <3>1. Ended(f, ok).op = "reset"
      BY <2>1, <2>3 DEF Ended, Frame
    <3> QED BY <2>3, <3>1 DEF SyncWait, SubShape, Doomed, Duty
  <2> QED BY <2>2, <2>3
<1>3. OwnGet(s) => OwnGet(Answered(s, ok))
  <2> DEFINE a == Answered(s, ok)
  <2>1. DOMAIN a = DOMAIN s
    BY DEF Answered
  <2>2. \A i \in DOMAIN s : a[i].op = s[i].op /\ (s[i].op # "reset" => a[i] = s[i])
    <3> TAKE i \in DOMAIN s
    <3>1. s[i] \in Frame
      BY ElementOfSeq, LenProperties
    <3>2. a[i] = Ended(s[i], ok)
      BY DEF Answered, Ended
    <3> HIDE DEF a
    <3> QED BY <3>1, <3>2 DEF Ended, Frame
  <2> HIDE DEF a
  <2>3. OwnGet(s) => OwnGet(a)
    BY <2>1, <2>2 DEF OwnGet
  <2> QED BY <2>3 DEF a
<1> HIDE DEF Ended
<1> QED BY <1>1, <1>2, <1>3 DEF Steady, NoWait
-----------------------------------------------------------------------------
(* The requests under way.  A registration that counts: none was refused   *)
(* on this connection, and no SubscribeDeviceEvent is about to report a    *)
(* failure.  A type is asked for while its SubscribeDeviceEvent waits, and *)
(* covered while a refresh has it still to do.                             *)
Tame == h.refused = {} /\ \A f \in FramesIn(stk) : ~Doomed(f)
Asked(t) == Running("sub", "wait") /\ Head(stk).todo[1] = t
Covered(t) == \E f \in FramesIn(stk) : Duty(f, t)
Awaited(m) == Running("get", "wait") /\ Head(stk).rid = m.rid

(* A GetDeviceinfo that waits is the only one with a request or an answer  *)
(* on the wire, unless one has expired on this connection.                 *)
GetWire == /\ Unique(reqs, Stream, "get")
           /\ \A m \in Of(reqs, "get") \union Answers(Stream, "get") : Awaited(m)
           /\ Running("get", "wait") => Of(Head(stk).raw, "get") = {}
GetInv == ~h.wrong /\ (sock = "connected" /\ ~h.expired => GetWire)

(* The same for SubscribeDeviceEvent; and every type with a callback is    *)
(* registered, asked for or covered.                                       *)
SubWire == /\ Unique(reqs, Stream, "event")
           /\ \A m \in Of(reqs, "event") : Asked(m.t)
           /\ \A m \in Answers(Stream, "event") : Asked(m.t) /\ (conn /\ m.ok => m.t \in subs)
           /\ Running("sub", "wait") => ~HasAnswer("sub", Head(stk).raw)
           /\ conn => \A t \in func : t \in subs \/ Asked(t) \/ Covered(t)
SubInv == /\ sock = "connected" => open
          /\ \A f \in FramesIn(stk) : SubShape(f)
          /\ OwnGet(stk)
          /\ sock = "connected" /\ Tame => SubWire

AskInv == WaitInv /\ GetInv /\ SubInv

LEMMA TopWait ==
    ASSUME TypeOK, WaitInv
    PROVE  /\ NoWait(stk) <=> ~Syncing
           /\ NoWait(stk) => \A t, m : ~Asked(t) /\ ~Awaited(m)
           /\ stk # <<>> => /\ Head(stk) \in Frame /\ Below \in Seq(Frame)
                            /\ FramesIn(stk) = {Head(stk)} \union FramesIn(Below)
<1>0. stk \in Seq(Frame)
  BY StreamTypes
<1>1. stk # <<>> => /\ Head(stk) \in Frame /\ Below \in Seq(Frame)
                    /\ FramesIn(stk) = {Head(stk)} \union FramesIn(Below)
  BY <1>0, FramesPop DEF Below
<1>2. stk = <<>> => FramesIn(stk) = {}
  BY FramesType, <1>0
<1>3. Syncing <=> stk # <<>> /\ SyncWait(Head(stk))
  BY DEF Syncing, Running, SyncWait
<1>4. stk # <<>> => NoWait(Below)
  BY DEF WaitInv
<1>5. NoWait(stk) <=> ~Syncing
  BY <1>1, <1>2, <1>3, <1>4 DEF NoWait
<1>6. ~Syncing => \A t, m : ~Asked(t) /\ ~Awaited(m)
  BY DEF Syncing, Asked, Awaited
<1> QED BY <1>1, <1>5, <1>6

(* What the stack becomes when nothing waits, now or next.                 *)
Settled == /\ NoWait(stk) /\ NoWait(stk')
           /\ \A f \in FramesIn(stk') : SubShape(f)
           /\ OwnGet(stk')
           /\ Tame' => Tame /\ \A t \in func : Covered(t) => Covered(t)'

LEMMA SteadySettled ==
    ASSUME AskInv, NoWait(stk), Steady(stk, stk', func), h'.refused = h.refused
    PROVE  Settled
<1>1. (\A f \in FramesIn(stk) : SubShape(f)) /\ OwnGet(stk)
  BY DEF AskInv, SubInv
<1>2. /\ NoWait(stk') /\ OwnGet(stk') /\ \A f \in FramesIn(stk') : SubShape(f)
      /\ (\E f \in FramesIn(stk) : Doomed(f)) => \E f \in FramesIn(stk') : Doomed(f)
      /\ \A x \in func : (\E f \in FramesIn(stk) : Duty(f, x)) => \E f \in FramesIn(stk') : Duty(f, x)
  BY <1>1 DEF Steady
<1>3. Tame' => Tame
  BY <1>2 DEF Tame
<1>4. \A t \in func : Covered(t) => Covered(t)'
  BY <1>2 DEF Covered
<1> QED BY <1>2, <1>3, <1>4 DEF Settled

(* The connection is lost, or stays as it is with less on the wire.        *)
Idles == \/ sock' # "connected"
         \/ /\ sock = "connected" /\ open' = open
            /\ h'.expired \/ (h'.expired = h.expired /\ Fewer("get"))
            /\ ~Tame' \/ (UNCHANGED <<func, conn, subs>> /\ Fewer("event"))

LEMMA NextSettled ==
    ASSUME TypeOK', NoWait(stk')
    PROVE  WaitInv' /\ ~Syncing' /\ ~Running("get", "wait")' /\ ~Running("sub", "wait")'
           /\ \A t : ~Asked(t)'
<1>0. stk' \in Seq(Frame)
  BY DEF TypeOK
<1>1. stk' # <<>> => FramesIn(stk') = {Head(stk')} \union FramesIn(Tail(stk'))
  BY <1>0, FramesPop
<1>2. stk' # <<>> => NoWait(Tail(stk')) /\ ~SyncWait(Head(stk'))
  BY <1>1 DEF NoWait
<1>3. WaitInv'
  BY <1>2 DEF WaitInv, Below
<1>4. ~Running("get", "wait")' /\ ~Running("sub", "wait")'
  BY <1>2 DEF Running, SyncWait
<1> QED BY <1>3, <1>4 DEF Syncing, Asked

LEMMA StillAsk ==
    ASSUME TypeOK, TypeOK', AskInv, Settled, h'.wrong = h.wrong, Idles
    PROVE  AskInv'
<1>1. WaitInv' /\ ~Running("get", "wait")' /\ ~Running("sub", "wait")' /\ \A t : ~Asked(t)'
  BY NextSettled DEF Settled
<1>2. \A t, m : ~Asked(t) /\ ~Awaited(m)
  BY TopWait DEF AskInv, Settled
<1>3. GetInv'
  <2>1. CASE sock' # "connected"
    BY <2>1 DEF GetInv, AskInv
  <2>2. CASE sock' = "connected" /\ ~h'.expired
    <3>1. GetWire /\ Fewer("get")
      BY <2>2 DEF Idles, AskInv, GetInv
    <3>2. Of(reqs, "get") = {} /\ Answers(Stream, "get") = {} /\ Unique(reqs, Stream, "get")
      BY <1>2, <3>1 DEF GetWire
    <3>3. Unique(reqs', Stream', "get") /\ Of(reqs', "get") = {} /\ Answers(Stream', "get") = {}
      BY <3>1, <3>2 DEF Fewer
    <3>4. GetWire'
      BY <1>1, <3>3 DEF GetWire
    <3> QED BY <3>4 DEF GetInv, AskInv
  <2>3. CASE h'.expired
    BY <2>3 DEF GetInv, AskInv
  <2> QED BY <2>1, <2>2, <2>3
<1>4. SubInv'
  <2>1. sock' = "connected" => open'
    BY DEF Idles, AskInv, SubInv
  <2>2. ASSUME sock' = "connected", Tame' PROVE SubWire'
    <3>1. SubWire /\ Fewer("event") /\ UNCHANGED <<func, conn, subs>>
      BY <2>2 DEF Idles, Settled, AskInv, SubInv
    <3>2. Of(reqs, "event") = {} /\ Answers(Stream, "event") = {} /\ Unique(reqs, Stream, "event")
      BY <1>2, <3>1 DEF SubWire
    <3>3. Unique(reqs', Stream', "event") /\ Of(reqs', "event") = {} /\ Answers(Stream', "event") = {}
      BY <3>1, <3>2 DEF Fewer
    <3>4. conn' => \A t \in func' : t \in subs' \/ Covered(t)'
      BY <1>2, <2>2, <3>1 DEF SubWire, Settled
    <3> QED BY <1>1, <3>3, <3>4 DEF SubWire
  <2> QED BY <2>1, <2>2 DEF SubInv, Settled
<1> QED BY <1>1, <1>3, <1>4 DEF AskInv

(* Steps of the service and of nobody: the stack stays.                    *)
FramesKept == /\ UNCHANGED <<sock, open, func, stk>> /\ h'.wrong = h.wrong
         /\ h'.expired = h.expired /\ h'.refused = h.refused

LEMMA SameFrames ==
    ASSUME FramesKept
    PROVE  /\ (WaitInv => WaitInv') /\ (Running("get", "wait")' <=> Running("get", "wait"))
           /\ (Running("sub", "wait")' <=> Running("sub", "wait")) /\ Head(stk)' = Head(stk)
           /\ (Tame' <=> Tame) /\ (OwnGet(stk) => OwnGet(stk)')
           /\ \A t : (Asked(t)' <=> Asked(t)) /\ (Covered(t)' <=> Covered(t))
  BY DEF FramesKept, WaitInv, Below, Running, Tame, Asked, Covered

LEMMA GetSame ==
    ASSUME AskInv, FramesKept, Fewer("get")
    PROVE  GetInv'
<1>1. ASSUME sock' = "connected", ~h'.expired PROVE GetWire'
  <2>1. GetWire
    BY <1>1 DEF AskInv, GetInv, FramesKept
  <2>2. Unique(reqs', Stream', "get")
    BY <2>1 DEF GetWire, Fewer
  <2>3. \A m \in Of(reqs', "get") \union Answers(Stream', "get") : Awaited(m)
    BY <2>1 DEF GetWire, Fewer
  <2>4. \A m \in Of(reqs', "get") \union Answers(Stream', "get") : Running("get", "wait") /\ Head(stk).rid = m.rid
    BY <2>3 DEF Awaited
  <2> QED BY <2>1, <2>2, <2>4, SameFrames DEF GetWire, Awaited
<1> QED BY <1>1 DEF GetInv, AskInv, FramesKept

LEMMA SubSame ==
    ASSUME AskInv, FramesKept, Fewer("event"), conn' => conn, conn' => subs \subseteq subs'
    PROVE  SubInv'
<1>1. ASSUME sock' = "connected", Tame' PROVE SubWire'
  <2>1. SubWire
    BY <1>1, SameFrames DEF AskInv, SubInv, FramesKept
  <2>2. Unique(reqs', Stream', "event") /\ \A m \in Of(reqs', "event") : Asked(m.t)
    BY <2>1 DEF SubWire, Fewer
  <2>3. \A m \in Answers(Stream', "event") : Asked(m.t) /\ (conn' /\ m.ok => m.t \in subs')
    BY <2>1 DEF SubWire, Fewer
  <2>4. conn' => \A t \in func' : t \in subs' \/ Asked(t) \/ Covered(t)
    BY <2>1 DEF SubWire, FramesKept
  <2> QED BY <2>1, <2>2, <2>3, <2>4, SameFrames DEF SubWire
<1>2. (sock' = "connected" => open') /\ (\A f \in FramesIn(stk') : SubShape(f)) /\ OwnGet(stk)'
  BY SameFrames DEF AskInv, SubInv, FramesKept
<1> QED BY <1>1, <1>2 DEF SubInv

LEMMA StayFewer ==
    ASSUME Stream' = Stream, reqs' = reqs, NEW fn
    PROVE  Fewer(fn)
  BY DEF Fewer

LEMMA TailFewer ==
    ASSUME TypeOK, Stream' = Stream, reqs # <<>>, reqs' = Tail(reqs), NEW fn
    PROVE  Fewer(fn)
<1>1. reqs \in Seq(Req)
  BY DEF TypeOK
<1>2. (Single(reqs, fn) => Single(reqs', fn)) /\ Of(reqs', fn) \subseteq Of(reqs, fn)
  BY <1>1, TailOf
<1> QED BY <1>2 DEF Fewer, Unique

LEMMA ClientFewer ==
    ASSUME TypeOK, TypeOK', StreamInv, ClientMove, reqs' = reqs \/ reqs' = <<>>, NEW fn
    PROVE  Fewer(fn)
<1>1. \/ KeepsStream \/ Empties \/ DropsBuffer \/ DropsUnread
      \/ \E fs, rest \in Seq(Frag) : Scans(fs, rest)
  <2>1. Reads => KeepsStream \/ \E fs, rest \in Seq(Frag) : Scans(fs, rest)
    <3>1. OnReadyRead => KeepsStream \/ \E fs, rest \in Seq(Frag) : Scans(fs, rest)
      BY ReadyReadStream
    <3>2. SyncRead => \E fs, rest \in Seq(Frag) : Scans(fs, rest)
      BY SyncReadStream
    <3>3. DrainSocketMessages => \E fs, rest \in Seq(Frag) : Scans(fs, rest)
      BY DrainStream, StreamTypes
    <3> QED BY <3>1, <3>2, <3>3 DEF Reads
  <2> QED BY <2>1 DEF ClientMove
<1>2. PICK c \in Nat : Shift(Stream, Stream', c)
  BY <1>1, ShiftSteps
<1> QED BY <1>2, ShiftFewer

LEMMA AnswerAsk ==
    ASSUME TypeOK, AskInv, SrvAnswer
    PROVE  AskInv'
<1>0. reqs \in Seq(Req) /\ ver \in Nat /\ present \in BOOLEAN
  BY DEF TypeOK
<1>1. PICK ok \in BOOLEAN :
        /\ net' = net \o Frags([fn |-> Head(reqs).fn, t |-> Head(reqs).t, ok |-> ok, gone |-> ~present,
                                n |-> ver, rid |-> Head(reqs).rid])
        /\ subs' = IF ok /\ Head(reqs).fn = "event" THEN subs \union {Head(reqs).t} ELSE subs
  BY DEF SrvAnswer
<1> DEFINE r == Head(reqs)
           m == [fn |-> Head(reqs).fn, t |-> Head(reqs).t, ok |-> ok, gone |-> ~present,
                 n |-> ver, rid |-> Head(reqs).rid]
<1>2. conn /\ reqs # <<>> /\ reqs' = Tail(reqs) /\ UNCHANGED <<conn, h, rx, buf, sock, open, func, stk>>
  BY DEF SrvAnswer, SrvUnchanged, client, link
<1>3. r \in Req
  BY <1>0, <1>2
<1>4. m \in Msg /\ m.fn # "ind" /\ m.fn = r.fn /\ m.rid = r.rid /\ m.t = r.t /\ m.ok = ok
  BY <1>0, <1>3 DEF Msg, Req
<1>5. net' = net \o Frags(m)
  BY <1>1
<1>6. subs \subseteq subs' /\ (m.ok /\ m.fn = "event" => m.t \in subs')
  BY <1>1, <1>4
<1> HIDE DEF m
<1>7. Grows(m)
  BY <1>2, <1>4, <1>5, GrowStream
<1>8. FramesKept
  BY <1>2 DEF FramesKept
<1>9. WaitInv'
  BY <1>8, SameFrames DEF AskInv
<1>10. GetInv'
  <2>1. CASE m.fn # "get"
    <3>1. Fewer("get")
      BY <1>2, <1>4, <1>7, <2>1, GrowFewer
    <3> QED BY <1>8, <3>1, GetSame
  <2>2. CASE m.fn = "get"
    <3>1. ASSUME sock' = "connected", ~h'.expired PROVE GetWire'
      <4>1. GetWire
        BY <1>8, <3>1 DEF AskInv, GetInv, FramesKept
      <4>2. /\ Unique(reqs', Stream', "get") /\ r \in Of(reqs, "get")
            /\ Of(reqs', "get") = {} /\ Answers(Stream', "get") = {m}
        BY <1>2, <1>4, <1>7, <2>2, <4>1, GrowUnique DEF GetWire
      <4>3. Running("get", "wait") /\ Head(stk).rid = m.rid
        BY <1>4, <4>1, <4>2 DEF GetWire, Awaited
      <4> QED BY <1>8, <4>1, <4>2, <4>3, SameFrames DEF GetWire, Awaited
    <3> QED BY <1>8, <3>1 DEF GetInv, AskInv, FramesKept
  <2> QED BY <2>1, <2>2
<1>11. SubInv'
  <2>1. CASE m.fn # "event"
    <3>1. Fewer("event")
      BY <1>2, <1>4, <1>7, <2>1, GrowFewer
    <3> QED BY <1>2, <1>6, <1>8, <3>1, SubSame
  <2>2. CASE m.fn = "event"
    <3>1. ASSUME sock' = "connected", Tame' PROVE SubWire'
      <4>1. SubWire
        BY <1>8, <3>1, SameFrames DEF AskInv, SubInv, FramesKept
      <4>2. /\ Unique(reqs', Stream', "event") /\ r \in Of(reqs, "event")
            /\ Of(reqs', "event") = {} /\ Answers(Stream', "event") = {m}
        BY <1>2, <1>4, <1>7, <2>2, <4>1, GrowUnique DEF SubWire
      <4>3. Asked(m.t) /\ (m.ok => m.t \in subs')
        BY <1>4, <1>6, <2>2, <4>1, <4>2 DEF SubWire
      <4>4. conn' => \A t \in func' : t \in subs' \/ Asked(t) \/ Covered(t)
        BY <1>2, <1>6, <4>1 DEF SubWire
      <4> QED BY <1>8, <4>1, <4>2, <4>3, <4>4, SameFrames DEF SubWire
    <3>2. (sock' = "connected" => open') /\ (\A f \in FramesIn(stk') : SubShape(f)) /\ OwnGet(stk)'
      BY <1>8, SameFrames DEF AskInv, SubInv, FramesKept
    <3> QED BY <3>1, <3>2 DEF SubInv
  <2> QED BY <2>1, <2>2
<1> QED BY <1>9, <1>10, <1>11 DEF AskInv

(* The other steps of the service write no answer.                         *)
LEMMA ServiceFewer ==
    ASSUME TypeOK, TypeOK', StreamInv, Service \/ UNCHANGED vars, ~SrvAnswer
    PROVE  /\ \A fn : fn # "ind" => Fewer(fn)
           /\ UNCHANGED <<rx, buf, sock, open, func, slot, stk>>
           /\ UNCHANGED <<conn, subs>> \/ conn' = FALSE
<1>0. h \in History
  BY StreamTypes
<1>1. UNCHANGED <<rx, buf, sock, open, func, slot, stk>>
  BY DEF Service, SrvIgnores, SrvCrash, SrvStart, SrvEvent, SrvUnchanged, vars, client, link, wire
<1>2. UNCHANGED <<conn, subs>> \/ conn' = FALSE
  BY DEF Service, SrvIgnores, SrvCrash, SrvStart, SrvEvent, vars, service
<1>3. CASE SrvCrash
  <2>1. PICK k \in 0..Len(net) : /\ net' = SubSeq(net, 1, k)
                                 /\ h' = [h EXCEPT !.lost = @ \union IndFrags(After(net, k))]
    BY <1>3 DEF SrvCrash
  <2>2. h'.lost = h.lost \union IndFrags(After(net, k)) /\ h'.sent = h.sent
        /\ ~conn' /\ reqs' = <<>>
    BY <1>0, <1>3, <2>1 DEF History, SrvCrash
  <2>3. Cuts(k)
    BY <1>1, <2>1, <2>2 DEF Cuts
  <2>4. PICK c \in Nat : Shift(Stream, Stream', c)
    BY <2>3, ShiftSteps
  <2>5. \A fn : Fewer(fn)
    BY <2>2, <2>4, ShiftFewer
  <2> QED BY <1>1, <1>2, <2>5
<1>4. ASSUME NEW t \in SignalType, SrvEvent(t), conn, t \in subs, NEW fn, fn # "ind" PROVE Fewer(fn)
  <2> DEFINE m == [fn |-> "ind", t |-> t, ok |-> TRUE, gone |-> ~present', n |-> ver', rid |-> 0]
  <2>1. /\ ver' = ver + 1 /\ net' = net \o Frags(m) /\ h' = [h EXCEPT !.sent = @ \union {ver'}]
        /\ conn' = conn /\ present' \in BOOLEAN /\ ver \in Nat /\ reqs' = reqs
    BY <1>4 DEF SrvEvent, TypeOK
  <2>2. m \in Msg /\ m.fn = "ind" /\ m.n = ver'
    BY <2>1 DEF Msg
  <2> HIDE DEF m
  <2>3. h'.sent = h.sent \union {m.n} /\ h'.lost = h.lost
    BY <1>0, <2>1, <2>2 DEF History
  <2>4. Grows(m)
    BY <1>1, <1>4, <2>1, <2>2, <2>3, GrowStream
  <2> QED BY <1>4, <2>1, <2>2, <2>4, GrowFewer
<1>5. CASE UNCHANGED <<reqs, net>>
  <2>1. \A fn : Fewer(fn)
    BY <1>1, <1>5, StayFewer DEF Stream
  <2> QED BY <1>1, <1>2, <2>1
<1>6. CASE SrvIgnores
  <2>1. \A fn : Fewer(fn)
    BY <1>1, <1>6, TailFewer DEF SrvIgnores, Stream
  <2> QED BY <1>1, <1>2, <2>1
<1>7. \/ SrvCrash \/ SrvIgnores \/ (\E t \in SignalType : SrvEvent(t) /\ conn /\ t \in subs)
      \/ UNCHANGED <<reqs, net>>
  BY DEF Service, SrvStart, SrvEvent, vars, service, wire
<1> QED BY <1>1, <1>2, <1>3, <1>4, <1>5, <1>6, <1>7

LEMMA ServiceAsk ==
    ASSUME TypeOK, TypeOK', StreamInv, AskInv, Service \/ UNCHANGED vars
    PROVE  AskInv'
<1>0. h \in History
  BY StreamTypes
<1>1. CASE SrvAnswer
  BY <1>1, AnswerAsk
<1>2. CASE ~SrvAnswer
  <2>1. UNCHANGED <<sock, open, func, stk>> /\ (UNCHANGED <<conn, subs>> \/ conn' = FALSE)
    BY <1>2, ServiceFewer
  <2>2. h'.wrong = h.wrong /\ h'.expired = h.expired /\ h'.refused = h.refused
    BY <1>0, <1>2 DEF Service, SrvIgnores, SrvCrash, SrvStart, SrvEvent, vars, History
  <2>3. FramesKept
    BY <2>1, <2>2 DEF FramesKept
  <2>4. (conn' => conn) /\ (conn' => subs \subseteq subs')
    BY <2>1
  <2>5. Fewer("get") /\ Fewer("event")
    BY <1>2, ServiceFewer
  <2> QED BY <2>3, <2>4, <2>5, GetSame, SubSame, SameFrames DEF AskInv
<1> QED BY <1>1, <1>2
-----------------------------------------------------------------------------
(* The waits of the synchronous calls.                                     *)
LEMMA JoinOf ==
    ASSUME NEW a \in Seq(Msg), NEW b \in Seq(Msg), NEW fn
    PROVE  /\ a \o b \in Seq(Msg) /\ Of(a \o b, fn) = Of(a, fn) \union Of(b, fn)
           /\ Single(a, fn) /\ Single(b, fn) /\ (Of(a, fn) = {} \/ Of(b, fn) = {}) => Single(a \o b, fn)
<1> DEFINE c == a \o b
<1>1. Len(a) \in Nat /\ Len(b) \in Nat /\ DOMAIN a = 1..Len(a) /\ DOMAIN b = 1..Len(b)
  BY LenProperties
<1>2. /\ c \in Seq(Msg) /\ Len(c) = Len(a) + Len(b)
      /\ \A i \in 1..(Len(a) + Len(b)) : c[i] = IF i <= Len(a) THEN a[i] ELSE b[i - Len(a)]
  BY ConcatProperties
<1>3. DOMAIN c = 1..(Len(a) + Len(b))
  BY <1>2, LenProperties
<1> HIDE DEF c
<1>4. \A i \in DOMAIN a : i \in DOMAIN c /\ c[i] = a[i]
  BY <1>1, <1>2, <1>3
<1>5. \A i \in DOMAIN b : Len(a) + i \in DOMAIN c /\ c[Len(a) + i] = b[i]
  <2> TAKE i \in DOMAIN b
  <2>1. Len(a) + i \in 1..(Len(a) + Len(b)) /\ ~(Len(a) + i <= Len(a)) /\ (Len(a) + i) - Len(a) = i
    BY <1>1
  <2> QED BY <1>2, <1>3, <2>1
<1>6. \A i \in DOMAIN c : \/ i \in DOMAIN a /\ c[i] = a[i]
                          \/ i - Len(a) \in DOMAIN b /\ c[i] = b[i - Len(a)]
  <2> TAKE i \in DOMAIN c
  <2>1. i \in 1..(Len(a) + Len(b)) /\ (i <= Len(a) => i \in 1..Len(a))
        /\ (~(i <= Len(a)) => i - Len(a) \in 1..Len(b))
    BY <1>1, <1>3
  <2> QED BY <1>1, <1>2, <2>1
<1>7. Of(c, fn) = Of(a, fn) \union Of(b, fn)
  <2>1. ASSUME NEW x \in Of(c, fn) PROVE x \in Of(a, fn) \union Of(b, fn)
    <3>1. PICK i \in DOMAIN c : c[i].fn = fn /\ c[i] = x
      BY <2>1, OfMember
    <3> QED BY <1>6, <3>1, OfMember
  <2>2. ASSUME NEW x \in Of(a, fn) PROVE x \in Of(c, fn)
    <3>1. PICK i \in DOMAIN a : a[i].fn = fn /\ a[i] = x
      BY <2>2, OfMember
    <3> QED BY <1>4, <3>1, OfMember
  <2>3. ASSUME NEW x \in Of(b, fn) PROVE x \in Of(c, fn)
    <3>1. PICK i \in DOMAIN b : b[i].fn = fn /\ b[i] = x
      BY <2>3, OfMember
    <3> DEFINE j == Len(a) + i
    <3>2. j \in DOMAIN c /\ c[j] = b[i]
      BY <1>5
    <3> HIDE DEF j
    <3> QED BY <3>1, <3>2, OfMember
  <2> QED BY <2>1, <2>2, <2>3
<1>8. ASSUME Single(a, fn), Single(b, fn), Of(a, fn) = {} \/ Of(b, fn) = {},
             NEW i \in DOMAIN c, NEW j \in DOMAIN c, i < j, c[i].fn = fn, c[j].fn = fn
      PROVE  FALSE
  <2>1. CASE i \in DOMAIN a /\ c[i] = a[i] /\ j \in DOMAIN a /\ c[j] = a[j]
    BY <1>8, <2>1 DEF Single
  <2>2. CASE i - Len(a) \in DOMAIN b /\ c[i] = b[i - Len(a)] /\ j - Len(a) \in DOMAIN b
             /\ c[j] = b[j - Len(a)]
    <3>1. i - Len(a) < j - Len(a)
      BY <1>1, <1>3, <1>8
    <3> QED BY <1>8, <2>2, <3>1 DEF Single
  <2>3. CASE i \in DOMAIN a /\ c[i] = a[i] /\ j - Len(a) \in DOMAIN b /\ c[j] = b[j - Len(a)]
    <3> DEFINE k == j - Len(a)
    <3>1. k \in DOMAIN b /\ b[k].fn = fn /\ a[i].fn = fn
      BY <1>8, <2>3
    <3> HIDE DEF k
    <3>2. Of(a, fn) # {} /\ Of(b, fn) # {}
      BY <2>3, <3>1, OfMember
    <3> QED BY <1>8, <3>2
  <2>4. CASE j \in DOMAIN a /\ i - Len(a) \in DOMAIN b
    BY <1>1, <1>3, <1>8, <2>4
  <2> QED BY <1>6, <2>1, <2>2, <2>3, <2>4
<1>9. Single(a, fn) /\ Single(b, fn) /\ (Of(a, fn) = {} \/ Of(b, fn) = {}) => Single(c, fn)
  BY <1>8 DEF Single
<1> QED BY <1>2, <1>7, <1>9 DEF c

LEMMA AnswerOf ==
    ASSUME NEW q
    PROVE  /\ HasAnswer("get", q) <=> Of(q, "get") # {}
           /\ HasAnswer("sub", q) <=> \E m \in Of(q, "event") : m.ok
<1>1. HasAnswer("get", q) <=> \E i \in DOMAIN q : q[i].fn = "get"
  BY DEF HasAnswer
<1>2. HasAnswer("sub", q) <=> \E i \in DOMAIN q : q[i].fn = "event" /\ q[i].ok
  BY DEF HasAnswer
<1>3. Of(q, "get") # {} <=> \E i \in DOMAIN q : q[i].fn = "get"
  BY DEF Of
<1>4. (\E m \in Of(q, "event") : m.ok) <=> \E i \in DOMAIN q : q[i].fn = "event" /\ q[i].ok
  BY DEF Of
<1> QED BY <1>1, <1>2, <1>3, <1>4

(* The call on top goes on, or ends its wait.                              *)
LEMMA WaitSwap ==
    ASSUME TypeOK, AskInv, Syncing, NEW g \in Frame, stk' = Top(g), g.op = Head(stk).op,
           g.todo = Head(stk).todo, g.ok = Head(stk).ok
    PROVE  /\ stk' # <<>> /\ Head(stk') = g /\ Tail(stk') = Below /\ NoWait(Below)
           /\ OwnGet(stk') /\ (\A f \in FramesIn(stk') : SubShape(f))
           /\ \A t : Covered(t)' <=> Covered(t)
           /\ Tame <=> h.refused = {} /\ \A f \in FramesIn(Below) : ~Doomed(f)
           /\ Tame' <=> h'.refused = {} /\ ~Doomed(g) /\ \A f \in FramesIn(Below) : ~Doomed(f)
           /\ Head(stk) \in Frame /\ Head(stk).op \in {"get", "sub"} /\ Head(stk).pc = "wait"
           /\ sock = "connected"
<1>1. stk # <<>> /\ Head(stk).op \in {"get", "sub"} /\ Head(stk).pc = "wait"
  BY DEF Syncing, Running
<1>2. Head(stk) \in Frame /\ Below \in Seq(Frame) /\ FramesIn(stk) = {Head(stk)} \union FramesIn(Below)
  BY <1>1, TopWait DEF AskInv
<1>3. /\ stk' # <<>> /\ Head(stk') = g /\ Tail(stk') = Below
      /\ FramesIn(stk') = {g} \union FramesIn(Below)
  BY <1>2, FramesPush DEF Top
<1>4. NoWait(Below) /\ sock = "connected"
  BY <1>1 DEF AskInv, WaitInv, SyncWait
<1>5. OwnGet(stk')
  <2>1. Push(Head(stk), Below) = stk
    <3>1. stk \in Seq(Frame)
      BY StreamTypes
    <3> QED BY <1>1, <3>1 DEF Push, Below
  <2>2. OwnGet(Below) /\ MayStandOn(Head(stk), Below)
    BY <1>2, <2>1, OwnGetPush DEF AskInv, SubInv
  <2>3. MayStandOn(g, Below)
    BY <2>2 DEF MayStandOn
  <2> QED BY <1>2, <2>2, <2>3, OwnGetPush DEF Top
<1>6. \A f \in FramesIn(stk') : SubShape(f)
  <2>1. \A f \in FramesIn(stk) : SubShape(f)
    BY DEF AskInv, SubInv
  <2>2. SubShape(g)
    BY <1>1, <1>2, <2>1 DEF SubShape
  <2> QED BY <1>2, <1>3, <2>1, <2>2
<1>7. ~Doomed(Head(stk)) /\ \A t : ~Duty(Head(stk), t) /\ ~Duty(g, t)
  BY <1>1 DEF Doomed, Duty
<1>8. \A t : Covered(t)' <=> Covered(t)
  BY <1>2, <1>3, <1>7 DEF Covered
<1>9. /\ Tame <=> h.refused = {} /\ \A f \in FramesIn(Below) : ~Doomed(f)
      /\ Tame' <=> h'.refused = {} /\ ~Doomed(g) /\ \A f \in FramesIn(Below) : ~Doomed(f)
  BY <1>2, <1>3, <1>7 DEF Tame
<1> QED BY <1>1, <1>2, <1>3, <1>4, <1>5, <1>6, <1>8, <1>9

LEMMA EndedWait ==
    ASSUME NEW f \in Frame, f.op \in {"get", "sub"}
    PROVE  /\ EndWait(f) \in Frame /\ EndWait(f).op = f.op /\ EndWait(f).todo = f.todo
           /\ EndWait(f).ok = f.ok /\ EndWait(f).raw = f.raw /\ EndWait(f).list = f.raw
           /\ EndWait(f).pc = (IF f.op = "get" THEN "ind" ELSE "left") /\ EndWait(f).rid = f.rid
  BY DEF EndWait, Frame, Pc

LEMMA GiveUpAsk ==
    ASSUME TypeOK, TypeOK', AskInv, SyncTimeout \/ SyncEof
    PROVE  AskInv'
<1> DEFINE f == Head(stk)
           g == EndWait(f)
<1>0. h \in History /\ stk \in Seq(Frame)
  BY StreamTypes
<1>1. Syncing /\ stk' = Top(g) /\ UNCHANGED <<func, rx, reqs, conn, subs, net, buf>>
  BY DEF SyncTimeout, SyncEof, service, wire
<1>2. stk # <<>> /\ f.op \in {"get", "sub"} /\ f.pc = "wait"
  BY <1>1 DEF Syncing, Running
<1>3. f \in Frame
  BY <1>0, <1>2
<1> HIDE DEF f
<1>4. /\ g \in Frame /\ g.op = f.op /\ g.todo = f.todo /\ g.ok = f.ok /\ g.raw = f.raw
      /\ g.pc = (IF f.op = "get" THEN "ind" ELSE "left")
  BY <1>2, <1>3, EndedWait
<1> HIDE DEF g
<1>5. /\ stk' # <<>> /\ Head(stk') = g /\ Tail(stk') = Below /\ NoWait(Below)
      /\ OwnGet(stk') /\ (\A k \in FramesIn(stk') : SubShape(k))
      /\ (\A t : Covered(t)' <=> Covered(t))
      /\ (Tame <=> h.refused = {} /\ \A k \in FramesIn(Below) : ~Doomed(k))
      /\ (Tame' <=> h'.refused = {} /\ ~Doomed(g) /\ \A k \in FramesIn(Below) : ~Doomed(k))
      /\ sock = "connected"
  BY <1>1, <1>4, WaitSwap DEF f
<1>6. ~Running("get", "wait")' /\ ~Running("sub", "wait")' /\ WaitInv'
  <2>1. ~SyncWait(g) /\ g.pc # "wait"
    BY <1>2, <1>4 DEF SyncWait
  <2> QED BY <1>5, <2>1 DEF Running, WaitInv, Below
<1>7. h'.wrong = h.wrong /\ h'.refused = h.refused
  BY <1>0 DEF SyncTimeout, SyncEof, History
<1>8. CASE SyncEof
  <2>1. sock' # "connected"
    BY <1>8 DEF SyncEof
  <2> QED BY <1>5, <1>6, <1>7, <2>1 DEF AskInv, GetInv, SubInv
<1>9. CASE SyncTimeout
  <2>1. sock' = sock /\ open' = open /\ h'.expired = (h.expired \/ f.op = "get")
    BY <1>0, <1>9 DEF SyncTimeout, link, History, f
  <2>2. Stream' = Stream
    BY <1>1 DEF Stream
  <2>3. CASE f.op = "get"
    <3>1. GetInv'
      BY <1>7, <2>1, <2>3 DEF AskInv, GetInv
    <3>2. \A t : ~Asked(t) /\ ~Asked(t)'
      BY <1>6, <2>3 DEF Asked, Running, f
    <3>3. ASSUME Tame' PROVE SubWire'
      <4>1. SubWire
        BY <1>5, <1>7, <3>3 DEF AskInv, SubInv
      <4> QED BY <1>1, <1>5, <1>6, <2>2, <3>2, <4>1 DEF SubWire
    <3>4. SubInv'
      BY <1>5, <2>1, <3>3 DEF AskInv, SubInv
    <3> QED BY <1>6, <3>1, <3>4 DEF AskInv
  <2>4. CASE f.op = "sub"
    <3>1. ~Tame'
      <4> SUFFICES ASSUME Tame' PROVE FALSE
        OBVIOUS
      <4>1. SubWire
        BY <1>5, <1>7 DEF AskInv, SubInv
      <4>2. ~HasAnswer("sub", f.raw)
        BY <1>2, <2>4, <4>1 DEF SubWire, Running, f
      <4>3. ~f.ok
        <5>1. f \in FramesIn(stk)
          BY <1>2, TopWait DEF AskInv, f
        <5> QED BY <1>2, <2>4, <5>1 DEF AskInv, SubInv, SubShape
      <4>4. Doomed(g)
        BY <1>4, <2>4, <4>2, <4>3 DEF Doomed
      <4> QED BY <1>5, <4>4
    <3>2. SubInv'
      BY <1>5, <2>1, <3>1 DEF AskInv, SubInv
    <3>3. ASSUME ~h'.expired PROVE GetWire'
      <4>1. GetWire
        BY <1>5, <2>1, <2>4, <3>3 DEF AskInv, GetInv
      <4>2. \A m : ~Awaited(m)
        BY <2>4 DEF Awaited, Running, f
      <4>3. Of(reqs, "get") = {} /\ Answers(Stream, "get") = {} /\ Unique(reqs, Stream, "get")
        BY <4>1, <4>2 DEF GetWire
      <4> QED BY <1>1, <1>6, <2>2, <4>3 DEF GetWire
    <3>4. GetInv'
      BY <1>7, <3>3 DEF AskInv, GetInv
    <3> QED BY <1>6, <3>2, <3>4 DEF AskInv
  <2> QED BY <1>2, <2>3, <2>4
<1> QED BY <1>8, <1>9

LEMMA ReadAsk ==
    ASSUME TypeOK, TypeOK', StreamInv, AskInv, SyncRead
    PROVE  AskInv'
<1> DEFINE f == Head(stk)
<1>0. h \in History /\ stk \in Seq(Frame)
  BY StreamTypes
<1>1. /\ Syncing /\ UNCHANGED <<sock, open, func, reqs, conn, subs>>
  BY DEF SyncRead, service, link
<1>2. stk # <<>> /\ f.op \in {"get", "sub"} /\ f.pc = "wait"
  BY <1>1 DEF Syncing, Running
<1>3. f \in Frame
  BY <1>0, <1>2
<1>4. PICK fs, rest \in Seq(Frag) :
        LET k == [f EXCEPT !.raw = @ \o Objects(fs)]
        IN  /\ Scans(fs, rest)
            /\ stk' = Top(IF HasAnswer(k.op, k.raw) THEN EndWait(k) ELSE k)
            /\ h' = [h EXCEPT !.wrong = @ \/ (k.op = "get" /\ ~h.expired /\ TakesOther(k))]
  BY SyncReadStream
<1> DEFINE o == Objects(fs)
           k == [f EXCEPT !.raw = @ \o o]
           g == IF HasAnswer(k.op, k.raw) THEN EndWait(k) ELSE k
<1>5. /\ stk' = Top(g) /\ h'.refused = h.refused /\ h'.expired = h.expired
      /\ h'.wrong = (h.wrong \/ (k.op = "get" /\ ~h.expired /\ TakesOther(k)))
  BY <1>0, <1>4 DEF History
<1>6. \A fn : /\ Fewer(fn) /\ o \in Seq(Msg) /\ Of(o, fn) \subseteq Answers(Stream, fn)
              /\ Unique(reqs, Stream, fn) => /\ Single(o, fn)
                                             /\ Of(o, fn) # {} => Of(reqs', fn) = {} /\ Answers(Stream', fn) = {}
  BY <1>1, <1>4, ScanUnique
<1> HIDE DEF o, f
<1>7. /\ k \in Frame /\ k.op = f.op /\ k.pc = "wait" /\ k.todo = f.todo /\ k.ok = f.ok /\ k.rid = f.rid
      /\ k.raw = f.raw \o o /\ f.raw \in Seq(Msg)
  <2>1. f.raw \in Seq(Msg) /\ o \in Seq(Msg)
    BY <1>3, <1>6 DEF Frame
  <2> DEFINE q == f.raw \o o
  <2>2. q \in Seq(Msg)
    BY <2>1, ConcatProperties
  <2>3. k = [f EXCEPT !.raw = q]
    OBVIOUS
  <2> HIDE DEF q, k
  <2>4. k \in Frame /\ k.raw = q
    BY <1>3, <2>2, <2>3 DEF Frame
  <2>5. k.op = f.op /\ k.pc = "wait" /\ k.todo = f.todo /\ k.ok = f.ok /\ k.rid = f.rid
    BY <1>2, <1>3, <2>3 DEF Frame
  <2> QED BY <2>1, <2>4, <2>5 DEF q
<1>8. \A fn : Of(k.raw, fn) = Of(f.raw, fn) \union Of(o, fn)
  BY <1>6, <1>7, JoinOf
<1> HIDE DEF k
<1>9. /\ g \in Frame /\ g.op = f.op /\ g.todo = f.todo /\ g.ok = f.ok /\ g.raw = k.raw
      /\ HasAnswer(f.op, k.raw) => g.pc = (IF f.op = "get" THEN "ind" ELSE "left")
      /\ ~HasAnswer(f.op, k.raw) => g.pc = "wait" /\ g.rid = f.rid
  BY <1>2, <1>7, EndedWait
<1> HIDE DEF g
<1>10. /\ stk' # <<>> /\ Head(stk') = g /\ Tail(stk') = Below /\ NoWait(Below)
       /\ OwnGet(stk') /\ (\A x \in FramesIn(stk') : SubShape(x))
       /\ (\A t : Covered(t)' <=> Covered(t))
       /\ (Tame <=> h.refused = {} /\ \A x \in FramesIn(Below) : ~Doomed(x))
       /\ (Tame' <=> h'.refused = {} /\ ~Doomed(g) /\ \A x \in FramesIn(Below) : ~Doomed(x))
       /\ sock = "connected"
  BY <1>1, <1>5, <1>9, WaitSwap DEF f
<1>11. Tame' => Tame
  BY <1>5, <1>10
<1>12. WaitInv'
  BY <1>1, <1>10 DEF WaitInv, Below
<1>13. (Running("get", "wait")' <=> f.op = "get" /\ ~HasAnswer("get", k.raw))
       /\ (Running("sub", "wait")' <=> f.op = "sub" /\ ~HasAnswer("sub", k.raw))
  BY <1>2, <1>9, <1>10 DEF Running
<1>14. (Running("get", "wait") <=> f.op = "get") /\ (Running("sub", "wait") <=> f.op = "sub")
  BY <1>2 DEF Running, f
<1>15. GetInv'
  <2>1. CASE h.expired
    BY <1>5, <2>1 DEF AskInv, GetInv
  <2>2. CASE ~h.expired
    <3>1. GetWire /\ ~h.wrong
      BY <1>10, <2>2 DEF AskInv, GetInv
    <3>2. /\ Unique(reqs', Stream', "get") /\ Of(reqs', "get") \subseteq Of(reqs, "get")
          /\ Answers(Stream', "get") \subseteq Answers(Stream, "get")
      BY <1>6, <3>1 DEF GetWire, Fewer
    <3>3. CASE f.op = "get"
      <4>1. Of(k.raw, "get") = Of(o, "get")
        BY <1>8, <1>14, <3>1, <3>3 DEF GetWire, f
      <4>2. \A m \in Answers(Stream, "get") \union Of(reqs, "get") : m.rid = f.rid
        BY <3>1 DEF GetWire, Awaited, f
      <4>3. ~TakesOther(k)
        <5> SUFFICES ASSUME NEW i \in DOMAIN k.raw, k.raw[i].fn = "get" PROVE k.raw[i].rid = k.rid
          BY DEF TakesOther, First, IsGetResp
        <5>1. k.raw[i] \in Of(k.raw, "get")
          BY OfMember
        <5> QED BY <1>6, <1>7, <4>1, <4>2, <5>1
      <4>4. CASE Of(o, "get") = {}
        <5>1. Running("get", "wait")' /\ g.rid = f.rid /\ Of(g.raw, "get") = {}
          BY <1>9, <1>13, <3>3, <4>1, <4>4, AnswerOf
        <5>2. \A m \in Of(reqs', "get") \union Answers(Stream', "get") : m.rid = g.rid
          BY <3>2, <4>2, <5>1
        <5>3. GetWire'
          BY <1>10, <3>2, <5>1, <5>2 DEF GetWire, Awaited
        <5> QED BY <1>5, <3>1, <4>3, <5>3 DEF GetInv
      <4>5. CASE Of(o, "get") # {}
        <5>1. ~Running("get", "wait")'
          BY <1>13, <4>1, <4>5, AnswerOf
        <5>2. Of(reqs', "get") = {} /\ Answers(Stream', "get") = {}
          BY <1>6, <3>1, <4>5 DEF GetWire
        <5>3. GetWire'
          BY <3>2, <5>1, <5>2 DEF GetWire
        <5> QED BY <1>5, <3>1, <4>3, <5>3 DEF GetInv
      <4> QED BY <4>4, <4>5
    <3>4. CASE f.op = "sub"
      <4>1. Of(reqs, "get") = {} /\ Answers(Stream, "get") = {}
        BY <1>14, <3>1, <3>4 DEF GetWire, Awaited
      <4>2. GetWire'
        BY <1>13, <3>2, <3>4, <4>1 DEF GetWire
      <4> QED BY <1>5, <1>7, <3>1, <3>4, <4>2 DEF GetInv
    <3> QED BY <1>2, <3>3, <3>4 DEF f
  <2> QED BY <2>1, <2>2
<1>16. ASSUME Tame' PROVE SubWire'
  <2>1. SubWire
    BY <1>10, <1>11, <1>16 DEF AskInv, SubInv
  <2>2. /\ Unique(reqs', Stream', "event") /\ Of(reqs', "event") \subseteq Of(reqs, "event")
        /\ Answers(Stream', "event") \subseteq Answers(Stream, "event")
    BY <1>6, <2>1 DEF SubWire, Fewer
  <2>3. CASE f.op = "get"
    <3>1. \A t : ~Asked(t) /\ ~Asked(t)'
      BY <1>13, <1>14, <2>3 DEF Asked
    <3>2. Of(reqs, "event") = {} /\ Answers(Stream, "event") = {}
      BY <2>1, <3>1 DEF SubWire
    <3>3. ~Running("sub", "wait")'
      BY <1>13, <2>3
    <3>4. conn' => \A t \in func' : t \in subs' \/ Asked(t)' \/ Covered(t)'
      BY <1>1, <1>10, <2>1, <3>1 DEF SubWire
    <3> QED BY <2>2, <3>2, <3>3, <3>4 DEF SubWire
  <2>4. CASE f.op = "sub"
    <3>1. ~HasAnswer("sub", f.raw) /\ \A t : Asked(t) <=> f.todo[1] = t
      BY <1>14, <2>1, <2>4 DEF SubWire, Asked, f
    <3>2. CASE HasAnswer("sub", k.raw)
      <4>1. PICK m \in Of(o, "event") : m.ok
        BY <1>8, <3>1, <3>2, AnswerOf
      <4>2. m \in Answers(Stream, "event") /\ Of(reqs', "event") = {} /\ Answers(Stream', "event") = {}
        BY <1>6, <2>1, <4>1 DEF SubWire
      <4>3. f.todo[1] = m.t /\ (conn => m.t \in subs)
        BY <2>1, <3>1, <4>1, <4>2 DEF SubWire
      <4>4. ~Running("sub", "wait")'
        BY <1>13, <3>2
      <4>5. conn' => \A t \in func' : t \in subs' \/ Covered(t)'
        BY <1>1, <1>10, <2>1, <3>1, <4>3 DEF SubWire
      <4> QED BY <2>2, <4>2, <4>4, <4>5 DEF SubWire
    <3>3. CASE ~HasAnswer("sub", k.raw)
      <4>1. Running("sub", "wait")' /\ g.raw = k.raw /\ \A t : Asked(t)' <=> Asked(t)
        BY <1>9, <1>10, <1>13, <2>4, <3>1, <3>3 DEF Asked
      <4>2. \A m \in Of(reqs', "event") : Asked(m.t)'
        BY <2>1, <2>2, <4>1 DEF SubWire
      <4>3. \A m \in Answers(Stream', "event") : Asked(m.t)' /\ (conn' /\ m.ok => m.t \in subs')
        BY <1>1, <2>1, <2>2, <4>1 DEF SubWire
      <4>4. conn' => \A t \in func' : t \in subs' \/ Asked(t)' \/ Covered(t)'
        BY <1>1, <1>10, <2>1, <4>1 DEF SubWire
      <4> QED BY <1>10, <2>2, <3>3, <4>1, <4>2, <4>3, <4>4 DEF SubWire
    <3> QED BY <3>2, <3>3
  <2> QED BY <1>2, <2>3, <2>4 DEF f
<1>17. SubInv'
  BY <1>1, <1>10, <1>16 DEF AskInv, SubInv
<1> QED BY <1>12, <1>15, <1>17 DEF AskInv
-----------------------------------------------------------------------------
(* A synchronous call begins above the frames s.                           *)
LEMMA CallWire ==
    ASSUME TypeOK, TypeOK', StreamInv, NEW fn \in {"get", "event"}, NEW t \in SignalType, NEW w, NEW e, NEW s,
           SyncWrite(fn, t, w, e, s), UNCHANGED <<rx, conn>>
    PROVE  /\ h'.wrong = h.wrong /\ h'.refused = h.refused
           /\ \/ sock' # "connected" /\ stk' = Push(e, s)
              \/ /\ sock = "connected" /\ sock' = sock /\ Stream' = Stream /\ \A x : x # fn => Fewer(x)
                 /\ reqs' = Append(reqs, [fn |-> fn, t |-> t, rid |-> nreq + 1])
                 /\ [fn |-> fn, t |-> t, rid |-> nreq + 1] \in Req
                 /\ \/ h' = h /\ stk' = Push([w EXCEPT !.rid = nreq + 1], s)
                    \/ /\ h'.expired = (h.expired \/ fn = "get") /\ stk' = Push(e, s)
<1>0. h \in History /\ nreq \in Nat
  BY DEF TypeOK
<1> DEFINE r == [fn |-> fn, t |-> t, rid |-> nreq + 1]
<1>1. r \in Req /\ r.fn = fn
  BY <1>0 DEF Req
<1>2. h'.wrong = h.wrong /\ h'.refused = h.refused
  BY <1>0 DEF SyncWrite, History
<1>3. KeepsStream \/ DropsUnread
  BY WriteStream
<1>4. CASE sock = "connected" /\ conn
  <2>1. sock' = sock /\ reqs' = Append(reqs, r)
    BY <1>4 DEF SyncWrite
  <2>2. Stream' = Stream
    BY <1>3, <1>4, <2>1 DEF KeepsStream, DropsUnread
  <2>3. \/ h' = h /\ stk' = Push([w EXCEPT !.rid = nreq + 1], s)
        \/ h' = [h EXCEPT !.expired = @ \/ fn = "get"] /\ stk' = Push(e, s)
    BY <1>4 DEF SyncWrite
  <2>4. \/ h' = h /\ stk' = Push([w EXCEPT !.rid = nreq + 1], s)
        \/ h'.expired = (h.expired \/ fn = "get") /\ stk' = Push(e, s)
    BY <1>0, <2>3 DEF History
  <2> HIDE DEF r
  <2>5. \A x : x # fn => Fewer(x)
    BY <1>1, <2>1, <2>2, AskFewer
  <2> QED BY <1>1, <1>2, <1>4, <2>1, <2>2, <2>4, <2>5 DEF r
<1>5. CASE ~(sock = "connected" /\ conn)
  <2>1. sock' # "connected" /\ stk' = Push(e, s)
    BY <1>5 DEF SyncWrite
  <2> QED BY <1>2, <2>1
<1> QED BY <1>4, <1>5

Clear(s) == s # <<>> /\ Head(s).op = "refresh" => Head(s).pc # "run"

LEMMA GetAsk ==
    ASSUME TypeOK, TypeOK', StreamInv, AskInv, NoWait(stk), NEW s \in Seq(Frame), Clear(s),
           Steady(stk, s, func), GetDeviceinfo(s)
    PROVE  AskInv'
<1> DEFINE w == NewFrame("get", "wait")
           e == NewFrame("get", "ret")
           k == [w EXCEPT !.rid = nreq + 1]
<1>0. h \in History /\ nreq \in Nat /\ nreq + 1 \in Nat
  BY DEF TypeOK
<1>1. e \in Frame /\ Inert(e) /\ MayStandOn(e, s)
  BY FrameType DEF Inert, NewFrame, SyncWait, MayStandOn, Clear, Op, Pc
<1>2. k \in Frame /\ k.op = "get" /\ k.pc = "wait" /\ k.rid = nreq + 1 /\ k.raw = <<>> /\ MayStandOn(k, s)
  <2>1. w \in Frame
    BY FrameType DEF Op, Pc
  <2>2. k.op = "get" /\ k.pc = "wait" /\ k.rid = nreq + 1 /\ k.raw = <<>>
    BY DEF NewFrame
  <2> HIDE DEF w
  <2>3. k \in Frame
    BY <1>0, <2>1 DEF Frame
  <2>4. MayStandOn(k, s)
    BY DEF MayStandOn, Clear
  <2> QED BY <2>2, <2>3, <2>4
<1>3. UNCHANGED <<open, func, conn, subs, rx>>
  BY DEF GetDeviceinfo, CallUnchanged
<1>4. \/ ~open /\ NoWrite(e, s)
      \/ SyncWrite("get", "CHANGED", w, e, s)
  BY DEF GetDeviceinfo
<1> HIDE DEF w, e, k
<1>5. ASSUME stk' = Push(e, s), h'.refused = h.refused PROVE Settled
  <2>1. Steady(s, Push(e, s), func)
    BY <1>1, SteadyPush
  <2>2. Steady(stk, stk', func)
    BY <1>5, <2>1, SteadyTrans
  <2> QED BY <1>5, <2>2, SteadySettled
<1>6. CASE ~open /\ NoWrite(e, s)
  <2>1. sock' # "connected" /\ h' = h /\ stk' = Push(e, s)
    BY <1>6 DEF NoWrite, AskInv, SubInv
  <2> QED BY <1>5, <2>1, StillAsk DEF Idles
<1>7. CASE SyncWrite("get", "CHANGED", w, e, s)
  <2> DEFINE r == [fn |-> "get", t |-> "CHANGED", rid |-> nreq + 1]
  <2>1. /\ h'.wrong = h.wrong /\ h'.refused = h.refused
        /\ \/ sock' # "connected" /\ stk' = Push(e, s)
           \/ /\ sock = "connected" /\ sock' = sock /\ Stream' = Stream /\ Fewer("event")
              /\ reqs' = Append(reqs, r) /\ r \in Req
              /\ \/ h' = h /\ stk' = Push(k, s)
                 \/ h'.expired = (h.expired \/ "get" = "get") /\ stk' = Push(e, s)
    <3>1. "CHANGED" \in SignalType /\ "get" \in {"get", "event"} /\ "event" # "get"
      BY DEF SignalType
    <3> QED BY <1>3, <1>7, <3>1, CallWire DEF k
  <2>2. r.fn = "get" /\ r.rid = nreq + 1
    OBVIOUS
  <2> HIDE DEF r
  <2>3. CASE sock' # "connected" /\ stk' = Push(e, s)
    BY <1>5, <2>1, <2>3, StillAsk DEF Idles
  <2>4. CASE sock = "connected" /\ Fewer("event") /\ h'.expired /\ stk' = Push(e, s)
    BY <1>3, <1>5, <2>1, <2>4, StillAsk DEF Idles
  <2>5. CASE /\ sock = "connected" /\ sock' = sock /\ Stream' = Stream /\ Fewer("event")
             /\ reqs' = Append(reqs, r) /\ r \in Req /\ h' = h /\ stk' = Push(k, s)
    <3>1. /\ stk' # <<>> /\ Head(stk') = k /\ Tail(stk') = s
          /\ FramesIn(stk') = {k} \union FramesIn(s)
      BY <1>2, <2>5, FramesPush
    <3>2. NoWait(s) /\ OwnGet(s) /\ \A f \in FramesIn(s) : SubShape(f)
      BY DEF AskInv, SubInv, Steady
    <3>3. WaitInv'
      BY <2>5, <3>1, <3>2 DEF WaitInv, Below
    <3>4. Running("get", "wait")' /\ ~Running("sub", "wait")' /\ \A t : ~Asked(t)'
      BY <1>2, <3>1 DEF Running, Asked
    <3>5. \A t, m : ~Asked(t) /\ ~Awaited(m)
      BY TopWait DEF AskInv
    <3>6. ASSUME ~h.expired PROVE GetWire'
      <4>1. GetWire
        BY <2>5, <3>6 DEF AskInv, GetInv
      <4>2. Of(reqs, "get") = {} /\ Answers(Stream, "get") = {} /\ Unique(reqs, Stream, "get")
        BY <3>5, <4>1 DEF GetWire
      <4>3. Unique(reqs', Stream', "get") /\ Of(reqs', "get") = {r} /\ Answers(Stream', "get") = {}
        BY <2>2, <2>5, <4>2, AskUnique
      <4>4. Head(stk').rid = r.rid /\ Of(Head(stk').raw, "get") = {}
        BY <1>2, <2>2, <3>1, NoneOf
      <4> QED BY <3>4, <4>3, <4>4 DEF GetWire, Awaited
    <3>7. GetInv'
      BY <2>5, <3>6 DEF AskInv, GetInv
    <3>8. ~Doomed(k) /\ SubShape(k) /\ \A x : ~Duty(k, x)
      BY <1>2 DEF Doomed, SubShape, Duty
    <3>9. OwnGet(stk') /\ \A f \in FramesIn(stk') : SubShape(f)
      BY <1>2, <2>5, <3>1, <3>2, <3>8, OwnGetPush
    <3>10. Tame' => Tame
      BY <2>5, <3>1 DEF Tame, Steady
    <3>11. \A t \in func : Covered(t) => Covered(t)'
      BY <3>1 DEF Covered, Steady
    <3>12. ASSUME Tame' PROVE SubWire'
      <4>1. SubWire
        BY <2>5, <3>10, <3>12 DEF AskInv, SubInv
      <4>2. Of(reqs, "event") = {} /\ Answers(Stream, "event") = {} /\ Unique(reqs, Stream, "event")
        BY <3>5, <4>1 DEF SubWire
      <4>3. Unique(reqs', Stream', "event") /\ Of(reqs', "event") = {} /\ Answers(Stream', "event") = {}
        BY <2>5, <4>2 DEF Fewer
      <4>4. conn' => \A t \in func' : t \in subs' \/ Covered(t)'
        BY <1>3, <3>5, <3>11, <4>1 DEF SubWire
      <4> QED BY <3>4, <4>3, <4>4 DEF SubWire
    <3>13. SubInv'
      BY <1>3, <2>5, <3>9, <3>12 DEF AskInv, SubInv
    <3> QED BY <3>3, <3>7, <3>13 DEF AskInv
  <2> QED BY <2>1, <2>3, <2>4, <2>5
<1> QED BY <1>4, <1>6, <1>7

LEMMA SubscribeAsk ==
    ASSUME TypeOK, TypeOK', StreamInv, AskInv, NoWait(stk), NEW s \in Seq(Frame), NEW t \in SignalType,
           Steady(stk, s, func \ {t}), SubscribeDeviceEvent(t, s)
    PROVE  AskInv'
<1> DEFINE f(pc) == [NewFrame("sub", pc) EXCEPT !.todo = <<t>>]
           w == f("wait")
           e == f("left")
           d == [f("ret") EXCEPT !.ok = TRUE]
           k == [w EXCEPT !.rid = nreq + 1]
<1>0. h \in History /\ nreq \in Nat /\ nreq + 1 \in Nat
  BY DEF TypeOK
<1>1. \A pc \in Pc : /\ f(pc) \in Frame /\ f(pc).op = "sub" /\ f(pc).pc = pc /\ ~f(pc).ok /\ f(pc).raw = <<>>
                     /\ f(pc).todo = <<t>>
  <2> TAKE pc \in Pc
  <2>1. NewFrame("sub", pc) \in Frame /\ <<t>> \in Seq(SignalType)
    BY FrameType DEF Op
  <2>2. f(pc).op = "sub" /\ f(pc).pc = pc /\ ~f(pc).ok /\ f(pc).raw = <<>> /\ f(pc).todo = <<t>>
    BY DEF NewFrame
  <2>3. f(pc) \in Frame
    BY <2>1 DEF Frame
  <2> QED BY <2>2, <2>3
<1>a. {"wait", "left", "ret"} \subseteq Pc
  BY DEF Pc
<1>b. 1 \in DOMAIN <<t>> /\ <<t>>[1] = t
  OBVIOUS
<1> HIDE DEF f
<1>2. k \in Frame /\ k.op = "sub" /\ k.pc = "wait" /\ ~k.ok /\ k.raw = <<>> /\ k.todo = <<t>>
  <2>1. /\ w \in Frame /\ w.op = "sub" /\ w.pc = "wait" /\ ~w.ok /\ w.raw = <<>> /\ w.todo = <<t>>
    BY <1>1, <1>a
  <2> HIDE DEF w
  <2>2. k \in Frame
    BY <1>0, <2>1 DEF Frame
  <2>3. k.op = w.op /\ k.pc = w.pc /\ k.raw = w.raw /\ k.todo = w.todo /\ k.ok = w.ok
    BY <2>1 DEF Frame
  <2> QED BY <2>1, <2>2, <2>3
<1>3. e \in Frame /\ e.op = "sub" /\ e.pc = "left" /\ ~e.ok /\ e.raw = <<>> /\ e.todo = <<t>>
  BY <1>1, <1>a
<1>4. d \in Frame /\ d.op = "sub" /\ d.pc = "ret" /\ d.ok /\ d.raw = <<>> /\ d.todo = <<t>>
  <2> DEFINE q == f("ret")
  <2>1. q \in Frame /\ q.op = "sub" /\ q.pc = "ret" /\ q.raw = <<>> /\ q.todo = <<t>>
    BY <1>1, <1>a
  <2> HIDE DEF q
  <2>2. [q EXCEPT !.ok = TRUE] \in Frame /\ [q EXCEPT !.ok = TRUE].ok
    BY <2>1 DEF Frame
  <2>3. /\ [q EXCEPT !.ok = TRUE].op = q.op /\ [q EXCEPT !.ok = TRUE].pc = q.pc
        /\ [q EXCEPT !.ok = TRUE].raw = q.raw /\ [q EXCEPT !.ok = TRUE].todo = q.todo
    BY <2>1 DEF Frame
  <2> QED BY <2>1, <2>2, <2>3 DEF q
<1>5. UNCHANGED <<open, conn, subs, rx>> /\ func' = func \union {t}
  BY DEF SubscribeDeviceEvent, CallUnchanged
<1>6. \/ ~open /\ NoWrite(d, s)
      \/ SyncWrite("event", t, w, e, s)
  BY DEF SubscribeDeviceEvent, f
<1> HIDE DEF w, e, d, k
<1>7. /\ NoWait(s) /\ OwnGet(s) /\ (\A x \in FramesIn(s) : SubShape(x))
      /\ (\E x \in FramesIn(stk) : Doomed(x)) => \E x \in FramesIn(s) : Doomed(x)
      /\ \A y \in func \ {t} : (\E x \in FramesIn(stk) : Duty(x, y)) => \E x \in FramesIn(s) : Duty(x, y)
  BY DEF AskInv, SubInv, Steady
<1>8. ASSUME NEW g \in Frame, g.op = "sub", g.todo = <<t>>, g.pc = "wait" => ~g.ok, stk' = Push(g, s)
      PROVE  /\ stk' # <<>> /\ Head(stk') = g /\ Tail(stk') = s
             /\ FramesIn(stk') = {g} \union FramesIn(s)
             /\ OwnGet(stk') /\ \A x \in FramesIn(stk') : SubShape(x)
  <2>1. /\ stk' # <<>> /\ Head(stk') = g /\ Tail(stk') = s /\ FramesIn(stk') = {g} \union FramesIn(s)
    BY <1>8, FramesPush
  <2>2. MayStandOn(g, s) /\ SubShape(g)
    BY <1>8, <1>b DEF MayStandOn, SubShape
  <2>3. OwnGet(stk')
    BY <1>7, <1>8, <2>2, OwnGetPush
  <2> QED BY <1>7, <2>1, <2>2, <2>3
<1>9. ASSUME NEW g \in Frame, g.op = "sub", g.todo = <<t>>, g.pc # "wait", stk' = Push(g, s),
             ~Tame' \/ sock' # "connected",
             h'.wrong = h.wrong, sock' # "connected" \/ (sock = "connected" /\ h'.expired = h.expired /\ Fewer("get"))
      PROVE  AskInv'
  <2>1. FramesIn(stk') = {g} \union FramesIn(s) /\ OwnGet(stk') /\ \A x \in FramesIn(stk') : SubShape(x)
    BY <1>8, <1>9
  <2>2. NoWait(stk')
    BY <1>7, <1>9, <2>1 DEF NoWait, SyncWait
  <2>3. WaitInv' /\ ~Running("get", "wait")'
    BY <2>2, NextSettled
  <2>4. \A m : ~Awaited(m)
    BY TopWait DEF AskInv
  <2>5. ASSUME sock' = "connected", ~h'.expired PROVE GetWire'
    <3>1. GetWire /\ Fewer("get")
      BY <1>9, <2>5 DEF AskInv, GetInv
    <3> QED BY <2>3, <2>4, <3>1 DEF GetWire, Fewer
  <2>6. GetInv'
    BY <1>9, <2>5 DEF AskInv, GetInv
  <2>7. SubInv'
    BY <1>5, <1>9, <2>1 DEF AskInv, SubInv
  <2> QED BY <2>3, <2>6, <2>7 DEF AskInv
<1>10. CASE ~open /\ NoWrite(d, s)
  <2>1. sock' # "connected" /\ h' = h /\ stk' = Push(d, s)
    BY <1>10 DEF NoWrite, AskInv, SubInv
  <2> QED BY <1>4, <1>9, <2>1
<1>11. CASE SyncWrite("event", t, w, e, s)
  <2> DEFINE r == [fn |-> "event", t |-> t, rid |-> nreq + 1]
  <2>1. /\ h'.wrong = h.wrong /\ h'.refused = h.refused
        /\ \/ sock' # "connected" /\ stk' = Push(e, s)
           \/ /\ sock = "connected" /\ sock' = sock /\ Stream' = Stream /\ Fewer("get")
              /\ reqs' = Append(reqs, r) /\ r \in Req
              /\ \/ h' = h /\ stk' = Push(k, s)
                 \/ h'.expired = (h.expired \/ "event" = "get") /\ stk' = Push(e, s)
    <3>1. "event" \in {"get", "event"} /\ "event" # "get"
      OBVIOUS
    <3> QED BY <1>5, <1>11, <3>1, CallWire DEF k
  <2>2. r.fn = "event" /\ r.t = t
    OBVIOUS
  <2> HIDE DEF r
  <2>3. CASE sock' # "connected" /\ stk' = Push(e, s)
    BY <1>3, <1>9, <2>1, <2>3
  <2>4. CASE sock = "connected" /\ Fewer("get") /\ h'.expired = h.expired /\ stk' = Push(e, s)
    <3>1. Doomed(e)
      <4>1. ~HasAnswer("sub", <<>>)
        BY AnswerOf, NoneOf
      <4> QED BY <1>3, <4>1 DEF Doomed
    <3>2. ~Tame'
      BY <1>3, <1>8, <2>4, <3>1 DEF Tame
    <3> QED BY <1>3, <1>9, <2>1, <2>4, <3>2
  <2>5. CASE /\ sock = "connected" /\ sock' = sock /\ Stream' = Stream /\ Fewer("get")
             /\ reqs' = Append(reqs, r) /\ r \in Req /\ h' = h /\ stk' = Push(k, s)
    <3>1. /\ stk' # <<>> /\ Head(stk') = k /\ Tail(stk') = s /\ FramesIn(stk') = {k} \union FramesIn(s)
          /\ OwnGet(stk') /\ \A x \in FramesIn(stk') : SubShape(x)
      BY <1>2, <1>8, <2>5
    <3>2. WaitInv'
      BY <1>7, <2>5, <3>1 DEF WaitInv, Below
    <3>3. ~Running("get", "wait")' /\ Running("sub", "wait")' /\ \A y : Asked(y)' <=> y = t
      BY <1>2, <1>b, <3>1 DEF Running, Asked
    <3>4. \A y, m : ~Asked(y) /\ ~Awaited(m)
      BY TopWait DEF AskInv
    <3>5. ASSUME ~h'.expired PROVE GetWire'
      <4>1. GetWire
        BY <2>5, <3>5 DEF AskInv, GetInv
      <4> QED BY <2>5, <3>3, <3>4, <4>1 DEF GetWire, Fewer
    <3>6. GetInv'
      BY <2>5, <3>5 DEF AskInv, GetInv
    <3>7. Tame' => Tame
      BY <1>7, <2>5, <3>1 DEF Tame
    <3>8. \A y \in func \ {t} : Covered(y) => Covered(y)'
      BY <1>7, <3>1 DEF Covered
    <3>9. ASSUME Tame' PROVE SubWire'
      <4>1. SubWire
        BY <2>5, <3>7, <3>9 DEF AskInv, SubInv
      <4>2. Of(reqs, "event") = {} /\ Answers(Stream, "event") = {} /\ Unique(reqs, Stream, "event")
        BY <3>4, <4>1 DEF SubWire
      <4>3. Unique(reqs', Stream', "event") /\ Of(reqs', "event") = {r} /\ Answers(Stream', "event") = {}
        BY <2>2, <2>5, <4>2, AskUnique
      <4>4. ~HasAnswer("sub", Head(stk').raw)
        BY <1>2, <3>1, AnswerOf, NoneOf
      <4>5. conn' => \A y \in func' : y \in subs' \/ Asked(y)' \/ Covered(y)'
        BY <1>5, <3>3, <3>4, <3>8, <4>1 DEF SubWire
      <4>6. \A m \in Of(reqs', "event") : Asked(m.t)'
        BY <2>2, <3>3, <4>3
      <4> QED BY <4>3, <4>4, <4>5, <4>6 DEF SubWire
    <3>10. SubInv'
      BY <1>5, <2>5, <3>1, <3>9 DEF AskInv, SubInv
    <3> QED BY <3>2, <3>6, <3>10 DEF AskInv
  <2>6. (h.expired \/ "event" = "get") = h.expired
    BY <1>0 DEF History
  <2> QED BY <2>1, <2>3, <2>4, <2>5, <2>6
<1> QED BY <1>6, <1>10, <1>11

(* The service accepts, or does not.                                       *)
LEMMA ConnectAsk ==
    ASSUME TypeOK, TypeOK', AskInv, NoWait(stk), NEW s \in Seq(Frame), Steady(stk, s, {}), NEW b, NEW o,
           OnConnected(s) \/ ConnectFails(s, b, o) \/ ConnectPends(s, o)
    PROVE  AskInv'
<1>0. h \in History /\ func' \subseteq SignalType
  BY DEF TypeOK
<1>1. NoWait(s) /\ OwnGet(s) /\ (\A x \in FramesIn(s) : SubShape(x))
  BY DEF AskInv, SubInv, Steady
<1>2. h'.wrong = h.wrong
  BY <1>0 DEF OnConnected, ConnectFails, ConnectPends, History
<1>3. CASE ConnectFails(s, b, o) \/ ConnectPends(s, o)
  <2>1. stk' = s /\ sock' # "connected"
    BY <1>3 DEF ConnectFails, ConnectPends
  <2>2. WaitInv'
    BY <1>1, <2>1, NextSettled
  <2> QED BY <1>1, <1>2, <2>1, <2>2 DEF AskInv, GetInv, SubInv
<1>4. CASE OnConnected(s)
  <2> DEFINE f == [NewFrame("refresh", "run") EXCEPT !.todo = Events]
  <2>1. /\ sock' = "connected" /\ open' = TRUE /\ rx' = <<>> /\ reqs' = <<>> /\ net' = <<>> /\ buf' = <<>>
        /\ stk' = Push(f, s)
    BY <1>4 DEF OnConnected
  <2>2. f \in Frame /\ f.op = "refresh" /\ f.pc = "run" /\ f.todo = Events
    <3>1. NewFrame("refresh", "run") \in Frame /\ Events \in Seq(SignalType)
      BY FrameType DEF Op, Pc, Events, SignalType
    <3>2. f.op = "refresh" /\ f.pc = "run" /\ f.todo = Events
      BY DEF NewFrame
    <3> QED BY <3>1, <3>2 DEF Frame
  <2>3. \A t \in SignalType : Duty(f, t)
    <3>1. Events[1] = "ADDED" /\ Events[2] = "REMOVED" /\ Events[3] = "CHANGED" /\ DOMAIN Events = {1, 2, 3}
      BY DEF Events
    <3> HIDE DEF f
    <3> QED BY <2>2, <3>1 DEF Duty, SignalType
  <2> HIDE DEF f
  <2>4. FramesIn(stk') = {f} \union FramesIn(s)
    BY <2>1, <2>2, FramesPush
  <2>5. NoWait(stk') /\ OwnGet(stk') /\ \A x \in FramesIn(stk') : SubShape(x)
    <3>1. ~SyncWait(f) /\ SubShape(f) /\ MayStandOn(f, s)
      BY <2>2 DEF SyncWait, SubShape, MayStandOn
    <3> QED BY <1>1, <2>1, <2>2, <2>4, <3>1, OwnGetPush DEF NoWait
  <2>6. WaitInv' /\ ~Running("get", "wait")' /\ ~Running("sub", "wait")'
    BY <2>5, NextSettled
  <2>7. Stream' = <<>>
    BY <2>1 DEF Stream
  <2>8. \A fn : /\ Of(reqs', fn) = {} /\ Answers(Stream', fn) = {}
                /\ Unique(reqs', Stream', fn)
    BY <2>1, <2>7, NoneOf DEF Unique
  <2>9. \A t \in func' : Covered(t)'
    BY <1>0, <2>3, <2>4 DEF Covered
  <2>10. GetWire' /\ SubWire'
    BY <2>6, <2>8, <2>9 DEF GetWire, SubWire
  <2> QED BY <1>2, <2>1, <2>5, <2>6, <2>10 DEF AskInv, GetInv, SubInv
<1> QED BY <1>3, <1>4
-----------------------------------------------------------------------------
(* The other steps, which neither start nor end a wait.                    *)
LEMMA CalmAsk ==
    ASSUME TypeOK, TypeOK', StreamInv, AskInv, NoWait(stk), Steady(stk, stk', func), ClientMove,
           UNCHANGED <<sock, open, func, conn, subs, reqs>>, h'.wrong = h.wrong,
           h'.expired = h.expired, h'.refused = h.refused
    PROVE  AskInv'
<1>1. Fewer("get") /\ Fewer("event")
  BY ClientFewer
<1>2. Settled
  BY SteadySettled
<1>3. Idles
  BY <1>1 DEF Idles
<1> QED BY <1>2, <1>3, StillAsk

LEMMA FollowsSame ==
    ASSUME NEW f, NEW g, NEW types, ~SyncWait(f), ~SyncWait(g),
           g.op = f.op, g.raw = f.raw, g.todo = f.todo, g.ok = f.ok, f.op = "refresh" => g.pc = f.pc
    PROVE  Follows(f, g, types)
  BY DEF Follows, SyncWait, SubShape, Doomed, Duty

LEMMA DispatchSteady ==
    ASSUME TypeOK, NEW m \in Msg, NEW s \in Seq(Frame), Dispatch(m, s), NEW types
    PROVE  Steady(s, stk', types)
<1>1. m.ok \in BOOLEAN
  BY DEF Msg
<1>2. stk' = Push(NewFrame("cb", "run"), s) \/ stk' = Answered(s, m.ok) \/ stk' = s
  BY DEF Dispatch
<1>3. Steady(s, Push(NewFrame("cb", "run"), s), types)
  <2> DEFINE f == NewFrame("cb", "run")
  <2>1. f \in Frame
    BY FrameType DEF Op, Pc
  <2>2. Inert(f) /\ MayStandOn(f, s)
    BY DEF Inert, SyncWait, MayStandOn, NewFrame
  <2> HIDE DEF f
  <2>3. Steady(s, Push(f, s), types)
    BY <2>1, <2>2, SteadyPush
  <2> QED BY <2>3 DEF f
<1> QED BY <1>1, <1>2, <1>3, SteadySame, SteadyAnswered

LEMMA HandOnAsk ==
    ASSUME TypeOK, TypeOK', StreamInv, AskInv, NoWait(stk), stk # <<>>, NEW m \in Msg, NEW l \in Seq(Msg),
           Dispatch(m, Top([Head(stk) EXCEPT !.list = l])), UNCHANGED <<rx, wire>>
    PROVE  AskInv'
<1> DEFINE f == Head(stk)
           g == [f EXCEPT !.list = l]
<1>0. h \in History /\ stk \in Seq(Frame)
  BY StreamTypes
<1>1. f \in Frame /\ Below \in Seq(Frame) /\ f \in FramesIn(stk)
  BY TopWait DEF AskInv
<1>2. Dispatch(m, Top(g))
  OBVIOUS
<1>a. ~SyncWait(f)
  BY <1>1 DEF NoWait
<1> HIDE DEF f
<1>3. g \in Frame
  BY <1>1 DEF Frame
<1>4. g.op = f.op /\ g.raw = f.raw /\ g.todo = f.todo /\ g.ok = f.ok /\ g.pc = f.pc
  BY <1>1 DEF Frame
<1> HIDE DEF g
<1>5. Follows(f, g, func)
  <2>1. ~SyncWait(g)
    BY <1>4, <1>a DEF SyncWait
  <2> QED BY <1>4, <1>a, <2>1, FollowsSame
<1>6. Steady(stk, Push(g, Below), func) /\ Push(g, Below) \in Seq(Frame)
  BY <1>0, <1>1, <1>3, <1>5, SteadyTop, FramesPush DEF Below, f
<1>7. Steady(stk, stk', func)
  BY <1>2, <1>6, DispatchSteady, SteadyTrans DEF Top
<1>8. ClientMove
  BY <1>2, DispatchStream DEF ClientMove
<1>9. /\ UNCHANGED <<sock, open, func, conn, subs, reqs>>
      /\ h'.wrong = h.wrong /\ h'.expired = h.expired /\ h'.refused = h.refused
  BY <1>0, <1>2 DEF Dispatch, History, service, link
<1> QED BY <1>7, <1>8, <1>9, CalmAsk

LEMMA UnwindAsk ==
    ASSUME TypeOK, TypeOK', StreamInv, AskInv, Unwind
    PROVE  AskInv'
<1> DEFINE f == Head(stk)
<1>0. h \in History /\ stk \in Seq(Frame) /\ ClientMove
  BY StreamTypes, UnwindStream
<1>1. stk # <<>> /\ ~Syncing
  BY DEF Unwind, InitReturn, HandleNext, HandleDone, CallbackReturn, LeftoverNext, LeftoverDone, PendingNext,
         DrainSocketMessages, GetReturn, SubReturn, RefreshSubscribe, RefreshGet, RefreshNothing,
         RefreshReport, ResetReturn, Running, Syncing
<1>2. NoWait(stk) /\ f \in Frame /\ Below \in Seq(Frame) /\ FramesIn(stk) = {f} \union FramesIn(Below)
  BY <1>1, TopWait DEF AskInv
<1>3. f.list \in Seq(Msg) /\ f.raw \in Seq(Msg) /\ ~SyncWait(f)
  BY <1>2 DEF Frame, NoWait
<1>4. CASE InitReturn \/ HandleDone \/ CallbackReturn \/ RefreshNothing \/ ResetReturn
  <2>1. /\ UNCHANGED <<sock, open, func, conn, subs, reqs, h>> /\ stk' = Below
    BY <1>4 DEF InitReturn, HandleDone, CallbackReturn, RefreshNothing, ResetReturn, link, service
  <2>2. Inert(f) \/ (~Doomed(f) /\ \A x \in func : ~Duty(f, x))
    BY <1>4 DEF InitReturn, HandleDone, CallbackReturn, RefreshNothing, ResetReturn, Running, Inert, Doomed,
                Duty, SyncWait, HasCallback
  <2>3. Steady(stk, Below, func)
    BY <1>0, <1>1, <2>2, SteadyPop DEF Below
  <2> QED BY <1>0, <1>2, <2>1, <2>3, CalmAsk
<1>5. CASE HandleNext
  <2>1. /\ f.list # <<>> /\ Dispatch(Head(f.list), Top([f EXCEPT !.list = Tail(@)])) /\ UNCHANGED <<rx, wire>>
    BY <1>5 DEF HandleNext
  <2>2. Head(f.list) \in Msg /\ Tail(f.list) \in Seq(Msg)
    BY <1>3, <2>1, HeadTailProperties
  <2> QED BY <1>1, <1>2, <2>1, <2>2, HandOnAsk
<1>6. CASE LeftoverNext \/ PendingNext
  <2>1. PICK i \in DOMAIN f.list : Dispatch(f.list[i], Top([f EXCEPT !.list = After(@, i)]))
    BY <1>6 DEF LeftoverNext, PendingNext
  <2>2. f.list[i] \in Msg /\ After(f.list, i) \in Seq(Msg)
    BY <1>3, AfterType, ElementOfSeq, LenProperties
  <2>3. UNCHANGED <<rx, wire>>
    BY <1>6 DEF LeftoverNext, PendingNext
  <2> QED BY <1>1, <1>2, <2>1, <2>2, <2>3, HandOnAsk
<1>7. CASE LeftoverDone
  <2> DEFINE g == [f EXCEPT !.pc = "ind", !.list = f.raw]
  <2>1. UNCHANGED <<sock, open, func, conn, subs, reqs, h>> /\ stk' = Push(g, Below) /\ f.op = "sub"
    BY <1>7 DEF LeftoverDone, link, service, Top, Running
  <2> HIDE DEF f
  <2>2. g \in Frame
    BY <1>2, <1>3 DEF Frame, Pc
  <2>3. g.op = f.op /\ g.raw = f.raw /\ g.todo = f.todo /\ g.ok = f.ok /\ g.pc = "ind"
    BY <1>2 DEF Frame
  <2> HIDE DEF g
  <2>4. Follows(f, g, func)
    <3>1. ~SyncWait(g)
      BY <2>3 DEF SyncWait
    <3> QED BY <1>3, <2>1, <2>3, <3>1, FollowsSame
  <2>5. Steady(stk, stk', func)
    BY <1>0, <1>1, <2>1, <2>2, <2>4, SteadyTop DEF Below, f
  <2> QED BY <1>0, <1>2, <2>1, <2>5, CalmAsk
<1>8. CASE DrainSocketMessages
  <2> DEFINE g == [f EXCEPT !.pc = "ret", !.list = <<>>]
             d == [NewFrame("drain", "run") EXCEPT !.list = Objects(rx \o buf)]
  <2>1. /\ UNCHANGED <<sock, open, func, conn, subs, reqs, h>> /\ stk' = Push(d, Push(g, Below))
        /\ f.op \in {"get", "sub"}
    BY <1>8 DEF DrainSocketMessages, link, service, Top, Running
  <2> HIDE DEF f
  <2>2. g \in Frame
    <3>1. <<>> \in Seq(Msg)
      OBVIOUS
    <3> QED BY <1>2, <3>1 DEF Frame, Pc
  <2>3. g.op = f.op /\ g.raw = f.raw /\ g.todo = f.todo /\ g.ok = f.ok /\ g.pc = "ret"
    BY <1>2 DEF Frame
  <2>4. d \in Frame /\ d.op = "drain" /\ d.pc = "run"
    <3>1. Objects(rx \o buf) \in Seq(Msg)
      BY StreamTypes, ExtractType
    <3>2. NewFrame("drain", "run") \in Frame
      BY FrameType DEF Op, Pc
    <3>3. d.op = "drain" /\ d.pc = "run"
      BY DEF NewFrame
    <3> QED BY <3>1, <3>2, <3>3 DEF Frame
  <2> HIDE DEF g, d
  <2>5. Follows(f, g, func)
    <3>1. ~SyncWait(g)
      BY <2>3 DEF SyncWait
    <3> QED BY <1>3, <2>1, <2>3, <3>1, FollowsSame
  <2>6. Steady(stk, Push(g, Below), func) /\ Push(g, Below) \in Seq(Frame)
    BY <1>0, <1>1, <1>2, <2>2, <2>5, SteadyTop, FramesPush DEF Below, f
  <2>7. Inert(d) /\ MayStandOn(d, Push(g, Below))
    BY <2>4 DEF Inert, SyncWait, MayStandOn
  <2>8. Steady(Push(g, Below), stk', func)
    BY <2>1, <2>4, <2>6, <2>7, SteadyPush
  <2>9. Steady(stk, stk', func)
    BY <2>6, <2>8, SteadyTrans
  <2> QED BY <1>0, <1>2, <2>1, <2>9, CalmAsk
<1>9. CASE GetReturn
  <2> DEFINE k == Head(Below)
  <2>1. UNCHANGED <<sock, open, func, conn, subs, reqs, h>> /\ f.op = "get"
    BY <1>9 DEF GetReturn, link, service, Running
  <2>2. Steady(stk, Below, func)
    <3>1. ~Doomed(f) /\ \A x \in func : ~Duty(f, x)
      BY <2>1 DEF Doomed, Duty
    <3> QED BY <1>0, <1>1, <3>1, SteadyPop DEF Below
  <2>3. ASSUME Below # <<>>, k.op = "refresh"
        PROVE  k.pc # "run" /\ k \in Frame /\ Tail(Below) \in Seq(Frame)
    <3>1. OwnGet(Push(f, Below))
      <4>1. Push(f, Below) = stk
        BY <1>0, <1>1 DEF Push, Below
      <4> QED BY <4>1 DEF AskInv, SubInv
    <3>2. MayStandOn(f, Below)
      BY <1>2, <3>1, OwnGetPush
    <3> QED BY <1>2, <2>1, <2>3, <3>2, FramesPop DEF MayStandOn
  <2>4. \/ stk' = Below
        \/ Below # <<>> /\ k.op = "refresh" /\ stk' = Tail(Below)
        \/ /\ Below # <<>> /\ k.op = "refresh"
           /\ \E i \in DOMAIN f.raw :
                stk' = Push([k EXCEPT !.pc = "ret", !.raw = <<f.raw[i]>>], Tail(Below))
    BY <1>9 DEF GetReturn
  <2>5. ASSUME Below # <<>>, k.op = "refresh" PROVE Steady(Below, Tail(Below), func)
    <3>1. ~Doomed(k) /\ \A x \in func : ~Duty(k, x)
      BY <2>3, <2>5 DEF Doomed, Duty
    <3> QED BY <1>2, <2>5, <3>1, SteadyPop
  <2>6. ASSUME Below # <<>>, k.op = "refresh", NEW i \in DOMAIN f.raw
        PROVE  Steady(Below, Push([k EXCEPT !.pc = "ret", !.raw = <<f.raw[i]>>], Tail(Below)), func)
    <3>1. f.raw[i] \in Msg
      BY <1>3, <2>6, ElementOfSeq, LenProperties
    <3> DEFINE q == <<f.raw[i]>>
               g == [k EXCEPT !.pc = "ret", !.raw = q]
    <3>2. q \in Seq(Msg)
      BY <3>1
    <3>3. k \in Frame /\ k.op = "refresh" /\ k.pc # "run"
      BY <2>3, <2>6
    <3> HIDE DEF q, k
    <3>4. g \in Frame /\ g.op = "refresh"
      BY <3>2, <3>3 DEF Frame, Pc
    <3> HIDE DEF g
    <3>5. Follows(k, g, func)
      BY <3>3, <3>4 DEF Follows, SyncWait, SubShape, Doomed, Duty
    <3>6. Steady(Below, Push(g, Tail(Below)), func)
      BY <1>2, <2>6, <3>4, <3>5, SteadyTop DEF k
    <3> QED BY <3>6 DEF g, q
  <2>7. Steady(stk, stk', func)
    <3> HIDE DEF k, f
    <3> QED BY <2>2, <2>4, <2>5, <2>6, SteadyTrans
  <2> QED BY <1>0, <1>2, <2>1, <2>7, CalmAsk
<1>10. CASE SubReturn
  <2>1. UNCHANGED <<sock, open, func, conn, subs, reqs>> /\ stk' = Below /\ f.op = "sub" /\ f.pc = "ret"
    BY <1>10 DEF SubReturn, link, service, Running
  <2>2. h'.wrong = h.wrong /\ h'.expired = h.expired
    BY <1>0, <1>10 DEF SubReturn, History
  <2>3. CASE f.ok \/ HasAnswer("sub", f.raw)
    <3>1. h'.refused = h.refused
      BY <1>0, <1>10, <2>3 DEF SubReturn, History
    <3>2. Steady(stk, Below, func)
      <4>1. ~Doomed(f) /\ \A x \in func : ~Duty(f, x)
        BY <2>1, <2>3 DEF Doomed, Duty
      <4> QED BY <1>0, <1>1, <4>1, SteadyPop DEF Below
    <3> QED BY <1>0, <1>2, <2>1, <2>2, <3>1, <3>2, CalmAsk
  <2>4. CASE ~(f.ok \/ HasAnswer("sub", f.raw))
    <3>1. h'.refused = h.refused \union {f.todo[i] : i \in DOMAIN f.todo}
      BY <1>0, <1>10, <2>4 DEF SubReturn, History
    <3>2. 1 \in DOMAIN f.todo
      BY <1>2, <2>1 DEF AskInv, SubInv, SubShape
    <3>3. ~Tame'
      BY <3>1, <3>2 DEF Tame
    <3>4. OwnGet(Below)
      <4>1. Push(f, Below) = stk
        BY <1>0, <1>1 DEF Push, Below
      <4> QED BY <1>2, <4>1, OwnGetPush DEF AskInv, SubInv
    <3>5. Settled
      <4>1. NoWait(Below) /\ \A x \in FramesIn(Below) : SubShape(x)
        BY <1>2 DEF NoWait, AskInv, SubInv
      <4> QED BY <1>2, <2>1, <3>3, <3>4, <4>1 DEF Settled
    <3>6. Fewer("get")
      BY <1>0, <2>1, ClientFewer
    <3>7. Idles
      BY <2>1, <2>2, <3>3, <3>6 DEF Idles
    <3> QED BY <2>2, <3>5, <3>7, StillAsk
  <2> QED BY <2>3, <2>4
<1>11. CASE RefreshReport
  <2>1. /\ UNCHANGED <<sock, open, func, conn, subs, reqs, h>> /\ f.op = "refresh" /\ f.pc = "ret"
        /\ (stk' = Push(NewFrame("cb", "run"), Below) \/ stk' = Below)
    BY <1>11 DEF RefreshReport, link, service, Running, Top
  <2>2. ~Doomed(f) /\ \A x \in func : ~Duty(f, x)
    BY <2>1 DEF Doomed, Duty
  <2>3. Steady(stk, Below, func)
    BY <1>0, <1>1, <2>2, SteadyPop DEF Below
  <2>4. Steady(Below, Push(NewFrame("cb", "run"), Below), func)
    <3> DEFINE g == NewFrame("cb", "run")
    <3>1. g \in Frame
      BY FrameType DEF Op, Pc
    <3>2. Inert(g) /\ MayStandOn(g, Below)
      BY DEF Inert, SyncWait, MayStandOn, NewFrame
    <3> HIDE DEF g
    <3>3. Steady(Below, Push(g, Below), func)
      BY <1>2, <3>1, <3>2, SteadyPush
    <3> QED BY <3>3 DEF g
  <2>5. Steady(stk, stk', func)
    BY <2>1, <2>3, <2>4, SteadyTrans
  <2> QED BY <1>0, <1>2, <2>1, <2>5, CalmAsk
<1>12. CASE RefreshSubscribe
  <2>1. f.op = "refresh" /\ f.pc = "run"
    BY <1>12 DEF RefreshSubscribe, Running
  <2>2. PICK i \in DOMAIN f.todo :
          /\ First(f.todo, i, HasCallback)
          /\ SubscribeDeviceEvent(f.todo[i], Top([f EXCEPT !.todo = After(@, i), !.ok = TRUE]))
    BY <1>12 DEF RefreshSubscribe
  <2> DEFINE q == f.todo
             r == After(q, i)
             t == q[i]
             g == [f EXCEPT !.todo = r, !.ok = TRUE]
  <2>3. q \in Seq(SignalType) /\ Len(q) \in Nat /\ DOMAIN q = 1..Len(q) /\ i \in 1..Len(q)
    BY <1>2, LenProperties DEF Frame
  <2>4. t \in SignalType /\ SubscribeDeviceEvent(t, Top(g)) /\ \A j \in 1..(i-1) : q[j] \notin func
    <3>1. \A j \in 1..(i-1) : q[j] \notin func
      BY <2>2 DEF First, HasCallback
    <3>2. SubscribeDeviceEvent(t, Top(g))
      BY <2>2
    <3>3. t \in SignalType
      BY <2>3
    <3> QED BY <3>1, <3>2, <3>3
  <2> HIDE DEF q, f
  <2>5. r \in Seq(SignalType) /\ Len(r) = Len(q) - i /\ \A j \in (i+1)..Len(q) : j - i \in DOMAIN r /\ r[j - i] = q[j]
    <3>1. r \in Seq(SignalType) /\ Len(r) = Len(q) - i /\ \A n \in 1..Len(r) : r[n] = q[n + i]
      BY <2>3 DEF After
    <3>2. DOMAIN r = 1..Len(r)
      BY <3>1, LenProperties
    <3> HIDE DEF r
    <3>3. \A j \in (i+1)..Len(q) : j - i \in 1..Len(r) /\ (j - i) + i = j
      BY <2>3, <3>1
    <3> QED BY <3>1, <3>2, <3>3
  <2> HIDE DEF r, t
  <2>6. g \in Frame /\ g.op = "refresh" /\ g.pc = "run" /\ g.todo = r
    BY <1>2, <2>1, <2>5 DEF Frame
  <2> HIDE DEF g
  <2>7. Follows(f, g, func \ {t})
    <3>1. ASSUME NEW x \in func \ {t}, Duty(f, x) PROVE Duty(g, x)
      <4>1. PICK j \in DOMAIN q : q[j] = x
        BY <3>1 DEF Duty, q
      <4>2. j \in (i+1)..Len(q)
        <5>1. j \in 1..Len(q) /\ j # i /\ ~(j \in 1..(i-1))
          BY <2>3, <2>4, <3>1, <4>1 DEF t
        <5> QED BY <2>3, <5>1
      <4>3. j - i \in DOMAIN r /\ r[j - i] = x
        BY <2>5, <4>1, <4>2
      <4> DEFINE n == j - i
      <4>4. n \in DOMAIN r /\ r[n] = x
        BY <4>3
      <4> HIDE DEF n
      <4> QED BY <2>6, <4>4 DEF Duty
    <3>2. ~SyncWait(g) /\ ~Doomed(f) /\ g.op # "sub" /\ g.op # "get"
      BY <2>1, <2>6 DEF SyncWait, Doomed
    <3> QED BY <3>1, <3>2 DEF Follows
  <2>8. Steady(stk, Push(g, Below), func \ {t}) /\ Push(g, Below) \in Seq(Frame)
    BY <1>0, <1>1, <1>2, <2>6, <2>7, SteadyTop, FramesPush DEF Below, f
  <2> QED BY <1>2, <2>4, <2>8, SubscribeAsk DEF Top
<1>13. CASE RefreshGet
  <2> DEFINE g == [f EXCEPT !.pc = "wait"]
  <2>1. /\ f.op = "refresh" /\ f.pc = "run" /\ GetDeviceinfo(Top(g))
        /\ \A i \in DOMAIN f.todo : f.todo[i] \notin func
    BY <1>13 DEF RefreshGet, Running, HasCallback
  <2> HIDE DEF f
  <2>2. g \in Frame /\ g.op = "refresh" /\ g.pc = "wait"
    BY <1>2, <2>1 DEF Frame, Pc
  <2> HIDE DEF g
  <2>3. Follows(f, g, func)
    <3>1. ~SyncWait(g) /\ ~Doomed(f) /\ g.op # "sub" /\ g.op # "get" /\ \A x \in func : ~Duty(f, x)
      BY <2>1, <2>2 DEF SyncWait, Doomed, Duty
    <3> QED BY <3>1 DEF Follows
  <2>4. Steady(stk, Push(g, Below), func)
    BY <1>0, <1>1, <2>2, <2>3, SteadyTop DEF Below, f
  <2>5. Push(g, Below) \in Seq(Frame) /\ Clear(Push(g, Below))
    BY <1>2, <2>2, FramesPush DEF Clear
  <2> QED BY <1>2, <2>1, <2>4, <2>5, GetAsk DEF Top
<1> QED BY <1>4, <1>5, <1>6, <1>7, <1>8, <1>9, <1>10, <1>11, <1>12, <1>13 DEF Unwind

LEMMA WaitingAsk ==
    ASSUME TypeOK, TypeOK', StreamInv, AskInv, Waiting
    PROVE  AskInv'
<1>1. CASE SyncRead
  BY <1>1, ReadAsk
<1>2. CASE SyncTimeout \/ SyncEof
  BY <1>2, GiveUpAsk
<1>3. CASE ResetTimeout
  <2> DEFINE f == Head(stk)
             g == [f EXCEPT !.pc = "ret"]
  <2>0. h \in History /\ stk \in Seq(Frame) /\ ClientMove
    BY StreamTypes, WaitingStream
  <2>1. /\ stk # <<>> /\ f.op = "reset" /\ stk' = Push(g, Below) /\ ~Syncing
        /\ UNCHANGED <<sock, open, func, conn, subs, reqs>>
    BY <1>3 DEF ResetTimeout, Running, Syncing, Top, link, service
  <2>2. h'.wrong = h.wrong /\ h'.expired = h.expired /\ h'.refused = h.refused
    BY <1>3, <2>0 DEF ResetTimeout, History
  <2>3. NoWait(stk) /\ f \in Frame
    BY <2>1, TopWait DEF AskInv
  <2> HIDE DEF f
  <2>4. g \in Frame /\ g.op = "reset"
    BY <2>1, <2>3 DEF Frame, Pc
  <2> HIDE DEF g
  <2>5. Follows(f, g, func)
    BY <2>1, <2>4 DEF Follows, SyncWait, Doomed, Duty
  <2>6. Steady(stk, stk', func)
    BY <2>0, <2>1, <2>4, <2>5, SteadyTop DEF Below, f
  <2> QED BY <2>0, <2>1, <2>2, <2>3, <2>6, CalmAsk
<1> QED BY <1>1, <1>2, <1>3 DEF Waiting

LEMMA LoopEventAsk ==
    ASSUME TypeOK, TypeOK', StreamInv, AskInv, LoopEvent
    PROVE  AskInv'
<1>0. h \in History /\ stk \in Seq(Frame) /\ ClientMove
  BY StreamTypes, LoopEventStream
<1>1. ~Syncing
  BY DEF LoopEvent, OnReadyRead, OnDisconnected, RetryConnection, ConnectDone, InLoop, Running, Syncing
<1>2. NoWait(stk)
  BY <1>1, TopWait DEF AskInv
<1>3. CASE OnReadyRead
  <2>1. UNCHANGED <<sock, open, func, conn, subs, reqs, h>>
    BY <1>3 DEF OnReadyRead, link, service
  <2>2. ASSUME NEW fs \in Seq(Frag),
               stk' = Push([NewFrame("onReadyRead", "run") EXCEPT !.list = Objects(fs)], stk)
        PROVE  Steady(stk, stk', func)
    <3> DEFINE d == [NewFrame("onReadyRead", "run") EXCEPT !.list = Objects(fs)]
    <3>1. d \in Frame /\ d.op = "onReadyRead"
      <4>1. Objects(fs) \in Seq(Msg)
        BY ExtractType
      <4>2. NewFrame("onReadyRead", "run") \in Frame
        BY FrameType DEF Op, Pc
      <4>3. d.op = "onReadyRead"
        BY DEF NewFrame
      <4> QED BY <4>1, <4>2, <4>3 DEF Frame
    <3> HIDE DEF d
    <3>2. Inert(d) /\ MayStandOn(d, stk)
      BY <3>1 DEF Inert, SyncWait, MayStandOn
    <3> QED BY <1>0, <2>2, <3>1, <3>2, SteadyPush DEF d
  <2>3. Steady(stk, stk', func)
    BY <1>3, <2>2, ReadyReadStream, SteadySame
  <2> QED BY <1>0, <1>2, <2>1, <2>3, CalmAsk
<1>4. CASE OnDisconnected
  <2>1. stk' = stk /\ sock' # "connected"
    BY <1>4 DEF OnDisconnected
  <2>2. h'.wrong = h.wrong /\ h'.refused = h.refused
    BY <1>0, <1>4 DEF OnDisconnected, History
  <2>3. Settled
    BY <1>2, <2>1, <2>2, SteadySame, SteadySettled
  <2> QED BY <2>1, <2>2, <2>3, StillAsk DEF Idles
<1>5. CASE RetryConnection \/ ConnectDone
  <2>1. \E b, o : OnConnected(stk) \/ ConnectFails(stk, b, o) \/ ConnectPends(stk, o)
    BY <1>5 DEF RetryConnection, ConnectDone, ConnectToServer
  <2> QED BY <1>0, <1>2, <2>1, SteadySame, ConnectAsk
<1> QED BY <1>3, <1>4, <1>5 DEF LoopEvent

LEMMA AppAsk ==
    ASSUME TypeOK, TypeOK', StreamInv, AskInv, App
    PROVE  AskInv'
<1>0. h \in History /\ stk \in Seq(Frame) /\ AppTypes \subseteq SignalType
  BY StreamTypes, ConstantsAssumption
<1>1. ~Syncing /\ (CanCall => Clear(stk))
  BY DEF App, DevInit, Deinit, ResetDevice, ResetLocks, AppGet, AppSubscribe, CanCall, InLoop, Running, Syncing, Clear
<1>2. NoWait(stk)
  BY <1>1, TopWait DEF AskInv
<1>3. \A types : Steady(stk, stk, types)
  BY SteadySame
<1>4. CASE DevInit
  <2> DEFINE f == NewFrame("init", "run")
  <2>1. /\ stk = <<>>
        /\ \E b, o : OnConnected(<<f>>) \/ ConnectFails(<<f>>, b, o) \/ ConnectPends(<<f>>, o)
    BY <1>4 DEF DevInit, ConnectToServer
  <2>2. f \in Frame /\ f.op = "init"
    BY FrameType DEF Op, Pc, NewFrame
  <2> HIDE DEF f
  <2>3. Inert(f) /\ MayStandOn(f, stk)
    BY <2>2 DEF Inert, SyncWait, MayStandOn
  <2>4. Steady(stk, Push(f, stk), {}) /\ Push(f, stk) \in Seq(Frame)
    BY <1>0, <2>2, <2>3, SteadyPush, FramesPush
  <2>5. Push(f, stk) = <<f>>
    BY <2>1 DEF Push
  <2> QED BY <1>2, <2>1, <2>4, <2>5, ConnectAsk
<1>5. CASE Deinit
  <2>1. stk' = stk /\ sock' # "connected"
    BY <1>5 DEF Deinit
  <2>2. h'.wrong = h.wrong /\ h'.refused = h.refused
    BY <1>0, <1>5 DEF Deinit, History
  <2>3. Settled
    BY <1>2, <1>3, <2>1, <2>2, SteadySettled
  <2> QED BY <2>1, <2>2, <2>3, StillAsk DEF Idles
<1>6. CASE ResetDevice
  <2>1. /\ h'.wrong = h.wrong /\ h'.expired = h.expired /\ h'.refused = h.refused
        /\ UNCHANGED <<func, conn, subs>>
    BY <1>0, <1>6 DEF ResetDevice, NoWrite, History
  <2>2. PICK f \in Frame : f.op = "reset" /\ stk' = Push(f, stk)
    <3>1. /\ NewFrame("reset", "wait") \in Frame /\ [NewFrame("reset", "ret") EXCEPT !.ok = TRUE] \in Frame
          /\ NewFrame("reset", "wait").op = "reset" /\ [NewFrame("reset", "ret") EXCEPT !.ok = TRUE].op = "reset"
      <4>1. NewFrame("reset", "wait") \in Frame /\ NewFrame("reset", "ret") \in Frame
        BY FrameType DEF Op, Pc
      <4>2. [NewFrame("reset", "ret") EXCEPT !.ok = TRUE] \in Frame
        BY <4>1 DEF Frame
      <4> QED BY <4>1, <4>2 DEF NewFrame
    <3> QED BY <1>6, <3>1 DEF ResetDevice, NoWrite
  <2>3. Inert(f) /\ MayStandOn(f, stk)
    BY <2>2 DEF Inert, SyncWait, MayStandOn
  <2>4. Steady(stk, stk', func)
    BY <1>0, <2>2, <2>3, SteadyPush
  <2>5. Settled
    BY <1>2, <2>1, <2>4, SteadySettled
  <2>6. CASE sock' # "connected"
    BY <2>1, <2>5, <2>6, StillAsk DEF Idles
  <2>7. CASE sock' = "connected"
    <3>1. sock = "connected" /\ open
      BY <1>6, <2>7 DEF ResetDevice, NoWrite, AskInv, SubInv
    <3>2. /\ open' = open /\ UNCHANGED <<rx, wire>>
          /\ reqs' = Append(reqs, [fn |-> "reset", t |-> "CHANGED", rid |-> nreq'])
      BY <1>6, <2>7, <3>1 DEF ResetDevice
    <3> DEFINE r == [fn |-> "reset", t |-> "CHANGED", rid |-> nreq']
    <3>3. r \in Req /\ r.fn = "reset"
      BY DEF TypeOK, Req, SignalType
    <3>4. Stream' = Stream
      BY <3>2 DEF Stream, wire
    <3>5. reqs' = Append(reqs, r)
      BY <3>2
    <3> HIDE DEF r
    <3>6. Fewer("get") /\ Fewer("event")
      BY <3>3, <3>4, <3>5, AskFewer
    <3> QED BY <2>1, <2>5, <3>1, <3>2, <3>6, StillAsk DEF Idles
  <2> QED BY <2>6, <2>7
<1>7. CASE AppGet
  BY <1>0, <1>1, <1>2, <1>3, <1>7, GetAsk DEF AppGet
<1>8. ASSUME NEW t \in AppTypes, AppSubscribe(t) PROVE AskInv'
  BY <1>0, <1>2, <1>3, <1>8, SubscribeAsk DEF AppSubscribe
<1>9. CASE ResetLocks
  <2> DEFINE f == NewFrame("lock", "wait")
  <2>1. stk' = Push(f, stk) /\ UNCHANGED <<h, sock, open, func, rx, buf, net, conn, subs, reqs>>
    BY <1>9 DEF ResetLocks, link, service, wire
  <2>2. f \in Frame /\ f.op = "lock"
    BY FrameType DEF Op, Pc, NewFrame
  <2> HIDE DEF f
  <2>3. Inert(f) /\ MayStandOn(f, stk)
    BY <2>2 DEF Inert, SyncWait, MayStandOn
  <2>4. Steady(stk, stk', func)
    BY <1>0, <2>1, <2>2, <2>3, SteadyPush
  <2>5. Settled
    BY <1>2, <2>1, <2>4, SteadySettled
  <2>6. Fewer("get") /\ Fewer("event")
    BY <2>1, StayFewer DEF Stream
  <2> QED BY <2>1, <2>5, <2>6, StillAsk DEF Idles
<1> QED BY <1>4, <1>5, <1>6, <1>7, <1>8, <1>9 DEF App

LEMMA AskInit == Init => AskInv
<1> SUFFICES ASSUME Init PROVE AskInv
  OBVIOUS
<1>1. stk = <<>> /\ sock = "none" /\ ~h.wrong
  BY DEF Init
<1>2. FramesIn(stk) = {} /\ OwnGet(stk)
  BY <1>1 DEF FramesIn, OwnGet
<1> QED BY <1>1, <1>2 DEF AskInv, WaitInv, GetInv, SubInv

LEMMA AskAlways == Spec => []AskInv
<1>1. TypeOK /\ TypeOK' /\ StreamInv /\ AskInv /\ [Next]_vars => AskInv'
  BY ServiceAsk, UnwindAsk, WaitingAsk, LoopEventAsk, AppAsk DEF Next
<1> QED BY <1>1, AskInit, TypeCorrect, StreamAlways, PTL DEF Spec

(* Once the thread is idle on a live connection, every type that has a     *)
(* callback is registered at the service, unless a registration was        *)
(* refused or not answered in time: refreshAfterReconnect subscribes again *)
(* to all of them whatever calls and callbacks come in between, and no     *)
(* SubscribeDeviceEvent takes the answer to another one for its own.       *)
THEOREM ResubscribedCorrect == Spec => []Resubscribed
<1>1. AskInv /\ TypeOK => Resubscribed
  <2> SUFFICES ASSUME AskInv, TypeOK, sock = "connected", conn, stk = <<>>, h.refused = {}
               PROVE  func \subseteq subs
    BY DEF Resubscribed
  <2>1. FramesIn(stk) = {}
    BY DEF FramesIn
  <2>2. SubWire
    BY <2>1 DEF AskInv, SubInv, Tame
  <2>3. \A t \in func : ~Asked(t) /\ ~Covered(t)
    BY <2>1 DEF Asked, Running, Covered
  <2> QED BY <2>2, <2>3 DEF SubWire
<1> QED BY <1>1, AskAlways, TypeCorrect, PTL
-----------------------------------------------------------------------------
(* The answers to ResetDevice.  The messages that a frame has still to     *)
(* hand on to resetDeviceRecived; the frames that hold an answer among     *)
(* them; the frame of ResetDevice, and that frame in its event loop.       *)
Carry(f) == IF f.op \in {"onReadyRead", "drain"} \/ (f.op = "sub" /\ f.pc = "left") THEN f.list
            ELSE IF f.op = "sub" /\ f.pc = "wait" THEN f.raw ELSE <<>>
Carriers == {f \in Frame : Of(Carry(f), "reset") # {}}
Resets == {f \in Frame : f.op = "reset"}
Waiters == {f \in Resets : f.pc = "wait"}

(* At most one frame of stack s is in S.                                   *)
One(s, S) == \A i, j \in DOMAIN s : i < j /\ s[i] \in S => s[j] \notin S
Some(s, S) == \E f \in FramesIn(s) : f \in S

LEMMA OnePush ==
    ASSUME NEW f \in Frame, NEW s \in Seq(Frame), NEW S
    PROVE  /\ One(Push(f, s), S) <=> One(s, S) /\ (f \in S => ~Some(s, S))
           /\ Some(Push(f, s), S) <=> f \in S \/ Some(s, S)
<1> DEFINE p == Push(f, s)
<1>1. Len(s) \in Nat /\ DOMAIN s = 1..Len(s)
  BY LenProperties
<1>2. /\ p \in Seq(Frame) /\ DOMAIN p = 1..(Len(s) + 1) /\ p[1] = f
      /\ \A i \in 1..Len(s) : p[i + 1] = s[i]
  BY DEF Push
<1>3. FramesIn(p) = {f} \union FramesIn(s)
  BY FramesPush
<1> HIDE DEF p
<1>4. \A i \in DOMAIN s : i + 1 \in DOMAIN p /\ p[i + 1] = s[i] /\ 1 < i + 1 /\ 1 \in DOMAIN p
  BY <1>1, <1>2
<1>5. \A i \in DOMAIN p : i = 1 \/ (1 < i /\ i - 1 \in DOMAIN s /\ p[i] = s[i - 1])
  <2> TAKE i \in DOMAIN p
  <2>1. i = 1 \/ (1 < i /\ i - 1 \in 1..Len(s) /\ (i - 1) + 1 = i)
    BY <1>1, <1>2
  <2> QED BY <1>1, <1>2, <2>1
<1>6. Some(p, S) <=> f \in S \/ Some(s, S)
  BY <1>3 DEF Some
<1>7. ASSUME One(p, S) PROVE One(s, S)
  <2> SUFFICES ASSUME NEW i \in DOMAIN s, NEW j \in DOMAIN s, i < j, s[i] \in S PROVE s[j] \notin S
    BY DEF One
  <2>1. i + 1 < j + 1
    BY <1>1
  <2> QED BY <1>4, <1>7, <2>1 DEF One
<1>8. ASSUME One(p, S), f \in S, Some(s, S) PROVE FALSE
  <2>1. PICK i \in DOMAIN s : s[i] \in S
    BY <1>8 DEF Some, FramesIn
  <2> QED BY <1>2, <1>4, <1>8, <2>1 DEF One
<1>9. ASSUME One(s, S), f \in S => ~Some(s, S) PROVE One(p, S)
  <2> SUFFICES ASSUME NEW i \in DOMAIN p, NEW j \in DOMAIN p, i < j, p[i] \in S, p[j] \in S PROVE FALSE
    BY DEF One
  <2>1. 1 < j /\ j - 1 \in DOMAIN s /\ p[j] = s[j - 1]
    <3>1. j # 1
      BY <1>1, <1>2
    <3> QED BY <1>5, <3>1
  <2>2. CASE i = 1
    <3> DEFINE n == j - 1
    <3>1. n \in DOMAIN s /\ s[n] \in S
      BY <2>1
    <3> HIDE DEF n
    <3>2. Some(s, S)
      BY <3>1 DEF Some, FramesIn
    <3> QED BY <1>2, <1>9, <2>2, <3>2
  <2>3. CASE i # 1
    <3>1. i - 1 \in DOMAIN s /\ p[i] = s[i - 1] /\ i - 1 < j - 1
      BY <1>1, <1>2, <1>5, <2>3
    <3> QED BY <1>9, <2>1, <3>1 DEF One
  <2> QED BY <2>2, <2>3
<1>10. One(p, S) <=> One(s, S) /\ (f \in S => ~Some(s, S))
  BY <1>7, <1>8, <1>9
<1> QED BY <1>6, <1>10 DEF p

LEMMA OnePop ==
    ASSUME NEW s \in Seq(Frame), s # <<>>, NEW S
    PROVE  /\ Head(s) \in Frame /\ Tail(s) \in Seq(Frame) /\ Head(s) \in FramesIn(s)
           /\ One(s, S) <=> One(Tail(s), S) /\ (Head(s) \in S => ~Some(Tail(s), S))
           /\ Some(s, S) <=> Head(s) \in S \/ Some(Tail(s), S)
<1>1. Head(s) \in Frame /\ Tail(s) \in Seq(Frame) /\ FramesIn(s) = {Head(s)} \union FramesIn(Tail(s))
  BY FramesPop
<1>2. Push(Head(s), Tail(s)) = s
  BY DEF Push
<1>3. /\ One(Push(Head(s), Tail(s)), S) <=> One(Tail(s), S) /\ (Head(s) \in S => ~Some(Tail(s), S))
      /\ Some(Push(Head(s), Tail(s)), S) <=> Head(s) \in S \/ Some(Tail(s), S)
  BY <1>1, OnePush
<1>4. Head(s) \in FramesIn(s)
  BY <1>1
<1> QED BY <1>1, <1>2, <1>3, <1>4, Zenon

LEMMA NoneSingle ==
    ASSUME NEW q, NEW fn, Of(q, fn) = {}
    PROVE  Single(q, fn)
<1>1. \A i \in DOMAIN q : q[i].fn # fn
  BY OfMember
<1> QED BY <1>1 DEF Single

(* The tokens on a stack, and a stack t that has no more of them than s    *)
(* and waits for as many answers.                                          *)
Tokens(s) == One(s, Carriers) /\ \A f \in FramesIn(s) : Single(Carry(f), "reset")
Bears(s, t) == /\ One(s, Resets) => One(t, Resets)
               /\ Some(t, Waiters) <=> Some(s, Waiters)
               /\ Tokens(s) => Tokens(t)
               /\ Some(t, Carriers) => Some(s, Carriers)
Plain(f) == f.op # "reset" /\ Of(Carry(f), "reset") = {}

LEMMA PlainFrame ==
    ASSUME NEW f, Plain(f)
    PROVE  f \notin Resets /\ f \notin Waiters /\ f \notin Carriers /\ Single(Carry(f), "reset")
  BY NoneSingle DEF Plain, Resets, Waiters, Carriers

LEMMA BearsSame == \A s : Bears(s, s)
  BY DEF Bears

LEMMA BearsTrans ==
    ASSUME NEW s, NEW t, NEW u, Bears(s, t), Bears(t, u)
    PROVE  Bears(s, u)
  BY DEF Bears

LEMMA BearsPush ==
    ASSUME NEW s \in Seq(Frame), NEW f \in Frame, Plain(f)
    PROVE  Bears(s, Push(f, s)) /\ Push(f, s) \in Seq(Frame)
<1>1. f \notin Resets /\ f \notin Waiters /\ f \notin Carriers /\ Single(Carry(f), "reset")
  BY PlainFrame
<1>2. \A S : /\ One(Push(f, s), S) <=> One(s, S) /\ (f \in S => ~Some(s, S))
             /\ Some(Push(f, s), S) <=> f \in S \/ Some(s, S)
  BY OnePush
<1>3. Push(f, s) \in Seq(Frame) /\ FramesIn(Push(f, s)) = {f} \union FramesIn(s)
  BY FramesPush
<1> QED BY <1>1, <1>2, <1>3 DEF Bears, Tokens

LEMMA BearsPop ==
    ASSUME NEW s \in Seq(Frame), s # <<>>, Head(s).op # "reset" \/ Head(s).pc # "wait"
    PROVE  Bears(s, Tail(s)) /\ Tail(s) \in Seq(Frame)
<1>1. Head(s) \notin Waiters
  BY DEF Waiters, Resets
<1>2. \A S : /\ One(s, S) <=> One(Tail(s), S) /\ (Head(s) \in S => ~Some(Tail(s), S))
             /\ Some(s, S) <=> Head(s) \in S \/ Some(Tail(s), S)
  BY OnePop
<1>3. Tail(s) \in Seq(Frame) /\ FramesIn(s) = {Head(s)} \union FramesIn(Tail(s))
  BY FramesPop
<1> QED BY <1>1, <1>2, <1>3 DEF Bears, Tokens

LEMMA BearsTop ==
    ASSUME NEW s \in Seq(Frame), s # <<>>, NEW g \in Frame, Head(s).op # "reset", g.op # "reset",
           Single(Carry(Head(s)), "reset") => Single(Carry(g), "reset"),
           Of(Carry(g), "reset") \subseteq Of(Carry(Head(s)), "reset")
    PROVE  Bears(s, Push(g, Tail(s))) /\ Push(g, Tail(s)) \in Seq(Frame)
<1> DEFINE t == Tail(s)
           f == Head(s)
<1>1. \A S : /\ One(s, S) <=> One(t, S) /\ (f \in S => ~Some(t, S))
             /\ Some(s, S) <=> f \in S \/ Some(t, S)
  BY OnePop
<1>2. t \in Seq(Frame) /\ f \in Frame /\ FramesIn(s) = {f} \union FramesIn(t)
  BY FramesPop
<1>3. \A S : /\ One(Push(g, t), S) <=> One(t, S) /\ (g \in S => ~Some(t, S))
             /\ Some(Push(g, t), S) <=> g \in S \/ Some(t, S)
  BY <1>2, OnePush
<1>4. Push(g, t) \in Seq(Frame) /\ FramesIn(Push(g, t)) = {g} \union FramesIn(t)
  BY <1>2, FramesPush
<1>5. f \notin Resets /\ g \notin Resets /\ f \notin Waiters /\ g \notin Waiters
  BY DEF Waiters, Resets
<1>6. g \in Carriers => f \in Carriers
  BY <1>2 DEF Carriers
<1> HIDE DEF t, f
<1>7. Bears(s, Push(g, t))
  <2>1. One(s, Resets) => One(Push(g, t), Resets)
    BY <1>1, <1>3, <1>5
  <2>2. Some(Push(g, t), Waiters) <=> Some(s, Waiters)
    BY <1>1, <1>3, <1>5
  <2>3. Some(Push(g, t), Carriers) => Some(s, Carriers)
    BY <1>1, <1>3, <1>6
  <2>4. Tokens(s) => Tokens(Push(g, t))
    <3>1. One(s, Carriers) => One(Push(g, t), Carriers)
      BY <1>1, <1>3, <1>6
    <3> QED BY <1>2, <1>4, <3>1 DEF Tokens, f
  <2> QED BY <2>1, <2>2, <2>3, <2>4 DEF Bears
<1> QED BY <1>4, <1>7 DEF t
-----------------------------------------------------------------------------
(* The token that a ResetDevice puts into the system when it writes its    *)
(* request: the request, then its answer in the stream, then the message   *)
(* that a frame has still to hand on.  There is one while a ResetDevice is *)
(* in its event loop, as long as none has given up waiting.                *)
ResetWire ==
    /\ Unique(reqs, Stream, "reset") /\ Tokens(stk)
    /\ Some(stk, Carriers) => Of(reqs, "reset") = {} /\ Answers(Stream, "reset") = {}
    /\ Some(stk, Carriers) \/ Of(reqs, "reset") # {} \/ Answers(Stream, "reset") # {} => Some(stk, Waiters)
ResetInv ==
    /\ One(stk, Resets)
    /\ Some(stk, Waiters) => slot = "live"
    /\ h.wild => h.late
    /\ ~h.late => ResetWire

(* A step with nothing to do with ResetDevice.                             *)
ResetUntouched == /\ Bears(stk, stk') /\ (slot' = slot \/ ~Some(stk, Waiters))
          /\ h'.wild = h.wild /\ h'.late = h.late

LEMMA StillReset ==
    ASSUME ResetInv, ResetUntouched, Fewer("reset")
    PROVE  ResetInv'
<1>1. One(stk', Resets) /\ (Some(stk', Waiters) => slot' = "live") /\ (h'.wild => h'.late)
  BY DEF ResetInv, ResetUntouched, Bears
<1>2. ASSUME ~h'.late PROVE ResetWire'
  <2>1. ResetWire /\ Bears(stk, stk')
    BY <1>2 DEF ResetInv, ResetUntouched
  <2>2. Unique(reqs', Stream', "reset") /\ Tokens(stk')
    BY <2>1 DEF ResetWire, Fewer, Bears
  <2>3. /\ Some(stk', Carriers) => Some(stk, Carriers)
        /\ Some(stk', Waiters) <=> Some(stk, Waiters)
    BY <2>1 DEF Bears
  <2>4. /\ Of(reqs, "reset") = {} => Of(reqs', "reset") = {}
        /\ Answers(Stream, "reset") = {} => Answers(Stream', "reset") = {}
    BY DEF Fewer
  <2> QED BY <2>1, <2>2, <2>3, <2>4 DEF ResetWire
<1> QED BY <1>1, <1>2 DEF ResetInv

LEMMA CarryType ==
    ASSUME NEW f \in Frame
    PROVE  Carry(f) \in Seq(Msg)
<1>1. f.list \in Seq(Msg) /\ f.raw \in Seq(Msg) /\ <<>> \in Seq(Msg)
  BY DEF Frame
<1> QED BY <1>1 DEF Carry

(* The objects of a scan go into the top frame.                            *)
LEMMA TakeReset ==
    ASSUME TypeOK, TypeOK', StreamInv, ResetInv, NEW fs \in Seq(Frag), NEW rest \in Seq(Frag), Scans(fs, rest),
           reqs' = reqs, slot' = slot, h'.wild = h.wild, h'.late = h.late,
           NEW d0 \in Frame, NEW d \in Frame, NEW s \in Seq(Frame), d0.op # "reset", d.op # "reset",
           Carry(d) = Carry(d0) \o Objects(fs), Bears(stk, Push(d0, s)), stk' = Push(d, s)
    PROVE  ResetInv'
<1> DEFINE t == Push(d0, s)
           o == Objects(fs)
<1>1. \A S : /\ One(t, S) <=> One(s, S) /\ (d0 \in S => ~Some(s, S))
             /\ Some(t, S) <=> d0 \in S \/ Some(s, S)
  BY OnePush
<1>2. \A S : /\ One(stk', S) <=> One(s, S) /\ (d \in S => ~Some(s, S))
             /\ Some(stk', S) <=> d \in S \/ Some(s, S)
  BY OnePush
<1>3. d0 \notin Resets /\ d \notin Resets /\ d0 \notin Waiters /\ d \notin Waiters
  BY DEF Waiters, Resets
<1>4. Bears(stk, t) /\ FramesIn(t) = {d0} \union FramesIn(s) /\ FramesIn(stk') = {d} \union FramesIn(s)
  BY FramesPush
<1>5. /\ Fewer("reset") /\ o \in Seq(Msg) /\ Of(o, "reset") \subseteq Answers(Stream, "reset")
      /\ Unique(reqs, Stream, "reset") =>
           /\ Single(o, "reset")
           /\ Of(o, "reset") # {} => Of(reqs', "reset") = {} /\ Answers(Stream', "reset") = {}
  BY ScanUnique
<1> HIDE DEF t, o
<1>6. /\ Of(Carry(d), "reset") = Of(Carry(d0), "reset") \union Of(o, "reset")
      /\ Single(Carry(d0), "reset") /\ Single(o, "reset")
         /\ (Of(Carry(d0), "reset") = {} \/ Of(o, "reset") = {}) => Single(Carry(d), "reset")
  <2>1. Carry(d) = Carry(d0) \o o /\ Carry(d0) \in Seq(Msg)
    BY CarryType DEF o
  <2> QED BY <1>5, <2>1, JoinOf
<1>7. /\ d \in Carriers <=> Of(Carry(d), "reset") # {}
      /\ d0 \in Carriers <=> Of(Carry(d0), "reset") # {}
  BY DEF Carriers
<1>8. One(stk', Resets) /\ (Some(stk', Waiters) <=> Some(stk, Waiters))
  BY <1>1, <1>2, <1>3, <1>4 DEF Bears, ResetInv
<1>9. ASSUME ~h'.late PROVE ResetWire'
  <2>1. ResetWire /\ Tokens(t) /\ (Some(t, Carriers) => Some(stk, Carriers))
    BY <1>4, <1>9 DEF ResetInv, Bears, ResetWire
  <2>2. Unique(reqs', Stream', "reset") /\ Single(o, "reset")
    BY <1>5, <2>1 DEF ResetWire, Fewer
  <2>3. /\ One(t, Carriers) /\ Single(Carry(d0), "reset")
        /\ \A f \in FramesIn(s) : Single(Carry(f), "reset")
    BY <1>4, <2>1 DEF Tokens
  <2>4. Of(reqs', "reset") \subseteq Of(reqs, "reset") /\ Answers(Stream', "reset") \subseteq Answers(Stream, "reset")
    BY <1>5 DEF Fewer
  <2>5. CASE Of(o, "reset") = {}
    <3>1. (d \in Carriers <=> d0 \in Carriers) /\ Single(Carry(d), "reset")
      BY <1>6, <1>7, <2>2, <2>3, <2>5
    <3>2. Tokens(stk') /\ (Some(stk', Carriers) => Some(stk, Carriers))
      BY <1>1, <1>2, <1>4, <2>1, <2>3, <3>1 DEF Tokens
    <3> QED BY <1>8, <2>1, <2>2, <2>4, <3>2 DEF ResetWire
  <2>6. CASE Of(o, "reset") # {}
    <3>1. Answers(Stream, "reset") # {} /\ Of(reqs', "reset") = {} /\ Answers(Stream', "reset") = {}
      BY <1>5, <2>1, <2>6 DEF ResetWire
    <3>2. ~Some(t, Carriers) /\ Some(stk, Waiters)
      BY <2>1, <3>1 DEF ResetWire
    <3>3. d0 \notin Carriers /\ ~Some(s, Carriers)
      BY <1>1, <3>2
    <3>4. Single(Carry(d), "reset")
      BY <1>6, <1>7, <2>2, <2>3, <3>3
    <3>5. Tokens(stk')
      BY <1>1, <1>2, <1>4, <2>3, <3>3, <3>4 DEF Tokens
    <3> QED BY <1>8, <2>2, <3>1, <3>2, <3>5 DEF ResetWire
  <2> QED BY <2>5, <2>6
<1> QED BY <1>8, <1>9 DEF ResetInv

LEMMA AfterOf ==
    ASSUME NEW l \in Seq(Msg), NEW i \in DOMAIN l, NEW fn
    PROVE  /\ After(l, i) \in Seq(Msg) /\ l[i] \in Msg /\ (l # <<>> => Tail(l) = After(l, 1))
           /\ Of(After(l, i), fn) \subseteq Of(l, fn) /\ (Single(l, fn) => Single(After(l, i), fn))
           /\ l[i].fn = fn => l[i] \in Of(l, fn) /\ (Single(l, fn) => Of(After(l, i), fn) = {})
<1> DEFINE p == After(l, i)
<1>1. Len(l) \in Nat /\ DOMAIN l = 1..Len(l) /\ i \in 0..Len(l)
  BY LenProperties
<1>2. p \in Seq(Msg) /\ l[i] \in Msg
  BY <1>1, AfterType, ElementOfSeq
<1>3. l # <<>> => Tail(l) = After(l, 1)
  <2>1. SubSeq(l, 2, Len(l)) = Tail(l)
    OBVIOUS
  <2> QED BY <2>1 DEF After
<1>4. \A j \in DOMAIN p : i + j \in DOMAIN l /\ p[j] = l[i + j] /\ i < i + j
  <2>1. Len(p) = Len(l) - i /\ \A j \in 1..Len(p) : p[j] = l[i + j]
    BY <1>1 DEF After
  <2>2. DOMAIN p = 1..Len(p)
    BY <1>2, LenProperties
  <2> HIDE DEF p
  <2> QED BY <1>1, <2>1, <2>2
<1> HIDE DEF p
<1>5. Of(p, fn) \subseteq Of(l, fn)
  <2> SUFFICES ASSUME NEW x \in Of(p, fn) PROVE x \in Of(l, fn)
    OBVIOUS
  <2>1. PICK j \in DOMAIN p : p[j].fn = fn /\ p[j] = x
    BY OfMember
  <2> QED BY <1>4, <2>1, OfMember
<1>6. Single(l, fn) => Single(p, fn)
  <2> SUFFICES ASSUME Single(l, fn), NEW j \in DOMAIN p, NEW k \in DOMAIN p, j < k, p[j].fn = fn
               PROVE  p[k].fn # fn
    BY DEF Single
  <2>1. i + j \in DOMAIN l /\ i + k \in DOMAIN l /\ p[j] = l[i + j] /\ p[k] = l[i + k]
    BY <1>4
  <2>2. i + j < i + k
    <3>1. DOMAIN p = 1..Len(p) /\ Len(p) \in Nat
      BY <1>2, LenProperties
    <3> QED BY <1>1, <3>1
  <2> QED BY <2>1, <2>2 DEF Single
<1>7. ASSUME l[i].fn = fn, Single(l, fn) PROVE Of(p, fn) = {}
  <2> SUFFICES ASSUME NEW x \in Of(p, fn) PROVE FALSE
    OBVIOUS
  <2>1. PICK j \in DOMAIN p : p[j].fn = fn /\ p[j] = x
    BY OfMember
  <2> QED BY <1>4, <1>7, <2>1 DEF Single
<1>8. l[i].fn = fn => l[i] \in Of(l, fn)
  BY OfMember
<1> QED BY <1>2, <1>3, <1>5, <1>6, <1>7, <1>8 DEF p

LEMMA NoneOne ==
    ASSUME NEW s, NEW S, ~Some(s, S)
    PROVE  One(s, S)
  BY DEF Some, One, FramesIn

(* The lambda of a ResetDevice is called: its frame leaves its loop.       *)
LEMMA AnsweredTokens ==
    ASSUME NEW s \in Seq(Frame), NEW ok \in BOOLEAN
    PROVE  /\ One(s, Resets) => One(Answered(s, ok), Resets)
           /\ ~Some(Answered(s, ok), Waiters)
           /\ ~Some(s, Carriers) => Tokens(Answered(s, ok)) /\ ~Some(Answered(s, ok), Carriers)
<1> DEFINE a == Answered(s, ok)
<1>1. DOMAIN a = DOMAIN s /\ \A i \in DOMAIN s : a[i] = Ended(s[i], ok)
  BY DEF Answered, Ended
<1>2. a \in Seq(Frame) /\ FramesIn(a) = {Ended(f, ok) : f \in FramesIn(s)}
  BY FramesAnswered
<1>3. FramesIn(s) \subseteq Frame /\ FramesIn(a) \subseteq Frame
  BY <1>2, FramesType
<1>4. ASSUME NEW f \in Frame
      PROVE  /\ Ended(f, ok).op = f.op /\ (f.op = "reset" => Ended(f, ok).pc = "ret")
             /\ Of(Carry(Ended(f, ok)), "reset") # {} => Of(Carry(f), "reset") # {}
  <2>1. Ended(f, ok).op = f.op /\ (f.op = "reset" => Ended(f, ok).pc = "ret") /\ (f.op # "reset" => Ended(f, ok) = f)
    BY DEF Ended, Frame
  <2>2. f.op = "reset" => Carry(Ended(f, ok)) = <<>>
    BY <2>1 DEF Carry
  <2> QED BY <2>1, <2>2, NoneOf
<1> HIDE DEF a
<1>5. One(s, Resets) => One(a, Resets)
  <2>1. \A i \in DOMAIN s : s[i] \in Frame
    BY <1>3 DEF FramesIn
  <2>2. \A i \in DOMAIN s : a[i] \in Resets => s[i] \in Resets
    BY <1>1, <1>4, <2>1 DEF Resets
  <2>3. \A i \in DOMAIN s : s[i] \in Resets => a[i] \in Resets
    <3>1. \A i \in DOMAIN s : a[i] \in Frame
      BY <1>1, <1>3 DEF FramesIn
    <3> QED BY <1>1, <1>4, <2>1, <3>1 DEF Resets
  <2> QED BY <1>1, <2>2, <2>3 DEF One
<1>6. ~Some(a, Waiters)
  <2> SUFFICES ASSUME NEW g \in FramesIn(a), g \in Waiters PROVE FALSE
    BY DEF Some
  <2>1. PICK f \in FramesIn(s) : g = Ended(f, ok)
    BY <1>2
  <2> QED BY <1>3, <1>4, <2>1 DEF Waiters, Resets
<1>7. ASSUME ~Some(s, Carriers) PROVE Tokens(a) /\ ~Some(a, Carriers)
  <2>1. ASSUME NEW g \in FramesIn(a) PROVE Of(Carry(g), "reset") = {}
    <3>1. PICK f \in FramesIn(s) : g = Ended(f, ok)
      BY <1>2
    <3>2. Of(Carry(f), "reset") = {}
      BY <1>3, <1>7 DEF Some, Carriers
    <3> QED BY <1>3, <1>4, <3>1, <3>2
  <2>2. ~Some(a, Carriers)
    BY <2>1 DEF Some, Carriers
  <2> QED BY <2>1, <2>2, NoneOne, NoneSingle DEF Tokens
<1> QED BY <1>5, <1>6, <1>7 DEF a

(* The top frame hands on the i-th message of its list.                    *)
LEMMA HandOnReset ==
    ASSUME TypeOK, TypeOK', StreamInv, ResetInv, stk # <<>>, NEW i \in DOMAIN Head(stk).list,
           Dispatch(Head(stk).list[i], Top([Head(stk) EXCEPT !.list = After(Head(stk).list, i)])),
           UNCHANGED <<rx, wire>>, Head(stk).op # "reset", Head(stk).pc # "wait",
           Head(stk).list[i].fn = "reset" => Carry(Head(stk)) = Head(stk).list
    PROVE  ResetInv'
<1> DEFINE f == Head(stk)
           l == f.list
           m == l[i]
           g == [f EXCEPT !.list = After(l, i)]
           u == Push(g, Below)
<1>0. h \in History /\ stk \in Seq(Frame)
  BY StreamTypes
<1>1. f \in Frame /\ Below \in Seq(Frame) /\ FramesIn(stk) = {f} \union FramesIn(Below)
  BY <1>0, FramesPop DEF Below
<1>2. Dispatch(m, u) /\ f.op # "reset" /\ f.pc # "wait" /\ (m.fn = "reset" => Carry(f) = l) /\ i \in DOMAIN l
  BY DEF Top
<1> HIDE DEF f
<1>3. l \in Seq(Msg)
  BY <1>1 DEF Frame
<1>4. /\ After(l, i) \in Seq(Msg) /\ m \in Msg
      /\ Of(After(l, i), "reset") \subseteq Of(l, "reset") /\ (Single(l, "reset") => Single(After(l, i), "reset"))
      /\ m.fn = "reset" => m \in Of(l, "reset") /\ (Single(l, "reset") => Of(After(l, i), "reset") = {})
  BY <1>2, <1>3, AfterOf
<1>5. g \in Frame
  BY <1>1, <1>4 DEF Frame
<1>6. g.op = f.op /\ g.pc = f.pc /\ g.list = After(l, i)
  BY <1>1 DEF Frame
<1> HIDE DEF g, m, l
<1>7. (Carry(f) = l /\ Carry(g) = After(l, i)) \/ (Carry(f) = <<>> /\ Carry(g) = <<>>)
  BY <1>2, <1>6 DEF Carry, l
<1>8. Bears(stk, u) /\ u \in Seq(Frame)
  <2>1. /\ Single(Carry(f), "reset") => Single(Carry(g), "reset")
        /\ Of(Carry(g), "reset") \subseteq Of(Carry(f), "reset")
    BY <1>4, <1>7
  <2> QED BY <1>0, <1>2, <1>5, <1>6, <2>1, BearsTop DEF f, Below
<1>9. Fewer("reset")
  <2>1. ClientMove
    BY <1>2, DispatchStream DEF ClientMove
  <2>2. reqs' = reqs
    BY <1>2 DEF Dispatch, service
  <2> QED BY <2>1, <2>2, ClientFewer
<1>10. slot' = slot /\ h'.late = h.late /\ h'.wild = (h.wild \/ (m.fn = "reset" /\ slot = "dead"))
  BY <1>0, <1>2 DEF Dispatch, History
<1>11. CASE m.fn # "reset"
  <2> DEFINE c == NewFrame("cb", "run")
  <2>1. stk' = Push(c, u) \/ stk' = u
    BY <1>2, <1>11 DEF Dispatch
  <2>2. c \in Frame /\ Plain(c)
    BY FrameType, NoneOf DEF Op, Pc, Plain, Carry, NewFrame
  <2> HIDE DEF c, u
  <2>3. Bears(stk, stk')
    BY <1>8, <2>1, <2>2, BearsPush, BearsTrans
  <2>4. h'.wild = h.wild
    BY <1>0, <1>10, <1>11 DEF History
  <2> QED BY <1>9, <1>10, <2>3, <2>4, StillReset DEF ResetUntouched
<1>12. CASE m.fn = "reset" /\ slot = "live"
  <2>1. stk' = Answered(u, m.ok) /\ m.ok \in BOOLEAN
    BY <1>2, <1>4, <1>12 DEF Dispatch, Msg
  <2>2. /\ One(u, Resets) => One(stk', Resets)
        /\ ~Some(stk', Waiters)
        /\ ~Some(u, Carriers) => Tokens(stk') /\ ~Some(stk', Carriers)
    BY <1>8, <2>1, AnsweredTokens
  <2>3. h'.wild = h.wild
    BY <1>0, <1>10, <1>12 DEF History
  <2>4. ASSUME ~h'.late PROVE ResetWire'
    <3>1. ResetWire
      BY <1>10, <2>4 DEF ResetInv
    <3>2. f \in Carriers /\ Some(stk, Carriers)
      BY <1>1, <1>2, <1>4, <1>12 DEF Carriers, Some
    <3>3. One(stk, Carriers) /\ Single(Carry(f), "reset")
      BY <1>1, <3>1 DEF ResetWire, Tokens
    <3>4. ~Some(Below, Carriers)
      BY <1>0, <3>2, <3>3, OnePop DEF f, Below
    <3>5. Of(Carry(g), "reset") = {}
      BY <1>2, <1>4, <1>7, <1>12, <3>3, NoneOf
    <3>6. ~Some(u, Carriers)
      BY <1>1, <1>5, <3>4, <3>5, OnePush DEF Carriers
    <3>7. Of(reqs', "reset") = {} /\ Answers(Stream', "reset") = {} /\ Unique(reqs', Stream', "reset")
      BY <1>9, <3>1, <3>2 DEF ResetWire, Fewer
    <3> QED BY <2>2, <3>6, <3>7 DEF ResetWire
  <2> QED BY <1>8, <1>10, <2>2, <2>3, <2>4 DEF ResetInv, Bears
<1>13. CASE m.fn = "reset" /\ slot # "live"
  <2>1. h.late
    <3>1. Some(stk, Carriers)
      BY <1>1, <1>2, <1>4, <1>13 DEF Carriers, Some
    <3> QED BY <1>0, <1>13, <3>1 DEF ResetInv, ResetWire, History
  <2>2. stk' = u
    BY <1>2, <1>13 DEF Dispatch
  <2> HIDE DEF u
  <2> QED BY <1>8, <1>10, <2>1, <2>2 DEF ResetInv, Bears
<1> QED BY <1>11, <1>12, <1>13

(* Frames that come and go without messages.                               *)
LEMMA BlankPlain ==
    ASSUME NEW f, Blank(f)
    PROVE  f \in Frame /\ Carry(f) = <<>> /\ (f.op # "reset" => Plain(f))
<1>1. f \in Frame /\ Carry(f) = <<>>
  BY DEF Blank, Carry
<1> QED BY <1>1, NoneOf DEF Plain

LEMMA CalmReset ==
    ASSUME TypeOK, TypeOK', StreamInv, ResetInv, ClientMove, reqs' = reqs \/ reqs' = <<>>, ResetUntouched
    PROVE  ResetInv'
  BY ClientFewer, StillReset

(* The synchronous calls.                                                  *)
LEMMA WriteReset ==
    ASSUME TypeOK, TypeOK', StreamInv, ResetInv, NEW fn \in {"get", "event"}, NEW t \in SignalType,
           NEW w, NEW e, NEW s \in Seq(Frame), Bears(stk, s), Blank(w), Blank(e), w.op # "reset", e.op # "reset",
           SyncWrite(fn, t, w, e, s) \/ NoWrite(e, s), UNCHANGED <<rx, slot, conn>>
    PROVE  ResetInv'
<1>0. h \in History /\ nreq \in Nat
  BY DEF TypeOK
<1>1. h'.wild = h.wild /\ h'.late = h.late
  BY <1>0 DEF SyncWrite, NoWrite, History
<1>2. Bears(stk, stk')
  <2> DEFINE v == [w EXCEPT !.rid = nreq + 1]
  <2>1. Blank(v)
    <3>1. nreq + 1 \in Nat
      BY <1>0
    <3>2. \A n \in Nat : Blank([w EXCEPT !.rid = n])
      BY BlankWith
    <3> QED BY <3>1, <3>2
  <2>2. v.op # "reset"
    BY DEF Blank, Frame
  <2>3. stk' = Push(v, s) \/ stk' = Push(e, s)
    BY DEF SyncWrite, NoWrite
  <2> HIDE DEF v
  <2>4. v \in Frame /\ e \in Frame /\ Plain(v) /\ Plain(e)
    BY <2>1, <2>2, BlankPlain
  <2> QED BY <2>3, <2>4, BearsPush, BearsTrans
<1>3. Fewer("reset")
  <2>1. CASE reqs' = reqs
    <3>1. ClientMove
      BY WriteStream DEF ClientMove, NoWrite
    <3> QED BY <2>1, <3>1, ClientFewer
  <2>2. CASE sock' = "connected" /\ SyncWrite(fn, t, w, e, s)
    BY <2>2, CallWire
  <2>3. reqs' = reqs \/ (sock' = "connected" /\ SyncWrite(fn, t, w, e, s))
    BY DEF SyncWrite, NoWrite
  <2> QED BY <2>1, <2>2, <2>3
<1> QED BY <1>1, <1>2, <1>3, StillReset DEF ResetUntouched

LEMMA CallReset ==
    ASSUME TypeOK, TypeOK', StreamInv, ResetInv, NEW s \in Seq(Frame), Bears(stk, s),
           GetDeviceinfo(s) \/ \E t \in SignalType : SubscribeDeviceEvent(t, s)
    PROVE  ResetInv'
<1>1. UNCHANGED <<rx, slot, conn>>
  BY DEF GetDeviceinfo, SubscribeDeviceEvent, CallUnchanged
<1>2. CASE GetDeviceinfo(s)
  <2> DEFINE w == NewFrame("get", "wait")
             e == NewFrame("get", "ret")
  <2>1. Blank(w) /\ Blank(e)
    BY BlankNew DEF Op, Pc
  <2>2. w.op # "reset" /\ e.op # "reset" /\ "CHANGED" \in SignalType
    BY DEF NewFrame, SignalType
  <2>3. SyncWrite("get", "CHANGED", w, e, s) \/ NoWrite(e, s)
    BY <1>2 DEF GetDeviceinfo
  <2> HIDE DEF w, e
  <2> QED BY <1>1, <2>1, <2>2, <2>3, WriteReset
<1>3. ASSUME NEW t \in SignalType, SubscribeDeviceEvent(t, s) PROVE ResetInv'
  <2> DEFINE f(pc) == [NewFrame("sub", pc) EXCEPT !.todo = <<t>>]
             w == f("wait")
             e == f("left")
             n == [f("ret") EXCEPT !.ok = TRUE]
  <2>1. \A pc \in {"ret", "wait", "left"} : Blank(f(pc)) /\ f(pc).op = "sub"
    <3> TAKE pc \in {"ret", "wait", "left"}
    <3>1. Blank(NewFrame("sub", pc)) /\ <<t>> \in Seq(SignalType)
      BY BlankNew DEF Op, Pc
    <3>2. f(pc).op = "sub"
      BY DEF NewFrame
    <3> QED BY <3>1, <3>2, BlankWith
  <2>2. SyncWrite("event", t, w, e, s) \/ NoWrite(n, s)
    BY <1>3 DEF SubscribeDeviceEvent
  <2> HIDE DEF f
  <2>3. Blank(n) /\ n.op = "sub"
    <3>1. Blank(f("ret")) /\ f("ret").op = "sub"
      BY <2>1
    <3>2. Blank(n)
      BY <3>1, BlankWith
    <3> QED BY <3>1, <3>2 DEF Blank, Frame
  <2>4. Blank(w) /\ Blank(e) /\ w.op = "sub" /\ e.op = "sub"
    BY <2>1
  <2> HIDE DEF w, e, n
  <2>5. CASE SyncWrite("event", t, w, e, s)
    BY <1>1, <2>4, <2>5, WriteReset
  <2>6. CASE NoWrite(n, s)
    BY <1>1, <2>3, <2>6, WriteReset
  <2> QED BY <2>2, <2>5, <2>6
<1> QED BY <1>2, <1>3

LEMMA ConnectReset ==
    ASSUME TypeOK, TypeOK', StreamInv, ResetInv, ClientMove, NEW s \in Seq(Frame), Bears(stk, s), NEW b, NEW o,
           OnConnected(s) \/ ConnectFails(s, b, o) \/ ConnectPends(s, o),
           slot' = slot \/ ~Some(stk, Waiters)
    PROVE  ResetInv'
<1> DEFINE f == [NewFrame("refresh", "run") EXCEPT !.todo = Events]
<1>0. h \in History
  BY DEF TypeOK
<1>1. h'.wild = h.wild /\ h'.late = h.late
  BY <1>0 DEF OnConnected, ConnectFails, ConnectPends, History
<1>2. reqs' = reqs \/ reqs' = <<>>
  BY DEF OnConnected, ConnectFails, ConnectPends, session
<1>3. stk' = s \/ stk' = Push(f, s)
  BY DEF OnConnected, ConnectFails, ConnectPends
<1>4. Blank(f) /\ f.op = "refresh"
  <2>1. Blank(NewFrame("refresh", "run")) /\ Events \in Seq(SignalType)
    BY BlankNew DEF Op, Pc, Events, SignalType
  <2>2. f.op = "refresh"
    BY DEF NewFrame
  <2> QED BY <2>1, <2>2, BlankWith
<1> HIDE DEF f
<1>5. Bears(stk, stk')
  BY <1>3, <1>4, BlankPlain, BearsPush, BearsTrans
<1> QED BY <1>1, <1>2, <1>5, CalmReset DEF ResetUntouched
-----------------------------------------------------------------------------
(* Each action keeps the invariant of ResetDevice.                         *)
LEMMA PopReset ==
    ASSUME TypeOK, TypeOK', StreamInv, ResetInv, ClientMove, stk # <<>>, Head(stk).op # "reset", stk' = Below,
           reqs' = reqs, slot' = slot, h'.wild = h.wild, h'.late = h.late
    PROVE  ResetInv'
<1>1. stk \in Seq(Frame)
  BY StreamTypes
<1>2. Bears(stk, stk')
  BY <1>1, BearsPop DEF Below
<1> QED BY <1>2, CalmReset DEF ResetUntouched

LEMMA DrainReset ==
    ASSUME TypeOK, TypeOK', StreamInv, ResetInv, DrainSocketMessages
    PROVE  ResetInv'
<1> DEFINE f == Head(stk)
           g == [f EXCEPT !.pc = "ret", !.list = <<>>]
           n == NewFrame("drain", "run")
           o == Objects(rx \o buf)
           d == [n EXCEPT !.list = o]
<1>0. /\ stk \in Seq(Frame) /\ stk # <<>> /\ f.op \in {"get", "sub"}
      /\ rx \o buf \in Seq(Frag) /\ net \in Seq(Frag) /\ Scans(rx \o buf, net)
  BY StreamTypes, DrainStream DEF DrainSocketMessages, Running
<1>1. f \in Frame /\ Below \in Seq(Frame)
  BY <1>0, FramesPop DEF Below
<1>2. stk' = Push(d, Push(g, Below)) /\ reqs' = reqs /\ slot' = slot /\ h' = h
  BY DEF DrainSocketMessages, Top, service
<1> HIDE DEF f
<1>3. g \in Frame
  <2>1. <<>> \in Seq(Msg)
    OBVIOUS
  <2> QED BY <1>1, <2>1 DEF Frame, Pc
<1>4. g.op = f.op /\ g.pc = "ret"
  BY <1>1 DEF Frame
<1> HIDE DEF g
<1>5. Carry(g) = <<>>
  BY <1>0, <1>4 DEF Carry
<1>6. Bears(stk, Push(g, Below)) /\ Push(g, Below) \in Seq(Frame)
  <2>1. Single(Carry(g), "reset") /\ Of(Carry(g), "reset") = {}
    BY <1>5, NoneOf
  <2> QED BY <1>0, <1>3, <1>4, <2>1, BearsTop DEF f, Below
<1>7. n \in Frame /\ n.op = "drain" /\ n.list = <<>> /\ o \in Seq(Msg)
  BY <1>0, FrameType, ExtractType DEF Op, Pc, NewFrame
<1> HIDE DEF n, o
<1>8. d \in Frame
  BY <1>7 DEF Frame
<1>9. d.op = "drain" /\ d.list = o
  BY <1>7 DEF Frame
<1> HIDE DEF d
<1>10. Carry(n) = <<>> /\ Carry(d) = o
  BY <1>7, <1>9 DEF Carry
<1>11. Bears(stk, Push(n, Push(g, Below)))
  <2>1. Plain(n)
    BY <1>7, <1>10, NoneOf DEF Plain
  <2> QED BY <1>6, <1>7, <2>1, BearsPush, BearsTrans
<1>12. Carry(d) = Carry(n) \o Objects(rx \o buf)
  BY <1>7, <1>10 DEF o
<1> QED BY <1>0, <1>2, <1>6, <1>7, <1>8, <1>9, <1>11, <1>12, TakeReset

LEMMA GetReturnReset ==
    ASSUME TypeOK, TypeOK', StreamInv, ResetInv, ClientMove, GetReturn
    PROVE  ResetInv'
<1> DEFINE f == Head(stk)
           k == Head(Below)
<1>0. stk \in Seq(Frame) /\ stk # <<>> /\ f.op = "get" /\ reqs' = reqs /\ slot' = slot /\ h' = h
  BY StreamTypes DEF GetReturn, Running, service
<1>1. Bears(stk, Below) /\ Below \in Seq(Frame) /\ f \in Frame
  BY <1>0, BearsPop, FramesPop DEF Below
<1>2. \/ stk' = Below
      \/ Below # <<>> /\ k.op = "refresh" /\ stk' = Tail(Below)
      \/ /\ Below # <<>> /\ k.op = "refresh"
         /\ \E i \in DOMAIN f.raw :
              stk' = Push([k EXCEPT !.pc = "ret", !.raw = <<f.raw[i]>>], Tail(Below))
  BY DEF GetReturn
<1>3. ASSUME Below # <<>>, k.op = "refresh" PROVE Bears(Below, Tail(Below))
  BY <1>1, <1>3, BearsPop
<1>4. ASSUME Below # <<>>, k.op = "refresh", NEW i \in DOMAIN f.raw
      PROVE  Bears(Below, Push([k EXCEPT !.pc = "ret", !.raw = <<f.raw[i]>>], Tail(Below)))
  <2> DEFINE q == <<f.raw[i]>>
             g == [k EXCEPT !.pc = "ret", !.raw = q]
  <2>1. f.raw[i] \in Msg
    <3>1. f.raw \in Seq(Msg)
      BY <1>1 DEF Frame
    <3> QED BY <1>4, <3>1, ElementOfSeq, LenProperties
  <2>2. q \in Seq(Msg)
    BY <2>1
  <2>3. k \in Frame /\ k.op = "refresh"
    BY <1>1, <1>4, FramesPop
  <2> HIDE DEF q, k
  <2>4. g \in Frame /\ g.op = "refresh"
    BY <2>2, <2>3 DEF Frame, Pc
  <2> HIDE DEF g
  <2>5. Single(Carry(g), "reset") /\ Of(Carry(g), "reset") = {}
    BY <2>4, NoneOf DEF Carry
  <2>6. Bears(Below, Push(g, Tail(Below)))
    BY <1>1, <1>4, <2>3, <2>4, <2>5, BearsTop DEF k
  <2> QED BY <2>6 DEF g, q
<1>5. Bears(stk, stk')
  <2>1. stk' = Below \/ Bears(Below, stk')
    BY <1>2, <1>3, <1>4
  <2> QED BY <1>1, <2>1, BearsTrans
<1> QED BY <1>0, <1>5, CalmReset DEF ResetUntouched

LEMMA SwapPlain ==
    ASSUME TypeOK, stk # <<>>, Head(stk).op # "reset", NEW g \in Frame, Plain(g)
    PROVE  Bears(stk, Push(g, Below)) /\ Push(g, Below) \in Seq(Frame)
<1>1. stk \in Seq(Frame) /\ g.op # "reset" /\ Of(Carry(g), "reset") = {}
  BY StreamTypes DEF Plain
<1>2. Single(Carry(g), "reset")
  BY PlainFrame
<1> QED BY <1>1, <1>2, BearsTop DEF Below

LEMMA UnwindReset ==
    ASSUME TypeOK, TypeOK', StreamInv, ResetInv, Unwind
    PROVE  ResetInv'
<1> DEFINE f == Head(stk)
<1>0. h \in History /\ stk \in Seq(Frame) /\ ClientMove
  BY StreamTypes, UnwindStream
<1>1. stk # <<>>
  BY DEF Unwind, InitReturn, HandleNext, HandleDone, CallbackReturn, LeftoverNext, LeftoverDone, PendingNext,
         DrainSocketMessages, GetReturn, SubReturn, RefreshSubscribe, RefreshGet, RefreshNothing,
         RefreshReport, ResetReturn, Running
<1>2. f \in Frame /\ Below \in Seq(Frame)
  BY <1>0, <1>1, FramesPop DEF Below
<1>3. f.list \in Seq(Msg) /\ f.raw \in Seq(Msg)
  BY <1>2 DEF Frame
<1>4. CASE InitReturn \/ HandleDone \/ CallbackReturn \/ RefreshNothing \/ SubReturn
  <2>1. stk' = Below /\ f.op # "reset" /\ reqs' = reqs /\ slot' = slot
    BY <1>4 DEF InitReturn, HandleDone, CallbackReturn, RefreshNothing, SubReturn, service, Running
  <2>2. h'.wild = h.wild /\ h'.late = h.late
    BY <1>0, <1>4 DEF InitReturn, HandleDone, CallbackReturn, RefreshNothing, SubReturn, History
  <2> QED BY <1>0, <1>1, <2>1, <2>2, PopReset
<1>5. CASE HandleNext
  <2>1. /\ f.list # <<>> /\ Dispatch(Head(f.list), Top([f EXCEPT !.list = Tail(f.list)])) /\ UNCHANGED <<rx, wire>>
        /\ f.op \in {"onReadyRead", "drain"} /\ f.pc = "run"
    BY <1>5 DEF HandleNext, Running
  <2>2. 1 \in DOMAIN f.list /\ Head(f.list) = f.list[1]
    BY <1>3, <2>1
  <2>3. Tail(f.list) = After(f.list, 1)
    BY <1>3, <2>1, <2>2, AfterOf
  <2>4. Carry(f) = f.list
    BY <2>1 DEF Carry
  <2> QED BY <1>1, <2>1, <2>2, <2>3, <2>4, HandOnReset
<1>6. CASE LeftoverNext
  <2>1. PICK i \in DOMAIN f.list : Dispatch(f.list[i], Top([f EXCEPT !.list = After(f.list, i)]))
    BY <1>6 DEF LeftoverNext
  <2>2. UNCHANGED <<rx, wire>> /\ f.op = "sub" /\ f.pc = "left"
    BY <1>6 DEF LeftoverNext, Running
  <2>3. Carry(f) = f.list
    BY <2>2 DEF Carry
  <2> QED BY <1>1, <2>1, <2>2, <2>3, HandOnReset
<1>7. CASE PendingNext
  <2>1. PICK i \in DOMAIN f.list : /\ First(f.list, i, IsInd)
                                   /\ Dispatch(f.list[i], Top([f EXCEPT !.list = After(f.list, i)]))
    BY <1>7 DEF PendingNext
  <2>2. UNCHANGED <<rx, wire>> /\ f.op \in {"get", "sub"} /\ f.pc = "ind"
    BY <1>7 DEF PendingNext, Running
  <2>3. f.list[i].fn = "ind"
    BY <2>1 DEF First, IsInd
  <2> QED BY <1>1, <2>1, <2>2, <2>3, HandOnReset
<1>8. CASE LeftoverDone
  <2> DEFINE g == [f EXCEPT !.pc = "ind", !.list = f.raw]
  <2>1. UNCHANGED <<reqs, slot, h>> /\ stk' = Push(g, Below) /\ f.op = "sub"
    BY <1>8 DEF LeftoverDone, service, Top, Running
  <2> HIDE DEF f
  <2>2. g \in Frame
    BY <1>2, <1>3 DEF Frame, Pc
  <2>3. g.op = f.op /\ g.pc = "ind"
    BY <1>2 DEF Frame
  <2> HIDE DEF g
  <2>4. Plain(g)
    BY <2>1, <2>3, NoneOf DEF Plain, Carry
  <2>5. Bears(stk, stk')
    BY <1>1, <2>1, <2>2, <2>4, SwapPlain DEF f
  <2> QED BY <1>0, <2>1, <2>5, CalmReset DEF ResetUntouched
<1>9. CASE DrainSocketMessages
  BY <1>9, DrainReset
<1>10. CASE GetReturn
  BY <1>0, <1>10, GetReturnReset
<1>11. CASE RefreshReport
  <2> DEFINE g == NewFrame("cb", "run")
  <2>1. UNCHANGED <<reqs, slot, h>> /\ f.op = "refresh" /\ (stk' = Push(g, Below) \/ stk' = Below)
    BY <1>11 DEF RefreshReport, service, Running, Top
  <2>2. Blank(g) /\ g.op # "reset"
    BY BlankNew DEF Op, Pc, NewFrame
  <2> HIDE DEF g
  <2>3. Bears(stk, Push(g, Below))
    BY <1>1, <2>1, <2>2, BlankPlain, SwapPlain
  <2>4. stk' = Push(g, Below) => ResetInv'
    BY <1>0, <2>1, <2>3, CalmReset DEF ResetUntouched
  <2> QED BY <1>0, <1>1, <2>1, <2>4, PopReset
<1>12. CASE RefreshSubscribe
  <2>1. PICK i \in DOMAIN f.todo : SubscribeDeviceEvent(f.todo[i], Top([f EXCEPT !.todo = After(@, i), !.ok = TRUE]))
    BY <1>12 DEF RefreshSubscribe
  <2> DEFINE r == After(f.todo, i)
             g == [f EXCEPT !.todo = r, !.ok = TRUE]
  <2>2. f.todo \in Seq(SignalType) /\ f.op = "refresh"
    BY <1>2, <1>12 DEF Frame, RefreshSubscribe, Running
  <2>3. f.todo[i] \in SignalType /\ r \in Seq(SignalType)
    BY <2>2, AfterType, ElementOfSeq, LenProperties
  <2>4. \E t \in SignalType : SubscribeDeviceEvent(t, Push(g, Below))
    BY <2>1, <2>3 DEF Top
  <2> HIDE DEF f, r
  <2>5. g \in Frame /\ g.op = "refresh"
    BY <1>2, <2>2, <2>3 DEF Frame
  <2> HIDE DEF g
  <2>6. Plain(g)
    BY <2>5, NoneOf DEF Plain, Carry
  <2>7. Bears(stk, Push(g, Below)) /\ Push(g, Below) \in Seq(Frame)
    BY <1>1, <2>2, <2>5, <2>6, SwapPlain DEF f
  <2> QED BY <2>4, <2>7, CallReset
<1>13. CASE RefreshGet
  <2> DEFINE g == [f EXCEPT !.pc = "wait"]
  <2>1. f.op = "refresh" /\ GetDeviceinfo(Push(g, Below))
    BY <1>13 DEF RefreshGet, Running, Top
  <2> HIDE DEF f
  <2>2. g \in Frame /\ g.op = "refresh"
    BY <1>2, <2>1 DEF Frame, Pc
  <2> HIDE DEF g
  <2>3. Plain(g)
    BY <2>2, NoneOf DEF Plain, Carry
  <2>4. Bears(stk, Push(g, Below)) /\ Push(g, Below) \in Seq(Frame)
    BY <1>1, <2>1, <2>2, <2>3, SwapPlain DEF f
  <2> QED BY <2>1, <2>4, CallReset
<1>14. CASE ResetReturn
  <2>1. UNCHANGED <<reqs, h>> /\ stk' = Below /\ f.op = "reset" /\ f.pc = "ret"
    BY <1>14 DEF ResetReturn, service, Running
  <2>2. Bears(stk, stk')
    BY <1>0, <1>1, <2>1, BearsPop DEF Below
  <2>3. ~Some(stk, Waiters)
    <3>1. f \in Resets /\ f \notin Waiters
      BY <1>2, <2>1 DEF Resets, Waiters
    <3>2. ~Some(Below, Resets)
      BY <1>0, <1>1, <3>1, OnePop DEF ResetInv, Below
    <3>3. ~Some(Below, Waiters)
      BY <3>2 DEF Some, Waiters
    <3> QED BY <1>0, <1>1, <3>1, <3>3, OnePop DEF Below
  <2> QED BY <1>0, <2>1, <2>2, <2>3, CalmReset DEF ResetUntouched
<1> QED BY <1>4, <1>5, <1>6, <1>7, <1>8, <1>9, <1>10, <1>11, <1>12, <1>13, <1>14 DEF Unwind

LEMMA ReadReset ==
    ASSUME TypeOK, TypeOK', StreamInv, ResetInv, SyncRead
    PROVE  ResetInv'
<1> DEFINE f == Head(stk)
<1>0. /\ h \in History /\ stk \in Seq(Frame) /\ stk # <<>> /\ f.op \in {"get", "sub"} /\ f.pc = "wait" /\ ClientMove
      /\ reqs' = reqs /\ slot' = slot
  BY StreamTypes DEF SyncRead, Syncing, Running, service, ClientMove, Reads
<1>1. f \in Frame /\ Below \in Seq(Frame) /\ Push(f, Below) = stk
  BY <1>0, FramesPop DEF Below, Push
<1>2. PICK fs \in Seq(Frag), rest \in Seq(Frag) :
        LET d == [f EXCEPT !.raw = @ \o Objects(fs)]
        IN  /\ Scans(fs, rest)
            /\ stk' = Top(IF HasAnswer(d.op, d.raw) THEN EndWait(d) ELSE d)
            /\ h' = [h EXCEPT !.wrong = @ \/ (d.op = "get" /\ ~h.expired /\ TakesOther(d))]
  BY SyncReadStream
<1> DEFINE q == f.raw \o Objects(fs)
           d == [f EXCEPT !.raw = q]
           g == IF HasAnswer(d.op, d.raw) THEN EndWait(d) ELSE d
<1>3. Scans(fs, rest) /\ stk' = Push(g, Below)
  BY <1>2 DEF Top
<1>4. h'.wild = h.wild /\ h'.late = h.late
  BY <1>0, <1>2 DEF History
<1> HIDE DEF f
<1>5. f.raw \in Seq(Msg) /\ q \in Seq(Msg)
  <2>1. f.raw \in Seq(Msg) /\ Objects(fs) \in Seq(Msg)
    BY <1>1, ExtractType DEF Frame
  <2> QED BY <2>1, ConcatProperties
<1> HIDE DEF q
<1>6. d \in Frame
  BY <1>1, <1>5 DEF Frame
<1>7. d.op = f.op /\ d.pc = "wait" /\ d.raw = q
  BY <1>0, <1>1 DEF Frame
<1> HIDE DEF d
<1>8. g \in Frame /\ g.op = f.op /\ (f.op = "sub" => Carry(g) = q)
  <2>1. /\ EndWait(d) \in Frame /\ EndWait(d).op = f.op /\ EndWait(d).list = q
        /\ f.op = "sub" => EndWait(d).pc = "left"
    BY <1>0, <1>6, <1>7, EndedWait
  <2>2. f.op = "sub" => Carry(EndWait(d)) = q /\ Carry(d) = q
    BY <1>7, <2>1 DEF Carry
  <2> QED BY <1>6, <1>7, <2>1, <2>2
<1> HIDE DEF g
<1>9. CASE f.op = "get"
  <2>1. Plain(g)
    BY <1>8, <1>9, NoneOf DEF Plain, Carry
  <2>2. Bears(stk, stk')
    BY <1>0, <1>3, <1>8, <1>9, <2>1, SwapPlain DEF f
  <2> QED BY <1>0, <1>4, <2>2, CalmReset DEF ResetUntouched
<1>10. CASE f.op = "sub"
  <2>1. Carry(f) = f.raw
    BY <1>0, <1>10 DEF Carry
  <2>2. Carry(g) = Carry(f) \o Objects(fs)
    BY <1>8, <1>10, <2>1 DEF q
  <2>3. Bears(stk, Push(f, Below))
    BY <1>1, BearsSame
  <2> QED BY <1>0, <1>1, <1>3, <1>4, <1>8, <1>10, <2>2, <2>3, TakeReset
<1> QED BY <1>0, <1>9, <1>10

LEMMA WaitingReset ==
    ASSUME TypeOK, TypeOK', StreamInv, ResetInv, Waiting
    PROVE  ResetInv'
<1> DEFINE f == Head(stk)
<1>0. h \in History /\ stk \in Seq(Frame) /\ ClientMove
  BY StreamTypes, WaitingStream
<1>1. CASE SyncRead
  BY <1>1, ReadReset
<1>2. CASE SyncTimeout \/ SyncEof
  <2> DEFINE g == EndWait(f)
  <2>1. /\ stk # <<>> /\ f.op \in {"get", "sub"} /\ f.pc = "wait" /\ stk' = Push(g, Below)
        /\ reqs' = reqs /\ slot' = slot
    BY <1>2 DEF SyncTimeout, SyncEof, Syncing, Running, service, Top
  <2>2. h'.wild = h.wild /\ h'.late = h.late
    BY <1>0, <1>2 DEF SyncTimeout, SyncEof, History
  <2>3. f \in Frame
    BY <1>0, <2>1, FramesPop
  <2> HIDE DEF f
  <2>4. g \in Frame /\ g.op = f.op /\ g.list = f.raw /\ g.pc = (IF f.op = "get" THEN "ind" ELSE "left")
    BY <2>1, <2>3, EndedWait
  <2> HIDE DEF g
  <2>5. Carry(g) = Carry(f)
    BY <2>1, <2>4 DEF Carry
  <2>6. Bears(stk, stk')
    BY <1>0, <2>1, <2>4, <2>5, BearsTop DEF f, Below
  <2> QED BY <1>0, <2>1, <2>2, <2>6, CalmReset DEF ResetUntouched
<1>3. CASE ResetTimeout
  <2> DEFINE g == [f EXCEPT !.pc = "ret"]
  <2>1. stk # <<>> /\ f.op = "reset" /\ f.pc = "wait" /\ stk' = Push(g, Below) /\ slot' = slot
    BY <1>3 DEF ResetTimeout, Running, Top
  <2>2. h'.late
    BY <1>0, <1>3 DEF ResetTimeout, History
  <2>3. f \in Frame /\ Below \in Seq(Frame)
    BY <1>0, <2>1, FramesPop DEF Below
  <2> HIDE DEF f
  <2>4. g \in Frame /\ g.op = "reset" /\ g.pc = "ret"
    BY <2>1, <2>3 DEF Frame, Pc
  <2> HIDE DEF g
  <2>5. f \in Resets /\ g \in Resets /\ g \notin Waiters
    BY <2>1, <2>3, <2>4 DEF Resets, Waiters
  <2>6. One(Below, Resets) /\ ~Some(Below, Resets)
    BY <1>0, <2>1, <2>5, OnePop DEF ResetInv, f, Below
  <2>7. One(stk', Resets)
    BY <2>1, <2>3, <2>4, <2>5, <2>6, OnePush
  <2>8. ~Some(stk', Waiters)
    <3>1. ~Some(Below, Waiters)
      BY <2>6 DEF Some, Waiters
    <3> QED BY <2>1, <2>3, <2>4, <2>5, <3>1, OnePush
  <2> QED BY <2>2, <2>7, <2>8 DEF ResetInv
<1> QED BY <1>1, <1>2, <1>3 DEF Waiting

LEMMA LoopEventReset ==
    ASSUME TypeOK, TypeOK', StreamInv, ResetInv, LoopEvent
    PROVE  ResetInv'
<1>0. h \in History /\ stk \in Seq(Frame) /\ ClientMove /\ slot' = slot
  BY StreamTypes, LoopEventStream DEF LoopEvent, OnReadyRead, OnDisconnected, RetryConnection, ConnectDone
<1>1. Bears(stk, stk)
  BY BearsSame
<1>2. CASE OnReadyRead
  <2>1. UNCHANGED <<reqs, h>>
    BY <1>2 DEF OnReadyRead, service
  <2>2. CASE stk' = stk
    BY <1>0, <1>1, <2>1, <2>2, CalmReset DEF ResetUntouched
  <2>3. ASSUME NEW fs \in Seq(Frag), NEW rest \in Seq(Frag), Scans(fs, rest),
               stk' = Push([NewFrame("onReadyRead", "run") EXCEPT !.list = Objects(fs)], stk)
        PROVE  ResetInv'
    <3> DEFINE n == NewFrame("onReadyRead", "run")
               o == Objects(fs)
               d == [n EXCEPT !.list = o]
    <3>1. stk' = Push(d, stk)
      BY <2>3
    <3>2. n \in Frame /\ n.op = "onReadyRead" /\ n.list = <<>> /\ o \in Seq(Msg)
      BY FrameType, ExtractType DEF Op, Pc, NewFrame
    <3> HIDE DEF n, o
    <3>3. d \in Frame
      BY <3>2 DEF Frame
    <3>4. d.op = "onReadyRead" /\ d.list = o
      BY <3>2 DEF Frame
    <3> HIDE DEF d
    <3>5. Carry(n) = <<>> /\ Carry(d) = o
      BY <3>2, <3>4 DEF Carry
    <3>6. Bears(stk, Push(n, stk))
      <4>1. Plain(n)
        BY <3>2, <3>5, NoneOf DEF Plain
      <4> QED BY <1>0, <3>2, <4>1, BearsPush
    <3>7. Carry(d) = Carry(n) \o Objects(fs)
      BY <3>2, <3>5 DEF o
    <3> QED BY <1>0, <2>1, <2>3, <3>1, <3>2, <3>3, <3>4, <3>6, <3>7, TakeReset
  <2> QED BY <1>2, <2>2, <2>3, ReadyReadStream
<1>3. CASE OnDisconnected
  <2>1. stk' = stk /\ reqs' = reqs
    BY <1>3 DEF OnDisconnected, service
  <2>2. h'.wild = h.wild /\ h'.late = h.late
    BY <1>0, <1>3 DEF OnDisconnected, History
  <2> QED BY <1>0, <1>1, <2>1, <2>2, CalmReset DEF ResetUntouched
<1>4. CASE RetryConnection \/ ConnectDone
  <2>1. \E b, o : OnConnected(stk) \/ ConnectFails(stk, b, o) \/ ConnectPends(stk, o)
    BY <1>4 DEF RetryConnection, ConnectDone, ConnectToServer
  <2> QED BY <1>0, <1>1, <2>1, ConnectReset
<1> QED BY <1>2, <1>3, <1>4 DEF LoopEvent

LEMMA ResetDeviceReset ==
    ASSUME TypeOK, TypeOK', StreamInv, ResetInv, ClientMove, ResetDevice
    PROVE  ResetInv'
<1>0. h \in History /\ stk \in Seq(Frame)
  BY StreamTypes
<1>1. h'.wild = h.wild /\ h'.late = h.late
  BY <1>0 DEF ResetDevice, NoWrite, History
<1>2. PICK r \in Frame : /\ r.op = "reset" /\ stk' = Push(r, stk)
                         /\ (r.pc = "ret" /\ reqs' = reqs) \/ (r.pc = "wait" /\ slot' = "live")
  <2> DEFINE a == NewFrame("reset", "wait")
             n == NewFrame("reset", "ret")
             b == [n EXCEPT !.ok = TRUE]
  <2>1. \/ stk' = Push(a, stk) /\ slot' = "live"
        \/ stk' = Push(b, stk) /\ reqs' = reqs
    BY DEF ResetDevice, NoWrite
  <2>2. a \in Frame /\ n \in Frame /\ a.op = "reset" /\ a.pc = "wait" /\ n.op = "reset" /\ n.pc = "ret"
    BY FrameType DEF Op, Pc, NewFrame
  <2> HIDE DEF a, n
  <2>3. b \in Frame /\ b.op = "reset" /\ b.pc = "ret"
    BY <2>2 DEF Frame
  <2> HIDE DEF b
  <2> QED BY <2>1, <2>2, <2>3
<1>3. r \in Resets /\ (r \in Waiters <=> r.pc = "wait") /\ Carry(r) = <<>>
  BY <1>2 DEF Resets, Waiters, Carry
<1>4. ~Some(stk, Resets) /\ ~Some(stk, Waiters)
  <2>1. \A i \in DOMAIN stk : stk[i].op # "reset"
    BY DEF ResetDevice, OnStack
  <2> QED BY <2>1 DEF Some, FramesIn, Resets, Waiters
<1>5. \A S : /\ One(stk', S) <=> One(stk, S) /\ (r \in S => ~Some(stk, S))
             /\ Some(stk', S) <=> r \in S \/ Some(stk, S)
  BY <1>0, <1>2, OnePush
<1>6. One(stk', Resets) /\ (Some(stk', Waiters) => slot' = "live")
  BY <1>2, <1>3, <1>4, <1>5, NoneOne
<1>7. ASSUME ~h'.late PROVE ResetWire'
  <2>1. /\ ResetWire /\ ~Some(stk, Carriers)
        /\ Of(reqs, "reset") = {} /\ Answers(Stream, "reset") = {}
    BY <1>1, <1>4, <1>7 DEF ResetInv, ResetWire
  <2>2. r \notin Carriers /\ Single(Carry(r), "reset")
    BY <1>3, NoneOf DEF Carriers
  <2>3. ~Some(stk', Carriers) /\ Tokens(stk')
    <3>1. ~Some(stk', Carriers)
      BY <1>5, <2>1, <2>2
    <3>2. FramesIn(stk') = {r} \union FramesIn(stk)
      BY <1>0, <1>2, FramesPush
    <3> QED BY <2>1, <2>2, <3>1, <3>2, NoneOne DEF Tokens, ResetWire
  <2>4. CASE reqs' = reqs
    <3>1. Fewer("reset")
      BY <2>4, ClientFewer
    <3>2. Of(reqs', "reset") = {} /\ Answers(Stream', "reset") = {} /\ Unique(reqs', Stream', "reset")
      BY <2>1, <3>1 DEF ResetWire, Fewer
    <3> QED BY <2>3, <3>2 DEF ResetWire
  <2>5. CASE reqs' # reqs
    <3> DEFINE q == [fn |-> "reset", t |-> "CHANGED", rid |-> nreq']
    <3>1. reqs' = Append(reqs, q) /\ UNCHANGED <<rx, wire>> /\ r.pc = "wait"
      BY <1>2, <2>5 DEF ResetDevice, NoWrite
    <3>2. q \in Req /\ q.fn = "reset"
      BY DEF TypeOK, Req, SignalType
    <3>3. Stream' = Stream
      BY <3>1 DEF Stream, wire
    <3> HIDE DEF q
    <3>4. Unique(reqs', Stream', "reset")
      BY <2>1, <3>1, <3>2, <3>3, AskUnique DEF ResetWire
    <3>5. Some(stk', Waiters)
      BY <1>3, <1>5, <3>1
    <3> QED BY <2>3, <3>4, <3>5 DEF ResetWire
  <2> QED BY <2>4, <2>5
<1> QED BY <1>1, <1>6, <1>7 DEF ResetInv

LEMMA AppReset ==
    ASSUME TypeOK, TypeOK', StreamInv, ResetInv, App
    PROVE  ResetInv'
<1>0. h \in History /\ stk \in Seq(Frame) /\ AppTypes \subseteq SignalType /\ ClientMove /\ Bears(stk, stk)
  BY StreamTypes, ConstantsAssumption, AppStream, BearsSame
<1>1. CASE DevInit
  <2> DEFINE f == NewFrame("init", "run")
  <2>1. /\ stk = <<>>
        /\ \E b, o : OnConnected(<<f>>) \/ ConnectFails(<<f>>, b, o) \/ ConnectPends(<<f>>, o)
    BY <1>1 DEF DevInit, ConnectToServer
  <2>2. Blank(f) /\ f.op # "reset"
    BY BlankNew DEF Op, Pc, NewFrame
  <2> HIDE DEF f
  <2>3. Bears(stk, Push(f, stk)) /\ Push(f, stk) \in Seq(Frame)
    BY <1>0, <2>2, BlankPlain, BearsPush
  <2>4. Push(f, stk) = <<f>>
    BY <2>1 DEF Push
  <2>5. ~Some(stk, Waiters)
    BY <2>1 DEF Some, FramesIn
  <2> QED BY <1>0, <2>1, <2>3, <2>4, <2>5, ConnectReset
<1>2. CASE Deinit
  <2>1. stk' = stk /\ slot' = slot /\ (reqs' = reqs \/ reqs' = <<>>)
    BY <1>2 DEF Deinit, EndSession, session
  <2>2. h'.wild = h.wild /\ h'.late = h.late
    BY <1>0, <1>2 DEF Deinit, History
  <2> QED BY <1>0, <2>1, <2>2, CalmReset DEF ResetUntouched
<1>3. CASE ResetDevice
  BY <1>0, <1>3, ResetDeviceReset
<1>4. CASE AppGet \/ \E t \in AppTypes : AppSubscribe(t)
  <2>1. GetDeviceinfo(stk) \/ \E t \in SignalType : SubscribeDeviceEvent(t, stk)
    BY <1>0, <1>4 DEF AppGet, AppSubscribe
  <2> QED BY <1>0, <2>1, CallReset
<1>5. CASE ResetLocks
  <2> DEFINE f == NewFrame("lock", "wait")
  <2>1. stk' = Push(f, stk) /\ UNCHANGED <<h, slot, reqs>>
    BY <1>5 DEF ResetLocks, service
  <2>2. Blank(f) /\ f.op # "reset"
    BY BlankNew DEF Op, Pc, NewFrame
  <2> HIDE DEF f
  <2>3. Bears(stk, stk')
    BY <1>0, <2>1, <2>2, BlankPlain, BearsPush
  <2> QED BY <1>0, <2>1, <2>3, CalmReset DEF ResetUntouched
<1> QED BY <1>1, <1>2, <1>3, <1>4, <1>5 DEF App

LEMMA ServiceReset ==
    ASSUME TypeOK, TypeOK', StreamInv, ResetInv, Service \/ UNCHANGED vars
    PROVE  ResetInv'
<1>0. h \in History
  BY StreamTypes
<1>1. CASE ~SrvAnswer
  <2>1. h'.wild = h.wild /\ h'.late = h.late
    BY <1>0, <1>1 DEF Service, SrvIgnores, SrvCrash, SrvStart, SrvEvent, vars, History
  <2>2. Fewer("reset") /\ stk' = stk /\ slot' = slot
    BY <1>1, ServiceFewer
  <2> QED BY <2>1, <2>2, BearsSame, StillReset DEF ResetUntouched
<1>2. CASE SrvAnswer
  <2>0. reqs \in Seq(Req) /\ ver \in Nat /\ present \in BOOLEAN
    BY DEF TypeOK
  <2>1. PICK ok \in BOOLEAN :
          net' = net \o Frags([fn |-> Head(reqs).fn, t |-> Head(reqs).t, ok |-> ok, gone |-> ~present,
                               n |-> ver, rid |-> Head(reqs).rid])
    BY <1>2 DEF SrvAnswer
  <2> DEFINE m == [fn |-> Head(reqs).fn, t |-> Head(reqs).t, ok |-> ok, gone |-> ~present,
                   n |-> ver, rid |-> Head(reqs).rid]
  <2>2. conn /\ reqs # <<>> /\ reqs' = Tail(reqs) /\ UNCHANGED <<conn, h, rx, buf, sock, slot, stk>>
    BY <1>2 DEF SrvAnswer, SrvUnchanged, client, link
  <2>3. Head(reqs) \in Req
    BY <2>0, <2>2
  <2>4. m \in Msg /\ m.fn # "ind" /\ m.fn = Head(reqs).fn
    BY <2>0, <2>3 DEF Msg, Req
  <2>5. net' = net \o Frags(m)
    BY <2>1
  <2> HIDE DEF m
  <2>6. Grows(m)
    BY <2>2, <2>4, <2>5, GrowStream
  <2>7. CASE m.fn # "reset"
    <3>1. Fewer("reset")
      BY <2>2, <2>4, <2>6, <2>7, GrowFewer
    <3> QED BY <2>2, <3>1, BearsSame, StillReset DEF ResetUntouched
  <2>8. CASE m.fn = "reset"
    <3>1. ASSUME ~h'.late PROVE ResetWire'
      <4>1. ResetWire
        BY <2>2, <3>1 DEF ResetInv
      <4>2. /\ Unique(reqs', Stream', "reset") /\ Head(reqs) \in Of(reqs, "reset")
            /\ Of(reqs', "reset") = {} /\ Answers(Stream', "reset") = {m}
        BY <2>2, <2>4, <2>6, <2>8, <4>1, GrowUnique DEF ResetWire
      <4>3. Some(stk, Waiters) /\ ~Some(stk, Carriers)
        BY <4>1, <4>2 DEF ResetWire
      <4> QED BY <2>2, <4>1, <4>2, <4>3 DEF ResetWire
    <3> QED BY <2>2, <3>1 DEF ResetInv
  <2> QED BY <2>7, <2>8
<1> QED BY <1>1, <1>2

LEMMA ResetAlways == Spec => []ResetInv
<1>1. Init => ResetInv
  <2> SUFFICES ASSUME Init PROVE ResetInv
    OBVIOUS
  <2>1. stk = <<>> /\ reqs = <<>> /\ rx = <<>> /\ buf = <<>> /\ net = <<>> /\ h.wild = FALSE
    BY DEF Init
  <2>2. FramesIn(stk) = {} /\ Stream = <<>> /\ \A S : One(stk, S)
    BY <2>1 DEF FramesIn, Stream, One
  <2>3. Unique(reqs, Stream, "reset") /\ Of(reqs, "reset") = {} /\ Answers(Stream, "reset") = {}
    BY <2>1, <2>2, NoneOf DEF Unique
  <2> QED BY <2>1, <2>2, <2>3 DEF ResetInv, ResetWire, Tokens, Some
<1>2. TypeOK /\ TypeOK' /\ StreamInv /\ ResetInv /\ [Next]_vars => ResetInv'
  BY ServiceReset, UnwindReset, WaitingReset, LoopEventReset, AppReset DEF Next
<1> QED BY <1>1, <1>2, TypeCorrect, StreamAlways, PTL DEF Spec

(* GetDeviceinfo returns the answer to its own request unless an earlier   *)
(* one gave up waiting on the connection, and the lambda that a            *)
(* ResetDevice leaves connected is called after it returned only if a      *)
(* ResetDevice timed out (GetDeviceinfo, ResetDevice, dispatchJsonMessage).*)
THEOREM AnswerMatchesCorrect == Spec => []AnswerMatches
<1>1. AskInv /\ ResetInv => AnswerMatches
  BY DEF AskInv, GetInv, ResetInv, AnswerMatches
<1> QED BY <1>1, AskAlways, ResetAlways, PTL
=============================================================================
