--------------------------- MODULE FuncToolProofs ---------------------------
(* The flash tool's client, for any number of calling and controlling      *)
(* threads, calls, faults and messages.                                    *)
EXTENDS FuncTool, JsonStreamProofs

-----------------------------------------------------------------------------
(* Types.                                                                  *)

ThreadState == [pc : {"idle", "call", "store", "look", "post", "clear"}, ok : BOOLEAN, p : Nat]
Posted == [t : Callers, op : Reqs \union {"flash"}]
Request == [fn : {"flash", "event"} \union Kinds, rid : Nat]
ToolHistory ==
    [first : {"none", "ok", "fail"}, straddle : BOOLEAN, overruled : BOOLEAN,
     dangling : BOOLEAN, foreign : BOOLEAN, early : BOOLEAN, late : BOOLEAN, resub : BOOLEAN,
     wild : BOOLEAN, wrong : BOOLEAN, refused : BOOLEAN]

SocketTypes ==
    /\ inst \in BOOLEAN /\ open \in BOOLEAN /\ timer \in BOOLEAN
    /\ sock \in {"unconnected", "connecting", "connected"}
StackTypes == stk \in Seq(Frame) /\ queue \in Seq(Posted)
FlagTypes == completed \in BOOLEAN /\ success \in BOOLEAN /\ loop \in Nat
ThreadTypes == thr \in [Threads \union {W} -> ThreadState]
CallTypes == cb \in BOOLEAN /\ fslot \in Nat /\ slot \in [Reqs -> {"none", "live", "dead"}]
StreamTypes == rx \in Seq(Frag) /\ net \in Seq(Frag)
ServiceTypes ==
    /\ up \in BOOLEAN /\ conn \in BOOLEAN /\ subd \in BOOLEAN
    /\ reqs \in Seq(Request) /\ flashes \in SUBSET Nat
CountTypes == inds \in Nat /\ nreq \in Nat

ToolTypes ==
    /\ SocketTypes /\ StackTypes /\ FlagTypes /\ ThreadTypes /\ CallTypes
    /\ StreamTypes /\ ServiceTypes /\ CountTypes /\ h \in ToolHistory

LEMMA ReqNames ==
    /\ Reqs \subseteq {"avail", "on", "off", "query", "sub"}
    /\ Kinds \subseteq {"avail", "on", "off", "query"} /\ W \notin Threads
    /\ "sub" \in Reqs /\ Kinds \subseteq Reqs /\ "flash" \notin Reqs /\ "rx" \notin Reqs
    /\ "init" \notin Reqs /\ "event" \notin Reqs /\ "ind" \notin Reqs
  BY ToolAssumption DEF Reqs

LEMMA ToolTypesInit == Init => ToolTypes
<1> SUFFICES ASSUME Init PROVE ToolTypes
  OBVIOUS
<1>1. Idle \in ThreadState
  BY DEF Idle, ThreadState
<1>2. ThreadTypes
  BY <1>1 DEF Init, ThreadTypes
<1>3. h \in ToolHistory
  BY DEF Init, ToolHistory
<1>4. SocketTypes /\ FlagTypes /\ CountTypes
  BY DEF Init, SocketTypes, FlagTypes, CountTypes
<1>5. StackTypes /\ StreamTypes
  BY DEF Init, StackTypes, StreamTypes
<1>6. CallTypes
  BY DEF Init, CallTypes
<1>7. ServiceTypes
  <2>1. up \in BOOLEAN /\ conn = FALSE /\ subd = FALSE /\ reqs = <<>> /\ flashes = {}
    BY DEF Init
  <2>2. <<>> \in Seq(Request)
    OBVIOUS
  <2> QED BY <2>1, <2>2 DEF ServiceTypes
<1> QED BY <1>2, <1>3, <1>4, <1>5, <1>6, <1>7 DEF ToolTypes

(* The stack.                                                              *)
LEMMA PushProperties ==
    ASSUME NEW f \in Frame, NEW s \in Seq(Frame)
    PROVE  /\ Push(f, s) \in Seq(Frame) /\ Len(Push(f, s)) = Len(s) + 1
           /\ DOMAIN Push(f, s) = 1..(Len(s) + 1) /\ Push(f, s) # <<>>
           /\ Push(f, s)[1] = f
           /\ \A i \in 1..Len(s) : Push(f, s)[i + 1] = s[i]
           /\ \A i \in 2..(Len(s) + 1) : Push(f, s)[i] = s[i - 1]
<1>1. <<f>> \in Seq(Frame) /\ Len(<<f>>) = 1 /\ <<f>>[1] = f
  OBVIOUS
<1>2. Len(s) \in Nat
  BY LenProperties
<1>3. /\ Push(f, s) \in Seq(Frame) /\ Len(Push(f, s)) = 1 + Len(s)
      /\ \A i \in 1..(1 + Len(s)) : Push(f, s)[i] = IF i <= 1 THEN <<f>>[i] ELSE s[i - 1]
  BY <1>1, ConcatProperties DEF Push
<1>4. Push(f, s)[1] = f
  BY <1>1, <1>2, <1>3
<1>5. \A i \in 2..(Len(s) + 1) : Push(f, s)[i] = s[i - 1]
  BY <1>2, <1>3
<1>6. \A i \in 1..Len(s) : Push(f, s)[i + 1] = s[i]
  BY <1>2, <1>3
<1>7. DOMAIN Push(f, s) = 1..(Len(s) + 1) /\ Push(f, s) # <<>>
  BY <1>2, <1>3, LenProperties, EmptySeq
<1> QED BY <1>2, <1>3, <1>4, <1>5, <1>6, <1>7

LEMMA BelowProperties ==
    ASSUME stk \in Seq(Frame), stk # <<>>
    PROVE  /\ Head(stk) = stk[1] /\ Head(stk) \in Frame /\ 1 \in DOMAIN stk
           /\ Len(stk) \in Nat /\ Len(stk) >= 1 /\ DOMAIN stk = 1..Len(stk)
           /\ Below \in Seq(Frame) /\ Len(Below) = Len(stk) - 1
           /\ DOMAIN Below = 1..(Len(stk) - 1)
           /\ \A i \in 1..(Len(stk) - 1) : Below[i] = stk[i + 1]
<1>1. Len(stk) \in Nat /\ Len(stk) >= 1 /\ DOMAIN stk = 1..Len(stk) /\ Head(stk) = stk[1]
  BY LenProperties, EmptySeq, HeadTailProperties
<1>2. /\ Below \in Seq(Frame) /\ Len(Below) = Len(stk) - 1 /\ Head(stk) \in Frame
      /\ \A i \in 1..Len(Below) : Below[i] = stk[i + 1]
  BY HeadTailProperties DEF Below
<1>3. DOMAIN Below = 1..(Len(stk) - 1)
  BY <1>2, LenProperties
<1> QED BY <1>1, <1>2, <1>3

LEMMA TopProperties ==
    ASSUME stk \in Seq(Frame), stk # <<>>, NEW f \in Frame
    PROVE  /\ Top(f) \in Seq(Frame) /\ Len(Top(f)) = Len(stk) /\ DOMAIN Top(f) = DOMAIN stk
           /\ Top(f)[1] = f /\ Top(f) # <<>>
           /\ \A i \in DOMAIN stk : i # 1 => Top(f)[i] = stk[i]
<1>1. Below \in Seq(Frame) /\ Len(Below) = Len(stk) - 1 /\ Len(stk) \in Nat
  BY BelowProperties
<1>2. DOMAIN stk = 1..Len(stk) /\ \A i \in 1..(Len(stk) - 1) : Below[i] = stk[i + 1]
  BY BelowProperties
<1>3. Top(f) \in Seq(Frame) /\ Len(Top(f)) = Len(Below) + 1 /\ Top(f)[1] = f /\ Top(f) # <<>>
  BY <1>1, PushProperties DEF Top
<1>4. \A i \in 2..(Len(Below) + 1) : Top(f)[i] = Below[i - 1]
  BY <1>1, PushProperties DEF Top
<1>5. DOMAIN Top(f) = 1..(Len(Below) + 1)
  BY <1>1, PushProperties DEF Top
<1>6. ASSUME NEW i \in DOMAIN stk, i # 1 PROVE Top(f)[i] = stk[i]
  <2>1. i \in 2..(Len(Below) + 1) /\ i - 1 \in 1..(Len(stk) - 1) /\ i - 1 + 1 = i
    BY <1>1, <1>2, <1>6
  <2> QED BY <1>2, <1>4, <2>1
<1> QED BY <1>1, <1>2, <1>3, <1>5, <1>6

(* Frames that differ from a frame in one place.                           *)
LEMMA FrameProperties ==
    ASSUME NEW f \in Frame, NEW x \in BOOLEAN, NEW r \in Nat, NEW l \in Seq(Msg),
           NEW p \in {"run", "lock", "reset", "send", "enter", "wait", "ret"}
    PROVE  /\ [f EXCEPT !.quit = x] \in Frame /\ [f EXCEPT !.armed = x] \in Frame
           /\ [f EXCEPT !.ok = x] \in Frame /\ [f EXCEPT !.doomed = x] \in Frame
           /\ [f EXCEPT !.pc = p] \in Frame /\ [f EXCEPT !.rid = r] \in Frame
           /\ [f EXCEPT !.list = l] \in Frame
  BY DEF Frame

LEMMA NewFrameProperties ==
    ASSUME NEW op \in Reqs \union {"flash", "init", "rx"}, NEW t \in Threads \union {W},
           NEW p \in {"run", "lock", "reset", "send", "enter", "wait", "ret"}
    PROVE  NewFrame(op, t, p) \in Frame
<1>1. <<>> \in Seq(Msg)
  OBVIOUS
<1> QED BY <1>1 DEF NewFrame, Frame

(* A stack whose frames are changed in place.                              *)
LEMMA MarkProperties ==
    ASSUME NEW s \in Seq(Frame), NEW t, DOMAIN t = DOMAIN s, t = [i \in DOMAIN s |-> t[i]],
           \A i \in DOMAIN s : t[i] \in Frame
    PROVE  t \in Seq(Frame) /\ Len(t) = Len(s) /\ (t = <<>> <=> s = <<>>)
<1>1. DOMAIN s = 1..Len(s) /\ Len(s) \in Nat
  BY LenProperties
<1>2. t \in [1..Len(s) -> Frame]
  BY <1>1
<1>3. t \in Seq(Frame)
  BY <1>1, <1>2, IsASeq
<1>4. Len(t) = Len(s)
  BY <1>1, <1>3, LenProperties
<1>5. t = <<>> <=> s = <<>>
  BY <1>3, <1>4, EmptySeq
<1> QED BY <1>3, <1>4, <1>5
-----------------------------------------------------------------------------
(* What a step does to the worker's stack, to the requests posted to it    *)
(* and to the threads.                                                     *)

More == nreq' \in Nat /\ nreq' >= nreq

(* A thread goes on in the flash wait, or none does.                       *)
Walks ==
    \/ thr' = thr
    \/ \E t \in Threads \union {W}, v \in ThreadState :
        /\ thr[t].pc # "call" /\ v.pc # "call" /\ (thr[t].pc = "idle" => inst)
        /\ thr' = [thr EXCEPT ![t] = v]

(* Frame f stays where it is in its call.                                 *)
Same(f, g) == /\ g \in Frame /\ g.op = f.op /\ g.t = f.t /\ g.pc = f.pc /\ g.rid = f.rid
              /\ g.doomed = f.doomed

(* Frames stay where they are in their calls.                              *)
Marks ==
    /\ UNCHANGED <<inst, queue>> /\ Walks /\ More
    /\ stk' \in Seq(Frame) /\ DOMAIN stk' = DOMAIN stk
    /\ \A i \in DOMAIN stk : Same(stk[i], stk'[i])

(* TriggerFlash goes on.                                                   *)
Moves ==
    /\ UNCHANGED <<inst, queue>> /\ Walks /\ More
    /\ stk # <<>> /\ Head(stk).op = "flash"
    /\ \E f \in Frame :
        /\ stk' = Top(f) /\ f.op = "flash" /\ f.t = Head(stk).t
        /\ \/ Head(stk).pc = "reset" /\ f.pc = "send" /\ f.rid = Head(stk).rid
           \/ Head(stk).pc = "send" /\ f.pc = "enter" /\ f.rid = nreq + 1 /\ nreq' = nreq + 1
           \/ Head(stk).pc = "enter" /\ f.pc = "wait" /\ f.rid = Head(stk).rid
           \/ Head(stk).pc = "wait" /\ f.pc = "ret" /\ f.rid = Head(stk).rid

(* The event loop takes a request, or reads.                               *)
Pushes ==
    /\ InLoop /\ UNCHANGED <<inst, thr>>
    /\ \E f \in Frame :
        /\ stk' = Push(f, stk)
        /\ \/ /\ f.op = "rx" /\ f.t = W /\ f.pc = "run" /\ f.rid = 0
              /\ UNCHANGED <<queue, nreq>>
           \/ /\ queue # <<>> /\ queue' = Tail(queue)
              /\ f.t = Head(queue).t /\ f.op = Head(queue).op
              /\ \/ f.op = "flash" /\ f.pc = "reset" /\ f.rid = 0 /\ nreq' = nreq
                 \/ f.op \in Reqs /\ f.pc = "lock" /\ f.rid = 0 /\ nreq' = nreq
                 \/ f.op \in Reqs /\ f.pc = "wait" /\ f.rid = nreq + 1 /\ nreq' = nreq + 1

(* A call returns.                                                         *)
Pops ==
    /\ UNCHANGED <<inst, queue, nreq>>
    /\ stk # <<>> /\ stk' = Below
    /\ \/ Head(stk).op = "rx" /\ thr' = thr
       \/ Head(stk).op # "rx" /\ Release(Head(stk).t)

Refuses ==
    /\ UNCHANGED <<inst, stk, nreq>>
    /\ queue # <<>> /\ queue' = Tail(queue) /\ Release(Head(queue).t)

Posts ==
    /\ UNCHANGED <<inst, stk, nreq>> /\ inst
    /\ \E t \in Callers, op \in Reqs \union {"flash"} :
        /\ thr[t].pc = "idle" /\ queue' = Append(queue, [t |-> t, op |-> op])
        /\ thr' = [thr EXCEPT ![t].pc = "call"]

Starts ==
    /\ ~inst /\ inst' = TRUE /\ UNCHANGED queue /\ More
    /\ \E t \in Callers : /\ stk' = <<NewFrame("init", t, "run")>>
                          /\ thr' = [thr EXCEPT ![t].pc = "call"]

Ends ==
    /\ inst' = FALSE /\ UNCHANGED <<stk, queue, thr, nreq>>
    /\ stk = <<>> /\ queue = <<>> /\ \A t \in DOMAIN thr : thr[t].pc = "idle"

StackEffect ==
    Marks \/ Moves \/ Pushes \/ Pops \/ Refuses \/ Posts \/ Starts \/ Ends

LEMMA ThreadProperties ==
    ASSUME ThreadTypes, NEW t \in Threads \union {W}
    PROVE  /\ thr[t] \in ThreadState /\ DOMAIN thr = Threads \union {W}
           /\ \A v \in ThreadState : [thr EXCEPT ![t] = v] \in [Threads \union {W} -> ThreadState]
           /\ \A v \in ThreadState : [thr EXCEPT ![t] = v][t] = v
           /\ Idle \in ThreadState /\ Idle.pc = "idle"
           /\ \A q \in {"idle", "call", "store", "look", "post", "clear"} :
                /\ [thr[t] EXCEPT !.pc = q] \in ThreadState
                /\ [thr[t] EXCEPT !.pc = q].pc = q /\ [thr[t] EXCEPT !.pc = q].ok = thr[t].ok
                /\ [thr[t] EXCEPT !.pc = q].p = thr[t].p
                /\ [thr EXCEPT ![t].pc = q] = [thr EXCEPT ![t] = [thr[t] EXCEPT !.pc = q]]
<1>1. thr[t] \in ThreadState /\ DOMAIN thr = Threads \union {W}
  BY DEF ThreadTypes
<1>2. Idle \in ThreadState /\ Idle.pc = "idle"
  BY DEF Idle, ThreadState
<1>3. ASSUME NEW q \in {"idle", "call", "store", "look", "post", "clear"}
      PROVE  /\ [thr[t] EXCEPT !.pc = q] \in ThreadState
             /\ [thr[t] EXCEPT !.pc = q].pc = q /\ [thr[t] EXCEPT !.pc = q].ok = thr[t].ok
             /\ [thr[t] EXCEPT !.pc = q].p = thr[t].p
  BY <1>1 DEF ThreadState
<1>4. ASSUME NEW q
      PROVE  [thr EXCEPT ![t].pc = q] = [thr EXCEPT ![t] = [thr[t] EXCEPT !.pc = q]]
  OBVIOUS
<1>5. \A v \in ThreadState : [thr EXCEPT ![t] = v] \in [Threads \union {W} -> ThreadState]
  BY DEF ThreadTypes
<1>6. \A v \in ThreadState : [thr EXCEPT ![t] = v][t] = v
  BY DEF ThreadTypes
<1> QED BY <1>1, <1>2, <1>3, <1>4, <1>5, <1>6

(* Nothing happens to the stack.                                           *)
LEMMA StackStays ==
    ASSUME StackTypes, UNCHANGED <<inst, stk, queue>>, Walks, More
    PROVE  Marks
<1>1. \A i \in DOMAIN stk : stk[i] \in Frame
  BY LenProperties, ElementOfSeq DEF StackTypes
<1> QED BY <1>1 DEF StackTypes, Marks, Same

LEMMA TwoFields ==
    ASSUME ThreadTypes, NEW t \in Threads \union {W}, NEW q, NEW x
    PROVE  /\ [thr EXCEPT ![t].pc = q, ![t].ok = x]
                = [thr EXCEPT ![t] = [thr[t] EXCEPT !.pc = q, !.ok = x]]
           /\ [thr EXCEPT ![t].pc = q, ![t].p = x]
                = [thr EXCEPT ![t] = [thr[t] EXCEPT !.pc = q, !.p = x]]
<1>1. t \in DOMAIN thr
  BY DEF ThreadTypes
<1> DEFINE f == [thr EXCEPT ![t] = [thr[t] EXCEPT !.pc = q]]
<1>2. f[t] = [thr[t] EXCEPT !.pc = q] /\ DOMAIN f = DOMAIN thr
  BY <1>1
<1>3. [f EXCEPT ![t] = [f[t] EXCEPT !.ok = x]] = [thr EXCEPT ![t] = [f[t] EXCEPT !.ok = x]]
  BY <1>1, Zenon
<1>4. [f EXCEPT ![t] = [f[t] EXCEPT !.p = x]] = [thr EXCEPT ![t] = [f[t] EXCEPT !.p = x]]
  BY <1>1, Zenon
<1> QED BY <1>2, <1>3, <1>4

(* ForceCompleteFlashWait and ResetFlashWait begin.                        *)
LEMMA ForceWalks ==
    ASSUME ThreadTypes, NEW t \in Threads \union {W}, NEW ok \in BOOLEAN, NEW alien,
           thr[t].pc = "idle", inst, ForceBegin(t, ok, alien)
    PROVE  Walks
<1>1. thr' = thr \/ thr' = [thr EXCEPT ![t].pc = "store", ![t].ok = ok]
  BY DEF ForceBegin
<1>2. [thr EXCEPT ![t].pc = "store", ![t].ok = ok]
        = [thr EXCEPT ![t] = [thr[t] EXCEPT !.pc = "store", !.ok = ok]]
  BY TwoFields
<1>3. [thr[t] EXCEPT !.pc = "store", !.ok = ok] \in ThreadState
  <2>1. \A v \in ThreadState : [v EXCEPT !.pc = "store", !.ok = ok] \in ThreadState
    BY DEF ThreadState
  <2> QED BY <2>1, ThreadProperties
<1>4. [thr[t] EXCEPT !.pc = "store", !.ok = ok].pc = "store"
  BY ThreadProperties DEF ThreadState
<1> QED BY <1>1, <1>2, <1>3, <1>4 DEF Walks

LEMMA ResetWalks ==
    ASSUME ThreadTypes, NEW t \in Threads \union {W}, thr[t].pc = "idle", inst, ResetBegin(t)
    PROVE  Walks
<1>1. thr' = [thr EXCEPT ![t] = [thr[t] EXCEPT !.pc = "clear"]]
  BY ThreadProperties DEF ResetBegin
<1>2. [thr[t] EXCEPT !.pc = "clear"] \in ThreadState /\ [thr[t] EXCEPT !.pc = "clear"].pc = "clear"
  BY ThreadProperties
<1> QED BY <1>1, <1>2 DEF Walks

(* The later steps of a thread in ForceCompleteFlashWait or ResetFlashWait. *)
LEMMA ControllerWalks ==
    ASSUME ThreadTypes, FlagTypes, NEW t \in Threads \union {W},
           ForceStore(t) \/ ForceLook(t) \/ ForcePost(t) \/ ResetClear(t)
    PROVE  Walks
<1>1. thr[t].pc \notin {"call", "idle"}
  BY DEF ForceStore, ForceLook, ForcePost, ResetClear
<1>2. CASE thr' = [thr EXCEPT ![t] = Idle]
  BY <1>1, <1>2, ThreadProperties DEF Walks
<1>3. CASE thr' = [thr EXCEPT ![t].pc = "look"]
  BY <1>1, <1>3, ThreadProperties DEF Walks
<1>4. CASE thr' = [thr EXCEPT ![t].pc = "post", ![t].p = loop]
  <2>1. thr' = [thr EXCEPT ![t] = [thr[t] EXCEPT !.pc = "post", !.p = loop]]
    BY <1>4, TwoFields
  <2>2. [thr[t] EXCEPT !.pc = "post", !.p = loop] \in ThreadState
    <3>1. \A v \in ThreadState : [v EXCEPT !.pc = "post", !.p = loop] \in ThreadState
      BY DEF ThreadState, FlagTypes
    <3> QED BY <3>1, ThreadProperties
  <2>3. [thr[t] EXCEPT !.pc = "post", !.p = loop].pc = "post"
    BY ThreadProperties DEF ThreadState
  <2> QED BY <1>1, <2>1, <2>2, <2>3 DEF Walks
<1> QED BY <1>2, <1>3, <1>4 DEF ForceStore, ForceLook, ForcePost, ResetClear, Release

(* The steps of the connection and of the service leave the stack alone.   *)
LEMMA ConnectionEffect ==
    ASSUME ToolTypes, RetryConnection \/ ConnectDone \/ OnDisconnected \/ Service
    PROVE  UNCHANGED <<inst, stk, queue, thr>> /\ More
<1>0. nreq \in Nat /\ nreq <= nreq /\ nreq + 1 >= nreq /\ nreq + 1 \in Nat
  BY DEF ToolTypes, CountTypes
<1>1. CASE RetryConnection \/ ConnectDone
  <2>1. /\ UNCHANGED <<inst, queue, thr>>
        /\ OnConnected(stk) \/ ConnectFails(stk) \/ ConnectPends(stk)
    BY <1>1 DEF RetryConnection, ConnectDone, ConnectToServerInternal
  <2>2. stk' = stk /\ nreq' \in {nreq, nreq + 1}
    BY <2>1 DEF OnConnected, ConnectFails, ConnectPends
  <2> QED BY <1>0, <2>1, <2>2 DEF More
<1>2. CASE OnDisconnected
  BY <1>0, <1>2 DEF OnDisconnected, calling, bounds, More
<1>3. CASE Service
  <2>1. SrvUnchanged
    BY <1>3 DEF Service, SrvAnswer, SrvProgress, SrvFlashEnds, SrvCrash, SrvStart
  <2> QED BY <1>0, <2>1 DEF SrvUnchanged, socket, calling, More
<1> QED BY <1>1, <1>2, <1>3

(* Writing a request takes its number.                                     *)
LEMMA WriteNumber ==
    /\ \A fn : WriteReq(fn) => nreq' = nreq + 1
    /\ NoWrite => nreq' = nreq
  BY DEF WriteReq, NoWrite

LEMMA TakeRequestEffect ==
    ASSUME ToolTypes, TakeRequest
    PROVE  Pushes \/ Refuses
<1> DEFINE q == Head(queue)
<1>1. InLoop /\ queue # <<>> /\ q.op \in Reqs /\ queue' = Tail(queue) /\ UNCHANGED inst
  BY DEF TakeRequest
<1>2. q \in Posted /\ q.t \in Threads \union {W} /\ nreq \in Nat /\ nreq + 1 \in Nat
  <2>1. q \in Posted /\ nreq \in Nat
    BY <1>1, HeadTailProperties DEF ToolTypes, StackTypes, CountTypes
  <2> QED BY <2>1 DEF Posted, Threads
<1>3. \/ NoWrite /\ stk' = Push(NewFrame(q.op, q.t, "lock"), stk) /\ thr' = thr
      \/ NoWrite /\ Release(q.t) /\ stk' = stk
      \/ /\ nreq' = nreq + 1 /\ thr' = thr
         /\ stk' = Push([NewFrame(q.op, q.t, "wait") EXCEPT !.rid = nreq'], stk)
  BY WriteNumber DEF TakeRequest
<1> HIDE DEF q
<1>4. CASE NoWrite /\ Release(q.t) /\ stk' = stk
  BY <1>1, <1>4, WriteNumber DEF Refuses, q
<1>5. CASE NoWrite /\ stk' = Push(NewFrame(q.op, q.t, "lock"), stk) /\ thr' = thr
  <2> DEFINE f == NewFrame(q.op, q.t, "lock")
  <2>1. f \in Frame
    BY <1>1, <1>2, NewFrameProperties
  <2>2. f.t = q.t /\ f.op = q.op /\ f.pc = "lock" /\ f.rid = 0
    BY DEF NewFrame
  <2> HIDE DEF f
  <2> QED BY <1>1, <1>5, <2>1, <2>2, WriteNumber DEF Pushes, q, f
<1>6. CASE /\ nreq' = nreq + 1 /\ thr' = thr
           /\ stk' = Push([NewFrame(q.op, q.t, "wait") EXCEPT !.rid = nreq'], stk)
  <2> DEFINE f == [NewFrame(q.op, q.t, "wait") EXCEPT !.rid = nreq + 1]
  <2>1. NewFrame(q.op, q.t, "wait") \in Frame
    BY <1>1, <1>2, NewFrameProperties
  <2>2. f \in Frame
    BY <1>2, <2>1 DEF Frame
  <2>3. f.t = q.t /\ f.op = q.op /\ f.pc = "wait" /\ f.rid = nreq + 1
    BY DEF NewFrame
  <2>4. stk' = Push(f, stk)
    BY <1>6
  <2> HIDE DEF f
  <2> QED BY <1>1, <1>6, <2>2, <2>3, <2>4 DEF Pushes, q
<1> QED BY <1>3, <1>4, <1>5, <1>6

LEMMA TakeFlashEffect ==
    ASSUME ToolTypes, TakeFlash
    PROVE  Pushes
<1> DEFINE f == NewFrame("flash", Head(queue).t, "reset")
<1>1. /\ InLoop /\ queue # <<>> /\ Head(queue).op = "flash" /\ queue' = Tail(queue)
      /\ stk' = Push(f, stk) /\ UNCHANGED <<inst, thr, nreq>>
  BY DEF TakeFlash, socket, bounds
<1>2. Head(queue) \in Posted
  BY <1>1, HeadTailProperties DEF ToolTypes, StackTypes
<1>3. Head(queue).t \in Threads \union {W}
  BY <1>2 DEF Posted, Threads
<1>4. f \in Frame
  BY <1>3, NewFrameProperties
<1>5. f.t = Head(queue).t /\ f.op = "flash" /\ f.pc = "reset" /\ f.rid = 0
  BY DEF NewFrame
<1> HIDE DEF f
<1> QED BY <1>1, <1>4, <1>5 DEF Pushes

LEMMA OnReadyReadEffect ==
    ASSUME ToolTypes, OnReadyRead
    PROVE  Pushes
<1>1. PICK k \in 1..Len(net) :
        stk' = Push([NewFrame("rx", W, "run") EXCEPT !.list = Objects(rx \o SubSeq(net, 1, k))], stk)
  BY DEF OnReadyRead
<1> DEFINE l == Objects(rx \o SubSeq(net, 1, k))
           f == [NewFrame("rx", W, "run") EXCEPT !.list = l]
<1>2. l \in Seq(Msg)
  <2>1. rx \in Seq(Frag) /\ net \in Seq(Frag) /\ k \in 0..Len(net)
    BY LenProperties DEF ToolTypes, StreamTypes
  <2>2. rx \o SubSeq(net, 1, k) \in Seq(Frag)
    BY <2>1, ReadProperties, ConcatProperties
  <2>3. Frag = FragOf(Msg)
    BY DEF Frag, FragOf
  <2> QED BY <2>2, <2>3, ExtractProperties
<1> HIDE DEF l
<1>3. NewFrame("rx", W, "run") \in Frame
  BY NewFrameProperties
<1>4. f \in Frame
  BY <1>2, <1>3 DEF Frame
<1>5. f.op = "rx" /\ f.t = W /\ f.pc = "run" /\ f.rid = 0
  BY DEF NewFrame
<1>6. InLoop /\ UNCHANGED <<inst, thr, queue, nreq>> /\ stk' = Push(f, stk)
  BY <1>1 DEF OnReadyRead, bounds, l
<1> HIDE DEF f
<1> QED BY <1>4, <1>5, <1>6 DEF Pushes

(* The steps of TriggerFlash after the event loop has taken it.            *)
LEMMA FlashEffect ==
    ASSUME ToolTypes, stk # <<>> => inst, FlashReset \/ FlashSend \/ FlashEnter \/ FlashLeave
    PROVE  Moves \/ Pops
<1> DEFINE f == Head(stk)
<1>0. /\ stk # <<>> /\ f.op = "flash" /\ thr[W].pc = "idle" /\ UNCHANGED <<inst, queue>>
      /\ f.pc \in {"reset", "send", "enter", "wait"}
  BY DEF FlashReset, FlashSend, FlashEnter, FlashLeave, Running, socket
<1>1. f \in Frame /\ nreq \in Nat /\ nreq + 1 \in Nat /\ nreq + 1 >= nreq /\ nreq >= nreq
  BY <1>0, BelowProperties DEF ToolTypes, StackTypes, CountTypes
<1> HIDE DEF f
<1>2. CASE FlashReset
  <2> DEFINE g == [f EXCEPT !.pc = "send"]
  <2>1. g \in Frame /\ g.op = f.op /\ g.t = f.t /\ g.pc = "send" /\ g.rid = f.rid
    BY <1>1 DEF Frame
  <2>2. stk' = Top(g) /\ ResetBegin(W) /\ nreq' = nreq /\ f.pc = "reset"
    BY <1>2 DEF FlashReset, Running, bounds, f
  <2> HIDE DEF g
  <2>3. Walks
    BY <1>0, <2>2, ResetWalks DEF ToolTypes
  <2> QED BY <1>0, <1>1, <2>1, <2>2, <2>3 DEF Moves, More, f
<1>3. CASE FlashSend
  <2>1. \/ NoWrite /\ stk' = Below /\ Release(f.t)
        \/ /\ nreq' = nreq + 1 /\ stk' = Top([f EXCEPT !.pc = "enter", !.rid = nreq'])
           /\ thr' = thr
    BY <1>3, WriteNumber DEF FlashSend, f
  <2>2. CASE NoWrite /\ stk' = Below /\ Release(f.t)
    BY <1>0, <2>2, WriteNumber DEF Pops, f
  <2>3. CASE /\ nreq' = nreq + 1 /\ stk' = Top([f EXCEPT !.pc = "enter", !.rid = nreq'])
             /\ thr' = thr
    <3> DEFINE g == [f EXCEPT !.pc = "enter", !.rid = nreq + 1]
    <3>1. g \in Frame /\ g.op = f.op /\ g.t = f.t /\ g.pc = "enter" /\ g.rid = nreq + 1
      BY <1>1 DEF Frame
    <3>2. stk' = Top(g) /\ f.pc = "send"
      BY <1>3, <2>3 DEF FlashSend, Running, f
    <3> HIDE DEF g
    <3> QED BY <1>0, <1>1, <2>3, <3>1, <3>2 DEF Moves, More, Walks, f
  <2> QED BY <2>1, <2>2, <2>3
<1>4. CASE FlashEnter
  <2> DEFINE g == [f EXCEPT !.pc = "wait", !.doomed = completed]
  <2>1. g \in Frame /\ g.op = f.op /\ g.t = f.t /\ g.pc = "wait" /\ g.rid = f.rid
    BY <1>1 DEF Frame, ToolTypes, FlagTypes
  <2>2. stk' = Top(g) /\ thr' = thr /\ nreq' = nreq /\ f.pc = "enter"
    BY <1>4 DEF FlashEnter, Running, bounds, f
  <2> HIDE DEF g
  <2> QED BY <1>0, <1>1, <2>1, <2>2 DEF Moves, More, Walks, f
<1>5. CASE FlashLeave
  <2> DEFINE g == [f EXCEPT !.pc = "ret", !.ok = completed /\ success]
  <2>1. g \in Frame /\ g.op = f.op /\ g.t = f.t /\ g.pc = "ret" /\ g.rid = f.rid
    <3>1. (completed /\ success) \in BOOLEAN
      BY DEF ToolTypes, FlagTypes
    <3> QED BY <1>1, <3>1 DEF Frame
  <2>2. stk' = Top(g) /\ ResetBegin(W) /\ nreq' = nreq /\ f.pc = "wait"
    BY <1>5 DEF FlashLeave, Running, bounds, f
  <2> HIDE DEF g
  <2>3. Walks
    BY <1>0, <2>2, ResetWalks DEF ToolTypes
  <2> QED BY <1>0, <1>1, <2>1, <2>2, <2>3 DEF Moves, More, f
<1> QED BY <1>2, <1>3, <1>4, <1>5

(* Frames told to quit, or whose timer has fired.                          *)
LEMMA MarksProperties ==
    ASSUME ToolTypes, UNCHANGED <<inst, queue>>, Walks, nreq' = nreq,
           DOMAIN stk' = DOMAIN stk, stk' = [i \in DOMAIN stk |-> stk'[i]],
           \A i \in DOMAIN stk : Same(stk[i], stk'[i])
    PROVE  Marks
<1>1. More
  BY DEF ToolTypes, CountTypes, More
<1>2. stk' \in Seq(Frame)
  BY MarkProperties DEF ToolTypes, StackTypes, Same
<1> QED BY <1>1, <1>2 DEF Marks

LEMMA SameFrame ==
    \A f \in Frame :
        /\ Same(f, f) /\ Same(f, [f EXCEPT !.quit = TRUE]) /\ Same(f, [f EXCEPT !.armed = FALSE])
        /\ Same(f, [f EXCEPT !.armed = FALSE, !.quit = TRUE])
        /\ \A x \in BOOLEAN : Same(f, [f EXCEPT !.quit = TRUE, !.ok = x])
        /\ \A l \in Seq(Msg) : Same(f, [f EXCEPT !.list = l])
<1> TAKE f \in Frame
<1>1. Same(f, f)
  BY DEF Same
<1>2. Same(f, [f EXCEPT !.quit = TRUE]) /\ Same(f, [f EXCEPT !.armed = FALSE])
  BY DEF Same, Frame
<1>3. Same(f, [f EXCEPT !.armed = FALSE, !.quit = TRUE])
  BY DEF Same, Frame
<1>4. \A x \in BOOLEAN : Same(f, [f EXCEPT !.quit = TRUE, !.ok = x])
  BY DEF Same, Frame
<1>5. \A l \in Seq(Msg) : Same(f, [f EXCEPT !.list = l])
  BY DEF Same, Frame
<1> QED BY <1>1, <1>2, <1>3, <1>4, <1>5

LEMMA ForcePostEffect ==
    ASSUME ToolTypes, NEW t \in Threads \union {W}, ForcePost(t)
    PROVE  Marks
<1>1. Walks
  BY ControllerWalks DEF ToolTypes
<1>2. UNCHANGED <<inst, queue, nreq>>
  BY DEF ForcePost, socket, bounds
<1>3. /\ DOMAIN stk' = DOMAIN stk /\ stk' = [i \in DOMAIN stk |-> stk'[i]]
      /\ \A i \in DOMAIN stk : stk'[i] \in {stk[i], [stk[i] EXCEPT !.quit = TRUE]}
  BY DEF ForcePost
<1>4. ASSUME NEW i \in DOMAIN stk
      PROVE  Same(stk[i], stk'[i])
  <2>1. stk[i] \in Frame /\ TRUE \in BOOLEAN /\ <<>> \in Seq(Msg)
    BY LenProperties, ElementOfSeq DEF ToolTypes, StackTypes
  <2> QED BY <1>3, <2>1, SameFrame
<1> QED BY <1>1, <1>2, <1>3, <1>4, MarksProperties

(* A timer fires.                                                          *)
LEMMA TimeoutEffect ==
    ASSUME ToolTypes, Timeout
    PROVE  Marks
<1>0. InLoop /\ UNCHANGED <<inst, queue, nreq>>
  BY DEF Timeout, RequestTimeout, FlashTimeout, socket, bounds
<1>1. PICK j \in DOMAIN stk : \/ stk' = [stk EXCEPT ![j].armed = FALSE, ![j].quit = TRUE]
                              \/ stk' = [stk EXCEPT ![j].armed = FALSE]
  BY DEF Timeout, RequestTimeout, FlashTimeout, Waiting
<1>2. Walks
  <2>1. CASE RequestTimeout
    BY <2>1 DEF RequestTimeout, Walks
  <2>2. CASE FlashTimeout
    <3>1. ForceBegin(W, FALSE, FALSE) /\ thr[W].pc = "idle" /\ inst
      BY <1>0, <2>2 DEF FlashTimeout, InLoop
    <3> QED BY <3>1, ForceWalks DEF ToolTypes
  <2> QED BY <2>1, <2>2 DEF Timeout
<1>3. /\ DOMAIN stk' = DOMAIN stk /\ stk' = [i \in DOMAIN stk |-> stk'[i]]
      /\ \A i \in DOMAIN stk : stk'[i] \in {stk[i], [stk[i] EXCEPT !.armed = FALSE],
                                            [stk[i] EXCEPT !.armed = FALSE, !.quit = TRUE]}
  BY <1>1
<1>4. ASSUME NEW i \in DOMAIN stk
      PROVE  Same(stk[i], stk'[i])
  <2>1. stk[i] \in Frame /\ TRUE \in BOOLEAN /\ FALSE \in BOOLEAN /\ <<>> \in Seq(Msg)
    BY LenProperties, ElementOfSeq DEF ToolTypes, StackTypes
  <2> QED BY <1>3, <2>1, SameFrame
<1> QED BY <1>0, <1>2, <1>3, <1>4, MarksProperties

(* A message is handled.                                                   *)
LEMMA HandleStack ==
    ASSUME ToolTypes, HandleOneSocketMessage
    PROVE  /\ stk # <<>> /\ Head(stk).list # <<>> /\ Head(Head(stk).list) \in Msg
           /\ Tail(Head(stk).list) \in Seq(Msg) /\ 1 \in DOMAIN stk /\ Head(stk) = stk[1]
           /\ LET f == [Head(stk) EXCEPT !.list = Tail(@)]
              IN  /\ f \in Frame /\ Top(f) \in Seq(Frame) /\ DOMAIN Top(f) = DOMAIN stk
                  /\ Top(f)[1] = f /\ \A i \in DOMAIN stk : i # 1 => Top(f)[i] = stk[i]
<1>1. stk # <<>> /\ Head(stk).list # <<>>
  BY DEF HandleOneSocketMessage, Running
<1>2. Head(stk) \in Frame /\ 1 \in DOMAIN stk /\ Head(stk) = stk[1]
  BY <1>1, BelowProperties DEF ToolTypes, StackTypes
<1>3. Head(stk).list \in Seq(Msg)
  BY <1>2 DEF Frame
<1>4. Head(Head(stk).list) \in Msg /\ Tail(Head(stk).list) \in Seq(Msg)
  BY <1>1, <1>3, HeadTailProperties
<1> DEFINE f == [Head(stk) EXCEPT !.list = Tail(@)]
<1>5. f \in Frame
  BY <1>2, <1>4 DEF Frame
<1> HIDE DEF f
<1>6. /\ Top(f) \in Seq(Frame) /\ DOMAIN Top(f) = DOMAIN stk
      /\ Top(f)[1] = f /\ \A i \in DOMAIN stk : i # 1 => Top(f)[i] = stk[i]
  BY <1>1, <1>5, TopProperties DEF ToolTypes, StackTypes
<1> QED BY <1>1, <1>2, <1>4, <1>5, <1>6 DEF f

LEMMA HandleEffect ==
    ASSUME ToolTypes, stk # <<>> => inst, HandleOneSocketMessage
    PROVE  Marks
<1> DEFINE m == Head(Head(stk).list)
           f == [Head(stk) EXCEPT !.list = Tail(@)]
<1>1. /\ stk # <<>> /\ m \in Msg /\ f \in Frame /\ Tail(Head(stk).list) \in Seq(Msg)
      /\ Top(f) \in Seq(Frame) /\ DOMAIN Top(f) = DOMAIN stk
      /\ Top(f)[1] = f /\ Head(stk) = stk[1] /\ 1 \in DOMAIN stk
      /\ \A i \in DOMAIN stk : i # 1 => Top(f)[i] = stk[i]
  BY HandleStack
<1>2. UNCHANGED <<inst, queue, nreq>> /\ thr[W].pc = "idle"
  BY DEF HandleOneSocketMessage, Running, socket, bounds
<1>3. \/ stk' = Top(f) /\ (FlashVerdict(m) \/ thr' = thr)
      \/ AnswerRequest(m, Top(f)) /\ thr' = thr
  BY DEF HandleOneSocketMessage
<1>4. Walks
  <2>1. CASE FlashVerdict(m)
    <3>1. (m.res = "ok") \in BOOLEAN /\ inst
      BY <1>1
    <3>2. ForceBegin(W, m.res = "ok", \E i \in Waiting("flash") : stk[i].rid # m.rid)
      BY <2>1 DEF FlashVerdict
    <3> HIDE DEF m
    <3> QED BY <1>2, <3>1, <3>2, ForceWalks DEF ToolTypes
  <2>2. CASE thr' = thr
    BY <2>2 DEF Walks
  <2> QED BY <1>3, <2>1, <2>2
<1>5. \A i \in DOMAIN stk : stk[i] \in Frame
  BY LenProperties, ElementOfSeq DEF ToolTypes, StackTypes
<1>6. \A i \in DOMAIN stk : Same(stk[i], Top(f)[i])
  <2>1. Same(stk[1], f)
    BY <1>1, <1>5, SameFrame
  <2> HIDE DEF f
  <2> QED BY <1>1, <1>5, <2>1, SameFrame
<1> HIDE DEF f, m
<1>7. CASE stk' = Top(f)
  <2>1. More
    BY <1>2 DEF ToolTypes, CountTypes, More
  <2> QED BY <1>1, <1>2, <1>4, <1>6, <1>7, <2>1 DEF Marks
<1>8. CASE AnswerRequest(m, Top(f))
  <2> DEFINE s == Top(f)
  <2>1. /\ DOMAIN stk' = DOMAIN s /\ stk' = [i \in DOMAIN s |-> stk'[i]]
        /\ \A i \in DOMAIN s :
            stk'[i] \in {s[i], [s[i] EXCEPT !.quit = TRUE,
                                  !.ok = @ \/ m.res = "ok" \/ s[i].op \in {"query", "sub"}]}
    BY <1>8 DEF AnswerRequest
  <2> HIDE DEF s
  <2>2. ASSUME NEW i \in DOMAIN s PROVE Same(s[i], stk'[i])
    <3>1. s[i] \in Frame
      BY <1>1, LenProperties, ElementOfSeq DEF s
    <3>2. (s[i].ok \/ m.res = "ok" \/ s[i].op \in {"query", "sub"}) \in BOOLEAN
      BY <3>1 DEF Frame
    <3> QED BY <2>1, <3>1, <3>2, SameFrame
  <2>3. \A i \in DOMAIN stk : Same(stk[i], stk'[i])
    BY <1>1, <1>6, <2>2 DEF Same, s
  <2>4. DOMAIN stk' = DOMAIN stk /\ stk' = [i \in DOMAIN stk |-> stk'[i]]
    BY <1>1, <2>1 DEF s
  <2> QED BY <1>2, <1>4, <2>3, <2>4, MarksProperties
<1> QED BY <1>3, <1>7, <1>8

(* Returns.                                                                *)
LEMMA ReturnEffect ==
    ASSUME ToolTypes, InitReturn \/ RequestReturn \/ FlashReturn \/ ReadyReadReturn
    PROVE  Pops
<1>1. stk # <<>> /\ stk' = Below /\ UNCHANGED <<inst, queue, nreq>>
  BY DEF InitReturn, RequestReturn, FlashReturn, ReadyReadReturn, Running, socket, bounds
<1>2. \/ Head(stk).op = "rx" /\ thr' = thr
      \/ Head(stk).op # "rx" /\ Release(Head(stk).t)
  BY ReqNames DEF InitReturn, RequestReturn, FlashReturn, ReadyReadReturn, Running
<1> QED BY <1>1, <1>2 DEF Pops

LEMMA ControlEffect ==
    ASSUME ToolTypes, NEW t \in Controllers, Control(t)
    PROVE  Marks
<1>1. thr[t].pc = "idle" /\ inst /\ t \in Threads \union {W} /\ UNCHANGED <<inst, stk, queue, nreq>>
  BY DEF Control, socket, calling, Threads
<1>2. CASE \E ok \in BOOLEAN : ForceBegin(t, ok, FALSE)
  <2>1. Walks
    BY <1>1, <1>2, ForceWalks DEF ToolTypes
  <2> QED BY <1>1, <2>1, StackStays DEF ToolTypes, More, CountTypes
<1>3. CASE ResetBegin(t)
  <2>1. Walks
    BY <1>1, <1>3, ResetWalks DEF ToolTypes
  <2> QED BY <1>1, <2>1, StackStays DEF ToolTypes, More, CountTypes
<1> QED BY <1>2, <1>3 DEF Control

LEMMA ControllerEffect ==
    ASSUME ToolTypes, NEW t \in Threads \union {W}, Controller(t)
    PROVE  Marks
<1>1. CASE ForcePost(t)
  BY <1>1, ForcePostEffect
<1>2. CASE ForceStore(t) \/ ForceLook(t) \/ ResetClear(t)
  <2>1. Walks
    BY <1>2, ControllerWalks DEF ToolTypes
  <2>2. UNCHANGED <<inst, stk, queue, nreq>>
    BY <1>2 DEF ForceStore, ForceLook, ResetClear, socket, calling, bounds
  <2> QED BY <2>1, <2>2, StackStays DEF ToolTypes, More, CountTypes
<1> QED BY <1>1, <1>2 DEF Controller

LEMMA CallerEffect ==
    ASSUME ToolTypes, NEW t \in Callers, Caller(t)
    PROVE  Posts \/ Starts
<1>1. CASE ToolInit(t)
  <2>1. /\ ~inst /\ inst' = TRUE /\ thr' = [thr EXCEPT ![t].pc = "call"] /\ UNCHANGED queue
        /\ ConnectToServerInternal(<<NewFrame("init", t, "run")>>)
    BY <1>1 DEF ToolInit
  <2>2. stk' = <<NewFrame("init", t, "run")>> /\ nreq' \in {nreq, nreq + 1}
    BY <2>1 DEF ConnectToServerInternal, OnConnected, ConnectFails, ConnectPends
  <2>3. More
    BY <2>2 DEF More, ToolTypes, CountTypes
  <2> QED BY <2>1, <2>2, <2>3 DEF Starts
<1>2. ASSUME NEW op \in Reqs \union {"flash"}, InvokeOnWorker(t, op) PROVE Posts
  BY <1>2 DEF InvokeOnWorker, Posts, socket
<1> QED BY <1>1, <1>2 DEF Caller

LEMMA StackEffects ==
    ASSUME ToolTypes, stk # <<>> => inst, Next
    PROVE  StackEffect
<1>1. W \in Threads \union {W} /\ Controllers \subseteq Threads \union {W}
  BY DEF Threads
<1>2. CASE Unwind
  <2>1. CASE InitReturn \/ RequestReturn \/ FlashReturn \/ ReadyReadReturn
    BY <2>1, ReturnEffect DEF StackEffect
  <2>2. CASE FlashReset \/ FlashSend \/ FlashEnter \/ FlashLeave
    BY <2>2, FlashEffect DEF StackEffect
  <2>3. CASE HandleOneSocketMessage
    BY <2>3, HandleEffect DEF StackEffect
  <2>4. CASE Controller(W)
    BY <1>1, <2>4, ControllerEffect DEF StackEffect
  <2> QED BY <1>2, <2>1, <2>2, <2>3, <2>4 DEF Unwind, Controller
<1>3. CASE Take
  BY <1>3, TakeRequestEffect, TakeFlashEffect DEF Take, StackEffect
<1>4. CASE LoopEvent \/ Service
  <2>1. CASE OnReadyRead
    BY <2>1, OnReadyReadEffect DEF StackEffect
  <2>2. CASE RetryConnection \/ ConnectDone \/ OnDisconnected \/ Service
    BY <2>2, ConnectionEffect, StackStays DEF StackEffect, ToolTypes, Walks
  <2> QED BY <1>4, <2>1, <2>2 DEF LoopEvent
<1>5. CASE Timeout
  BY <1>5, TimeoutEffect DEF StackEffect
<1>6. CASE Deinit
  BY <1>6 DEF Deinit, StackEffect, Ends
<1>7. ASSUME NEW t \in Callers, Caller(t) PROVE StackEffect
  BY <1>7, CallerEffect DEF StackEffect
<1>8. ASSUME NEW t \in Controllers, Control(t) \/ Controller(t) PROVE StackEffect
  BY <1>1, <1>8, ControlEffect, ControllerEffect DEF StackEffect
<1> QED BY <1>2, <1>3, <1>4, <1>5, <1>6, <1>7, <1>8 DEF Next
-----------------------------------------------------------------------------
(* Who is where: every call on the stack or posted to the worker belongs   *)
(* to a caller of its own that waits for it, only the top frame runs, and  *)
(* a request or a flash that was written has a number of its own.          *)

FrameOK(f, n) ==
    /\ f.op = "rx" => f.t = W /\ f.pc = "run" /\ f.rid = 0
    /\ f.op = "init" => f.pc = "run" /\ f.rid = 0
    /\ f.op \in Reqs => f.pc \in {"lock", "wait"}
    /\ f.op = "flash" => f.pc \in {"reset", "send", "enter", "wait", "ret"}
    /\ f.op \in Reqs \union {"flash"} => (f.rid = 0 <=> f.pc \in {"lock", "reset", "send"})
    /\ f.rid <= n

FramesInv == \A i \in DOMAIN stk : FrameOK(stk[i], nreq) /\ (i > 1 => stk[i].pc = "wait")
NumbersInv == \A i, j \in DOMAIN stk : i # j /\ stk[i].rid = stk[j].rid => stk[i].rid = 0
CallersInv ==
    /\ \A i \in DOMAIN stk : stk[i].op # "rx" => stk[i].t \in Callers /\ thr[stk[i].t].pc = "call"
    /\ \A i, j \in DOMAIN stk :
        i # j /\ stk[i].op # "rx" /\ stk[j].op # "rx" => stk[i].t # stk[j].t
QueueInv ==
    /\ \A k \in DOMAIN queue : queue[k].t \in Callers /\ thr[queue[k].t].pc = "call"
    /\ \A k, l \in DOMAIN queue : k # l => queue[k].t # queue[l].t
    /\ \A i \in DOMAIN stk, k \in DOMAIN queue : stk[i].op # "rx" => stk[i].t # queue[k].t
IdleInv == ~inst => stk = <<>> /\ queue = <<>> /\ \A t \in DOMAIN thr : thr[t].pc = "idle"

StackInv == FramesInv /\ NumbersInv /\ CallersInv /\ QueueInv /\ IdleInv

(* The types of the stack, the queue and the threads.                      *)
LEMMA EffectTypes ==
    ASSUME ToolTypes, StackEffect
    PROVE  StackTypes' /\ ThreadTypes' /\ nreq' \in Nat
<1>0. /\ stk \in Seq(Frame) /\ queue \in Seq(Posted) /\ nreq \in Nat /\ nreq + 1 \in Nat
      /\ ThreadTypes
  BY DEF ToolTypes, StackTypes, CountTypes
<1>1. ASSUME NEW t \in Threads \union {W}, thr' = [thr EXCEPT ![t].pc = "call"] PROVE ThreadTypes'
  <2>1. thr' = [thr EXCEPT ![t] = [thr[t] EXCEPT !.pc = "call"]]
    BY <1>0, <1>1, ThreadProperties
  <2>2. [thr[t] EXCEPT !.pc = "call"] \in ThreadState
    BY <1>0, ThreadProperties
  <2> QED BY <1>0, <2>1, <2>2, ThreadProperties DEF ThreadTypes
<1>2. ASSUME NEW t \in Threads \union {W}, Release(t) PROVE ThreadTypes'
  BY <1>0, <1>2, ThreadProperties DEF ThreadTypes, Release
<1>3. ASSUME Walks PROVE ThreadTypes'
  BY <1>0, <1>3, ThreadProperties DEF ThreadTypes, Walks
<1>4. Callers \subseteq Threads \union {W}
  BY DEF Threads
<1>5. queue # <<>> => Tail(queue) \in Seq(Posted) /\ Head(queue) \in Posted
  BY <1>0, HeadTailProperties
<1>6. stk # <<>> => Below \in Seq(Frame) /\ Head(stk) \in Frame
  BY <1>0, BelowProperties
<1>7. CASE Marks
  BY <1>0, <1>3, <1>7 DEF Marks, More, StackTypes
<1>8. CASE Moves
  <2>1. stk' \in Seq(Frame)
    BY <1>0, <1>8, TopProperties DEF Moves
  <2> QED BY <1>0, <1>3, <1>8, <2>1 DEF Moves, More, StackTypes
<1>9. CASE Pushes
  <2>1. stk' \in Seq(Frame)
    BY <1>0, <1>9, PushProperties DEF Pushes
  <2>2. queue' \in Seq(Posted) /\ nreq' \in Nat /\ thr' = thr
    BY <1>0, <1>5, <1>9 DEF Pushes
  <2> QED BY <1>0, <2>1, <2>2 DEF StackTypes, ThreadTypes
<1>10. CASE Pops
  <2>1. stk' \in Seq(Frame) /\ queue' = queue /\ nreq' = nreq
    BY <1>6, <1>10 DEF Pops
  <2>2. ThreadTypes'
    <3>1. CASE thr' = thr
      BY <1>0, <3>1 DEF ThreadTypes
    <3>2. CASE Release(Head(stk).t) /\ stk # <<>>
      <4>1. Head(stk).t \in Threads \union {W}
        BY <1>6, <3>2 DEF Frame
      <4> QED BY <1>2, <3>2, <4>1
    <3> QED BY <1>10, <3>1, <3>2 DEF Pops
  <2> QED BY <1>0, <2>1, <2>2 DEF StackTypes
<1>11. CASE Refuses
  <2>1. Head(queue).t \in Threads \union {W}
    BY <1>4, <1>5, <1>11 DEF Posted, Refuses
  <2> QED BY <1>0, <1>2, <1>5, <1>11, <2>1 DEF Refuses, StackTypes
<1>12. CASE Posts
  <2>1. PICK t \in Callers, op \in Reqs \union {"flash"} :
            queue' = Append(queue, [t |-> t, op |-> op]) /\ thr' = [thr EXCEPT ![t].pc = "call"]
    BY <1>12 DEF Posts
  <2>2. [t |-> t, op |-> op] \in Posted
    BY DEF Posted
  <2>3. queue' \in Seq(Posted)
    BY <1>0, <2>1, <2>2, AppendProperties
  <2> QED BY <1>0, <1>1, <1>4, <1>12, <2>1, <2>3 DEF Posts, StackTypes
<1>13. CASE Starts
  <2>1. PICK t \in Callers : /\ stk' = <<NewFrame("init", t, "run")>>
                             /\ thr' = [thr EXCEPT ![t].pc = "call"]
    BY <1>13 DEF Starts
  <2>2. NewFrame("init", t, "run") \in Frame
    BY <1>4, NewFrameProperties
  <2>3. stk' \in Seq(Frame)
    BY <2>1, <2>2
  <2> QED BY <1>0, <1>1, <1>4, <1>13, <2>1, <2>3 DEF Starts, More, StackTypes
<1>14. CASE Ends
  BY <1>0, <1>14 DEF Ends, StackTypes, ThreadTypes
<1> QED BY <1>7, <1>8, <1>9, <1>10, <1>11, <1>12, <1>13, <1>14 DEF StackEffect

(* Where the frames of a stack are after a push and after a pop.           *)
LEMMA PushedFrames ==
    ASSUME stk \in Seq(Frame), NEW f \in Frame, stk' = Push(f, stk)
    PROVE  /\ 1 \in DOMAIN stk' /\ stk'[1] = f
           /\ \A i \in DOMAIN stk' : \/ i = 1
                                     \/ i > 1 /\ i - 1 \in DOMAIN stk /\ stk'[i] = stk[i - 1]
           /\ \A i \in DOMAIN stk : i + 1 \in DOMAIN stk' /\ stk'[i + 1] = stk[i] /\ i + 1 > 1
           /\ \A i, j \in DOMAIN stk' : i # j => i - 1 # j - 1
           /\ \A i \in DOMAIN stk' : i \in Nat
<1>1. DOMAIN stk = 1..Len(stk) /\ Len(stk) \in Nat
  BY LenProperties
<1>2. /\ DOMAIN stk' = 1..(Len(stk) + 1) /\ stk'[1] = f
      /\ \A i \in 2..(Len(stk) + 1) : stk'[i] = stk[i - 1]
      /\ \A i \in 1..Len(stk) : stk'[i + 1] = stk[i]
  BY PushProperties
<1>3. ASSUME NEW i \in DOMAIN stk'
      PROVE  i = 1 \/ (i > 1 /\ i - 1 \in DOMAIN stk /\ stk'[i] = stk[i - 1])
  <2>1. i = 1 \/ (i > 1 /\ i \in 2..(Len(stk) + 1) /\ i - 1 \in 1..Len(stk))
    BY <1>1, <1>2
  <2> QED BY <1>1, <1>2, <2>1
<1>4. ASSUME NEW i \in DOMAIN stk
      PROVE  i + 1 \in DOMAIN stk' /\ stk'[i + 1] = stk[i] /\ i + 1 > 1
  BY <1>1, <1>2
<1>5. \A i, j \in DOMAIN stk' : i # j => i - 1 # j - 1
  BY <1>1, <1>2
<1>6. 1 \in DOMAIN stk' /\ \A i \in DOMAIN stk' : i \in Nat
  BY <1>1, <1>2
<1> QED BY <1>2, <1>3, <1>4, <1>5, <1>6

LEMMA PoppedFrames ==
    ASSUME stk \in Seq(Frame), stk # <<>>, stk' = Below
    PROVE  /\ \A i \in DOMAIN stk' : i + 1 \in DOMAIN stk /\ i + 1 > 1 /\ stk'[i] = stk[i + 1]
           /\ \A i \in DOMAIN stk : i # 1 => i - 1 \in DOMAIN stk' /\ stk'[i - 1] = stk[i]
           /\ \A i, j \in DOMAIN stk' : i # j => i + 1 # j + 1
           /\ 1 \in DOMAIN stk /\ stk[1] = Head(stk)
<1>1. /\ Len(stk) \in Nat /\ Len(stk) >= 1 /\ DOMAIN stk = 1..Len(stk)
      /\ DOMAIN stk' = 1..(Len(stk) - 1) /\ \A i \in 1..(Len(stk) - 1) : stk'[i] = stk[i + 1]
      /\ stk[1] = Head(stk) /\ 1 \in DOMAIN stk
  BY BelowProperties
<1>2. ASSUME NEW i \in DOMAIN stk'
      PROVE  i + 1 \in DOMAIN stk /\ i + 1 > 1 /\ stk'[i] = stk[i + 1]
  BY <1>1
<1>3. ASSUME NEW i \in DOMAIN stk, i # 1
      PROVE  i - 1 \in DOMAIN stk' /\ stk'[i - 1] = stk[i]
  <2>1. i - 1 \in 1..(Len(stk) - 1) /\ i - 1 + 1 = i
    BY <1>1, <1>3
  <2> QED BY <1>1, <2>1
<1>4. \A i, j \in DOMAIN stk' : i # j => i + 1 # j + 1
  BY <1>1
<1> QED BY <1>1, <1>2, <1>3, <1>4

LEMMA FrameGrows ==
    ASSUME NEW f \in Frame, NEW g, Same(f, g), NEW m \in Nat, NEW n \in Nat, m <= n, FrameOK(f, m)
    PROVE  FrameOK(g, n)
<1>1. f.rid \in Nat /\ g.rid = f.rid
  BY DEF Frame, Same
<1>2. g.rid <= n
  BY <1>1 DEF FrameOK
<1> QED BY <1>2 DEF FrameOK, Same

LEMMA FrameNewer ==
    ASSUME NEW f \in Frame, NEW m \in Nat, NEW n \in Nat, m <= n, FrameOK(f, m)
    PROVE  FrameOK(f, n)
<1>1. Same(f, f)
  BY DEF Same
<1> QED BY <1>1, FrameGrows

LEMMA FramesKept ==
    ASSUME ToolTypes, StackInv, StackEffect
    PROVE  FramesInv' /\ NumbersInv'
<1>0. /\ stk \in Seq(Frame) /\ nreq \in Nat /\ nreq + 1 \in Nat /\ DOMAIN stk = 1..Len(stk)
      /\ Len(stk) \in Nat /\ \A i \in DOMAIN stk : stk[i] \in Frame /\ stk[i].rid \in Nat
  <2>1. stk \in Seq(Frame) /\ nreq \in Nat
    BY DEF ToolTypes, StackTypes, CountTypes
  <2>2. DOMAIN stk = 1..Len(stk) /\ Len(stk) \in Nat /\ \A i \in DOMAIN stk : stk[i] \in Frame
    BY <2>1, LenProperties, ElementOfSeq
  <2> QED BY <2>1, <2>2 DEF Frame
<1>1. /\ \A i \in DOMAIN stk : FrameOK(stk[i], nreq) /\ (i > 1 => stk[i].pc = "wait")
      /\ \A i, j \in DOMAIN stk : i # j /\ stk[i].rid = stk[j].rid => stk[i].rid = 0
  BY DEF StackInv, FramesInv, NumbersInv
<1>2. \A i \in DOMAIN stk : stk[i].rid <= nreq
  BY <1>1 DEF FrameOK
<1>3. CASE Marks
  <2>1. /\ DOMAIN stk' = DOMAIN stk /\ \A i \in DOMAIN stk : Same(stk[i], stk'[i])
        /\ nreq' \in Nat /\ nreq <= nreq'
    BY <1>0, <1>3 DEF Marks, More
  <2>2. \A i \in DOMAIN stk : FrameOK(stk'[i], nreq')
    BY <1>0, <1>1, <2>1, FrameGrows
  <2>3. \A i \in DOMAIN stk : stk'[i].rid = stk[i].rid /\ stk'[i].pc = stk[i].pc
    BY <2>1 DEF Same
  <2> QED BY <1>1, <2>1, <2>2, <2>3 DEF FramesInv, NumbersInv
<1>4. CASE UNCHANGED stk /\ nreq' \in Nat /\ nreq <= nreq'
  <2>1. \A i \in DOMAIN stk : FrameOK(stk[i], nreq')
    BY <1>0, <1>1, <1>4, FrameNewer
  <2> QED BY <1>1, <1>4, <2>1 DEF FramesInv, NumbersInv
<1>5. CASE Moves
  <2>1. PICK f \in Frame :
        /\ stk' = Top(f) /\ f.op = "flash" /\ f.t = Head(stk).t
        /\ \/ Head(stk).pc = "reset" /\ f.pc = "send" /\ f.rid = Head(stk).rid
           \/ Head(stk).pc = "send" /\ f.pc = "enter" /\ f.rid = nreq + 1 /\ nreq' = nreq + 1
           \/ Head(stk).pc = "enter" /\ f.pc = "wait" /\ f.rid = Head(stk).rid
           \/ Head(stk).pc = "wait" /\ f.pc = "ret" /\ f.rid = Head(stk).rid
    BY <1>5 DEF Moves
  <2>2. stk # <<>> /\ Head(stk).op = "flash" /\ nreq' \in Nat /\ nreq <= nreq'
    BY <1>0, <1>5 DEF Moves, More
  <2>3. /\ DOMAIN stk' = DOMAIN stk /\ stk'[1] = f /\ \A i \in DOMAIN stk : i # 1 => stk'[i] = stk[i]
        /\ 1 \in DOMAIN stk /\ Head(stk) = stk[1]
    BY <1>0, <2>1, <2>2, TopProperties, BelowProperties
  <2>4. FrameOK(stk[1], nreq)
    BY <1>1, <2>3
  <2>5. FrameOK(f, nreq')
    <3>1. f.rid \in Nat /\ stk[1].rid \in Nat /\ f.op = "flash" /\ stk[1].op = "flash"
      BY <1>0, <2>1, <2>2, <2>3 DEF Frame
    <3>2. stk[1].rid <= nreq /\ (stk[1].rid = 0 <=> stk[1].pc \in {"lock", "reset", "send"})
      BY <2>4, <3>1 DEF FrameOK
    <3>3. f.rid <= nreq'
      BY <1>0, <2>1, <2>2, <2>3, <3>1, <3>2
    <3>4. f.rid = 0 <=> f.pc \in {"lock", "reset", "send"}
      BY <1>0, <2>1, <2>3, <3>1, <3>2
    <3> QED BY <2>1, <3>1, <3>3, <3>4, ReqNames DEF FrameOK
  <2>6. \A i \in DOMAIN stk : i # 1 => FrameOK(stk[i], nreq')
    BY <1>0, <1>1, <2>2, FrameNewer
  <2>7. \A i \in DOMAIN stk : FrameOK(stk'[i], nreq') /\ (i > 1 => stk'[i].pc = "wait")
    BY <1>0, <1>1, <2>3, <2>5, <2>6
  <2>8. \A i \in DOMAIN stk : i # 1 /\ f.rid = stk[i].rid => f.rid = 0
    <3>1. CASE f.rid = stk[1].rid
      BY <1>1, <2>3, <3>1
    <3>2. CASE f.rid = nreq + 1
      BY <1>0, <1>2, <3>2
    <3> QED BY <2>1, <2>3, <3>1, <3>2
  <2> QED BY <1>1, <2>3, <2>7, <2>8 DEF FramesInv, NumbersInv
<1>6. CASE Pushes
  <2>1. PICK f \in Frame :
        /\ stk' = Push(f, stk)
        /\ \/ /\ f.op = "rx" /\ f.t = W /\ f.pc = "run" /\ f.rid = 0 /\ nreq' = nreq
           \/ f.op = "flash" /\ f.pc = "reset" /\ f.rid = 0 /\ nreq' = nreq
           \/ f.op \in Reqs /\ f.pc = "lock" /\ f.rid = 0 /\ nreq' = nreq
           \/ f.op \in Reqs /\ f.pc = "wait" /\ f.rid = nreq + 1 /\ nreq' = nreq + 1
    BY <1>6 DEF Pushes
  <2>2. /\ 1 \in DOMAIN stk' /\ stk'[1] = f
        /\ \A i \in DOMAIN stk' : \/ i = 1
                                  \/ i > 1 /\ i - 1 \in DOMAIN stk /\ stk'[i] = stk[i - 1]
        /\ \A i, j \in DOMAIN stk' : i # j => i - 1 # j - 1
    BY <1>0, <2>1, PushedFrames
  <2>3. nreq' \in Nat /\ nreq <= nreq' /\ f.rid <= nreq'
    BY <1>0, <2>1
  <2>4. FrameOK(f, nreq')
    BY <1>0, <2>1, <2>3, ReqNames DEF FrameOK
  <2>5. \A i \in DOMAIN stk : FrameOK(stk[i], nreq') /\ stk[i].pc = "wait"
    <3>1. stk # <<>> => stk[1].pc = "wait"
      BY <1>0, <1>6, BelowProperties DEF Pushes, InLoop
    <3>2. \A i \in DOMAIN stk : stk[i].pc = "wait"
      BY <1>0, <1>1, <3>1
    <3> QED BY <1>0, <1>1, <2>3, <3>2, FrameNewer
  <2>6. \A i \in DOMAIN stk' : FrameOK(stk'[i], nreq') /\ (i > 1 => stk'[i].pc = "wait")
    BY <1>0, <2>2, <2>4, <2>5
  <2>7. \A i \in DOMAIN stk : f.rid = stk[i].rid => f.rid = 0
    BY <1>0, <1>2, <2>1
  <2>8. \A i, j \in DOMAIN stk' : i # j /\ stk'[i].rid = stk'[j].rid => stk'[i].rid = 0
    <3> TAKE i, j \in DOMAIN stk'
    <3>1. CASE i = 1 \/ j = 1
      <4>1. i = 1 /\ j # 1 => stk'[j] = stk[j - 1] /\ j - 1 \in DOMAIN stk
        BY <2>2
      <4>2. j = 1 /\ i # 1 => stk'[i] = stk[i - 1] /\ i - 1 \in DOMAIN stk
        BY <2>2
      <4> QED BY <2>2, <2>7, <3>1, <4>1, <4>2
    <3>2. CASE i # 1 /\ j # 1
      <4>1. /\ stk'[i] = stk[i - 1] /\ i - 1 \in DOMAIN stk /\ stk'[j] = stk[j - 1]
            /\ j - 1 \in DOMAIN stk /\ (i # j => i - 1 # j - 1)
        BY <2>2, <3>2
      <4> QED BY <1>1, <4>1
    <3> QED BY <3>1, <3>2
  <2> QED BY <2>6, <2>8 DEF FramesInv, NumbersInv
<1>7. CASE Pops
  <2>1. /\ nreq' = nreq
        /\ \A i \in DOMAIN stk' : i + 1 \in DOMAIN stk /\ i + 1 > 1 /\ stk'[i] = stk[i + 1]
        /\ \A i, j \in DOMAIN stk' : i # j => i + 1 # j + 1
    BY <1>0, <1>7, PoppedFrames DEF Pops
  <2>2. \A i \in DOMAIN stk' : FrameOK(stk'[i], nreq') /\ stk'[i].pc = "wait"
    BY <1>1, <2>1
  <2>3. ASSUME NEW i \in DOMAIN stk', NEW j \in DOMAIN stk', i # j, stk'[i].rid = stk'[j].rid
        PROVE  stk'[i].rid = 0
    <3>1. i + 1 \in DOMAIN stk /\ j + 1 \in DOMAIN stk /\ i + 1 # j + 1
      BY <2>1, <2>3
    <3> QED BY <1>1, <2>1, <2>3, <3>1
  <2> QED BY <2>2, <2>3 DEF FramesInv, NumbersInv
<1>8. CASE Starts
  <2>1. PICK t \in Callers : stk' = <<NewFrame("init", t, "run")>>
    BY <1>8 DEF Starts
  <2>2. DOMAIN stk' = {1} /\ stk'[1] = NewFrame("init", t, "run") /\ nreq' \in Nat
    BY <1>8, <2>1 DEF Starts, More
  <2>3. FrameOK(NewFrame("init", t, "run"), nreq')
    BY <2>2, ReqNames DEF FrameOK, NewFrame
  <2> QED BY <2>2, <2>3 DEF FramesInv, NumbersInv
<1>9. CASE Refuses \/ Posts \/ Ends
  BY <1>0, <1>4, <1>9 DEF Refuses, Posts, Ends
<1> QED BY <1>3, <1>5, <1>6, <1>7, <1>8, <1>9 DEF StackEffect

(* Threads that wait for the worker, after the steps of the others.        *)
LEMMA WalksCalls ==
    ASSUME ThreadTypes, Walks, NEW u \in Threads \union {W}, thr[u].pc = "call"
    PROVE  thr'[u].pc = "call"
  BY DEF ThreadTypes, Walks

LEMMA ReleaseCalls ==
    ASSUME ThreadTypes, NEW t \in Threads \union {W}, Release(t)
    PROVE  /\ thr'[t] = Idle /\ thr'[t].pc = "idle"
           /\ \A u \in Threads \union {W} : u # t => thr'[u] = thr[u]
<1>1. thr' = [thr EXCEPT ![t] = Idle] /\ Idle.pc = "idle"
  BY DEF Release, Idle
<1> QED BY <1>1 DEF ThreadTypes

LEMMA CallCalls ==
    ASSUME ThreadTypes, NEW t \in Threads \union {W}, thr' = [thr EXCEPT ![t].pc = "call"]
    PROVE  /\ thr'[t].pc = "call" /\ thr'[t].ok = thr[t].ok /\ thr'[t].p = thr[t].p
           /\ \A u \in Threads \union {W} : u # t => thr'[u] = thr[u]
<1>1. thr' = [thr EXCEPT ![t] = [thr[t] EXCEPT !.pc = "call"]]
  BY ThreadProperties
<1>2. /\ [thr[t] EXCEPT !.pc = "call"].pc = "call" /\ [thr[t] EXCEPT !.pc = "call"].ok = thr[t].ok
      /\ [thr[t] EXCEPT !.pc = "call"].p = thr[t].p /\ [thr[t] EXCEPT !.pc = "call"] \in ThreadState
  BY ThreadProperties
<1>3. thr'[t] = [thr[t] EXCEPT !.pc = "call"]
  BY <1>1, <1>2, ThreadProperties
<1>4. \A u \in Threads \union {W} : u # t => thr'[u] = thr[u]
  BY <1>1 DEF ThreadTypes
<1> QED BY <1>2, <1>3, <1>4

LEMMA QueueProperties ==
    ASSUME queue \in Seq(Posted)
    PROVE  /\ \A k \in DOMAIN queue : queue[k] \in Posted /\ queue[k].t \in Callers
           /\ queue # <<>> =>
                /\ 1 \in DOMAIN queue /\ Head(queue) = queue[1]
                /\ \A k \in DOMAIN Tail(queue) :
                    k + 1 \in DOMAIN queue /\ k + 1 # 1 /\ Tail(queue)[k] = queue[k + 1]
                /\ \A k, l \in DOMAIN Tail(queue) : k # l => k + 1 # l + 1
<1>1. /\ DOMAIN queue = 1..Len(queue) /\ Len(queue) \in Nat
      /\ \A k \in DOMAIN queue : queue[k] \in Posted
  BY LenProperties, ElementOfSeq
<1>2. ASSUME queue # <<>>
      PROVE  /\ 1 \in DOMAIN queue /\ Head(queue) = queue[1]
             /\ \A k \in DOMAIN Tail(queue) :
                    k + 1 \in DOMAIN queue /\ k + 1 # 1 /\ Tail(queue)[k] = queue[k + 1]
             /\ \A k, l \in DOMAIN Tail(queue) : k # l => k + 1 # l + 1
  <2>1. /\ Tail(queue) \in Seq(Posted) /\ Len(Tail(queue)) = Len(queue) - 1
        /\ Head(queue) = queue[1] /\ \A k \in 1..Len(Tail(queue)) : Tail(queue)[k] = queue[k + 1]
        /\ Len(queue) >= 1
    BY <1>1, <1>2, HeadTailProperties, EmptySeq
  <2>2. DOMAIN Tail(queue) = 1..(Len(queue) - 1)
    BY <2>1, LenProperties
  <2>3. \A k \in 1..(Len(queue) - 1) : k + 1 \in 1..Len(queue) /\ k + 1 # 1
    BY <1>1
  <2>4. \A k, l \in DOMAIN Tail(queue) : k # l => k + 1 # l + 1
    BY <1>1, <2>2
  <2> QED BY <1>1, <2>1, <2>2, <2>3, <2>4
<1> QED BY <1>1, <1>2 DEF Posted

(* The stack and the queue are as they were.                               *)
LEMMA CallersStay ==
    ASSUME ToolTypes, CallersInv, QueueInv, UNCHANGED queue,
           DOMAIN stk' = DOMAIN stk,
           \A i \in DOMAIN stk : stk'[i].op = stk[i].op /\ stk'[i].t = stk[i].t,
           \A u \in Threads \union {W} : thr[u].pc = "call" => thr'[u].pc = "call"
    PROVE  CallersInv' /\ QueueInv'
<1>1. Callers \subseteq Threads \union {W}
  BY DEF Threads
<1>2. CallersInv'
  BY <1>1 DEF CallersInv
<1>3. QueueInv'
  BY <1>1 DEF QueueInv
<1> QED BY <1>2, <1>3

LEMMA CallersMarks ==
    ASSUME ToolTypes, CallersInv, QueueInv, Marks \/ Moves
    PROVE  CallersInv' /\ QueueInv'
<1>1. \A u \in Threads \union {W} : thr[u].pc = "call" => thr'[u].pc = "call"
  BY WalksCalls DEF ToolTypes, Marks, Moves
<1>2. CASE Marks
  <2>1. /\ UNCHANGED queue /\ DOMAIN stk' = DOMAIN stk
        /\ \A i \in DOMAIN stk : stk'[i].op = stk[i].op /\ stk'[i].t = stk[i].t
    BY <1>2 DEF Marks, Same
  <2> QED BY <1>1, <2>1, CallersStay
<1>3. CASE Moves
  <2>1. PICK f \in Frame : stk' = Top(f) /\ f.op = "flash" /\ f.t = Head(stk).t
    BY <1>3 DEF Moves
  <2>2. stk # <<>> /\ Head(stk).op = "flash" /\ UNCHANGED queue /\ stk \in Seq(Frame)
    BY <1>3 DEF Moves, ToolTypes, StackTypes
  <2>3. /\ DOMAIN stk' = DOMAIN stk /\ stk'[1] = f /\ Head(stk) = stk[1]
        /\ \A i \in DOMAIN stk : i # 1 => stk'[i] = stk[i]
    BY <2>1, <2>2, TopProperties, BelowProperties
  <2>4. \A i \in DOMAIN stk : stk'[i].op = stk[i].op /\ stk'[i].t = stk[i].t
    BY <2>1, <2>2, <2>3
  <2> QED BY <1>1, <2>2, <2>3, <2>4, CallersStay
<1> QED BY <1>2, <1>3

LEMMA CallersPushes ==
    ASSUME ToolTypes, CallersInv, QueueInv, Pushes
    PROVE  CallersInv' /\ QueueInv'
<1>0. stk \in Seq(Frame) /\ queue \in Seq(Posted) /\ thr' = thr
  BY DEF ToolTypes, StackTypes, Pushes
<1>1. PICK f \in Frame :
        /\ stk' = Push(f, stk)
        /\ \/ f.op = "rx" /\ UNCHANGED queue
           \/ /\ queue # <<>> /\ queue' = Tail(queue) /\ f.t = Head(queue).t /\ f.op # "rx"
  BY ReqNames DEF Pushes
<1>2. /\ 1 \in DOMAIN stk' /\ stk'[1] = f
      /\ \A i \in DOMAIN stk' : \/ i = 1
                                \/ i > 1 /\ i - 1 \in DOMAIN stk /\ stk'[i] = stk[i - 1]
      /\ \A i, j \in DOMAIN stk' : i # j => i - 1 # j - 1
  BY <1>0, <1>1, PushedFrames
<1>3. f.op # "rx" => queue # <<>> /\ queue' = Tail(queue) /\ f.t = queue[1].t /\ 1 \in DOMAIN queue
  BY <1>0, <1>1, QueueProperties
<1>4. f.op # "rx" => /\ f.t \in Callers /\ thr[f.t].pc = "call"
                     /\ \A i \in DOMAIN stk : stk[i].op # "rx" => stk[i].t # f.t
                     /\ \A k \in DOMAIN queue : k # 1 => queue[k].t # f.t
  BY <1>0, <1>3 DEF QueueInv
<1>5. \A i \in DOMAIN stk' : stk'[i].op # "rx" => stk'[i].t \in Callers /\ thr'[stk'[i].t].pc = "call"
  BY <1>0, <1>2, <1>4 DEF CallersInv
<1>6. ASSUME NEW i \in DOMAIN stk', NEW j \in DOMAIN stk', i # j,
             stk'[i].op # "rx", stk'[j].op # "rx"
      PROVE  stk'[i].t # stk'[j].t
  <2>1. i # 1 => i - 1 \in DOMAIN stk /\ stk'[i] = stk[i - 1]
    BY <1>2
  <2>2. j # 1 => j - 1 \in DOMAIN stk /\ stk'[j] = stk[j - 1]
    BY <1>2
  <2>3. i - 1 # j - 1
    BY <1>2, <1>6
  <2>4. CASE i = 1
    BY <1>2, <1>4, <1>6, <2>2, <2>4
  <2>5. CASE j = 1
    BY <1>2, <1>4, <1>6, <2>1, <2>5
  <2>6. CASE i # 1 /\ j # 1
    BY <1>6, <2>1, <2>2, <2>3, <2>6 DEF CallersInv
  <2> QED BY <2>4, <2>5, <2>6
<1>7. CASE queue' = queue /\ f.op = "rx"
  <2>1. \A i \in DOMAIN stk', k \in DOMAIN queue' : stk'[i].op # "rx" => stk'[i].t # queue'[k].t
    BY <1>2, <1>7 DEF QueueInv
  <2> QED BY <1>0, <1>5, <1>6, <1>7, <2>1 DEF CallersInv, QueueInv
<1>8. CASE queue # <<>> /\ queue' = Tail(queue) /\ f.op # "rx"
  <2>1. /\ \A k \in DOMAIN queue' :
            k + 1 \in DOMAIN queue /\ k + 1 # 1 /\ queue'[k] = queue[k + 1]
        /\ \A k, l \in DOMAIN queue' : k # l => k + 1 # l + 1
    BY <1>0, <1>8, QueueProperties
  <2>2. \A k \in DOMAIN queue' : queue'[k].t \in Callers /\ thr'[queue'[k].t].pc = "call"
    BY <1>0, <2>1 DEF QueueInv
  <2>3. \A k, l \in DOMAIN queue' : k # l => queue'[k].t # queue'[l].t
    BY <2>1 DEF QueueInv
  <2>4. ASSUME NEW i \in DOMAIN stk', NEW k \in DOMAIN queue', stk'[i].op # "rx"
        PROVE  stk'[i].t # queue'[k].t
    <3>1. k + 1 \in DOMAIN queue /\ k + 1 # 1 /\ queue'[k] = queue[k + 1]
      BY <2>1
    <3>2. CASE i = 1
      BY <1>2, <1>4, <1>8, <3>1, <3>2
    <3>3. CASE i # 1
      <4>1. i - 1 \in DOMAIN stk /\ stk'[i] = stk[i - 1]
        BY <1>2, <3>3
      <4> QED BY <2>4, <3>1, <4>1 DEF QueueInv
    <3> QED BY <3>2, <3>3
  <2> QED BY <1>5, <1>6, <2>2, <2>3, <2>4 DEF CallersInv, QueueInv
<1> QED BY <1>1, <1>3, <1>7, <1>8

LEMMA CallersPops ==
    ASSUME ToolTypes, CallersInv, QueueInv, Pops
    PROVE  CallersInv' /\ QueueInv'
<1>0. /\ stk \in Seq(Frame) /\ stk # <<>> /\ stk' = Below /\ queue' = queue /\ ThreadTypes
      /\ Callers \subseteq Threads \union {W}
  BY DEF ToolTypes, StackTypes, Pops, Threads
<1>1. /\ \A i \in DOMAIN stk' : i + 1 \in DOMAIN stk /\ i + 1 > 1 /\ stk'[i] = stk[i + 1]
      /\ \A i, j \in DOMAIN stk' : i # j => i + 1 # j + 1
      /\ 1 \in DOMAIN stk /\ stk[1] = Head(stk)
  BY <1>0, PoppedFrames
<1>2. ASSUME NEW u \in Callers, thr[u].pc = "call", stk[1].op = "rx" \/ u # stk[1].t
      PROVE  thr'[u].pc = "call"
  <2>1. CASE thr' = thr
    BY <1>2, <2>1
  <2>2. CASE Head(stk).op # "rx" /\ Release(Head(stk).t)
    <3>1. stk[1].t \in Threads \union {W}
      BY <1>0, <1>1, <2>2 DEF CallersInv
    <3> QED BY <1>0, <1>1, <1>2, <2>2, <3>1, ReleaseCalls
  <2> QED BY <2>1, <2>2 DEF Pops
<1>3. ASSUME NEW i \in DOMAIN stk', stk'[i].op # "rx"
      PROVE  stk'[i].t \in Callers /\ thr'[stk'[i].t].pc = "call"
  <2>1. i + 1 \in DOMAIN stk /\ i + 1 # 1 /\ stk'[i] = stk[i + 1]
    BY <1>1
  <2>2. stk[i + 1].t \in Callers /\ thr[stk[i + 1].t].pc = "call"
    BY <1>3, <2>1 DEF CallersInv
  <2>3. stk[1].op = "rx" \/ stk[i + 1].t # stk[1].t
    BY <1>1, <1>3, <2>1 DEF CallersInv
  <2> QED BY <1>2, <2>1, <2>2, <2>3
<1>4. ASSUME NEW i \in DOMAIN stk', NEW j \in DOMAIN stk', i # j,
             stk'[i].op # "rx", stk'[j].op # "rx"
      PROVE  stk'[i].t # stk'[j].t
  <2>1. i + 1 # j + 1 /\ i + 1 \in DOMAIN stk /\ j + 1 \in DOMAIN stk
    BY <1>1, <1>4
  <2> QED BY <1>1, <1>4, <2>1 DEF CallersInv
<1>5. ASSUME NEW k \in DOMAIN queue
      PROVE  queue[k].t \in Callers /\ thr'[queue[k].t].pc = "call"
  <2>1. queue[k].t \in Callers /\ thr[queue[k].t].pc = "call"
    BY DEF QueueInv
  <2>2. stk[1].op = "rx" \/ queue[k].t # stk[1].t
    BY <1>1 DEF QueueInv
  <2> QED BY <1>2, <2>1, <2>2
<1>6. \A i \in DOMAIN stk', k \in DOMAIN queue : stk'[i].op # "rx" => stk'[i].t # queue[k].t
  BY <1>1 DEF QueueInv
<1> QED BY <1>0, <1>3, <1>4, <1>5, <1>6 DEF CallersInv, QueueInv

LEMMA CallersRefuses ==
    ASSUME ToolTypes, CallersInv, QueueInv, Refuses
    PROVE  CallersInv' /\ QueueInv'
<1>0. /\ queue \in Seq(Posted) /\ stk' = stk /\ queue # <<>> /\ queue' = Tail(queue) /\ ThreadTypes
      /\ Callers \subseteq Threads \union {W}
  BY DEF ToolTypes, StackTypes, Refuses, Threads
<1>1. /\ \A k \in DOMAIN queue' : k + 1 \in DOMAIN queue /\ k + 1 # 1 /\ queue'[k] = queue[k + 1]
      /\ \A k, l \in DOMAIN queue' : k # l => k + 1 # l + 1
      /\ 1 \in DOMAIN queue /\ queue[1] = Head(queue)
  BY <1>0, QueueProperties
<1>2. ASSUME NEW u \in Callers, thr[u].pc = "call", u # queue[1].t
      PROVE  thr'[u].pc = "call"
  <2>1. Release(queue[1].t) /\ queue[1].t \in Threads \union {W}
    BY <1>0, <1>1 DEF Refuses, QueueInv
  <2> QED BY <1>0, <1>2, <2>1, ReleaseCalls
<1>3. ASSUME NEW i \in DOMAIN stk, stk[i].op # "rx"
      PROVE  stk[i].t \in Callers /\ thr'[stk[i].t].pc = "call"
  <2>1. stk[i].t \in Callers /\ thr[stk[i].t].pc = "call" /\ stk[i].t # queue[1].t
    BY <1>1, <1>3 DEF CallersInv, QueueInv
  <2> QED BY <1>2, <2>1
<1>4. ASSUME NEW k \in DOMAIN queue'
      PROVE  queue'[k].t \in Callers /\ thr'[queue'[k].t].pc = "call"
  <2>1. k + 1 \in DOMAIN queue /\ k + 1 # 1 /\ queue'[k] = queue[k + 1]
    BY <1>1
  <2>2. /\ queue[k + 1].t \in Callers /\ thr[queue[k + 1].t].pc = "call"
        /\ queue[k + 1].t # queue[1].t
    BY <1>1, <2>1 DEF QueueInv
  <2> QED BY <1>2, <2>1, <2>2
<1>5. \A k, l \in DOMAIN queue' : k # l => queue'[k].t # queue'[l].t
  BY <1>1 DEF QueueInv
<1>6. \A i \in DOMAIN stk, k \in DOMAIN queue' : stk[i].op # "rx" => stk[i].t # queue'[k].t
  BY <1>1 DEF QueueInv
<1>7. CallersInv'
  BY <1>0, <1>3 DEF CallersInv
<1> QED BY <1>0, <1>4, <1>5, <1>6, <1>7 DEF QueueInv

LEMMA CallersPosts ==
    ASSUME ToolTypes, CallersInv, QueueInv, Posts
    PROVE  CallersInv' /\ QueueInv'
<1>0. /\ queue \in Seq(Posted) /\ stk' = stk /\ ThreadTypes /\ Callers \subseteq Threads \union {W}
      /\ DOMAIN queue = 1..Len(queue) /\ Len(queue) \in Nat
  BY LenProperties DEF ToolTypes, StackTypes, Posts, Threads
<1>1. PICK t \in Callers, op \in Reqs \union {"flash"} :
        /\ thr[t].pc = "idle" /\ queue' = Append(queue, [t |-> t, op |-> op])
        /\ thr' = [thr EXCEPT ![t].pc = "call"]
  BY DEF Posts
<1>2. \A u \in Callers : thr[u].pc = "call" => thr'[u].pc = "call" /\ u # t
  BY <1>0, <1>1, CallCalls
<1>3. thr'[t].pc = "call"
  BY <1>0, <1>1, CallCalls
<1>4. [t |-> t, op |-> op] \in Posted /\ [t |-> t, op |-> op].t = t
  BY DEF Posted
<1>5. /\ DOMAIN queue' = 1..(Len(queue) + 1) /\ queue'[Len(queue) + 1].t = t
      /\ \A k \in DOMAIN queue : queue'[k] = queue[k]
  <2>1. /\ queue' \in Seq(Posted) /\ Len(queue)' = Len(queue) + 1
        /\ \A k \in 1..Len(queue) : queue'[k] = queue[k]
        /\ queue'[Len(queue) + 1] = [t |-> t, op |-> op]
    BY <1>0, <1>1, <1>4, AppendProperties
  <2> QED BY <1>0, <1>4, <2>1, LenProperties
<1>6. \A k \in DOMAIN queue' : k \in DOMAIN queue \/ (queue'[k].t = t /\ k = Len(queue) + 1)
  BY <1>0, <1>5
<1>7. /\ \A k \in DOMAIN queue : queue[k].t \in Callers /\ thr'[queue[k].t].pc = "call" /\ queue[k].t # t
      /\ \A i \in DOMAIN stk : stk[i].op # "rx" =>
            stk[i].t \in Callers /\ thr'[stk[i].t].pc = "call" /\ stk[i].t # t
  BY <1>2 DEF CallersInv, QueueInv
<1>8. CallersInv'
  BY <1>0, <1>7 DEF CallersInv
<1>9. \A k \in DOMAIN queue' : queue'[k].t \in Callers /\ thr'[queue'[k].t].pc = "call"
  BY <1>3, <1>5, <1>6, <1>7
<1>10. ASSUME NEW k \in DOMAIN queue', NEW l \in DOMAIN queue', k # l
       PROVE  queue'[k].t # queue'[l].t
  <2>1. CASE k \in DOMAIN queue /\ l \in DOMAIN queue
    BY <1>5, <1>10, <2>1 DEF QueueInv
  <2>2. CASE ~(k \in DOMAIN queue /\ l \in DOMAIN queue)
    BY <1>5, <1>6, <1>7, <1>10, <2>2
  <2> QED BY <2>1, <2>2
<1>11. \A i \in DOMAIN stk, k \in DOMAIN queue' : stk[i].op # "rx" => stk[i].t # queue'[k].t
  BY <1>5, <1>6, <1>7 DEF QueueInv
<1> QED BY <1>0, <1>8, <1>9, <1>10, <1>11 DEF QueueInv

LEMMA CallersStarts ==
    ASSUME ToolTypes, CallersInv, QueueInv, IdleInv, Starts
    PROVE  CallersInv' /\ QueueInv'
<1>1. PICK t \in Callers : /\ stk' = <<NewFrame("init", t, "run")>>
                           /\ thr' = [thr EXCEPT ![t].pc = "call"]
  BY DEF Starts
<1>2. queue' = <<>> /\ ThreadTypes /\ Callers \subseteq Threads \union {W}
  BY DEF Starts, IdleInv, ToolTypes, Threads
<1>3. DOMAIN stk' = {1} /\ stk'[1].t = t
  BY <1>1 DEF NewFrame
<1>4. thr'[t].pc = "call"
  BY <1>1, <1>2, CallCalls
<1>5. DOMAIN queue' = {}
  BY <1>2
<1>6. CallersInv'
  BY <1>3, <1>4 DEF CallersInv
<1> QED BY <1>5, <1>6 DEF QueueInv

LEMMA IdleKept ==
    ASSUME ToolTypes, StackInv, StackEffect
    PROVE  IdleInv'
<1>1. CASE inst' = TRUE
  BY <1>1 DEF IdleInv
<1>2. CASE Ends
  BY <1>2 DEF Ends, IdleInv
<1>3. CASE inst' = inst /\ ~inst
  <2>1. stk = <<>> /\ queue = <<>> /\ \A t \in DOMAIN thr : thr[t].pc = "idle"
    BY <1>3 DEF StackInv, IdleInv
  <2>2. ~Moves /\ ~Pushes /\ ~Pops /\ ~Refuses /\ ~Posts /\ ~Starts
    BY <1>3, <2>1 DEF Moves, Pushes, InLoop, Pops, Refuses, Posts, Starts
  <2>3. CASE Marks
    <3>1. thr' = thr
      BY <1>3, <2>1, <2>3 DEF Marks, Walks, ToolTypes, ThreadTypes
    <3>2. stk' = <<>>
      <4>1. stk' \in Seq(Frame) /\ DOMAIN stk' = {}
        BY <2>1, <2>3 DEF Marks
      <4>2. Len(stk)' = 0
        BY <4>1, LenProperties
      <4> QED BY <4>1, <4>2, EmptySeq
    <3> QED BY <2>1, <2>3, <3>1, <3>2 DEF Marks, IdleInv
  <2> QED BY <1>2, <2>2, <2>3 DEF StackEffect
<1>4. Ends \/ inst' = TRUE \/ inst' = inst
  BY DEF StackEffect, Marks, Moves, Pushes, Pops, Refuses, Posts, Starts
<1>5. inst \in BOOLEAN
  BY DEF ToolTypes, SocketTypes
<1> QED BY <1>1, <1>2, <1>3, <1>4, <1>5

LEMMA StackInvNext ==
    ASSUME ToolTypes, StackInv, StackEffect
    PROVE  StackInv'
<1>1. CallersInv' /\ QueueInv'
  <2>1. CallersInv /\ QueueInv /\ IdleInv
    BY DEF StackInv
  <2>2. CASE Ends
    BY <2>1, <2>2 DEF Ends, CallersInv, QueueInv
  <2> QED BY <2>1, <2>2, CallersMarks, CallersPushes, CallersPops, CallersRefuses, CallersPosts,
             CallersStarts DEF StackEffect
<1> QED BY <1>1, FramesKept, IdleKept DEF StackInv
-----------------------------------------------------------------------------
(* The types of the other variables.                                       *)

(* The steps that open or close connections, or write.                     *)
Connects == \E s : OnConnected(s) \/ ConnectFails(s) \/ ConnectPends(s)
Writes == \E fn \in {"flash", "event"} \union Kinds : WriteReq(fn)

LEMMA SocketSteps ==
    ASSUME ToolTypes, stk # <<>> => inst, Next
    PROVE  \/ UNCHANGED socket /\ UNCHANGED <<conn, reqs, subd, flashes, net, nreq>>
           \/ Connects /\ inst' = TRUE /\ UNCHANGED <<rx, up>>
           \/ InitReturn \/ OnDisconnected \/ Deinit \/ OnReadyRead \/ Service
           \/ /\ TakeRequest \/ FlashSend
              /\ Writes \/ NoWrite
              /\ UNCHANGED <<inst, rx, conn, subd, flashes, up>>
<1>1. CASE Unwind
  <2>1. CASE FlashSend
    <3>1. (Writes \/ NoWrite) /\ UNCHANGED <<inst, rx, conn, subd, flashes, up>>
      BY <2>1 DEF FlashSend, Writes
    <3> QED BY <2>1, <3>1
  <2>2. CASE ~FlashSend
    BY <1>1, <2>2 DEF Unwind, RequestReturn, FlashReset, FlashEnter, FlashLeave, FlashReturn,
         HandleOneSocketMessage, ReadyReadReturn, ForceStore, ForceLook, ForcePost, ResetClear,
         service, bounds
  <2> QED BY <2>1, <2>2
<1>2. CASE Take
  <2>1. CASE TakeRequest
    <3>1. UNCHANGED <<inst, rx, conn, subd, flashes, up>>
      BY <2>1 DEF TakeRequest
    <3>2. Head(queue).op \in Reqs /\ (\/ NoWrite
                                      \/ WriteReq(IF Head(queue).op = "sub" THEN "event"
                                                  ELSE Head(queue).op))
      BY <2>1 DEF TakeRequest
    <3>3. (IF Head(queue).op = "sub" THEN "event" ELSE Head(queue).op)
            \in {"flash", "event"} \union Kinds
      BY <3>2 DEF Reqs
    <3> QED BY <2>1, <3>1, <3>2, <3>3 DEF Writes
  <2>2. CASE TakeFlash
    BY <2>2 DEF TakeFlash, service, bounds
  <2> QED BY <1>2, <2>1, <2>2 DEF Take
<1>3. CASE LoopEvent
  <2>1. CASE RetryConnection \/ ConnectDone
    <3>1. (OnConnected(stk) \/ ConnectFails(stk) \/ ConnectPends(stk)) /\ UNCHANGED <<inst, rx, up>>
      BY <2>1 DEF RetryConnection, ConnectDone, ConnectToServerInternal
    <3>2. inst = TRUE
      BY <2>1 DEF RetryConnection, ConnectDone, InLoop, Running, ToolTypes, SocketTypes
    <3> QED BY <3>1, <3>2 DEF Connects
  <2> QED BY <1>3, <2>1 DEF LoopEvent
<1>4. CASE Timeout
  BY <1>4 DEF Timeout, RequestTimeout, FlashTimeout, service, bounds
<1>5. ASSUME NEW t \in Callers, Caller(t)
      PROVE  \/ UNCHANGED socket /\ UNCHANGED <<conn, reqs, subd, flashes, net, nreq>>
             \/ Connects /\ inst' = TRUE /\ UNCHANGED <<rx, up>>
  <2>1. CASE ToolInit(t)
    <3> DEFINE s == <<NewFrame("init", t, "run")>>
    <3>1. (OnConnected(s) \/ ConnectFails(s) \/ ConnectPends(s)) /\ inst' = TRUE /\ UNCHANGED <<rx, up>>
      BY <2>1 DEF ToolInit, ConnectToServerInternal
    <3> HIDE DEF s
    <3> QED BY <3>1 DEF Connects
  <2>2. ASSUME NEW op, InvokeOnWorker(t, op)
        PROVE  UNCHANGED socket /\ UNCHANGED <<conn, reqs, subd, flashes, net, nreq>>
    BY <2>2 DEF InvokeOnWorker, service
  <2> QED BY <1>5, <2>1, <2>2 DEF Caller
<1>6. ASSUME NEW t \in Controllers, Control(t) \/ Controller(t)
      PROVE  UNCHANGED socket /\ UNCHANGED <<conn, reqs, subd, flashes, net, nreq>>
  BY <1>6 DEF Control, Controller, ForceStore, ForceLook, ForcePost, ResetClear, service, bounds
<1> QED BY <1>1, <1>2, <1>3, <1>4, <1>5, <1>6 DEF Next

LEMMA SocketTypesNext ==
    ASSUME ToolTypes, stk # <<>> => inst, Next
    PROVE  SocketTypes'
<1>0. SocketTypes /\ conn \in BOOLEAN
  BY DEF ToolTypes, ServiceTypes
<1>1. CASE UNCHANGED socket
  BY <1>0, <1>1 DEF SocketTypes, socket
<1>2. CASE Connects /\ inst' = TRUE
  BY <1>0, <1>2 DEF Connects, OnConnected, ConnectFails, ConnectPends, SocketTypes
<1>3. CASE InitReturn
  <2>1. UNCHANGED <<inst, sock, open>> /\ timer' = (timer \/ sock # "connected")
    BY <1>3 DEF InitReturn
  <2> QED BY <1>0, <2>1 DEF SocketTypes
<1>4. CASE OnDisconnected
  BY <1>0, <1>4 DEF OnDisconnected, SocketTypes
<1>5. CASE Deinit
  BY <1>0, <1>5 DEF Deinit, SocketTypes
<1>6. CASE OnReadyRead
  BY <1>0, <1>6 DEF OnReadyRead, SocketTypes
<1>7. CASE Service
  <2>1. UNCHANGED socket
    BY <1>7 DEF Service, SrvAnswer, SrvProgress, SrvFlashEnds, SrvCrash, SrvStart, SrvUnchanged
  <2> QED BY <1>1, <2>1
<1>8. CASE (Writes \/ NoWrite) /\ UNCHANGED inst
  BY <1>0, <1>8 DEF Writes, WriteReq, NoWrite, SocketTypes
<1> QED BY <1>1, <1>2, <1>3, <1>4, <1>5, <1>6, <1>7, <1>8, SocketSteps

LEMMA FlagTypesNext ==
    ASSUME ToolTypes, Next
    PROVE  FlagTypes'
<1>0. FlagTypes /\ \A t \in Threads \union {W} : thr[t].ok \in BOOLEAN
  BY ThreadProperties DEF ToolTypes, ThreadState
<1>1. CASE UNCHANGED waitflags
  BY <1>0, <1>1 DEF FlagTypes, waitflags
<1>2. ASSUME NEW t, NEW ok, NEW alien, ForceBegin(t, ok, alien) PROVE FlagTypes'
  BY <1>0, <1>2 DEF ForceBegin, FlagTypes
<1>3. ASSUME NEW t, ResetBegin(t), loop' = loop PROVE FlagTypes'
  BY <1>0, <1>3 DEF ResetBegin, FlagTypes
<1>4. ASSUME NEW t \in Threads \union {W}, Controller(t) PROVE FlagTypes'
  BY <1>0, <1>4 DEF Controller, ForceStore, ForceLook, ForcePost, ResetClear, FlagTypes, waitflags
<1>5. CASE FlashEnter
  <2>1. Head(stk).rid \in Nat
    BY <1>5, BelowProperties DEF FlashEnter, Running, ToolTypes, StackTypes, Frame
  <2> QED BY <1>0, <1>5, <2>1 DEF FlashEnter, FlagTypes
<1>6. CASE FlashReturn \/ Deinit
  <2>1. CASE FlashReturn
    <3>1. UNCHANGED <<completed, success>> /\ loop' = 0
      BY <2>1 DEF FlashReturn
    <3> QED BY <1>0, <3>1 DEF FlagTypes
  <2>2. CASE Deinit
    <3>1. completed' = FALSE /\ success' = FALSE /\ loop' = loop
      BY <2>2 DEF Deinit
    <3> QED BY <1>0, <3>1 DEF FlagTypes
  <2> QED BY <1>6, <2>1, <2>2
<1>7. CASE FlashReset \/ FlashLeave
  <2>1. ResetBegin(W) /\ loop' = loop
    BY <1>7 DEF FlashReset, FlashLeave
  <2> QED BY <1>3, <2>1
<1>8. CASE HandleOneSocketMessage
  <2> DEFINE m == Head(Head(stk).list)
  <2>1. FlashVerdict(m) \/ UNCHANGED waitflags
    BY <1>8 DEF HandleOneSocketMessage
  <2>2. ASSUME FlashVerdict(m) PROVE FlagTypes'
    BY <1>2, <2>2 DEF FlashVerdict
  <2> QED BY <1>1, <2>1, <2>2
<1>9. CASE FlashTimeout
  BY <1>2, <1>9 DEF FlashTimeout
<1>10. CASE InitReturn \/ RequestReturn \/ FlashSend \/ ReadyReadReturn \/ Take \/ LoopEvent
            \/ RequestTimeout
  BY <1>1, <1>10 DEF InitReturn, RequestReturn, FlashSend, ReadyReadReturn, Take, TakeRequest,
       TakeFlash, LoopEvent, OnReadyRead, OnDisconnected, RetryConnection, ConnectDone, RequestTimeout
<1>11. CASE Service
  BY <1>1, <1>11 DEF Service, SrvAnswer, SrvProgress, SrvFlashEnds, SrvCrash, SrvStart, SrvUnchanged
<1>12. CASE \E t \in Callers : Caller(t)
  BY <1>1, <1>12 DEF Caller, ToolInit, InvokeOnWorker
<1>13. ASSUME NEW t \in Controllers, Control(t) PROVE FlagTypes'
  BY <1>2, <1>3, <1>13 DEF Control
<1>14. Controllers \subseteq Threads \union {W} /\ W \in Threads \union {W}
  BY DEF Threads
<1>15. CASE Unwind
  <2>1. CASE Controller(W)
    BY <1>4, <1>14, <2>1
  <2> QED BY <1>5, <1>6, <1>7, <1>8, <1>10, <1>15, <2>1 DEF Unwind, Controller
<1> QED BY <1>4, <1>6, <1>9, <1>10, <1>11, <1>12, <1>13, <1>14, <1>15 DEF Next, Timeout

LEMMA CallTypesNext ==
    ASSUME ToolTypes, Next
    PROVE  CallTypes'
<1>0. CallTypes
  BY DEF ToolTypes
<1>1. CASE UNCHANGED <<cb, slot, fslot>>
  BY <1>0, <1>1 DEF CallTypes
<1>2. CASE TakeRequest
  <2>1. /\ cb' = (cb \/ Head(queue).op = "sub") /\ UNCHANGED fslot
        /\ Head(queue).op \in Reqs
        /\ slot' = slot \/ slot' = [slot EXCEPT ![Head(queue).op] = "live"]
    BY <1>2 DEF TakeRequest
  <2>2. slot' \in [Reqs -> {"none", "live", "dead"}]
    BY <1>0, <2>1 DEF CallTypes
  <2> QED BY <1>0, <2>1, <2>2 DEF CallTypes
<1>3. CASE RequestReturn
  <2>1. UNCHANGED <<cb, fslot>> /\ slot' = [slot EXCEPT ![Head(stk).op] = "dead"]
    BY <1>3 DEF RequestReturn
  <2> QED BY <1>0, <2>1 DEF CallTypes
<1>4. CASE FlashEnter
  <2>1. Head(stk).rid \in Nat
    BY <1>4, BelowProperties DEF FlashEnter, Running, ToolTypes, StackTypes, Frame
  <2> QED BY <1>0, <1>4, <2>1 DEF FlashEnter, CallTypes
<1>5. CASE FlashLeave
  BY <1>0, <1>5 DEF FlashLeave, CallTypes
<1>6. CASE Deinit
  BY <1>0, <1>6 DEF Deinit, CallTypes
<1>7. CASE Unwind
  BY <1>1, <1>3, <1>4, <1>5, <1>7 DEF Unwind, InitReturn, FlashReset, FlashSend, FlashReturn,
       HandleOneSocketMessage, ReadyReadReturn, ForceStore, ForceLook, ForcePost, ResetClear, calling
<1>8. CASE TakeFlash \/ LoopEvent \/ Timeout
  BY <1>1, <1>8 DEF TakeFlash, LoopEvent, OnReadyRead, OnDisconnected, RetryConnection,
       ConnectDone, Timeout, RequestTimeout, FlashTimeout, calling
<1>9. CASE Service
  BY <1>1, <1>9 DEF Service, SrvAnswer, SrvProgress, SrvFlashEnds, SrvCrash, SrvStart, SrvUnchanged,
       calling
<1>10. CASE \E t \in Callers : Caller(t)
  BY <1>1, <1>10 DEF Caller, ToolInit, InvokeOnWorker
<1>11. CASE \E t \in Controllers : Control(t) \/ Controller(t)
  BY <1>1, <1>11 DEF Control, Controller, ForceStore, ForceLook, ForcePost, ResetClear, calling
<1> QED BY <1>2, <1>6, <1>7, <1>8, <1>9, <1>10, <1>11 DEF Next, Take

(* Messages on their way.                                                  *)
LEMMA FragsType ==
    ASSUME NEW m \in Msg
    PROVE  /\ Frags(m) \in Seq(Frag) /\ Len(Frags(m)) = 2
           /\ Frags(m)[1] = [m |-> m, last |-> FALSE] /\ Frags(m)[2] = [m |-> m, last |-> TRUE]
  BY DEF Frags, Frag

(* What the service sends.                                                 *)
LEMMA ServiceSends ==
    ASSUME ToolTypes, SrvAnswer \/ SrvProgress \/ SrvFlashEnds
    PROVE  net' = net \/ \E m \in Msg : net' = net \o Frags(m)
<1>0. /\ reqs \in Seq(Request) /\ flashes \in SUBSET Nat /\ inds \in Nat
  BY DEF ToolTypes, ServiceTypes, CountTypes
<1>1. CASE SrvAnswer
  <2>1. Head(reqs) \in Request
    BY <1>0, <1>1, HeadTailProperties DEF SrvAnswer
  <2>2. ASSUME NEW res \in {"ok", "fail"}, Head(reqs).fn # "flash"
        PROVE  [fn |-> Head(reqs).fn, res |-> res, rid |-> Head(reqs).rid, n |-> 0] \in Msg
    BY <2>1, <2>2 DEF Request, Msg
  <2>3. net' = net \/ (Head(reqs).fn # "flash" /\ \E res \in {"ok", "fail"} :
          net' = net \o Frags([fn |-> Head(reqs).fn, res |-> res, rid |-> Head(reqs).rid, n |-> 0]))
    BY <1>1 DEF SrvAnswer
  <2> QED BY <2>2, <2>3
<1>2. CASE SrvProgress
  <2>1. PICK r \in flashes, res \in {"low", "ok", "fail"} :
          net' = net \o Frags([fn |-> "ind", res |-> res, rid |-> r, n |-> inds + 1])
    BY <1>2 DEF SrvProgress
  <2>2. [fn |-> "ind", res |-> res, rid |-> r, n |-> inds + 1] \in Msg
    BY <1>0 DEF Msg
  <2> QED BY <2>1, <2>2
<1>3. CASE SrvFlashEnds
  <2>1. PICK r \in flashes, res \in {"ok", "fail"} :
          net' = net \o Frags([fn |-> "flash", res |-> res, rid |-> r, n |-> 0])
    BY <1>3 DEF SrvFlashEnds
  <2>2. [fn |-> "flash", res |-> res, rid |-> r, n |-> 0] \in Msg
    BY <1>0 DEF Msg
  <2> QED BY <2>1, <2>2
<1> QED BY <1>1, <1>2, <1>3

LEMMA StreamTypesNext ==
    ASSUME ToolTypes, stk # <<>> => inst, Next
    PROVE  StreamTypes'
<1>0. rx \in Seq(Frag) /\ net \in Seq(Frag) /\ <<>> \in Seq(Frag)
  BY DEF ToolTypes, StreamTypes
<1>1. CASE rx' = rx /\ net' \in {net, <<>>}
  BY <1>0, <1>1 DEF StreamTypes
<1>2. CASE UNCHANGED socket /\ UNCHANGED net
  BY <1>1, <1>2 DEF socket
<1>3. CASE Connects /\ rx' = rx
  BY <1>1, <1>3 DEF Connects, OnConnected, ConnectFails, ConnectPends
<1>4. CASE InitReturn \/ OnDisconnected
  BY <1>1, <1>4 DEF InitReturn, OnDisconnected
<1>5. CASE Deinit
  BY <1>0, <1>5 DEF Deinit, StreamTypes
<1>6. CASE OnReadyRead
  <2>1. PICK k \in 1..Len(net) : /\ net' = After(net, k)
                                 /\ rx' = Leftover(rx \o SubSeq(net, 1, k))
    BY <1>6 DEF OnReadyRead
  <2>2. k \in 0..Len(net)
    BY <1>0, LenProperties
  <2>3. net' \in Seq(Frag) /\ rx \o SubSeq(net, 1, k) \in Seq(Frag)
    BY <1>0, <2>1, <2>2, ReadProperties, ConcatProperties
  <2>4. Frag = FragOf(Msg)
    BY DEF Frag, FragOf
  <2> QED BY <2>1, <2>3, <2>4, ExtractProperties DEF StreamTypes
<1>7. CASE Service
  <2>1. rx' = rx
    BY <1>7 DEF Service, SrvAnswer, SrvProgress, SrvFlashEnds, SrvCrash, SrvStart, SrvUnchanged, socket
  <2>2. CASE SrvAnswer \/ SrvProgress \/ SrvFlashEnds
    <3>1. net' \in Seq(Frag)
      BY <1>0, <2>2, ServiceSends, FragsType, ConcatProperties
    <3> QED BY <1>0, <2>1, <3>1 DEF StreamTypes
  <2>3. CASE SrvCrash
    <3>1. net' \in Seq(Frag)
      BY <1>0, <2>3, ReadProperties DEF SrvCrash
    <3> QED BY <1>0, <2>1, <3>1 DEF StreamTypes
  <2>4. CASE SrvStart
    BY <1>1, <2>1, <2>4 DEF SrvStart
  <2> QED BY <1>7, <2>2, <2>3, <2>4 DEF Service
<1>8. CASE (Writes \/ NoWrite) /\ UNCHANGED rx
  BY <1>1, <1>8 DEF Writes, WriteReq, NoWrite
<1> QED BY <1>2, <1>3, <1>4, <1>5, <1>6, <1>7, <1>8, SocketSteps

LEMMA ServiceTypesNext ==
    ASSUME ToolTypes, stk # <<>> => inst, Next
    PROVE  ServiceTypes'
<1>0. ServiceTypes /\ <<>> \in Seq(Request) /\ nreq \in Nat /\ nreq + 1 \in Nat
  BY DEF ToolTypes, CountTypes
<1>1. up' \in BOOLEAN
  <2>1. up' = up \/ SrvCrash \/ SrvStart
    BY SocketSteps DEF Next, Unwind, InitReturn, RequestReturn, FlashReset, FlashSend, FlashEnter,
       FlashLeave, FlashReturn, HandleOneSocketMessage, ReadyReadReturn, ForceStore, ForceLook,
       ForcePost, ResetClear, Take, TakeRequest, TakeFlash, LoopEvent, OnReadyRead, OnDisconnected,
       RetryConnection, ConnectDone, Timeout, RequestTimeout, FlashTimeout, Deinit, Service,
       SrvAnswer, SrvProgress, SrvFlashEnds, Caller, ToolInit, InvokeOnWorker, Control, Controller,
       service
  <2> QED BY <1>0, <2>1 DEF SrvCrash, SrvStart, ServiceTypes
<1>2. CASE UNCHANGED <<conn, reqs, subd, flashes>>
  BY <1>0, <1>1, <1>2 DEF ServiceTypes
<1>3. CASE Connects
  <2>1. CASE UNCHANGED <<conn, reqs, subd, flashes>>
    BY <1>2, <2>1
  <2>2. CASE \E s : OnConnected(s)
    <3>1. [fn |-> "event", rid |-> nreq + 1] \in Request
      BY <1>0 DEF Request
    <3>2. <<[fn |-> "event", rid |-> nreq + 1]>> \in Seq(Request)
      BY <3>1
    <3>3. /\ conn' = TRUE /\ subd' = FALSE /\ flashes' = {}
          /\ reqs' = <<>> \/ reqs' = <<[fn |-> "event", rid |-> nreq + 1]>>
      BY <2>2 DEF OnConnected
    <3>4. reqs' \in Seq(Request)
      BY <1>0, <3>2, <3>3
    <3> QED BY <1>1, <3>3, <3>4 DEF ServiceTypes
  <2> QED BY <1>3, <2>1, <2>2 DEF Connects, ConnectFails, ConnectPends
<1>4. CASE InitReturn \/ OnDisconnected \/ OnReadyRead
  BY <1>2, <1>4 DEF InitReturn, OnDisconnected, OnReadyRead, service
<1>5. CASE Deinit \/ SrvCrash
  BY <1>0, <1>1, <1>5 DEF Deinit, SrvCrash, EndSession, ServiceTypes
<1>6. CASE SrvProgress \/ SrvStart
  BY <1>2, <1>6 DEF SrvProgress, SrvStart, service
<1>7. CASE SrvFlashEnds
  <2>1. UNCHANGED <<conn, reqs, subd>> /\ flashes' \subseteq flashes
    BY <1>7 DEF SrvFlashEnds
  <2> QED BY <1>0, <1>1, <2>1 DEF ServiceTypes
<1>8. CASE SrvAnswer
  <2>1. Head(reqs) \in Request /\ Tail(reqs) \in Seq(Request)
    BY <1>0, <1>8, HeadTailProperties DEF SrvAnswer, ServiceTypes
  <2>2. /\ reqs' = Tail(reqs) /\ conn' = conn
        /\ flashes' \in {flashes, flashes \union {Head(reqs).rid}}
        /\ subd' = subd \/ \E res \in {"ok", "fail"} :
                              subd' = (subd \/ (Head(reqs).fn = "event" /\ res = "ok"))
    BY <1>8 DEF SrvAnswer
  <2>3. subd' \in BOOLEAN /\ Head(reqs).rid \in Nat
    BY <1>0, <2>1, <2>2 DEF ServiceTypes, Request
  <2> QED BY <1>0, <1>1, <2>1, <2>2, <2>3 DEF ServiceTypes
<1>9. CASE (Writes \/ NoWrite) /\ UNCHANGED <<conn, subd, flashes>>
  <2>1. CASE UNCHANGED reqs
    BY <1>2, <1>9, <2>1
  <2>2. ASSUME NEW fn \in {"flash", "event"} \union Kinds,
               reqs' = Append(reqs, [fn |-> fn, rid |-> nreq + 1])
        PROVE  ServiceTypes'
    <3>1. [fn |-> fn, rid |-> nreq + 1] \in Request
      BY <1>0 DEF Request
    <3>2. reqs' \in Seq(Request)
      BY <1>0, <2>2, <3>1, AppendProperties DEF ServiceTypes
    <3> QED BY <1>0, <1>1, <1>9, <3>2 DEF ServiceTypes
  <2>3. reqs' = reqs \/ \E fn \in {"flash", "event"} \union Kinds :
                          reqs' = Append(reqs, [fn |-> fn, rid |-> nreq + 1])
    BY <1>9 DEF Writes, WriteReq, NoWrite
  <2> QED BY <2>1, <2>2, <2>3
<1> QED BY <1>2, <1>3, <1>4, <1>5, <1>6, <1>7, <1>8, <1>9, SocketSteps DEF Service

(* The history.                                                            *)
LEMMA HistoryFields ==
    ASSUME NEW g \in ToolHistory, NEW f \in {"none", "ok", "fail"}, NEW x \in BOOLEAN,
           NEW y \in BOOLEAN
    PROVE  /\ [g EXCEPT !.first = f, !.straddle = x, !.foreign = y] \in ToolHistory
           /\ [g EXCEPT !.first = f, !.straddle = x] \in ToolHistory
           /\ [g EXCEPT !.overruled = x] \in ToolHistory /\ [g EXCEPT !.dangling = x] \in ToolHistory
           /\ [g EXCEPT !.resub = x, !.refused = y] \in ToolHistory
           /\ [g EXCEPT !.late = x] \in ToolHistory /\ [g EXCEPT !.early = x] \in ToolHistory
           /\ [g EXCEPT !.wild = x, !.wrong = y] \in ToolHistory
           /\ [g EXCEPT !.refused = x] \in ToolHistory
  BY DEF ToolHistory

LEMMA HistoryValues ==
    ASSUME h \in ToolHistory
    PROVE  /\ h.straddle \in BOOLEAN /\ h.overruled \in BOOLEAN /\ h.dangling \in BOOLEAN
           /\ h.foreign \in BOOLEAN /\ h.early \in BOOLEAN /\ h.late \in BOOLEAN
           /\ h.resub \in BOOLEAN /\ h.wild \in BOOLEAN /\ h.wrong \in BOOLEAN
           /\ h.refused \in BOOLEAN /\ h.first \in {"none", "ok", "fail"}
  BY DEF ToolHistory

(* ForceCompleteFlashWait and ResetFlashWait, and what they record.        *)
LEMMA ForceHistory ==
    ASSUME h \in ToolHistory, NEW t, NEW ok, NEW alien, ForceBegin(t, ok, alien)
    PROVE  /\ h' \in ToolHistory
           /\ completed => h' = h
           /\ ~completed => /\ h'.first = (IF ok THEN "ok" ELSE "fail")
                            /\ h'.straddle = (h.straddle \/ MidReset)
                            /\ h'.foreign = (h.foreign \/ alien)
           /\ h'.overruled = h.overruled /\ h'.dangling = h.dangling /\ h'.early = h.early
           /\ h'.late = h.late /\ h'.resub = h.resub /\ h'.wild = h.wild /\ h'.wrong = h.wrong
           /\ h'.refused = h.refused
<1> DEFINE f == IF ok THEN "ok" ELSE "fail"
           x == h.straddle \/ MidReset
           y == h.foreign \/ alien
<1>1. f \in {"none", "ok", "fail"} /\ x \in BOOLEAN /\ y \in BOOLEAN
  BY HistoryValues
<1>2. \/ completed /\ h' = h
      \/ ~completed /\ h' = [h EXCEPT !.first = f, !.straddle = x, !.foreign = y]
  BY DEF ForceBegin
<1> HIDE DEF f, x, y
<1>3. CASE completed /\ h' = h
  BY <1>3
<1>4. CASE ~completed /\ h' = [h EXCEPT !.first = f, !.straddle = x, !.foreign = y]
  <2>1. h' \in ToolHistory
    BY <1>1, <1>4, HistoryFields
  <2>2. /\ h'.first = f /\ h'.straddle = x /\ h'.foreign = y
        /\ h'.overruled = h.overruled /\ h'.dangling = h.dangling /\ h'.early = h.early
        /\ h'.late = h.late /\ h'.resub = h.resub /\ h'.wild = h.wild /\ h'.wrong = h.wrong
        /\ h'.refused = h.refused
    BY <1>4 DEF ToolHistory
  <2> QED BY <1>4, <2>1, <2>2 DEF f, x, y
<1> QED BY <1>2, <1>3, <1>4

LEMMA ResetHistory ==
    ASSUME h \in ToolHistory, NEW t
    PROVE  /\ AfterReset(t) \in ToolHistory /\ AfterReset(t).first = "none"
           /\ AfterReset(t).straddle = (h.straddle \/ MidForce(t))
           /\ AfterReset(t).overruled = h.overruled /\ AfterReset(t).dangling = h.dangling
           /\ AfterReset(t).foreign = h.foreign /\ AfterReset(t).early = h.early
           /\ AfterReset(t).late = h.late /\ AfterReset(t).resub = h.resub
           /\ AfterReset(t).wild = h.wild /\ AfterReset(t).wrong = h.wrong
           /\ AfterReset(t).refused = h.refused
<1> DEFINE x == h.straddle \/ MidForce(t)
<1>1. x \in BOOLEAN
  BY HistoryValues
<1>2. AfterReset(t) = [h EXCEPT !.first = "none", !.straddle = x]
  BY DEF AfterReset
<1>3. AfterReset(t) \in ToolHistory
  <2> HIDE DEF x
  <2>1. "none" \in {"none", "ok", "fail"} /\ x \in BOOLEAN
    BY <1>1
  <2>2. [h EXCEPT !.first = "none", !.straddle = x] \in ToolHistory
    BY <2>1, HistoryFields
  <2> QED BY <1>2, <2>2
<1> QED BY <1>2, <1>3 DEF ToolHistory

LEMMA LeaveHistory ==
    ASSUME h \in ToolHistory, FlashLeave
    PROVE  /\ h' \in ToolHistory /\ h'.first = "none"
           /\ h'.straddle = (h.straddle \/ MidForce(W))
           /\ h'.overruled = (h.overruled \/ ((completed /\ success) # (h.first = "ok")
                                                /\ ~(h.straddle \/ MidForce(W))))
           /\ h'.dangling = h.dangling /\ h'.foreign = h.foreign /\ h'.early = h.early
           /\ h'.late = h.late /\ h'.resub = h.resub /\ h'.wild = h.wild /\ h'.wrong = h.wrong
           /\ h'.refused = h.refused
<1> DEFINE g == AfterReset(W)
           x == g.overruled \/ ((completed /\ success) # (h.first = "ok") /\ ~g.straddle)
<1>1. /\ g \in ToolHistory /\ g.first = "none" /\ g.straddle = (h.straddle \/ MidForce(W))
      /\ g.overruled = h.overruled /\ g.dangling = h.dangling /\ g.foreign = h.foreign
      /\ g.early = h.early /\ g.late = h.late /\ g.resub = h.resub
      /\ g.wild = h.wild /\ g.wrong = h.wrong /\ g.refused = h.refused
  BY ResetHistory
<1>2. h' = [g EXCEPT !.overruled = x]
  BY DEF FlashLeave
<1>3. x = (h.overruled \/ ((completed /\ success) # (h.first = "ok")
                            /\ ~(h.straddle \/ MidForce(W))))
  BY <1>1
<1>4. x \in BOOLEAN
  BY <1>3, HistoryValues
<1> HIDE DEF g, x
<1>5. h' \in ToolHistory
  BY <1>1, <1>2, <1>4, HistoryFields
<1>6. /\ h'.first = g.first /\ h'.straddle = g.straddle /\ h'.overruled = x
      /\ h'.dangling = g.dangling /\ h'.foreign = g.foreign /\ h'.early = g.early
      /\ h'.late = g.late /\ h'.resub = g.resub /\ h'.wild = g.wild /\ h'.wrong = g.wrong
      /\ h'.refused = g.refused
  BY <1>1, <1>2 DEF ToolHistory
<1> QED BY <1>1, <1>3, <1>5, <1>6

LEMMA HistoryTypeNext ==
    ASSUME ToolTypes, Next
    PROVE  h' \in ToolHistory
<1>0. h \in ToolHistory
  BY DEF ToolTypes
<1>1. ASSUME NEW t, ForcePost(t) PROVE h' \in ToolHistory
  <2> DEFINE x == h.dangling \/ \A i \in DOMAIN stk : stk[i].rid # thr[t].p
  <2>1. h' = [h EXCEPT !.dangling = x] /\ x \in BOOLEAN
    BY <1>0, <1>1, HistoryValues DEF ForcePost
  <2> HIDE DEF x
  <2> QED BY <1>0, <2>1, HistoryFields
<1>2. ASSUME NEW t, Controller(t) PROVE h' \in ToolHistory
  BY <1>0, <1>1, <1>2 DEF Controller, ForceStore, ForceLook, ResetClear
<1>3. CASE Unwind
  <2>1. CASE FlashReset
    BY <1>0, <2>1, ResetHistory DEF FlashReset
  <2>2. CASE FlashLeave
    BY <1>0, <2>2, LeaveHistory
  <2>3. CASE FlashReturn
    <3> DEFINE x == h.early \/ AnswerPending(Head(stk).rid)
    <3>1. h' = [h EXCEPT !.early = x] /\ x \in BOOLEAN
      BY <1>0, <2>3, HistoryValues DEF FlashReturn, AnswerPending
    <3> HIDE DEF x
    <3> QED BY <1>0, <3>1, HistoryFields
  <2>4. CASE HandleOneSocketMessage
    <3> DEFINE m == Head(Head(stk).list)
               s == Top([Head(stk) EXCEPT !.list = Tail(@)])
    <3>1. h' = h \/ FlashVerdict(m) \/ AnswerRequest(m, s)
      BY <2>4 DEF HandleOneSocketMessage
    <3> HIDE DEF m, s
    <3>2. CASE FlashVerdict(m)
      BY <1>0, <3>2, ForceHistory DEF FlashVerdict
    <3>3. CASE AnswerRequest(m, s)
      <4> DEFINE mine(i) == s[i].op \in Receivers(m.fn) /\ s[i].pc = "wait"
                 x == h.wild \/ \E k \in Receivers(m.fn) : slot[k] = "dead"
                 y == h.wrong \/ \E i \in DOMAIN s : mine(i) /\ s[i].op # "sub" /\ s[i].rid # m.rid
      <4>1. h' = [h EXCEPT !.wild = x, !.wrong = y] /\ x \in BOOLEAN /\ y \in BOOLEAN
        BY <1>0, <3>3, HistoryValues DEF AnswerRequest
      <4> HIDE DEF x, y
      <4> QED BY <1>0, <4>1, HistoryFields
    <3> QED BY <1>0, <3>1, <3>2, <3>3
  <2>5. CASE Controller(W)
    BY <1>2, <2>5
  <2>6. CASE InitReturn \/ RequestReturn \/ FlashSend \/ FlashEnter \/ ReadyReadReturn
    BY <1>0, <2>6 DEF InitReturn, RequestReturn, FlashSend, FlashEnter, ReadyReadReturn
  <2> QED BY <1>3, <2>1, <2>2, <2>3, <2>4, <2>5, <2>6 DEF Unwind, Controller
<1>4. CASE Timeout
  <2>1. CASE RequestTimeout
    <3>1. h' = [h EXCEPT !.late = TRUE] /\ TRUE \in BOOLEAN
      BY <2>1 DEF RequestTimeout
    <3> QED BY <1>0, <3>1, HistoryFields
  <2>2. CASE FlashTimeout
    BY <1>0, <2>2, ForceHistory DEF FlashTimeout
  <2> QED BY <1>4, <2>1, <2>2 DEF Timeout
<1>5. ASSUME NEW s, OnConnected(s) \/ ConnectFails(s) \/ ConnectPends(s) PROVE h' \in ToolHistory
  <2> DEFINE x == h.resub \/ Resubscribe
  <2>1. h' = h \/ h' = [h EXCEPT !.resub = x, !.refused = FALSE]
    BY <1>5 DEF OnConnected, ConnectFails, ConnectPends
  <2>2. x \in BOOLEAN /\ FALSE \in BOOLEAN
    BY <1>0, HistoryValues DEF Resubscribe, ToolTypes, CallTypes
  <2> HIDE DEF x
  <2> QED BY <1>0, <2>1, <2>2, HistoryFields
<1>6. CASE LoopEvent
  BY <1>0, <1>5, <1>6 DEF LoopEvent, OnReadyRead, OnDisconnected, RetryConnection, ConnectDone,
                          ConnectToServerInternal
<1>7. CASE Service
  <2>1. CASE SrvAnswer
    <3>1. PICK x \in BOOLEAN : h' = h \/ h' = [h EXCEPT !.refused = x]
      <4>1. \A res : (h.refused \/ (Head(reqs).fn = "event" /\ res = "fail")) \in BOOLEAN
        BY <1>0, HistoryValues
      <4> QED BY <2>1, <4>1 DEF SrvAnswer
    <3> QED BY <1>0, <3>1, HistoryFields
  <2> QED BY <1>0, <1>7, <2>1 DEF Service, SrvProgress, SrvFlashEnds, SrvCrash, SrvStart
<1>8. CASE Take \/ Deinit
  BY <1>0, <1>8 DEF Take, TakeRequest, TakeFlash, Deinit
<1>9. ASSUME NEW t \in Callers, Caller(t) PROVE h' \in ToolHistory
  BY <1>0, <1>5, <1>9 DEF Caller, ToolInit, InvokeOnWorker, ConnectToServerInternal
<1>10. ASSUME NEW t \in Controllers, Control(t) PROVE h' \in ToolHistory
  BY <1>0, <1>10, ForceHistory, ResetHistory DEF Control
<1> QED BY <1>2, <1>3, <1>4, <1>6, <1>7, <1>8, <1>9, <1>10 DEF Next

(* The bound of the progress indications counts them.                      *)
LEMMA IndsTypeNext ==
    ASSUME ToolTypes, Next
    PROVE  inds' \in Nat
<1>0. inds \in Nat
  BY DEF ToolTypes, CountTypes
<1>1. inds' = inds \/ inds' = inds + 1
  <2>1. CASE Unwind
    BY <2>1 DEF Unwind, InitReturn, RequestReturn, FlashReset, FlashSend, FlashEnter, FlashLeave,
      FlashReturn, HandleOneSocketMessage, ReadyReadReturn, ForceStore, ForceLook, ForcePost,
      ResetClear, bounds
  <2>2. CASE Take \/ Timeout \/ Deinit
    BY <2>2 DEF Take, TakeRequest, TakeFlash, Timeout, RequestTimeout, FlashTimeout, Deinit, bounds
  <2>3. CASE LoopEvent
    BY <2>3 DEF LoopEvent, OnReadyRead, OnDisconnected, RetryConnection, ConnectDone, bounds
  <2>4. CASE Service
    BY <2>4 DEF Service, SrvAnswer, SrvProgress, SrvFlashEnds, SrvCrash, SrvStart
  <2>5. ASSUME NEW t \in Callers, Caller(t) PROVE inds' = inds
    BY <2>5 DEF Caller, ToolInit, InvokeOnWorker
  <2>6. ASSUME NEW t \in Controllers, Control(t) \/ Controller(t) PROVE inds' = inds
    BY <2>6 DEF Control, Controller, ForceStore, ForceLook, ForcePost, ResetClear, bounds
  <2> QED BY <2>1, <2>2, <2>3, <2>4, <2>5, <2>6 DEF Next
<1> QED BY <1>0, <1>1

LEMMA StackInvInit == Init => StackInv
<1> SUFFICES ASSUME Init PROVE StackInv
  OBVIOUS
<1>1. stk = <<>> /\ queue = <<>> /\ DOMAIN stk = {} /\ DOMAIN queue = {}
  BY DEF Init
<1>2. \A t \in DOMAIN thr : thr[t].pc = "idle"
  BY DEF Init, Idle
<1>3. FramesInv /\ NumbersInv /\ CallersInv /\ QueueInv
  BY <1>1 DEF FramesInv, NumbersInv, CallersInv, QueueInv
<1> QED BY <1>1, <1>2, <1>3 DEF StackInv, IdleInv

LEMMA ToolStep ==
    ASSUME ToolTypes, StackInv, [Next]_vars
    PROVE  ToolTypes' /\ StackInv'
<1>1. CASE Next
  <2>1. stk # <<>> => inst
    BY DEF StackInv, IdleInv
  <2>2. StackEffect
    BY <1>1, <2>1, StackEffects
  <2>3. CountTypes'
    BY <1>1, <2>2, EffectTypes, IndsTypeNext DEF CountTypes
  <2>4. ToolTypes'
    BY <1>1, <2>1, <2>2, <2>3, EffectTypes, SocketTypesNext, FlagTypesNext, CallTypesNext,
       StreamTypesNext, ServiceTypesNext, HistoryTypeNext DEF ToolTypes
  <2> QED BY <2>2, <2>4, StackInvNext
<1>2. CASE UNCHANGED vars
  <2>1. /\ UNCHANGED <<inst, open, timer, sock>> /\ UNCHANGED <<stk, queue, thr, nreq>>
        /\ UNCHANGED <<completed, success, loop>> /\ UNCHANGED <<cb, fslot, slot>>
        /\ UNCHANGED <<rx, net>> /\ UNCHANGED <<up, conn, subd, reqs, flashes>>
        /\ UNCHANGED <<inds, h>>
    BY <1>2 DEF vars, socket, calling, waitflags, service, bounds
  <2>2. SocketTypes' /\ StackTypes' /\ FlagTypes' /\ ThreadTypes' /\ CallTypes'
    BY <2>1 DEF ToolTypes, SocketTypes, StackTypes, FlagTypes, ThreadTypes, CallTypes
  <2>3. StreamTypes' /\ ServiceTypes' /\ CountTypes' /\ h' \in ToolHistory
    BY <2>1 DEF ToolTypes, StreamTypes, ServiceTypes, CountTypes
  <2>4. StackInv'
    BY <2>1 DEF StackInv, FramesInv, NumbersInv, CallersInv, QueueInv, IdleInv
  <2> QED BY <2>2, <2>3, <2>4 DEF ToolTypes
<1> QED BY <1>1, <1>2

LEMMA ToolInvariant == Spec => [](ToolTypes /\ StackInv)
<1>1. Init => ToolTypes /\ StackInv
  BY ToolTypesInit, StackInvInit
<1>2. (ToolTypes /\ StackInv) /\ [Next]_vars => (ToolTypes /\ StackInv)'
  BY ToolStep
<1> QED BY <1>1, <1>2, PTL DEF Spec
-----------------------------------------------------------------------------
(* The retry timer.                                                        *)

LEMMA RetryNext ==
    ASSUME ToolTypes, StackInv, ToolRetryDiscipline, [Next]_vars
    PROVE  ToolRetryDiscipline'
<1>0. stk # <<>> => inst
  BY DEF StackInv, IdleInv
<1>1. CASE UNCHANGED vars
  BY <1>1 DEF vars, socket, ToolRetryDiscipline
<1>2. CASE Next
  <2>1. CASE UNCHANGED socket
    BY <2>1 DEF socket, ToolRetryDiscipline
  <2>2. CASE Connects /\ inst' = TRUE
    BY <2>2 DEF Connects, OnConnected, ConnectFails, ConnectPends, ToolRetryDiscipline
  <2>3. CASE InitReturn
    <3>1. inst /\ UNCHANGED <<inst, sock>> /\ timer' = (timer \/ sock # "connected")
      BY <1>0, <2>3 DEF InitReturn, Running
    <3> QED BY <3>1 DEF ToolRetryDiscipline
  <2>4. CASE OnDisconnected \/ Deinit
    <3>1. \/ inst /\ inst' = inst /\ sock' = "unconnected" /\ timer' = TRUE
          \/ inst' = FALSE /\ timer' = FALSE
      BY <2>4 DEF OnDisconnected, InLoop, Deinit
    <3> QED BY <3>1 DEF ToolRetryDiscipline
  <2>5. CASE OnReadyRead \/ Service
    <3>1. UNCHANGED <<inst, sock, timer>>
      BY <2>5 DEF OnReadyRead, Service, SrvAnswer, SrvProgress, SrvFlashEnds, SrvCrash, SrvStart,
                  SrvUnchanged, socket
    <3> QED BY <3>1 DEF ToolRetryDiscipline
  <2>6. CASE (TakeRequest \/ FlashSend) /\ (Writes \/ NoWrite) /\ UNCHANGED inst
    <3>1. inst
      BY <1>0, <2>6 DEF TakeRequest, FlashSend, Running, InLoop
    <3>2. UNCHANGED <<sock, timer>> \/ (sock' = "unconnected" /\ timer' = TRUE)
      BY <2>6 DEF Writes, WriteReq, NoWrite
    <3> QED BY <2>6, <3>1, <3>2 DEF ToolRetryDiscipline
  <2> QED BY <1>0, <1>2, <2>1, <2>2, <2>3, <2>4, <2>5, <2>6, SocketSteps
<1> QED BY <1>1, <1>2

(* The retry timer runs exactly while there is no connection and none is   *)
(* being made, so that no loss of the connection goes unnoticed            *)
(* (WwanClientImpl::onConnected, onDisconnected, onError and Init).        *)
THEOREM ToolRetryCorrect == Spec => []ToolRetryDiscipline
<1>1. Init => ToolRetryDiscipline
  BY DEF Init, ToolRetryDiscipline
<1>2. ToolTypes /\ StackInv /\ ToolRetryDiscipline /\ [Next]_vars => ToolRetryDiscipline'
  BY RetryNext
<1> QED BY <1>1, <1>2, ToolInvariant, PTL DEF Spec
-----------------------------------------------------------------------------
(* What a step does to the flash wait.                                     *)

(* A TriggerFlash whose event loop has been entered; whether one has       *)
(* called ResetFlashWait.                                                  *)
Held(f) == f.op = "flash" /\ f.pc \in {"wait", "ret"}
Past == \E i \in DOMAIN stk : stk[i].op = "flash" /\ stk[i].pc # "reset"

Alike(f, g) == g.op = f.op /\ g.pc = f.pc /\ g.rid = f.rid /\ g.quit = f.quit /\ g.doomed = f.doomed

(* The loops stay as they are.                                             *)
Kept ==
    /\ \A i \in DOMAIN stk' : Held(stk'[i]) => \E j \in DOMAIN stk : Alike(stk[j], stk'[i])
    /\ \A j \in DOMAIN stk : Held(stk[j]) => \E i \in DOMAIN stk' : Alike(stk[j], stk'[i])

CallsOnly ==
    /\ DOMAIN thr' = DOMAIN thr
    /\ \A u \in DOMAIN thr : \/ thr'[u] = thr[u]
                             \/ thr[u].pc \in {"idle", "call"} /\ thr'[u].pc \in {"idle", "call"}
Recorded == /\ h'.first = h.first /\ h'.straddle = h.straddle
            /\ h'.overruled = h.overruled /\ h'.dangling = h.dangling

Quiet == UNCHANGED waitflags /\ Recorded /\ Kept /\ (Past' => Past) /\ CallsOnly
Completes ==
    /\ Kept /\ (Past' => Past)
    /\ \E t \in Threads \union {W}, ok \in BOOLEAN, alien \in BOOLEAN :
        thr[t].pc = "idle" /\ ForceBegin(t, ok, alien)
Resets == Kept /\ loop' = loop /\ \E t \in Threads \union {W} :
            thr[t].pc = "idle" /\ ResetBegin(t) /\ h' = AfterReset(t)

WaitStep ==
    \/ Quiet \/ Completes \/ Resets \/ FlashEnter \/ FlashLeave \/ FlashReturn \/ Deinit
    \/ \E t \in Threads \union {W} : Controller(t)

LEMMA KeptMarks ==
    ASSUME DOMAIN stk' = DOMAIN stk,
           \A i \in DOMAIN stk : \/ Alike(stk[i], stk'[i])
                                 \/ stk[i].op # "flash" /\ stk'[i].op = stk[i].op
    PROVE  Kept /\ (Past' => Past)
<1>1. Kept
  BY DEF Kept, Alike, Held
<1>2. ASSUME NEW i \in DOMAIN stk', stk'[i].op = "flash", stk'[i].pc # "reset" PROVE Past
  BY <1>2 DEF Past, Alike
<1> QED BY <1>1, <1>2 DEF Past

LEMMA KeptStays == UNCHANGED stk => Kept /\ (Past' => Past)
<1> SUFFICES ASSUME UNCHANGED stk PROVE Kept /\ (Past' => Past)
  OBVIOUS
<1>1. \A i \in DOMAIN stk : Alike(stk[i], stk'[i])
  BY DEF Alike
<1> QED BY <1>1, KeptMarks

LEMMA KeptPush ==
    ASSUME stk \in Seq(Frame), NEW f \in Frame, stk' = Push(f, stk), f.op = "flash" => f.pc = "reset"
    PROVE  Kept /\ (Past' => Past)
<1>1. /\ stk'[1] = f
      /\ \A i \in DOMAIN stk' : i = 1 \/ (i - 1 \in DOMAIN stk /\ stk'[i] = stk[i - 1])
      /\ \A i \in DOMAIN stk : i + 1 \in DOMAIN stk' /\ stk'[i + 1] = stk[i]
  BY PushedFrames
<1>2. ASSUME NEW i \in DOMAIN stk', Held(stk'[i]) PROVE \E j \in DOMAIN stk : Alike(stk[j], stk'[i])
  <2>1. i # 1
    BY <1>1, <1>2 DEF Held
  <2> QED BY <1>1, <2>1 DEF Alike
<1>3. ASSUME NEW j \in DOMAIN stk PROVE \E i \in DOMAIN stk' : Alike(stk[j], stk'[i])
  BY <1>1 DEF Alike
<1>4. ASSUME NEW i \in DOMAIN stk', stk'[i].op = "flash", stk'[i].pc # "reset" PROVE Past
  BY <1>1, <1>4 DEF Past
<1> QED BY <1>2, <1>3, <1>4 DEF Kept, Past

LEMMA KeptPop ==
    ASSUME stk \in Seq(Frame), stk # <<>>, stk' = Below, ~Held(Head(stk))
    PROVE  Kept /\ (Past' => Past)
<1>1. /\ \A i \in DOMAIN stk' : i + 1 \in DOMAIN stk /\ stk'[i] = stk[i + 1]
      /\ \A i \in DOMAIN stk : i # 1 => i - 1 \in DOMAIN stk' /\ stk'[i - 1] = stk[i]
      /\ stk[1] = Head(stk)
  BY PoppedFrames
<1>2. ASSUME NEW i \in DOMAIN stk' PROVE \E j \in DOMAIN stk : Alike(stk[j], stk'[i])
  BY <1>1 DEF Alike
<1>3. ASSUME NEW j \in DOMAIN stk, Held(stk[j]) PROVE \E i \in DOMAIN stk' : Alike(stk[j], stk'[i])
  <2>1. j # 1
    BY <1>1, <1>3
  <2> QED BY <1>1, <2>1 DEF Alike
<1>4. ASSUME NEW i \in DOMAIN stk', stk'[i].op = "flash", stk'[i].pc # "reset" PROVE Past
  BY <1>1, <1>4 DEF Past
<1> QED BY <1>2, <1>3, <1>4 DEF Kept, Past

(* TriggerFlash goes on, before its loop.                                  *)
LEMMA KeptTop ==
    ASSUME stk \in Seq(Frame), stk # <<>>, NEW f \in Frame, stk' = Top(f),
           ~Held(Head(stk)), ~Held(f)
    PROVE  Kept /\ (Head(stk).op = "flash" /\ Head(stk).pc # "reset" /\ Past' => Past)
<1>1. /\ DOMAIN stk' = DOMAIN stk /\ stk'[1] = f /\ 1 \in DOMAIN stk /\ stk[1] = Head(stk)
      /\ \A i \in DOMAIN stk : i # 1 => stk'[i] = stk[i]
  BY TopProperties, BelowProperties
<1>2. ASSUME NEW i \in DOMAIN stk, Held(stk[i]) \/ Held(stk'[i]) PROVE Alike(stk[i], stk'[i])
  BY <1>1, <1>2 DEF Alike
<1>3. Kept
  BY <1>1, <1>2 DEF Kept
<1>4. Head(stk).op = "flash" /\ Head(stk).pc # "reset" => Past
  BY <1>1 DEF Past
<1> QED BY <1>3, <1>4

LEMMA CallSteps ==
    ASSUME ThreadTypes, NEW t \in Threads \union {W}
    PROVE  /\ thr' = thr => CallsOnly
           /\ Release(t) /\ thr[t].pc = "call" => CallsOnly
           /\ thr' = [thr EXCEPT ![t].pc = "call"] /\ thr[t].pc = "idle" => CallsOnly
<1>1. thr' = thr => CallsOnly
  BY DEF CallsOnly
<1>2. Release(t) /\ thr[t].pc = "call" => CallsOnly
  BY ThreadProperties DEF Release, CallsOnly, Idle
<1>3. thr' = [thr EXCEPT ![t].pc = "call"] /\ thr[t].pc = "idle" => CallsOnly
  BY ThreadProperties DEF CallsOnly
<1> QED BY <1>1, <1>2, <1>3

LEMMA Unrecorded ==
    ASSUME h \in ToolHistory
    PROVE  /\ h' = h => Recorded
           /\ \A x : h' = [h EXCEPT !.late = x] => Recorded
           /\ \A x : h' = [h EXCEPT !.refused = x] => Recorded
           /\ \A x, y : h' = [h EXCEPT !.resub = x, !.refused = y] => Recorded
           /\ \A x, y : h' = [h EXCEPT !.wild = x, !.wrong = y] => Recorded
           /\ \A x : h' = [h EXCEPT !.early = x] => Recorded
  BY DEF Recorded, ToolHistory

LEMMA WaitReturn ==
    ASSUME ToolTypes, StackInv, InitReturn \/ RequestReturn \/ ReadyReadReturn
    PROVE  Quiet
<1>1. /\ stk \in Seq(Frame) /\ stk # <<>> /\ stk' = Below /\ UNCHANGED waitflags /\ h' = h
      /\ ~Held(Head(stk)) /\ h \in ToolHistory /\ ThreadTypes
  BY ReqNames DEF InitReturn, RequestReturn, ReadyReadReturn, Running, Held, ToolTypes, StackTypes
<1>2. Kept /\ (Past' => Past)
  BY <1>1, KeptPop
<1>3. Recorded
  BY <1>1, Unrecorded
<1>4. CallsOnly
  <2>1. Head(stk) = stk[1] /\ 1 \in DOMAIN stk
    BY <1>1, BelowProperties
  <2>2. CASE thr' = thr
    BY <2>2 DEF CallsOnly
  <2>3. CASE Head(stk).op # "rx" /\ Release(Head(stk).t)
    <3>1. stk[1].t \in Callers /\ thr[stk[1].t].pc = "call" /\ Callers \subseteq Threads \union {W}
      BY <2>1, <2>3 DEF StackInv, CallersInv, Threads
    <3> QED BY <1>1, <2>1, <2>3, <3>1, CallSteps
  <2> QED BY <2>2, <2>3, ReturnEffect DEF Pops
<1> QED BY <1>1, <1>2, <1>3, <1>4 DEF Quiet

LEMMA WaitSend ==
    ASSUME ToolTypes, StackInv, FlashSend
    PROVE  Quiet
<1>1. /\ stk \in Seq(Frame) /\ stk # <<>> /\ Head(stk).op = "flash" /\ Head(stk).pc = "send"
      /\ UNCHANGED waitflags /\ h' = h /\ h \in ToolHistory /\ ThreadTypes /\ nreq \in Nat
  BY DEF FlashSend, Running, ToolTypes, StackTypes, CountTypes
<1>2. Head(stk) = stk[1] /\ 1 \in DOMAIN stk /\ Head(stk) \in Frame /\ ~Held(Head(stk))
  BY <1>1, BelowProperties DEF Held
<1>3. Recorded
  BY <1>1, Unrecorded
<1>4. \/ stk' = Below /\ Release(Head(stk).t)
      \/ /\ nreq' = nreq + 1 /\ stk' = Top([Head(stk) EXCEPT !.pc = "enter", !.rid = nreq'])
         /\ thr' = thr
  BY WriteNumber DEF FlashSend
<1>5. CASE stk' = Below /\ Release(Head(stk).t)
  <2>1. stk[1].t \in Callers /\ thr[stk[1].t].pc = "call" /\ Callers \subseteq Threads \union {W}
    BY <1>1, <1>2 DEF StackInv, CallersInv, Threads
  <2>2. CallsOnly
    BY <1>1, <1>2, <1>5, <2>1, CallSteps
  <2> QED BY <1>1, <1>2, <1>3, <1>5, <2>2, KeptPop DEF Quiet
<1>6. CASE /\ nreq' = nreq + 1 /\ stk' = Top([Head(stk) EXCEPT !.pc = "enter", !.rid = nreq'])
           /\ thr' = thr
  <2> DEFINE f == Head(stk)
             g == [f EXCEPT !.pc = "enter", !.rid = nreq + 1]
  <2> HIDE DEF f
  <2>0. f \in Frame /\ nreq + 1 \in Nat
    BY <1>1, <1>2 DEF f
  <2>1. g \in Frame /\ g.pc = "enter"
    BY <2>0 DEF Frame
  <2>2. stk' = Top(g)
    BY <1>6 DEF f
  <2> HIDE DEF g
  <2>3. Kept /\ (Past' => Past)
    BY <1>1, <1>2, <2>1, <2>2, KeptTop DEF Held
  <2> QED BY <1>1, <1>3, <1>6, <2>3 DEF Quiet, CallsOnly
<1> QED BY <1>4, <1>5, <1>6

LEMMA WaitTake ==
    ASSUME ToolTypes, StackInv, Take \/ OnReadyRead
    PROVE  Quiet
<1>1. /\ stk \in Seq(Frame) /\ h' = h /\ h \in ToolHistory /\ ThreadTypes /\ UNCHANGED waitflags
      /\ queue \in Seq(Posted)
  BY DEF Take, TakeRequest, TakeFlash, OnReadyRead, ToolTypes, StackTypes
<1>2. Recorded
  BY <1>1, Unrecorded
<1>3. Pushes \/ Refuses
  BY TakeRequestEffect, TakeFlashEffect, OnReadyReadEffect DEF Take
<1>4. CASE Pushes
  <2>1. PICK f \in Frame :
            /\ stk' = Push(f, stk)
            /\ f.op = "rx" \/ (f.op = "flash" /\ f.pc = "reset") \/ f.op \in Reqs
    BY <1>4 DEF Pushes
  <2>2. Kept /\ (Past' => Past)
    BY <1>1, <2>1, KeptPush, ReqNames
  <2> QED BY <1>1, <1>2, <1>4, <2>2 DEF Quiet, CallsOnly, Pushes
<1>5. CASE Refuses
  <2>1. Head(queue) = queue[1] /\ 1 \in DOMAIN queue
    BY <1>1, <1>5, QueueProperties DEF Refuses
  <2>2. queue[1].t \in Callers /\ thr[queue[1].t].pc = "call" /\ Callers \subseteq Threads \union {W}
    BY <2>1 DEF StackInv, QueueInv, Threads
  <2>3. CallsOnly
    BY <1>1, <1>5, <2>1, <2>2, CallSteps DEF Refuses
  <2> QED BY <1>1, <1>2, <1>5, <2>3, KeptStays DEF Quiet, Refuses
<1> QED BY <1>3, <1>4, <1>5

LEMMA WaitConnection ==
    ASSUME ToolTypes, RetryConnection \/ ConnectDone \/ OnDisconnected \/ Service
    PROVE  Quiet
<1>1. UNCHANGED <<stk, thr>> /\ h \in ToolHistory
  BY ConnectionEffect DEF ToolTypes
<1>2. CallsOnly /\ Kept /\ (Past' => Past)
  BY <1>1, KeptStays DEF CallsOnly
<1>3. UNCHANGED waitflags
  BY DEF RetryConnection, ConnectDone, OnDisconnected, Service, SrvAnswer, SrvProgress,
         SrvFlashEnds, SrvCrash, SrvStart, SrvUnchanged
<1>4. Recorded
  <2>1. CASE RetryConnection \/ ConnectDone
    <3>1. OnConnected(stk) \/ ConnectFails(stk) \/ ConnectPends(stk)
      BY <2>1 DEF RetryConnection, ConnectDone, ConnectToServerInternal
    <3> QED BY <1>1, <3>1, Unrecorded DEF OnConnected, ConnectFails, ConnectPends
  <2>2. CASE SrvAnswer
    <3>1. h' = h \/ \E x : h' = [h EXCEPT !.refused = x]
      BY <2>2 DEF SrvAnswer
    <3> QED BY <1>1, <3>1, Unrecorded
  <2>3. CASE h' = h
    BY <1>1, <2>3, Unrecorded
  <2> QED BY <2>1, <2>2, <2>3 DEF OnDisconnected, Service, SrvProgress, SrvFlashEnds, SrvCrash, SrvStart
<1> QED BY <1>2, <1>3, <1>4 DEF Quiet

LEMMA WaitTimeout ==
    ASSUME ToolTypes, Timeout
    PROVE  Quiet \/ Completes
<1>0. \A i \in DOMAIN stk : stk[i] \in Frame
  BY LenProperties, ElementOfSeq DEF ToolTypes, StackTypes
<1>1. CASE RequestTimeout
  <2>1. PICK i \in DOMAIN stk : stk[i].op \in Reqs
                                /\ stk' = [stk EXCEPT ![i].armed = FALSE, ![i].quit = TRUE]
    BY <1>1 DEF RequestTimeout
  <2>2. \A j \in DOMAIN stk : j # i => stk'[j] = stk[j]
    BY <2>1
  <2>3. DOMAIN stk' = DOMAIN stk /\ stk'[i].op = stk[i].op /\ stk[i].op # "flash"
    <3>1. Marks
      BY TimeoutEffect
    <3> QED BY <2>1, <3>1, ReqNames DEF Marks, Same
  <2>4. Kept /\ (Past' => Past)
    BY <2>2, <2>3, KeptMarks DEF Alike
  <2>5. UNCHANGED waitflags /\ thr' = thr /\ Recorded
    BY <1>1, Unrecorded DEF RequestTimeout, ToolTypes
  <2> QED BY <2>4, <2>5 DEF Quiet, CallsOnly
<1>2. CASE FlashTimeout
  <2>1. PICK i \in DOMAIN stk : stk' = [stk EXCEPT ![i].armed = FALSE]
    BY <1>2 DEF FlashTimeout, Waiting
  <2>2. \A f \in Frame : Alike(f, f) /\ Alike(f, [f EXCEPT !.armed = FALSE])
    BY DEF Alike, Frame
  <2>3. DOMAIN stk' = DOMAIN stk /\ \A j \in DOMAIN stk : stk'[j] \in {stk[j], [stk[j] EXCEPT !.armed = FALSE]}
    BY <2>1
  <2>4. \A j \in DOMAIN stk : Alike(stk[j], stk'[j])
    BY <1>0, <2>2, <2>3
  <2>5. thr[W].pc = "idle" /\ ForceBegin(W, FALSE, FALSE)
    BY <1>2 DEF FlashTimeout, InLoop
  <2> QED BY <2>3, <2>4, <2>5, KeptMarks DEF Completes
<1> QED BY <1>1, <1>2 DEF Timeout

LEMMA WaitHandle ==
    ASSUME ToolTypes, HandleOneSocketMessage
    PROVE  Quiet \/ Completes
<1> DEFINE m == Head(Head(stk).list)
           f == [Head(stk) EXCEPT !.list = Tail(@)]
<1>1. /\ stk # <<>> /\ m \in Msg /\ f \in Frame
      /\ Top(f) \in Seq(Frame) /\ DOMAIN Top(f) = DOMAIN stk
      /\ Top(f)[1] = f /\ Head(stk) = stk[1] /\ 1 \in DOMAIN stk
      /\ \A i \in DOMAIN stk : i # 1 => Top(f)[i] = stk[i]
  BY HandleStack
<1>2. f.op = "rx" /\ stk[1].op = "rx" /\ thr[W].pc = "idle"
  <2>1. Head(stk).op = "rx" /\ thr[W].pc = "idle" /\ Head(stk) \in Frame
    BY <1>1, BelowProperties DEF HandleOneSocketMessage, Running, ToolTypes, StackTypes
  <2> QED BY <1>1, <2>1 DEF Frame
<1>3. \/ stk' = Top(f) /\ FlashVerdict(m)
      \/ stk' = Top(f) /\ UNCHANGED <<waitflags, thr, h>>
      \/ AnswerRequest(m, Top(f)) /\ UNCHANGED <<waitflags, thr>>
  BY DEF HandleOneSocketMessage
<1> HIDE DEF f, m
<1>4. ASSUME stk' = Top(f) PROVE Kept /\ (Past' => Past)
  BY <1>1, <1>2, <1>4, KeptMarks DEF Alike
<1>5. CASE stk' = Top(f) /\ FlashVerdict(m)
  <2>1. (m.res = "ok") \in BOOLEAN /\ (\E i \in Waiting("flash") : stk[i].rid # m.rid) \in BOOLEAN
    OBVIOUS
  <2> QED BY <1>2, <1>4, <1>5, <2>1 DEF FlashVerdict, Completes
<1>6. CASE stk' = Top(f) /\ UNCHANGED <<waitflags, thr, h>>
  BY <1>4, <1>6, Unrecorded DEF Quiet, CallsOnly, ToolTypes
<1>7. CASE AnswerRequest(m, Top(f)) /\ UNCHANGED <<waitflags, thr>>
  <2> DEFINE s == Top(f)
  <2>1. /\ DOMAIN stk' = DOMAIN s
        /\ \A i \in DOMAIN s : s[i].op \notin Reqs => stk'[i] = s[i]
    BY <1>7 DEF AnswerRequest, Receivers
  <2>2. ASSUME NEW i \in DOMAIN stk
        PROVE  Alike(stk[i], stk'[i]) \/ (stk[i].op # "flash" /\ stk'[i].op = stk[i].op)
    <3>1. CASE i = 1
      BY <1>1, <1>2, <2>1, <3>1, ReqNames
    <3>2. CASE i # 1 /\ stk[i].op \notin Reqs
      BY <1>1, <2>1, <3>2 DEF Alike
    <3>3. CASE i # 1 /\ stk[i].op \in Reqs
      <4>1. s[i] = stk[i] /\ s[i] \in Frame
        BY <1>1, <3>3, LenProperties, ElementOfSeq
      <4>2. stk'[i].op = s[i].op
        <5>1. stk'[i] \in {s[i], [s[i] EXCEPT !.quit = TRUE,
                                  !.ok = @ \/ m.res = "ok" \/ s[i].op \in {"query", "sub"}]}
          BY <1>1, <1>7 DEF AnswerRequest
        <5> HIDE DEF s
        <5> QED BY <4>1, <5>1 DEF Frame
      <4> QED BY <3>3, <4>1, <4>2, ReqNames
    <3> QED BY <3>1, <3>2, <3>3
  <2>3. Kept /\ (Past' => Past)
    BY <1>1, <2>1, <2>2, KeptMarks
  <2>4. Recorded
    <3>1. \E x, y : h' = [h EXCEPT !.wild = x, !.wrong = y]
      BY <1>7 DEF AnswerRequest
    <3> QED BY <3>1, Unrecorded DEF ToolTypes
  <2> QED BY <1>7, <2>3, <2>4 DEF Quiet, CallsOnly
<1> QED BY <1>3, <1>5, <1>6, <1>7

LEMMA WaitSteps ==
    ASSUME ToolTypes, StackInv, Next
    PROVE  WaitStep
<1>1. W \in Threads \union {W} /\ Controllers \subseteq Threads \union {W}
      /\ Callers \subseteq Threads \union {W} /\ ThreadTypes /\ h \in ToolHistory
  BY DEF Threads, ToolTypes
<1>2. CASE Unwind
  <2>1. CASE FlashReset
    <3>1. /\ stk # <<>> /\ Head(stk).op = "flash" /\ Head(stk).pc = "reset" /\ thr[W].pc = "idle"
          /\ ResetBegin(W) /\ h' = AfterReset(W) /\ loop' = loop /\ stk \in Seq(Frame)
          /\ stk' = Top([Head(stk) EXCEPT !.pc = "send"])
      BY <2>1 DEF FlashReset, Running, ToolTypes, StackTypes
    <3> DEFINE g == [Head(stk) EXCEPT !.pc = "send"]
    <3>2. Head(stk) \in Frame
      BY <3>1, BelowProperties
    <3>3. g \in Frame /\ g.pc = "send"
      BY <3>2 DEF Frame
    <3> HIDE DEF g
    <3>4. Kept
      BY <3>1, <3>3, KeptTop DEF Held, g
    <3> QED BY <1>1, <3>1, <3>4 DEF WaitStep, Resets
  <2>2. CASE InitReturn \/ RequestReturn \/ ReadyReadReturn
    BY <2>2, WaitReturn DEF WaitStep
  <2>3. CASE FlashEnter \/ FlashLeave \/ FlashReturn \/ Controller(W)
    BY <2>3, <1>1 DEF WaitStep
  <2> QED BY <1>2, <2>1, <2>2, <2>3, WaitSend, WaitHandle DEF Unwind, Controller, WaitStep
<1>3. CASE Take \/ LoopEvent \/ Timeout \/ Service \/ Deinit
  BY <1>3, WaitTake, WaitConnection, WaitTimeout DEF LoopEvent, WaitStep
<1>4. ASSUME NEW t \in Callers, Caller(t) PROVE WaitStep
  <2>1. UNCHANGED waitflags /\ thr[t].pc = "idle" /\ thr' = [thr EXCEPT ![t].pc = "call"]
    <3>1. ToolInit(t) => ~inst /\ thr' = [thr EXCEPT ![t].pc = "call"] /\ UNCHANGED waitflags
      BY DEF ToolInit
    <3>2. \A op : InvokeOnWorker(t, op) =>
                thr[t].pc = "idle" /\ thr' = [thr EXCEPT ![t].pc = "call"] /\ UNCHANGED waitflags
      BY DEF InvokeOnWorker
    <3>3. ~inst => thr[t].pc = "idle"
      BY <1>1 DEF StackInv, IdleInv, ThreadTypes
    <3> QED BY <1>4, <3>1, <3>2, <3>3 DEF Caller
  <2>2. CallsOnly
    BY <1>1, <2>1, CallSteps
  <2>3. CASE ToolInit(t)
    <3>1. PICK s : /\ s = <<NewFrame("init", t, "run")>>
                   /\ OnConnected(s) \/ ConnectFails(s) \/ ConnectPends(s)
      BY <2>3 DEF ToolInit, ConnectToServerInternal
    <3>2. stk' = s /\ Recorded
      BY <1>1, <3>1, Unrecorded DEF OnConnected, ConnectFails, ConnectPends
    <3>3. stk = <<>> /\ DOMAIN stk = {}
      BY <2>3 DEF ToolInit, StackInv, IdleInv
    <3>4. DOMAIN stk' = {1} /\ stk'[1].op = "init"
      BY <3>1, <3>2 DEF NewFrame
    <3>5. Kept /\ ~Past'
      BY <3>3, <3>4 DEF Kept, Held, Past
    <3> QED BY <2>1, <2>2, <3>2, <3>5 DEF Quiet, WaitStep
  <2>4. ASSUME NEW op, InvokeOnWorker(t, op) PROVE WaitStep
    <3>1. h' = h /\ stk' = stk
      BY <2>4 DEF InvokeOnWorker
    <3> QED BY <1>1, <2>1, <2>2, <3>1, KeptStays, Unrecorded DEF Quiet, WaitStep
  <2> QED BY <1>4, <2>3, <2>4 DEF Caller
<1>5. ASSUME NEW t \in Controllers, Control(t) PROVE WaitStep
  <2>1. stk' = stk /\ thr[t].pc = "idle" /\ FALSE \in BOOLEAN
    BY <1>5 DEF Control, calling
  <2>2. \/ \E ok \in BOOLEAN : ForceBegin(t, ok, FALSE)
        \/ ResetBegin(t) /\ h' = AfterReset(t) /\ UNCHANGED loop
    BY <1>5 DEF Control
  <2> QED BY <1>1, <2>1, <2>2, KeptStays DEF WaitStep, Completes, Resets
<1>6. ASSUME NEW t \in Controllers, Controller(t) PROVE WaitStep
  BY <1>1, <1>6 DEF WaitStep
<1> QED BY <1>2, <1>3, <1>4, <1>5, <1>6 DEF Next

(* What the steps of the flash wait do to the threads and to the frames.   *)
LEMMA ThreadAfter ==
    ASSUME ThreadTypes, NEW t \in Threads \union {W}
    PROVE  /\ \A ok : thr' = [thr EXCEPT ![t].pc = "store", ![t].ok = ok] =>
                /\ DOMAIN thr' = DOMAIN thr /\ t \in DOMAIN thr
                /\ thr'[t].pc = "store" /\ thr'[t].ok = ok
                /\ \A u \in DOMAIN thr : u # t => thr'[u] = thr[u]
           /\ \A q : thr' = [thr EXCEPT ![t].pc = q] =>
                /\ DOMAIN thr' = DOMAIN thr /\ t \in DOMAIN thr
                /\ thr'[t].pc = q /\ thr'[t].ok = thr[t].ok
                /\ \A u \in DOMAIN thr : u # t => thr'[u] = thr[u]
           /\ \A p : thr' = [thr EXCEPT ![t].pc = "post", ![t].p = p] =>
                /\ DOMAIN thr' = DOMAIN thr /\ t \in DOMAIN thr
                /\ thr'[t].pc = "post" /\ thr'[t].p = p /\ thr'[t].ok = thr[t].ok
                /\ \A u \in DOMAIN thr : u # t => thr'[u] = thr[u]
           /\ Release(t) =>
                /\ DOMAIN thr' = DOMAIN thr /\ t \in DOMAIN thr /\ thr'[t].pc = "idle"
                /\ \A u \in DOMAIN thr : u # t => thr'[u] = thr[u]
<1>0. thr[t] \in ThreadState /\ t \in DOMAIN thr
  BY DEF ThreadTypes
<1>1. ASSUME NEW ok, thr' = [thr EXCEPT ![t].pc = "store", ![t].ok = ok]
      PROVE  /\ DOMAIN thr' = DOMAIN thr /\ t \in DOMAIN thr
             /\ thr'[t].pc = "store" /\ thr'[t].ok = ok
             /\ \A u \in DOMAIN thr : u # t => thr'[u] = thr[u]
  <2>1. thr' = [thr EXCEPT ![t] = [thr[t] EXCEPT !.pc = "store", !.ok = ok]]
    BY <1>1, TwoFields
  <2>2. \A v \in ThreadState : /\ [v EXCEPT !.pc = "store", !.ok = ok].pc = "store"
                               /\ [v EXCEPT !.pc = "store", !.ok = ok].ok = ok
    BY DEF ThreadState
  <2> QED BY <1>0, <2>1, <2>2
<1>2. ASSUME NEW q, thr' = [thr EXCEPT ![t].pc = q]
      PROVE  /\ DOMAIN thr' = DOMAIN thr /\ t \in DOMAIN thr
             /\ thr'[t].pc = q /\ thr'[t].ok = thr[t].ok
             /\ \A u \in DOMAIN thr : u # t => thr'[u] = thr[u]
  <2>1. thr' = [thr EXCEPT ![t] = [thr[t] EXCEPT !.pc = q]]
    BY <1>2
  <2>2. \A v \in ThreadState : [v EXCEPT !.pc = q].pc = q /\ [v EXCEPT !.pc = q].ok = v.ok
    BY DEF ThreadState
  <2> QED BY <1>0, <2>1, <2>2
<1>3. ASSUME NEW p, thr' = [thr EXCEPT ![t].pc = "post", ![t].p = p]
      PROVE  /\ DOMAIN thr' = DOMAIN thr /\ t \in DOMAIN thr
             /\ thr'[t].pc = "post" /\ thr'[t].p = p /\ thr'[t].ok = thr[t].ok
             /\ \A u \in DOMAIN thr : u # t => thr'[u] = thr[u]
  <2>1. thr' = [thr EXCEPT ![t] = [thr[t] EXCEPT !.pc = "post", !.p = p]]
    BY <1>3, TwoFields
  <2>2. \A v \in ThreadState : /\ [v EXCEPT !.pc = "post", !.p = p].pc = "post"
                               /\ [v EXCEPT !.pc = "post", !.p = p].p = p
                               /\ [v EXCEPT !.pc = "post", !.p = p].ok = v.ok
    BY DEF ThreadState
  <2> QED BY <1>0, <2>1, <2>2
<1>4. Release(t) => /\ DOMAIN thr' = DOMAIN thr /\ t \in DOMAIN thr /\ thr'[t].pc = "idle"
                    /\ \A u \in DOMAIN thr : u # t => thr'[u] = thr[u]
  BY <1>0 DEF Release, Idle
<1> QED BY <1>1, <1>2, <1>3, <1>4

LEMMA EnterFrames ==
    ASSUME ToolTypes, FlashEnter
    PROVE  /\ 1 \in DOMAIN stk /\ DOMAIN stk' = DOMAIN stk
           /\ stk[1].op = "flash" /\ stk[1].pc = "enter"
           /\ stk'[1].op = "flash" /\ stk'[1].pc = "wait" /\ stk'[1].rid = stk[1].rid
           /\ stk'[1].doomed = completed /\ loop' = stk[1].rid
           /\ \A i \in DOMAIN stk : i # 1 => stk'[i] = stk[i]
<1> DEFINE f == Head(stk)
           g == [f EXCEPT !.pc = "wait", !.doomed = completed]
<1>1. /\ stk # <<>> /\ f.op = "flash" /\ f.pc = "enter" /\ stk \in Seq(Frame)
      /\ loop' = f.rid /\ stk' = Top(g)
  BY DEF FlashEnter, Running, ToolTypes, StackTypes
<1>2. f \in Frame /\ f = stk[1]
  BY <1>1, BelowProperties
<1> HIDE DEF f
<1>3. g \in Frame /\ g.op = f.op /\ g.pc = "wait" /\ g.rid = f.rid /\ g.doomed = completed
  BY <1>2 DEF Frame, ToolTypes, FlagTypes
<1> HIDE DEF g
<1>4. /\ DOMAIN stk' = DOMAIN stk /\ stk'[1] = g /\ 1 \in DOMAIN stk
      /\ \A i \in DOMAIN stk : i # 1 => stk'[i] = stk[i]
  BY <1>1, <1>3, TopProperties, BelowProperties
<1> QED BY <1>1, <1>2, <1>3, <1>4

LEMMA LeaveFrames ==
    ASSUME ToolTypes, FlashLeave
    PROVE  /\ 1 \in DOMAIN stk /\ DOMAIN stk' = DOMAIN stk
           /\ stk[1].op = "flash" /\ stk[1].pc = "wait"
           /\ stk'[1].op = "flash" /\ stk'[1].pc = "ret" /\ stk'[1].rid = stk[1].rid
           /\ \A i \in DOMAIN stk : i # 1 => stk'[i] = stk[i]
<1> DEFINE f == Head(stk)
           g == [f EXCEPT !.pc = "ret", !.ok = completed /\ success]
<1>1. stk # <<>> /\ f.op = "flash" /\ f.pc = "wait" /\ stk \in Seq(Frame) /\ stk' = Top(g)
  BY DEF FlashLeave, Running, ToolTypes, StackTypes
<1>2. f \in Frame /\ f = stk[1] /\ (completed /\ success) \in BOOLEAN
  BY <1>1, BelowProperties DEF ToolTypes, FlagTypes
<1> HIDE DEF f
<1>3. g \in Frame /\ g.op = f.op /\ g.pc = "ret" /\ g.rid = f.rid
  BY <1>2 DEF Frame
<1> HIDE DEF g
<1>4. /\ DOMAIN stk' = DOMAIN stk /\ stk'[1] = g /\ 1 \in DOMAIN stk
      /\ \A i \in DOMAIN stk : i # 1 => stk'[i] = stk[i]
  BY <1>1, <1>3, TopProperties, BelowProperties
<1> QED BY <1>1, <1>2, <1>3, <1>4

LEMMA ReturnFrames ==
    ASSUME ToolTypes, FlashReturn
    PROVE  /\ 1 \in DOMAIN stk /\ stk[1].op = "flash" /\ stk[1].pc = "ret" /\ stk[1] = Head(stk)
           /\ \A i \in DOMAIN stk' : i + 1 \in DOMAIN stk /\ i + 1 > 1 /\ stk'[i] = stk[i + 1]
           /\ \A i \in DOMAIN stk : i # 1 => i - 1 \in DOMAIN stk' /\ stk'[i - 1] = stk[i]
<1>1. /\ stk # <<>> /\ Head(stk).op = "flash" /\ Head(stk).pc = "ret" /\ stk \in Seq(Frame)
      /\ stk' = Below
  BY DEF FlashReturn, Running, ToolTypes, StackTypes
<1> QED BY <1>1, PoppedFrames

LEMMA PostFrames ==
    ASSUME ToolTypes, NEW t \in Threads \union {W}, ForcePost(t)
    PROVE  /\ DOMAIN stk' = DOMAIN stk
           /\ \A i \in DOMAIN stk : /\ stk'[i].op = stk[i].op /\ stk'[i].pc = stk[i].pc
                                    /\ stk'[i].rid = stk[i].rid /\ stk'[i].doomed = stk[i].doomed
                                    /\ stk[i].quit => stk'[i].quit
                                    /\ stk[i].op = "flash" /\ stk[i].rid = thr[t].p => stk'[i].quit
<1>1. Marks
  BY ForcePostEffect
<1>2. ASSUME NEW i \in DOMAIN stk
      PROVE  /\ stk[i].quit => stk'[i].quit
             /\ stk[i].op = "flash" /\ stk[i].rid = thr[t].p => stk'[i].quit
  <2>1. stk[i] \in Frame
    BY LenProperties, ElementOfSeq DEF ToolTypes, StackTypes
  <2>2. stk'[i] = IF stk[i].op = "flash" /\ stk[i].rid = thr[t].p
                  THEN [stk[i] EXCEPT !.quit = TRUE] ELSE stk[i]
    BY DEF ForcePost
  <2>3. \A f \in Frame : [f EXCEPT !.quit = TRUE].quit = TRUE
    BY DEF Frame
  <2> QED BY <2>1, <2>2, <2>3
<1> QED BY <1>1, <1>2 DEF Marks, Same
-----------------------------------------------------------------------------
(* The loop that is known belongs to a TriggerFlash that has not returned. *)
LoopInv == loop # 0 => \E i \in DOMAIN stk : Held(stk[i]) /\ stk[i].rid = loop

LEMMA LoopNext ==
    ASSUME ToolTypes, StackInv, LoopInv, WaitStep
    PROVE  LoopInv'
<1>1. ASSUME loop' = loop, \A j \in DOMAIN stk : Held(stk[j]) =>
                        \E i \in DOMAIN stk' : Held(stk'[i]) /\ stk'[i].rid = stk[j].rid
      PROVE  LoopInv'
  BY <1>1 DEF LoopInv
<1>2. ASSUME loop' = loop, Kept PROVE LoopInv'
  <2>1. \A j \in DOMAIN stk : Held(stk[j]) =>
                        \E i \in DOMAIN stk' : Held(stk'[i]) /\ stk'[i].rid = stk[j].rid
    BY <1>2 DEF Kept, Alike, Held
  <2> QED BY <1>1, <1>2, <2>1
<1>3. CASE Quiet \/ Completes \/ Resets
  BY <1>2, <1>3 DEF Quiet, Completes, Resets, ForceBegin, waitflags
<1>4. CASE FlashEnter
  BY <1>4, EnterFrames DEF LoopInv, Held
<1>5. CASE FlashLeave
  <2>1. loop' = loop
    BY <1>5 DEF FlashLeave
  <2>2. \A j \in DOMAIN stk : Held(stk[j]) =>
                        \E i \in DOMAIN stk' : Held(stk'[i]) /\ stk'[i].rid = stk[j].rid
    BY <1>5, LeaveFrames DEF Held
  <2> QED BY <1>1, <2>1, <2>2
<1>6. CASE FlashReturn
  BY <1>6 DEF FlashReturn, LoopInv
<1>7. CASE Deinit
  BY <1>7 DEF Deinit, LoopInv
<1>8. ASSUME NEW t \in Threads \union {W}, Controller(t) PROVE LoopInv'
  <2>1. loop' = loop
    BY <1>8 DEF Controller, ForceStore, ForceLook, ForcePost, ResetClear, waitflags
  <2>2. CASE ForcePost(t)
    <3>1. \A j \in DOMAIN stk : Held(stk[j]) =>
                        \E i \in DOMAIN stk' : Held(stk'[i]) /\ stk'[i].rid = stk[j].rid
      BY <2>2, PostFrames DEF Held
    <3> QED BY <1>1, <2>1, <3>1
  <2>3. CASE stk' = stk
    BY <1>2, <2>1, <2>3, KeptStays
  <2> QED BY <1>8, <2>2, <2>3 DEF Controller, ForceStore, ForceLook, ResetClear, calling
<1> QED BY <1>3, <1>4, <1>5, <1>6, <1>7, <1>8 DEF WaitStep
-----------------------------------------------------------------------------
(* A wait that is over is left.  FlashWakeup is not inductive: the quit    *)
(* must be on its way to this loop and not to an earlier one.              *)

Woken == \E t \in DOMAIN thr : thr[t].pc \in {"store", "look"} \/ (thr[t].pc = "post" /\ thr[t].p = loop)
Awake(f) == f.quit \/ f.doomed
WakeInv ==
    \A i \in DOMAIN stk : stk[i].op = "flash" /\ stk[i].pc = "wait" /\ stk[i].rid = loop /\ completed =>
        Awake(stk[i]) \/ Woken

LEMMA WakeNext ==
    ASSUME ToolTypes, StackInv, WakeInv, WaitStep
    PROVE  WakeInv'
<1>0. ThreadTypes
  BY DEF ToolTypes
<1>1. CASE ~completed'
  BY <1>1 DEF WakeInv
<1>2. ASSUME loop' = loop, completed' => completed, Kept, Woken => Woken' PROVE WakeInv'
  <2> SUFFICES ASSUME NEW i \in DOMAIN stk', stk'[i].op = "flash", stk'[i].pc = "wait",
                      stk'[i].rid = loop', completed'
               PROVE  Awake(stk'[i]) \/ Woken'
    BY DEF WakeInv
  <2>1. PICK j \in DOMAIN stk : Alike(stk[j], stk'[i])
    BY <1>2 DEF Kept, Held
  <2>2. Awake(stk[j]) \/ Woken
    BY <1>2, <2>1 DEF WakeInv, Alike
  <2> QED BY <1>2, <2>1, <2>2 DEF Awake, Alike
<1>3. CASE Quiet
  <2>1. Woken => Woken'
    <3> SUFFICES ASSUME NEW t \in DOMAIN thr,
                        thr[t].pc \in {"store", "look"} \/ (thr[t].pc = "post" /\ thr[t].p = loop)
                 PROVE  Woken'
      BY DEF Woken
    <3>1. t \in DOMAIN thr' /\ thr'[t] = thr[t] /\ loop' = loop
      BY <1>3 DEF Quiet, CallsOnly, waitflags
    <3> QED BY <3>1 DEF Woken
  <2> QED BY <1>2, <1>3, <2>1 DEF Quiet, waitflags
<1>4. CASE Completes
  <2>1. PICK t \in Threads \union {W}, ok \in BOOLEAN, alien \in BOOLEAN : ForceBegin(t, ok, alien)
    BY <1>4 DEF Completes
  <2>2. CASE completed
    <3>1. thr' = thr /\ loop' = loop
      BY <2>1, <2>2 DEF ForceBegin
    <3>2. Woken => Woken'
      BY <3>1 DEF Woken
    <3> QED BY <1>2, <1>4, <2>2, <3>1, <3>2 DEF Completes
  <2>3. CASE ~completed
    <3>1. thr' = [thr EXCEPT ![t].pc = "store", ![t].ok = ok]
      BY <2>1, <2>3 DEF ForceBegin
    <3>2. t \in DOMAIN thr' /\ thr'[t].pc = "store"
      BY <1>0, <3>1, ThreadAfter
    <3>3. Woken'
      BY <3>2 DEF Woken
    <3> QED BY <3>3 DEF WakeInv
  <2> QED BY <2>2, <2>3
<1>5. CASE Resets \/ FlashLeave \/ Deinit
  BY <1>1, <1>5 DEF Resets, ResetBegin, FlashLeave, Deinit
<1>6. CASE FlashEnter
  <2>1. completed' = completed /\ loop' = stk[1].rid /\ stk[1].rid # 0 /\ 1 \in DOMAIN stk
    <3>1. FrameOK(stk[1], nreq) /\ stk[1].op = "flash" /\ stk[1].pc = "enter" /\ 1 \in DOMAIN stk
      BY <1>6, EnterFrames DEF StackInv, FramesInv
    <3> QED BY <1>6, <3>1, EnterFrames DEF FrameOK, FlashEnter
  <2>2. ASSUME NEW i \in DOMAIN stk', stk'[i].rid = loop', completed' PROVE Awake(stk'[i])
    <3>1. CASE i = 1
      BY <1>6, <2>1, <2>2, <3>1, EnterFrames DEF Awake
    <3>2. CASE i # 1
      <4>1. i \in DOMAIN stk /\ stk[i].rid = stk[1].rid
        BY <1>6, <2>1, <2>2, <3>2, EnterFrames
      <4> QED BY <2>1, <3>2, <4>1 DEF StackInv, NumbersInv
    <3> QED BY <3>1, <3>2
  <2> QED BY <2>2 DEF WakeInv
<1>7. CASE FlashReturn
  <2> SUFFICES ASSUME NEW i \in DOMAIN stk', stk'[i].op = "flash", stk'[i].pc = "wait",
                      stk'[i].rid = loop'
               PROVE  FALSE
    BY DEF WakeInv
  <2>1. i + 1 \in DOMAIN stk /\ stk[i + 1] = stk'[i] /\ loop' = 0
    BY <1>7, ReturnFrames DEF FlashReturn
  <2>2. FrameOK(stk[i + 1], nreq)
    BY <2>1 DEF StackInv, FramesInv
  <2> QED BY <2>1, <2>2 DEF FrameOK
<1>8. ASSUME NEW t \in Threads \union {W}, Controller(t) PROVE WakeInv'
  <2>1. CASE ForceStore(t)
    <3>1. thr' = [thr EXCEPT ![t].pc = "look"] /\ UNCHANGED <<loop, completed, stk>>
      BY <2>1 DEF ForceStore, calling
    <3>2. t \in DOMAIN thr' /\ thr'[t].pc = "look"
      BY <1>0, <3>1, ThreadAfter
    <3>3. Woken'
      BY <3>2 DEF Woken
    <3> QED BY <3>3 DEF WakeInv
  <2>2. CASE ForceLook(t)
    <3>1. UNCHANGED <<loop, completed, stk>>
      BY <2>2 DEF ForceLook, waitflags, calling
    <3>2. CASE loop # 0
      <4>1. thr' = [thr EXCEPT ![t].pc = "post", ![t].p = loop]
        BY <2>2, <3>2 DEF ForceLook
      <4>2. t \in DOMAIN thr' /\ thr'[t].pc = "post" /\ thr'[t].p = loop'
        BY <1>0, <3>1, <4>1, ThreadAfter
      <4>3. Woken'
        BY <4>2 DEF Woken
      <4> QED BY <4>3 DEF WakeInv
    <3>3. CASE loop = 0
      <4>1. \A i \in DOMAIN stk : stk[i].op = "flash" /\ stk[i].pc = "wait" => stk[i].rid # 0
        BY DEF StackInv, FramesInv, FrameOK
      <4> QED BY <3>1, <3>3, <4>1 DEF WakeInv
    <3> QED BY <3>2, <3>3
  <2>3. CASE ForcePost(t)
    <3>1. UNCHANGED <<loop, completed>> /\ thr[t].pc = "post" /\ Release(t)
      BY <2>3 DEF ForcePost, waitflags
    <3>2. \A u \in DOMAIN thr : u # t => u \in DOMAIN thr' /\ thr'[u] = thr[u]
      BY <1>0, <3>1, ThreadAfter
    <3>3. Woken => Woken' \/ thr[t].p = loop
      BY <3>1, <3>2 DEF Woken
    <3> SUFFICES ASSUME NEW i \in DOMAIN stk', stk'[i].op = "flash", stk'[i].pc = "wait",
                        stk'[i].rid = loop', completed'
                 PROVE  Awake(stk'[i]) \/ Woken'
      BY DEF WakeInv
    <3>4. /\ i \in DOMAIN stk /\ stk[i].op = "flash" /\ stk[i].pc = "wait" /\ stk[i].rid = loop
          /\ stk'[i].doomed = stk[i].doomed /\ (stk[i].quit => stk'[i].quit)
          /\ (thr[t].p = loop => stk'[i].quit)
      BY <2>3, <3>1, PostFrames
    <3>5. Awake(stk[i]) \/ Woken
      BY <3>1, <3>4 DEF WakeInv
    <3> QED BY <3>3, <3>4, <3>5 DEF Awake
  <2>4. CASE ResetClear(t)
    <3>1. UNCHANGED <<loop, completed, stk>> /\ thr[t].pc = "clear" /\ Release(t)
      BY <2>4 DEF ResetClear, calling
    <3>2. \A u \in DOMAIN thr : u # t => u \in DOMAIN thr' /\ thr'[u] = thr[u]
      BY <1>0, <3>1, ThreadAfter
    <3>3. Woken => Woken'
      BY <3>1, <3>2 DEF Woken
    <3> QED BY <1>2, <3>1, <3>3, KeptStays
  <2> QED BY <1>8, <2>1, <2>2, <2>3, <2>4 DEF Controller
<1> QED BY <1>3, <1>4, <1>5, <1>6, <1>7, <1>8 DEF WaitStep

(* When a ForceCompleteFlashWait has ended a flash wait, the loop of       *)
(* TriggerFlash has been told to quit or some thread is on its way to tell *)
(* it, whatever the threads and however their steps interleave.            *)
THEOREM FlashWakeupCorrect == Spec => []FlashWakeup
<1>1. Init => WakeInv
  BY DEF Init, WakeInv
<1>2. ToolTypes /\ StackInv /\ WakeInv /\ [Next]_vars => WakeInv'
  <2>1. CASE UNCHANGED vars
    <3>1. UNCHANGED <<stk, thr, loop, completed>>
      BY <2>1 DEF vars, calling, waitflags
    <3> QED BY <3>1 DEF WakeInv, Woken
  <2> QED BY <2>1, WaitSteps, WakeNext
<1>3. WakeInv => FlashWakeup
  BY DEF WakeInv, Woken, Awake, FlashWakeup, Waiting
<1> QED BY <1>1, <1>2, <1>3, ToolInvariant, PTL DEF Spec
-----------------------------------------------------------------------------
(* The verdict.  While no ForceCompleteFlashWait has overlapped a          *)
(* ResetFlashWait or the return of TriggerFlash, at most one thread is in  *)
(* ForceCompleteFlashWait past its test, it carries the first verdict, and *)
(* the loop it quits is still entered.                                     *)

Mid(v) == v.pc \in {"store", "look", "post"}
Clean ==
    /\ Past => (h.first # "none" => completed)
    /\ \A u \in DOMAIN thr : thr[u].pc = "clear" => ~completed
    /\ \A u \in DOMAIN thr : Mid(thr[u]) => completed /\ thr[u].ok = (h.first = "ok")
    /\ \A u, v \in DOMAIN thr : Mid(thr[u]) /\ Mid(thr[v]) => u = v
    /\ \A u \in DOMAIN thr : Mid(thr[u]) =>
        \A i \in DOMAIN stk : ~(stk[i].op = "flash" /\ stk[i].pc = "ret")
    /\ completed /\ (\A u \in DOMAIN thr : thr[u].pc # "store") => success = (h.first = "ok")
    /\ \A u \in DOMAIN thr : thr[u].pc = "post" =>
        \E i \in DOMAIN stk : stk[i].op = "flash" /\ stk[i].pc = "wait" /\ stk[i].rid = thr[u].p
    /\ ~h.dangling
VerdictInv == ~h.straddle => Clean

(* Steps of others.                                                        *)
LEMMA CleanQuiet ==
    ASSUME ToolTypes, Clean, Recorded, CallsOnly, Past' => Past, completed' = completed,
           success' = success,
           \A i \in DOMAIN stk' : stk'[i].op = "flash" /\ stk'[i].pc = "ret" =>
                \E j \in DOMAIN stk : stk[j].op = "flash" /\ stk[j].pc = "ret",
           \A j \in DOMAIN stk : stk[j].op = "flash" /\ stk[j].pc = "wait" =>
                \E i \in DOMAIN stk' : /\ stk'[i].op = "flash" /\ stk'[i].pc = "wait"
                                       /\ stk'[i].rid = stk[j].rid
    PROVE  Clean'
<1>1. DOMAIN thr' = DOMAIN thr /\ h'.first = h.first /\ h'.dangling = h.dangling
  BY DEF CallsOnly, Recorded
<1>2. \A u \in DOMAIN thr : Mid(thr'[u]) \/ thr'[u].pc = "clear" => thr'[u] = thr[u]
  BY DEF CallsOnly, Mid
<1>3. \A u \in DOMAIN thr : thr[u].pc = "store" => thr'[u] = thr[u]
  BY DEF CallsOnly
<1>4. (Past => (h.first # "none" => completed))'
  BY <1>1 DEF Clean
<1>5. (\A u \in DOMAIN thr : thr[u].pc = "clear" => ~completed)'
  BY <1>1, <1>2 DEF Clean
<1>6. (\A u \in DOMAIN thr : Mid(thr[u]) => completed /\ thr[u].ok = (h.first = "ok"))'
  BY <1>1, <1>2 DEF Clean
<1>7. (\A u, v \in DOMAIN thr : Mid(thr[u]) /\ Mid(thr[v]) => u = v)'
  BY <1>1, <1>2 DEF Clean
<1>8. (\A u \in DOMAIN thr : Mid(thr[u]) =>
        \A i \in DOMAIN stk : ~(stk[i].op = "flash" /\ stk[i].pc = "ret"))'
  BY <1>1, <1>2 DEF Clean
<1>9. (completed /\ (\A u \in DOMAIN thr : thr[u].pc # "store") => success = (h.first = "ok"))'
  BY <1>1, <1>3 DEF Clean
<1>10. ASSUME NEW u \in DOMAIN thr', thr'[u].pc = "post"
       PROVE  \E i \in DOMAIN stk' : stk'[i].op = "flash" /\ stk'[i].pc = "wait" /\ stk'[i].rid = thr'[u].p
  <2>1. u \in DOMAIN thr /\ thr'[u] = thr[u]
    BY <1>1, <1>2, <1>10 DEF Mid
  <2>2. PICK j \in DOMAIN stk : stk[j].op = "flash" /\ stk[j].pc = "wait" /\ stk[j].rid = thr[u].p
    BY <1>10, <2>1 DEF Clean
  <2> QED BY <2>1, <2>2
<1>11. ~h'.dangling
  BY <1>1 DEF Clean
<1> QED BY <1>4, <1>5, <1>6, <1>7, <1>8, <1>9, <1>10, <1>11 DEF Clean

LEMMA CleanKept ==
    ASSUME ToolTypes, Clean, Recorded, CallsOnly, Past' => Past, completed' = completed,
           success' = success, Kept
    PROVE  Clean'
<1>1. \A i \in DOMAIN stk' : stk'[i].op = "flash" /\ stk'[i].pc = "ret" =>
        \E j \in DOMAIN stk : stk[j].op = "flash" /\ stk[j].pc = "ret"
  BY DEF Kept, Held, Alike
<1>2. \A j \in DOMAIN stk : stk[j].op = "flash" /\ stk[j].pc = "wait" =>
        \E i \in DOMAIN stk' : /\ stk'[i].op = "flash" /\ stk'[i].pc = "wait"
                               /\ stk'[i].rid = stk[j].rid
  BY DEF Kept, Held, Alike
<1> QED BY <1>1, <1>2, CleanQuiet

LEMMA CleanCompletes ==
    ASSUME ToolTypes, Clean, Completes, ~h'.straddle
    PROVE  Clean'
<1>0. ThreadTypes /\ h \in ToolHistory /\ completed \in BOOLEAN
  BY DEF ToolTypes, FlagTypes
<1>1. PICK t \in Threads \union {W}, ok \in BOOLEAN, alien \in BOOLEAN :
        thr[t].pc = "idle" /\ ForceBegin(t, ok, alien)
  BY DEF Completes
<1>2. CASE completed
  <2>1. thr' = thr /\ h' = h /\ completed' = completed /\ success' = success
    BY <1>0, <1>1, <1>2 DEF ForceBegin
  <2> QED BY <2>1, CleanKept DEF Completes, CallsOnly, Recorded
<1>3. CASE ~completed
  <2>1. /\ thr' = [thr EXCEPT ![t].pc = "store", ![t].ok = ok] /\ completed' = TRUE
        /\ success' = success
    BY <1>1, <1>3 DEF ForceBegin
  <2>2. /\ DOMAIN thr' = DOMAIN thr /\ t \in DOMAIN thr /\ thr'[t].pc = "store" /\ thr'[t].ok = ok
        /\ \A u \in DOMAIN thr : u # t => thr'[u] = thr[u]
    BY <1>0, <2>1, ThreadAfter
  <2>3. ~MidReset /\ h'.first = (IF ok THEN "ok" ELSE "fail") /\ h'.dangling = h.dangling
    BY <1>0, <1>1, <1>3, ForceHistory
  <2>4. \A u \in DOMAIN thr : ~Mid(thr[u]) /\ thr[u].pc # "clear"
    BY <1>3, <2>3 DEF Clean, MidReset
  <2>5. \A u \in DOMAIN thr' : (Mid(thr'[u]) => u = t) /\ thr'[u].pc # "clear"
    BY <2>2, <2>4
  <2>6. \A i \in DOMAIN stk' : ~(stk'[i].op = "flash" /\ stk'[i].pc = "ret")
    <3>1. \A i \in DOMAIN stk : ~(stk[i].op = "flash" /\ stk[i].pc = "ret")
      BY <2>3 DEF MidReset
    <3> QED BY <3>1 DEF Completes, Kept, Held, Alike
  <2>7. thr'[t].ok = (h'.first = "ok") /\ thr'[t].pc # "post" /\ ~h'.dangling
    BY <2>2, <2>3 DEF Clean
  <2>8. \A u \in DOMAIN thr' : thr'[u].pc # "post"
    BY <2>5, <2>7 DEF Mid
  <2> QED BY <2>1, <2>2, <2>5, <2>6, <2>7, <2>8 DEF Clean
<1> QED BY <1>2, <1>3

LEMMA CleanResets ==
    ASSUME ToolTypes, Clean, Resets \/ FlashLeave, ~h'.straddle
    PROVE  Clean'
<1>0. ThreadTypes /\ h \in ToolHistory /\ W \in Threads \union {W}
  BY DEF ToolTypes
<1>1. PICK t \in Threads \union {W} : /\ thr[t].pc = "idle" /\ ResetBegin(t) /\ h'.first = "none"
                                      /\ h'.straddle = (h.straddle \/ MidForce(t))
                                      /\ h'.dangling = h.dangling
  <2>1. CASE Resets
    BY <1>0, <2>1, ResetHistory DEF Resets
  <2>2. CASE FlashLeave
    <3>1. thr[W].pc = "idle" /\ ResetBegin(W)
      BY <2>2 DEF FlashLeave, Running
    <3> QED BY <1>0, <2>2, <3>1, LeaveHistory
  <2> QED BY <2>1, <2>2
<1>2. thr' = [thr EXCEPT ![t].pc = "clear"] /\ completed' = FALSE
  BY <1>1 DEF ResetBegin
<1>3. /\ DOMAIN thr' = DOMAIN thr /\ thr'[t].pc = "clear"
      /\ \A u \in DOMAIN thr : u # t => thr'[u] = thr[u]
  BY <1>0, <1>2, ThreadAfter
<1>4. \A u \in DOMAIN thr' : ~Mid(thr'[u])
  <2>1. ~MidForce(t)
    BY <1>1
  <2> QED BY <1>3, <2>1 DEF Mid, MidForce
<1>5. ~h'.dangling
  BY <1>1 DEF Clean
<1>6. \A u \in DOMAIN thr' : thr'[u].pc # "post"
  BY <1>4 DEF Mid
<1> QED BY <1>1, <1>2, <1>4, <1>5, <1>6 DEF Clean

(* The frames of TriggerFlash around its loop.                             *)
LEMMA CleanFrames ==
    ASSUME ToolTypes, StackInv, Clean, FlashEnter \/ FlashReturn
    PROVE  Clean'
<1>0. h \in ToolHistory /\ ThreadTypes
  BY DEF ToolTypes
<1>1. CASE FlashEnter
  <2>1. thr' = thr /\ h' = h /\ completed' = completed /\ success' = success
    BY <1>1 DEF FlashEnter
  <2>2. Past
    BY <1>1, EnterFrames DEF Past
  <2>3. CallsOnly /\ Recorded
    BY <2>1 DEF CallsOnly, Recorded
  <2>4. \A i \in DOMAIN stk' : stk'[i].op = "flash" /\ stk'[i].pc = "ret" =>
            \E j \in DOMAIN stk : stk[j].op = "flash" /\ stk[j].pc = "ret"
    BY <1>1, EnterFrames
  <2>5. \A j \in DOMAIN stk : stk[j].op = "flash" /\ stk[j].pc = "wait" =>
            \E i \in DOMAIN stk' : /\ stk'[i].op = "flash" /\ stk'[i].pc = "wait"
                                   /\ stk'[i].rid = stk[j].rid
    BY <1>1, EnterFrames
  <2> QED BY <2>1, <2>2, <2>3, <2>4, <2>5, CleanQuiet
<1>2. CASE FlashReturn
  <2>1. Release(Head(stk).t) /\ completed' = completed /\ success' = success
    BY <1>2 DEF FlashReturn
  <2>2. Past
    BY <1>2, ReturnFrames DEF Past
  <2>3. Recorded
    <3>1. \E x : h' = [h EXCEPT !.early = x]
      BY <1>2 DEF FlashReturn
    <3> QED BY <1>0, <3>1, Unrecorded
  <2>4. CallsOnly
    <3>1. stk[1].t \in Callers /\ thr[stk[1].t].pc = "call" /\ Callers \subseteq Threads \union {W}
      BY <1>2, ReturnFrames DEF StackInv, CallersInv, Threads
    <3> QED BY <1>0, <1>2, <2>1, <3>1, CallSteps, ReturnFrames
  <2>5. \A i \in DOMAIN stk' : stk'[i].op = "flash" /\ stk'[i].pc = "ret" =>
            \E j \in DOMAIN stk : stk[j].op = "flash" /\ stk[j].pc = "ret"
    BY <1>2, ReturnFrames
  <2>6. ASSUME NEW j \in DOMAIN stk, stk[j].op = "flash", stk[j].pc = "wait"
        PROVE  \E i \in DOMAIN stk' : /\ stk'[i].op = "flash" /\ stk'[i].pc = "wait"
                                      /\ stk'[i].rid = stk[j].rid
    <3>1. j # 1
      BY <1>2, <2>6, ReturnFrames
    <3> QED BY <1>2, <2>6, <3>1, ReturnFrames
  <2> QED BY <2>1, <2>2, <2>3, <2>4, <2>5, <2>6, CleanQuiet
<1> QED BY <1>1, <1>2

(* The later steps of ForceCompleteFlashWait and ResetFlashWait.           *)
LEMMA CleanController ==
    ASSUME ToolTypes, StackInv, LoopInv, Clean, NEW t \in Threads \union {W}, Controller(t)
    PROVE  Clean' /\ h'.straddle = h.straddle
<1>0. ThreadTypes /\ h \in ToolHistory /\ t \in DOMAIN thr
  BY DEF ToolTypes, ThreadTypes
<1>1. CASE ForceStore(t)
  <2>1. /\ thr[t].pc = "store" /\ success' = thr[t].ok /\ thr' = [thr EXCEPT ![t].pc = "look"]
        /\ UNCHANGED <<stk, completed, h>>
    BY <1>1 DEF ForceStore, calling
  <2>2. /\ DOMAIN thr' = DOMAIN thr /\ thr'[t].pc = "look" /\ thr'[t].ok = thr[t].ok
        /\ \A u \in DOMAIN thr : u # t => thr'[u] = thr[u]
    BY <1>0, <2>1, ThreadAfter
  <2>3. Past' => Past
    BY <2>1 DEF Past
  <2>4. \A u \in DOMAIN thr : /\ Mid(thr'[u]) => Mid(thr[u]) /\ thr'[u].ok = thr[u].ok
                              /\ thr'[u].pc \in {"clear", "post"} => thr'[u] = thr[u]
    BY <2>1, <2>2 DEF Mid
  <2>5. success' = (h'.first = "ok")
    BY <1>0, <2>1 DEF Clean, Mid
  <2> QED BY <2>1, <2>2, <2>3, <2>4, <2>5 DEF Clean
<1>2. CASE ForceLook(t)
  <2>1. thr[t].pc = "look" /\ UNCHANGED <<stk, completed, success, h>>
    BY <1>2 DEF ForceLook, calling, waitflags
  <2>2. Past' => Past
    BY <2>1 DEF Past
  <2>3. CASE loop # 0
    <3>1. thr' = [thr EXCEPT ![t].pc = "post", ![t].p = loop]
      BY <1>2, <2>3 DEF ForceLook
    <3>2. /\ DOMAIN thr' = DOMAIN thr /\ thr'[t].pc = "post" /\ thr'[t].p = loop
          /\ thr'[t].ok = thr[t].ok /\ \A u \in DOMAIN thr : u # t => thr'[u] = thr[u]
      BY <1>0, <3>1, ThreadAfter
    <3>3. PICK i \in DOMAIN stk : stk[i].op = "flash" /\ stk[i].pc = "wait" /\ stk[i].rid = loop
      BY <1>0, <2>1, <2>3 DEF LoopInv, Held, Clean, Mid
    <3>4. \A u \in DOMAIN thr : /\ Mid(thr'[u]) => Mid(thr[u]) /\ thr'[u].ok = thr[u].ok
                                /\ thr'[u].pc = "clear" => thr'[u] = thr[u]
                                /\ thr[u].pc = "store" => thr'[u].pc = "store"
      BY <2>1, <3>2 DEF Mid
    <3>5. (\A u \in DOMAIN thr : thr[u].pc = "post" =>
            \E j \in DOMAIN stk : stk[j].op = "flash" /\ stk[j].pc = "wait" /\ stk[j].rid = thr[u].p)'
      BY <2>1, <3>2, <3>3 DEF Clean
    <3> QED BY <2>1, <2>2, <3>2, <3>4, <3>5 DEF Clean
  <2>4. CASE loop = 0
    <3>1. Release(t)
      BY <1>2, <2>4 DEF ForceLook
    <3>2. /\ DOMAIN thr' = DOMAIN thr /\ thr'[t].pc = "idle"
          /\ \A u \in DOMAIN thr : u # t => thr'[u] = thr[u]
      BY <1>0, <3>1, ThreadAfter
    <3>3. \A u \in DOMAIN thr : /\ Mid(thr'[u]) \/ thr'[u].pc = "clear" => thr'[u] = thr[u]
                                /\ thr[u].pc = "store" => thr'[u].pc = "store"
      BY <2>1, <3>2 DEF Mid
    <3>4. \A u \in DOMAIN thr : thr'[u].pc = "post" => thr'[u] = thr[u]
      BY <3>3 DEF Mid
    <3> QED BY <2>1, <2>2, <3>2, <3>3, <3>4 DEF Clean
  <2> QED BY <2>3, <2>4
<1>3. CASE ForcePost(t)
  <2> DEFINE x == h.dangling \/ \A i \in DOMAIN stk : stk[i].rid # thr[t].p
  <2>1. /\ thr[t].pc = "post" /\ Release(t) /\ UNCHANGED <<completed, success>>
        /\ h' = [h EXCEPT !.dangling = x]
    BY <1>3 DEF ForcePost, waitflags
  <2>2. ~x
    BY <1>0, <2>1 DEF Clean
  <2>3. h'.first = h.first /\ h'.straddle = h.straddle /\ h'.dangling = x
    <3> HIDE DEF x
    <3> QED BY <1>0, <2>1 DEF ToolHistory
  <2>4. /\ DOMAIN thr' = DOMAIN thr /\ thr'[t].pc = "idle"
        /\ \A u \in DOMAIN thr : u # t => thr'[u] = thr[u]
    BY <1>0, <2>1, ThreadAfter
  <2>5. /\ DOMAIN stk' = DOMAIN stk
        /\ \A i \in DOMAIN stk : /\ stk'[i].op = stk[i].op /\ stk'[i].pc = stk[i].pc
                                 /\ stk'[i].rid = stk[i].rid
    BY <1>3, PostFrames
  <2>6. Past' => Past
    BY <2>5 DEF Past
  <2>7. \A u \in DOMAIN thr : /\ Mid(thr'[u]) \/ thr'[u].pc \in {"clear", "post"} => thr'[u] = thr[u]
                              /\ thr[u].pc = "store" => thr'[u].pc = "store"
    BY <2>1, <2>4 DEF Mid
  <2> HIDE DEF x
  <2>8. (\A u \in DOMAIN thr : thr[u].pc = "post" =>
           \E j \in DOMAIN stk : stk[j].op = "flash" /\ stk[j].pc = "wait" /\ stk[j].rid = thr[u].p)'
    BY <2>4, <2>5, <2>7 DEF Clean
  <2>9. (\A u \in DOMAIN thr : Mid(thr[u]) =>
           \A i \in DOMAIN stk : ~(stk[i].op = "flash" /\ stk[i].pc = "ret"))'
    BY <2>4, <2>5, <2>7 DEF Clean
  <2> QED BY <2>1, <2>2, <2>3, <2>4, <2>6, <2>7, <2>8, <2>9 DEF Clean
<1>4. CASE ResetClear(t)
  <2>1. /\ thr[t].pc = "clear" /\ Release(t) /\ UNCHANGED <<stk, completed, h>>
    BY <1>4 DEF ResetClear, calling
  <2>2. ~completed
    BY <1>0, <2>1 DEF Clean
  <2>3. Past' => Past
    BY <2>1 DEF Past
  <2>4. /\ DOMAIN thr' = DOMAIN thr /\ thr'[t].pc = "idle"
        /\ \A u \in DOMAIN thr : u # t => thr'[u] = thr[u]
    BY <1>0, <2>1, ThreadAfter
  <2>5. \A u \in DOMAIN thr : Mid(thr'[u]) \/ thr'[u].pc \in {"clear", "post"} => thr'[u] = thr[u]
    BY <2>4 DEF Mid
  <2> QED BY <2>1, <2>2, <2>3, <2>4, <2>5 DEF Clean
<1> QED BY <1>1, <1>2, <1>3, <1>4 DEF Controller

LEMMA StraddleStays ==
    ASSUME ToolTypes, h.straddle, WaitStep
    PROVE  h'.straddle
<1>0. h \in ToolHistory
  BY DEF ToolTypes
<1>1. CASE Quiet
  BY <1>1 DEF Quiet, Recorded
<1>2. CASE Completes
  <2>1. PICK t, ok, alien : ForceBegin(t, ok, alien)
    BY <1>2 DEF Completes
  <2>2. completed \/ ~completed
    OBVIOUS
  <2> QED BY <1>0, <2>1, <2>2, ForceHistory
<1>3. CASE Resets
  <2>1. PICK t : h' = AfterReset(t)
    BY <1>3 DEF Resets
  <2> QED BY <1>0, <2>1, ResetHistory
<1>4. CASE FlashLeave
  BY <1>0, <1>4, LeaveHistory
<1>5. CASE FlashEnter \/ Deinit
  BY <1>5 DEF FlashEnter, Deinit
<1>6. CASE FlashReturn
  <2>1. \E x : h' = [h EXCEPT !.early = x]
    BY <1>6 DEF FlashReturn
  <2> QED BY <1>0, <2>1, Unrecorded DEF Recorded
<1>7. ASSUME NEW t, Controller(t) PROVE h'.straddle
  <2>1. h' = h \/ \E x : h' = [h EXCEPT !.dangling = x]
    BY <1>7 DEF Controller, ForceStore, ForceLook, ForcePost, ResetClear
  <2> QED BY <1>0, <2>1 DEF ToolHistory
<1> QED BY <1>1, <1>2, <1>3, <1>4, <1>5, <1>6, <1>7 DEF WaitStep

LEMMA VerdictNext ==
    ASSUME ToolTypes, StackInv, LoopInv, VerdictInv, WaitStep
    PROVE  VerdictInv'
<1> SUFFICES ASSUME ~h'.straddle PROVE Clean'
  BY DEF VerdictInv
<1>1. Clean
  BY StraddleStays DEF VerdictInv
<1>2. CASE Quiet
  BY <1>1, <1>2, CleanKept DEF Quiet, waitflags
<1>3. CASE Deinit
  <2>1. /\ h' = h /\ stk' = stk /\ stk = <<>> /\ thr' = thr /\ completed' = FALSE
        /\ \A t \in DOMAIN thr : thr[t].pc = "idle"
    BY <1>3 DEF Deinit
  <2>2. DOMAIN stk' = {}
    BY <2>1
  <2>3. ~Past'
    BY <2>2 DEF Past
  <2>4. \A u \in DOMAIN thr' : ~Mid(thr'[u]) /\ thr'[u].pc # "post"
    BY <2>1 DEF Mid
  <2> QED BY <1>1, <2>1, <2>3, <2>4 DEF Clean
<1>4. ASSUME NEW t \in Threads \union {W}, Controller(t) PROVE Clean'
  BY <1>1, <1>4, CleanController
<1> QED BY <1>1, <1>2, <1>3, <1>4, CleanCompletes, CleanResets, CleanFrames DEF WaitStep

(* The verdict TriggerFlash returns.                                       *)
LEMMA OverruledNext ==
    ASSUME ToolTypes, VerdictInv, WaitStep, ~h.overruled
    PROVE  ~h'.overruled
<1>0. h \in ToolHistory /\ completed \in BOOLEAN /\ success \in BOOLEAN
  BY DEF ToolTypes, FlagTypes
<1>1. CASE Quiet
  BY <1>1 DEF Quiet, Recorded
<1>2. CASE Completes
  <2>1. PICK t, ok, alien : ForceBegin(t, ok, alien)
    BY <1>2 DEF Completes
  <2> QED BY <1>0, <2>1, ForceHistory
<1>3. CASE Resets
  <2>1. PICK t : h' = AfterReset(t)
    BY <1>3 DEF Resets
  <2> QED BY <1>0, <2>1, ResetHistory
<1>4. CASE FlashLeave
  <2>1. ASSUME ~(h.straddle \/ MidForce(W)) PROVE (completed /\ success) = (h.first = "ok")
    <3>1. Clean
      BY <2>1 DEF VerdictInv
    <3>2. thr[W].pc = "idle"
      BY <1>4 DEF FlashLeave, Running
    <3>3. \A u \in DOMAIN thr : thr[u].pc # "store"
      BY <2>1, <3>2 DEF MidForce
    <3>4. CASE completed
      BY <3>1, <3>3, <3>4 DEF Clean
    <3>5. CASE ~completed
      <4>1. Past
        BY <1>4, LeaveFrames DEF Past
      <4> QED BY <3>1, <3>5, <4>1 DEF Clean
    <3> QED BY <3>4, <3>5
  <2>2. h'.overruled = (h.overruled \/ ((completed /\ success) # (h.first = "ok")
                                          /\ ~(h.straddle \/ MidForce(W))))
    BY <1>0, <1>4, LeaveHistory
  <2> QED BY <2>1, <2>2
<1>5. CASE FlashEnter \/ Deinit
  BY <1>5 DEF FlashEnter, Deinit
<1>6. CASE FlashReturn
  <2>1. \E x : h' = [h EXCEPT !.early = x]
    BY <1>6 DEF FlashReturn
  <2> QED BY <1>0, <2>1, Unrecorded DEF Recorded
<1>7. ASSUME NEW t, Controller(t) PROVE ~h'.overruled
  <2>1. h' = h \/ \E x : h' = [h EXCEPT !.dangling = x]
    BY <1>7 DEF Controller, ForceStore, ForceLook, ForcePost, ResetClear
  <2> QED BY <1>0, <2>1 DEF ToolHistory
<1> QED BY <1>1, <1>2, <1>3, <1>4, <1>5, <1>6, <1>7 DEF WaitStep

LEMMA VerdictInvariant == Spec => [](LoopInv /\ VerdictInv /\ FirstVerdictWins)
<1>1. Init => LoopInv /\ VerdictInv /\ FirstVerdictWins
  <2> SUFFICES ASSUME Init PROVE LoopInv /\ VerdictInv /\ FirstVerdictWins
    OBVIOUS
  <2>1. DOMAIN stk = {} /\ loop = 0 /\ completed = FALSE /\ ~h.dangling /\ ~h.overruled
    BY DEF Init
  <2>2. \A u \in DOMAIN thr : thr[u].pc = "idle"
    BY DEF Init, Idle
  <2>3. \A u \in DOMAIN thr : ~Mid(thr[u])
    BY <2>2 DEF Mid
  <2>4. ~Past
    BY <2>1 DEF Past
  <2> QED BY <2>1, <2>2, <2>3, <2>4 DEF LoopInv, VerdictInv, Clean, FirstVerdictWins
<1>2. ToolTypes /\ StackInv /\ (LoopInv /\ VerdictInv /\ FirstVerdictWins) /\ [Next]_vars
        => (LoopInv /\ VerdictInv /\ FirstVerdictWins)'
  <2>1. CASE UNCHANGED vars
    <3>1. UNCHANGED <<stk, thr, loop, completed, success, h>>
      BY <2>1 DEF vars, calling, waitflags
    <3> QED BY <3>1 DEF LoopInv, VerdictInv, Clean, Past, FirstVerdictWins
  <2>2. CASE Next
    BY <2>2, WaitSteps, LoopNext, VerdictNext, OverruledNext DEF FirstVerdictWins
  <2> QED BY <2>1, <2>2
<1> QED BY <1>1, <1>2, ToolInvariant, PTL DEF Spec

(* TriggerFlash returns the verdict of the first ForceCompleteFlashWait    *)
(* after its ResetFlashWait, however many threads race for it, unless one  *)
(* of them overlapped a ResetFlashWait (flash_wait_completed_.exchange,    *)
(* flash_wait_success_ and TriggerFlash's reading of both).                *)
THEOREM FirstVerdictCorrect == Spec => []FirstVerdictWins
  BY VerdictInvariant, PTL

(* The quit of ForceCompleteFlashWait is posted to a loop that exists,     *)
(* unless the call overlapped a ResetFlashWait or the return of            *)
(* TriggerFlash (the test of flash_wait_loop_ and LoopGuard).              *)
THEOREM LoopAliveCorrect == Spec => []LoopAlive
<1>1. VerdictInv => LoopAlive
  BY DEF VerdictInv, Clean, LoopAlive
<1> QED BY <1>1, VerdictInvariant, PTL
-----------------------------------------------------------------------------
(* Registrations.                                                          *)

Asking == \E i \in DOMAIN stk : stk[i].op = "sub" /\ stk[i].pc = "lock"
EventWritten == \E i \in DOMAIN reqs : reqs[i].fn = "event"
OpenInv == sock = "connected" => open

(* A call that waits for the mutex its own thread holds waits for ever.    *)
LEMMA AskingStays ==
    ASSUME ToolTypes, StackInv, Asking, Next
    PROVE  Asking'
<1>1. PICK i \in DOMAIN stk : stk[i].op = "sub" /\ stk[i].pc = "lock"
  BY DEF Asking
<1>2. i = 1 /\ stk # <<>>
  <2>1. DOMAIN stk = 1..Len(stk) /\ Len(stk) \in Nat
    BY LenProperties DEF ToolTypes, StackTypes
  <2>2. ~(i > 1)
    BY <1>1 DEF StackInv, FramesInv
  <2> QED BY <2>1, <2>2
<1>3. Head(stk).op = "sub" /\ Head(stk).pc = "lock" /\ inst
  BY <1>1, <1>2, BelowProperties DEF ToolTypes, StackTypes, StackInv, IdleInv
<1>4. ~InLoop /\ \A op, pc : pc # "lock" => ~Running(op, pc)
  BY <1>2, <1>3 DEF InLoop, Running
<1>5. ~Take /\ ~LoopEvent /\ ~Timeout /\ ~Deinit
  BY <1>2, <1>4 DEF Take, TakeRequest, TakeFlash, LoopEvent, OnReadyRead, OnDisconnected,
       RetryConnection, ConnectDone, Timeout, RequestTimeout, FlashTimeout, Deinit
<1>6. ASSUME Marks PROVE Asking'
  BY <1>1, <1>6 DEF Marks, Same, Asking
<1>7. ASSUME UNCHANGED stk PROVE Asking'
  BY <1>1, <1>7 DEF Asking
<1>8. CASE Unwind
  <2>1. Controller(W)
    BY <1>4, <1>8 DEF Unwind, InitReturn, RequestReturn, FlashReset, FlashSend, FlashEnter,
         FlashLeave, FlashReturn, HandleOneSocketMessage, ReadyReadReturn, Controller
  <2> QED BY <1>6, <2>1, ControllerEffect
<1>9. CASE Service
  BY <1>7, <1>9, ConnectionEffect
<1>10. ASSUME NEW t \in Callers, Caller(t) PROVE Asking'
  BY <1>3, <1>7, <1>10 DEF Caller, ToolInit, InvokeOnWorker
<1>11. ASSUME NEW t \in Controllers, Control(t) \/ Controller(t) PROVE Asking'
  <2>1. t \in Threads \union {W}
    BY DEF Threads
  <2> QED BY <1>6, <1>11, <2>1, ControlEffect, ControllerEffect
<1> QED BY <1>5, <1>8, <1>9, <1>10, <1>11 DEF Next

LEMMA CallbackSteps ==
    ASSUME Next
    PROVE  cb' = cb \/ TakeRequest \/ Deinit
<1>1. CASE Unwind
  BY <1>1 DEF Unwind, InitReturn, RequestReturn, FlashReset, FlashSend, FlashEnter, FlashLeave,
    FlashReturn, HandleOneSocketMessage, ReadyReadReturn, ForceStore, ForceLook, ForcePost,
    ResetClear, calling
<1>2. CASE TakeFlash \/ LoopEvent \/ Timeout
  BY <1>2 DEF TakeFlash, LoopEvent, OnReadyRead, OnDisconnected, RetryConnection, ConnectDone,
    Timeout, RequestTimeout, FlashTimeout, calling
<1>3. CASE Service
  BY <1>3 DEF Service, SrvAnswer, SrvProgress, SrvFlashEnds, SrvCrash, SrvStart, SrvUnchanged, calling
<1>4. ASSUME NEW t, Caller(t) PROVE cb' = cb
  BY <1>4 DEF Caller, ToolInit, InvokeOnWorker
<1>5. ASSUME NEW t, Control(t) \/ Controller(t) PROVE cb' = cb
  BY <1>5 DEF Control, Controller, ForceStore, ForceLook, ForcePost, ResetClear, calling
<1> QED BY <1>1, <1>2, <1>3, <1>4, <1>5 DEF Next, Take

LEMMA RefusedSteps ==
    ASSUME ToolTypes, Next
    PROVE  h'.refused = h.refused \/ SrvAnswer \/ \E s : OnConnected(s)
<1>0. h \in ToolHistory
  BY DEF ToolTypes
<1>1. ASSUME NEW t, Controller(t) PROVE h'.refused = h.refused
  <2>1. h' = h \/ \E x : h' = [h EXCEPT !.dangling = x]
    BY <1>1 DEF Controller, ForceStore, ForceLook, ForcePost, ResetClear
  <2> QED BY <1>0, <2>1 DEF ToolHistory
<1>2. CASE Unwind
  <2>1. CASE FlashReset
    BY <1>0, <2>1, ResetHistory DEF FlashReset
  <2>2. CASE FlashLeave
    BY <1>0, <2>2, LeaveHistory
  <2>3. CASE FlashReturn
    <3>1. \E x : h' = [h EXCEPT !.early = x]
      BY <2>3 DEF FlashReturn
    <3> QED BY <1>0, <3>1 DEF ToolHistory
  <2>4. CASE HandleOneSocketMessage
    <3>1. \/ h' = h \/ \E x, y : h' = [h EXCEPT !.wild = x, !.wrong = y]
          \/ \E ok, alien : ForceBegin(W, ok, alien)
      BY <2>4 DEF HandleOneSocketMessage, FlashVerdict, AnswerRequest
    <3>2. (\E ok, alien : ForceBegin(W, ok, alien)) => h'.refused = h.refused
      BY <1>0, ForceHistory
    <3> QED BY <1>0, <3>1, <3>2 DEF ToolHistory
  <2>5. CASE Controller(W)
    BY <1>1, <2>5
  <2>6. CASE InitReturn \/ RequestReturn \/ FlashSend \/ FlashEnter \/ ReadyReadReturn
    BY <2>6 DEF InitReturn, RequestReturn, FlashSend, FlashEnter, ReadyReadReturn
  <2> QED BY <1>2, <2>1, <2>2, <2>3, <2>4, <2>5, <2>6 DEF Unwind, Controller
<1>3. CASE Timeout
  <2>1. CASE RequestTimeout
    <3>1. h' = [h EXCEPT !.late = TRUE]
      BY <2>1 DEF RequestTimeout
    <3> QED BY <1>0, <3>1 DEF ToolHistory
  <2>2. CASE FlashTimeout
    BY <1>0, <2>2, ForceHistory DEF FlashTimeout
  <2> QED BY <1>3, <2>1, <2>2 DEF Timeout
<1>4. ASSUME NEW s, OnConnected(s) \/ ConnectFails(s) \/ ConnectPends(s)
      PROVE  h'.refused = h.refused \/ \E r : OnConnected(r)
  BY <1>4 DEF ConnectFails, ConnectPends
<1>5. CASE LoopEvent
  <2>1. CASE OnReadyRead \/ OnDisconnected
    BY <2>1 DEF OnReadyRead, OnDisconnected
  <2>2. CASE RetryConnection \/ ConnectDone
    <3>1. OnConnected(stk) \/ ConnectFails(stk) \/ ConnectPends(stk)
      BY <2>2 DEF RetryConnection, ConnectDone, ConnectToServerInternal
    <3> QED BY <1>4, <3>1
  <2> QED BY <1>5, <2>1, <2>2 DEF LoopEvent
<1>6. CASE Service
  BY <1>6 DEF Service, SrvProgress, SrvFlashEnds, SrvCrash, SrvStart
<1>7. CASE Take \/ Deinit
  BY <1>7 DEF Take, TakeRequest, TakeFlash, Deinit
<1>8. ASSUME NEW t \in Callers, Caller(t) PROVE h'.refused = h.refused \/ \E r : OnConnected(r)
  <2>1. CASE ToolInit(t)
    <3>1. \E s : OnConnected(s) \/ ConnectFails(s) \/ ConnectPends(s)
      BY <2>1 DEF ToolInit, ConnectToServerInternal
    <3> QED BY <1>4, <3>1
  <2> QED BY <1>8, <2>1 DEF Caller, InvokeOnWorker
<1>9. ASSUME NEW t \in Controllers, Control(t) PROVE h'.refused = h.refused
  BY <1>0, <1>9, ForceHistory, ResetHistory DEF Control
<1> QED BY <1>1, <1>2, <1>3, <1>5, <1>6, <1>7, <1>8, <1>9 DEF Next

(* What was written stays written until the service takes it.              *)
LEMMA EventStays ==
    ASSUME ServiceTypes, EventWritten, NEW r \in Request, reqs' = Append(reqs, r)
    PROVE  EventWritten'
<1>1. PICK i \in DOMAIN reqs : reqs[i].fn = "event"
  BY DEF EventWritten
<1>2. reqs \in Seq(Request) /\ DOMAIN reqs = 1..Len(reqs) /\ Len(reqs) \in Nat
  BY LenProperties DEF ServiceTypes
<1>3. /\ reqs' \in Seq(Request) /\ Len(reqs)' = Len(reqs) + 1
      /\ \A j \in 1..Len(reqs) : reqs'[j] = reqs[j]
  BY <1>2, AppendProperties
<1>4. DOMAIN reqs' = 1..Len(reqs)'
  BY <1>3, LenProperties
<1>5. i \in DOMAIN reqs' /\ reqs'[i].fn = "event"
  BY <1>1, <1>2, <1>3, <1>4
<1> QED BY <1>5 DEF EventWritten

LEMMA EventAdded ==
    ASSUME ServiceTypes, NEW r \in Request, r.fn = "event", reqs' = Append(reqs, r)
    PROVE  EventWritten'
<1>1. reqs \in Seq(Request) /\ Len(reqs) \in Nat
  BY LenProperties DEF ServiceTypes
<1>2. reqs' \in Seq(Request) /\ Len(reqs)' = Len(reqs) + 1 /\ reqs'[Len(reqs) + 1] = r
  BY <1>1, AppendProperties
<1>3. DOMAIN reqs' = 1..Len(reqs)'
  BY <1>2, LenProperties
<1>4. Len(reqs) + 1 \in DOMAIN reqs' /\ reqs'[Len(reqs) + 1].fn = "event"
  BY <1>1, <1>2, <1>3
<1> QED BY <1>4 DEF EventWritten

LEMMA EventTaken ==
    ASSUME ServiceTypes, EventWritten, reqs # <<>>, reqs' = Tail(reqs), Head(reqs).fn # "event"
    PROVE  EventWritten'
<1>1. PICK i \in DOMAIN reqs : reqs[i].fn = "event"
  BY DEF EventWritten
<1>2. /\ reqs \in Seq(Request) /\ DOMAIN reqs = 1..Len(reqs) /\ Len(reqs) \in Nat
      /\ Head(reqs) = reqs[1]
  BY LenProperties, HeadTailProperties DEF ServiceTypes
<1>3. /\ reqs' \in Seq(Request) /\ Len(reqs)' = Len(reqs) - 1
      /\ \A j \in 1..Len(reqs)' : reqs'[j] = reqs[j + 1]
  BY <1>2, HeadTailProperties DEF ServiceTypes
<1>4. DOMAIN reqs' = 1..Len(reqs)'
  BY <1>3, LenProperties
<1>5. i - 1 \in 1..Len(reqs)' /\ i - 1 + 1 = i
  BY <1>1, <1>2, <1>3
<1>6. i - 1 \in DOMAIN reqs' /\ reqs'[i - 1].fn = "event"
  BY <1>1, <1>3, <1>4, <1>5
<1> QED BY <1>6 DEF EventWritten

LEMMA ResubscribedNext ==
    ASSUME ToolTypes, StackInv, OpenInv, ToolResubscribed, Next
    PROVE  OpenInv' /\ ToolResubscribed'
<1> DEFINE Kept1 == /\ sock' = "connected" => sock = "connected"
                    /\ open' = open \/ sock' # "connected"
<1>0. /\ ServiceTypes /\ ToolTypes /\ nreq \in Nat /\ nreq + 1 \in Nat
      /\ stk # <<>> => inst
  BY DEF ToolTypes, CountTypes, StackInv, IdleInv
<1>1. ToolResubscribed <=> (sock = "connected" /\ conn /\ cb =>
                              subd \/ h.refused \/ EventWritten \/ Asking)
  BY DEF ToolResubscribed, EventWritten, Asking
<1>2. ToolResubscribed' <=> (sock' = "connected" /\ conn' /\ cb' =>
                               subd' \/ h'.refused \/ EventWritten' \/ Asking')
  BY DEF ToolResubscribed, EventWritten, Asking
<1>3. ASSUME Kept1, conn' => conn, cb' => cb, subd => subd', h.refused => h'.refused,
             EventWritten => EventWritten'
      PROVE  OpenInv' /\ ToolResubscribed'
  <2>1. OpenInv'
    BY <1>3 DEF OpenInv
  <2>2. Asking => Asking'
    BY AskingStays
  <2> QED BY <1>1, <1>2, <1>3, <2>1, <2>2
<1>4. UNCHANGED reqs => (EventWritten => EventWritten')
  BY DEF EventWritten
<1>5. CASE TakeRequest
  <2>1. conn' = conn /\ subd' = subd /\ h' = h
    BY <1>5 DEF TakeRequest
  <2>2. ASSUME NEW fn \in {"event"} \union Kinds, WriteReq(fn)
        PROVE  /\ Kept1
               /\ \/ reqs' = Append(reqs, [fn |-> fn, rid |-> nreq + 1])
                  \/ reqs' = reqs /\ (sock' # "connected" \/ ~conn')
    BY <2>1, <2>2 DEF WriteReq
  <2>3. ASSUME NEW fn \in {"event"} \union Kinds
        PROVE  [fn |-> fn, rid |-> nreq + 1] \in Request
    BY <1>0 DEF Request
  <2> DEFINE q == Head(queue)
  <2>4. /\ q.op \in Reqs /\ cb' = (cb \/ q.op = "sub")
        /\ \/ stk' = Push(NewFrame(q.op, q.t, "lock"), stk) /\ NoWrite
           \/ ~open /\ NoWrite
           \/ WriteReq(IF q.op = "sub" THEN "event" ELSE q.op)
    BY <1>5 DEF TakeRequest
  <2>5. NoWrite => Kept1 /\ reqs' = reqs
    BY DEF NoWrite
  <2>6. CASE q.op # "sub"
    <3>1. cb' => cb
      BY <2>4, <2>6
    <3>2. CASE NoWrite
      BY <1>3, <1>4, <2>1, <2>5, <3>1, <3>2
    <3>3. CASE WriteReq(q.op)
      <4>1. q.op \in {"event"} \union Kinds
        BY <2>4, <2>6 DEF Reqs
      <4>2. EventWritten => EventWritten'
        BY <1>0, <1>4, <2>2, <2>3, <3>3, <4>1, EventStays
      <4> QED BY <1>3, <2>1, <2>2, <3>1, <3>3, <4>1, <4>2
    <3> QED BY <2>4, <2>6, <3>2, <3>3
  <2>7. CASE q.op = "sub"
    <3>1. CASE stk' = Push(NewFrame(q.op, q.t, "lock"), stk) /\ NoWrite
      <4>1. Head(queue) \in Posted /\ stk \in Seq(Frame)
        BY <1>5, HeadTailProperties DEF TakeRequest, ToolTypes, StackTypes
      <4>2. NewFrame("sub", q.t, "lock") \in Frame
        BY <4>1, NewFrameProperties DEF Posted, Threads, Reqs
      <4>3. 1 \in DOMAIN stk' /\ stk'[1] = NewFrame("sub", q.t, "lock")
        BY <2>7, <3>1, <4>1, <4>2, PushedFrames
      <4>4. Asking'
        BY <4>3 DEF Asking, NewFrame
      <4> QED BY <1>2, <2>5, <3>1, <4>4 DEF OpenInv
    <3>2. CASE ~open /\ NoWrite
      BY <1>2, <2>5, <3>2 DEF OpenInv, NoWrite
    <3>3. CASE WriteReq("event")
      <4>1. CASE reqs' = Append(reqs, [fn |-> "event", rid |-> nreq + 1])
        <5>1. EventWritten'
          BY <1>0, <2>3, <4>1, EventAdded
        <5> QED BY <1>2, <2>2, <3>3, <5>1 DEF OpenInv
      <4>2. CASE sock' # "connected" \/ ~conn'
        BY <1>2, <2>2, <3>3, <4>2 DEF OpenInv
      <4> QED BY <2>2, <3>3, <4>1, <4>2
    <3> QED BY <2>4, <2>7, <3>1, <3>2, <3>3
  <2> QED BY <2>6, <2>7
<1>6. CASE Deinit
  BY <1>2, <1>6 DEF Deinit, OpenInv
<1>7. CASE SrvAnswer
  <2>1. Kept1 /\ cb' = cb /\ conn' = conn /\ reqs # <<>> /\ reqs' = Tail(reqs)
    BY <1>7 DEF SrvAnswer, SrvUnchanged, socket, calling
  <2>2. CASE Head(reqs).fn = "event"
    <3>1. PICK res \in {"ok", "fail"} :
            /\ subd' = (subd \/ (Head(reqs).fn = "event" /\ res = "ok"))
            /\ h' = [h EXCEPT !.refused = @ \/ (Head(reqs).fn = "event" /\ res = "fail")]
      BY <1>7, <2>2 DEF SrvAnswer
    <3>2. res = "ok" => subd'
      BY <2>2, <3>1
    <3>3. res = "fail" => h'.refused
      BY <2>2, <3>1 DEF ToolTypes, ToolHistory
    <3> QED BY <1>2, <2>1, <3>2, <3>3 DEF OpenInv
  <2>3. CASE Head(reqs).fn # "event"
    <3>1. EventWritten => EventWritten'
      BY <1>0, <2>1, <2>3, EventTaken
    <3>2. subd => subd'
      BY <1>7 DEF SrvAnswer
    <3>3. h.refused => h'.refused
      <4>1. h' = h \/ \E x : h' = [h EXCEPT !.refused = h.refused \/ x]
        BY <1>7 DEF SrvAnswer
      <4> QED BY <4>1 DEF ToolTypes, ToolHistory
    <3> QED BY <1>3, <2>1, <3>1, <3>2, <3>3
  <2> QED BY <2>2, <2>3
<1>8. CASE ~TakeRequest /\ ~Deinit /\ ~SrvAnswer
  <2>1. cb' = cb
    BY <1>8, CallbackSteps
  <2>2. CASE \E s : OnConnected(s)
    <3>1. /\ open' = TRUE
          /\ reqs' = IF cb THEN <<[fn |-> "event", rid |-> nreq + 1]>> ELSE <<>>
      BY <2>2 DEF OnConnected, Resubscribe
    <3>2. cb => EventWritten'
      <4>1. cb => DOMAIN reqs' = {1} /\ reqs'[1].fn = "event"
        BY <3>1
      <4> QED BY <4>1 DEF EventWritten
    <3> QED BY <1>2, <2>1, <3>1, <3>2 DEF OpenInv
  <2>3. CASE ~\E s : OnConnected(s)
    <3>1. h'.refused = h.refused
      BY <1>8, <2>3, RefusedSteps
    <3>2. ASSUME Kept1, conn' => conn, subd' = subd, EventWritten => EventWritten'
          PROVE  OpenInv' /\ ToolResubscribed'
      BY <1>3, <2>1, <3>1, <3>2
    <3>3. CASE UNCHANGED socket /\ UNCHANGED <<conn, reqs, subd, flashes, net, nreq>>
      <4>1. Kept1
        BY <3>3 DEF socket
      <4> QED BY <1>4, <3>2, <3>3, <4>1
    <3>4. CASE Connects
      BY <1>2, <2>3, <3>4 DEF Connects, ConnectFails, ConnectPends, OpenInv
    <3>5. CASE InitReturn \/ OnReadyRead
      <4>1. Kept1 /\ UNCHANGED <<conn, subd, reqs>>
        BY <3>5 DEF InitReturn, OnReadyRead, service
      <4> QED BY <1>4, <3>2, <4>1
    <3>6. CASE OnDisconnected
      BY <1>2, <3>6 DEF OnDisconnected, OpenInv
    <3>7. CASE Service
      <4>1. Kept1
        BY <3>7 DEF Service, SrvAnswer, SrvProgress, SrvFlashEnds, SrvCrash, SrvStart,
                    SrvUnchanged, socket
      <4>2. CASE SrvCrash
        <5>1. ~conn' /\ OpenInv'
          BY <4>1, <4>2 DEF SrvCrash, EndSession, OpenInv
        <5> QED BY <1>2, <5>1
      <4>3. CASE SrvProgress \/ SrvFlashEnds \/ SrvStart
        <5>1. UNCHANGED <<conn, reqs, subd>>
          BY <4>3 DEF SrvProgress, SrvFlashEnds, SrvStart, service
        <5> QED BY <1>4, <3>2, <4>1, <5>1
      <4> QED BY <1>8, <3>7, <4>2, <4>3 DEF Service
    <3>8. CASE (Writes \/ NoWrite) /\ UNCHANGED <<inst, rx, conn, subd, flashes, up>>
      <4>1. Kept1
        BY <3>8 DEF Writes, WriteReq, NoWrite
      <4>2. \/ reqs' = reqs
            \/ \E fn \in {"flash", "event"} \union Kinds :
                 reqs' = Append(reqs, [fn |-> fn, rid |-> nreq + 1])
        BY <3>8 DEF Writes, WriteReq, NoWrite
      <4>3. \A fn \in {"flash", "event"} \union Kinds : [fn |-> fn, rid |-> nreq + 1] \in Request
        BY <1>0 DEF Request
      <4>4. EventWritten => EventWritten'
        BY <1>0, <1>4, <4>2, <4>3, EventStays
      <4> QED BY <3>2, <3>8, <4>1, <4>4
    <3> QED BY <1>0, <1>8, <3>3, <3>4, <3>5, <3>6, <3>7, <3>8, SocketSteps
  <2> QED BY <2>2, <2>3
<1> QED BY <1>5, <1>6, <1>7, <1>8

(* A client with a progress callback stays registered for progress events  *)
(* over every loss of the connection and every restart of the service: on  *)
(* a live connection it is registered, or its registration is on the way,  *)
(* or the service refused it, or the call that asks for it waits for the   *)
(* mutex (refreshAfterReconnect, SubscribeFlashProgressEvent).             *)
THEOREM ToolResubscribedCorrect == Spec => []ToolResubscribed
<1>1. Init => OpenInv /\ ToolResubscribed
  BY DEF Init, OpenInv, ToolResubscribed
<1>2. ToolTypes /\ StackInv /\ (OpenInv /\ ToolResubscribed) /\ [Next]_vars
        => (OpenInv /\ ToolResubscribed)'
  <2>1. CASE UNCHANGED vars
    <3>1. UNCHANGED <<stk, sock, open, conn, cb, subd, h, reqs>>
      BY <2>1 DEF vars, socket, calling, service
    <3> QED BY <3>1 DEF OpenInv, ToolResubscribed
  <2> QED BY <2>1, ResubscribedNext
<1> QED BY <1>1, <1>2, ToolInvariant, PTL DEF Spec
-----------------------------------------------------------------------------
(* The stream, and what the service has still to answer.                   *)

(* What the client has read and kept, and what it has not read yet.        *)
Stream == rx \o net

Answers(fn) == fn \notin {"ind", "flash"}

(* A message the service will not send again.                              *)
Spent(m) == IF m.fn = "ind" THEN m.n <= inds
            ELSE m.rid \notin flashes /\ \A i \in DOMAIN reqs : reqs[i].rid # m.rid

(* Each answer is in the stream once, as two fragments.                    *)
Once(fs) == \A x, y \in DOMAIN fs :
                /\ x < y /\ Answers(fs[x].m.fn) /\ Answers(fs[y].m.fn) /\ fs[x].m.rid = fs[y].m.rid
                => y = x + 1 /\ fs[y].last

(* The stream is cut into messages; or, after the loss of a connection, it *)
(* begins with half a message, and the scan finds nothing in it any more.  *)
Whole == Paired(Stream) /\ Len(rx) <= 1 /\ Once(Stream) /\ (conn => Len(Stream) % 2 = 0)
Stuck == rx # <<>> /\ ~rx[1].last /\ (Len(Stream) >= 2 => Stream[1].m # Stream[2].m)

PendingInv ==
    /\ \A i \in DOMAIN reqs : reqs[i].rid <= nreq /\ reqs[i].rid \notin flashes
    /\ \A i, j \in DOMAIN reqs : i # j => reqs[i].rid # reqs[j].rid
    /\ \A r \in flashes : r <= nreq
LinkInv == /\ conn => sock = "connected"
           /\ sock # "connected" => net = <<>>
           /\ ~conn => reqs = <<>> /\ flashes = {}
           /\ ~inst => sock = "unconnected"
SpentInv == \A x \in DOMAIN Stream : Spent(Stream[x].m) /\ Stream[x].m.rid <= nreq
StreamInv == PendingInv /\ LinkInv /\ (Whole \/ Stuck) /\ SpentInv

LEMMA FragMsg == Frag = FragOf(Msg)
  BY DEF Frag, FragOf

LEMMA Regroup == \A s, t, u \in Seq(Frag) : s \o (t \o u) = (s \o t) \o u
<1> TAKE s, t, u \in Seq(Frag)
<1> QED BY ConcatAssociative

LEMMA StreamType ==
    ASSUME StreamTypes
    PROVE  /\ Stream \in Seq(Frag) /\ Len(rx) \in Nat /\ Len(net) \in Nat
           /\ Len(Stream) = Len(rx) + Len(net) /\ DOMAIN Stream = 1..(Len(rx) + Len(net))
           /\ DOMAIN rx = 1..Len(rx) /\ DOMAIN net = 1..Len(net)
           /\ \A i \in 1..Len(rx) : Stream[i] = rx[i]
           /\ \A i \in 1..Len(net) : Stream[Len(rx) + i] = net[i]
<1>1. rx \in Seq(Frag) /\ net \in Seq(Frag)
  BY DEF StreamTypes
<1>2. Len(rx) \in Nat /\ Len(net) \in Nat /\ DOMAIN rx = 1..Len(rx) /\ DOMAIN net = 1..Len(net)
  BY <1>1, LenProperties
<1> QED BY <1>1, <1>2 DEF Stream

(* A read of a stream that is cut into messages.                           *)
LEMMA ReadWhole ==
    ASSUME NEW r \in Seq(Frag), NEW n \in Seq(Frag), Paired(r \o n), NEW k \in 1..Len(n),
           Once(r \o n)
    PROVE  LET all == r \o SubSeq(n, 1, k)
               T == Leftover(all) \o After(n, k)
           IN  /\ Paired(T) /\ Once(T) /\ Len(Leftover(all)) <= 1
               /\ Len(T) % 2 = Len(r \o n) % 2
               /\ \E d \in Nat :
                    /\ DOMAIN Objects(all) = 1..d /\ Len(T) = Len(r \o n) - 2 * d
                    /\ \A i \in 1..d : /\ 2 * i \in DOMAIN (r \o n)
                                       /\ Objects(all)[i] = (r \o n)[2 * i].m
                                       /\ (r \o n)[2 * i].last
                    /\ \A x \in DOMAIN T : /\ 2 * d + x \in DOMAIN (r \o n)
                                           /\ T[x] = (r \o n)[2 * d + x]
<1> DEFINE all == r \o SubSeq(n, 1, k)
           rest == After(n, k)
           T == Leftover(all) \o rest
           S == r \o n
           d == Len(all) \div 2
<1>1. /\ Len(n) \in Nat /\ k \in 0..Len(n) /\ Len(r) \in Nat /\ SubSeq(n, 1, k) \in Seq(Frag)
      /\ rest \in Seq(Frag) /\ n = SubSeq(n, 1, k) \o rest
  <2>1. Len(n) \in Nat /\ Len(r) \in Nat
    BY LenProperties
  <2>2. k \in 0..Len(n)
    BY <2>1
  <2> QED BY <2>1, <2>2, ReadProperties, ReadSplit
<1>2. all \in Seq(Frag) /\ S \in Seq(Frag) /\ S = all \o rest
  <2> HIDE DEF rest
  <2>1. all \in Seq(Frag) /\ S \in Seq(Frag)
    BY <1>1
  <2>2. r \o (SubSeq(n, 1, k) \o rest) = (r \o SubSeq(n, 1, k)) \o rest
    BY <1>1, Regroup
  <2> QED BY <1>1, <2>1, <2>2
<1>3. Paired(S) /\ Once(S)
  OBVIOUS
<1> HIDE DEF all, rest, S
<1>4. /\ Paired(all) /\ Leftover(all) \in Seq(Frag) /\ Len(Leftover(all)) = Len(all) % 2
      /\ Len(T) = Len(S) - 2 * d /\ Paired(T)
      /\ \A i \in 1..Len(T) : T[i] = S[2 * d + i]
  BY <1>1, <1>2, <1>3, ScanRest, FragMsg
<1>5. Objects(all) = [i \in 1..d |-> all[2 * i].m]
  BY <1>2, <1>4, ScanPaired, FragMsg
<1>6. /\ Len(all) \in Nat /\ d \in Nat /\ Len(all) % 2 \in {0, 1} /\ Len(all) = 2 * d + (Len(all) % 2)
  BY <1>2, LenProperties, Halves
<1>7. T \in Seq(Frag) /\ DOMAIN T = 1..Len(T) /\ Len(T) \in Nat
  BY <1>1, <1>4, ConcatProperties, LenProperties
<1>8. /\ Len(rest) \in Nat /\ Len(S) = Len(all) + Len(rest) /\ DOMAIN S = 1..Len(S) /\ Len(S) \in Nat
      /\ \A i \in 1..Len(all) : S[i] = all[i]
  <2>1. Len(rest) \in Nat
    BY <1>1, LenProperties
  <2> QED BY <1>1, <1>2, <1>6, <2>1
<1> HIDE DEF d, T
<1>9. ASSUME NEW i \in 1..d
      PROVE  2 * i \in DOMAIN S /\ Objects(all)[i] = S[2 * i].m /\ S[2 * i].last
  <2>0. ASSUME NEW a \in Nat, NEW b \in Nat, NEW c \in {0, 1}, NEW e \in Nat, b = 2 * e + c,
               NEW j \in 1..e
        PROVE  2 * j \in 1..b /\ 2 * j \in 1..(b + a) /\ (2 * j) % 2 = 0
    BY <2>0
  <2>1. 2 * i \in 1..Len(all) /\ 2 * i \in 1..(Len(all) + Len(rest)) /\ (2 * i) % 2 = 0
    BY <1>6, <1>8, <2>0
  <2>2. S[2 * i].last
    BY <1>3, <1>8, <2>1 DEF Paired
  <2> QED BY <1>5, <1>8, <2>1, <2>2
<1>10. ASSUME NEW x \in DOMAIN T
       PROVE  2 * d + x \in DOMAIN S /\ T[x] = S[2 * d + x]
  <2>1. x \in 1..Len(T)
    BY <1>7
  <2>2. 2 * d + x \in 1..Len(S)
    BY <1>4, <1>6, <1>7, <1>8, <2>1
  <2> QED BY <1>4, <1>8, <2>1, <2>2
<1>11. Once(T)
  <2> SUFFICES ASSUME NEW x \in DOMAIN T, NEW y \in DOMAIN T, x < y, Answers(T[x].m.fn),
                      Answers(T[y].m.fn), T[x].m.rid = T[y].m.rid
               PROVE  y = x + 1 /\ T[y].last
    BY DEF Once
  <2>1. /\ 2 * d + x \in DOMAIN S /\ T[x] = S[2 * d + x]
        /\ 2 * d + y \in DOMAIN S /\ T[y] = S[2 * d + y]
    BY <1>10
  <2>2. x \in Nat /\ y \in Nat /\ 2 * d + x < 2 * d + y
    BY <1>6, <1>7
  <2>3. 2 * d + y = 2 * d + x + 1 /\ S[2 * d + y].last
    BY <1>3, <2>1, <2>2 DEF Once
  <2> QED BY <1>6, <2>1, <2>2, <2>3
<1>12. Len(T) % 2 = Len(S) % 2
  <2>1. ASSUME NEW a \in Nat, NEW b \in Nat, NEW c \in Nat, a = b - 2 * c PROVE a % 2 = b % 2
    BY <2>1
  <2> QED BY <1>4, <1>6, <1>7, <1>8, <2>1
<1>13. Len(Leftover(all)) <= 1
  BY <1>4, <1>6
<1>14. DOMAIN Objects(all) = 1..d
  BY <1>5
<1> QED BY <1>4, <1>6, <1>9, <1>10, <1>11, <1>12, <1>13, <1>14 DEF all, rest, S, T

(* A read of a stream that begins with half a message: nothing comes of it.*)
LEMMA ReadStuck ==
    ASSUME NEW r \in Seq(Frag), NEW n \in Seq(Frag), NEW k \in 1..Len(n), r # <<>>, ~r[1].last,
           (r \o n)[1].m # (r \o n)[2].m
    PROVE  LET all == r \o SubSeq(n, 1, k)
           IN  /\ Objects(all) = <<>> /\ Leftover(all) # <<>> /\ ~Leftover(all)[1].last
               /\ Leftover(all) \o After(n, k) = r \o n
<1> DEFINE all == r \o SubSeq(n, 1, k)
           rest == After(n, k)
           S == r \o n
<1>1. /\ Len(n) \in Nat /\ k \in 0..Len(n) /\ Len(r) \in Nat /\ SubSeq(n, 1, k) \in Seq(Frag)
      /\ rest \in Seq(Frag) /\ n = SubSeq(n, 1, k) \o rest /\ Len(SubSeq(n, 1, k)) = k
      /\ Len(r) # 0
  <2>1. Len(n) \in Nat /\ Len(r) \in Nat /\ Len(r) # 0
    BY LenProperties, EmptySeq
  <2>2. k \in 0..Len(n)
    BY <2>1
  <2> QED BY <2>1, <2>2, ReadProperties, ReadSplit
<1>2. S = all \o rest
  <2> HIDE DEF rest
  <2>1. r \o (SubSeq(n, 1, k) \o rest) = (r \o SubSeq(n, 1, k)) \o rest
    BY <1>1, Regroup
  <2> QED BY <1>1, <2>1
<1>3. all \in Seq(Frag) /\ Len(all) = Len(r) + k /\ \A i \in 1..Len(r) : all[i] = r[i]
  BY <1>1
<1>4. Len(rest) \in Nat
  BY <1>1, LenProperties
<1>4a. k \in Nat /\ k >= 1
  BY <1>1
<1>4b. (r \o n)[1].m # (r \o n)[2].m
  OBVIOUS
<1> HIDE DEF all, rest, S
<1>5. Len(all) >= 2 /\ Len(all) \in Nat /\ all # <<>> /\ all[1] = r[1]
  <2>1. Len(all) >= 2 /\ Len(all) \in Nat /\ 1 \in 1..Len(r)
    BY <1>1, <1>3, <1>4a
  <2> QED BY <1>3, <2>1, EmptySeq
<1>6. S[1] = all[1] /\ S[2] = all[2]
  BY <1>1, <1>2, <1>3, <1>4, <1>5
<1>7. Aligned(all) = all
  BY <1>5 DEF Aligned
<1>8. Blocked(all)
  BY <1>4b, <1>5, <1>6 DEF Blocked, S
<1>9. Objects(all) = <<>> /\ Leftover(all) = all
  BY <1>7, <1>8 DEF Objects, Leftover
<1> QED BY <1>2, <1>5, <1>9 DEF all, rest, S

(* What a step does to the connection.                                     *)
Still == UNCHANGED <<sock, rx, net, conn, reqs, flashes, nreq>>
Drops == /\ ~conn /\ sock' # "connected" /\ net' = <<>> /\ UNCHANGED <<rx, conn, reqs, flashes>>
         /\ nreq' \in {nreq, nreq + 1}
Joins == /\ sock' = "connected" /\ conn' = TRUE /\ net' = <<>> /\ flashes' = {} /\ rx' = rx
         /\ \/ reqs' = <<>> /\ nreq' = nreq
            \/ /\ reqs' = <<[fn |-> "event", rid |-> nreq + 1]>> /\ nreq' = nreq + 1
               /\ h'.resub
Clears == /\ sock' = "unconnected" /\ conn' = FALSE /\ rx' = <<>> /\ net' = <<>> /\ reqs' = <<>>
          /\ flashes' = {} /\ nreq' = nreq
Asks(fn) == /\ conn /\ UNCHANGED <<sock, rx, net, conn, flashes>> /\ nreq' = nreq + 1
            /\ reqs' = Append(reqs, [fn |-> fn, rid |-> nreq + 1])
Reads(k) == /\ net' = After(net, k) /\ rx' = Leftover(rx \o SubSeq(net, 1, k))
            /\ UNCHANGED <<sock, conn, reqs, flashes, nreq>>
SendsAnswer(m) == /\ reqs # <<>> /\ reqs' = Tail(reqs) /\ m.fn = Head(reqs).fn /\ m.fn # "flash"
                  /\ m.rid = Head(reqs).rid /\ UNCHANGED flashes
SendsProgress(m) == /\ m.fn = "ind" /\ m.rid \in flashes /\ m.n = inds + 1 /\ inds' = inds + 1
                    /\ UNCHANGED <<reqs, flashes>>
SendsOutcome(m) == /\ m.fn = "flash" /\ m.rid \in flashes /\ flashes' = flashes \ {m.rid}
                   /\ UNCHANGED reqs
Sends(m) == /\ conn /\ net' = net \o Frags(m) /\ UNCHANGED <<sock, rx, conn, nreq>>
            /\ SendsAnswer(m) \/ SendsProgress(m) \/ SendsOutcome(m)
Accepts == /\ reqs # <<>> /\ Head(reqs).fn = "flash" /\ reqs' = Tail(reqs) /\ conn
           /\ flashes' = flashes \union {Head(reqs).rid}
           /\ UNCHANGED <<sock, rx, net, conn, nreq>>
Breaks(k) == /\ net' = SubSeq(net, 1, k) /\ conn' = FALSE /\ reqs' = <<>> /\ flashes' = {}
             /\ UNCHANGED <<sock, rx, nreq>>

LinkStep ==
    \/ Still \/ Drops \/ Joins \/ Clears \/ Accepts
    \/ \E fn \in {"flash", "event"} \union Kinds : Asks(fn)
    \/ \E k \in 1..Len(net) : Reads(k)
    \/ \E m \in Msg : Sends(m)
    \/ \E k \in 0..Len(net) : Breaks(k)

LEMMA ConnectSteps ==
    ASSUME h \in ToolHistory, LinkInv, sock # "connected", rx' = rx, NEW s,
           OnConnected(s) \/ ConnectFails(s) \/ ConnectPends(s)
    PROVE  Drops \/ Joins
<1>1. net = <<>> /\ ~conn
  BY DEF LinkInv
<1>2. CASE OnConnected(s)
  <2>1. /\ sock' = "connected" /\ conn' = TRUE /\ net' = <<>> /\ flashes' = {}
        /\ reqs' = IF Resubscribe THEN <<[fn |-> "event", rid |-> nreq + 1]>> ELSE <<>>
        /\ nreq' = IF Resubscribe THEN nreq + 1 ELSE nreq
        /\ h' = [h EXCEPT !.resub = @ \/ Resubscribe, !.refused = FALSE]
    BY <1>2 DEF OnConnected
  <2>2. Resubscribe => h'.resub
    BY <2>1 DEF ToolHistory
  <2> QED BY <2>1, <2>2 DEF Joins
<1>3. CASE ConnectFails(s) \/ ConnectPends(s)
  BY <1>1, <1>3 DEF ConnectFails, ConnectPends, Drops
<1> QED BY <1>2, <1>3

LEMMA WriteSteps ==
    ASSUME LinkInv, UNCHANGED <<rx, conn, flashes>>, NEW fn, WriteReq(fn)
    PROVE  Drops \/ Asks(fn)
  BY DEF LinkInv, WriteReq, Drops, Asks

LEMMA LinkSteps ==
    ASSUME ToolTypes, stk # <<>> => inst, LinkInv, Next
    PROVE  LinkStep
<1>0. h \in ToolHistory /\ reqs \in Seq(Request) /\ flashes \in SUBSET Nat /\ inds \in Nat
  BY DEF ToolTypes, ServiceTypes, CountTypes
<1>1. ASSUME UNCHANGED socket /\ UNCHANGED <<conn, reqs, subd, flashes, net, nreq>> PROVE Still
  BY <1>1 DEF socket, Still
<1>2. CASE Unwind
  <2>1. CASE FlashSend
    <3>1. /\ UNCHANGED <<rx, conn, flashes>>
          /\ NoWrite \/ WriteReq("flash")
      BY <2>1 DEF FlashSend
    <3>2. CASE NoWrite
      BY <3>1, <3>2 DEF NoWrite, Still, LinkStep
    <3> QED BY <3>1, <3>2, WriteSteps DEF LinkStep
  <2>2. CASE InitReturn
    BY <2>2 DEF InitReturn, service, bounds, Still, LinkStep
  <2>3. CASE ~FlashSend /\ ~InitReturn
    BY <1>2, <2>3 DEF Unwind, RequestReturn, FlashReset, FlashEnter, FlashLeave, FlashReturn,
         HandleOneSocketMessage, ReadyReadReturn, ForceStore, ForceLook, ForcePost, ResetClear,
         service, bounds, socket, Still, LinkStep
  <2> QED BY <2>1, <2>2, <2>3
<1>3. CASE Take
  <2>1. CASE TakeRequest
    <3>1. UNCHANGED <<rx, conn, flashes>>
      BY <2>1 DEF TakeRequest
    <3>2. Head(queue).op \in Reqs /\ (\/ NoWrite
                                      \/ WriteReq(IF Head(queue).op = "sub" THEN "event"
                                                  ELSE Head(queue).op))
      BY <2>1 DEF TakeRequest
    <3>3. (IF Head(queue).op = "sub" THEN "event" ELSE Head(queue).op)
            \in {"flash", "event"} \union Kinds
      BY <3>2 DEF Reqs
    <3>4. CASE NoWrite
      BY <3>1, <3>4 DEF NoWrite, Still, LinkStep
    <3> QED BY <3>1, <3>2, <3>3, <3>4, WriteSteps DEF LinkStep
  <2>2. CASE TakeFlash
    BY <2>2 DEF TakeFlash, service, bounds, socket, Still, LinkStep
  <2> QED BY <1>3, <2>1, <2>2 DEF Take
<1>4. CASE LoopEvent
  <2>1. CASE RetryConnection \/ ConnectDone
    <3>1. /\ OnConnected(stk) \/ ConnectFails(stk) \/ ConnectPends(stk)
          /\ UNCHANGED rx /\ sock # "connected"
      BY <2>1 DEF RetryConnection, ConnectDone, ConnectToServerInternal
    <3> QED BY <1>0, <3>1, ConnectSteps DEF LinkStep
  <2>2. CASE OnDisconnected
    BY <2>2 DEF OnDisconnected, service, bounds, Drops, LinkStep
  <2>3. CASE OnReadyRead
    <3>1. PICK k \in 1..Len(net) : /\ net' = After(net, k)
                                   /\ rx' = Leftover(rx \o SubSeq(net, 1, k))
      BY <2>3 DEF OnReadyRead
    <3>2. UNCHANGED <<sock, conn, reqs, flashes, nreq>>
      BY <2>3 DEF OnReadyRead, service, bounds
    <3> QED BY <3>1, <3>2 DEF Reads, LinkStep
  <2> QED BY <1>4, <2>1, <2>2, <2>3 DEF LoopEvent
<1>5. CASE Timeout
  BY <1>5 DEF Timeout, RequestTimeout, FlashTimeout, service, bounds, socket, Still, LinkStep
<1>6. CASE Deinit
  BY <1>6 DEF Deinit, EndSession, Clears, LinkStep
<1>7. CASE Service
  <2>0. UNCHANGED <<sock, rx, nreq>>
    BY <1>7 DEF Service, SrvAnswer, SrvProgress, SrvFlashEnds, SrvCrash, SrvStart, SrvUnchanged, socket
  <2>1. CASE SrvAnswer
    <3> DEFINE r == Head(reqs)
    <3>1. conn /\ reqs # <<>> /\ reqs' = Tail(reqs) /\ UNCHANGED conn
      BY <2>1 DEF SrvAnswer
    <3>2. r \in Request
      BY <1>0, <3>1, HeadTailProperties
    <3>3. CASE r.fn = "flash"
      <4>1. flashes' = flashes \union {r.rid} /\ UNCHANGED net
        BY <2>1, <3>3 DEF SrvAnswer
      <4> QED BY <2>0, <3>1, <3>3, <4>1 DEF Accepts, LinkStep
    <3>4. CASE r.fn # "flash"
      <4>1. PICK res \in {"ok", "fail"} :
              net' = net \o Frags([fn |-> r.fn, res |-> res, rid |-> r.rid, n |-> 0])
        BY <2>1, <3>4 DEF SrvAnswer
      <4>2. UNCHANGED flashes
        BY <2>1, <3>4 DEF SrvAnswer
      <4> DEFINE m == [fn |-> r.fn, res |-> res, rid |-> r.rid, n |-> 0]
      <4>3. m \in Msg
        BY <3>2, <3>4 DEF Request, Msg
      <4>4. m.fn = r.fn /\ m.rid = r.rid /\ net' = net \o Frags(m)
        BY <4>1
      <4> HIDE DEF m
      <4>5. Sends(m)
        BY <2>0, <3>1, <3>4, <4>2, <4>4 DEF Sends, SendsAnswer
      <4> QED BY <4>3, <4>5 DEF LinkStep
    <3> QED BY <3>3, <3>4
  <2>2. CASE SrvProgress
    <3>1. PICK r \in flashes, res \in {"low", "ok", "fail"} :
            net' = net \o Frags([fn |-> "ind", res |-> res, rid |-> r, n |-> inds + 1])
      BY <2>2 DEF SrvProgress
    <3> DEFINE m == [fn |-> "ind", res |-> res, rid |-> r, n |-> inds + 1]
    <3>2. m \in Msg /\ m.fn = "ind" /\ m.rid = r /\ m.n = inds + 1
      BY <1>0 DEF Msg
    <3>3. net' = net \o Frags(m)
      BY <3>1
    <3>4. conn /\ UNCHANGED <<conn, reqs, flashes>> /\ inds' = inds + 1
      BY <2>2 DEF SrvProgress, service
    <3> HIDE DEF m
    <3>5. Sends(m)
      BY <2>0, <3>2, <3>3, <3>4 DEF Sends, SendsProgress
    <3> QED BY <3>2, <3>5 DEF LinkStep
  <2>3. CASE SrvFlashEnds
    <3>1. PICK r \in flashes, res \in {"ok", "fail"} :
            /\ flashes' = flashes \ {r}
            /\ net' = net \o Frags([fn |-> "flash", res |-> res, rid |-> r, n |-> 0])
      BY <2>3 DEF SrvFlashEnds
    <3> DEFINE m == [fn |-> "flash", res |-> res, rid |-> r, n |-> 0]
    <3>2. m \in Msg /\ m.fn = "flash" /\ m.rid = r
      BY <1>0 DEF Msg
    <3>3. net' = net \o Frags(m)
      BY <3>1
    <3>4. conn /\ UNCHANGED <<conn, reqs>>
      BY <2>3 DEF SrvFlashEnds
    <3> HIDE DEF m
    <3>5. Sends(m)
      BY <2>0, <3>1, <3>2, <3>3, <3>4 DEF Sends, SendsOutcome
    <3> QED BY <3>2, <3>5 DEF LinkStep
  <2>4. CASE SrvCrash
    <3>1. \E k \in 0..Len(net) : Breaks(k)
      BY <2>0, <2>4 DEF SrvCrash, EndSession, Breaks
    <3> QED BY <3>1 DEF LinkStep
  <2>5. CASE SrvStart
    BY <2>0, <2>5 DEF SrvStart, Still, LinkStep
  <2> QED BY <1>7, <2>1, <2>2, <2>3, <2>4, <2>5 DEF Service
<1>8. ASSUME NEW t \in Callers, Caller(t) PROVE LinkStep
  <2>1. CASE ToolInit(t)
    <3> DEFINE s == <<NewFrame("init", t, "run")>>
    <3>1. OnConnected(s) \/ ConnectFails(s) \/ ConnectPends(s)
      BY <2>1 DEF ToolInit, ConnectToServerInternal
    <3>2. rx' = rx /\ sock # "connected"
      BY <2>1 DEF ToolInit, LinkInv
    <3> HIDE DEF s
    <3> QED BY <1>0, <3>1, <3>2, ConnectSteps DEF LinkStep
  <2>2. ASSUME NEW op, InvokeOnWorker(t, op) PROVE LinkStep
    BY <2>2 DEF InvokeOnWorker, service, bounds, socket, Still, LinkStep
  <2> QED BY <1>8, <2>1, <2>2 DEF Caller
<1>9. ASSUME NEW t \in Controllers, Control(t) \/ Controller(t) PROVE LinkStep
  BY <1>9 DEF Control, Controller, ForceStore, ForceLook, ForcePost, ResetClear, service, bounds,
    socket, Still, LinkStep
<1> QED BY <1>2, <1>3, <1>4, <1>5, <1>6, <1>7, <1>8, <1>9 DEF Next

LEMMA IndsGrow ==
    ASSUME ToolTypes, Next
    PROVE  inds \in Nat /\ inds' \in Nat /\ inds' >= inds
<1>0. inds \in Nat
  BY DEF ToolTypes, CountTypes
<1>1. inds' = inds \/ inds' = inds + 1
  <2>1. CASE Unwind
    BY <2>1 DEF Unwind, InitReturn, RequestReturn, FlashReset, FlashSend, FlashEnter, FlashLeave,
      FlashReturn, HandleOneSocketMessage, ReadyReadReturn, ForceStore, ForceLook, ForcePost,
      ResetClear, bounds
  <2>2. CASE Take \/ Timeout \/ Deinit
    BY <2>2 DEF Take, TakeRequest, TakeFlash, Timeout, RequestTimeout, FlashTimeout, Deinit, bounds
  <2>3. CASE LoopEvent
    BY <2>3 DEF LoopEvent, OnReadyRead, OnDisconnected, RetryConnection, ConnectDone, bounds
  <2>4. CASE Service
    BY <2>4 DEF Service, SrvAnswer, SrvProgress, SrvFlashEnds, SrvCrash, SrvStart
  <2>5. ASSUME NEW t \in Callers, Caller(t) PROVE inds' = inds
    BY <2>5 DEF Caller, ToolInit, InvokeOnWorker
  <2>6. ASSUME NEW t \in Controllers, Control(t) \/ Controller(t) PROVE inds' = inds
    BY <2>6 DEF Control, Controller, ForceStore, ForceLook, ForcePost, ResetClear, bounds
  <2> QED BY <2>1, <2>2, <2>3, <2>4, <2>5, <2>6 DEF Next
<1> QED BY <1>0, <1>1

(* The requests the service has not handled.                               *)
LEMMA RequestShift ==
    ASSUME reqs \in Seq(Request), reqs # <<>>
    PROVE  /\ 1 \in DOMAIN reqs /\ Head(reqs) = reqs[1] /\ reqs[1] \in Request
           /\ \A i \in DOMAIN Tail(reqs) : i + 1 \in DOMAIN reqs /\ Tail(reqs)[i] = reqs[i + 1]
           /\ \A i \in DOMAIN Tail(reqs) : i \in Nat /\ i + 1 # 1
<1>1. Len(reqs) \in Nat /\ Len(reqs) # 0 /\ DOMAIN reqs = 1..Len(reqs) /\ Head(reqs) = reqs[1]
  BY LenProperties, EmptySeq, HeadTailProperties
<1>2. /\ Tail(reqs) \in Seq(Request) /\ Len(Tail(reqs)) = Len(reqs) - 1
      /\ \A i \in 1..(Len(reqs) - 1) : Tail(reqs)[i] = reqs[i + 1]
  BY HeadTailProperties
<1>3. DOMAIN Tail(reqs) = 1..(Len(reqs) - 1)
  BY <1>2, LenProperties
<1>4. 1 \in DOMAIN reqs
  BY <1>1
<1>5. reqs[1] \in Request
  BY <1>1, <1>4, ElementOfSeq
<1>6. \A i \in 1..(Len(reqs) - 1) : i + 1 \in 1..Len(reqs) /\ i \in Nat /\ i + 1 # 1
  BY <1>1
<1> QED BY <1>1, <1>2, <1>3, <1>4, <1>5, <1>6

LEMMA RequestAppend ==
    ASSUME reqs \in Seq(Request), NEW r \in Request
    PROVE  \A i \in DOMAIN Append(reqs, r) :
              \/ i \in DOMAIN reqs /\ Append(reqs, r)[i] = reqs[i]
              \/ i = Len(reqs) + 1 /\ Append(reqs, r)[i] = r
<1>1. Len(reqs) \in Nat /\ DOMAIN reqs = 1..Len(reqs)
  BY LenProperties
<1>2. /\ Append(reqs, r) \in Seq(Request) /\ Len(Append(reqs, r)) = Len(reqs) + 1
      /\ \A j \in 1..Len(reqs) : Append(reqs, r)[j] = reqs[j]
      /\ Append(reqs, r)[Len(reqs) + 1] = r
  BY <1>1, AppendProperties
<1>3. DOMAIN Append(reqs, r) = 1..(Len(reqs) + 1)
  BY <1>2, LenProperties
<1>4. \A i \in 1..(Len(reqs) + 1) : i \in 1..Len(reqs) \/ i = Len(reqs) + 1
  BY <1>1
<1> QED BY <1>1, <1>2, <1>3, <1>4

(* Where the service's work comes from.                                    *)
LEMMA PendingSteps ==
    ASSUME ToolTypes, PendingInv, LinkStep
    PROVE  /\ nreq' \in Nat /\ nreq' >= nreq /\ nreq \in Nat
           /\ \A i \in DOMAIN reqs' :
                \/ reqs'[i].rid = nreq + 1 /\ nreq' = nreq + 1
                \/ \E j \in DOMAIN reqs : reqs'[i] = reqs[j]
           /\ \A r \in flashes' : r \in flashes \/ \E j \in DOMAIN reqs : reqs[j].rid = r
           /\ PendingInv'
<1>0. reqs \in Seq(Request) /\ flashes \in SUBSET Nat /\ nreq \in Nat /\ nreq + 1 \in Nat
  BY DEF ToolTypes, ServiceTypes, CountTypes
<1>1. \A i \in DOMAIN reqs : i \in Nat /\ reqs[i] \in Request /\ reqs[i].rid \in Nat
  <2>1. \A i \in DOMAIN reqs : i \in Nat /\ reqs[i] \in Request
    BY <1>0, LenProperties, ElementOfSeq
  <2> QED BY <2>1 DEF Request
<1> DEFINE Old == /\ \A i \in DOMAIN reqs' :
                      \/ reqs'[i].rid = nreq + 1 /\ nreq' = nreq + 1
                      \/ \E j \in DOMAIN reqs : reqs'[i] = reqs[j]
                  /\ \A r \in flashes' : r \in flashes \/ \E j \in DOMAIN reqs : reqs[j].rid = r
<1>2. nreq' \in Nat /\ nreq' >= nreq
  <2>1. nreq' \in {nreq, nreq + 1}
    BY DEF LinkStep, Still, Drops, Joins, Clears, Asks, Reads, Sends, Accepts, Breaks
  <2> QED BY <1>0, <2>1
<1>3. CASE UNCHANGED <<reqs, flashes>>
  <2>1. Old
    BY <1>3
  <2>2. PendingInv'
    BY <1>0, <1>1, <1>2, <1>3 DEF PendingInv
  <2> QED BY <1>0, <1>2, <2>1, <2>2
<1>4. CASE reqs' = <<>> /\ flashes' = {}
  <2>1. DOMAIN reqs' = {}
    BY <1>4
  <2> QED BY <1>0, <1>2, <1>4, <2>1 DEF PendingInv
<1>5. CASE reqs' = <<[fn |-> "event", rid |-> nreq + 1]>> /\ flashes' = {} /\ nreq' = nreq + 1
  <2>1. DOMAIN reqs' = {1} /\ reqs'[1].rid = nreq + 1
    BY <1>5
  <2> QED BY <1>0, <1>2, <1>5, <2>1 DEF PendingInv
<1>6. ASSUME NEW fn \in {"flash", "event"} \union Kinds, Asks(fn) PROVE Old /\ PendingInv'
  <2> DEFINE r == [fn |-> fn, rid |-> nreq + 1]
  <2>1. r \in Request /\ r.rid = nreq + 1
    BY <1>0 DEF Request
  <2>2. reqs' = Append(reqs, r) /\ flashes' = flashes /\ nreq' = nreq + 1
    BY <1>6 DEF Asks
  <2> HIDE DEF r
  <2>3. \A i \in DOMAIN reqs' : \/ i \in DOMAIN reqs /\ reqs'[i] = reqs[i]
                                \/ i = Len(reqs) + 1 /\ reqs'[i] = r
    BY <1>0, <2>1, <2>2, RequestAppend
  <2>4. Old
    BY <2>1, <2>2, <2>3
  <2>5. \A r1 \in flashes : r1 <= nreq + 1 /\ r1 # nreq + 1
    BY <1>0 DEF PendingInv
  <2>6. \A i \in DOMAIN reqs : reqs[i].rid <= nreq + 1 /\ reqs[i].rid # nreq + 1
    BY <1>0, <1>1 DEF PendingInv
  <2>7. nreq + 1 <= nreq + 1
    BY <1>0
  <2>8. PendingInv'
    BY <2>1, <2>2, <2>3, <2>5, <2>6, <2>7 DEF PendingInv
  <2> QED BY <2>4, <2>8
<1>7. ASSUME reqs # <<>>, reqs' = Tail(reqs), nreq' = nreq, flashes' = flashes
      PROVE  Old /\ PendingInv'
  <2>1. \A i \in DOMAIN reqs' : i \in Nat /\ i + 1 \in DOMAIN reqs /\ reqs'[i] = reqs[i + 1]
    BY <1>0, <1>7, RequestShift
  <2>2. \A i, j \in DOMAIN reqs' : i # j => i + 1 # j + 1
    BY <2>1
  <2>3. PendingInv'
    BY <1>7, <2>1, <2>2 DEF PendingInv
  <2> QED BY <1>7, <2>1, <2>3
<1>8. CASE Accepts
  <2>1. /\ reqs # <<>> /\ reqs' = Tail(reqs) /\ nreq' = nreq
        /\ flashes' = flashes \union {Head(reqs).rid}
    BY <1>8 DEF Accepts
  <2>2. /\ \A i \in DOMAIN reqs' : /\ i \in Nat /\ i + 1 \in DOMAIN reqs /\ i + 1 # 1
                                   /\ reqs'[i] = reqs[i + 1]
        /\ 1 \in DOMAIN reqs /\ Head(reqs) = reqs[1]
    BY <1>0, <2>1, RequestShift
  <2>3. \A i, j \in DOMAIN reqs' : i # j => i + 1 # j + 1
    BY <2>2
  <2>4. PendingInv'
    BY <2>1, <2>2, <2>3 DEF PendingInv
  <2> QED BY <1>0, <1>2, <2>1, <2>2, <2>4
<1>9. ASSUME NEW m \in Msg, Sends(m) PROVE Old /\ PendingInv'
  <2>1. CASE SendsAnswer(m)
    BY <1>7, <1>9, <2>1 DEF Sends, SendsAnswer
  <2>2. CASE SendsProgress(m)
    <3>1. UNCHANGED <<reqs, flashes, nreq>>
      BY <1>9, <2>2 DEF Sends, SendsProgress
    <3> QED BY <1>3, <3>1
  <2>3. CASE SendsOutcome(m)
    <3>1. UNCHANGED <<reqs, nreq>> /\ flashes' \subseteq flashes
      BY <1>9, <2>3 DEF Sends, SendsOutcome
    <3>2. PendingInv'
      BY <3>1 DEF PendingInv
    <3> QED BY <3>1, <3>2
  <2> QED BY <1>9, <2>1, <2>2, <2>3 DEF Sends
<1>10. CASE Still \/ Drops \/ \E k \in 1..Len(net) : Reads(k)
  BY <1>3, <1>10 DEF Still, Drops, Reads
<1>11. CASE Joins \/ Clears \/ \E k \in 0..Len(net) : Breaks(k)
  BY <1>4, <1>5, <1>11 DEF Joins, Clears, Breaks
<1> QED BY <1>0, <1>2, <1>6, <1>8, <1>9, <1>10, <1>11 DEF LinkStep

(* What the service will not send again it never will.                     *)
LEMMA SpentStays ==
    ASSUME ToolTypes, PendingInv, LinkStep, inds' \in Nat, inds' >= inds, NEW m \in Msg,
           Spent(m), m.rid <= nreq
    PROVE  Spent(m)' /\ m.rid <= nreq'
<1>0. /\ nreq' \in Nat /\ nreq' >= nreq /\ nreq \in Nat
      /\ \A i \in DOMAIN reqs' :
                \/ reqs'[i].rid = nreq + 1 /\ nreq' = nreq + 1
                \/ \E j \in DOMAIN reqs : reqs'[i] = reqs[j]
      /\ \A r \in flashes' : r \in flashes \/ \E j \in DOMAIN reqs : reqs[j].rid = r
  BY PendingSteps
<1>1. m.rid \in Nat /\ m.n \in Nat /\ inds \in Nat
  BY DEF Msg, ToolTypes, CountTypes
<1>2. m.rid # nreq + 1 /\ m.rid <= nreq'
  BY <1>0, <1>1
<1>3. CASE m.fn = "ind"
  BY <1>1, <1>2, <1>3 DEF Spent
<1>4. CASE m.fn # "ind"
  <2>1. m.rid \notin flashes /\ \A i \in DOMAIN reqs : reqs[i].rid # m.rid
    BY <1>4 DEF Spent
  <2>2. m.rid \notin flashes' /\ \A i \in DOMAIN reqs' : reqs'[i].rid # m.rid
    BY <1>0, <1>2, <2>1
  <2> QED BY <1>2, <1>4, <2>2 DEF Spent
<1> QED BY <1>3, <1>4

(* What the service sends is new, and is not sent again.                   *)
LEMMA SentOnce ==
    ASSUME ToolTypes, PendingInv, inds' \in Nat, NEW m \in Msg, Sends(m)
    PROVE  /\ ~Spent(m) /\ Spent(m)' /\ m.rid <= nreq'
           /\ Answers(m.fn) => /\ m.fn # "ind"
                               /\ \E i \in DOMAIN reqs : reqs[i].rid = m.rid /\ reqs[i].fn = m.fn
<1>0. /\ reqs \in Seq(Request) /\ inds \in Nat /\ nreq' = nreq /\ m.n \in Nat
  BY DEF Sends, ToolTypes, ServiceTypes, CountTypes, Msg
<1>1. CASE SendsAnswer(m)
  <2>1. /\ reqs # <<>> /\ reqs' = Tail(reqs) /\ m.fn = Head(reqs).fn /\ m.fn # "flash"
        /\ m.rid = Head(reqs).rid /\ UNCHANGED flashes
    BY <1>1 DEF SendsAnswer
  <2>2. /\ \A i \in DOMAIN reqs' : i + 1 \in DOMAIN reqs /\ i + 1 # 1 /\ reqs'[i] = reqs[i + 1]
        /\ 1 \in DOMAIN reqs /\ Head(reqs) = reqs[1] /\ reqs[1] \in Request
    BY <1>0, <2>1, RequestShift
  <2>3. m.fn # "ind"
    BY <2>1, <2>2, ReqNames DEF Request, Reqs
  <2>4. ~Spent(m)
    BY <2>1, <2>2, <2>3 DEF Spent
  <2>5. m.rid \notin flashes' /\ \A i \in DOMAIN reqs' : reqs'[i].rid # m.rid
    BY <2>1, <2>2 DEF PendingInv
  <2>6. Spent(m)'
    BY <2>3, <2>5 DEF Spent
  <2> QED BY <1>0, <2>1, <2>2, <2>3, <2>4, <2>6 DEF PendingInv
<1>2. CASE SendsProgress(m)
  <2>1. m.fn = "ind" /\ m.rid \in flashes /\ m.n = inds + 1 /\ inds' = inds + 1
    BY <1>2 DEF SendsProgress
  <2>2. ~(inds + 1 <= inds) /\ inds + 1 <= inds + 1
    BY <1>0
  <2> QED BY <1>0, <2>1, <2>2 DEF Spent, PendingInv, Answers
<1>3. CASE SendsOutcome(m)
  <2>1. m.fn = "flash" /\ m.rid \in flashes /\ flashes' = flashes \ {m.rid} /\ UNCHANGED reqs
    BY <1>3 DEF SendsOutcome
  <2> QED BY <1>0, <2>1 DEF Spent, PendingInv, Answers
<1> QED BY <1>1, <1>2, <1>3 DEF Sends

(* A message is added to the stream, or the stream is cut off.             *)
LEMMA StreamGrows ==
    ASSUME StreamTypes, NEW m \in Msg, rx' = rx, net' = net \o Frags(m)
    PROVE  /\ Stream' = Stream \o Frags(m) /\ Len(Stream)' = Len(Stream) + 2
           /\ DOMAIN Stream' = 1..(Len(Stream) + 2)
           /\ \A i \in DOMAIN Stream : Stream'[i] = Stream[i]
           /\ Stream'[Len(Stream) + 1] = [m |-> m, last |-> FALSE]
           /\ Stream'[Len(Stream) + 2] = [m |-> m, last |-> TRUE]
<1>1. rx \in Seq(Frag) /\ net \in Seq(Frag) /\ Frags(m) \in Seq(Frag) /\ Len(Frags(m)) = 2
  BY FragsType DEF StreamTypes
<1>2. Stream' = Stream \o Frags(m)
  BY <1>1, Regroup DEF Stream
<1>3. Stream \in Seq(Frag) /\ Len(Stream) \in Nat /\ DOMAIN Stream = 1..Len(Stream)
  BY StreamType
<1>4. /\ Stream \o Frags(m) \in Seq(Frag)
      /\ Len(Stream \o Frags(m)) = Len(Stream) + 2
      /\ \A i \in 1..(Len(Stream) + 2) :
            (Stream \o Frags(m))[i] = IF i <= Len(Stream) THEN Stream[i]
                                      ELSE Frags(m)[i - Len(Stream)]
  <2> DEFINE f == Frags(m)
             s == Stream
  <2>1. f \in Seq(Frag) /\ Len(f) = 2 /\ s \in Seq(Frag) /\ Len(s) \in Nat
    BY <1>1, <1>3
  <2> HIDE DEF f, s
  <2>2. /\ s \o f \in Seq(Frag) /\ Len(s \o f) = Len(s) + Len(f)
        /\ \A i \in 1..(Len(s) + Len(f)) : (s \o f)[i] = IF i <= Len(s) THEN s[i] ELSE f[i - Len(s)]
    BY <2>1, ConcatProperties
  <2>3. /\ s \o f \in Seq(Frag) /\ Len(s \o f) = Len(s) + 2
        /\ \A i \in 1..(Len(s) + 2) : (s \o f)[i] = IF i <= Len(s) THEN s[i] ELSE f[i - Len(s)]
    BY <2>1, <2>2
  <2> QED BY <2>3 DEF f, s
<1>5. DOMAIN (Stream \o Frags(m)) = 1..(Len(Stream) + 2)
  BY <1>4, LenProperties
<1> DEFINE L == Len(Stream)
<1>6. L + 1 \in 1..(L + 2) /\ ~(L + 1 <= L) /\ (L + 1) - L = 1
      /\ L + 2 \in 1..(L + 2) /\ ~(L + 2 <= L) /\ (L + 2) - L = 2
      /\ \A i \in 1..L : i \in 1..(L + 2) /\ i <= L
  BY <1>3
<1>7. Stream'[L + 1] = Frags(m)[1] /\ Stream'[L + 2] = Frags(m)[2]
  BY <1>2, <1>4, <1>6
<1> QED BY <1>2, <1>3, <1>4, <1>5, <1>6, <1>7, FragsType

LEMMA StreamShrinks ==
    ASSUME StreamTypes, NEW k \in 0..Len(net), rx' = rx, net' = SubSeq(net, 1, k)
    PROVE  /\ Stream' \in Seq(Frag) /\ Stream = Stream' \o After(net, k) /\ After(net, k) \in Seq(Frag)
           /\ DOMAIN Stream' \subseteq DOMAIN Stream /\ DOMAIN Stream' = 1..Len(Stream')
           /\ Len(Stream') \in Nat
           /\ \A i \in DOMAIN Stream' : Stream'[i] = Stream[i]
<1>1. /\ rx \in Seq(Frag) /\ net \in Seq(Frag) /\ SubSeq(net, 1, k) \in Seq(Frag)
      /\ After(net, k) \in Seq(Frag) /\ net = SubSeq(net, 1, k) \o After(net, k)
  BY ReadProperties, ReadSplit DEF StreamTypes
<1>2. Stream' \in Seq(Frag) /\ Stream' = rx \o SubSeq(net, 1, k)
  BY <1>1, ConcatProperties DEF Stream
<1> DEFINE a == SubSeq(net, 1, k)
           b == After(net, k)
<1> HIDE DEF a, b
<1>3. Stream = Stream' \o b
  <2>1. rx \o (a \o b) = (rx \o a) \o b
    BY <1>1, Regroup DEF a, b
  <2> QED BY <1>1, <1>2, <2>1 DEF Stream, a, b
<1>4. b \in Seq(Frag) /\ Len(b) \in Nat /\ Len(Stream') \in Nat /\ DOMAIN Stream' = 1..Len(Stream')
  BY <1>1, <1>2, LenProperties DEF b
<1> DEFINE s == Stream'
<1> HIDE DEF s
<1>5. /\ s \o b \in Seq(Frag) /\ Len(s \o b) = Len(s) + Len(b)
      /\ \A i \in 1..(Len(s) + Len(b)) : (s \o b)[i] = IF i <= Len(s) THEN s[i] ELSE b[i - Len(s)]
  BY <1>2, <1>4, ConcatProperties DEF s
<1>6. DOMAIN (s \o b) = 1..(Len(s) + Len(b))
  BY <1>5, LenProperties
<1>7. \A i \in 1..Len(s) : i \in 1..(Len(s) + Len(b)) /\ i <= Len(s)
  BY <1>4 DEF s
<1> QED BY <1>1, <1>2, <1>3, <1>4, <1>5, <1>6, <1>7 DEF s, b

(* What is kept of a stream when the connection ends.                      *)
LEMMA StreamKept ==
    ASSUME StreamTypes, rx' = rx, net' = <<>>, Whole \/ Stuck
    PROVE  /\ Whole' \/ Stuck'
           /\ Stuck => Stuck'
           /\ \A x \in DOMAIN Stream' : x \in DOMAIN Stream /\ Stream'[x] = Stream[x]
<1>1. /\ Stream \in Seq(Frag) /\ Len(rx) \in Nat /\ Len(net) \in Nat /\ rx \in Seq(Frag)
      /\ Len(Stream) = Len(rx) + Len(net) /\ DOMAIN Stream = 1..(Len(rx) + Len(net))
      /\ DOMAIN rx = 1..Len(rx) /\ \A i \in 1..Len(rx) : Stream[i] = rx[i]
  BY StreamType DEF StreamTypes
<1>2. Stream' = rx
  BY <1>1 DEF Stream
<1>3. \A x \in 1..Len(rx) : x \in 1..(Len(rx) + Len(net))
  BY <1>1
<1>4. \A x \in DOMAIN Stream' : x \in DOMAIN Stream /\ Stream'[x] = Stream[x]
  BY <1>1, <1>2, <1>3
<1>5. ASSUME Stuck PROVE Stuck'
  <2>1. Len(rx) >= 2 => Len(Stream) >= 2 /\ 1 \in 1..Len(rx) /\ 2 \in 1..Len(rx)
    BY <1>1
  <2>2. Len(rx) >= 2 => rx[1].m # rx[2].m
    BY <1>1, <1>5, <2>1 DEF Stuck
  <2> QED BY <1>2, <1>5, <2>2 DEF Stuck
<1>6. CASE Whole /\ rx = <<>>
  <2>1. Stream' = <<>> /\ Len(<<>>) = 0 /\ DOMAIN <<>> = {} /\ 0 % 2 = 0 /\ 0 <= 1
    BY <1>2, <1>6
  <2>2. Paired(<<>>) /\ Once(<<>>)
    BY <2>1 DEF Paired, Once
  <2>3. Whole'
    BY <1>6, <2>1, <2>2 DEF Whole
  <2> QED BY <1>4, <1>5, <2>3
<1>7. CASE Whole /\ rx # <<>>
  <2>1. Len(rx) = 1
    <3>1. Len(rx) <= 1 /\ Len(rx) # 0
      BY <1>1, <1>7, EmptySeq DEF Whole
    <3> QED BY <1>1, <3>1
  <2>2. 1 \in DOMAIN Stream /\ Stream[1] = rx[1]
    BY <1>1, <2>1
  <2>3. ~rx[1].last
    <3>1. 1 % 2 # 0
      OBVIOUS
    <3> QED BY <1>7, <2>2, <3>1 DEF Whole, Paired
  <2>4. Stuck'
    BY <1>2, <1>7, <2>1, <2>3 DEF Stuck
  <2> QED BY <1>4, <1>5, <2>4
<1> QED BY <1>4, <1>5, <1>6, <1>7

(* The stream stays cut into messages, or stuck.                           *)
LEMMA SentStream ==
    ASSUME ToolTypes, StreamInv, inds' \in Nat, NEW m \in Msg, Sends(m)
    PROVE  /\ Whole' \/ Stuck'
           /\ Stuck => Stuck'
           /\ \A x \in DOMAIN Stream' : \/ x \in DOMAIN Stream /\ Stream'[x] = Stream[x]
                                        \/ Stream'[x].m = m
<1> DEFINE L == Len(Stream)
<1>0. /\ StreamTypes /\ conn /\ conn' = conn /\ rx' = rx /\ net' = net \o Frags(m)
  BY DEF ToolTypes, Sends
<1>1. /\ Stream' = Stream \o Frags(m) /\ Len(Stream') = L + 2
      /\ DOMAIN Stream' = 1..(L + 2)
      /\ \A i \in DOMAIN Stream : Stream'[i] = Stream[i]
      /\ Stream'[L + 1].m = m /\ Stream'[L + 2].m = m /\ Stream'[L + 2].last
  <2>1. /\ Stream' = Stream \o Frags(m) /\ Len(Stream') = L + 2
        /\ DOMAIN Stream' = 1..(L + 2)
        /\ \A i \in DOMAIN Stream : Stream'[i] = Stream[i]
        /\ Stream'[L + 1] = [m |-> m, last |-> FALSE]
        /\ Stream'[L + 2] = [m |-> m, last |-> TRUE]
    BY <1>0, StreamGrows
  <2>2. /\ [m |-> m, last |-> FALSE].m = m /\ [m |-> m, last |-> TRUE].m = m
        /\ [m |-> m, last |-> TRUE].last
    OBVIOUS
  <2> HIDE DEF L
  <2> QED BY <2>1, <2>2
<1>2. Stream \in Seq(Frag) /\ L \in Nat /\ DOMAIN Stream = 1..L
  BY <1>0, StreamType
<1> HIDE DEF L
<1>3. \A x \in 1..(L + 2) : x \in 1..L \/ x = L + 1 \/ x = L + 2
  BY <1>2
<1>4. \A x \in DOMAIN Stream' : \/ x \in DOMAIN Stream /\ Stream'[x] = Stream[x]
                                \/ Stream'[x].m = m /\ x \in {L + 1, L + 2}
  BY <1>1, <1>2, <1>3
<1>5. \A x \in DOMAIN Stream : Stream[x].m # m /\ (Answers(m.fn) /\ Answers(Stream[x].m.fn)
                                                   => Stream[x].m.rid # m.rid)
  <2> TAKE x \in DOMAIN Stream
  <2>1. Spent(Stream[x].m)
    BY DEF StreamInv, SpentInv
  <2>2. ~Spent(m) /\ (Answers(m.fn) => \E i \in DOMAIN reqs : reqs[i].rid = m.rid)
    BY SentOnce DEF StreamInv
  <2>3. Stream[x].m # m
    BY <2>1, <2>2
  <2>4. ASSUME Answers(m.fn), Answers(Stream[x].m.fn) PROVE Stream[x].m.rid # m.rid
    BY <2>1, <2>2, <2>4 DEF Answers, Spent
  <2> QED BY <2>3, <2>4
<1>6. ASSUME Whole PROVE Whole'
  <2>1. Paired(Stream) /\ L % 2 = 0 /\ Len(rx) <= 1 /\ Once(Stream)
    BY <1>0, <1>6 DEF Whole, L
  <2>2. Paired(Stream') /\ Len(Stream') % 2 = 0
    BY <1>1, <1>2, <2>1, GrowPaired, FragMsg DEF L
  <2>3. Once(Stream')
    <3> SUFFICES ASSUME NEW x \in DOMAIN Stream', NEW y \in DOMAIN Stream', x < y,
                        Answers(Stream'[x].m.fn), Answers(Stream'[y].m.fn),
                        Stream'[x].m.rid = Stream'[y].m.rid
                 PROVE  y = x + 1 /\ Stream'[y].last
      BY DEF Once
    <3>1. CASE y \in DOMAIN Stream
      <4>1. x \in DOMAIN Stream
        BY <1>1, <1>2, <3>1
      <4> QED BY <1>1, <2>1, <3>1, <4>1 DEF Once
    <3>2. CASE y \notin DOMAIN Stream /\ x \in DOMAIN Stream
      <4>1. Stream'[x] = Stream[x] /\ Stream'[y].m = m
        BY <1>1, <1>4, <3>2
      <4> QED BY <1>5, <3>2, <4>1
    <3>3. CASE y \notin DOMAIN Stream /\ x \notin DOMAIN Stream
      <4>1. x \in {L + 1, L + 2} /\ y \in {L + 1, L + 2}
        BY <1>4, <3>3
      <4>2. x = L + 1 /\ y = L + 2
        BY <1>2, <4>1
      <4> QED BY <1>1, <1>2, <4>2
    <3> QED BY <3>1, <3>2, <3>3
  <2> QED BY <1>0, <2>1, <2>2, <2>3 DEF Whole
<1>7. ASSUME Stuck PROVE Stuck'
  <2>1. rx # <<>> /\ ~rx[1].last /\ (L >= 2 => Stream[1].m # Stream[2].m)
    BY <1>7 DEF Stuck, L
  <2>2. L >= 1
    <3>1. Len(rx) \in Nat /\ Len(net) \in Nat /\ L = Len(rx) + Len(net) /\ rx \in Seq(Frag)
      BY <1>0, StreamType DEF L, StreamTypes
    <3>2. Len(rx) # 0
      BY <2>1, <3>1, EmptySeq
    <3> QED BY <3>1, <3>2
  <2>3. Stream'[1].m # Stream'[2].m
    <3>1. CASE L >= 2
      <4>1. 1 \in DOMAIN Stream /\ 2 \in DOMAIN Stream
        BY <1>2, <3>1
      <4> QED BY <1>1, <2>1, <3>1, <4>1
    <3>2. CASE L = 1
      <4>1. 1 \in DOMAIN Stream /\ 2 = L + 1
        BY <1>2, <3>2
      <4> QED BY <1>1, <1>5, <4>1
    <3> QED BY <1>2, <2>2, <3>1, <3>2
  <2> QED BY <1>0, <2>1, <2>3 DEF Stuck
<1> QED BY <1>4, <1>6, <1>7 DEF StreamInv

LEMMA BrokenStream ==
    ASSUME StreamTypes, Whole \/ Stuck, NEW k \in 0..Len(net), Breaks(k)
    PROVE  /\ Whole' \/ Stuck'
           /\ Stuck => Stuck'
           /\ \A x \in DOMAIN Stream' : x \in DOMAIN Stream /\ Stream'[x] = Stream[x]
<1>0. rx' = rx /\ net' = SubSeq(net, 1, k) /\ ~conn'
  BY DEF Breaks
<1>1. /\ Stream' \in Seq(Frag) /\ Stream = Stream' \o After(net, k) /\ After(net, k) \in Seq(Frag)
      /\ DOMAIN Stream' \subseteq DOMAIN Stream /\ DOMAIN Stream' = 1..Len(Stream')
      /\ Len(Stream') \in Nat /\ \A i \in DOMAIN Stream' : Stream'[i] = Stream[i]
  BY <1>0, StreamShrinks
<1>2. \A x \in DOMAIN Stream' : x \in DOMAIN Stream /\ Stream'[x] = Stream[x]
  BY <1>1
<1>3. ASSUME Whole PROVE Whole'
  <2>1. Paired(Stream')
    BY <1>1, <1>3, PrefixPaired, FragMsg DEF Whole
  <2>2. Once(Stream')
    BY <1>2, <1>3 DEF Whole, Once
  <2> QED BY <1>0, <1>3, <2>1, <2>2 DEF Whole
<1>4. ASSUME Stuck PROVE Stuck'
  <2>1. ASSUME Len(Stream') >= 2 PROVE Stream'[1].m # Stream'[2].m
    <3>1. 1 \in DOMAIN Stream' /\ 2 \in DOMAIN Stream'
      BY <1>1, <2>1
    <3>2. Stream \in Seq(Frag) /\ Len(Stream) \in Nat /\ DOMAIN Stream = 1..Len(Stream)
      BY StreamType
    <3>3. Len(Stream) >= 2
      BY <1>2, <3>1, <3>2
    <3> QED BY <1>2, <1>4, <3>1, <3>3 DEF Stuck
  <2> QED BY <1>0, <1>4, <2>1 DEF Stuck
<1> QED BY <1>2, <1>3, <1>4

(* A read.                                                                 *)
LEMMA ReadStream ==
    ASSUME StreamTypes, Whole \/ Stuck, NEW k \in 1..Len(net), Reads(k)
    PROVE  LET o == Objects(rx \o SubSeq(net, 1, k))
           IN  \/ Stuck /\ Stuck' /\ o = <<>> /\ Stream' = Stream
               \/ /\ ~Stuck /\ Whole /\ Whole'
                  /\ \E d \in Nat :
                      /\ DOMAIN o = 1..d /\ Len(Stream') = Len(Stream) - 2 * d
                      /\ \A i \in 1..d : /\ 2 * i \in DOMAIN Stream /\ o[i] = Stream[2 * i].m
                                         /\ Stream[2 * i].last
                      /\ \A x \in DOMAIN Stream' : /\ 2 * d + x \in DOMAIN Stream
                                                   /\ Stream'[x] = Stream[2 * d + x]
<1>0. /\ rx \in Seq(Frag) /\ net \in Seq(Frag) /\ conn' = conn
      /\ net' = After(net, k) /\ rx' = Leftover(rx \o SubSeq(net, 1, k))
  BY DEF StreamTypes, Reads
<1>1. CASE Stuck
  <2>1. Len(Stream) >= 2
    <3>1. Len(rx) \in Nat /\ Len(net) \in Nat /\ Len(Stream) = Len(rx) + Len(net)
      BY StreamType
    <3>2. Len(rx) # 0
      BY <1>0, <1>1, EmptySeq DEF Stuck
    <3> QED BY <3>1, <3>2
  <2>2. rx # <<>> /\ ~rx[1].last /\ Stream[1].m # Stream[2].m
    BY <1>1, <2>1 DEF Stuck
  <2>3. /\ Objects(rx \o SubSeq(net, 1, k)) = <<>> /\ rx' # <<>> /\ ~rx'[1].last
        /\ rx' \o net' = rx \o net
    BY <1>0, <2>2, ReadStuck DEF Stream
  <2>4. Stream' = Stream /\ Stuck'
    BY <2>2, <2>3 DEF Stuck, Stream
  <2> QED BY <1>1, <2>3, <2>4
<1>2. CASE ~Stuck
  <2>1. Whole /\ Paired(rx \o net) /\ Once(rx \o net)
    BY <1>2 DEF Whole, Stream
  <2>2. LET all == rx \o SubSeq(net, 1, k)
            T == Leftover(all) \o After(net, k)
        IN  /\ Paired(T) /\ Once(T) /\ Len(Leftover(all)) <= 1
               /\ Len(T) % 2 = Len(rx \o net) % 2
               /\ \E d \in Nat :
                    /\ DOMAIN Objects(all) = 1..d /\ Len(T) = Len(rx \o net) - 2 * d
                    /\ \A i \in 1..d : /\ 2 * i \in DOMAIN (rx \o net)
                                       /\ Objects(all)[i] = (rx \o net)[2 * i].m
                                       /\ (rx \o net)[2 * i].last
                    /\ \A x \in DOMAIN T : /\ 2 * d + x \in DOMAIN (rx \o net)
                                           /\ T[x] = (rx \o net)[2 * d + x]
    BY <1>0, <2>1, ReadWhole
  <2>3. Stream' = Leftover(rx \o SubSeq(net, 1, k)) \o After(net, k)
    BY <1>0 DEF Stream
  <2>4. Whole'
    BY <1>0, <2>1, <2>2, <2>3 DEF Whole, Stream
  <2> QED BY <1>2, <2>1, <2>2, <2>3, <2>4 DEF Stream
<1> QED BY <1>1, <1>2

LEMMA StreamInit == Init => StreamInv
<1> SUFFICES ASSUME Init PROVE StreamInv
  OBVIOUS
<1>1. rx = <<>> /\ net = <<>> /\ reqs = <<>> /\ flashes = {} /\ ~conn /\ sock = "unconnected"
  BY DEF Init
<1>2. Stream = <<>> /\ DOMAIN <<>> = {} /\ Len(<<>>) = 0
  BY <1>1 DEF Stream
<1>3. Whole
  BY <1>1, <1>2 DEF Whole, Paired, Once
<1> QED BY <1>1, <1>2, <1>3 DEF StreamInv, PendingInv, LinkInv, SpentInv

LEMMA LinkNext ==
    ASSUME ToolTypes, stk # <<>> => inst, LinkInv, Next
    PROVE  LinkInv'
<1>0. LinkStep /\ reqs \in Seq(Request) /\ inst \in BOOLEAN
  BY LinkSteps DEF ToolTypes, ServiceTypes, SocketTypes
<1>1. /\ conn' => sock' = "connected"
      /\ sock' # "connected" => net' = <<>>
      /\ ~conn' => reqs' = <<>> /\ flashes' = {}
  <2>0. CASE Still \/ Drops
    BY <2>0 DEF Still, Drops, LinkInv
  <2>1. CASE Joins \/ Clears
    BY <2>1 DEF Joins, Clears
  <2>1a. CASE \E fn : Asks(fn)
    BY <2>1a DEF Asks, LinkInv
  <2>2. CASE Accepts \/ \E m \in Msg : Sends(m)
    BY <2>2 DEF Accepts, Sends, LinkInv
  <2>3. ASSUME NEW k \in 1..Len(net), Reads(k)
        PROVE  /\ conn' => sock' = "connected"
               /\ sock' # "connected" => net' = <<>>
               /\ ~conn' => reqs' = <<>> /\ flashes' = {}
    <3>1. net # <<>>
      BY <2>3
    <3> QED BY <2>3, <3>1 DEF Reads, LinkInv
  <2>4. ASSUME NEW k \in 0..Len(net), Breaks(k)
        PROVE  /\ conn' => sock' = "connected"
               /\ sock' # "connected" => net' = <<>>
               /\ ~conn' => reqs' = <<>> /\ flashes' = {}
    <3>1. net = <<>> => net' = <<>>
      BY <2>4 DEF Breaks
    <3> QED BY <2>4, <3>1 DEF Breaks, LinkInv
  <2> QED BY <1>0, <2>0, <2>1, <2>1a, <2>2, <2>3, <2>4 DEF LinkStep
<1>2. ~inst' => sock' = "unconnected"
  <2>1. CASE UNCHANGED socket
    BY <2>1 DEF socket, LinkInv
  <2>2. CASE InitReturn \/ OnReadyRead \/ Service
    <3>1. UNCHANGED <<inst, sock>>
      BY <2>2 DEF InitReturn, OnReadyRead, Service, SrvAnswer, SrvProgress, SrvFlashEnds,
                  SrvCrash, SrvStart, SrvUnchanged, socket
    <3> QED BY <3>1 DEF LinkInv
  <2>3. CASE OnDisconnected \/ Deinit
    BY <2>3 DEF OnDisconnected, Deinit
  <2>4. CASE (Writes \/ NoWrite) /\ UNCHANGED inst
    BY <2>4 DEF Writes, WriteReq, NoWrite, LinkInv
  <2> QED BY <1>0, <2>1, <2>2, <2>3, <2>4, SocketSteps
<1> QED BY <1>1, <1>2 DEF LinkInv

(* Spent in the next state, of a message of this one.                      *)
SpentNext(m) == IF m.fn = "ind" THEN m.n <= inds'
                ELSE m.rid \notin flashes' /\ \A i \in DOMAIN reqs' : reqs'[i].rid # m.rid

(* Where what is in the stream comes from.                                 *)
LEMMA StreamSteps ==
    ASSUME ToolTypes, stk # <<>> => inst, StreamInv, Next
    PROVE  /\ Whole' \/ Stuck'
           /\ Stuck => Stuck' \/ Stream' = <<>>
           /\ \A x \in DOMAIN Stream' : \/ \E y \in DOMAIN Stream : Stream'[x] = Stream[y]
                                        \/ \E m \in Msg : Sends(m) /\ Stream'[x].m = m
<1>0. LinkStep /\ inds' \in Nat /\ StreamTypes
  BY LinkSteps, IndsGrow DEF StreamInv, ToolTypes
<1>1. CASE UNCHANGED <<rx, net, conn>>
  BY <1>1 DEF StreamInv, Stream, Whole, Stuck
<1>2. CASE rx' = rx /\ net' = <<>>
  BY <1>0, <1>2, StreamKept DEF StreamInv
<1>3. CASE Clears
  <2>1. Stream' = <<>> /\ DOMAIN <<>> = {} /\ Len(<<>>) = 0 /\ rx' = <<>> /\ 0 % 2 = 0
    BY <1>3 DEF Clears, Stream
  <2>2. Paired(<<>>) /\ Once(<<>>)
    BY <2>1 DEF Paired, Once
  <2>3. Whole'
    BY <2>1, <2>2 DEF Whole
  <2> QED BY <2>1, <2>3
<1>4. ASSUME NEW k \in 1..Len(net), Reads(k)
      PROVE  /\ Whole' \/ Stuck'
             /\ Stuck => Stuck'
             /\ \A x \in DOMAIN Stream' : \E y \in DOMAIN Stream : Stream'[x] = Stream[y]
  BY <1>0, <1>4, ReadStream DEF StreamInv
<1>5. ASSUME NEW m \in Msg, Sends(m)
      PROVE  /\ Whole' \/ Stuck'
             /\ Stuck => Stuck'
             /\ \A x \in DOMAIN Stream' : \/ x \in DOMAIN Stream /\ Stream'[x] = Stream[x]
                                          \/ Stream'[x].m = m
  BY <1>0, <1>5, SentStream
<1>6. ASSUME NEW k \in 0..Len(net), Breaks(k)
      PROVE  /\ Whole' \/ Stuck'
             /\ Stuck => Stuck'
             /\ \A x \in DOMAIN Stream' : x \in DOMAIN Stream /\ Stream'[x] = Stream[x]
  BY <1>0, <1>6, BrokenStream DEF StreamInv
<1>7. CASE Still \/ Accepts \/ \E fn : Asks(fn)
  BY <1>1, <1>7 DEF Still, Accepts, Asks
<1>8. CASE Drops \/ Joins
  BY <1>2, <1>8 DEF Drops, Joins
<1> QED BY <1>0, <1>3, <1>4, <1>5, <1>6, <1>7, <1>8 DEF LinkStep

LEMMA StreamNext ==
    ASSUME ToolTypes, stk # <<>> => inst, StreamInv, Next
    PROVE  StreamInv'
<1>0. LinkStep /\ inds' \in Nat /\ inds' >= inds /\ StreamTypes /\ PendingInv /\ LinkInv
  BY LinkSteps, IndsGrow DEF StreamInv, ToolTypes
<1>1. ASSUME \A x \in DOMAIN Stream' : \/ \E y \in DOMAIN Stream : Stream'[x] = Stream[y]
                                       \/ \E m \in Msg : Sends(m) /\ Stream'[x].m = m
      PROVE  SpentInv'
  <2>1. \A m \in Msg : Spent(m) /\ m.rid <= nreq => SpentNext(m) /\ m.rid <= nreq'
    <3> TAKE m \in Msg
    <3>1. ASSUME Spent(m), m.rid <= nreq PROVE Spent(m)' /\ m.rid <= nreq'
      BY <1>0, <3>1, SpentStays
    <3> QED BY <3>1 DEF Spent, SpentNext
  <2>2. \A m \in Msg : Sends(m) => SpentNext(m) /\ m.rid <= nreq'
    <3> TAKE m \in Msg
    <3>1. ASSUME Sends(m) PROVE Spent(m)' /\ m.rid <= nreq'
      BY <1>0, <3>1, SentOnce
    <3> QED BY <3>1 DEF Spent, SpentNext
  <2>3. \A y \in DOMAIN Stream : Stream[y].m \in Msg
    <3>1. \A y \in DOMAIN Stream : Stream[y] \in Frag
      BY <1>0, StreamType, LenProperties, ElementOfSeq
    <3> QED BY <3>1 DEF Frag
  <2>4. \A y \in DOMAIN Stream : Spent(Stream[y].m) /\ Stream[y].m.rid <= nreq
    BY DEF StreamInv, SpentInv
  <2>5. \A x \in DOMAIN Stream' : SpentNext(Stream'[x].m) /\ Stream'[x].m.rid <= nreq'
    <3> TAKE x \in DOMAIN Stream'
    <3>1. ASSUME NEW y \in DOMAIN Stream, Stream'[x] = Stream[y]
          PROVE  SpentNext(Stream'[x].m) /\ Stream'[x].m.rid <= nreq'
      BY <2>1, <2>3, <2>4, <3>1
    <3>2. ASSUME NEW m \in Msg, Sends(m), Stream'[x].m = m
          PROVE  SpentNext(Stream'[x].m) /\ Stream'[x].m.rid <= nreq'
      BY <2>2, <3>2
    <3> QED BY <1>1, <3>1, <3>2
  <2> QED BY <2>5 DEF SpentInv, Spent, SpentNext
<1>3. PendingInv' /\ LinkInv'
  BY <1>0, PendingSteps, LinkNext
<1> QED BY <1>1, <1>3, StreamSteps DEF StreamInv

LEMMA ToolStreamInvariant == Spec => []StreamInv
<1>1. ToolTypes /\ StackInv /\ StreamInv /\ [Next]_vars => StreamInv'
  <2>1. CASE UNCHANGED vars
    <3>1. UNCHANGED <<inst, sock, rx, net, conn, reqs, flashes, nreq, inds>>
      BY <2>1 DEF vars, socket, service, bounds
    <3> QED BY <3>1 DEF StreamInv, PendingInv, LinkInv, Whole, Stuck, SpentInv, Spent, Stream
  <2>2. CASE Next
    BY <2>2, StreamNext DEF StackInv, IdleInv
  <2> QED BY <2>1, <2>2
<1> QED BY <1>1, StreamInit, ToolInvariant, PTL DEF Spec

-----------------------------------------------------------------------------
(* Which call an answer is for.                                            *)

(* What is left of the last read, while it is handled.                     *)
Cut(s) == IF s # <<>> /\ s[1].op = "rx" THEN s[1].list ELSE <<>>

(* A call on the stack has written the request number r, and waits for the *)
(* answer still.                                                           *)
Has(s, op, r) == r # 0 /\ \E i \in DOMAIN s : s[i].op = op /\ s[i].rid = r
Waits(s, op, r) == r # 0 /\ \E i \in DOMAIN s : s[i].op = op /\ s[i].rid = r /\ ~s[i].quit

Like(f, g) == g.op = f.op /\ g.rid = f.rid /\ (f.op \in Reqs => g.quit = f.quit)
SameCalls == \A op, r : /\ Has(stk', op, r) <=> Has(stk, op, r)
                        /\ op \in Reqs => (Waits(stk', op, r) <=> Waits(stk, op, r))

LEMMA CallsMark ==
    ASSUME DOMAIN stk' = DOMAIN stk, \A i \in DOMAIN stk : Like(stk[i], stk'[i])
    PROVE  SameCalls
  BY DEF SameCalls, Has, Waits, Like

LEMMA CallsStay == UNCHANGED stk => SameCalls /\ Cut(stk') = Cut(stk)
  BY DEF SameCalls

LEMMA CallsPush ==
    ASSUME stk \in Seq(Frame), NEW f \in Frame, stk' = Push(f, stk)
    PROVE  /\ \A op, r : Has(stk', op, r) <=> Has(stk, op, r) \/ (r # 0 /\ f.op = op /\ f.rid = r)
           /\ \A op, r : Waits(stk', op, r) <=>
                Waits(stk, op, r) \/ (r # 0 /\ f.op = op /\ f.rid = r /\ ~f.quit)
           /\ Cut(stk') = IF f.op = "rx" THEN f.list ELSE <<>>
<1>1. /\ 1 \in DOMAIN stk' /\ stk'[1] = f
      /\ \A i \in DOMAIN stk' : i = 1 \/ (i - 1 \in DOMAIN stk /\ stk'[i] = stk[i - 1])
      /\ \A i \in DOMAIN stk : i + 1 \in DOMAIN stk' /\ stk'[i + 1] = stk[i]
  BY PushedFrames
<1>2. stk' # <<>>
  BY PushProperties
<1>3. ASSUME NEW op, NEW r
      PROVE  Has(stk', op, r) <=> Has(stk, op, r) \/ (r # 0 /\ f.op = op /\ f.rid = r)
  BY <1>1 DEF Has
<1>4. ASSUME NEW op, NEW r
      PROVE  Waits(stk', op, r) <=>
                Waits(stk, op, r) \/ (r # 0 /\ f.op = op /\ f.rid = r /\ ~f.quit)
  BY <1>1 DEF Waits
<1> QED BY <1>1, <1>2, <1>3, <1>4 DEF Cut

LEMMA CallsPop ==
    ASSUME stk \in Seq(Frame), FramesInv, stk # <<>>, stk' = Below
    PROVE  /\ \A op, r : Has(stk, op, r) <=>
                Has(stk', op, r) \/ (r # 0 /\ Head(stk).op = op /\ Head(stk).rid = r)
           /\ \A op, r : Waits(stk, op, r) <=>
                Waits(stk', op, r) \/ (r # 0 /\ Head(stk).op = op /\ Head(stk).rid = r
                                              /\ ~Head(stk).quit)
           /\ Cut(stk') = <<>>
<1>1. /\ \A i \in DOMAIN stk' : i + 1 \in DOMAIN stk /\ i + 1 > 1 /\ stk'[i] = stk[i + 1]
      /\ \A i \in DOMAIN stk : i # 1 => i - 1 \in DOMAIN stk' /\ stk'[i - 1] = stk[i]
      /\ 1 \in DOMAIN stk /\ stk[1] = Head(stk)
  BY PoppedFrames
<1>2. ASSUME NEW op, NEW r
      PROVE  Has(stk, op, r) <=>
                Has(stk', op, r) \/ (r # 0 /\ Head(stk).op = op /\ Head(stk).rid = r)
  BY <1>1 DEF Has
<1>3. ASSUME NEW op, NEW r
      PROVE  Waits(stk, op, r) <=>
                Waits(stk', op, r) \/ (r # 0 /\ Head(stk).op = op /\ Head(stk).rid = r
                                              /\ ~Head(stk).quit)
  BY <1>1 DEF Waits
<1>4. Cut(stk') = <<>>
  <2>1. stk' \in Seq(Frame)
    BY BelowProperties
  <2>2. stk' # <<>> => 1 \in DOMAIN stk'
    BY <2>1, LenProperties, EmptySeq
  <2>3. 1 \in DOMAIN stk' => stk'[1].pc = "wait" /\ stk'[1].op # "rx"
    BY <1>1 DEF FramesInv, FrameOK
  <2> QED BY <2>2, <2>3 DEF Cut
<1> QED BY <1>2, <1>3, <1>4

(* TriggerFlash goes on.                                                   *)
LEMMA CallsTop ==
    ASSUME stk \in Seq(Frame), stk # <<>>, Head(stk).op = "flash", NEW f \in Frame, f.op = "flash",
           stk' = Top(f)
    PROVE  /\ f.rid = Head(stk).rid => SameCalls
           /\ Head(stk).rid = 0 =>
                /\ \A op, r : Has(stk', op, r) <=>
                      Has(stk, op, r) \/ (r # 0 /\ op = "flash" /\ f.rid = r)
                /\ \A op \in Reqs : \A r : Waits(stk', op, r) <=> Waits(stk, op, r)
           /\ Cut(stk) = <<>> /\ Cut(stk') = <<>>
<1>1. /\ DOMAIN stk' = DOMAIN stk /\ stk'[1] = f /\ 1 \in DOMAIN stk /\ stk[1] = Head(stk)
      /\ \A i \in DOMAIN stk : i # 1 => stk'[i] = stk[i]
  BY TopProperties, BelowProperties
<1>2. ASSUME f.rid = Head(stk).rid PROVE SameCalls
  <2>1. \A i \in DOMAIN stk : Like(stk[i], stk'[i])
    BY <1>1, <1>2, ReqNames DEF Like
  <2> QED BY <1>1, <2>1, CallsMark
<1>3. ASSUME Head(stk).rid = 0, NEW op, NEW r
      PROVE  Has(stk', op, r) <=> Has(stk, op, r) \/ (r # 0 /\ op = "flash" /\ f.rid = r)
  BY <1>1, <1>3 DEF Has
<1>4. ASSUME NEW op \in Reqs, NEW r
      PROVE  Waits(stk', op, r) <=> Waits(stk, op, r)
  BY <1>1, <1>4, ReqNames DEF Waits
<1> QED BY <1>1, <1>2, <1>3, <1>4 DEF Cut

(* What a step records of the answers.                                     *)
Noted == /\ h'.late = h.late /\ h'.wrong = h.wrong /\ h'.wild = h.wild
         /\ h'.early = h.early /\ h'.foreign = h.foreign /\ (h.resub => h'.resub)

LEMMA NotedForms ==
    ASSUME h \in ToolHistory
    PROVE  /\ h' = h => Noted
           /\ \A x : h' = [h EXCEPT !.refused = x] => Noted
           /\ \A x : h' = [h EXCEPT !.dangling = x] => Noted
           /\ \A s : OnConnected(s) => Noted
           /\ \A t : h' = AfterReset(t) => Noted
           /\ FlashLeave => Noted
           /\ \A t, ok : ForceBegin(t, ok, FALSE) => Noted
<1>1. h' = h => Noted
  BY DEF Noted
<1>2. \A x : h' = [h EXCEPT !.refused = x] => Noted
  BY DEF Noted, ToolHistory
<1>3. \A x : h' = [h EXCEPT !.dangling = x] => Noted
  BY DEF Noted, ToolHistory
<1>4. ASSUME NEW s, OnConnected(s) PROVE Noted
  <2>1. h' = [h EXCEPT !.resub = h.resub \/ Resubscribe, !.refused = FALSE]
    BY <1>4 DEF OnConnected
  <2> QED BY <2>1 DEF Noted, ToolHistory
<1>5. ASSUME NEW t, h' = AfterReset(t) PROVE Noted
  BY <1>5, ResetHistory DEF Noted
<1>6. FlashLeave => Noted
  BY LeaveHistory DEF Noted
<1>7. ASSUME NEW t, NEW ok, ForceBegin(t, ok, FALSE) PROVE Noted
  <2>1. h'.foreign = h.foreign
    BY <1>7, ForceHistory, HistoryValues
  <2> QED BY <1>7, <2>1, ForceHistory DEF Noted
<1> QED BY <1>1, <1>2, <1>3, <1>4, <1>5, <1>6, <1>7

(* What a step does to the calls that wait, and to the list they are       *)
(* answered from.                                                          *)
Asker(fn) == IF fn = "event" THEN "sub" ELSE fn
Known == \A i \in DOMAIN reqs' : \/ \E j \in DOMAIN reqs : reqs'[i] = reqs[j]
                                 \/ reqs'[i].fn = "event" /\ h'.resub
Calm == /\ SameCalls /\ Cut(stk') \in {Cut(stk), <<>>} /\ (slot' = slot \/ stk' = <<>>)
        /\ Known /\ Noted
FlashAsks ==
    /\ stk # <<>> /\ Head(stk).op = "flash" /\ Head(stk).rid = 0
    /\ \A op, r : Has(stk', op, r) <=> Has(stk, op, r) \/ (op = "flash" /\ r = nreq + 1)
    /\ \A op \in Reqs : \A r : Waits(stk', op, r) <=> Waits(stk, op, r)
    /\ Cut(stk) = <<>> /\ Cut(stk') = <<>> /\ slot' = slot /\ Noted
    /\ Drops \/ Asks("flash")
RequestAsks(fn) ==
    /\ \A op \in Reqs : \A r : ~Has(stk, op, r)
    /\ \A op, r : Has(stk', op, r) <=> Has(stk, op, r) \/ (op = Asker(fn) /\ r = nreq + 1)
    /\ Waits(stk', Asker(fn), nreq + 1)
    /\ Cut(stk') = <<>> /\ slot' = [slot EXCEPT ![Asker(fn)] = "live"] /\ Noted
    /\ Drops \/ Asks(fn)
ReadStep ==
    /\ SameCalls /\ Cut(stk) = <<>> /\ slot' = slot /\ Noted
    /\ \E k \in 1..Len(net) : Reads(k) /\ Cut(stk') = Objects(rx \o SubSeq(net, 1, k))
Handles(m) == /\ Cut(stk) # <<>> /\ m = Head(Cut(stk)) /\ Cut(stk') = Tail(Cut(stk))
              /\ Still /\ slot' = slot
HandlesReport(m) ==
    /\ Handles(m) /\ ~Answers(m.fn) /\ SameCalls
    /\ h'.late = h.late /\ h'.wrong = h.wrong /\ h'.wild = h.wild /\ h'.early = h.early
    /\ h'.resub = h.resub
    /\ h'.foreign => h.foreign \/ \E r \in Nat : Has(stk, "flash", r) /\ r # m.rid
HandlesAnswer(m) ==
    /\ Handles(m) /\ Answers(m.fn)
    /\ \A op, r : Has(stk', op, r) <=> Has(stk, op, r)
    /\ \A op \in Reqs : \A r : op # Asker(m.fn) => (Waits(stk', op, r) <=> Waits(stk, op, r))
    /\ h'.late = h.late /\ h'.early = h.early /\ h'.foreign = h.foreign /\ h'.resub = h.resub
    /\ h'.wild => h.wild \/ slot[Asker(m.fn)] = "dead"
    /\ h'.wrong => \/ h.wrong
                   \/ \E r \in Nat : m.fn # "event" /\ Has(stk, Asker(m.fn), r) /\ r # m.rid
RequestGone ==
    /\ \A op, r : Has(stk', op, r) <=> Has(stk, op, r) /\ ~(op = Head(stk).op /\ r = Head(stk).rid)
    /\ \A op, r : Waits(stk', op, r) <=> Waits(stk, op, r)
    /\ Has(stk, Head(stk).op, Head(stk).rid) /\ Head(stk).op \in Reqs /\ Head(stk).rid \in Nat
    /\ Cut(stk') = <<>> /\ slot' = [slot EXCEPT ![Head(stk).op] = "dead"] /\ Still /\ Noted
FlashGone(r) ==
    /\ \A op, q : Has(stk', op, q) <=> Has(stk, op, q) /\ ~(op = "flash" /\ q = r)
    /\ \A op \in Reqs : \A q : Waits(stk', op, q) <=> Waits(stk, op, q)
    /\ Has(stk, "flash", r) /\ Cut(stk') = <<>> /\ slot' = slot /\ Still
    /\ h'.late = h.late /\ h'.wrong = h.wrong /\ h'.wild = h.wild /\ h'.foreign = h.foreign
    /\ h'.resub = h.resub /\ h'.early = (h.early \/ AnswerPending(r))
RequestLate ==
    /\ \A op, r : Has(stk', op, r) <=> Has(stk, op, r)
    /\ Cut(stk') = Cut(stk) /\ slot' = slot /\ Still
    /\ h'.late /\ h'.wrong = h.wrong /\ h'.wild = h.wild /\ h'.early = h.early
    /\ h'.foreign = h.foreign /\ h'.resub = h.resub

AnswerStep ==
    \/ Calm \/ FlashAsks \/ ReadStep \/ RequestGone \/ RequestLate
    \/ \E fn \in {"event"} \union Kinds : RequestAsks(fn)
    \/ \E m \in Msg : HandlesReport(m) \/ HandlesAnswer(m)
    \/ \E r \in Nat : FlashGone(r)

LEMMA KnownSteps ==
    ASSUME ToolTypes, PendingInv, LinkStep,
           nreq' = nreq \/ Drops \/ Joins
    PROVE  Known
<1>0. reqs \in Seq(Request) /\ nreq \in Nat
  BY DEF ToolTypes, ServiceTypes, CountTypes
<1>1. CASE nreq' = nreq
  BY <1>0, <1>1, PendingSteps DEF Known
<1>2. CASE Drops
  BY <1>2 DEF Drops, Known
<1>3. CASE Joins
  <2>1. CASE reqs' = <<>>
    BY <2>1 DEF Known
  <2>2. CASE reqs' = <<[fn |-> "event", rid |-> nreq + 1]>> /\ h'.resub
    BY <2>2 DEF Known
  <2> QED BY <1>3, <2>1, <2>2 DEF Joins
<1> QED BY <1>1, <1>2, <1>3

(* A request is written.                                                   *)
LEMMA AskedSteps ==
    ASSUME ToolTypes, NEW fn \in {"flash", "event"} \union Kinds, Asks(fn)
    PROVE  \A i \in DOMAIN reqs' : \/ \E j \in DOMAIN reqs : reqs'[i] = reqs[j]
                                   \/ reqs'[i].fn = fn /\ reqs'[i].rid = nreq + 1
<1>0. reqs \in Seq(Request) /\ nreq \in Nat
  BY DEF ToolTypes, ServiceTypes, CountTypes
<1> DEFINE r == [fn |-> fn, rid |-> nreq + 1]
<1>1. r \in Request /\ r.fn = fn /\ r.rid = nreq + 1 /\ reqs' = Append(reqs, r)
  BY <1>0 DEF Request, Asks
<1> HIDE DEF r
<1>2. \A i \in DOMAIN reqs' : (i \in DOMAIN reqs /\ reqs'[i] = reqs[i]) \/ reqs'[i] = r
  BY <1>0, <1>1, RequestAppend
<1> QED BY <1>1, <1>2

LEMMA AnswerFlash ==
    ASSUME ToolTypes, StackInv, PendingInv, LinkInv, LinkStep,
           FlashReset \/ FlashSend \/ FlashEnter \/ FlashLeave
    PROVE  Calm \/ FlashAsks
<1> DEFINE f == Head(stk)
<1>0. /\ stk \in Seq(Frame) /\ stk # <<>> /\ f.op = "flash" /\ h \in ToolHistory /\ nreq \in Nat
  BY DEF FlashReset, FlashSend, FlashEnter, FlashLeave, Running, ToolTypes, StackTypes, CountTypes
<1>1. f \in Frame /\ 1 \in DOMAIN stk /\ stk[1] = f /\ nreq + 1 \in Nat
  BY <1>0, BelowProperties
<1>1a. slot' = slot
  BY DEF FlashReset, FlashSend, FlashEnter, FlashLeave
<1>2. Cut(stk) = <<>>
  BY <1>0, <1>1 DEF Cut
<1>3. CASE FlashReset \/ FlashEnter \/ FlashLeave
  <2>1. PICK g \in Frame : stk' = Top(g) /\ g.op = "flash" /\ g.rid = f.rid
    <3> HIDE DEF f
    <3>1. CASE FlashReset
      <4>1. stk' = Top([f EXCEPT !.pc = "send"])
        BY <3>1 DEF FlashReset, f
      <4> QED BY <1>0, <1>1, <4>1 DEF Frame
    <3>2. CASE FlashEnter
      <4>1. stk' = Top([f EXCEPT !.pc = "wait", !.doomed = completed]) /\ completed \in BOOLEAN
        BY <3>2 DEF FlashEnter, f, ToolTypes, FlagTypes
      <4>2. ASSUME NEW x \in BOOLEAN, NEW g, g = [f EXCEPT !.pc = "wait", !.doomed = x]
            PROVE  g \in Frame /\ g.op = f.op /\ g.rid = f.rid
        BY <1>1, <4>2 DEF Frame
      <4> QED BY <1>0, <4>1, <4>2
    <3>3. CASE FlashLeave
      <4>1. stk' = Top([f EXCEPT !.pc = "ret", !.ok = completed /\ success])
        BY <3>3 DEF FlashLeave, f
      <4>2. ASSUME NEW x \in BOOLEAN, NEW g, g = [f EXCEPT !.pc = "ret", !.ok = x]
            PROVE  g \in Frame /\ g.op = f.op /\ g.rid = f.rid
        BY <1>1, <4>2 DEF Frame
      <4>3. (completed /\ success) \in BOOLEAN
        OBVIOUS
      <4> QED BY <1>0, <4>1, <4>2, <4>3
    <3> QED BY <1>3, <3>1, <3>2, <3>3
  <2>2. SameCalls /\ Cut(stk') = <<>>
    BY <1>0, <2>1, CallsTop
  <2>3. Noted
    BY <1>0, <1>3, NotedForms DEF FlashReset, FlashEnter
  <2>4. Known
    <3>1. nreq' = nreq
      BY <1>3 DEF FlashReset, FlashEnter, FlashLeave, bounds
    <3> QED BY <3>1, KnownSteps
  <2> QED BY <1>1a, <2>2, <2>3, <2>4 DEF Calm
<1>4. CASE FlashSend
  <2>1. f.rid = 0 /\ f.pc = "send"
    BY <1>1, <1>4 DEF FlashSend, Running, StackInv, FramesInv, FrameOK
  <2>2. Noted
    BY <1>0, <1>4, NotedForms DEF FlashSend
  <2>3. \/ NoWrite /\ stk' = Below
        \/ WriteReq("flash") /\ stk' = Top([f EXCEPT !.pc = "enter", !.rid = nreq'])
    BY <1>4 DEF FlashSend
  <2>4. CASE NoWrite /\ stk' = Below
    <3>1. SameCalls /\ Cut(stk') = <<>>
      BY <1>0, <2>1, <2>4, CallsPop DEF StackInv, SameCalls
    <3>2. Known
      BY <2>4, KnownSteps DEF NoWrite
    <3> QED BY <1>1a, <2>2, <3>1, <3>2 DEF Calm
  <2>5. CASE WriteReq("flash") /\ stk' = Top([f EXCEPT !.pc = "enter", !.rid = nreq'])
    <3>1. Drops \/ Asks("flash")
      <4>1. UNCHANGED <<rx, conn, flashes>>
        BY <1>4 DEF FlashSend
      <4> QED BY <2>5, <4>1, WriteSteps
    <3> DEFINE g == [f EXCEPT !.pc = "enter", !.rid = nreq + 1]
    <3>3. stk' = Top(g)
      BY <2>5 DEF WriteReq
    <3>4. g \in Frame /\ g.op = "flash" /\ g.rid = nreq + 1
      <4> HIDE DEF f
      <4> QED BY <1>0, <1>1 DEF Frame
    <3> HIDE DEF g
    <3>5. /\ \A op, r : Has(stk', op, r) <=>
                          Has(stk, op, r) \/ (r # 0 /\ op = "flash" /\ g.rid = r)
          /\ \A op \in Reqs : \A r : Waits(stk', op, r) <=> Waits(stk, op, r)
          /\ Cut(stk') = <<>>
      BY <1>0, <2>1, <3>3, <3>4, CallsTop
    <3>6. nreq + 1 # 0
      BY <1>0
    <3>7. \A op, r : Has(stk', op, r) <=> Has(stk, op, r) \/ (op = "flash" /\ r = nreq + 1)
      BY <3>4, <3>5, <3>6
    <3> QED BY <1>0, <1>1a, <1>2, <2>1, <2>2, <3>1, <3>5, <3>7 DEF FlashAsks
  <2> QED BY <2>3, <2>4, <2>5
<1> QED BY <1>3, <1>4

LEMMA AnswerReturn ==
    ASSUME ToolTypes, StackInv, PendingInv, LinkStep, InitReturn \/ ReadyReadReturn
    PROVE  Calm
<1>0. /\ stk \in Seq(Frame) /\ stk # <<>> /\ Head(stk).op \in {"init", "rx"} /\ h \in ToolHistory
      /\ stk' = Below /\ h' = h /\ slot' = slot /\ nreq' = nreq
  BY DEF InitReturn, ReadyReadReturn, Running, ToolTypes, StackTypes, bounds
<1>1. Head(stk).rid = 0
  <2>1. Head(stk) = stk[1] /\ 1 \in DOMAIN stk
    BY <1>0, BelowProperties
  <2> QED BY <1>0, <2>1 DEF StackInv, FramesInv, FrameOK
<1>2. SameCalls /\ Cut(stk') = <<>>
  BY <1>0, <1>1, CallsPop DEF StackInv, SameCalls
<1> QED BY <1>0, <1>2, NotedForms, KnownSteps DEF Calm

LEMMA AnswerGone ==
    ASSUME ToolTypes, StackInv, RequestReturn \/ FlashReturn
    PROVE  RequestGone \/ \E r \in Nat : FlashGone(r)
<1> DEFINE f == Head(stk)
<1>0. /\ stk \in Seq(Frame) /\ stk # <<>> /\ h \in ToolHistory /\ stk' = Below
      /\ RequestReturn => f.op \in Reqs /\ f.pc = "wait" /\ f.quit
      /\ FlashReturn => f.op = "flash" /\ f.pc = "ret"
  BY DEF RequestReturn, FlashReturn, Running, ToolTypes, StackTypes
<1>1. f \in Frame /\ 1 \in DOMAIN stk /\ stk[1] = f
  BY <1>0, BelowProperties
<1>2. f.rid # 0 /\ f.rid \in Nat
  BY <1>0, <1>1, ReqNames DEF StackInv, FramesInv, FrameOK, Frame
<1>3. Has(stk, f.op, f.rid)
  BY <1>1, <1>2 DEF Has
<1>4. Still
  BY DEF RequestReturn, FlashReturn, socket, service, bounds, Still
<1> HIDE DEF f
<1>5. /\ \A op, r : Has(stk, op, r) <=> Has(stk', op, r) \/ (r # 0 /\ f.op = op /\ f.rid = r)
      /\ \A op, r : Waits(stk, op, r) <=>
                Waits(stk', op, r) \/ (r # 0 /\ f.op = op /\ f.rid = r /\ ~f.quit)
      /\ Cut(stk') = <<>>
  BY <1>0, CallsPop DEF StackInv, f
<1>6. ~Has(stk', f.op, f.rid)
  <2> SUFFICES ASSUME NEW i \in DOMAIN stk', stk'[i].rid = f.rid PROVE FALSE
    BY DEF Has
  <2>1. i + 1 \in DOMAIN stk /\ i + 1 # 1 /\ stk'[i] = stk[i + 1]
    BY <1>0, PoppedFrames
  <2> QED BY <1>1, <1>2, <2>1 DEF StackInv, NumbersInv
<1>7. \A op, r : Has(stk', op, r) <=> Has(stk, op, r) /\ ~(op = f.op /\ r = f.rid)
  BY <1>5, <1>6
<1>8. CASE RequestReturn
  <2>1. \A op, r : Waits(stk', op, r) <=> Waits(stk, op, r)
    BY <1>0, <1>5, <1>8
  <2>2. Noted /\ slot' = [slot EXCEPT ![f.op] = "dead"]
    BY <1>0, <1>8, NotedForms DEF RequestReturn, f
  <2> QED BY <1>0, <1>2, <1>3, <1>4, <1>5, <1>7, <1>8, <2>1, <2>2 DEF RequestGone, f
<1>9. CASE FlashReturn
  <2>1. \A op \in Reqs : \A r : Waits(stk', op, r) <=> Waits(stk, op, r)
    BY <1>0, <1>5, <1>9, ReqNames
  <2>2. h' = [h EXCEPT !.early = h.early \/ AnswerPending(f.rid)] /\ slot' = slot
    BY <1>9 DEF FlashReturn, f
  <2>3. /\ h'.late = h.late /\ h'.wrong = h.wrong /\ h'.wild = h.wild /\ h'.foreign = h.foreign
        /\ h'.resub = h.resub /\ h'.early = (h.early \/ AnswerPending(f.rid))
    BY <1>0, <2>2 DEF ToolHistory
  <2>4. FlashGone(f.rid)
    BY <1>0, <1>3, <1>4, <1>5, <1>7, <1>9, <2>1, <2>2, <2>3 DEF FlashGone
  <2> QED BY <1>2, <2>4
<1> QED BY <1>8, <1>9

LEMMA AnswerTake ==
    ASSUME ToolTypes, StackInv, PendingInv, LinkInv, LinkStep, Take
    PROVE  Calm \/ \E fn \in {"event"} \union Kinds : RequestAsks(fn)
<1>0. /\ stk \in Seq(Frame) /\ queue \in Seq(Posted) /\ h \in ToolHistory /\ nreq \in Nat
      /\ queue # <<>> /\ h' = h
  BY DEF Take, TakeRequest, TakeFlash, ToolTypes, StackTypes, CountTypes
<1> DEFINE q == Head(queue)
<1>1. q \in Posted /\ q.t \in Threads \union {W} /\ q.op \in Reqs \union {"flash"}
      /\ Head(queue) = queue[1] /\ 1 \in DOMAIN queue
  BY <1>0, QueueProperties DEF Posted, Threads
<1>2. Noted
  BY <1>0, NotedForms
<1>3. ASSUME NEW f \in Frame, stk' = Push(f, stk), f.rid = 0, f.op # "rx"
      PROVE  SameCalls /\ Cut(stk') = <<>>
  BY <1>0, <1>3, CallsPush DEF SameCalls
<1> HIDE DEF q
<1>4. CASE TakeFlash
  <2>1. stk' = Push(NewFrame("flash", q.t, "reset"), stk) /\ slot' = slot /\ nreq' = nreq
    BY <1>4 DEF TakeFlash, q, bounds
  <2>2. NewFrame("flash", q.t, "reset") \in Frame
    BY <1>1, NewFrameProperties
  <2>3. NewFrame("flash", q.t, "reset").rid = 0 /\ NewFrame("flash", q.t, "reset").op = "flash"
    BY DEF NewFrame
  <2> QED BY <1>2, <1>3, <2>1, <2>2, <2>3, KnownSteps DEF Calm
<1>5. CASE TakeRequest
  <2>0. q.op \in Reqs
    BY <1>5 DEF TakeRequest, q
  <2>1. \/ stk' = Push(NewFrame(q.op, q.t, "lock"), stk) /\ NoWrite /\ UNCHANGED slot
        \/ NoWrite /\ UNCHANGED <<slot, stk>>
        \/ /\ ~Locked /\ WriteReq(IF q.op = "sub" THEN "event" ELSE q.op)
           /\ slot' = [slot EXCEPT ![q.op] = "live"]
           /\ stk' = Push([NewFrame(q.op, q.t, "wait") EXCEPT !.rid = nreq'], stk)
    BY <1>5 DEF TakeRequest, q
  <2>2. CASE stk' = Push(NewFrame(q.op, q.t, "lock"), stk) /\ NoWrite /\ UNCHANGED slot
    <3>1. NewFrame(q.op, q.t, "lock") \in Frame
      BY <1>1, NewFrameProperties
    <3>2. NewFrame(q.op, q.t, "lock").rid = 0 /\ NewFrame(q.op, q.t, "lock").op = q.op
      BY DEF NewFrame
    <3> QED BY <1>2, <1>3, <2>0, <2>2, <3>1, <3>2, KnownSteps, ReqNames DEF Calm, NoWrite
  <2>3. CASE NoWrite /\ UNCHANGED <<slot, stk>>
    BY <1>2, <2>3, CallsStay, KnownSteps DEF Calm, NoWrite
  <2>4. CASE /\ ~Locked /\ WriteReq(IF q.op = "sub" THEN "event" ELSE q.op)
             /\ slot' = [slot EXCEPT ![q.op] = "live"]
             /\ stk' = Push([NewFrame(q.op, q.t, "wait") EXCEPT !.rid = nreq'], stk)
    <3> DEFINE fn == IF q.op = "sub" THEN "event" ELSE q.op
               g == [NewFrame(q.op, q.t, "wait") EXCEPT !.rid = nreq + 1]
    <3>1. fn \in {"event"} \union Kinds /\ Asker(fn) = q.op
      BY <2>0, ReqNames DEF Asker, Reqs
    <3>2. stk' = Push(g, stk)
      BY <2>4 DEF WriteReq
    <3>3. g \in Frame /\ g.op = q.op /\ g.rid = nreq + 1 /\ ~g.quit /\ nreq + 1 # 0
      <4>1. NewFrame(q.op, q.t, "wait") \in Frame
        BY <1>1, NewFrameProperties
      <4>2. NewFrame(q.op, q.t, "wait").op = q.op /\ ~NewFrame(q.op, q.t, "wait").quit
        BY DEF NewFrame
      <4> DEFINE e == NewFrame(q.op, q.t, "wait")
      <4> HIDE DEF e
      <4>3. e \in Frame /\ e.op = q.op /\ ~e.quit /\ nreq + 1 \in Nat /\ nreq + 1 # 0
        BY <1>0, <4>1, <4>2 DEF e
      <4>4. [e EXCEPT !.rid = nreq + 1] \in Frame
        BY <4>3 DEF Frame
      <4>5. /\ [e EXCEPT !.rid = nreq + 1].op = q.op /\ [e EXCEPT !.rid = nreq + 1].rid = nreq + 1
            /\ ~[e EXCEPT !.rid = nreq + 1].quit
        BY <4>3 DEF Frame
      <4> QED BY <4>3, <4>4, <4>5 DEF e
    <3>4. Drops \/ Asks(fn)
      <4>1. UNCHANGED <<rx, conn, flashes>>
        BY <1>5 DEF TakeRequest
      <4> QED BY <2>4, <4>1, WriteSteps
    <3>5. \A op \in Reqs : \A r : ~Has(stk, op, r)
      <4> SUFFICES ASSUME NEW i \in DOMAIN stk, stk[i].op \in Reqs, stk[i].rid # 0 PROVE FALSE
        BY DEF Has
      <4>1. stk[i].pc = "wait"
        BY DEF StackInv, FramesInv, FrameOK
      <4> QED BY <2>4, <4>1 DEF Locked
    <3> HIDE DEF g, fn
    <3>6. /\ \A op, r : Has(stk', op, r) <=>
                Has(stk, op, r) \/ (r # 0 /\ g.op = op /\ g.rid = r)
          /\ \A op, r : Waits(stk', op, r) <=>
                Waits(stk, op, r) \/ (r # 0 /\ g.op = op /\ g.rid = r /\ ~g.quit)
          /\ Cut(stk') = <<>>
      <4>1. g.op # "rx"
        BY <2>0, <3>3, ReqNames
      <4> QED BY <1>0, <3>2, <3>3, <4>1, CallsPush
    <3>7. \A op, r : Has(stk', op, r) <=> Has(stk, op, r) \/ (op = Asker(fn) /\ r = nreq + 1)
      BY <3>1, <3>3, <3>6
    <3>8. Waits(stk', Asker(fn), nreq + 1)
      BY <3>1, <3>3, <3>6
    <3>9. RequestAsks(fn)
      BY <1>2, <2>4, <3>1, <3>4, <3>5, <3>6, <3>7, <3>8 DEF RequestAsks
    <3> QED BY <3>1, <3>9
  <2> QED BY <2>1, <2>2, <2>3, <2>4
<1> QED BY <1>4, <1>5 DEF Take

LEMMA AnswerRead ==
    ASSUME ToolTypes, StackInv, OnReadyRead
    PROVE  ReadStep
<1>0. stk \in Seq(Frame) /\ h \in ToolHistory /\ h' = h /\ slot' = slot
  BY DEF OnReadyRead, ToolTypes, StackTypes
<1>1. PICK k \in 1..Len(net) :
        /\ net' = After(net, k) /\ rx' = Leftover(rx \o SubSeq(net, 1, k))
        /\ stk' = Push([NewFrame("rx", W, "run") EXCEPT !.list = Objects(rx \o SubSeq(net, 1, k))], stk)
  BY DEF OnReadyRead
<1>2. Reads(k)
  BY <1>1 DEF OnReadyRead, Reads, service, bounds
<1> DEFINE l == Objects(rx \o SubSeq(net, 1, k))
           g == [NewFrame("rx", W, "run") EXCEPT !.list = l]
<1>3. g.op = "rx" /\ g.rid = 0 /\ g.list = l
  BY DEF NewFrame
<1>4. PICK f \in Frame : stk' = Push(f, stk)
  BY OnReadyReadEffect DEF Pushes
<1>5. f = g
  <2>1. stk' = Push(g, stk)
    BY <1>1
  <2> HIDE DEF g
  <2>2. stk'[1] = g
    BY <1>0, <2>1 DEF Push
  <2>3. stk'[1] = f
    BY <1>0, <1>4, PushProperties
  <2> QED BY <2>2, <2>3
<1> HIDE DEF g, l
<1>6. SameCalls /\ Cut(stk') = l
  BY <1>0, <1>3, <1>4, <1>5, CallsPush DEF SameCalls
<1>7. Cut(stk) = <<>>
  <2>1. CASE stk = <<>>
    BY <2>1 DEF Cut
  <2>2. CASE stk # <<>>
    <3>1. Head(stk) = stk[1] /\ 1 \in DOMAIN stk /\ Head(stk).pc = "wait"
      BY <1>0, <2>2, BelowProperties DEF OnReadyRead, InLoop
    <3>2. stk[1].op # "rx"
      BY <3>1 DEF StackInv, FramesInv, FrameOK
    <3> QED BY <3>2 DEF Cut
  <2> QED BY <2>1, <2>2
<1> QED BY <1>0, <1>2, <1>6, <1>7, NotedForms DEF ReadStep, l

LEMMA AnswerTimeout ==
    ASSUME ToolTypes, StackInv, PendingInv, LinkStep, Timeout
    PROVE  Calm \/ RequestLate
<1>0. /\ \A i \in DOMAIN stk : stk[i] \in Frame
      /\ h \in ToolHistory /\ slot' = slot /\ stk \in Seq(Frame)
  BY LenProperties, ElementOfSeq DEF Timeout, RequestTimeout, FlashTimeout, ToolTypes, StackTypes
<1>0a. Still
  BY DEF Timeout, RequestTimeout, FlashTimeout, socket, service, bounds, Still
<1>1. DOMAIN stk' = DOMAIN stk /\ \A i \in DOMAIN stk : stk'[i].op = stk[i].op /\ stk'[i].rid = stk[i].rid
  BY TimeoutEffect DEF Marks, Same
<1>2. Cut(stk') = Cut(stk)
  <2>1. CASE stk = <<>>
    <3>1. \A i \in DOMAIN stk : FALSE
      BY <2>1
    <3> QED BY <3>1 DEF Timeout, RequestTimeout, FlashTimeout, Waiting
  <2>2. CASE stk # <<>>
    <3>1. Head(stk) = stk[1] /\ 1 \in DOMAIN stk /\ Head(stk).pc = "wait"
      BY <1>0, <2>2, BelowProperties DEF Timeout, RequestTimeout, FlashTimeout, InLoop
    <3>2. stk[1].op # "rx" /\ stk'[1].op # "rx"
      BY <1>1, <3>1 DEF StackInv, FramesInv, FrameOK
    <3> QED BY <3>2 DEF Cut
  <2> QED BY <2>1, <2>2
<1>3. CASE RequestTimeout
  <2>1. \A op, r : Has(stk', op, r) <=> Has(stk, op, r)
    BY <1>1 DEF Has
  <2>2. h' = [h EXCEPT !.late = TRUE]
    BY <1>3 DEF RequestTimeout
  <2>3. /\ h'.late /\ h'.wrong = h.wrong /\ h'.wild = h.wild /\ h'.early = h.early
        /\ h'.foreign = h.foreign /\ h'.resub = h.resub
    BY <1>0, <2>2 DEF ToolHistory
  <2> QED BY <1>0, <1>0a, <1>2, <2>1, <2>3 DEF RequestLate
<1>4. CASE FlashTimeout
  <2>1. PICK i \in DOMAIN stk : stk[i].op = "flash" /\ stk' = [stk EXCEPT ![i].armed = FALSE]
    BY <1>4 DEF FlashTimeout, Waiting
  <2>2. \A j \in DOMAIN stk : j # i => stk'[j] = stk[j]
    BY <2>1
  <2>3. \A j \in DOMAIN stk : Like(stk[j], stk'[j])
    BY <1>1, <2>1, <2>2, ReqNames DEF Like
  <2>4. SameCalls
    BY <1>1, <2>3, CallsMark
  <2>5. Noted
    BY <1>0, <1>4, NotedForms DEF FlashTimeout
  <2>6. Known
    BY <1>0a, KnownSteps DEF Still
  <2> QED BY <1>0, <1>2, <2>4, <2>5, <2>6 DEF Calm
<1> QED BY <1>3, <1>4 DEF Timeout

LEMMA AnswerHandle ==
    ASSUME ToolTypes, StackInv, HandleOneSocketMessage
    PROVE  \E m \in Msg : HandlesReport(m) \/ HandlesAnswer(m)
<1> DEFINE m == Head(Head(stk).list)
           f == [Head(stk) EXCEPT !.list = Tail(@)]
<1>1. /\ stk # <<>> /\ m \in Msg /\ f \in Frame /\ Head(stk).list # <<>>
      /\ Top(f) \in Seq(Frame) /\ DOMAIN Top(f) = DOMAIN stk
      /\ Top(f)[1] = f /\ Head(stk) = stk[1] /\ 1 \in DOMAIN stk
      /\ \A i \in DOMAIN stk : i # 1 => Top(f)[i] = stk[i]
  BY HandleStack
<1>2. /\ f.op = "rx" /\ stk[1].op = "rx" /\ f.rid = stk[1].rid /\ f.list = Tail(stk[1].list)
      /\ \A i \in DOMAIN stk : stk[i] \in Frame
  <2>1. Head(stk).op = "rx" /\ Head(stk) \in Frame /\ \A i \in DOMAIN stk : stk[i] \in Frame
    BY <1>1, BelowProperties, LenProperties, ElementOfSeq
      DEF HandleOneSocketMessage, Running, ToolTypes, StackTypes
  <2> QED BY <1>1, <2>1 DEF Frame
<1>3. \/ ~Answers(m.fn) /\ stk' = Top(f) /\ FlashVerdict(m)
      \/ ~Answers(m.fn) /\ stk' = Top(f) /\ UNCHANGED <<waitflags, thr, h>>
      \/ Answers(m.fn) /\ AnswerRequest(m, Top(f)) /\ UNCHANGED <<waitflags, thr>>
  BY DEF HandleOneSocketMessage, Answers
<1>4. Still /\ slot' = slot /\ h \in ToolHistory /\ slot \in [Reqs -> {"none", "live", "dead"}]
  BY DEF HandleOneSocketMessage, socket, service, bounds, Still, ToolTypes, CallTypes
<1>5. Cut(stk) = stk[1].list /\ Cut(stk) # <<>> /\ m = Head(Cut(stk))
  BY <1>1, <1>2 DEF Cut
<1>6. \A i \in DOMAIN stk : stk[i].op \in Reqs => (stk[i].pc = "wait" <=> stk[i].rid # 0)
  BY ReqNames DEF StackInv, FramesInv, FrameOK
<1> HIDE DEF f, m
<1>7. ASSUME DOMAIN stk' = DOMAIN stk, stk'[1] = f PROVE Handles(m)
  <2>1. Cut(stk') = Tail(stk[1].list)
    BY <1>1, <1>2, <1>7 DEF Cut
  <2> QED BY <1>4, <1>5, <2>1 DEF Handles
<1>8. CASE ~Answers(m.fn) /\ stk' = Top(f)
  <2>1. \A i \in DOMAIN stk : Like(stk[i], stk'[i])
    BY <1>1, <1>2, <1>8, ReqNames DEF Like
  <2>2. SameCalls /\ Handles(m)
    BY <1>1, <1>7, <1>8, <2>1, CallsMark
  <2>3. CASE FlashVerdict(m)
    <3> DEFINE alien == \E i \in Waiting("flash") : stk[i].rid # m.rid
    <3>1. ForceBegin(W, m.res = "ok", alien)
      BY <2>3 DEF FlashVerdict
    <3>2. alien => \E r \in Nat : Has(stk, "flash", r) /\ r # m.rid
      <4> SUFFICES ASSUME NEW i \in DOMAIN stk, stk[i].op = "flash", stk[i].pc = "wait",
                          stk[i].rid # m.rid
                   PROVE  \E r \in Nat : Has(stk, "flash", r) /\ r # m.rid
        BY DEF Waiting
      <4>1. stk[i].rid # 0 /\ stk[i].rid \in Nat
        BY <1>2 DEF StackInv, FramesInv, FrameOK, Frame
      <4> QED BY <4>1 DEF Has
    <3> HIDE DEF alien
    <3>3. /\ h'.late = h.late /\ h'.wrong = h.wrong /\ h'.wild = h.wild /\ h'.early = h.early
          /\ h'.resub = h.resub /\ (h'.foreign => h.foreign \/ alien)
      <4>1. /\ h'.late = h.late /\ h'.wrong = h.wrong /\ h'.wild = h.wild /\ h'.early = h.early
            /\ h'.resub = h.resub
        BY <1>4, <3>1, ForceHistory
      <4>2. completed => h' = h
        BY <1>4, <3>1, ForceHistory
      <4>3. ~completed => h'.foreign = (h.foreign \/ alien)
        BY <1>4, <3>1, ForceHistory
      <4>4. h'.foreign => h.foreign \/ alien
        BY <4>2, <4>3, Zenon
      <4> QED BY <4>1, <4>4
    <3> QED BY <1>1, <1>8, <2>2, <3>2, <3>3 DEF HandlesReport
  <2>4. CASE h' = h
    BY <1>1, <1>8, <2>2, <2>4 DEF HandlesReport
  <2> QED BY <1>3, <1>8, <2>3, <2>4
<1>9. CASE Answers(m.fn) /\ AnswerRequest(m, Top(f))
  <2> DEFINE s == Top(f)
             R == Receivers(m.fn)
             Mine(i) == s[i].op \in R /\ s[i].pc = "wait"
  <2>0. R = {k \in Reqs : k = Asker(m.fn) /\ slot[k] # "none"}
    BY DEF Receivers, Asker
  <2>1. /\ stk' = [i \in DOMAIN s |->
                    IF Mine(i)
                    THEN [s[i] EXCEPT !.quit = TRUE,
                                      !.ok = @ \/ m.res = "ok" \/ s[i].op \in {"query", "sub"}]
                    ELSE s[i]]
        /\ h' = [h EXCEPT
                   !.wild = h.wild \/ (\E k \in R : slot[k] = "dead"),
                   !.wrong = h.wrong \/ (\E i \in DOMAIN s : Mine(i) /\ s[i].op # "sub" /\ s[i].rid # m.rid)]
    BY <1>9 DEF AnswerRequest
  <2>2. /\ h'.late = h.late /\ h'.early = h.early /\ h'.foreign = h.foreign /\ h'.resub = h.resub
        /\ h'.wild = (h.wild \/ (\E k \in R : slot[k] = "dead"))
        /\ h'.wrong = (h.wrong \/ (\E i \in DOMAIN s : Mine(i) /\ s[i].op # "sub" /\ s[i].rid # m.rid))
    <3> DEFINE x == h.wild \/ (\E k \in R : slot[k] = "dead")
               y == h.wrong \/ (\E i \in DOMAIN s : Mine(i) /\ s[i].op # "sub" /\ s[i].rid # m.rid)
    <3>1. h' = [h EXCEPT !.wild = x, !.wrong = y]
      BY <2>1
    <3> HIDE DEF x, y
    <3>2. /\ h'.late = h.late /\ h'.early = h.early /\ h'.foreign = h.foreign /\ h'.resub = h.resub
          /\ h'.wild = x /\ h'.wrong = y
      BY <1>4, <3>1 DEF ToolHistory
    <3> QED BY <3>2 DEF x, y
  <2>3. /\ DOMAIN s = DOMAIN stk /\ s[1] = f
        /\ \A i \in DOMAIN stk : /\ s[i] \in Frame /\ s[i].op = stk[i].op /\ s[i].rid = stk[i].rid
                                 /\ stk[i].op \in Reqs => s[i] = stk[i]
    BY <1>1, <1>2, ReqNames
  <2> HIDE DEF s
  <2>4. /\ DOMAIN stk' = DOMAIN stk
        /\ \A i \in DOMAIN stk : ~Mine(i) => stk'[i] = s[i]
        /\ \A i \in DOMAIN stk : stk'[i].op = stk[i].op /\ stk'[i].rid = stk[i].rid
    <3>1. DOMAIN stk' = DOMAIN stk
      BY <2>1, <2>3
    <3>2. ASSUME NEW i \in DOMAIN stk, ~Mine(i) PROVE stk'[i] = s[i]
      BY <2>1, <2>3, <3>2
    <3>3. ASSUME NEW i \in DOMAIN stk, Mine(i) PROVE stk'[i].op = s[i].op /\ stk'[i].rid = s[i].rid
      <4>1. stk'[i] = [s[i] EXCEPT !.quit = TRUE,
                                   !.ok = @ \/ m.res = "ok" \/ s[i].op \in {"query", "sub"}]
        BY <2>1, <2>3, <3>3
      <4> QED BY <2>3, <4>1 DEF Frame
    <3> QED BY <2>3, <3>1, <3>2, <3>3
  <2>5. \A op, r : Has(stk', op, r) <=> Has(stk, op, r)
    BY <2>4 DEF Has
  <2>6. \A op \in Reqs : \A r : op # Asker(m.fn) => (Waits(stk', op, r) <=> Waits(stk, op, r))
    <3> SUFFICES ASSUME NEW op \in Reqs, NEW r, op # Asker(m.fn)
                 PROVE  Waits(stk', op, r) <=> Waits(stk, op, r)
      OBVIOUS
    <3>1. \A i \in DOMAIN stk : stk[i].op = op => stk'[i] = stk[i]
      <4> SUFFICES ASSUME NEW i \in DOMAIN stk, stk[i].op = op PROVE stk'[i] = stk[i]
        OBVIOUS
      <4>1. ~Mine(i) /\ s[i] = stk[i]
        BY <2>0, <2>3
      <4> QED BY <2>4, <4>1
    <3> QED BY <2>4, <3>1 DEF Waits
  <2>7. Handles(m)
    <3>1. ~Mine(1)
      BY <1>2, <2>0, <2>3, ReqNames
    <3> QED BY <1>1, <1>7, <2>3, <2>4, <3>1
  <2>8. h'.wild => h.wild \/ slot[Asker(m.fn)] = "dead"
    BY <2>0, <2>2
  <2>9. h'.wrong => \/ h.wrong
                    \/ \E r \in Nat : m.fn # "event" /\ Has(stk, Asker(m.fn), r) /\ r # m.rid
    <3> SUFFICES ASSUME NEW i \in DOMAIN stk, Mine(i), s[i].op # "sub", s[i].rid # m.rid
                 PROVE  \E r \in Nat : m.fn # "event" /\ Has(stk, Asker(m.fn), r) /\ r # m.rid
      BY <2>2, <2>3
    <3>1. stk[i].op = Asker(m.fn) /\ stk[i].op \in Reqs /\ s[i] = stk[i] /\ stk[i].pc = "wait"
      BY <2>0, <2>3
    <3>2. m.fn # "event"
      BY <3>1 DEF Asker
    <3>3. stk[i].rid # 0 /\ stk[i].rid \in Nat
      BY <1>2, <1>6, <3>1 DEF Frame
    <3>4. Has(stk, Asker(m.fn), stk[i].rid)
      BY <3>1, <3>3 DEF Has
    <3> QED BY <3>1, <3>2, <3>3, <3>4
  <2> HIDE DEF R
  <2>10. HandlesAnswer(m)
    BY <1>9, <2>2, <2>5, <2>6, <2>7, <2>8, <2>9 DEF HandlesAnswer
  <2> QED BY <1>1, <2>10
<1> QED BY <1>3, <1>8, <1>9

LEMMA AnswerConnection ==
    ASSUME ToolTypes, PendingInv, LinkInv, LinkStep,
           RetryConnection \/ ConnectDone \/ OnDisconnected \/ Service
    PROVE  Calm
<1>0. UNCHANGED stk /\ h \in ToolHistory
  BY ConnectionEffect DEF ToolTypes
<1>1. SameCalls /\ Cut(stk') = Cut(stk)
  BY <1>0, CallsStay
<1>2. slot' = slot
  BY DEF RetryConnection, ConnectDone, OnDisconnected, Service, SrvAnswer, SrvProgress,
         SrvFlashEnds, SrvCrash, SrvStart, SrvUnchanged, calling
<1>3. CASE RetryConnection \/ ConnectDone
  <2>1. /\ OnConnected(stk) \/ ConnectFails(stk) \/ ConnectPends(stk)
        /\ UNCHANGED rx /\ sock # "connected"
    BY <1>3 DEF RetryConnection, ConnectDone, ConnectToServerInternal
  <2>2. Drops \/ Joins
    BY <1>0, <2>1, ConnectSteps
  <2>3. Noted
    BY <1>0, <2>1, NotedForms DEF ConnectFails, ConnectPends
  <2> QED BY <1>1, <1>2, <2>2, <2>3, KnownSteps DEF Calm
<1>4. CASE OnDisconnected \/ Service
  <2>1. nreq' = nreq
    BY <1>4 DEF OnDisconnected, Service, SrvAnswer, SrvProgress, SrvFlashEnds, SrvCrash, SrvStart,
                SrvUnchanged, bounds
  <2>2. h' = h \/ \E x : h' = [h EXCEPT !.refused = x]
    BY <1>4 DEF OnDisconnected, Service, SrvAnswer, SrvProgress, SrvFlashEnds, SrvCrash, SrvStart
  <2> QED BY <1>0, <1>1, <1>2, <2>1, <2>2, NotedForms, KnownSteps DEF Calm
<1> QED BY <1>3, <1>4

LEMMA AnswerController ==
    ASSUME ToolTypes, StackInv, PendingInv, LinkStep, NEW t \in Threads \union {W},
           Controller(t) \/ Control(t)
    PROVE  Calm
<1>0. h \in ToolHistory /\ slot' = slot /\ nreq' = nreq
  BY DEF Controller, ForceStore, ForceLook, ForcePost, ResetClear, Control, calling, bounds, ToolTypes
<1>1. Known
  BY <1>0, KnownSteps
<1>2. CASE ForcePost(t)
  <2>1. \E x : h' = [h EXCEPT !.dangling = x]
    BY <1>2 DEF ForcePost
  <2>2. stk' = [i \in DOMAIN stk |-> IF stk[i].op = "flash" /\ stk[i].rid = thr[t].p
                                     THEN [stk[i] EXCEPT !.quit = TRUE] ELSE stk[i]]
    BY <1>2 DEF ForcePost
  <2>3. DOMAIN stk' = DOMAIN stk /\ \A i \in DOMAIN stk : stk[i].op # "flash" => stk'[i] = stk[i]
    BY <2>2
  <2>4. \A i \in DOMAIN stk : stk'[i].op = stk[i].op /\ stk'[i].rid = stk[i].rid
    BY <1>2, PostFrames
  <2>5. SameCalls
    <3>1. \A i \in DOMAIN stk : Like(stk[i], stk'[i])
      BY <2>3, <2>4, ReqNames DEF Like
    <3> QED BY <2>3, <3>1, CallsMark
  <2>6. Cut(stk') = Cut(stk)
    <3>1. stk' # <<>> <=> stk # <<>>
      BY <2>3, LenProperties, EmptySeq DEF ToolTypes, StackTypes
    <3>2. stk # <<>> => 1 \in DOMAIN stk
      BY BelowProperties DEF ToolTypes, StackTypes
    <3> QED BY <2>3, <2>4, <3>1, <3>2 DEF Cut
  <2> QED BY <1>0, <1>1, <2>1, <2>5, <2>6, NotedForms DEF Calm
<1>3. CASE ForceStore(t) \/ ForceLook(t) \/ ResetClear(t) \/ Control(t)
  <2>1. stk' = stk
    BY <1>3 DEF ForceStore, ForceLook, ResetClear, Control, calling
  <2>2. Noted
    BY <1>0, <1>3, NotedForms DEF ForceStore, ForceLook, ResetClear, Control
  <2> QED BY <1>0, <1>1, <2>1, <2>2, CallsStay DEF Calm
<1> QED BY <1>2, <1>3 DEF Controller

LEMMA AnswerCaller ==
    ASSUME ToolTypes, StackInv, PendingInv, LinkInv, LinkStep, NEW t \in Callers, Caller(t)
    PROVE  Calm
<1>0. h \in ToolHistory
  BY DEF ToolTypes
<1>1. CASE ToolInit(t)
  <2>1. PICK s : /\ s = <<NewFrame("init", t, "run")>>
                 /\ OnConnected(s) \/ ConnectFails(s) \/ ConnectPends(s)
    BY <1>1 DEF ToolInit, ConnectToServerInternal
  <2>2. stk' = s
    BY <2>1 DEF OnConnected, ConnectFails, ConnectPends
  <2>3. Noted
    BY <1>0, <2>1, NotedForms DEF ConnectFails, ConnectPends
  <2>4. stk = <<>> /\ DOMAIN stk = {} /\ rx' = rx /\ sock # "connected" /\ slot' = slot
    BY <1>1 DEF ToolInit, StackInv, IdleInv, LinkInv
  <2>5. DOMAIN stk' = {1} /\ stk'[1].op = "init" /\ stk'[1].rid = 0
    BY <2>1, <2>2 DEF NewFrame
  <2>6. SameCalls
    BY <2>4, <2>5 DEF SameCalls, Has, Waits
  <2>7. Cut(stk') = <<>>
    BY <2>5 DEF Cut
  <2>8. Drops \/ Joins
    BY <1>0, <2>1, <2>4, ConnectSteps
  <2> QED BY <2>3, <2>4, <2>6, <2>7, <2>8, KnownSteps DEF Calm
<1>2. ASSUME NEW op, InvokeOnWorker(t, op) PROVE Calm
  <2>1. h' = h /\ stk' = stk /\ nreq' = nreq /\ slot' = slot
    BY <1>2 DEF InvokeOnWorker
  <2> QED BY <1>0, <2>1, NotedForms, CallsStay, KnownSteps DEF Calm
<1> QED BY <1>1, <1>2 DEF Caller

LEMMA AnswerSteps ==
    ASSUME ToolTypes, StackInv, PendingInv, LinkInv, Next
    PROVE  AnswerStep
<1>0. LinkStep /\ W \in Threads \union {W} /\ Controllers \subseteq Threads \union {W}
  BY LinkSteps DEF StackInv, IdleInv, Threads
<1>1. CASE Unwind
  BY <1>0, <1>1, AnswerFlash, AnswerReturn, AnswerGone, AnswerHandle, AnswerController
    DEF Unwind, Controller, AnswerStep
<1>2. CASE Take \/ LoopEvent \/ Timeout \/ Service
  BY <1>0, <1>2, AnswerTake, AnswerConnection, AnswerRead, AnswerTimeout DEF LoopEvent, AnswerStep
<1>3. CASE Deinit
  <2>1. stk = <<>> /\ stk' = stk /\ h' = h /\ nreq' = nreq /\ h \in ToolHistory
    BY <1>3 DEF Deinit, ToolTypes
  <2> QED BY <1>0, <2>1, CallsStay, NotedForms, KnownSteps DEF Calm, AnswerStep
<1>4. ASSUME NEW t \in Callers, Caller(t) PROVE AnswerStep
  BY <1>0, <1>4, AnswerCaller DEF AnswerStep
<1>5. ASSUME NEW t \in Controllers, Control(t) \/ Controller(t) PROVE AnswerStep
  BY <1>0, <1>5, AnswerController DEF AnswerStep
<1> QED BY <1>1, <1>2, <1>3, <1>4, <1>5 DEF Next

-----------------------------------------------------------------------------
(* The answers to requests.                                                *)

(* An answer is to come: its request is not handled yet, or it is in the   *)
(* stream; or it has been read, and is about to be handled.                *)
Comes(q, fs, fn, r) == \/ \E i \in DOMAIN q : q[i].fn = fn /\ q[i].rid = r
                       \/ \E x \in DOMAIN fs : fs[x].m.fn = fn /\ fs[x].m.rid = r
AtHand(c, fn, r) == \E i \in DOMAIN c : c[i].fn = fn /\ c[i].rid = r
Done(q, fl, r) == r \notin fl /\ \A i \in DOMAIN q : q[i].rid # r

(* The answers that somebody waits for.  After a reconnect nobody waits    *)
(* for the answer to the registration that refreshAfterReconnect makes.    *)
Names == {"event"} \union Kinds
Sure(fn) == fn = "event" => ~h.resub

(* functionMutex lets one request wait at a time, and the lambda of a      *)
(* request that waits is connected.                                        *)
OneRequest == \A op1, op2 \in Reqs : \A r1, r2 \in Nat :
                Has(stk, op1, r1) /\ Has(stk, op2, r2) => r1 = r2
SlotInv == \A op \in Reqs : \A r \in Nat : Has(stk, op, r) => slot[op] = "live"

(* An answer that has been read comes only once.                           *)
CutInv ==
    \A i \in DOMAIN Cut(stk) : Answers(Cut(stk)[i].fn) =>
        /\ Done(reqs, flashes, Cut(stk)[i].rid) /\ Cut(stk)[i].rid <= nreq
        /\ \A x \in DOMAIN Stream : Answers(Stream[x].m.fn) => Stream[x].m.rid # Cut(stk)[i].rid
        /\ \A j \in DOMAIN Cut(stk) :
            i # j /\ Answers(Cut(stk)[j].fn) => Cut(stk)[j].rid # Cut(stk)[i].rid

(* Until a request times out, the request of each answer waits for it.     *)
AnswerInv ==
    ~h.late => \A fn \in Names : \A r \in Nat :
        Sure(fn) /\ (Comes(reqs, Stream, fn, r) \/ AtHand(Cut(stk), fn, r))
            => Waits(stk, Asker(fn), r)

LEMMA NameProperties ==
    /\ \A fn \in Names : Answers(fn) /\ Asker(fn) \in Reqs /\ fn # "flash" /\ fn # "ind"
    /\ \A fn, gn \in Names : Asker(fn) = Asker(gn) => fn = gn
    /\ \A m \in Msg : m.rid \in Nat /\ m.fn \in {"ind", "flash"} \union Names
                      /\ (Answers(m.fn) => m.fn \in Names)
    /\ "flash" \notin Reqs
  BY ReqNames DEF Names, Answers, Asker, Msg, Reqs

LEMMA CutType ==
    ASSUME StackTypes
    PROVE  /\ Cut(stk) \in Seq(Msg) /\ \A i \in DOMAIN Cut(stk) : Cut(stk)[i] \in Msg
           /\ Cut(stk) # <<>> => /\ 1 \in DOMAIN Cut(stk) /\ Head(Cut(stk)) = Cut(stk)[1]
                                 /\ \A i \in DOMAIN Tail(Cut(stk)) :
                                      /\ i \in Nat /\ i + 1 \in DOMAIN Cut(stk) /\ i + 1 # 1
                                      /\ Tail(Cut(stk))[i] = Cut(stk)[i + 1]
<1> DEFINE c == Cut(stk)
<1>1. c \in Seq(Msg)
  <2>1. CASE stk # <<>> /\ stk[1].op = "rx"
    <3>1. stk[1] \in Frame
      BY <2>1, BelowProperties DEF StackTypes
    <3>2. stk[1].list \in Seq(Msg)
      BY <3>1 DEF Frame
    <3> QED BY <2>1, <3>2 DEF Cut
  <2>2. CASE ~(stk # <<>> /\ stk[1].op = "rx")
    BY <2>2 DEF Cut
  <2> QED BY <2>1, <2>2
<1> HIDE DEF c
<1>2. \A i \in DOMAIN c : c[i] \in Msg
  BY <1>1, LenProperties, ElementOfSeq
<1>3. ASSUME c # <<>>
      PROVE  /\ 1 \in DOMAIN c /\ Head(c) = c[1]
             /\ \A i \in DOMAIN Tail(c) : i \in Nat /\ i + 1 \in DOMAIN c /\ i + 1 # 1 /\ Tail(c)[i] = c[i + 1]
  <2>1. Len(c) \in Nat /\ Len(c) # 0 /\ DOMAIN c = 1..Len(c) /\ Head(c) = c[1]
    BY <1>1, <1>3, LenProperties, EmptySeq, HeadTailProperties
  <2>2. /\ Tail(c) \in Seq(Msg) /\ Len(Tail(c)) = Len(c) - 1
        /\ \A i \in 1..(Len(c) - 1) : Tail(c)[i] = c[i + 1]
    BY <1>1, <1>3, HeadTailProperties
  <2>3. DOMAIN Tail(c) = 1..(Len(c) - 1)
    BY <2>2, LenProperties
  <2>4. \A i \in 1..(Len(c) - 1) : i \in Nat /\ i + 1 \in 1..Len(c) /\ i + 1 # 1
    BY <2>1
  <2>5. 1 \in 1..Len(c)
    BY <2>1
  <2> QED BY <2>1, <2>2, <2>3, <2>4, <2>5
<1> QED BY <1>1, <1>2, <1>3 DEF c

LEMMA CallNext ==
    ASSUME ToolTypes, OneRequest, SlotInv, AnswerStep
    PROVE  OneRequest' /\ SlotInv'
<1>0. slot \in [Reqs -> {"none", "live", "dead"}] /\ nreq \in Nat
  BY DEF ToolTypes, CallTypes, CountTypes
<1>1. ASSUME \A op \in Reqs : \A r : Has(stk', op, r) => Has(stk, op, r), slot' = slot \/ stk' = <<>>
      PROVE  OneRequest' /\ SlotInv'
  <2>1. OneRequest'
    BY <1>1 DEF OneRequest
  <2>2. stk' = <<>> => \A op, r : ~Has(stk', op, r)
    BY DEF Has
  <2> QED BY <1>1, <2>1, <2>2 DEF SlotInv
<1>2. CASE Calm \/ ReadStep \/ RequestLate
  BY <1>1, <1>2 DEF Calm, ReadStep, RequestLate, SameCalls
<1>3. CASE FlashAsks \/ \E r \in Nat : FlashGone(r)
  BY <1>1, <1>3, NameProperties DEF FlashAsks, FlashGone
<1>4. CASE \E m \in Msg : HandlesReport(m) \/ HandlesAnswer(m)
  BY <1>1, <1>4 DEF HandlesReport, HandlesAnswer, Handles, SameCalls
<1>5. CASE RequestGone
  <2> DEFINE f == Head(stk)
  <2>1. /\ \A op, r : Has(stk', op, r) <=> Has(stk, op, r) /\ ~(op = f.op /\ r = f.rid)
        /\ Has(stk, f.op, f.rid) /\ f.op \in Reqs /\ f.rid \in Nat
        /\ slot' = [slot EXCEPT ![f.op] = "dead"]
    BY <1>5 DEF RequestGone
  <2> HIDE DEF f
  <2>2. OneRequest'
    BY <2>1 DEF OneRequest
  <2>3. ASSUME NEW op \in Reqs, NEW r \in Nat, Has(stk', op, r) PROVE slot'[op] = "live"
    <3>1. r = f.rid /\ Has(stk, op, r)
      BY <2>1, <2>3 DEF OneRequest
    <3>2. op # f.op
      BY <2>1, <2>3, <3>1
    <3> QED BY <1>0, <2>1, <3>1, <3>2 DEF SlotInv
  <2> QED BY <2>2, <2>3 DEF SlotInv
<1>6. ASSUME NEW fn \in Names, RequestAsks(fn) PROVE OneRequest' /\ SlotInv'
  <2>1. /\ \A op \in Reqs : \A r : ~Has(stk, op, r)
        /\ \A op, r : Has(stk', op, r) <=> Has(stk, op, r) \/ (op = Asker(fn) /\ r = nreq + 1)
        /\ slot' = [slot EXCEPT ![Asker(fn)] = "live"]
    BY <1>6 DEF RequestAsks
  <2>2. OneRequest'
    BY <2>1 DEF OneRequest
  <2>3. slot'[Asker(fn)] = "live"
    BY <1>0, <2>1, NameProperties
  <2>4. SlotInv'
    BY <2>1, <2>3 DEF SlotInv
  <2> QED BY <2>2, <2>4
<1> QED BY <1>2, <1>3, <1>4, <1>5, <1>6 DEF AnswerStep, Names

(* What is done stays done.                                                *)
LEMMA DoneStays ==
    ASSUME ToolTypes, PendingInv, LinkStep, NEW r \in Nat, r <= nreq, Done(reqs, flashes, r)
    PROVE  Done(reqs', flashes', r) /\ r <= nreq'
<1>0. /\ nreq' \in Nat /\ nreq' >= nreq /\ nreq \in Nat
      /\ \A i \in DOMAIN reqs' :
                \/ reqs'[i].rid = nreq + 1 /\ nreq' = nreq + 1
                \/ \E j \in DOMAIN reqs : reqs'[i] = reqs[j]
      /\ \A q \in flashes' : q \in flashes \/ \E j \in DOMAIN reqs : reqs[j].rid = q
  BY PendingSteps
<1>1. r # nreq + 1 /\ r <= nreq'
  BY <1>0
<1> QED BY <1>0, <1>1 DEF Done

LEMMA ComesFrom ==
    ASSUME ToolTypes, stk # <<>> => inst, StreamInv, Next, NEW fn \in Names, NEW r \in Nat,
           Comes(reqs', Stream', fn, r)
    PROVE  \/ Comes(reqs, Stream, fn, r)
           \/ \E i \in DOMAIN reqs' : reqs'[i].fn = fn /\ reqs'[i].rid = r
<1>1. CASE \E x \in DOMAIN Stream' : Stream'[x].m.fn = fn /\ Stream'[x].m.rid = r
  <2>1. PICK x \in DOMAIN Stream' : Stream'[x].m.fn = fn /\ Stream'[x].m.rid = r
    BY <1>1
  <2>2. CASE \E y \in DOMAIN Stream : Stream'[x] = Stream[y]
    BY <2>1, <2>2 DEF Comes
  <2>3. ASSUME NEW m \in Msg, Sends(m), Stream'[x].m = m
        PROVE  Comes(reqs, Stream, fn, r)
    <3>1. m.fn = fn /\ m.rid = r /\ Answers(m.fn)
      BY <2>1, <2>3, NameProperties
    <3>2. \E i \in DOMAIN reqs : reqs[i].rid = m.rid /\ reqs[i].fn = m.fn
      BY <2>3, <3>1, SentOnce, IndsGrow DEF StreamInv
    <3> QED BY <3>1, <3>2 DEF Comes
  <2> QED BY <2>1, <2>2, <2>3, StreamSteps
<1> QED BY <1>1 DEF Comes

LEMMA CutNext ==
    ASSUME ToolTypes, StackInv, StreamInv, CutInv, Next
    PROVE  CutInv'
<1>0. /\ AnswerStep /\ LinkStep /\ StreamTypes /\ PendingInv /\ StackTypes /\ nreq \in Nat
      /\ (stk # <<>> => inst) /\ inds' \in Nat
  BY AnswerSteps, LinkSteps, IndsGrow DEF StackInv, IdleInv, StreamInv, ToolTypes, CountTypes
<1> DEFINE c == Cut(stk)
           d == Cut(stk')
<1>1. c \in Seq(Msg) /\ \A i \in DOMAIN c : c[i] \in Msg /\ i \in Nat
  BY <1>0, CutType, LenProperties
<1>2. CASE d = <<>>
  <2>1. DOMAIN d = {}
    BY <1>2
  <2> QED BY <2>1 DEF CutInv
<1>3. ASSUME NEW n \in {0, 1},
             \A i \in DOMAIN d : i \in Nat /\ i + n \in DOMAIN c /\ d[i] = c[i + n]
      PROVE  CutInv'
  <2> HIDE DEF c, d
  <2>1. ASSUME NEW i \in DOMAIN d, Answers(d[i].fn)
        PROVE  /\ Done(reqs', flashes', d[i].rid) /\ d[i].rid <= nreq'
               /\ \A x \in DOMAIN Stream' : Answers(Stream'[x].m.fn) => Stream'[x].m.rid # d[i].rid
               /\ \A j \in DOMAIN d : i # j /\ Answers(d[j].fn) => d[j].rid # d[i].rid
    <3>0. d[i] = c[i + n] /\ i + n \in DOMAIN c /\ d[i] \in Msg /\ d[i].rid \in Nat
      BY <1>1, <1>3, NameProperties
    <3>1. /\ Done(reqs, flashes, d[i].rid) /\ d[i].rid <= nreq
          /\ \A x \in DOMAIN Stream : Answers(Stream[x].m.fn) => Stream[x].m.rid # d[i].rid
          /\ \A j \in DOMAIN c : i + n # j /\ Answers(c[j].fn) => c[j].rid # d[i].rid
      BY <2>1, <3>0 DEF CutInv, c
    <3>2. Done(reqs', flashes', d[i].rid) /\ d[i].rid <= nreq'
      BY <1>0, <3>0, <3>1, DoneStays
    <3>3. ASSUME NEW x \in DOMAIN Stream', Answers(Stream'[x].m.fn) PROVE Stream'[x].m.rid # d[i].rid
      <4>1. CASE \E y \in DOMAIN Stream : Stream'[x] = Stream[y]
        BY <3>1, <3>3, <4>1
      <4>2. ASSUME NEW m \in Msg, Sends(m), Stream'[x].m = m PROVE m.rid # d[i].rid
        <5>1. \E k \in DOMAIN reqs : reqs[k].rid = m.rid
          BY <1>0, <3>3, <4>2, SentOnce
        <5> QED BY <3>1, <5>1 DEF Done
      <4> QED BY <1>0, <4>1, <4>2, StreamSteps
    <3>4. ASSUME NEW j \in DOMAIN d, i # j, Answers(d[j].fn) PROVE d[j].rid # d[i].rid
      <4>1. j + n \in DOMAIN c /\ d[j] = c[j + n] /\ i + n # j + n
        BY <1>3, <3>4
      <4> QED BY <3>1, <3>4, <4>1
    <3> QED BY <3>2, <3>3, <3>4
  <2> QED BY <2>1 DEF CutInv, d
<1>4. CASE ReadStep
  <2>1. PICK k \in 1..Len(net) : Reads(k) /\ d = Objects(rx \o SubSeq(net, 1, k))
    BY <1>4 DEF ReadStep
  <2>2. UNCHANGED <<reqs, flashes, nreq>>
    BY <2>1 DEF Reads
  <2>3. CASE Objects(rx \o SubSeq(net, 1, k)) = <<>>
    BY <1>2, <2>1, <2>3
  <2>4. ASSUME NEW e \in Nat, Whole,
               DOMAIN d = 1..e,
               \A i \in 1..e : /\ 2 * i \in DOMAIN Stream /\ d[i] = Stream[2 * i].m
                               /\ Stream[2 * i].last,
               \A x \in DOMAIN Stream' : /\ 2 * e + x \in DOMAIN Stream
                                         /\ Stream'[x] = Stream[2 * e + x]
        PROVE  CutInv'
    <3> HIDE DEF d
    <3>0. StreamTypes'
      BY StreamTypesNext, <1>0
    <3>1. DOMAIN Stream' \subseteq Nat /\ \A x \in DOMAIN Stream' : x >= 1
      <4>1. Stream' \in Seq(Frag)
        BY <3>0 DEF Stream, StreamTypes
      <4> HIDE DEF d
      <4> QED BY <4>1, LenProperties
    <3>2. Paired(Stream) /\ Once(Stream)
      BY <2>4 DEF Whole
    <3>3. ASSUME NEW i \in 1..e, Answers(d[i].fn)
          PROVE  /\ Done(reqs', flashes', d[i].rid) /\ d[i].rid <= nreq'
                 /\ \A x \in DOMAIN Stream' : Answers(Stream'[x].m.fn) => Stream'[x].m.rid # d[i].rid
                 /\ \A j \in DOMAIN d : i # j /\ Answers(d[j].fn) => d[j].rid # d[i].rid
      <4>1. 2 * i \in DOMAIN Stream /\ d[i] = Stream[2 * i].m /\ Spent(Stream[2 * i].m)
            /\ Stream[2 * i].m.rid <= nreq
        BY <2>4 DEF StreamInv, SpentInv
      <4>2. d[i].fn # "ind"
        BY <3>3 DEF Answers
      <4>3. Done(reqs', flashes', d[i].rid) /\ d[i].rid <= nreq'
        BY <2>2, <4>1, <4>2 DEF Spent, Done
      <4>4. ASSUME NEW x \in DOMAIN Stream', Answers(Stream'[x].m.fn) PROVE Stream'[x].m.rid # d[i].rid
        <5>1. 2 * e + x \in DOMAIN Stream /\ Stream'[x] = Stream[2 * e + x]
          BY <2>4
        <5>2. 2 * i < 2 * e + x
          BY <3>1
        <5>3. (2 * i + 1) % 2 # 0
          OBVIOUS
        <5>4. 2 * e + x = 2 * i + 1 => ~Stream[2 * e + x].last
          BY <3>2, <5>1, <5>3 DEF Paired
        <5> QED BY <3>2, <3>3, <4>1, <4>4, <5>1, <5>2, <5>4 DEF Once
      <4>5. ASSUME NEW j \in DOMAIN d, i # j, Answers(d[j].fn) PROVE d[j].rid # d[i].rid
        <5>1. 2 * j \in DOMAIN Stream /\ d[j] = Stream[2 * j].m /\ j \in 1..e
          BY <2>4
        <5>2. (2 * i < 2 * j \/ 2 * j < 2 * i) /\ 2 * i # 2 * j + 1 /\ 2 * j # 2 * i + 1
          BY <4>5, <5>1
        <5> QED BY <3>2, <3>3, <4>1, <4>5, <5>1, <5>2 DEF Once
      <4> QED BY <4>3, <4>4, <4>5
    <3> QED BY <2>4, <3>3 DEF CutInv, d
  <2> HIDE DEF d
  <2>5. \/ Objects(rx \o SubSeq(net, 1, k)) = <<>>
        \/ Whole /\ \E e \in Nat :
               /\ DOMAIN d = 1..e
               /\ \A i \in 1..e : /\ 2 * i \in DOMAIN Stream /\ d[i] = Stream[2 * i].m
                                  /\ Stream[2 * i].last
               /\ \A x \in DOMAIN Stream' : /\ 2 * e + x \in DOMAIN Stream
                                            /\ Stream'[x] = Stream[2 * e + x]
    BY <1>0, <2>1, ReadStream DEF StreamInv
  <2> QED BY <2>3, <2>4, <2>5
<1>5. CASE \E m \in Msg : HandlesReport(m) \/ HandlesAnswer(m)
  <2>1. c # <<>> /\ d = Tail(c)
    BY <1>5 DEF HandlesReport, HandlesAnswer, Handles
  <2>2. \A i \in DOMAIN d : i \in Nat /\ i + 1 \in DOMAIN c /\ d[i] = c[i + 1]
    BY <1>0, <2>1, CutType
  <2> QED BY <1>3, <2>2
<1>6. CASE d = c
  <2>1. \A i \in DOMAIN d : i \in Nat /\ i + 0 \in DOMAIN c /\ d[i] = c[i + 0]
    <3> HIDE DEF c, d
    <3> QED BY <1>1, <1>6
  <2> QED BY <1>3, <2>1
<1> QED BY <1>0, <1>2, <1>4, <1>5, <1>6
      DEF AnswerStep, Calm, FlashAsks, RequestAsks, RequestGone, FlashGone, RequestLate

LEMMA AnswerNext ==
    ASSUME ToolTypes, StackInv, StreamInv, OneRequest, CutInv, AnswerInv, Next
    PROVE  AnswerInv'
<1>0. /\ AnswerStep /\ LinkStep /\ StreamTypes /\ PendingInv /\ StackTypes /\ nreq \in Nat
      /\ (stk # <<>> => inst) /\ reqs \in Seq(Request)
  BY AnswerSteps, LinkSteps
    DEF StackInv, IdleInv, StreamInv, ToolTypes, CountTypes, ServiceTypes
<1> DEFINE c == Cut(stk)
           d == Cut(stk')
<1>1. c \in Seq(Msg) /\ \A i \in DOMAIN c : c[i] \in Msg
  BY <1>0, CutType
<1> SUFFICES ASSUME ~h'.late, NEW fn \in Names, NEW r \in Nat, (Sure(fn))',
                    Comes(reqs', Stream', fn, r) \/ AtHand(d, fn, r)
             PROVE  Waits(stk', Asker(fn), r)
  BY DEF AnswerInv
<1>2. ~h.late /\ Sure(fn)
  BY <1>0 DEF AnswerStep, Calm, FlashAsks, RequestAsks, ReadStep, HandlesReport, HandlesAnswer,
    RequestGone, FlashGone, RequestLate, Noted, Sure
<1>3. Comes(reqs, Stream, fn, r) \/ AtHand(c, fn, r) => Waits(stk, Asker(fn), r)
  BY <1>2 DEF AnswerInv
<1>4. Asker(fn) \in Reqs /\ fn # "flash" /\ Answers(fn)
  BY NameProperties
<1>5. ASSUME Known \/ Drops \/ Asks("flash"), Comes(reqs', Stream', fn, r)
      PROVE  Comes(reqs, Stream, fn, r)
  <2>1. ASSUME NEW i \in DOMAIN reqs', reqs'[i].fn = fn, reqs'[i].rid = r
        PROVE  Comes(reqs, Stream, fn, r)
    <3>1. \E j \in DOMAIN reqs : reqs'[i] = reqs[j]
      BY <1>4, <1>5, <2>1, AskedSteps DEF Known, Drops, Sure
    <3> QED BY <2>1, <3>1 DEF Comes
  <2> QED BY <1>0, <1>5, <2>1, ComesFrom
<1>6. nreq' = nreq => Known
  BY <1>0, KnownSteps
<1>7. ASSUME \A i \in DOMAIN d : \E j \in DOMAIN c : d[i] = c[j], AtHand(d, fn, r)
      PROVE  AtHand(c, fn, r)
  BY <1>7 DEF AtHand
<1>8. c # <<>> /\ d = Tail(c) => \A i \in DOMAIN d : \E j \in DOMAIN c : j # 1 /\ d[i] = c[j]
  BY <1>0, CutType
<1>9. d = <<>> => ~AtHand(d, fn, r)
  BY DEF AtHand
<1>10. ASSUME Known \/ Drops \/ Asks("flash"), d = c \/ d = <<>> PROVE Waits(stk, Asker(fn), r)
  BY <1>3, <1>5, <1>9, <1>10
<1>11. CASE Calm \/ FlashAsks
  BY <1>4, <1>10, <1>11 DEF Calm, FlashAsks, SameCalls
<1>12. CASE RequestGone \/ \E q \in Nat : FlashGone(q)
  <2>1. Known /\ d = <<>>
    BY <1>6, <1>12 DEF RequestGone, FlashGone, Still
  <2> QED BY <1>4, <1>10, <1>12, <2>1 DEF RequestGone, FlashGone
<1>13. CASE RequestLate
  BY <1>13 DEF RequestLate
<1>14. CASE ReadStep
  <2>1. PICK k \in 1..Len(net) : Reads(k) /\ d = Objects(rx \o SubSeq(net, 1, k))
    BY <1>14 DEF ReadStep
  <2>2. Known
    BY <1>6, <2>1 DEF Reads
  <2>3. AtHand(d, fn, r) => Comes(reqs, Stream, fn, r)
    <3> HIDE DEF d
    <3>1. \A i \in DOMAIN d : \E y \in DOMAIN Stream : d[i] = Stream[y].m
      BY <1>0, <2>1, ReadStream DEF StreamInv
    <3> QED BY <3>1 DEF AtHand, Comes
  <2>4. Waits(stk, Asker(fn), r)
    BY <1>3, <1>5, <2>2, <2>3
  <2> QED BY <1>4, <1>14, <2>4 DEF ReadStep, SameCalls
<1>15. ASSUME NEW m \in Msg, HandlesReport(m) PROVE Waits(stk', Asker(fn), r)
  <2>1. Known /\ c # <<>> /\ d = Tail(c)
    BY <1>6, <1>15 DEF HandlesReport, Handles, Still
  <2>2. Waits(stk, Asker(fn), r)
    BY <1>3, <1>5, <1>7, <1>8, <2>1
  <2> QED BY <1>4, <1>15, <2>2 DEF HandlesReport, SameCalls
<1>16. ASSUME NEW m \in Msg, HandlesAnswer(m) PROVE Waits(stk', Asker(fn), r)
  <2>1. Known /\ c # <<>> /\ m = Head(c) /\ d = Tail(c) /\ Answers(m.fn)
    BY <1>6, <1>16 DEF HandlesAnswer, Handles, Still
  <2>2. Comes(reqs, Stream, fn, r) \/ \E j \in DOMAIN c : j # 1 /\ c[j].fn = fn /\ c[j].rid = r
    BY <1>5, <1>8, <2>1 DEF AtHand
  <2>3. Waits(stk, Asker(fn), r)
    BY <1>3, <2>2 DEF AtHand
  <2>4. CASE Asker(fn) # Asker(m.fn)
    BY <1>4, <1>16, <2>3, <2>4 DEF HandlesAnswer
  <2>5. CASE Asker(fn) = Asker(m.fn)
    <3>1. m.fn = fn /\ m.rid \in Nat
      BY <2>1, <2>5, NameProperties
    <3>2. 1 \in DOMAIN c /\ c[1] = m
      BY <1>0, <2>1, CutType
    <3>3. Waits(stk, Asker(fn), m.rid)
      BY <1>2, <3>1, <3>2 DEF AnswerInv, AtHand
    <3>4. r = m.rid
      <4>1. Has(stk, Asker(fn), r) /\ Has(stk, Asker(fn), m.rid)
        BY <2>3, <3>3 DEF Has, Waits
      <4> QED BY <1>4, <3>1, <4>1 DEF OneRequest
    <3>5. /\ Done(reqs, flashes, m.rid)
          /\ \A x \in DOMAIN Stream : Answers(Stream[x].m.fn) => Stream[x].m.rid # m.rid
          /\ \A j \in DOMAIN c : 1 # j /\ Answers(c[j].fn) => c[j].rid # m.rid
      BY <2>1, <3>2 DEF CutInv
    <3>6. FALSE
      BY <1>4, <2>2, <3>4, <3>5 DEF Comes, Done
    <3> QED BY <3>6
  <2> QED BY <2>4, <2>5
<1>17. ASSUME NEW gn \in Names, RequestAsks(gn) PROVE Waits(stk', Asker(fn), r)
  <2>1. ~Waits(stk, Asker(fn), r)
    <3>1. ~Has(stk, Asker(fn), r)
      BY <1>4, <1>17 DEF RequestAsks
    <3> QED BY <3>1 DEF Has, Waits
  <2>2. d = <<>> /\ Comes(reqs', Stream', fn, r)
    BY <1>9, <1>17 DEF RequestAsks
  <2>3. ~Comes(reqs, Stream, fn, r)
    BY <1>3, <2>1
  <2>4. PICK i \in DOMAIN reqs' : reqs'[i].fn = fn /\ reqs'[i].rid = r
    BY <1>0, <2>2, <2>3, ComesFrom
  <2>5. \A j \in DOMAIN reqs : reqs'[i] # reqs[j]
    BY <2>3, <2>4 DEF Comes
  <2>6. CASE Drops
    BY <2>5, <2>6 DEF Drops
  <2>7. CASE Asks(gn)
    <3>1. fn = gn /\ r = nreq + 1
      BY <2>4, <2>5, <2>7, AskedSteps DEF Names
    <3> QED BY <1>17, <3>1 DEF RequestAsks
  <2> QED BY <1>17, <2>6, <2>7 DEF RequestAsks
<1> QED BY <1>0, <1>11, <1>12, <1>13, <1>14, <1>15, <1>16, <1>17 DEF AnswerStep, Names

(* What is recorded of the answers.                                        *)
LEMMA RequestAnswersNext ==
    ASSUME ToolTypes, OneRequest, SlotInv, AnswerInv, RequestAnswers, AnswerStep
    PROVE  RequestAnswers'
<1>1. ASSUME NEW m \in Msg, HandlesAnswer(m) PROVE RequestAnswers'
  <2> DEFINE c == Cut(stk)
  <2>1. /\ h'.late = h.late /\ h'.resub = h.resub /\ Answers(m.fn) /\ c # <<>> /\ m = Head(c)
        /\ h'.wild => h.wild \/ slot[Asker(m.fn)] = "dead"
        /\ h'.wrong => \/ h.wrong
                       \/ \E r \in Nat : m.fn # "event" /\ Has(stk, Asker(m.fn), r) /\ r # m.rid
    BY <1>1 DEF HandlesAnswer, Handles
  <2>2. CASE h.late
    BY <2>1, <2>2 DEF RequestAnswers
  <2>3. CASE ~h.late /\ m.fn = "event" /\ h.resub
    BY <2>1, <2>3 DEF RequestAnswers
  <2>4. CASE ~h.late /\ ~(m.fn = "event" /\ h.resub)
    <3>1. m.fn \in Names /\ Sure(m.fn) /\ Asker(m.fn) \in Reqs /\ m.rid \in Nat
      BY <2>1, <2>4, NameProperties DEF Sure
    <3>2. 1 \in DOMAIN c /\ c[1] = m
      BY <2>1, CutType DEF ToolTypes
    <3>3. AtHand(c, m.fn, m.rid)
      BY <3>2 DEF AtHand
    <3>4. Has(stk, Asker(m.fn), m.rid)
      <4>1. Waits(stk, Asker(m.fn), m.rid)
        BY <2>4, <3>1, <3>3 DEF AnswerInv
      <4> QED BY <4>1 DEF Has, Waits
    <3>5. slot[Asker(m.fn)] = "live"
      BY <3>1, <3>4 DEF SlotInv
    <3>6. \A r \in Nat : Has(stk, Asker(m.fn), r) => r = m.rid
      BY <3>1, <3>4 DEF OneRequest
    <3> QED BY <2>1, <2>4, <3>5, <3>6 DEF RequestAnswers
  <2> QED BY <2>2, <2>3, <2>4
<1>2. CASE Calm \/ FlashAsks \/ ReadStep \/ RequestGone \/ \E fn \in {"event"} \union Kinds : RequestAsks(fn)
  <2>1. Noted
    BY <1>2 DEF Calm, FlashAsks, ReadStep, RequestGone, RequestAsks
  <2> QED BY <2>1 DEF Noted, RequestAnswers
<1>3. CASE RequestLate
  BY <1>3 DEF RequestLate, RequestAnswers
<1>4. ASSUME NEW m \in Msg, HandlesReport(m) PROVE RequestAnswers'
  BY <1>4 DEF HandlesReport, RequestAnswers
<1>5. ASSUME NEW r \in Nat, FlashGone(r) PROVE RequestAnswers'
  BY <1>5 DEF FlashGone, RequestAnswers
<1> QED BY <1>1, <1>2, <1>3, <1>4, <1>5 DEF AnswerStep

LEMMA RequestInvariant == Spec => [](OneRequest /\ SlotInv /\ CutInv /\ AnswerInv /\ RequestAnswers)
<1>1. Init => OneRequest /\ SlotInv /\ CutInv /\ AnswerInv /\ RequestAnswers
  <2> SUFFICES ASSUME Init PROVE OneRequest /\ SlotInv /\ CutInv /\ AnswerInv /\ RequestAnswers
    OBVIOUS
  <2>1. stk = <<>> /\ reqs = <<>> /\ rx = <<>> /\ net = <<>> /\ ~h.wrong /\ ~h.wild
    BY DEF Init
  <2>2. \A op, r : ~Has(stk, op, r)
    BY <2>1 DEF Has
  <2>3. Cut(stk) = <<>> /\ Stream = <<>>
    BY <2>1 DEF Cut, Stream
  <2>4. \A fn, r : ~Comes(reqs, Stream, fn, r) /\ ~AtHand(Cut(stk), fn, r)
    BY <2>1, <2>3 DEF Comes, AtHand
  <2>5. CutInv
    BY <2>3 DEF CutInv
  <2> QED BY <2>1, <2>2, <2>4, <2>5 DEF OneRequest, SlotInv, AnswerInv, RequestAnswers
<1>2. /\ ToolTypes /\ StackInv /\ StreamInv /\ [Next]_vars
      /\ OneRequest /\ SlotInv /\ CutInv /\ AnswerInv /\ RequestAnswers
      => (OneRequest /\ SlotInv /\ CutInv /\ AnswerInv /\ RequestAnswers)'
  <2> SUFFICES ASSUME ToolTypes, StackInv, StreamInv, [Next]_vars,
                      OneRequest, SlotInv, CutInv, AnswerInv, RequestAnswers
               PROVE  (OneRequest /\ SlotInv /\ CutInv /\ AnswerInv /\ RequestAnswers)'
    OBVIOUS
  <2>1. CASE UNCHANGED vars
    <3>1. UNCHANGED <<stk, slot, rx, net, reqs, flashes, nreq, h>>
      BY <2>1 DEF vars, socket, calling, service, bounds
    <3> QED BY <3>1 DEF OneRequest, SlotInv, CutInv, AnswerInv, RequestAnswers, Sure, Stream
  <2>2. CASE Next
    <3>1. AnswerStep
      BY <2>2, AnswerSteps DEF StreamInv
    <3> QED BY <2>2, <3>1, CallNext, CutNext, AnswerNext, RequestAnswersNext
  <2> QED BY <2>1, <2>2
<1> QED BY <1>1, <1>2, ToolInvariant, ToolStreamInvariant, PTL DEF Spec

-----------------------------------------------------------------------------
(* The reports of a flash.                                                 *)

(* What the client will still find in the stream.                          *)
Live == IF Stuck THEN <<>> ELSE Stream

(* A flash is not over for the service, or its answer will be read.        *)
Owed(q, fl, fs, r) ==
    \/ \E i \in DOMAIN q : q[i].fn = "flash" /\ q[i].rid = r
    \/ r \in fl
    \/ \E x \in DOMAIN fs : fs[x].last /\ fs[x].m.fn = "flash" /\ fs[x].m.rid = r

(* Unless a TriggerFlash returned too early, the service works for the one *)
(* that is on the stack, and all that is reported is about that one.       *)
FlashInv ==
    ~h.early =>
        /\ \A r \in Nat : Owed(reqs, flashes, Live, r) => Has(stk, "flash", r)
        /\ \A q \in Nat : Has(stk, "flash", q) =>
            /\ \A x \in DOMAIN Live : Live[x].last /\ ~Answers(Live[x].m.fn) => Live[x].m.rid = q
            /\ \A i \in DOMAIN Cut(stk) : ~Answers(Cut(stk)[i].fn) => Cut(stk)[i].rid = q

(* Progress is sent before the answer.                                     *)
ProgressInv ==
    conn => \A x \in DOMAIN Live : Live[x].last /\ Live[x].m.fn = "ind" =>
        \/ Live[x].m.rid \in flashes
        \/ \E y \in DOMAIN Live : /\ y > x /\ Live[y].last /\ Live[y].m.fn = "flash"
                                  /\ Live[y].m.rid = Live[x].m.rid

OneCaller == \A s, t \in Callers : s = t

(* What a step does to it.                                                 *)
LiveSame == Live' = Live /\ UNCHANGED conn /\ flashes \subseteq flashes'
LiveReads == /\ UNCHANGED <<conn, flashes>>
             /\ \E e \in Nat : /\ \A x \in DOMAIN Live' : /\ 2 * e + x \in DOMAIN Live
                                                          /\ Live'[x] = Live[2 * e + x]
                               /\ \A y \in DOMAIN Live : y > 2 * e => y - 2 * e \in DOMAIN Live'
LiveSends(m) ==
    /\ Sends(m)
    /\ \A x \in DOMAIN Live : x \in DOMAIN Live' /\ Live'[x] = Live[x]
    /\ \A x \in DOMAIN Live' : x \in DOMAIN Live \/ ~Live'[x].last \/ Live'[x].m = m
    /\ \E y \in DOMAIN Live' : Live'[y].last /\ Live'[y].m = m /\ \A x \in DOMAIN Live : y > x
LiveBreaks == ~conn' /\ \A x \in DOMAIN Live' : x \in DOMAIN Live /\ Live'[x] = Live[x]
LiveStep == Live' = <<>> \/ LiveSame \/ LiveReads \/ LiveBreaks \/ \E m \in Msg : LiveSends(m)

LEMMA LiveType ==
    ASSUME StreamTypes
    PROVE  Live \in Seq(Frag) /\ DOMAIN Live \subseteq Nat /\ \A x \in DOMAIN Live : x >= 1
<1>1. Stream \in Seq(Frag)
  BY StreamType
<1>2. Live \in Seq(Frag)
  BY <1>1 DEF Live
<1> HIDE DEF Live
<1> QED BY <1>2, LenProperties

LEMMA LiveSteps ==
    ASSUME ToolTypes, stk # <<>> => inst, StreamInv, Next
    PROVE  LiveStep
<1>0. /\ LinkStep /\ inds' \in Nat /\ StreamTypes /\ StreamTypes' /\ (Whole \/ Stuck)
      /\ (Whole' \/ Stuck') /\ (Stuck => Stuck' \/ Stream' = <<>>)
  BY LinkSteps, IndsGrow, StreamSteps, StreamTypesNext DEF StreamInv, ToolTypes
<1>1. CASE Stuck' \/ Stuck
  <2>1. Live' = <<>>
    BY <1>0, <1>1 DEF Live
  <2> QED BY <2>1 DEF LiveStep
<1>2. CASE ~Stuck' /\ ~Stuck
  <2>0. Live = Stream /\ Live' = Stream' /\ Whole /\ Whole'
    BY <1>0, <1>2 DEF Live
  <2>1. CASE UNCHANGED <<rx, net, conn>> /\ flashes \subseteq flashes'
    BY <2>0, <2>1 DEF Stream, LiveSame, LiveStep
  <2>2. CASE rx' = rx /\ net' = <<>>
    <3>1. rx \in Seq(Frag) /\ Stream' = rx /\ Len(rx) \in Nat
      BY <1>0, <2>2, LenProperties DEF Stream, StreamTypes
    <3>2. CASE rx = <<>>
      BY <2>0, <3>1, <3>2 DEF LiveStep
    <3>3. CASE rx # <<>>
      <4>1. Len(rx) = 1 /\ 1 \in DOMAIN rx /\ Paired(rx)
        <5>1. Len(rx) # 0 /\ Len(rx) <= 1 /\ DOMAIN rx = 1..Len(rx) /\ Paired(rx)
          BY <2>0, <2>2, <3>1, <3>3, LenProperties, EmptySeq DEF Whole
        <5> QED BY <3>1, <5>1
      <4>2. 1 % 2 # 0
        OBVIOUS
      <4>3. ~rx[1].last
        BY <4>1, <4>2 DEF Paired
      <4>4. Stuck'
        BY <2>2, <3>1, <3>3, <4>1, <4>3 DEF Stuck
      <4> QED BY <1>2, <4>4
    <3> QED BY <3>2, <3>3
  <2>3. CASE Clears
    BY <2>0, <2>3 DEF Clears, Stream, LiveStep
  <2>4. ASSUME NEW k \in 1..Len(net), Reads(k) PROVE LiveReads
    <3>1. PICK e \in Nat : /\ Len(Stream') = Len(Stream) - 2 * e
                           /\ \A x \in DOMAIN Stream' : /\ 2 * e + x \in DOMAIN Stream
                                                        /\ Stream'[x] = Stream[2 * e + x]
      BY <1>0, <1>2, <2>4, ReadStream
    <3>2. Stream \in Seq(Frag) /\ Stream' \in Seq(Frag)
      BY <1>0, StreamType DEF Stream, StreamTypes
    <3>3. DOMAIN Stream = 1..Len(Stream) /\ DOMAIN Stream' = 1..Len(Stream') /\ Len(Stream) \in Nat
      BY <3>2, LenProperties
    <3>4. \A y \in DOMAIN Stream : y > 2 * e => y - 2 * e \in DOMAIN Stream'
      <4> HIDE DEF Stream
      <4>1. ASSUME NEW a \in Nat, NEW b, b = a - 2 * e, NEW y \in 1..a, y > 2 * e
            PROVE  y - 2 * e \in 1..b
        BY <4>1
      <4> QED BY <3>1, <3>3, <4>1
    <3>5. UNCHANGED <<conn, flashes>>
      BY <2>4 DEF Reads
    <3> QED BY <2>0, <3>1, <3>4, <3>5 DEF LiveReads
  <2>5. ASSUME NEW m \in Msg, Sends(m) PROVE LiveSends(m)
    <3> DEFINE L == Len(Stream)
    <3>1. /\ DOMAIN Stream' = 1..(L + 2)
          /\ \A i \in DOMAIN Stream : Stream'[i] = Stream[i]
          /\ Stream'[L + 1] = [m |-> m, last |-> FALSE]
          /\ Stream'[L + 2] = [m |-> m, last |-> TRUE]
      BY <1>0, <2>5, StreamGrows DEF Sends
    <3>2. L \in Nat /\ DOMAIN Stream = 1..L
      BY <1>0, StreamType
    <3> HIDE DEF L
    <3>3. /\ ~Stream'[L + 1].last /\ Stream'[L + 2].last /\ Stream'[L + 2].m = m
          /\ L + 2 \in 1..(L + 2)
      BY <3>1, <3>2
    <3>4. \A x \in 1..(L + 2) : x \in 1..L \/ x = L + 1 \/ x = L + 2
      BY <3>2
    <3>5. \A x \in 1..L : x \in 1..(L + 2) /\ L + 2 > x
      BY <3>2
    <3>6. \A x \in DOMAIN Stream : x \in DOMAIN Stream' /\ Stream'[x] = Stream[x]
      BY <3>1, <3>2, <3>5
    <3>7. \A x \in DOMAIN Stream' : x \in DOMAIN Stream \/ ~Stream'[x].last \/ Stream'[x].m = m
      BY <3>1, <3>2, <3>3, <3>4
    <3>8. \E y \in DOMAIN Stream' : Stream'[y].last /\ Stream'[y].m = m /\ \A x \in DOMAIN Stream : y > x
      BY <3>1, <3>2, <3>3, <3>5
    <3> QED BY <2>0, <2>5, <3>6, <3>7, <3>8 DEF LiveSends
  <2>6. ASSUME NEW k \in 0..Len(net), Breaks(k) PROVE LiveBreaks
    <3>1. \A x \in DOMAIN Stream' : x \in DOMAIN Stream /\ Stream'[x] = Stream[x]
      BY <1>0, <2>6, BrokenStream
    <3> QED BY <2>0, <2>6, <3>1 DEF LiveBreaks, Breaks
  <2>7. CASE Still \/ Accepts \/ \E fn : Asks(fn)
    BY <2>1, <2>7 DEF Still, Accepts, Asks
  <2>8. CASE Drops \/ Joins
    BY <2>2, <2>8 DEF Drops, Joins
  <2> QED BY <1>0, <2>3, <2>4, <2>5, <2>6, <2>7, <2>8 DEF LinkStep, LiveStep
<1> QED BY <1>1, <1>2

LEMMA ProgressNext ==
    ASSUME ToolTypes, StreamTypes, StreamTypes', ProgressInv, LiveStep
    PROVE  ProgressInv'
<1>1. CASE Live' = <<>>
  BY <1>1 DEF ProgressInv
<1>2. CASE LiveSame
  BY <1>2 DEF ProgressInv, LiveSame
<1>3. CASE LiveBreaks
  BY <1>3 DEF ProgressInv, LiveBreaks
<1>4. CASE LiveReads
  <2>1. PICK e \in Nat : /\ \A x \in DOMAIN Live' : /\ 2 * e + x \in DOMAIN Live
                                                    /\ Live'[x] = Live[2 * e + x]
                         /\ \A y \in DOMAIN Live : y > 2 * e => y - 2 * e \in DOMAIN Live'
    BY <1>4 DEF LiveReads
  <2>2. UNCHANGED <<conn, flashes>>
    BY <1>4 DEF LiveReads
  <2> SUFFICES ASSUME conn, NEW x \in DOMAIN Live', Live'[x].last, Live'[x].m.fn = "ind",
                      Live'[x].m.rid \notin flashes
               PROVE  \E y \in DOMAIN Live' : /\ y > x /\ Live'[y].last /\ Live'[y].m.fn = "flash"
                                              /\ Live'[y].m.rid = Live'[x].m.rid
    BY <2>2 DEF ProgressInv
  <2>3. 2 * e + x \in DOMAIN Live /\ Live'[x] = Live[2 * e + x]
    BY <2>1
  <2>4. PICK y \in DOMAIN Live : /\ y > 2 * e + x /\ Live[y].last /\ Live[y].m.fn = "flash"
                                 /\ Live[y].m.rid = Live[2 * e + x].m.rid
    BY <2>3 DEF ProgressInv
  <2>5. Live' \in Seq(Frag)
    BY DEF Live, Stream, StreamTypes
  <2>6. y \in Nat /\ x \in Nat /\ x >= 1
    <3>1. y \in Nat
      BY LiveType
    <3>2. DOMAIN Live' = 1..Len(Live') /\ Len(Live') \in Nat
      BY <2>5, LenProperties
    <3> QED BY <3>1, <3>2
  <2>7. y > 2 * e /\ 2 * e + (y - 2 * e) = y /\ y - 2 * e > x
    BY <2>4, <2>6
  <2>8. y - 2 * e \in DOMAIN Live' /\ Live'[y - 2 * e] = Live[y]
    BY <2>1, <2>7
  <2> QED BY <2>3, <2>4, <2>7, <2>8
<1>5. ASSUME NEW m \in Msg, LiveSends(m) PROVE ProgressInv'
  <2>1. PICK z \in DOMAIN Live' : Live'[z].last /\ Live'[z].m = m /\ \A x \in DOMAIN Live : z > x
    BY <1>5 DEF LiveSends
  <2>2. /\ \A x \in DOMAIN Live : x \in DOMAIN Live' /\ Live'[x] = Live[x]
        /\ \A x \in DOMAIN Live' : x \in DOMAIN Live \/ ~Live'[x].last \/ Live'[x].m = m
        /\ conn /\ conn' = conn /\ Sends(m)
    BY <1>5 DEF LiveSends, Sends
  <2>3. \/ flashes' = flashes /\ (m.fn = "ind" => m.rid \in flashes)
        \/ flashes' = flashes \ {m.rid} /\ m.fn = "flash"
    <3>1. SendsAnswer(m) => m.fn # "ind" /\ flashes' = flashes
      <4> SUFFICES ASSUME SendsAnswer(m) PROVE m.fn # "ind" /\ flashes' = flashes
        OBVIOUS
      <4>1. reqs # <<>> /\ reqs \in Seq(Request) /\ m.fn = Head(reqs).fn /\ flashes' = flashes
        BY DEF SendsAnswer, ToolTypes, ServiceTypes
      <4>2. Head(reqs) \in Request
        BY <4>1, HeadTailProperties
      <4> QED BY <4>1, <4>2, ReqNames DEF Request, Reqs
    <3> QED BY <2>2, <3>1 DEF Sends, SendsProgress, SendsOutcome
  <2> SUFFICES ASSUME NEW x \in DOMAIN Live', Live'[x].last, Live'[x].m.fn = "ind"
               PROVE  \/ Live'[x].m.rid \in flashes'
                      \/ \E y \in DOMAIN Live' : /\ y > x /\ Live'[y].last /\ Live'[y].m.fn = "flash"
                                                 /\ Live'[y].m.rid = Live'[x].m.rid
    BY <2>2 DEF ProgressInv
  <2>4. CASE x \in DOMAIN Live
    <3>1. Live'[x] = Live[x]
      BY <2>2, <2>4
    <3>2. CASE Live[x].m.rid \in flashes
      BY <2>1, <2>3, <2>4, <3>1, <3>2
    <3>3. CASE \E y \in DOMAIN Live : /\ y > x /\ Live[y].last /\ Live[y].m.fn = "flash"
                                      /\ Live[y].m.rid = Live[x].m.rid
      BY <2>2, <3>1, <3>3
    <3> QED BY <2>2, <2>4, <3>1, <3>2, <3>3 DEF ProgressInv
  <2>5. CASE x \notin DOMAIN Live
    BY <2>2, <2>3, <2>5
  <2> QED BY <2>4, <2>5
<1> QED BY <1>1, <1>2, <1>3, <1>4, <1>5 DEF LiveStep

(* Where the reports in the stream come from.                              *)
LEMMA LiveFrom ==
    ASSUME ToolTypes, LiveStep
    PROVE  \A x \in DOMAIN Live' : Live'[x].last /\ ~Answers(Live'[x].m.fn) =>
               (\E y \in DOMAIN Live : Live[y] = Live'[x]) \/ Live'[x].m.rid \in flashes
<1>1. CASE Live' = <<>>
  BY <1>1
<1>2. CASE LiveSame \/ LiveReads \/ LiveBreaks
  <2>1. \A x \in DOMAIN Live' : \E y \in DOMAIN Live : Live[y] = Live'[x]
    BY <1>2 DEF LiveSame, LiveReads, LiveBreaks
  <2> QED BY <2>1
<1>3. ASSUME NEW m \in Msg, LiveSends(m), ~Answers(m.fn) PROVE m.rid \in flashes
  <2>1. CASE SendsAnswer(m)
    <3>1. reqs # <<>> /\ reqs \in Seq(Request) /\ m.fn = Head(reqs).fn /\ m.fn # "flash"
      BY <2>1 DEF SendsAnswer, ToolTypes, ServiceTypes
    <3>2. Head(reqs) \in Request
      BY <3>1, HeadTailProperties
    <3> QED BY <1>3, <3>1, <3>2, ReqNames DEF Request, Reqs, Answers
  <2> QED BY <1>3, <2>1 DEF LiveSends, Sends, SendsProgress, SendsOutcome
<1>4. ASSUME NEW m \in Msg, LiveSends(m), NEW x \in DOMAIN Live', Live'[x].last,
             ~Answers(Live'[x].m.fn)
      PROVE  (\E y \in DOMAIN Live : Live[y] = Live'[x]) \/ Live'[x].m.rid \in flashes
  BY <1>3, <1>4 DEF LiveSends
<1> QED BY <1>1, <1>2, <1>4 DEF LiveStep

(* Only TriggerFlash makes the service owe an answer to a flash.           *)
LEMMA OwedFrom ==
    ASSUME ToolTypes, LinkStep, LiveStep, NEW r \in Nat, Owed(reqs', flashes', Live', r)
    PROVE  \/ Owed(reqs, flashes, Live, r)
           \/ \E i \in DOMAIN reqs' : /\ reqs'[i].fn = "flash" /\ reqs'[i].rid = r
                                      /\ \A j \in DOMAIN reqs : reqs'[i] # reqs[j]
<1>0. reqs \in Seq(Request)
  BY DEF ToolTypes, ServiceTypes
<1>1. CASE \E i \in DOMAIN reqs' : reqs'[i].fn = "flash" /\ reqs'[i].rid = r
  BY <1>1 DEF Owed
<1>2. CASE r \in flashes'
  <2>1. CASE Accepts
    <3>1. 1 \in DOMAIN reqs /\ reqs[1] = Head(reqs)
      <4>1. reqs # <<>>
        BY <2>1 DEF Accepts
      <4> QED BY <1>0, <4>1, HeadTailProperties, LenProperties, EmptySeq
    <3> QED BY <1>2, <2>1, <3>1 DEF Accepts, Owed
  <2>2. CASE ~Accepts
    <3>1. flashes' \subseteq flashes
      BY <2>2 DEF LinkStep, Still, Drops, Joins, Clears, Asks, Reads, Sends, SendsAnswer,
        SendsProgress, SendsOutcome, Breaks
    <3> QED BY <1>2, <3>1 DEF Owed
  <2> QED BY <2>1, <2>2
<1>3. ASSUME NEW x \in DOMAIN Live', Live'[x].last, Live'[x].m.fn = "flash", Live'[x].m.rid = r
      PROVE  Owed(reqs, flashes, Live, r)
  <2>1. ~Answers(Live'[x].m.fn)
    BY <1>3 DEF Answers
  <2>2. (\E y \in DOMAIN Live : Live[y] = Live'[x]) \/ Live'[x].m.rid \in flashes
    BY <1>3, <2>1, LiveFrom
  <2> QED BY <1>3, <2>2 DEF Owed
<1> QED BY <1>1, <1>2, <1>3 DEF Owed

(* What is owed is pending, when TriggerFlash returns.                     *)
LEMMA OwedPending ==
    ASSUME StreamTypes, Whole \/ Stuck, NEW r \in Nat, Owed(reqs, flashes, Live, r)
    PROVE  AnswerPending(r)
<1>1. ASSUME NEW x \in DOMAIN Live, Live[x].last, Live[x].m.fn = "flash", Live[x].m.rid = r
      PROVE  AnswerPending(r)
  <2>1. ~Stuck /\ Live = Stream /\ Whole
    BY <1>1 DEF Live
  <2>2. /\ rx \in Seq(Frag) /\ net \in Seq(Frag) /\ Len(rx) \in Nat /\ Len(net) \in Nat
        /\ Len(rx) <= 1 /\ Paired(Stream) /\ Stream \in Seq(Frag)
        /\ DOMAIN Stream = 1..Len(Stream) /\ Len(Stream) = Len(rx) + Len(net)
        /\ DOMAIN net = 1..Len(net)
    BY <2>1, StreamType, LenProperties DEF StreamTypes, Whole
  <2>3. x \in Nat /\ x >= 1 /\ x <= Len(rx) + Len(net) /\ x % 2 = 0
    <3>1. x \in DOMAIN Stream /\ Stream[x].last
      BY <1>1, <2>1
    <3>2. x % 2 = 0
      BY <2>2, <3>1 DEF Paired
    <3> QED BY <2>2, <3>1, <3>2
  <2>4. x > Len(rx)
    BY <2>2, <2>3
  <2>5. x - Len(rx) \in 1..Len(net)
    BY <2>2, <2>3, <2>4
  <2>6. Stream[x] = net[x - Len(rx)]
    <3>1. x \in 1..(Len(rx) + Len(net))
      BY <2>2, <2>3
    <3> QED BY <2>2, <2>4, <3>1, ConcatProperties DEF Stream
  <2>7. net[x - Len(rx)].m.fn = "flash" /\ net[x - Len(rx)].m.rid = r
    BY <1>1, <2>1, <2>6
  <2> QED BY <2>2, <2>5, <2>7 DEF AnswerPending
<1> QED BY <1>1 DEF Owed, AnswerPending

(* One caller has one call on the stack.                                   *)
LEMMA OneFlash ==
    ASSUME OneCaller, CallersInv
    PROVE  /\ \A q, r : Has(stk, "flash", q) /\ Has(stk, "flash", r) => q = r
           /\ 1 \in DOMAIN stk /\ stk[1].op = "flash" /\ stk[1].rid = 0
                => \A q : ~Has(stk, "flash", q)
<1>1. \A i, j \in DOMAIN stk : stk[i].op = "flash" /\ stk[j].op = "flash" => i = j
  <2> SUFFICES ASSUME NEW i \in DOMAIN stk, NEW j \in DOMAIN stk,
                      stk[i].op = "flash", stk[j].op = "flash", i # j
               PROVE  FALSE
    OBVIOUS
  <2>1. stk[i].t \in Callers /\ stk[j].t \in Callers /\ stk[i].t # stk[j].t
    BY DEF CallersInv
  <2> QED BY <2>1 DEF OneCaller
<1> QED BY <1>1 DEF Has

(* Only FlashAsks asks for a flash.                                        *)
LEMMA NoFlashAsked ==
    ASSUME ToolTypes, PendingInv, LinkStep, AnswerStep, ~FlashAsks
    PROVE  \A i \in DOMAIN reqs' : reqs'[i].fn = "flash" => \E j \in DOMAIN reqs : reqs'[i] = reqs[j]
<1>1. ASSUME Known
      PROVE  \A i \in DOMAIN reqs' : reqs'[i].fn = "flash" => \E j \in DOMAIN reqs : reqs'[i] = reqs[j]
  BY <1>1 DEF Known
<1>2. nreq' = nreq => Known
  BY KnownSteps
<1>3. CASE Calm \/ ReadStep \/ RequestGone \/ RequestLate
  BY <1>1, <1>2, <1>3 DEF Calm, ReadStep, Reads, RequestGone, RequestLate, Still
<1>4. CASE \E m \in Msg : HandlesReport(m) \/ HandlesAnswer(m)
  BY <1>1, <1>2, <1>4 DEF HandlesReport, HandlesAnswer, Handles, Still
<1>5. CASE \E r \in Nat : FlashGone(r)
  BY <1>1, <1>2, <1>5 DEF FlashGone, Still
<1>6. ASSUME NEW fn \in {"event"} \union Kinds, RequestAsks(fn)
      PROVE  \A i \in DOMAIN reqs' : reqs'[i].fn = "flash" => \E j \in DOMAIN reqs : reqs'[i] = reqs[j]
  <2>1. CASE Drops
    BY <2>1 DEF Drops
  <2>2. CASE Asks(fn)
    <3>1. fn # "flash"
      BY NameProperties DEF Names
    <3> QED BY <2>2, <3>1, AskedSteps
  <2> QED BY <1>6, <2>1, <2>2 DEF RequestAsks
<1> QED BY <1>3, <1>4, <1>5, <1>6 DEF AnswerStep

(* A connection that breaks under a write leaves nothing to be read.       *)
LEMMA LiveDrops ==
    ASSUME StreamTypes, Whole \/ Stuck, Drops
    PROVE  Live' = <<>>
<1>0. rx' = rx /\ net' = <<>> /\ rx \in Seq(Frag) /\ Len(rx) \in Nat /\ DOMAIN rx = 1..Len(rx)
  BY LenProperties DEF Drops, StreamTypes
<1>1. Stream' = rx
  BY <1>0 DEF Stream
<1>2. CASE rx = <<>>
  BY <1>1, <1>2 DEF Live
<1>3. CASE rx # <<>>
  <2>1. Len(rx) # 0 /\ 1 \in DOMAIN rx
    BY <1>0, <1>3, EmptySeq
  <2>2. CASE Len(rx) = 1 /\ ~rx[1].last
    <3>1. Stuck'
      BY <1>0, <1>1, <1>3, <2>2 DEF Stuck
    <3> QED BY <3>1 DEF Live
  <2>3. CASE Whole
    <3>1. Paired(Stream) /\ Len(rx) = 1
      BY <1>0, <2>1, <2>3 DEF Whole
    <3>2. 1 \in DOMAIN Stream /\ Stream[1] = rx[1] /\ 1 % 2 # 0
      <4>1. net \in Seq(Frag) /\ Len(net) \in Nat
        BY LenProperties DEF StreamTypes
      <4>2. 1 \in 1..(Len(rx) + Len(net)) /\ 1 <= Len(rx)
        BY <3>1, <4>1
      <4> QED BY <1>0, <4>1, <4>2, ConcatProperties DEF Stream
    <3>3. ~rx[1].last
      BY <3>1, <3>2 DEF Paired
    <3> QED BY <2>2, <3>1, <3>3
  <2>4. CASE Stuck
    <3>1. net \in Seq(Frag) /\ Len(net) \in Nat /\ Len(Stream) = Len(rx) + Len(net)
      BY StreamType, LenProperties DEF StreamTypes
    <3>2. ASSUME Len(rx) >= 2 PROVE rx[1].m # rx[2].m
      <4>1. /\ 1 \in 1..(Len(rx) + Len(net)) /\ 2 \in 1..(Len(rx) + Len(net))
            /\ 1 <= Len(rx) /\ 2 <= Len(rx) /\ Len(Stream) >= 2
        BY <1>0, <3>1, <3>2
      <4>2. Stream[1] = rx[1] /\ Stream[2] = rx[2]
        BY <1>0, <3>1, <4>1, ConcatProperties DEF Stream
      <4> QED BY <2>4, <4>1, <4>2 DEF Stuck
    <3>3. Stuck'
      BY <1>0, <1>1, <1>3, <2>4, <3>2 DEF Stuck
    <3> QED BY <3>3 DEF Live
  <2> QED BY <2>3, <2>4
<1> QED BY <1>2, <1>3

LEMMA FlashNext ==
    ASSUME OneCaller, ToolTypes, StackInv, StreamInv, ProgressInv, FlashInv, Next
    PROVE  FlashInv'
<1>0. /\ AnswerStep /\ LinkStep /\ LiveStep /\ StreamTypes /\ PendingInv /\ StackTypes
      /\ stk \in Seq(Frame) /\ CallersInv /\ (Whole \/ Stuck) /\ nreq \in Nat
  BY AnswerSteps, LinkSteps, LiveSteps
    DEF StackInv, IdleInv, StreamInv, ToolTypes, StackTypes, CountTypes
<1> SUFFICES ASSUME ~h'.early
             PROVE  /\ \A r \in Nat : Owed(reqs', flashes', Live', r) => Has(stk', "flash", r)
                    /\ \A q \in Nat : Has(stk', "flash", q) =>
                        /\ \A x \in DOMAIN Live' :
                             Live'[x].last /\ ~Answers(Live'[x].m.fn) => Live'[x].m.rid = q
                        /\ \A i \in DOMAIN Cut(stk') :
                             ~Answers(Cut(stk')[i].fn) => Cut(stk')[i].rid = q
  BY DEF FlashInv
<1>1. ~h.early
  BY <1>0 DEF AnswerStep, Calm, FlashAsks, RequestAsks, ReadStep, HandlesReport, HandlesAnswer,
    RequestGone, FlashGone, RequestLate, Noted
<1>2. \A q, r : Has(stk, "flash", q) /\ Has(stk, "flash", r) => q = r
  BY <1>0, OneFlash
<1>3. \A r \in Nat : Owed(reqs, flashes, Live, r) => Has(stk, "flash", r)
  BY <1>1 DEF FlashInv
<1>4. CASE FlashAsks
  <2>1. /\ Drops \/ Asks("flash")
        /\ \A r : Has(stk', "flash", r) <=> Has(stk, "flash", r) \/ r = nreq + 1
        /\ Cut(stk') = <<>>
    BY <1>4 DEF FlashAsks
  <2>2. \A q : ~Has(stk, "flash", q)
    <3>1. 1 \in DOMAIN stk /\ stk[1].op = "flash" /\ stk[1].rid = 0
      <4>1. stk # <<>> /\ Head(stk).op = "flash" /\ Head(stk).rid = 0
        BY <1>4 DEF FlashAsks
      <4> QED BY <1>0, <4>1, BelowProperties
    <3> QED BY <1>0, <3>1, OneFlash
  <2>3. \A r \in Nat : ~Owed(reqs, flashes, Live, r)
    BY <1>3, <2>2
  <2>4. \A r \in Nat : Owed(reqs', flashes', Live', r) => Has(stk', "flash", r)
    <3> SUFFICES ASSUME NEW r \in Nat, Owed(reqs', flashes', Live', r)
                 PROVE  Has(stk', "flash", r)
      OBVIOUS
    <3>1. PICK i \in DOMAIN reqs' : /\ reqs'[i].fn = "flash" /\ reqs'[i].rid = r
                                    /\ \A j \in DOMAIN reqs : reqs'[i] # reqs[j]
      BY <1>0, <2>3, OwedFrom
    <3>2. CASE Drops
      BY <3>1, <3>2 DEF Drops
    <3>3. CASE Asks("flash")
      BY <2>1, <3>1, <3>3, AskedSteps
    <3> QED BY <2>1, <3>2, <3>3
  <2>5. \A x \in DOMAIN Live' : ~(Live'[x].last /\ ~Answers(Live'[x].m.fn))
    <3>1. CASE Drops
      <4>1. Live' = <<>>
        BY <1>0, <3>1, LiveDrops
      <4> QED BY <4>1
    <3>2. CASE Asks("flash")
      <4> SUFFICES ASSUME NEW x \in DOMAIN Live', Live'[x].last, ~Answers(Live'[x].m.fn)
                   PROVE  FALSE
        OBVIOUS
      <4>1. conn /\ flashes \subseteq Nat
        BY <3>2 DEF Asks, ToolTypes, ServiceTypes
      <4>2. flashes = {}
        BY <2>3, <4>1 DEF Owed
      <4>3. PICK y \in DOMAIN Live : Live[y] = Live'[x]
        BY <1>0, <4>2, LiveFrom
      <4>4. Live[y] \in Frag
        BY <1>0, LiveType, ElementOfSeq, LenProperties
      <4>5. \A z \in DOMAIN Live : ~(Live[z].last /\ Live[z].m.fn = "flash")
        <5> SUFFICES ASSUME NEW z \in DOMAIN Live, Live[z].last, Live[z].m.fn = "flash"
                     PROVE  FALSE
          OBVIOUS
        <5>1. Live[z] \in Frag
          BY <1>0, LiveType, ElementOfSeq, LenProperties
        <5>2. Live[z].m.rid \in Nat
          BY <5>1, NameProperties DEF Frag
        <5>3. Owed(reqs, flashes, Live, Live[z].m.rid)
          BY DEF Owed
        <5> QED BY <2>3, <5>2, <5>3
      <4>6. Live[y].last /\ Live[y].m.fn = "ind"
        BY <4>3, <4>5 DEF Answers
      <4> QED BY <4>1, <4>2, <4>5, <4>6 DEF ProgressInv
    <3> QED BY <2>1, <3>1, <3>2
  <2> QED BY <2>1, <2>4, <2>5
<1>5. CASE ~FlashAsks
  <2>1. \A i \in DOMAIN reqs' : reqs'[i].fn = "flash" => \E j \in DOMAIN reqs : reqs'[i] = reqs[j]
    BY <1>0, <1>5, NoFlashAsked
  <2>2. ASSUME NEW r \in Nat, Owed(reqs', flashes', Live', r)
        PROVE  Owed(reqs, flashes, Live, r)
    BY <1>0, <2>1, <2>2, OwedFrom
  <2>3. \A r : Has(stk', "flash", r) => Has(stk, "flash", r)
    BY <1>0, <1>5, NameProperties DEF AnswerStep, Calm, ReadStep, RequestGone, RequestLate,
      RequestAsks, HandlesReport, HandlesAnswer, FlashGone, SameCalls, Names
  <2>4. ASSUME NEW r \in Nat, Owed(reqs', flashes', Live', r)
        PROVE  Has(stk', "flash", r)
    <3>1. Has(stk, "flash", r)
      BY <1>3, <2>2, <2>4
    <3>2. AnswerPending(r)
      BY <1>0, <2>2, <2>4, OwedPending
    <3>3. ASSUME NEW q \in Nat, FlashGone(q) PROVE Has(stk', "flash", r)
      <4>1. r # q
        BY <3>2, <3>3 DEF FlashGone
      <4> QED BY <3>1, <3>3, <4>1 DEF FlashGone
    <3>4. CASE RequestGone
      <4>1. Head(stk).op # "flash"
        BY <3>4, NameProperties DEF RequestGone
      <4> QED BY <3>1, <3>4, <4>1 DEF RequestGone
    <3>5. CASE Calm \/ ReadStep \/ \E m \in Msg : HandlesReport(m)
      BY <3>1, <3>5 DEF Calm, ReadStep, HandlesReport, SameCalls
    <3>6. CASE RequestLate \/ (\E m \in Msg : HandlesAnswer(m)) \/ \E fn \in Names : RequestAsks(fn)
      BY <3>1, <3>6 DEF RequestLate, HandlesAnswer, RequestAsks
    <3> QED BY <1>0, <1>5, <3>3, <3>4, <3>5, <3>6 DEF AnswerStep, Names
  <2>5. ASSUME NEW q \in Nat, Has(stk', "flash", q), NEW x \in DOMAIN Live',
               Live'[x].last, ~Answers(Live'[x].m.fn)
        PROVE  Live'[x].m.rid = q
    <3>1. Has(stk, "flash", q)
      BY <2>3, <2>5
    <3>2. CASE \E y \in DOMAIN Live : Live[y] = Live'[x]
      BY <1>1, <2>5, <3>1, <3>2 DEF FlashInv
    <3>3. CASE Live'[x].m.rid \in flashes
      <4>1. Live'[x].m.rid \in Nat
        BY <3>3 DEF ToolTypes, ServiceTypes
      <4>2. Has(stk, "flash", Live'[x].m.rid)
        BY <1>3, <3>3, <4>1 DEF Owed
      <4> QED BY <1>2, <3>1, <4>2
    <3> QED BY <1>0, <2>5, <3>2, <3>3, LiveFrom
  <2>6. ASSUME NEW q \in Nat, Has(stk', "flash", q), NEW i \in DOMAIN Cut(stk'),
               ~Answers(Cut(stk')[i].fn)
        PROVE  Cut(stk')[i].rid = q
    <3>1. Has(stk, "flash", q)
      BY <2>3, <2>6
    <3>2. ASSUME NEW j \in DOMAIN Cut(stk), Cut(stk')[i] = Cut(stk)[j]
          PROVE  Cut(stk')[i].rid = q
      BY <1>1, <2>6, <3>1, <3>2 DEF FlashInv
    <3>3. CASE Cut(stk') = <<>> \/ Cut(stk') = Cut(stk)
      BY <3>2, <3>3
    <3>4. CASE Cut(stk) # <<>> /\ Cut(stk') = Tail(Cut(stk))
      BY <1>0, <3>2, <3>4, CutType
    <3>5. CASE ReadStep
      <4>1. PICK k \in 1..Len(net) : Reads(k) /\ Cut(stk') = Objects(rx \o SubSeq(net, 1, k))
        BY <3>5 DEF ReadStep
      <4> DEFINE o == Objects(rx \o SubSeq(net, 1, k))
      <4>1a. Cut(stk') = o
        BY <4>1
      <4>1b. \/ Stuck /\ o = <<>>
             \/ ~Stuck /\ \E d \in Nat : /\ DOMAIN o = 1..d
                                         /\ \A e \in 1..d : /\ 2 * e \in DOMAIN Stream
                                                            /\ o[e] = Stream[2 * e].m
                                                            /\ Stream[2 * e].last
        <5>1. Reads(k)
          BY <4>1
        <5> HIDE DEF o
        <5> QED BY <1>0, <5>1, ReadStream DEF o
      <4> HIDE DEF o
      <4>2. \/ Stuck /\ o = <<>>
            \/ ~Stuck /\ \E z \in DOMAIN Stream : o[i] = Stream[z].m /\ Stream[z].last
        BY <2>6, <4>1a, <4>1b
      <4>3. CASE ~Stuck /\ \E z \in DOMAIN Stream : Cut(stk')[i] = Stream[z].m /\ Stream[z].last
        <5>1. Live = Stream
          BY <4>3 DEF Live
        <5> QED BY <1>1, <2>6, <3>1, <4>3, <5>1 DEF FlashInv
      <4> QED BY <3>3, <4>1a, <4>2, <4>3
    <3>6. CASE Calm \/ RequestGone \/ RequestLate \/ (\E r \in Nat : FlashGone(r)) \/ \E fn \in Names : RequestAsks(fn)
      BY <3>3, <3>6 DEF Calm, RequestGone, RequestLate, FlashGone, RequestAsks
    <3>7. CASE \E m \in Msg : HandlesReport(m) \/ HandlesAnswer(m)
      BY <3>4, <3>7 DEF HandlesReport, HandlesAnswer, Handles
    <3> QED BY <1>0, <1>5, <3>5, <3>6, <3>7 DEF AnswerStep, Names
  <2> QED BY <2>4, <2>5, <2>6
<1> QED BY <1>4, <1>5

(* What is recorded of the reports.                                        *)
ReportAnswers == h.foreign => h.early

LEMMA ReportNext ==
    ASSUME ToolTypes, FlashInv, ReportAnswers, AnswerStep
    PROVE  ReportAnswers'
<1>1. ASSUME NEW m \in Msg, HandlesReport(m) PROVE ReportAnswers'
  <2>1. /\ h'.early = h.early /\ ~Answers(m.fn) /\ Cut(stk) # <<>> /\ m = Head(Cut(stk))
        /\ h'.foreign => h.foreign \/ \E r \in Nat : Has(stk, "flash", r) /\ r # m.rid
    BY <1>1 DEF HandlesReport, Handles
  <2>2. 1 \in DOMAIN Cut(stk) /\ Cut(stk)[1] = m
    BY <2>1, CutType DEF ToolTypes
  <2>3. ~h.early => \A r \in Nat : Has(stk, "flash", r) => m.rid = r
    BY <2>1, <2>2 DEF FlashInv
  <2> QED BY <2>1, <2>3 DEF ReportAnswers
<1>2. CASE Calm \/ FlashAsks \/ ReadStep \/ RequestGone \/ \E fn \in {"event"} \union Kinds : RequestAsks(fn)
  <2>1. Noted
    BY <1>2 DEF Calm, FlashAsks, ReadStep, RequestGone, RequestAsks
  <2> QED BY <2>1 DEF Noted, ReportAnswers
<1>3. CASE RequestLate \/ \E m \in Msg : HandlesAnswer(m)
  BY <1>3 DEF RequestLate, HandlesAnswer, ReportAnswers
<1>4. ASSUME NEW r \in Nat, FlashGone(r) PROVE ReportAnswers'
  BY <1>4 DEF FlashGone, ReportAnswers
<1> QED BY <1>1, <1>2, <1>3, <1>4 DEF AnswerStep

LEMMA FlashInvariant ==
    ASSUME OneCaller
    PROVE  Spec => [](ProgressInv /\ FlashInv /\ ReportAnswers)
<1>1. Init => ProgressInv /\ FlashInv /\ ReportAnswers
  <2> SUFFICES ASSUME Init PROVE ProgressInv /\ FlashInv /\ ReportAnswers
    OBVIOUS
  <2>1. stk = <<>> /\ reqs = <<>> /\ rx = <<>> /\ net = <<>> /\ flashes = {} /\ ~h.foreign
    BY DEF Init
  <2>2. \A op, r : ~Has(stk, op, r)
    BY <2>1 DEF Has
  <2>3. Live = <<>>
    BY <2>1 DEF Live, Stream
  <2>4. \A r : ~Owed(reqs, flashes, Live, r)
    BY <2>1, <2>3 DEF Owed
  <2> QED BY <2>1, <2>2, <2>3, <2>4 DEF ProgressInv, FlashInv, ReportAnswers
<1>2. /\ ToolTypes /\ StackInv /\ StreamInv /\ [Next]_vars /\ ProgressInv /\ FlashInv /\ ReportAnswers
      => (ProgressInv /\ FlashInv /\ ReportAnswers)'
  <2> SUFFICES ASSUME ToolTypes, StackInv, StreamInv, [Next]_vars, ProgressInv, FlashInv, ReportAnswers
               PROVE  (ProgressInv /\ FlashInv /\ ReportAnswers)'
    OBVIOUS
  <2>1. CASE UNCHANGED vars
    <3>1. UNCHANGED <<stk, rx, net, conn, reqs, flashes, h>>
      BY <2>1 DEF vars, socket, calling, service, bounds
    <3>2. UNCHANGED Live
      BY <3>1 DEF Live, Stuck, Stream
    <3> QED BY <3>1, <3>2 DEF ProgressInv, FlashInv, ReportAnswers
  <2>2. CASE Next
    <3>1. AnswerStep /\ LiveStep /\ StreamTypes /\ StreamTypes'
      BY <2>2, AnswerSteps, LiveSteps, StreamTypesNext
        DEF StackInv, IdleInv, StreamInv, ToolTypes
    <3> QED BY <2>2, <3>1, ProgressNext, FlashNext, ReportNext
  <2> QED BY <2>1, <2>2
<1> QED BY <1>1, <1>2, ToolInvariant, ToolStreamInvariant, PTL DEF Spec

-----------------------------------------------------------------------------
(* Whatever the number of threads that call, a request of functionMutex    *)
(* takes the answer to another one only after one timed out, and a lambda  *)
(* that a finished request left connected runs only after that or after a  *)
(* reconnect registered again.                                             *)
THEOREM RequestAnswersCorrect == Spec => []RequestAnswers
  BY RequestInvariant, PTL

(* With one thread that calls, OwnAnswer holds: a report of one flash ends *)
(* the wait for another only after a TriggerFlash that returned early.     *)
THEOREM OwnAnswerCorrect ==
    ASSUME OneCaller
    PROVE  Spec => []OwnAnswer
<1>1. RequestAnswers /\ ReportAnswers => OwnAnswer
  BY DEF OwnAnswer, ReportAnswers
<1> QED BY <1>1, RequestInvariant, FlashInvariant, PTL
=============================================================================
