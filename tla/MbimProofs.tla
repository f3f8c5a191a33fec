----------------------------- MODULE MbimProofs -----------------------------
(* Safety of the MBIM adapter for any number of requests, alarms, commands *)
(* and indications, and every interleaving of the caller, the helper       *)
(* thread, the signal handler and the main loop.                           *)
EXTENDS Mbim, SequenceTheorems, FiniteSetTheorems, TLAPS

-----------------------------------------------------------------------------
(* Types of the request side.                                              *)
SomeKind == AllKinds \cup {"none"}
AnswerType == [kind : SomeKind, id : Nat, res : {"OK", "ERR"}, done : BOOLEAN,
               data : {"same", "other", "accepted", "ERROR", "empty"}]
ReqType == [kind : SomeKind, id : Nat]
CmdType == [kind : SomeKind \cup {"open"}, step : Nat]
CallerType == [pc : {"idle", "opening", "wait", "close"}, kind : SomeKind, id : Nat, got : AnswerType]
HelperType == [pc : {"none", "open", "opening", "loop", "send", "wait", "answer"},
               req : ReqType, out : AnswerType]
HistoryType == [alarms : Nat, cut : Nat, failed : BOOLEAN, mute : BOOLEAN, stale : BOOLEAN,
                lied : BOOLEAN, hollow : BOOLEAN]

FlagTypes ==
    /\ thread_running \in {"OK", "ERR"} /\ g_mbim_device_init_flag \in BOOLEAN
    /\ g_mbimdevice \in BOOLEAN /\ g_msg_loop_ready \in BOOLEAN /\ queues \in BOOLEAN
    /\ alarm \in BOOLEAN /\ ended \in BOOLEAN

RequestTypes ==
    /\ FlagTypes
    /\ reqq \in Seq(ReqType) /\ respq \in Seq(AnswerType)
    /\ force_sync_sem \in Nat /\ cmd \in CmdType
    /\ caller \in CallerType /\ helper \in HelperType
    /\ inits \in Nat /\ calls \in Nat
    /\ h \in HistoryType

LEMMA ConstTypes ==
    /\ NoCmd \in CmdType /\ NoCmd.kind = "none" /\ NoReq \in ReqType /\ NoAnswer \in AnswerType
    /\ Idle \in CallerType /\ Idle.pc = "idle" /\ Resting \in HelperType /\ Resting.pc = "none"
    /\ <<>> \in Seq(ReqType) /\ <<>> \in Seq(AnswerType) /\ Len(<<>>) = 0
<1>1. NoCmd \in CmdType /\ NoCmd.kind = "none" /\ NoReq \in ReqType
  BY DEF NoCmd, CmdType, NoReq, ReqType, SomeKind
<1>2. NoAnswer \in AnswerType
  BY DEF NoAnswer, AnswerType, SomeKind
<1>3. Idle \in CallerType /\ Idle.pc = "idle"
  BY <1>2 DEF Idle, CallerType, SomeKind
<1>4. Resting \in HelperType /\ Resting.pc = "none"
  BY <1>1, <1>2 DEF Resting, HelperType
<1> QED BY <1>1, <1>2, <1>3, <1>4

LEMMA CommandType ==
    ASSUME NEW k \in SomeKind \cup {"open"}, NEW n \in Nat
    PROVE  Command(k, n) \in CmdType
  BY ConstTypes DEF Command, CmdType

LEMMA WrittenType ==
    ASSUME NEW c, NEW o, NEW out \in AnswerType
    PROVE  /\ Written(c, o, out) \in AnswerType
           /\ Written(c, o, out).id = out.id /\ Written(c, o, out).kind = out.kind
<1>1. /\ \A d \in {"same", "other", "accepted", "ERROR", "empty"} :
           /\ [out EXCEPT !.data = d] \in AnswerType
           /\ [out EXCEPT !.data = d].id = out.id /\ [out EXCEPT !.data = d].kind = out.kind
           /\ [out EXCEPT !.done = TRUE, !.data = d] \in AnswerType
           /\ [out EXCEPT !.done = TRUE, !.data = d].id = out.id
           /\ [out EXCEPT !.done = TRUE, !.data = d].kind = out.kind
      /\ [out EXCEPT !.res = "ERR"] \in AnswerType
      /\ [out EXCEPT !.res = "ERR"].id = out.id /\ [out EXCEPT !.res = "ERR"].kind = out.kind
  BY DEF AnswerType
<1>2. \/ Written(c, o, out) = out
      \/ \E d \in {"same", "other", "accepted", "ERROR", "empty"} :
           Written(c, o, out) = [out EXCEPT !.data = d]
           \/ Written(c, o, out) = [out EXCEPT !.done = TRUE, !.data = d]
      \/ Written(c, o, out) = [out EXCEPT !.res = "ERR"]
  BY DEF Written
<1> QED BY <1>1, <1>2

(* What the helper makes of a request.                                     *)
LEMMA NoReplyType ==
    ASSUME NEW req \in ReqType
    PROVE  /\ NoReply(req) \in AnswerType /\ NoReply(req).id = req.id /\ NoReply(req).kind = req.kind
           /\ [NoReply(req) EXCEPT !.res = "ERR"] \in AnswerType
           /\ [NoReply(req) EXCEPT !.res = "ERR"].id = req.id
           /\ [NoReply(req) EXCEPT !.res = "ERR"].kind = req.kind
           /\ [NoReply(req) EXCEPT !.data = "same"] \in AnswerType
           /\ [NoReply(req) EXCEPT !.data = "same"].id = req.id
           /\ [NoReply(req) EXCEPT !.data = "same"].kind = req.kind
<1>1. NoReply(req) \in AnswerType /\ NoReply(req).id = req.id /\ NoReply(req).kind = req.kind
  BY DEF NoReply, AnswerType, ReqType
<1> QED BY <1>1 DEF AnswerType

LEMMA RequestTypesInit == RequestInit => RequestTypes
<1> SUFFICES ASSUME RequestInit PROVE RequestTypes
  OBVIOUS
<1>1. FlagTypes
  BY DEF RequestInit, FlagTypes
<1>2. h \in HistoryType
  BY DEF RequestInit, HistoryType
<1>3. reqq \in Seq(ReqType) /\ respq \in Seq(AnswerType) /\ cmd \in CmdType /\ caller \in CallerType
      /\ helper \in HelperType
  BY ConstTypes DEF RequestInit
<1>4. force_sync_sem \in Nat /\ inits \in Nat /\ calls \in Nat
  BY DEF RequestInit
<1> QED BY <1>1, <1>2, <1>3, <1>4 DEF RequestTypes

(* init(), deinit() and the opening of the device.                         *)
LEMMA OpenTypes ==
    ASSUME RequestTypes,
           MbimInit \/ InitReturns \/ MbimDeinit \/ HelperOpens \/ HelperOpened
             \/ \E o \in {"go", "fail"} : OpenCallback(o)
    PROVE  RequestTypes'
<1>0. /\ FlagTypes /\ h \in HistoryType /\ reqq \in Seq(ReqType) /\ respq \in Seq(AnswerType)
      /\ force_sync_sem \in Nat /\ cmd \in CmdType /\ caller \in CallerType /\ helper \in HelperType
      /\ inits \in Nat /\ calls \in Nat
  BY DEF RequestTypes
<1>a. /\ [Resting EXCEPT !.pc = "open"] \in HelperType /\ [Idle EXCEPT !.pc = "opening"] \in CallerType
      /\ [helper EXCEPT !.pc = "opening"] \in HelperType /\ [helper EXCEPT !.pc = "loop"] \in HelperType
  <2>1. /\ \A x \in HelperType, p \in {"open", "opening", "loop"} : [x EXCEPT !.pc = p] \in HelperType
        /\ \A x \in CallerType : [x EXCEPT !.pc = "opening"] \in CallerType
    BY DEF HelperType, CallerType
  <2> QED BY <1>0, <2>1, ConstTypes
<1>1. CASE MbimInit
  <2>1. FlagTypes'
    BY <1>0, <1>1 DEF MbimInit, FlagTypes
  <2>2. h' \in HistoryType
    <3>1. (h.hollow \/ ~g_mbim_device_init_flag) \in BOOLEAN
      OBVIOUS
    <3>2. h' = h \/ h' = [h EXCEPT !.hollow = (h.hollow \/ ~g_mbim_device_init_flag)]
      BY <1>1 DEF MbimInit
    <3> QED BY <1>0, <3>1, <3>2 DEF HistoryType
  <2>3. helper' \in HelperType /\ caller' \in CallerType
    BY <1>0, <1>1, <1>a DEF MbimInit
  <2>4. UNCHANGED <<reqq, respq, force_sync_sem, cmd, calls>> /\ inits' = inits + 1
    BY <1>1 DEF MbimInit
  <2> QED BY <1>0, <2>1, <2>2, <2>3, <2>4 DEF RequestTypes
<1>2. CASE InitReturns
  <2>1. FlagTypes'
    BY <1>0, <1>2 DEF InitReturns, FlagTypes, device
  <2>2. h' \in HistoryType
    <3>1. (h.hollow \/ ~g_mbimdevice) \in BOOLEAN
      OBVIOUS
    <3>2. h' = [h EXCEPT !.failed = TRUE] \/ h' = [h EXCEPT !.hollow = (h.hollow \/ ~g_mbimdevice)]
      BY <1>2 DEF InitReturns
    <3> QED BY <1>0, <3>1, <3>2 DEF HistoryType
  <2>3. caller' \in CallerType
    BY <1>2, ConstTypes DEF InitReturns
  <2>4. UNCHANGED <<reqq, respq, force_sync_sem, cmd, helper, inits, calls>>
    BY <1>2 DEF InitReturns
  <2> QED BY <1>0, <2>1, <2>2, <2>3, <2>4 DEF RequestTypes
<1>3. CASE MbimDeinit
  <2>1. FlagTypes'
    BY <1>0, <1>3 DEF MbimDeinit, FlagTypes
  <2>2. reqq' = <<>> /\ respq' = <<>> /\ UNCHANGED <<force_sync_sem, cmd, caller, helper, inits, calls, h>>
    BY <1>3 DEF MbimDeinit
  <2> QED BY <1>0, <2>1, <2>2, ConstTypes DEF RequestTypes
<1>4. CASE HelperOpens
  <2>1. FlagTypes'
    BY <1>0, <1>4 DEF HelperOpens, FlagTypes, device
  <2>2. reqq' = <<>> /\ respq' = <<>> /\ UNCHANGED <<caller, inits, calls, h>>
    BY <1>4 DEF HelperOpens
  <2>3. helper' \in HelperType
    BY <1>4, <1>a, ConstTypes DEF HelperOpens
  <2>4. cmd' \in CmdType
    <3>1. "open" \in SomeKind \cup {"open"} /\ 1 \in Nat
      OBVIOUS
    <3>2. Command("open", 1) \in CmdType
      BY <3>1, CommandType
    <3> QED BY <1>0, <1>4, <3>2 DEF HelperOpens
  <2>5. force_sync_sem' \in Nat
    BY <1>0, <1>4 DEF HelperOpens
  <2> QED BY <1>0, <2>1, <2>2, <2>3, <2>4, <2>5, ConstTypes DEF RequestTypes
<1>5. CASE HelperOpened
  <2>1. FlagTypes'
    BY <1>0, <1>5 DEF HelperOpened, FlagTypes
  <2>2. helper' \in HelperType
    BY <1>5, <1>a, ConstTypes DEF HelperOpened
  <2>3. force_sync_sem' \in Nat
    BY <1>0, <1>5 DEF HelperOpened
  <2>4. UNCHANGED <<reqq, respq, cmd, caller, inits, calls, h>>
    BY <1>5 DEF HelperOpened
  <2> QED BY <1>0, <2>1, <2>2, <2>3, <2>4 DEF RequestTypes
<1>6. ASSUME NEW o \in {"go", "fail"}, OpenCallback(o) PROVE RequestTypes'
  <2>1. FlagTypes'
    <3>1. g_mbim_device_init_flag' \in BOOLEAN
      BY <1>6 DEF OpenCallback
    <3>2. g_mbimdevice' \in BOOLEAN
      BY <1>0, <1>6 DEF OpenCallback, FlagTypes
    <3> QED BY <1>0, <1>6, <3>1, <3>2 DEF OpenCallback, FlagTypes
  <2>2. cmd' \in CmdType
    <3>1. cmd' = NoCmd \/ cmd' = [cmd EXCEPT !.step = 2]
      BY <1>6 DEF OpenCallback
    <3> QED BY <1>0, <3>1, ConstTypes DEF CmdType
  <2>3. force_sync_sem' \in Nat
    BY <1>0, <1>6 DEF OpenCallback
  <2>4. UNCHANGED <<reqq, respq, caller, helper, inits, calls, h>>
    BY <1>6 DEF OpenCallback
  <2> QED BY <1>0, <2>1, <2>2, <2>3, <2>4 DEF RequestTypes
<1> QED BY <1>1, <1>2, <1>3, <1>4, <1>5, <1>6

(* The caller of a request, and the signal.                                *)
LEMMA CallerTypes ==
    ASSUME RequestTypes,
           (\E k \in Kinds : CallRequest(k)) \/ CallerReceives \/ AlarmFires \/ CallerReturns
    PROVE  RequestTypes'
<1>0. /\ FlagTypes /\ h \in HistoryType /\ reqq \in Seq(ReqType) /\ respq \in Seq(AnswerType)
      /\ force_sync_sem \in Nat /\ cmd \in CmdType /\ caller \in CallerType /\ helper \in HelperType
      /\ inits \in Nat /\ calls \in Nat
  BY DEF RequestTypes
<1>1. ASSUME NEW k \in Kinds, CallRequest(k) PROVE RequestTypes'
  <2>1. FlagTypes'
    BY <1>0, <1>1 DEF CallRequest, FlagTypes, device
  <2>2. k \in SomeKind /\ calls' \in Nat
    BY <1>0, <1>1, MbimAssumption DEF CallRequest, SomeKind
  <2>3. reqq' \in Seq(ReqType)
    <3>1. [kind |-> k, id |-> calls'] \in ReqType
      BY <2>2 DEF ReqType
    <3>2. reqq' = reqq \/ reqq' = Append(reqq, [kind |-> k, id |-> calls'])
      BY <1>1 DEF CallRequest
    <3> QED BY <1>0, <3>1, <3>2, AppendProperties
  <2>4. caller' \in CallerType
    <3>1. [pc |-> "wait", kind |-> k, id |-> calls', got |-> NoAnswer] \in CallerType
      BY <2>2, ConstTypes DEF CallerType
    <3> QED BY <1>0, <1>1, <3>1 DEF CallRequest
  <2>5. UNCHANGED <<respq, force_sync_sem, cmd, helper, inits, h>>
    BY <1>1 DEF CallRequest
  <2> QED BY <1>0, <2>1, <2>2, <2>3, <2>4, <2>5 DEF RequestTypes
<1>2. CASE CallerReceives
  <2>1. FlagTypes'
    BY <1>0, <1>2 DEF CallerReceives, FlagTypes, device
  <2>2. Head(respq) \in AnswerType /\ respq' \in Seq(AnswerType)
    BY <1>0, <1>2, HeadTailProperties DEF CallerReceives
  <2>3. caller' \in CallerType
    BY <1>0, <1>2, <2>2 DEF CallerReceives, CallerType
  <2>4. h' \in HistoryType
    <3>1. (h.stale \/ Head(respq).id # caller.id) \in BOOLEAN
      OBVIOUS
    <3>2. h' = [h EXCEPT !.stale = (h.stale \/ Head(respq).id # caller.id)]
      BY <1>2 DEF CallerReceives
    <3> QED BY <1>0, <3>1, <3>2 DEF HistoryType
  <2>5. UNCHANGED <<reqq, force_sync_sem, cmd, helper, inits, calls>>
    BY <1>2 DEF CallerReceives
  <2> QED BY <1>0, <2>1, <2>2, <2>3, <2>4, <2>5 DEF RequestTypes
<1>3. CASE AlarmFires
  <2>1. FlagTypes'
    BY <1>0, <1>3 DEF AlarmFires, FlagTypes, device
  <2>2. respq' \in Seq(AnswerType)
    <3>1. AlarmAnswer \in AnswerType
      BY <1>0 DEF AlarmAnswer, AnswerType, CallerType
    <3>2. respq' = Append(respq, AlarmAnswer)
      BY <1>3 DEF AlarmFires
    <3> QED BY <1>0, <3>1, <3>2, AppendProperties
  <2>3. caller' \in CallerType
    <3>1. caller' = caller \/ caller' = [caller EXCEPT !.pc = "close"]
      BY <1>3 DEF AlarmFires
    <3> QED BY <1>0, <3>1 DEF CallerType
  <2>4. h' \in HistoryType
    <3>1. h' = [h EXCEPT !.alarms = h.alarms + 1]
          \/ h' = [h EXCEPT !.alarms = h.alarms + 1, !.cut = h.cut + 1]
      BY <1>3 DEF AlarmFires
    <3>2. h.alarms + 1 \in Nat /\ h.cut + 1 \in Nat
      BY <1>0 DEF HistoryType
    <3>3. \A a \in Nat, c \in Nat : /\ [h EXCEPT !.alarms = a] \in HistoryType
                                    /\ [h EXCEPT !.alarms = a, !.cut = c] \in HistoryType
      BY <1>0 DEF HistoryType
    <3> QED BY <3>1, <3>2, <3>3
  <2>5. UNCHANGED <<reqq, force_sync_sem, cmd, helper, inits, calls>>
    BY <1>3 DEF AlarmFires
  <2> QED BY <1>0, <2>1, <2>2, <2>3, <2>4, <2>5 DEF RequestTypes
<1>4. CASE CallerReturns
  <2>1. FlagTypes'
    BY <1>0, <1>4 DEF CallerReturns, FlagTypes, device
  <2>2. h' \in HistoryType
    <3>1. PICK b \in BOOLEAN : h' = [h EXCEPT !.lied = b]
      BY <1>4 DEF CallerReturns
    <3> QED BY <1>0, <3>1 DEF HistoryType
  <2>3. caller' \in CallerType /\ UNCHANGED <<reqq, respq, force_sync_sem, cmd, helper, inits, calls>>
    BY <1>4, ConstTypes DEF CallerReturns
  <2> QED BY <1>0, <2>1, <2>2, <2>3 DEF RequestTypes
<1> QED BY <1>1, <1>2, <1>3, <1>4

(* The helper's loop, and the callbacks it waits for.                      *)
LEMMA HelperTypes ==
    ASSUME RequestTypes,
           HelperTakes \/ HelperSends \/ HelperWakes \/ HelperAnswers \/ HelperLeaves
             \/ \E o \in AllOutcomes : Callback(o)
    PROVE  RequestTypes'
<1>0. /\ FlagTypes /\ h \in HistoryType /\ reqq \in Seq(ReqType) /\ respq \in Seq(AnswerType)
      /\ force_sync_sem \in Nat /\ cmd \in CmdType /\ caller \in CallerType /\ helper \in HelperType
      /\ inits \in Nat /\ calls \in Nat
  BY DEF RequestTypes
<1>a. helper.req \in ReqType /\ helper.out \in AnswerType /\ helper.req.kind \in SomeKind
  BY <1>0 DEF HelperType, ReqType
<1>1. CASE HelperTakes
  <2>1. FlagTypes'
    BY <1>0, <1>1 DEF HelperTakes, FlagTypes, device
  <2>2. reqq # <<>> /\ reqq' = Tail(reqq)
    BY <1>1 DEF HelperTakes
  <2>3. Head(reqq) \in ReqType /\ reqq' \in Seq(ReqType)
    BY <1>0, <2>2, HeadTailProperties
  <2>4. PICK p \in {"answer", "send"}, out \in AnswerType :
           helper' = [pc |-> p, req |-> Head(reqq), out |-> out]
    BY <1>1, <2>3, NoReplyType DEF HelperTakes
  <2>5. helper' \in HelperType
    BY <2>3, <2>4 DEF HelperType
  <2>6. UNCHANGED <<respq, force_sync_sem, cmd, caller, inits, calls, h>>
    BY <1>1 DEF HelperTakes
  <2> QED BY <1>0, <2>1, <2>3, <2>5, <2>6 DEF RequestTypes
<1>2. CASE HelperSends
  <2>1. FlagTypes'
    BY <1>0, <1>2 DEF HelperSends, FlagTypes, device
  <2>2. cmd' \in CmdType
    <3>1. Command(helper.req.kind, 1) \in CmdType
      BY <1>a, CommandType
    <3> QED BY <1>2, <3>1 DEF HelperSends
  <2>3. helper' \in HelperType
    BY <1>0, <1>2 DEF HelperSends, HelperType
  <2>4. force_sync_sem' = 0 /\ UNCHANGED <<reqq, respq, caller, inits, calls, h>>
    BY <1>2 DEF HelperSends
  <2> QED BY <1>0, <2>1, <2>2, <2>3, <2>4 DEF RequestTypes
<1>3. CASE HelperWakes
  <2>1. FlagTypes'
    BY <1>0, <1>3 DEF HelperWakes, FlagTypes, device
  <2>2. cmd' \in CmdType
    <3>1. Command("traceset", 2) \in CmdType
      BY CommandType DEF SomeKind, AllKinds
    <3> QED BY <1>0, <1>3, <3>1 DEF HelperWakes
  <2>3. helper' \in HelperType
    <3>1. [helper.out EXCEPT !.data = "other"] \in AnswerType
      BY <1>a DEF AnswerType
    <3>2. helper' = [helper EXCEPT !.pc = "answer"]
          \/ helper' = [helper EXCEPT !.out = [helper.out EXCEPT !.data = "other"]]
      BY <1>3 DEF HelperWakes
    <3> QED BY <1>0, <3>1, <3>2 DEF HelperType
  <2>4. force_sync_sem' \in Nat /\ UNCHANGED <<reqq, respq, caller, inits, calls, h>>
    BY <1>0, <1>3 DEF HelperWakes
  <2> QED BY <1>0, <2>1, <2>2, <2>3, <2>4 DEF RequestTypes
<1>4. CASE HelperAnswers
  <2>1. FlagTypes'
    BY <1>0, <1>4 DEF HelperAnswers, FlagTypes, device
  <2>2. respq' \in Seq(AnswerType)
    BY <1>0, <1>4, <1>a, AppendProperties DEF HelperAnswers
  <2>3. helper' \in HelperType
    <3>1. \A x \in HelperType : [x EXCEPT !.pc = "loop"] \in HelperType
      BY DEF HelperType
    <3> QED BY <1>4, <3>1, ConstTypes DEF HelperAnswers
  <2>4. UNCHANGED <<reqq, force_sync_sem, cmd, caller, inits, calls, h>>
    BY <1>4 DEF HelperAnswers
  <2> QED BY <1>0, <2>1, <2>2, <2>3, <2>4 DEF RequestTypes
<1>5. CASE HelperLeaves
  <2>1. FlagTypes'
    BY <1>0, <1>5 DEF HelperLeaves, FlagTypes, device
  <2>2. /\ helper' = Resting /\ reqq' = <<>> /\ respq' = <<>>
        /\ UNCHANGED <<force_sync_sem, cmd, caller, inits, calls, h>>
    BY <1>5 DEF HelperLeaves
  <2> QED BY <1>0, <2>1, <2>2, ConstTypes DEF RequestTypes
<1>6. ASSUME NEW o \in AllOutcomes, Callback(o) PROVE RequestTypes'
  <2>1. FlagTypes'
    BY <1>0, <1>6 DEF Callback, FlagTypes, device
  <2>2. helper' \in HelperType
    <3>1. helper' = [helper EXCEPT !.out = Written(cmd, o, helper.out)]
      BY <1>6 DEF Callback
    <3>2. Written(cmd, o, helper.out) \in AnswerType
      BY <1>a, WrittenType
    <3> QED BY <1>0, <3>1, <3>2 DEF HelperType
  <2>3. cmd' \in CmdType
    <3>1. cmd.kind \in SomeKind \cup {"open"} /\ cmd.step + 1 \in Nat
      BY <1>0 DEF CmdType
    <3>2. Command(cmd.kind, cmd.step + 1) \in CmdType
      BY <3>1, CommandType
    <3>3. cmd' = Command(cmd.kind, cmd.step + 1) \/ cmd' = NoCmd
      BY <1>6 DEF Callback
    <3> QED BY <3>2, <3>3, ConstTypes
  <2>4. force_sync_sem' \in Nat
    BY <1>0, <1>6 DEF Callback
  <2>5. h' \in HistoryType
    <3>1. (h.mute \/ o = "odd") \in BOOLEAN
      OBVIOUS
    <3>2. h' = [h EXCEPT !.mute = (h.mute \/ o = "odd")]
      BY <1>6 DEF Callback
    <3> QED BY <1>0, <3>1, <3>2 DEF HistoryType
  <2>6. UNCHANGED <<reqq, respq, caller, inits, calls>>
    BY <1>6 DEF Callback
  <2> QED BY <1>0, <2>1, <2>2, <2>3, <2>4, <2>5, <2>6 DEF RequestTypes
<1> QED BY <1>1, <1>2, <1>3, <1>4, <1>5, <1>6

-----------------------------------------------------------------------------
(* Which threads there are, and what of the device is open.  Only deinit() *)
(* takes the device or the queues away, and it is the last call; before    *)
(* it, the queues are empty and the helper has no request until the device *)
(* is open.                                                                *)
OpenInv ==
    /\ ended => caller.pc = "idle"
    /\ alarm => caller.pc \in {"wait", "close"}
    /\ h.hollow => h.failed
    /\ ~ended =>
         /\ helper.pc # "none" \/ g_mbim_device_init_flag => thread_running = "OK"
         /\ g_mbim_device_init_flag => g_mbimdevice
         /\ helper.pc = "open" => ~g_mbim_device_init_flag
         /\ helper.pc \in {"loop", "send", "wait", "answer"} => queues /\ g_mbim_device_init_flag
         /\ helper.pc = "opening" => queues
         /\ cmd.kind = "open" => /\ cmd.step = 1 => ~g_mbim_device_init_flag
                                 /\ cmd.step = 2 => g_mbimdevice
         /\ ~g_mbim_device_init_flag =>
              /\ reqq = <<>> /\ respq = <<>>
              /\ caller.pc \in {"idle", "opening"} /\ helper.pc \in {"none", "open", "opening"}
              /\ thread_running = "OK" => caller.pc = "opening" \/ h.failed

(* A command runs only for a helper that waits, and is its own; the        *)
(* semaphore is posted when the command is over.                           *)
WakeInv ==
    /\ cmd # NoCmd => /\ helper.pc \in {"wait", "opening"} /\ force_sync_sem = 0
                      /\ cmd.kind = IF helper.pc = "wait" THEN helper.req.kind ELSE "open"
    /\ cmd.kind = "open" => cmd.step \in {1, 2}
    /\ force_sync_sem \in {0, 1}
    /\ helper.pc \in {"wait", "opening"} => force_sync_sem = 1 \/ cmd # NoCmd \/ h.mute \/ ended

LEMMA CommandRuns ==
    ASSUME NEW k, NEW n \in Nat \ {0}
    PROVE  /\ Command(k, n) # NoCmd <=> g_mbimdevice \/ k = "open"
           /\ Command(k, n) # NoCmd => Command(k, n).kind = k /\ Command(k, n).step = n
           /\ Command(k, n).kind = "open" => k = "open" /\ Command(k, n).step = n
<1>1. [kind |-> k, step |-> n] # NoCmd
  BY DEF NoCmd
<1> QED BY <1>1, ConstTypes DEF Command

LEMMA OpenKept ==
    ASSUME RequestTypes, OpenInv, WakeInv,
           MbimInit \/ InitReturns \/ MbimDeinit \/ HelperOpens \/ HelperOpened
             \/ \E o \in {"go", "fail"} : OpenCallback(o)
    PROVE  OpenInv' /\ WakeInv'
<1>0. /\ FlagTypes /\ h \in HistoryType /\ force_sync_sem \in Nat /\ cmd \in CmdType
      /\ caller \in CallerType /\ helper \in HelperType
  BY DEF RequestTypes
<1>a. /\ [Resting EXCEPT !.pc = "open"].pc = "open" /\ [Idle EXCEPT !.pc = "opening"].pc = "opening"
      /\ \A p \in {"opening", "loop"} : [helper EXCEPT !.pc = p].pc = p
  BY <1>0 DEF Resting, Idle, HelperType
<1>1. CASE MbimInit
  <2>1. caller.pc = "idle" /\ ~ended
        /\ UNCHANGED <<g_mbim_device_init_flag, g_mbimdevice, queues, reqq, respq, alarm, force_sync_sem,
                       cmd, ended>>
    BY <1>1 DEF MbimInit
  <2>2. CASE thread_running = "OK"
    <3>1. UNCHANGED <<thread_running, helper, caller>>
          /\ h' = [h EXCEPT !.hollow = (h.hollow \/ ~g_mbim_device_init_flag)]
      BY <1>1, <2>2 DEF MbimInit
    <3>2. h'.failed = h.failed /\ h'.mute = h.mute
          /\ (h'.hollow => h.hollow \/ ~g_mbim_device_init_flag)
      BY <1>0, <3>1 DEF HistoryType
    <3>3. h'.hollow => h'.failed
      BY <2>1, <2>2, <3>2 DEF OpenInv
    <3> QED BY <2>1, <3>1, <3>2, <3>3 DEF OpenInv, WakeInv
  <2>3. CASE thread_running # "OK"
    <3>1. thread_running' = "OK" /\ helper'.pc = "open" /\ caller'.pc = "opening" /\ h' = h
      BY <1>1, <1>a, <2>3 DEF MbimInit
    <3>2. helper.pc = "none" /\ ~g_mbim_device_init_flag /\ cmd = NoCmd
      BY <2>1, <2>3 DEF OpenInv, WakeInv
    <3>3. cmd'.kind # "open"
      BY <2>1, <3>2, ConstTypes
    <3>4. OpenInv'
      BY <2>1, <3>1, <3>2, <3>3 DEF OpenInv
    <3> QED BY <2>1, <3>1, <3>2, <3>3, <3>4 DEF WakeInv
  <2> QED BY <2>2, <2>3
<1>2. CASE InitReturns
  <2>1. /\ caller.pc = "opening" /\ caller'.pc = "idle"
        /\ UNCHANGED <<thread_running, g_mbim_device_init_flag, g_mbimdevice, queues, reqq, respq,
                       alarm, force_sync_sem, cmd, helper, ended>>
    BY <1>2, ConstTypes DEF InitReturns, device
  <2>2. \/ g_mbim_device_init_flag /\ h' = [h EXCEPT !.hollow = (h.hollow \/ ~g_mbimdevice)]
        \/ h' = [h EXCEPT !.failed = TRUE]
    BY <1>2 DEF InitReturns
  <2>3. h'.mute = h.mute
    BY <1>0, <2>2 DEF HistoryType
  <2>4. ~ended
    BY <2>1 DEF OpenInv
  <2>5. CASE g_mbim_device_init_flag /\ h' = [h EXCEPT !.hollow = (h.hollow \/ ~g_mbimdevice)]
    <3>1. h'.failed = h.failed /\ (h'.hollow => h.hollow \/ ~g_mbimdevice)
      BY <1>0, <2>5 DEF HistoryType
    <3>2. ~alarm /\ (h'.hollow => h'.failed)
      BY <2>1, <2>4, <2>5, <3>1 DEF OpenInv
    <3> QED BY <2>1, <2>3, <2>4, <2>5, <3>1, <3>2 DEF OpenInv, WakeInv
  <2>6. CASE h' = [h EXCEPT !.failed = TRUE]
    <3>1. h'.failed /\ ~alarm
      BY <1>0, <2>1, <2>6 DEF HistoryType, OpenInv
    <3> QED BY <2>1, <2>3, <2>4, <3>1 DEF OpenInv, WakeInv
  <2> QED BY <2>2, <2>5, <2>6
<1>3. CASE MbimDeinit
  <2>1. caller.pc = "idle" /\ ended' = TRUE /\ UNCHANGED <<alarm, force_sync_sem, cmd, caller, helper, h>>
    BY <1>3 DEF MbimDeinit
  <2> QED BY <2>1 DEF OpenInv, WakeInv
<1>4. CASE HelperOpens
  <2>1. /\ helper.pc = "open" /\ queues' = TRUE /\ reqq' = <<>> /\ respq' = <<>>
        /\ UNCHANGED <<thread_running, g_mbim_device_init_flag, g_mbimdevice, alarm, caller, ended, h>>
    BY <1>4 DEF HelperOpens, device
  <2>2. \/ helper'.pc = "none" /\ UNCHANGED <<force_sync_sem, cmd>>
        \/ helper'.pc = "opening" /\ force_sync_sem' = 0 /\ cmd' = Command("open", 1)
    BY <1>4, <1>a, ConstTypes DEF HelperOpens
  <2>3. cmd = NoCmd /\ cmd.kind # "open"
    BY <2>1, ConstTypes DEF WakeInv
  <2>4. Command("open", 1) # NoCmd /\ Command("open", 1).kind = "open" /\ Command("open", 1).step = 1
    BY CommandRuns
  <2>5. CASE helper'.pc = "none" /\ UNCHANGED <<force_sync_sem, cmd>>
    BY <2>1, <2>3, <2>5 DEF OpenInv, WakeInv
  <2>6. CASE helper'.pc = "opening" /\ force_sync_sem' = 0 /\ cmd' = Command("open", 1)
    <3>1. cmd' # NoCmd /\ cmd'.kind = "open" /\ cmd'.step = 1
      BY <2>4, <2>6
    <3>2. OpenInv'
      BY <2>1, <2>6, <3>1 DEF OpenInv
    <3> QED BY <2>6, <3>1, <3>2 DEF WakeInv
  <2> QED BY <2>2, <2>5, <2>6
<1>5. CASE HelperOpened
  <2>1. /\ helper.pc = "opening" /\ force_sync_sem > 0 /\ force_sync_sem' = force_sync_sem - 1
        /\ UNCHANGED <<thread_running, g_mbim_device_init_flag, g_mbimdevice, queues, reqq, respq,
                       alarm, cmd, caller, ended, h>>
    BY <1>5 DEF HelperOpened
  <2>2. \/ g_mbim_device_init_flag /\ helper'.pc = "loop"
        \/ ~(g_mbim_device_init_flag /\ g_mbimdevice) /\ helper'.pc = "none"
    BY <1>5, <1>a, ConstTypes DEF HelperOpened
  <2>3. force_sync_sem = 1 /\ force_sync_sem' = 0 /\ cmd = NoCmd /\ cmd.kind # "open"
    BY <2>1, ConstTypes DEF WakeInv
  <2>4. OpenInv'
    BY <2>1, <2>2, <2>3 DEF OpenInv
  <2> QED BY <2>1, <2>2, <2>3, <2>4 DEF WakeInv
<1>6. ASSUME NEW o \in {"go", "fail"}, OpenCallback(o) PROVE OpenInv' /\ WakeInv'
  <2>1. /\ cmd.kind = "open"
        /\ UNCHANGED <<thread_running, queues, reqq, respq, alarm, caller, helper, ended, h>>
    BY <1>6 DEF OpenCallback
  <2>2. cmd # NoCmd /\ cmd.step \in {1, 2} /\ force_sync_sem = 0 /\ helper.pc = "opening"
    <3>1. cmd # NoCmd
      BY <2>1, ConstTypes
    <3>2. helper.req.kind # "open"
      BY <1>0 DEF HelperType, ReqType, SomeKind, AllKinds
    <3> QED BY <2>1, <3>1, <3>2 DEF WakeInv
  <2>3. Continues(cmd, o) <=> o = "go" /\ cmd.step = 1
    BY <2>1, <2>2 DEF Continues, ChainLength
  <2>4. Posts(cmd, o) <=> ~Continues(cmd, o)
    BY DEF Posts
  <2>a. g_mbimdevice' = IF cmd.step = 1 THEN o = "go" ELSE g_mbimdevice
    BY <1>6 DEF OpenCallback
  <2>b. g_mbim_device_init_flag' <=> g_mbim_device_init_flag \/ (cmd.step = 2 /\ o = "go")
    <3>1. g_mbim_device_init_flag' = (g_mbim_device_init_flag \/ (cmd.step = 2 /\ o = "go"))
      BY <1>6 DEF OpenCallback
    <3> QED BY <3>1, Zenon
  <2>5. CASE o = "go" /\ cmd.step = 1
    <3>1. g_mbimdevice' /\ (g_mbim_device_init_flag' <=> g_mbim_device_init_flag)
      <4>1. g_mbimdevice' = (o = "go")
        BY <2>5, <2>a
      <4>2. g_mbimdevice'
        BY <2>5, <4>1, Zenon
      <4> QED BY <2>5, <2>b, <4>2
    <3>2. cmd' = [cmd EXCEPT !.step = 2] /\ force_sync_sem' = 0
      BY <1>6, <2>2, <2>3, <2>4, <2>5 DEF OpenCallback
    <3>3. cmd'.kind = "open" /\ cmd'.step = 2 /\ cmd' # NoCmd
      BY <1>0, <2>1, <3>2, ConstTypes DEF CmdType
    <3>4. OpenInv'
      BY <2>1, <2>2, <3>1, <3>3 DEF OpenInv
    <3> QED BY <2>1, <2>2, <3>2, <3>3, <3>4 DEF WakeInv
  <2>6. CASE ~(o = "go" /\ cmd.step = 1)
    <3>1. cmd' = NoCmd /\ force_sync_sem' = 1
      BY <1>6, <2>2, <2>3, <2>4, <2>6 DEF OpenCallback
    <3>2. cmd'.kind # "open"
      BY <3>1, ConstTypes
    <3>3. CASE cmd.step = 1
      <4>1. g_mbim_device_init_flag' <=> g_mbim_device_init_flag
        BY <3>3, <2>b
      <4> QED BY <2>1, <2>2, <3>1, <3>2, <3>3, <4>1 DEF OpenInv, WakeInv
    <3>4. CASE cmd.step = 2
      <4>1. g_mbimdevice' = g_mbimdevice /\ (g_mbim_device_init_flag => g_mbim_device_init_flag')
        BY <3>4, <2>a, <2>b
      <4> QED BY <2>1, <2>2, <3>1, <3>2, <3>4, <4>1 DEF OpenInv, WakeInv
    <3> QED BY <2>2, <3>3, <3>4
  <2> QED BY <2>5, <2>6
<1> QED BY <1>1, <1>2, <1>3, <1>4, <1>5, <1>6

LEMMA CallerKept ==
    ASSUME RequestTypes, OpenInv, WakeInv,
           (\E k \in Kinds : CallRequest(k)) \/ CallerReceives \/ AlarmFires \/ CallerReturns
    PROVE  OpenInv' /\ WakeInv'
<1>0. h \in HistoryType /\ caller \in CallerType
  BY DEF RequestTypes
<1>1. ASSUME h'.mute = h.mute, UNCHANGED <<helper, cmd, force_sync_sem, ended>> PROVE WakeInv'
  BY <1>1 DEF WakeInv
<1>2. ASSUME NEW k \in Kinds, CallRequest(k) PROVE OpenInv' /\ WakeInv'
  <2>1. /\ UNCHANGED <<thread_running, g_mbim_device_init_flag, g_mbimdevice, queues, respq,
                       force_sync_sem, cmd, helper, ended, h>>
        /\ caller.pc = "idle" /\ ~ended
        /\ \/ g_mbim_device_init_flag /\ caller'.pc = "wait"
           \/ UNCHANGED <<reqq, alarm, caller>>
    BY <1>2 DEF CallRequest, device
  <2> QED BY <1>1, <2>1 DEF OpenInv
<1>3. CASE CallerReceives
  <2>1. /\ UNCHANGED <<thread_running, g_mbim_device_init_flag, g_mbimdevice, queues, reqq, alarm,
                       force_sync_sem, cmd, helper, ended>>
        /\ caller.pc = "wait"
    BY <1>3 DEF CallerReceives, device
  <2>2. caller'.pc = "close" /\ h'.mute = h.mute /\ h'.failed = h.failed /\ h'.hollow = h.hollow
    BY <1>0, <1>3 DEF CallerReceives, CallerType, HistoryType
  <2>3. ~ended => g_mbim_device_init_flag
    BY <2>1 DEF OpenInv
  <2> QED BY <1>1, <2>1, <2>2, <2>3 DEF OpenInv
<1>4. CASE AlarmFires
  <2>1. /\ UNCHANGED <<thread_running, g_mbim_device_init_flag, g_mbimdevice, queues, reqq,
                       force_sync_sem, cmd, helper, ended>>
        /\ alarm /\ ~alarm' /\ (caller' = caller \/ caller' = [caller EXCEPT !.pc = "close"])
    BY <1>4 DEF AlarmFires, device
  <2>2. caller.pc \in {"wait", "close"} /\ ~ended /\ g_mbim_device_init_flag
    BY <2>1 DEF OpenInv
  <2>3. caller'.pc \in {"wait", "close"}
    BY <1>0, <2>1, <2>2 DEF CallerType
  <2>4. h'.mute = h.mute /\ h'.failed = h.failed /\ h'.hollow = h.hollow
    BY <1>0, <1>4 DEF AlarmFires, HistoryType
  <2> QED BY <1>1, <2>1, <2>2, <2>3, <2>4 DEF OpenInv
<1>5. CASE CallerReturns
  <2>1. /\ UNCHANGED <<thread_running, g_mbim_device_init_flag, g_mbimdevice, queues, reqq, respq,
                       force_sync_sem, cmd, helper, ended>>
        /\ caller.pc = "close" /\ caller' = Idle /\ alarm' = FALSE
    BY <1>5 DEF CallerReturns, device
  <2>2. \E b \in BOOLEAN : h' = [h EXCEPT !.lied = b]
    BY <1>5 DEF CallerReturns
  <2>3. h'.mute = h.mute /\ h'.failed = h.failed /\ h'.hollow = h.hollow
    BY <1>0, <2>2 DEF HistoryType
  <2>4. ~ended /\ g_mbim_device_init_flag /\ caller'.pc = "idle"
    BY <2>1, ConstTypes DEF OpenInv
  <2> QED BY <1>1, <2>1, <2>3, <2>4 DEF OpenInv
<1> QED BY <1>2, <1>3, <1>4, <1>5

LEMMA HelperKept ==
    ASSUME RequestTypes, OpenInv, WakeInv,
           HelperTakes \/ HelperSends \/ HelperWakes \/ HelperAnswers \/ HelperLeaves
             \/ \E o \in AllOutcomes : Callback(o)
    PROVE  OpenInv' /\ WakeInv'
<1>0. h \in HistoryType /\ helper \in HelperType /\ cmd \in CmdType /\ force_sync_sem \in Nat
  BY DEF RequestTypes
<1>a. helper.req.kind # "open" /\ helper.req.kind \in SomeKind
  BY <1>0 DEF HelperType, ReqType, SomeKind, AllKinds
<1>1. ASSUME UNCHANGED <<device, queues, respq, alarm, caller, ended, h>>, reqq' = reqq \/ reqq # <<>>,
             helper.pc \in {"loop", "send", "wait", "answer"},
             helper'.pc \in {"loop", "send", "wait", "answer"}, cmd'.kind # "open"
      PROVE  OpenInv'
  BY <1>1 DEF OpenInv, device
<1>2. CASE HelperTakes
  <2>1. /\ UNCHANGED <<device, queues, respq, alarm, force_sync_sem, cmd, caller, ended, h>>
        /\ helper.pc = "loop" /\ helper'.pc \in {"answer", "send"} /\ reqq # <<>>
    BY <1>2 DEF HelperTakes
  <2>2. cmd' = NoCmd /\ cmd'.kind # "open"
    BY <2>1, ConstTypes DEF WakeInv
  <2>3. OpenInv'
    BY <1>1, <2>1, <2>2
  <2> QED BY <2>1, <2>2, <2>3 DEF WakeInv
<1>3. CASE HelperSends
  <2>1. /\ UNCHANGED <<device, queues, respq, reqq, alarm, caller, ended, h>>
        /\ helper.pc = "send" /\ helper' = [helper EXCEPT !.pc = "wait"]
        /\ force_sync_sem' = 0 /\ cmd' = Command(helper.req.kind, 1)
    BY <1>3 DEF HelperSends
  <2>2. helper'.pc = "wait" /\ helper'.req = helper.req
    BY <1>0, <2>1 DEF HelperType
  <2>3. /\ cmd' # NoCmd => cmd'.kind = helper.req.kind
        /\ cmd'.kind # "open"
        /\ g_mbimdevice => cmd' # NoCmd
    BY <1>a, <2>1, CommandRuns
  <2>4. ~ended => g_mbimdevice
    BY <2>1 DEF OpenInv
  <2>5. OpenInv'
    BY <1>1, <2>1, <2>2, <2>3
  <2> QED BY <2>1, <2>2, <2>3, <2>4, <2>5 DEF WakeInv
<1>4. CASE HelperWakes
  <2>1. /\ UNCHANGED <<device, queues, respq, reqq, alarm, caller, ended, h>>
        /\ helper.pc = "wait" /\ force_sync_sem > 0 /\ force_sync_sem' = force_sync_sem - 1
        /\ \/ /\ helper.req.kind = "traceset" /\ cmd' = Command("traceset", 2)
              /\ helper' = [helper EXCEPT !.out = [helper.out EXCEPT !.data = "other"]]
           \/ helper' = [helper EXCEPT !.pc = "answer"] /\ cmd' = cmd
    BY <1>4 DEF HelperWakes
  <2>2. force_sync_sem' = 0 /\ cmd = NoCmd
    BY <2>1 DEF WakeInv
  <2>3. CASE /\ helper.req.kind = "traceset" /\ cmd' = Command("traceset", 2)
             /\ helper' = [helper EXCEPT !.out = [helper.out EXCEPT !.data = "other"]]
    <3>1. helper'.pc = "wait" /\ helper'.req = helper.req
      BY <1>0, <2>1, <2>3 DEF HelperType
    <3>2. /\ cmd' # NoCmd => cmd'.kind = helper.req.kind
          /\ cmd'.kind # "open"
          /\ g_mbimdevice => cmd' # NoCmd
      BY <2>3, CommandRuns
    <3>3. ~ended => g_mbimdevice
      BY <2>1 DEF OpenInv
    <3>4. OpenInv'
      BY <1>1, <2>1, <3>1, <3>2
    <3> QED BY <2>1, <2>2, <3>1, <3>2, <3>3, <3>4 DEF WakeInv
  <2>4. CASE helper' = [helper EXCEPT !.pc = "answer"] /\ cmd' = cmd
    <3>1. helper'.pc = "answer" /\ cmd' = NoCmd /\ cmd'.kind # "open"
      BY <1>0, <2>2, <2>4, ConstTypes DEF HelperType
    <3>2. OpenInv'
      BY <1>1, <2>1, <3>1
    <3> QED BY <2>2, <3>1, <3>2 DEF WakeInv
  <2> QED BY <2>1, <2>3, <2>4
<1>5. CASE HelperAnswers
  <2>1. /\ UNCHANGED <<device, queues, reqq, alarm, force_sync_sem, cmd, caller, ended, h>>
        /\ helper.pc = "answer" /\ helper' = [Resting EXCEPT !.pc = "loop"]
    BY <1>5 DEF HelperAnswers
  <2>2. helper'.pc = "loop"
    BY <2>1 DEF Resting
  <2>3. cmd' = NoCmd /\ cmd'.kind # "open"
    BY <2>1, ConstTypes DEF WakeInv
  <2>4. OpenInv'
    BY <2>1, <2>2, <2>3 DEF OpenInv, device
  <2> QED BY <2>1, <2>2, <2>3, <2>4 DEF WakeInv
<1>6. CASE HelperLeaves
  <2>1. /\ UNCHANGED <<device, alarm, force_sync_sem, cmd, caller, ended, h>>
        /\ helper.pc = "loop" /\ thread_running = "ERR" /\ helper'.pc = "none"
    BY <1>6, ConstTypes DEF HelperLeaves
  <2>2. ended /\ cmd' = NoCmd /\ cmd'.kind # "open"
    BY <2>1, ConstTypes DEF OpenInv, WakeInv
  <2>3. OpenInv'
    BY <2>1, <2>2 DEF OpenInv
  <2> QED BY <2>1, <2>2, <2>3 DEF WakeInv
<1>7. ASSUME NEW o \in AllOutcomes, Callback(o) PROVE OpenInv' /\ WakeInv'
  <2>1. /\ UNCHANGED <<device, queues, respq, reqq, alarm, caller, ended>>
        /\ cmd # NoCmd /\ cmd.kind # "open"
        /\ helper' = [helper EXCEPT !.out = Written(cmd, o, helper.out)]
        /\ cmd' = IF Continues(cmd, o) THEN Command(cmd.kind, cmd.step + 1) ELSE NoCmd
        /\ force_sync_sem' = IF Posts(cmd, o) THEN force_sync_sem + 1 ELSE force_sync_sem
        /\ h' = [h EXCEPT !.mute = (h.mute \/ o = "odd")]
    BY <1>7 DEF Callback
  <2>2. helper'.pc = helper.pc /\ helper'.req = helper.req
    BY <1>0, <2>1 DEF HelperType
  <2>3. helper.pc = "wait" /\ force_sync_sem = 0 /\ cmd.kind = helper.req.kind
    BY <2>1 DEF WakeInv
  <2>4. h'.failed = h.failed /\ h'.hollow = h.hollow /\ (h'.mute <=> h.mute \/ o = "odd")
    BY <1>0, <2>1 DEF HistoryType
  <2>5. cmd'.kind # "open"
    <3>1. cmd.step + 1 \in Nat \ {0}
      BY <1>0 DEF CmdType
    <3> QED BY <1>a, <2>1, <2>3, <3>1, CommandRuns, ConstTypes
  <2>6. OpenInv'
    BY <2>1, <2>2, <2>3, <2>4, <2>5 DEF OpenInv, device
  <2>7. ~ended => g_mbimdevice
    BY <2>3 DEF OpenInv
  <2>8. CASE Continues(cmd, o)
    <3>1. cmd.step + 1 \in Nat \ {0}
      BY <1>0 DEF CmdType
    <3>2. cmd' = Command(cmd.kind, cmd.step + 1) /\ force_sync_sem' = 0
      BY <2>1, <2>3, <2>8 DEF Posts
    <3>3. (cmd' # NoCmd => cmd'.kind = cmd.kind) /\ (g_mbimdevice => cmd' # NoCmd)
      BY <3>1, <3>2, CommandRuns
    <3> QED BY <2>1, <2>2, <2>3, <2>5, <2>6, <2>7, <3>2, <3>3 DEF WakeInv
  <2>9. CASE ~Continues(cmd, o)
    <3>1. cmd' = NoCmd
      BY <2>1, <2>9
    <3>2. force_sync_sem' = 1 \/ (o = "odd" /\ force_sync_sem' = 0)
      BY <2>1, <2>3, <2>9 DEF Posts
    <3> QED BY <2>2, <2>4, <2>5, <2>6, <3>1, <3>2 DEF WakeInv
  <2> QED BY <2>8, <2>9
<1> QED BY <1>2, <1>3, <1>4, <1>5, <1>6, <1>7

-----------------------------------------------------------------------------
(* Answers are conserved.  Before the first alarm, all that is queued or   *)
(* in the helper's hands belongs to the call that waits.                   *)
Held == IF helper.pc \in {"send", "wait", "answer"} THEN 1 ELSE 0
Waits == IF caller.pc = "wait" THEN 1 ELSE 0

OwnOnly ==
    /\ \A n \in 1..Len(respq) : respq[n].id = caller.id
    /\ \A n \in 1..Len(reqq) : reqq[n].id = caller.id
    /\ Held = 1 => helper.req.id = caller.id /\ helper.out.id = caller.id

AnswersInv ==
    /\ AnswersConserved
    /\ h.cut <= h.alarms
    /\ h.alarms = 0 /\ ~ended => OwnOnly

LEMMA Balanced ==
    AnswersConserved <=>
        /\ ~ended => Len(respq) + Len(reqq) + Held = h.alarms + h.cut + Waits
        /\ h.stale => h.alarms > 0
  BY DEF AnswersConserved, Held, Waits

LEMMA SizeTypes ==
    ASSUME RequestTypes
    PROVE  /\ Len(respq) \in Nat /\ Len(reqq) \in Nat /\ Held \in {0, 1} /\ Waits \in {0, 1}
           /\ h.alarms \in Nat /\ h.cut \in Nat
<1>1. h \in HistoryType /\ respq \in Seq(AnswerType) /\ reqq \in Seq(ReqType)
  BY DEF RequestTypes
<1>2. Len(respq) \in Nat /\ Len(reqq) \in Nat
  BY <1>1, LenProperties
<1>3. h.alarms \in Nat /\ h.cut \in Nat
  BY <1>1 DEF HistoryType
<1> QED BY <1>2, <1>3 DEF Held, Waits

(* With no alarm so far and nobody waiting there is nothing on its way.    *)
LEMMA NothingUnderway ==
    ASSUME RequestTypes, AnswersInv, ~ended, h.alarms = 0, caller.pc # "wait"
    PROVE  Len(respq) = 0 /\ Len(reqq) = 0 /\ Held = 0
<1> DEFINE a == Len(respq)
           b == Len(reqq)
           al == h.alarms
           cu == h.cut
<1>1. a \in Nat /\ b \in Nat /\ Held \in {0, 1} /\ al \in Nat /\ cu \in Nat
  BY SizeTypes
<1>2. a + b + Held = al + cu + 0 /\ cu <= al /\ al = 0
  <2>1. Waits = 0
    BY DEF Waits
  <2> QED BY <2>1, Balanced DEF AnswersInv
<1> HIDE DEF a, b, al, cu
<1>3. a = 0 /\ b = 0 /\ Held = 0
  BY <1>1, <1>2
<1> QED BY <1>3 DEF a, b

(* Nothing that is counted moves.                                          *)
LEMMA AnswersStay ==
    ASSUME RequestTypes, AnswersInv, UNCHANGED <<respq, reqq, caller, ended>>,
           h'.alarms = h.alarms, h'.cut = h.cut, h'.stale = h.stale, Held' = Held,
           helper'.req.id = helper.req.id \/ Held = 0,
           helper'.out.id = helper.out.id \/ Held = 0
    PROVE  AnswersInv'
<1>1. Waits' = Waits
  BY DEF Waits
<1>2. AnswersConserved'
  <2>1. /\ ~ended' => Len(respq)' + Len(reqq)' + Held' = h'.alarms + h'.cut + Waits'
        /\ h'.stale => h'.alarms > 0
    BY <1>1, Balanced DEF AnswersInv
  <2> QED BY <2>1 DEF AnswersConserved, Held, Waits
<1>3. h'.alarms = 0 /\ ~ended' => OwnOnly'
  <2>1. OwnOnly => OwnOnly'
    BY SizeTypes DEF OwnOnly
  <2> QED BY <2>1 DEF AnswersInv
<1> QED BY <1>2, <1>3 DEF AnswersInv

(* After deinit() nothing is counted any more.                             *)
LEMMA AnswersEnded ==
    ASSUME AnswersInv, ended', h'.alarms = h.alarms, h'.cut = h.cut, h'.stale = h.stale
    PROVE  AnswersInv'
  BY DEF AnswersInv, AnswersConserved

LEMMA AnswersOpen ==
    ASSUME RequestTypes, OpenInv, WakeInv, AnswersInv,
           MbimInit \/ InitReturns \/ MbimDeinit \/ HelperOpens \/ HelperOpened
             \/ \E o \in {"go", "fail"} : OpenCallback(o)
    PROVE  AnswersInv'
<1>0. h \in HistoryType /\ helper \in HelperType
  BY DEF RequestTypes
<1>a. /\ [Resting EXCEPT !.pc = "open"].pc = "open" /\ [Idle EXCEPT !.pc = "opening"].pc = "opening"
      /\ \A p \in {"opening", "loop"} : [helper EXCEPT !.pc = p].pc = p
  BY <1>0 DEF Resting, Idle, HelperType
<1>1. CASE MbimInit
  <2>1. UNCHANGED <<reqq, respq, ended>> /\ ~ended /\ caller.pc = "idle"
    BY <1>1 DEF MbimInit
  <2>2. h'.alarms = h.alarms /\ h'.cut = h.cut /\ h'.stale = h.stale
    BY <1>0, <1>1 DEF MbimInit, HistoryType
  <2>3. CASE UNCHANGED <<helper, caller>>
    BY <2>1, <2>2, <2>3, AnswersStay DEF Held
  <2>4. CASE thread_running # "OK" /\ helper'.pc = "open" /\ caller'.pc = "opening"
    <3>1. helper.pc = "none" /\ reqq = <<>> /\ respq = <<>> /\ Len(<<>>) = 0
      BY <2>1, <2>4 DEF OpenInv
    <3>2. Held = 0 /\ Held' = 0 /\ Waits = 0 /\ Waits' = 0
      BY <2>1, <2>4, <3>1 DEF Held, Waits
    <3>3. AnswersConserved'
      <4>1. /\ ~ended' => Len(respq)' + Len(reqq)' + Held' = h'.alarms + h'.cut + Waits'
            /\ h'.stale => h'.alarms > 0
        BY <2>1, <2>2, <3>2, Balanced DEF AnswersInv
      <4> QED BY <4>1 DEF AnswersConserved, Held, Waits
    <3>4. OwnOnly'
      BY <2>1, <3>1, <3>2 DEF OwnOnly
    <3> QED BY <2>2, <3>3, <3>4 DEF AnswersInv
  <2> QED BY <1>1, <1>a, <2>3, <2>4 DEF MbimInit
<1>2. CASE InitReturns
  <2>1. UNCHANGED <<reqq, respq, ended, helper>> /\ caller.pc = "opening" /\ caller'.pc = "idle"
    BY <1>2, ConstTypes DEF InitReturns
  <2>2. h'.alarms = h.alarms /\ h'.cut = h.cut /\ h'.stale = h.stale
    BY <1>0, <1>2 DEF InitReturns, HistoryType
  <2>3. Held' = Held /\ Waits = 0 /\ Waits' = 0
    BY <2>1 DEF Held, Waits
  <2>4. AnswersConserved'
    <3>1. /\ ~ended' => Len(respq)' + Len(reqq)' + Held' = h'.alarms + h'.cut + Waits'
          /\ h'.stale => h'.alarms > 0
      BY <2>1, <2>2, <2>3, Balanced DEF AnswersInv
    <3> QED BY <3>1 DEF AnswersConserved, Held, Waits
  <2>5. ASSUME h'.alarms = 0, ~ended' PROVE OwnOnly'
    <3>1. Len(respq) = 0 /\ Len(reqq) = 0 /\ Held = 0
      BY <2>1, <2>2, <2>5, NothingUnderway
    <3>2. 1..0 = {}
      OBVIOUS
    <3> QED BY <2>1, <2>3, <3>1, <3>2 DEF OwnOnly
  <2> QED BY <2>2, <2>4, <2>5 DEF AnswersInv
<1>3. CASE MbimDeinit
  <2>1. ended' /\ UNCHANGED h
    BY <1>3 DEF MbimDeinit
  <2> QED BY <2>1, AnswersEnded
<1>4. CASE HelperOpens
  <2>1. /\ helper.pc = "open" /\ reqq' = <<>> /\ respq' = <<>> /\ helper'.pc \in {"none", "opening"}
        /\ UNCHANGED <<caller, ended, h>>
    BY <1>4, <1>a, ConstTypes DEF HelperOpens
  <2>2. CASE ended
    BY <2>1, <2>2, AnswersEnded
  <2>3. CASE ~ended
    <3>1. reqq = <<>> /\ respq = <<>>
      BY <2>1, <2>3 DEF OpenInv
    <3>2. Held = 0 /\ Held' = 0
      BY <2>1 DEF Held
    <3> QED BY <2>1, <3>1, <3>2, AnswersStay
  <2> QED BY <2>2, <2>3
<1>5. CASE HelperOpened
  <2>1. helper.pc = "opening" /\ helper'.pc \in {"none", "loop"} /\ UNCHANGED <<reqq, respq, caller, ended, h>>
    BY <1>5, <1>a, ConstTypes DEF HelperOpened
  <2>2. Held = 0 /\ Held' = 0
    BY <2>1 DEF Held
  <2> QED BY <2>1, <2>2, AnswersStay
<1>6. ASSUME NEW o \in {"go", "fail"}, OpenCallback(o) PROVE AnswersInv'
  <2>1. UNCHANGED <<reqq, respq, caller, helper, ended, h>>
    BY <1>6 DEF OpenCallback
  <2> QED BY <2>1, AnswersStay DEF Held
<1> QED BY <1>1, <1>2, <1>3, <1>4, <1>5, <1>6

(* The caller takes an answer, is cut short, or starts over.               *)
LEMMA AnswersCaller ==
    ASSUME RequestTypes, OpenInv, AnswersInv,
           (\E k \in Kinds : CallRequest(k)) \/ CallerReceives \/ AlarmFires \/ CallerReturns
    PROVE  AnswersInv'
<1>0. /\ h \in HistoryType /\ helper \in HelperType /\ caller \in CallerType
      /\ reqq \in Seq(ReqType) /\ respq \in Seq(AnswerType)
  BY DEF RequestTypes
<1>a. /\ ~ended => Len(respq) + Len(reqq) + Held = h.alarms + h.cut + Waits
      /\ h.stale => h.alarms > 0
      /\ h.cut <= h.alarms
  BY Balanced DEF AnswersInv
<1>b. /\ Len(respq) \in Nat /\ Len(reqq) \in Nat /\ Held \in {0, 1} /\ Waits \in {0, 1}
      /\ h.alarms \in Nat /\ h.cut \in Nat
  BY SizeTypes
<1> DEFINE a == Len(respq)
           b == Len(reqq)
           al == h.alarms
           cu == h.cut
<1>1. ASSUME NEW k \in Kinds, CallRequest(k) PROVE AnswersInv'
  <2>1. caller.pc = "idle" /\ ~ended /\ calls' = calls + 1 /\ UNCHANGED <<respq, helper, ended, h>>
    BY <1>1 DEF CallRequest
  <2>2. Held' = Held
    BY <2>1 DEF Held
  <2>3. CASE UNCHANGED <<reqq, caller>>
    BY <2>1, <2>2, <2>3, AnswersStay
  <2>4. CASE /\ reqq' = Append(reqq, [kind |-> k, id |-> calls'])
             /\ caller' = [pc |-> "wait", kind |-> k, id |-> calls', got |-> NoAnswer]
    <3>1. Waits = 0 /\ Waits' = 1 /\ caller'.id = calls'
      BY <2>1, <2>4 DEF Waits
    <3>2. Len(reqq)' = b + 1
      BY <1>0, <2>4, AppendProperties
    <3>3. Len(respq)' + Len(reqq)' + Held' = h'.alarms + h'.cut + Waits'
      <4>1. /\ a + b + Held = al + cu + 0 /\ Len(respq)' = a /\ h'.alarms = al /\ h'.cut = cu
            /\ a \in Nat /\ b \in Nat /\ al \in Nat /\ cu \in Nat /\ Held \in {0, 1}
        BY <1>a, <1>b, <2>1, <3>1
      <4> HIDE DEF a, b, al, cu
      <4> QED BY <2>2, <3>1, <3>2, <4>1
    <3>4. AnswersConserved'
      BY <1>a, <2>1, <3>3 DEF AnswersConserved, Held, Waits
    <3>5. ASSUME h'.alarms = 0 PROVE OwnOnly'
      <4>1. Len(respq) = 0 /\ Len(reqq) = 0 /\ Held = 0
        BY <2>1, <3>5, NothingUnderway
      <4>2. 1..0 = {} /\ 1..1 = {1}
        OBVIOUS
      <4>3. reqq'[1] = [kind |-> k, id |-> calls']
        BY <1>0, <2>4, <4>1, AppendProperties
      <4> QED BY <2>1, <2>2, <3>1, <3>2, <4>1, <4>2, <4>3 DEF OwnOnly
    <3> QED BY <1>a, <2>1, <3>4, <3>5 DEF AnswersInv
  <2> QED BY <1>1, <2>3, <2>4 DEF CallRequest
<1>2. CASE CallerReceives
  <2>1. /\ caller.pc = "wait" /\ respq # <<>> /\ respq' = Tail(respq)
        /\ caller' = [caller EXCEPT !.pc = "close", !.got = Head(respq)]
        /\ h' = [h EXCEPT !.stale = (h.stale \/ Head(respq).id # caller.id)]
        /\ UNCHANGED <<reqq, helper, ended>>
    BY <1>2 DEF CallerReceives
  <2>2. caller'.pc = "close" /\ caller'.id = caller.id
    BY <1>0, <2>1 DEF CallerType
  <2>3. h'.alarms = h.alarms /\ h'.cut = h.cut /\ (h'.stale => h.stale \/ Head(respq).id # caller.id)
    BY <1>0, <2>1 DEF HistoryType
  <2>4. /\ a \in Nat \ {0} /\ Len(respq)' = a - 1 /\ Head(respq) = respq[1]
        /\ \A n \in 1..(a - 1) : respq'[n] = respq[n + 1]
    BY <1>0, <1>b, <2>1, HeadTailProperties, EmptySeq
  <2>5. Held' = Held /\ Waits = 1 /\ Waits' = 0 /\ ~ended
    BY <2>1, <2>2 DEF Held, Waits, OpenInv
  <2>6. Len(respq)' + Len(reqq)' + Held' = h'.alarms + h'.cut + Waits'
    <3>1. /\ a + b + Held = al + cu + 1 /\ Len(reqq)' = b /\ h'.alarms = al /\ h'.cut = cu
          /\ a \in Nat /\ b \in Nat /\ al \in Nat /\ cu \in Nat /\ Held \in {0, 1}
      BY <1>a, <1>b, <2>1, <2>3, <2>5
    <3>2. Len(respq)' = a - 1 /\ Held' = Held /\ Waits' = 0
      BY <2>4, <2>5
    <3> HIDE DEF a, b, al, cu
    <3>3. (a - 1) + b + Held = al + cu + 0
      BY <3>1
    <3> QED BY <3>1, <3>2, <3>3
  <2>7. h.alarms = 0 => OwnOnly
    BY <2>5 DEF AnswersInv
  <2>8. h'.stale => h'.alarms > 0
    <3>1. h.alarms = 0 => respq[1].id = caller.id
      BY <2>4, <2>7 DEF OwnOnly
    <3> QED BY <1>a, <1>b, <2>3, <2>4, <3>1
  <2>9. AnswersConserved'
    BY <2>6, <2>8 DEF AnswersConserved, Held, Waits
  <2>10. ASSUME h'.alarms = 0 PROVE OwnOnly'
    <3>1. OwnOnly
      BY <2>3, <2>7, <2>10
    <3>2. \A n \in 1..Len(respq)' : respq'[n].id = caller'.id
      <4>1. \A n \in 1..(a - 1) : n + 1 \in 1..a
        BY <2>4
      <4> QED BY <2>2, <2>4, <3>1, <4>1 DEF OwnOnly
    <3> QED BY <2>1, <2>2, <2>5, <3>1, <3>2 DEF OwnOnly
  <2> QED BY <1>a, <2>3, <2>9, <2>10 DEF AnswersInv
<1>3. CASE AlarmFires
  <2>1. alarm /\ respq' = Append(respq, AlarmAnswer) /\ UNCHANGED <<reqq, helper, ended>>
    BY <1>3 DEF AlarmFires
  <2>2. Len(respq)' = a + 1
    <3>1. AlarmAnswer \in AnswerType
      BY <1>0 DEF AlarmAnswer, AnswerType, CallerType
    <3> QED BY <1>0, <2>1, <3>1, AppendProperties
  <2>3. Held' = Held /\ ~ended
    BY <2>1 DEF Held, OpenInv
  <2>4. \/ caller' = caller /\ h' = [h EXCEPT !.alarms = h.alarms + 1]
        \/ /\ caller.pc = "wait" /\ caller' = [caller EXCEPT !.pc = "close"]
           /\ h' = [h EXCEPT !.alarms = h.alarms + 1, !.cut = h.cut + 1]
    BY <1>3 DEF AlarmFires
  <2>5. /\ h'.alarms = al + 1 /\ h'.stale = h.stale
        /\ \/ h'.cut = cu /\ Waits' = Waits
           \/ h'.cut = cu + 1 /\ Waits = 1 /\ Waits' = 0
    BY <1>0, <2>4 DEF HistoryType, CallerType, Waits
  <2>6. /\ Len(respq)' + Len(reqq)' + Held' = h'.alarms + h'.cut + Waits'
        /\ h'.cut <= h'.alarms /\ h'.alarms > 0
    <3>1. /\ a + b + Held = al + cu + Waits /\ Len(reqq)' = b /\ cu <= al
          /\ a \in Nat /\ b \in Nat /\ al \in Nat /\ cu \in Nat /\ Held \in {0, 1} /\ Waits \in {0, 1}
      BY <1>a, <1>b, <2>1, <2>3
    <3> HIDE DEF a, b, al, cu
    <3> QED BY <2>2, <2>3, <2>5, <3>1
  <2>7. AnswersConserved'
    BY <2>6 DEF AnswersConserved, Held, Waits
  <2> QED BY <2>6, <2>7 DEF AnswersInv
<1>4. CASE CallerReturns
  <2>1. caller.pc = "close" /\ caller'.pc = "idle" /\ UNCHANGED <<reqq, respq, helper, ended>>
    BY <1>4, ConstTypes DEF CallerReturns
  <2>2. h'.alarms = h.alarms /\ h'.cut = h.cut /\ h'.stale = h.stale
    <3>1. PICK l : h' = [h EXCEPT !.lied = l]
      BY <1>4 DEF CallerReturns
    <3> QED BY <1>0, <3>1 DEF HistoryType
  <2>3. Held' = Held /\ Waits = 0 /\ Waits' = 0 /\ ~ended
    BY <2>1 DEF Held, Waits, OpenInv
  <2>4. AnswersConserved'
    <3>1. Len(respq)' + Len(reqq)' + Held' = h'.alarms + h'.cut + Waits' /\ (h'.stale => h'.alarms > 0)
      BY <1>a, <2>1, <2>2, <2>3
    <3> QED BY <3>1 DEF AnswersConserved, Held, Waits
  <2>5. ASSUME h'.alarms = 0 PROVE OwnOnly'
    <3>1. Len(respq) = 0 /\ Len(reqq) = 0 /\ Held = 0
      BY <2>1, <2>2, <2>3, <2>5, NothingUnderway
    <3>2. 1..0 = {}
      OBVIOUS
    <3> QED BY <2>1, <2>3, <3>1, <3>2 DEF OwnOnly
  <2> QED BY <1>a, <2>2, <2>4, <2>5 DEF AnswersInv
<1> QED BY <1>1, <1>2, <1>3, <1>4

(* The helper turns a request into an answer.                              *)
LEMMA AnswersHelper ==
    ASSUME RequestTypes, OpenInv, WakeInv, AnswersInv,
           HelperTakes \/ HelperSends \/ HelperWakes \/ HelperAnswers \/ HelperLeaves
             \/ \E o \in AllOutcomes : Callback(o)
    PROVE  AnswersInv'
<1>0. /\ h \in HistoryType /\ helper \in HelperType /\ reqq \in Seq(ReqType) /\ respq \in Seq(AnswerType)
  BY DEF RequestTypes
<1>z. helper.req \in ReqType /\ helper.out \in AnswerType
  BY <1>0 DEF HelperType
<1>a. /\ ~ended => Len(respq) + Len(reqq) + Held = h.alarms + h.cut + Waits
      /\ h.stale => h.alarms > 0
      /\ h.cut <= h.alarms
  BY Balanced DEF AnswersInv
<1>b. /\ Len(respq) \in Nat /\ Len(reqq) \in Nat /\ Held \in {0, 1} /\ Waits \in {0, 1}
      /\ h.alarms \in Nat /\ h.cut \in Nat
  BY SizeTypes
<1> DEFINE a == Len(respq)
           b == Len(reqq)
           al == h.alarms
           cu == h.cut
<1>1. CASE HelperTakes
  <2>1. /\ helper.pc = "loop" /\ reqq # <<>> /\ reqq' = Tail(reqq)
        /\ UNCHANGED <<respq, caller, ended, h>>
    BY <1>1 DEF HelperTakes
  <2>2. /\ b \in Nat \ {0} /\ Len(reqq)' = b - 1 /\ Head(reqq) = reqq[1] /\ Head(reqq) \in ReqType
        /\ \A n \in 1..(b - 1) : reqq'[n] = reqq[n + 1]
    BY <1>0, <1>b, <2>1, HeadTailProperties, EmptySeq
  <2>3. /\ helper'.pc \in {"send", "answer"} /\ helper'.req = Head(reqq)
        /\ helper'.out.id = Head(reqq).id
    <3>1. PICK p \in {"answer", "send"},
               out \in {NoReply(Head(reqq)), [NoReply(Head(reqq)) EXCEPT !.res = "ERR"],
                        [NoReply(Head(reqq)) EXCEPT !.data = "same"]} :
             helper' = [pc |-> p, req |-> Head(reqq), out |-> out]
      BY <1>1 DEF HelperTakes
    <3>2. out.id = Head(reqq).id
      BY <2>2, <3>1, NoReplyType
    <3> QED BY <3>1, <3>2
  <2>4. CASE ended
    BY <2>1, <2>4, AnswersEnded
  <2>5. CASE ~ended
    <3>1. Held = 0 /\ Held' = 1 /\ Waits' = Waits
      BY <2>1, <2>3 DEF Held, Waits
    <3>2. Len(respq)' + Len(reqq)' + Held' = h'.alarms + h'.cut + Waits'
      <4>1. /\ a + b + 0 = al + cu + Waits /\ Len(respq)' = a /\ h'.alarms = al /\ h'.cut = cu
            /\ a \in Nat /\ b \in Nat /\ al \in Nat /\ cu \in Nat /\ Waits \in {0, 1}
        BY <1>a, <1>b, <2>1, <2>5, <3>1
      <4> HIDE DEF a, b, al, cu
      <4> QED BY <2>2, <3>1, <4>1
    <3>3. AnswersConserved'
      BY <1>a, <2>1, <3>2 DEF AnswersConserved, Held, Waits
    <3>4. OwnOnly => OwnOnly'
      <4>1. \A n \in 1..(b - 1) : n + 1 \in 1..b
        BY <2>2
      <4>2. ASSUME OwnOnly PROVE \A n \in 1..Len(reqq)' : reqq'[n].id = caller'.id
        BY <2>1, <2>2, <4>1, <4>2 DEF OwnOnly
      <4>3. ASSUME OwnOnly PROVE helper'.req.id = caller'.id /\ helper'.out.id = caller'.id
        BY <2>1, <2>2, <2>3, <4>3 DEF OwnOnly
      <4> QED BY <2>1, <3>1, <4>2, <4>3 DEF OwnOnly
    <3> QED BY <1>a, <2>1, <3>3, <3>4 DEF AnswersInv
  <2> QED BY <2>4, <2>5
<1>2. CASE HelperSends
  <2>1. helper.pc = "send" /\ helper' = [helper EXCEPT !.pc = "wait"] /\ UNCHANGED <<reqq, respq, caller, ended, h>>
    BY <1>2 DEF HelperSends
  <2>2. helper'.pc = "wait" /\ helper'.req = helper.req /\ helper'.out = helper.out
    BY <1>0, <2>1 DEF HelperType
  <2>3. Held' = Held
    BY <2>1, <2>2 DEF Held
  <2> QED BY <2>1, <2>2, <2>3, AnswersStay
<1>3. CASE HelperWakes
  <2>1. /\ helper.pc = "wait" /\ UNCHANGED <<reqq, respq, caller, ended, h>>
        /\ \/ helper' = [helper EXCEPT !.pc = "answer"]
           \/ helper' = [helper EXCEPT !.out = [helper.out EXCEPT !.data = "other"]]
    BY <1>3 DEF HelperWakes
  <2>2. helper'.pc \in {"wait", "answer"} /\ helper'.req = helper.req /\ helper'.out.id = helper.out.id
    <3>1. [helper.out EXCEPT !.data = "other"].id = helper.out.id
      BY <1>z DEF AnswerType
    <3> QED BY <1>0, <2>1, <3>1 DEF HelperType
  <2>3. Held' = Held
    BY <2>1, <2>2 DEF Held
  <2> QED BY <2>1, <2>2, <2>3, AnswersStay
<1>4. CASE HelperAnswers
  <2>1. /\ helper.pc = "answer" /\ helper'.pc = "loop" /\ UNCHANGED <<reqq, caller, ended, h>>
        /\ respq' = IF queues THEN Append(respq, helper.out) ELSE respq
    BY <1>4 DEF HelperAnswers, Resting
  <2>2. CASE ended
    BY <2>1, <2>2, AnswersEnded
  <2>3. CASE ~ended
    <3>1. respq' = Append(respq, helper.out)
      BY <2>1, <2>3 DEF OpenInv
    <3>2. /\ Len(respq)' = a + 1 /\ respq'[a + 1] = helper.out
          /\ \A n \in 1..a : respq'[n] = respq[n]
      BY <1>0, <1>z, <3>1, AppendProperties
    <3>3. Held = 1 /\ Held' = 0 /\ Waits' = Waits
      BY <2>1 DEF Held, Waits
    <3>4. Len(respq)' + Len(reqq)' + Held' = h'.alarms + h'.cut + Waits'
      <4>1. /\ a + b + 1 = al + cu + Waits /\ Len(reqq)' = b /\ h'.alarms = al /\ h'.cut = cu
            /\ a \in Nat /\ b \in Nat /\ al \in Nat /\ cu \in Nat /\ Waits \in {0, 1}
        BY <1>a, <1>b, <2>1, <2>3, <3>3
      <4> HIDE DEF a, b, al, cu
      <4> QED BY <3>2, <3>3, <4>1
    <3>5. AnswersConserved'
      BY <1>a, <2>1, <3>4 DEF AnswersConserved, Held, Waits
    <3>6. OwnOnly => OwnOnly'
      <4>1. \A n \in 1..(a + 1) : n \in 1..a \/ n = a + 1
        BY <1>b
      <4>2. ASSUME OwnOnly PROVE \A n \in 1..Len(respq)' : respq'[n].id = caller'.id
        <5>1. helper.out.id = caller.id /\ \A n \in 1..a : respq[n].id = caller.id
          BY <3>3, <4>2 DEF OwnOnly
        <5> QED BY <2>1, <3>2, <4>1, <5>1
      <4> QED BY <2>1, <3>3, <4>2 DEF OwnOnly
    <3> QED BY <1>a, <2>1, <3>5, <3>6 DEF AnswersInv
  <2> QED BY <2>2, <2>3
<1>5. CASE HelperLeaves
  <2>1. helper.pc = "loop" /\ thread_running = "ERR" /\ UNCHANGED <<ended, h>>
    BY <1>5 DEF HelperLeaves
  <2>2. ended
    BY <2>1 DEF OpenInv
  <2> QED BY <2>1, <2>2, AnswersEnded
<1>6. ASSUME NEW o \in AllOutcomes, Callback(o) PROVE AnswersInv'
  <2>1. /\ helper' = [helper EXCEPT !.out = Written(cmd, o, helper.out)]
        /\ h' = [h EXCEPT !.mute = (h.mute \/ o = "odd")]
        /\ UNCHANGED <<reqq, respq, caller, ended>>
    BY <1>6 DEF Callback
  <2>2. helper'.pc = helper.pc /\ helper'.req = helper.req /\ helper'.out.id = helper.out.id
    BY <1>0, <1>z, <2>1, WrittenType DEF HelperType
  <2>3. h'.alarms = h.alarms /\ h'.cut = h.cut /\ h'.stale = h.stale
    BY <1>0, <2>1 DEF HistoryType
  <2>4. Held' = Held
    BY <2>2 DEF Held
  <2> QED BY <2>1, <2>2, <2>3, <2>4, AnswersStay
<1> QED BY <1>1, <1>2, <1>3, <1>4, <1>5, <1>6

-----------------------------------------------------------------------------
(* What an answer says.  One that says OK although the modem did nothing   *)
(* holds a value by which the caller recognises it; and an answer with the *)
(* number of the pending call has its kind.                                *)
Good(a) == a.res = "OK" /\ ~a.done =>
             /\ a.kind \in {"slotset", "traceset", "trace"} => a.data # "same"
             /\ a.kind = "at" => a.data \in {"ERROR", "empty"}
Calling == caller.pc \in {"wait", "close"}
Fits(i, k) == i <= calls /\ (Calling /\ i = caller.id => k = caller.kind)
Fair(a) == Fits(a.id, a.kind) /\ Good(a)

RequestsFit == \A n \in 1..Len(reqq) : Fits(reqq[n].id, reqq[n].kind)
AnswersFit == \A n \in 1..Len(respq) : Fair(respq[n])
HelperFits == Held = 1 => Fair(helper.out) /\ helper.out.id = helper.req.id /\ helper.out.kind = helper.req.kind
CallerFits == (Calling => caller.id = calls) /\ (caller.got = NoAnswer \/ Fair(caller.got))

DoneInv == ~h.lied /\ RequestsFit /\ AnswersFit /\ HelperFits /\ CallerFits

(* What fits goes on to fit: a new call has a number of its own.           *)
StillFits == \A i \in Nat, k \in SomeKind : Fits(i, k) => Fits(i, k)'

LEMMA FitsKept ==
    ASSUME RequestTypes,
           \/ /\ calls' = calls
              /\ Calling' => Calling /\ caller'.id = caller.id /\ caller'.kind = caller.kind
           \/ /\ calls' = calls + 1
              /\ Calling' => caller'.id = calls'
    PROVE  StillFits
<1>1. calls \in Nat
  BY DEF RequestTypes
<1>2. CASE calls' = calls /\ (Calling' => Calling /\ caller'.id = caller.id /\ caller'.kind = caller.kind)
  BY <1>2 DEF StillFits, Fits
<1>3. CASE calls' = calls + 1 /\ (Calling' => caller'.id = calls')
  <2>1. ASSUME NEW i \in Nat, NEW k \in SomeKind, Fits(i, k) PROVE Fits(i, k)'
    <3>1. i <= calls
      BY <2>1 DEF Fits
    <3>2. i <= calls' /\ i # calls'
      BY <1>1, <1>3, <3>1
    <3> QED BY <1>3, <3>2 DEF Fits
  <2> QED BY <2>1 DEF StillFits
<1> QED BY <1>2, <1>3

LEMMA FairKept ==
    ASSUME StillFits, NEW a \in AnswerType, Fair(a)
    PROVE  Fair(a)'
<1>1. a.id \in Nat /\ a.kind \in SomeKind
  BY DEF AnswerType
<1>2. Fits(a.id, a.kind)'
  BY <1>1 DEF StillFits, Fair
<1> QED BY <1>2 DEF Fair

LEMMA RequestsFitKept ==
    ASSUME RequestTypes, RequestsFit, StillFits,
           \/ reqq' = reqq \/ reqq' = <<>>
           \/ reqq # <<>> /\ reqq' = Tail(reqq)
           \/ \E r \in ReqType : reqq' = Append(reqq, r) /\ Fits(r.id, r.kind)'
    PROVE  RequestsFit'
<1>0. reqq \in Seq(ReqType)
  BY DEF RequestTypes
<1>1. Len(reqq) \in Nat /\ \A n \in 1..Len(reqq) : reqq[n] \in ReqType
  BY <1>0, LenProperties, ElementOfSeq
<1>2. \A r \in ReqType : Fits(r.id, r.kind) => Fits(r.id, r.kind)'
  BY DEF StillFits, ReqType
<1>3. CASE reqq' = reqq
  BY <1>1, <1>2, <1>3 DEF RequestsFit
<1>4. CASE reqq' = <<>>
  BY <1>4 DEF RequestsFit
<1>5. CASE reqq # <<>> /\ reqq' = Tail(reqq)
  <2>1. /\ Len(reqq) \in Nat \ {0} /\ Len(reqq)' = Len(reqq) - 1
        /\ \A n \in 1..(Len(reqq) - 1) : reqq'[n] = reqq[n + 1] /\ n + 1 \in 1..Len(reqq)
    BY <1>0, <1>1, <1>5, HeadTailProperties, EmptySeq
  <2> QED BY <1>1, <1>2, <2>1 DEF RequestsFit
<1>6. ASSUME NEW r \in ReqType, reqq' = Append(reqq, r), Fits(r.id, r.kind)' PROVE RequestsFit'
  <2>1. /\ Len(reqq)' = Len(reqq) + 1 /\ reqq'[Len(reqq) + 1] = r
        /\ \A n \in 1..Len(reqq) : reqq'[n] = reqq[n]
        /\ \A n \in 1..(Len(reqq) + 1) : n \in 1..Len(reqq) \/ n = Len(reqq) + 1
    BY <1>0, <1>1, <1>6, AppendProperties
  <2> QED BY <1>1, <1>2, <1>6, <2>1 DEF RequestsFit
<1> QED BY <1>3, <1>4, <1>5, <1>6

LEMMA AnswersFitKept ==
    ASSUME RequestTypes, AnswersFit, StillFits,
           \/ respq' = respq \/ respq' = <<>>
           \/ respq # <<>> /\ respq' = Tail(respq)
           \/ \E a \in AnswerType : respq' = Append(respq, a) /\ Fair(a)'
    PROVE  AnswersFit'
<1>0. respq \in Seq(AnswerType)
  BY DEF RequestTypes
<1>1. Len(respq) \in Nat /\ \A n \in 1..Len(respq) : respq[n] \in AnswerType
  BY <1>0, LenProperties, ElementOfSeq
<1>2. \A a \in AnswerType : Fair(a) => Fair(a)'
  BY FairKept
<1>3. CASE respq' = respq
  BY <1>1, <1>2, <1>3 DEF AnswersFit
<1>4. CASE respq' = <<>>
  BY <1>4 DEF AnswersFit
<1>5. CASE respq # <<>> /\ respq' = Tail(respq)
  <2>1. /\ Len(respq) \in Nat \ {0} /\ Len(respq)' = Len(respq) - 1
        /\ \A n \in 1..(Len(respq) - 1) : respq'[n] = respq[n + 1] /\ n + 1 \in 1..Len(respq)
    BY <1>0, <1>1, <1>5, HeadTailProperties, EmptySeq
  <2> QED BY <1>1, <1>2, <2>1 DEF AnswersFit
<1>6. ASSUME NEW a \in AnswerType, respq' = Append(respq, a), Fair(a)' PROVE AnswersFit'
  <2>1. /\ Len(respq)' = Len(respq) + 1 /\ respq'[Len(respq) + 1] = a
        /\ \A n \in 1..Len(respq) : respq'[n] = respq[n]
        /\ \A n \in 1..(Len(respq) + 1) : n \in 1..Len(respq) \/ n = Len(respq) + 1
    BY <1>0, <1>1, <1>6, AppendProperties
  <2> QED BY <1>1, <1>2, <1>6, <2>1 DEF AnswersFit
<1> QED BY <1>3, <1>4, <1>5, <1>6

LEMMA HelperFitsKept ==
    ASSUME RequestTypes, StillFits, HelperFits, helper' = helper
    PROVE  HelperFits'
<1>1. Held' = Held /\ helper.out \in AnswerType
  BY DEF Held, RequestTypes, HelperType
<1>2. \A a \in AnswerType : Fair(a) => Fair(a)'
  BY FairKept
<1>3. Fair(helper.out) => Fair(helper.out)'
  BY <1>1, <1>2
<1> QED BY <1>1, <1>3 DEF HelperFits

LEMMA CallerFitsKept ==
    ASSUME RequestTypes, StillFits, CallerFits, caller' = caller, calls' = calls \/ ~Calling'
    PROVE  CallerFits'
<1>1. Calling' = Calling /\ caller.got \in AnswerType
  BY DEF Calling, RequestTypes, CallerType
<1>2. \A a \in AnswerType : Fair(a) => Fair(a)'
  BY FairKept
<1>3. Fair(caller.got) => Fair(caller.got)'
  BY <1>1, <1>2
<1> QED BY <1>1, <1>3 DEF CallerFits

(* Nothing new is said.                                                    *)
LEMMA DoneStays ==
    ASSUME RequestTypes, DoneInv, calls' = calls, h'.lied = h.lied,
           caller' = caller \/ (~Calling' /\ caller'.got = NoAnswer),
           reqq' = reqq \/ reqq' = <<>>, respq' = respq \/ respq' = <<>>,
           helper' = helper \/ Held' = 0
    PROVE  DoneInv'
<1>1. StillFits
  BY FitsKept DEF Calling
<1>2. RequestsFit' /\ AnswersFit'
  BY <1>1, RequestsFitKept, AnswersFitKept DEF DoneInv
<1>3. HelperFits'
  <2>1. CASE Held' = 0
    BY <2>1 DEF HelperFits
  <2> QED BY <1>1, <2>1, HelperFitsKept DEF DoneInv
<1>4. CallerFits'
  <2>1. CASE ~Calling' /\ caller'.got = NoAnswer
    BY <2>1 DEF CallerFits
  <2> QED BY <1>1, <2>1, CallerFitsKept DEF DoneInv
<1> QED BY <1>2, <1>3, <1>4 DEF DoneInv

LEMMA DoneOpen ==
    ASSUME RequestTypes, DoneInv,
           MbimInit \/ InitReturns \/ MbimDeinit \/ HelperOpens \/ HelperOpened
             \/ \E o \in {"go", "fail"} : OpenCallback(o)
    PROVE  DoneInv'
<1>0. h \in HistoryType /\ helper \in HelperType
  BY DEF RequestTypes
<1>a. /\ [Resting EXCEPT !.pc = "open"].pc = "open" /\ [Idle EXCEPT !.pc = "opening"].pc = "opening"
      /\ [Idle EXCEPT !.pc = "opening"].got = NoAnswer /\ Idle.got = NoAnswer
      /\ \A p \in {"opening", "loop"} : [helper EXCEPT !.pc = p].pc = p
  BY <1>0 DEF Resting, Idle, HelperType
<1>1. CASE MbimInit
  <2>1. UNCHANGED <<reqq, respq, calls>>
    BY <1>1 DEF MbimInit
  <2>2. h'.lied = h.lied
    BY <1>0, <1>1 DEF MbimInit, HistoryType
  <2>3. \/ UNCHANGED <<caller, helper>>
        \/ helper'.pc = "open" /\ caller'.pc = "opening" /\ caller'.got = NoAnswer
    BY <1>1, <1>a DEF MbimInit
  <2>4. (caller' = caller \/ (~Calling' /\ caller'.got = NoAnswer)) /\ (helper' = helper \/ Held' = 0)
    BY <2>3 DEF Calling, Held
  <2> QED BY <2>1, <2>2, <2>4, DoneStays
<1>2. CASE InitReturns
  <2>1. UNCHANGED <<reqq, respq, calls, helper>> /\ caller'.pc = "idle" /\ caller'.got = NoAnswer
    BY <1>2, <1>a, ConstTypes DEF InitReturns
  <2>2. h'.lied = h.lied
    BY <1>0, <1>2 DEF InitReturns, HistoryType
  <2>3. ~Calling'
    BY <2>1 DEF Calling
  <2> QED BY <2>1, <2>2, <2>3, DoneStays
<1>3. CASE MbimDeinit
  <2>1. reqq' = <<>> /\ respq' = <<>> /\ UNCHANGED <<calls, h, caller, helper>>
    BY <1>3 DEF MbimDeinit
  <2> QED BY <2>1, DoneStays
<1>4. CASE HelperOpens
  <2>1. /\ reqq' = <<>> /\ respq' = <<>> /\ helper'.pc \in {"none", "opening"}
        /\ UNCHANGED <<calls, h, caller>>
    BY <1>4, <1>a, ConstTypes DEF HelperOpens
  <2>2. Held' = 0
    BY <2>1 DEF Held
  <2> QED BY <2>1, <2>2, DoneStays
<1>5. CASE HelperOpened
  <2>1. helper'.pc \in {"none", "loop"} /\ UNCHANGED <<reqq, respq, calls, h, caller>>
    BY <1>5, <1>a, ConstTypes DEF HelperOpened
  <2>2. Held' = 0
    BY <2>1 DEF Held
  <2> QED BY <2>1, <2>2, DoneStays
<1>6. ASSUME NEW o \in {"go", "fail"}, OpenCallback(o) PROVE DoneInv'
  <2>1. UNCHANGED <<reqq, respq, calls, h, caller, helper>>
    BY <1>6 DEF OpenCallback
  <2> QED BY <2>1, DoneStays
<1> QED BY <1>1, <1>2, <1>3, <1>4, <1>5, <1>6

(* An answer of another call may be taken for one's own, but then it is    *)
(* not one's own number that it carries.                                   *)
LEMMA NotLied ==
    ASSUME NEW k \in {"slotset", "traceset", "trace", "at"}, NEW a \in AnswerType,
           a = NoAnswer \/ (Good(a) /\ a.kind = k), ~a.done
    PROVE  "OK" \notin Results(k, a)
<1>1. CASE a = NoAnswer
  BY <1>1 DEF Results, NoAnswer
<1>2. CASE Good(a) /\ a.kind = k /\ a.res = "OK"
  <2>1. /\ k \in {"slotset", "traceset", "trace"} => a.data # "same"
        /\ k = "at" => a.data \in {"ERROR", "empty"}
    BY <1>2 DEF Good
  <2>2. CASE k = "at"
    <3>1. Results(k, a) = {CASE a.data = "ERROR" -> "AT_ERROR" [] a.data = "empty" -> "ERR" [] OTHER -> "OK"}
      BY <1>2, <2>2 DEF Results
    <3> QED BY <2>1, <2>2, <3>1
  <2>3. CASE k # "at"
    <3>1. Results(k, a) = {IF a.data = "same" THEN "OK" ELSE "ERR"}
      BY <1>2, <2>3 DEF Results
    <3> QED BY <2>1, <2>3, <3>1
  <2> QED BY <2>2, <2>3
<1>3. CASE a.res = "ERR"
  BY <1>3 DEF Results
<1>4. a.res \in {"OK", "ERR"}
  BY DEF AnswerType
<1> QED BY <1>1, <1>2, <1>3, <1>4

LEMMA DoneCaller ==
    ASSUME RequestTypes, OpenInv, DoneInv,
           (\E k \in Kinds : CallRequest(k)) \/ CallerReceives \/ AlarmFires \/ CallerReturns
    PROVE  DoneInv'
<1>0. /\ h \in HistoryType /\ caller \in CallerType /\ calls \in Nat /\ respq \in Seq(AnswerType)
  BY DEF RequestTypes
<1>1. ASSUME NEW k \in Kinds, CallRequest(k) PROVE DoneInv'
  <2>1. caller.pc = "idle" /\ calls' = calls + 1 /\ UNCHANGED <<respq, helper, h>>
    BY <1>1 DEF CallRequest
  <2>2. CASE UNCHANGED <<reqq, caller>>
    <3>1. ~Calling'
      BY <2>1, <2>2 DEF Calling
    <3>2. StillFits
      BY <2>1, <3>1, FitsKept
    <3> QED BY <2>1, <2>2, <3>1, <3>2, RequestsFitKept, AnswersFitKept, HelperFitsKept, CallerFitsKept
            DEF DoneInv
  <2>3. CASE /\ reqq' = Append(reqq, [kind |-> k, id |-> calls'])
             /\ caller' = [pc |-> "wait", kind |-> k, id |-> calls', got |-> NoAnswer]
    <3>1. caller'.id = calls' /\ caller'.kind = k /\ caller'.got = NoAnswer
      BY <2>3
    <3>2. StillFits
      BY <2>1, <3>1, FitsKept
    <3>3. PICK r \in ReqType : r = [kind |-> k, id |-> calls']
      <4>1. [kind |-> k, id |-> calls'] \in ReqType
        BY <1>0, <2>1, MbimAssumption DEF ReqType, SomeKind
      <4> QED BY <4>1
    <3>4. Fits(r.id, r.kind)'
      <4>1. r.id = calls' /\ r.kind = k /\ calls' \in Nat
        BY <1>0, <2>1, <3>3
      <4> QED BY <3>1, <4>1 DEF Fits
    <3>5. RequestsFit'
      BY <2>3, <3>2, <3>3, <3>4, RequestsFitKept DEF DoneInv
    <3>6. CallerFits'
      BY <3>1 DEF CallerFits
    <3> QED BY <2>1, <3>2, <3>5, <3>6, AnswersFitKept, HelperFitsKept DEF DoneInv
  <2> QED BY <1>1, <2>2, <2>3 DEF CallRequest
<1>2. CASE CallerReceives
  <2>1. /\ caller.pc = "wait" /\ respq # <<>> /\ respq' = Tail(respq)
        /\ caller' = [caller EXCEPT !.pc = "close", !.got = Head(respq)]
        /\ h' = [h EXCEPT !.stale = (h.stale \/ Head(respq).id # caller.id)]
        /\ UNCHANGED <<reqq, helper, calls>>
    BY <1>2 DEF CallerReceives
  <2>2. /\ caller'.pc = "close" /\ caller'.id = caller.id /\ caller'.kind = caller.kind
        /\ caller'.got = Head(respq)
    BY <1>0, <2>1 DEF CallerType
  <2>3. h'.lied = h.lied
    BY <1>0, <2>1 DEF HistoryType
  <2>4. Calling /\ Calling'
    BY <2>1, <2>2 DEF Calling
  <2>5. StillFits
    BY <2>1, <2>2, <2>4, FitsKept
  <2>6. CallerFits'
    <3>1. Head(respq) \in AnswerType /\ Fair(Head(respq))
      <4>1. Head(respq) = respq[1] /\ 1 \in 1..Len(respq) /\ Head(respq) \in AnswerType
        BY <1>0, <2>1, HeadTailProperties, EmptySeq, LenProperties
      <4> QED BY <4>1 DEF DoneInv, AnswersFit
    <3>2. \A a \in AnswerType : Fair(a) => Fair(a)'
      BY <2>5, FairKept
    <3>3. Fair(caller.got)'
      BY <2>2, <3>1, <3>2
    <3> QED BY <2>1, <2>2, <2>4, <3>3 DEF CallerFits, DoneInv
  <2>7. RequestsFit' /\ AnswersFit' /\ HelperFits'
    BY <2>1, <2>5, RequestsFitKept, AnswersFitKept, HelperFitsKept DEF DoneInv
  <2> QED BY <2>3, <2>6, <2>7 DEF DoneInv
<1>3. CASE AlarmFires
  <2>1. /\ alarm /\ respq' = Append(respq, AlarmAnswer) /\ UNCHANGED <<reqq, helper, calls>>
        /\ \/ caller' = caller /\ h' = [h EXCEPT !.alarms = h.alarms + 1]
           \/ /\ caller.pc = "wait" /\ caller' = [caller EXCEPT !.pc = "close"]
              /\ h' = [h EXCEPT !.alarms = h.alarms + 1, !.cut = h.cut + 1]
    BY <1>3 DEF AlarmFires
  <2>2. h'.lied = h.lied
    BY <1>0, <2>1 DEF HistoryType
  <2>3. /\ Calling' = Calling /\ caller'.id = caller.id /\ caller'.kind = caller.kind
        /\ caller'.got = caller.got
    BY <1>0, <2>1 DEF CallerType, Calling
  <2>4. StillFits
    BY <2>1, <2>3, FitsKept
  <2>5. PICK a \in AnswerType : a = AlarmAnswer
    <3>1. AlarmAnswer \in AnswerType
      BY <1>0 DEF AlarmAnswer, AnswerType, CallerType
    <3> QED BY <3>1
  <2>6. a.id = caller.id /\ a.kind = caller.kind /\ a.res = "ERR"
    BY <2>5 DEF AlarmAnswer
  <2>7. caller.id = calls
    BY <2>1 DEF OpenInv, DoneInv, CallerFits, Calling
  <2>8. Fair(a)'
    BY <1>0, <2>1, <2>3, <2>6, <2>7 DEF Fair, Good, Fits
  <2>9. RequestsFit' /\ AnswersFit' /\ HelperFits'
    BY <2>1, <2>4, <2>5, <2>8, RequestsFitKept, AnswersFitKept, HelperFitsKept DEF DoneInv
  <2>10. CallerFits'
    <3>1. caller.got \in AnswerType
      BY <1>0 DEF CallerType
    <3>2. \A b \in AnswerType : Fair(b) => Fair(b)'
      BY <2>4, FairKept
    <3>3. Fair(caller.got) => Fair(caller.got)'
      BY <2>3, <3>1, <3>2
    <3> QED BY <2>1, <2>3, <3>3 DEF CallerFits, DoneInv
  <2> QED BY <2>2, <2>9, <2>10 DEF DoneInv
<1>4. CASE CallerReturns
  <2>1. caller.pc = "close" /\ caller'.pc = "idle" /\ caller'.got = NoAnswer
        /\ UNCHANGED <<reqq, respq, helper, calls>>
    BY <1>4, ConstTypes DEF CallerReturns, Idle
  <2>2. PICK r \in Results(caller.kind, caller.got) :
           h' = [h EXCEPT !.lied = (h.lied \/ (/\ r = "OK" /\ ~caller.got.done /\ caller.got.id = caller.id
                                              /\ caller.kind \in {"slotset", "traceset", "trace", "at"}))]
    BY <1>4 DEF CallerReturns
  <2>3. ~(/\ r = "OK" /\ ~caller.got.done /\ caller.got.id = caller.id
          /\ caller.kind \in {"slotset", "traceset", "trace", "at"})
    <3>1. caller.got \in AnswerType /\ Calling
      BY <1>0, <2>1 DEF CallerType, Calling
    <3>2. caller.got = NoAnswer \/ (Good(caller.got) /\ (caller.got.id = caller.id => caller.got.kind = caller.kind))
      BY <3>1 DEF DoneInv, CallerFits, Fair, Fits
    <3> QED BY <2>2, <3>1, <3>2, NotLied
  <2>4. h'.lied = h.lied
    <3> DEFINE l == (/\ r = "OK" /\ ~caller.got.done /\ caller.got.id = caller.id
                     /\ caller.kind \in {"slotset", "traceset", "trace", "at"})
    <3>1. h' = [h EXCEPT !.lied = (h.lied \/ l)] /\ ~l
      BY <2>2, <2>3
    <3> HIDE DEF l
    <3>2. h'.lied = (h.lied \/ l)
      BY <1>0, <3>1 DEF HistoryType
    <3>3. h.lied \in BOOLEAN
      BY <1>0 DEF HistoryType
    <3> QED BY <3>1, <3>2, <3>3
  <2>5. ~Calling'
    BY <2>1 DEF Calling
  <2> QED BY <2>1, <2>4, <2>5, DoneStays
<1> QED BY <1>1, <1>2, <1>3, <1>4

(* Every outcome of a command leaves an answer that says what was done.    *)
LEMMA WrittenGood ==
    ASSUME NEW out \in AnswerType, NEW o \in AllOutcomes, Good(out), cmd.kind = out.kind, Completes(cmd, o)
    PROVE  Good(Written(cmd, o, out))
<1>1. ASSUME NEW d \in {"same", "other", "accepted", "ERROR", "empty"}
      PROVE  /\ [out EXCEPT !.data = d].kind = out.kind /\ [out EXCEPT !.data = d].data = d
             /\ [out EXCEPT !.done = TRUE, !.data = d].done
  BY DEF AnswerType
<1>2. [out EXCEPT !.res = "ERR"].res = "ERR"
  BY DEF AnswerType
<1>3. CASE Written(cmd, o, out) = out
  BY <1>3
<1>4. CASE \E d \in {"same", "other", "accepted", "ERROR", "empty"} :
             Written(cmd, o, out) = [out EXCEPT !.done = TRUE, !.data = d]
  BY <1>1, <1>4 DEF Good
<1>5. CASE Written(cmd, o, out) = [out EXCEPT !.res = "ERR"]
  BY <1>2, <1>5 DEF Good
<1>6. CASE o = "go" /\ cmd = [kind |-> "traceset", step |-> 1] /\ Written(cmd, o, out) = [out EXCEPT !.data = "accepted"]
  <2>1. out.kind = "traceset"
    BY <1>6
  <2>2. Written(cmd, o, out).kind = out.kind /\ Written(cmd, o, out).data = "accepted"
    BY <1>1, <1>6
  <2> QED BY <2>1, <2>2 DEF Good
<1>7. CASE o = "differs" /\ Written(cmd, o, out) = [out EXCEPT !.data = "other"]
  <2>1. cmd.kind # "at"
    BY <1>7 DEF Completes
  <2>2. Written(cmd, o, out).kind = out.kind /\ Written(cmd, o, out).data = "other"
    BY <1>1, <1>7
  <2> QED BY <2>1, <2>2 DEF Good
<1>8. CASE cmd.kind = "at" /\ Written(cmd, o, out) = [out EXCEPT !.data = "ERROR"]
  BY <1>1, <1>8 DEF Good
<1> QED BY <1>3, <1>4, <1>5, <1>6, <1>7, <1>8 DEF Written, AllOutcomes

LEMMA DoneHelper ==
    ASSUME RequestTypes, WakeInv, DoneInv,
           HelperTakes \/ HelperSends \/ HelperWakes \/ HelperAnswers \/ HelperLeaves
             \/ \E o \in AllOutcomes : Callback(o)
    PROVE  DoneInv'
<1>0. /\ h \in HistoryType /\ helper \in HelperType /\ reqq \in Seq(ReqType)
  BY DEF RequestTypes
<1>z. helper.req \in ReqType /\ helper.out \in AnswerType
  BY <1>0 DEF HelperType
<1>1. UNCHANGED <<calls, caller>> /\ h'.lied = h.lied
  <2>1. UNCHANGED <<calls, caller>> /\ (h' = h \/ \E m : h' = [h EXCEPT !.mute = m])
    BY DEF HelperTakes, HelperSends, HelperWakes, HelperAnswers, HelperLeaves, Callback
  <2> QED BY <1>0, <2>1 DEF HistoryType
<1>2. StillFits
  BY <1>1, FitsKept DEF Calling
<1>3. CallerFits'
  BY <1>1, <1>2, CallerFitsKept DEF DoneInv
<1>4. \A a \in AnswerType : Fair(a) => Fair(a)'
  BY <1>2, FairKept
<1>5. CASE HelperTakes
  <2>1. reqq # <<>> /\ reqq' = Tail(reqq) /\ UNCHANGED respq
    BY <1>5 DEF HelperTakes
  <2>2. Head(reqq) \in ReqType /\ Fits(Head(reqq).id, Head(reqq).kind)
    <3>1. Head(reqq) = reqq[1] /\ 1 \in 1..Len(reqq) /\ Head(reqq) \in ReqType
      BY <1>0, <2>1, HeadTailProperties, EmptySeq, LenProperties
    <3> QED BY <3>1 DEF DoneInv, RequestsFit
  <2>3. PICK p \in {"answer", "send"}, out \in AnswerType :
           /\ helper' = [pc |-> p, req |-> Head(reqq), out |-> out]
           /\ out.id = Head(reqq).id /\ out.kind = Head(reqq).kind /\ Good(out)
    <3> DEFINE r == Head(reqq)
    <3>1. /\ Good(NoReply(r)) /\ Good([NoReply(r) EXCEPT !.res = "ERR"])
          /\ r.kind = "atnoresp" => Good([NoReply(r) EXCEPT !.data = "same"])
      BY <2>2 DEF NoReply, Good
    <3>2. \/ helper' = [pc |-> "answer", req |-> r, out |-> [NoReply(r) EXCEPT !.res = "ERR"]]
          \/ helper' = [pc |-> "answer", req |-> r, out |-> [NoReply(r) EXCEPT !.data = "same"]]
             /\ r.kind = "atnoresp"
          \/ helper' = [pc |-> "send", req |-> r, out |-> NoReply(r)]
      BY <1>5 DEF HelperTakes
    <3> HIDE DEF r
    <3>3. r \in ReqType
      BY <2>2 DEF r
    <3>4. \E p \in {"answer", "send"}, out \in AnswerType :
           /\ helper' = [pc |-> p, req |-> r, out |-> out]
           /\ out.id = r.id /\ out.kind = r.kind /\ Good(out)
      BY <3>1, <3>2, <3>3, NoReplyType
    <3> QED BY <3>4 DEF r
  <2>4. Fair(out)'
    <3>1. Fair(out)
      BY <2>2, <2>3 DEF Fair
    <3> QED BY <1>4, <3>1
  <2>5. helper'.out = out /\ helper'.req = Head(reqq)
    BY <2>3
  <2>6. HelperFits'
    BY <2>3, <2>4, <2>5 DEF HelperFits
  <2> QED BY <1>1, <1>2, <1>3, <2>1, <2>6, RequestsFitKept, AnswersFitKept DEF DoneInv
<1>6. CASE HelperSends
  <2>1. helper.pc = "send" /\ helper' = [helper EXCEPT !.pc = "wait"] /\ UNCHANGED <<reqq, respq>>
    BY <1>6 DEF HelperSends
  <2>2. helper'.req = helper.req /\ helper'.out = helper.out /\ Held = 1
    BY <1>0, <2>1 DEF HelperType, Held
  <2>3. HelperFits'
    <3>1. Fair(helper.out) => Fair(helper.out)'
      BY <1>4, <1>z, <2>2
    <3> QED BY <2>2, <3>1 DEF HelperFits, DoneInv
  <2> QED BY <1>1, <1>2, <1>3, <2>1, <2>3, RequestsFitKept, AnswersFitKept DEF DoneInv
<1>7. CASE HelperWakes
  <2>1. /\ helper.pc = "wait" /\ UNCHANGED <<reqq, respq>>
        /\ \/ helper' = [helper EXCEPT !.pc = "answer"]
           \/ /\ helper' = [helper EXCEPT !.out = [helper.out EXCEPT !.data = "other"]]
              /\ helper.req.kind = "traceset"
    BY <1>7 DEF HelperWakes
  <2>2. Held = 1
    BY <2>1 DEF Held
  <2>3. Fair(helper.out) /\ helper.out.id = helper.req.id /\ helper.out.kind = helper.req.kind
    BY <2>2 DEF DoneInv, HelperFits
  <2>4. /\ helper'.req = helper.req /\ helper'.out \in AnswerType /\ Fair(helper'.out)
        /\ helper'.out.id = helper.out.id /\ helper'.out.kind = helper.out.kind
    <3>1. CASE helper' = [helper EXCEPT !.pc = "answer"]
      BY <1>0, <1>z, <2>3, <3>1 DEF HelperType
    <3>2. CASE /\ helper' = [helper EXCEPT !.out = [helper.out EXCEPT !.data = "other"]]
               /\ helper.req.kind = "traceset"
      <4>1. helper'.req = helper.req /\ helper'.out = [helper.out EXCEPT !.data = "other"]
        BY <1>0, <3>2 DEF HelperType
      <4>2. /\ helper'.out \in AnswerType /\ helper'.out.id = helper.out.id
            /\ helper'.out.kind = "traceset" /\ helper'.out.kind = helper.out.kind
            /\ helper'.out.data = "other"
        BY <1>z, <2>3, <3>2, <4>1 DEF AnswerType
      <4> QED BY <2>3, <4>1, <4>2 DEF Fair, Good
    <3> QED BY <2>1, <3>1, <3>2
  <2>5. Fair(helper.out)'
    BY <1>4, <2>4
  <2>6. HelperFits'
    BY <2>3, <2>4, <2>5 DEF HelperFits
  <2> QED BY <1>1, <1>2, <1>3, <2>1, <2>6, RequestsFitKept, AnswersFitKept DEF DoneInv
<1>8. CASE HelperAnswers
  <2>1. /\ helper.pc = "answer" /\ helper'.pc = "loop" /\ UNCHANGED reqq
        /\ respq' = respq \/ respq' = Append(respq, helper.out)
    BY <1>8 DEF HelperAnswers, Resting
  <2>2. Held = 1 /\ Held' = 0
    BY <2>1 DEF Held
  <2>3. PICK a \in AnswerType : a = helper.out
    BY <1>z
  <2>4. Fair(a)'
    <3>1. Fair(a)
      BY <2>2, <2>3 DEF DoneInv, HelperFits
    <3> QED BY <1>4, <3>1
  <2>5. HelperFits'
    BY <2>2 DEF HelperFits
  <2> QED BY <1>1, <1>2, <1>3, <2>1, <2>3, <2>4, <2>5, RequestsFitKept, AnswersFitKept DEF DoneInv
<1>9. CASE HelperLeaves
  <2>1. reqq' = <<>> /\ respq' = <<>> /\ helper'.pc = "none"
    BY <1>9, ConstTypes DEF HelperLeaves
  <2>2. Held' = 0
    BY <2>1 DEF Held
  <2> QED BY <1>1, <2>1, <2>2, DoneStays
<1>10. ASSUME NEW o \in AllOutcomes, Callback(o) PROVE DoneInv'
  <2>1. /\ helper' = [helper EXCEPT !.out = Written(cmd, o, helper.out)] /\ UNCHANGED <<reqq, respq>>
        /\ cmd # NoCmd /\ cmd.kind # "open" /\ Completes(cmd, o)
    BY <1>10 DEF Callback
  <2>2. helper.pc = "wait" /\ cmd.kind = helper.req.kind
    BY <2>1 DEF WakeInv
  <2>3. Held = 1
    BY <2>2 DEF Held
  <2>4. Fair(helper.out) /\ helper.out.id = helper.req.id /\ helper.out.kind = helper.req.kind
    BY <2>3 DEF DoneInv, HelperFits
  <2>5. helper'.req = helper.req /\ helper'.out = Written(cmd, o, helper.out)
    BY <1>0, <2>1 DEF HelperType
  <2>6. Good(Written(cmd, o, helper.out))
    BY <1>z, <2>1, <2>2, <2>4, WrittenGood DEF Fair
  <2>7. /\ helper'.out \in AnswerType /\ Fair(helper'.out)
        /\ helper'.out.id = helper.out.id /\ helper'.out.kind = helper.out.kind
    BY <1>z, <2>4, <2>5, <2>6, WrittenType DEF Fair
  <2>8. Fair(helper.out)'
    BY <1>4, <2>7
  <2>9. HelperFits'
    BY <2>4, <2>5, <2>7, <2>8 DEF HelperFits
  <2> QED BY <1>1, <1>2, <1>3, <2>1, <2>9, RequestsFitKept, AnswersFitKept DEF DoneInv
<1> QED BY <1>5, <1>6, <1>7, <1>8, <1>9, <1>10

-----------------------------------------------------------------------------
(* The request side as a whole.                                            *)
RequestInv == RequestTypes /\ OpenInv /\ WakeInv /\ AnswersInv /\ DoneInv

LEMMA RequestInvInit == RequestInit => RequestInv
<1> SUFFICES ASSUME RequestInit PROVE RequestInv
  OBVIOUS
<1>0. /\ ~ended /\ caller = Idle /\ helper = Resting /\ cmd = NoCmd /\ force_sync_sem = 0
      /\ reqq = <<>> /\ respq = <<>> /\ ~alarm /\ ~g_mbim_device_init_flag /\ thread_running = "ERR"
      /\ h = [alarms |-> 0, cut |-> 0, failed |-> FALSE, mute |-> FALSE, stale |-> FALSE,
              lied |-> FALSE, hollow |-> FALSE]
  BY DEF RequestInit
<1>1. caller.pc = "idle" /\ caller.got = NoAnswer /\ helper.pc = "none" /\ cmd.kind = "none"
  BY <1>0, ConstTypes DEF Idle
<1>2. h.alarms = 0 /\ h.cut = 0 /\ ~h.stale /\ ~h.lied /\ ~h.hollow
  BY <1>0
<1>3. Held = 0 /\ Waits = 0 /\ ~Calling /\ Len(reqq) = 0 /\ Len(respq) = 0
  BY <1>0, <1>1, ConstTypes DEF Held, Waits, Calling
<1>4. OpenInv /\ WakeInv
  BY <1>0, <1>1, <1>2 DEF OpenInv, WakeInv
<1>5. AnswersInv
  <2>1. AnswersConserved
    BY <1>2, <1>3, Balanced
  <2>2. OwnOnly
    BY <1>3 DEF OwnOnly
  <2> QED BY <1>2, <2>1, <2>2 DEF AnswersInv
<1>6. DoneInv
  BY <1>1, <1>2, <1>3 DEF DoneInv, RequestsFit, AnswersFit, HelperFits, CallerFits
<1> QED BY <1>4, <1>5, <1>6, RequestTypesInit DEF RequestInv

(* The notifications leave the requests alone.                             *)
LEMMA RequestStays ==
    ASSUME RequestInv, UNCHANGED requestVars
    PROVE  RequestInv'
<1>1. UNCHANGED <<thread_running, g_mbim_device_init_flag, g_mbimdevice, g_msg_loop_ready, queues, reqq, respq,
                  alarm, force_sync_sem, cmd, caller, helper, inits, calls, ended, h>>
  BY DEF requestVars, device
<1>2. RequestTypes'
  BY <1>1 DEF RequestInv, RequestTypes, FlagTypes
<1>3. OpenInv' /\ WakeInv'
  BY <1>1 DEF RequestInv, OpenInv, WakeInv
<1>4. AnswersInv'
  <2>1. Held' = Held
    BY <1>1 DEF Held
  <2> QED BY <1>1, <2>1, AnswersStay DEF RequestInv
<1>5. DoneInv'
  BY <1>1, DoneStays DEF RequestInv
<1> QED BY <1>2, <1>3, <1>4, <1>5 DEF RequestInv

LEMMA RequestKept ==
    ASSUME RequestInv, [Next]_vars
    PROVE  RequestInv'
<1>1. CASE MbimInit \/ InitReturns \/ MbimDeinit \/ HelperOpens \/ HelperOpened
             \/ \E o \in {"go", "fail"} : OpenCallback(o)
  BY <1>1, OpenTypes, OpenKept, AnswersOpen, DoneOpen DEF RequestInv
<1>2. CASE (\E k \in Kinds : CallRequest(k)) \/ CallerReceives \/ AlarmFires \/ CallerReturns
  BY <1>2, CallerTypes, CallerKept, AnswersCaller, DoneCaller DEF RequestInv
<1>3. CASE HelperTakes \/ HelperSends \/ HelperWakes \/ HelperAnswers \/ HelperLeaves
             \/ \E o \in AllOutcomes : Callback(o)
  BY <1>3, HelperTypes, HelperKept, AnswersHelper, DoneHelper DEF RequestInv
<1>4. CASE UNCHANGED requestVars
  BY <1>4, RequestStays
<1>5. \/ RequestStep \/ (\E o \in AllOutcomes : Callback(o)) \/ MbimDeinit \/ UNCHANGED requestVars
  <2>1. CASE SimChanges \/ \E k \in IndKinds \ {"sim"} : ModemIndicates(k)
    BY <2>1 DEF SimChanges, ModemIndicates
  <2>2. CASE SubscriberReadyStatus \/ RadioState \/ RegisterState \/ SlotInfoStatus
    BY <2>2 DEF SubscriberReadyStatus, RadioState, RegisterState, SlotInfoStatus, Handled
  <2>3. CASE (\E c \in chains, o \in {"go", "fail", "end"} : Answered(c, o)) \/ \E t \in threads : NotifyRuns(t)
    BY <2>3 DEF Answered, NotifyRuns
  <2>4. CASE \E o \in AllOutcomes : RequestCallback(o)
    BY <2>4 DEF RequestCallback
  <2>5. CASE Deinit
    BY <2>5 DEF Deinit
  <2>6. CASE UNCHANGED vars
    BY <2>6 DEF vars
  <2> QED BY <2>1, <2>2, <2>3, <2>4, <2>5, <2>6 DEF Next
<1> QED BY <1>1, <1>2, <1>3, <1>4, <1>5 DEF RequestStep

LEMMA RequestAlways == Spec => []RequestInv
<1>1. Init => RequestInv
  BY RequestInvInit DEF Init
<1>2. RequestInv /\ [Next]_vars => RequestInv'
  BY RequestKept
<1> QED BY <1>1, <1>2, PTL DEF Spec

(* Until deinit, the answers queued and still to come exceed the calls     *)
(* that wait for one by the alarms and by the calls a signal cut short;    *)
(* a call takes another's answer only after an alarm.                      *)
THEOREM AnswersConservedCorrect == Spec => []AnswersConserved
<1>1. RequestInv => AnswersConserved
  BY DEF RequestInv, AnswersInv
<1> QED BY <1>1, RequestAlways, PTL

(* The helper never waits on force_sync_sem without a callback due that    *)
(* posts it, and no callback posts twice.                                  *)
THEOREM WaiterHasWakerCorrect == Spec => []WaiterHasWaker
<1>1. RequestInv => WaiterHasWaker
  BY DEF RequestInv, WakeInv, WaiterHasWaker
<1> QED BY <1>1, RequestAlways, PTL

(* A slot, trace or AT request whose own answer makes it return OK was     *)
(* carried out by the modem, and init() returns OK without an open device  *)
(* only after an init() that failed.                                       *)
THEOREM OkMeansDoneCorrect == Spec => []OkMeansDone
<1>1. RequestInv => OkMeansDone
  BY DEF RequestInv, DoneInv, OpenInv, OkMeansDone
<1> QED BY <1>1, RequestAlways, PTL

-----------------------------------------------------------------------------
(* Types of the notification side.                                         *)
Indications == {"sim", "radio", "net", "slot"}
IndType == [id : Nat, kind : Indications, in : BOOLEAN]
ChainType == [id : Nat, kind : Indications, step : Nat]
ThreadType == [id : Nat, kind : Indications, again : BOOLEAN]
DropType == [id : Nat, why : {"known", "nodevice", "unreadable", "unregistered"}]
NotifyHistoryType == [sent : Seq(Indications), told : [1..MaxInds -> Nat],
                      dropped : SUBSET DropType, unseen : BOOLEAN]

NotifyTypes ==
    /\ simIn \in BOOLEAN /\ g_sim_inserted_flag \in BOOLEAN
    /\ inds \in Seq(IndType) /\ chains \in SUBSET ChainType
    /\ threads \in SUBSET ThreadType /\ IsFiniteSet(threads)
    /\ hn \in NotifyHistoryType

(* Every handler of an indication leaves the queue shorter by its head.    *)
LEMMA HeadOfInds ==
    ASSUME NotifyTypes, inds # <<>>, inds' = Tail(inds)
    PROVE  /\ Head(inds) \in IndType /\ Head(inds) = inds[1] /\ inds' \in Seq(IndType)
           /\ Len(inds) \in Nat \ {0} /\ Len(inds)' = Len(inds) - 1
           /\ \A n \in 1..(Len(inds) - 1) : inds'[n] = inds[n + 1] /\ n + 1 \in 1..Len(inds)
<1>1. inds \in Seq(IndType)
  BY DEF NotifyTypes
<1>2. Len(inds) \in Nat /\ Len(inds) # 0
  BY <1>1, LenProperties, EmptySeq
<1> QED BY <1>1, <1>2, HeadTailProperties

LEMMA HistoryFields ==
    ASSUME hn \in NotifyHistoryType
    PROVE  /\ hn.sent \in Seq(Indications) /\ hn.told \in [1..MaxInds -> Nat]
           /\ hn.dropped \in SUBSET DropType /\ hn.unseen \in BOOLEAN
           /\ \A d \in SUBSET DropType :
                /\ [hn EXCEPT !.dropped = d] \in NotifyHistoryType
                /\ [hn EXCEPT !.dropped = d].sent = hn.sent /\ [hn EXCEPT !.dropped = d].told = hn.told
                /\ [hn EXCEPT !.dropped = d].dropped = d /\ [hn EXCEPT !.dropped = d].unseen = hn.unseen
  BY DEF NotifyHistoryType

(* A handler only starts a chain or a thread, or drops the indication: C,  *)
(* T and D are what it adds.                                               *)
Drops(D) ==
    /\ hn' \in NotifyHistoryType /\ hn'.sent = hn.sent /\ hn'.told = hn.told
    /\ hn'.dropped = hn.dropped \cup D
Adds(C, T, D) ==
    chains' = chains \cup C /\ threads' = threads \cup T /\ Drops(D)

LEMMA DropsWhen ==
    ASSUME hn \in NotifyHistoryType, NEW D \in SUBSET DropType, NEW u \in BOOLEAN,
           \/ hn' = [hn EXCEPT !.dropped = hn.dropped \cup D]
           \/ hn' = [hn EXCEPT !.dropped = hn.dropped \cup D, !.unseen = u]
    PROVE  Drops(D)
<1>1. hn.dropped \cup D \in SUBSET DropType
  BY HistoryFields
<1> QED BY <1>1 DEF Drops, NotifyHistoryType

Handles(C, T, D) ==
    /\ inds # <<>> /\ inds' = Tail(inds) /\ Adds(C, T, D)
    /\ UNCHANGED <<requestVars, simIn>>
    /\ C \in SUBSET ChainType /\ T \in SUBSET ThreadType /\ IsFiniteSet(T)
    /\ D \in SUBSET DropType
    /\ \A x \in C : x.id = Head(inds).id /\ x.kind = Head(inds).kind
    /\ \A x \in T : x.id = Head(inds).id
    /\ \A x, y \in C : x = y
    /\ \A x, y \in T : x = y
    /\ C # {} => (T # {} <=> Head(inds).kind = "slot")
    /\ C # {} \/ T # {} \/ \E x \in D : x.id = Head(inds).id

LEMMA Asked ==
    ASSUME NEW i \in IndType
    PROVE  /\ Ask(i.id, i.kind, 1) \in SUBSET ChainType
           /\ Lost(i.id) \in SUBSET DropType
           /\ \A x \in Ask(i.id, i.kind, 1) : x.id = i.id /\ x.kind = i.kind
           /\ \A x, y \in Ask(i.id, i.kind, 1) : x = y
           /\ Ask(i.id, i.kind, 1) = {} => \E x \in Lost(i.id) : x.id = i.id
<1>1. i.id \in Nat /\ i.kind \in Indications
  BY DEF IndType
<1>2. [id |-> i.id, kind |-> i.kind, step |-> 1] \in ChainType
  BY <1>1 DEF ChainType
<1>3. [id |-> i.id, why |-> "nodevice"] \in DropType
  BY <1>1 DEF DropType
<1>4. CASE g_mbimdevice
  BY <1>2, <1>4 DEF Ask, Lost
<1>5. CASE ~g_mbimdevice
  BY <1>3, <1>5 DEF Ask, Lost
<1> QED BY <1>4, <1>5

LEMMA OneThread ==
    ASSUME NEW i \in IndType, NEW k \in Indications, NEW b \in BOOLEAN
    PROVE  /\ {[id |-> i.id, kind |-> k, again |-> b]} \in SUBSET ThreadType
           /\ IsFiniteSet({[id |-> i.id, kind |-> k, again |-> b]})
           /\ \A x \in {[id |-> i.id, kind |-> k, again |-> b]} : x.id = i.id
<1>1. [id |-> i.id, kind |-> k, again |-> b] \in ThreadType
  BY DEF IndType, ThreadType
<1>2. \A x : IsFiniteSet({x})
  BY FS_Singleton
<1>3. [id |-> i.id, kind |-> k, again |-> b].id = i.id
  OBVIOUS
<1> DEFINE x == [id |-> i.id, kind |-> k, again |-> b]
<1> HIDE DEF x
<1>4. {x} \in SUBSET ThreadType /\ IsFiniteSet({x}) /\ \A y \in {x} : y.id = i.id
  BY <1>1, <1>2, <1>3 DEF x
<1> QED BY <1>4 DEF x

LEMMA HandlerAdds ==
    ASSUME NotifyTypes, SubscriberReadyStatus \/ RadioState \/ RegisterState \/ SlotInfoStatus
    PROVE  \E C, T, D : Handles(C, T, D)
<1> DEFINE i == Head(inds)
           th(k) == [id |-> i.id, kind |-> k, again |-> FALSE]
           no(w) == [id |-> i.id, why |-> w]
<1>1. inds # <<>> /\ inds' = Tail(inds) /\ UNCHANGED <<requestVars, simIn>>
  BY DEF SubscriberReadyStatus, RadioState, RegisterState, SlotInfoStatus, Handled
<1>2. i \in IndType /\ hn \in NotifyHistoryType
  BY <1>1, HeadOfInds DEF NotifyTypes
<1>3. hn' = hn \/ (\E u \in BOOLEAN : hn' = [hn EXCEPT !.unseen = u]) => Drops({})
  <2>1. hn.dropped \cup {} = hn.dropped
    OBVIOUS
  <2>2. hn' = hn => Drops({})
    BY <1>2, <2>1 DEF Drops
  <2>3. ASSUME NEW u \in BOOLEAN, hn' = [hn EXCEPT !.unseen = u] PROVE Drops({})
    <3>1. hn' \in NotifyHistoryType /\ hn'.sent = hn.sent /\ hn'.told = hn.told /\ hn'.dropped = hn.dropped
      BY <1>2, <2>3 DEF NotifyHistoryType
    <3> QED BY <2>1, <3>1 DEF Drops
  <2> QED BY <2>2, <2>3
<1>4. chains = chains \cup {} /\ threads = threads \cup {} /\ IsFiniteSet({})
  BY FS_EmptySet
<1>5. \A k \in Indications : /\ {th(k)} \in SUBSET ThreadType /\ IsFiniteSet({th(k)})
                            /\ \A x \in {th(k)} : x.id = i.id
  BY <1>2, OneThread
<1>6. \A w \in {"known", "unreadable"} : {no(w)} \in SUBSET DropType /\ \E x \in {no(w)} : x.id = i.id
  BY <1>2 DEF DropType, IndType
<1> HIDE DEF i, th, no
<1>7. ASSUME NEW C \in SUBSET ChainType, NEW T \in SUBSET ThreadType, NEW D \in SUBSET DropType,
             Adds(C, T, D), IsFiniteSet(T),
             \A x \in C : x.id = i.id /\ x.kind = i.kind, \A x \in T : x.id = i.id,
             \A x, y \in C : x = y, \A x, y \in T : x = y,
             C # {} => (T # {} <=> i.kind = "slot"),
             C # {} \/ T # {} \/ \E x \in D : x.id = i.id
      PROVE  \E C1, T1, D1 : Handles(C1, T1, D1)
  <2>1. Handles(C, T, D)
    BY <1>1, <1>7 DEF Handles, i
  <2> QED BY <2>1
<1>8. ASSUME NEW k \in Indications, chains' = chains, threads' = threads \cup {th(k)}, Drops({})
      PROVE  \E C1, T1, D1 : Handles(C1, T1, D1)
  <2>1. Adds({}, {th(k)}, {})
    BY <1>4, <1>8 DEF Adds
  <2> QED BY <1>5, <1>7, <2>1
<1>9. ASSUME NEW w \in {"known", "unreadable"}, chains' = chains, threads' = threads,
             Drops({no(w)})
      PROVE  \E C1, T1, D1 : Handles(C1, T1, D1)
  <2>1. Adds({}, {}, {no(w)})
    BY <1>4, <1>9 DEF Adds
  <2> QED BY <1>4, <1>6, <1>7, <2>1
<1>10. ASSUME chains' = chains \cup Ask(i.id, i.kind, 1), threads' = threads, i.kind # "slot",
              Drops(Lost(i.id))
       PROVE  \E C1, T1, D1 : Handles(C1, T1, D1)
  <2>1. Adds(Ask(i.id, i.kind, 1), {}, Lost(i.id))
    BY <1>4, <1>10 DEF Adds
  <2> QED BY <1>2, <1>4, <1>7, <1>10, <2>1, Asked
<1>11. CASE SubscriberReadyStatus
  <2>1. i.kind = "sim" /\ "sim" \in Indications
    BY <1>11 DEF SubscriberReadyStatus, i, Indications
  <2>2. \/ /\ hn' = [hn EXCEPT !.dropped = hn.dropped \cup {no("unreadable")},
                                !.unseen = i.in # g_sim_inserted_flag]
           /\ UNCHANGED <<chains, threads>>
        \/ /\ hn' = [hn EXCEPT !.dropped = hn.dropped \cup {no("known")}, !.unseen = FALSE]
           /\ UNCHANGED <<chains, threads>>
        \/ /\ chains' = chains \cup Ask(i.id, i.kind, 1)
           /\ hn' = [hn EXCEPT !.dropped = hn.dropped \cup Lost(i.id), !.unseen = FALSE]
           /\ UNCHANGED threads
        \/ threads' = threads \cup {th("sim")} /\ hn' = [hn EXCEPT !.unseen = FALSE] /\ UNCHANGED chains
    BY <1>11, <2>1 DEF SubscriberReadyStatus, i, th, no
  <2>3. (i.in # g_sim_inserted_flag) \in BOOLEAN /\ FALSE \in BOOLEAN
    OBVIOUS
  <2>4. CASE hn' = [hn EXCEPT !.dropped = hn.dropped \cup {no("unreadable")},
                              !.unseen = i.in # g_sim_inserted_flag]
             /\ UNCHANGED <<chains, threads>>
    BY <1>2, <1>6, <1>9, <2>3, <2>4, DropsWhen
  <2>5. CASE hn' = [hn EXCEPT !.dropped = hn.dropped \cup {no("known")}, !.unseen = FALSE]
             /\ UNCHANGED <<chains, threads>>
    BY <1>2, <1>6, <1>9, <2>3, <2>5, DropsWhen
  <2>6. CASE /\ chains' = chains \cup Ask(i.id, i.kind, 1) /\ UNCHANGED threads
             /\ hn' = [hn EXCEPT !.dropped = hn.dropped \cup Lost(i.id), !.unseen = FALSE]
    BY <1>2, <1>10, <2>1, <2>3, <2>6, Asked, DropsWhen
  <2>7. CASE threads' = threads \cup {th("sim")} /\ hn' = [hn EXCEPT !.unseen = FALSE] /\ UNCHANGED chains
    BY <1>3, <1>8, <2>1, <2>3, <2>7
  <2> QED BY <2>2, <2>4, <2>5, <2>6, <2>7
<1>12. CASE RadioState
  <2>1. /\ UNCHANGED chains
        /\ \/ threads' = threads \cup {th("radio")} /\ UNCHANGED hn
           \/ hn' = [hn EXCEPT !.dropped = hn.dropped \cup {no("unreadable")}] /\ UNCHANGED threads
    BY <1>12 DEF RadioState, i, th, no
  <2>2. "radio" \in Indications /\ FALSE \in BOOLEAN
    BY DEF Indications
  <2>3. CASE threads' = threads \cup {th("radio")} /\ UNCHANGED hn
    BY <1>3, <1>8, <2>1, <2>2, <2>3
  <2>4. CASE hn' = [hn EXCEPT !.dropped = hn.dropped \cup {no("unreadable")}] /\ UNCHANGED threads
    BY <1>2, <1>6, <1>9, <2>1, <2>2, <2>4, DropsWhen
  <2> QED BY <2>1, <2>3, <2>4
<1>13. CASE RegisterState
  <2>1. /\ chains' = chains \cup Ask(i.id, i.kind, 1) /\ threads' = threads /\ i.kind # "slot"
        /\ hn' = [hn EXCEPT !.dropped = hn.dropped \cup Lost(i.id)]
    BY <1>13 DEF RegisterState, i
  <2>2. Drops(Lost(i.id))
    BY <1>2, <2>1, Asked, DropsWhen
  <2> QED BY <1>10, <2>1, <2>2
<1>14. CASE SlotInfoStatus
  <2>1. /\ i.kind = "slot" /\ "slot" \in Indications /\ hn' = hn
        /\ chains' = chains \cup Ask(i.id, i.kind, 1) /\ threads' = threads \cup {th("slot")}
    BY <1>14 DEF SlotInfoStatus, i, th, Indications
  <2>2. Adds(Ask(i.id, i.kind, 1), {th("slot")}, {})
    BY <1>3, <2>1 DEF Adds
  <2> DEFINE C == Ask(i.id, i.kind, 1)
             T == {th("slot")}
  <2>3. /\ T \in SUBSET ThreadType /\ IsFiniteSet(T) /\ (\A x \in T : x.id = i.id)
        /\ (\A x, y \in T : x = y) /\ T # {} /\ {} \in SUBSET DropType
    BY <1>5, <2>1
  <2>4. /\ C \in SUBSET ChainType /\ (\A x \in C : x.id = i.id /\ x.kind = i.kind)
        /\ (\A x, y \in C : x = y)
    BY <1>2, Asked
  <2>5. Adds(C, T, {})
    BY <2>2
  <2> HIDE DEF C, T
  <2> QED BY <1>7, <2>1, <2>3, <2>4, <2>5
<1> QED BY <1>11, <1>12, <1>13, <1>14

(* An answer to a query of a chain: the chain goes on, ends with a word to *)
(* the watchers, or ends without.                                          *)
Goes(c, C, T, D) ==
    /\ chains' = (chains \ {c}) \cup C /\ threads' = threads \cup T
    /\ hn' = [hn EXCEPT !.dropped = hn.dropped \cup D]
    /\ UNCHANGED <<requestVars, simIn, inds, g_sim_inserted_flag>>
    /\ C \in SUBSET ChainType /\ T \in SUBSET ThreadType /\ IsFiniteSet(T) /\ D \in SUBSET DropType
    /\ \A x \in C : x.id = c.id /\ x.kind = c.kind
    /\ \A x, y \in C : x = y
    /\ \A x \in T : x.id = c.id
    /\ \A x, y \in T : x = y
    /\ C # {} => T = {}
    /\ C # {} \/ T # {} \/ c.kind = "slot" \/ \E x \in D : x.id = c.id

LEMMA AnsweredGoes ==
    ASSUME NotifyTypes, NEW c \in chains, NEW o \in {"go", "fail", "end"}, Answered(c, o)
    PROVE  \E C, T, D : Goes(c, C, T, D)
<1> DEFINE more == o = "go" /\ c.step < NotifyLength(c.kind)
           A == Ask(c.id, c.kind, c.step + 1)
           L == Lost(c.id)
           N == NotifyTail(c)
           U == {[id |-> c.id, why |-> "unregistered"]}
<1>1. /\ chains' = (chains \ {c}) \cup (IF more THEN A ELSE {})
      /\ threads' = IF o = "fail" \/ (o = "go" /\ ~more /\ c.kind # "slot") THEN threads \cup N ELSE threads
      /\ hn' = [hn EXCEPT !.dropped = hn.dropped \cup
                  (IF more THEN L ELSE IF o = "end" /\ c.kind = "net" THEN U ELSE {})]
      /\ UNCHANGED <<requestVars, simIn, inds, g_sim_inserted_flag>>
  BY DEF Answered
<1>2. o = "end" => c.kind \in {"net", "slot"}
  BY DEF Answered
<1>3. c \in ChainType /\ c.id \in Nat /\ c.kind \in Indications /\ c.step + 1 \in Nat
  BY DEF NotifyTypes, ChainType
<1>4. /\ A \in SUBSET ChainType /\ L \in SUBSET DropType /\ (\A x, y \in A : x = y)
      /\ (\A x \in A : x.id = c.id /\ x.kind = c.kind)
      /\ A # {} \/ \E x \in L : x.id = c.id
  <2>1. [id |-> c.id, kind |-> c.kind, step |-> c.step + 1] \in ChainType
    BY <1>3 DEF ChainType
  <2>2. [id |-> c.id, why |-> "nodevice"] \in DropType
    BY <1>3 DEF DropType
  <2>3. CASE g_mbimdevice
    BY <2>1, <2>3 DEF Ask, Lost
  <2>4. CASE ~g_mbimdevice
    BY <2>2, <2>4 DEF Ask, Lost
  <2> QED BY <2>3, <2>4
<1>5. N \in SUBSET ThreadType /\ IsFiniteSet(N) /\ (\A x \in N : x.id = c.id) /\ (\A x, y \in N : x = y) /\ N # {}
  <2> DEFINE b == (c.kind = "slot")
             t == [id |-> c.id, kind |-> c.kind, again |-> b]
  <2>1. b \in BOOLEAN
    OBVIOUS
  <2>2. N = {t}
    BY DEF NotifyTail
  <2> HIDE DEF b
  <2>3. t \in ThreadType /\ t.id = c.id
    BY <1>3, <2>1 DEF ThreadType
  <2> HIDE DEF t, N
  <2>4. IsFiniteSet({t})
    BY FS_Singleton
  <2> QED BY <2>2, <2>3, <2>4
<1>6. U \in SUBSET DropType /\ \E x \in U : x.id = c.id
  BY <1>3 DEF DropType
<1>7. IsFiniteSet({}) /\ {} \in SUBSET ThreadType /\ {} \in SUBSET ChainType /\ {} \in SUBSET DropType
  BY FS_EmptySet
<1>8. threads = threads \cup {}
  OBVIOUS
<1> HIDE DEF more, A, L, N, U
<1>9. CASE more
  <2>1. /\ chains' = (chains \ {c}) \cup A /\ threads' = threads \cup {}
        /\ hn' = [hn EXCEPT !.dropped = hn.dropped \cup L]
    BY <1>1, <1>8, <1>9 DEF more
  <2>2. Goes(c, A, {}, L)
    BY <1>1, <1>4, <1>7, <2>1 DEF Goes
  <2> QED BY <2>2
<1>10. CASE ~more /\ (o = "fail" \/ (o = "go" /\ c.kind # "slot"))
  <2>1. /\ chains' = (chains \ {c}) \cup {} /\ threads' = threads \cup N
        /\ hn' = [hn EXCEPT !.dropped = hn.dropped \cup {}]
    BY <1>1, <1>10
  <2>2. Goes(c, {}, N, {})
    BY <1>1, <1>5, <1>7, <2>1 DEF Goes
  <2> QED BY <2>2
<1>11. CASE ~more /\ o = "end" /\ c.kind = "net"
  <2>1. /\ chains' = (chains \ {c}) \cup {} /\ threads' = threads \cup {}
        /\ hn' = [hn EXCEPT !.dropped = hn.dropped \cup U]
    BY <1>1, <1>8, <1>11
  <2>2. Goes(c, {}, {}, U)
    BY <1>1, <1>6, <1>7, <2>1 DEF Goes
  <2> QED BY <2>2
<1>12. CASE ~more /\ c.kind = "slot" /\ o \in {"go", "end"}
  <2>1. /\ chains' = (chains \ {c}) \cup {} /\ threads' = threads \cup {}
        /\ hn' = [hn EXCEPT !.dropped = hn.dropped \cup {}]
    BY <1>1, <1>8, <1>12
  <2>2. Goes(c, {}, {}, {})
    BY <1>1, <1>7, <1>12, <2>1 DEF Goes
  <2> QED BY <2>2
<1> QED BY <1>2, <1>9, <1>10, <1>11, <1>12

LEMMA NotifyTypesInit == Init => NotifyTypes
<1> SUFFICES ASSUME Init PROVE NotifyTypes
  OBVIOUS
<1>1. <<>> \in Seq(IndType) /\ <<>> \in Seq(Indications) /\ IsFiniteSet({})
  BY FS_EmptySet
<1>2. hn \in NotifyHistoryType
  <2>1. simIn \in BOOLEAN
    BY DEF Init
  <2>2. [i \in 1..MaxInds |-> 0] \in [1..MaxInds -> Nat]
    OBVIOUS
  <2> QED BY <1>1, <2>1, <2>2 DEF Init, NotifyHistoryType
<1> QED BY <1>1, <1>2 DEF Init, NotifyTypes

LEMMA NotifyTypesKept ==
    ASSUME NotifyTypes, [Next]_vars
    PROVE  NotifyTypes'
<1>0. /\ simIn \in BOOLEAN /\ g_sim_inserted_flag \in BOOLEAN
      /\ inds \in Seq(IndType) /\ chains \in SUBSET ChainType
      /\ threads \in SUBSET ThreadType /\ IsFiniteSet(threads)
      /\ hn \in NotifyHistoryType
  BY DEF NotifyTypes
<1>1. CASE UNCHANGED notifyVars
  BY <1>0, <1>1 DEF NotifyTypes, notifyVars
<1>2. ASSUME NEW C, NEW T, NEW D, Handles(C, T, D),
             SubscriberReadyStatus \/ RadioState \/ RegisterState \/ SlotInfoStatus
      PROVE  NotifyTypes'
  <2>1. inds' \in Seq(IndType) /\ simIn' = simIn
    BY <1>2, HeadOfInds DEF Handles
  <2>3. hn' \in NotifyHistoryType
    BY <1>2 DEF Handles, Adds, Drops
  <2>4. chains' \in SUBSET ChainType /\ threads' \in SUBSET ThreadType
    BY <1>0, <1>2 DEF Handles, Adds
  <2>5. IsFiniteSet(threads')
    BY <1>0, <1>2, FS_Union DEF Handles, Adds
  <2>6. g_sim_inserted_flag' \in BOOLEAN
    <3>1. Head(inds) \in IndType
      BY <1>2, HeadOfInds DEF Handles
    <3>2. Head(inds).in \in BOOLEAN
      BY <3>1 DEF IndType
    <3> QED BY <1>0, <1>2, <3>2 DEF SubscriberReadyStatus, RadioState, RegisterState, SlotInfoStatus
  <2> QED BY <1>0, <2>1, <2>3, <2>4, <2>5, <2>6 DEF NotifyTypes
<1>3. ASSUME NEW c \in chains, NEW C, NEW T, NEW D, Goes(c, C, T, D) PROVE NotifyTypes'
  <2>1. hn.dropped \cup D \in SUBSET DropType
    BY <1>0, <1>3, HistoryFields DEF Goes
  <2>2. hn' \in NotifyHistoryType
    BY <1>0, <1>3, <2>1, HistoryFields DEF Goes
  <2>3. chains' \in SUBSET ChainType /\ threads' \in SUBSET ThreadType
    BY <1>0, <1>3 DEF Goes
  <2>4. IsFiniteSet(threads')
    BY <1>0, <1>3, FS_Union DEF Goes
  <2>5. UNCHANGED <<simIn, inds, g_sim_inserted_flag>>
    BY <1>3 DEF Goes
  <2> QED BY <1>0, <2>2, <2>3, <2>4, <2>5 DEF NotifyTypes
<1>4. ASSUME NEW k \in Indications, NEW b \in BOOLEAN,
             inds' = Append(inds, [id |-> Len(hn.sent) + 1, kind |-> k, in |-> b]),
             hn' = [hn EXCEPT !.sent = Append(hn.sent, k)],
             simIn' \in BOOLEAN, UNCHANGED <<g_sim_inserted_flag, chains, threads>>
      PROVE  NotifyTypes'
  <2>1. hn.sent \in Seq(Indications) /\ Len(hn.sent) + 1 \in Nat
    BY <1>0, HistoryFields, LenProperties
  <2>2. [id |-> Len(hn.sent) + 1, kind |-> k, in |-> b] \in IndType
    BY <2>1 DEF IndType
  <2>3. inds' \in Seq(IndType)
    BY <1>0, <1>4, <2>2, AppendProperties
  <2>4. Append(hn.sent, k) \in Seq(Indications)
    BY <2>1, AppendProperties
  <2>5. hn' \in NotifyHistoryType
    BY <1>0, <1>4, <2>4 DEF NotifyHistoryType
  <2> QED BY <1>0, <1>4, <2>3, <2>5 DEF NotifyTypes
<1>5. CASE SimChanges
  <2>1. (~simIn) \in BOOLEAN /\ "sim" \in Indications
    BY DEF Indications
  <2>2. /\ inds' = Append(inds, [id |-> Len(hn.sent) + 1, kind |-> "sim", in |-> ~simIn])
        /\ hn' = [hn EXCEPT !.sent = Append(hn.sent, "sim")]
        /\ simIn' = ~simIn /\ UNCHANGED <<g_sim_inserted_flag, chains, threads>>
    BY <1>5 DEF SimChanges, Send
  <2> QED BY <1>4, <2>1, <2>2
<1>6. ASSUME NEW k \in IndKinds \ {"sim"}, ModemIndicates(k) PROVE NotifyTypes'
  <2>1. FALSE \in BOOLEAN /\ k \in Indications
    BY MbimIndAssumption DEF Indications
  <2>2. /\ inds' = Append(inds, [id |-> Len(hn.sent) + 1, kind |-> k, in |-> FALSE])
        /\ hn' = [hn EXCEPT !.sent = Append(hn.sent, k)]
        /\ UNCHANGED <<simIn, g_sim_inserted_flag, chains, threads>>
    BY <1>6 DEF ModemIndicates, Send
  <2> QED BY <1>0, <1>4, <2>1, <2>2
<1>7. ASSUME NEW t \in threads, NotifyRuns(t) PROVE NotifyTypes'
  <2>1. threads' = threads \ {t} /\ UNCHANGED <<simIn, inds, g_sim_inserted_flag, chains>>
    BY <1>7 DEF NotifyRuns
  <2>2. IsFiniteSet(threads')
    BY <1>0, <2>1, FS_RemoveElement
  <2>3. hn' \in NotifyHistoryType
    <3>1. hn' = [hn EXCEPT !.told = [hn.told EXCEPT ![t.id] = hn.told[t.id] + 1]]
      BY <1>7 DEF NotifyRuns
    <3>2. [hn.told EXCEPT ![t.id] = hn.told[t.id] + 1] \in [1..MaxInds -> Nat]
      <4> DEFINE f == hn.told
                 i == t.id
      <4>1. f \in [1..MaxInds -> Nat]
        BY <1>0, HistoryFields
      <4> HIDE DEF f, i
      <4>2. [f EXCEPT ![i] = f[i] + 1] \in [1..MaxInds -> Nat]
        <5>1. CASE i \in 1..MaxInds
          <6>1. f[i] + 1 \in Nat
            BY <4>1, <5>1
          <6> QED BY <4>1, <6>1
        <5>2. CASE i \notin 1..MaxInds
          BY <4>1, <5>2
        <5> QED BY <5>1, <5>2
      <4> QED BY <4>2 DEF f, i
    <3> QED BY <1>0, <3>1, <3>2 DEF NotifyHistoryType
  <2> QED BY <1>0, <2>1, <2>2, <2>3 DEF NotifyTypes
<1>8. ASSUME NEW o \in AllOutcomes, RequestCallback(o) PROVE NotifyTypes'
  <2>1. UNCHANGED <<simIn, inds, chains, threads>>
    BY <1>8 DEF RequestCallback
  <2>2. g_sim_inserted_flag' \in BOOLEAN
    BY <1>0, <1>8 DEF RequestCallback
  <2>3. hn' \in NotifyHistoryType
    BY <1>0, <1>8 DEF RequestCallback, NotifyHistoryType
  <2> QED BY <1>0, <2>1, <2>2, <2>3 DEF NotifyTypes
<1>9. CASE Deinit
  <2>1. /\ inds' = <<>> /\ g_sim_inserted_flag' = FALSE /\ UNCHANGED <<simIn, chains, threads>>
        /\ hn' = [hn EXCEPT !.dropped = hn.dropped \cup {[id |-> inds[n].id, why |-> "nodevice"] : n \in DOMAIN inds},
                        !.unseen = simIn]
    BY <1>9 DEF Deinit
  <2>2. {[id |-> inds[n].id, why |-> "nodevice"] : n \in DOMAIN inds} \in SUBSET DropType
    <3>1. \A n \in DOMAIN inds : inds[n].id \in Nat
      <4>1. \A n \in DOMAIN inds : inds[n] \in IndType
        BY <1>0, ElementOfSeq, LenProperties
      <4> QED BY <4>1 DEF IndType
    <3> QED BY <3>1 DEF DropType
  <2>3. hn' \in NotifyHistoryType
    BY <1>0, <2>1, <2>2 DEF NotifyHistoryType
  <2>4. <<>> \in Seq(IndType)
    OBVIOUS
  <2> QED BY <1>0, <2>1, <2>3, <2>4 DEF NotifyTypes
<1>10. CASE SubscriberReadyStatus \/ RadioState \/ RegisterState \/ SlotInfoStatus
  BY <1>2, <1>10, HandlerAdds
<1>11. ASSUME NEW c \in chains, NEW o \in {"go", "fail", "end"}, Answered(c, o) PROVE NotifyTypes'
  BY <1>3, <1>11, AnsweredGoes
<1>12. CASE UNCHANGED vars
  BY <1>1, <1>12 DEF vars
<1> QED BY <1>1, <1>5, <1>6, <1>7, <1>8, <1>9, <1>10, <1>11, <1>12 DEF Next

-----------------------------------------------------------------------------
(* The flag follows the SIM: the last indication of a SIM change that is   *)
(* still on its way tells the truth, and with none on its way the flag     *)
(* does.                                                                   *)
LastTells ==
    \A n \in 1..Len(inds) :
        inds[n].kind = "sim" /\ (\A m \in 1..Len(inds) : m > n => inds[m].kind # "sim") => inds[n].in = simIn
NonePending == \A n \in 1..Len(inds) : inds[n].kind # "sim"
SimInv == ~ended => LastTells /\ (NonePending => g_sim_inserted_flag = simIn \/ hn.unseen)

LEMMA SimStays ==
    ASSUME SimInv, UNCHANGED <<inds, simIn, g_sim_inserted_flag>>, hn'.unseen = hn.unseen, ended => ended'
    PROVE  SimInv'
  BY DEF SimInv, LastTells, NonePending

LEMMA SimHandled ==
    ASSUME NotifyTypes, SimInv, SubscriberReadyStatus \/ RadioState \/ RegisterState \/ SlotInfoStatus
    PROVE  SimInv'
<1>1. PICK C, T, D : Handles(C, T, D)
  BY HandlerAdds
<1>2. /\ inds # <<>> /\ inds' = Tail(inds) /\ simIn' = simIn /\ ended' = ended
  BY <1>1 DEF Handles, requestVars
<1>3. hn \in NotifyHistoryType
  BY DEF NotifyTypes
<1>4. /\ Len(inds) \in Nat \ {0} /\ Len(inds)' = Len(inds) - 1 /\ Head(inds) = inds[1]
      /\ \A n \in 1..(Len(inds) - 1) : inds'[n] = inds[n + 1] /\ n + 1 \in 1..Len(inds)
  BY <1>2, HeadOfInds
<1>5. \/ inds[1].kind = "sim" /\ g_sim_inserted_flag' = inds[1].in
      \/ /\ inds[1].kind = "sim" /\ g_sim_inserted_flag' = g_sim_inserted_flag
         /\ inds[1].in # g_sim_inserted_flag => hn'.unseen
      \/ inds[1].kind # "sim" /\ g_sim_inserted_flag' = g_sim_inserted_flag /\ hn'.unseen = hn.unseen
  <2>1. CASE SubscriberReadyStatus
    <3>1. /\ inds[1].kind = "sim"
          /\ \/ g_sim_inserted_flag' = inds[1].in
             \/ /\ g_sim_inserted_flag' = g_sim_inserted_flag
                /\ \E d : hn' = [hn EXCEPT !.dropped = d, !.unseen = inds[1].in # g_sim_inserted_flag]
      BY <1>4, <2>1 DEF SubscriberReadyStatus
    <3>2. ASSUME NEW d, hn' = [hn EXCEPT !.dropped = d, !.unseen = inds[1].in # g_sim_inserted_flag],
                 inds[1].in # g_sim_inserted_flag
          PROVE  hn'.unseen
      BY <1>3, <3>2 DEF NotifyHistoryType
    <3> QED BY <3>1, <3>2
  <2>2. CASE RadioState \/ RegisterState \/ SlotInfoStatus
    <3>1. /\ inds[1].kind # "sim" /\ g_sim_inserted_flag' = g_sim_inserted_flag
          /\ hn' = hn \/ \E d : hn' = [hn EXCEPT !.dropped = d]
      BY <1>4, <2>2 DEF RadioState, RegisterState, SlotInfoStatus
    <3>2. ASSUME NEW d, hn' = [hn EXCEPT !.dropped = d] PROVE hn'.unseen = hn.unseen
      BY <1>3, <3>2 DEF NotifyHistoryType
    <3> QED BY <3>1, <3>2
  <2> QED BY <2>1, <2>2
<1>6. \A m \in 1..Len(inds) : m = 1 \/ (m - 1 \in 1..(Len(inds) - 1) /\ inds[m] = inds'[m - 1])
  BY <1>4
<1> SUFFICES ASSUME ~ended PROVE LastTells' /\ (NonePending' => g_sim_inserted_flag' = simIn \/ hn'.unseen)
  BY <1>2 DEF SimInv
<1>7. LastTells /\ (NonePending => g_sim_inserted_flag = simIn \/ hn.unseen)
  BY DEF SimInv
<1>8. LastTells'
  <2>1. ASSUME NEW n \in 1..(Len(inds) - 1), inds[n + 1].kind = "sim",
               \A m \in 1..(Len(inds) - 1) : m > n => inds[m + 1].kind # "sim"
        PROVE  inds[n + 1].in = simIn
    <3>1. n + 1 \in 1..Len(inds)
      BY <1>4
    <3>2. ASSUME NEW m \in 1..Len(inds), m > n + 1 PROVE inds[m].kind # "sim"
      <4>1. m - 1 \in 1..(Len(inds) - 1) /\ m - 1 > n /\ (m - 1) + 1 = m
        BY <1>4, <3>2
      <4> QED BY <2>1, <4>1
    <3> QED BY <1>7, <2>1, <3>1, <3>2 DEF LastTells
  <2>2. \A n \in 1..(Len(inds) - 1) :
          inds'[n].kind = "sim" /\ (\A m \in 1..(Len(inds) - 1) : m > n => inds'[m].kind # "sim")
             => inds'[n].in = simIn
    BY <1>4, <2>1
  <2> QED BY <1>2, <1>4, <2>2 DEF LastTells
<1>9. NonePending' => g_sim_inserted_flag' = simIn \/ hn'.unseen
  <2> SUFFICES ASSUME NonePending' PROVE g_sim_inserted_flag' = simIn \/ hn'.unseen
    OBVIOUS
  <2>1. \A m \in 1..Len(inds) : m > 1 => inds[m].kind # "sim"
    <3>1. \A n \in 1..(Len(inds) - 1) : inds'[n].kind # "sim"
      BY <1>4 DEF NonePending
    <3>2. ASSUME NEW m \in 1..Len(inds), m > 1 PROVE inds[m].kind # "sim"
      <4>1. m # 1
        BY <3>2
      <4>2. m - 1 \in 1..(Len(inds) - 1) /\ inds[m] = inds'[m - 1]
        BY <1>6, <4>1
      <4> QED BY <3>1, <4>2
    <3> QED BY <3>2
  <2>2. CASE inds[1].kind = "sim"
    <3>1. 1 \in 1..Len(inds)
      BY <1>4
    <3>2. inds[1].in = simIn
      BY <1>7, <2>1, <2>2, <3>1 DEF LastTells
    <3> QED BY <1>5, <2>2, <3>2
  <2>3. CASE inds[1].kind # "sim"
    <3>1. NonePending
      BY <1>4, <2>1, <2>3 DEF NonePending
    <3> QED BY <1>5, <1>7, <2>3, <3>1
  <2> QED BY <2>2, <2>3
<1> QED BY <1>8, <1>9

(* A new indication.                                                       *)
LEMMA SimSent ==
    ASSUME NotifyTypes, SimInv, NEW i \in IndType, inds' = Append(inds, i), ended' = ended,
           i.kind = "sim" => i.in = simIn',
           i.kind # "sim" => UNCHANGED <<simIn, g_sim_inserted_flag>> /\ hn'.unseen = hn.unseen
    PROVE  SimInv'
<1>1. inds \in Seq(IndType)
  BY DEF NotifyTypes
<1> DEFINE L == Len(inds)
<1>2. /\ L \in Nat /\ Len(inds)' = L + 1 /\ inds'[L + 1] = i
      /\ \A n \in 1..L : inds'[n] = inds[n]
  BY <1>1, AppendProperties, LenProperties
<1>3. \A n \in 1..(L + 1) : n \in 1..L \/ n = L + 1
  BY <1>2
<1>4. L + 1 \in 1..(L + 1) /\ \A n \in 1..L : n \in 1..(L + 1) /\ L + 1 > n
  BY <1>2
<1>5. LastTells <=> \A n \in 1..L :
        inds[n].kind = "sim" /\ (\A m \in 1..L : m > n => inds[m].kind # "sim") => inds[n].in = simIn
  BY DEF LastTells
<1>6. LastTells' <=> \A n \in 1..(L + 1) :
        inds'[n].kind = "sim" /\ (\A m \in 1..(L + 1) : m > n => inds'[m].kind # "sim") => inds'[n].in = simIn'
  BY <1>2 DEF LastTells
<1>7. NonePending <=> \A n \in 1..L : inds[n].kind # "sim"
  BY DEF NonePending
<1>8. NonePending' <=> \A n \in 1..(L + 1) : inds'[n].kind # "sim"
  BY <1>2 DEF NonePending
<1> HIDE DEF L
<1>9. CASE i.kind = "sim"
  <2>1. LastTells'
    BY <1>2, <1>3, <1>4, <1>6, <1>9
  <2>2. ~NonePending'
    BY <1>2, <1>4, <1>8, <1>9
  <2> QED BY <2>1, <2>2 DEF SimInv
<1>10. CASE i.kind # "sim"
  <2>1. LastTells => LastTells'
    BY <1>2, <1>3, <1>4, <1>5, <1>6, <1>10
  <2>2. NonePending' => NonePending
    BY <1>2, <1>4, <1>7, <1>8
  <2> QED BY <1>10, <2>1, <2>2 DEF SimInv
<1> QED BY <1>9, <1>10

LEMMA SimKept ==
    ASSUME NotifyTypes, SimInv, [Next]_vars
    PROVE  SimInv'
<1>0. hn \in NotifyHistoryType /\ simIn \in BOOLEAN
  BY DEF NotifyTypes
<1>1. CASE RequestStep /\ UNCHANGED notifyVars
  <2>1. ended' = ended
    BY <1>1 DEF RequestStep, MbimInit, InitReturns, CallRequest, CallerReceives, AlarmFires, CallerReturns,
               HelperOpens, HelperOpened, HelperTakes, HelperSends, HelperWakes, HelperAnswers, HelperLeaves,
               OpenCallback
  <2> QED BY <1>1, <2>1, SimStays DEF notifyVars
<1>2. CASE SubscriberReadyStatus \/ RadioState \/ RegisterState \/ SlotInfoStatus
  BY <1>2, SimHandled
<1>3. ASSUME NEW c \in chains, NEW o \in {"go", "fail", "end"}, Answered(c, o) PROVE SimInv'
  <2>1. PICK C, T, D : Goes(c, C, T, D)
    BY <1>3, AnsweredGoes
  <2>2. hn.dropped \cup D \in SUBSET DropType
    BY <1>0, <2>1, HistoryFields DEF Goes
  <2>3. hn'.unseen = hn.unseen
    BY <1>0, <2>1, <2>2, HistoryFields DEF Goes
  <2>4. UNCHANGED <<inds, simIn, g_sim_inserted_flag, ended>>
    BY <2>1 DEF Goes, requestVars
  <2> QED BY <2>3, <2>4, SimStays
<1>4. CASE SimChanges
  <2>1. /\ inds' = Append(inds, [id |-> Len(hn.sent) + 1, kind |-> "sim", in |-> ~simIn])
        /\ simIn' = ~simIn /\ ended' = ended
    BY <1>4 DEF SimChanges, Send, requestVars
  <2>2. hn.sent \in Seq(Indications)
    BY <1>0, HistoryFields
  <2>3. PICK b \in BOOLEAN : b = ~simIn
    OBVIOUS
  <2>4. PICK i \in IndType : i = [id |-> Len(hn.sent) + 1, kind |-> "sim", in |-> b]
    <3>1. Len(hn.sent) + 1 \in Nat
      BY <2>2, LenProperties
    <3>2. [id |-> Len(hn.sent) + 1, kind |-> "sim", in |-> b] \in IndType
      BY <3>1 DEF IndType, Indications
    <3> QED BY <3>2
  <2>5. inds' = Append(inds, i)
    BY <2>1, <2>3, <2>4
  <2>6. i.kind = "sim" /\ i.in = b
    BY <2>4
  <2>7. i.in = simIn'
    BY <2>1, <2>3, <2>6
  <2> QED BY <2>1, <2>5, <2>6, <2>7, SimSent
<1>5. ASSUME NEW k \in IndKinds \ {"sim"}, ModemIndicates(k) PROVE SimInv'
  <2>1. /\ inds' = Append(inds, [id |-> Len(hn.sent) + 1, kind |-> k, in |-> FALSE])
        /\ UNCHANGED <<simIn, g_sim_inserted_flag, ended>>
        /\ hn' = [hn EXCEPT !.sent = Append(hn.sent, k)]
    BY <1>5 DEF ModemIndicates, Send, requestVars
  <2>2. hn.sent \in Seq(Indications) /\ k \in Indications
    BY <1>0, HistoryFields, MbimIndAssumption DEF Indications
  <2>3. PICK b \in BOOLEAN : b = FALSE
    OBVIOUS
  <2>4. PICK i \in IndType : i = [id |-> Len(hn.sent) + 1, kind |-> k, in |-> b]
    <3>1. Len(hn.sent) + 1 \in Nat
      BY <2>2, LenProperties
    <3>2. [id |-> Len(hn.sent) + 1, kind |-> k, in |-> b] \in IndType
      BY <2>2, <3>1 DEF IndType
    <3> QED BY <3>2
  <2>5. inds' = Append(inds, i) /\ i.kind # "sim"
    BY <2>1, <2>3, <2>4
  <2>6. hn'.unseen = hn.unseen
    BY <1>0, <2>1 DEF NotifyHistoryType
  <2> QED BY <2>1, <2>5, <2>6, SimSent
<1>6. ASSUME NEW t \in threads, NotifyRuns(t) PROVE SimInv'
  <2>1. UNCHANGED <<simIn, inds, g_sim_inserted_flag, ended>>
        /\ hn' = [hn EXCEPT !.told = [hn.told EXCEPT ![t.id] = hn.told[t.id] + 1]]
    BY <1>6 DEF NotifyRuns, requestVars
  <2>2. hn'.unseen = hn.unseen
    BY <1>0, <2>1 DEF NotifyHistoryType
  <2> QED BY <2>1, <2>2, SimStays
<1>7. ASSUME NEW o \in AllOutcomes, RequestCallback(o) PROVE SimInv'
  <2>1. /\ UNCHANGED <<simIn, inds, ended>>
        /\ g_sim_inserted_flag' = simIn \/ UNCHANGED <<g_sim_inserted_flag, hn>>
    BY <1>7 DEF RequestCallback, Callback
  <2>2. CASE UNCHANGED <<g_sim_inserted_flag, hn>>
    BY <2>1, <2>2, SimStays
  <2>3. CASE g_sim_inserted_flag' = simIn
    BY <2>1, <2>3 DEF SimInv, LastTells
  <2> QED BY <2>1, <2>2, <2>3
<1>8. CASE Deinit
  <2>1. ended'
    BY <1>8 DEF Deinit, MbimDeinit
  <2> QED BY <2>1 DEF SimInv
<1>9. CASE UNCHANGED vars
  BY <1>9, SimStays DEF vars, notifyVars, requestVars
<1> QED BY <1>1, <1>2, <1>3, <1>4, <1>5, <1>6, <1>7, <1>8, <1>9 DEF Next

-----------------------------------------------------------------------------
(* Where an indication is: on its way, in a chain, told or about to be, or *)
(* dropped.                                                                *)
Known(i, k) == i \in 1..Len(hn.sent) /\ hn.sent[i] = k
Queued(i) == \E n \in 1..Len(inds) : inds[n].id = i
Chained(i) == \E c \in chains : c.id = i
Due(i) == {t \in threads : t.id = i}
Times(i) == hn.told[i] + Cardinality(Due(i))
Dropped(i) == \E d \in hn.dropped : d.id = i

(* An indication that is on its way has been told to nobody; one in a      *)
(* chain neither, but for a slot, whose first thread runs ahead.           *)
Settled(i) ==
    /\ Queued(i) => ~Chained(i) /\ Times(i) = 0
    /\ Chained(i) => Times(i) = IF hn.sent[i] = "slot" THEN 1 ELSE 0
    /\ Times(i) <= IF hn.sent[i] = "slot" THEN 2 ELSE 1
    /\ Queued(i) \/ Chained(i) \/ Times(i) > 0 \/ Dropped(i)

ListsInv ==
    /\ Len(hn.sent) <= MaxInds
    /\ \A n \in 1..Len(inds) : Known(inds[n].id, inds[n].kind)
    /\ \A m, n \in 1..Len(inds) : inds[m].id = inds[n].id => m = n
    /\ \A c \in chains : Known(c.id, c.kind)
    /\ \A c, d \in chains : c.id = d.id => c = d
    /\ \A t \in threads : t.id \in 1..Len(hn.sent)
    /\ \A i \in 1..MaxInds : i > Len(hn.sent) => hn.told[i] = 0

IndInv == ListsInv /\ \A i \in 1..Len(hn.sent) : Settled(i)

LEMMA TimesType ==
    ASSUME NotifyTypes, NEW i \in 1..MaxInds
    PROVE  IsFiniteSet(Due(i)) /\ Cardinality(Due(i)) \in Nat /\ hn.told[i] \in Nat /\ Times(i) \in Nat
<1>1. IsFiniteSet(Due(i))
  <2>1. IsFiniteSet(threads) /\ Due(i) \in SUBSET threads
    BY DEF NotifyTypes, Due
  <2> QED BY <2>1, FS_Subset
<1>2. Cardinality(Due(i)) \in Nat
  BY <1>1, FS_CardinalityType
<1>3. hn.told[i] \in Nat
  BY HistoryFields DEF NotifyTypes
<1> QED BY <1>1, <1>2, <1>3 DEF Times

(* A thread that starts counts once, for its own indication.               *)
LEMMA OtherThreads ==
    ASSUME NotifyTypes, NEW T, threads' = threads \cup T, hn'.told = hn.told, NEW i \in 1..MaxInds,
           \A x \in T : x.id # i
    PROVE  Times(i)' = Times(i)
<1>1. Times(i)' = hn.told[i] + Cardinality(Due(i)')
  BY DEF Times
<1>2. Due(i)' = {t \in threads \cup T : t.id = i}
  BY DEF Due
<1>3. Due(i)' = Due(i)
  BY <1>2 DEF Due
<1> QED BY <1>1, <1>3 DEF Times

LEMMA OwnThread ==
    ASSUME NotifyTypes, NEW x, threads' = threads \cup {x}, hn'.told = hn.told, NEW i \in 1..MaxInds, x.id = i
    PROVE  /\ Times(i)' \in {Times(i), Times(i) + 1} /\ Times(i)' > 0
           /\ Times(i) = 0 => Times(i)' = 1
<1>1. Times(i)' = hn.told[i] + Cardinality(Due(i)')
  BY DEF Times
<1>2. Due(i)' = {t \in threads \cup {x} : t.id = i}
  BY DEF Due
<1>3. /\ IsFiniteSet(Due(i)) /\ Cardinality(Due(i)) \in Nat /\ hn.told[i] \in Nat
      /\ Times(i) = hn.told[i] + Cardinality(Due(i))
  BY TimesType DEF Times
<1>4. Due(i)' = Due(i) \cup {x}
  BY <1>2 DEF Due
<1>5. Cardinality(Due(i)') = IF x \in Due(i) THEN Cardinality(Due(i)) ELSE Cardinality(Due(i)) + 1
  BY <1>3, <1>4, FS_AddElement
<1>6. x \in Due(i) => Cardinality(Due(i)) > 0
  BY <1>3, FS_EmptySet
<1> DEFINE a == hn.told[i]
           b == Cardinality(Due(i))
           d == Cardinality(Due(i)')
<1>7. /\ a \in Nat /\ b \in Nat /\ Times(i) = a + b /\ Times(i)' = a + d
      /\ d = b \/ d = b + 1
      /\ d > 0
  BY <1>1, <1>3, <1>5, <1>6
<1>8. Times(i) = 0 => d = b + 1
  BY <1>3, <1>5, <1>6
<1> HIDE DEF a, b, d
<1> QED BY <1>7, <1>8

(* A thread that runs tells what it was due to tell.                       *)
LEMMA ThreadRan ==
    ASSUME NotifyTypes, NEW t \in threads, threads' = threads \ {t}, t.id \in 1..MaxInds,
           hn'.told = [hn.told EXCEPT ![t.id] = hn.told[t.id] + 1], NEW i \in 1..MaxInds
    PROVE  Times(i)' = Times(i)
<1>1. Times(i)' = hn'.told[i] + Cardinality(Due(i)')
  BY DEF Times
<1>2. Due(i)' = {x \in threads \ {t} : x.id = i}
  BY DEF Due
<1>3. /\ IsFiniteSet(Due(i)) /\ Cardinality(Due(i)) \in Nat /\ hn.told[i] \in Nat
      /\ Times(i) = hn.told[i] + Cardinality(Due(i))
  BY TimesType DEF Times
<1>4. hn.told \in [1..MaxInds -> Nat]
  BY HistoryFields DEF NotifyTypes
<1>5. CASE i # t.id
  <2>1. Due(i)' = Due(i)
    BY <1>2, <1>5 DEF Due
  <2>2. hn'.told[i] = hn.told[i]
    BY <1>4, <1>5
  <2> QED BY <1>1, <1>3, <2>1, <2>2
<1>6. CASE i = t.id
  <2>1. Due(i)' = Due(i) \ {t} /\ t \in Due(i)
    BY <1>2, <1>6 DEF Due
  <2>2. Cardinality(Due(i)') = Cardinality(Due(i)) - 1
    BY <1>3, <2>1, FS_RemoveElement
  <2>3. hn'.told[i] = hn.told[i] + 1
    BY <1>4, <1>6
  <2> DEFINE a == hn.told[i]
             b == Cardinality(Due(i))
             d == Cardinality(Due(i)')
  <2>4. a \in Nat /\ b \in Nat /\ Times(i) = a + b /\ Times(i)' = (a + 1) + d /\ d = b - 1
    BY <1>1, <1>3, <2>2, <2>3
  <2> HIDE DEF a, b, d
  <2> QED BY <2>4
<1> QED BY <1>5, <1>6

LEMMA SettledStays ==
    ASSUME NEW j, Settled(j), hn'.sent[j] = hn.sent[j], Queued(j)' <=> Queued(j), Chained(j)' <=> Chained(j),
           Times(j)' = Times(j), Dropped(j) => Dropped(j)'
    PROVE  Settled(j)'
  BY DEF Settled

LEMMA IndHandled ==
    ASSUME NotifyTypes, IndInv, NEW C, NEW T, NEW D, Handles(C, T, D)
    PROVE  IndInv'
<1> DEFINE L == Len(inds)
<1>0. PICK i, k : i = Head(inds).id /\ k = Head(inds).kind
  OBVIOUS
<1>1. /\ inds # <<>> /\ inds' = Tail(inds) /\ chains' = chains \cup C /\ threads' = threads \cup T
      /\ Drops(D)
      /\ IsFiniteSet(T) /\ D \in SUBSET DropType
      /\ (\A x \in C : x.id = i /\ x.kind = k) /\ (\A x \in T : x.id = i)
      /\ (\A x, y \in C : x = y) /\ (\A x, y \in T : x = y)
      /\ (C # {} => (T # {} <=> k = "slot"))
      /\ (C # {} \/ T # {} \/ \E x \in D : x.id = i)
  BY <1>0 DEF Handles, Adds
<1>2. hn'.sent = hn.sent /\ hn'.told = hn.told /\ hn'.dropped = hn.dropped \cup D
  BY <1>1 DEF Drops
<1>3. /\ L \in Nat \ {0} /\ Len(inds)' = L - 1 /\ Head(inds) = inds[1]
      /\ \A n \in 1..(L - 1) : inds'[n] = inds[n + 1] /\ n + 1 \in 1..L
  BY <1>1, HeadOfInds
<1>4. \A n \in 1..L : n = 1 \/ (n - 1 \in 1..(L - 1) /\ inds[n] = inds'[n - 1])
  BY <1>3
<1>5. i = inds[1].id /\ k = inds[1].kind /\ 1 \in 1..L
  BY <1>0, <1>3
<1>6. ListsInv /\ \A j \in 1..Len(hn.sent) : Settled(j)
  BY DEF IndInv
<1>7. i \in 1..Len(hn.sent) /\ hn.sent[i] = k /\ Len(hn.sent) \in Nat /\ MaxInds \in Nat /\ Len(hn.sent) <= MaxInds
  <2>1. Len(hn.sent) \in Nat
    BY HistoryFields, LenProperties DEF NotifyTypes
  <2> QED BY <1>5, <1>6, <2>1, MbimIndAssumption DEF ListsInv, Known
<1>8. Queued(i) /\ ~Chained(i) /\ Times(i) = 0
  BY <1>5, <1>6, <1>7 DEF Queued, Settled
<1>9. \A j \in 1..Len(hn.sent) : j \in 1..MaxInds
  BY <1>7
<1> HIDE DEF L
<1>10. ListsInv'
  <2>1. \A x, y : Known(x, y)' <=> Known(x, y)
    BY <1>2 DEF Known
  <2>2. \A n \in 1..(L - 1) : Known(inds'[n].id, inds'[n].kind)
    BY <1>3, <1>6 DEF ListsInv, L
  <2>3. \A m, n \in 1..(L - 1) : inds'[m].id = inds'[n].id => m = n
    <3>1. ASSUME NEW m \in 1..(L - 1), NEW n \in 1..(L - 1), inds'[m].id = inds'[n].id PROVE m = n
      <4>1. \A a, b \in 1..L : inds[a].id = inds[b].id => a = b
        BY <1>6 DEF ListsInv, L
      <4>2. m + 1 \in 1..L /\ n + 1 \in 1..L /\ inds[m + 1].id = inds[n + 1].id
        BY <1>3, <3>1
      <4>3. m + 1 = n + 1
        BY <4>1, <4>2
      <4> QED BY <4>3
    <3> QED BY <3>1
  <2>4. \A c \in chains \cup C : Known(c.id, c.kind)
    BY <1>1, <1>6, <1>7 DEF ListsInv, Known
  <2>5. \A c, d \in chains \cup C : c.id = d.id => c = d
    <3>1. \A c \in chains, d \in C : c.id # d.id
      BY <1>1, <1>8 DEF Chained
    <3> QED BY <1>1, <1>6, <3>1 DEF ListsInv
  <2>6. \A t \in threads \cup T : t.id \in 1..Len(hn.sent)
    BY <1>1, <1>6, <1>7 DEF ListsInv
  <2>7. Len(hn.sent) <= MaxInds /\ \A j \in 1..MaxInds : j > Len(hn.sent) => hn.told[j] = 0
    BY <1>6 DEF ListsInv
  <2> QED BY <1>1, <1>2, <1>3, <2>1, <2>2, <2>3, <2>4, <2>5, <2>6, <2>7 DEF ListsInv
<1>11. ASSUME NEW j \in 1..Len(hn.sent), j # i PROVE Settled(j)'
  <2>1. Queued(j)' <=> Queued(j)
    <3>1. Queued(j)' <=> \E n \in 1..(L - 1) : inds'[n].id = j
      BY <1>3 DEF Queued
    <3>2. Queued(j) <=> \E n \in 1..L : inds[n].id = j
      BY DEF Queued, L
    <3>3. ASSUME NEW n \in 1..L, inds[n].id = j PROVE \E m \in 1..(L - 1) : inds'[m].id = j
      BY <1>4, <1>5, <1>11, <3>3
    <3> QED BY <1>3, <3>1, <3>2, <3>3
  <2>2. Chained(j)' <=> Chained(j)
    BY <1>1, <1>11 DEF Chained
  <2>3. Times(j)' = Times(j)
    BY <1>1, <1>2, <1>9, <1>11, OtherThreads
  <2>4. Dropped(j) => Dropped(j)'
    BY <1>2 DEF Dropped
  <2> QED BY <1>2, <1>6, <2>1, <2>2, <2>3, <2>4, SettledStays
<1>12. Settled(i)'
  <2>0. i \in 1..MaxInds
    BY <1>7, <1>9
  <2>1. ~Queued(i)'
    <3>1. Queued(i)' <=> \E n \in 1..(L - 1) : inds'[n].id = i
      BY <1>3, <2>0 DEF Queued
    <3>2. ASSUME NEW n \in 1..(L - 1), inds'[n].id = i PROVE FALSE
      <4>1. \A a, b \in 1..L : inds[a].id = inds[b].id => a = b
        BY <1>6 DEF ListsInv, L
      <4>2. n + 1 = 1
        BY <1>3, <1>5, <3>2, <4>1
      <4> QED BY <4>2
    <3> QED BY <3>1, <3>2
  <2>2. Chained(i)' <=> C # {}
    BY <1>1, <1>8, <2>0 DEF Chained
  <2>3. Times(i)' = IF T = {} THEN 0 ELSE 1
    <3>1. CASE T = {}
      BY <1>1, <1>2, <1>8, <2>0, <3>1, OtherThreads
    <3>2. CASE T # {}
      <4>1. PICK x : T = {x} /\ x.id = i
        BY <1>1, <3>2
      <4>2. Times(i)' = 1
        BY <1>1, <1>2, <1>8, <2>0, <4>1, OwnThread
      <4> QED BY <3>2, <4>2
    <3> QED BY <3>1, <3>2
  <2>4. (\E x \in D : x.id = i) => Dropped(i)'
    BY <1>2, <2>0 DEF Dropped
  <2>5. hn'.sent[i] = k
    BY <1>2, <1>7, <2>0
  <2> QED BY <1>1, <2>1, <2>2, <2>3, <2>4, <2>5 DEF Settled
<1> QED BY <1>2, <1>10, <1>11, <1>12 DEF IndInv

LEMMA IndGoes ==
    ASSUME NotifyTypes, IndInv, NEW c \in chains, NEW C, NEW T, NEW D, Goes(c, C, T, D)
    PROVE  IndInv'
<1>0. PICK i, k : i = c.id /\ k = c.kind
  OBVIOUS
<1>1. /\ chains' = (chains \ {c}) \cup C /\ threads' = threads \cup T /\ inds' = inds
      /\ hn' = [hn EXCEPT !.dropped = hn.dropped \cup D]
      /\ D \in SUBSET DropType
      /\ (\A x \in C : x.id = i /\ x.kind = k) /\ (\A x, y \in C : x = y)
      /\ (\A x \in T : x.id = i) /\ (\A x, y \in T : x = y)
      /\ (C # {} => T = {})
      /\ (C # {} \/ T # {} \/ k = "slot" \/ \E x \in D : x.id = i)
  BY <1>0 DEF Goes
<1>2. hn'.sent = hn.sent /\ hn'.told = hn.told /\ hn'.dropped = hn.dropped \cup D
  <2>1. hn \in NotifyHistoryType
    BY DEF NotifyTypes
  <2>2. hn.dropped \cup D \in SUBSET DropType
    BY <1>1, <2>1, HistoryFields
  <2> QED BY <1>1, <2>1, <2>2, HistoryFields
<1>3. ListsInv /\ \A j \in 1..Len(hn.sent) : Settled(j)
  BY DEF IndInv
<1>4. i \in 1..Len(hn.sent) /\ hn.sent[i] = k /\ Len(hn.sent) \in Nat /\ MaxInds \in Nat /\ Len(hn.sent) <= MaxInds
  <2>1. Len(hn.sent) \in Nat
    BY HistoryFields, LenProperties DEF NotifyTypes
  <2> QED BY <1>0, <1>3, <2>1, MbimIndAssumption DEF ListsInv, Known
<1>5. Chained(i) /\ ~Queued(i) /\ Times(i) = (IF k = "slot" THEN 1 ELSE 0)
  BY <1>0, <1>3, <1>4 DEF Chained, Settled
<1>6. \A j \in 1..Len(hn.sent) : j \in 1..MaxInds
  BY <1>4
<1>7. \A d \in chains : d # c => d.id # i
  BY <1>0, <1>3 DEF ListsInv
<1>8. ListsInv'
  <2>1. \A x, y : Known(x, y)' <=> Known(x, y)
    BY <1>2 DEF Known
  <2>2. \A x \in chains' : Known(x.id, x.kind)
    BY <1>1, <1>3, <1>4 DEF ListsInv, Known
  <2>3. \A x, y \in chains' : x.id = y.id => x = y
    BY <1>1, <1>3, <1>7 DEF ListsInv
  <2>4. \A t \in threads' : t.id \in 1..Len(hn.sent)
    BY <1>1, <1>3, <1>4 DEF ListsInv
  <2> QED BY <1>1, <1>2, <1>3, <2>1, <2>2, <2>3, <2>4 DEF ListsInv
<1>9. ASSUME NEW j \in 1..Len(hn.sent), j # i PROVE Settled(j)'
  <2>1. Queued(j)' <=> Queued(j)
    BY <1>1 DEF Queued
  <2>2. Chained(j)' <=> Chained(j)
    BY <1>0, <1>1, <1>9 DEF Chained
  <2>3. Times(j)' = Times(j)
    <3>1. j \in 1..MaxInds /\ \A x \in T : x.id # j
      BY <1>1, <1>6, <1>9
    <3> QED BY <1>1, <1>2, <3>1, OtherThreads
  <2>4. Dropped(j) => Dropped(j)'
    BY <1>2 DEF Dropped
  <2> QED BY <1>2, <1>3, <2>1, <2>2, <2>3, <2>4, SettledStays
<1>10. Settled(i)'
  <2>0. i \in 1..MaxInds
    BY <1>4, <1>6
  <2>1. ~Queued(i)' /\ hn'.sent[i] = k
    BY <1>1, <1>2, <1>4, <1>5 DEF Queued
  <2>2. Chained(i)' <=> C # {}
    BY <1>1, <1>7 DEF Chained
  <2>3. (\E x \in D : x.id = i) => Dropped(i)'
    BY <1>2 DEF Dropped
  <2>4. CASE T = {}
    <3>1. Times(i)' = (IF k = "slot" THEN 1 ELSE 0)
      BY <1>1, <1>2, <1>5, <2>0, <2>4, OtherThreads
    <3> QED BY <1>1, <2>1, <2>2, <2>3, <2>4, <3>1 DEF Settled
  <2>5. CASE T # {}
    <3>1. PICK x : T = {x} /\ x.id = i
      BY <1>1, <2>5
    <3>2. Times(i)' \in {Times(i), Times(i) + 1} /\ Times(i)' > 0
      BY <1>1, <1>2, <2>0, <3>1, OwnThread
    <3>3. Times(i)' <= (IF k = "slot" THEN 2 ELSE 1)
      BY <1>5, <3>2
    <3>4. ~Chained(i)'
      BY <1>1, <2>2, <2>5
    <3> QED BY <2>1, <3>2, <3>3, <3>4 DEF Settled
  <2> QED BY <2>4, <2>5
<1> QED BY <1>2, <1>8, <1>9, <1>10 DEF IndInv

(* A new indication has a number of its own.                               *)
LEMMA IndSent ==
    ASSUME NotifyTypes, IndInv, NEW k \in Indications, NEW b \in BOOLEAN, Len(hn.sent) < MaxInds,
           inds' = Append(inds, [id |-> Len(hn.sent) + 1, kind |-> k, in |-> b]),
           hn'.sent = Append(hn.sent, k), hn'.told = hn.told, hn'.dropped = hn.dropped,
           UNCHANGED <<chains, threads>>
    PROVE  IndInv'
<1>0. PICK S : S = Len(hn.sent)
  OBVIOUS
<1>1. hn.sent \in Seq(Indications) /\ inds \in Seq(IndType)
  BY HistoryFields DEF NotifyTypes
<1>2. /\ S \in Nat /\ S < MaxInds /\ Len(hn'.sent) = S + 1 /\ hn'.sent[S + 1] = k
      /\ \A j \in 1..S : hn'.sent[j] = hn.sent[j]
  BY <1>0, <1>1, AppendProperties, LenProperties
<1> DEFINE L == Len(inds)
<1>3. /\ L \in Nat /\ Len(inds)' = L + 1 /\ inds'[L + 1] = [id |-> S + 1, kind |-> k, in |-> b]
      /\ \A n \in 1..L : inds'[n] = inds[n]
  <2>1. [id |-> S + 1, kind |-> k, in |-> b] \in IndType
    BY <1>2 DEF IndType
  <2> QED BY <1>0, <1>1, <2>1, AppendProperties, LenProperties
<1>4. inds'[L + 1].id = S + 1 /\ inds'[L + 1].kind = k
  BY <1>3
<1>5. L + 1 \in 1..(L + 1) /\ (\A n \in 1..(L + 1) : n \in 1..L \/ n = L + 1) /\ \A n \in 1..L : n \in 1..(L + 1)
  BY <1>3
<1>6. /\ S + 1 \notin 1..S /\ (\A j \in 1..(S + 1) : j \in 1..S \/ j = S + 1)
      /\ S + 1 \in 1..MaxInds /\ S + 1 \in 1..(S + 1) /\ S + 1 <= MaxInds
      /\ \A j \in 1..S : j \in 1..(S + 1)
  BY <1>2, MbimIndAssumption
<1>7. /\ \A n \in 1..L : Known(inds[n].id, inds[n].kind)
      /\ \A m, n \in 1..L : inds[m].id = inds[n].id => m = n
      /\ \A c \in chains : Known(c.id, c.kind)
      /\ \A c, d \in chains : c.id = d.id => c = d
      /\ \A t \in threads : t.id \in 1..S
      /\ \A j \in 1..MaxInds : j > S => hn.told[j] = 0
      /\ \A j \in 1..S : Settled(j)
  BY <1>0 DEF IndInv, ListsInv
<1>8. \A x, y : Known(x, y) => x \in 1..S /\ Known(x, y)'
  BY <1>0, <1>2, <1>6 DEF Known
<1>9. Queued(S + 1)' /\ \A j \in 1..S : Queued(j)' <=> Queued(j)
  <2>1. \A j : Queued(j)' <=> \E n \in 1..(L + 1) : inds'[n].id = j
    BY <1>3 DEF Queued
  <2>2. \A j : Queued(j) <=> \E n \in 1..L : inds[n].id = j
    BY DEF Queued
  <2> HIDE DEF L
  <2> QED BY <1>3, <1>4, <1>5, <1>6, <2>1, <2>2
<1> HIDE DEF L
<1>10. ListsInv'
  <2>1. \A x, y : Known(x, y)' <=> x \in 1..(S + 1) /\ hn'.sent[x] = y
    BY <1>2 DEF Known
  <2>2. Known(S + 1, k)'
    BY <1>2, <1>6, <2>1
  <2>3. \A n \in 1..(L + 1) : inds'[n].id \in 1..(S + 1) /\ hn'.sent[inds'[n].id] = inds'[n].kind
    BY <1>2, <1>3, <1>4, <1>5, <1>6, <1>7, <1>8, <2>1
  <2>4. \A m, n \in 1..(L + 1) : inds'[m].id = inds'[n].id => m = n
    <3>1. \A n \in 1..L : inds[n].id # S + 1
      BY <1>6, <1>7, <1>8
    <3> QED BY <1>3, <1>4, <1>5, <1>7, <3>1
  <2>5. \A t \in threads : t.id \in 1..(S + 1)
    BY <1>6, <1>7
  <2>6. \A j \in 1..MaxInds : j > S + 1 => hn.told[j] = 0
    <3>1. \A j \in 1..MaxInds : j > S + 1 => j > S
      BY <1>2
    <3> QED BY <1>7, <3>1
  <2>7. \A c \in chains : c.id \in 1..(S + 1) /\ hn'.sent[c.id] = c.kind
    BY <1>7, <1>8, <2>1
  <2> QED BY <1>2, <1>3, <1>6, <1>7, <2>1, <2>3, <2>4, <2>5, <2>6, <2>7 DEF ListsInv, Known
<1>11. \A j : Times(j)' = Times(j) /\ (Chained(j)' <=> Chained(j)) /\ (Dropped(j)' <=> Dropped(j))
  BY DEF Times, Due, Chained, Dropped
<1>12. ASSUME NEW j \in 1..S PROVE Settled(j)'
  BY <1>2, <1>7, <1>9, <1>11, SettledStays
<1>13. ASSUME NEW j, j = S + 1 PROVE Settled(j)'
  <2>1. Due(j) = {}
    BY <1>6, <1>7, <1>13 DEF Due
  <2>2. hn.told[j] = 0
    BY <1>2, <1>6, <1>7, <1>13
  <2>3. Times(j)' = 0
    <3>1. Cardinality(Due(j)) = 0
      BY <2>1, FS_EmptySet
    <3>2. Times(j) = 0
      BY <2>2, <3>1 DEF Times
    <3> QED BY <1>11, <3>2
  <2>4. ~Chained(j)'
    BY <1>6, <1>7, <1>8, <1>11, <1>13 DEF Chained
  <2>5. Queued(j)'
    BY <1>9, <1>13
  <2> QED BY <2>3, <2>4, <2>5 DEF Settled
<1>14. \A j \in 1..(S + 1) : Settled(j)'
  BY <1>6, <1>12, <1>13
<1> QED BY <1>2, <1>10, <1>14 DEF IndInv

(* Nothing moves; or deinit() drops what is on its way.                    *)
LEMMA IndStays ==
    ASSUME NotifyTypes, IndInv, UNCHANGED <<chains, threads>>, hn'.sent = hn.sent, hn'.told = hn.told,
           \/ inds' = inds /\ hn'.dropped = hn.dropped
           \/ /\ inds' = <<>>
              /\ hn'.dropped = hn.dropped \cup {[id |-> inds[n].id, why |-> "nodevice"] : n \in DOMAIN inds}
    PROVE  IndInv'
<1>1. /\ \A j : Times(j)' = Times(j) /\ (Chained(j)' <=> Chained(j))
      /\ \A x, y : Known(x, y)' <=> Known(x, y)
  BY DEF Times, Due, Chained, Known
<1>2. ListsInv /\ \A j \in 1..Len(hn.sent) : Settled(j)
  BY DEF IndInv
<1>3. CASE inds' = inds /\ hn'.dropped = hn.dropped
  <2>1. \A j : (Queued(j)' <=> Queued(j)) /\ (Dropped(j)' <=> Dropped(j))
    BY <1>3 DEF Queued, Dropped
  <2>2. ListsInv'
    BY <1>1, <1>2, <1>3 DEF ListsInv
  <2>3. ASSUME NEW j \in 1..Len(hn.sent) PROVE Settled(j)'
    BY <1>1, <1>2, <2>1, SettledStays
  <2> QED BY <2>2, <2>3 DEF IndInv
<1>4. CASE /\ inds' = <<>>
           /\ hn'.dropped = hn.dropped \cup {[id |-> inds[n].id, why |-> "nodevice"] : n \in DOMAIN inds}
  <2>1. Len(inds)' = 0
    BY <1>4
  <2>2. ListsInv'
    BY <1>1, <1>2, <2>1 DEF ListsInv
  <2>3. ASSUME NEW j \in 1..Len(hn.sent) PROVE Settled(j)'
    <3>1. ~Queued(j)'
      BY <2>1 DEF Queued
    <3>2. Dropped(j) \/ Queued(j) => Dropped(j)'
      <4>1. DOMAIN inds = 1..Len(inds)
        BY LenProperties DEF NotifyTypes
      <4>2. ASSUME NEW n \in 1..Len(inds), inds[n].id = j PROVE Dropped(j)'
        <5>1. [id |-> inds[n].id, why |-> "nodevice"] \in hn'.dropped
          BY <1>4, <4>1
        <5> QED BY <4>2, <5>1 DEF Dropped
      <4> QED BY <1>4, <4>2 DEF Dropped, Queued
    <3>3. Settled(j)
      BY <1>2
    <3> QED BY <1>1, <3>1, <3>2, <3>3 DEF Settled
  <2> QED BY <2>2, <2>3 DEF IndInv
<1> QED BY <1>3, <1>4

LEMMA IndRan ==
    ASSUME NotifyTypes, IndInv, NEW t \in threads, NotifyRuns(t)
    PROVE  IndInv'
<1>1. /\ threads' = threads \ {t} /\ UNCHANGED <<inds, chains>>
      /\ hn' = [hn EXCEPT !.told = [hn.told EXCEPT ![t.id] = hn.told[t.id] + 1]]
  BY DEF NotifyRuns
<1>2. /\ hn'.sent = hn.sent /\ hn'.dropped = hn.dropped
      /\ hn'.told = [hn.told EXCEPT ![t.id] = hn.told[t.id] + 1]
  BY <1>1 DEF NotifyTypes, NotifyHistoryType
<1>3. ListsInv /\ \A j \in 1..Len(hn.sent) : Settled(j)
  BY DEF IndInv
<1>4. Len(hn.sent) \in Nat /\ t.id \in 1..Len(hn.sent) /\ Len(hn.sent) <= MaxInds /\ MaxInds \in Nat
  BY <1>3, HistoryFields, LenProperties, MbimIndAssumption DEF NotifyTypes, ListsInv
<1>5. \A j \in 1..Len(hn.sent) : j \in 1..MaxInds
  BY <1>4
<1>6. ListsInv'
  <2>1. \A x, y : Known(x, y)' <=> Known(x, y)
    BY <1>2 DEF Known
  <2>2. \A j \in 1..MaxInds : j > Len(hn.sent) => hn'.told[j] = 0
    <3>1. hn.told \in [1..MaxInds -> Nat]
      BY HistoryFields DEF NotifyTypes
    <3>2. \A j \in 1..MaxInds : j > Len(hn.sent) => j # t.id
      BY <1>4
    <3>3. \A j \in 1..MaxInds : j > Len(hn.sent) => hn'.told[j] = hn.told[j]
      BY <1>2, <3>1, <3>2
    <3> QED BY <1>3, <3>3 DEF ListsInv
  <2> QED BY <1>1, <1>2, <1>3, <2>1, <2>2 DEF ListsInv
<1>7. ASSUME NEW j \in 1..Len(hn.sent) PROVE Settled(j)'
  <2>1. Times(j)' = Times(j)
    BY <1>1, <1>2, <1>4, <1>5, <1>7, ThreadRan
  <2>2. (Queued(j)' <=> Queued(j)) /\ (Chained(j)' <=> Chained(j)) /\ (Dropped(j)' <=> Dropped(j))
    BY <1>1, <1>2 DEF Queued, Chained, Dropped
  <2> QED BY <1>2, <1>3, <2>1, <2>2, SettledStays
<1> QED BY <1>2, <1>6, <1>7 DEF IndInv

LEMMA IndInvInit == Init => IndInv
<1> SUFFICES ASSUME Init PROVE IndInv
  OBVIOUS
<1>1. inds = <<>> /\ chains = {} /\ threads = {} /\ hn.sent = <<>> /\ hn.told = [i \in 1..MaxInds |-> 0]
  BY DEF Init
<1>2. Len(inds) = 0 /\ Len(hn.sent) = 0 /\ 1..0 = {}
  BY <1>1
<1>3. ListsInv
  BY <1>1, <1>2, MbimIndAssumption DEF ListsInv
<1> QED BY <1>2, <1>3 DEF IndInv

LEMMA IndKept ==
    ASSUME NotifyTypes, IndInv, [Next]_vars
    PROVE  IndInv'
<1>0. hn \in NotifyHistoryType
  BY DEF NotifyTypes
<1>1. CASE UNCHANGED notifyVars
  BY <1>1, IndStays DEF notifyVars
<1>2. CASE SubscriberReadyStatus \/ RadioState \/ RegisterState \/ SlotInfoStatus
  BY <1>2, HandlerAdds, IndHandled
<1>3. ASSUME NEW c \in chains, NEW o \in {"go", "fail", "end"}, Answered(c, o) PROVE IndInv'
  BY <1>3, AnsweredGoes, IndGoes
<1>4. CASE SimChanges
  <2>1. /\ inds' = Append(inds, [id |-> Len(hn.sent) + 1, kind |-> "sim", in |-> ~simIn])
        /\ Len(hn.sent) < MaxInds /\ UNCHANGED <<chains, threads>>
        /\ hn' = [hn EXCEPT !.sent = Append(hn.sent, "sim")]
    BY <1>4 DEF SimChanges, Send
  <2>2. hn'.sent = Append(hn.sent, "sim") /\ hn'.told = hn.told /\ hn'.dropped = hn.dropped
    BY <1>0, <2>1 DEF NotifyHistoryType
  <2>3. (~simIn) \in BOOLEAN /\ "sim" \in Indications
    BY DEF Indications
  <2> QED BY <2>1, <2>2, <2>3, IndSent
<1>5. ASSUME NEW k \in IndKinds \ {"sim"}, ModemIndicates(k) PROVE IndInv'
  <2>1. /\ inds' = Append(inds, [id |-> Len(hn.sent) + 1, kind |-> k, in |-> FALSE])
        /\ Len(hn.sent) < MaxInds /\ UNCHANGED <<chains, threads>>
        /\ hn' = [hn EXCEPT !.sent = Append(hn.sent, k)]
    BY <1>5 DEF ModemIndicates, Send
  <2>2. hn'.sent = Append(hn.sent, k) /\ hn'.told = hn.told /\ hn'.dropped = hn.dropped
    BY <1>0, <2>1 DEF NotifyHistoryType
  <2>3. FALSE \in BOOLEAN /\ k \in Indications
    BY MbimIndAssumption DEF Indications
  <2> QED BY <2>1, <2>2, <2>3, IndSent
<1>6. ASSUME NEW t \in threads, NotifyRuns(t) PROVE IndInv'
  BY <1>6, IndRan
<1>7. ASSUME NEW o \in AllOutcomes, RequestCallback(o) PROVE IndInv'
  <2>1. UNCHANGED <<inds, chains, threads>> /\ (hn' = hn \/ hn' = [hn EXCEPT !.unseen = FALSE])
    BY <1>7 DEF RequestCallback
  <2>2. hn'.sent = hn.sent /\ hn'.told = hn.told /\ hn'.dropped = hn.dropped
    BY <1>0, <2>1 DEF NotifyHistoryType
  <2> QED BY <2>1, <2>2, IndStays
<1>8. CASE Deinit
  <2>1. /\ inds' = <<>> /\ UNCHANGED <<chains, threads>>
        /\ hn' = [hn EXCEPT !.dropped = hn.dropped \cup {[id |-> inds[n].id, why |-> "nodevice"] : n \in DOMAIN inds},
                            !.unseen = simIn]
    BY <1>8 DEF Deinit
  <2>2. /\ hn'.sent = hn.sent /\ hn'.told = hn.told
        /\ hn'.dropped = hn.dropped \cup {[id |-> inds[n].id, why |-> "nodevice"] : n \in DOMAIN inds}
    BY <1>0, <2>1 DEF NotifyHistoryType
  <2> QED BY <2>1, <2>2, IndStays
<1>9. CASE UNCHANGED vars
  BY <1>1, <1>9 DEF vars
<1> QED BY <1>1, <1>2, <1>3, <1>4, <1>5, <1>6, <1>7, <1>8, <1>9 DEF Next

LEMMA NotifyAlways == Spec => [](NotifyTypes /\ SimInv /\ IndInv)
<1>1. Init => NotifyTypes /\ SimInv /\ IndInv
  <2>1. Init => SimInv
    <3> SUFFICES ASSUME Init PROVE SimInv
      OBVIOUS
    <3>1. inds = <<>> /\ simIn \in BOOLEAN /\ g_sim_inserted_flag = FALSE /\ hn.unseen = simIn
      BY DEF Init
    <3>2. Len(inds) = 0
      BY <3>1
    <3>3. LastTells
      BY <3>2 DEF LastTells
    <3> QED BY <3>1, <3>3 DEF SimInv
  <2> QED BY <2>1, NotifyTypesInit, IndInvInit
<1>2. (NotifyTypes /\ SimInv /\ IndInv) /\ [Next]_vars => (NotifyTypes /\ SimInv /\ IndInv)'
  BY NotifyTypesKept, SimKept, IndKept
<1> QED BY <1>1, <1>2, PTL DEF Spec

(* With no SIM indication on its way the flag that decides which ones are  *)
(* told agrees with the SIM, however requests and indications interleave,  *)
(* unless nothing has been heard of a SIM that was there from the start,   *)
(* or the last indication of it could not be read.                         *)
THEOREM SimFlagAgreesCorrect == Spec => []SimFlagAgrees
<1>1. NotifyTypes /\ SimInv /\ IndInv => SimFlagAgrees
  <2> SUFFICES ASSUME NotifyTypes, SimInv, \A n \in DOMAIN inds : inds[n].kind # "sim", ~ended
               PROVE  g_sim_inserted_flag = simIn \/ hn.unseen
    BY DEF SimFlagAgrees
  <2>1. NonePending
    BY LenProperties DEF NonePending, NotifyTypes
  <2> QED BY <2>1 DEF SimInv
<1> QED BY <1>1, NotifyAlways, PTL

(* No indication is forgotten, and the watchers are told of it at most     *)
(* once; of a slot indication at most twice.                               *)
THEOREM IndicationAccountedCorrect == Spec => []IndicationAccounted
<1>1. NotifyTypes /\ SimInv /\ IndInv => IndicationAccounted
  <2> SUFFICES ASSUME NotifyTypes, IndInv PROVE IndicationAccounted
    OBVIOUS
  <2>1. DOMAIN hn.sent = 1..Len(hn.sent) /\ DOMAIN inds = 1..Len(inds)
    BY HistoryFields, LenProperties DEF NotifyTypes
  <2>2. ASSUME NEW i \in DOMAIN hn.sent
        PROVE  /\ \/ \E n \in DOMAIN inds : inds[n].id = i
                  \/ \E c \in chains : c.id = i
                  \/ hn.told[i] + Cardinality({t \in threads : t.id = i}) > 0
                  \/ \E d \in hn.dropped : d.id = i
               /\ hn.told[i] + Cardinality({t \in threads : t.id = i}) <= (IF hn.sent[i] = "slot" THEN 2 ELSE 1)
    <3>1. Settled(i)
      BY <2>1 DEF IndInv
    <3>2. Times(i) <= (IF hn.sent[i] = "slot" THEN 2 ELSE 1)
          /\ (Queued(i) \/ Chained(i) \/ Times(i) > 0 \/ Dropped(i))
      BY <3>1 DEF Settled
    <3> QED BY <2>1, <3>2 DEF Queued, Chained, Times, Due, Dropped
  <2> QED BY <2>2 DEF IndicationAccounted
<1> QED BY <1>1, NotifyAlways, PTL
=============================================================================
