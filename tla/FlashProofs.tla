---------------------------- MODULE FlashProofs ----------------------------
(* The verdicts of SwitchFlashMode and FastbootFlash, for any number of    *)
(* calls, restarts of the modem and retries.                               *)
EXTENDS FastbootFlash, TLAPS

-----------------------------------------------------------------------------
(* Types.  The program counters of the two groups of operations.           *)
SwitchPc == {"find", "mode", "look", "arm", "wait", "check"}
PortPc == {"download", "read1", "data", "read2", "flash", "read3", "done"}

Holes == {"missed", "late", "fault"}

Modem == [mode : {"ready", "booting", "download", "dump"}, to : {"ready", "download", "dump"},
          known : BOOLEAN, phase : {"cmd", "data"}, buf : 0..Bad, written : 0..Bad]
CallState == [kind : {"none", "switch", "flash", "erase", "reboot"},
          pc : {"idle", "state", "open", "erase", "reboot"} \cup SwitchPc \cup PortPc,
          n : 0..MaxCalls, left : 0..RetryTimes, blocked : BOOLEAN, early : BOOLEAN,
          refused : BOOLEAN, hole : SUBSET Holes]
Result == [kind : {"none", "switch", "flash", "erase", "reboot", "reset"}, ok : BOOLEAN,
           mode : {"ready", "booting", "download", "dump"}, right : BOOLEAN, early : BOOLEAN,
           refused : BOOLEAN, hole : SUBSET Holes]
Command == [c : {"download", "data", "short", "flash", "erase", "reboot"}, by : 0..MaxCalls]
Answer == {"OKAY", "FAIL", "DATA"}

FlashTypes ==
    /\ modem \in Modem
    /\ wire \in Seq(Command)
    /\ rx \in Seq(Answer)
    /\ port \in {"closed", "open", "dead"}
    /\ mon \in {"off", "on", "add"}
    /\ op \in CallState
    /\ res \in Result
    /\ restarts \in Nat

(* Which operation is at which step, and what it holds there: the port     *)
(* only between OpenPort and Return.                                       *)
FlashControl ==
    /\ (op.kind = "none") = (op.pc = "idle")
    /\ (op.kind = "switch") = (op.pc \in SwitchPc)
    /\ op.pc \in PortPc => op.kind = "flash"
    /\ op.pc \in {"erase", "reboot"} => op.kind = op.pc
    /\ op.pc \in {"idle", "state", "open"} \cup SwitchPc => port = "closed"
    /\ port = "closed" => rx = <<>>
    /\ port = "open" => HasPort
    /\ wire # <<>> => HasPort

LEMMA BoundTypes == Bad \in Nat /\ MaxCalls \in Nat /\ 0..MaxCalls \subseteq 0..Bad
                    /\ RetryTimes \in Nat /\ RetryTimes > 0 /\ MaxRestarts \in Nat
                    /\ 0 \in 0..Bad /\ Bad \in 0..Bad
  BY FlashAssumption DEF Bad

LEMMA EmptyWire == <<>> \in Seq(Command)
  OBVIOUS

LEMMA IdleType == ASSUME NEW n \in 0..MaxCalls PROVE Idle(n) \in CallState
  BY BoundTypes DEF Idle, CallState

LEMMA FlashTypesInit == FlashInit => FlashTypes /\ FlashControl
<1> SUFFICES ASSUME FlashInit PROVE FlashTypes /\ FlashControl
  OBVIOUS
<1>1. modem \in Modem
  <2>1. PICK m \in {"ready", "download"} :
             modem = [mode |-> m, to |-> "ready", known |-> m = "download", phase |-> "cmd",
                      buf |-> 0, written |-> 0]
    BY DEF FlashInit
  <2>2. (m = "download") \in BOOLEAN
    OBVIOUS
  <2> QED BY <2>1, <2>2, BoundTypes DEF Modem
<1>2. op \in CallState /\ res \in Result
  BY <1>1, BoundTypes, IdleType DEF FlashInit, Modem, Result
<1>3. wire \in Seq(Command) /\ rx \in Seq(Answer)
  BY DEF FlashInit
<1> QED BY <1>1, <1>2, <1>3 DEF FlashInit, FlashTypes, FlashControl, Idle, SwitchPc, PortPc

(* A call that returns.                                                    *)
LEMMA ReturnType ==
    ASSUME FlashTypes, NEW ok \in BOOLEAN, Return(ok)
    PROVE  op' \in CallState /\ res' \in Result /\ port' = "closed" /\ rx' = <<>>
           /\ op'.kind = "none" /\ op'.pc = "idle" /\ rx' \in Seq(Answer)
<1>1. op' = Idle(op.n) /\ op.n \in 0..MaxCalls
  BY DEF FlashTypes, Return, CallState
<1>2. op' \in CallState /\ op'.kind = "none" /\ op'.pc = "idle"
  BY <1>1, IdleType DEF Idle
<1>3. (modem.written = op.n) \in BOOLEAN
  OBVIOUS
<1>4. res' \in Result
  BY <1>3 DEF FlashTypes, Return, Modem, CallState, Result
<1> QED BY <1>2, <1>4 DEF Return

LEMMA FailedType ==
    ASSUME FlashTypes, NEW hs \in SUBSET Holes, Failed(hs)
    PROVE  op' \in CallState /\ res' \in Result /\ UNCHANGED <<rx, port>>
           /\ \/ /\ op'.kind = "none" /\ op'.pc = "idle"
                 /\ res'.kind = op.kind /\ ~res'.ok /\ res'.mode = modem.mode
                 /\ res'.hole = op.hole \cup hs
              \/ op'.kind = op.kind /\ op'.pc = "find" /\ res' = res
<1>0. op \in CallState /\ modem \in Modem
  BY DEF FlashTypes
<1>1. CASE op.left > 1
  <2>1. op' = [op EXCEPT !.pc = "find", !.left = @ - 1, !.hole = {}]
        /\ UNCHANGED <<rx, port, res>>
    BY <1>1 DEF Failed
  <2>2. op.left - 1 \in 0..RetryTimes /\ op \in CallState
    BY <1>1, BoundTypes DEF FlashTypes, CallState
  <2> QED BY <2>1, <2>2 DEF FlashTypes, CallState, SwitchPc
<1>2. CASE ~(op.left > 1)
  <2>1. /\ res' = [kind |-> op.kind, ok |-> FALSE, mode |-> modem.mode, right |-> FALSE,
                   early |-> FALSE, refused |-> FALSE, hole |-> op.hole \cup hs]
        /\ op' = Idle(op.n) /\ UNCHANGED <<rx, port>>
    BY <1>2 DEF Failed
  <2>2. op.n \in 0..MaxCalls /\ op.hole \cup hs \in SUBSET Holes
    BY <1>0 DEF CallState
  <2>3. res' \in Result
    BY <1>0, <2>1, <2>2 DEF Modem, CallState, Result
  <2>4. op' \in CallState /\ op'.kind = "none" /\ op'.pc = "idle"
    BY <2>1, <2>2, IdleType DEF Idle
  <2> QED BY <2>1, <2>3, <2>4
<1> QED BY <1>1, <1>2

LEMMA GoType ==
    ASSUME FlashTypes, NEW pc \in {"open"} \cup SwitchPc, Go(pc)
    PROVE  op' \in CallState /\ op'.pc = pc /\ op'.kind = op.kind /\ op'.hole = op.hole
           /\ op'.n = op.n /\ op'.left = op.left
  BY DEF FlashTypes, Go, CallState

(* The three ways a step of the client ends: it returns, an attempt of     *)
(* SwitchFlashMode fails, or it goes on.                                   *)
LEMMA ReturnKept ==
    ASSUME FlashTypes, FlashControl, NEW ok \in BOOLEAN, Return(ok),
           modem' = modem, wire' \in Seq(Command), wire' # <<>> => HasPort, restarts' = restarts,
           mon' \in {"off", "on", "add"}
    PROVE  FlashTypes' /\ FlashControl'
<1>1. FlashTypes'
  BY ReturnType DEF FlashTypes
<1> QED BY <1>1, ReturnType DEF FlashControl, HasPort, SwitchPc, PortPc

LEMMA FailedKept ==
    ASSUME FlashTypes, FlashControl, NEW hs \in SUBSET Holes, Failed(hs), op.pc \in SwitchPc,
           UNCHANGED <<modem, wire, restarts>>, mon' \in {"off", "on", "add"}
    PROVE  FlashTypes' /\ FlashControl'
<1>1. FlashTypes'
  BY FailedType DEF FlashTypes
<1> QED BY <1>1, FailedType DEF FlashControl, HasPort, SwitchPc, PortPc

LEMMA GoKept ==
    ASSUME FlashTypes, FlashControl, NEW pc \in SwitchPc, Go(pc), op.pc \in SwitchPc,
           mon' \in {"off", "on", "add"},
           modem' \in Modem, wire' \in Seq(Command), wire' # <<>> => HasPort', restarts' = restarts
    PROVE  FlashTypes' /\ FlashControl'
<1>1. FlashTypes'
  BY GoType DEF FlashTypes, Go
<1>2. UNCHANGED <<rx, port, res>>
  BY DEF Go
<1> QED BY <1>1, <1>2, GoType DEF FlashControl, SwitchPc, PortPc

LEMMA HoleSets == {} \in SUBSET Holes /\ {"fault"} \in SUBSET Holes /\ {"late"} \in SUBSET Holes
  BY DEF Holes

LEMMA SwitchTypes ==
    ASSUME FlashTypes, FlashControl,
           SwitchFind \/ SwitchMode \/ SwitchLook \/ WaitArm \/ WaitEvent \/ WaitDeadline \/ SwitchCheck
    PROVE  FlashTypes' /\ FlashControl'
<1>0. /\ modem \in Modem /\ wire \in Seq(Command) /\ (wire # <<>> => HasPort) /\ op \in CallState
      /\ mon \in {"off", "on", "add"}
  BY DEF FlashTypes, FlashControl
<1>1. CASE SwitchFind
  BY <1>0, <1>1, FailedKept, GoKept, HoleSets DEF SwitchFind, At, SwitchPc, HasPort
<1>2. CASE SwitchMode
  <2>1. CASE modem.mode = "download" /\ Go("look") /\ UNCHANGED <<modem, wire>>
    BY <1>0, <1>2, <2>1, GoKept DEF SwitchMode, At, SwitchPc, HasPort
  <2>2. CASE Failed({"fault"}) /\ UNCHANGED <<modem, wire>>
    BY <1>0, <1>2, <2>2, FailedKept, HoleSets DEF SwitchMode, At, SwitchPc
  <2>3. CASE /\ modem' = [modem EXCEPT !.mode = "booting", !.to = "download", !.known = FALSE]
             /\ wire' = <<>> /\ Go("look")
    <3>1. modem' \in Modem
      BY <1>0, <2>3 DEF Modem
    <3>2. wire' \in Seq(Command) /\ wire' = <<>>
      BY <2>3
    <3> QED BY <1>0, <1>2, <2>3, <3>1, <3>2, GoKept DEF SwitchMode, At, SwitchPc
  <2> QED BY <1>2, <2>1, <2>2, <2>3 DEF SwitchMode
<1>3. CASE SwitchLook
  <2>1. CASE Go(IF modem.known THEN "check" ELSE "arm")
    BY <1>0, <1>3, <2>1, GoKept DEF SwitchLook, At, SwitchPc, HasPort
  <2>2. CASE op' = [op EXCEPT !.pc = "arm", !.hole = @ \cup {"fault"}] /\ UNCHANGED <<rx, port, res>>
    <3>1. op' \in CallState /\ op'.pc = "arm" /\ op'.kind = op.kind
      BY <1>0, <2>2 DEF CallState, SwitchPc, Holes
    <3>2. FlashTypes'
      BY <1>3, <2>2, <3>1 DEF FlashTypes, SwitchLook
    <3> QED BY <1>3, <2>2, <3>1, <3>2 DEF FlashControl, SwitchLook, At, SwitchPc, PortPc, HasPort
  <2> QED BY <1>3, <2>1, <2>2 DEF SwitchLook
<1>4. CASE WaitArm
  BY <1>0, <1>4, FailedKept, GoKept, HoleSets DEF WaitArm, At, SwitchPc, HasPort
<1>5. CASE WaitEvent
  BY <1>0, <1>5, GoKept DEF WaitEvent, At, SwitchPc, HasPort
<1>6. CASE WaitDeadline
  BY <1>0, <1>6, FailedKept, HoleSets DEF WaitDeadline, At, SwitchPc
<1>7. CASE SwitchCheck
  BY <1>0, <1>7, FailedKept, ReturnKept, HoleSets DEF SwitchCheck, At, SwitchPc
<1> QED BY <1>1, <1>2, <1>3, <1>4, <1>5, <1>6, <1>7

(* A write that is done.                                                   *)
LEMMA WriteDoneTypes ==
    ASSUME FlashTypes, FlashControl, op.pc \in Writes, port = "open", WriteDone
    PROVE  FlashTypes' /\ FlashControl'
<1>0. /\ modem \in Modem /\ wire \in Seq(Command) /\ op \in CallState /\ rx \in Seq(Answer)
      /\ HasPort /\ mon \in {"off", "on", "add"}
  BY DEF FlashTypes, FlashControl
<1>1. PICK c \in IF At("data") THEN {"data", "short"} ELSE {op.pc} : wire' = Append(wire, Item(c))
  BY DEF WriteDone
<1>2. Item(c) \in Command
  BY <1>0, <1>1 DEF Item, Command, CallState, At, Writes
<1>3. wire' \in Seq(Command) /\ UNCHANGED <<modem, mon, restarts>>
  BY <1>0, <1>1, <1>2 DEF WriteDone
<1>4. CASE Return(TRUE)
  BY <1>0, <1>3, <1>4, ReturnKept
<1>5. CASE /\ op.kind = "flash" /\ op' = [op EXCEPT !.pc = After(@), !.blocked = FALSE]
           /\ UNCHANGED <<rx, port, res>>
  <2>1. op.pc \in {"download", "data", "flash"}
    BY <1>5 DEF Writes, FlashControl
  <2>2. op' \in CallState /\ op'.kind = op.kind /\ op'.pc \in PortPc /\ op.pc \in PortPc
    BY <1>0, <1>5, <2>1 DEF CallState, After, PortPc
  <2>3. FlashTypes'
    BY <1>0, <1>3, <1>5, <2>2 DEF FlashTypes
  <2> QED BY <1>0, <1>3, <1>5, <2>2, <2>3 DEF FlashControl, SwitchPc, PortPc, HasPort
<1> QED BY <1>4, <1>5 DEF WriteDone

LEMMA PortTypes ==
    ASSUME FlashTypes, FlashControl,
           GetModemState \/ OpenPort \/ FlashWrite \/ ModemRoom \/ ReadWithTimeout \/ FlashDone
    PROVE  FlashTypes' /\ FlashControl'
<1>0. /\ modem \in Modem /\ wire \in Seq(Command) /\ (wire # <<>> => HasPort) /\ op \in CallState
      /\ rx \in Seq(Answer) /\ mon \in {"off", "on", "add"}
  BY DEF FlashTypes, FlashControl
<1>1. CASE GetModemState
  <2>1. CASE modem.mode = "download" /\ Go("open")
    <3>1. Go("open") /\ op.pc = "state"
      BY <1>1, <2>1 DEF GetModemState, At
    <3>2. op'.pc = "open" /\ op'.kind = op.kind /\ FlashTypes'
      BY <1>1, <3>1, GoType DEF GetModemState, FlashTypes, Go
    <3> QED BY <1>1, <3>1, <3>2 DEF GetModemState, Go, FlashControl, SwitchPc, PortPc, HasPort
  <2>2. CASE Return(FALSE)
    BY <1>0, <1>1, <2>2, ReturnKept DEF GetModemState
  <2> QED BY <1>1, <2>1, <2>2 DEF GetModemState
<1>2. CASE OpenPort
  <2>1. CASE Return(FALSE)
    BY <1>0, <1>2, <2>1, ReturnKept DEF OpenPort
  <2>2. CASE /\ HasPort /\ port' = "open" /\ rx' = <<>>
             /\ op' = [op EXCEPT !.pc = IF op.kind = "flash" THEN "download" ELSE op.kind,
                                 !.early = wire # <<>>]
             /\ UNCHANGED res
    <3>1. op.kind \in {"flash", "erase", "reboot"} /\ (wire # <<>>) \in BOOLEAN
      BY <1>0, <1>2 DEF OpenPort, At, FlashControl, CallState, SwitchPc
    <3>2. op' \in CallState /\ op'.kind = op.kind
          /\ op'.pc = IF op.kind = "flash" THEN "download" ELSE op.kind
      BY <1>0, <2>2, <3>1 DEF CallState, PortPc
    <3>3. FlashTypes'
      BY <1>2, <2>2, <3>2 DEF FlashTypes, OpenPort
    <3> QED BY <1>2, <2>2, <3>1, <3>2, <3>3
            DEF OpenPort, FlashControl, At, SwitchPc, PortPc, HasPort
  <2> QED BY <1>2, <2>1, <2>2 DEF OpenPort
<1>3. CASE FlashWrite
  <2>1. CASE Return(FALSE) /\ UNCHANGED <<modem, wire, mon, restarts>>
    BY <1>0, <2>1, ReturnKept
  <2>2. CASE /\ port = "open" /\ wire' = Append(wire, Item("short")) /\ Return(FALSE)
             /\ UNCHANGED <<modem, mon, restarts>>
    <3>1. wire' \in Seq(Command) /\ HasPort
      BY <1>0, <2>2 DEF FlashControl, Item, Command, CallState
    <3> QED BY <1>0, <2>2, <3>1, ReturnKept
  <2>3. CASE /\ op' = [op EXCEPT !.blocked = TRUE]
             /\ UNCHANGED <<modem, wire, rx, port, mon, res, restarts>>
    <3>1. op' \in CallState /\ op'.kind = op.kind /\ op'.pc = op.pc
      BY <1>0, <2>3 DEF CallState
    <3>2. FlashTypes'
      BY <2>3, <3>1 DEF FlashTypes
    <3> QED BY <2>3, <3>1, <3>2 DEF FlashControl, HasPort
  <2>4. CASE port = "open" /\ WriteDone
    BY <1>3, <2>4, WriteDoneTypes DEF FlashWrite
  <2> QED BY <1>3, <2>1, <2>2, <2>3, <2>4 DEF FlashWrite
<1>4. CASE ReadWithTimeout
  <2>1. CASE rx = <<>> /\ Return(FALSE)
    BY <1>0, <1>4, <2>1, ReturnKept DEF ReadWithTimeout
  <2>2. CASE /\ rx # <<>> /\ rx' = Tail(rx)
             /\ op' = [op EXCEPT !.pc = After(@), !.refused = @ \/ Head(rx) = "FAIL"]
             /\ UNCHANGED <<port, res>>
    <3>1. op' \in CallState /\ op'.kind = op.kind /\ op'.pc \in PortPc /\ op.pc \in PortPc
      <4>1. (op.refused \/ Head(rx) = "FAIL") \in BOOLEAN
        BY <1>0 DEF CallState
      <4> QED BY <1>0, <1>4, <2>2, <4>1 DEF ReadWithTimeout, CallState, After, PortPc
    <3>2. FlashTypes'
      BY <1>0, <1>4, <2>2, <3>1 DEF FlashTypes, ReadWithTimeout
    <3> QED BY <1>4, <2>2, <3>1, <3>2 DEF ReadWithTimeout, FlashControl, SwitchPc, PortPc, HasPort
  <2> QED BY <1>4, <2>1, <2>2 DEF ReadWithTimeout
<1>5. CASE FlashDone
  BY <1>0, <1>5, ReturnKept DEF FlashDone
<1>6. CASE ModemRoom
  BY <1>6, WriteDoneTypes DEF ModemRoom
<1> QED BY <1>1, <1>2, <1>3, <1>4, <1>5, <1>6

(* The modem's own steps change neither the call nor its result.           *)
LEMMA ModemKept ==
    ASSUME FlashTypes, FlashControl, modem' \in Modem, wire' \in Seq(Command),
           rx' \in Seq(Answer), port' \in {port} \cup (IF port = "open" THEN {"dead"} ELSE {}),
           port' = "closed" => rx' = <<>>, port' = "open" => HasPort', wire' # <<>> => HasPort',
           UNCHANGED <<mon, op, res>>, restarts' \in Nat
    PROVE  FlashTypes' /\ FlashControl'
<1>1. FlashTypes'
  BY DEF FlashTypes
<1> QED BY <1>1 DEF FlashControl, FlashTypes, SwitchPc, PortPc

LEMMA ModemTypes ==
    ASSUME FlashTypes, FlashControl, ModemRestarts \/ ModemBoots \/ UdevAdds \/ ModemTakes
    PROVE  FlashTypes' /\ FlashControl'
<1>0. /\ modem \in Modem /\ wire \in Seq(Command) /\ op \in CallState /\ rx \in Seq(Answer)
      /\ port \in {"closed", "open", "dead"} /\ mon \in {"off", "on", "add"} /\ restarts \in Nat
  BY DEF FlashTypes
<1>1. CASE ModemRestarts
  <2>1. PICK to \in {"ready", "dump"} : Vanish([modem EXCEPT !.to = to])
    BY <1>1 DEF ModemRestarts
  <2>2. modem' \in Modem
    BY <1>0, <2>1 DEF Vanish, Modem
  <2>3. port' = (IF port = "open" THEN "dead" ELSE port) /\ wire' = <<>>
    BY <2>1 DEF Vanish
  <2> QED BY <1>0, EmptyWire, <1>1, <2>2, <2>3, ModemKept DEF ModemRestarts, FlashControl
<1>2. CASE ModemBoots
  <2>1. modem' \in Modem
    <3>1. modem.to \in {"ready", "download", "dump"}
      BY <1>0 DEF Modem
    <3> QED BY <1>0, <1>2, <3>1, BoundTypes DEF ModemBoots, Modem
  <2>2. port # "open" /\ wire = <<>>
    BY <1>2 DEF ModemBoots, FlashControl, HasPort
  <2> QED BY <1>0, <1>2, <2>1, <2>2, ModemKept DEF ModemBoots, FlashControl
<1>4. CASE UdevAdds
  <2>1. modem' \in Modem /\ modem'.mode = modem.mode
    BY <1>0, <1>4 DEF UdevAdds, Modem
  <2>2. op' \in CallState /\ op'.pc = op.pc /\ op'.kind = op.kind
    BY <1>0, <1>4 DEF UdevAdds, CallState, Holes
  <2>3. FlashTypes'
    BY <1>0, <1>4, <2>1, <2>2 DEF UdevAdds, FlashTypes
  <2> QED BY <1>4, <2>1, <2>2, <2>3 DEF UdevAdds, FlashControl, HasPort
<1>3. CASE ModemTakes
  <2> DEFINE it == Head(wire)
             whole == [modem EXCEPT !.phase = "cmd", !.buf = IF it.c = "data" /\ @ = 0 THEN it.by ELSE Bad]
  <2>0. it \in Command /\ Tail(wire) \in Seq(Command) /\ wire # <<>> /\ HasPort
    BY <1>0, <1>3 DEF ModemTakes, FlashControl
  <2>1. ASSUME NEW m \in Modem, m.mode = modem.mode, NEW a \in Answer \cup {"none"}, Takes(m, a),
               wire' = Tail(wire), UNCHANGED port
        PROVE  FlashTypes' /\ FlashControl'
    <3>1. rx' \in Seq(Answer) /\ (port = "closed" => rx' = rx)
      BY <1>0, <2>1 DEF Takes, Answer
    <3>2. modem' = m /\ HasPort'
      BY <2>0, <2>1 DEF Takes, HasPort
    <3> QED BY <1>0, <1>3, <2>0, <2>1, <3>1, <3>2, ModemKept DEF ModemTakes, FlashControl
  <2>2. ASSUME Vanish([modem EXCEPT !.to = "ready"]), UNCHANGED rx
        PROVE  FlashTypes' /\ FlashControl'
    <3>1. modem' \in Modem
      BY <1>0, <2>2 DEF Vanish, Modem
    <3>2. port' = (IF port = "open" THEN "dead" ELSE port) /\ wire' = <<>>
      BY <2>2 DEF Vanish
    <3> QED BY <1>0, EmptyWire, <1>3, <2>2, <3>1, <3>2, ModemKept DEF ModemTakes, FlashControl
  <2>3. whole \in Modem /\ whole.mode = modem.mode
    <3>1. (IF it.c = "data" /\ modem.buf = 0 THEN it.by ELSE Bad) \in 0..Bad
      BY <2>0, BoundTypes DEF Command
    <3> QED BY <1>0, <3>1 DEF Modem
  <2>4. ASSUME NEW b \in 0..Bad
        PROVE  /\ [modem EXCEPT !.buf = b] \in Modem
               /\ [modem EXCEPT !.phase = "data", !.buf = b] \in Modem
               /\ [modem EXCEPT !.written = b] \in Modem
    <3>1. [modem EXCEPT !.buf = b] \in Modem
      BY <1>0, <2>4 DEF Modem
    <3>2. [modem EXCEPT !.phase = "data", !.buf = b] \in Modem
      BY <1>0, <2>4 DEF Modem
    <3>3. [modem EXCEPT !.written = b] \in Modem
      BY <1>0, <2>4 DEF Modem
    <3> QED BY <3>1, <3>2, <3>3
  <2>5. modem.buf \in 0..Bad
    BY <1>0 DEF Modem
  <2>6. \/ \E m \in {modem, whole, [modem EXCEPT !.buf = Bad], [modem EXCEPT !.phase = "data", !.buf = 0],
                     [modem EXCEPT !.written = modem.buf], [modem EXCEPT !.written = 0]} :
             \E a \in Answer \cup {"none"} : Takes(m, a) /\ wire' = Tail(wire) /\ UNCHANGED port
        \/ Vanish([modem EXCEPT !.to = "ready"]) /\ UNCHANGED rx
    BY <1>3 DEF ModemTakes, Answer
  <2>7. ASSUME NEW m \in {modem, whole, [modem EXCEPT !.buf = Bad], [modem EXCEPT !.phase = "data", !.buf = 0],
                     [modem EXCEPT !.written = modem.buf], [modem EXCEPT !.written = 0]}
        PROVE  m \in Modem /\ m.mode = modem.mode
    <3>1. m \in Modem
      BY <1>0, <2>3, <2>4, <2>5, BoundTypes
    <3> HIDE DEF whole
    <3>2. m.mode = modem.mode
      BY <1>0, <2>3 DEF Modem
    <3> QED BY <3>1, <3>2
  <2> QED BY <2>1, <2>2, <2>6, <2>7
<1> QED BY <1>1, <1>2, <1>3, <1>4

LEMMA CallTypes ==
    ASSUME FlashTypes, FlashControl,
           SwitchFlashMode \/ FastbootFlash \/ FastbootErase \/ FastbootReboot \/ PcieReset
    PROVE  FlashTypes' /\ FlashControl'
<1>0. op \in CallState /\ modem \in Modem /\ wire \in Seq(Command)
  BY DEF FlashTypes
<1>1. ASSUME NEW k \in {"switch", "flash", "erase", "reboot"}, NEW pc \in {"find", "state"}, Call(k, pc),
             (k = "switch") = (pc = "find")
      PROVE  FlashTypes' /\ FlashControl'
  <2>1. op.n + 1 \in 0..MaxCalls /\ RetryTimes \in 0..RetryTimes
    BY <1>0, <1>1, BoundTypes DEF Call, CallState
  <2>2. op' \in CallState /\ op'.kind = k /\ op'.pc = pc
    BY <1>1, <2>1 DEF Call, Idle, CallState, SwitchPc
  <2>3. FlashTypes'
    BY <1>1, <2>2 DEF Call, FlashTypes
  <2> QED BY <1>1, <2>2, <2>3 DEF Call, FlashControl, HasPort, SwitchPc, PortPc
<1>2. CASE PcieReset
  <2>1. op.n + 1 \in 0..MaxCalls
    BY <1>0, <1>2, BoundTypes DEF PcieReset, CallState
  <2>2. op' \in CallState /\ op'.kind = "none" /\ op'.pc = "idle"
    BY <1>2, <2>1, IdleType DEF PcieReset, Idle
  <2>3. res' \in Result
    BY <1>0, <1>2 DEF PcieReset, Result, Modem
  <2>4. modem' \in Modem
    BY <1>0, <1>2 DEF PcieReset, Vanish, Modem
  <2>5. wire' \in Seq(Command) /\ (wire' = <<>> \/ UNCHANGED <<modem, wire>>)
    BY <1>0, <1>2, EmptyWire DEF PcieReset, Vanish
  <2>6. port = "closed" /\ port' = port /\ rx' = rx /\ mon' = mon /\ op.pc = "idle"
    BY <1>2 DEF PcieReset, Vanish, FlashControl
  <2>7. FlashTypes'
    BY <1>2, <2>2, <2>3, <2>4, <2>5, <2>6 DEF PcieReset, FlashTypes
  <2> QED BY <1>2, <2>2, <2>5, <2>6, <2>7 DEF FlashControl, HasPort, SwitchPc, PortPc
<1> QED BY <1>1, <1>2 DEF SwitchFlashMode, FastbootFlash, FastbootErase, FastbootReboot

LEMMA FlashTypesNext == FlashTypes /\ FlashControl /\ FlashNext => FlashTypes' /\ FlashControl'
  BY SwitchTypes, PortTypes, ModemTypes, CallTypes DEF FlashNext, Client

-----------------------------------------------------------------------------
(* SwitchFlashMode.  Before the monitor listens, a port that udev has      *)
(* announced is one that was missed, or could not be looked for; later it  *)
(* is that or has been heard of.                                           *)
SwitchProgress ==
    /\ op.pc = "arm" /\ modem.known => op.hole # {}
    /\ op.pc = "wait" => mon \in {"on", "add"}
    /\ op.pc = "wait" /\ modem.known => op.hole # {} \/ mon = "add"

(* A call that returns without having been at its end says so.             *)
LEMMA ReturnVerdict ==
    ASSUME FlashTypes, NEW ok \in BOOLEAN, Return(ok)
    PROVE  /\ res'.kind = op.kind /\ res'.ok = ok /\ res'.mode = modem.mode
           /\ res'.hole = op.hole /\ res'.right = (modem.written = op.n)
           /\ res'.early = op.early /\ res'.refused = op.refused
           /\ op'.pc = "idle"
  BY DEF Return, Idle

LEMMA FailedVerdict ==
    ASSUME FlashTypes, FlashControl, SwitchVerdict, NEW hs \in SUBSET Holes, Failed(hs),
           op.pc \in SwitchPc, modem.mode = "download" => op.hole # {} \/ hs # {}
    PROVE  SwitchProgress' /\ SwitchVerdict'
<1>1. CASE op'.kind = op.kind /\ op'.pc = "find" /\ res' = res
  BY <1>1 DEF SwitchVerdict, SwitchProgress
<1>2. CASE /\ op'.pc = "idle" /\ res'.kind = op.kind /\ ~res'.ok /\ res'.mode = modem.mode
           /\ res'.hole = op.hole \cup hs
  BY <1>2 DEF SwitchVerdict, SwitchProgress
<1> QED BY <1>1, <1>2, FailedType

LEMMA SwitchVerdictClient ==
    ASSUME FlashTypes, FlashControl, SwitchProgress, SwitchVerdict,
           SwitchFind \/ SwitchMode \/ SwitchLook \/ WaitArm \/ WaitEvent \/ WaitDeadline \/ SwitchCheck
    PROVE  SwitchProgress' /\ SwitchVerdict'
<1>0. op \in CallState /\ mon \in {"off", "on", "add"}
  BY DEF FlashTypes
<1>1. CASE SwitchFind
  <2>1. CASE Go("mode")
    BY <2>1, GoType DEF Go, SwitchProgress, SwitchVerdict, SwitchPc
  <2>2. CASE Failed(IF modem.mode = "booting" THEN {} ELSE {"fault"})
    BY <1>1, <2>2, FailedVerdict, HoleSets DEF SwitchFind, At, SwitchPc
  <2> QED BY <1>1, <2>1, <2>2 DEF SwitchFind
<1>2. CASE SwitchMode
  <2>1. CASE Go("look")
    BY <2>1, GoType DEF Go, SwitchProgress, SwitchVerdict, SwitchPc
  <2>2. CASE Failed({"fault"})
    BY <1>2, <2>2, FailedVerdict, HoleSets DEF SwitchMode, At, SwitchPc
  <2> QED BY <1>2, <2>1, <2>2 DEF SwitchMode
<1>3. CASE SwitchLook
  <2>1. CASE Go(IF modem.known THEN "check" ELSE "arm")
    BY <1>3, <2>1, GoType DEF SwitchLook, Go, SwitchProgress, SwitchVerdict, SwitchPc
  <2>2. CASE op' = [op EXCEPT !.pc = "arm", !.hole = @ \cup {"fault"}] /\ UNCHANGED <<rx, port, res>>
    <3>1. op'.pc = "arm" /\ op'.hole # {}
      BY <1>0, <2>2 DEF CallState
    <3> QED BY <2>2, <3>1 DEF SwitchProgress, SwitchVerdict
  <2> QED BY <1>3, <2>1, <2>2 DEF SwitchLook
<1>4. CASE WaitArm
  <2>1. CASE Failed({"fault"})
    BY <1>4, <2>1, FailedVerdict, HoleSets DEF WaitArm, At, SwitchPc
  <2>2. CASE Go("wait") /\ mon' = "on"
    BY <1>4, <2>2, GoType DEF WaitArm, Go, At, SwitchProgress, SwitchVerdict, SwitchPc
  <2> QED BY <1>4, <2>1, <2>2 DEF WaitArm
<1>5. CASE WaitEvent
  BY <1>5, GoType DEF WaitEvent, Go, SwitchProgress, SwitchVerdict, SwitchPc
<1>6. CASE WaitDeadline
  <2>1. op.hole # {} \/ (IF mon = "add" \/ ~modem.known THEN {"late"} ELSE {}) # {}
    BY <1>6 DEF WaitDeadline, At, SwitchProgress
  <2> QED BY <1>6, <2>1, FailedVerdict, HoleSets DEF WaitDeadline, At, SwitchPc
<1>7. CASE SwitchCheck
  <2>1. CASE modem.mode = "download" /\ Return(TRUE)
    BY <2>1, ReturnVerdict DEF SwitchProgress, SwitchVerdict
  <2>2. CASE Failed(IF modem.mode = "download" THEN {"fault"} ELSE {})
    BY <1>7, <2>2, FailedVerdict, HoleSets DEF SwitchCheck, At, SwitchPc
  <2> QED BY <1>7, <2>1, <2>2 DEF SwitchCheck
<1> QED BY <1>1, <1>2, <1>3, <1>4, <1>5, <1>6, <1>7

LEMMA SwitchVerdictPort ==
    ASSUME FlashTypes, FlashControl, SwitchProgress, SwitchVerdict,
           GetModemState \/ OpenPort \/ FlashWrite \/ ModemRoom \/ ReadWithTimeout \/ FlashDone
    PROVE  SwitchProgress' /\ SwitchVerdict'
<1>0. op.pc \notin SwitchPc /\ op.kind # "switch" /\ op \in CallState
  BY DEF GetModemState, OpenPort, FlashWrite, ModemRoom, ReadWithTimeout, FlashDone, At, Writes,
         FlashControl, FlashTypes, SwitchPc
<1>1. \/ Return(FALSE) \/ Return(TRUE)
      \/ res' = res /\ op'.pc \in {"open", "erase", "reboot"} \cup PortPc
  <2>1. CASE GetModemState
    BY <2>1, GoType DEF GetModemState, Go
  <2>2. CASE OpenPort
    <3>1. op.kind \in {"flash", "erase", "reboot"}
      BY <1>0, <2>2 DEF OpenPort, At, FlashControl, CallState
    <3> QED BY <1>0, <2>2, <3>1 DEF OpenPort, CallState, PortPc
  <2>3. CASE op.pc \in Writes /\ WriteDone
    <3>1. op.kind = "flash" => op.pc \in {"download", "data", "flash"}
      BY <2>3 DEF Writes, FlashControl
    <3> QED BY <1>0, <2>3, <3>1 DEF WriteDone, After, CallState, PortPc
  <2>4. CASE FlashWrite /\ ~WriteDone
    BY <1>0, <2>4 DEF FlashWrite, Writes, CallState, PortPc
  <2>5. CASE ReadWithTimeout
    BY <1>0, <2>5 DEF ReadWithTimeout, After, CallState, PortPc
  <2> QED BY <2>1, <2>2, <2>3, <2>4, <2>5 DEF FlashDone, ModemRoom, FlashWrite
<1>2. ASSUME NEW ok \in BOOLEAN, Return(ok) PROVE SwitchProgress' /\ SwitchVerdict'
  BY <1>0, <1>2, ReturnVerdict DEF SwitchProgress, SwitchVerdict
<1> QED BY <1>1, <1>2 DEF SwitchProgress, SwitchVerdict, PortPc

LEMMA SwitchVerdictOther ==
    ASSUME FlashTypes, FlashControl, SwitchProgress, SwitchVerdict,
           \/ SwitchFlashMode \/ FastbootFlash \/ FastbootErase \/ FastbootReboot \/ PcieReset
           \/ ModemRestarts \/ ModemBoots \/ UdevAdds \/ ModemTakes
    PROVE  SwitchProgress' /\ SwitchVerdict'
<1>0. op \in CallState /\ modem \in Modem /\ mon \in {"off", "on", "add"}
  BY DEF FlashTypes
<1>1. ASSUME NEW k, NEW pc \in {"find", "state"}, Call(k, pc) PROVE SwitchProgress' /\ SwitchVerdict'
  <2>1. op'.pc = pc /\ res' = res
    BY <1>1 DEF Call, Idle
  <2> QED BY <2>1 DEF SwitchProgress, SwitchVerdict
<1>2. CASE PcieReset
  <2>1. op'.pc = "idle" /\ res'.kind = "reset"
    BY <1>2 DEF PcieReset, Idle
  <2> QED BY <2>1 DEF SwitchProgress, SwitchVerdict
<1>3. ASSUME UNCHANGED <<op, mon, res>>, modem'.known => modem.known
      PROVE  SwitchProgress' /\ SwitchVerdict'
  BY <1>3 DEF SwitchProgress, SwitchVerdict
<1>4. CASE ModemRestarts \/ ModemBoots
  <2>1. modem'.known => modem.known
    BY <1>0, <1>4 DEF ModemRestarts, ModemBoots, Vanish, Modem
  <2> QED BY <1>3, <1>4, <2>1 DEF ModemRestarts, ModemBoots
<1>5. CASE ModemTakes
  <2>1. modem'.known => modem.known
    BY <1>0, <1>5 DEF ModemTakes, Takes, Vanish, Modem
  <2> QED BY <1>3, <1>5, <2>1 DEF ModemTakes
<1>6. CASE UdevAdds
  <2>1. op'.pc = op.pc /\ res' = res /\ (op.hole # {} => op'.hole # {})
        /\ (op.pc = "arm" => op'.hole # {})
    BY <1>0, <1>6 DEF UdevAdds, CallState
  <2>2. mon' = IF mon = "on" THEN "add" ELSE mon
    BY <1>6 DEF UdevAdds
  <2> QED BY <2>1, <2>2 DEF SwitchProgress, SwitchVerdict
<1> QED BY <1>1, <1>2, <1>4, <1>5, <1>6
        DEF SwitchFlashMode, FastbootFlash, FastbootErase, FastbootReboot

-----------------------------------------------------------------------------
(* FastbootFlash.  A Flash that found nothing owed to an earlier command   *)
(* and has not been refused so far has at most one answer outstanding:     *)
(* its last command is on the wire, or taken without an answer, or its     *)
(* answer is there, and then the modem is where that answer says.          *)
Nothing == wire = <<>> /\ rx = <<>>
Asked(c) == wire = <<Item(c)>> /\ rx = <<>>
Told(a) == wire = <<>> /\ rx = <<a>>
Loaded == modem.phase = "cmd" /\ modem.buf = op.n

Clean == op.pc \in PortPc /\ ~op.early /\ ~op.refused

FlashProgress ==
    /\ op.pc \in PortPc => port # "closed"
    /\ Clean =>
        /\ port = "dead" => wire = <<>>
        /\ op.pc = "download" => Nothing
        /\ op.pc = "read1" =>
             \/ Nothing \/ Asked("download") \/ Told("FAIL")
             \/ Told("DATA") /\ (port = "open" => modem.phase = "data" /\ modem.buf = 0)
             \/ Told("OKAY") /\ (port = "open" => modem.phase = "cmd")
        /\ op.pc = "data" => Nothing /\ (port = "open" => modem.phase = "cmd" \/ modem.buf = 0)
        /\ op.pc = "read2" =>
             \/ Nothing \/ Told("FAIL")
             \/ (Asked("data") \/ Asked("short")) /\ (modem.phase = "cmd" \/ modem.buf = 0)
             \/ Told("OKAY") /\ (port = "open" => Loaded)
        /\ op.pc = "flash" => Nothing /\ (port = "open" => Loaded)
        /\ op.pc = "read3" =>
             \/ Nothing \/ Told("FAIL")
             \/ Asked("flash") /\ Loaded
             \/ Told("OKAY") /\ modem.written = op.n
        /\ op.pc = "done" => Nothing /\ modem.written = op.n

(* Outside of a Flash, nothing is claimed.                                 *)
LEMMA NoFlash ==
    ASSUME op'.pc \notin PortPc, res' = res, FlashVerdict
    PROVE  FlashProgress' /\ FlashVerdict'
  BY DEF FlashProgress, FlashVerdict, Clean

LEMMA FlashReturn ==
    ASSUME FlashTypes, FlashVerdict, NEW ok \in BOOLEAN, Return(ok),
           op.kind = "flash" /\ ok => modem.written = op.n \/ op.refused \/ op.early
    PROVE  FlashProgress' /\ FlashVerdict'
  BY ReturnVerdict DEF FlashProgress, FlashVerdict, Clean, PortPc

LEMMA FlashVerdictWrite ==
    ASSUME FlashTypes, FlashControl, FlashProgress, FlashVerdict,
           op.pc \in Writes, port = "open", WriteDone
    PROVE  FlashProgress' /\ FlashVerdict'
<1>0. op \in CallState /\ modem \in Modem /\ rx \in Seq(Answer)
  BY DEF FlashTypes
<1>1. CASE op.kind # "flash" /\ Return(TRUE)
  BY <1>1, FlashReturn
<1>2. CASE /\ op.kind = "flash" /\ op' = [op EXCEPT !.pc = After(@), !.blocked = FALSE]
           /\ UNCHANGED <<rx, port, res>>
  <2>1. PICK c \in IF At("data") THEN {"data", "short"} ELSE {op.pc} : wire' = Append(wire, Item(c))
    BY DEF WriteDone
  <2>2. /\ op'.early = op.early /\ op'.refused = op.refused /\ op'.n = op.n
        /\ op.pc \in {"download", "data", "flash"} /\ modem' = modem
        /\ op'.pc = (IF op.pc = "download" THEN "read1" ELSE IF op.pc = "data" THEN "read2" ELSE "read3")
    <3>1. op.pc \in {"download", "data", "flash"} /\ modem' = modem
      BY <1>2 DEF WriteDone, Writes, FlashControl
    <3>2. /\ op'.pc = After(op.pc) /\ op'.early = op.early /\ op'.refused = op.refused
          /\ op'.n = op.n
      BY <1>0, <1>2 DEF CallState
    <3> QED BY <3>1, <3>2 DEF After
  <2>3. Clean => wire' = <<Item(c)>> /\ rx = <<>>
    <3>1. Clean => Nothing
      BY <2>2 DEF FlashProgress
    <3>2. wire = <<>> => wire' = <<Item(c)>>
      BY <2>1
    <3> QED BY <3>1, <3>2 DEF Nothing
  <2>4. Clean' = Clean
    BY <2>2 DEF Clean, PortPc
  <2>5. Clean => Asked(c)'
    <3>1. Item(c)' = Item(c)
      BY <2>2 DEF Item
    <3> QED BY <1>2, <2>3, <3>1 DEF Asked
  <2> QED BY <1>2, <2>1, <2>2, <2>4, <2>5 DEF FlashProgress, FlashVerdict, Loaded, At, PortPc
<1> QED BY <1>1, <1>2 DEF WriteDone

LEMMA FlashVerdictClient ==
    ASSUME FlashTypes, FlashControl, FlashProgress, FlashVerdict, Client
    PROVE  FlashProgress' /\ FlashVerdict'
<1>0. op \in CallState /\ modem \in Modem /\ rx \in Seq(Answer)
  BY DEF FlashTypes
<1>1. CASE SwitchFind \/ SwitchMode \/ SwitchLook \/ WaitArm \/ WaitEvent \/ WaitDeadline \/ SwitchCheck
  <2>1. op.kind = "switch"
    BY <1>1 DEF SwitchFind, SwitchMode, SwitchLook, WaitArm, WaitEvent, WaitDeadline, SwitchCheck, At,
                FlashControl, SwitchPc
  <2>2. \/ \E ok \in BOOLEAN : Return(ok)
        \/ op'.pc \in SwitchPc /\ res' = res
        \/ op'.pc = "idle" /\ res'.kind = "switch"
    <3>1. ASSUME NEW hs \in SUBSET Holes, Failed(hs)
          PROVE  (op'.pc = "idle" /\ res'.kind = "switch") \/ (op'.pc = "find" /\ res' = res)
      BY <2>1, <3>1, FailedType
    <3>2. ASSUME NEW pc \in SwitchPc, Go(pc) PROVE op'.pc = pc /\ res' = res
      BY <3>2, GoType DEF Go
    <3>3. CASE SwitchLook
      BY <1>0, <3>2, <3>3 DEF SwitchLook, CallState, SwitchPc
    <3> QED BY <1>1, <3>1, <3>2, <3>3, HoleSets
            DEF SwitchFind, SwitchMode, WaitArm, WaitEvent, WaitDeadline, SwitchCheck, SwitchPc
  <2>3. CASE op'.pc = "idle" /\ res'.kind = "switch"
    BY <2>3 DEF FlashProgress, FlashVerdict, Clean, PortPc
  <2> QED BY <2>1, <2>2, <2>3, FlashReturn, NoFlash DEF SwitchPc, PortPc
<1>2. CASE GetModemState
  <2>1. CASE Go("open")
    <3>1. op'.pc = "open" /\ res' = res
      BY <2>1, GoType DEF Go
    <3> QED BY <3>1, NoFlash DEF PortPc
  <2>2. CASE Return(FALSE)
    BY <2>2, FlashReturn
  <2> QED BY <1>2, <2>1, <2>2 DEF GetModemState
<1>3. CASE OpenPort
  <2>1. CASE Return(FALSE)
    BY <2>1, FlashReturn
  <2>2. CASE /\ HasPort /\ port' = "open" /\ rx' = <<>>
             /\ op' = [op EXCEPT !.pc = IF op.kind = "flash" THEN "download" ELSE op.kind,
                                 !.early = wire # <<>>]
             /\ UNCHANGED res
    <3>1. op.kind \in {"flash", "erase", "reboot"} /\ (wire # <<>>) \in BOOLEAN
      BY <1>0, <1>3 DEF OpenPort, At, FlashControl, CallState, SwitchPc
    <3>2. /\ op'.pc = IF op.kind = "flash" THEN "download" ELSE op.kind
          /\ op'.early = (wire # <<>>)
      BY <1>0, <2>2, <3>1 DEF CallState
    <3>3. CASE op.kind # "flash"
      BY <2>2, <3>1, <3>2, <3>3, NoFlash DEF PortPc
    <3>4. CASE op.kind = "flash"
      <4>1. op'.pc = "download" /\ port' = "open" /\ rx' = <<>> /\ wire' = wire
        BY <1>3, <2>2, <3>2, <3>4 DEF OpenPort
      <4>2. Clean' => Nothing'
        BY <3>2, <4>1 DEF Clean, Nothing
      <4> QED BY <2>2, <4>1, <4>2 DEF FlashProgress, FlashVerdict
    <3> QED BY <3>3, <3>4
  <2> QED BY <1>3, <2>1, <2>2 DEF OpenPort
<1>4. CASE FlashWrite
  <2>1. CASE Return(FALSE)
    BY <2>1, FlashReturn
  <2>2. CASE op' = [op EXCEPT !.blocked = TRUE] /\ UNCHANGED <<modem, wire, rx, port, mon, res, restarts>>
    <3>1. op'.pc = op.pc /\ op'.early = op.early /\ op'.refused = op.refused /\ op'.n = op.n
      BY <1>0, <2>2 DEF CallState
    <3> QED BY <2>2, <3>1
            DEF FlashProgress, FlashVerdict, Clean, Nothing, Asked, Told, Loaded, Item
  <2> QED BY <1>4, <2>1, <2>2, FlashVerdictWrite DEF FlashWrite
<1>5. CASE ReadWithTimeout
  <2>1. CASE Return(FALSE)
    BY <2>1, FlashReturn
  <2>2. CASE /\ rx # <<>> /\ rx' = Tail(rx)
             /\ op' = [op EXCEPT !.pc = After(@), !.refused = @ \/ Head(rx) = "FAIL"]
             /\ UNCHANGED <<port, res>>
    <3>1. /\ op'.early = op.early /\ op'.n = op.n /\ op'.refused = (op.refused \/ Head(rx) = "FAIL")
          /\ op.pc \in {"read1", "read2", "read3"} /\ modem' = modem /\ wire' = wire
          /\ op'.pc = (IF op.pc = "read1" THEN "data" ELSE IF op.pc = "read2" THEN "flash" ELSE "done")
      BY <1>0, <1>5, <2>2 DEF ReadWithTimeout, CallState, After
    <3>2. Clean' => Clean /\ Head(rx) # "FAIL"
      BY <3>1 DEF Clean, PortPc
    <3>3. ASSUME Clean', NEW a, Told(a) PROVE Nothing' /\ a # "FAIL"
      BY <2>2, <3>1, <3>2, <3>3 DEF Told, Nothing
    <3>4. ASSUME NEW c PROVE ~Nothing /\ ~Asked(c)
      BY <2>2 DEF Nothing, Asked
    <3>5. FlashVerdict' /\ (op'.pc \in PortPc => port' # "closed")
      BY <2>2, <3>1 DEF FlashVerdict, FlashProgress, PortPc
    <3>6. CASE op.pc = "read1"
      BY <2>2, <3>1, <3>2, <3>3, <3>4, <3>5, <3>6 DEF FlashProgress, Loaded
    <3>7. CASE op.pc = "read2"
      BY <2>2, <3>1, <3>2, <3>3, <3>4, <3>5, <3>7 DEF FlashProgress, Loaded
    <3>8. CASE op.pc = "read3"
      BY <2>2, <3>1, <3>2, <3>3, <3>4, <3>5, <3>8 DEF FlashProgress, Loaded
    <3> QED BY <3>1, <3>6, <3>7, <3>8
  <2> QED BY <1>5, <2>1, <2>2 DEF ReadWithTimeout
<1>6. CASE FlashDone
  <2>1. modem.written = op.n \/ op.refused \/ op.early
    BY <1>6 DEF FlashDone, At, FlashProgress, Clean, PortPc
  <2> QED BY <1>6, <2>1, FlashReturn DEF FlashDone
<1> QED BY <1>1, <1>2, <1>3, <1>4, <1>5, <1>6 DEF Client

LEMMA FlashVerdictModem ==
    ASSUME FlashTypes, FlashControl, FlashProgress, FlashVerdict,
           ModemRestarts \/ ModemBoots \/ UdevAdds \/ ModemTakes
    PROVE  FlashProgress' /\ FlashVerdict'
<1>0. op \in CallState /\ modem \in Modem /\ rx \in Seq(Answer) /\ res' = res
  BY DEF FlashTypes, ModemRestarts, ModemBoots, UdevAdds, ModemTakes
<1>1. FlashVerdict'
  BY <1>0 DEF FlashVerdict
<1>2. ASSUME NEW m \in Modem, Vanish(m), m.written = modem.written, UNCHANGED <<rx, op>>
      PROVE  FlashProgress'
  <2>1. wire' = <<>> /\ port' # "open" /\ (port # "closed" => port' = "dead")
        /\ modem'.written = m.written
    BY <1>2 DEF Vanish, FlashTypes, Modem
  <2>2. (Nothing => Nothing') /\ (\A c : Asked(c) => Nothing') /\ (\A a : Told(a) => Told(a)')
    BY <1>2, <2>1 DEF Nothing, Asked, Told
  <2>3. Clean' = Clean
    BY <1>2 DEF Clean
  <2> QED BY <1>2, <2>1, <2>2, <2>3 DEF FlashProgress
<1>3. CASE ModemRestarts
  <2>1. PICK to \in {"ready", "dump"} : Vanish([modem EXCEPT !.to = to])
    BY <1>3 DEF ModemRestarts
  <2>2. [modem EXCEPT !.to = to] \in Modem /\ [modem EXCEPT !.to = to].written = modem.written
    BY <1>0 DEF Modem
  <2> QED BY <1>1, <1>2, <1>3, <2>1, <2>2 DEF ModemRestarts
<1>4. CASE ModemBoots
  <2>1. port # "open" /\ wire = <<>> /\ UNCHANGED <<wire, rx, port>>
    BY <1>4 DEF ModemBoots, FlashControl, HasPort
  <2>2. modem'.written = modem.written
    BY <1>0, <1>4 DEF ModemBoots, Modem
  <2>3. op'.pc = op.pc /\ op'.n = op.n /\ op'.early = op.early /\ op'.refused = op.refused
    BY <1>0, <1>4 DEF ModemBoots, CallState
  <2>4. (Nothing => Nothing') /\ (\A c : ~Asked(c)) /\ (\A a : Told(a) => Told(a)')
    BY <2>1 DEF Nothing, Asked, Told
  <2>5. Clean' = Clean
    BY <2>3 DEF Clean
  <2> QED BY <1>1, <2>1, <2>2, <2>3, <2>4, <2>5 DEF FlashProgress
<1>5. CASE ModemTakes
  <2> DEFINE it == Head(wire)
             whole == [modem EXCEPT !.phase = "cmd", !.buf = IF it.c = "data" /\ @ = 0 THEN it.by ELSE Bad]
  <2>0. wire # <<>> /\ op' = op /\ Clean' = Clean
    BY <1>5 DEF ModemTakes, Clean
  <2>1. CASE Vanish([modem EXCEPT !.to = "ready"]) /\ UNCHANGED rx
    <3>1. [modem EXCEPT !.to = "ready"] \in Modem
          /\ [modem EXCEPT !.to = "ready"].written = modem.written
      BY <1>0 DEF Modem
    <3> QED BY <1>1, <1>2, <2>0, <2>1, <3>1
  <2>2. CASE ~Clean /\ UNCHANGED port
    BY <1>1, <2>0, <2>2 DEF FlashProgress
  <2>3. CASE Clean /\ UNCHANGED port /\ wire' = Tail(wire)
    <3>0. port = "open" /\ ~Nothing /\ (\A a : ~Told(a)) /\ op.pc \in {"read1", "read2", "read3"}
      BY <2>0, <2>3 DEF FlashProgress, Clean, Nothing, Told, FlashTypes, PortPc
    <3>1. ASSUME NEW c, Asked(c) PROVE it.c = c /\ it.by = op.n /\ wire' = <<>> /\ rx = <<>>
      BY <2>3, <3>1 DEF Asked, Item
    <3>2. ASSUME NEW m, NEW a, Takes(m, a), NEW c, Asked(c)
          PROVE  modem' = m /\ (a = "none" => Nothing') /\ (a # "none" => Told(a)')
      <4>1. wire' = <<>> /\ rx = <<>> /\ port = "open"
        BY <3>0, <3>1, <3>2
      <4>2. modem' = m /\ (a = "none" => rx' = <<>>) /\ (a # "none" => rx' = <<a>>)
        BY <3>2, <4>1 DEF Takes
      <4> QED BY <4>1, <4>2 DEF Nothing, Told
    <3>3. CASE op.pc = "read1"
      <4>1. Asked("download")
        BY <2>3, <3>0, <3>3 DEF FlashProgress
      <4>2. Nothing' \/ Told("FAIL")' \/ (Told("OKAY")' /\ modem'.phase = "cmd")
            \/ (Told("DATA")' /\ modem'.phase = "data" /\ modem'.buf = 0)
        <5>1. it.c = "download"
          BY <3>1, <4>1
        <5>2. \/ Takes(whole, "OKAY") \/ Takes([modem EXCEPT !.buf = Bad], "none")
              \/ Takes(modem, "FAIL") \/ Takes([modem EXCEPT !.phase = "data", !.buf = 0], "DATA")
          BY <1>5, <5>1 DEF ModemTakes
        <5>3. whole.phase = "cmd"
          BY <1>0 DEF Modem
        <5>4. [modem EXCEPT !.phase = "data", !.buf = 0].phase = "data"
              /\ [modem EXCEPT !.phase = "data", !.buf = 0].buf = 0
          BY <1>0 DEF Modem
        <5> HIDE DEF whole
        <5> QED BY <3>2, <4>1, <5>2, <5>3, <5>4
      <4> QED BY <1>1, <2>0, <2>3, <3>0, <3>1, <3>3, <4>1, <4>2 DEF FlashProgress
    <3>4. CASE op.pc = "read2"
      <4>1. PICK c \in {"data", "short"} : Asked(c) /\ (modem.phase = "cmd" \/ modem.buf = 0)
        BY <2>3, <3>0, <3>4 DEF FlashProgress
      <4>2. Nothing' \/ Told("FAIL")' \/ (Told("OKAY")' /\ modem'.phase = "cmd" /\ modem'.buf = op.n)
        <5>1. it.c = c /\ it.by = op.n
          BY <3>1, <4>1
        <5>2. \/ Takes(whole, "OKAY") /\ it.c = "data" /\ modem.buf = 0
              \/ Takes([modem EXCEPT !.buf = Bad], "none")
              \/ Takes(modem, "FAIL")
          BY <1>5, <4>1, <5>1 DEF ModemTakes
        <5>3. it.c = "data" /\ modem.buf = 0 => whole.phase = "cmd" /\ whole.buf = op.n
          BY <1>0, <5>1 DEF Modem
        <5> HIDE DEF whole
        <5> QED BY <3>2, <4>1, <5>2, <5>3
      <4> QED BY <1>1, <2>0, <2>3, <3>0, <3>1, <3>4, <4>1, <4>2 DEF FlashProgress, Loaded
    <3>5. CASE op.pc = "read3"
      <4>1. Asked("flash") /\ Loaded
        BY <2>3, <3>0, <3>5 DEF FlashProgress
      <4>2. Nothing' \/ Told("FAIL")' \/ (Told("OKAY")' /\ modem'.written = op.n)
        BY <1>0, <1>5, <3>1, <3>2, <4>1 DEF ModemTakes, Modem, Loaded
      <4> QED BY <1>1, <2>0, <2>3, <3>0, <3>1, <3>5, <4>1, <4>2 DEF FlashProgress
    <3> QED BY <3>0, <3>3, <3>4, <3>5
  <2> QED BY <1>5, <2>1, <2>2, <2>3 DEF ModemTakes
<1>6. CASE UdevAdds
  <2>1. /\ modem'.written = modem.written /\ modem'.phase = modem.phase /\ modem'.buf = modem.buf
        /\ op'.pc = op.pc /\ op'.n = op.n /\ op'.early = op.early /\ op'.refused = op.refused
        /\ UNCHANGED <<wire, rx, port>>
    BY <1>0, <1>6 DEF UdevAdds, Modem, CallState
  <2> QED BY <1>1, <2>1 DEF FlashProgress, Clean, Nothing, Asked, Told, Loaded, Item
<1> QED BY <1>3, <1>4, <1>5, <1>6

LEMMA FlashVerdictCalls ==
    ASSUME FlashTypes, FlashVerdict,
           SwitchFlashMode \/ FastbootFlash \/ FastbootErase \/ FastbootReboot \/ PcieReset
    PROVE  FlashProgress' /\ FlashVerdict'
<1>1. ASSUME NEW k, NEW pc \in {"find", "state"}, Call(k, pc) PROVE FlashProgress' /\ FlashVerdict'
  <2>1. op'.pc = pc /\ res' = res
    BY <1>1 DEF Call, Idle
  <2> QED BY <2>1, NoFlash DEF PortPc
<1>2. CASE PcieReset
  <2>1. op'.pc = "idle" /\ res'.kind = "reset"
    BY <1>2 DEF PcieReset, Idle
  <2> QED BY <2>1 DEF FlashProgress, FlashVerdict, Clean, PortPc
<1> QED BY <1>1, <1>2 DEF SwitchFlashMode, FastbootFlash, FastbootErase, FastbootReboot

-----------------------------------------------------------------------------
(* The inductive invariant of the flash operations.                        *)
FlashInv == /\ FlashTypes /\ FlashControl
            /\ SwitchProgress /\ SwitchVerdict
            /\ FlashProgress /\ FlashVerdict

LEMMA FlashInvInit == FlashInit => FlashInv
<1> SUFFICES ASSUME FlashInit PROVE FlashInv
  OBVIOUS
<1>1. op.pc = "idle" /\ res.kind = "none"
  BY DEF FlashInit, Idle
<1> QED BY <1>1, FlashTypesInit
        DEF FlashInv, SwitchProgress, SwitchVerdict, FlashProgress, FlashVerdict, Clean, PortPc

LEMMA FlashInvNext == FlashInv /\ FlashNext => FlashInv'
<1> SUFFICES ASSUME FlashInv, FlashNext PROVE FlashInv'
  OBVIOUS
<1>1. FlashTypes' /\ FlashControl'
  BY FlashTypesNext DEF FlashInv
<1>2. SwitchProgress' /\ SwitchVerdict'
  BY SwitchVerdictClient, SwitchVerdictPort, SwitchVerdictOther DEF FlashInv, FlashNext, Client
<1>3. FlashProgress' /\ FlashVerdict'
  BY FlashVerdictClient, FlashVerdictModem, FlashVerdictCalls, FlashVerdictWrite
  DEF FlashInv, FlashNext, ModemRoom
<1> QED BY <1>1, <1>2, <1>3 DEF FlashInv

(* The type invariant follows.                                             *)
LEMMA FlashInvType == FlashInv => FlashTypeOK
  BY DEF FlashInv, FlashTypes, FlashControl, FlashTypeOK, Modem, CallState
=============================================================================
