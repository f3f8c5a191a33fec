----------------------------- MODULE MbimRequest -----------------------------
(***************************************************************************)
(* The request side of the MBIM adapter (mbim.cpp and the files            *)
(* mbim_linux_helper_*.cpp).  A caller, one at a time (mtx), puts a        *)
(* request in one message queue, arms alarm() and blocks on another queue. *)
(* A helper thread takes the request, sends a chain of commands to libmbim *)
(* and waits on force_sync_sem until a callback on the main loop posts it; *)
(* then it puts the answer in the second queue.  The handler of SIGALRM    *)
(* puts an error answer there too, and neither answer names its request.   *)
(*                                                                         *)
(* The modem, libmbim and the kernel are external: a command completes or  *)
(* fails, once, unless it was given no device.  mbim.hpp allows no use     *)
(* after deinit(), so that is the application's last call.                 *)
(***************************************************************************)
EXTENDS Naturals, Sequences

CONSTANTS Kinds,      \* the requests in use
          MaxCalls,   \* bound: requests of the application
          MaxInits    \* bound: calls of init()

AllKinds == {"sim", "net", "radio", "radioset", "slot", "slotset",
             "trace", "traceset", "at", "atnoresp"}

ASSUME MbimAssumption ==
    Kinds \subseteq AllKinds /\ MaxCalls \in Nat /\ MaxInits \in Nat

VARIABLES
    thread_running,           \* "OK" or "ERR"
    g_mbim_device_init_flag,
    g_mbimdevice,             \* not null
    g_msg_loop_ready,
    queues,                   \* both message queues exist
    reqq, respq,              \* their contents
    alarm,                    \* alarm() is armed
    force_sync_sem,
    cmd,                      \* the command libmbim works on for the helper
    caller,                   \* the thread inside init() or a request
    helper,                   \* mbim_thread_init's thread
    inits, calls, ended,
    h                         \* history, for the properties only:
                              \* alarms: SIGALRM handlers run
                              \* cut: calls the signal itself ended (EINTR)
                              \* failed: an init() has failed
                              \* mute: a callback that posts nothing has run
                              \* stale: a call took the answer to another one
                              \* lied: a request whose result says what the
                              \* modem did returned OK without its doing it
                              \* hollow: init() returned OK with no open device

device == <<thread_running, g_mbim_device_init_flag, g_mbimdevice, g_msg_loop_ready>>
requestVars == <<device, queues, reqq, respq, alarm, force_sync_sem, cmd, caller,
                 helper, inits, calls, ended, h>>

NoCmd  == [kind |-> "none", step |-> 0]
NoReq  == [kind |-> "none", id |-> 0]
Answer == [kind : AllKinds, id : Nat, res : {"OK", "ERR"},
           done : BOOLEAN,                       \* the modem did it
           data : {"same", "other", "accepted", "ERROR", "empty"}]
NoAnswer == [kind |-> "none", id |-> 0, res |-> "ERR", done |-> FALSE, data |-> "empty"]

Idle    == [pc |-> "idle", kind |-> "none", id |-> 0, got |-> NoAnswer]
Resting == [pc |-> "none", req |-> NoReq, out |-> NoAnswer]

RequestInit ==
    /\ thread_running = "ERR" /\ g_mbim_device_init_flag = FALSE
    /\ g_mbimdevice = FALSE /\ g_msg_loop_ready = FALSE
    /\ queues = FALSE /\ reqq = <<>> /\ respq = <<>>
    /\ alarm = FALSE /\ force_sync_sem = 0 /\ cmd = NoCmd
    /\ caller = Idle /\ helper = Resting
    /\ inits = 0 /\ calls = 0 /\ ended = FALSE
    /\ h = [alarms |-> 0, cut |-> 0, failed |-> FALSE, mute |-> FALSE, stale |-> FALSE,
            lied |-> FALSE, hollow |-> FALSE]

-----------------------------------------------------------------------------
(* The datatype of a request: a query and a set of the same thing share    *)
(* one, and it is all that an answer carries.                              *)
Datatype(k) == CASE k \in {"radio", "radioset"}     -> "RADIODATA"
                 [] k \in {"slot", "slotset"}       -> "SLOTDATA"
                 [] k \in {"trace", "traceset"}     -> "TRACELOG"
                 [] k \in {"at", "atnoresp"}        -> "ATCMDDATA"
                 [] OTHER                           -> k

(* Commands in the chain that a request, or opening the device, starts:    *)
(* SIM status and home provider; registration and signal; capabilities,    *)
(* mapping and two slots; a trace setting and its query.                   *)
ChainLength(k) == CASE k \in {"sim", "net", "open", "traceset"} -> 2
                    [] k = "slot"                               -> 4
                    [] OTHER                                    -> 1

(* mbim_device_command on a null device returns at once and calls nothing  *)
(* back.                                                                   *)
Command(k, n) == IF g_mbimdevice \/ k = "open" THEN [kind |-> k, step |-> n] ELSE NoCmd

-----------------------------------------------------------------------------
(* init() and LinuxMbimDeviceOpen: without a helper it starts one and      *)
(* waits 30 s for the device; with thread_running set it is done.          *)
MbimInit ==
    /\ caller.pc = "idle" /\ ~ended /\ inits < MaxInits
    /\ inits' = inits + 1
    /\ IF thread_running = "OK"
       THEN /\ h' = [h EXCEPT !.hollow = @ \/ ~g_mbim_device_init_flag]
            /\ UNCHANGED <<thread_running, helper, caller>>
       ELSE /\ thread_running' = "OK"
            /\ helper' = [Resting EXCEPT !.pc = "open"]
            /\ caller' = [Idle EXCEPT !.pc = "opening"]
            /\ UNCHANGED h
    /\ UNCHANGED <<g_mbim_device_init_flag, g_mbimdevice, g_msg_loop_ready, queues, reqq, respq,
                   alarm, force_sync_sem, cmd, calls, ended>>

InitReturns ==
    /\ caller.pc = "opening"
    /\ \/ /\ g_mbim_device_init_flag /\ g_msg_loop_ready
          /\ h' = [h EXCEPT !.hollow = @ \/ ~g_mbimdevice]
       \/ /\ ~g_mbim_device_init_flag                    \* 30 s are over
          /\ h' = [h EXCEPT !.failed = TRUE]
    /\ caller' = Idle
    /\ UNCHANGED <<device, queues, reqq, respq, alarm, force_sync_sem, cmd, helper,
                   inits, calls, ended>>

(* deinit(): the device is given up whatever the helper is doing.          *)
MbimDeinit ==
    /\ caller.pc = "idle" /\ ~ended /\ inits > 0
    /\ ended' = TRUE
    /\ thread_running' = "ERR"
    /\ g_mbim_device_init_flag' = FALSE /\ g_mbimdevice' = FALSE
    /\ queues' = FALSE /\ reqq' = <<>> /\ respq' = <<>>
    /\ UNCHANGED <<g_msg_loop_ready, alarm, force_sync_sem, cmd, caller, helper, inits, calls, h>>

(* The helper creates the queues and, when the port exists, the device.    *)
HelperOpens ==
    /\ helper.pc = "open"
    /\ queues' = TRUE /\ reqq' = <<>> /\ respq' = <<>>
    /\ \/ /\ helper' = Resting                            \* no such port
          /\ UNCHANGED <<force_sync_sem, cmd>>
       \/ /\ helper' = [helper EXCEPT !.pc = "opening"]
          /\ force_sync_sem' = 0 /\ cmd' = Command("open", 1)
    /\ UNCHANGED <<device, alarm, caller, inits, calls, ended, h>>

HelperOpened ==
    /\ helper.pc = "opening" /\ force_sync_sem > 0
    /\ force_sync_sem' = force_sync_sem - 1
    /\ IF g_mbim_device_init_flag /\ g_mbimdevice
       THEN /\ helper' = [helper EXCEPT !.pc = "loop"]
            /\ g_msg_loop_ready' = TRUE
       ELSE /\ helper' = Resting
            /\ UNCHANGED g_msg_loop_ready
    /\ UNCHANGED <<thread_running, g_mbim_device_init_flag, g_mbimdevice, queues, reqq, respq,
                   alarm, cmd, caller, inits, calls, ended, h>>

-----------------------------------------------------------------------------
\* Mutant: the alarm is left out.
CallRequestUnarmed(k) ==
    /\ caller.pc = "idle" /\ ~ended /\ inits > 0 /\ calls < MaxCalls
    /\ calls' = calls + 1
    /\ IF g_mbim_device_init_flag /\ queues
       THEN /\ reqq' = Append(reqq, [kind |-> k, id |-> calls'])
            /\ caller' = [pc |-> "wait", kind |-> k, id |-> calls', got |-> NoAnswer]
       ELSE UNCHANGED <<reqq, caller>>
    /\ UNCHANGED <<device, queues, respq, alarm, force_sync_sem, cmd, helper, inits, ended, h>>
(* The caller of a request (the AfalMbimLinux...Sync functions).           *)
CallRequest(k) ==
    /\ caller.pc = "idle" /\ ~ended /\ inits > 0 /\ calls < MaxCalls
    /\ calls' = calls + 1
    /\ IF g_mbim_device_init_flag /\ queues
       THEN /\ reqq' = Append(reqq, [kind |-> k, id |-> calls'])
            /\ alarm' = TRUE
            /\ caller' = [pc |-> "wait", kind |-> k, id |-> calls', got |-> NoAnswer]
       ELSE UNCHANGED <<reqq, alarm, caller>>             \* ERR, "MBIM not init!"
    /\ UNCHANGED <<device, queues, respq, force_sync_sem, cmd, helper, inits, ended, h>>

CallerReceives ==
    /\ caller.pc = "wait" /\ respq # <<>>
    /\ caller' = [caller EXCEPT !.pc = "close", !.got = Head(respq)]
    /\ respq' = Tail(respq)
    /\ h' = [h EXCEPT !.stale = @ \/ Head(respq).id # caller.id]
    /\ UNCHANGED <<device, queues, reqq, alarm, force_sync_sem, cmd, helper, inits, calls, ended>>

(* The handler of SIGALRM.  In a thread of its own choosing it only adds   *)
(* an error answer; in the blocked caller it also ends msgrcv (EINTR).     *)
AlarmAnswer == [kind |-> caller.kind, id |-> caller.id, res |-> "ERR",
                done |-> FALSE, data |-> "empty"]
AlarmFires ==
    /\ alarm /\ alarm' = FALSE
    /\ respq' = Append(respq, AlarmAnswer)
    /\ \/ /\ UNCHANGED caller
          /\ h' = [h EXCEPT !.alarms = @ + 1]
       \/ /\ caller.pc = "wait" /\ respq = <<>>
          /\ caller' = [caller EXCEPT !.pc = "close"]
          /\ h' = [h EXCEPT !.alarms = @ + 1, !.cut = @ + 1]
    /\ UNCHANGED <<device, queues, reqq, force_sync_sem, cmd, helper, inits, calls, ended>>

(* What a request of kind k makes of an answer.  An answer to another      *)
(* datatype is read through the wrong structure: anything may come out.    *)
Results(k, a) ==
    IF a.res = "ERR" THEN {"ERR"}
    ELSE IF Datatype(a.kind) # Datatype(k) THEN {"OK", "ERR"}
    ELSE CASE k \in {"at", "atnoresp"} ->
                 {CASE a.data = "ERROR" -> "AT_ERROR" [] a.data = "empty" -> "ERR" [] OTHER -> "OK"}
           [] k \in {"radioset", "slotset", "traceset", "trace"} ->
                 {IF a.data = "same" THEN "OK" ELSE "ERR"}
           [] OTHER -> {"OK"}

(* alarm(0), and the request returns r.                                    *)
CallerReturns ==
    /\ caller.pc = "close"
    /\ alarm' = FALSE
    /\ \E r \in Results(caller.kind, caller.got) :
          h' = [h EXCEPT
                  !.lied = @ \/ /\ r = "OK" /\ ~caller.got.done /\ caller.got.id = caller.id
                                /\ caller.kind \in {"slotset", "traceset", "trace", "at"}]
    /\ caller' = Idle
    /\ UNCHANGED <<device, queues, reqq, respq, force_sync_sem, cmd, helper, inits, calls, ended>>

-----------------------------------------------------------------------------
(* The helper's loop (rolling_helperm_control_receiver).  It leaves when   *)
(* thread_running says so and removes the queues once more.                *)
HelperLeaves ==
    /\ helper.pc = "loop" /\ thread_running = "ERR"
    /\ helper' = Resting
    /\ queues' = FALSE /\ reqq' = <<>> /\ respq' = <<>>
    /\ UNCHANGED <<device, alarm, force_sync_sem, cmd, caller, inits, calls, ended, h>>

\* Mutant: a slot request starts out with the slot asked for.
NoReplyEchoes(req) == [kind |-> req.kind, id |-> req.id, res |-> "OK", done |-> FALSE,
                       data |-> CASE req.kind \in {"radioset", "slotset"} -> "same"
                                  [] req.kind \in {"at", "atnoresp"} -> "empty"
                                  [] OTHER -> "other"]
(* What the answer says before any command has succeeded: a radio request  *)
(* holds the value asked for, a slot request holds ERR.                    *)
NoReply(req) == [kind |-> req.kind, id |-> req.id, res |-> "OK", done |-> FALSE,
                 data |-> CASE req.kind = "radioset" -> "same"
                            [] req.kind \in {"at", "atnoresp"} -> "empty"
                            [] OTHER -> "other"]

HelperTakes ==
    /\ helper.pc = "loop" /\ thread_running = "OK" /\ reqq # <<>>
    /\ reqq' = Tail(reqq)
    /\ LET req == Head(reqq)
       IN helper' = [pc |-> CASE ~g_mbim_device_init_flag -> "answer"
                              [] req.kind = "atnoresp"    -> "answer"
                              [] OTHER                    -> "send",
                     req |-> req,
                     out |-> CASE ~g_mbim_device_init_flag -> [NoReply(req) EXCEPT !.res = "ERR"]
                              [] req.kind = "atnoresp"     -> [NoReply(req) EXCEPT !.data = "same"]
                              [] OTHER                     -> NoReply(req)]
    /\ UNCHANGED <<device, queues, respq, alarm, force_sync_sem, cmd, caller, inits, calls, ended, h>>

HelperSends ==
    /\ helper.pc = "send"
    /\ force_sync_sem' = 0
    /\ cmd' = Command(helper.req.kind, 1)
    /\ helper' = [helper EXCEPT !.pc = "wait"]
    /\ UNCHANGED <<device, queues, reqq, respq, alarm, caller, inits, calls, ended, h>>

(* sem_wait is over.  Setting a trace value that the modem accepted is     *)
(* followed by a query of it and a second sem_wait.                        *)
HelperWakes ==
    /\ helper.pc = "wait" /\ force_sync_sem > 0
    /\ force_sync_sem' = force_sync_sem - 1
    /\ IF helper.req.kind = "traceset" /\ helper.out.data = "accepted"
       THEN /\ cmd' = Command("traceset", 2)
            /\ helper' = [helper EXCEPT !.out.data = "other"]
       ELSE /\ helper' = [helper EXCEPT !.pc = "answer"]
            /\ UNCHANGED cmd
    /\ UNCHANGED <<device, queues, reqq, respq, alarm, caller, inits, calls, ended, h>>

\* Mutant: no answer after an error.
HelperAnswersOk ==
    /\ helper.pc = "answer"
    /\ respq' = IF queues /\ helper.out.res = "OK" THEN Append(respq, helper.out) ELSE respq
    /\ helper' = [Resting EXCEPT !.pc = "loop"]
    /\ UNCHANGED <<device, queues, reqq, alarm, force_sync_sem, cmd, caller, inits, calls, ended, h>>
(* One answer per request; without a queue it is lost.                     *)
HelperAnswers ==
    /\ helper.pc = "answer"
    /\ respq' = IF queues THEN Append(respq, helper.out) ELSE respq
    /\ helper' = [Resting EXCEPT !.pc = "loop"]
    /\ UNCHANGED <<device, queues, reqq, alarm, force_sync_sem, cmd, caller, inits, calls, ended, h>>

-----------------------------------------------------------------------------
(* Callbacks of libmbim on the main loop.  A command completes "go", with  *)
(* nothing left to ask ("end"), with a value other than the one asked for  *)
(* ("differs"), with the modem's own ERROR ("refused"), with an answer     *)
(* that does not parse ("garbled"), with a SIM state nobody handles        *)
(* ("odd"), or it fails.                                                   *)
Completes(c, o) ==
    \/ o \in {"go", "fail"}
    \/ o = "end" /\ c.kind \in {"sim", "net"} /\ c.step = 1
    \/ o = "end" /\ c.kind = "slot" /\ c.step = 3
    \/ o = "differs" /\ c.kind \in {"radioset", "slotset"}
    \/ o = "differs" /\ c.kind = "traceset" /\ c.step = 2
    \/ o \in {"refused", "garbled"} /\ c.kind = "at"
    \/ o = "odd" /\ c.kind = "sim" /\ c.step = 1

(* The callback asks on: every command of a chain but its last.            *)
Continues(c, o) == o = "go" /\ c.step < ChainLength(c.kind) /\ c.kind # "traceset"

\* Mutant: a failed command posts nothing.
PostsOnSuccess(c, o) == ~Continues(c, o) /\ o \notin {"odd", "fail"}
(* sem_post: in every other case but the SIM state nobody handles.         *)
Posts(c, o) == ~Continues(c, o) /\ o # "odd"

(* What the callback writes into the answer.                               *)
Written(c, o, out) ==
    CASE o = "go" /\ c = [kind |-> "traceset", step |-> 1] -> [out EXCEPT !.data = "accepted"]
      [] Continues(c, o)  -> out
      [] o \in {"go", "end"} -> [out EXCEPT !.done = TRUE, !.data = "same"]
      [] o = "differs"    -> [out EXCEPT !.data = "other"]
      [] o = "refused"    -> [out EXCEPT !.done = TRUE, !.data = "ERROR"]
      [] o = "garbled"    -> out
      [] o = "fail" /\ c.kind = "at" -> [out EXCEPT !.data = "ERROR"]
      [] o = "fail" /\ c = [kind |-> "traceset", step |-> 1] -> [out EXCEPT !.res = "ERR"]
      [] OTHER            -> out

Callback(o) ==
    /\ cmd # NoCmd /\ cmd.kind # "open" /\ Completes(cmd, o)
    /\ helper' = [helper EXCEPT !.out = Written(cmd, o, @)]
    /\ cmd' = IF Continues(cmd, o) THEN Command(cmd.kind, cmd.step + 1) ELSE NoCmd
    /\ force_sync_sem' = IF Posts(cmd, o) THEN force_sync_sem + 1 ELSE force_sync_sem
    /\ h' = [h EXCEPT !.mute = @ \/ o = "odd"]
    /\ UNCHANGED <<device, queues, reqq, respq, alarm, caller, inits, calls, ended>>

(* mbim_device_new_ready and mbim_device_open_ready.                       *)
OpenCallback(o) ==
    /\ cmd.kind = "open" /\ o \in {"go", "fail"}
    /\ g_mbimdevice' = IF cmd.step = 1 THEN o = "go" ELSE g_mbimdevice
    /\ g_mbim_device_init_flag' = (g_mbim_device_init_flag \/ (cmd.step = 2 /\ o = "go"))
    /\ cmd' = IF Continues(cmd, o) THEN [cmd EXCEPT !.step = 2] ELSE NoCmd
    /\ force_sync_sem' = IF Posts(cmd, o) THEN force_sync_sem + 1 ELSE force_sync_sem
    /\ UNCHANGED <<thread_running, g_msg_loop_ready, queues, reqq, respq, alarm, caller, helper,
                   inits, calls, ended, h>>
=============================================================================
