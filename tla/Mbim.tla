-------------------------------- MODULE Mbim --------------------------------
(***************************************************************************)
(* The MBIM adapter: the request side of MbimRequest and, on the same main *)
(* loop and device, its notifications (mbim_common_notification_cb).  An   *)
(* indication of the modem starts a chain of queries that collects data;   *)
(* at its end a new thread tells the watchers.  A SIM indication is judged *)
(* by g_sim_inserted_flag, which a SIM request sets too.                   *)
(*                                                                         *)
(* The modem is external: it sends the indication of a SIM change at any   *)
(* time after the change.  The lists of watchers are left out: a watcher   *)
(* of every kind is registered.                                            *)
(***************************************************************************)
EXTENDS MbimRequest, FiniteSets

CONSTANTS IndKinds,   \* the indications the modem sends
          MaxInds,    \* bound: indications
          MaxEvents   \* bound: requests and indications together

ASSUME MbimIndAssumption ==
    IndKinds \subseteq {"sim", "radio", "net", "slot"} /\ MaxInds \in Nat /\ MaxEvents \in Nat

VARIABLES
    simIn,                \* the modem has a usable SIM
    inds,                 \* indications on their way
    g_sim_inserted_flag,
    chains,               \* notification chains: a query of each is with libmbim
    threads,              \* notify threads that have yet to run
    hn                    \* history, for the properties only:
                          \* sent: the kinds of the indications sent; told: how
                          \* often the watchers were told of each; dropped:
                          \* those the code decided to tell nobody of, and why;
                          \* unseen: the SIM has been there since the device was
                          \* opened, or its last indication could not be read
                          \* and differed from the flag

notifyVars == <<simIn, inds, g_sim_inserted_flag, chains, threads, hn>>
vars == <<requestVars, notifyVars>>

Init ==
    /\ RequestInit
    /\ simIn \in BOOLEAN /\ inds = <<>> /\ g_sim_inserted_flag = FALSE
    /\ chains = {} /\ threads = {}
    /\ hn = [sent |-> <<>>, told |-> [i \in 1..MaxInds |-> 0], dropped |-> {}, unseen |-> simIn]

Listening == g_mbim_device_init_flag /\ g_mbimdevice

-----------------------------------------------------------------------------
(* The modem.                                                              *)
Send(ind) ==
    /\ Listening /\ Len(hn.sent) < MaxInds /\ calls + Len(hn.sent) < MaxEvents
    /\ inds' = Append(inds, ind)
SimChanges ==
    /\ "sim" \in IndKinds
    /\ Send([id |-> Len(hn.sent) + 1, kind |-> "sim", in |-> ~simIn])
    /\ simIn' = ~simIn
    /\ hn' = [hn EXCEPT !.sent = Append(@, "sim")]
    /\ UNCHANGED <<requestVars, g_sim_inserted_flag, chains, threads>>
ModemIndicates(k) ==
    /\ Send([id |-> Len(hn.sent) + 1, kind |-> k, in |-> FALSE])
    /\ hn' = [hn EXCEPT !.sent = Append(@, k)]
    /\ UNCHANGED <<requestVars, simIn, g_sim_inserted_flag, chains, threads>>

-----------------------------------------------------------------------------
(* Queries a chain asks: the home provider; registration, connection and   *)
(* signal; capabilities, mapping and two slots.                            *)
NotifyLength(k) == CASE k = "sim" -> 1 [] k = "net" -> 3 [] k = "slot" -> 4

(* The next query of a chain; with no device it is never answered.         *)
Ask(i, k, n) == IF g_mbimdevice THEN {[id |-> i, kind |-> k, step |-> n]} ELSE {}
Lost(i) == IF g_mbimdevice THEN {} ELSE {[id |-> i, why |-> "nodevice"]}

(* The handler of each indication.                                         *)
Handled ==
    /\ inds # <<>> /\ inds' = Tail(inds)
    /\ UNCHANGED <<requestVars, simIn>>

\* Mutant: a SIM that is removed leaves the flag set.
SimFlagStays ==
    /\ Handled
    /\ LET i == Head(inds) IN
       /\ i.kind = "sim"
       /\ g_sim_inserted_flag' = (i.in \/ g_sim_inserted_flag)
       /\ threads' = threads \cup {[id |-> i.id, kind |-> "sim", again |-> FALSE]}
    /\ UNCHANGED <<chains, hn>>
(* An indication that cannot be parsed is dropped before the flag is seen. *)
SubscriberReadyStatus ==                                \* basic_connect_notification_...
    /\ Handled
    /\ LET i == Head(inds)
           drop(why) == hn.dropped \cup {[id |-> i.id, why |-> why]}
       IN
       /\ i.kind = "sim"
       /\ \/ /\ hn' = [hn EXCEPT !.dropped = drop("unreadable"), !.unseen = i.in # g_sim_inserted_flag]
             /\ UNCHANGED <<g_sim_inserted_flag, chains, threads>>
          \/ /\ g_sim_inserted_flag' = i.in
             /\ IF i.in = g_sim_inserted_flag
                THEN /\ hn' = [hn EXCEPT !.dropped = drop("known"), !.unseen = FALSE]
                     /\ UNCHANGED <<chains, threads>>
                ELSE IF i.in
                THEN /\ chains' = chains \cup Ask(i.id, "sim", 1)
                     /\ hn' = [hn EXCEPT !.dropped = @ \cup Lost(i.id), !.unseen = FALSE]
                     /\ UNCHANGED threads
                ELSE /\ threads' = threads \cup {[id |-> i.id, kind |-> "sim", again |-> FALSE]}
                     /\ hn' = [hn EXCEPT !.unseen = FALSE]
                     /\ UNCHANGED chains

RadioState ==
    /\ Handled
    /\ LET i == Head(inds) IN
       /\ i.kind = "radio"
       /\ \/ threads' = threads \cup {[id |-> i.id, kind |-> "radio", again |-> FALSE]} /\ UNCHANGED hn
          \/ hn' = [hn EXCEPT !.dropped = @ \cup {[id |-> i.id, why |-> "unreadable"]}] /\ UNCHANGED threads
    /\ UNCHANGED <<g_sim_inserted_flag, chains>>

RegisterState ==
    /\ Handled
    /\ LET i == Head(inds) IN
       /\ i.kind = "net"
       /\ chains' = chains \cup Ask(i.id, "net", 1)
       /\ hn' = [hn EXCEPT !.dropped = @ \cup Lost(i.id)]
    /\ UNCHANGED <<g_sim_inserted_flag, threads>>

SlotInfoStatus ==                   \* tells the watchers before it has asked
    /\ Handled
    /\ LET i == Head(inds) IN
       /\ i.kind = "slot"
       /\ chains' = chains \cup Ask(i.id, "slot", 1)
       /\ threads' = threads \cup {[id |-> i.id, kind |-> "slot", again |-> FALSE]}
    /\ UNCHANGED <<g_sim_inserted_flag, hn>>

\* Mutant: a failure ends the chain without a word.
AnsweredQuietly(c, o) ==
    /\ c \in chains /\ o \in {"go", "fail"}
    /\ LET more == o = "go" /\ c.step < NotifyLength(c.kind)
       IN /\ chains' = (chains \ {c}) \cup (IF more THEN Ask(c.id, c.kind, c.step + 1) ELSE {})
          /\ threads' = IF o = "go" /\ ~more
                        THEN threads \cup {[id |-> c.id, kind |-> c.kind, again |-> c.kind = "slot"]}
                        ELSE threads
          /\ hn' = [hn EXCEPT !.dropped = @ \cup (IF more THEN Lost(c.id) ELSE {})]
    /\ UNCHANGED <<requestVars, simIn, inds, g_sim_inserted_flag>>
(* A query of a chain is answered.  A failure ends the chain and tells the *)
(* watchers what is known; so does the last answer of a SIM or network     *)
(* chain, but not of a slot chain, and not a modem that is unregistered.   *)
NotifyTail(c) == {[id |-> c.id, kind |-> c.kind, again |-> c.kind = "slot"]}
Answered(c, o) ==
    /\ c \in chains
    /\ \/ o \in {"go", "fail"}
       \/ o = "end" /\ c.kind = "net" /\ c.step = 1       \* unregistered
       \/ o = "end" /\ c.kind = "slot" /\ c.step = 3      \* a single slot
    /\ LET more == o = "go" /\ c.step < NotifyLength(c.kind)
       IN /\ chains' = (chains \ {c}) \cup (IF more THEN Ask(c.id, c.kind, c.step + 1) ELSE {})
          /\ threads' = IF o = "fail" \/ (o = "go" /\ ~more /\ c.kind # "slot")
                        THEN threads \cup NotifyTail(c) ELSE threads
          /\ hn' = [hn EXCEPT !.dropped = @ \cup
                      (IF more THEN Lost(c.id)
                       ELSE IF o = "end" /\ c.kind = "net" THEN {[id |-> c.id, why |-> "unregistered"]}
                       ELSE {})]
    /\ UNCHANGED <<requestVars, simIn, inds, g_sim_inserted_flag>>

(* A thread of linux_trigger_..._notify calls every watcher.               *)
NotifyRuns(t) ==
    /\ t \in threads /\ threads' = threads \ {t}
    /\ hn' = [hn EXCEPT !.told[t.id] = @ + 1]
    /\ UNCHANGED <<requestVars, simIn, inds, g_sim_inserted_flag, chains>>

-----------------------------------------------------------------------------
(* The callback of a request.  The answer to a SIM request shows the SIM   *)
(* as it is, and the flag follows it without a word to the watchers.       *)
RequestCallback(o) ==
    /\ Callback(o)
    /\ IF cmd = [kind |-> "sim", step |-> 1] /\ o \in {"go", "end"}
       THEN /\ simIn = (o = "go")
            /\ g_sim_inserted_flag' = simIn
            /\ hn' = [hn EXCEPT !.unseen = FALSE]
       ELSE UNCHANGED <<g_sim_inserted_flag, hn>>
    /\ UNCHANGED <<simIn, inds, chains, threads>>

Deinit ==
    /\ MbimDeinit
    /\ inds' = <<>> /\ g_sim_inserted_flag' = FALSE
    /\ hn' = [hn EXCEPT !.dropped = @ \cup {[id |-> inds[n].id, why |-> "nodevice"] : n \in DOMAIN inds},
                        !.unseen = simIn]
    /\ UNCHANGED <<simIn, chains, threads>>

RequestStep ==
    \/ MbimInit \/ InitReturns
    \/ calls + Len(hn.sent) < MaxEvents /\ \E k \in Kinds : CallRequest(k)
    \/ CallerReceives \/ AlarmFires \/ CallerReturns
    \/ HelperOpens \/ HelperOpened \/ HelperTakes \/ HelperSends \/ HelperWakes
    \/ HelperAnswers \/ HelperLeaves
    \/ \E o \in {"go", "fail"} : OpenCallback(o)

AllOutcomes == {"go", "end", "differs", "refused", "garbled", "odd", "fail"}

Next ==
    \/ RequestStep /\ UNCHANGED notifyVars
    \/ \E o \in AllOutcomes : RequestCallback(o)
    \/ Deinit
    \/ SimChanges \/ \E k \in IndKinds \ {"sim"} : ModemIndicates(k)
    \/ SubscriberReadyStatus \/ RadioState \/ RegisterState \/ SlotInfoStatus
    \/ \E c \in chains, o \in {"go", "fail", "end"} : Answered(c, o)
    \/ \E t \in threads : NotifyRuns(t)

Spec == Init /\ [][Next]_vars

(* The kernel delivers the alarm, the helper thread runs, the main loop    *)
(* runs (OnMbimOperation) and libmbim ends every command, by its timeout   *)
(* at the latest.                                                          *)
FairSpec ==
    /\ Spec
    /\ WF_vars(InitReturns /\ UNCHANGED notifyVars)
    /\ WF_vars(CallerReceives /\ UNCHANGED notifyVars)
    /\ WF_vars(CallerReturns /\ UNCHANGED notifyVars)
    /\ WF_vars(AlarmFires /\ UNCHANGED notifyVars)
    /\ WF_vars((HelperOpens \/ HelperOpened \/ HelperTakes \/ HelperSends \/ HelperWakes
                    \/ HelperAnswers \/ HelperLeaves) /\ UNCHANGED notifyVars)
    /\ WF_vars(\E o \in {"go", "fail"} : OpenCallback(o) /\ UNCHANGED notifyVars)
    /\ WF_vars(\E o \in AllOutcomes : RequestCallback(o))

-----------------------------------------------------------------------------
(* Every request gets one answer of the helper, and every alarm adds one   *)
(* that nobody asked for and nothing removes: until deinit, the answers    *)
(* queued and still to come exceed the calls that wait for one by the      *)
(* alarms, plus the calls that a signal cut short.  So a request takes the *)
(* answer to another one, perhaps of another type, only after an alarm.    *)
AnswersConserved ==
    /\ ~ended => Len(respq) + Len(reqq) + (IF helper.pc \in {"send", "wait", "answer"} THEN 1 ELSE 0)
                = h.alarms + h.cut + (IF caller.pc = "wait" THEN 1 ELSE 0)
    /\ h.stale => h.alarms > 0

(* The helper waits on force_sync_sem only while a callback that will post *)
(* it is due: every path of every callback posts, except for a SIM state   *)
(* nobody handles, and except that deinit takes the device away between    *)
(* two commands of a chain.  None posts twice: a post left over would end  *)
(* the wait of the next request before its commands are done.              *)
WaiterHasWaker ==
    /\ helper.pc \in {"wait", "opening"} =>
          force_sync_sem = 1 \/ cmd # NoCmd \/ h.mute \/ ended
    /\ force_sync_sem = 1 => cmd = NoCmd
    /\ force_sync_sem \in 0..1

(* OK from a slot or trace request, or from an AT command that is          *)
(* answered, means that the modem did what was asked.  A query of the SIM, *)
(* the network, the radio or the slots returns OK when its command failed, *)
(* and so does setting the radio: the answer then holds the value asked    *)
(* for.  OK from init() means that the device is open, unless an earlier   *)
(* init() failed: that one leaves thread_running set with no thread behind *)
(* it.  A request that takes the answer to another one, which it does only *)
(* after an alarm, is not spoken of: its OK is the other one's.            *)
OkMeansDone == ~h.lied /\ (h.hollow => h.failed)

(* Once every SIM indication has been handled the flag that decides which  *)
(* indications are told agrees with the SIM, however requests and          *)
(* indications interleave, unless the SIM was there when the device was    *)
(* opened and nothing has been heard of it since, or the last indication   *)
(* could not be read: it is dropped and the flag left as it was, until the *)
(* SIM is heard of again, by an indication or by the answer to a request.  *)
SimFlagAgrees ==
    (\A n \in DOMAIN inds : inds[n].kind # "sim") /\ Listening /\ ~ended =>
        g_sim_inserted_flag = simIn \/ hn.unseen

(* No indication is forgotten: it is on its way, its chain or its thread   *)
(* is running, the watchers were told, or the code chose to drop it.  And  *)
(* they are told at most once, counting the thread that is about to; of a  *)
(* slot indication twice, when a query of its chain fails after the thread *)
(* that ran ahead of it.                                                   *)
IndicationAccounted ==
    \A i \in DOMAIN hn.sent :
        LET due == Cardinality({t \in threads : t.id = i}) IN
        /\ \/ \E n \in DOMAIN inds : inds[n].id = i
           \/ \E c \in chains : c.id = i
           \/ hn.told[i] + due > 0
           \/ \E d \in hn.dropped : d.id = i
        /\ hn.told[i] + due <= (IF hn.sent[i] = "slot" THEN 2 ELSE 1)

(* A call of init() or of a request returns, whatever the modem does.      *)
MbimCallReturns == caller.pc # "idle" ~> caller.pc = "idle"
=============================================================================
