--------------------------- MODULE FastbootFlash ---------------------------
(***************************************************************************)
(* Flashing an MTK modem on PCIe through its fastboot port                 *)
(* (FirmwareFlashImplMTKPcie, MTKPcieFlashImpl): SwitchFlashMode with its  *)
(* retries, waiting for the port with a udev monitor (DeviceImpl of        *)
(* modem_linux), FastbootFlash, FastbootErase, FastbootReboot, PcieReset.  *)
(* One thread calls; the modem runs beside it, may restart at any time,    *)
(* may come up in dump mode, where it has the same port, and answers the   *)
(* commands of the port in order, late or never.                           *)
(*                                                                         *)
(* The modem, udev and the kernel's port are external.  Closing the port   *)
(* drops the answers that were not read, and an answer to a closed port is *)
(* lost.  Any call of the system may fail.                                 *)
(***************************************************************************)
EXTENDS Naturals, Sequences

CONSTANTS MaxCalls,     \* bound: calls of the five operations
          MaxRestarts,  \* bound: restarts of the modem by itself
          RetryTimes    \* the argument of SwitchFlashMode

ASSUME FlashAssumption ==
    {MaxCalls, MaxRestarts} \subseteq Nat /\ RetryTimes \in Nat \ {0}

VARIABLES
    modem,    \* mode, where it boots `to', `known': udev has announced its
              \* port, phase and buf of the fastboot protocol, `written': the
              \* image in the partition (0: none)
    wire,     \* what was written to the port and the modem has not taken
    rx,       \* answers the open port holds
    port,     \* the client's descriptor: "closed", "open" or "dead"
    mon,      \* the monitor of the member: "off", "on", or "add" received
    op,       \* the call in progress; blocked: its write() waits for room;
              \* hole: how its last attempt may overlook the modem (history)
    res,      \* the last result
    restarts

flashVars == <<modem, wire, rx, port, mon, op, res, restarts>>

Bad == MaxCalls + 1                     \* an image put together from pieces
HasPort == modem.mode \in {"download", "dump"}

Idle(n) == [kind |-> "none", pc |-> "idle", n |-> n, left |-> 0, blocked |-> FALSE,
            early |-> FALSE, refused |-> FALSE, hole |-> {}]
Item(c) == [c |-> c, by |-> op.n]

FlashInit ==
    /\ modem \in {[mode |-> m, to |-> "ready", known |-> m = "download", phase |-> "cmd",
                   buf |-> 0, written |-> 0] : m \in {"ready", "download"}}
    /\ wire = <<>> /\ rx = <<>> /\ port = "closed" /\ mon = "off"
    /\ op = Idle(0) /\ restarts = 0
    /\ res = [kind |-> "none", ok |-> FALSE, mode |-> modem.mode, right |-> FALSE,
              early |-> FALSE, refused |-> FALSE, hole |-> {}]

Call(kind, pc) ==
    /\ op.pc = "idle" /\ op.n < MaxCalls
    /\ op' = [Idle(op.n + 1) EXCEPT !.kind = kind, !.pc = pc, !.left = RetryTimes]
    /\ UNCHANGED <<modem, wire, rx, port, mon, res, restarts>>

ReturnLeaking(ok) ==                                    \* mutant: the port stays open
    /\ res' = [kind |-> op.kind, ok |-> ok, mode |-> modem.mode, right |-> modem.written = op.n,
               early |-> op.early, refused |-> op.refused, hole |-> op.hole]
    /\ op' = Idle(op.n) /\ UNCHANGED <<port, rx>>

(* The call returns; the port is closed, the monitor of WaitForAction, a   *)
(* member, is not.                                                         *)
Return(ok) ==
    /\ res' = [kind |-> op.kind, ok |-> ok, mode |-> modem.mode, right |-> modem.written = op.n,
               early |-> op.early, refused |-> op.refused, hole |-> op.hole]
    /\ op' = Idle(op.n) /\ port' = "closed" /\ rx' = <<>>

-----------------------------------------------------------------------------
(* The modem.                                                              *)
Vanish(m) ==           \* it restarts: the port and what is in it go away
    /\ modem' = [m EXCEPT !.mode = "booting", !.known = FALSE]
    /\ wire' = <<>> /\ port' = IF port = "open" THEN "dead" ELSE port

ModemRestarts ==
    /\ modem.mode # "booting" /\ restarts < MaxRestarts /\ restarts' = restarts + 1
    /\ \E to \in {"ready", "dump"} : Vanish([modem EXCEPT !.to = to])
    /\ UNCHANGED <<rx, mon, op, res>>

ModemBoots ==
    /\ modem.mode = "booting"
    /\ modem' = [modem EXCEPT !.mode = modem.to, !.phase = "cmd", !.buf = 0]
    /\ UNCHANGED <<wire, rx, port, mon, op, res, restarts>>

(* udev announces the port: enumerations show it from now on, and monitors *)
(* that are open get the event.                                            *)
UdevAdds ==
    /\ HasPort /\ ~modem.known
    /\ modem' = [modem EXCEPT !.known = TRUE]
    /\ mon' = IF mon = "on" THEN "add" ELSE mon
    /\ op' = IF op.pc = "arm" THEN [op EXCEPT !.hole = @ \cup {"missed"}] ELSE op
    /\ UNCHANGED <<wire, rx, port, res, restarts>>

(* It takes what was written and answers a.  Out of turn, data is an       *)
(* unknown command, and a command is data.                                 *)
Takes(m, a) ==
    /\ modem' = m
    /\ rx' = IF port = "open" /\ a # "none" THEN Append(rx, a) ELSE rx

ModemTakes ==
    /\ modem.mode = "download" /\ wire # <<>>
    /\ LET it == Head(wire)
           whole == [modem EXCEPT !.phase = "cmd", !.buf = IF it.c = "data" /\ @ = 0 THEN it.by ELSE Bad]
       IN \/ /\ modem.phase = "data"
             /\ wire' = Tail(wire) /\ UNCHANGED port
             /\ \/ Takes(whole, "OKAY") /\ it.c # "short"
                \/ Takes([modem EXCEPT !.buf = Bad], "none") /\ it.c # "data"
          \/ /\ modem.phase = "cmd" /\ it.c # "reboot"
             /\ wire' = Tail(wire) /\ UNCHANGED port
             /\ \/ Takes(modem, "FAIL")
                \/ it.c = "download" /\ Takes([modem EXCEPT !.phase = "data", !.buf = 0], "DATA")
                \/ it.c = "flash" /\ Takes([modem EXCEPT !.written = modem.buf], "OKAY")
                \/ it.c = "erase" /\ Takes([modem EXCEPT !.written = 0], "OKAY")
          \/ /\ modem.phase = "cmd" /\ it.c = "reboot"
             /\ Vanish([modem EXCEPT !.to = "ready"])
             /\ UNCHANGED rx
    /\ UNCHANGED <<mon, op, res, restarts>>

-----------------------------------------------------------------------------
(* SwitchFlashMode(FASTBOOT): SwitchToFastbootMode until it succeeds.      *)
SwitchFlashMode == Call("switch", "find")

(* An attempt fails, through the holes hs; the last one ends the call.     *)
Failed(hs) ==
    IF op.left > 1
    THEN /\ op' = [op EXCEPT !.pc = "find", !.left = @ - 1, !.hole = {}]
         /\ UNCHANGED <<rx, port, res>>
    ELSE /\ res' = [kind |-> op.kind, ok |-> FALSE, mode |-> modem.mode, right |-> FALSE,
                    early |-> FALSE, refused |-> FALSE, hole |-> op.hole \cup hs]
         /\ op' = Idle(op.n) /\ UNCHANGED <<rx, port>>

At(pc) == op.pc = pc
Go(pc) == op' = [op EXCEPT !.pc = pc] /\ UNCHANGED <<rx, port, res>>

(* While it boots the modem may be missing on the bus.                     *)
SwitchFind ==
    /\ At("find")
    /\ Go("mode") \/ Failed(IF modem.mode = "booting" THEN {} ELSE {"fault"})
    /\ UNCHANGED <<modem, wire, mon, restarts>>

(* MTKPcieFlashImpl::SwitchFlashMode writes fastboot_switching to the      *)
(* state node, unless it reads there that the modem is in download mode    *)
(* already.                                                                *)
SwitchMode ==
    /\ At("mode") /\ UNCHANGED <<mon, restarts>>
    /\ \/ modem.mode = "download" /\ Go("look") /\ UNCHANGED <<modem, wire>>
       \/ Failed({"fault"}) /\ UNCHANGED <<modem, wire>>
       \/ /\ modem' = [modem EXCEPT !.mode = "booting", !.to = "download", !.known = FALSE]
          /\ wire' = <<>> /\ Go("look")

SwitchLookNever ==                                      \* mutant: waits without looking
    /\ At("look") /\ Go("arm")
    /\ UNCHANGED <<modem, wire, mon, restarts>>

SwitchLook ==
    /\ At("look")
    /\ \/ Go(IF modem.known THEN "check" ELSE "arm")
       \/ /\ op' = [op EXCEPT !.pc = "arm", !.hole = @ \cup {"fault"}]   \* no enumeration
          /\ UNCHANGED <<rx, port, res>>
    /\ UNCHANGED <<modem, wire, mon, restarts>>

(* WaitForAction("add"): a new monitor in place of the old one, then poll  *)
(* until the deadline, which is tested before the events.                  *)
WaitArm ==
    /\ At("arm")
    /\ \/ Go("wait") /\ mon' = "on"
       \/ Failed({"fault"}) /\ mon' = "off"              \* no monitor
    /\ UNCHANGED <<modem, wire, restarts>>

WaitEvent ==
    /\ At("wait") /\ mon = "add" /\ mon' = "on" /\ Go("check")
    /\ UNCHANGED <<modem, wire, restarts>>

WaitDeadlineNever ==                                    \* mutant: polls without a deadline
    /\ At("wait") /\ FALSE /\ UNCHANGED flashVars

WaitDeadline ==
    /\ At("wait")
    /\ Failed(IF mon = "add" \/ ~modem.known THEN {"late"} ELSE {})
    /\ UNCHANGED <<modem, wire, mon, restarts>>

(* Five seconds later, GetModemState.                                      *)
SwitchCheck ==
    /\ At("check")
    /\ \/ modem.mode = "download" /\ Return(TRUE)
       \/ Failed(IF modem.mode = "download" THEN {"fault"} ELSE {})
    /\ UNCHANGED <<modem, wire, mon, restarts>>

-----------------------------------------------------------------------------
(* FastbootFlash: download, the image, flash, each answered once.  Only    *)
(* that there is an answer is looked at.                                   *)
FastbootFlash == Call("flash", "state")
FastbootErase == Call("erase", "state")
FastbootReboot == Call("reboot", "state")

GetModemState ==
    /\ At("state")
    /\ (modem.mode = "download" /\ Go("open")) \/ Return(FALSE)
    /\ UNCHANGED <<modem, wire, mon, restarts>>

OpenPort ==
    /\ At("open")
    /\ \/ Return(FALSE)
       \/ /\ HasPort /\ port' = "open" /\ rx' = <<>>
          /\ op' = [op EXCEPT !.pc = IF op.kind = "flash" THEN "download" ELSE op.kind,
                              !.early = wire # <<>>]
          /\ UNCHANGED res
    /\ UNCHANGED <<modem, wire, mon, restarts>>

AfterUnread(pc) ==                                      \* mutant: no third read
    CASE pc = "download" -> "read1" [] pc = "read1" -> "data" [] pc = "data" -> "read2"
      [] pc = "read2" -> "flash" [] OTHER -> "done"
(* What comes after each write and each read of Flash.                     *)
After(pc) == CASE pc = "download" -> "read1" [] pc = "read1" -> "data"
               [] pc = "data" -> "read2" [] pc = "read2" -> "flash"
               [] pc = "flash" -> "read3" [] pc = "read3" -> "done"

Writes == {"download", "data", "flash", "erase", "reboot"}

(* write() has put out what it had to: Flash goes on to read the answer,   *)
(* Erase and Reboot return without it.  A write that the port accepts in   *)
(* part is not noticed.                                                    *)
WriteDone ==
    /\ \E c \in IF At("data") THEN {"data", "short"} ELSE {op.pc} : wire' = Append(wire, Item(c))
    /\ \/ op.kind # "flash" /\ Return(TRUE)
       \/ /\ op.kind = "flash" /\ op' = [op EXCEPT !.pc = After(@), !.blocked = FALSE]
          /\ UNCHANGED <<rx, port, res>>
    /\ UNCHANGED <<modem, mon, restarts>>

(* A blocking write(), which has no deadline: it fails (the image perhaps  *)
(* after some blocks), blocks while the driver has no room, or is done.    *)
(* When the port dies a write that blocks fails.                           *)
FlashWrite ==
    /\ op.pc \in Writes
    /\ \/ /\ op.blocked => port # "open"
          /\ Return(FALSE) /\ UNCHANGED <<modem, wire, mon, restarts>>
       \/ /\ ~op.blocked /\ At("data") /\ port = "open" /\ wire' = Append(wire, Item("short"))
          /\ Return(FALSE) /\ UNCHANGED <<modem, mon, restarts>>
       \/ /\ ~op.blocked /\ port = "open" /\ op' = [op EXCEPT !.blocked = TRUE]
          /\ UNCHANGED <<modem, wire, rx, port, mon, res, restarts>>
       \/ ~op.blocked /\ port = "open" /\ WriteDone

(* The driver has room again, which the modem owes to nobody.              *)
ModemRoom == op.pc \in Writes /\ op.blocked /\ port = "open" /\ WriteDone

ReadWithTimeout ==
    /\ op.pc \in {"read1", "read2", "read3"}
    /\ \/ rx = <<>> /\ Return(FALSE)
       \/ /\ rx # <<>>
          /\ rx' = Tail(rx)
          /\ op' = [op EXCEPT !.pc = After(@), !.refused = @ \/ Head(rx) = "FAIL"]
          /\ UNCHANGED <<port, res>>
    /\ UNCHANGED <<modem, wire, mon, restarts>>

FlashDone ==
    /\ At("done") /\ Return(TRUE)
    /\ UNCHANGED <<modem, wire, mon, restarts>>

(* PcieReset writes reset to the state node and returns true whatever      *)
(* comes of it.                                                            *)
PcieReset ==
    /\ op.pc = "idle" /\ op.n < MaxCalls
    /\ op' = Idle(op.n + 1)
    /\ res' = [kind |-> "reset", ok |-> TRUE, mode |-> modem.mode, right |-> FALSE,
               early |-> FALSE, refused |-> FALSE, hole |-> {}]
    /\ \/ Vanish([modem EXCEPT !.to = "ready"])
       \/ UNCHANGED <<modem, wire, port>>
    /\ UNCHANGED <<rx, mon, restarts>>

-----------------------------------------------------------------------------
Client ==
    \/ SwitchFind \/ SwitchMode \/ SwitchLook \/ WaitArm \/ WaitEvent \/ WaitDeadline \/ SwitchCheck
    \/ GetModemState \/ OpenPort \/ FlashWrite \/ ReadWithTimeout \/ FlashDone

FlashNext ==
    \/ SwitchFlashMode \/ FastbootFlash \/ FastbootErase \/ FastbootReboot \/ PcieReset
    \/ Client
    \/ ModemRestarts \/ ModemBoots \/ UdevAdds \/ ModemTakes \/ ModemRoom

(* The calling thread keeps running: poll and select have deadlines.  A    *)
(* write() that blocks is no step of it: it ends when the driver has room. *)
FlashFairness == WF_flashVars(Client)

-----------------------------------------------------------------------------
(* Every variable has its type; a call that is over has closed the port,   *)
(* on whatever path it returned.  (The udev monitor of WaitForAction is    *)
(* not closed: it stays open until the next wait replaces it.)             *)
FlashTypeOK ==
    /\ modem \in [mode : {"ready", "booting", "download", "dump"},
                  to : {"ready", "download", "dump"}, known : BOOLEAN, phase : {"cmd", "data"},
                  buf : 0..Bad, written : 0..Bad]
    /\ port \in {"closed", "open", "dead"} /\ mon \in {"off", "on", "add"}
    /\ op.n \in 0..MaxCalls /\ op.left \in 0..RetryTimes
    /\ rx # <<>> => port # "closed"
    /\ wire # <<>> => HasPort
    /\ op.pc = "idle" => port = "closed"

(* SwitchFlashMode tells the truth about the modem: true only in download  *)
(* mode (not in dump mode, which shows the same port), and false there     *)
(* only through a hole of its last attempt: the add event came between     *)
(* FindDevice and the monitor of WaitForAction and was missed, the         *)
(* deadline came before the event was read or announced, or a system call  *)
(* failed (no enumeration, no monitor, a state node that cannot be read).  *)
SwitchVerdict ==
    res.kind = "switch" =>
        /\ res.ok => res.mode = "download"
        /\ ~res.ok /\ res.mode = "download" => res.hole # {}

(* When Flash returns true the partition holds its image, unless the modem *)
(* answered FAIL, which Flash reads but does not look at, or the port was  *)
(* opened while the modem still owed the answer to an earlier command:     *)
(* Erase returns without reading it, a timed out Flash too.                *)
FlashVerdict == res.kind = "flash" /\ res.ok => res.right \/ res.refused \/ res.early

(* Every call returns, however often the modem restarts or stops           *)
(* answering, unless one of its writes blocks for ever: the port stays and *)
(* the modem takes nothing more, and write() has no deadline.              *)
FlashReturns == (op.pc # "idle") ~> (op.pc = "idle" \/ [](op.blocked /\ port = "open"))
=============================================================================
