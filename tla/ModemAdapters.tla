--------------------------- MODULE ModemAdapters ---------------------------
(***************************************************************************)
(* The parts of the adapter layer that work on the kernel's view of the    *)
(* modem.  They share no memory and no lock, and no property relates two   *)
(* of them, so a behaviour exercises one: their interleavings add nothing. *)
(***************************************************************************)
EXTENDS DeviceMonitor, ModemReset, FastbootFlash

VARIABLE part

adapterVars == <<part, monitorVars, resetVars, flashVars>>

AdaptersInit ==
    /\ part \in {"monitor", "reset", "flash"}
    /\ MonitorInit /\ ResetInit /\ FlashInit
    /\ part # "flash" => modem.mode = "ready"

AdaptersNext ==
    /\ UNCHANGED part
    /\ \/ part = "monitor" /\ MonitorNext /\ UNCHANGED <<resetVars, flashVars>>
       \/ part = "reset" /\ ResetNext /\ UNCHANGED <<monitorVars, flashVars>>
       \/ part = "flash" /\ FlashNext /\ UNCHANGED <<monitorVars, resetVars>>

AdaptersSpec ==
    /\ AdaptersInit /\ [][AdaptersNext]_adapterVars
    /\ MonitorFairness /\ FlashFairness

(* Every variable of the parts has its type (MonitorTypeOK, FlashTypeOK);  *)
(* in particular stop() frees no monitor that is not there, and a flash    *)
(* call has closed the port on whatever path it returns.                   *)
AdaptersTypeOK == MonitorTypeOK /\ FlashTypeOK
=============================================================================
