----------------------------- MODULE ModemReset -----------------------------
(***************************************************************************)
(* Device::resetDevice: a pulse on a GPIO of a modem on USB                *)
(* (resetUsbDevice), or "reset" written to the driver of one on PCIe       *)
(* (resetPcieDevice).  Both write text streams that are flushed by         *)
(* close(), when the result is no longer looked at: a step is "closed"     *)
(* (the file did not open), "unseen" (the kernel refused the write) or     *)
(* "done".                                                                 *)
(*                                                                         *)
(* The kernel's GPIO is external: it refuses a value while the direction   *)
(* is in, and direction "out" drives the line low.                         *)
(***************************************************************************)
EXTENDS Naturals

CONSTANT MaxResets     \* bound: calls of resetDevice()

ASSUME ResetAssumption == MaxResets \in Nat

VARIABLES gpio, reset,
          rh  \* history: pulsed: this reset has pulled the line low, or reached the PCIe
              \* driver; unseen, spent, cut: in some reset a write was refused, the
              \* attempts to release the line were used up, LOW could not be written

resetVars == <<gpio, reset, rh>>

ResetInit ==
    /\ gpio = [exported |-> FALSE, out |-> FALSE, high |-> FALSE]
    /\ reset = [pc |-> "idle", bus |-> "usb", ok |-> FALSE, tries |-> 0, n |-> 0]
    /\ rh = [pulsed |-> FALSE, unseen |-> FALSE, spent |-> FALSE, cut |-> FALSE]

ResetDevice(bus) ==
    /\ reset.pc = "idle" /\ reset.n < MaxResets
    /\ reset' = [pc |-> IF bus = "pci" THEN "pci" ELSE IF gpio.exported THEN "high" ELSE "export",
                 bus |-> bus, ok |-> FALSE, tries |-> 0, n |-> reset.n + 1]
    /\ rh' = [rh EXCEPT !.pulsed = FALSE]
    /\ UNCHANGED gpio

(* checkResetPara refuses the parameters: nothing is done.                 *)
CheckResetPara ==
    /\ reset.pc = "idle" /\ reset.n < MaxResets
    /\ reset' = [reset EXCEPT !.ok = FALSE, !.n = @ + 1]
    /\ UNCHANGED <<gpio, rh>>

AfterStep(pc) == CASE pc = "export" -> "high" [] pc = "high" -> "dir" [] pc = "dir" -> "low"
                   [] pc = "low" -> "retry" [] pc \in {"retry", "pci"} -> "idle"

Driven(pc) == CASE pc = "export" -> [exported |-> TRUE, out |-> FALSE, high |-> FALSE]
                [] pc = "dir"    -> [gpio EXCEPT !.out = TRUE, !.high = FALSE]
                [] pc = "pci"    -> gpio
                [] OTHER         -> [gpio EXCEPT !.high = pc # "low"]

Retries == 5

AgainShort(tries) == tries < Retries - 1               \* mutant: one attempt too few

Again(tries) == tries < Retries

ResetStep(o) ==
    /\ reset.pc # "idle"
    /\ LET pc == reset.pc IN
       /\ pc \notin {"export", "pci"} /\ ~gpio.exported => o = "closed"
       /\ pc \in {"high", "low", "retry"} /\ ~gpio.out => o # "done"
       /\ gpio' = IF o = "done" THEN Driven(pc) ELSE gpio
       /\ reset' = [reset EXCEPT
                       !.tries = IF pc = "retry" THEN @ + 1 ELSE @,
                       !.pc = IF o # "closed" THEN AfterStep(pc)
                              ELSE IF pc = "retry" /\ Again(reset.tries + 1) THEN "retry" ELSE "idle",
                       !.ok = pc \in {"retry", "pci"} /\ o # "closed"]
       /\ rh' = [rh EXCEPT !.pulsed = @ \/ (pc \in {"low", "pci"} /\ o = "done"),
                           !.unseen = @ \/ (pc # "high" /\ o = "unseen"),
                           !.spent = @ \/ (o = "closed" /\ reset'.tries = Retries),
                           !.cut = @ \/ (pc = "low" /\ o = "closed")]

ResetNext ==
    \/ \E bus \in {"usb", "pci"} : ResetDevice(bus)
    \/ CheckResetPara
    \/ \E o \in {"closed", "unseen", "done"} : ResetStep(o)

(* A reset that reports success has reached the modem, and has released    *)
(* its GPIO again; and a reset that is over holds the GPIO low, the modem  *)
(* with it, only if five attempts to release it failed, or LOW could not   *)
(* be written (line and all: the direction had pulled it low already), or  *)
(* the kernel refused a write that writeToFile reported as done.           *)
ResetReleases ==
    reset.pc = "idle" =>
        /\ reset.ok => rh.unseen \/ (rh.pulsed /\ (reset.bus = "usb" => gpio.high))
        /\ gpio.out /\ ~gpio.high => rh.unseen \/ rh.spent \/ rh.cut
=============================================================================
