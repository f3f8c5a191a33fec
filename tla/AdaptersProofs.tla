--------------------------- MODULE AdaptersProofs ---------------------------
(* Theorems about the adapters, for every value of the constants.          *)
EXTENDS ModemAdapters, MonitorProofs, FlashProofs

-----------------------------------------------------------------------------
(* Device::resetDevice.                                                    *)

ResetPc == {"idle", "export", "high", "dir", "low", "retry", "pci"}

ResetTypeOK ==
    /\ gpio \in [exported : BOOLEAN, out : BOOLEAN, high : BOOLEAN]
    /\ reset \in [pc : ResetPc, bus : {"usb", "pci"}, ok : BOOLEAN, tries : Nat, n : Nat]
    /\ rh \in [pulsed : BOOLEAN, unseen : BOOLEAN, spent : BOOLEAN, cut : BOOLEAN]

(* The line is low only for a reason that a step before LOW can tell;      *)
(* whoever comes to release it has pulled it low; and the attempts are     *)
(* counted from the first to the last.                                     *)
ResetInv ==
    /\ ResetTypeOK
    /\ ResetReleases
    /\ ~gpio.exported => ~gpio.out
    /\ reset.pc \in {"idle", "export", "high", "dir", "pci"} /\ gpio.out /\ ~gpio.high
         => rh.unseen \/ rh.spent \/ rh.cut
    /\ reset.pc = "retry" => (rh.unseen \/ rh.pulsed) /\ reset.tries < Retries
    /\ reset.pc \in {"export", "high", "dir", "low"} => reset.tries = 0
    /\ reset.pc = "pci" => reset.bus = "pci"

LEMMA ResetInvInit == ResetInit => ResetInv
  BY DEF ResetInit, ResetInv, ResetTypeOK, ResetReleases, ResetPc

LEMMA ResetInvNext == ResetInv /\ ResetNext => ResetInv'
<1> SUFFICES ASSUME ResetInv, ResetNext PROVE ResetInv'
  OBVIOUS
<1>0. ResetTypeOK
  BY DEF ResetInv
<1>1. ASSUME NEW bus \in {"usb", "pci"}, ResetDevice(bus) PROVE ResetInv'
  <2>1. rh' \in [pulsed : BOOLEAN, unseen : BOOLEAN, spent : BOOLEAN, cut : BOOLEAN]
    BY <1>0, <1>1 DEF ResetDevice, ResetTypeOK
  <2>2. reset' \in [pc : ResetPc, bus : {"usb", "pci"}, ok : BOOLEAN, tries : Nat, n : Nat]
    BY <1>0, <1>1 DEF ResetDevice, ResetTypeOK, ResetPc
  <2>3. ResetTypeOK'
    BY <1>0, <1>1, <2>1, <2>2 DEF ResetDevice, ResetTypeOK
  <2>4. /\ reset'.pc \in {"pci", "high", "export"} /\ reset'.tries = 0
        /\ reset'.pc = "pci" => reset'.bus = "pci"
    BY <1>0, <1>1 DEF ResetDevice, ResetTypeOK
  <2>5. rh'.unseen = rh.unseen /\ rh'.spent = rh.spent /\ rh'.cut = rh.cut
        /\ gpio' = gpio /\ reset.pc = "idle"
    BY <1>0, <1>1 DEF ResetDevice, ResetTypeOK
  <2> QED BY <2>3, <2>4, <2>5 DEF ResetInv, ResetReleases, Retries
<1>2. ASSUME NEW o \in {"closed", "unseen", "done"}, ResetStep(o) PROVE ResetInv'
  <2>0. reset.pc # "idle"
    BY <1>2 DEF ResetStep
  <2>1. ResetTypeOK'
    <3>1. gpio' \in [exported : BOOLEAN, out : BOOLEAN, high : BOOLEAN]
      BY <1>0, <1>2 DEF ResetStep, ResetTypeOK, Driven
    <3>2. reset' \in [pc : ResetPc, bus : {"usb", "pci"}, ok : BOOLEAN, tries : Nat, n : Nat]
      <4> DEFINE pc1 == IF o # "closed" THEN AfterStep(reset.pc)
                        ELSE IF reset.pc = "retry" /\ Again(reset.tries + 1) THEN "retry" ELSE "idle"
                 tries1 == IF reset.pc = "retry" THEN reset.tries + 1 ELSE reset.tries
                 ok1 == reset.pc \in {"retry", "pci"} /\ o # "closed"
      <4>1. reset' = [reset EXCEPT !.tries = tries1, !.pc = pc1, !.ok = ok1]
        BY <1>2 DEF ResetStep
      <4>2. pc1 \in ResetPc /\ tries1 \in Nat /\ ok1 \in BOOLEAN
        BY <1>0, <2>0 DEF ResetTypeOK, ResetPc, AfterStep
      <4> HIDE DEF pc1, tries1, ok1
      <4> QED BY <1>0, <4>1, <4>2 DEF ResetTypeOK
    <3>3. rh' \in [pulsed : BOOLEAN, unseen : BOOLEAN, spent : BOOLEAN, cut : BOOLEAN]
      BY <1>0, <1>2 DEF ResetStep, ResetTypeOK
    <3> QED BY <3>1, <3>2, <3>3 DEF ResetTypeOK
  <2>2. CASE reset.pc = "export"
    BY <1>2, <2>1, <2>2 DEF ResetInv, ResetStep, ResetTypeOK, ResetReleases, AfterStep, Driven, Retries
  <2>3. CASE reset.pc = "high"
    BY <1>2, <2>1, <2>3 DEF ResetInv, ResetStep, ResetTypeOK, ResetReleases, AfterStep, Driven, Retries
  <2>4. CASE reset.pc = "dir"
    <3>1. CASE o = "done"
      <4>1. gpio.exported /\ gpio' = [gpio EXCEPT !.out = TRUE, !.high = FALSE]
        BY <1>2, <2>4, <3>1 DEF ResetStep, Driven
      <4>2. reset'.pc = "low" /\ reset'.tries = reset.tries
        BY <1>0, <1>2, <2>4, <3>1 DEF ResetStep, ResetTypeOK, AfterStep
      <4> QED BY <1>0, <2>1, <2>4, <4>1, <4>2 DEF ResetInv, ResetTypeOK, ResetReleases
    <3>2. CASE o # "done"
      BY <1>2, <2>1, <2>4, <3>2 DEF ResetInv, ResetStep, ResetTypeOK, ResetReleases, AfterStep, Retries
    <3> QED BY <3>1, <3>2
  <2>5. CASE reset.pc = "low"
    BY <1>2, <2>1, <2>5 DEF ResetInv, ResetStep, ResetTypeOK, ResetReleases, AfterStep, Driven, Retries
  <2>6. CASE reset.pc = "retry"
    <3>1. CASE o = "closed"
      <4>1. /\ gpio' = gpio /\ reset'.tries = reset.tries + 1 /\ ~reset'.ok
            /\ reset'.pc = IF reset.tries + 1 < 5 THEN "retry" ELSE "idle"
            /\ rh'.unseen = rh.unseen /\ rh'.cut = rh.cut /\ rh'.pulsed = rh.pulsed
            /\ rh'.spent = (rh.spent \/ reset.tries + 1 = 5)
        BY <1>0, <1>2, <2>6, <3>1 DEF ResetStep, ResetTypeOK, Retries, Again
      <4> QED BY <1>0, <2>1, <2>6, <4>1 DEF ResetInv, ResetTypeOK, ResetReleases, Retries
    <3>2. CASE o # "closed"
      BY <1>2, <2>1, <2>6, <3>2 DEF ResetInv, ResetStep, ResetTypeOK, ResetReleases, AfterStep, Driven
    <3> QED BY <3>1, <3>2
  <2>7. CASE reset.pc = "pci"
    BY <1>2, <2>1, <2>7 DEF ResetInv, ResetStep, ResetTypeOK, ResetReleases, AfterStep, Driven, Retries
  <2> QED BY <1>2, <2>2, <2>3, <2>4, <2>5, <2>6, <2>7 DEF ResetInv, ResetTypeOK, ResetPc, ResetStep
<1>3. CASE CheckResetPara
  <2>1. /\ reset' \in [pc : ResetPc, bus : {"usb", "pci"}, ok : BOOLEAN, tries : Nat, n : Nat]
        /\ reset'.pc = "idle" /\ reset.pc = "idle" /\ reset'.ok = FALSE
    <3>1. reset' = [reset EXCEPT !.ok = FALSE, !.n = reset.n + 1] /\ reset.pc = "idle"
      BY <1>3 DEF CheckResetPara
    <3>2. reset \in [pc : ResetPc, bus : {"usb", "pci"}, ok : BOOLEAN, tries : Nat, n : Nat]
      BY <1>0 DEF ResetTypeOK
    <3>3. reset'.pc = "idle" /\ reset'.bus = reset.bus /\ reset'.tries = reset.tries
      BY <3>1, <3>2
    <3>4. reset'.ok = FALSE
      BY <3>1, <3>2
    <3>5. reset' \in [pc : ResetPc, bus : {"usb", "pci"}, ok : BOOLEAN, tries : Nat, n : Nat]
      <4> DEFINE ok1 == FALSE
                 n1 == reset.n + 1
      <4>1. reset' = [reset EXCEPT !.ok = ok1, !.n = n1] /\ ok1 \in BOOLEAN
        BY <3>1
      <4>2. n1 \in Nat
        BY <3>2
      <4> HIDE DEF ok1, n1
      <4> QED BY <3>2, <4>1, <4>2
    <3> QED BY <3>1, <3>3, <3>4, <3>5
  <2>2. gpio' = gpio /\ rh' = rh
    BY <1>3 DEF CheckResetPara
  <2> QED BY <1>0, <2>1, <2>2 DEF ResetInv, ResetTypeOK, ResetReleases
<1> QED BY <1>1, <1>2, <1>3 DEF ResetNext

LEMMA ResetInvStutter == ResetInv /\ UNCHANGED resetVars => ResetInv'
  BY DEF ResetInv, ResetTypeOK, ResetReleases, resetVars

-----------------------------------------------------------------------------
(* The parts together: a step of one leaves the others alone.              *)

AdaptersInv == MonitorInv /\ ResetInv /\ FlashInv

LEMMA MonitorInvStutter == MonitorInv /\ UNCHANGED monitorVars => MonitorInv'
<1> SUFFICES ASSUME MonitorInv, UNCHANGED monitorVars PROVE MonitorInv'
  OBVIOUS
<1>1. MonitorTypes'
  BY DEF MonitorInv, MonitorTypes, monitorVars, members, kernel, qthreads
<1>2. MonitorControl'
  BY DEF MonitorInv, MonitorControl, monitorVars, members, kernel, qthreads
<1>3. PostedInv'
  BY DEF MonitorInv, PostedInv, Begun, monitorVars, members, kernel, qthreads
<1>4. FreedInv'
  BY DEF MonitorInv, FreedInv, FreedUnused, monitorVars, members, kernel, qthreads
<1>5. ToldInv'
  BY DEF MonitorInv, ToldInv, monitorVars, members, kernel, qthreads
<1> QED BY <1>1, <1>2, <1>3, <1>4, <1>5 DEF MonitorInv

LEMMA FlashInvStutter == FlashInv /\ UNCHANGED flashVars => FlashInv'
<1> SUFFICES ASSUME FlashInv, UNCHANGED flashVars PROVE FlashInv'
  OBVIOUS
<1>1. FlashTypes' /\ FlashControl'
  BY DEF FlashInv, FlashTypes, FlashControl, HasPort, flashVars
<1>2. SwitchProgress' /\ FlashProgress'
  <2>1. (Clean' <=> Clean) /\ (Nothing' <=> Nothing) /\ (Loaded' <=> Loaded)
    BY DEF Clean, Nothing, Loaded, flashVars
  <2>2. \A c : (Asked(c)' <=> Asked(c)) /\ (Told(c)' <=> Told(c))
    BY DEF Asked, Told, Item, flashVars
  <2>3. SwitchProgress'
    BY DEF FlashInv, SwitchProgress, flashVars
  <2>4. modem' = modem /\ wire' = wire /\ port' = port /\ op' = op
    BY DEF flashVars
  <2>5. FlashProgress'
    BY <2>1, <2>2, <2>4 DEF FlashInv, FlashProgress
  <2> QED BY <2>3, <2>5
<1>3. SwitchVerdict' /\ FlashVerdict'
  BY DEF FlashInv, SwitchVerdict, FlashVerdict, flashVars
<1> QED BY <1>1, <1>2, <1>3 DEF FlashInv

LEMMA AdaptersInvInit == AdaptersInit => AdaptersInv
  BY MonitorInvInit, ResetInvInit, FlashInvInit DEF AdaptersInit, AdaptersInv

LEMMA AdaptersInvNext == AdaptersInv /\ [AdaptersNext]_adapterVars => AdaptersInv'
<1> SUFFICES ASSUME AdaptersInv, [AdaptersNext]_adapterVars PROVE AdaptersInv'
  OBVIOUS
<1>1. CASE UNCHANGED adapterVars
  BY <1>1, MonitorInvStutter, ResetInvStutter, FlashInvStutter DEF AdaptersInv, adapterVars
<1>2. CASE MonitorNext /\ UNCHANGED <<resetVars, flashVars>>
  BY <1>2, MonitorInvNext, ResetInvStutter, FlashInvStutter DEF AdaptersInv
<1>3. CASE ResetNext /\ UNCHANGED <<monitorVars, flashVars>>
  BY <1>3, MonitorInvStutter, ResetInvNext, FlashInvStutter DEF AdaptersInv
<1>4. CASE FlashNext /\ UNCHANGED <<monitorVars, resetVars>>
  BY <1>4, MonitorInvStutter, ResetInvStutter, FlashInvNext DEF AdaptersInv
<1> QED BY <1>1, <1>2, <1>3, <1>4 DEF AdaptersNext

LEMMA AdaptersAlways == AdaptersSpec => []AdaptersInv
  BY AdaptersInvInit, AdaptersInvNext, PTL DEF AdaptersSpec

(* Every variable of the monitor and of the flash operations keeps its     *)
(* type, for any bounds: stop() frees no monitor that is not there and a   *)
(* flash call closes the port, on any path.                                *)
THEOREM AdaptersTypeCorrect == AdaptersSpec => []AdaptersTypeOK
<1>1. AdaptersInv => AdaptersTypeOK
  BY MonitorInvType, FlashInvType DEF AdaptersInv, AdaptersTypeOK
<1> QED BY <1>1, AdaptersAlways, PTL

(* However many threads start() creates, before or after an earlier one    *)
(* has left its loop, two of them are never in checkDeviceEvents: the      *)
(* object lives in the first thread and moveToThread cannot take it away.  *)
THEOREM OnePollerCorrect == AdaptersSpec => []OnePoller
<1>1. AdaptersInv => OnePoller
  BY OnePollerKept DEF AdaptersInv, MonitorInv
<1> QED BY <1>1, AdaptersAlways, PTL

(* Device events reach the application in the order of udev, each at most  *)
(* once for every start() so far, whatever number of events is queued      *)
(* between udev, the polling thread and the application's event loop.      *)
THEOREM ToldPerStartCorrect == AdaptersSpec => []ToldPerStart
<1>1. AdaptersInv => ToldPerStart
  BY ToldFromInv DEF AdaptersInv, MonitorInv
<1> QED BY <1>1, AdaptersAlways, PTL

(* The udev monitor that stop() frees is used afterwards only by a handler *)
(* that held it when stop() freed it or fetched the member before stop(),  *)
(* one statement later, cleared it; never by one that begins after stop(). *)
THEOREM FreedUnusedCorrect == AdaptersSpec => []FreedUnused
<1>1. AdaptersInv => FreedUnused
  BY DEF AdaptersInv, MonitorInv, FreedInv
<1> QED BY <1>1, AdaptersAlways, PTL

(* Device::resetDevice, after any number of resets: success means that the *)
(* modem was reached and its GPIO released, and a reset that is over holds *)
(* the line low only for the three reasons named in ResetReleases.         *)
THEOREM ResetReleasesCorrect == AdaptersSpec => []ResetReleases
<1>1. AdaptersInv => ResetReleases
  BY DEF AdaptersInv, ResetInv
<1> QED BY <1>1, AdaptersAlways, PTL

(* SwitchFlashMode returns true only with the modem in download mode, and  *)
(* false there only when its last attempt missed the add event, came to    *)
(* its deadline before it had read the event, or met a failing system      *)
(* call; for any number of calls, retries and restarts of the modem.       *)
THEOREM SwitchVerdictCorrect == AdaptersSpec => []SwitchVerdict
<1>1. AdaptersInv => SwitchVerdict
  BY DEF AdaptersInv, FlashInv
<1> QED BY <1>1, AdaptersAlways, PTL

(* Flash returns true only with the image in the partition, or after a     *)
(* FAIL it did not look at, or on a port with an answer still owed.        *)
THEOREM FlashVerdictCorrect == AdaptersSpec => []FlashVerdict
<1>1. AdaptersInv => FlashVerdict
  BY DEF AdaptersInv, FlashInv
<1> QED BY <1>1, AdaptersAlways, PTL
=============================================================================
