---------------------------- MODULE ACPIBattery ----------------------------
(***************************************************************************)
(* AppleACPIBatteryManager and its AppleACPIBatteryDevice: the battery as  *)
(* the firmware reports it, and what the driver tells the power management *)
(* of it.                                                                  *)
(*                                                                         *)
(* A poll evaluates _STA, _BIF and _BST one after the other; the battery   *)
(* may change in between, and each evaluation may fail.  Polls are made by *)
(* a timer, on wake-up and on notifications of the firmware.  A            *)
(* notification is looked at outside the gate and acted upon inside it.    *)
(* Rates, voltages, names and serial numbers are left out, and so is the    *)
(* polling period that a debugging property overrides.                     *)
(***************************************************************************)
EXTENDS Naturals

CONSTANTS
  MaxChanges,   \* bound: how often the battery changes
  MaxFailures   \* bound: how often an evaluation fails

VARIABLES
  battery,      \* the battery, as the firmware sees it (external)
  notified,     \* a notification is under way (external)
  changes, failures,
  fBatterySTA,  \* the presence bit of the manager's copy of _STA
  message,      \* message(): idle, what it read of _STA, or what it waits to do in the gate
  fBattery,     \* BOOLEAN: the battery device has been created
  gate,         \* BOOLEAN: fBatteryGate has been created
  poll,         \* the next evaluation of the poll under way, "none" without one
  fPollTimer,   \* armed?
  fBatteryReadAllTimer,
  fPollingInterval,
  fMaxCapacity, \* BOOLEAN: known
  fBatteryPresent, fACConnected, fACChargeCapable,
  source,       \* the properties of the power source
  settingsChanged, \* a setter of IOPMPowerSource has changed them since updateStatus (external)
  told          \* the properties when updateStatus last told of a change

batteryVars == <<battery, notified, changes, failures, fBatterySTA, message, fBattery, gate, poll,
                 fPollTimer, fBatteryReadAllTimer, fPollingInterval, fMaxCapacity,
                 fBatteryPresent, fACConnected, fACChargeCapable, source, settingsChanged, told>>

\* What _BST says of a battery that is present; capacity tells a nearly empty one.
Status == {"charging", "discharging", "both", "charged"}
Battery == [present : {TRUE}, status : Status, empty : BOOLEAN]
             \cup {[present |-> FALSE, status |-> "charged", empty |-> FALSE]}
PowerSource == [installed : BOOLEAN, charging : BOOLEAN, charged : BOOLEAN,
                external : BOOLEAN, chargeCapable : BOOLEAN]

TypeOK ==
  /\ battery \in Battery /\ changes \in 0..MaxChanges /\ failures \in 0..MaxFailures
  /\ message \in {"idle", "present", "absent", "inserted", "removed", "alarm"}
  /\ poll \in {"none", "_STA", "_BIF", "_BST"}
  /\ fPollingInterval \in {"default", "quick"}
  /\ {notified, fBatterySTA, fBattery, gate, fPollTimer, fBatteryReadAllTimer, fMaxCapacity,
      fBatteryPresent, fACConnected, fACChargeCapable, settingsChanged} \subseteq BOOLEAN
  /\ {source, told} \subseteq PowerSource

\* start.  With more than one bay _STA is evaluated first, and an empty bay gets no
\* device (skipBattery); with one bay, or when that evaluation fails, there is one.  The
\* first poll of a device runs before the gates exist.
Init ==
  /\ battery \in Battery /\ notified = FALSE /\ changes = 0 /\ failures = 0
  /\ \/ fBatterySTA = FALSE /\ fBattery = TRUE
     \/ fBatterySTA = battery.present /\ fBattery = battery.present
  /\ message = "idle" /\ gate = FALSE
  /\ poll = (IF fBattery THEN "_STA" ELSE "none")
  /\ fPollTimer = FALSE /\ fBatteryReadAllTimer = fBattery
  /\ fPollingInterval = "default" /\ fMaxCapacity = FALSE
  /\ fBatteryPresent = FALSE /\ fACConnected = FALSE /\ fACChargeCapable = FALSE
  /\ source = [installed |-> FALSE, charging |-> FALSE, charged |-> FALSE,
               external |-> FALSE, chargeCapable |-> FALSE]
  /\ settingsChanged = TRUE /\ told = source

\* The rest of start; without a device there is nothing to create gates for.
createGates ==
  /\ fBattery /\ ~gate /\ poll = "none"
  /\ gate' = TRUE
  /\ UNCHANGED <<battery, notified, changes, failures, fBatterySTA, message, fBattery, poll,
                 fPollTimer, fBatteryReadAllTimer, fPollingInterval, fMaxCapacity, fBatteryPresent,
                 fACConnected, fACChargeCapable, source, settingsChanged, told>>

-----------------------------------------------------------------------------
(* Polls, inside the gate                                                  *)

InGate == gate /\ poll = "none"

\* pollBatteryState up to the first evaluation.
existingBatteryPath == poll' = "_STA" /\ UNCHANGED <<fPollTimer, fBatteryReadAllTimer>>
newBatteryPath == poll' = "_STA" /\ fPollTimer' = FALSE /\ fBatteryReadAllTimer' = TRUE

\* Deviation: a poll that did not find a battery does not come back.
restartTimer_onSuccess == poll' = "none" /\ fPollTimer' = (poll = "_BST")

\* The end of pollBatteryState.
restartTimer == poll' = "none" /\ fPollTimer' = TRUE

\* External charge, AC and the completion of charging are not cleared.
clearBatteryState ==
  /\ fBatteryPresent' = FALSE /\ fACConnected' = FALSE /\ fACChargeCapable' = FALSE

Cleared(ps) == [ps EXCEPT !.installed = FALSE, !.charging = FALSE]

\* IOPMPowerSource (external): its setters notice a change of their property, and
\* updateStatus tells of noticed changes.  setFullyCharged is not one of them: it writes
\* the property itself.  Without a noticed change there may still be one of what the
\* model leaves out, and all properties are told then.
Noticed == settingsChanged \/ [source' EXCEPT !.charged = source.charged] # source

updateStatus ==
  /\ told' \in IF Noticed THEN {source'} ELSE {told, source'}
  /\ settingsChanged' = FALSE

Fails == failures < MaxFailures /\ failures' = failures + 1

\* getBatterySTA, and what follows when there is no battery.  When the evaluation
\* fails fBatteryPresent is what it was.
getBatterySTA ==
  /\ poll = "_STA"
  /\ \/ /\ fBatterySTA' = battery.present /\ fBatteryPresent' = battery.present
        /\ UNCHANGED failures
     \/ Fails /\ UNCHANGED <<fBatterySTA, fBatteryPresent>>
  /\ IF fBatteryPresent'
       THEN /\ poll' = "_BIF"
            /\ source' = [source EXCEPT !.installed = IF failures' = failures THEN TRUE ELSE @]
            /\ settingsChanged' = Noticed
            /\ UNCHANGED <<fACConnected, fACChargeCapable, told, fPollTimer>>
       ELSE /\ fACConnected' = FALSE /\ fACChargeCapable' = FALSE
            /\ source' = [Cleared(source) EXCEPT !.charged = FALSE]
            /\ updateStatus
            /\ restartTimer
  /\ UNCHANGED <<battery, notified, changes, message, fBattery, gate, fBatteryReadAllTimer,
                 fPollingInterval, fMaxCapacity>>

\* fMaxCapacity is kept when the evaluation fails, as it is when a battery is removed.
getBatteryBIF ==
  /\ poll = "_BIF"
  /\ poll' = "_BST"
  /\ \/ fMaxCapacity' = TRUE /\ UNCHANGED failures
     \/ Fails /\ UNCHANGED fMaxCapacity
  /\ UNCHANGED <<battery, notified, changes, fBatterySTA, message, fBattery, gate, fPollTimer,
                 fBatteryReadAllTimer, fPollingInterval, fBatteryPresent, fACConnected,
                 fACChargeCapable, source, settingsChanged, told>>

\* setBatteryBST with what the firmware said; capacity is compared only when
\* fMaxCapacity is known.
setBatteryBST(status, empty) ==
  /\ fACConnected' = (status # "discharging")
  /\ fACChargeCapable' = (status \in {"charging", "charged"})
  /\ source' = [source EXCEPT !.charging = (status = "charging"),
                              !.charged = (status = "charged"),
                              !.external = fACConnected',
                              !.chargeCapable = fACChargeCapable']
  /\ updateStatus
  /\ fPollingInterval' =
       IF ~fMaxCapacity THEN fPollingInterval
       ELSE IF empty /\ status # "charged" /\ fACConnected' THEN "quick" ELSE "default"
  /\ fBatteryReadAllTimer' = FALSE

\* The battery may be gone by now: the firmware then fails, or answers with what it
\* last knew.
getBatteryBST ==
  /\ poll = "_BST"
  /\ \/ /\ battery.present
        /\ setBatteryBST(battery.status, battery.empty)
        /\ UNCHANGED failures
     \/ /\ ~battery.present
        /\ \E status \in Status : setBatteryBST(status, FALSE)
        /\ UNCHANGED failures
     \/ /\ \/ ~battery.present /\ UNCHANGED failures
           \/ Fails
        /\ UNCHANGED <<fACConnected, fACChargeCapable, source, settingsChanged, told,
                       fPollingInterval, fBatteryReadAllTimer>>
  /\ restartTimer
  /\ UNCHANGED <<battery, notified, changes, fBatterySTA, message, fBattery, gate, fMaxCapacity,
                 fBatteryPresent>>

unchangedByPoll == <<battery, changes, failures, fBatterySTA, fBattery, gate, fPollingInterval,
                     fMaxCapacity, fBatteryPresent, fACConnected, fACChargeCapable, source,
                     settingsChanged, told>>

\* The timer runs on the work loop, with or without the gates.
pollingTimeOut ==
  /\ poll = "none" /\ fPollTimer
  /\ fPollTimer' = FALSE /\ poll' = "_STA"
  /\ UNCHANGED <<notified, message, fBatteryReadAllTimer, unchangedByPoll>>

\* incompleteReadTimeOut has no step: fBatteryReadAllTimer was never added to the
\* work loop.

\* Wake-up asks for path 1, which is kExistingBatteryPath.
setPowerState ==
  /\ InGate
  /\ existingBatteryPath
  /\ UNCHANGED <<notified, message, unchangedByPoll>>

\* Outside the gate, on another thread than the work loop's.
setPollingInterval ==
  /\ fBattery
  /\ fPollingInterval' = "default"
  /\ UNCHANGED <<battery, notified, changes, failures, fBatterySTA, message, fBattery, gate, poll,
                 fPollTimer, fBatteryReadAllTimer, fMaxCapacity, fBatteryPresent,
                 fACConnected, fACChargeCapable, source, settingsChanged, told>>

-----------------------------------------------------------------------------
(* Notifications                                                           *)

\* message: _STA is read at once; without a gate, or when the evaluation fails, the
\* notification is dropped.
receiveMessage ==
  /\ notified /\ message = "idle"
  /\ notified' = FALSE
  /\ \/ /\ gate
        /\ message' = IF battery.present THEN "present" ELSE "absent"
        /\ UNCHANGED failures
     \/ ~gate /\ UNCHANGED <<message, failures>>
     \/ Fails /\ UNCHANGED message
  /\ UNCHANGED <<battery, changes, fBatterySTA, fBattery, gate, poll, fPollTimer,
                 fBatteryReadAllTimer, fPollingInterval, fMaxCapacity, fBatteryPresent, fACConnected,
                 fACChargeCapable, source, settingsChanged, told>>

\* What was read is compared with fBatterySTA, which a poll may be about to change.
compareSTA ==
  /\ message \in {"present", "absent"}
  /\ message' = CASE fBatterySTA = (message = "present") -> "alarm"
                  [] message = "present" /\ ~fBatterySTA -> "inserted"
                  [] message = "absent" /\ fBatterySTA   -> "removed"
  /\ UNCHANGED <<notified, poll, fPollTimer, fBatteryReadAllTimer, unchangedByPoll>>

handleBatteryInserted ==
  /\ InGate /\ message = "inserted"
  /\ message' = "idle"
  /\ newBatteryPath
  /\ UNCHANGED <<notified, unchangedByPoll>>

readOnAlarm ==
  /\ InGate /\ message = "alarm"
  /\ message' = "idle"
  /\ existingBatteryPath
  /\ UNCHANGED <<notified, unchangedByPoll>>

\* Deviation: the removal is handled at once, without the gate.
InGateForRemoval_missing == TRUE

InGateForRemoval == InGate

handleBatteryRemoved ==
  /\ InGateForRemoval /\ message = "removed"
  /\ message' = "idle"
  /\ clearBatteryState
  /\ source' = Cleared(source)
  /\ updateStatus
  /\ UNCHANGED <<battery, notified, changes, failures, fBatterySTA, fBattery, gate, poll,
                 fPollTimer, fBatteryReadAllTimer, fPollingInterval, fMaxCapacity>>

-----------------------------------------------------------------------------
(* The battery                                                             *)

\* It is removed, inserted, or charged in another way.  The firmware notifies of
\* insertions and removals, and may notify of the rest.
change ==
  /\ changes < MaxChanges /\ changes' = changes + 1
  /\ battery' \in Battery \ {battery}
  /\ notified' \in {TRUE, notified}
  /\ battery'.present # battery.present => notified'
  /\ UNCHANGED <<failures, fBatterySTA, message, fBattery, gate, poll, fPollTimer,
                 fBatteryReadAllTimer, fPollingInterval, fMaxCapacity, fBatteryPresent, fACConnected,
                 fACChargeCapable, source, settingsChanged, told>>

Evaluations == getBatterySTA \/ getBatteryBIF \/ getBatteryBST
Messages == handleBatteryInserted \/ readOnAlarm \/ handleBatteryRemoved
Next == createGates \/ Evaluations \/ pollingTimeOut \/ setPowerState \/ setPollingInterval
          \/ receiveMessage \/ compareSTA \/ Messages \/ change

\* Threads go on, the timer runs out, and a message waiting for the gate gets its
\* turn although timer and wake-ups use the gate as well.
Fairness ==
  /\ WF_batteryVars(createGates) /\ WF_batteryVars(Evaluations)
  /\ SF_batteryVars(pollingTimeOut)
  /\ WF_batteryVars(receiveMessage \/ compareSTA) /\ SF_batteryVars(Messages)

Spec == Init /\ [][Next]_batteryVars /\ Fairness

-----------------------------------------------------------------------------
(* Properties                                                              *)

\* What was told last is what the battery is, as far as it is told: that a removed
\* battery is no longer charged may not be.
ToldTruth ==
  /\ told.installed = battery.present
  /\ told.charging = (battery.present /\ battery.status = "charging")
  /\ battery.present => /\ told.charged = (battery.status = "charged")
                        /\ told.external = (battery.status # "discharging")

\* Notifications may be dropped, be late or never come, and evaluations fail: still
\* the timer that every pollBatteryState restarts brings the power source in line
\* with the battery, and it stays in line once the battery does not change.  (For a bay
\* that has a battery device: without one nothing is ever told.)
BatteryFollowed == fBattery => <>[]ToldTruth

\* The power management is never told of a battery that charges without being
\* installed or without external power, although a removal may be noticed between
\* the evaluations of a poll: removals wait for the gate.
ToldConsistent ==
  told.charging => told.installed /\ told.external /\ told.chargeCapable /\ ~told.charged

=============================================================================
