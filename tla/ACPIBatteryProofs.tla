------------------------- MODULE ACPIBatteryProofs -------------------------
(***************************************************************************)
(* Proof about ACPIBattery, for any number of changes of the battery and   *)
(* of failing evaluations: what the power management is told is            *)
(* consistent.                                                             *)
(***************************************************************************)
EXTENDS ACPIBattery, TLAPS

\* A poll that got past _STA, and a battery found by an earlier one, have made the
\* power source an installed one.
PresenceKnown ==
  /\ fBatteryPresent => source.installed
  /\ poll \in {"_BIF", "_BST"} => source.installed

\* The inductive invariant.
BatteryInv ==
  /\ source \in PowerSource /\ told \in PowerSource
  /\ failures \in Nat
  /\ PresenceKnown /\ ToldConsistent

LEMMA InitConsistent == Init => BatteryInv
<1> SUFFICES ASSUME Init PROVE BatteryInv
  OBVIOUS
<1>1. failures \in Nat
  BY DEF Init
<1>2. source \in PowerSource /\ ~source.charging
  BY DEF Init, PowerSource
<1> QED
  BY <1>1, <1>2, Zenon DEF Init, BatteryInv, PresenceKnown, ToldConsistent

\* Clearing and setting fields of a power source.
LEMMA ClearedSource ==
  ASSUME NEW ps \in PowerSource
  PROVE  /\ Cleared(ps) \in PowerSource /\ ~Cleared(ps).charging
         /\ [Cleared(ps) EXCEPT !.charged = FALSE] \in PowerSource
         /\ ~[Cleared(ps) EXCEPT !.charged = FALSE].charging
  BY DEF Cleared, PowerSource

LEMMA InstalledSource ==
  ASSUME NEW ps \in PowerSource, NEW b \in BOOLEAN
  PROVE  /\ [ps EXCEPT !.installed = b] \in PowerSource
         /\ [ps EXCEPT !.installed = b].installed = b
  BY DEF PowerSource

\* updateStatus tells what the properties are, or nothing new.
LEMMA ToldByUpdate ==
  ASSUME BatteryInv, updateStatus, source' \in PowerSource,
         source'.charging => source'.installed /\ source'.external /\ source'.chargeCapable
                             /\ ~source'.charged
  PROVE  told' \in PowerSource /\ ToldConsistent'
<1>1. told' = told \/ told' = source'
  BY DEF updateStatus
<1>2. CASE told' = told
  BY <1>2, Zenon DEF BatteryInv, ToldConsistent
<1>3. CASE told' = source'
  BY <1>3, Zenon DEF ToldConsistent
<1> QED
  BY <1>1, <1>2, <1>3

LEMMA STAConsistent == BatteryInv /\ getBatterySTA => BatteryInv'
<1> SUFFICES ASSUME BatteryInv, getBatterySTA PROVE BatteryInv'
  OBVIOUS
<1>1. failures' \in Nat
  BY DEF BatteryInv, getBatterySTA, Fails
<1>2. CASE fBatteryPresent'
  <2> DEFINE b == IF failures' = failures THEN TRUE ELSE source.installed
  <2>1. source' = [source EXCEPT !.installed = b] /\ told' = told /\ poll' = "_BIF"
    BY <1>2 DEF getBatterySTA
  <2>2. b = TRUE
    <3>1. CASE failures' = failures
      BY <3>1
    <3>2. CASE failures' # failures
      <4>1. fBatteryPresent' = fBatteryPresent
        BY <3>2 DEF getBatterySTA
      <4>2. source.installed
        BY <1>2, <4>1 DEF BatteryInv, PresenceKnown
      <4>3. source.installed \in BOOLEAN
        BY DEF BatteryInv, PowerSource
      <4> QED
        BY <3>2, <4>2, <4>3
    <3> QED
      BY <3>1, <3>2
  <2>3. source' \in PowerSource /\ source'.installed
    BY <2>1, <2>2, InstalledSource, Zenon DEF BatteryInv
  <2> QED
    BY <1>1, <2>1, <2>3, Zenon DEF BatteryInv, PresenceKnown, ToldConsistent
<1>3. CASE ~fBatteryPresent'
  <2>1. /\ source' = [Cleared(source) EXCEPT !.charged = FALSE]
        /\ updateStatus /\ poll' = "none"
    BY <1>3 DEF getBatterySTA, restartTimer
  <2>2. source' \in PowerSource /\ ~source'.charging
    BY <2>1, ClearedSource, Zenon DEF BatteryInv
  <2>3. poll' \notin {"_BIF", "_BST"}
    BY <2>1
  <2>4. told' \in PowerSource /\ ToldConsistent'
    BY <2>1, <2>2, ToldByUpdate, Zenon
  <2> QED
    BY <1>1, <1>3, <2>2, <2>3, <2>4, Zenon DEF BatteryInv, PresenceKnown
<1> QED
  BY <1>2, <1>3

LEMMA BSTConsistent == BatteryInv /\ getBatteryBST => BatteryInv'
<1> SUFFICES ASSUME BatteryInv, getBatteryBST PROVE BatteryInv'
  OBVIOUS
<1>1. failures' \in Nat
  <2>1. failures' = failures \/ Fails
    BY Zenon DEF getBatteryBST
  <2> QED
    BY <2>1 DEF BatteryInv, Fails
<1>2. source.installed /\ poll' \notin {"_BIF", "_BST"} /\ fBatteryPresent' = fBatteryPresent
  BY DEF BatteryInv, PresenceKnown, getBatteryBST, restartTimer
<1>3. ASSUME NEW status, NEW empty, setBatteryBST(status, empty) PROVE BatteryInv'
  <2> DEFINE c == status = "charging"
             d == status = "charged"
             x == status # "discharging"
             y == status \in {"charging", "charged"}
             q == [source EXCEPT !.charging = c, !.charged = d, !.external = x,
                                 !.chargeCapable = y]
  <2>1. source' = q /\ updateStatus
    BY <1>3, Zenon DEF setBatteryBST
  <2>2. c \in BOOLEAN /\ d \in BOOLEAN /\ x \in BOOLEAN /\ y \in BOOLEAN
    OBVIOUS
  <2>3. c => x /\ y /\ ~d
    OBVIOUS
  <2> HIDE DEF c, d, x, y
  <2>4. /\ q \in PowerSource /\ q.installed = source.installed
        /\ q.charging = c /\ q.charged = d /\ q.external = x /\ q.chargeCapable = y
    <3>1. source \in PowerSource
      BY DEF BatteryInv
    <3> QED
      BY <2>2, <3>1 DEF PowerSource
  <2> HIDE DEF q
  <2>5. told' \in PowerSource /\ ToldConsistent'
    BY <1>2, <2>1, <2>3, <2>4, ToldByUpdate, Zenon
  <2> QED
    BY <1>1, <1>2, <2>1, <2>4, <2>5, Zenon DEF BatteryInv, PresenceKnown
<1>4. CASE UNCHANGED <<source, told>>
  BY <1>1, <1>2, <1>4, Zenon DEF BatteryInv, PresenceKnown, ToldConsistent
<1> QED
  BY <1>3, <1>4, Zenon DEF getBatteryBST

LEMMA StepConsistent == BatteryInv /\ [Next]_batteryVars => BatteryInv'
<1> SUFFICES ASSUME BatteryInv, [Next]_batteryVars PROVE BatteryInv'
  OBVIOUS
<1> USE DEF BatteryInv, PresenceKnown, ToldConsistent
<1>1. CASE createGates
  BY <1>1, Zenon DEF createGates
<1>2. CASE getBatterySTA
  BY <1>2, STAConsistent
<1>3. CASE getBatteryBIF
  <2>1. failures' \in Nat
    BY <1>3 DEF getBatteryBIF, Fails
  <2>2. poll \in {"_BIF", "_BST"}
    BY <1>3 DEF getBatteryBIF
  <2> QED
    BY <1>3, <2>1, <2>2, Zenon DEF getBatteryBIF
<1>4. CASE getBatteryBST
  BY <1>4, BSTConsistent
<1>5. ASSUME \/ pollingTimeOut \/ setPowerState \/ compareSTA
             \/ handleBatteryInserted \/ readOnAlarm
      PROVE  BatteryInv'
  <2>1. UNCHANGED <<source, told, failures, fBatteryPresent>>
    BY <1>5 DEF pollingTimeOut, setPowerState, compareSTA, handleBatteryInserted, readOnAlarm,
                unchangedByPoll
  <2>2. poll' \in {"_STA", poll}
    BY <1>5 DEF pollingTimeOut, setPowerState, compareSTA, handleBatteryInserted, readOnAlarm,
                existingBatteryPath, newBatteryPath
  <2>3. poll' \in {"_BIF", "_BST"} => poll \in {"_BIF", "_BST"}
    BY <2>2
  <2> QED
    BY <2>1, <2>3, Zenon
<1>6. CASE setPollingInterval
  BY <1>6, Zenon DEF setPollingInterval
<1>7. CASE receiveMessage
  <2>1. failures' \in Nat
    BY <1>7 DEF receiveMessage, Fails
  <2> QED
    BY <1>7, <2>1, Zenon DEF receiveMessage
<1>8. CASE handleBatteryRemoved
  <2>1. source' \in PowerSource /\ ~source'.charging /\ updateStatus
    BY <1>8, ClearedSource, Zenon DEF handleBatteryRemoved
  <2>2. poll' \notin {"_BIF", "_BST"}
    BY <1>8 DEF handleBatteryRemoved, InGateForRemoval, InGate
  <2>3. ~fBatteryPresent' /\ failures' = failures
    BY <1>8 DEF handleBatteryRemoved, clearBatteryState
  <2>4. told' \in PowerSource /\ ToldConsistent'
    BY <2>1, ToldByUpdate, Zenon
  <2> QED
    BY <2>1, <2>2, <2>3, <2>4, Zenon
<1>9. CASE change
  BY <1>9, Zenon DEF change
<1>10. CASE UNCHANGED batteryVars
  BY <1>10, Zenon DEF batteryVars
<1> QED
  BY <1>1, <1>2, <1>3, <1>4, <1>5, <1>6, <1>7, <1>8, <1>9, <1>10
  DEF Next, Evaluations, Messages

\* The power management is never told of a battery that charges without being installed
\* or without external power (setBatterySTA, setBatteryBST, handleBatteryRemoved).
THEOREM ToldAlwaysConsistent == Spec => []ToldConsistent
<1>1. BatteryInv => ToldConsistent
  BY DEF BatteryInv
<1> QED
  BY <1>1, InitConsistent, StepConsistent, PTL DEF Spec

=============================================================================
