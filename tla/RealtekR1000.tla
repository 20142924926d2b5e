---------------------------- MODULE RealtekR1000 ----------------------------
(***************************************************************************)
(* The Ethernet driver: a transmit and a receive ring of descriptors that  *)
(* driver and controller hand to each other with the OWN bit, the          *)
(* interrupt routine, the watchdog, and switching the adapter on and off.  *)
(*                                                                         *)
(* All driver code runs inside the gate of the driver's work loop, so that *)
(* only the controller moves while the interrupt routine is under way.     *)
(* The routine is split between reading the status and serving the rings,  *)
(* the receive loop descriptor by descriptor.  The transmit loop is one    *)
(* step: descriptors that change hands during it could as well have done   *)
(* so before.                                                              *)
(***************************************************************************)
EXTENDS Integers, Sequences

CONSTANTS
  NumTxDesc, NumRxDesc,  \* sizes of the rings (1024 in the code)
  MaxWork,               \* max_interrupt_work (20 in the code)
  Loads,                 \* bound: numbers of packets to send and to receive
  MaxEnables             \* bound: how often the interface is switched on

ASSUME R1000Assumption ==
  /\ {NumTxDesc, NumRxDesc, MaxWork} \subseteq Nat \ {0}
  /\ MaxWork < NumTxDesc /\ MaxWork < NumRxDesc
  /\ Loads \subseteq Nat \X Nat
  /\ MaxEnables \in Nat

VARIABLES
  \* the driver
  cur_tx, dirty_tx, cur_rx,
  Tx_skbuff,       \* the packet of a transmit descriptor, 0 if there is none
  enabled, timer,  \* the watchdog is armed
  intr,            \* R1000Interrupt: where it is, what it read, what work is left, and
                   \* rxdesc_cnt of R1000RxInterrupt
  \* shared with the controller
  txOwn,           \* transmit descriptors with the OWN bit
  rxDesc,          \* a receive descriptor: Own, a packet or Error
  spare,           \* OWN bits of the words behind the transmit ring
  intrStatus, intrMask,
  chip,            \* transmitter and receiver are switched on
  polling,         \* the controller looks for packets to transmit
  hwTx, hwRx,      \* the descriptors the controller is at
  \* the output queue and the network stack
  queue, out, received,
  freed,           \* how often a packet was freed
  arrived, enables,
  load,            \* the packets to send and to receive
  restarted,       \* the controller was restarted with the rings in use
  lost             \* events were discarded by the interrupt routine

driverVars == <<cur_tx, dirty_tx, cur_rx, Tx_skbuff, enabled, timer>>
deviceVars == <<txOwn, rxDesc, spare, intrStatus, intrMask, chip, polling, hwTx, hwRx>>
stackVars == <<queue, out, received, freed, arrived, enables, load>>
vars == <<driverVars, deviceVars, stackVars, intr, restarted, lost>>

TxSlot == 0..NumTxDesc - 1
RxSlot == 0..NumRxDesc - 1
\* The events that matter: r1000_intr_mask, and TxDescUnavail, which is not in it.
r1000_intr_mask == {"TxOK", "RxOK"}
Status == SUBSET (r1000_intr_mask \cup {"TxDescUnavail"})
Own == 0
Error == -1
MaxOut == load[1]
MaxIn == load[2]
Idle == [pc |-> "idle", status |-> {}, work |-> 0, rxdesc_cnt |-> 0]

TypeOK ==
  /\ load \in Loads
  /\ {cur_tx, dirty_tx} \subseteq 0..MaxOut /\ dirty_tx <= cur_tx
  /\ cur_rx \in RxSlot /\ hwTx \in TxSlot /\ hwRx \in RxSlot
  /\ Tx_skbuff \in [TxSlot -> 0..MaxOut]
  /\ txOwn \subseteq TxSlot
  /\ rxDesc \in [RxSlot -> Error..MaxIn]
  /\ spare \subseteq NumTxDesc..NumTxDesc + MaxWork - 2
  /\ intr \in [pc : {"idle", "status", "serve"}, status : Status, work : 0..MaxWork,
              rxdesc_cnt : 0..MaxWork]
  /\ intrStatus \in Status
  /\ {enabled, timer, intrMask, chip, polling, restarted, lost} \subseteq BOOLEAN
  /\ queue \in {"stopped", "running", "stalled", "freed"}
  /\ out \in 0..MaxOut /\ arrived \in 0..MaxIn
  /\ received \in Seq(1..MaxIn)
  /\ freed \in [1..MaxOut -> Nat]
  /\ enables \in 0..MaxEnables

-----------------------------------------------------------------------------
(* The driver                                                              *)

\* AllocateDescriptorsMemory gives all receive buffers to the controller.  Nobody
\* writes the words behind the transmit ring.
Init ==
  /\ load \in Loads
  /\ cur_tx = 0 /\ dirty_tx = 0 /\ cur_rx = 0
  /\ Tx_skbuff = [s \in TxSlot |-> 0]
  /\ enabled = FALSE /\ timer = FALSE
  /\ intr = Idle
  /\ txOwn = {} /\ rxDesc = [s \in RxSlot |-> Own]
  /\ spare \in SUBSET (NumTxDesc..NumTxDesc + MaxWork - 2)
  /\ intrStatus = {} /\ intrMask = FALSE /\ chip = FALSE /\ polling = FALSE
  /\ hwTx = 0 /\ hwRx = 0
  /\ queue = "stopped" /\ out = 0 /\ received = <<>>
  /\ freed = [p \in 1..MaxOut |-> 0]
  /\ arrived = 0 /\ enables = 0
  /\ restarted = FALSE /\ lost = FALSE

Gate == intr.pc = "idle" /\ queue # "freed"

\* freePacket for each packet in the set.
freePackets(packets) ==
  freed' = [p \in 1..MaxOut |-> freed[p] + (IF p \in packets THEN 1 ELSE 0)]

\* Both rings start over at descriptor 0, for the controller and, except for
\* cur_tx, for the driver.  Descriptors keep their owners.
R1000HwStart ==
  /\ cur_rx' = 0 /\ hwTx' = 0 /\ hwRx' = 0
  /\ chip' = TRUE /\ intrMask' = TRUE /\ polling' = FALSE

\* Deviation: the ring is cleared but the driver goes on where it was.
R1000TxClear_keepsPlace ==
  /\ UNCHANGED cur_tx /\ dirty_tx' = cur_tx
  /\ txOwn' = {}
  /\ freePackets({Tx_skbuff[s] : s \in TxSlot} \ {0})
  /\ Tx_skbuff' = [s \in TxSlot |-> 0]

R1000TxClear ==
  /\ cur_tx' = 0 /\ dirty_tx' = 0
  /\ txOwn' = {}
  /\ freePackets({Tx_skbuff[s] : s \in TxSlot} \ {0})
  /\ Tx_skbuff' = [s \in TxSlot |-> 0]

\* setActivationLevel(kActivationLevelBSD) from kActivationLevelNone:
\* the watchdog is armed, then the adapter is opened.
enable ==
  /\ Gate /\ ~enabled /\ enables < MaxEnables
  /\ enables' = enables + 1
  /\ timer' = TRUE
  /\ R1000HwStart
  /\ queue' = "running" /\ enabled' = TRUE
  /\ restarted' = (enables > 0)
  /\ UNCHANGED <<cur_tx, dirty_tx, Tx_skbuff, intr, txOwn, rxDesc, spare, intrStatus,
                 out, received, freed, arrived, lost, load>>

\* Back to kActivationLevelNone: R1000CloseAdapter leaves the rings alone.
disable ==
  /\ Gate /\ enabled
  /\ queue' = "stopped" /\ chip' = FALSE /\ intrMask' = FALSE
  /\ timer' = FALSE /\ enabled' = FALSE
  /\ UNCHANGED <<cur_tx, dirty_tx, cur_rx, Tx_skbuff, intr, txOwn, rxDesc, spare,
                 intrStatus, polling, hwTx, hwRx, out, received, freed, arrived,
                 enables, restarted, lost, load>>

\* The output queue hands over its next packet; a stalled packet stays in the queue.
outputPacket ==
  LET entry == cur_tx % NumTxDesc IN
  /\ Gate /\ queue = "running" /\ out < MaxOut
  /\ \/ /\ entry \notin txOwn
        /\ out' = out + 1
        /\ Tx_skbuff' = [Tx_skbuff EXCEPT ![entry] = out + 1]
        /\ txOwn' = txOwn \cup {entry}
        /\ polling' = TRUE
        /\ cur_tx' = cur_tx + 1
        /\ UNCHANGED <<queue, freed>>
     \/ \* longer than tx_pkt_len
        /\ entry \notin txOwn
        /\ out' = out + 1
        /\ freePackets({out + 1})
        /\ UNCHANGED <<Tx_skbuff, txOwn, polling, cur_tx, queue>>
     \/ /\ entry \in txOwn
        /\ queue' = "stalled"
        /\ UNCHANGED <<out, Tx_skbuff, txOwn, polling, cur_tx, freed>>
  /\ UNCHANGED <<dirty_tx, cur_rx, enabled, timer, intr, rxDesc, spare, intrStatus,
                 intrMask, chip, hwTx, hwRx, received, arrived, enables,
                 restarted, lost, load>>

\* The watchdog, armed once when the interface is switched on.
R1000TxTimeout ==
  /\ Gate /\ timer
  /\ timer' = FALSE
  /\ R1000TxClear
  /\ R1000HwStart
  /\ queue' = "running"
  /\ restarted' = TRUE
  /\ UNCHANGED <<enabled, intr, rxDesc, spare, intrStatus, out, received,
                 arrived, enables, lost, load>>

\* stop and free: the last chance to give packets back.
free ==
  /\ Gate /\ ~enabled
  /\ R1000TxClear
  /\ queue' = "freed"
  /\ UNCHANGED <<cur_rx, enabled, timer, intr, rxDesc, spare, intrStatus, intrMask,
                 chip, polling, hwTx, hwRx, out, received, arrived, enables,
                  restarted, lost, load>>

-----------------------------------------------------------------------------
(* The interrupt routine                                                   *)

R1000Interrupt ==
  /\ Gate /\ enabled
  /\ intrMask /\ intrStatus \cap r1000_intr_mask # {}
  /\ intrMask' = FALSE
  /\ intr' = [pc |-> "status", status |-> {}, work |-> MaxWork, rxdesc_cnt |-> 0]
  /\ UNCHANGED <<driverVars, stackVars, txOwn, rxDesc, spare, intrStatus, chip, polling, hwTx,
                 hwRx, restarted, lost>>

readStatus ==
  /\ intr.pc = "status"
  /\ intrStatus' = {}
  /\ LET idle == intrStatus \cap r1000_intr_mask = {} IN
       /\ intr' = IF idle THEN Idle ELSE [intr EXCEPT !.pc = "serve", !.status = intrStatus]
       /\ intrMask' = idle
       /\ polling' = (polling \/ {"TxOK", "TxDescUnavail"} \subseteq intrStatus)
  /\ UNCHANGED <<cur_tx, dirty_tx, cur_rx, Tx_skbuff, enabled, timer, stackVars, txOwn, rxDesc,
                 spare, chip, hwTx, hwRx, restarted, lost>>

\* The loop of R1000RxInterrupt ends at a descriptor of the controller, or when
\* max_interrupt_work is used up.
RxLeft == intr.rxdesc_cnt < MaxWork /\ rxDesc[cur_rx] # Own
RxNext == (cur_rx + 1) % NumRxDesc
RxUnchanged ==
  UNCHANGED <<cur_tx, dirty_tx, Tx_skbuff, enabled, timer, txOwn, spare, intrStatus, intrMask,
              chip, polling, hwTx, hwRx, queue, out, freed, arrived, enables, load, restarted, lost>>

\* Deviation: the descriptor is not given back.
R1000RxInterrupt_keeps ==
  /\ intr.pc = "serve" /\ "RxOK" \in intr.status /\ RxLeft
  /\ intr' = [intr EXCEPT !.rxdesc_cnt = @ + 1]
  /\ received' = IF rxDesc[cur_rx] = Error THEN received ELSE Append(received, rxDesc[cur_rx])
  /\ cur_rx' = RxNext
  /\ UNCHANGED rxDesc
  /\ RxUnchanged

\* One turn of the loop.  A descriptor with an error is passed over as it is; a packet is
\* handed up and its descriptor given back, unless allocatePacket fails: then the same
\* descriptor is looked at again.
R1000RxInterrupt ==
  /\ intr.pc = "serve" /\ "RxOK" \in intr.status /\ RxLeft
  /\ intr' = [intr EXCEPT !.rxdesc_cnt = @ + 1]
  /\ \/ /\ rxDesc[cur_rx] = Error
        /\ cur_rx' = RxNext
        /\ UNCHANGED <<received, rxDesc>>
     \/ /\ rxDesc[cur_rx] # Error
        /\ received' = Append(received, rxDesc[cur_rx])
        /\ rxDesc' = [rxDesc EXCEPT ![cur_rx] = Own]
        /\ cur_rx' = RxNext
     \/ /\ rxDesc[cur_rx] # Error
        /\ UNCHANGED <<received, rxDesc, cur_rx>>
  /\ RxUnchanged

\* The transmit loop looks at the descriptors from cur_tx on, without wrapping,
\* and frees packets from dirty_tx on.
TxBusy(entry) == IF entry \in TxSlot THEN entry \in txOwn ELSE entry \in spare
TxServed ==
  LET entry == cur_tx % NumTxDesc IN
  {n \in 0..MaxWork : /\ n <= cur_tx - dirty_tx
                      /\ \A i \in 0..n - 1 : ~TxBusy(entry + i)
                      /\ n < MaxWork /\ n < cur_tx - dirty_tx => TxBusy(entry + n)}

\* Deviation: the packet stays linked to its descriptor after it was freed.
R1000TxInterrupt_keepsLink ==
  \E n \in TxServed :
    /\ freePackets({Tx_skbuff[(dirty_tx + i) % NumTxDesc] : i \in 0..n - 1} \ {0})
    /\ dirty_tx' = dirty_tx + n
    /\ queue' = IF n > 0 THEN "running" ELSE queue
    /\ UNCHANGED Tx_skbuff

\* Deviation: the queue is not started again.
R1000TxInterrupt_silent ==
  \E n \in TxServed :
    LET slots == {(dirty_tx + i) % NumTxDesc : i \in 0..n - 1} IN
    /\ freePackets({Tx_skbuff[s] : s \in slots} \ {0})
    /\ Tx_skbuff' = [s \in TxSlot |-> IF s \in slots THEN 0 ELSE Tx_skbuff[s]]
    /\ dirty_tx' = dirty_tx + n
    /\ UNCHANGED queue

R1000TxInterrupt ==
  \E n \in TxServed :
    LET slots == {(dirty_tx + i) % NumTxDesc : i \in 0..n - 1} IN
    /\ freePackets({Tx_skbuff[s] : s \in slots} \ {0})
    /\ Tx_skbuff' = [s \in TxSlot |-> IF s \in slots THEN 0 ELSE Tx_skbuff[s]]
    /\ dirty_tx' = dirty_tx + n
    /\ queue' = IF n > 0 THEN "running" ELSE queue

\* The rest of a round of R1000Interrupt's loop; when there is too much work, all events
\* that came up in the meantime are cleared.
serveRings ==
  /\ intr.pc = "serve"
  /\ "RxOK" \in intr.status => ~RxLeft
  /\ IF "TxOK" \in intr.status THEN R1000TxInterrupt
                               ELSE UNCHANGED <<freed, Tx_skbuff, dirty_tx, queue>>
  /\ IF intr.work > 1
       THEN /\ intr' = [intr EXCEPT !.pc = "status", !.work = @ - 1, !.status = {},
                                    !.rxdesc_cnt = 0]
            /\ UNCHANGED <<intrStatus, intrMask, lost>>
       ELSE /\ intr' = Idle /\ intrStatus' = {} /\ intrMask' = TRUE
            /\ lost' = (lost \/ intrStatus # {})
  /\ UNCHANGED <<cur_tx, cur_rx, enabled, timer, txOwn, rxDesc, spare, chip, polling, hwTx, hwRx,
                 out, received, arrived, enables, restarted, load>>

-----------------------------------------------------------------------------
(* The controller, as the driver sees it                                   *)

transmit ==
  /\ chip /\ polling
  /\ IF hwTx \in txOwn
       THEN /\ txOwn' = txOwn \ {hwTx}
            /\ hwTx' = (hwTx + 1) % NumTxDesc
            /\ intrStatus' = intrStatus \cup {"TxOK"}
            /\ UNCHANGED polling
       ELSE /\ polling' = FALSE
            /\ intrStatus' = intrStatus \cup {"TxDescUnavail"}
            /\ UNCHANGED <<txOwn, hwTx>>
  /\ UNCHANGED <<driverVars, stackVars, intr, rxDesc, spare, intrMask, chip, hwRx,
                 restarted, lost>>

\* A packet that finds no descriptor is missed.
receive ==
  /\ chip /\ arrived < MaxIn
  /\ arrived' = arrived + 1
  /\ intrStatus' = intrStatus \cup {"RxOK"}
  /\ IF rxDesc[hwRx] = Own
       THEN /\ \E d \in {arrived + 1, Error} : rxDesc' = [rxDesc EXCEPT ![hwRx] = d]
            /\ hwRx' = (hwRx + 1) % NumRxDesc
       ELSE UNCHANGED <<rxDesc, hwRx>>
  /\ UNCHANGED <<driverVars, intr, txOwn, spare, intrMask, chip, polling, hwTx, queue,
                 out, received, freed, enables, restarted, lost, load>>

Driver == enable \/ disable \/ outputPacket \/ R1000TxTimeout \/ free
Interrupt == R1000Interrupt \/ readStatus \/ R1000RxInterrupt \/ serveRings
Controller == transmit \/ receive

Next == Driver \/ Interrupt \/ Controller

Spec == Init /\ [][Next]_vars

\* The controller transmits, the work loop gets its turn and the timer runs out.
Fairness ==
  /\ WF_vars(transmit) /\ WF_vars(R1000Interrupt) /\ WF_vars(readStatus)
  /\ WF_vars(R1000RxInterrupt) /\ WF_vars(serveRings) /\ WF_vars(R1000TxTimeout)
FairSpec == Spec /\ Fairness

-----------------------------------------------------------------------------
(* Properties                                                              *)

Holds(s, p) == Tx_skbuff[s] = p

\* No packet is freed twice, and none that is still linked to a descriptor was
\* freed before: outputPacket, R1000TxInterrupt and R1000TxClear agree on who
\* gives a packet back although dirty_tx may be a round behind cur_tx.
FreedOnce ==
  \A p \in 1..MaxOut :
    /\ freed[p] <= 1
    /\ \A s \in TxSlot : Holds(s, p) => freed[p] = 0 /\ \A r \in TxSlot : Holds(r, p) => r = s

\* A received packet is handed up once, in the order of arrival unless the
\* controller was restarted with packets left in the ring: descriptors that
\* R1000RxInterrupt passes over or leaves for later are not read twice.
ReceivedOnce ==
  /\ \A i, j \in DOMAIN received : i # j => received[i] # received[j]
  /\ \A i, j \in DOMAIN received : ~restarted /\ i < j => received[i] < received[j]
  /\ \A s \in RxSlot : \A i \in DOMAIN received : rxDesc[s] # received[i]

\* The descriptors of the controller are the last ones the driver filled, and the
\* controller is at the first of them.
TxInStep ==
  \E n \in 0..NumTxDesc :
    /\ n <= cur_tx
    /\ hwTx = (cur_tx - n) % NumTxDesc
    /\ txOwn = {(cur_tx - i) % NumTxDesc : i \in 1..n}

\* Switching the interface off and on sets the controller back to the first
\* descriptor but not cur_tx: the rings are out of step and packets wait or
\* overtake each other.  Once the watchdog has run (R1000TxTimeout), or before the
\* first restart, they are in step.
WatchdogResynchronises == enabled /\ (~timer \/ enables = 1) => TxInStep

\* A queue that outputPacket has stalled is started again, by R1000TxInterrupt or
\* by the watchdog, unless the interrupt routine has cleared events it never looked
\* at ("Too much work at interrupt").
StalledQueueRestarts == queue = "stalled" ~> queue # "stalled" \/ lost

=============================================================================
