------------------------ MODULE RealtekR1000Proofs ------------------------
(***************************************************************************)
(* Proofs about the Ethernet driver, for rings of any size, any bound on   *)
(* the work of an interrupt and any number of packets.                     *)
(***************************************************************************)
EXTENDS RealtekR1000, SequenceTheorems, TLAPS

-----------------------------------------------------------------------------
(* Indices taken modulo the size of a ring.                                *)

\* Division with remainder.
LEMMA ModDiv ==
  ASSUME NEW a \in Int, NEW N \in Nat \ {0}
  PROVE  a = (N * (a \div N)) + (a % N) /\ a \div N \in Int /\ a % N \in 0..(N - 1)
  OBVIOUS

LEMMA MultipleBelow ==
  ASSUME NEW q \in Int, NEW N \in Nat \ {0}, N * q < N, N * q > -N
  PROVE  q = 0
  OBVIOUS

\* The remainder is unique.
LEMMA ModUnique ==
  ASSUME NEW a \in Int, NEW N \in Nat \ {0}, NEW q \in Int, NEW r \in 0..(N - 1),
         a = (N * q) + r
  PROVE  a % N = r
<1> DEFINE d == a \div N
           m == a % N
<1>1. a = (N * d) + m /\ d \in Int /\ m \in 0..(N - 1)
  BY ModDiv
<1> HIDE DEF d, m
<1>2. N * (q - d) = N * q - N * d
  BY <1>1
<1>3. N * q - N * d = m - r
  BY <1>1
<1>4. q - d \in Int /\ m - r < N /\ m - r > -N
  BY <1>1
<1>5. q - d = 0
  BY <1>2, <1>3, <1>4, MultipleBelow
<1>6. q = d
  BY <1>1, <1>5
<1> QED  BY <1>1, <1>6 DEF m

\* Less than one round apart, two indices are at different descriptors.
LEMMA ModDistinct ==
  ASSUME NEW a \in Int, NEW b \in Int, NEW N \in Nat \ {0}, a < b, b - a < N
  PROVE  a % N # b % N
<1> SUFFICES ASSUME a % N = b % N PROVE FALSE
  OBVIOUS
<1> DEFINE d == a \div N
           e == b \div N
           m == a % N
<1>1. a = (N * d) + m /\ d \in Int /\ m \in 0..(N - 1) /\ b = (N * e) + m /\ e \in Int
  BY ModDiv
<1> HIDE DEF d, m, e
<1>2. N * (e - d) = N * e - N * d
  BY <1>1
<1>3. N * e - N * d = b - a
  BY <1>1
<1>4. e - d = 0
  BY <1>1, <1>2, <1>3, MultipleBelow
<1> QED  BY <1>1, <1>4

\* One round apart, they are at the same one.
LEMMA ModRound ==
  ASSUME NEW a \in Int, NEW N \in Nat \ {0}
  PROVE  (a - N) % N = a % N
<1> DEFINE d == a \div N
           m == a % N
<1>1. a = (N * d) + m /\ d \in Int /\ m \in 0..(N - 1)
  BY ModDiv
<1> HIDE DEF d, m
<1>2. a - N = (N * (d - 1)) + m /\ a - N \in Int /\ d - 1 \in Int
  BY <1>1
<1>3. (a - N) % N = m
  BY <1>1, <1>2, ModUnique
<1> QED  BY <1>3 DEF m

\* The descriptor after that of an index is that of the next index.
LEMMA ModSuccessor ==
  ASSUME NEW a \in Int, NEW N \in Nat \ {0}
  PROVE  ((a % N) + 1) % N = (a + 1) % N
<1> DEFINE d == a \div N
           m == a % N
           e == (m + 1) \div N
           k == (m + 1) % N
<1>1. a = (N * d) + m /\ d \in Int /\ m \in 0..(N - 1)
  BY ModDiv
<1> HIDE DEF d, m
<1>2. m + 1 = (N * e) + k /\ e \in Int /\ k \in 0..(N - 1)
  BY <1>1, ModDiv
<1> HIDE DEF e, k
<1>3. N * (d + e) = N * d + N * e
  BY <1>1, <1>2
<1>4. a + 1 = (N * (d + e)) + k /\ a + 1 \in Int /\ d + e \in Int
  BY <1>1, <1>2, <1>3
<1>5. (a + 1) % N = k
  BY <1>2, <1>4, ModUnique
<1> QED  BY <1>5 DEF m, k

\* Going on from a descriptor is going on from its index.
LEMMA ModPlus ==
  ASSUME NEW a \in Int, NEW b \in Int, NEW N \in Nat \ {0}
  PROVE  ((a % N) + b) % N = (a + b) % N
<1> DEFINE d == a \div N
           m == a % N
           e == (m + b) \div N
           k == (m + b) % N
<1>1. a = (N * d) + m /\ d \in Int /\ m \in 0..(N - 1)
  BY ModDiv
<1> HIDE DEF d, m
<1>2. m + b \in Int
  BY <1>1
<1>3. m + b = (N * e) + k /\ e \in Int /\ k \in 0..(N - 1)
  BY <1>2, ModDiv
<1> HIDE DEF e, k
<1>4. N * (d + e) = N * d + N * e
  BY <1>1, <1>3
<1>5. a + b = (N * (d + e)) + k /\ a + b \in Int /\ d + e \in Int
  BY <1>1, <1>3, <1>4
<1>6. (a + b) % N = k
  BY <1>3, <1>5, ModUnique
<1> QED  BY <1>6 DEF m, k

-----------------------------------------------------------------------------
(* Packets to transmit are given back once.                                *)

\* Packets are numbered in the order in which the stack hands them over: a packet
\* that was not handed over yet is neither linked to a descriptor nor freed.
LinkInv ==
  /\ load \in Loads
  /\ out \in 0..MaxOut
  /\ cur_tx \in Nat /\ dirty_tx \in Nat
  /\ Tx_skbuff \in [TxSlot -> 0..out]
  /\ freed \in [1..MaxOut -> Nat]
  /\ \A p \in 1..MaxOut : p > out => freed[p] = 0
  /\ FreedOnce

LEMMA SizesAndLoad ==
  /\ NumTxDesc \in Nat \ {0} /\ MaxWork \in Nat
  /\ load \in Loads => MaxOut \in Nat
  BY R1000Assumption DEF MaxOut

\* Freeing the packets of some descriptors and unlinking them, as R1000TxInterrupt
\* and R1000TxClear do, frees none for the second time.
LEMMA FreeingKeeps ==
  ASSUME LinkInv, NEW slots \in SUBSET TxSlot,
         freePackets({Tx_skbuff[s] : s \in slots} \ {0}),
         Tx_skbuff' = [s \in TxSlot |-> IF s \in slots THEN 0 ELSE Tx_skbuff[s]],
         UNCHANGED <<load, out>>, cur_tx' \in Nat, dirty_tx' \in Nat
  PROVE  LinkInv'
<1> DEFINE packets == {Tx_skbuff[s] : s \in slots} \ {0}
<1>1. /\ MaxOut \in Nat /\ MaxOut' = MaxOut /\ out \in 0..MaxOut
  BY SizesAndLoad DEF LinkInv, MaxOut
<1>2. freed' = [p \in 1..MaxOut |-> freed[p] + (IF p \in packets THEN 1 ELSE 0)]
  BY DEF freePackets
<1>3. ASSUME NEW p \in packets
      PROVE  p \in 1..out /\ freed[p] = 0 /\ \A s \in TxSlot : Tx_skbuff[s] = p => s \in slots
  <2>1. PICK s \in slots : Tx_skbuff[s] = p
    OBVIOUS
  <2>2. s \in TxSlot /\ p \in 1..out /\ p \in 1..MaxOut
    BY <2>1, <1>1 DEF LinkInv
  <2> QED  BY <2>1, <2>2 DEF LinkInv, FreedOnce, Holds
<1> HIDE DEF packets
<1>4. Tx_skbuff' \in [TxSlot -> 0..out]
  BY <1>1 DEF LinkInv
<1>5. ASSUME NEW p \in 1..MaxOut
      PROVE  /\ freed'[p] \in Nat
             /\ freed'[p] = freed[p] + (IF p \in packets THEN 1 ELSE 0)
             /\ freed'[p] <= 1
             /\ p > out => freed'[p] = 0
  <2>1. freed[p] \in Nat /\ freed[p] <= 1 /\ (p > out => freed[p] = 0)
    BY DEF LinkInv, FreedOnce
  <2>2. freed'[p] = freed[p] + (IF p \in packets THEN 1 ELSE 0)
    BY <1>2
  <2>3. CASE p \in packets
    BY <2>1, <2>2, <2>3, <1>1, <1>3
  <2>4. CASE p \notin packets
    BY <2>1, <2>2, <2>4
  <2> QED  BY <2>2, <2>3, <2>4
<1>6. ASSUME NEW p \in 1..MaxOut, NEW s \in TxSlot, Tx_skbuff'[s] = p
      PROVE  freed'[p] = 0 /\ \A r \in TxSlot : Tx_skbuff'[r] = p => r = s
  <2>1. p # 0
    BY <1>1
  <2>2. Tx_skbuff[s] = p /\ s \notin slots
    BY <1>6, <2>1
  <2>3. p \notin packets
    BY <2>2, <1>3
  <2>4. freed[p] = 0 /\ \A r \in TxSlot : Tx_skbuff[r] = p => r = s
    BY <2>2 DEF LinkInv, FreedOnce, Holds
  <2>5. freed'[p] = 0
    BY <2>3, <2>4, <1>5
  <2>6. \A r \in TxSlot : Tx_skbuff'[r] = p => Tx_skbuff[r] = p
    BY <2>1
  <2> QED  BY <2>4, <2>5, <2>6
<1>7. FreedOnce'
  BY <1>1, <1>5, <1>6 DEF FreedOnce, Holds
<1>8. freed' \in [1..MaxOut -> Nat]
  BY <1>2, <1>5
<1> QED  BY <1>1, <1>4, <1>5, <1>7, <1>8 DEF LinkInv

\* R1000TxClear, on a timeout and at the end, gives back all linked packets.
LEMMA ClearKeeps ==
  ASSUME LinkInv, R1000TxClear, UNCHANGED <<load, out>>
  PROVE  LinkInv'
<1>1. /\ freePackets({Tx_skbuff[s] : s \in TxSlot} \ {0})
      /\ Tx_skbuff' = [s \in TxSlot |-> IF s \in TxSlot THEN 0 ELSE Tx_skbuff[s]]
      /\ cur_tx' \in Nat /\ dirty_tx' \in Nat
  BY DEF R1000TxClear
<1> QED  BY <1>1, FreeingKeeps

\* outputPacket links the next packet to a descriptor, frees it or leaves it queued.
LEMMA OutputKeeps ==
  ASSUME LinkInv, outputPacket
  PROVE  LinkInv'
<1> DEFINE entry == cur_tx % NumTxDesc
<1>1. /\ MaxOut \in Nat /\ MaxOut' = MaxOut /\ load' = load
      /\ out \in 0..MaxOut /\ out < MaxOut
      /\ cur_tx \in Nat /\ dirty_tx' = dirty_tx /\ dirty_tx \in Nat
      /\ freed \in [1..MaxOut -> Nat] /\ Tx_skbuff \in [TxSlot -> 0..out]
      /\ freed[out + 1] = 0
  BY SizesAndLoad DEF LinkInv, MaxOut, outputPacket
<1>2. entry \in TxSlot
  <2>1. cur_tx \in Int /\ NumTxDesc \in Nat \ {0}
    BY <1>1, SizesAndLoad
  <2> QED  BY <2>1, ModDiv DEF TxSlot
<1> HIDE DEF entry
<1>3. CASE /\ out' = out + 1 /\ Tx_skbuff' = [Tx_skbuff EXCEPT ![entry] = out + 1]
           /\ cur_tx' = cur_tx + 1 /\ UNCHANGED freed
  <2>1. Tx_skbuff' \in [TxSlot -> 0..(out + 1)]
    BY <1>1, <1>2, <1>3
  <2>2. FreedOnce'
    BY <1>1, <1>2, <1>3 DEF LinkInv, FreedOnce, Holds
  <2> QED  BY <2>1, <2>2, <1>1, <1>3 DEF LinkInv
<1>4. CASE /\ out' = out + 1 /\ freePackets({out + 1}) /\ UNCHANGED <<Tx_skbuff, cur_tx>>
  <2>1. freed' = [p \in 1..MaxOut |-> freed[p] + (IF p = out + 1 THEN 1 ELSE 0)]
    BY <1>4 DEF freePackets
  <2>2. \A p \in 1..MaxOut : freed'[p] = IF p = out + 1 THEN 1 ELSE freed[p]
    BY <1>1, <2>1
  <2>3. Tx_skbuff' \in [TxSlot -> 0..(out + 1)] /\ freed' \in [1..MaxOut -> Nat]
    BY <1>1, <1>4, <2>1
  <2>4. FreedOnce'
    BY <1>1, <1>4, <2>2 DEF LinkInv, FreedOnce, Holds
  <2> QED  BY <2>2, <2>3, <2>4, <1>1, <1>4 DEF LinkInv
<1>5. CASE UNCHANGED <<out, Tx_skbuff, cur_tx, freed>>
  BY <1>1, <1>5 DEF LinkInv, FreedOnce, Holds, MaxOut
<1> QED  BY <1>3, <1>4, <1>5 DEF outputPacket, entry

\* Every step keeps the invariant.
LEMMA StepKeepsLinks == LinkInv /\ [Next]_vars => LinkInv'
<1> SUFFICES ASSUME LinkInv, [Next]_vars PROVE LinkInv'
  OBVIOUS
<1>1. CASE UNCHANGED <<load, out, cur_tx, dirty_tx, Tx_skbuff, freed>>
  BY <1>1 DEF LinkInv, FreedOnce, Holds, MaxOut
<1>2. CASE R1000TxTimeout \/ free
  BY <1>2, ClearKeeps DEF R1000TxTimeout, free
<1>3. CASE serveRings
  <2>1. CASE "TxOK" \in intr.status
    <3>1. PICK n \in TxServed :
            /\ freePackets({Tx_skbuff[s] : s \in {(dirty_tx + i) % NumTxDesc : i \in 0..n - 1}} \ {0})
            /\ Tx_skbuff' = [s \in TxSlot |->
                               IF s \in {(dirty_tx + i) % NumTxDesc : i \in 0..n - 1}
                               THEN 0 ELSE Tx_skbuff[s]]
            /\ dirty_tx' = dirty_tx + n
      BY <2>1, <1>3 DEF serveRings, R1000TxInterrupt
    <3>2. n \in 0..MaxWork /\ dirty_tx \in Nat /\ cur_tx' = cur_tx /\ cur_tx \in Nat
          /\ UNCHANGED <<load, out>>
      BY <1>3 DEF serveRings, TxServed, LinkInv
    <3> DEFINE slots == {(dirty_tx + i) % NumTxDesc : i \in 0..n - 1}
    <3>3. slots \in SUBSET TxSlot
      BY <3>2, SizesAndLoad, ModDiv DEF TxSlot
    <3>4. dirty_tx' \in Nat
      BY <3>1, <3>2, SizesAndLoad
    <3>5. /\ freePackets({Tx_skbuff[s] : s \in slots} \ {0})
          /\ Tx_skbuff' = [s \in TxSlot |-> IF s \in slots THEN 0 ELSE Tx_skbuff[s]]
      BY <3>1
    <3> HIDE DEF slots
    <3> QED  BY <3>2, <3>3, <3>4, <3>5, FreeingKeeps
  <2>2. CASE "TxOK" \notin intr.status
    BY <2>2, <1>1, <1>3 DEF serveRings
  <2> QED  BY <2>1, <2>2
<1>4. CASE outputPacket
  BY <1>4, OutputKeeps
<1> QED
  BY <1>1, <1>2, <1>3, <1>4
  DEF Next, Driver, Interrupt, Controller, enable, disable, R1000Interrupt, readStatus,
      R1000RxInterrupt, RxUnchanged, transmit, receive, vars, driverVars, stackVars

\* No packet handed to the driver is freed twice or freed while a descriptor still
\* refers to it, whatever the sizes of the rings: R1000TxInterrupt, which looks at
\* the wrong descriptors, outputPacket, which overwrites links, the watchdog and free
\* agree on who gives a packet back.
THEOREM PacketsFreedOnce == Spec => []FreedOnce
<1>1. Init => LinkInv
  <2> SUFFICES ASSUME Init PROVE LinkInv
    OBVIOUS
  <2>1. MaxOut \in Nat
    BY SizesAndLoad DEF Init
  <2> QED  BY <2>1 DEF Init, LinkInv, FreedOnce, Holds
<1>2. LinkInv /\ [Next]_vars => LinkInv'
  BY StepKeepsLinks
<1>3. LinkInv => FreedOnce
  BY DEF LinkInv
<1> QED  BY <1>1, <1>2, <1>3, PTL DEF Spec

-----------------------------------------------------------------------------
(* The transmit ring in step.                                              *)

\* Before the interface is switched on for the first time nothing moves, and the
\* rings are at their first descriptors.
RingInv ==
  /\ cur_tx \in Nat /\ enables \in Nat
  /\ enables = 0 => /\ cur_tx = 0 /\ txOwn = {}
                    /\ ~enabled /\ ~timer /\ ~chip
                    /\ queue # "running" /\ intr.pc = "idle"
  /\ WatchdogResynchronises

\* An empty ring with driver and controller at the first descriptor is in step.
LEMMA EmptyRing ==
  ASSUME cur_tx' = 0, hwTx' = 0, txOwn' = {}
  PROVE  TxInStep'
<1>1. NumTxDesc \in Nat \ {0} /\ 0 \in 0..(NumTxDesc - 1)
  BY SizesAndLoad
<1>2. 0 % NumTxDesc = 0
  <2>1. 0 = (NumTxDesc * 0) + 0
    BY <1>1
  <2> QED  BY <1>1, <2>1, ModUnique
<1>3. (cur_tx' - 0) % NumTxDesc = 0
  BY <1>2
<1>4. {(cur_tx' - i) % NumTxDesc : i \in 1..0} = {}
  OBVIOUS
<1>5. 0 \in 0..NumTxDesc /\ 0 <= cur_tx'
  BY <1>1
<1> QED  BY <1>3, <1>4, <1>5 DEF TxInStep

\* outputPacket fills the next descriptor unless the controller still has all.
LEMMA FillKeepsStep ==
  ASSUME cur_tx \in Nat, TxInStep, cur_tx % NumTxDesc \notin txOwn,
         txOwn' = txOwn \cup {cur_tx % NumTxDesc}, cur_tx' = cur_tx + 1, hwTx' = hwTx
  PROVE  TxInStep'
<1>1. NumTxDesc \in Nat \ {0}
  BY SizesAndLoad
<1>2. PICK n \in 0..NumTxDesc : /\ n <= cur_tx
                                /\ hwTx = (cur_tx - n) % NumTxDesc
                                /\ txOwn = {(cur_tx - i) % NumTxDesc : i \in 1..n}
  BY DEF TxInStep
<1>3. n # NumTxDesc
  <2> SUFFICES ASSUME n = NumTxDesc PROVE FALSE
    OBVIOUS
  <2>0. cur_tx \in Int
    OBVIOUS
  <2>1. (cur_tx - NumTxDesc) % NumTxDesc = cur_tx % NumTxDesc
    BY <2>0, <1>1, ModRound
  <2>2. NumTxDesc \in 1..n
    BY <1>1
  <2> QED  BY <2>1, <2>2, <1>2
<1>4. n + 1 \in 0..NumTxDesc /\ n + 1 <= cur_tx' /\ cur_tx' - (n + 1) = cur_tx - n
  BY <1>1, <1>2, <1>3
<1>5. txOwn' = {(cur_tx' - i) % NumTxDesc : i \in 1..(n + 1)}
  <2>1. ASSUME NEW i \in 1..n PROVE (cur_tx - i) % NumTxDesc = (cur_tx' - (i + 1)) % NumTxDesc
    <3>1. cur_tx - i = cur_tx' - (i + 1)
      OBVIOUS
    <3> QED  BY <3>1
  <2>2. cur_tx % NumTxDesc = (cur_tx' - 1) % NumTxDesc
    <3>1. cur_tx = cur_tx' - 1
      OBVIOUS
    <3> QED  BY <3>1
  <2>3. ASSUME NEW i \in 1..(n + 1) PROVE (cur_tx' - i) % NumTxDesc \in txOwn'
    <3>1. CASE i = 1
      BY <3>1, <2>2
    <3>2. CASE i # 1
      <4>1. i - 1 \in 1..n /\ (i - 1) + 1 = i
        BY <3>2
      <4>2. (cur_tx' - i) % NumTxDesc = (cur_tx - (i - 1)) % NumTxDesc
        BY <4>1, <2>1
      <4> QED  BY <4>1, <4>2, <1>2
    <3> QED  BY <3>1, <3>2
  <2>4. ASSUME NEW s \in txOwn' PROVE \E i \in 1..(n + 1) : s = (cur_tx' - i) % NumTxDesc
    <3>1. CASE s = cur_tx % NumTxDesc
      <4>1. 1 \in 1..(n + 1)
        OBVIOUS
      <4> QED  BY <4>1, <3>1, <2>2
    <3>2. CASE s \in txOwn
      <4>1. PICK i \in 1..n : s = (cur_tx - i) % NumTxDesc
        BY <3>2, <1>2
      <4>2. i + 1 \in 1..(n + 1)
        OBVIOUS
      <4> QED  BY <4>1, <4>2, <2>1
    <3> QED  BY <3>1, <3>2
  <2> QED  BY <2>3, <2>4
<1>6. hwTx' = (cur_tx' - (n + 1)) % NumTxDesc
  BY <1>2, <1>4
<1> QED  BY <1>4, <1>5, <1>6 DEF TxInStep

\* The controller transmits the packet it is at, and goes on to the next.
LEMMA TransmitKeepsStep ==
  ASSUME cur_tx \in Nat, TxInStep, hwTx \in txOwn,
         txOwn' = txOwn \ {hwTx}, hwTx' = (hwTx + 1) % NumTxDesc, cur_tx' = cur_tx
  PROVE  TxInStep'
<1>1. NumTxDesc \in Nat \ {0}
  BY SizesAndLoad
<1>2. PICK n \in 0..NumTxDesc : /\ n <= cur_tx
                                /\ hwTx = (cur_tx - n) % NumTxDesc
                                /\ txOwn = {(cur_tx - i) % NumTxDesc : i \in 1..n}
  BY DEF TxInStep
<1>3. n > 0 /\ n - 1 \in 0..NumTxDesc /\ n - 1 <= cur_tx /\ (cur_tx - n) + 1 = cur_tx - (n - 1)
  BY <1>1, <1>2
<1>4. hwTx' = (cur_tx' - (n - 1)) % NumTxDesc
  <2>1. cur_tx - n \in Int
    BY <1>2
  <2>2. (((cur_tx - n) % NumTxDesc) + 1) % NumTxDesc = ((cur_tx - n) + 1) % NumTxDesc
    BY <2>1, <1>1, ModSuccessor
  <2> QED  BY <2>2, <1>2, <1>3
<1>5. ASSUME NEW i \in 1..(n - 1)
      PROVE  (cur_tx - i) % NumTxDesc # (cur_tx - n) % NumTxDesc
  <2>1. /\ cur_tx - n \in Int /\ cur_tx - i \in Int
        /\ cur_tx - n < cur_tx - i /\ (cur_tx - i) - (cur_tx - n) < NumTxDesc
    BY <1>1, <1>3
  <2> QED  BY <2>1, <1>1, ModDistinct
<1>6. txOwn' = {(cur_tx' - i) % NumTxDesc : i \in 1..(n - 1)}
  <2>1. ASSUME NEW i \in 1..(n - 1) PROVE (cur_tx - i) % NumTxDesc \in txOwn'
    <3>1. i \in 1..n
      BY <1>3
    <3> QED  BY <3>1, <1>2, <1>5
  <2>2. ASSUME NEW s \in txOwn' PROVE \E i \in 1..(n - 1) : s = (cur_tx - i) % NumTxDesc
    <3>1. PICK i \in 1..n : s = (cur_tx - i) % NumTxDesc
      BY <1>2
    <3>2. i # n
      BY <3>1, <1>2
    <3>3. i \in 1..(n - 1)
      BY <3>2, <1>3
    <3> QED  BY <3>1, <3>3
  <2> QED  BY <2>1, <2>2
<1> QED  BY <1>3, <1>4, <1>6 DEF TxInStep

\* Every step keeps the ring in step, or makes it so.
LEMMA StepKeepsRing == RingInv /\ [Next]_vars => RingInv'
<1> SUFFICES ASSUME RingInv, [Next]_vars PROVE RingInv'
  OBVIOUS
<1> USE DEF RingInv, WatchdogResynchronises
<1>1. ASSUME UNCHANGED <<cur_tx, txOwn, hwTx>>, TxInStep PROVE TxInStep'
  BY <1>1 DEF TxInStep
<1>2. CASE enable
  <2>1. cur_tx' \in Nat /\ enables' \in Nat /\ enables' = enables + 1 /\ timer'
    BY <1>2 DEF enable
  <2>2. enables' = 1 => TxInStep'
    <3> SUFFICES ASSUME enables = 0 PROVE TxInStep'
      BY <2>1
    <3>1. cur_tx' = 0 /\ hwTx' = 0 /\ txOwn' = {}
      BY <1>2 DEF enable, R1000HwStart
    <3> QED  BY <3>1, EmptyRing
  <2> QED  BY <2>1, <2>2
<1>3. CASE disable
  BY <1>3 DEF disable
<1>4. CASE outputPacket
  <2>1. /\ enables # 0 /\ enables' = enables /\ cur_tx' \in Nat
        /\ UNCHANGED <<enabled, timer, hwTx>>
    BY <1>4 DEF outputPacket
  <2>2. TxInStep => TxInStep'
    BY <1>1, <1>4, FillKeepsStep DEF outputPacket
  <2> QED  BY <2>1, <2>2
<1>5. CASE R1000TxTimeout
  <2>1. cur_tx' = 0 /\ hwTx' = 0 /\ txOwn' = {} /\ enables' = enables /\ enables # 0
    BY <1>5 DEF R1000TxTimeout, R1000TxClear, R1000HwStart
  <2>2. TxInStep'
    BY <2>1, EmptyRing
  <2> QED  BY <2>1, <2>2
<1>6. CASE free
  BY <1>6 DEF free, R1000TxClear
<1>7. CASE transmit
  <2>1. /\ enables # 0 /\ UNCHANGED <<cur_tx, enables, enabled, timer>>
    BY <1>7 DEF transmit, driverVars, stackVars
  <2>2. TxInStep => TxInStep'
    BY <2>1, <1>1, <1>7, TransmitKeepsStep DEF transmit
  <2> QED  BY <2>1, <2>2
<1>8. CASE R1000Interrupt
  BY <1>1, <1>8 DEF R1000Interrupt, driverVars, stackVars
<1>9. CASE readStatus
  BY <1>1, <1>9 DEF readStatus, stackVars
<1>10. CASE serveRings
  BY <1>1, <1>10 DEF serveRings
<1>11. CASE receive
  BY <1>1, <1>11 DEF receive, driverVars
<1>12. CASE R1000RxInterrupt
  BY <1>1, <1>12 DEF R1000RxInterrupt, RxUnchanged
<1>13. CASE UNCHANGED vars
  BY <1>1, <1>13 DEF vars, driverVars, deviceVars, stackVars
<1> QED
  BY <1>2, <1>3, <1>4, <1>5, <1>6, <1>7, <1>8, <1>9, <1>10, <1>11, <1>12, <1>13
  DEF Next, Driver, Interrupt, Controller

\* Until the interface is switched on again, and from then on once the watchdog has
\* run, the controller is at the first of the descriptors it was given, and those
\* are the last ones outputPacket filled: packets go out in order.
THEOREM RingInStep == Spec => []WatchdogResynchronises
<1>1. Init => RingInv
  BY DEF Init, RingInv, WatchdogResynchronises, Idle
<1>2. RingInv /\ [Next]_vars => RingInv'
  BY StepKeepsRing
<1>3. RingInv => WatchdogResynchronises
  BY DEF RingInv
<1> QED  BY <1>1, <1>2, <1>3, PTL DEF Spec

-----------------------------------------------------------------------------
(* Packets are handed up once and in order.                                *)

\* Types of the receive ring; what came in is numbered in the order of arrival.
RxTyped ==
  /\ arrived \in Nat
  /\ cur_rx \in RxSlot /\ hwRx \in RxSlot
  /\ rxDesc \in [RxSlot -> Error..arrived]
  /\ received \in Seq(1..arrived)

\* No packet is in two places.
RxOnce ==
  /\ \A s, t \in RxSlot : rxDesc[s] > 0 /\ rxDesc[s] = rxDesc[t] => s = t
  /\ \A s \in RxSlot : \A i \in DOMAIN received : rxDesc[s] # received[i]
  /\ \A i, j \in DOMAIN received : i # j => received[i] # received[j]

\* The n descriptors from cur_rx on are those the controller has filled since: it is at
\* the next one, they hold packets in the order of arrival or errors, and the others
\* hold no packet.
RxAt(i) == (cur_rx + i) % NumRxDesc
RxFilled(n) ==
  /\ hwRx = RxAt(n)
  /\ \A i \in 0..n - 1 : rxDesc[RxAt(i)] # Own
  /\ \A i \in n..NumRxDesc - 1 : ~(rxDesc[RxAt(i)] > 0)
  /\ \A i, j \in 0..n - 1 :
       i < j /\ rxDesc[RxAt(i)] > 0 /\ rxDesc[RxAt(j)] > 0 => rxDesc[RxAt(i)] < rxDesc[RxAt(j)]

\* The driver has gone round to a descriptor with an error that the controller is waiting
\* for: no packet is in the ring and none can get there.
RxStuck == rxDesc[hwRx] = Error /\ \A s \in RxSlot : ~(rxDesc[s] > 0)

RxInStep == RxStuck \/ \E n \in 0..NumRxDesc : RxFilled(n)

\* What is in the ring came after all that was handed up.
RxLater ==
  /\ \A s \in RxSlot : \A i \in DOMAIN received : rxDesc[s] > 0 => received[i] < rxDesc[s]
  /\ \A i, j \in DOMAIN received : i < j => received[i] < received[j]

RxInv ==
  /\ RxTyped /\ RxOnce
  /\ enables = 0 => cur_rx = 0 /\ hwRx = 0 /\ rxDesc = [s \in RxSlot |-> Own] /\ ~restarted
  /\ ~restarted => RxInStep /\ RxLater

LEMMA RxSizes ==
  /\ NumRxDesc \in Nat \ {0} /\ NumRxDesc \in Int
  /\ 0 \in RxSlot
  /\ RxTyped => /\ \A i \in Int : RxAt(i) \in RxSlot
                /\ RxAt(0) = cur_rx /\ RxAt(NumRxDesc) = cur_rx /\ cur_rx \in Int
                /\ RxNext = RxAt(1)
                /\ \A s \in RxSlot : rxDesc[s] \in Int /\ rxDesc[s] <= arrived /\ rxDesc[s] >= Error
<1>1. NumRxDesc \in Nat \ {0} /\ NumRxDesc \in Int
  BY R1000Assumption
<1>2. 0 \in RxSlot
  BY <1>1 DEF RxSlot
<1> SUFFICES ASSUME RxTyped
             PROVE  /\ \A i \in Int : RxAt(i) \in RxSlot
                    /\ RxAt(0) = cur_rx /\ RxAt(NumRxDesc) = cur_rx /\ cur_rx \in Int
                    /\ RxNext = RxAt(1)
                    /\ \A s \in RxSlot : rxDesc[s] \in Int /\ rxDesc[s] <= arrived /\ rxDesc[s] >= Error
  BY <1>1, <1>2
<1>3. cur_rx \in 0..(NumRxDesc - 1) /\ cur_rx \in Int
  BY <1>1 DEF RxTyped, RxSlot
<1>4. ASSUME NEW i \in Int PROVE RxAt(i) \in RxSlot
  <2>1. cur_rx + i \in Int
    BY <1>3
  <2> QED  BY <1>1, <2>1, ModDiv DEF RxAt, RxSlot
<1>5. cur_rx % NumRxDesc = cur_rx
  <2>1. cur_rx = (NumRxDesc * 0) + cur_rx
    BY <1>1, <1>3
  <2> QED  BY <1>1, <1>3, <2>1, ModUnique
<1>6. RxAt(0) = cur_rx
  <2>1. cur_rx + 0 = cur_rx
    BY <1>3
  <2> QED  BY <1>5, <2>1 DEF RxAt
<1>7. RxAt(NumRxDesc) = cur_rx
  <2>1. cur_rx + NumRxDesc \in Int /\ (cur_rx + NumRxDesc) - NumRxDesc = cur_rx
    BY <1>1, <1>3
  <2>2. ((cur_rx + NumRxDesc) - NumRxDesc) % NumRxDesc = (cur_rx + NumRxDesc) % NumRxDesc
    BY <1>1, <2>1, ModRound
  <2> QED  BY <1>5, <2>1, <2>2 DEF RxAt
<1>8. RxNext = RxAt(1)
  BY DEF RxNext, RxAt
<1>9. \A s \in RxSlot : rxDesc[s] \in Int /\ rxDesc[s] <= arrived /\ rxDesc[s] >= Error
  BY DEF RxTyped, Error
<1> QED  BY <1>3, <1>4, <1>6, <1>7, <1>8, <1>9

\* The places of the ring, counted from cur_rx, are different descriptors.
LEMMA RxPlaces ==
  ASSUME RxTyped
  PROVE  /\ \A i, j \in 0..(NumRxDesc - 1) : i # j => RxAt(i) # RxAt(j)
         /\ \A s \in RxSlot : \E i \in 0..(NumRxDesc - 1) : s = RxAt(i)
<1>1. NumRxDesc \in Nat \ {0} /\ cur_rx \in Int /\ cur_rx \in 0..(NumRxDesc - 1)
  BY RxSizes DEF RxTyped, RxSlot
<1>2. ASSUME NEW i \in 0..(NumRxDesc - 1), NEW j \in 0..(NumRxDesc - 1), i < j
      PROVE  RxAt(i) # RxAt(j)
  <2>1. /\ cur_rx + i \in Int /\ cur_rx + j \in Int /\ cur_rx + i < cur_rx + j
        /\ (cur_rx + j) - (cur_rx + i) < NumRxDesc
    BY <1>1, <1>2
  <2> QED  BY <1>1, <2>1, ModDistinct DEF RxAt
<1>3. ASSUME NEW i \in 0..(NumRxDesc - 1), NEW j \in 0..(NumRxDesc - 1), i # j
      PROVE  RxAt(i) # RxAt(j)
  <2>1. i < j \/ j < i
    BY <1>1, <1>3
  <2> QED  BY <1>2, <2>1
<1>4. ASSUME NEW s \in RxSlot PROVE \E i \in 0..(NumRxDesc - 1) : s = RxAt(i)
  <2>1. s \in 0..(NumRxDesc - 1) /\ s \in Int
    BY <1>1 DEF RxSlot
  <2>2. CASE s >= cur_rx
    <3>1. s - cur_rx \in 0..(NumRxDesc - 1) /\ cur_rx + (s - cur_rx) = s
      BY <1>1, <2>1, <2>2
    <3>2. s = (NumRxDesc * 0) + s
      BY <1>1, <2>1
    <3>3. s % NumRxDesc = s
      BY <1>1, <2>1, <3>2, ModUnique
    <3> QED  BY <3>1, <3>3 DEF RxAt
  <2>3. CASE s < cur_rx
    <3>1. /\ (s + NumRxDesc) - cur_rx \in 0..(NumRxDesc - 1)
          /\ cur_rx + ((s + NumRxDesc) - cur_rx) = s + NumRxDesc
      BY <1>1, <2>1, <2>3
    <3>2. s + NumRxDesc = (NumRxDesc * 1) + s /\ s + NumRxDesc \in Int
      BY <1>1, <2>1
    <3>3. (s + NumRxDesc) % NumRxDesc = s
      BY <1>1, <2>1, <3>2, ModUnique
    <3> QED  BY <3>1, <3>3 DEF RxAt
  <2> QED  BY <1>1, <2>1, <2>2, <2>3
<1> QED  BY <1>3, <1>4

\* The next packet, or an error, in the descriptor the controller is at.
LEMMA FillKeepsRxStep ==
  ASSUME RxTyped, RxInStep, rxDesc[hwRx] = Own, cur_rx' = cur_rx,
         NEW d \in {arrived + 1, Error}, rxDesc' = [rxDesc EXCEPT ![hwRx] = d],
         hwRx' = (hwRx + 1) % NumRxDesc
  PROVE  RxInStep'
<1>1. PICK n \in 0..NumRxDesc : RxFilled(n)
  BY DEF RxInStep, RxStuck, Own, Error
<1>2. /\ NumRxDesc \in Nat \ {0} /\ n \in Int /\ arrived \in Nat
      /\ \A i \in Int : RxAt(i) \in RxSlot
      /\ \A s \in RxSlot : rxDesc[s] \in Int /\ rxDesc[s] <= arrived
  <2>1. arrived \in Nat
    BY DEF RxTyped
  <2>2. NumRxDesc \in Nat \ {0} /\ n \in Int
    BY RxSizes
  <2> QED  BY <2>1, <2>2, RxSizes
<1>3. n < NumRxDesc
  <2> SUFFICES ASSUME n = NumRxDesc PROVE FALSE
    BY <1>2
  <2>1. hwRx = RxAt(0)
    BY <1>1, RxSizes DEF RxFilled
  <2>2. 0 \in 0..n - 1
    BY <1>2
  <2> QED  BY <1>1, <2>1, <2>2 DEF RxFilled
<1>4. n \in 0..(NumRxDesc - 1) /\ hwRx = RxAt(n)
  BY <1>1, <1>2, <1>3 DEF RxFilled
<1>5. d \in Int /\ d # Own /\ (d > 0 => d = arrived + 1)
  BY <1>2 DEF Own, Error
<1>6. rxDesc'[RxAt(n)] = d /\ \A i \in 0..(NumRxDesc - 1) : i # n => rxDesc'[RxAt(i)] = rxDesc[RxAt(i)]
  <2>1. rxDesc \in [RxSlot -> Error..arrived]
    BY DEF RxTyped
  <2>2. ASSUME NEW i \in 0..(NumRxDesc - 1), i # n PROVE RxAt(i) # hwRx /\ RxAt(i) \in RxSlot
    BY <1>2, <1>4, <2>2, RxPlaces
  <2> QED  BY <1>2, <1>4, <2>1, <2>2
<1>7. \A i \in Int : RxAt(i)' = RxAt(i)
  BY DEF RxAt
<1>8. hwRx' = RxAt(n + 1)
  <2>1. cur_rx \in Int /\ cur_rx + n \in Int /\ (cur_rx + n) + 1 = cur_rx + (n + 1)
    BY <1>2, RxSizes
  <2>2. (((cur_rx + n) % NumRxDesc) + 1) % NumRxDesc = ((cur_rx + n) + 1) % NumRxDesc
    BY <1>2, <2>1, ModSuccessor
  <2> QED  BY <1>4, <2>1, <2>2 DEF RxAt
<1>9. ASSUME NEW i \in 0..(n + 1) - 1 PROVE rxDesc'[RxAt(i)] # Own
  <2>1. CASE i = n
    BY <1>5, <1>6, <2>1
  <2>2. CASE i # n
    <3>1. i \in 0..n - 1 /\ i \in 0..(NumRxDesc - 1)
      BY <1>2, <1>3, <2>2
    <3> QED  BY <1>1, <1>6, <2>2, <3>1 DEF RxFilled
  <2> QED  BY <2>1, <2>2
<1>10. ASSUME NEW i \in (n + 1)..NumRxDesc - 1 PROVE ~(rxDesc'[RxAt(i)] > 0)
  <2>1. i \in n..NumRxDesc - 1 /\ i \in 0..(NumRxDesc - 1) /\ i # n
    BY <1>2, <1>4
  <2> QED  BY <1>1, <1>6, <2>1 DEF RxFilled
<1>11. ASSUME NEW i \in 0..(n + 1) - 1, NEW j \in 0..(n + 1) - 1,
              i < j, rxDesc'[RxAt(i)] > 0, rxDesc'[RxAt(j)] > 0
       PROVE  rxDesc'[RxAt(i)] < rxDesc'[RxAt(j)]
  <2>1. i # n /\ i \in 0..n - 1 /\ i \in 0..(NumRxDesc - 1) /\ i \in Int
    BY <1>2, <1>3, <1>11
  <2>2. rxDesc'[RxAt(i)] = rxDesc[RxAt(i)] /\ rxDesc[RxAt(i)] <= arrived /\ rxDesc[RxAt(i)] \in Int
    BY <1>2, <1>6, <2>1
  <2>3. CASE j = n
    <3>1. rxDesc'[RxAt(j)] = arrived + 1
      BY <1>5, <1>6, <1>11, <2>3
    <3> QED  BY <1>2, <2>2, <3>1
  <2>4. CASE j # n
    <3>1. j \in 0..n - 1 /\ j \in 0..(NumRxDesc - 1)
      BY <1>2, <1>3, <2>4
    <3>2. rxDesc'[RxAt(j)] = rxDesc[RxAt(j)]
      BY <1>6, <2>4, <3>1
    <3> QED  BY <1>1, <1>11, <2>1, <2>2, <3>1, <3>2 DEF RxFilled
  <2> QED  BY <2>3, <2>4
<1>12. n + 1 \in 0..NumRxDesc /\ n + 1 \in Int
  BY <1>2, <1>3
<1>13. \E m \in 0..NumRxDesc : RxFilled(m)'
  <2>1. RxFilled(n + 1)'
    <3>1. \A i \in 0..(n + 1) - 1 : i \in Int
      BY <1>2
    <3>2. \A i \in (n + 1)..NumRxDesc - 1 : i \in Int
      BY <1>2
    <3> QED  BY <1>7, <1>8, <1>9, <1>10, <1>11, <1>12, <3>1, <3>2 DEF RxFilled
  <2> QED  BY <1>12, <2>1
<1> QED  BY <1>13 DEF RxInStep

\* The driver takes the packet at cur_rx and gives the descriptor back, or passes over an
\* error.
LEMMA TakeKeepsRxStep ==
  ASSUME RxTyped, RxInStep, rxDesc[cur_rx] # Own, cur_rx' = RxNext, hwRx' = hwRx,
         \/ rxDesc[cur_rx] = Error /\ rxDesc' = rxDesc
         \/ rxDesc[cur_rx] # Error /\ rxDesc' = [rxDesc EXCEPT ![cur_rx] = Own]
  PROVE  RxInStep'
<1>1. /\ NumRxDesc \in Nat \ {0} /\ cur_rx \in RxSlot /\ cur_rx \in Int /\ hwRx \in RxSlot
      /\ RxAt(0) = cur_rx /\ RxAt(NumRxDesc) = cur_rx
      /\ \A i \in Int : RxAt(i) \in RxSlot
      /\ \A s \in RxSlot : rxDesc[s] \in Int /\ rxDesc[s] >= Error
  BY RxSizes DEF RxTyped
<1>2. ~(rxDesc'[cur_rx] > 0) /\ \A s \in RxSlot : s # cur_rx => rxDesc'[s] = rxDesc[s]
  BY <1>1 DEF RxTyped, Own, Error
<1>3. ~(rxDesc[cur_rx] > 0) => rxDesc[cur_rx] = Error /\ rxDesc' = rxDesc
  BY <1>1 DEF Own, Error
<1>4. CASE RxStuck
  <2>1. rxDesc' = rxDesc
    BY <1>1, <1>3, <1>4 DEF RxStuck
  <2> QED  BY <1>4, <2>1 DEF RxInStep, RxStuck
<1>5. ASSUME NEW n \in 0..NumRxDesc, RxFilled(n) PROVE RxInStep'
  <2>0. n \in Int
    BY <1>1
  <2>1. CASE n = 0
    <3>1. hwRx = cur_rx
      BY <1>1, <1>5, <2>1 DEF RxFilled
    <3>2. ASSUME NEW s \in RxSlot PROVE ~(rxDesc[s] > 0)
      <4>1. PICK i \in 0..(NumRxDesc - 1) : s = RxAt(i)
        BY RxPlaces
      <4>2. i \in n..NumRxDesc - 1
        BY <2>1, <4>1
      <4> QED  BY <1>5, <4>1, <4>2 DEF RxFilled
    <3>3. rxDesc' = rxDesc /\ rxDesc[hwRx] = Error
      BY <1>1, <1>3, <3>1, <3>2
    <3> QED  BY <3>2, <3>3 DEF RxInStep, RxStuck
  <2>2. CASE n # 0
    <3>1. n - 1 \in 0..NumRxDesc /\ n - 1 \in Int
      BY <1>1, <2>0, <2>2
    <3>2. ASSUME NEW i \in Int PROVE RxAt(i)' = RxAt(i + 1)
      <4>1. cur_rx + 1 \in Int /\ (cur_rx + 1) + i = cur_rx + (i + 1)
        BY <1>1
      <4>2. (((cur_rx + 1) % NumRxDesc) + i) % NumRxDesc = ((cur_rx + 1) + i) % NumRxDesc
        BY <1>1, <4>1, ModPlus
      <4> QED  BY <4>1, <4>2 DEF RxAt, RxNext
    <3>3. hwRx' = RxAt(n - 1)'
      <4>1. (n - 1) + 1 = n
        BY <2>0
      <4> QED  BY <1>5, <3>1, <3>2, <4>1 DEF RxFilled
    <3>4. ASSUME NEW i \in 0..NumRxDesc - 2
          PROVE  i + 1 \in 0..(NumRxDesc - 1) /\ rxDesc'[RxAt(i + 1)] = rxDesc[RxAt(i + 1)]
      <4>1. i + 1 \in 0..(NumRxDesc - 1) /\ 0 \in 0..(NumRxDesc - 1) /\ i + 1 # 0 /\ i + 1 \in Int
        BY <1>1
      <4>2. RxAt(i + 1) # RxAt(0) /\ RxAt(i + 1) \in RxSlot
        BY <1>1, <4>1, RxPlaces
      <4> QED  BY <1>1, <1>2, <4>1, <4>2
    <3>5. ASSUME NEW i \in 0..(n - 1) - 1
          PROVE  /\ i \in Int /\ i + 1 \in 0..n - 1 /\ RxAt(i)' = RxAt(i + 1)
                 /\ rxDesc'[RxAt(i)'] = rxDesc[RxAt(i + 1)]
      <4>1. i \in Int /\ i + 1 \in 0..n - 1 /\ i \in 0..NumRxDesc - 2
        BY <1>1, <2>0
      <4> QED  BY <3>2, <3>4, <4>1
    <3>6. ASSUME NEW i \in 0..(n - 1) - 1 PROVE rxDesc'[RxAt(i)'] # Own
      BY <1>5, <3>5 DEF RxFilled
    <3>7. ASSUME NEW i \in (n - 1)..NumRxDesc - 1 PROVE ~(rxDesc'[RxAt(i)'] > 0)
      <4>0. i \in Int /\ RxAt(i)' = RxAt(i + 1)
        BY <3>1, <3>2
      <4>1. CASE i = NumRxDesc - 1
        <5>1. i + 1 = NumRxDesc
          BY <1>1, <4>1
        <5> QED  BY <1>1, <1>2, <4>0, <5>1
      <4>2. CASE i # NumRxDesc - 1
        <5>1. i \in 0..NumRxDesc - 2 /\ i + 1 \in n..NumRxDesc - 1
          BY <1>1, <2>0, <3>1, <4>0, <4>2
        <5>2. rxDesc'[RxAt(i)'] = rxDesc[RxAt(i + 1)]
          BY <3>4, <4>0, <5>1
        <5> QED  BY <1>5, <5>1, <5>2 DEF RxFilled
      <4> QED  BY <4>1, <4>2
    <3>8. ASSUME NEW i \in 0..(n - 1) - 1, NEW j \in 0..(n - 1) - 1,
                 i < j, rxDesc'[RxAt(i)'] > 0, rxDesc'[RxAt(j)'] > 0
          PROVE  rxDesc'[RxAt(i)'] < rxDesc'[RxAt(j)']
      <4>1. /\ i + 1 \in 0..n - 1 /\ rxDesc'[RxAt(i)'] = rxDesc[RxAt(i + 1)] /\ i \in Int
            /\ j + 1 \in 0..n - 1 /\ rxDesc'[RxAt(j)'] = rxDesc[RxAt(j + 1)] /\ j \in Int
        BY <3>5
      <4>2. i + 1 < j + 1
        BY <3>8, <4>1
      <4> QED  BY <1>5, <3>8, <4>1, <4>2 DEF RxFilled
    <3>9. RxFilled(n - 1)'
      BY <3>3, <3>6, <3>7, <3>8 DEF RxFilled
    <3> QED  BY <3>1, <3>9 DEF RxInStep
  <2> QED  BY <2>1, <2>2
<1> QED  BY <1>4, <1>5 DEF RxInStep

\* A packet is handed up.
LEMMA HandedUp ==
  ASSUME NEW S, received \in Seq(S), NEW p \in S, received' = Append(received, p)
  PROVE  /\ received' \in Seq(S)
         /\ DOMAIN received' = DOMAIN received \cup {Len(received) + 1}
         /\ \A i \in DOMAIN received : /\ received'[i] = received[i] /\ received[i] \in S
                                       /\ i \in Nat /\ i < Len(received) + 1
         /\ received'[Len(received) + 1] = p
<1>1. /\ received' \in Seq(S) /\ Len(received') = Len(received) + 1
      /\ \A k \in 1..Len(received) : received'[k] = received[k]
      /\ received'[Len(received) + 1] = p
  BY AppendProperties
<1>2. /\ DOMAIN received = 1..Len(received) /\ DOMAIN received' = 1..(Len(received) + 1)
      /\ Len(received) \in Nat
  BY <1>1, LenProperties
<1>3. DOMAIN received' = DOMAIN received \cup {Len(received) + 1}
  BY <1>2
<1>4. \A k \in DOMAIN received : k \in Nat /\ k < Len(received) + 1 /\ received[k] \in S
  BY <1>2, ElementOfSeq
<1> QED  BY <1>1, <1>2, <1>3, <1>4

LEMMA NewIsLater ==
  ASSUME NEW a \in Int, NEW d \in Int, NEW r \in Int, d > 0 => d = a + 1, 0 < r, r <= a
  PROVE  d # r /\ (d > 0 => r < d)
OBVIOUS

LEMMA ArrivalKeeps == RxInv /\ RingInv /\ receive => RxInv'
<1> SUFFICES ASSUME RxInv, RingInv, receive PROVE RxInv'
  OBVIOUS
<1>1. /\ arrived \in Nat /\ arrived' = arrived + 1 /\ cur_rx' = cur_rx /\ received' = received
      /\ enables' = enables /\ restarted' = restarted /\ enables # 0
      /\ cur_rx \in RxSlot /\ hwRx \in RxSlot
      /\ rxDesc \in [RxSlot -> Error..arrived] /\ received \in Seq(1..arrived)
  BY DEF receive, RxInv, RxTyped, RingInv, driverVars
<1>2. DOMAIN received = 1..Len(received) /\ \A i \in DOMAIN received : received[i] \in 1..arrived
  BY <1>1, LenProperties, ElementOfSeq
<1>3. received' \in Seq(1..arrived')
  <2>1. 1..arrived \subseteq 1..(arrived + 1)
    BY <1>1
  <2>2. \A i \in 1..Len(received) : received[i] \in 1..(arrived + 1)
    BY <1>2, <2>1
  <2>3. received \in Seq(1..(arrived + 1))
    BY <1>1, <2>2
  <2> QED  BY <1>1, <2>3
<1>4. CASE rxDesc[hwRx] = Own
  <2>1. PICK d \in {arrived + 1, Error} : rxDesc' = [rxDesc EXCEPT ![hwRx] = d]
    BY <1>4 DEF receive
  <2>2. hwRx' = (hwRx + 1) % NumRxDesc
    BY <1>4 DEF receive
  <2>3. hwRx' \in RxSlot
    <3>1. hwRx + 1 \in Int /\ NumRxDesc \in Nat \ {0}
      BY <1>1, RxSizes DEF RxSlot
    <3> QED  BY <2>2, <3>1, ModDiv DEF RxSlot
  <2>4. d \in Error..(arrived + 1) /\ d \in Int /\ (d > 0 => d = arrived + 1)
    BY <1>1 DEF Error
  <2>5. rxDesc'[hwRx] = d /\ \A s \in RxSlot : s # hwRx => rxDesc'[s] = rxDesc[s]
    BY <1>1, <2>1
  <2>6. \A s \in RxSlot : rxDesc[s] \in Int /\ rxDesc[s] <= arrived
    BY <1>1 DEF Error
  <2>7. rxDesc' \in [RxSlot -> Error..arrived']
    <3>1. \A x \in Error..arrived : x \in Error..(arrived + 1)
      BY <1>1 DEF Error
    <3> QED  BY <1>1, <2>1, <2>4, <3>1
  <2>8. RxTyped'
    BY <1>1, <1>3, <2>3, <2>7 DEF RxTyped
  <2>9. RxOnce'
    <3>1. ASSUME NEW s \in RxSlot, NEW t \in RxSlot, rxDesc'[s] > 0, rxDesc'[s] = rxDesc'[t] PROVE s = t
      <4>1. CASE s = hwRx \/ t = hwRx
        BY <1>1, <2>4, <2>5, <2>6, <3>1, <4>1
      <4>2. CASE s # hwRx /\ t # hwRx
        BY <2>5, <3>1, <4>2 DEF RxInv, RxOnce
      <4> QED  BY <4>1, <4>2
    <3>2. ASSUME NEW s \in RxSlot, NEW i \in DOMAIN received PROVE rxDesc'[s] # received[i]
      <4>1. received[i] \in Int /\ 0 < received[i] /\ received[i] <= arrived
        BY <1>1, <1>2
      <4>2. arrived \in Int /\ d \in Int /\ (d > 0 => d = arrived + 1)
        BY <1>1, <2>4
      <4>4. d # received[i]
        BY <4>1, <4>2, NewIsLater, Zenon
      <4>5. CASE s = hwRx
        BY <2>5, <4>4, <4>5, Zenon
      <4>3. CASE s # hwRx
        BY <2>5, <4>3 DEF RxInv, RxOnce
      <4> QED  BY <4>3, <4>5
    <3> QED  BY <1>1, <3>1, <3>2 DEF RxInv, RxOnce
  <2>10. ~restarted => RxInStep'
    BY <1>1, <1>4, <2>1, <2>2, FillKeepsRxStep DEF RxInv
  <2>11. ~restarted => RxLater'
    <3> SUFFICES ASSUME ~restarted PROVE RxLater'
      OBVIOUS
    <3>1. ASSUME NEW s \in RxSlot, NEW i \in DOMAIN received, rxDesc'[s] > 0
          PROVE  received[i] < rxDesc'[s]
      <4>1. received[i] \in Int /\ 0 < received[i] /\ received[i] <= arrived
        BY <1>1, <1>2
      <4>2. arrived \in Int /\ d \in Int /\ (d > 0 => d = arrived + 1)
        BY <1>1, <2>4
      <4>4. d > 0 => received[i] < d
        BY <4>1, <4>2, NewIsLater, Zenon
      <4>5. CASE s = hwRx
        BY <2>5, <3>1, <4>4, <4>5, Zenon
      <4>3. CASE s # hwRx
        BY <2>5, <3>1, <4>3 DEF RxInv, RxLater
      <4> QED  BY <4>3, <4>5
    <3> QED  BY <1>1, <3>1 DEF RxInv, RxLater
  <2> QED  BY <1>1, <2>8, <2>9, <2>10, <2>11 DEF RxInv
<1>5. CASE rxDesc[hwRx] # Own
  <2>1. rxDesc' = rxDesc /\ hwRx' = hwRx
    BY <1>5 DEF receive
  <2>2. rxDesc' \in [RxSlot -> Error..arrived']
    <3>1. \A x \in Error..arrived : x \in Error..(arrived + 1)
      BY <1>1 DEF Error
    <3> QED  BY <1>1, <2>1, <3>1
  <2>3. RxTyped'
    BY <1>1, <1>3, <2>1, <2>2 DEF RxTyped
  <2>4. RxOnce' /\ (~restarted => RxInStep' /\ RxLater')
    BY <1>1, <2>1 DEF RxInv, RxOnce, RxInStep, RxLater, RxStuck, RxFilled, RxAt
  <2> QED  BY <1>1, <2>3, <2>4 DEF RxInv
<1> QED  BY <1>4, <1>5

LEMMA TakeKeeps == RxInv /\ RingInv /\ R1000RxInterrupt => RxInv'
<1> SUFFICES ASSUME RxInv, RingInv, R1000RxInterrupt PROVE RxInv'
  OBVIOUS
<1>1. /\ arrived \in Nat /\ arrived' = arrived /\ hwRx' = hwRx
      /\ enables' = enables /\ restarted' = restarted /\ enables # 0
      /\ cur_rx \in RxSlot /\ hwRx \in RxSlot /\ rxDesc[cur_rx] # Own
      /\ rxDesc \in [RxSlot -> Error..arrived] /\ received \in Seq(1..arrived)
  BY DEF R1000RxInterrupt, RxUnchanged, RxLeft, RxInv, RxTyped, RingInv
<1>2. RxNext \in RxSlot
  BY RxSizes DEF RxInv
<1>3. CASE UNCHANGED <<received, rxDesc, cur_rx>>
  BY <1>1, <1>3 DEF RxInv, RxTyped, RxOnce, RxInStep, RxLater, RxStuck, RxFilled, RxAt
<1>4. CASE rxDesc[cur_rx] = Error /\ cur_rx' = RxNext /\ UNCHANGED <<received, rxDesc>>
  <2>1. RxTyped' /\ RxOnce' /\ (RxLater => RxLater')
    BY <1>1, <1>2, <1>4 DEF RxInv, RxTyped, RxOnce, RxLater
  <2>2. ~restarted => RxInStep'
    BY <1>1, <1>4, TakeKeepsRxStep DEF RxInv
  <2> QED  BY <1>1, <2>1, <2>2 DEF RxInv
<1>5. CASE /\ rxDesc[cur_rx] # Error /\ received' = Append(received, rxDesc[cur_rx])
           /\ rxDesc' = [rxDesc EXCEPT ![cur_rx] = Own] /\ cur_rx' = RxNext
  <2>1. rxDesc[cur_rx] \in 1..arrived /\ rxDesc[cur_rx] > 0 /\ rxDesc[cur_rx] \in Int
    BY <1>1, <1>5 DEF Own, Error
  <2>2. PICK p : p = rxDesc[cur_rx]
    OBVIOUS
  <2>3. PICK last : last = Len(received) + 1
    OBVIOUS
  <2>4. /\ received' \in Seq(1..arrived)
        /\ DOMAIN received' = DOMAIN received \cup {last}
        /\ \A i \in DOMAIN received : /\ received'[i] = received[i] /\ received[i] \in 1..arrived
                                      /\ i \in Nat /\ i < last
        /\ received'[last] = p
    BY <1>1, <1>5, <2>1, <2>2, <2>3, HandedUp
  <2>5. rxDesc'[cur_rx] = 0 /\ \A s \in RxSlot : s # cur_rx => rxDesc'[s] = rxDesc[s]
    BY <1>1, <1>5 DEF Own
  <2>6. rxDesc' \in [RxSlot -> Error..arrived]
    BY <1>1, <1>5 DEF Own, Error
  <2>7. RxTyped'
    BY <1>1, <1>2, <1>5, <2>4, <2>6 DEF RxTyped
  <2>8. ASSUME NEW s \in RxSlot, s # cur_rx, rxDesc[s] > 0 PROVE rxDesc[s] # p
    BY <1>1, <2>1, <2>2, <2>8 DEF RxInv, RxOnce
  <2>9. RxOnce'
    <3>1. ASSUME NEW s \in RxSlot, NEW t \in RxSlot, rxDesc'[s] > 0, rxDesc'[s] = rxDesc'[t] PROVE s = t
      <4>1. s # cur_rx /\ t # cur_rx
        BY <2>5, <3>1
      <4> QED  BY <2>5, <3>1, <4>1 DEF RxInv, RxOnce
    <3>2. ASSUME NEW s \in RxSlot, NEW i \in DOMAIN received' PROVE rxDesc'[s] # received'[i]
      <4>0. p > 0 /\ p \in Int
        BY <2>1, <2>2
      <4>1. CASE i = last
        <5>1. CASE s = cur_rx
          BY <2>4, <2>5, <4>0, <4>1, <5>1
        <5>2. CASE s # cur_rx
          BY <2>4, <2>5, <2>8, <4>0, <4>1, <5>2
        <5> QED  BY <5>1, <5>2
      <4>2. CASE i \in DOMAIN received
        <5>1. received'[i] = received[i] /\ received[i] \in 1..arrived
          BY <2>4, <4>2
        <5>2. CASE s = cur_rx
          BY <1>1, <2>5, <5>1, <5>2
        <5>3. CASE s # cur_rx
          BY <2>5, <4>2, <5>1, <5>3 DEF RxInv, RxOnce
        <5> QED  BY <5>2, <5>3
      <4> QED  BY <2>4, <4>1, <4>2
    <3>3. ASSUME NEW i \in DOMAIN received PROVE received[i] # p
      BY <1>1, <2>2 DEF RxInv, RxOnce
    <3>4. ASSUME NEW i \in DOMAIN received', NEW j \in DOMAIN received', i # j
          PROVE  received'[i] # received'[j]
      BY <2>4, <3>3, <3>4 DEF RxInv, RxOnce
    <3> QED  BY <3>1, <3>2, <3>4 DEF RxOnce
  <2>10. ~restarted => RxInStep'
    BY <1>1, <1>5, TakeKeepsRxStep DEF RxInv
  <2>11. ~restarted => RxLater'
    <3> SUFFICES ASSUME ~restarted PROVE RxLater'
      OBVIOUS
    <3>1. ASSUME NEW i \in DOMAIN received PROVE received[i] < p
      BY <1>1, <2>1, <2>2 DEF RxInv, RxLater
    <3>2. ASSUME NEW i \in DOMAIN received', NEW j \in DOMAIN received', i < j
          PROVE  received'[i] < received'[j]
      <4>1. i # last
        BY <2>3, <2>4, <3>2, LenProperties
      <4>2. i \in DOMAIN received /\ received'[i] = received[i]
        BY <2>4, <4>1
      <4>3. CASE j = last
        BY <2>4, <3>1, <4>2, <4>3
      <4>4. CASE j \in DOMAIN received
        BY <2>4, <3>2, <4>2, <4>4 DEF RxInv, RxLater
      <4> QED  BY <2>4, <4>3, <4>4
    <3>3. ASSUME NEW s \in RxSlot, s # cur_rx, rxDesc[s] > 0 PROVE p < rxDesc[s]
      <4>1. ~RxStuck
        BY <3>3 DEF RxStuck
      <4>2. PICK n \in 0..NumRxDesc : RxFilled(n)
        BY <4>1 DEF RxInv, RxInStep
      <4>3. PICK j \in 0..(NumRxDesc - 1) : s = RxAt(j)
        BY RxPlaces DEF RxInv
      <4>4. NumRxDesc \in Nat \ {0} /\ RxAt(0) = cur_rx
        BY RxSizes DEF RxInv
      <4>5. j # 0
        BY <3>3, <4>3, <4>4
      <4>6. ~(j \in n..NumRxDesc - 1)
        BY <3>3, <4>2, <4>3 DEF RxFilled
      <4>7. j \in 0..n - 1 /\ 0 \in 0..n - 1 /\ 0 < j
        BY <4>4, <4>5, <4>6
      <4> QED  BY <2>1, <2>2, <3>3, <4>2, <4>3, <4>4, <4>7 DEF RxFilled
    <3>4. ASSUME NEW s \in RxSlot, NEW i \in DOMAIN received', rxDesc'[s] > 0
          PROVE  received'[i] < rxDesc'[s]
      <4>1. s # cur_rx /\ rxDesc'[s] = rxDesc[s]
        BY <2>5, <3>4
      <4>2. CASE i = last
        BY <2>4, <3>3, <3>4, <4>1, <4>2
      <4>3. CASE i \in DOMAIN received
        BY <2>4, <3>4, <4>1, <4>3 DEF RxInv, RxLater
      <4> QED  BY <2>4, <4>2, <4>3
    <3> QED  BY <3>2, <3>4 DEF RxLater
  <2> QED  BY <1>1, <2>7, <2>9, <2>10, <2>11 DEF RxInv
<1> QED  BY <1>3, <1>4, <1>5 DEF R1000RxInterrupt

\* The rings as they are before the interface is switched on.
LEMMA FreshRing ==
  ASSUME cur_rx' = 0, hwRx' = 0, rxDesc' = [s \in RxSlot |-> Own]
  PROVE  RxInStep'
<1>1. NumRxDesc \in Nat \ {0} /\ 0 \in 0..(NumRxDesc - 1)
  BY RxSizes
<1>2. ASSUME NEW i \in Int PROVE RxAt(i)' \in RxSlot
  <2>1. 0 + i \in Int
    OBVIOUS
  <2> QED  BY <1>1, <2>1, ModDiv DEF RxAt, RxSlot
<1>3. hwRx' = RxAt(0)'
  <2>1. 0 + 0 = 0 /\ 0 = (NumRxDesc * 0) + 0
    BY <1>1
  <2>2. 0 % NumRxDesc = 0
    BY <1>1, <2>1, ModUnique
  <2> QED  BY <2>1, <2>2 DEF RxAt
<1>4. \A i \in 0..NumRxDesc - 1 : ~(rxDesc'[RxAt(i)'] > 0)
  BY <1>1, <1>2 DEF Own
<1>5. RxFilled(0)'
  BY <1>3, <1>4 DEF RxFilled
<1> QED  BY <1>1, <1>5 DEF RxInStep

LEMMA StepKeepsRx == RxInv /\ RingInv /\ [Next]_vars => RxInv'
<1> SUFFICES ASSUME RxInv, RingInv, [Next]_vars PROVE RxInv'
  OBVIOUS
<1>1. CASE UNCHANGED <<arrived, cur_rx, hwRx, rxDesc, received, enables, restarted>>
  BY <1>1 DEF RxInv, RxTyped, RxOnce, RxInStep, RxLater, RxStuck, RxFilled, RxAt
<1>2. ASSUME R1000HwStart, UNCHANGED <<arrived, rxDesc, received>> PROVE RxTyped' /\ RxOnce'
  BY <1>2, RxSizes DEF R1000HwStart, RxInv, RxTyped, RxOnce
<1>3. CASE enable
  <2>1. RxTyped' /\ RxOnce' /\ enables' # 0
    BY <1>2, <1>3 DEF enable, RingInv
  <2>2. CASE enables = 0
    <3>1. RxInStep'
      BY <1>3, <2>2, FreshRing DEF enable, R1000HwStart, RxInv
    <3>2. RxLater'
      <4>1. UNCHANGED <<rxDesc, received>> /\ RxLater
        BY <1>3, <2>2 DEF enable, RxInv
      <4> QED  BY <4>1 DEF RxLater
    <3> QED  BY <2>1, <3>1, <3>2 DEF RxInv
  <2>3. CASE enables # 0
    <3>1. enables > 0
      BY <2>3 DEF RingInv
    <3>2. restarted' = (enables > 0)
      BY <1>3 DEF enable
    <3> QED  BY <2>1, <3>1, <3>2 DEF RxInv
  <2> QED  BY <2>2, <2>3
<1>4. CASE R1000TxTimeout
  <2>1. RxTyped' /\ RxOnce' /\ restarted' /\ enables' # 0
    BY <1>2, <1>4 DEF R1000TxTimeout, RingInv
  <2> QED  BY <2>1 DEF RxInv
<1>5. CASE receive
  BY <1>5, ArrivalKeeps
<1>6. CASE R1000RxInterrupt
  BY <1>6, TakeKeeps
<1> QED
  BY <1>1, <1>3, <1>4, <1>5, <1>6
  DEF Next, Driver, Interrupt, Controller, disable, outputPacket, free, R1000Interrupt, readStatus,
      serveRings, transmit, vars, driverVars, deviceVars, stackVars

\* A packet that came in is handed up at most once, and in the order of arrival until the
\* controller is restarted, for receive rings of any size: neither descriptors with an
\* error, which R1000RxInterrupt never gives back, nor failing allocations nor an
\* interrupt that leaves packets for the next one make it read a descriptor twice.
THEOREM PacketsReceivedOnce == Spec => []ReceivedOnce
<1>1. Init => RxInv
  <2> SUFFICES ASSUME Init PROVE RxInv
    OBVIOUS
  <2>1. /\ arrived = 0 /\ cur_rx = 0 /\ hwRx = 0 /\ received = <<>> /\ ~restarted
        /\ rxDesc = [s \in RxSlot |-> Own]
    BY DEF Init
  <2>2. RxTyped
    <3>1. received \in Seq(1..arrived)
      BY <2>1, EmptySeq
    <3>2. rxDesc \in [RxSlot -> Error..arrived]
      BY <2>1 DEF Own, Error
    <3> QED  BY <2>1, <3>1, <3>2, RxSizes DEF RxTyped
  <2>3. DOMAIN received = {}
    BY <2>1
  <2>4. RxOnce /\ RxLater
    BY <2>1, <2>3 DEF RxOnce, RxLater, Own
  <2>5. RxInStep
    <3>1. NumRxDesc \in Nat \ {0} /\ RxAt(0) = cur_rx /\ \A i \in Int : RxAt(i) \in RxSlot
      BY <2>2, RxSizes
    <3>2. \A i \in 0..NumRxDesc - 1 : ~(rxDesc[RxAt(i)] > 0)
      BY <2>1, <3>1 DEF Own
    <3>3. RxFilled(0)
      BY <2>1, <3>1, <3>2 DEF RxFilled
    <3> QED  BY <3>1, <3>3 DEF RxInStep
  <2> QED  BY <2>1, <2>2, <2>4, <2>5 DEF RxInv
<1>2. Init => RingInv
  BY DEF Init, RingInv, WatchdogResynchronises, Idle
<1>3. RxInv /\ RingInv /\ [Next]_vars => RxInv'
  BY StepKeepsRx
<1>4. RingInv /\ [Next]_vars => RingInv'
  BY StepKeepsRing
<1>5. RxInv => ReceivedOnce
  BY DEF RxInv, RxOnce, RxLater, ReceivedOnce
<1> QED  BY <1>1, <1>2, <1>3, <1>4, <1>5, PTL DEF Spec

=============================================================================
