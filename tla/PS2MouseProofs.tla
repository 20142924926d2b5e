--------------------------- MODULE PS2MouseProofs ---------------------------
(***************************************************************************)
(* Proofs about PS2Mouse, for every mouse, every limit on resets and any   *)
(* number of faults: the type invariant and the bound on the packet        *)
(* buffer; and, while nothing was lost, that driver and mouse agree on the *)
(* packet length and that resets nest no deeper than their limit.          *)
(***************************************************************************)
EXTENDS PS2Mouse, FiniteSetTheorems, SequenceTheorems, TLAPS

Steps == RequestName \cup {"identified", "commandByte", "stopCommandByte"}

\* A script stands at a byte of its request.
GoodFrame == {f \in Frame : f.req \in RequestName => f.part <= Len(RequestBytes[f.req])}

\* The inductive invariant: PacketFits needs the packet length of the type
\* invariant, and the type invariant needs scripts to stay inside their requests
\* and the mouse inside its packets.
MouseInv == TypeOK /\ PacketFits /\ stack \in Seq(GoodFrame) /\ next <= ModeLength

\* What a step of the driver leaves: the driver's part of the invariant.
DriverInv ==
  /\ packetBuffer \in Seq(Byte) /\ Len(packetBuffer) < packetLength
  /\ packetLength \in {kPacketLengthStandard, kPacketLengthIntellimouse}
  /\ mouseResetCount \in 0..ResetLimit
  /\ stack \in Seq(GoodFrame)

\* What is on the mouse's side and beyond the driver's reach.
MouseSide ==
  /\ mode \in {0, 3, 4} /\ enabled \in BOOLEAN /\ next \in 1..4 /\ next <= ModeLength
  /\ rates \in Seq({"200", "100", "80", "rate"})
  /\ line \in Seq(Byte)

\* The parts make the whole.
LEMMA Parts ==
  MouseInv <=> /\ DriverInv /\ MouseSide /\ faults \in 0..MaxFaults
               /\ infoKnown \in BOOLEAN /\ attached \in {"starting", "started", "stopped"}
<1>1. stack \in Seq(GoodFrame) => stack \in Seq(Frame)
  BY DEF GoodFrame
<1> QED
  BY <1>1 DEF MouseInv, TypeOK, PacketFits, DriverInv, MouseSide, kPacketLengthMax,
              kPacketLengthStandard, kPacketLengthIntellimouse

\* Requests have one to four bytes.
LEMMA RequestLengths == \A r \in RequestName : Len(RequestBytes[r]) \in 1..4
BY DEF RequestName, RequestBytes

\* A script stands at a byte of its request.
LEMMA ScriptGood ==
  ASSUME NEW r \in Steps, NEW p \in 1..4, NEW t \in Type,
         r \in RequestName => p <= Len(RequestBytes[r])
  PROVE  Script(r, p, t) \in GoodFrame
<1>1. <<>> \in Seq(Byte)
  OBVIOUS
<1>2. Script(r, p, t) \in Frame
  BY <1>1 DEF Script, Frame, Steps
<1>3. Script(r, p, t).req = r /\ Script(r, p, t).part = p
  BY DEF Script
<1> QED
  BY <1>2, <1>3 DEF GoodFrame

\* Any step may be started.
LEMMA StartGood == \A r \in Steps, t \in Type : Script(r, 1, t) \in GoodFrame
BY ScriptGood, RequestLengths, SMTT(30)

\* The innermost script, and what is left without it.
LEMMA TopGood ==
  ASSUME stack \in Seq(GoodFrame), Depth > 0
  PROVE  /\ Top \in GoodFrame
         /\ Outer \in Seq(GoodFrame)
         /\ \A f \in GoodFrame : With(f) \in Seq(GoodFrame)
<1>1. Depth \in Nat /\ Depth \in 1..Len(stack)
  BY DEF Depth
<1>2. Top \in GoodFrame
  BY <1>1 DEF Top, Depth
<1>3. Outer \in Seq(GoodFrame)
  BY <1>1 DEF Outer
<1> QED
  BY <1>2, <1>3 DEF With

\* The script goes on at an existing step, or ends.
LEMMA GoOnGood ==
  ASSUME stack \in Seq(GoodFrame), Depth > 0, NEW t \in Type
  PROVE  GoOn(t) \in Seq(GoodFrame)
<1>1. Top \in GoodFrame /\ Outer \in Seq(GoodFrame)
  BY TopGood
<1>2. CASE Top.req \in {"enable", "stopCommandByte"}
  BY <1>1, <1>2 DEF GoOn
<1>3. CASE Top.req \notin {"enable", "stopCommandByte"}
  <2>1. Top.req \in Steps
    BY <1>1 DEF GoodFrame, Frame, Steps
  <2>2. Successor(t) \in Steps
    BY <1>3, <2>1 DEF Successor, Steps, RequestName, RequestBytes
  <2>3. Script(Successor(t), 1, t) \in GoodFrame
    BY <2>2, StartGood
  <2> QED
    BY <1>3, <2>3, TopGood DEF GoOn
<1> QED
  BY <1>2, <1>3

\* The interrupt routine takes a byte and keeps the packet buffer within bounds.
LEMMA InterruptGood ==
  ASSUME MouseInv, NEW b \in Byte, NEW frames \in Seq(GoodFrame),
         dispatchDriverInterrupt(b, frames)
  PROVE  DriverInv'
<1> USE DEF DriverInv, kPacketLengthStandard, kPacketLengthIntellimouse
<1>1. DriverInv
  BY Parts
<1>2. Append(frames, Script("disable", 1, "id0")) \in Seq(GoodFrame)
  <2>1. "disable" \in Steps /\ "id0" \in Type
    BY DEF Steps, RequestName, RequestBytes, Type
  <2>2. Script("disable", 1, "id0") \in GoodFrame
    BY <2>1, StartGood
  <2> QED
    BY <2>2
<1>3. CASE attached # "started"
  BY <1>1, <1>3 DEF dispatchDriverInterrupt, driver
<1>4. CASE attached = "started"
  <2>1. interruptOccurred(b, frames)
    BY <1>4 DEF dispatchDriverInterrupt
  <2>2. Append(packetBuffer, b) \in Seq(Byte) /\ Len(Append(packetBuffer, b)) = Len(packetBuffer) + 1
    BY <1>1
  <2>3. packetLength' = packetLength
    BY <2>1 DEF interruptOccurred
  <2>4. mouseResetCount' \in 0..ResetLimit
    BY <1>1, <2>1, MouseAssumption DEF interruptOccurred
  <2>5. stack' \in Seq(GoodFrame)
    BY <1>2, <2>1 DEF interruptOccurred
  <2>6. packetBuffer' \in {packetBuffer, <<>>, Append(packetBuffer, b)}
    BY <2>1 DEF interruptOccurred
  <2>7. packetBuffer' = Append(packetBuffer, b) => Len(packetBuffer) + 1 # packetLength
    BY <1>1, <2>1, <2>2 DEF interruptOccurred
  <2>8. Len(packetBuffer) \in Nat /\ Len(<<>>) = 0 /\ <<>> \in Seq(Byte)
    BY <1>1
  <2>9. packetBuffer' \in Seq(Byte)
    BY <1>1, <2>2, <2>6, <2>8, Zenon
  <2>10. Len(packetBuffer') < packetLength
    BY <1>1, <2>2, <2>6, <2>7, <2>8
  <2> QED
    BY <1>1, <2>3, <2>4, <2>5, <2>9, <2>10
<1> QED
  BY <1>3, <1>4

\* A read that returns leaves the script at a byte or at the next request.
LEMMA ReturnGood ==
  ASSUME MouseInv, AtRequest, NEW b \in Byte, NEW data \in Seq(Byte), returnByte(b, data)
  PROVE  DriverInv' /\ infoKnown' \in BOOLEAN
<1> DEFINE fails == CurrentByte # "read" /\ b.kind # "ack"
           final == fails \/ Top.part = Len(RequestBytes[Top.req])
           frames == IF final THEN GoOn(TypeFound(IF fails THEN "none" ELSE b.kind))
                     ELSE With(Script(Top.req, Top.part + 1, Top.type))
<1>1. DriverInv /\ infoKnown \in BOOLEAN
  BY Parts
<1>2. Depth > 0 /\ Top.req \in RequestName /\ Top \in GoodFrame
  BY <1>1, TopGood DEF AtRequest, DriverInv
<1>3. frames \in Seq(GoodFrame)
  <2>1. CASE final
    <3>1. TypeFound(IF fails THEN "none" ELSE b.kind) \in Type
      BY <1>2 DEF TypeFound, Type, GoodFrame, Frame
    <3> QED
      BY <1>1, <1>2, <2>1, <3>1, GoOnGood DEF DriverInv
  <2>2. CASE ~final
    <3>1. Len(RequestBytes[Top.req]) \in 1..4 /\ Top.part \in 1..4
          /\ Top.part <= Len(RequestBytes[Top.req]) /\ Top.part # Len(RequestBytes[Top.req])
      BY <1>2, <2>2, RequestLengths DEF GoodFrame, Frame
    <3>2. Top.req \in Steps /\ Top.type \in Type
      BY <1>2 DEF GoodFrame, Frame, Steps
    <3>3. Top.part + 1 \in 1..4 /\ Top.part + 1 <= Len(RequestBytes[Top.req])
      <4>1. \A p, n \in 1..4 : p <= n /\ p # n => p + 1 \in 1..4 /\ p + 1 <= n
        OBVIOUS
      <4> QED
        BY <3>1, <4>1, Zenon
    <3>4. Script(Top.req, Top.part + 1, Top.type) \in GoodFrame
      BY <3>2, <3>3, ScriptGood
    <3> QED
      BY <1>1, <1>2, <2>2, <3>4, TopGood DEF DriverInv
  <2> QED
    BY <2>1, <2>2
<1>4. infoKnown' \in BOOLEAN
  BY <1>1 DEF returnByte
<1>5. CASE data # <<>>
  <2>1. data[1] \in Byte
    BY <1>5
  <2>2. dispatchDriverInterrupt(data[1], frames)
    BY <1>5 DEF returnByte
  <2> HIDE DEF frames
  <2> QED
    BY <1>3, <1>4, <2>1, <2>2, InterruptGood
<1>6. CASE data = <<>>
  <2>1. stack' = frames /\ UNCHANGED driver
    BY <1>6 DEF returnByte
  <2> HIDE DEF frames
  <2> QED
    BY <1>1, <1>3, <1>4, <2>1 DEF DriverInv, driver
<1> QED
  BY <1>5, <1>6

\* A command leaves the mouse in one of its modes.
LEMMA CommandGood ==
  ASSUME MouseSide, NEW c, receiveCommand(c)
  PROVE  MouseSide'
<1> DEFINE R == {"200", "100", "80", "rate"}
<1>1. next' \in 1..4 /\ (next <= ModeLength)'
  BY DEF receiveCommand, ModeLength, kPacketLengthStandard, kPacketLengthIntellimouse
<1>2. enabled' \in BOOLEAN
  BY DEF receiveCommand, MouseSide
<1>3. rates' \in Seq(R)
  <2>1. ASSUME c \in R PROVE LastRates(c) \in Seq(R)
    <3>1. Append(rates, c) \in Seq(R)
      BY <2>1 DEF MouseSide
    <3>2. CASE Len(rates) < 3
      BY <3>1, <3>2 DEF LastRates
    <3>3. CASE ~(Len(rates) < 3)
      <4>1. rates # <<>>
        BY <3>3
      <4>2. Tail(rates) \in Seq(R)
        BY <4>1 DEF MouseSide
      <4> QED
        BY <2>1, <3>3, <4>2 DEF LastRates
    <3> QED
      BY <3>2, <3>3
  <2> QED
    BY <2>1 DEF receiveCommand, MouseSide
<1>4. mode' \in {0, 3, 4}
  BY DEF receiveCommand, ModeAfter, MouseSide
<1>5. line' \in Seq(Byte)
  <2> DEFINE answers == CASE c = "E9" -> <<Answer("plain"), Answer("plain"), Answer("plain")>>
                          [] c = "F2" -> <<Answer(Identification)>>
                          [] OTHER -> <<>>
  <2>1. Answer("ack") \in Byte /\ Answer("plain") \in Byte /\ Answer(Identification) \in Byte
    BY DEF Answer, Byte, Kind, Identification, MouseSide
  <2>2. answers \in Seq(Byte) /\ <<Answer("ack")>> \in Seq(Byte)
    BY <2>1
  <2>3. line' = line \o <<Answer("ack")>> \o answers
    BY DEF receiveCommand
  <2> HIDE DEF answers
  <2> QED
    BY <2>2, <2>3 DEF MouseSide
<1> QED
  BY <1>1, <1>2, <1>3, <1>4, <1>5 DEF MouseSide

\* The invariant holds before the mouse is reset for the first time.
LEMMA InitGood == Init => MouseInv
<1> SUFFICES ASSUME Init PROVE MouseInv
  OBVIOUS
<1>1. Script("defaults", 1, "id0") \in GoodFrame
  BY StartGood DEF Steps, RequestName, RequestBytes, Type
<1>2. stack \in Seq(GoodFrame)
  BY <1>1 DEF Init
<1>3. MouseSide
  <2>1. <<>> \in Seq(Byte) /\ <<>> \in Seq({"200", "100", "80", "rate"})
    OBVIOUS
  <2>2. mode \in {0, 3, 4} /\ next \in 1..4 /\ next <= ModeLength
    BY DEF Init, ModeLength, kPacketLengthStandard
  <2> QED
    BY <2>1, <2>2, Zenon DEF Init, MouseSide
<1>4. DriverInv
  BY <1>2, MouseAssumption DEF Init, DriverInv, kPacketLengthStandard
<1>5. /\ faults \in 0..MaxFaults
      /\ infoKnown \in BOOLEAN /\ attached \in {"starting", "started", "stopped"}
  <2>1. faults \in 0..MaxFaults
    BY MouseAssumption DEF Init
  <2>2. infoKnown \in BOOLEAN /\ attached \in {"starting", "started", "stopped"}
    BY Zenon DEF Init
  <2> QED
    BY <2>1, <2>2
<1> QED
  BY <1>3, <1>4, <1>5, Parts

\* Every step keeps the invariant.
LEMMA NextGood == MouseInv /\ [Next]_vars => MouseInv'
<1> SUFFICES ASSUME MouseInv, [Next]_vars PROVE MouseInv'
  OBVIOUS
<1> DEFINE Rest == /\ faults \in 0..MaxFaults /\ infoKnown \in BOOLEAN
                   /\ attached \in {"starting", "started", "stopped"}
<1>1. DriverInv /\ MouseSide /\ Rest
  BY Parts
<1>2. (DriverInv /\ MouseSide /\ Rest)' => MouseInv'
  BY Parts, PTL
<1>3. line # <<>> => Head(line) \in Byte /\ Tail(line) \in Seq(Byte)
  BY <1>1 DEF MouseSide
<1>4. AtRequest => Depth > 0 /\ Top \in GoodFrame
  BY <1>1, TopGood DEF AtRequest, DriverInv
<1>5. UNCHANGED driver /\ UNCHANGED stack => DriverInv'
  BY <1>1 DEF DriverInv, driver
<1>6. UNCHANGED mouse /\ line' \in Seq(Byte) => MouseSide'
  BY <1>1 DEF MouseSide, mouse, ModeLength
<1>7. CASE deliver
  <2>1. <<>> \in Seq(GoodFrame)
    OBVIOUS
  <2>2. DriverInv'
    BY <1>3, <1>7, <2>1, InterruptGood DEF deliver
  <2>3. MouseSide' /\ Rest'
    BY <1>1, <1>3, <1>6, <1>7 DEF deliver
  <2> QED
    BY <1>2, <2>2, <2>3
<1>8. CASE writeByte
  <2>1. [Top EXCEPT !.sent = TRUE] \in GoodFrame
    BY <1>4, <1>8 DEF writeByte, GoodFrame, Frame
  <2>2. stack' \in Seq(GoodFrame)
    BY <1>1, <1>4, <1>8, <2>1, TopGood DEF writeByte, DriverInv
  <2>3. DriverInv'
    BY <1>1, <1>8, <2>2 DEF writeByte, DriverInv, driver
  <2>4. MouseSide'
    BY <1>1, <1>6, <1>8, CommandGood DEF writeByte, MouseSide
  <2> QED
    BY <1>1, <1>2, <1>8, <2>3, <2>4 DEF writeByte
<1>9. CASE awaitByte
  <2>1. MouseSide' /\ faults' = faults /\ attached' = attached
    BY <1>3, <1>6, <1>9 DEF awaitByte
  <2>2. Top.held \in Seq(Byte)
    BY <1>4, <1>9 DEF awaitByte, GoodFrame, Frame
  <2>3. CASE CurrentByte = "read" \/ Head(line).kind = "ack"
    <3>1. returnByte(Head(line), Top.held)
      BY <1>9, <2>3 DEF awaitByte
    <3> QED
      BY <1>1, <1>2, <1>3, <1>9, <2>1, <2>2, <3>1, ReturnGood DEF awaitByte
  <2>4. CASE ~(CurrentByte = "read" \/ Head(line).kind = "ack") /\ Top.held = <<>>
    <3>1. stack' = With([Top EXCEPT !.held = <<Head(line)>>]) /\ UNCHANGED <<driver, infoKnown>>
      BY <1>9, <2>4 DEF awaitByte
    <3>2. <<Head(line)>> \in Seq(Byte)
      BY <1>3, <1>9 DEF awaitByte
    <3>3. [Top EXCEPT !.held = <<Head(line)>>] \in GoodFrame
      BY <1>4, <1>9, <3>2 DEF awaitByte, GoodFrame, Frame
    <3>4. stack' \in Seq(GoodFrame)
      BY <1>1, <1>4, <1>9, <3>1, <3>3, TopGood DEF awaitByte, DriverInv
    <3>5. DriverInv'
      BY <1>1, <3>1, <3>4 DEF DriverInv, driver
    <3> QED
      BY <1>1, <1>2, <2>1, <3>1, <3>5
  <2>5. CASE ~(CurrentByte = "read" \/ Head(line).kind = "ack") /\ Top.held # <<>>
    <3>1. returnByte(Top.held[1], <<Head(line)>>)
      BY <1>9, <2>5 DEF awaitByte
    <3>2. Top.held[1] \in Byte /\ <<Head(line)>> \in Seq(Byte)
      BY <1>3, <1>9, <2>2, <2>5 DEF awaitByte
    <3> QED
      BY <1>1, <1>2, <1>9, <2>1, <3>1, <3>2, ReturnGood DEF awaitByte
  <2> QED
    BY <2>3, <2>4, <2>5
<1>10. CASE timeOut
  <2> DEFINE b == IF Top.held # <<>> THEN Top.held[1] ELSE Answer("id0")
  <2>1. Top.held \in Seq(Byte)
    BY <1>4, <1>10 DEF timeOut, GoodFrame, Frame
  <2>2. b \in Byte
    <3>1. Answer("id0") \in Byte
      BY DEF Answer, Byte, Kind
    <3>2. Top.held # <<>> => Top.held[1] \in Byte
      BY <2>1
    <3> QED
      BY <3>1, <3>2
  <2>3. returnByte(b, <<>>) /\ <<>> \in Seq(Byte)
    BY <1>10 DEF timeOut
  <2>4. MouseSide' /\ faults' = faults /\ attached' = attached
    BY <1>1, <1>6, <1>10 DEF timeOut, MouseSide
  <2> HIDE DEF b
  <2>5. DriverInv' /\ infoKnown' \in BOOLEAN
    BY <1>10, <2>2, <2>3, ReturnGood DEF timeOut
  <2> QED
    BY <1>1, <1>2, <2>4, <2>5
<1>11. CASE setPacketLength
  <2>1. Depth > 0 /\ Top \in GoodFrame
    BY <1>1, <1>11, TopGood DEF setPacketLength, DriverInv
  <2>2. stack' \in Seq(GoodFrame)
    BY <1>1, <1>11, <2>1, GoOnGood DEF setPacketLength, DriverInv, GoodFrame, Frame
  <2>3. DriverInv'
    BY <1>1, <1>11, <2>2 DEF setPacketLength, DriverInv, kPacketLengthStandard,
                              kPacketLengthIntellimouse
  <2> QED
    BY <1>1, <1>2, <1>6, <1>11, <2>3 DEF setPacketLength, MouseSide
<1>12. CASE dispatchOtherStream
  <2>1. DriverInv'
    BY <1>1, <1>3, <1>12, InterruptGood DEF dispatchOtherStream, DriverInv
  <2> QED
    BY <1>1, <1>2, <1>3, <1>6, <1>12, <2>1 DEF dispatchOtherStream
<1>13. CASE setCommandByte
  <2>1. Depth > 0 /\ Top \in GoodFrame
    BY <1>1, <1>13, TopGood DEF setCommandByte, AtCommandByte, DriverInv
  <2>2. stack' \in Seq(GoodFrame)
    BY <1>1, <1>13, <2>1, GoOnGood DEF setCommandByte, DriverInv, GoodFrame, Frame
  <2>3. DriverInv'
    BY <1>1, <1>13, <2>2 DEF setCommandByte, DriverInv, driver
  <2> QED
    BY <1>1, <1>2, <1>6, <1>13, <2>3 DEF setCommandByte, MouseSide
<1>14. CASE installInterruptAction
  BY <1>1, <1>2, <1>5, <1>6, <1>14 DEF installInterruptAction, MouseSide
<1>15. CASE stop
  <2>1. Script("stop", 1, "id0") \in GoodFrame
    BY StartGood DEF Steps, RequestName, RequestBytes, Type
  <2>2. stack' \in Seq(GoodFrame)
    BY <1>15, <2>1 DEF stop
  <2>3. DriverInv'
    BY <1>1, <1>15, <2>2 DEF stop, DriverInv, driver
  <2> QED
    BY <1>1, <1>2, <1>6, <1>15, <2>3 DEF stop, MouseSide
<1>16. ASSUME NEW kind \in Movement \cup {"sync"}, sendMovement(kind)
       PROVE  MouseInv'
  <2>1. [kind |-> kind, pos |-> next] \in Byte
    BY <1>1, MouseAssumption DEF Byte, Kind, MouseSide
  <2>2. line' \in Seq(Byte)
    BY <1>16, <2>1 DEF sendMovement
  <2>3. next' \in 1..4 /\ (next <= ModeLength)'
    BY <1>1, <1>16 DEF sendMovement, ModeLength, MouseSide, kPacketLengthStandard,
                       kPacketLengthIntellimouse
  <2>4. MouseSide'
    BY <1>1, <1>16, <2>2, <2>3 DEF sendMovement, MouseSide
  <2> QED
    BY <1>1, <1>2, <1>5, <1>16, <2>4 DEF sendMovement
<1>17. CASE loseByte
  <2>1. faults' \in 0..MaxFaults
    BY <1>1, <1>17, MouseAssumption DEF loseByte
  <2> QED
    BY <1>1, <1>2, <1>3, <1>5, <1>6, <1>17, <2>1 DEF loseByte
<1>18. CASE reconnect
  <2>1. faults' \in 0..MaxFaults
    BY <1>1, <1>18, MouseAssumption DEF reconnect
  <2>2. line' \in Seq(Byte)
    <3>1. Answer("AA") \in Byte /\ Answer("id0") \in Byte
      BY DEF Answer, Byte, Kind
    <3> QED
      BY <1>18, <3>1 DEF reconnect
  <2>3. MouseSide'
    <3>1. <<>> \in Seq({"200", "100", "80", "rate"})
      OBVIOUS
    <3>2. mode' \in {0, 3, 4} /\ next' \in 1..4 /\ (next <= ModeLength)'
      BY <1>18 DEF reconnect, ModeLength, kPacketLengthStandard
    <3> QED
      BY <1>18, <2>2, <3>1, <3>2, Zenon DEF reconnect, MouseSide
  <2> QED
    BY <1>1, <1>2, <1>5, <1>18, <2>1, <2>3 DEF reconnect
<1>19. CASE UNCHANGED vars
  BY <1>1, <1>2, <1>5, <1>6, <1>19 DEF vars, driver, mouse, MouseSide
<1> QED
  BY <1>7, <1>8, <1>9, <1>10, <1>11, <1>12, <1>13, <1>14, <1>15, <1>16, <1>17, <1>18, <1>19
  DEF Next, Gate

\* The mouse driver's state keeps its type: scripts stay inside their requests and
\* the count of resets within its limit, however resets nest.
THEOREM TypeCorrect == Spec => []TypeOK
<1>1. MouseInv => TypeOK
  BY DEF MouseInv
<1> QED
  BY <1>1, InitGood, NextGood, PTL DEF Spec

\* _packetBuffer is never overrun, whatever the mouse sends and whenever resets
\* change the packet length.
THEOREM PacketNeverOverruns == Spec => []PacketFits
<1>1. MouseInv => PacketFits
  BY DEF MouseInv
<1> QED
  BY <1>1, InitGood, NextGood, PTL DEF Spec

-----------------------------------------------------------------------------
(* Driver and mouse agree on the packet length.                            *)

\* Bytes of movements.
Moves == {b \in Byte : b.kind \in {"sync", "plain"}}

\* Steps before which the mouse was given a byte and had no time for more than the
\* first byte of a packet, which has bit 3 set.
Settled == {"defaults", "info", "resolution", "rate200", "rate100", "rate80", "id",
            "again200", "third200", "again80", "idAgain", "identified", "restore"}

\* A script f at the byte At(f) reads data, or waits for an acknowledge.
At(f) == RequestBytes[f.req][f.part]
Reading(f) == f.req \in RequestName /\ At(f) = "read"
Waiting(f) == f.req \in RequestName /\ f.sent /\ At(f) # "read"

\* The byte of a movement that may be in the way of script f.
InTheWay(f, m) == m \in Moves /\ (f.req \in Settled => m.kind = "sync")

\* What a mouse with identification i answers to c, and what is left of the answer
\* for a script that reads it.
Extra(c, i) == CASE c = "E9" -> <<Answer("plain"), Answer("plain"), Answer("plain")>>
                 [] c = "F2" -> <<Answer(i)>>
                 [] OTHER -> <<>>
Due(c, i) == <<Answer("ack")>> \o Extra(c, i)
Remaining(f, i) ==
  CASE f.req = "info" /\ f.part = 2 -> <<Answer("plain"), Answer("plain"), Answer("plain")>>
    [] f.req = "info" /\ f.part = 3 -> <<Answer("plain"), Answer("plain")>>
    [] f.req = "info" /\ f.part = 4 -> <<Answer("plain")>>
    [] OTHER -> <<Answer(i)>>

\* No more than one byte of a movement is on the line l in front of what the script f
\* waits for, and none while it reads data; n is the place of the next byte.
LineOK(f, l, n, i) ==
  /\ f.req \notin RequestName => ~f.sent /\ f.part = 1
  /\ f.held = <<>> \/ (Waiting(f) /\ \E m \in Moves : InTheWay(f, m) /\ f.held = <<m>>)
  /\ ~Reading(f) /\ ~Waiting(f) =>
       \/ l = <<>> /\ (f.req \in Settled => n = 1)
       \/ \E m \in Moves : InTheWay(f, m) /\ l = <<m>>
  /\ Waiting(f) => n = 1 /\ \/ l = Due(At(f), i)
                            \/ /\ f.held = <<>>
                               /\ \E m \in Moves : InTheWay(f, m) /\ l = <<m>> \o Due(At(f), i)
  /\ Reading(f) => n = 1 /\ l = Remaining(f, i)

Stopping == {"stop", "stopCommandByte"}

\* Where a script is when another one starts on top of it.
Parked(f) == /\ f.req \in {"defaults", "commandByte", "stopCommandByte"}
             /\ f.part = 1 /\ ~f.sent /\ f.held = <<>>
FramesOK(s) ==
  /\ \A k \in 1..Len(s) - 1 : Parked(s[k])
  /\ \A k \in 2..Len(s) : s[k].req \notin Stopping

\* The mode md and the rates rt of the mouse while start runs its script.
Written(f, before, after) == IF f.part = 2 /\ f.sent THEN after ELSE before
Wheel == IF Capability = 0 THEN 0 ELSE 3
Length(md) == IF md = 0 THEN kPacketLengthStandard ELSE kPacketLengthIntellimouse
StartOK(f, md, rt, pl) ==
  CASE f.req \in {"defaults", "info", "resolution"} -> md = 0 /\ rt = <<>>
    [] f.req = "rate200" -> md = 0 /\ rt = Written(f, <<>>, <<"200">>)
    [] f.req = "rate100" -> md = 0 /\ rt = Written(f, <<"200">>, <<"200", "100">>)
    [] f.req = "rate80" -> /\ md = Written(f, 0, Wheel)
                           /\ rt = Written(f, <<"200", "100">>, <<"200", "100", "80">>)
    [] f.req = "id" -> md = Wheel /\ rt = <<"200", "100", "80">>
    [] f.req = "again200" -> /\ md = 3 /\ Capability # 0
                             /\ rt = Written(f, <<"200", "100", "80">>, <<"100", "80", "200">>)
    [] f.req = "third200" -> /\ md = 3 /\ Capability # 0
                             /\ rt = Written(f, <<"100", "80", "200">>, <<"80", "200", "200">>)
    [] f.req = "again80" -> /\ md = Written(f, 3, Capability) /\ Capability # 0
                            /\ rt = Written(f, <<"80", "200", "200">>, <<"200", "200", "80">>)
    [] f.req \in {"idAgain", "identified"} -> md = Capability
    [] f.req \in {"restore", "commandByte", "enable"} -> md = Capability /\ pl = Length(md)
    [] OTHER -> FALSE

\* start gets the mouse into the mode it is capable of; later resets find it there.
Named(md) == CASE md = 0 -> "id0" [] md = 3 -> "id3" [] md = 4 -> "id4"
ModeOK(f, a, md, rt, pl, en) ==
  /\ a # "starting" => md = Capability /\ pl = Length(md)
  /\ a = "starting" => StartOK(f, md, rt, pl)
  /\ f.req = "identified" => f.type = Named(md)
  /\ f.req \in {"again200", "third200", "again80", "idAgain"} => md # 0
  /\ f.req = "enable" /\ f.sent => en

\* Scripts s, line l and mouse when nothing was lost so far.
IdleOK(a, l, md, pl, en) ==
  /\ l = <<>> \/ \E m \in Moves : l = <<m>>
  /\ md = Capability /\ pl = Length(md)
  /\ a # "stopped" => en
ScriptsOK(s, a, l, n, md, rt, pl, en) ==
  /\ FramesOK(s)
  /\ a = "starting" => Len(s) <= 1
  /\ s = <<>> => IdleOK(a, l, md, pl, en)
  /\ s # <<>> => LineOK(s[Len(s)], l, n, Named(md)) /\ ModeOK(s[Len(s)], a, md, rt, pl, en)

BufferOK == \A k \in 1..Len(packetBuffer) : packetBuffer[k] \in Moves

\* The inductive invariant.
AgreeInv ==
  faults = 0 =>
    BufferOK /\ ScriptsOK(stack, attached, line, next, mode, rates, packetLength, enabled)

\* The requests, byte by byte.
LEMMA RequestTable ==
  /\ RequestName = {"disable", "defaults", "info", "resolution", "rate200", "rate100", "rate80",
       "id", "again200", "third200", "again80", "idAgain", "restore", "enable", "stop"}
  /\ RequestBytes["disable"] = <<"F5">> /\ RequestBytes["defaults"] = <<"F6">>
  /\ RequestBytes["info"] = <<"E9", "read", "read", "read">>
  /\ RequestBytes["resolution"] = <<"E8", "res">> /\ RequestBytes["rate200"] = <<"F3", "200">>
  /\ RequestBytes["rate100"] = <<"F3", "100">> /\ RequestBytes["rate80"] = <<"F3", "80">>
  /\ RequestBytes["id"] = <<"F2", "read">> /\ RequestBytes["again200"] = <<"F3", "200">>
  /\ RequestBytes["third200"] = <<"F3", "200">> /\ RequestBytes["again80"] = <<"F3", "80">>
  /\ RequestBytes["idAgain"] = <<"F2", "read">> /\ RequestBytes["restore"] = <<"F3", "rate">>
  /\ RequestBytes["enable"] = <<"F4">> /\ RequestBytes["stop"] = <<"F5">>
BY DEF RequestName, RequestBytes

\* The kinds of requests: of one byte, of two bytes, with data to be read.
Single == {"disable", "defaults", "enable", "stop"}
Double == {"resolution", "rate200", "rate100", "rate80", "again200", "third200", "again80", "restore"}

LEMMA RequestKinds ==
  /\ RequestName = Single \cup Double \cup {"info", "id", "idAgain"}
  /\ \A r \in Single : Len(RequestBytes[r]) = 1 /\ RequestBytes[r][1] \notin {"E9", "F2", "read"}
  /\ \A r \in Double : /\ Len(RequestBytes[r]) = 2
                        /\ RequestBytes[r][1] \notin {"E9", "F2", "read"}
                        /\ RequestBytes[r][2] \notin {"E9", "F2", "read"}
  /\ Len(RequestBytes["info"]) = 4 /\ RequestBytes["info"][1] = "E9"
  /\ \A p \in 2..4 : RequestBytes["info"][p] = "read"
  /\ \A r \in {"id", "idAgain"} : /\ Len(RequestBytes[r]) = 2
                                 /\ RequestBytes[r][1] = "F2" /\ RequestBytes[r][2] = "read"
<1>1. RequestName = Single \cup Double \cup {"info", "id", "idAgain"}
  BY RequestTable DEF Single, Double
<1>2. \A r \in Single : Len(RequestBytes[r]) = 1 /\ RequestBytes[r][1] \notin {"E9", "F2", "read"}
  <2>1. \A a : Len(<<a>>) = 1 /\ <<a>>[1] = a
    OBVIOUS
  <2>2. \A r \in Single : \E a \in {"F4", "F5", "F6"} : RequestBytes[r] = <<a>>
    BY RequestTable DEF Single
  <2>3. \A a \in {"F4", "F5", "F6"} : a \notin {"E9", "F2", "read"}
    OBVIOUS
  <2> QED  BY <2>1, <2>2, <2>3, Zenon
<1>3. \A r \in Double : /\ Len(RequestBytes[r]) = 2
                        /\ RequestBytes[r][1] \notin {"E9", "F2", "read"}
                        /\ RequestBytes[r][2] \notin {"E9", "F2", "read"}
  <2> DEFINE B == {"E8", "res", "F3", "200", "100", "80", "rate"}
  <2>1. \A a, b : Len(<<a, b>>) = 2 /\ <<a, b>>[1] = a /\ <<a, b>>[2] = b
    OBVIOUS
  <2>2. \A r \in Double : \E a, b \in B : RequestBytes[r] = <<a, b>>
    BY RequestTable DEF Double
  <2>3. \A a \in B : a \notin {"E9", "F2", "read"}
    OBVIOUS
  <2> HIDE DEF B
  <2> SUFFICES ASSUME NEW r \in Double PROVE /\ Len(RequestBytes[r]) = 2
                                            /\ RequestBytes[r][1] \in B /\ RequestBytes[r][2] \in B
    BY <2>3
  <2>4. PICK a \in B, b \in B : RequestBytes[r] = <<a, b>>
    BY <2>2
  <2> QED  BY <2>1, <2>4
<1>4. Len(RequestBytes["info"]) = 4 /\ RequestBytes["info"][1] = "E9"
      /\ \A p \in 2..4 : RequestBytes["info"][p] = "read"
  <2>1. RequestBytes["info"] = <<"E9", "read", "read", "read">>
    BY RequestTable
  <2> QED  BY <2>1
<1>5. \A r \in {"id", "idAgain"} : /\ Len(RequestBytes[r]) = 2
                                 /\ RequestBytes[r][1] = "F2" /\ RequestBytes[r][2] = "read"
  <2>1. \A r \in {"id", "idAgain"} : RequestBytes[r] = <<"F2", "read">>
    BY RequestTable
  <2> QED  BY <2>1
<1> QED  BY <1>1, <1>2, <1>3, <1>4, <1>5

\* A movement handed to the interrupt routine starts a reset only where it is not the
\* first byte of a packet.
LEMMA Dispatched ==
  ASSUME packetBuffer \in Seq(Byte), BufferOK, NEW m \in Moves, NEW frames,
         dispatchDriverInterrupt(m, frames)
  PROVE  /\ packetLength' = packetLength /\ BufferOK'
         /\ \/ stack' = frames
            \/ /\ stack' = Append(frames, Script("disable", 1, "id0"))
               /\ attached = "started" /\ m.kind # "sync"
<1>1. m \in Byte /\ m.kind \in {"sync", "plain"}
  BY DEF Moves
<1>2. CASE attached # "started"
  BY <1>2 DEF dispatchDriverInterrupt, driver, BufferOK
<1>3. CASE attached = "started" /\ packetBuffer = <<>> /\ Unsynchronised(m)
  BY <1>1, <1>3 DEF dispatchDriverInterrupt, interruptOccurred, BufferOK, Unsynchronised
<1>4. CASE attached = "started" /\ ~(packetBuffer = <<>> /\ Unsynchronised(m))
  <2>1. PICK buffer : buffer = Append(packetBuffer, m)
    OBVIOUS
  <2>2. buffer \in Seq(Byte) /\ Len(buffer) = Len(packetBuffer) + 1
    BY <1>1, <2>1
  <2>3. \A k \in 1..Len(buffer) : buffer[k] \in Moves
    BY <2>1, <2>2 DEF BufferOK
  <2>4. packetLength' = packetLength /\ packetBuffer' \in {<<>>, buffer}
    BY <1>4, <2>1 DEF dispatchDriverInterrupt, interruptOccurred
  <2>5. BufferOK'
    <3>1. CASE packetBuffer' = <<>>
      BY <3>1 DEF BufferOK
    <3>2. CASE packetBuffer' = buffer
      BY <2>3, <3>2 DEF BufferOK
    <3> QED  BY <2>4, <3>1, <3>2
  <2>6. Len(buffer) = 2 => buffer[1].kind # "AA"
    BY <2>2, <2>3 DEF Moves
  <2>7. stack' = frames
    BY <1>4, <2>1, <2>6 DEF dispatchDriverInterrupt, interruptOccurred
  <2> QED  BY <2>4, <2>5, <2>7
<1> QED  BY <1>2, <1>3, <1>4

\* Starting another script, replacing the innermost one and ending it.
LEMMA PushFrames ==
  ASSUME NEW s \in Seq(GoodFrame), FramesOK(s), s = <<>> \/ Parked(s[Len(s)]),
         NEW g \in GoodFrame, g.req \notin Stopping
  PROVE  FramesOK(Append(s, g))
<1>1. PICK t : t = Append(s, g)
  OBVIOUS
<1>2. /\ Len(s) \in Nat /\ Len(t) = Len(s) + 1 /\ t[Len(s) + 1] = g
      /\ \A k \in 1..Len(s) : t[k] = s[k]
  BY <1>1
<1>3. \A k \in 1..Len(s) : Parked(s[k])
  <2> SUFFICES ASSUME NEW k \in 1..Len(s) PROVE Parked(s[k])
    OBVIOUS
  <2>1. s # <<>>
    BY <1>2
  <2>2. k = Len(s) \/ k \in 1..Len(s) - 1
    BY <1>2
  <2> QED  BY <2>1, <2>2 DEF FramesOK
<1>4. \A k \in 1..Len(t) - 1 : Parked(t[k])
  BY <1>2, <1>3
<1>5. \A k \in 2..Len(t) : t[k].req \notin Stopping
  <2> SUFFICES ASSUME NEW k \in 2..Len(t) PROVE t[k].req \notin Stopping
    OBVIOUS
  <2>1. k = Len(s) + 1 \/ k \in 2..Len(s)
    BY <1>2
  <2>2. CASE k = Len(s) + 1
    BY <1>2, <2>2
  <2>3. CASE k \in 2..Len(s)
    <3>1. t[k] = s[k]
      BY <1>2, <2>3
    <3> QED  BY <2>3, <3>1 DEF FramesOK
  <2> QED  BY <2>1, <2>2, <2>3
<1> QED  BY <1>1, <1>4, <1>5 DEF FramesOK

LEMMA EndFrame ==
  ASSUME NEW s \in Seq(GoodFrame), s # <<>>, FramesOK(s),
         NEW o, o = SubSeq(s, 1, Len(s) - 1)
  PROVE  /\ o \in Seq(GoodFrame) /\ FramesOK(o) /\ Len(o) = Len(s) - 1
         /\ o # <<>> => Parked(o[Len(o)]) /\ s[Len(s)].req \notin Stopping
<1>1. Len(s) \in Nat /\ Len(s) > 0
  BY EmptySeq
<1>2. /\ o \in Seq(GoodFrame) /\ Len(o) = Len(s) - 1
      /\ \A k \in 1..Len(s) - 1 : o[k] = s[k]
  <2>1. PICK n : n = Len(s) - 1
    OBVIOUS
  <2>2. 1 \in Int /\ n \in Int /\ n >= 0 /\ \A k \in 1..n : s[k] \in GoodFrame
    BY <1>1, <2>1
  <2>3. o = SubSeq(s, 1, n)
    BY <2>1
  <2>4. /\ o \in Seq(GoodFrame) /\ Len(o) = IF 1 <= n THEN n - 1 + 1 ELSE 0
        /\ \A k \in 1..n - 1 + 1 : o[k] = s[1 + k - 1]
    BY <2>2, <2>3, SubSeqProperties
  <2>5. (IF 1 <= n THEN n - 1 + 1 ELSE 0) = n /\ n - 1 + 1 = n /\ \A k \in 1..n : 1 + k - 1 = k
    BY <2>2
  <2> QED  BY <2>1, <2>4, <2>5
<1>3. \A k \in 1..Len(s) - 1 : Parked(o[k])
  BY <1>2 DEF FramesOK
<1>4. \A k \in 2..Len(s) - 1 : o[k].req \notin Stopping
  <2> SUFFICES ASSUME NEW k \in 2..Len(s) - 1 PROVE o[k].req \notin Stopping
    OBVIOUS
  <2>1. k \in 2..Len(s) /\ k \in 1..Len(s) - 1
    BY <1>1
  <2> QED  BY <1>2, <2>1 DEF FramesOK
<1>5. FramesOK(o)
  <2>1. \A k \in 1..Len(o) - 1 : k \in 1..Len(s) - 1
    BY <1>1, <1>2
  <2> QED  BY <1>2, <1>3, <1>4, <2>1 DEF FramesOK
<1>6. o # <<>> => Len(s) - 1 \in 1..Len(s) - 1 /\ Len(s) \in 2..Len(s)
  <2> SUFFICES ASSUME o # <<>> PROVE Len(s) - 1 > 0
    BY <1>1
  <2>1. Len(o) \in Nat /\ Len(o) # 0
    BY <1>2
  <2> QED  BY <1>1, <1>2, <2>1
<1> QED  BY <1>2, <1>3, <1>5, <1>6 DEF FramesOK

LEMMA ReplaceFrame ==
  ASSUME NEW s \in Seq(GoodFrame), s # <<>>, FramesOK(s), NEW g \in GoodFrame,
         g.req \in Stopping => s[Len(s)].req \in Stopping,
         NEW t, t = Append(SubSeq(s, 1, Len(s) - 1), g)
  PROVE  /\ t \in Seq(GoodFrame) /\ FramesOK(t) /\ Len(t) = Len(s) /\ t # <<>>
         /\ t[Len(t)] = g
<1>1. PICK o : o = SubSeq(s, 1, Len(s) - 1)
  OBVIOUS
<1>2. /\ o \in Seq(GoodFrame) /\ FramesOK(o) /\ Len(o) = Len(s) - 1
      /\ o # <<>> => Parked(o[Len(o)]) /\ s[Len(s)].req \notin Stopping
  BY <1>1, EndFrame
<1>3. t = Append(o, g) /\ Len(s) \in Nat
  BY <1>1
<1>4. t \in Seq(GoodFrame) /\ Len(t) = Len(s) /\ t # <<>> /\ t[Len(t)] = g
  BY <1>2, <1>3
<1>5. CASE o = <<>>
  <2>1. Len(t) = 1
    BY <1>3, <1>5
  <2> QED  BY <1>4, <2>1 DEF FramesOK
<1>6. CASE o # <<>>
  BY <1>2, <1>3, <1>4, <1>6, PushFrames
<1> QED  BY <1>4, <1>5, <1>6

\* A script that begins with a request waits for nothing yet.
LEMMA FreshLine ==
  ASSUME NEW r \in Steps, NEW t \in Type, NEW l, NEW n, NEW i,
         \/ l = <<>> /\ (r \in Settled => n = 1)
         \/ \E m \in Moves : (r \in Settled => m.kind = "sync") /\ l = <<m>>
  PROVE  LineOK(Script(r, 1, t), l, n, i)
<1>1. PICK f : f = Script(r, 1, t)
  OBVIOUS
<1>2. f.req = r /\ f.part = 1 /\ f.sent = FALSE /\ f.held = <<>>
  BY <1>1 DEF Script
<1>3. r \in RequestName => RequestBytes[r][1] # "read"
  BY RequestKinds
<1>4. ~Reading(f) /\ ~Waiting(f)
  BY <1>2, <1>3 DEF Reading, Waiting, At
<1>5. LineOK(f, l, n, i)
  BY <1>2, <1>4 DEF LineOK, InTheWay
<1> QED  BY <1>1, <1>5

\* So does a script on top of which another one was started.
LEMMA ParkedFree ==
  ASSUME NEW f, Parked(f), NEW l, NEW n, NEW i
  PROVE  LineOK(f, l, n, i) <=> \/ l = <<>> /\ (f.req \in Settled => n = 1)
                                \/ \E m \in Moves : InTheWay(f, m) /\ l = <<m>>
<1>1. f.part = 1 /\ ~f.sent /\ f.held = <<>>
  BY DEF Parked
<1>2. f.req \in RequestName => RequestBytes[f.req][1] # "read"
  BY RequestKinds
<1>3. ~Reading(f) /\ ~Waiting(f)
  BY <1>1, <1>2 DEF Reading, Waiting, At
<1> QED  BY <1>1, <1>3 DEF LineOK

\* A reset may start on top of a parked script.
LEMMA ResetStarts ==
  ASSUME NEW s \in Seq(GoodFrame), NEW l, NEW n, NEW md, NEW rt, NEW pl, NEW en,
         ScriptsOK(s, "started", l, n, md, rt, pl, en), s = <<>> \/ Parked(s[Len(s)])
  PROVE  ScriptsOK(Append(s, Script("disable", 1, "id0")), "started", l, n, md, rt, pl, en)
<1>1. PICK g : g = Script("disable", 1, "id0")
  OBVIOUS
<1>2. "disable" \in Steps /\ "id0" \in Type /\ "disable" \notin Settled
  BY DEF Steps, RequestName, RequestBytes, Type, Settled
<1>3. g \in GoodFrame /\ g.req = "disable"
  BY <1>1, <1>2, StartGood DEF Script
<1>4. FramesOK(Append(s, g))
  BY <1>3, PushFrames DEF ScriptsOK, Stopping
<1>5. PICK t : t = Append(s, g)
  OBVIOUS
<1>6. t # <<>> /\ t[Len(t)] = g
  BY <1>3, <1>5
<1>7. l = <<>> \/ \E m \in Moves : l = <<m>>
  BY ParkedFree DEF ScriptsOK, IdleOK
<1>8. LineOK(g, l, n, Named(md))
  BY <1>1, <1>2, <1>7, FreshLine
<1>9. md = Capability /\ pl = Length(md)
  BY DEF ScriptsOK, IdleOK, ModeOK
<1>10. ModeOK(g, "started", md, rt, pl, en)
  BY <1>3, <1>9 DEF ModeOK
<1> QED  BY <1>1, <1>4, <1>5, <1>6, <1>8, <1>10 DEF ScriptsOK

\* The innermost script of a stack that is as it should be.
LEMMA TopOK ==
  ASSUME MouseInv, faults = 0, AgreeInv, Depth > 0
  PROVE  /\ stack \in Seq(GoodFrame) /\ stack # <<>> /\ Top = stack[Len(stack)] /\ Top \in GoodFrame
         /\ FramesOK(stack) /\ (attached = "starting" => Len(stack) <= 1)
         /\ LineOK(Top, line, next, Named(mode))
         /\ ModeOK(Top, attached, mode, rates, packetLength, enabled)
<1>1. stack \in Seq(GoodFrame) /\ stack # <<>> /\ Top = stack[Len(stack)]
  BY DEF MouseInv, Depth, Top
<1>2. Top \in GoodFrame
  BY <1>1, TopGood
<1> QED  BY <1>1, <1>2 DEF AgreeInv, ScriptsOK

\* Replacing the innermost script.
LEMMA WithOK ==
  ASSUME MouseInv, faults = 0, AgreeInv, Depth > 0, NEW g \in GoodFrame,
         g.req \in Stopping => Top.req \in Stopping,
         NEW l, NEW n, NEW md, NEW rt, NEW pl, NEW en,
         LineOK(g, l, n, Named(md)), ModeOK(g, attached, md, rt, pl, en)
  PROVE  ScriptsOK(With(g), attached, l, n, md, rt, pl, en)
<1>1. PICK t : t = With(g)
  OBVIOUS
<1>2. t = Append(SubSeq(stack, 1, Len(stack) - 1), g)
  BY <1>1 DEF With, Outer, Depth
<1>3. FramesOK(t) /\ Len(t) = Len(stack) /\ t # <<>> /\ t[Len(t)] = g
  <2>1. stack \in Seq(GoodFrame) /\ stack # <<>> /\ FramesOK(stack) /\ Top = stack[Len(stack)]
    BY TopOK
  <2>2. g.req \in Stopping => stack[Len(stack)].req \in Stopping
    BY <2>1
  <2> QED  BY <1>2, <2>1, <2>2, ReplaceFrame
<1>4. attached = "starting" => Len(t) <= 1
  BY <1>3, TopOK
<1> QED  BY <1>1, <1>3, <1>4 DEF ScriptsOK

\* The mode of the mouse when a request is done: kind is the kind of the last byte read.
LEMMA NextMode ==
  ASSUME Top \in GoodFrame, Top.req \in RequestName \ {"enable"}, mode \in {0, 3, 4},
         Top.req \in Double => Top.sent /\ Top.part = 2,
         ModeOK(Top, attached, mode, rates, packetLength, enabled),
         NEW kind, Top.req \in {"id", "idAgain"} => kind = Named(mode),
         NEW t, t = TypeFound(kind)
  PROVE  /\ ModeOK(Script(Successor(t), 1, t), attached, mode, rates, packetLength, enabled)
         /\ Successor(t) \in Steps \ {"stop"}
         /\ Successor(t) = "stopCommandByte" => Top.req = "stop"
<1>1. PICK f : f = Script(Successor(t), 1, t)
  OBVIOUS
<1>2. f.req = Successor(t) /\ f.part = 1 /\ f.sent = FALSE /\ f.type = t
  BY <1>1 DEF Script
<1>3. PICK r : r = Top.req
  OBVIOUS
<1>4. \A b, c : Written(f, b, c) = b
  BY <1>2 DEF Written
<1>5. r \in Double => \A b, c : Written(Top, b, c) = c
  BY <1>3 DEF Written
<1>6. Named(mode) \in Type
  BY DEF Named, Type
<1> SUFFICES /\ ModeOK(f, attached, mode, rates, packetLength, enabled)
             /\ Successor(t) \in Steps \ {"stop"}
             /\ Successor(t) = "stopCommandByte" => Top.req = "stop"
  BY <1>1
<1>7. CASE r = "disable"
  <2>1. Successor(t) = "defaults"
    BY <1>3, <1>7 DEF Successor
  <2> QED  BY <1>2, <1>3, <1>7, <2>1, RequestTable DEF ModeOK, StartOK, Steps
<1>8. CASE r = "defaults"
  <2>1. Successor(t) \in {"resolution", "info"}
    BY <1>3, <1>8 DEF Successor
  <2> QED  BY <1>2, <1>3, <1>8, <2>1, RequestTable DEF ModeOK, StartOK, Steps
<1>9. CASE r \in {"info", "resolution"}
  <2>1. Successor(t) = "rate200"
    BY <1>3, <1>9 DEF Successor
  <2> QED  BY <1>2, <1>3, <1>4, <1>9, <2>1, RequestTable DEF ModeOK, StartOK, Steps
<1>10. CASE r = "rate200"
  <2>1. Successor(t) = "rate100"
    BY <1>3, <1>10 DEF Successor
  <2> QED  BY <1>2, <1>3, <1>4, <1>5, <1>10, <2>1, RequestTable DEF ModeOK, StartOK, Steps, Double
<1>11. CASE r = "rate100"
  <2>1. Successor(t) = "rate80"
    BY <1>3, <1>11 DEF Successor
  <2> QED  BY <1>2, <1>3, <1>4, <1>5, <1>11, <2>1, RequestTable DEF ModeOK, StartOK, Steps, Double
<1>12. CASE r = "rate80"
  <2>1. Successor(t) = "id"
    BY <1>3, <1>12 DEF Successor
  <2> QED  BY <1>2, <1>3, <1>4, <1>5, <1>12, <2>1, RequestTable DEF ModeOK, StartOK, Steps, Double
<1>13. CASE r = "id"
  <2>1. t = Named(mode)
    BY <1>3, <1>13 DEF TypeFound, Named
  <2>2. Successor(t) = IF t = "id3" THEN "again200" ELSE "identified"
    BY <1>3, <1>13 DEF Successor
  <2>3. CASE t = "id3"
    <3>1. mode = 3
      BY <2>1, <2>3 DEF Named
    <3> QED  BY <1>2, <1>3, <1>4, <1>13, <2>2, <2>3, <3>1, RequestTable DEF ModeOK, StartOK, Steps, Wheel
  <2>4. CASE t # "id3"
    <3>1. mode # 3
      BY <2>1, <2>4 DEF Named
    <3> QED  BY <1>2, <1>3, <1>13, <2>1, <2>2, <2>4, <3>1, RequestTable DEF ModeOK, StartOK, Steps, Wheel
  <2> QED  BY <2>3, <2>4
<1>14. CASE r = "again200"
  <2>1. Successor(t) = "third200"
    BY <1>3, <1>14 DEF Successor
  <2> QED  BY <1>2, <1>3, <1>4, <1>5, <1>14, <2>1, RequestTable DEF ModeOK, StartOK, Steps, Double
<1>15. CASE r = "third200"
  <2>1. Successor(t) = "again80"
    BY <1>3, <1>15 DEF Successor
  <2> QED  BY <1>2, <1>3, <1>4, <1>5, <1>15, <2>1, RequestTable DEF ModeOK, StartOK, Steps, Double
<1>16. CASE r = "again80"
  <2>1. Successor(t) = "idAgain"
    BY <1>3, <1>16 DEF Successor
  <2> QED  BY <1>2, <1>3, <1>4, <1>5, <1>16, <2>1, RequestTable DEF ModeOK, StartOK, Steps, Double
<1>17. CASE r = "idAgain"
  <2>1. mode # 0
    BY <1>3, <1>17 DEF ModeOK
  <2>2. t = Named(mode)
    BY <1>3, <1>17, <2>1 DEF TypeFound, Named
  <2>3. Successor(t) = "identified"
    BY <1>3, <1>17 DEF Successor
  <2> QED  BY <1>2, <1>3, <1>17, <2>2, <2>3, RequestTable DEF ModeOK, StartOK, Steps
<1>18. CASE r = "restore"
  <2>1. Successor(t) = "commandByte"
    BY <1>3, <1>18 DEF Successor
  <2> QED  BY <1>2, <1>3, <1>18, <2>1, RequestTable DEF ModeOK, StartOK, Steps
<1>19. CASE r = "stop"
  <2>1. Successor(t) = "stopCommandByte"
    BY <1>3, <1>19 DEF Successor
  <2> QED  BY <1>2, <1>3, <1>19, <2>1, RequestTable DEF ModeOK, StartOK, Steps
<1> QED
  BY <1>3, <1>7, <1>8, <1>9, <1>10, <1>11, <1>12, <1>13, <1>14, <1>15, <1>16, <1>17, <1>18, <1>19,
     RequestTable

\* A request is done: the script goes on with the next one, or ends.
LEMMA RequestDone ==
  ASSUME MouseInv, faults = 0, AgreeInv, AtRequest, Top.sent,
         Top.part = Len(RequestBytes[Top.req]),
         NEW kind, Top.req \in {"id", "idAgain"} => kind = Named(mode)
  PROVE  ScriptsOK(GoOn(TypeFound(kind)), attached, <<>>, 1, mode, rates, packetLength, enabled)
<1>1. Depth > 0 /\ Top.req \in RequestName /\ mode \in {0, 3, 4}
  BY DEF AtRequest, MouseInv, TypeOK
<1>2. /\ stack \in Seq(GoodFrame) /\ stack # <<>> /\ Top = stack[Len(stack)] /\ Top \in GoodFrame
      /\ FramesOK(stack) /\ (attached = "starting" => Len(stack) <= 1)
      /\ ModeOK(Top, attached, mode, rates, packetLength, enabled)
  BY <1>1, TopOK
<1>3. CASE Top.req = "enable"
  <2>1. PICK o : o = Outer
    OBVIOUS
  <2>2. GoOn(TypeFound(kind)) = o
    BY <1>3, <2>1 DEF GoOn
  <2>3. o = SubSeq(stack, 1, Len(stack) - 1)
    BY <2>1 DEF Outer, Depth
  <2>4. /\ FramesOK(o) /\ Len(o) = Len(stack) - 1 /\ o \in Seq(GoodFrame)
        /\ o # <<>> => Parked(o[Len(o)])
    BY <1>2, <2>3, EndFrame
  <2>5. CASE o = <<>>
    <3>1. mode = Capability /\ packetLength = Length(mode) /\ enabled
      BY <1>2, <1>3 DEF ModeOK, StartOK
    <3>2. IdleOK(attached, <<>>, mode, packetLength, enabled)
      BY <3>1 DEF IdleOK
    <3>3. Len(o) <= 1
      BY <2>5
    <3> QED  BY <2>2, <2>4, <2>5, <3>2, <3>3 DEF ScriptsOK
  <2>6. CASE o # <<>>
    <3>1. PICK p : p = o[Len(o)]
      OBVIOUS
    <3>2. Parked(p)
      BY <2>4, <2>6, <3>1
    <3>3. LineOK(p, <<>>, 1, Named(mode))
      BY <3>2, ParkedFree
    <3>4. Len(o) \in Nat /\ Len(o) # 0 /\ Len(stack) \in Nat
      BY <1>2, <2>4, <2>6
    <3>5. attached # "starting"
      BY <1>2, <2>4, <3>4
    <3>6. ModeOK(p, attached, mode, rates, packetLength, enabled)
      BY <1>2, <3>2, <3>5 DEF ModeOK, Parked
    <3> QED  BY <2>2, <2>4, <2>6, <3>1, <3>3, <3>5, <3>6 DEF ScriptsOK
  <2> QED  BY <2>5, <2>6
<1>4. CASE Top.req # "enable"
  <2>1. PICK t : t = TypeFound(kind)
    OBVIOUS
  <2>2. PICK g : g = Script(Successor(t), 1, t)
    OBVIOUS
  <2>3. t \in Type
    BY <1>2, <2>1 DEF TypeFound, Type, GoodFrame, Frame
  <2>4. Top.req \in Double => Top.sent /\ Top.part = 2
    BY RequestKinds
  <2>5. Top.req \in RequestName \ {"enable"}
    BY <1>1, <1>4
  <2>6. /\ ModeOK(g, attached, mode, rates, packetLength, enabled)
        /\ Successor(t) \in Steps \ {"stop"}
        /\ Successor(t) = "stopCommandByte" => Top.req = "stop"
    BY <1>1, <1>2, <2>1, <2>2, <2>4, <2>5, NextMode
  <2>7. g \in GoodFrame /\ g.req = Successor(t)
    BY <2>2, <2>3, <2>6, StartGood DEF Script
  <2>8. LineOK(g, <<>>, 1, Named(mode))
    BY <2>2, <2>3, <2>6, FreshLine
  <2>9. g.req \in Stopping => Top.req \in Stopping
    BY <2>6, <2>7 DEF Stopping
  <2>10. ScriptsOK(With(g), attached, <<>>, 1, mode, rates, packetLength, enabled)
    BY <1>1, <2>6, <2>7, <2>8, <2>9, WithOK
  <2>11. GoOn(TypeFound(kind)) = With(g)
    <3>1. Top.req # "stopCommandByte"
      BY <1>1, RequestTable
    <3> QED  BY <1>4, <2>1, <2>2, <3>1 DEF GoOn
  <2> QED  BY <2>10, <2>11
<1> QED  BY <1>3, <1>4

\* A request goes on with its next byte; l is what is left of the answer.
LEMMA NextPart ==
  ASSUME MouseInv, faults = 0, AgreeInv, AtRequest,
         Top.part # Len(RequestBytes[Top.req]),
         NEW g, g = Script(Top.req, Top.part + 1, Top.type), g \in GoodFrame,
         NEW l, l = IF Top.req \in Double THEN <<>> ELSE Remaining(g, Named(mode))
  PROVE  ScriptsOK(With(g), attached, l, 1, mode, rates, packetLength, enabled)
<1>1. Depth > 0 /\ Top.req \in RequestName
  BY DEF AtRequest
<1>2. Top \in GoodFrame /\ ModeOK(Top, attached, mode, rates, packetLength, enabled)
  BY <1>1, TopOK
<1>3. /\ g.req = Top.req /\ g.part = Top.part + 1 /\ g.sent = FALSE /\ g.held = <<>>
      /\ Top.part \in 1..4 /\ Top.part <= Len(RequestBytes[Top.req])
  BY <1>1, <1>2 DEF Script, GoodFrame, Frame
<1>4. Top.req \notin Single
  <2>1. Top.req \in Single => Len(RequestBytes[Top.req]) = 1
    BY RequestKinds
  <2>2. \A p \in 1..4 : p <= 1 => p = 1
    OBVIOUS
  <2> QED  BY <1>3, <2>1, <2>2
<1>5. LineOK(g, l, 1, Named(mode))
  <2>1. CASE Top.req \in Double
    <3>1. Len(RequestBytes[Top.req]) = 2 /\ RequestBytes[Top.req][2] # "read"
      BY <2>1, RequestKinds
    <3>2. g.part = 2
      BY <1>3, <3>1
    <3>3. ~Reading(g) /\ ~Waiting(g)
      BY <1>3, <3>1, <3>2 DEF Reading, Waiting, At
    <3> QED  BY <1>1, <1>3, <2>1, <3>3 DEF LineOK
  <2>2. CASE Top.req \notin Double
    <3>1. Top.req \in {"info", "id", "idAgain"}
      BY <1>1, <1>4, <2>2, RequestKinds
    <3>2. RequestBytes[Top.req][g.part] = "read"
      <4>1. CASE Top.req = "info"
        <5>1. g.part \in 2..4
          BY <1>3, <4>1, RequestKinds
        <5> QED  BY <4>1, <5>1, RequestKinds
      <4>2. CASE Top.req \in {"id", "idAgain"}
        <5>1. Len(RequestBytes[Top.req]) = 2
          BY <4>2, RequestKinds
        <5>2. g.part = 2
          BY <1>3, <5>1
        <5> QED  BY <4>2, <5>2, RequestKinds
      <4> QED  BY <3>1, <4>1, <4>2
    <3>3. Reading(g) /\ ~Waiting(g)
      BY <1>1, <1>3, <3>2 DEF Reading, Waiting, At
    <3> QED  BY <1>1, <1>3, <2>2, <3>3 DEF LineOK
  <2> QED  BY <2>1, <2>2
<1>6. ModeOK(g, attached, mode, rates, packetLength, enabled)
  <2>1. \A b, c : Written(g, b, c) = b
    BY <1>3 DEF Written
  <2>2. Top.req \in Double => \A b, c : Written(Top, b, c) = b
    <3>1. Top.req \in Double => Top.part # 2
      BY RequestKinds
    <3> QED  BY <3>1 DEF Written
  <2>3. Top.req # "identified" /\ Top.req # "enable"
    BY <1>1, <1>4, RequestTable DEF Single
  <2>4. StartOK(Top, mode, rates, packetLength) => StartOK(g, mode, rates, packetLength)
    BY <1>3, <2>1, <2>2 DEF StartOK, Double
  <2> QED  BY <1>2, <1>3, <2>3, <2>4 DEF ModeOK
<1>7. g.req \in Stopping => Top.req \in Stopping
  BY <1>3
<1> QED  BY <1>1, <1>5, <1>6, <1>7, WithOK

\* Places of bytes in requests of one, two and four bytes.
LEMMA Places ==
  \A p \in 1..4 : /\ p <= 1 => p = 1
                  /\ p <= 2 => p \in {1, 2}
                  /\ p # 1 /\ p # 4 => p \in {2, 3}
                  /\ p \notin 2..4 => p = 1
OBVIOUS

LEMMA ExtraIn ==
  ASSUME NEW S, NEW c, NEW i, Answer("plain") \in S, Answer(i) \in S
  PROVE  Extra(c, i) \in Seq(S)
<1>1. \A a \in S : <<a>> \in Seq(S) /\ <<a, a, a>> \in Seq(S) /\ <<>> \in Seq(S)
  OBVIOUS
<1>2. CASE c = "E9"
  BY <1>1, <1>2 DEF Extra
<1>3. CASE c = "F2"
  BY <1>1, <1>3 DEF Extra
<1>4. CASE c # "E9" /\ c # "F2"
  BY <1>1, <1>4 DEF Extra
<1> QED  BY <1>2, <1>3, <1>4

\* The answers, byte by byte.
LEMMA AnswerLines ==
  /\ \A c, i : Due(c, i) # <<>> /\ Head(Due(c, i)) = Answer("ack") /\ Tail(Due(c, i)) = Extra(c, i)
  /\ \A f, i : Remaining(f, i) # <<>>
<1>2. ASSUME NEW c, NEW i
      PROVE  Due(c, i) # <<>> /\ Head(Due(c, i)) = Answer("ack") /\ Tail(Due(c, i)) = Extra(c, i)
  <2>1. PICK e : e = Extra(c, i)
    OBVIOUS
  <2>2. PICK S : S = {Answer("plain"), Answer(i), Answer("ack")}
    OBVIOUS
  <2>3. e \in Seq(S) /\ Answer("ack") \in S
    BY <2>1, <2>2, ExtraIn
  <2>4. PICK a : a = Answer("ack")
    OBVIOUS
  <2>5. <<a>> \o e # <<>> /\ Head(<<a>> \o e) = a /\ Tail(<<a>> \o e) = e
    BY <2>3, <2>4
  <2> QED  BY <2>1, <2>4, <2>5 DEF Due
<1>3. \A f, i : Remaining(f, i) # <<>>
  BY DEF Remaining
<1> QED  BY <1>2, <1>3

\* readDataPort finds what it waits for.
LEMMA ReadKeepsAgreement ==
  ASSUME MouseInv, faults = 0, AgreeInv, awaitByte
  PROVE  BufferOK' /\ ScriptsOK(stack, attached, line, next, mode, rates, packetLength, enabled)'
<1>1. /\ AtRequest /\ Top.sent /\ line # <<>> /\ line' = Tail(line) /\ Depth > 0
      /\ mode' = mode /\ next' = next /\ rates' = rates /\ enabled' = enabled /\ attached' = attached
  BY DEF awaitByte, mouse, AtRequest
<1>2. /\ stack \in Seq(GoodFrame) /\ Top \in GoodFrame
      /\ LineOK(Top, line, next, Named(mode))
      /\ ModeOK(Top, attached, mode, rates, packetLength, enabled)
  BY <1>1, TopOK
<1>3. Top.req \in RequestName /\ CurrentByte = At(Top) /\ BufferOK /\ packetBuffer \in Seq(Byte)
      /\ mode \in {0, 3, 4}
  BY <1>1 DEF AtRequest, CurrentByte, At, AgreeInv, MouseInv, TypeOK
<1>4. Reading(Top) \/ Waiting(Top)
  BY <1>1, <1>3 DEF Reading, Waiting
<1>5. next = 1
  BY <1>2, <1>4 DEF LineOK
<1>6. PICK g : g = Script(Top.req, Top.part + 1, Top.type)
  OBVIOUS
<1>7. /\ Top.part \in 1..4 /\ Top.part <= Len(RequestBytes[Top.req]) /\ Len(RequestBytes[Top.req]) \in 1..4
      /\ Top.type \in Type /\ Top.req \in Steps
  BY <1>2, <1>3, RequestLengths DEF GoodFrame, Frame, Steps
<1>8. Top.part # Len(RequestBytes[Top.req]) => g \in GoodFrame
  <2>1. \A p, n \in 1..4 : p <= n /\ p # n => p + 1 \in 1..4 /\ p + 1 <= n
    OBVIOUS
  <2> QED  BY <1>6, <1>7, <2>1, ScriptGood
<1>9. /\ g.req = Top.req /\ g.part = Top.part + 1
  BY <1>6 DEF Script
<1>10. CASE Reading(Top)
  <2>1. CurrentByte = "read" /\ line = Remaining(Top, Named(mode)) /\ Top.held = <<>>
    BY <1>2, <1>3, <1>10 DEF LineOK, Reading, Waiting
  <2>2. returnByte(Head(line), <<>>)
    BY <2>1 DEF awaitByte
  <2>3. UNCHANGED driver
    BY <2>2 DEF returnByte
  <2>4. BufferOK' /\ packetLength' = packetLength
    BY <1>3, <2>3 DEF driver, BufferOK
  <2>5. Top.req \in {"info", "id", "idAgain"}
    <3>1. Top.req \in Single => Top.part = 1 /\ RequestBytes[Top.req][1] # "read"
      <4>1. Top.req \in Single => Len(RequestBytes[Top.req]) = 1 /\ RequestBytes[Top.req][1] # "read"
        BY RequestKinds
      <4> QED  BY <1>7, <4>1, Places, Zenon
    <3>2. Top.req \in Double => Top.part \in {1, 2} /\ RequestBytes[Top.req][1] # "read"
                                /\ RequestBytes[Top.req][2] # "read"
      <4>1. Top.req \in Double => Len(RequestBytes[Top.req]) = 2
        BY RequestKinds
      <4>2. Top.req \in Double => Top.part \in {1, 2}
        BY <1>7, <4>1, Places, Zenon
      <4> QED  BY <4>2, RequestKinds
    <3> QED  BY <1>3, <1>10, <3>1, <3>2, RequestKinds DEF Reading, At
  <2>6. CASE Top.part = Len(RequestBytes[Top.req])
    <3>1. stack' = GoOn(TypeFound(Head(line).kind))
      BY <2>1, <2>2, <2>6 DEF returnByte
    <3>2. PICK b : line = <<b>> /\ (Top.req \in {"id", "idAgain"} => b.kind = Named(mode))
      <4>1. CASE Top.req = "info"
        <5>1. Top.part = 4
          BY <2>6, <4>1, RequestKinds
        <5> QED  BY <2>1, <4>1, <5>1 DEF Remaining
      <4>2. CASE Top.req \in {"id", "idAgain"}
        BY <2>1, <4>2 DEF Remaining, Answer
      <4> QED  BY <2>5, <4>1, <4>2
    <3>3. Head(line) = b /\ line' = <<>>
      BY <1>1, <3>2
    <3>4. ScriptsOK(stack', attached, <<>>, 1, mode, rates, packetLength, enabled)
      BY <1>1, <2>6, <3>1, <3>2, <3>3, RequestDone
    <3> QED  BY <1>1, <1>5, <2>4, <3>3, <3>4
  <2>7. CASE Top.part # Len(RequestBytes[Top.req])
    <3>1. stack' = With(g)
      BY <1>6, <2>1, <2>2, <2>7 DEF returnByte
    <3>2. Top.req = "info" /\ Top.part \in {2, 3}
      <4>1. Top.part # 1
        BY <1>3, <1>10, RequestKinds DEF Reading, At
      <4>2. Top.req \in {"id", "idAgain"} => Len(RequestBytes[Top.req]) = 2
        BY RequestKinds
      <4>3. Top.req = "info" => Len(RequestBytes[Top.req]) = 4
        BY RequestKinds
      <4>4. Top.req \notin {"id", "idAgain"}
        BY <1>7, <2>7, <4>1, <4>2, Places
      <4>5. Top.req = "info" /\ Top.part # 4
        BY <2>5, <2>7, <4>3, <4>4
      <4> QED  BY <1>7, <4>1, <4>5, Places, Zenon
    <3>3. Tail(line) = Remaining(g, Named(mode))
      <4>1. CASE Top.part = 2
        BY <1>9, <2>1, <3>2, <4>1 DEF Remaining
      <4>2. CASE Top.part = 3
        BY <1>9, <2>1, <3>2, <4>2 DEF Remaining
      <4> QED  BY <3>2, <4>1, <4>2
    <3>4. Top.req \notin Double
      BY <3>2 DEF Double
    <3>5. ScriptsOK(stack', attached, Tail(line), 1, mode, rates, packetLength, enabled)
      BY <1>1, <1>6, <1>8, <2>7, <3>1, <3>3, <3>4, NextPart
    <3> QED  BY <1>1, <1>5, <2>4, <3>5
  <2> QED  BY <2>6, <2>7
<1>11. CASE Waiting(Top) /\ line = Due(At(Top), Named(mode))
  <2>1. Head(line) = Answer("ack") /\ line' = Extra(At(Top), Named(mode)) /\ Head(line).kind = "ack"
    BY <1>1, <1>11, AnswerLines DEF Answer
  <2>2. CurrentByte # "read" /\ returnByte(Head(line), Top.held)
    BY <1>3, <1>11, <2>1 DEF awaitByte, Waiting
  <2>3. PICK frames : frames = IF Top.part = Len(RequestBytes[Top.req]) THEN GoOn(TypeFound("ack")) ELSE With(g)
    OBVIOUS
  <2>4. IF Top.held # <<>> THEN dispatchDriverInterrupt(Top.held[1], frames)
        ELSE stack' = frames /\ UNCHANGED driver
    BY <1>6, <2>1, <2>2, <2>3 DEF returnByte
  <2>5. frames \in Seq(GoodFrame)
    <3>1. TypeFound("ack") \in Type
      BY <1>7 DEF TypeFound, Type
    <3> QED  BY <1>1, <1>2, <1>8, <2>3, <3>1, GoOnGood, TopGood
  <2>6. ScriptsOK(frames, attached, line', 1, mode, rates, packetLength, enabled)
    <3>1. CASE Top.part = Len(RequestBytes[Top.req])
      <4>1. Top.req \in Single \cup Double
        <5>1. Top.req \in {"id", "idAgain"} => RequestBytes[Top.req][Len(RequestBytes[Top.req])] = "read"
          BY RequestKinds
        <5>2. Top.req = "info" => RequestBytes[Top.req][Len(RequestBytes[Top.req])] = "read"
          BY RequestKinds
        <5> QED  BY <1>3, <1>11, <3>1, <5>1, <5>2, RequestKinds DEF Waiting, At
      <4>2. At(Top) \notin {"E9", "F2"}
        BY <3>1, <4>1, RequestKinds DEF At
      <4>3. line' = <<>>
        BY <2>1, <4>2 DEF Extra
      <4>4. Top.req \notin {"id", "idAgain"}
        BY <4>1 DEF Single, Double
      <4> QED  BY <1>1, <2>3, <3>1, <4>3, <4>4, RequestDone
    <3>2. CASE Top.part # Len(RequestBytes[Top.req])
      <4>1. Top.part = 1
        <5>1. Top.req \in Single => Len(RequestBytes[Top.req]) = 1
          BY RequestKinds
        <5>2. Top.req \in Double \cup {"id", "idAgain"} => Len(RequestBytes[Top.req]) = 2
          BY RequestKinds
        <5>3. Top.req = "info" => Top.part \notin 2..4
          BY <1>11, RequestKinds DEF Waiting, At
        <5>4. Top.req \in Single \cup Double \cup {"info", "id", "idAgain"}
          BY <1>3, RequestKinds
        <5>5. Top.req \notin Single
          BY <1>7, <3>2, <5>1, Places, Zenon
        <5>6. CASE Top.req \in Double \cup {"id", "idAgain"}
          BY <1>7, <3>2, <5>2, <5>6, Places
        <5>7. CASE Top.req = "info"
          BY <1>7, <5>3, <5>7, Places, Zenon
        <5> QED  BY <5>4, <5>5, <5>6, <5>7
      <4>2. g.part = 2
        BY <1>9, <4>1
      <4>3. CASE Top.req \in Double
        <5>1. At(Top) \notin {"E9", "F2"}
          BY <4>1, <4>3, RequestKinds DEF At
        <5>2. line' = <<>>
          BY <2>1, <5>1 DEF Extra
        <5> QED  BY <1>1, <1>6, <1>8, <2>3, <3>2, <4>3, <5>2, NextPart
      <4>4. CASE Top.req \notin Double
        <5>1. Top.req \in {"info", "id", "idAgain"}
          <6>1. Top.req \in Single => Len(RequestBytes[Top.req]) = 1
            BY RequestKinds
          <6> QED  BY <1>3, <3>2, <4>1, <4>4, <6>1, RequestKinds
        <5>2. line' = Remaining(g, Named(mode))
          <6>1. CASE Top.req = "info"
            <7>1. At(Top) = "E9"
              BY <4>1, <6>1, RequestKinds DEF At
            <7> QED  BY <1>9, <2>1, <4>2, <6>1, <7>1 DEF Extra, Remaining
          <6>2. CASE Top.req \in {"id", "idAgain"}
            <7>1. At(Top) = "F2"
              BY <4>1, <6>2, RequestKinds DEF At
            <7> QED  BY <1>9, <2>1, <6>2, <7>1 DEF Extra, Remaining
          <6> QED  BY <5>1, <6>1, <6>2
        <5> QED  BY <1>1, <1>6, <1>8, <2>3, <3>2, <4>4, <5>2, NextPart
      <4> QED  BY <4>3, <4>4
    <3> QED  BY <3>1, <3>2
  <2>7. CASE Top.held = <<>>
    <3>1. stack' = frames /\ packetLength' = packetLength /\ BufferOK'
      BY <1>3, <2>4, <2>7 DEF driver, BufferOK
    <3> QED  BY <1>1, <1>5, <2>6, <3>1
  <2>8. CASE Top.held # <<>>
    <3>1. PICK m \in Moves : InTheWay(Top, m) /\ Top.held = <<m>>
      BY <1>2, <2>8 DEF LineOK
    <3>2. dispatchDriverInterrupt(m, frames)
      BY <2>4, <2>8, <3>1
    <3>3. /\ packetLength' = packetLength /\ BufferOK'
          /\ \/ stack' = frames
             \/ /\ stack' = Append(frames, Script("disable", 1, "id0"))
                /\ attached = "started" /\ m.kind # "sync"
      BY <1>3, <3>2, Dispatched
    <3>4. CASE stack' = frames
      BY <1>1, <1>5, <2>6, <3>3, <3>4
    <3>5. CASE stack' = Append(frames, Script("disable", 1, "id0")) /\ attached = "started" /\ m.kind # "sync"
      <4>1. Top.req \in {"disable", "enable", "stop"}
        BY <1>3, <3>1, <3>5, RequestTable DEF InTheWay, Settled
      <4>2. Top.part = Len(RequestBytes[Top.req])
        <5>1. Len(RequestBytes[Top.req]) = 1
          BY <4>1, RequestKinds DEF Single
        <5> QED  BY <1>7, <5>1, Places, Zenon
      <4>3. frames = <<>> \/ Parked(frames[Len(frames)])
        <5>1. CASE Top.req = "enable"
          <6>1. frames = SubSeq(stack, 1, Len(stack) - 1)
            BY <2>3, <4>2, <5>1 DEF GoOn, Outer, Depth
          <6> QED  BY <1>1, <6>1, EndFrame, TopOK
        <5>2. CASE Top.req # "enable"
          <6>1. PICK r, t : frames = With(Script(r, 1, t)) /\ r \in {"defaults", "stopCommandByte"} /\ t \in Type
            <7>1. TypeFound("ack") \in Type
              BY <1>7 DEF TypeFound, Type
            <7>2. Successor(TypeFound("ack")) \in {"defaults", "stopCommandByte"}
              BY <4>1, <5>2 DEF Successor
            <7> QED  BY <2>3, <4>1, <4>2, <5>2, <7>1, <7>2 DEF GoOn
          <6>2. PICK p : p = Script(r, 1, t)
            OBVIOUS
          <6>3. Parked(p)
            BY <6>1, <6>2 DEF Parked, Script
          <6>4. r \in Steps
            BY <6>1, RequestTable DEF Steps
          <6>5. p \in GoodFrame
            BY <6>1, <6>2, <6>4, StartGood
          <6>6. Outer \in Seq(GoodFrame)
            BY <1>1, <1>2, TopGood
          <6>7. frames[Len(frames)] = p
            BY <6>1, <6>2, <6>5, <6>6 DEF With
          <6> QED  BY <6>3, <6>7
        <5> QED  BY <5>1, <5>2
      <4>4. ScriptsOK(frames, "started", line', 1, mode, rates, packetLength, enabled)
        BY <2>6, <3>5
      <4>5. ScriptsOK(stack', "started", line', 1, mode, rates, packetLength, enabled)
        BY <2>5, <3>5, <4>3, <4>4, ResetStarts
      <4> QED  BY <1>1, <1>5, <3>3, <3>5, <4>5
    <3> QED  BY <3>3, <3>4, <3>5
  <2> QED  BY <2>7, <2>8
<1>12. CASE Waiting(Top) /\ Top.held = <<>> /\ \E m \in Moves : InTheWay(Top, m) /\ line = <<m>> \o Due(At(Top), Named(mode))
  <2>1. PICK m \in Moves : InTheWay(Top, m) /\ line = <<m>> \o Due(At(Top), Named(mode))
    BY <1>12
  <2>2. Head(line) = m /\ Tail(line) = Due(At(Top), Named(mode))
    <3>1. PICK d : d = Due(At(Top), Named(mode))
      OBVIOUS
    <3>2. PICK S : S = {Answer("plain"), Answer(Named(mode)), Answer("ack"), m}
      OBVIOUS
    <3>3. d \in Seq(S) /\ m \in S
      <4>1. Extra(At(Top), Named(mode)) \in Seq(S) /\ <<Answer("ack")>> \in Seq(S)
        BY <3>2, ExtraIn
      <4> QED  BY <3>1, <3>2, <4>1 DEF Due
    <3> QED  BY <2>1, <3>1, <3>3
  <2>3. m.kind # "ack" /\ CurrentByte # "read"
    BY <1>3, <1>12, <2>1 DEF Moves, Waiting
  <2>4. stack' = With([Top EXCEPT !.held = <<m>>]) /\ UNCHANGED driver
    BY <1>12, <2>2, <2>3 DEF awaitByte
  <2>5. BufferOK' /\ packetLength' = packetLength
    BY <1>3, <2>4 DEF driver, BufferOK
  <2>6. PICK h : h = [Top EXCEPT !.held = <<m>>]
    OBVIOUS
  <2>7. /\ h \in GoodFrame /\ h.req = Top.req /\ h.part = Top.part /\ h.sent = Top.sent /\ h.held = <<m>>
        /\ h.type = Top.type
    <3>1. m \in Byte
      BY DEF Moves
    <3>2. <<m>> \in Seq(Byte) /\ Top \in Frame
      BY <1>2, <3>1 DEF GoodFrame
    <3>3. /\ h \in Frame /\ h.req = Top.req /\ h.part = Top.part /\ h.sent = Top.sent
          /\ h.held = <<m>> /\ h.type = Top.type
      BY <2>6, <3>2 DEF Frame
    <3> QED  BY <1>2, <3>3 DEF GoodFrame
  <2>8. Waiting(h) /\ ~Reading(h) /\ At(h) = At(Top)
    BY <1>12, <2>7 DEF Waiting, Reading, At
  <2>9. LineOK(h, Tail(line), 1, Named(mode))
    BY <1>3, <2>1, <2>2, <2>7, <2>8 DEF LineOK, InTheWay
  <2>10. ModeOK(h, attached, mode, rates, packetLength, enabled)
    BY <1>2, <2>7 DEF ModeOK, StartOK, Written
  <2>11. ScriptsOK(With(h), attached, Tail(line), 1, mode, rates, packetLength, enabled)
    BY <1>1, <2>7, <2>9, <2>10, WithOK
  <2> QED  BY <1>1, <1>5, <2>4, <2>5, <2>6, <2>11
<1> QED  BY <1>2, <1>4, <1>10, <1>11, <1>12 DEF LineOK

\* The rates that the mouse remembers.
LEMMA AppendTwo ==
  ASSUME NEW a, NEW b, NEW c, NEW s, s = <<a, b>>
  PROVE  Append(s, c) = <<a, b, c>>
<1>1. PICK S : S = {a, b, c}
  OBVIOUS
<1>2. s \in Seq(S) /\ c \in S /\ Len(s) = 2 /\ s[1] = a /\ s[2] = b
  BY <1>1
<1>3. PICK t : t = Append(s, c)
  OBVIOUS
<1>4. t \in Seq(S) /\ Len(t) = 2 + 1 /\ t[2 + 1] = c /\ \A k \in 1..2 : t[k] = s[k]
  BY <1>2, <1>3, AppendProperties
<1>5. 2 + 1 = 3 /\ 1 \in 1..2 /\ 2 \in 1..2
  OBVIOUS
<1>6. t \in Seq(S) /\ Len(t) = 3 /\ t[3] = c /\ t[1] = a /\ t[2] = b
  BY <1>2, <1>4, <1>5, Zenon
<1>7. PICK u : u = <<a, b, c>>
  OBVIOUS
<1>8. u \in Seq(S) /\ Len(u) = 3 /\ u[1] = a /\ u[2] = b /\ u[3] = c
  BY <1>1, <1>7
<1>9. \A k \in 1..Len(t) : t[k] = u[k]
  <2>1. \A k \in 1..3 : k = 1 \/ k = 2 \/ k = 3
    OBVIOUS
  <2> QED  BY <1>6, <1>8, <2>1
<1>10. t = u
  BY <1>6, <1>8, <1>9, SeqEqual
<1> QED  BY <1>3, <1>7, <1>10

LEMMA AppendOne ==
  ASSUME NEW a, NEW c, NEW s, s = <<a>>
  PROVE  Append(s, c) = <<a, c>>
<1>1. PICK S : S = {a, c}
  OBVIOUS
<1>2. s \in Seq(S) /\ c \in S /\ Len(s) = 1 /\ s[1] = a
  BY <1>1
<1>3. PICK t : t = Append(s, c)
  OBVIOUS
<1>4. t \in Seq(S) /\ Len(t) = 1 + 1 /\ t[1 + 1] = c /\ \A k \in 1..1 : t[k] = s[k]
  BY <1>2, <1>3, AppendProperties
<1>5. 1 + 1 = 2 /\ 1 \in 1..1
  OBVIOUS
<1>6. t \in Seq(S) /\ Len(t) = 2 /\ t[2] = c /\ t[1] = a
  BY <1>2, <1>4, <1>5, Zenon
<1>7. PICK u : u = <<a, c>>
  OBVIOUS
<1>8. u \in Seq(S) /\ Len(u) = 2 /\ u[1] = a /\ u[2] = c
  BY <1>1, <1>7
<1>9. \A k \in 1..Len(t) : t[k] = u[k]
  <2>1. \A k \in 1..2 : k = 1 \/ k = 2
    OBVIOUS
  <2> QED  BY <1>6, <1>8, <2>1
<1>10. t = u
  BY <1>6, <1>8, <1>9, SeqEqual
<1> QED  BY <1>3, <1>7, <1>10

LEMMA LastThree ==
  ASSUME NEW c
  PROVE  /\ rates = <<>> => LastRates(c) = <<c>>
         /\ \A a : rates = <<a>> => LastRates(c) = <<a, c>>
         /\ \A a, b : rates = <<a, b>> => LastRates(c) = <<a, b, c>>
         /\ \A a, b, d : rates = <<a, b, d>> => LastRates(c) = <<b, d, c>>
<1>1. ASSUME rates = <<>> PROVE LastRates(c) = <<c>>
  <2>1. Len(rates) < 3 /\ Append(rates, c) = <<c>>
    BY <1>1
  <2> QED  BY <2>1 DEF LastRates
<1>2. ASSUME NEW a, rates = <<a>> PROVE LastRates(c) = <<a, c>>
  <2>1. Len(rates) < 3
    BY <1>2
  <2> QED  BY <1>2, <2>1, AppendOne DEF LastRates
<1>3. ASSUME NEW a, NEW b, rates = <<a, b>> PROVE LastRates(c) = <<a, b, c>>
  <2>1. Len(rates) < 3
    BY <1>3
  <2> QED  BY <1>3, <2>1, AppendTwo DEF LastRates
<1>4. ASSUME NEW a, NEW b, NEW d, rates = <<a, b, d>> PROVE LastRates(c) = <<b, d, c>>
  <2>1. ~(Len(rates) < 3)
    BY <1>4
  <2>2. PICK t : t = Tail(rates)
    OBVIOUS
  <2>3. t = <<b, d>>
    BY <1>4, <2>2
  <2>4. Append(t, c) = <<b, d, c>>
    BY <2>3, AppendTwo
  <2> QED  BY <2>1, <2>2, <2>4 DEF LastRates
<1> QED  BY <1>1, <1>2, <1>3, <1>4

\* The mode of a mouse that is in the mode it is capable of stays.
LEMMA ModeStays ==
  ASSUME mode = Capability, NEW history
  PROVE  ModeAfter(history) = mode
BY MouseAssumption DEF ModeAfter

\* A byte that start writes takes the mouse along its sequence of rates and modes.
LEMMA StartWrites ==
  ASSUME Top \in GoodFrame, AtRequest, ~Top.sent, CurrentByte # "read", receiveCommand(CurrentByte),
         StartOK(Top, mode, rates, packetLength)
  PROVE  StartOK([Top EXCEPT !.sent = TRUE], mode', rates', packetLength)
<1>1. PICK g : g = [Top EXCEPT !.sent = TRUE]
  OBVIOUS
<1>2. PICK r : r = Top.req
  OBVIOUS
<1>3. PICK p : p = Top.part
  OBVIOUS
<1>4. r \in RequestName /\ g.req = r /\ g.part = p /\ g.sent = TRUE /\ CurrentByte = RequestBytes[r][p]
      /\ p \in 1..4 /\ p <= Len(RequestBytes[r])
  BY <1>1, <1>2, <1>3 DEF AtRequest, CurrentByte, GoodFrame, Frame
<1>5. \A b, c : Written(Top, b, c) = b
  BY DEF Written
<1>6. \A b, c : Written(g, b, c) = IF p = 2 THEN c ELSE b
  BY <1>4 DEF Written
<1>7. PICK c : c = CurrentByte
  OBVIOUS
<1>8. /\ c \in {"200", "100", "80", "rate"} => rates' = LastRates(c) /\ mode' = ModeAfter(rates')
      /\ c \notin {"200", "100", "80", "rate"} => rates' = rates /\ mode' = mode
  BY <1>7 DEF receiveCommand
<1>9. r \in Double => /\ p = 1 \/ p = 2
                      /\ p = 1 => c \notin {"200", "100", "80", "rate"}
  <2>1. r \in Double => Len(RequestBytes[r]) = 2
    BY RequestKinds
  <2>2. r \in Double => p = 1 \/ p = 2
    BY <1>4, <2>1, Places, Zenon
  <2>3. r \in Double => RequestBytes[r][1] \in {"F3", "E8"}
    BY RequestTable DEF Double
  <2> QED  BY <1>4, <1>7, <2>2, <2>3
<1>10. r \notin Double => c \notin {"200", "100", "80", "rate"}
  <2>1. r \in Single => p = 1
    <3>1. r \in Single => Len(RequestBytes[r]) = 1
      BY RequestKinds
    <3> QED  BY <1>4, <3>1, Places, Zenon
  <2>2. r \in Single => RequestBytes[r][1] \in {"F4", "F5", "F6"}
    BY RequestTable DEF Single
  <2>3. r \in {"info", "id", "idAgain"} => p = 1
    <3>1. r \in {"id", "idAgain"} => Len(RequestBytes[r]) = 2 /\ RequestBytes[r][2] = "read"
      BY RequestKinds
    <3>2. r = "info" => \A k \in 2..4 : RequestBytes[r][k] = "read"
      BY RequestKinds
    <3> QED  BY <1>4, <3>1, <3>2, Places
  <2>4. r \in {"info", "id", "idAgain"} => RequestBytes[r][1] \in {"E9", "F2"}
    BY RequestKinds
  <2> QED  BY <1>4, <1>7, <2>1, <2>2, <2>3, <2>4, RequestKinds
<1> SUFFICES StartOK(g, mode', rates', packetLength)
  BY <1>1
<1>11. CASE c \notin {"200", "100", "80", "rate"}
  <2>1. r \in Double /\ r # "resolution" /\ r # "restore" => p # 2
    <3>1. r \in Double \ {"resolution", "restore"} => RequestBytes[r][2] \in {"200", "100", "80"}
      BY RequestTable DEF Double
    <3> QED  BY <1>4, <1>7, <1>11, <3>1
  <2>2. rates' = rates /\ mode' = mode
    BY <1>8, <1>11
  <2> QED  BY <1>2, <1>4, <1>5, <1>6, <2>1, <2>2 DEF StartOK, Double
<1>12. CASE c \in {"200", "100", "80", "rate"}
  <2>1. r \in Double /\ p = 2 /\ rates' = LastRates(c) /\ mode' = ModeAfter(rates')
    BY <1>8, <1>9, <1>10, <1>12
  <2>2. c = RequestBytes[r][2]
    BY <1>4, <1>7, <2>1
  <2>3. CASE r = "rate200"
    <3>1. c = "200" /\ mode = 0 /\ rates = <<>>
      BY <1>2, <1>5, <2>2, <2>3, RequestTable DEF StartOK
    <3>2. rates' = <<"200">>
      BY <2>1, <3>1, LastThree
    <3>3. <<"200">> # <<"200", "100", "80">> /\ <<"200">> # <<"200", "200", "80">>
      OBVIOUS
    <3>4. mode' = 0
      BY <2>1, <3>1, <3>2, <3>3 DEF ModeAfter
    <3> QED  BY <1>4, <1>6, <2>1, <2>3, <3>2, <3>4 DEF StartOK
  <2>4. CASE r = "rate100"
    <3>1. c = "100" /\ mode = 0 /\ rates = <<"200">>
      BY <1>2, <1>5, <2>2, <2>4, RequestTable DEF StartOK
    <3>2. rates' = <<"200", "100">>
      BY <2>1, <3>1, LastThree
    <3>3. <<"200", "100">> # <<"200", "100", "80">> /\ <<"200", "100">> # <<"200", "200", "80">>
      OBVIOUS
    <3>4. mode' = 0
      BY <2>1, <3>1, <3>2, <3>3 DEF ModeAfter
    <3> QED  BY <1>4, <1>6, <2>1, <2>4, <3>2, <3>4 DEF StartOK
  <2>5. CASE r = "rate80"
    <3>1. c = "80" /\ mode = 0 /\ rates = <<"200", "100">>
      BY <1>2, <1>5, <2>2, <2>5, RequestTable DEF StartOK
    <3>2. rates' = <<"200", "100", "80">>
      BY <2>1, <3>1, LastThree
    <3>3. mode' = Wheel
      BY <2>1, <3>1, <3>2 DEF ModeAfter, Wheel
    <3> QED  BY <1>4, <1>6, <2>1, <2>5, <3>2, <3>3 DEF StartOK
  <2>6. CASE r = "again200"
    <3>1. c = "200" /\ mode = 3 /\ Capability # 0 /\ rates = <<"200", "100", "80">>
      BY <1>2, <1>5, <2>2, <2>6, RequestTable DEF StartOK
    <3>2. rates' = <<"100", "80", "200">>
      BY <2>1, <3>1, LastThree
    <3>3. <<"100", "80", "200">> # <<"200", "200", "80">>
      OBVIOUS
    <3>4. mode' = 3
      BY <2>1, <3>1, <3>2, <3>3 DEF ModeAfter
    <3> QED  BY <1>4, <1>6, <2>1, <2>6, <3>1, <3>2, <3>4 DEF StartOK
  <2>7. CASE r = "third200"
    <3>1. c = "200" /\ mode = 3 /\ Capability # 0 /\ rates = <<"100", "80", "200">>
      BY <1>2, <1>5, <2>2, <2>7, RequestTable DEF StartOK
    <3>2. rates' = <<"80", "200", "200">>
      BY <2>1, <3>1, LastThree
    <3>3. <<"80", "200", "200">> # <<"200", "200", "80">>
      OBVIOUS
    <3>4. mode' = 3
      BY <2>1, <3>1, <3>2, <3>3 DEF ModeAfter
    <3> QED  BY <1>4, <1>6, <2>1, <2>7, <3>1, <3>2, <3>4 DEF StartOK
  <2>8. CASE r = "again80"
    <3>1. c = "80" /\ mode = 3 /\ Capability # 0 /\ rates = <<"80", "200", "200">>
      BY <1>2, <1>5, <2>2, <2>8, RequestTable DEF StartOK
    <3>2. rates' = <<"200", "200", "80">>
      BY <2>1, <3>1, LastThree
    <3>3. mode' = Capability
      BY <2>1, <3>1, <3>2, MouseAssumption DEF ModeAfter
    <3> QED  BY <1>4, <1>6, <2>1, <2>8, <3>1, <3>2, <3>3 DEF StartOK
  <2>9. CASE r = "restore"
    <3>1. mode = Capability /\ packetLength = Length(mode)
      BY <1>2, <2>9 DEF StartOK
    <3>2. mode' = mode
      BY <2>1, <3>1, ModeStays
    <3> QED  BY <1>4, <2>9, <3>1, <3>2 DEF StartOK
  <2>10. r # "resolution"
    BY <1>12, <2>2, RequestTable
  <2> QED  BY <2>1, <2>3, <2>4, <2>5, <2>6, <2>7, <2>8, <2>9, <2>10 DEF Double
<1> QED  BY <1>11, <1>12

\* Writing a byte keeps the agreement.
LEMMA WriteKeepsAgreement ==
  ASSUME MouseInv, faults = 0, AgreeInv, writeByte
  PROVE  ScriptsOK(stack, attached, line, next, mode, rates, packetLength, enabled)'
<1>1. /\ AtRequest /\ ~Top.sent /\ Depth > 0 /\ Top.req \in RequestName /\ CurrentByte = At(Top)
      /\ attached' = attached /\ packetLength' = packetLength
  BY DEF writeByte, AtRequest, driver, CurrentByte, At
<1>2. /\ Top \in GoodFrame /\ mode \in {0, 3, 4}
      /\ LineOK(Top, line, next, Named(mode))
      /\ ModeOK(Top, attached, mode, rates, packetLength, enabled)
  BY <1>1, TopOK DEF MouseInv, TypeOK
<1>3. PICK g : g = [Top EXCEPT !.sent = TRUE]
  OBVIOUS
<1>4. /\ g \in GoodFrame /\ g.req = Top.req /\ g.part = Top.part /\ g.sent = TRUE
      /\ g.held = Top.held /\ g.type = Top.type
  BY <1>2, <1>3 DEF GoodFrame, Frame
<1>5. stack' = With(g) /\ Top.held = <<>> /\ At(g) = At(Top)
  BY <1>1, <1>2, <1>3, <1>4 DEF writeByte, LineOK, Waiting, At
<1>6. g.req \in Stopping => Top.req \in Stopping
  BY <1>4
<1>7. CASE CurrentByte = "read"
  <2>1. UNCHANGED <<mouse, line>>
    BY <1>7 DEF writeByte
  <2>2. Reading(g) /\ ~Waiting(g) /\ Reading(Top)
    BY <1>1, <1>4, <1>5, <1>7 DEF Reading, Waiting
  <2>3. Remaining(g, Named(mode)) = Remaining(Top, Named(mode))
    BY <1>4 DEF Remaining
  <2>4. LineOK(g, line, next, Named(mode))
    BY <1>1, <1>2, <1>4, <1>5, <2>2, <2>3 DEF LineOK
  <2>5. Top.req \notin Double /\ Top.req # "enable"
    <3>1. Top.req \in Double => \A k \in {1, 2} : RequestBytes[Top.req][k] # "read"
      BY RequestKinds
    <3>2. Top.req \in Double \cup {"enable"} => Top.part \in {1, 2}
      <4>1. Top.req \in Double => Len(RequestBytes[Top.req]) = 2
        BY RequestKinds
      <4>2. Top.req = "enable" => Len(RequestBytes[Top.req]) = 1
        BY RequestKinds DEF Single
      <4>3. Top.part \in 1..4 /\ Top.part <= Len(RequestBytes[Top.req])
        BY <1>1, <1>2 DEF GoodFrame, Frame
      <4>4. Top.req \in Double => Top.part \in {1, 2}
        BY <4>1, <4>3, Places, Zenon
      <4>5. Top.req = "enable" => Top.part = 1
        BY <4>2, <4>3, Places, Zenon
      <4> QED  BY <4>4, <4>5
    <3>3. Top.req = "enable" => Top.part = 1 /\ RequestBytes[Top.req][1] # "read"
      <4>1. Top.req = "enable" => Len(RequestBytes[Top.req]) = 1 /\ RequestBytes[Top.req][1] # "read"
        BY RequestKinds DEF Single
      <4>2. Top.part \in 1..4 /\ Top.part <= Len(RequestBytes[Top.req])
        BY <1>1, <1>2 DEF GoodFrame, Frame
      <4> QED  BY <4>1, <4>2, Places, Zenon
    <3> QED  BY <1>1, <1>7, <3>1, <3>2, <3>3 DEF At
  <2>6. StartOK(Top, mode, rates, packetLength) => StartOK(g, mode, rates, packetLength)
    BY <1>4, <2>5 DEF StartOK, Double
  <2>7. ModeOK(g, attached, mode, rates, packetLength, enabled)
    BY <1>2, <1>4, <2>5, <2>6 DEF ModeOK
  <2>8. ScriptsOK(With(g), attached, line, next, mode, rates, packetLength, enabled)
    BY <1>1, <1>4, <1>6, <2>4, <2>7, WithOK
  <2> QED  BY <1>1, <1>5, <2>1, <2>8 DEF mouse
<1>8. CASE CurrentByte # "read"
  <2>1. PICK c : c = CurrentByte
    OBVIOUS
  <2>2. receiveCommand(c)
    BY <1>8, <2>1 DEF writeByte
  <2>3. next' = 1 /\ line' = line \o <<Answer("ack")>> \o Extra(c, Named(mode))
    BY <2>2 DEF receiveCommand, Extra, Named, Identification
  <2>4. c = "F2" => mode' = mode
    BY <2>2 DEF receiveCommand
  <2>5. Due(c, Named(mode')) = Due(c, Named(mode))
    BY <2>4 DEF Due, Extra
  <2>6. Waiting(g) /\ ~Reading(g) /\ ~Waiting(Top) /\ ~Reading(Top)
    BY <1>1, <1>4, <1>5, <1>8 DEF Waiting, Reading
  <2>7. \/ line' = Due(c, Named(mode))
        \/ \E m \in Moves : InTheWay(g, m) /\ line' = <<m>> \o Due(c, Named(mode))
    <3>1. PICK x : x = Extra(c, Named(mode))
      OBVIOUS
    <3>2. PICK a : a = Answer("ack")
      OBVIOUS
    <3>3. PICK S : S = {Answer("plain"), Answer(Named(mode)), Answer("ack")} \cup Moves
      OBVIOUS
    <3>4. x \in Seq(S) /\ a \in S
      BY <3>1, <3>2, <3>3, ExtraIn
    <3>5. CASE line = <<>>
      <4>1. line' = <<a>> \o x
        BY <2>3, <3>1, <3>2, <3>4, <3>5
      <4> QED  BY <3>1, <3>2, <4>1 DEF Due
    <3>6. ASSUME NEW m \in Moves, InTheWay(Top, m), line = <<m>>
          PROVE  InTheWay(g, m) /\ line' = <<m>> \o Due(c, Named(mode))
      <4>1. m \in S /\ <<m>> \in Seq(S) /\ <<a>> \in Seq(S)
        BY <3>3, <3>4
      <4>2. (<<m>> \o <<a>>) \o x = <<m>> \o (<<a>> \o x)
        BY <3>4, <4>1, ConcatAssociative
      <4> QED  BY <1>4, <2>3, <3>1, <3>2, <3>6, <4>2 DEF Due, InTheWay
    <3> QED  BY <1>2, <2>6, <3>5, <3>6 DEF LineOK
  <2>8. LineOK(g, line', 1, Named(mode'))
    BY <1>1, <1>4, <1>5, <2>1, <2>5, <2>6, <2>7 DEF LineOK
  <2>9. ModeOK(g, attached, mode', rates', packetLength, enabled')
    <3>1. mode = Capability => mode' = mode
      BY <2>2, ModeStays DEF receiveCommand
    <3>2. attached = "starting" => StartOK(g, mode', rates', packetLength)
      BY <1>1, <1>2, <1>3, <1>8, <2>1, <2>2, StartWrites DEF ModeOK
    <3>3. g.req \in {"again200", "third200", "again80", "idAgain"} => mode' # 0
      BY <1>2, <1>4, <2>2 DEF ModeOK, receiveCommand, ModeAfter
    <3>4. g.req = "enable" => enabled'
      <4>1. g.req = "enable" => c = "F4"
        <5>1. Top.req = "enable" => RequestBytes[Top.req] = <<"F4">>
          BY RequestTable
        <5>2. Top.req = "enable" => Top.part = 1
          <6>1. Top.req = "enable" => Len(RequestBytes[Top.req]) = 1
            BY <5>1
          <6>2. Top.part \in 1..4 /\ Top.part <= Len(RequestBytes[Top.req])
            BY <1>1, <1>2 DEF GoodFrame, Frame
          <6> QED  BY <6>1, <6>2, Places, Zenon
        <5> QED  BY <1>1, <1>4, <2>1, <5>1, <5>2 DEF At
      <4> QED  BY <2>2, <4>1 DEF receiveCommand
    <3>5. g.req # "identified"
      BY <1>1, <1>4, RequestTable
    <3> QED  BY <1>2, <1>4, <3>1, <3>2, <3>3, <3>4, <3>5 DEF ModeOK
  <2>10. ScriptsOK(With(g), attached, line', 1, mode', rates', packetLength, enabled')
    BY <1>1, <1>4, <1>6, <2>8, <2>9, WithOK
  <2> QED  BY <1>1, <1>5, <2>3, <2>10
<1> QED  BY <1>7, <1>8

\* start finds the mouse as it is after power on.
LEMMA InitAgrees == Init => AgreeInv
<1> SUFFICES ASSUME Init PROVE AgreeInv
  OBVIOUS
<1>1. PICK g : g = Script("defaults", 1, "id0")
  OBVIOUS
<1>2. "defaults" \in Steps /\ "id0" \in Type
  BY RequestTable DEF Steps, Type
<1>3. stack = <<g>> /\ line = <<>> /\ next = 1 /\ mode = 0 /\ rates = <<>> /\ attached = "starting"
  BY <1>1 DEF Init
<1>4. LineOK(g, line, next, Named(mode))
  BY <1>1, <1>2, <1>3, FreshLine
<1>5. g.req = "defaults"
  BY <1>1 DEF Script
<1>6. ModeOK(g, attached, mode, rates, packetLength, enabled)
  BY <1>3, <1>5 DEF ModeOK, StartOK
<1>7. Len(stack) = 1 /\ stack # <<>> /\ stack[Len(stack)] = g /\ FramesOK(stack)
  BY <1>3 DEF FramesOK
<1>8. BufferOK
  BY DEF Init, BufferOK
<1>9. Len(stack) <= 1
  BY <1>7
<1> QED  BY <1>4, <1>6, <1>7, <1>8, <1>9 DEF AgreeInv, ScriptsOK

\* The answers a script waits for are on the line: no read times out.
LEMMA NoTimeOut ==
  ASSUME MouseInv, faults = 0, AgreeInv
  PROVE  ~timeOut
<1> SUFFICES ASSUME timeOut PROVE FALSE
  OBVIOUS
<1>1. AtRequest /\ Top.sent /\ line = <<>> /\ Depth > 0
  BY DEF timeOut, AtRequest
<1>2. LineOK(Top, line, next, Named(mode))
  BY <1>1, TopOK
<1>3. Reading(Top) \/ Waiting(Top)
  BY <1>1 DEF AtRequest, Reading, Waiting
<1>4. Due(At(Top), Named(mode)) # <<>> /\ Remaining(Top, Named(mode)) # <<>>
  BY AnswerLines
<1>5. \A m \in Moves : <<m>> \o Due(At(Top), Named(mode)) # <<>>
  <2> SUFFICES ASSUME NEW m \in Moves PROVE <<m>> \o Due(At(Top), Named(mode)) # <<>>
    OBVIOUS
  <2>1. PICK S : S = {Answer("plain"), Answer(Named(mode)), Answer("ack"), m}
    OBVIOUS
  <2>2. Extra(At(Top), Named(mode)) \in Seq(S) /\ <<Answer("ack")>> \in Seq(S)
    BY <2>1, ExtraIn
  <2>3. PICK d : d = Due(At(Top), Named(mode))
    OBVIOUS
  <2>4. d \in Seq(S) /\ m \in S
    BY <2>1, <2>2, <2>3 DEF Due
  <2> QED  BY <2>3, <2>4
<1> QED  BY <1>1, <1>2, <1>3, <1>4, <1>5 DEF LineOK

\* Every step without a fault keeps driver and mouse in agreement.
LEMMA NextAgrees == MouseInv /\ AgreeInv /\ [Next]_vars => AgreeInv'
<1> SUFFICES ASSUME MouseInv, AgreeInv, [Next]_vars, faults' = 0 PROVE AgreeInv'
  BY DEF AgreeInv
<1>1. faults = 0
  <2>1. faults \in Nat
    BY MouseAssumption DEF MouseInv, TypeOK
  <2>2. faults' = faults \/ faults' = faults + 1
    BY DEF Next, Gate, deliver, writeByte, awaitByte, timeOut, setPacketLength, dispatchOtherStream,
           setCommandByte, sendMovement, loseByte, reconnect, installInterruptAction, stop, vars
  <2> QED  BY <2>1, <2>2
<1>2. /\ BufferOK /\ packetBuffer \in Seq(Byte) /\ stack \in Seq(GoodFrame) /\ mode \in {0, 3, 4}
      /\ ScriptsOK(stack, attached, line, next, mode, rates, packetLength, enabled)
  BY <1>1 DEF AgreeInv, MouseInv, TypeOK
<1>3. BufferOK' /\ ScriptsOK(stack, attached, line, next, mode, rates, packetLength, enabled)' => AgreeInv'
  BY DEF AgreeInv
<1>4. packetBuffer' = packetBuffer => BufferOK'
  BY <1>2 DEF BufferOK
<1>5. Depth > 0 <=> stack # <<>>
  BY <1>2 DEF Depth
<1>6. CASE deliver
  <2>1. stack = <<>> /\ line # <<>> /\ line' = Tail(line) /\ dispatchDriverInterrupt(Head(line), <<>>)
        /\ UNCHANGED <<mode, enabled, rates, next, attached>>
    BY <1>6 DEF deliver, mouse
  <2>2. PICK m \in Moves : line = <<m>>
    BY <1>2, <2>1 DEF ScriptsOK, IdleOK
  <2>3. Head(line) = m /\ line' = <<>>
    BY <2>1, <2>2
  <2>4. /\ packetLength' = packetLength /\ BufferOK'
        /\ \/ stack' = <<>>
           \/ stack' = Append(<<>>, Script("disable", 1, "id0")) /\ attached = "started"
    BY <1>2, <2>1, <2>3, Dispatched
  <2>5. ScriptsOK(<<>>, attached, <<>>, next, mode, rates, packetLength, enabled)
    BY <1>2, <2>1 DEF ScriptsOK, IdleOK
  <2>6. CASE stack' = <<>>
    BY <1>3, <2>1, <2>3, <2>4, <2>5, <2>6
  <2>7. CASE stack' = Append(<<>>, Script("disable", 1, "id0")) /\ attached = "started"
    <3>1. <<>> \in Seq(GoodFrame)
      OBVIOUS
    <3>2. ScriptsOK(stack', "started", <<>>, next, mode, rates, packetLength, enabled)
      BY <2>5, <2>7, <3>1, ResetStarts
    <3> QED  BY <1>3, <2>1, <2>3, <2>4, <2>7, <3>2
  <2> QED  BY <2>4, <2>6, <2>7
<1>7. CASE writeByte
  <2>1. packetBuffer' = packetBuffer
    BY <1>7 DEF writeByte, driver
  <2> QED  BY <1>1, <1>3, <1>4, <1>7, <2>1, WriteKeepsAgreement
<1>8. CASE awaitByte
  BY <1>1, <1>3, <1>8, ReadKeepsAgreement
<1>9. ~timeOut
  BY <1>1, NoTimeOut
<1>10. CASE setPacketLength
  <2>1. /\ Depth > 0 /\ Top.req = "identified" /\ stack' = GoOn(Top.type) /\ packetBuffer' = <<>>
        /\ packetLength' = IF Top.type = "id0" THEN kPacketLengthStandard ELSE kPacketLengthIntellimouse
        /\ UNCHANGED <<mode, enabled, rates, next, line, attached>>
    BY <1>10 DEF setPacketLength, mouse
  <2>2. /\ Top \in GoodFrame /\ LineOK(Top, line, next, Named(mode))
        /\ ModeOK(Top, attached, mode, rates, packetLength, enabled)
    BY <1>1, <2>1, TopOK
  <2>3. BufferOK'
    BY <2>1 DEF BufferOK
  <2>4. packetLength' = Length(mode)
    BY <1>2, <2>1, <2>2 DEF ModeOK, Named, Length
  <2>5. PICK g : g = Script("restore", 1, Top.type)
    OBVIOUS
  <2>6. "restore" \in Steps /\ "restore" \in Settled /\ "identified" \notin RequestName
        /\ "identified" \in Settled
    BY RequestTable DEF Steps, Settled
  <2>7. Top.type \in Type
    BY <2>2 DEF GoodFrame, Frame
  <2>8. g \in GoodFrame /\ g.req = "restore"
    BY <2>5, <2>6, <2>7, StartGood DEF Script
  <2>9. LineOK(g, line, next, Named(mode))
    <3>1. ~Reading(Top) /\ ~Waiting(Top)
      BY <2>1, <2>6 DEF Reading, Waiting
    <3>2. \/ line = <<>> /\ next = 1
          \/ \E m \in Moves : m.kind = "sync" /\ line = <<m>>
      BY <2>1, <2>2, <2>6, <3>1 DEF LineOK, InTheWay
    <3> QED  BY <2>5, <2>6, <2>7, <3>2, FreshLine
  <2>10. ModeOK(g, attached, mode, rates, packetLength', enabled)
    BY <2>1, <2>2, <2>4, <2>8 DEF ModeOK, StartOK
  <2>11. stack' = With(g)
    BY <2>1, <2>5 DEF GoOn, Successor
  <2>12. ScriptsOK(With(g), attached, line, next, mode, rates, packetLength', enabled)
    BY <1>1, <2>1, <2>8, <2>9, <2>10, WithOK DEF Stopping
  <2> QED  BY <1>3, <2>1, <2>3, <2>11, <2>12
<1>11. ASSUME AtCommandByte
       PROVE  /\ Parked(Top) /\ Top.req \notin RequestName /\ Depth > 0
              /\ Top = stack[Len(stack)]
              /\ LineOK(Top, line, next, Named(mode))
              /\ ModeOK(Top, attached, mode, rates, packetLength, enabled)
              /\ line = <<>> \/ \E m \in Moves : line = <<m>>
  <2>1. Depth > 0 /\ Top.req \in {"commandByte", "stopCommandByte"}
    BY <1>11 DEF AtCommandByte
  <2>2. Top.req \notin RequestName
    BY <2>1, RequestTable
  <2>3. /\ LineOK(Top, line, next, Named(mode)) /\ Top = stack[Len(stack)]
        /\ ModeOK(Top, attached, mode, rates, packetLength, enabled)
    BY <1>1, <2>1, TopOK
  <2>4. Parked(Top)
    BY <2>1, <2>2, <2>3 DEF LineOK, Parked, Waiting
  <2> QED  BY <2>1, <2>2, <2>3, <2>4, ParkedFree
<1>12. CASE dispatchOtherStream
  <2>1. AtCommandByte /\ line # <<>> /\ line' = Tail(line) /\ dispatchDriverInterrupt(Head(line), stack)
        /\ UNCHANGED <<mode, enabled, rates, next, attached>>
    BY <1>12 DEF dispatchOtherStream, mouse
  <2>2. PICK m \in Moves : line = <<m>>
    BY <1>11, <2>1
  <2>3. Head(line) = m /\ line' = <<>>
    BY <2>1, <2>2
  <2>4. /\ packetLength' = packetLength /\ BufferOK'
        /\ \/ stack' = stack
           \/ stack' = Append(stack, Script("disable", 1, "id0")) /\ attached = "started"
    BY <1>2, <2>1, <2>3, Dispatched
  <2>5. Top.req \notin Settled
    BY <2>1 DEF AtCommandByte, Settled
  <2>6. LineOK(Top, <<>>, next, Named(mode))
    BY <1>11, <2>1, <2>5, ParkedFree
  <2>7. stack # <<>>
    BY <1>5, <1>11, <2>1
  <2>8. ScriptsOK(stack, attached, <<>>, next, mode, rates, packetLength, enabled)
    BY <1>2, <1>11, <2>1, <2>6, <2>7 DEF ScriptsOK
  <2>9. CASE stack' = stack
    BY <1>3, <2>1, <2>3, <2>4, <2>8, <2>9
  <2>10. CASE stack' = Append(stack, Script("disable", 1, "id0")) /\ attached = "started"
    <3>1. ScriptsOK(stack', "started", <<>>, next, mode, rates, packetLength, enabled)
      BY <1>2, <1>11, <2>1, <2>8, <2>10, ResetStarts
    <3> QED  BY <1>3, <2>1, <2>3, <2>4, <2>10, <3>1
  <2> QED  BY <2>4, <2>9, <2>10
<1>13. CASE setCommandByte
  <2>1. AtCommandByte /\ stack' = GoOn(Top.type) /\ BufferOK'
        /\ attached' = (IF Top.req = "stopCommandByte" THEN "stopped" ELSE attached)
        /\ UNCHANGED <<mode, enabled, rates, next, line, packetLength>>
    BY <1>4, <1>13 DEF setCommandByte, mouse, driver
  <2>2. CASE Top.req = "stopCommandByte"
    <3>1. PICK o : o = SubSeq(stack, 1, Len(stack) - 1)
      OBVIOUS
    <3>2. stack' = o /\ attached' = "stopped"
      BY <2>1, <2>2, <3>1 DEF GoOn, Outer, Depth
    <3>3. stack # <<>>
      BY <1>5, <1>11, <2>1
    <3>4. o = <<>>
      <4>1. o # <<>> => stack[Len(stack)].req \notin Stopping
        BY <1>2, <3>1, <3>3, EndFrame DEF ScriptsOK
      <4> QED  BY <1>11, <2>1, <2>2, <4>1 DEF Stopping
    <3>5. mode = Capability /\ packetLength = Length(mode)
      BY <1>11, <2>1, <2>2 DEF ModeOK, StartOK
    <3>6. IdleOK("stopped", line, mode, packetLength, enabled)
      BY <1>11, <2>1, <3>5 DEF IdleOK
    <3>7. FramesOK(<<>>)
      BY DEF FramesOK
    <3>8. ScriptsOK(<<>>, "stopped", line, next, mode, rates, packetLength, enabled)
      BY <3>6, <3>7 DEF ScriptsOK
    <3> QED  BY <1>3, <2>1, <3>2, <3>4, <3>8
  <2>3. CASE Top.req # "stopCommandByte"
    <3>1. Top.req = "commandByte" /\ attached' = attached
      BY <2>1, <2>3 DEF AtCommandByte
    <3>2. PICK g : g = Script("enable", 1, Top.type)
      OBVIOUS
    <3>3. stack' = With(g)
      BY <2>1, <3>1, <3>2 DEF GoOn, Successor
    <3>4. Top.type \in Type
      BY <1>1, <1>11, <2>1, TopOK DEF GoodFrame, Frame
    <3>5. "enable" \in Steps /\ "enable" \notin Settled
      BY RequestTable DEF Steps, Settled
    <3>6. g \in GoodFrame /\ g.req = "enable" /\ g.sent = FALSE
      BY <3>2, <3>4, <3>5, StartGood DEF Script
    <3>7. LineOK(g, line, next, Named(mode))
      BY <1>11, <2>1, <3>2, <3>4, <3>5, FreshLine
    <3>8. ModeOK(g, attached, mode, rates, packetLength, enabled)
      BY <1>11, <2>1, <3>1, <3>6 DEF ModeOK, StartOK
    <3>9. ScriptsOK(With(g), attached, line, next, mode, rates, packetLength, enabled)
      BY <1>1, <1>11, <2>1, <3>6, <3>7, <3>8, WithOK DEF Stopping
    <3> QED  BY <1>3, <2>1, <3>1, <3>3, <3>9
  <2> QED  BY <2>2, <2>3
<1>14. ASSUME NEW kind \in Movement \cup {"sync"}, sendMovement(kind)
       PROVE  AgreeInv'
  <2>1. /\ line = <<>> /\ (kind = "sync" \/ next > 1)
        /\ UNCHANGED <<mode, enabled, rates, packetBuffer, packetLength, attached, stack>>
    BY <1>14 DEF sendMovement, driver
  <2>2. PICK m : m = [kind |-> kind, pos |-> next] /\ line' = <<m>>
    BY <1>14 DEF sendMovement
  <2>3. m \in Moves /\ m.kind = kind
    BY <2>2, MouseAssumption DEF Moves, Byte, Kind, MouseInv, TypeOK
  <2>4. next = 1 => kind = "sync"
    BY <2>1
  <2>5. CASE stack = <<>>
    <3>1. IdleOK(attached, line', mode, packetLength, enabled)
      BY <1>2, <2>2, <2>3, <2>5 DEF ScriptsOK, IdleOK
    <3>2. ScriptsOK(stack, attached, line', next', mode, rates, packetLength, enabled)
      BY <1>2, <2>5, <3>1 DEF ScriptsOK
    <3> QED  BY <1>3, <1>4, <2>1, <3>2
  <2>6. CASE stack # <<>>
    <3>1. LineOK(Top, line, next, Named(mode)) /\ Top = stack[Len(stack)]
      BY <1>1, <1>5, <2>6, TopOK
    <3>2. Due(At(Top), Named(mode)) # <<>> /\ Remaining(Top, Named(mode)) # <<>>
      BY AnswerLines
    <3>3. \A x \in Moves : <<x>> \o Due(At(Top), Named(mode)) # <<>>
      <4> SUFFICES ASSUME NEW x \in Moves PROVE <<x>> \o Due(At(Top), Named(mode)) # <<>>
        OBVIOUS
      <4>1. PICK S : S = {Answer("plain"), Answer(Named(mode)), Answer("ack"), x}
        OBVIOUS
      <4>2. Extra(At(Top), Named(mode)) \in Seq(S) /\ <<Answer("ack")>> \in Seq(S)
        BY <4>1, ExtraIn
      <4>3. PICK d : d = Due(At(Top), Named(mode))
        OBVIOUS
      <4>4. d \in Seq(S) /\ x \in S
        BY <4>1, <4>2, <4>3 DEF Due
      <4> QED  BY <4>3, <4>4
    <3>4. ~Waiting(Top) /\ ~Reading(Top)
      BY <2>1, <3>1, <3>2, <3>3 DEF LineOK
    <3>5. Top.req \in Settled => next = 1
      BY <2>1, <3>1, <3>4 DEF LineOK
    <3>6. InTheWay(Top, m)
      BY <2>3, <2>4, <3>5 DEF InTheWay
    <3>7. LineOK(Top, line', next', Named(mode))
      BY <2>2, <2>3, <3>1, <3>4, <3>6 DEF LineOK
    <3>8. ScriptsOK(stack, attached, line', next', mode, rates, packetLength, enabled)
      BY <1>2, <2>6, <3>1, <3>7 DEF ScriptsOK
    <3> QED  BY <1>3, <1>4, <2>1, <3>8
  <2> QED  BY <2>5, <2>6
<1>15. ~loseByte /\ ~reconnect
  BY <1>1 DEF loseByte, reconnect
<1>16. CASE installInterruptAction
  <2>1. /\ attached = "starting" /\ stack = <<>> /\ attached' = "started"
        /\ UNCHANGED <<mode, enabled, rates, next, line, packetBuffer, packetLength, stack>>
    BY <1>16 DEF installInterruptAction, mouse, driver
  <2>2. ScriptsOK(stack, "started", line, next, mode, rates, packetLength, enabled)
    BY <1>2, <2>1 DEF ScriptsOK, IdleOK
  <2> QED  BY <1>3, <1>4, <2>1, <2>2
<1>17. CASE stop
  <2>1. PICK g : g = Script("stop", 1, "id0")
    OBVIOUS
  <2>2. /\ attached = "started" /\ stack = <<>> /\ stack' = <<g>>
        /\ UNCHANGED <<mode, enabled, rates, next, line, packetBuffer, packetLength, attached>>
    BY <1>17, <2>1 DEF stop, mouse, driver
  <2>3. "stop" \in Steps /\ "id0" \in Type /\ "stop" \notin Settled
    BY RequestTable DEF Steps, Type, Settled
  <2>4. IdleOK(attached, line, mode, packetLength, enabled)
    BY <1>2, <2>2 DEF ScriptsOK
  <2>5. LineOK(g, line, next, Named(mode))
    BY <2>1, <2>3, <2>4, FreshLine DEF IdleOK
  <2>6. g.req = "stop"
    BY <2>1 DEF Script
  <2>7. ModeOK(g, attached, mode, rates, packetLength, enabled)
    BY <2>2, <2>4, <2>6 DEF ModeOK, IdleOK
  <2>8. PICK s : s = <<g>>
    OBVIOUS
  <2>9. Len(s) = 1 /\ s # <<>> /\ s[Len(s)] = g /\ FramesOK(s)
    BY <2>8 DEF FramesOK
  <2>10. ScriptsOK(s, attached, line, next, mode, rates, packetLength, enabled)
    BY <2>2, <2>5, <2>7, <2>9 DEF ScriptsOK
  <2> QED  BY <1>3, <1>4, <2>2, <2>8, <2>10
<1>18. CASE UNCHANGED vars
  BY <1>2, <1>3, <1>4, <1>18 DEF vars
<1> QED
  BY <1>6, <1>7, <1>8, <1>9, <1>10, <1>12, <1>13, <1>14, <1>15, <1>16, <1>17, <1>18 DEF Next, Gate

\* As long as nothing gets lost and the mouse is not replaced, a driver that is not in
\* the middle of a reset has the packet length of the mouse, and the mouse reports
\* movements: for every mouse, every limit on resets, and however movements come in
\* between the bytes of start's and of the resets' scripts, resets started in the middle
\* of a reset included.  No answer is taken for another one and no read times out.
THEOREM PacketLengthAgrees == Spec => []ModeAgrees
<1>1. MouseInv /\ AgreeInv => ModeAgrees
  BY DEF AgreeInv, ModeAgrees, Running, ScriptsOK, IdleOK, Length, ModeLength
<1> QED
  BY <1>1, InitGood, NextGood, InitAgrees, NextAgrees, PTL DEF Spec

-----------------------------------------------------------------------------
(* Resets nest no deeper than the limit.                                   *)

\* No byte of a movement can come in the way of script f any more.
Calm(f, l, en) ==
  /\ f.held = <<>>
  /\ ~Reading(f) /\ ~Waiting(f) => l = <<>>
  /\ Waiting(f) => l # <<>> /\ Head(l).kind = "ack"
  /\ en => f.req = "enable" /\ f.sent

\* The packet buffer while the reset f is under way: it was empty when the reset began,
\* or when the movement of which the mouse was still to be stopped came in, and only one
\* byte came in since.
BufferShort(f, l, en, buffer) ==
  /\ Len(buffer) <= 1
  /\ f.req \in {"disable", "restore", "commandByte", "enable"} => buffer = <<>>
  /\ f.req \notin {"disable", "defaults"} => Calm(f, l, en)
  /\ f.req \in {"disable", "defaults"} /\ f.sent => ~en
  /\ f.req = "defaults" => buffer = <<>> \/ Calm(f, l, en)

\* Every script that is under way but the one of stop has been counted.
StopFirst(s) == s # <<>> /\ s[1].req \in Stopping
Counted(s, c) == Len(s) <= IF StopFirst(s) THEN c + 1 ELSE c

NestOK(s, a, l, en, buffer, c) ==
  /\ a = "stopped" => s = <<>>
  /\ a = "started" => /\ Counted(s, c)
                      /\ \A k \in 1..Len(s) - 1 : s[k].req # "commandByte"
                      /\ s # <<>> /\ s[Len(s)].req \notin Stopping
                           => BufferShort(s[Len(s)], l, en, buffer)

\* The inductive invariant, on top of MouseInv and AgreeInv.
NestInv == faults = 0 => NestOK(stack, attached, line, enabled, packetBuffer, mouseResetCount)

\* The stack when a script is replaced, started and ended.
LEMMA StackWith ==
  ASSUME MouseInv, Depth > 0, NEW g \in GoodFrame, NEW t, t = With(g)
  PROVE  /\ Len(t) = Len(stack) /\ Len(stack) \in Nat /\ t # <<>> /\ t[Len(t)] = g
         /\ \A k \in 1..Len(stack) - 1 : t[k] = stack[k]
         /\ stack # <<>> /\ stack[Len(stack)] = Top
<1>1. stack \in Seq(GoodFrame) /\ stack # <<>> /\ Top = stack[Len(stack)]
  BY DEF MouseInv, Depth, Top
<1>0. PICK n : n = Len(stack) - 1
  OBVIOUS
<1>2. n \in Nat /\ n + 1 = Len(stack) /\ n = Len(stack) - 1
  <2>1. Len(stack) \in Nat /\ Len(stack) # 0
    BY <1>1, EmptySeq
  <2> QED  BY <1>0, <2>1
<1>3. PICK o : o = SubSeq(stack, 1, n)
  OBVIOUS
<1>4. o \in Seq(GoodFrame) /\ Len(o) = n /\ \A k \in 1..n : o[k] = stack[k]
  BY <1>1, <1>2, <1>3
<1>5. t = Append(o, g)
  BY <1>2, <1>3 DEF With, Outer, Depth
<1>6. Len(t) = n + 1 /\ t[n + 1] = g /\ t # <<>> /\ \A k \in 1..n : t[k] = o[k]
  BY <1>4, <1>5
<1> QED  BY <1>1, <1>2, <1>4, <1>6

LEMMA StackPush ==
  ASSUME NEW s \in Seq(GoodFrame), NEW g \in GoodFrame, NEW t, t = Append(s, g)
  PROVE  /\ Len(t) = Len(s) + 1 /\ Len(s) \in Nat /\ t # <<>> /\ t[Len(t)] = g
         /\ \A k \in 1..Len(s) : t[k] = s[k]
         /\ s # <<>> => 1 \in 1..Len(s)
<1>1. Len(t) = Len(s) + 1 /\ Len(s) \in Nat /\ t[Len(s) + 1] = g /\ \A k \in 1..Len(s) : t[k] = s[k]
  OBVIOUS
<1>2. s # <<>> => Len(s) # 0
  BY EmptySeq
<1>3. t # <<>>
  OBVIOUS
<1> QED  BY <1>1, <1>2, <1>3

\* A script goes on in its place.
LEMMA WithNest ==
  ASSUME MouseInv, faults = 0, NestInv, Depth > 0, NEW g \in GoodFrame,
         g.req \in Stopping <=> Top.req \in Stopping, NEW l, NEW en, NEW buffer,
         attached = "started" /\ g.req \notin Stopping => BufferShort(g, l, en, buffer)
  PROVE  NestOK(With(g), attached, l, en, buffer, mouseResetCount)
<1>1. PICK t : t = With(g)
  OBVIOUS
<1>2. /\ Len(t) = Len(stack) /\ Len(stack) \in Nat /\ t # <<>> /\ t[Len(t)] = g
      /\ \A k \in 1..Len(stack) - 1 : t[k] = stack[k]
      /\ stack # <<>> /\ stack[Len(stack)] = Top
  BY <1>1, StackWith
<1>3. NestOK(stack, attached, line, enabled, packetBuffer, mouseResetCount)
  BY DEF NestInv
<1>4. attached # "stopped"
  BY <1>2, <1>3 DEF NestOK
<1>5. StopFirst(t) <=> StopFirst(stack)
  <2>1. Len(stack) = 1 \/ 1 \in 1..Len(stack) - 1
    <3>1. stack \in Seq(GoodFrame)
      BY DEF MouseInv
    <3>2. Len(stack) # 0
      BY <1>2, <3>1, EmptySeq
    <3> QED  BY <1>2, <3>2
  <2>2. CASE Len(stack) = 1
    BY <1>2, <2>2 DEF StopFirst
  <2>3. CASE 1 \in 1..Len(stack) - 1
    BY <1>2, <2>3 DEF StopFirst
  <2> QED  BY <2>1, <2>2, <2>3
<1>6. attached = "started" => Counted(t, mouseResetCount)
  BY <1>2, <1>3, <1>5 DEF NestOK, Counted
<1>7. attached = "started" => \A k \in 1..Len(t) - 1 : t[k].req # "commandByte"
  BY <1>2, <1>3 DEF NestOK
<1> QED  BY <1>1, <1>2, <1>4, <1>6, <1>7 DEF NestOK

\* A reset starts.
LEMMA PushNest ==
  ASSUME NEW s \in Seq(GoodFrame), NEW c \in Nat, Counted(s, c),
         \A k \in 1..Len(s) : s[k].req # "commandByte", NEW l, NEW en
  PROVE  NestOK(Append(s, Script("disable", 1, "id0")), "started", l, en, <<>>, c + 1)
<1>1. PICK g : g = Script("disable", 1, "id0")
  OBVIOUS
<1>2. "disable" \in Steps /\ "id0" \in Type
  BY RequestTable DEF Steps, Type
<1>3. g \in GoodFrame /\ g.req = "disable" /\ g.sent = FALSE
  BY <1>1, <1>2, StartGood DEF Script
<1>4. PICK t : t = Append(s, g)
  OBVIOUS
<1>5. /\ Len(t) = Len(s) + 1 /\ Len(s) \in Nat /\ t # <<>> /\ t[Len(t)] = g
      /\ \A k \in 1..Len(s) : t[k] = s[k]
      /\ s # <<>> => 1 \in 1..Len(s)
  BY <1>3, <1>4, StackPush
<1>6. StopFirst(t) <=> StopFirst(s)
  <2>1. CASE s = <<>>
    <3>1. Len(t) = 1
      BY <1>4, <2>1
    <3> QED  BY <1>3, <1>5, <2>1, <3>1 DEF StopFirst, Stopping
  <2>2. CASE s # <<>>
    BY <1>5, <2>2 DEF StopFirst
  <2> QED  BY <2>1, <2>2
<1>7. Counted(t, c + 1)
  <2>1. CASE StopFirst(s)
    <3>1. Len(s) <= c + 1
      BY <2>1 DEF Counted
    <3>2. Len(t) <= (c + 1) + 1
      BY <1>5, <3>1
    <3> QED  BY <1>6, <2>1, <3>2 DEF Counted
  <2>2. CASE ~StopFirst(s)
    <3>1. Len(s) <= c
      BY <2>2 DEF Counted
    <3>2. Len(t) <= c + 1
      BY <1>5, <3>1
    <3> QED  BY <1>6, <2>2, <3>2 DEF Counted
  <2> QED  BY <2>1, <2>2
<1>8. \A k \in 1..Len(t) - 1 : t[k].req # "commandByte"
  <2>1. Len(t) - 1 = Len(s)
    BY <1>5
  <2> QED  BY <1>5, <2>1
<1>9. BufferShort(g, l, en, <<>>)
  <2>1. Len(<<>>) <= 1
    OBVIOUS
  <2> QED  BY <1>3, <2>1 DEF BufferShort
<1> QED  BY <1>1, <1>4, <1>5, <1>7, <1>8, <1>9 DEF NestOK

\* What the byte of a movement does: it starts a reset, is ignored, is kept, or completes
\* the packet.
LEMMA MoveTaken ==
  ASSUME MouseInv, BufferOK, NEW m \in Moves, NEW frames, attached = "started",
         dispatchDriverInterrupt(m, frames)
  PROVE  \/ /\ stack' = Append(frames, Script("disable", 1, "id0"))
            /\ packetBuffer = <<>> /\ packetBuffer' = <<>> /\ m.kind # "sync"
            /\ mouseResetCount' = mouseResetCount + 1
         \/ /\ stack' = frames /\ mouseResetCount' = mouseResetCount
            /\ packetBuffer = <<>> => Len(packetBuffer') <= 1
         \/ /\ stack' = frames /\ packetBuffer # <<>> /\ packetBuffer' = <<>> /\ mouseResetCount' = 0
            /\ ~(Len(packetBuffer) <= 1)
<1>1. m \in Byte /\ m.kind \in {"sync", "plain"}
  BY DEF Moves
<1>2. CASE packetBuffer = <<>> /\ Unsynchronised(m)
  <2>1. Len(<<>>) <= 1
    OBVIOUS
  <2>2. packetBuffer' = <<>> /\ m.kind # "sync"
    BY <1>2 DEF dispatchDriverInterrupt, interruptOccurred, Unsynchronised
  <2> QED  BY <1>2, <2>1, <2>2 DEF dispatchDriverInterrupt, interruptOccurred
<1>3. CASE ~(packetBuffer = <<>> /\ Unsynchronised(m))
  <2>1. PICK buffer : buffer = Append(packetBuffer, m)
    OBVIOUS
  <2>2. packetBuffer \in Seq(Byte) /\ packetLength \in {3, 4}
    BY DEF MouseInv, TypeOK, kPacketLengthStandard, kPacketLengthIntellimouse
  <2>3. buffer \in Seq(Byte) /\ Len(buffer) = Len(packetBuffer) + 1 /\ Len(packetBuffer) \in Nat
    BY <1>1, <2>1, <2>2
  <2>4. \A k \in 1..Len(buffer) : buffer[k] \in Moves
    BY <2>1, <2>2, <2>3 DEF BufferOK
  <2>5. Len(buffer) = 2 => buffer[1].kind # "AA"
    BY <2>3, <2>4 DEF Moves
  <2>6. stack' = frames
    BY <1>3, <2>1, <2>5 DEF dispatchDriverInterrupt, interruptOccurred
  <2>7. CASE Len(buffer) = packetLength
    <3>1. packetBuffer' = <<>> /\ mouseResetCount' = 0
      BY <1>3, <2>1, <2>7 DEF dispatchDriverInterrupt, interruptOccurred
    <3>2. ~(Len(packetBuffer) <= 1)
      BY <2>2, <2>3, <2>7
    <3>3. packetBuffer # <<>>
      <4>1. Len(<<>>) <= 1
        OBVIOUS
      <4> QED  BY <3>2, <4>1
    <3> QED  BY <2>6, <3>1, <3>2, <3>3
  <2>8. CASE Len(buffer) # packetLength
    <3>1. packetBuffer' = buffer /\ mouseResetCount' = mouseResetCount
      BY <1>3, <2>1, <2>8 DEF dispatchDriverInterrupt, interruptOccurred
    <3>2. packetBuffer = <<>> => Len(buffer) <= 1
      <4>1. packetBuffer = <<>> => Len(packetBuffer) = 0
        OBVIOUS
      <4> QED  BY <2>3, <4>1
    <3> QED  BY <2>6, <3>1, <3>2
  <2> QED  BY <2>7, <2>8
<1> QED  BY <1>2, <1>3

\* A byte that meets no reset.
LEMMA FirstNest ==
  ASSUME MouseInv, BufferOK, NEW m \in Moves, NEW frames \in Seq(GoodFrame), attached = "started",
         frames = <<>> \/ (Len(frames) = 1 /\ frames[1].req \in Stopping),
         dispatchDriverInterrupt(m, frames), NEW l, NEW en
  PROVE  NestOK(stack', "started", l, en, packetBuffer', mouseResetCount')
<1>1. mouseResetCount \in Nat
  BY MouseAssumption DEF MouseInv, TypeOK
<1>2. \A c \in Nat : Counted(frames, c)
  <2> SUFFICES ASSUME NEW c \in Nat PROVE Counted(frames, c)
    OBVIOUS
  <2>1. CASE frames = <<>>
    <3>1. Len(frames) <= c
      BY <2>1
    <3> QED  BY <2>1, <3>1 DEF Counted, StopFirst
  <2>2. CASE Len(frames) = 1 /\ frames[1].req \in Stopping
    <3>1. frames # <<>>
      <4> SUFFICES ASSUME frames = <<>> PROVE FALSE
        OBVIOUS
      <4>1. Len(frames) = 0
        OBVIOUS
      <4>2. Len(frames) = 1
        BY <2>2, Zenon
      <4> QED  BY <4>1, <4>2
    <3>2. 1 <= c + 1
      OBVIOUS
    <3>3. StopFirst(frames)
      BY <2>2, <3>1 DEF StopFirst
    <3>4. Len(frames) = 1
      BY <2>2, Zenon
    <3> QED  BY <3>2, <3>3, <3>4, Zenon DEF Counted
  <2> QED  BY <2>1, <2>2
<1>3. frames # <<>> => frames[Len(frames)].req \in Stopping
  OBVIOUS
<1>4. \A k \in 1..Len(frames) : frames[k].req # "commandByte"
  <2>1. CASE frames = <<>>
    BY <2>1
  <2>2. CASE Len(frames) = 1 /\ frames[1].req \in Stopping
    BY <2>2 DEF Stopping
  <2> QED  BY <2>1, <2>2
<1>5. \A k \in 1..Len(frames) - 1 : frames[k].req # "commandByte"
  BY <1>4
<1>6. ASSUME NEW c \in Nat PROVE NestOK(frames, "started", l, en, packetBuffer', c)
  BY <1>2, <1>3, <1>5 DEF NestOK
<1>7. CASE /\ stack' = Append(frames, Script("disable", 1, "id0")) /\ packetBuffer' = <<>>
           /\ mouseResetCount' = mouseResetCount + 1
  BY <1>1, <1>2, <1>4, <1>7, PushNest
<1>8. CASE stack' = frames /\ mouseResetCount' \in {mouseResetCount, 0}
  BY <1>1, <1>6, <1>8
<1> QED  BY <1>7, <1>8, MoveTaken

\* The innermost script ends and an outer one, if any, goes on.
LEMMA PopNest ==
  ASSUME MouseInv, faults = 0, AgreeInv, NestInv, Depth > 0, attached = "started", packetBuffer = <<>>,
         NEW en
  PROVE  NestOK(Outer, "started", <<>>, en, <<>>, mouseResetCount)
<1>1. PICK o : o = SubSeq(stack, 1, Len(stack) - 1)
  OBVIOUS
<1>2. stack \in Seq(GoodFrame) /\ stack # <<>> /\ FramesOK(stack)
  BY TopOK
<1>3. /\ o \in Seq(GoodFrame) /\ FramesOK(o) /\ Len(o) = Len(stack) - 1
      /\ o # <<>> => Parked(o[Len(o)])
  BY <1>1, <1>2, EndFrame
<1>4. Len(stack) \in Nat /\ Len(o) \in Nat /\ mouseResetCount \in Nat
  BY <1>2, <1>3, MouseAssumption DEF MouseInv, TypeOK
<1>5. \A k \in 1..Len(o) : o[k] = stack[k] /\ k \in 1..Len(stack) - 1
  <2>1. PICK n : n = Len(stack) - 1
    OBVIOUS
  <2>2. n \in Nat /\ n <= Len(stack)
    BY <1>3, <1>4, <2>1
  <2>3. \A k \in 1..n : SubSeq(stack, 1, n)[k] = stack[k]
    BY <1>2, <2>2
  <2> QED  BY <1>1, <1>3, <2>1, <2>3
<1>6. Counted(stack, mouseResetCount) /\ \A k \in 1..Len(stack) - 1 : stack[k].req # "commandByte"
  BY DEF NestInv, NestOK
<1>7. Counted(o, mouseResetCount)
  <2>1. CASE o = <<>>
    <3>1. Len(o) = 0 /\ ~StopFirst(o)
      BY <2>1 DEF StopFirst
    <3> QED  BY <1>4, <3>1 DEF Counted
  <2>2. CASE o # <<>>
    <3>1. 1 \in 1..Len(o)
      <4>1. Len(o) # 0
        BY <1>3, <2>2, EmptySeq
      <4> QED  BY <1>4, <4>1
    <3>2. StopFirst(o) <=> StopFirst(stack)
      BY <1>2, <1>5, <2>2, <3>1 DEF StopFirst
    <3> QED  BY <1>3, <1>4, <1>6, <3>2 DEF Counted
  <2> QED  BY <2>1, <2>2
<1>8. \A k \in 1..Len(o) : o[k].req # "commandByte"
  BY <1>5, <1>6
<1>9. ASSUME o # <<>>, o[Len(o)].req \notin Stopping
      PROVE  BufferShort(o[Len(o)], <<>>, en, <<>>)
  <2>1. Len(o) \in 1..Len(o)
    <3>1. Len(o) # 0
      BY <1>3, <1>9, EmptySeq
    <3> QED  BY <1>4, <3>1
  <2>2. o[Len(o)].req = "defaults" /\ ~o[Len(o)].sent
    BY <1>3, <1>8, <1>9, <2>1 DEF Parked, Stopping
  <2>3. Len(<<>>) <= 1
    OBVIOUS
  <2> QED  BY <2>2, <2>3 DEF BufferShort
<1>10. \A k \in 1..Len(o) - 1 : o[k].req # "commandByte"
  BY <1>4, <1>8
<1>11. Outer = o
  BY <1>1 DEF Outer, Depth
<1> QED  BY <1>7, <1>9, <1>10, <1>11 DEF NestOK

\* Where requests have something else to send than commands without an answer.
LEMMA ByteTable ==
  ASSUME NEW r \in RequestName, NEW p \in 1..4, p <= Len(RequestBytes[r])
  PROVE  /\ RequestBytes[r][p] \in {"E9", "F2"} => p = 1 /\ r \in {"info", "id", "idAgain"}
         /\ RequestBytes[r][p] = "read" => p # 1 /\ r \in {"info", "id", "idAgain"}
<1>1. r \in Single \cup Double \cup {"info", "id", "idAgain"}
  BY RequestKinds
<1>2. CASE r \in Single
  <2>1. Len(RequestBytes[r]) = 1 /\ RequestBytes[r][1] \notin {"E9", "F2", "read"}
    BY <1>2, RequestKinds
  <2>2. p = 1
    BY <2>1, Places, Zenon
  <2> QED  BY <2>1, <2>2
<1>3. CASE r \in Double
  <2>1. /\ Len(RequestBytes[r]) = 2 /\ RequestBytes[r][1] \notin {"E9", "F2", "read"}
        /\ RequestBytes[r][2] \notin {"E9", "F2", "read"}
    BY <1>3, RequestKinds
  <2>2. p \in {1, 2}
    BY <2>1, Places, Zenon
  <2> QED  BY <2>1, <2>2
<1>4. CASE r = "info"
  <2>1. RequestBytes[r][1] = "E9" /\ \A q \in 2..4 : RequestBytes[r][q] = "read"
    BY <1>4, RequestKinds
  <2>2. p = 1 \/ p \in 2..4
    BY Places
  <2> QED  BY <1>4, <2>1, <2>2
<1>5. CASE r \in {"id", "idAgain"}
  <2>1. Len(RequestBytes[r]) = 2 /\ RequestBytes[r][1] = "F2" /\ RequestBytes[r][2] = "read"
    BY <1>5, RequestKinds
  <2>2. p \in {1, 2}
    BY <2>1, Places, Zenon
  <2> QED  BY <1>5, <2>1, <2>2
<1> QED  BY <1>1, <1>2, <1>3, <1>4, <1>5

\* What awaitByte does while nothing is lost: it holds a movement, or goes on to the next
\* byte or the next request with nothing left on the line but data to be read.
LEMMA ReadResult ==
  ASSUME MouseInv, faults = 0, AgreeInv, awaitByte
  PROVE  \/ /\ Waiting(Top) /\ Top.held = <<>> /\ Head(line).kind # "ack"
            /\ \E m \in Moves : stack' = With([Top EXCEPT !.held = <<m>>])
            /\ UNCHANGED driver
         \/ \E frames :
              /\ IF Top.held # <<>> THEN dispatchDriverInterrupt(Top.held[1], frames)
                 ELSE stack' = frames /\ UNCHANGED driver
              /\ \/ line' = <<>> /\ \E t \in Type : frames = GoOn(t)
                 \/ LET g == Script(Top.req, Top.part + 1, Top.type)
                    IN  g \in GoodFrame /\ frames = With(g) /\ (Reading(g) \/ line' = <<>>)
<1>1. /\ AtRequest /\ Top.sent /\ line # <<>> /\ line' = Tail(line) /\ Depth > 0
  BY DEF awaitByte, AtRequest
<1>2. /\ Top \in GoodFrame /\ LineOK(Top, line, next, Named(mode)) /\ Top.req \in RequestName
      /\ CurrentByte = At(Top)
  BY <1>1, TopOK DEF AtRequest, CurrentByte, At
<1>3. /\ Top.part \in 1..4 /\ Top.part <= Len(RequestBytes[Top.req]) /\ Len(RequestBytes[Top.req]) \in 1..4
      /\ Top.type \in Type /\ Top.req \in Steps
  BY <1>2, RequestLengths DEF GoodFrame, Frame, Steps
<1>4. PICK g : g = Script(Top.req, Top.part + 1, Top.type)
  OBVIOUS
<1>5. g.req = Top.req /\ g.part = Top.part + 1
  BY <1>4 DEF Script
<1>6. Top.part # Len(RequestBytes[Top.req]) => g \in GoodFrame
  <2>1. \A p, n \in 1..4 : p <= n /\ p # n => p + 1 \in 1..4 /\ p + 1 <= n
    OBVIOUS
  <2> QED  BY <1>3, <1>4, <2>1, ScriptGood
<1>7. PICK last : last = (Top.part = Len(RequestBytes[Top.req]))
  OBVIOUS
<1>8. ASSUME Top.req \in {"info", "id", "idAgain"}, Top.part # Len(RequestBytes[Top.req])
      PROVE  Reading(g)
  <2>1. CASE Top.req = "info"
    <3>1. Len(RequestBytes["info"]) = 4 /\ \A p \in 2..4 : RequestBytes["info"][p] = "read"
      BY RequestKinds
    <3>2. \A p \in 1..4 : p # 4 => p + 1 \in 2..4
      OBVIOUS
    <3>3. Top.part + 1 \in 2..4
      BY <1>3, <1>8, <2>1, <3>1, <3>2
    <3>4. RequestBytes[g.req][g.part] = "read"
      BY <1>5, <2>1, <3>1, <3>3
    <3> QED  BY <1>2, <1>5, <3>4 DEF Reading, At
  <2>2. CASE Top.req \in {"id", "idAgain"}
    <3>1. Len(RequestBytes[Top.req]) = 2 /\ RequestBytes[Top.req][2] = "read"
      BY <2>2, RequestKinds
    <3>2. Top.part \in {1, 2}
      BY <1>3, <3>1, Places, Zenon
    <3>3. g.part = 2
      BY <1>5, <1>8, <3>1, <3>2
    <3> QED  BY <1>2, <1>5, <3>1, <3>3 DEF Reading, At
  <2> QED  BY <1>8, <2>1, <2>2
<1>9. CASE Reading(Top)
  <2>1. CurrentByte = "read" /\ line = Remaining(Top, Named(mode)) /\ Top.held = <<>>
    BY <1>2, <1>9 DEF LineOK, Reading, Waiting
  <2>2. returnByte(Head(line), <<>>)
    BY <2>1 DEF awaitByte
  <2>3. UNCHANGED driver
    BY <2>2 DEF returnByte
  <2>4. Top.req \in {"info", "id", "idAgain"}
    BY <1>2, <1>3, <1>9, ByteTable DEF Reading, At
  <2>5. CASE Top.part = Len(RequestBytes[Top.req])
    <3>1. stack' = GoOn(TypeFound(Head(line).kind))
      BY <2>1, <2>2, <2>5 DEF returnByte
    <3>2. TypeFound(Head(line).kind) \in Type
      BY <1>3 DEF TypeFound, Type
    <3>3. PICK b : line = <<b>>
      <4>1. CASE Top.req = "info"
        <5>1. Top.part = 4
          BY <2>5, <4>1, RequestKinds
        <5> QED  BY <2>1, <4>1, <5>1 DEF Remaining
      <4>2. CASE Top.req \in {"id", "idAgain"}
        BY <2>1, <4>2 DEF Remaining
      <4> QED  BY <2>4, <4>1, <4>2
    <3>4. line' = <<>>
      BY <1>1, <3>3
    <3> QED  BY <2>1, <2>3, <3>1, <3>2, <3>4
  <2>6. CASE Top.part # Len(RequestBytes[Top.req])
    <3>1. stack' = With(g)
      BY <1>4, <2>1, <2>2, <2>6 DEF returnByte
    <3> QED  BY <1>4, <1>6, <1>8, <2>1, <2>3, <2>4, <2>6, <3>1
  <2> QED  BY <2>5, <2>6
<1>10. CASE Waiting(Top) /\ line = Due(At(Top), Named(mode))
  <2>1. Head(line) = Answer("ack") /\ line' = Extra(At(Top), Named(mode)) /\ Head(line).kind = "ack"
    BY <1>1, <1>10, AnswerLines DEF Answer
  <2>2. CurrentByte # "read" /\ returnByte(Head(line), Top.held)
    BY <1>2, <1>10, <2>1 DEF awaitByte, Waiting
  <2>3. PICK frames : frames = IF Top.part = Len(RequestBytes[Top.req]) THEN GoOn(TypeFound("ack")) ELSE With(g)
    OBVIOUS
  <2>4. IF Top.held # <<>> THEN dispatchDriverInterrupt(Top.held[1], frames)
        ELSE stack' = frames /\ UNCHANGED driver
    BY <1>4, <2>1, <2>2, <2>3 DEF returnByte
  <2>5. At(Top) \in {"E9", "F2"} => Top.req \in {"info", "id", "idAgain"} /\ Top.part = 1
    BY <1>2, <1>3, ByteTable DEF At
  <2>6. At(Top) \notin {"E9", "F2"} => line' = <<>>
    BY <2>1 DEF Extra
  <2>7. CASE Top.part = Len(RequestBytes[Top.req])
    <3>1. TypeFound("ack") \in Type
      BY <1>3 DEF TypeFound, Type
    <3>2. At(Top) \notin {"E9", "F2"}
      <4>1. Top.req \in {"info", "id", "idAgain"} => Len(RequestBytes[Top.req]) \in {2, 4}
        BY RequestKinds
      <4> QED  BY <2>5, <2>7, <4>1
    <3>3. line' = <<>> /\ \E t \in Type : frames = GoOn(t)
      BY <2>3, <2>6, <2>7, <3>1, <3>2
    <3> QED  BY <2>4, <3>3
  <2>8. CASE Top.part # Len(RequestBytes[Top.req])
    <3>1. g \in GoodFrame /\ frames = With(g) /\ (Reading(g) \/ line' = <<>>)
      BY <1>6, <1>8, <2>3, <2>5, <2>6, <2>8
    <3> QED  BY <1>4, <2>4, <3>1
  <2> QED  BY <2>7, <2>8
<1>11. CASE Waiting(Top) /\ Top.held = <<>> /\ \E m \in Moves : InTheWay(Top, m) /\ line = <<m>> \o Due(At(Top), Named(mode))
  <2>1. PICK m \in Moves : InTheWay(Top, m) /\ line = <<m>> \o Due(At(Top), Named(mode))
    BY <1>11
  <2>2. Head(line) = m
    <3>1. PICK d : d = Due(At(Top), Named(mode))
      OBVIOUS
    <3>2. PICK S : S = {Answer("plain"), Answer(Named(mode)), Answer("ack"), m}
      OBVIOUS
    <3>3. d \in Seq(S) /\ m \in S
      <4>1. Extra(At(Top), Named(mode)) \in Seq(S) /\ <<Answer("ack")>> \in Seq(S)
        BY <3>2, ExtraIn
      <4> QED  BY <3>1, <3>2, <4>1 DEF Due
    <3> QED  BY <2>1, <3>1, <3>3
  <2>3. m.kind # "ack" /\ CurrentByte # "read"
    BY <1>2, <1>11, <2>1 DEF Moves, Waiting
  <2>4. stack' = With([Top EXCEPT !.held = <<m>>]) /\ UNCHANGED driver
    BY <1>11, <2>2, <2>3 DEF awaitByte
  <2> QED  BY <1>11, <2>2, <2>3, <2>4
<1>12. Reading(Top) \/ Waiting(Top)
  BY <1>1, <1>2 DEF Reading, Waiting
<1> QED  BY <1>2, <1>9, <1>10, <1>11, <1>12 DEF LineOK

\* The requests of a reset after "defaults" and before the packet length is set.
Inner == {"info", "resolution", "rate200", "rate100", "rate80", "id", "again200", "third200", "again80",
          "idAgain", "identified"}

LEMMA SuccessorTable ==
  ASSUME Top.req \in RequestName, NEW t
  PROVE  /\ Top.req = "disable" => Successor(t) = "defaults"
         /\ Top.req = "restore" => Successor(t) = "commandByte"
         /\ Top.req = "stop" => Successor(t) = "stopCommandByte"
         /\ Top.req \notin {"disable", "restore", "stop", "enable"} => Successor(t) \in Inner
<1>1. Top.req \in {"disable", "defaults", "info", "resolution", "rate200", "rate100", "rate80",
       "id", "again200", "third200", "again80", "idAgain", "restore", "enable", "stop"}
  BY RequestTable
<1>2. CASE Top.req = "disable"
  BY <1>2 DEF Successor, Inner
<1>3. CASE Top.req = "defaults"
  BY <1>3 DEF Successor, Inner
<1>4. CASE Top.req = "info"
  BY <1>4 DEF Successor, Inner
<1>5. CASE Top.req = "resolution"
  BY <1>5 DEF Successor, Inner
<1>6. CASE Top.req = "rate200"
  BY <1>6 DEF Successor, Inner
<1>7. CASE Top.req = "rate100"
  BY <1>7 DEF Successor, Inner
<1>8. CASE Top.req = "rate80"
  BY <1>8 DEF Successor, Inner
<1>9. CASE Top.req = "id"
  BY <1>9 DEF Successor, Inner
<1>10. CASE Top.req = "again200"
  BY <1>10 DEF Successor, Inner
<1>11. CASE Top.req = "third200"
  BY <1>11 DEF Successor, Inner
<1>12. CASE Top.req = "again80"
  BY <1>12 DEF Successor, Inner
<1>13. CASE Top.req = "idAgain"
  BY <1>13 DEF Successor, Inner
<1>14. CASE Top.req = "restore"
  BY <1>14 DEF Successor, Inner
<1>15. CASE Top.req = "stop"
  BY <1>15 DEF Successor, Inner
<1>16. CASE Top.req = "enable"
  BY <1>16
<1> QED
  BY <1>1, <1>2, <1>3, <1>4, <1>5, <1>6, <1>7, <1>8, <1>9, <1>10, <1>11, <1>12, <1>13, <1>14, <1>15, <1>16

\* A script that has nothing to read yet, or data of the mouse, while the mouse is silent.
LEMMA FreshShort ==
  ASSUME NEW g, g.held = <<>>, ~g.sent, NEW l, NEW en, ~en, NEW buffer, Len(buffer) <= 1,
         g.req \in {"disable", "restore", "commandByte", "enable"} => buffer = <<>>,
         Reading(g) \/ l = <<>>
  PROVE  BufferShort(g, l, en, buffer)
<1>1. ~Waiting(g)
  BY DEF Waiting
<1>2. Calm(g, l, en)
  BY <1>1 DEF Calm
<1> QED  BY <1>2 DEF BufferShort

\* Requests of one byte have no second one.
LEMMA SingleEnds ==
  ASSUME NEW r \in Single, NEW p \in 1..4, NEW t, Script(r, p + 1, t) \in GoodFrame
  PROVE  FALSE
<1>1. PICK g : g = Script(r, p + 1, t)
  OBVIOUS
<1>2. g \in GoodFrame /\ g.req = r /\ g.part = p + 1
  BY <1>1 DEF Script
<1>3. r \in RequestName /\ Len(RequestBytes[r]) = 1
  BY RequestKinds
<1>4. g.part <= 1
  BY <1>2, <1>3 DEF GoodFrame
<1> QED  BY <1>2, <1>4

\* What the mouse and the buffer are like when the innermost script is to read a byte.
LEMMA ReadShort ==
  ASSUME MouseInv, faults = 0, AgreeInv, NestInv, AtRequest, Top.sent, attached = "started",
         Top.req \notin Stopping
  PROVE  /\ BufferShort(Top, line, enabled, packetBuffer) /\ Len(packetBuffer) <= 1
         /\ Top.req # "enable" => ~enabled
         /\ ~Calm(Top, line, enabled) => Top.req \in {"disable", "defaults"} /\ packetBuffer = <<>>
<1>1. Depth > 0
  BY DEF AtRequest
<1>2. stack # <<>> /\ stack[Len(stack)] = Top
  BY <1>1, TopOK
<1>3. BufferShort(Top, line, enabled, packetBuffer)
  BY <1>2 DEF NestInv, NestOK
<1> QED  BY <1>3 DEF BufferShort, Calm

\* awaitByte: hold the first byte.
LEMMA HoldNest ==
  ASSUME MouseInv, faults = 0, AgreeInv, NestInv, awaitByte, attached = "started",
         Waiting(Top), Top.held = <<>>, Head(line).kind # "ack", NEW m \in Moves, NEW l
  PROVE  NestOK(With([Top EXCEPT !.held = <<m>>]), attached, l, enabled, packetBuffer, mouseResetCount)
<1>1. AtRequest /\ Top.sent /\ Depth > 0
  BY DEF awaitByte, AtRequest
<1>2. Top \in GoodFrame
  BY <1>1, TopOK
<1>3. PICK g : g = [Top EXCEPT !.held = <<m>>]
  OBVIOUS
<1>4. g \in GoodFrame /\ g.req = Top.req
  <2>1. m \in Byte
    BY DEF Moves
  <2>2. <<m>> \in Seq(Byte)
    BY <2>1
  <2>3. Top \in Frame
    BY <1>2 DEF GoodFrame
  <2>4. g \in Frame /\ g.req = Top.req /\ g.part = Top.part
    BY <1>3, <2>2, <2>3 DEF Frame
  <2> QED  BY <1>2, <2>4 DEF GoodFrame
<1>5. g.req \notin Stopping => BufferShort(g, l, enabled, packetBuffer)
  <2> SUFFICES ASSUME Top.req \notin Stopping PROVE BufferShort(g, l, enabled, packetBuffer)
    BY <1>4
  <2>1. ~Calm(Top, line, enabled)
    BY DEF Calm
  <2>2. Top.req \in {"disable", "defaults"} /\ packetBuffer = <<>> /\ ~enabled /\ Len(packetBuffer) <= 1
    BY <1>1, <2>1, ReadShort
  <2> QED  BY <1>4, <2>2 DEF BufferShort
<1>6. NestOK(With(g), attached, l, enabled, packetBuffer, mouseResetCount)
  BY <1>1, <1>4, <1>5, WithNest
<1> QED  BY <1>3, <1>6

\* awaitByte: the next request, or the script that was interrupted; nothing was held.
LEMMA GoOnNest ==
  ASSUME MouseInv, faults = 0, AgreeInv, NestInv, AtRequest, Top.sent, attached = "started", NEW t \in Type
  PROVE  /\ NestOK(GoOn(t), attached, <<>>, enabled, packetBuffer, mouseResetCount)
         /\ Top.req \in {"disable", "defaults"} =>
              \E g \in GoodFrame : /\ GoOn(t) = With(g) /\ g.held = <<>> /\ ~g.sent
                                   /\ g.req \in Inner \cup {"defaults"}
                                   /\ Top.req = "disable" => g.req = "defaults"
<1>1. Depth > 0 /\ Top.req \in RequestName /\ Top \in GoodFrame
  BY TopOK DEF AtRequest
<1>2. PICK r : r = Successor(t)
  OBVIOUS
<1>3. /\ Top.req = "disable" => r = "defaults"
      /\ Top.req = "restore" => r = "commandByte"
      /\ Top.req = "stop" => r = "stopCommandByte"
      /\ Top.req \notin {"disable", "restore", "stop", "enable"} => r \in Inner
  BY <1>1, <1>2, SuccessorTable
<1>4. r \in Steps \/ Top.req = "enable"
  BY <1>3, RequestTable DEF Steps, Inner
<1>5. "stopCommandByte" \notin RequestName
  BY RequestTable
<1>6. PICK g : g = Script(r, 1, t)
  OBVIOUS
<1>7. g.req = r /\ g.held = <<>> /\ g.sent = FALSE /\ (Top.req # "enable" => g \in GoodFrame)
  BY <1>4, <1>6, StartGood DEF Script
<1>8. Top.req # "enable" => GoOn(t) = With(g)
  BY <1>1, <1>2, <1>5, <1>6 DEF GoOn
<1>9. CASE Top.req = "enable"
  <2>1. GoOn(t) = Outer
    BY <1>9 DEF GoOn
  <2>2. BufferShort(Top, line, enabled, packetBuffer)
    BY <1>9, ReadShort DEF Stopping
  <2>3. packetBuffer = <<>>
    BY <1>9, <2>2 DEF BufferShort
  <2> QED  BY <1>1, <1>9, <2>1, <2>3, PopNest
<1>10. CASE Top.req = "stop"
  <2>1. g.req \in Stopping /\ Top.req \in Stopping
    BY <1>3, <1>7, <1>10 DEF Stopping
  <2>2. NestOK(With(g), attached, <<>>, enabled, packetBuffer, mouseResetCount)
    BY <1>1, <1>7, <1>10, <2>1, WithNest
  <2> QED  BY <1>8, <1>10, <2>2
<1>11. CASE Top.req \notin {"enable", "stop"}
  <2>1. g.req \notin Stopping /\ Top.req \notin Stopping
    BY <1>1, <1>3, <1>5, <1>7, <1>11 DEF Stopping, Inner
  <2>2. /\ BufferShort(Top, line, enabled, packetBuffer) /\ Len(packetBuffer) <= 1 /\ ~enabled
    BY <1>11, <2>1, ReadShort
  <2>3. g.req \in {"disable", "restore", "commandByte", "enable"} => packetBuffer = <<>>
    <3>1. g.req \in {"disable", "restore", "commandByte", "enable"} => Top.req = "restore"
      BY <1>3, <1>7, <1>11 DEF Inner
    <3> QED  BY <2>2, <3>1 DEF BufferShort
  <2>4. PICK l : l = <<>>
    OBVIOUS
  <2>5. BufferShort(g, l, enabled, packetBuffer)
    BY <1>7, <2>2, <2>3, <2>4, FreshShort
  <2>6. NestOK(With(g), attached, l, enabled, packetBuffer, mouseResetCount)
    BY <1>1, <1>7, <1>11, <2>1, <2>5, WithNest
  <2>7. NestOK(GoOn(t), attached, <<>>, enabled, packetBuffer, mouseResetCount)
    BY <1>8, <1>11, <2>4, <2>6
  <2>8. r \in Inner \cup {"defaults"} \/ Top.req = "restore"
    BY <1>3, <1>11
  <2> QED  BY <1>3, <1>7, <1>8, <1>11, <2>7, <2>8
<1> QED  BY <1>9, <1>10, <1>11

\* awaitByte: the next byte of the request.
LEMMA PartNest ==
  ASSUME MouseInv, faults = 0, AgreeInv, NestInv, AtRequest, Top.sent, attached = "started",
         NEW g, g = Script(Top.req, Top.part + 1, Top.type), g \in GoodFrame, NEW l, Reading(g) \/ l = <<>>
  PROVE  NestOK(With(g), attached, l, enabled, packetBuffer, mouseResetCount) /\ Top.req \notin Single
<1>1. Depth > 0 /\ Top.req \in RequestName /\ Top \in GoodFrame
  BY TopOK DEF AtRequest
<1>2. Top.part \in 1..4
  BY <1>1 DEF GoodFrame, Frame
<1>3. Top.req \notin Single
  BY <1>2, SingleEnds
<1>4. g.req = Top.req /\ g.held = <<>> /\ g.sent = FALSE
  BY DEF Script
<1>5. "stopCommandByte" \notin RequestName
  BY RequestTable
<1>6. Top.req \notin Stopping /\ Top.req \notin {"disable", "defaults", "enable"}
  BY <1>1, <1>3, <1>5 DEF Stopping, Single
<1>7. BufferShort(Top, line, enabled, packetBuffer) /\ Len(packetBuffer) <= 1 /\ ~enabled
  BY <1>6, ReadShort
<1>8. g.req \in {"disable", "restore", "commandByte", "enable"} => packetBuffer = <<>>
  BY <1>4, <1>7 DEF BufferShort
<1>9. BufferShort(g, l, enabled, packetBuffer)
  BY <1>4, <1>7, <1>8, FreshShort
<1> QED  BY <1>1, <1>3, <1>4, <1>9, WithNest

\* awaitByte: the movement that was held is handed to the interrupt routine, which may
\* start a reset on top of the request that comes next.
LEMMA HeldNest ==
  ASSUME MouseInv, faults = 0, AgreeInv, NestInv, AtRequest, Top.sent, attached = "started",
         NEW m \in Moves, InTheWay(Top, m), Top.held = <<m>>, Top.req \notin Stopping,
         NEW t \in Type, dispatchDriverInterrupt(m, GoOn(t))
  PROVE  NestOK(stack', attached, <<>>, enabled, packetBuffer', mouseResetCount')
<1>1. Depth > 0 /\ BufferOK /\ mouseResetCount \in Nat
  BY MouseAssumption DEF AtRequest, AgreeInv, MouseInv, TypeOK
<1>2. ~Calm(Top, line, enabled)
  BY DEF Calm
<1>3. Top.req \in {"disable", "defaults"} /\ packetBuffer = <<>> /\ ~enabled
  BY <1>2, ReadShort
<1>4. PICK g \in GoodFrame : /\ GoOn(t) = With(g) /\ g.held = <<>> /\ ~g.sent
                             /\ g.req \in Inner \cup {"defaults"}
                             /\ Top.req = "disable" => g.req = "defaults"
  BY <1>3, GoOnNest
<1>5. g.req \notin {"disable", "restore", "commandByte", "enable"}
  BY <1>4 DEF Inner
<1>6. g.req \notin Stopping
  BY <1>4 DEF Inner, Stopping
<1>7. PICK l : l = <<>>
  OBVIOUS
<1>8. PICK s : s = With(g)
  OBVIOUS
<1>9. ASSUME NEW buffer, Len(buffer) <= 1 PROVE NestOK(s, attached, l, enabled, buffer, mouseResetCount)
  <2>1. BufferShort(g, l, enabled, buffer)
    BY <1>3, <1>4, <1>5, <1>7, <1>9, FreshShort
  <2> QED  BY <1>1, <1>4, <1>6, <1>8, <2>1, WithNest
<1>10. CASE stack' = s /\ mouseResetCount' = mouseResetCount /\ Len(packetBuffer') <= 1
  BY <1>7, <1>9, <1>10
<1>11. CASE /\ stack' = Append(s, Script("disable", 1, "id0"))
            /\ packetBuffer' = <<>> /\ m.kind # "sync" /\ mouseResetCount' = mouseResetCount + 1
  <2>1. g.req = "defaults"
    BY <1>3, <1>4, <1>11 DEF InTheWay, Settled
  <2>2. Len(s) \in Nat /\ s \in Seq(GoodFrame) /\ s[Len(s)] = g
    BY <1>1, <1>4, <1>8, StackWith, TopGood DEF MouseInv
  <2>3. Len(packetBuffer) <= 1
    BY <1>3
  <2>4. Counted(s, mouseResetCount) /\ \A k \in 1..Len(s) - 1 : s[k].req # "commandByte"
    BY <1>9, <2>3 DEF NestOK
  <2>5. \A k \in 1..Len(s) : s[k].req # "commandByte"
    <3> SUFFICES ASSUME NEW k \in 1..Len(s) PROVE s[k].req # "commandByte"
      OBVIOUS
    <3>1. k = Len(s) \/ k \in 1..Len(s) - 1
      BY <2>2
    <3> QED  BY <2>1, <2>2, <2>4, <3>1
  <2>6. NestOK(Append(s, Script("disable", 1, "id0")), "started", l, enabled, <<>>, mouseResetCount + 1)
    BY <1>1, <2>2, <2>4, <2>5, PushNest
  <2> QED  BY <1>7, <1>11, <2>6
<1>12. dispatchDriverInterrupt(m, s)
  BY <1>4, <1>8
<1> QED  BY <1>1, <1>3, <1>10, <1>11, <1>12, MoveTaken

\* awaitByte, on the whole.
LEMMA ReadNest ==
  ASSUME MouseInv, faults = 0, AgreeInv, NestInv, awaitByte
  PROVE  NestOK(stack', attached, line', enabled, packetBuffer', mouseResetCount')
<1>1. AtRequest /\ Top.sent /\ Depth > 0 /\ Top.req \in RequestName
  BY DEF awaitByte, AtRequest
<1>2. /\ stack \in Seq(GoodFrame) /\ stack # <<>> /\ FramesOK(stack) /\ Top \in GoodFrame
      /\ LineOK(Top, line, next, Named(mode)) /\ Top = stack[Len(stack)] /\ BufferOK
  BY <1>1, TopOK DEF AgreeInv
<1>3. attached # "stopped"
  BY <1>2 DEF NestInv, NestOK
<1>4. CASE attached # "started"
  BY <1>3, <1>4 DEF NestOK
<1>5. CASE attached = "started"
  <2>1. CASE /\ Waiting(Top) /\ Top.held = <<>> /\ Head(line).kind # "ack"
             /\ \E m \in Moves : stack' = With([Top EXCEPT !.held = <<m>>])
             /\ UNCHANGED driver
    <3>1. PICK m \in Moves : stack' = With([Top EXCEPT !.held = <<m>>])
      BY <2>1
    <3>2. packetBuffer' = packetBuffer /\ mouseResetCount' = mouseResetCount
      BY <2>1 DEF driver
    <3> QED  BY <1>5, <2>1, <3>1, <3>2, HoldNest
  <2>2. ASSUME NEW frames, IF Top.held # <<>> THEN dispatchDriverInterrupt(Top.held[1], frames)
                           ELSE stack' = frames /\ UNCHANGED driver,
               line' = <<>>, NEW t \in Type, frames = GoOn(t)
        PROVE  NestOK(stack', attached, line', enabled, packetBuffer', mouseResetCount')
    <3>1. CASE Top.held = <<>>
      <4>1. stack' = GoOn(t) /\ packetBuffer' = packetBuffer /\ mouseResetCount' = mouseResetCount
        BY <2>2, <3>1 DEF driver
      <4>2. NestOK(GoOn(t), attached, <<>>, enabled, packetBuffer, mouseResetCount)
        BY <1>1, <1>5, <2>2, GoOnNest
      <4> QED  BY <2>2, <4>1, <4>2
    <3>2. CASE Top.held # <<>>
      <4>1. PICK m \in Moves : InTheWay(Top, m) /\ Top.held = <<m>>
        BY <1>2, <3>2 DEF LineOK
      <4>2. dispatchDriverInterrupt(m, GoOn(t))
        BY <2>2, <3>2, <4>1
      <4>3. CASE Top.req \notin Stopping
        BY <1>1, <1>5, <2>2, <4>1, <4>2, <4>3, HeldNest
      <4>4. CASE Top.req \in Stopping
        <5>1. Top.req = "stop"
          BY <1>1, <4>4, RequestTable DEF Stopping
        <5>2. Len(stack) = 1
          <6>1. Len(stack) \in Nat /\ Len(stack) # 0
            BY <1>2, EmptySeq
          <6>2. Len(stack) \notin 2..Len(stack)
            BY <1>2, <4>4 DEF FramesOK
          <6>3. \A n \in Nat : n # 0 /\ n \notin 2..n => n = 1
            OBVIOUS
          <6> QED  BY <6>1, <6>2, <6>3, Zenon
        <5>3. PICK g : g = Script("stopCommandByte", 1, t)
          OBVIOUS
        <5>4. "stopCommandByte" \in Steps
          BY DEF Steps
        <5>5. g \in GoodFrame /\ g.req \in Stopping
          BY <2>2, <5>3, <5>4, StartGood DEF Script, Stopping
        <5>6. Successor(t) = "stopCommandByte"
          BY <1>1, <5>1, SuccessorTable
        <5>7. PICK s : s = With(g)
          OBVIOUS
        <5>8. GoOn(t) = s
          BY <5>1, <5>3, <5>6, <5>7 DEF GoOn
        <5>9. Len(s) = 1 /\ s[1] = g /\ s \in Seq(GoodFrame)
          BY <1>1, <1>2, <5>2, <5>5, <5>7, StackWith, TopGood
        <5>10. dispatchDriverInterrupt(m, s)
          BY <4>2, <5>8
        <5> QED  BY <1>2, <1>5, <5>5, <5>9, <5>10, FirstNest
      <4> QED  BY <4>3, <4>4
    <3> QED  BY <3>1, <3>2
  <2>3. ASSUME NEW frames, IF Top.held # <<>> THEN dispatchDriverInterrupt(Top.held[1], frames)
                           ELSE stack' = frames /\ UNCHANGED driver,
               NEW g, g = Script(Top.req, Top.part + 1, Top.type), g \in GoodFrame, frames = With(g),
               Reading(g) \/ line' = <<>>
        PROVE  NestOK(stack', attached, line', enabled, packetBuffer', mouseResetCount')
    <3>1. NestOK(With(g), attached, line', enabled, packetBuffer, mouseResetCount) /\ Top.req \notin Single
      BY <1>1, <1>5, <2>3, PartNest
    <3>2. Top.held = <<>>
      <4>1. Top.req \notin Stopping /\ Top.req \notin {"disable", "defaults"}
        BY <1>1, <3>1, RequestTable DEF Single, Stopping
      <4>2. Calm(Top, line, enabled)
        BY <1>1, <1>5, <4>1, ReadShort
      <4> QED  BY <4>2 DEF Calm
    <3>3. stack' = With(g) /\ packetBuffer' = packetBuffer /\ mouseResetCount' = mouseResetCount
      BY <2>3, <3>2 DEF driver
    <3> QED  BY <3>1, <3>3
  <2> QED  BY <2>1, <2>2, <2>3, ReadResult
<1> QED  BY <1>4, <1>5

\* The commands that make the mouse report movements and that keep it from it.
LEMMA CommandTable ==
  ASSUME NEW r \in RequestName, NEW p \in 1..4, p <= Len(RequestBytes[r])
  PROVE  /\ RequestBytes[r][p] = "F4" => r = "enable"
         /\ r \in {"disable", "defaults"} => RequestBytes[r][p] \in {"F5", "F6"}
<1>1. r \in Single \cup Double \cup {"info", "id", "idAgain"}
  BY RequestKinds
<1>2. CASE r \in Single
  <2>1. Len(RequestBytes[r]) = 1
    BY <1>2, RequestKinds
  <2>2. p = 1
    BY <2>1, Places, Zenon
  <2>3. RequestBytes[r][1] = "F4" => r = "enable"
    BY <1>2, RequestTable DEF Single
  <2>4. r \in {"disable", "defaults"} => RequestBytes[r][1] \in {"F5", "F6"}
    BY RequestTable
  <2> QED  BY <2>2, <2>3, <2>4
<1>3. CASE r \in Double
  <2>1. Len(RequestBytes[r]) = 2
    BY <1>3, RequestKinds
  <2>2. p \in {1, 2}
    BY <2>1, Places, Zenon
  <2>3. RequestBytes[r][1] # "F4" /\ RequestBytes[r][2] # "F4"
    <3>1. \A x \in {"200", "100", "80", "rate"} : <<"F3", x>>[1] # "F4" /\ <<"F3", x>>[2] # "F4"
      OBVIOUS
    <3>2. \/ RequestBytes[r] = <<"E8", "res">>
          \/ \E x \in {"200", "100", "80", "rate"} : RequestBytes[r] = <<"F3", x>>
      BY <1>3, RequestTable DEF Double
    <3> QED  BY <3>1, <3>2
  <2>4. r \notin {"disable", "defaults"}
    BY <1>3 DEF Double
  <2> QED  BY <2>2, <2>3, <2>4
<1>4. CASE r \in {"info", "id", "idAgain"}
  <2>1. RequestBytes[r][p] \in {"E9", "F2", "read"}
    <3>1. CASE r = "info"
      <4>1. RequestBytes[r][1] = "E9" /\ \A q \in 2..4 : RequestBytes[r][q] = "read"
        BY <3>1, RequestKinds
      <4>2. p = 1 \/ p \in 2..4
        BY Places
      <4> QED  BY <4>1, <4>2
    <3>2. CASE r \in {"id", "idAgain"}
      <4>1. Len(RequestBytes[r]) = 2 /\ RequestBytes[r][1] = "F2" /\ RequestBytes[r][2] = "read"
        BY <3>2, RequestKinds
      <4>2. p \in {1, 2}
        BY <4>1, Places, Zenon
      <4> QED  BY <4>1, <4>2
    <3> QED  BY <1>4, <3>1, <3>2
  <2>2. r \notin {"disable", "defaults"}
    BY <1>4
  <2> QED  BY <2>1, <2>2
<1> QED  BY <1>1, <1>2, <1>3, <1>4

\* writeByte: the mouse is silent after the first byte of a reset, until the last one.
LEMMA WriteNest ==
  ASSUME MouseInv, faults = 0, AgreeInv, NestInv, writeByte
  PROVE  NestOK(stack', attached, line', enabled', packetBuffer, mouseResetCount)
<1>1. AtRequest /\ ~Top.sent /\ Depth > 0 /\ Top.req \in RequestName /\ CurrentByte = At(Top)
  BY DEF writeByte, AtRequest, CurrentByte, At
<1>2. /\ Top \in GoodFrame /\ stack # <<>> /\ stack[Len(stack)] = Top
      /\ Top.part \in 1..4 /\ Top.part <= Len(RequestBytes[Top.req])
  BY <1>1, TopOK DEF GoodFrame, Frame
<1>3. PICK g : g = [Top EXCEPT !.sent = TRUE]
  OBVIOUS
<1>4. /\ g \in GoodFrame /\ g.req = Top.req /\ g.part = Top.part /\ g.sent = TRUE /\ g.held = Top.held
  BY <1>2, <1>3 DEF GoodFrame, Frame
<1>5. stack' = With(g) /\ At(g) = At(Top)
  BY <1>3, <1>4 DEF writeByte, At
<1>6. ASSUME attached = "started", Top.req \notin Stopping
      PROVE  BufferShort(g, line', enabled', packetBuffer)
  <2>1. BufferShort(Top, line, enabled, packetBuffer)
    BY <1>2, <1>6 DEF NestInv, NestOK
  <2>2. CASE CurrentByte = "read"
    <3>1. line' = line /\ enabled' = enabled
      BY <2>2 DEF writeByte, mouse
    <3>2. Top.req \in {"info", "id", "idAgain"}
      BY <1>1, <1>2, <2>2, ByteTable DEF At
    <3>3. Reading(g) /\ ~Waiting(g)
      BY <1>1, <1>4, <1>5, <2>2 DEF Reading, Waiting
    <3>4. Calm(Top, line, enabled)
      BY <2>1, <3>2 DEF BufferShort
    <3>5. Calm(g, line, enabled)
      BY <1>4, <3>2, <3>3, <3>4 DEF Calm
    <3> QED  BY <1>4, <2>1, <3>1, <3>2, <3>5 DEF BufferShort
  <2>3. CASE CurrentByte # "read"
    <3>1. PICK c : c = CurrentByte
      OBVIOUS
    <3>2. receiveCommand(c)
      BY <2>3, <3>1 DEF writeByte
    <3>3. /\ c = "F4" => Top.req = "enable"
          /\ Top.req \in {"disable", "defaults"} => c \in {"F5", "F6"}
      BY <1>1, <1>2, <3>1, CommandTable DEF At
    <3>4. /\ c \in {"F5", "F6"} => enabled' = FALSE
          /\ c \notin {"F4", "F5", "F6"} => enabled' = enabled
      BY <3>2 DEF receiveCommand
    <3>5. Waiting(g) /\ ~Reading(g) /\ ~Waiting(Top) /\ ~Reading(Top)
      BY <1>1, <1>4, <1>5, <2>3 DEF Waiting, Reading
    <3>6. ASSUME Calm(Top, line, enabled) PROVE Calm(g, line', enabled')
      <4>1. line = <<>> /\ Top.held = <<>>
        BY <3>5, <3>6 DEF Calm
      <4>2. enabled' => c = "F4"
        BY <1>1, <3>4, <3>6 DEF Calm
      <4>3. line' # <<>> /\ Head(line') = Answer("ack")
        <5>1. line' = line \o <<Answer("ack")>> \o Extra(c, Named(mode))
          BY <3>2 DEF receiveCommand, Extra, Named, Identification
        <5>2. PICK x : x = Extra(c, Named(mode))
          OBVIOUS
        <5>3. PICK S : S = {Answer("plain"), Answer(Named(mode)), Answer("ack")}
          OBVIOUS
        <5>4. PICK a : a = Answer("ack")
          OBVIOUS
        <5>5. x \in Seq(S) /\ a \in S
          BY <5>2, <5>3, <5>4, ExtraIn
        <5>6. line' = <<a>> \o x
          BY <4>1, <5>1, <5>2, <5>4, <5>5
        <5>7. <<a>> \o x = Due(c, Named(mode))
          BY <5>2, <5>4 DEF Due
        <5> QED  BY <5>6, <5>7, AnswerLines
      <4>4. Head(line').kind = "ack"
        BY <4>3 DEF Answer
      <4> QED  BY <1>4, <3>3, <3>5, <4>1, <4>2, <4>3, <4>4 DEF Calm
    <3>7. Top.req \in {"disable", "defaults"} => ~enabled'
      BY <3>3, <3>4
    <3> QED  BY <1>4, <2>1, <3>6, <3>7 DEF BufferShort
  <2> QED  BY <2>2, <2>3
<1>7. NestOK(With(g), attached, line', enabled', packetBuffer, mouseResetCount)
  BY <1>1, <1>4, <1>6, WithNest
<1> QED  BY <1>5, <1>7

\* A stack without scripts, and with nothing but the script of stop.
LEMMA FlatNest ==
  ASSUME NEW s \in Seq(GoodFrame), s = <<>> \/ (Len(s) = 1 /\ s[1].req \in Stopping), NEW c \in Nat,
         NEW l, NEW en, NEW buffer
  PROVE  NestOK(s, "started", l, en, buffer, c)
<1>1. CASE s = <<>>
  <2>1. Len(s) = 0 /\ ~StopFirst(s)
    BY <1>1 DEF StopFirst
  <2>2. Counted(s, c)
    BY <2>1 DEF Counted
  <2>3. \A k \in 1..Len(s) - 1 : s[k].req # "commandByte"
    BY <2>1
  <2> QED  BY <1>1, <2>2, <2>3 DEF NestOK
<1>2. CASE s # <<>>
  <2>1. Len(s) = 1 /\ s[1].req \in Stopping
    BY <1>2, Zenon
  <2>2. StopFirst(s) /\ 1 <= c + 1
    BY <1>2, <2>1 DEF StopFirst
  <2>3. Counted(s, c)
    BY <2>1, <2>2, Zenon DEF Counted
  <2>4. \A k \in 1..Len(s) - 1 : s[k].req # "commandByte"
    BY <2>1
  <2>5. s[Len(s)].req \in Stopping
    BY <2>1
  <2> QED  BY <2>3, <2>4, <2>5 DEF NestOK
<1> QED  BY <1>1, <1>2

\* A script of stop has nothing below it.
LEMMA StopAlone ==
  ASSUME MouseInv, faults = 0, AgreeInv, Depth > 0, Top.req \in Stopping
  PROVE  Len(stack) = 1 /\ stack[1] = Top
<1>1. stack \in Seq(GoodFrame) /\ stack # <<>> /\ FramesOK(stack) /\ Top = stack[Len(stack)]
  BY TopOK
<1>2. Len(stack) \in Nat /\ Len(stack) # 0
  BY <1>1, EmptySeq
<1>3. Len(stack) \notin 2..Len(stack)
  BY <1>1 DEF FramesOK
<1>4. \A n \in Nat : n # 0 /\ n \notin 2..n => n = 1
  OBVIOUS
<1>5. Len(stack) = 1
  BY <1>2, <1>3, <1>4, Zenon
<1> QED  BY <1>1, <1>5

\* The script of start has not been counted, but there is no interrupt action yet.
LEMMA InitNest == Init => NestInv
BY DEF Init, NestInv, NestOK

\* Every step without a fault keeps the resets that are under way counted.
LEMMA NextNest == MouseInv /\ AgreeInv /\ NestInv /\ [Next]_vars => NestInv'
<1> SUFFICES ASSUME MouseInv, AgreeInv, NestInv, [Next]_vars, faults' = 0
             PROVE  NestOK(stack', attached', line', enabled', packetBuffer', mouseResetCount')
  BY DEF NestInv
<1>1. faults = 0
  <2>1. faults \in Nat
    BY MouseAssumption DEF MouseInv, TypeOK
  <2>2. faults' = faults \/ faults' = faults + 1
    BY DEF Next, Gate, deliver, writeByte, awaitByte, timeOut, setPacketLength, dispatchOtherStream,
           setCommandByte, sendMovement, loseByte, reconnect, installInterruptAction, stop, vars
  <2> QED  BY <2>1, <2>2
<1>2. /\ BufferOK /\ stack \in Seq(GoodFrame) /\ mouseResetCount \in Nat
      /\ ScriptsOK(stack, attached, line, next, mode, rates, packetLength, enabled)
      /\ NestOK(stack, attached, line, enabled, packetBuffer, mouseResetCount)
  BY <1>1, MouseAssumption DEF AgreeInv, NestInv, MouseInv, TypeOK
<1>3. /\ Depth > 0 <=> stack # <<>>
      /\ Depth > 0 => attached # "stopped"
  <2>1. Depth > 0 <=> stack # <<>>
    BY <1>2 DEF Depth
  <2> QED  BY <1>2, <2>1 DEF NestOK
<1>4. ASSUME Depth > 0, attached = "started", Top.req \notin Stopping
      PROVE  BufferShort(Top, line, enabled, packetBuffer)
  <2>1. stack # <<>> /\ stack[Len(stack)] = Top
    BY <1>1, <1>4, TopOK
  <2> QED  BY <1>2, <1>4, <2>1 DEF NestOK
<1>5. CASE deliver
  <2>1. stack = <<>> /\ line # <<>> /\ line' = Tail(line) /\ dispatchDriverInterrupt(Head(line), <<>>)
        /\ UNCHANGED <<enabled, attached>>
    BY <1>5 DEF deliver, mouse
  <2>2. PICK m \in Moves : line = <<m>>
    BY <1>2, <2>1 DEF ScriptsOK, IdleOK
  <2>3. Head(line) = m
    BY <2>2
  <2>4. CASE attached = "started"
    <3>1. <<>> \in Seq(GoodFrame)
      OBVIOUS
    <3>2. NestOK(stack', "started", line', enabled', packetBuffer', mouseResetCount')
      BY <1>2, <2>1, <2>3, <2>4, <3>1, FirstNest
    <3> QED  BY <2>1, <2>4, <3>2
  <2>5. CASE attached # "started"
    <3>1. stack' = <<>>
      BY <2>1, <2>5 DEF dispatchDriverInterrupt
    <3> QED  BY <2>1, <2>5, <3>1 DEF NestOK
  <2> QED  BY <2>4, <2>5
<1>6. CASE writeByte
  <2>1. packetBuffer' = packetBuffer /\ mouseResetCount' = mouseResetCount /\ attached' = attached
    BY <1>6 DEF writeByte, driver
  <2> QED  BY <1>1, <1>6, <2>1, WriteNest
<1>7. CASE awaitByte
  <2>1. attached' = attached /\ enabled' = enabled
    BY <1>7 DEF awaitByte, mouse
  <2> QED  BY <1>1, <1>7, <2>1, ReadNest
<1>8. ~timeOut
  BY <1>1, NoTimeOut
<1>9. CASE setPacketLength
  <2>1. /\ Depth > 0 /\ Top.req = "identified" /\ stack' = GoOn(Top.type) /\ packetBuffer' = <<>>
        /\ UNCHANGED <<enabled, line, attached, mouseResetCount>>
    BY <1>9 DEF setPacketLength, mouse
  <2>2. Top.type \in Type /\ "restore" \in Steps /\ "identified" \notin RequestName
    BY <1>1, <2>1, TopOK, RequestTable DEF GoodFrame, Frame, Steps
  <2>3. PICK g : g = Script("restore", 1, Top.type)
    OBVIOUS
  <2>4. g \in GoodFrame /\ g.req = "restore" /\ g.sent = FALSE /\ g.held = <<>>
    BY <2>2, <2>3, StartGood DEF Script
  <2>5. stack' = With(g)
    BY <2>1, <2>3 DEF GoOn, Successor
  <2>6. g.req \notin Stopping /\ Top.req \notin Stopping
    BY <2>1, <2>4 DEF Stopping
  <2>7. PICK buffer : buffer = <<>>
    OBVIOUS
  <2>8. attached = "started" => BufferShort(g, line, enabled, buffer)
    <3> SUFFICES ASSUME attached = "started" PROVE BufferShort(g, line, enabled, buffer)
      OBVIOUS
    <3>1. Calm(Top, line, enabled)
      BY <1>4, <2>1, <2>6 DEF BufferShort
    <3>2. line = <<>> /\ ~enabled
      BY <2>1, <2>2, <3>1 DEF Calm, Reading, Waiting
    <3>3. Len(buffer) <= 1
      BY <2>7
    <3> QED  BY <2>4, <2>7, <3>2, <3>3, FreshShort
  <2>9. NestOK(With(g), attached, line, enabled, buffer, mouseResetCount)
    BY <1>1, <2>1, <2>4, <2>6, <2>8, WithNest
  <2> QED  BY <2>1, <2>5, <2>7, <2>9
<1>10. ASSUME AtCommandByte, attached = "started", line # <<>> PROVE Top.req = "stopCommandByte" /\ Depth > 0
  <2>1. Depth > 0 /\ Top.req \in {"commandByte", "stopCommandByte"}
    BY <1>10 DEF AtCommandByte
  <2>2. Top.req # "commandByte"
    <3> SUFFICES ASSUME Top.req = "commandByte" PROVE FALSE
      OBVIOUS
    <3>1. "commandByte" \notin RequestName /\ Top.req \notin Stopping
      BY RequestTable DEF Stopping
    <3>2. Calm(Top, line, enabled)
      BY <1>4, <1>10, <2>1, <3>1 DEF BufferShort
    <3> QED  BY <1>10, <3>1, <3>2 DEF Calm, Reading, Waiting
  <2> QED  BY <2>1, <2>2
<1>11. CASE dispatchOtherStream
  <2>1. AtCommandByte /\ line # <<>> /\ line' = Tail(line) /\ dispatchDriverInterrupt(Head(line), stack)
        /\ UNCHANGED <<enabled, attached>>
    BY <1>11 DEF dispatchOtherStream, mouse
  <2>2. CASE attached = "started"
    <3>1. Top.req = "stopCommandByte" /\ Depth > 0 /\ Top.req \in Stopping
      BY <1>10, <2>1, <2>2 DEF Stopping
    <3>2. Len(stack) = 1 /\ stack[1].req \in Stopping
      BY <1>1, <3>1, StopAlone
    <3>3. "stopCommandByte" \notin RequestName
      BY RequestTable
    <3>4. LineOK(Top, line, next, Named(mode))
      BY <1>1, <3>1, TopOK
    <3>5. PICK m \in Moves : line = <<m>>
      BY <2>1, <3>1, <3>3, <3>4 DEF LineOK, Reading, Waiting
    <3>6. dispatchDriverInterrupt(m, stack)
      <4>1. Head(line) = m
        BY <3>5
      <4> QED  BY <2>1, <4>1
    <3>7. NestOK(stack', "started", line', enabled', packetBuffer', mouseResetCount')
      BY <1>2, <2>2, <3>2, <3>6, FirstNest
    <3> QED  BY <2>1, <2>2, <3>7
  <2>3. CASE attached # "started"
    <3>1. attached # "stopped"
      BY <1>3, <2>1 DEF AtCommandByte
    <3> QED  BY <2>1, <2>3, <3>1 DEF NestOK
  <2> QED  BY <2>2, <2>3
<1>12. CASE setCommandByte
  <2>1. AtCommandByte /\ Depth > 0 /\ stack' = GoOn(Top.type)
        /\ attached' = (IF Top.req = "stopCommandByte" THEN "stopped" ELSE attached)
        /\ UNCHANGED <<enabled, line, packetBuffer, mouseResetCount>>
    BY <1>12 DEF setCommandByte, mouse, driver, AtCommandByte
  <2>2. CASE Top.req = "stopCommandByte"
    <3>1. attached' = "stopped" /\ stack' = SubSeq(stack, 1, Len(stack) - 1)
      BY <2>1, <2>2 DEF GoOn, Outer, Depth
    <3>2. Len(stack) = 1
      BY <1>1, <2>1, <2>2, StopAlone DEF Stopping
    <3>3. SubSeq(stack, 1, 0) = <<>>
      BY <1>2
    <3>4. stack' = <<>>
      BY <3>1, <3>2, <3>3
    <3> QED  BY <3>1, <3>4 DEF NestOK
  <2>3. CASE Top.req # "stopCommandByte"
    <3>1. Top.req = "commandByte" /\ attached' = attached
      BY <2>1, <2>3 DEF AtCommandByte
    <3>2. PICK g : g = Script("enable", 1, Top.type)
      OBVIOUS
    <3>3. stack' = With(g)
      BY <2>1, <3>1, <3>2 DEF GoOn, Successor
    <3>4. Top.type \in Type /\ "enable" \in Steps /\ "commandByte" \notin RequestName
      BY <1>1, <2>1, TopOK, RequestTable DEF GoodFrame, Frame, Steps
    <3>5. g \in GoodFrame /\ g.req = "enable" /\ g.sent = FALSE /\ g.held = <<>>
      BY <3>2, <3>4, StartGood DEF Script
    <3>6. g.req \notin Stopping /\ Top.req \notin Stopping
      BY <3>1, <3>5 DEF Stopping
    <3>7. attached = "started" => BufferShort(g, line, enabled, packetBuffer)
      <4> SUFFICES ASSUME attached = "started" PROVE BufferShort(g, line, enabled, packetBuffer)
        OBVIOUS
      <4>1. BufferShort(Top, line, enabled, packetBuffer)
        BY <1>4, <2>1, <3>6
      <4>2. Calm(Top, line, enabled) /\ packetBuffer = <<>> /\ Len(packetBuffer) <= 1
        BY <3>1, <4>1 DEF BufferShort
      <4>3. line = <<>> /\ ~enabled
        BY <3>1, <3>4, <4>2 DEF Calm, Reading, Waiting
      <4> QED  BY <3>5, <4>2, <4>3, FreshShort
    <3>8. NestOK(With(g), attached, line, enabled, packetBuffer, mouseResetCount)
      BY <1>1, <2>1, <3>5, <3>6, <3>7, WithNest
    <3> QED  BY <2>1, <3>1, <3>3, <3>8
  <2> QED  BY <2>2, <2>3
<1>13. ASSUME NEW kind \in Movement \cup {"sync"}, sendMovement(kind)
       PROVE  NestOK(stack', attached', line', enabled', packetBuffer', mouseResetCount')
  <2>1. enabled /\ line = <<>>
        /\ UNCHANGED <<enabled, packetBuffer, mouseResetCount, attached, stack>>
    BY <1>13 DEF sendMovement, driver
  <2>2. ASSUME attached = "started", stack # <<>>, stack[Len(stack)].req \notin Stopping
        PROVE  BufferShort(stack[Len(stack)], line', enabled, packetBuffer)
    <3>1. Depth > 0 /\ stack[Len(stack)] = Top /\ Top \in GoodFrame
      BY <1>1, <1>3, <2>2, TopOK
    <3>2. BufferShort(Top, line, enabled, packetBuffer)
      BY <1>4, <2>2, <3>1
    <3>3. ~Calm(Top, line, enabled)
      <4> SUFFICES ASSUME Top.req = "enable", Top.sent, ~Waiting(Top) PROVE FALSE
        BY <2>1 DEF Calm
      <4>1. Top.req \in RequestName /\ Top.part \in 1..4 /\ Top.part <= Len(RequestBytes[Top.req])
        BY <3>1, RequestTable DEF GoodFrame, Frame
      <4>2. RequestBytes[Top.req][Top.part] # "read"
        BY <4>1, ByteTable
      <4> QED  BY <4>1, <4>2 DEF Waiting, At
    <3>4. /\ Top.req \in {"disable", "defaults"} /\ ~Top.sent
          /\ packetBuffer = <<>> /\ Len(packetBuffer) <= 1
      BY <2>1, <3>2, <3>3 DEF BufferShort
    <3>5. BufferShort(Top, line', enabled, packetBuffer)
      BY <3>4 DEF BufferShort
    <3> QED  BY <3>1, <3>5
  <2> QED  BY <1>2, <2>1, <2>2 DEF NestOK
<1>14. ~loseByte /\ ~reconnect
  BY <1>1 DEF loseByte, reconnect
<1>15. CASE installInterruptAction
  <2>1. stack = <<>> /\ attached' = "started" /\ stack' = stack /\ mouseResetCount' = mouseResetCount
    BY <1>15 DEF installInterruptAction, driver
  <2>2. NestOK(stack, "started", line', enabled', packetBuffer', mouseResetCount)
    BY <1>2, <2>1, FlatNest
  <2> QED  BY <2>1, <2>2
<1>16. CASE stop
  <2>1. PICK g : g = Script("stop", 1, "id0")
    OBVIOUS
  <2>2. "stop" \in Steps /\ "id0" \in Type
    BY RequestTable DEF Steps, Type
  <2>3. g \in GoodFrame /\ g.req \in Stopping
    BY <2>1, <2>2, StartGood DEF Script, Stopping
  <2>4. attached' = "started" /\ stack' = <<g>> /\ mouseResetCount' = mouseResetCount
    BY <1>16, <2>1 DEF stop, driver
  <2>5. PICK s : s = <<g>>
    OBVIOUS
  <2>6. s \in Seq(GoodFrame) /\ Len(s) = 1 /\ s[1].req \in Stopping
    BY <2>3, <2>5
  <2>7. NestOK(s, "started", line', enabled', packetBuffer', mouseResetCount)
    BY <1>2, <2>6, FlatNest
  <2> QED  BY <2>4, <2>5, <2>7
<1>17. CASE UNCHANGED vars
  BY <1>2, <1>17 DEF vars
<1> QED
  BY <1>5, <1>6, <1>7, <1>8, <1>9, <1>11, <1>12, <1>13, <1>14, <1>15, <1>16, <1>17 DEF Next, Gate

\* Counting some places of a sequence.
LEMMA PlacesCounted ==
  ASSUME NEW a \in {1, 2}, NEW n \in Nat, NEW c \in Nat, n <= c + (a - 1), NEW R, R \subseteq a..n
  PROVE  Cardinality(R) \in Nat /\ Cardinality(R) <= c
<1>1. IsFiniteSet(a..n) /\ Cardinality(a..n) = IF a > n THEN 0 ELSE n - a + 1
  BY FS_Interval, SMTT(30)
<1>2. Cardinality(a..n) <= c /\ Cardinality(a..n) \in Nat
  BY <1>1
<1>3. IsFiniteSet(R) /\ Cardinality(R) <= Cardinality(a..n)
  BY <1>1, FS_Subset
<1>4. Cardinality(R) \in Nat
  BY <1>3, FS_CardinalityType
<1> QED  BY <1>2, <1>3, <1>4

\* As long as nothing gets lost and the mouse is not replaced, resets nest no deeper
\* than _mouseResetCount may get, for every limit but 0 (start runs the same script and
\* is not counted): no packet becomes complete, and sets the count back to 0, while a
\* reset is under way, although movements still come in and are dispatched.
THEOREM NestingWithoutFaults ==
  ASSUME ResetLimit >= 1
  PROVE  Spec => [](faults = 0 => NestingBounded)
<1>1. MouseInv /\ AgreeInv /\ NestInv => (faults = 0 => NestingBounded)
  <2> SUFFICES ASSUME MouseInv, AgreeInv, NestInv, faults = 0 PROVE NestingBounded
    OBVIOUS
  <2>1. /\ stack \in Seq(GoodFrame) /\ ResetLimit \in Nat /\ mouseResetCount \in Nat
        /\ mouseResetCount <= ResetLimit /\ attached \in {"starting", "started", "stopped"}
    BY MouseAssumption DEF MouseInv, TypeOK
  <2>2. PICK n : n = Len(stack)
    OBVIOUS
  <2>3. n \in Nat
    BY <2>1, <2>2
  <2>4. PICK R : R = {k \in 1..n : stack[k].req \notin {"stop", "stopCommandByte"}}
    OBVIOUS
  <2>5. R \subseteq 1..n
    BY <2>4
  <2>6. NestOK(stack, attached, line, enabled, packetBuffer, mouseResetCount)
    BY DEF NestInv
  <2> SUFFICES Cardinality(R) <= ResetLimit
    <3>1. ResetLimit + faults = ResetLimit
      BY <2>1
    <3>2. NestingBounded <=> Cardinality(R) <= ResetLimit + faults
      BY <2>2, <2>4, Zenon DEF NestingBounded, Depth
    <3> QED  BY <3>1, <3>2
  <2>7. ASSUME NEW c \in Nat, c <= ResetLimit, n <= c \/ (n <= c + 1 /\ R \subseteq 2..n)
        PROVE  Cardinality(R) <= ResetLimit
    <3>1. Cardinality(R) \in Nat /\ Cardinality(R) <= c
      <4>1. CASE n <= c
        <5>1. PICK a \in {1, 2} : a = 1
          OBVIOUS
        <5>2. n <= c + (a - 1) /\ R \subseteq a..n
          BY <2>3, <2>5, <4>1, <5>1
        <5> QED  BY <2>3, <5>2, PlacesCounted
      <4>2. CASE n <= c + 1 /\ R \subseteq 2..n
        <5>1. PICK a \in {1, 2} : a = 2
          OBVIOUS
        <5>2. n <= c + (a - 1) /\ R \subseteq a..n
          BY <2>3, <4>2, <5>1
        <5> QED  BY <2>3, <5>2, PlacesCounted
      <4> QED  BY <2>7, <4>1, <4>2
    <3> QED  BY <2>1, <2>7, <3>1
  <2>8. CASE attached = "stopped"
    <3>1. n = 0
      BY <2>2, <2>6, <2>8 DEF NestOK
    <3>2. PICK c \in Nat : c = 0
      OBVIOUS
    <3>3. n <= c /\ c <= ResetLimit
      BY <2>1, <3>1, <3>2
    <3> QED  BY <2>7, <3>3
  <2>9. CASE attached = "starting"
    <3>1. n <= 1
      BY <2>2, <2>9 DEF AgreeInv, ScriptsOK
    <3>2. PICK c \in Nat : c = 1
      OBVIOUS
    <3>3. n <= c /\ c <= ResetLimit
      BY <3>1, <3>2
    <3> QED  BY <2>7, <3>3
  <2>10. CASE attached = "started" /\ ~StopFirst(stack)
    <3>1. n <= mouseResetCount
      BY <2>2, <2>6, <2>10 DEF NestOK, Counted
    <3> QED  BY <2>1, <2>7, <3>1
  <2>11. CASE attached = "started" /\ StopFirst(stack)
    <3>1. n <= mouseResetCount + 1
      BY <2>2, <2>6, <2>11 DEF NestOK, Counted
    <3>2. 1 \notin R
      BY <2>4, <2>11 DEF StopFirst, Stopping
    <3>3. \A k \in 1..n : k # 1 => k \in 2..n
      BY <2>3
    <3>4. R \subseteq 2..n
      BY <2>5, <3>2, <3>3
    <3> QED  BY <2>1, <2>7, <3>1, <3>4
  <2>12. \/ attached = "stopped" \/ attached = "starting"
         \/ attached = "started" /\ StopFirst(stack)
         \/ attached = "started" /\ ~StopFirst(stack)
    BY <2>1
  <2> QED  BY <2>8, <2>9, <2>10, <2>11, <2>12
<1> QED
  BY <1>1, InitGood, NextGood, InitAgrees, NextAgrees, InitNest, NextNest, PTL DEF Spec
=============================================================================
