------------------------------ MODULE PS2Mouse ------------------------------
(***************************************************************************)
(* ApplePS2Mouse: cutting the byte stream of the mouse into packets, and   *)
(* resetting the mouse when the cut is lost.                               *)
(*                                                                         *)
(* A reset is a script of synchronous commands that runs inside the        *)
(* interrupt routine.  While it waits for an answer the controller goes on *)
(* delivering mouse data to the same interrupt routine, so that resets     *)
(* nest: `stack' holds the resets that are under way, the innermost last.  *)
(***************************************************************************)
EXTENDS Naturals, Sequences, FiniteSets

CONSTANTS
  Capability,   \* the identification the mouse can reach: 0, 3 or 4
  ResetLimit,   \* how many consecutive resets are made (5 in the code)
  Movement,     \* what the bytes after the first of a packet may look like
  MaxFaults,    \* bound on lost bytes and reconnections
  InPacket      \* may a reconnection come in the middle of a packet or of a reset?

\* Bytes, by what the driver can tell about them: data with bit 3 set ("sync") or
\* clear ("plain"), an acknowledge, the 0xAA of a mouse that was just powered, and
\* identifications.  `pos' is the place of a byte in its packet, 0 outside packets.
\* A movement whose bytes are those of an acknowledge or an announcement (0xFA, 0xAA)
\* is left out: movements are sync or plain.
Kind == {"sync", "plain", "ack", "AA", "id0", "id3", "id4"}
Byte == [kind : Kind, pos : 0..4]
Answer(kind) == [kind |-> kind, pos |-> 0]
Unsynchronised(b) == b.kind \notin {"sync", "AA"}

ASSUME MouseAssumption ==
  /\ Capability \in {0, 3, 4}
  /\ ResetLimit \in Nat
  /\ Movement \subseteq {"sync", "plain"}
  /\ MaxFaults \in Nat
  /\ InPacket \in BOOLEAN

kPacketLengthStandard == 3
kPacketLengthIntellimouse == 4
kPacketLengthMax == 4

\* The requests of scheduleMouseReset (from "defaults" on: of resetMouse), and
\* the first of stop.  A request is a list of bytes to be sent and acknowledged,
\* and of answers to be read.
RequestBytes ==
  [disable    |-> <<"F5">>,
   defaults   |-> <<"F6">>,
   info       |-> <<"E9", "read", "read", "read">>,
   resolution |-> <<"E8", "res">>,
   rate200    |-> <<"F3", "200">>, rate100  |-> <<"F3", "100">>, rate80  |-> <<"F3", "80">>,
   id         |-> <<"F2", "read">>,
   again200   |-> <<"F3", "200">>, third200 |-> <<"F3", "200">>, again80 |-> <<"F3", "80">>,
   idAgain    |-> <<"F2", "read">>,
   restore    |-> <<"F3", "rate">>,
   enable     |-> <<"F4">>,
   stop       |-> <<"F5">>]
RequestName == DOMAIN RequestBytes
Type == {"id0", "id3", "id4"}

\* A script at byte `part' of request `req'; `sent': the byte has been written and
\* its answer is awaited; `held': firstByte of readDataPort; `type': what
\* setIntellimouseMode has found out.  Two steps of a script are no mouse requests.
Frame == [req : RequestName \cup {"identified", "commandByte", "stopCommandByte"}, part : 1..4, sent : BOOLEAN,
          held : Seq(Byte), type : Type]
Script(req, part, type) ==
  [req |-> req, part |-> part, sent |-> FALSE, held |-> <<>>, type |-> type]

VARIABLES
  mode,             \* the packet mode of the mouse: 0, 3 or 4 (external)
  enabled,          \* the mouse reports movements (external)
  rates,            \* the last sample rates the mouse was given (external)
  next,             \* place of the next byte of the current packet (external)
  line,             \* bytes on their way to the driver (external)
  faults,           \* lost bytes and reconnections so far (external)
  packetBuffer,     \* _packetBuffer, up to _packetByteCount
  packetLength,     \* _packetLength
  mouseResetCount,  \* _mouseResetCount
  infoKnown,        \* _mouseInfoBytes has been obtained
  attached,         \* starting, started (the interrupt action is installed) or stopped
  stack             \* scripts under way

mouse == <<mode, enabled, rates, next>>
driver == <<packetBuffer, packetLength, mouseResetCount>>
vars == <<mode, enabled, rates, next, line, faults, packetBuffer, packetLength,
          mouseResetCount, infoKnown, attached, stack>>

TypeOK ==
  /\ mode \in {0, 3, 4} /\ enabled \in BOOLEAN /\ next \in 1..4
  /\ rates \in Seq({"200", "100", "80", "rate"})
  /\ line \in Seq(Byte)
  /\ faults \in 0..MaxFaults
  /\ packetBuffer \in Seq(Byte)
  /\ packetLength \in {kPacketLengthStandard, kPacketLengthIntellimouse}
  /\ mouseResetCount \in 0..ResetLimit
  /\ infoKnown \in BOOLEAN /\ attached \in {"starting", "started", "stopped"}
  /\ stack \in Seq(Frame)

\* start runs resetMouse before it installs the interrupt action.
Init ==
  /\ mode = 0 /\ enabled = FALSE /\ rates = <<>> /\ next = 1 /\ line = <<>> /\ faults = 0
  /\ packetBuffer = <<>> /\ packetLength = kPacketLengthStandard /\ mouseResetCount = 0
  /\ infoKnown = FALSE /\ attached = "starting"
  /\ stack = <<Script("defaults", 1, "id0")>>

-----------------------------------------------------------------------------
(* The mouse (external).                                                   *)

ModeLength == IF mode = 0 THEN kPacketLengthStandard ELSE kPacketLengthIntellimouse

\* A byte of a packet is sent when the port is free; `kind' is of Movement after
\* the first byte.
sendMovement(kind) ==
  /\ enabled /\ line = <<>>
  /\ kind = "sync" \/ next > 1
  /\ line' = <<[kind |-> kind, pos |-> next]>>
  /\ next' = IF next = ModeLength THEN 1 ELSE next + 1
  /\ UNCHANGED <<mode, enabled, rates, faults, driver, infoKnown, attached, stack>>

\* A movement or an acknowledge gets lost (not the announcement of a new mouse).
loseByte ==
  /\ faults < MaxFaults /\ attached = "started"
  /\ line # <<>> /\ Head(line).kind \in {"sync", "plain", "ack"}
  /\ line' = Tail(line) /\ faults' = faults + 1
  /\ UNCHANGED <<mouse, driver, infoKnown, attached, stack>>

\* The mouse is taken out and another one, or the same, is put in.
reconnect ==
  /\ faults < MaxFaults /\ attached = "started"
  /\ InPacket \/ (stack = <<>> /\ line = <<>> /\ packetBuffer = <<>>)
  /\ mode' = 0 /\ enabled' = FALSE /\ rates' = <<>> /\ next' = 1
  /\ line' = <<Answer("AA"), Answer("id0")>>
  /\ faults' = faults + 1
  /\ UNCHANGED <<driver, infoKnown, attached, stack>>

LastRates(new) == IF Len(rates) < 3 THEN Append(rates, new) ELSE Append(Tail(rates), new)
ModeAfter(history) ==
  CASE Capability # 0 /\ mode = 0 /\ history = <<"200", "100", "80">> -> 3
    [] Capability = 4 /\ mode = 3 /\ history = <<"200", "200", "80">> -> 4
    [] OTHER -> mode
Identification == CASE mode = 0 -> "id0" [] mode = 3 -> "id3" [] mode = 4 -> "id4"

\* A byte written to the mouse ends the packet it was sending and is acknowledged.
receiveCommand(c) ==
  /\ next' = 1
  /\ enabled' = CASE c = "F4" -> TRUE [] c \in {"F5", "F6"} -> FALSE [] OTHER -> enabled
  /\ rates' = IF c \in {"200", "100", "80", "rate"} THEN LastRates(c) ELSE rates
  /\ mode' = IF c \in {"200", "100", "80", "rate"} THEN ModeAfter(LastRates(c)) ELSE mode
  /\ line' = line \o <<Answer("ack")>> \o
               CASE c = "E9" -> <<Answer("plain"), Answer("plain"), Answer("plain")>>
                 [] c = "F2" -> <<Answer(Identification)>>
                 [] OTHER -> <<>>

-----------------------------------------------------------------------------
(* The interrupt routine.                                                  *)

\* Deviations: the count of resets is not looked at; a complete packet is left in
\* the buffer; a reconnected mouse is not noticed.
interruptOccurred_unlimited(b, frames) ==
  LET buffer == Append(packetBuffer, b)
      complete == Len(buffer) = packetLength
  IN
  IF packetBuffer = <<>> /\ Unsynchronised(b)
  THEN /\ mouseResetCount' = mouseResetCount + 1
       /\ stack' = Append(frames, Script("disable", 1, "id0"))
       /\ UNCHANGED <<packetBuffer, packetLength>>
  ELSE /\ packetBuffer' = IF complete THEN <<>> ELSE buffer
       /\ mouseResetCount' = IF complete THEN 0 ELSE mouseResetCount
       /\ stack' = frames
       /\ UNCHANGED packetLength

interruptOccurred_keepsPacket(b, frames) ==
  LET buffer == Append(packetBuffer, b) IN
  IF packetBuffer = <<>> /\ Unsynchronised(b)
  THEN stack' = Append(frames, Script("disable", 1, "id0")) /\ UNCHANGED driver
  ELSE /\ packetBuffer' = buffer
       /\ stack' = frames
       /\ UNCHANGED <<mouseResetCount, packetLength>>

interruptOccurred_deaf(b, frames) ==
  LET buffer == Append(packetBuffer, b)
      complete == Len(buffer) = packetLength
  IN
  IF packetBuffer = <<>> /\ Unsynchronised(b)
  THEN /\ IF mouseResetCount < ResetLimit
          THEN mouseResetCount' = mouseResetCount + 1 /\ stack' = Append(frames, Script("disable", 1, "id0"))
          ELSE UNCHANGED mouseResetCount /\ stack' = frames
       /\ UNCHANGED <<packetBuffer, packetLength>>
  ELSE /\ packetBuffer' = IF complete THEN <<>> ELSE buffer
       /\ mouseResetCount' = IF complete THEN 0 ELSE mouseResetCount
       /\ stack' = frames
       /\ UNCHANGED packetLength

\* A byte for the driver, while `frames' are under way.
interruptOccurred(b, frames) ==
  LET buffer == Append(packetBuffer, b)
      complete == Len(buffer) = packetLength
      reset == Append(frames, Script("disable", 1, "id0"))
  IN
  IF packetBuffer = <<>> /\ Unsynchronised(b)
  THEN /\ IF mouseResetCount < ResetLimit
          THEN mouseResetCount' = mouseResetCount + 1 /\ stack' = reset
          ELSE UNCHANGED mouseResetCount /\ stack' = frames
       /\ UNCHANGED <<packetBuffer, packetLength>>
  ELSE /\ packetBuffer' = IF complete THEN <<>> ELSE buffer
       /\ mouseResetCount' = IF complete THEN 0 ELSE mouseResetCount
       /\ stack' = IF ~complete /\ Len(buffer) = 2 /\ buffer[1].kind = "AA" THEN reset ELSE frames
       /\ UNCHANGED packetLength

\* The controller drops data for a driver that has no action installed.
dispatchDriverInterrupt(b, frames) ==
  IF attached = "started" THEN interruptOccurred(b, frames)
  ELSE stack' = frames /\ UNCHANGED driver

\* The work loop delivers a byte; no script is under way.
deliver ==
  /\ stack = <<>> /\ line # <<>>
  /\ line' = Tail(line)
  /\ dispatchDriverInterrupt(Head(line), <<>>)
  /\ UNCHANGED <<mouse, faults, infoKnown, attached>>

-----------------------------------------------------------------------------
(* Scripts.                                                                *)

Depth == Len(stack)
Top == stack[Depth]
Outer == SubSeq(stack, 1, Depth - 1)
With(f) == Append(Outer, f)
AtRequest == Depth > 0 /\ Top.req \in RequestName
CurrentByte == RequestBytes[Top.req][Top.part]

writeByte ==
  /\ AtRequest /\ ~Top.sent
  /\ stack' = With([Top EXCEPT !.sent = TRUE])
  /\ IF CurrentByte = "read" THEN UNCHANGED <<mouse, line>> ELSE receiveCommand(CurrentByte)
  /\ UNCHANGED <<faults, driver, infoKnown, attached>>

\* The request after this one; `type' is what has been found out about the mouse.
\* Sample rates and the resolution are submitted asynchronously: they are executed
\* ahead of the next synchronous request, the restored rate thus after resetMouse
\* has set the packet length.
Successor(type) ==
  CASE Top.req = "disable"    -> "defaults"
    [] Top.req = "defaults"   -> IF infoKnown THEN "resolution" ELSE "info"
    [] Top.req \in {"info", "resolution"} -> "rate200"
    [] Top.req = "rate200"    -> "rate100"
    [] Top.req = "rate100"    -> "rate80"
    [] Top.req = "rate80"     -> "id"
    [] Top.req = "id"         -> IF type = "id3" THEN "again200" ELSE "identified"
    [] Top.req = "again200"   -> "third200"
    [] Top.req = "third200"   -> "again80"
    [] Top.req = "again80"    -> "idAgain"
    [] Top.req = "idAgain"    -> "identified"
    [] Top.req = "identified" -> "restore"
    [] Top.req = "restore"    -> "commandByte"
    [] Top.req = "commandByte" -> "enable"
    [] Top.req = "stop"       -> "stopCommandByte"

GoOn(type) ==
  IF Top.req \in {"enable", "stopCommandByte"} THEN Outer
  ELSE With(Script(Successor(type), 1, type))

\* What the driver makes of the answer to its identification requests.
TypeFound(answer) ==
  CASE Top.req = "id"      -> IF answer \in {"id3", "id4"} THEN answer ELSE "id0"
    [] Top.req = "idAgain" -> IF answer = "id4" THEN "id4" ELSE "id3"
    [] OTHER -> Top.type

\* readDataPort returns `b', after dispatching `data' (one byte, or none).  An
\* acknowledge that was not found ends the request.
returnByte(b, data) ==
  LET fails == CurrentByte # "read" /\ b.kind # "ack"
      last == fails \/ Top.part = Len(RequestBytes[Top.req])
      frames == IF last THEN GoOn(TypeFound(IF fails THEN "none" ELSE b.kind))
                ELSE With(Script(Top.req, Top.part + 1, Top.type))
  IN  /\ infoKnown' = IF Top.req = "info" /\ last THEN ~fails ELSE infoKnown
      /\ IF data # <<>> THEN dispatchDriverInterrupt(data[1], frames)
         ELSE stack' = frames /\ UNCHANGED driver

\* Deviation: no second chance.
awaitByte_oneChance ==
  /\ AtRequest /\ Top.sent /\ line # <<>>
  /\ line' = Tail(line)
  /\ returnByte(Head(line), <<>>)
  /\ UNCHANGED <<mouse, faults, attached>>

\* readDataPort(kDT_Mouse, expected) meets a byte: a first one that is not expected
\* is held, a second one gives up.
awaitByte ==
  /\ AtRequest /\ Top.sent /\ line # <<>>
  /\ line' = Tail(line)
  /\ LET b == Head(line) IN
     IF CurrentByte = "read" \/ b.kind = "ack" THEN returnByte(b, Top.held)
     ELSE IF Top.held = <<>>
          THEN stack' = With([Top EXCEPT !.held = <<b>>]) /\ UNCHANGED <<driver, infoKnown>>
          ELSE returnByte(Top.held[1], <<b>>)
  /\ UNCHANGED <<mouse, faults, attached>>

\* The answer does not come: what was held, or a fake zero.
timeOut ==
  /\ AtRequest /\ Top.sent /\ line = <<>>
  /\ returnByte(IF Top.held # <<>> THEN Top.held[1] ELSE Answer("id0"), <<>>)
  /\ UNCHANGED <<mouse, line, faults, attached>>

\* resetMouse has the type of the mouse.
setPacketLength ==
  /\ Depth > 0 /\ Top.req = "identified"
  /\ packetLength' = IF Top.type = "id0" THEN kPacketLengthStandard ELSE kPacketLengthIntellimouse
  /\ packetBuffer' = <<>>
  /\ stack' = GoOn(Top.type)
  /\ UNCHANGED <<mouse, line, faults, mouseResetCount, infoKnown, attached>>

\* setCommandByte reads the keyboard stream; mouse data it meets is dispatched.
AtCommandByte == Depth > 0 /\ Top.req \in {"commandByte", "stopCommandByte"}

dispatchOtherStream ==
  /\ AtCommandByte /\ line # <<>>
  /\ line' = Tail(line)
  /\ dispatchDriverInterrupt(Head(line), stack)
  /\ UNCHANGED <<mouse, faults, infoKnown, attached>>

setCommandByte ==
  /\ AtCommandByte
  /\ stack' = GoOn(Top.type)
  /\ attached' = IF Top.req = "stopCommandByte" THEN "stopped" ELSE attached
  /\ UNCHANGED <<mouse, line, faults, driver, infoKnown>>

-----------------------------------------------------------------------------
(* Start and stop.                                                         *)

installInterruptAction ==
  /\ attached = "starting" /\ stack = <<>>
  /\ attached' = "started"
  /\ UNCHANGED <<mouse, line, faults, driver, infoKnown, stack>>

stop ==
  /\ attached = "started" /\ stack = <<>>
  /\ stack' = <<Script("stop", 1, "id0")>>
  /\ UNCHANGED <<mouse, line, faults, driver, infoKnown, attached>>

Gate ==
  \/ deliver \/ writeByte \/ awaitByte \/ timeOut \/ setPacketLength
  \/ dispatchOtherStream \/ setCommandByte

Next ==
  \/ Gate
  \/ \E kind \in Movement \cup {"sync"} : sendMovement(kind)
  \/ loseByte \/ reconnect
  \/ installInterruptAction \/ stop

Spec == Init /\ [][Next]_vars

\* The gate holder and the thread in start run, and the mouse is being moved.  A
\* driver that is out of step takes bytes of movements for the first of a packet;
\* not all of these have bit 3 set.  Mouse data does not hold up a read of the
\* keyboard stream for ever.
Fairness ==
  /\ WF_vars(Gate) /\ WF_vars(installInterruptAction)
  /\ WF_vars(sendMovement("sync"))
  /\ SF_vars(packetBuffer = <<>> /\ sendMovement("plain"))
  /\ SF_vars(setCommandByte)

FairSpec == Spec /\ Fairness

-----------------------------------------------------------------------------
(* Properties.                                                             *)

\* The packet buffer is never overrun: whenever a byte may come in there is room
\* for it, also while a reset that is about to shorten the packets is under way.
PacketFits == Len(packetBuffer) < packetLength /\ packetLength <= kPacketLengthMax

Running == attached = "started" /\ stack = <<>>

\* Without faults, a driver that is not resetting the mouse and the mouse agree on
\* the length of packets, and the mouse is enabled: movements that arrive among
\* the answers to a reset do not spoil the identification of the mouse.
ModeAgrees == Running /\ faults = 0 => enabled /\ packetLength = ModeLength

\* Resets nest (each needs a stretch of the kernel stack) no deeper than the limit
\* on consecutive resets, plus one for each fault.
NestingBounded ==
  LET resets == {k \in 1..Depth : stack[k].req \notin {"stop", "stopCommandByte"}}
  IN  Cardinality(resets) <= ResetLimit + faults

InStep ==
  /\ enabled /\ packetLength = ModeLength
  /\ \A k \in 1..Len(packetBuffer) : packetBuffer[k].pos = k

\* After the last fault the driver and the mouse get back in step for good: lost
\* bytes and a new mouse are noticed and answered by resets that come to an end.
Recovers ==
  \/ <>[](attached = "stopped")
  \/ []<>Running /\ <>[](Running => InStep)
=============================================================================
