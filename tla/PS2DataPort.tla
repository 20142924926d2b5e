---------------------------- MODULE PS2DataPort ----------------------------
(***************************************************************************)
(* The bytes of the PS/2 port: how ApplePS2Controller tells the answers to *)
(* its commands from the data the devices send on their own, and where     *)
(* each byte ends up.                                                      *)
(*                                                                         *)
(* Everything comes in through the one-byte output buffer of the 8042.     *)
(* Three parties take bytes out of it: the keyboard interrupt handler,     *)
(* which moves them to an internal queue; interruptOccurred, on the work   *)
(* loop; and readDataPort, which polls the buffer with the interrupt       *)
(* handler locked out.  A port program is the list of port accesses that   *)
(* the requests of one driver call (or a power change) make up.            *)
(***************************************************************************)
EXTENDS Integers, Sequences

CONSTANTS
  QueueSize,   \* kKeyboardQueueSize
  Data,        \* the bytes each device sends on its own, in order
  Programs,    \* the port programs that are run
  Timeouts     \* may an answer get lost, or be later than timeoutCounter allows?

Stream == {"Keyboard", "Mouse"}
Other(s) == IF s = "Keyboard" THEN "Mouse" ELSE "Keyboard"
Byte == 0..255

Acknowledge == 250               \* kSC_Acknowledge
EnableKeyboardIRQ == 1           \* kCB_EnableKeyboardIRQ
EnableMouseIRQ == 2              \* kCB_EnableMouseIRQ
Bit == {1, 2, 4, 8, 16, 32, 64, 128}

\* A command byte and its modification by setBits and clearBits.
Has(byte, b) == (byte \div b) % 2 = 1
SumOf(S) == (IF 1 \in S THEN 1 ELSE 0) + (IF 2 \in S THEN 2 ELSE 0)
          + (IF 4 \in S THEN 4 ELSE 0) + (IF 8 \in S THEN 8 ELSE 0)
          + (IF 16 \in S THEN 16 ELSE 0) + (IF 32 \in S THEN 32 ELSE 0)
          + (IF 64 \in S THEN 64 ELSE 0) + (IF 128 \in S THEN 128 ELSE 0)
Modified(byte, setBits, clearBits) ==
  SumOf(({b \in Bit : Has(byte, b)} \cup setBits) \ clearBits)

(***************************************************************************)
(* Port accesses.                                                          *)
(*   send      a command byte goes to a device, which will acknowledge it  *)
(*             and start or stop sending data of its own                   *)
(*   get       the controller is asked for its command byte, which comes   *)
(*             back as keyboard data                                       *)
(*   read      readDataPort of a stream                                    *)
(*   compare   readDataPort of a stream, expecting an acknowledge          *)
(*   test      readDataPort of the keyboard stream, expecting what the     *)
(*             last read returned                                          *)
(*   set       the last byte read, modified, becomes the command byte      *)
(*   freeze, unblock, uninstall, install                                   *)
(*             _hardwareOffline and the keyboard driver's interrupt action *)
(*             (its handler's registration with the platform and its event *)
(*             source, which come and go with the action, are left out: an *)
(*             uninstalled driver's line is disabled at the 8042)          *)
(* `left' is the number of accesses of the same request still to come.     *)
(***************************************************************************)
Access == [do : {"send", "get", "read", "compare", "test", "set", "freeze", "unblock",
                 "uninstall", "install"},
           stream : Stream, reports : BOOLEAN, setBits : SUBSET Bit, clearBits : SUBSET Bit,
           left : Nat]

ASSUME PortAssumption ==
  /\ QueueSize \in Nat \ {0}
  /\ Data \in [Stream -> Seq(Byte)]
  /\ \A p \in Programs : /\ p \in Seq(Access) /\ p # <<>>
                         /\ \A k \in DOMAIN p : p[k].do = "test" => k > 3
  /\ Timeouts \in BOOLEAN

VARIABLES
  unsent,          \* what each device is still to send on its own (external)
  reporting,       \* the devices that are enabled (external)
  answers,         \* per stream, bytes on their way to the output buffer (external)
  outputBuffer,    \* the output buffer of the 8042, empty or one byte (external)
  irq,             \* streams with a pending interrupt request (external)
  commandByte,     \* the command byte of the 8042 (external)
  keyboardQueue,   \* _keyboardQueue
  source,          \* signalled interrupt event sources
  hardwareOffline, \* _hardwareOffline
  installed,       \* streams with an installed interrupt action
  pc,              \* idle, loop (interruptOccurred), between (two accesses), await (readDataPort)
  toRun,           \* the programs not yet run (bound: each is run once)
  program, at,     \* the program that runs, and its current access
  held,            \* firstByte of readDataPort, if held
  lastRead,        \* what the last ReadDataPort primitive returned
  dispatched,      \* per stream, the bytes given to the driver (history)
  failed           \* an expected byte was not found (history)

device == <<unsent, reporting, answers>>
vars == <<unsent, reporting, answers, outputBuffer, irq, commandByte, keyboardQueue, source,
          hardwareOffline, installed, pc, toRun, program, at, held, lastRead, dispatched, failed>>

Slot == [stream : Stream, data : Byte]

TypeOK ==
  /\ unsent \in [Stream -> Seq(Byte)] /\ reporting \subseteq Stream
  /\ answers \in [Stream -> Seq(Byte)]
  /\ outputBuffer \in Seq(Slot) /\ Len(outputBuffer) <= 1
  /\ irq \subseteq Stream
  /\ commandByte \in Byte
  /\ keyboardQueue \in Seq(Byte) /\ Len(keyboardQueue) <= QueueSize
  /\ source \subseteq Stream
  /\ hardwareOffline \in BOOLEAN
  /\ installed \subseteq Stream
  /\ pc \in {"idle", "loop", "between", "await"}
  /\ toRun \subseteq Programs /\ program \in Seq(Access) /\ at \in 0..Len(program)
  /\ held \in Seq(Byte) /\ Len(held) <= 1
  /\ lastRead \in Byte
  /\ dispatched \in [Stream -> Seq(Byte)]
  /\ failed \in BOOLEAN

\* Both drivers are attached and their devices enabled: 71 is the system flag,
\* translation and both interrupt lines.
Init ==
  /\ unsent = Data /\ reporting = Stream
  /\ answers = [s \in Stream |-> <<>>]
  /\ outputBuffer = <<>> /\ irq = {}
  /\ commandByte = 71
  /\ keyboardQueue = <<>> /\ source = {}
  /\ hardwareOffline = FALSE /\ installed = Stream
  /\ pc = "idle" /\ toRun = Programs /\ program = <<>> /\ at = 0
  /\ held = <<>> /\ lastRead = 0
  /\ dispatched = [s \in Stream |-> <<>>]
  /\ failed = FALSE

-----------------------------------------------------------------------------
(* The devices and the 8042, as the code relies on them (external).        *)

\* A device reports a key or a movement: one byte enters its stream.
deviceReports(s) ==
  /\ s \in reporting /\ unsent[s] # <<>>
  /\ unsent' = [unsent EXCEPT ![s] = Tail(@)]
  /\ answers' = [answers EXCEPT ![s] = Append(@, Head(unsent[s]))]
  /\ UNCHANGED <<reporting, outputBuffer, irq, commandByte, keyboardQueue, source,
                 hardwareOffline, installed, pc, toRun, program, at, held, lastRead, dispatched, failed>>

\* A byte gets lost on the way: a device that does not answer.
loseByte(s) ==
  /\ Timeouts /\ answers[s] # <<>>
  /\ answers' = [answers EXCEPT ![s] = Tail(@)]
  /\ UNCHANGED <<unsent, reporting, outputBuffer, irq, commandByte, keyboardQueue, source,
                 hardwareOffline, installed, pc, toRun, program, at, held, lastRead,
                 dispatched, failed>>

LineEnabled(s) ==
  Has(commandByte, IF s = "Keyboard" THEN EnableKeyboardIRQ ELSE EnableMouseIRQ)

\* The next byte of a stream fills the output buffer and raises its interrupt.
fillOutputBuffer(s) ==
  /\ outputBuffer = <<>> /\ answers[s] # <<>>
  /\ outputBuffer' = <<[stream |-> s, data |-> Head(answers[s])]>>
  /\ answers' = [answers EXCEPT ![s] = Tail(@)]
  /\ irq' = IF LineEnabled(s) THEN irq \cup {s} ELSE irq
  /\ UNCHANGED <<unsent, reporting, commandByte, keyboardQueue, source, hardwareOffline,
                 installed, pc, toRun, program, at, held, lastRead, dispatched, failed>>

-----------------------------------------------------------------------------
(* Interrupt handlers.  lockController keeps the keyboard handler out while*)
(* readDataPort polls the port.                                            *)

Ready == outputBuffer # <<>>
InputStream == outputBuffer[1].stream
InputByte == outputBuffer[1].data

\* Deviations: the unused queue is not looked at; a scan code is entered in front.
enqueueKeyboardData_unchecked(key) == keyboardQueue' = Append(keyboardQueue, key)

enqueueKeyboardData_front(key) ==
  keyboardQueue' = IF Len(keyboardQueue) < QueueSize THEN <<key>> \o keyboardQueue
                   ELSE keyboardQueue

\* A full queue drops the new scan code.
enqueueKeyboardData(key) ==
  keyboardQueue' = IF Len(keyboardQueue) < QueueSize THEN Append(keyboardQueue, key)
                   ELSE keyboardQueue

\* Deviation: the work loop is not woken.
interruptHandlerKeyboard_silent ==
  /\ "Keyboard" \in irq /\ pc # "await"
  /\ irq' = irq \ {"Keyboard"}
  /\ IF Ready /\ InputStream = "Keyboard"
     THEN enqueueKeyboardData(InputByte) /\ outputBuffer' = <<>>
     ELSE UNCHANGED <<keyboardQueue, outputBuffer>>
  /\ UNCHANGED <<device, source, commandByte, hardwareOffline, installed, pc, toRun, program,
                 at, held, lastRead, dispatched, failed>>

interruptHandlerKeyboard ==
  /\ "Keyboard" \in irq /\ pc # "await"
  /\ irq' = irq \ {"Keyboard"}
  /\ IF Ready /\ InputStream = "Keyboard"
     THEN enqueueKeyboardData(InputByte) /\ outputBuffer' = <<>>
     ELSE UNCHANGED <<keyboardQueue, outputBuffer>>
  /\ source' = IF Ready THEN source \cup {InputStream} ELSE source
  /\ UNCHANGED <<device, commandByte, hardwareOffline, installed, pc, toRun, program, at, held,
                 lastRead, dispatched, failed>>

interruptHandlerMouse ==
  /\ "Mouse" \in irq
  /\ irq' = irq \ {"Mouse"}
  /\ source' = source \cup {"Mouse"}
  /\ UNCHANGED <<device, outputBuffer, commandByte, keyboardQueue, hardwareOffline, installed,
                 pc, toRun, program, at, held, lastRead, dispatched, failed>>

-----------------------------------------------------------------------------
(* interruptOccurred, on the work loop.                                    *)

dispatchDriverInterrupt(s, byte) ==
  dispatched' = IF s \in installed THEN [dispatched EXCEPT ![s] = Append(@, byte)] ELSE dispatched

interruptOccurred ==
  /\ pc = "idle" /\ source # {}
  /\ \E s \in source : source' = source \ {s}
  /\ pc' = IF hardwareOffline THEN "idle" ELSE "loop"
  /\ UNCHANGED <<device, outputBuffer, irq, commandByte, keyboardQueue, hardwareOffline,
                 installed, toRun, program, at, held, lastRead, dispatched, failed>>

\* One turn of its loop: a queued scan code, else a mouse byte off the port.
serveInput ==
  /\ pc = "loop"
  /\ IF keyboardQueue # <<>>
     THEN /\ dispatchDriverInterrupt("Keyboard", Head(keyboardQueue))
          /\ keyboardQueue' = Tail(keyboardQueue)
          /\ UNCHANGED <<outputBuffer, pc>>
     ELSE IF Ready /\ InputStream = "Mouse"
          THEN /\ dispatchDriverInterrupt("Mouse", InputByte)
               /\ outputBuffer' = <<>>
               /\ UNCHANGED <<keyboardQueue, pc>>
          ELSE pc' = "idle" /\ UNCHANGED <<keyboardQueue, outputBuffer, dispatched>>
  /\ UNCHANGED <<device, irq, commandByte, source, hardwareOffline, installed, toRun, program, at,
                 held, lastRead, failed>>

-----------------------------------------------------------------------------
(* Port programs, inside the gate.                                         *)

beginProgram(p) ==
  /\ pc = "idle" /\ p \in toRun
  /\ hardwareOffline <=> \E k \in DOMAIN p : p[k].do = "unblock"
  /\ toRun' = toRun \ {p} /\ program' = p /\ at' = 1 /\ pc' = "between"
  /\ UNCHANGED <<device, outputBuffer, irq, commandByte, keyboardQueue, source,
                 hardwareOffline, installed, held, lastRead, dispatched, failed>>

Now == program[at]
AtAccess(kinds) == pc = "between" /\ Now.do \in kinds

\* The program goes on at access n; after its last access it is over.
GoTo(n) ==
  IF n > Len(program) THEN program' = <<>> /\ at' = 0 /\ pc' = "idle"
  ELSE at' = n /\ pc' = "between" /\ UNCHANGED program

\* Every access that does not read.
access ==
  /\ AtAccess({"send", "get", "set", "freeze", "unblock", "uninstall", "install"})
  /\ answers' =
       CASE Now.do = "send" -> [answers EXCEPT ![Now.stream] = Append(@, Acknowledge)]
         [] Now.do = "get"  -> [answers EXCEPT !["Keyboard"] = Append(@, commandByte)]
         [] OTHER -> answers
  /\ reporting' = IF Now.do # "send" THEN reporting
                  ELSE IF Now.reports THEN reporting \cup {Now.stream}
                  ELSE reporting \ {Now.stream}
  /\ commandByte' = IF Now.do = "set" THEN Modified(lastRead, Now.setBits, Now.clearBits)
                    ELSE commandByte
  /\ hardwareOffline' = CASE Now.do = "freeze" -> TRUE
                          [] Now.do = "unblock" -> FALSE
                          [] OTHER -> hardwareOffline
  /\ installed' = CASE Now.do = "uninstall" -> installed \ {"Keyboard"}
                    [] Now.do = "install" -> installed \cup {"Keyboard"}
                    [] OTHER -> installed
  /\ GoTo(at + 1)
  /\ UNCHANGED <<unsent, outputBuffer, irq, keyboardQueue, source, toRun, held, lastRead, dispatched,
                 failed>>

Reading == {"read", "compare", "test"}
Expected == IF Now.do = "compare" THEN Acknowledge ELSE lastRead

\* Deviation: the test of the test-and-set is not looked at.
returnByte_noRetry(byte) ==
  /\ held' = <<>>
  /\ lastRead' = IF Now.do = "read" THEN byte ELSE lastRead
  /\ failed' = (failed \/ (Now.do = "compare" /\ byte # Expected))
  /\ GoTo(IF Now.do = "compare" /\ byte # Expected THEN at + 1 + Now.left ELSE at + 1)

\* readDataPort is done, with `byte'.  A mismatch ends the request: its accesses
\* that are left are skipped, and what comes next is the following request of the
\* driver, or for the test of a test-and-set another round (three accesses back).
returnByte(byte) ==
  /\ held' = <<>>
  /\ lastRead' = IF Now.do = "read" THEN byte ELSE lastRead
  /\ failed' = (failed \/ (Now.do = "compare" /\ byte # Expected))
  /\ GoTo(IF Now.do = "test" /\ byte # Expected THEN at - 3
          ELSE IF Now.do = "compare" /\ byte # Expected THEN at + 1 + Now.left
          ELSE at + 1)

\* Deviations: the held byte is not dispatched; there is no second chance.
receiveByte_dropsHeld(byte) ==
  IF Now.do = "read" \/ byte = Expected
  THEN returnByte(byte) /\ UNCHANGED dispatched
  ELSE IF held = <<>>
       THEN held' = <<byte>> /\ pc' = "between"
            /\ UNCHANGED <<lastRead, failed, program, at, dispatched>>
       ELSE returnByte(held[1]) /\ dispatchDriverInterrupt(Now.stream, byte)

receiveByte_oneChance(byte) == returnByte(byte) /\ UNCHANGED dispatched

\* A byte of the requested stream.  The first one that is not expected is held;
\* after it comes a second chance.
receiveByte(byte) ==
  IF Now.do = "read" \/ byte = Expected
  THEN /\ returnByte(byte)
       /\ IF held # <<>> THEN dispatchDriverInterrupt(Now.stream, held[1])
          ELSE UNCHANGED dispatched
  ELSE IF held = <<>>
       THEN held' = <<byte>> /\ pc' = "between"
            /\ UNCHANGED <<lastRead, failed, program, at, dispatched>>
       ELSE returnByte(held[1]) /\ dispatchDriverInterrupt(Now.stream, byte)

\* The top of readDataPort's loop: queued scan codes come first, otherwise the
\* port is polled with the interrupt handler locked out.
readDataPort ==
  /\ AtAccess(Reading)
  /\ IF Now.stream = "Keyboard" /\ keyboardQueue # <<>>
     THEN /\ receiveByte(Head(keyboardQueue))
          /\ keyboardQueue' = Tail(keyboardQueue)
     ELSE /\ pc' = "await"
          /\ UNCHANGED <<keyboardQueue, held, lastRead, failed, program, at, dispatched>>
  /\ UNCHANGED <<device, outputBuffer, irq, commandByte, source, hardwareOffline, installed, toRun>>

\* The output buffer is full.  A byte of the other stream is dispatched at once.
readOutputBuffer ==
  /\ pc = "await" /\ Ready
  /\ outputBuffer' = <<>>
  /\ IF InputStream = Now.stream THEN receiveByte(InputByte)
     ELSE /\ dispatchDriverInterrupt(Other(Now.stream), InputByte)
          /\ pc' = "between"
          /\ UNCHANGED <<held, lastRead, failed, program, at>>
  /\ UNCHANGED <<device, irq, commandByte, keyboardQueue, source, hardwareOffline, installed, toRun>>

\* Deviation: the port is polled again.
timeOut_polls == FALSE /\ UNCHANGED vars

\* timeoutCounter has run down: the held byte is returned, or a fake zero.
timeOut ==
  /\ Timeouts /\ pc = "await" /\ ~Ready
  /\ returnByte(IF held # <<>> THEN held[1] ELSE 0)
  /\ UNCHANGED <<device, outputBuffer, irq, commandByte, keyboardQueue, source,
                 hardwareOffline, installed, toRun, dispatched>>

WorkLoop == interruptOccurred \/ serveInput \/ access \/ readDataPort \/ readOutputBuffer \/ timeOut

Next ==
  \/ \E s \in Stream : deviceReports(s) \/ loseByte(s) \/ fillOutputBuffer(s)
  \/ interruptHandlerKeyboard \/ interruptHandlerMouse
  \/ \E p \in Programs : beginProgram(p)
  \/ WorkLoop

Spec == Init /\ [][Next]_vars

\* The devices, the interrupt handlers and the work loop all get their turn;
\* which program is started when is left open.
Fairness ==
  /\ \A s \in Stream : WF_vars(deviceReports(s)) /\ WF_vars(fillOutputBuffer(s))
  /\ WF_vars(interruptHandlerKeyboard) /\ WF_vars(interruptHandlerMouse)
  /\ WF_vars(WorkLoop)

FairSpec == Spec /\ Fairness

-----------------------------------------------------------------------------
(* Properties.                                                             *)

\* What a driver's interrupt routine is given is what its device sent, in order:
\* no answer to a command, and no byte skipped, repeated or overtaken.
DeliveredInOrder ==
  \A s \in Stream : /\ Len(dispatched[s]) <= Len(Data[s])
                    /\ \A k \in 1..Len(dispatched[s]) : dispatched[s][k] = Data[s][k]

\* A byte in the output buffer or on the keyboard queue is never forgotten by an
\* idle work loop: an interrupt is pending or an event source is signalled.
NoStuckInput ==
  (Ready \/ keyboardQueue # <<>>) /\ pc = "idle" /\ ~hardwareOffline => irq # {} \/ source # {}

\* The out-of-order data correction: an acknowledge that is expected is found.
AcknowledgeFound == ~failed

\* The command byte only ever changes to a modification of the value it has.
CommandByteAtomic ==
  [][commandByte' # commandByte =>
       commandByte' = Modified(commandByte, Now.setBits, Now.clearBits)]_vars

\* Scan codes reach the keyboard driver in the order the keyboard sent them, also
\* when some are dropped because the queue is full or are taken for an answer.
\* (For keys that are distinct.)
KeysInOrder ==
  LET keys == Data["Keyboard"]
      seen == dispatched["Keyboard"]
  IN  \A j, k \in 1..Len(seen) : \A m, n \in 1..Len(keys) :
        j < k /\ seen[j] = keys[m] /\ seen[k] = keys[n] => m < n

\* Everything the devices send reaches their drivers.
Delivered == <>(\A s \in Stream : dispatched[s] = Data[s])

\* A device that does not answer does not lock up the controller: every port
\* program comes to its end, and so does every interrupt.
NeverLocksUp == pc # "idle" ~> pc = "idle"
=============================================================================
