------------------------- MODULE PS2DataPortProofs -------------------------
(***************************************************************************)
(* Proofs about the data port, for all port programs, all data the devices *)
(* send on their own and every size of the keyboard queue: types, input    *)
(* that is never forgotten, the order of the bytes, the correction for     *)
(* acknowledges that come out of order, and the test-and-set of the        *)
(* command byte.                                                           *)
(***************************************************************************)
EXTENDS PS2DataPort, SequenceTheorems, TLAPS

-----------------------------------------------------------------------------
(* Types.                                                                  *)

\* A program under way is one of the programs, at one of its accesses; a byte is
\* held, and the port polled, by a readDataPort only.
Running ==
  /\ pc \in {"between", "await"} => program \in Programs /\ at \in 1..Len(program)
  /\ pc = "await" => Now.do \in Reading
  /\ held # <<>> => pc \in {"between", "await"} /\ Now.do \in Reading

\* TypeOK, and what makes it inductive.
TypeInv == TypeOK /\ Running

LEMMA SeqFacts ==
  ASSUME NEW S, NEW s \in Seq(S), NEW x \in S
  PROVE  /\ Append(s, x) \in Seq(S) /\ Len(Append(s, x)) = Len(s) + 1
         /\ Len(s) \in Nat /\ <<>> \in Seq(S) /\ <<x>> \in Seq(S)
         /\ s # <<>> => /\ Tail(s) \in Seq(S) /\ Head(s) \in S /\ Len(s) >= 1
                        /\ Len(Tail(s)) = Len(s) - 1 /\ Head(s) = s[1] /\ s[1] \in S
  BY EmptySeq, AppendProperties, HeadTailProperties, LenProperties

\* A modified command byte is a byte.
LEMMA ModifiedByte ==
  ASSUME NEW byte, NEW set, NEW clear
  PROVE  Modified(byte, set, clear) \in Byte
<1>1. ASSUME NEW S
      PROVE  SumOf(S) \in Byte
  BY DEF SumOf, Byte
<1> QED  BY <1>1 DEF Modified

LEMMA NoneBelow == ASSUME NEW n \in Nat, 1..n = {} PROVE n = 0
  OBVIOUS

LEMMA OnlyFirst == ASSUME NEW n \in Nat, ~(1 < n), NEW k \in 1..n PROVE k = 1 /\ n = 1
  OBVIOUS

LEMMA AtMostOne == ASSUME NEW n \in Nat, n <= 1, NEW k \in 1..n PROVE k = 1 /\ n = 1
  OBVIOUS

LEMMA OnlyOne == ASSUME NEW n \in Nat \ {0}, n <= 1 PROVE n = 1
  OBVIOUS

\* The access a program is at.
LEMMA AtNow ==
  ASSUME TypeInv, pc \in {"between", "await"}
  PROVE  /\ program \in Programs /\ program \in Seq(Access) /\ program # <<>>
         /\ at \in 1..Len(program) /\ Now = program[at] /\ Now \in Access
         /\ at \in Nat /\ Len(program) \in Nat
         /\ Now.stream \in Stream /\ Now.left \in Nat /\ (Now.do = "test" => at - 3 \in 1..Len(program))
<1>1. program \in Programs /\ at \in 1..Len(program)
  BY DEF TypeInv, Running
<1>2. program \in Seq(Access) /\ program # <<>> /\ Len(program) \in Nat /\ DOMAIN program = 1..Len(program)
  BY <1>1, PortAssumption, LenProperties
<1>3. Now = program[at] /\ Now \in Access
  BY <1>1, <1>2, ElementOfSeq DEF Now
<1>4. Now.stream \in Stream /\ Now.left \in Nat
  BY <1>3 DEF Access
<1>5. Now.do = "test" => at > 3
  BY <1>1, <1>2, <1>3, PortAssumption
<1> QED  BY <1>1, <1>2, <1>3, <1>4, <1>5

\* Where a program goes on.
LEMMA GoToRuns ==
  ASSUME TypeInv, pc \in {"between", "await"}, NEW n \in Nat \ {0}, GoTo(n)
  PROVE  /\ pc' \in {"idle", "between"}
         /\ program' \in Seq(Access) /\ at' \in 0..Len(program')
         /\ pc' = "between" => program' \in Programs /\ program' = program /\ at' = n
                               /\ n \in 1..Len(program')
<1>1. program \in Programs /\ program \in Seq(Access) /\ Len(program) \in Nat
  BY AtNow
<1>2. CASE n > Len(program)
  <2>1. program' = <<>> /\ at' = 0 /\ pc' = "idle"
    BY <1>2 DEF GoTo
  <2> QED  BY <2>1, EmptySeq
<1>3. CASE ~(n > Len(program))
  <2>1. program' = program /\ at' = n /\ pc' = "between"
    BY <1>3 DEF GoTo
  <2> QED  BY <2>1, <1>1, <1>3
<1> QED  BY <1>2, <1>3

\* The end of readDataPort.
LEMMA ReturnRuns ==
  ASSUME TypeInv, pc \in {"between", "await"}, Now.do \in Reading,
         NEW byte \in Byte, returnByte(byte)
  PROVE  /\ held' = <<>> /\ lastRead' \in Byte /\ failed' \in BOOLEAN
         /\ pc' \in {"idle", "between"}
         /\ program' \in Seq(Access) /\ at' \in 0..Len(program')
         /\ pc' = "between" => program' \in Programs /\ program' = program
                               /\ at' \in 1..Len(program')
<1> DEFINE n == IF Now.do = "test" /\ byte # Expected THEN at - 3
                ELSE IF Now.do = "compare" /\ byte # Expected THEN at + 1 + Now.left
                ELSE at + 1
<1>1. n \in Nat \ {0}
  BY AtNow
<1>2. GoTo(n) /\ held' = <<>>
  BY DEF returnByte
<1>3. lastRead' \in Byte /\ failed' \in BOOLEAN
  BY DEF returnByte, TypeInv, TypeOK
<1> HIDE DEF n
<1>4. /\ pc' \in {"idle", "between"}
      /\ program' \in Seq(Access) /\ at' \in 0..Len(program')
      /\ pc' = "between" => program' \in Programs /\ program' = program /\ at' = n
                            /\ n \in 1..Len(program')
  BY <1>1, <1>2, GoToRuns
<1> QED  BY <1>1, <1>2, <1>3, <1>4

LEMMA DispatchTyped ==
  ASSUME TypeInv, NEW s \in Stream, NEW byte \in Byte, dispatchDriverInterrupt(s, byte)
  PROVE  /\ dispatched' \in [Stream -> Seq(Byte)]
         /\ \A r \in Stream \ {s} : dispatched'[r] = dispatched[r]
         /\ dispatched'[s] = IF s \in installed THEN Append(dispatched[s], byte) ELSE dispatched[s]
  BY SeqFacts DEF dispatchDriverInterrupt, TypeInv, TypeOK

\* The four ways of a byte of the stream that is read: it is what was looked for,
\* and a held byte is dispatched; it is held itself; it is the second one that was not
\* looked for, and is dispatched.
LEMMA ReceiveRuns ==
  ASSUME TypeInv, pc \in {"between", "await"}, Now.do \in Reading,
         NEW byte \in Byte, receiveByte(byte)
  PROVE  /\ held' \in Seq(Byte) /\ Len(held') <= 1 /\ lastRead' \in Byte /\ failed' \in BOOLEAN
         /\ dispatched' \in [Stream -> Seq(Byte)]
         /\ pc' \in {"idle", "between"}
         /\ program' \in Seq(Access) /\ at' \in 0..Len(program')
         /\ pc' = "between" => program' \in Programs /\ at' \in 1..Len(program')
         /\ held' # <<>> => pc' = "between" /\ program' = program /\ at' = at
<1>1. Now.stream \in Stream /\ program \in Programs /\ program \in Seq(Access)
      /\ at \in 1..Len(program) /\ at \in 0..Len(program)
  BY AtNow
<1>2. held \in Seq(Byte) /\ (held # <<>> => held[1] \in Byte)
  BY SeqFacts DEF TypeInv, TypeOK
<1>3. dispatched \in [Stream -> Seq(Byte)]
  BY DEF TypeInv, TypeOK
<1>4. CASE Now.do = "read" \/ byte = Expected
  <2>1. returnByte(byte)
    BY <1>4 DEF receiveByte
  <2>2. dispatched' \in [Stream -> Seq(Byte)]
    <3>1. CASE held # <<>>
      BY <1>4, <3>1, <1>1, <1>2, DispatchTyped DEF receiveByte
    <3>2. CASE held = <<>>
      BY <1>4, <3>2, <1>3 DEF receiveByte
    <3> QED  BY <3>1, <3>2
  <2>3. held' = <<>> => held' \in Seq(Byte) /\ Len(held') <= 1
    BY EmptySeq
  <2> QED  BY <2>1, <2>2, <2>3, ReturnRuns
<1>5. CASE ~(Now.do = "read" \/ byte = Expected) /\ held = <<>>
  <2>1. /\ held' = <<byte>> /\ pc' = "between" /\ lastRead' = lastRead /\ failed' = failed
        /\ program' = program /\ at' = at /\ dispatched' = dispatched
    BY <1>5 DEF receiveByte
  <2>2. held' \in Seq(Byte) /\ Len(held') = 1
    BY <2>1
  <2>3. lastRead \in Byte /\ failed \in BOOLEAN
    BY DEF TypeInv, TypeOK
  <2> QED  BY <2>1, <2>2, <2>3, <1>1, <1>3
<1>6. CASE ~(Now.do = "read" \/ byte = Expected) /\ held # <<>>
  <2>1. returnByte(held[1]) /\ dispatchDriverInterrupt(Now.stream, byte)
    BY <1>6 DEF receiveByte
  <2>2. held[1] \in Byte
    BY <1>2, <1>6
  <2>3. held' = <<>> => held' \in Seq(Byte) /\ Len(held') <= 1
    BY EmptySeq
  <2>4. dispatched' \in [Stream -> Seq(Byte)]
    BY <2>1, <1>1, DispatchTyped
  <2> QED  BY <2>1, <2>2, <2>3, <2>4, ReturnRuns
<1> QED  BY <1>4, <1>5, <1>6

LEMMA BufferFacts ==
  ASSUME TypeInv, Ready
  PROVE  /\ outputBuffer = <<outputBuffer[1]>> /\ outputBuffer[1] \in Slot
         /\ InputStream \in Stream /\ InputByte \in Byte
<1>1. outputBuffer \in Seq(Slot) /\ Len(outputBuffer) <= 1 /\ outputBuffer # <<>>
  BY DEF TypeInv, TypeOK, Ready
<1>2. Len(outputBuffer) \in Nat \ {0} /\ Len(outputBuffer) <= 1
  BY <1>1, EmptySeq
<1>3. Len(outputBuffer) = 1
  BY <1>2, OnlyOne, Zenon
<1>4. outputBuffer[1] \in Slot
  BY <1>1, <1>3, ElementOfSeq
<1>5. outputBuffer = <<outputBuffer[1]>>
  BY <1>1, <1>3
<1> QED  BY <1>4, <1>5 DEF Slot, InputStream, InputByte

LEMMA InitTyped == Init => TypeInv
<1> SUFFICES ASSUME Init PROVE TypeInv
  OBVIOUS
<1>1. 71 \in Byte /\ 0 \in Byte
  BY DEF Byte
<1>2. TypeOK
  <2>1. /\ <<>> \in Seq(Byte) /\ <<>> \in Seq(Slot) /\ <<>> \in Seq(Access)
        /\ Len(<<>>) = 0 /\ QueueSize \in Nat
    BY EmptySeq, PortAssumption
  <2>2. [s \in Stream |-> <<>>] \in [Stream -> Seq(Byte)]
    BY <2>1
  <2>3. keyboardQueue \in Seq(Byte) /\ Len(keyboardQueue) <= QueueSize
    BY <2>1 DEF Init
  <2>4. outputBuffer \in Seq(Slot) /\ Len(outputBuffer) <= 1 /\ held \in Seq(Byte) /\ Len(held) <= 1
    BY <2>1 DEF Init
  <2>5. program \in Seq(Access) /\ at \in 0..Len(program)
    BY <2>1 DEF Init
  <2> QED  BY <1>1, <2>2, <2>3, <2>4, <2>5, PortAssumption DEF Init, TypeOK
<1>3. Running
  BY DEF Init, Running
<1> QED  BY <1>2, <1>3 DEF TypeInv

\* The devices and the interrupt handlers keep the types.
LEMMA HardwareTyped ==
  ASSUME TypeInv, NEW s \in Stream, deviceReports(s) \/ loseByte(s) \/ fillOutputBuffer(s)
                                    \/ interruptHandlerKeyboard \/ interruptHandlerMouse
  PROVE  TypeInv'
<1>1. pc' = pc /\ program' = program /\ at' = at /\ held' = held
  BY DEF deviceReports, loseByte, fillOutputBuffer, interruptHandlerKeyboard,
         interruptHandlerMouse
<1>2. Running'
  BY <1>1 DEF TypeInv, Running, Now, Reading
<1>3. unsent[s] \in Seq(Byte) /\ answers[s] \in Seq(Byte)
  BY DEF TypeInv, TypeOK
<1>4. CASE deviceReports(s)
  <2>1. Tail(unsent[s]) \in Seq(Byte) /\ Append(answers[s], Head(unsent[s])) \in Seq(Byte)
    BY <1>3, <1>4, SeqFacts DEF deviceReports
  <2> QED  BY <1>2, <1>4, <2>1 DEF deviceReports, TypeInv, TypeOK
<1>5. CASE loseByte(s)
  <2>1. Tail(answers[s]) \in Seq(Byte)
    BY <1>3, <1>5, SeqFacts DEF loseByte
  <2> QED  BY <1>2, <1>5, <2>1 DEF loseByte, TypeInv, TypeOK
<1>6. CASE fillOutputBuffer(s)
  <2>1. Tail(answers[s]) \in Seq(Byte) /\ Head(answers[s]) \in Byte
    BY <1>3, <1>6, SeqFacts DEF fillOutputBuffer
  <2>2. [stream |-> s, data |-> Head(answers[s])] \in Slot
    BY <2>1 DEF Slot
  <2>3. outputBuffer' \in Seq(Slot) /\ Len(outputBuffer') <= 1
    BY <2>2, <1>6 DEF fillOutputBuffer
  <2> QED  BY <1>2, <1>6, <2>1, <2>3 DEF fillOutputBuffer, TypeInv, TypeOK
<1>7. CASE interruptHandlerKeyboard
  <2>1. Ready => InputStream \in Stream /\ InputByte \in Byte
    BY BufferFacts
  <2>2. source' \subseteq Stream
    BY <1>7, <2>1 DEF interruptHandlerKeyboard, TypeInv, TypeOK
  <2>3. keyboardQueue \in Seq(Byte) /\ Len(keyboardQueue) <= QueueSize /\ Len(keyboardQueue) \in Nat
        /\ QueueSize \in Nat
    BY LenProperties, PortAssumption DEF TypeInv, TypeOK
  <2>4. outputBuffer' \in Seq(Slot) /\ Len(outputBuffer') <= 1
    <3>1. <<>> \in Seq(Slot) /\ Len(<<>>) = 0
      BY EmptySeq
    <3>2. outputBuffer' = <<>> \/ outputBuffer' = outputBuffer
      BY <1>7 DEF interruptHandlerKeyboard
    <3>3. outputBuffer \in Seq(Slot) /\ Len(outputBuffer) <= 1
      BY DEF TypeInv, TypeOK
    <3>4. CASE outputBuffer' = <<>>
      BY <3>1, <3>4
    <3> QED  BY <3>2, <3>3, <3>4
  <2>5. keyboardQueue' \in Seq(Byte) /\ Len(keyboardQueue') <= QueueSize
    <3>1. CASE Ready /\ InputStream = "Keyboard" /\ Len(keyboardQueue) < QueueSize
      <4>1. keyboardQueue' = Append(keyboardQueue, InputByte)
        BY <1>7, <3>1 DEF interruptHandlerKeyboard, enqueueKeyboardData
      <4> QED  BY <4>1, <3>1, <2>1, <2>3, SeqFacts
    <3>2. CASE ~(Ready /\ InputStream = "Keyboard" /\ Len(keyboardQueue) < QueueSize)
      BY <1>7, <3>2, <2>3 DEF interruptHandlerKeyboard, enqueueKeyboardData
    <3> QED  BY <3>1, <3>2
  <2>6. irq' \subseteq Stream
    BY <1>7 DEF interruptHandlerKeyboard, TypeInv, TypeOK
  <2> QED  BY <1>2, <1>7, <2>2, <2>4, <2>5, <2>6 DEF interruptHandlerKeyboard, TypeInv, TypeOK, device
<1>8. CASE interruptHandlerMouse
  BY <1>2, <1>8 DEF interruptHandlerMouse, TypeInv, TypeOK, device, Stream
<1> QED  BY <1>4, <1>5, <1>6, <1>7, <1>8

\* interruptOccurred and the programs.
LEMMA WorkTyped ==
  ASSUME TypeInv, WorkLoop \/ \E p \in Programs : beginProgram(p)
  PROVE  TypeInv'
<1> USE DEF TypeInv
<1>q. keyboardQueue \in Seq(Byte) /\ Len(keyboardQueue) <= QueueSize /\ QueueSize \in Nat
      /\ (keyboardQueue # <<>> => /\ Head(keyboardQueue) \in Byte
                                  /\ Tail(keyboardQueue) \in Seq(Byte)
                                  /\ Len(Tail(keyboardQueue)) <= QueueSize)
  <2>1. keyboardQueue \in Seq(Byte) /\ Len(keyboardQueue) <= QueueSize /\ QueueSize \in Nat
    BY PortAssumption DEF TypeOK
  <2>2. keyboardQueue # <<>> => /\ Head(keyboardQueue) \in Byte
                                /\ Tail(keyboardQueue) \in Seq(Byte)
                                /\ Len(Tail(keyboardQueue)) = Len(keyboardQueue) - 1
    BY <2>1, HeadTailProperties
  <2> QED  BY <2>1, <2>2, LenProperties
<1>1. CASE interruptOccurred
  BY <1>1 DEF interruptOccurred, TypeOK, Running, Now, Reading, device
<1>2. CASE serveInput
  <2>1. Ready => InputStream \in Stream /\ InputByte \in Byte
    BY BufferFacts
  <2>2. dispatched' \in [Stream -> Seq(Byte)]
    <3>1. CASE keyboardQueue # <<>>
      BY <1>2, <3>1, <1>q, DispatchTyped DEF serveInput, Stream
    <3>2. CASE keyboardQueue = <<>> /\ Ready /\ InputStream = "Mouse"
      BY <1>2, <3>2, <2>1, DispatchTyped DEF serveInput, Stream
    <3>3. CASE keyboardQueue = <<>> /\ ~(Ready /\ InputStream = "Mouse")
      BY <1>2, <3>3 DEF serveInput, TypeOK
    <3> QED  BY <3>1, <3>2, <3>3
  <2>3. keyboardQueue' \in Seq(Byte) /\ Len(keyboardQueue') <= QueueSize
    BY <1>2, <1>q DEF serveInput
  <2>4. outputBuffer' \in Seq(Slot) /\ Len(outputBuffer') <= 1
    BY <1>2, EmptySeq DEF serveInput, TypeOK
  <2>5. pc' \in {"idle", "loop"} /\ pc = "loop" /\ held' = held
    BY <1>2 DEF serveInput
  <2>6. Running'
    BY <2>5 DEF Running
  <2> QED  BY <1>2, <2>2, <2>3, <2>4, <2>5, <2>6 DEF serveInput, TypeOK, device
<1>3. CASE \E p \in Programs : beginProgram(p)
  <2>1. PICK p \in Programs : beginProgram(p)
    BY <1>3
  <2>2. p \in Seq(Access) /\ p # <<>> /\ Len(p) \in Nat /\ Len(p) # 0
    BY PortAssumption, LenProperties, EmptySeq
  <2>3. held = <<>> /\ held' = <<>> /\ pc' = "between" /\ program' = p /\ at' = 1
    BY <2>1 DEF beginProgram, Running
  <2>4. Running'
    BY <2>2, <2>3 DEF Running
  <2> QED  BY <2>1, <2>2, <2>4 DEF beginProgram, TypeOK, device
<1>4. CASE access
  <2>1. pc = "between" /\ Now.do \notin Reading
    BY <1>4 DEF access, AtAccess, Reading
  <2>2. held = <<>> /\ held' = <<>>
    BY <1>4, <2>1 DEF Running, access
  <2>3. at + 1 \in 1..(Len(program) + 1) /\ Now \in Access /\ Now.stream \in Stream
    BY <2>1, AtNow
  <2>4. /\ pc' \in {"idle", "between"} /\ program' \in Seq(Access) /\ at' \in 0..Len(program')
        /\ pc' = "between" => program' \in Programs /\ at' \in 1..Len(program')
    BY <1>4, <2>1, <2>3, GoToRuns DEF access
  <2>5. Running'
    BY <2>2, <2>4 DEF Running
  <2>6. answers' \in [Stream -> Seq(Byte)]
    <3>1. Acknowledge \in Byte /\ commandByte \in Byte
      BY DEF Acknowledge, Byte, TypeOK
    <3>2. \A r \in Stream : /\ Append(answers[r], Acknowledge) \in Seq(Byte)
                            /\ Append(answers[r], commandByte) \in Seq(Byte)
      BY <3>1, SeqFacts DEF TypeOK
    <3> QED  BY <1>4, <2>3, <3>2 DEF access, TypeOK, Stream
  <2>7. reporting' \subseteq Stream /\ installed' \subseteq Stream /\ hardwareOffline' \in BOOLEAN
    BY <1>4, <2>3 DEF access, TypeOK, Stream
  <2>8. commandByte' \in Byte
    BY <1>4, ModifiedByte DEF access, TypeOK
  <2> QED  BY <1>4, <2>2, <2>4, <2>5, <2>6, <2>7, <2>8, EmptySeq DEF access, TypeOK
<1>5. CASE readDataPort
  <2>1. pc = "between" /\ Now.do \in Reading
    BY <1>5 DEF readDataPort, AtAccess
  <2>2. CASE Now.stream = "Keyboard" /\ keyboardQueue # <<>>
    <3>1. receiveByte(Head(keyboardQueue)) /\ keyboardQueue' = Tail(keyboardQueue)
      BY <1>5, <2>2 DEF readDataPort
    <3>2. /\ held' \in Seq(Byte) /\ Len(held') <= 1 /\ lastRead' \in Byte /\ failed' \in BOOLEAN
          /\ dispatched' \in [Stream -> Seq(Byte)]
          /\ pc' \in {"idle", "between"}
          /\ program' \in Seq(Access) /\ at' \in 0..Len(program')
          /\ pc' = "between" => program' \in Programs /\ at' \in 1..Len(program')
          /\ held' # <<>> => pc' = "between" /\ program' = program /\ at' = at
      BY <3>1, <2>1, <2>2, <1>q, ReceiveRuns
    <3>3. Running'
      BY <3>2, <2>1 DEF Running, Now, Reading
    <3> QED  BY <1>5, <1>q, <2>2, <3>1, <3>2, <3>3 DEF readDataPort, TypeOK, device
  <2>3. CASE ~(Now.stream = "Keyboard" /\ keyboardQueue # <<>>)
    BY <1>5, <2>1, <2>3 DEF readDataPort, TypeOK, Running, Now, Reading, device
  <2> QED  BY <2>2, <2>3
<1>6. CASE readOutputBuffer
  <2>1. pc = "await" /\ Now.do \in Reading /\ Ready
    BY <1>6 DEF readOutputBuffer, Running
  <2>2. InputStream \in Stream /\ InputByte \in Byte
    BY <2>1, BufferFacts
  <2>3. outputBuffer' \in Seq(Slot) /\ Len(outputBuffer') <= 1
    BY <1>6, EmptySeq DEF readOutputBuffer
  <2>4. CASE InputStream = Now.stream
    <3>1. receiveByte(InputByte)
      BY <1>6, <2>4 DEF readOutputBuffer
    <3>2. /\ held' \in Seq(Byte) /\ Len(held') <= 1 /\ lastRead' \in Byte /\ failed' \in BOOLEAN
          /\ dispatched' \in [Stream -> Seq(Byte)]
          /\ pc' \in {"idle", "between"}
          /\ program' \in Seq(Access) /\ at' \in 0..Len(program')
          /\ pc' = "between" => program' \in Programs /\ at' \in 1..Len(program')
          /\ held' # <<>> => pc' = "between" /\ program' = program /\ at' = at
      BY <3>1, <2>1, <2>2, ReceiveRuns
    <3>3. Running'
      BY <3>2, <2>1 DEF Running, Now, Reading
    <3> QED  BY <1>6, <2>3, <3>2, <3>3 DEF readOutputBuffer, TypeOK, device
  <2>5. CASE InputStream # Now.stream
    <3>1. Other(Now.stream) \in Stream
      BY DEF Other, Stream
    <3>2. dispatchDriverInterrupt(Other(Now.stream), InputByte)
      BY <1>6, <2>5 DEF readOutputBuffer
    <3>3. dispatched' \in [Stream -> Seq(Byte)]
      BY <3>1, <3>2, <2>2, DispatchTyped
    <3>4. pc' = "between" /\ held' = held /\ program' = program /\ at' = at
          /\ lastRead' = lastRead /\ failed' = failed
      BY <1>6, <2>5 DEF readOutputBuffer
    <3>5. Running'
      BY <3>4, <2>1 DEF Running, Now, Reading
    <3> QED  BY <1>6, <2>3, <3>3, <3>4, <3>5 DEF readOutputBuffer, TypeOK, device
  <2> QED  BY <2>4, <2>5
<1>7. CASE timeOut
  <2>1. pc = "await" /\ Now.do \in Reading
    BY <1>7 DEF timeOut, Running
  <2>2. (IF held # <<>> THEN held[1] ELSE 0) \in Byte
    <3>1. 0 \in Byte
      BY DEF Byte
    <3>2. held # <<>> => held[1] \in Byte
      BY <3>1, SeqFacts DEF TypeOK
    <3> QED  BY <3>1, <3>2
  <2>3. returnByte(IF held # <<>> THEN held[1] ELSE 0)
    BY <1>7 DEF timeOut
  <2>4. /\ held' = <<>> /\ lastRead' \in Byte /\ failed' \in BOOLEAN
        /\ pc' \in {"idle", "between"}
        /\ program' \in Seq(Access) /\ at' \in 0..Len(program')
        /\ pc' = "between" => program' \in Programs /\ at' \in 1..Len(program')
    BY <2>1, <2>2, <2>3, ReturnRuns
  <2>5. Running'
    BY <2>4 DEF Running
  <2> QED  BY <1>7, <2>4, <2>5, EmptySeq DEF timeOut, TypeOK, device
<1> QED  BY <1>1, <1>2, <1>3, <1>4, <1>5, <1>6, <1>7 DEF WorkLoop

LEMMA StepTyped == TypeInv /\ [Next]_vars => TypeInv'
<1> SUFFICES ASSUME TypeInv, [Next]_vars PROVE TypeInv'
  OBVIOUS
<1>1. CASE \E s \in Stream : deviceReports(s) \/ loseByte(s) \/ fillOutputBuffer(s)
  BY <1>1, HardwareTyped
<1>2. CASE interruptHandlerKeyboard \/ interruptHandlerMouse
  BY <1>2, HardwareTyped DEF Stream
<1>3. CASE (\E p \in Programs : beginProgram(p)) \/ WorkLoop
  BY <1>3, WorkTyped
<1>4. CASE UNCHANGED vars
  BY <1>4 DEF vars, TypeInv, TypeOK, Running, Now, Reading
<1> QED  BY <1>1, <1>2, <1>3, <1>4 DEF Next

LEMMA TypeInvHolds == Spec => []TypeInv
  BY InitTyped, StepTyped, PTL DEF Spec

\* The keyboard queue stays within kKeyboardQueueSize, at most one byte is held, no
\* program runs past its end and the test of a test-and-set never goes back before its
\* beginning, for all programs and data, with lost and late answers.
THEOREM TypeCorrect == Spec => []TypeOK
<1>1. TypeInv => TypeOK
  BY DEF TypeInv
<1> QED  BY <1>1, TypeInvHolds, PTL

-----------------------------------------------------------------------------
(* No byte is forgotten.                                                   *)

\* Programs that leave the command byte and _hardwareOffline alone: those of requests
\* other than setCommandByte.
PlainPrograms ==
  \A p \in Programs : \A k \in DOMAIN p : p[k].do \notin {"set", "freeze", "unblock"}

\* A byte in the output buffer has its interrupt pending, or is a mouse byte that
\* interruptOccurred is going to look for; queued scan codes likewise.
InputInv ==
  /\ commandByte = 71 /\ ~hardwareOffline
  /\ Ready => InputStream \in irq \/ (InputStream = "Mouse" /\ ("Mouse" \in source \/ pc = "loop"))
  /\ keyboardQueue # <<>> => "Keyboard" \in source \/ pc = "loop"

LEMMA LinesEnabled ==
  ASSUME commandByte = 71, NEW s \in Stream
  PROVE  LineEnabled(s)
<1>1. Has(71, 1) /\ Has(71, 2)
  BY DEF Has
<1> QED  BY <1>1 DEF LineEnabled, EnableKeyboardIRQ, EnableMouseIRQ

LEMMA StepAttends ==
  ASSUME PlainPrograms, TypeInv, InputInv, [Next]_vars
  PROVE  InputInv'
<1> USE DEF InputInv, Ready, InputStream
<1>1. ASSUME NEW s \in Stream, deviceReports(s) \/ loseByte(s)
      PROVE  InputInv'
  BY <1>1 DEF deviceReports, loseByte
<1>2. ASSUME NEW s \in Stream, fillOutputBuffer(s)
      PROVE  InputInv'
  <2>1. outputBuffer'[1].stream = s /\ s \in irq'
    BY <1>2, LinesEnabled DEF fillOutputBuffer
  <2> QED  BY <1>2, <2>1 DEF fillOutputBuffer
<1>3. CASE interruptHandlerKeyboard
  <2>1. Ready => InputStream \in {"Keyboard", "Mouse"}
    BY BufferFacts DEF Stream
  <2> QED  BY <1>3, <2>1 DEF interruptHandlerKeyboard, device, enqueueKeyboardData
<1>4. CASE interruptHandlerMouse
  <2>1. Ready => InputStream \in {"Keyboard", "Mouse"}
    BY BufferFacts DEF Stream
  <2> QED  BY <1>4, <2>1 DEF interruptHandlerMouse, device
<1>5. CASE \E p \in Programs : beginProgram(p)
  BY <1>5 DEF beginProgram, device
<1>6. CASE interruptOccurred
  BY <1>6 DEF interruptOccurred, device
<1>7. CASE serveInput
  BY <1>7 DEF serveInput, device
<1>8. CASE access
  <2>1. Now.do \notin {"set", "freeze", "unblock"} /\ pc = "between"
    <3>1. pc = "between"
      BY <1>8 DEF access, AtAccess
    <3>2. program \in Programs /\ at \in DOMAIN program /\ Now = program[at]
      BY <3>1, AtNow, LenProperties
    <3> QED  BY <3>1, <3>2 DEF PlainPrograms
  <2> QED  BY <1>8, <2>1 DEF access
<1>9. CASE readDataPort
  <2>1. pc = "between"
    BY <1>9 DEF readDataPort, AtAccess
  <2> QED  BY <1>9, <2>1 DEF readDataPort, device
<1>10. CASE readOutputBuffer
  BY <1>10 DEF readOutputBuffer, device
<1>11. CASE timeOut
  BY <1>11 DEF timeOut, device
<1>12. CASE UNCHANGED vars
  BY <1>12 DEF vars
<1> QED  BY <1>1, <1>2, <1>3, <1>4, <1>5, <1>6, <1>7, <1>8, <1>9, <1>10, <1>11, <1>12
         DEF Next, WorkLoop

\* The edge-triggered interrupts of the 8042 never leave a byte behind: as long as no
\* program changes the command byte or takes the hardware offline, an idle work loop with
\* a byte in the output buffer or on the keyboard queue has an interrupt or a signalled
\* source to come, whatever programs run, answers get lost and time-outs expire.
THEOREM InputNeverStuck ==
  ASSUME PlainPrograms
  PROVE  Spec => []NoStuckInput
<1>1. Init => InputInv
  BY DEF Init, InputInv, Ready
<1>2. TypeInv /\ InputInv /\ [Next]_vars => InputInv'
  BY StepAttends
<1>3. InputInv => NoStuckInput
  BY DEF InputInv, NoStuckInput
<1> QED  BY <1>1, <1>2, <1>3, TypeInvHolds, PTL DEF Spec

-----------------------------------------------------------------------------
(* The way of a byte.  What a device sends goes through six stages: unsent, *)
(* on its way, in the output buffer, on the keyboard queue, held by         *)
(* readDataPort, dispatched to the driver.                                  *)

Kept(s) == IF pc \in {"between", "await"} /\ Now.stream = s THEN held ELSE <<>>
Queued(s) == IF s = "Keyboard" THEN keyboardQueue ELSE <<>>
InPort(s) == IF Ready /\ InputStream = s THEN <<InputByte>> ELSE <<>>

Line(s) == <<dispatched[s], Kept(s), Queued(s), InPort(s), answers[s], unsent[s]>>

Stages == 1..6

\* All bytes of a line are in the relation R to those that come after them.
InOrder(R, line) ==
  \A i, j \in Stages : \A k \in DOMAIN line[i], l \in DOMAIN line[j] :
    (i < j \/ (i = j /\ k < l)) => <<line[i][k], line[j][l]>> \in R

\* And the bytes in each stage are those that may be there.
Fits(R, V, line) ==
  InOrder(R, line) /\ \A i \in Stages : \A k \in DOMAIN line[i] : line[i][k] \in V[i]

\* The steps of a line: stage j loses its first byte; that byte goes to the end of
\* stage i; a byte is added to stage j.
Drops(line, next, j) ==
  /\ line[j] # <<>> /\ next[j] = Tail(line[j])
  /\ \A k \in Stages \ {j} : next[k] = line[k]
Moves(line, next, i, j) ==
  /\ line[j] # <<>> /\ next[j] = Tail(line[j])
  /\ next[i] = Append(line[i], Head(line[j]))
  /\ \A k \in Stages \ {i, j} : next[k] = line[k]
Adds(line, next, j, x) ==
  /\ next[j] = Append(line[j], x)
  /\ \A k \in Stages \ {j} : next[k] = line[k]

\* Byte x may come at the end of stage j, and the first byte of stage j may overtake all
\* that is between it and stage i.
Suits(R, line, j, x) ==
  \A i \in Stages : \A k \in DOMAIN line[i] :
    /\ i <= j => <<line[i][k], x>> \in R
    /\ i > j => <<x, line[i][k]>> \in R
Passes(R, line, i, j) ==
  \A k \in Stages : i < k /\ k < j =>
    \A l \in DOMAIN line[k] : <<Head(line[j]), line[k][l]>> \in R

TypedLine(line) == \A i \in Stages : line[i] \in Seq(Byte)

LEMMA TailElements ==
  ASSUME NEW s \in Seq(Byte), s # <<>>
  PROVE  /\ Tail(s) \in Seq(Byte) /\ Head(s) = s[1] /\ 1 \in DOMAIN s /\ Head(s) \in Byte
         /\ \A k \in DOMAIN Tail(s) :
              k \in Nat \ {0} /\ k + 1 \in DOMAIN s /\ Tail(s)[k] = s[k + 1]
<1>1. /\ Tail(s) \in Seq(Byte) /\ Len(Tail(s)) = Len(s) - 1 /\ Head(s) = s[1] /\ Head(s) \in Byte
      /\ \A k \in 1..Len(Tail(s)) : Tail(s)[k] = s[k + 1]
  BY HeadTailProperties
<1>2. DOMAIN s = 1..Len(s) /\ DOMAIN Tail(s) = 1..Len(Tail(s)) /\ Len(s) \in Nat \ {0}
  BY <1>1, LenProperties, EmptySeq
<1> QED  BY <1>1, <1>2

LEMMA AppendElements ==
  ASSUME NEW s \in Seq(Byte), NEW x \in Byte, NEW t, t = Append(s, x)
  PROVE  /\ t \in Seq(Byte)
         /\ \A k \in DOMAIN t :
              \/ k \in DOMAIN s /\ t[k] = s[k]
              \/ t[k] = x /\ k \notin DOMAIN s /\ k = Len(s) + 1
         /\ \A k \in DOMAIN s : k \in Nat /\ k < Len(s) + 1
<1>1. /\ t \in Seq(Byte) /\ Len(t) = Len(s) + 1
      /\ \A k \in 1..Len(s) : t[k] = s[k]
      /\ t[Len(s) + 1] = x
  BY AppendProperties
<1>2. DOMAIN s = 1..Len(s) /\ DOMAIN t = 1..(Len(s) + 1) /\ Len(s) \in Nat
  BY <1>1, LenProperties
<1>3. ASSUME NEW k \in DOMAIN t
      PROVE  \/ k \in DOMAIN s /\ t[k] = s[k]
             \/ t[k] = x /\ k \notin DOMAIN s /\ k = Len(s) + 1
  <2>1. k \in 1..Len(s) \/ (k = Len(s) + 1 /\ k \notin 1..Len(s))
    BY <1>2
  <2> QED  BY <2>1, <1>1, <1>2
<1>4. ASSUME NEW k \in DOMAIN s PROVE k \in Nat /\ k < Len(s) + 1
  BY <1>2
<1>5. t \in Seq(Byte)
  BY <1>1
<1> QED  BY <1>3, <1>4, <1>5

LEMMA DropsInOrder ==
  ASSUME NEW R, NEW line, NEW next, NEW j \in Stages, TypedLine(line),
         Drops(line, next, j), InOrder(R, line)
  PROVE  InOrder(R, next) /\ TypedLine(next)
<1>1. line[j] \in Seq(Byte) /\ line[j] # <<>> /\ next[j] = Tail(line[j])
  BY DEF Drops, TypedLine
<1>2. /\ next[j] \in Seq(Byte)
      /\ \A k \in DOMAIN next[j] : k \in Nat /\ k + 1 \in DOMAIN line[j] /\ next[j][k] = line[j][k + 1]
  BY <1>1, TailElements
<1>3. \A i \in Stages \ {j} : next[i] = line[i]
  BY DEF Drops
<1>4. TypedLine(next)
  BY <1>2, <1>3 DEF TypedLine
<1>5. SUFFICES ASSUME NEW a \in Stages, NEW b \in Stages,
                      NEW k \in DOMAIN next[a], NEW l \in DOMAIN next[b],
                      a < b \/ (a = b /\ k < l)
               PROVE  <<next[a][k], next[b][l]>> \in R
  BY <1>4, Zenon DEF InOrder
<1> USE DEF Stages
<1>6. CASE a = j /\ b = j
  <2>1. /\ k + 1 \in DOMAIN line[j] /\ next[a][k] = line[j][k + 1] /\ k \in Nat
        /\ l + 1 \in DOMAIN line[j] /\ next[b][l] = line[j][l + 1] /\ l \in Nat
    BY <1>2, <1>6
  <2>2. k + 1 < l + 1
    BY <1>5, <1>6, <2>1
  <2> QED  BY <2>1, <2>2 DEF InOrder
<1>7. CASE a = j /\ b # j
  BY <1>2, <1>3, <1>5, <1>7 DEF InOrder
<1>8. CASE a # j /\ b = j
  <2>1. l + 1 \in DOMAIN line[j] /\ next[b][l] = line[j][l + 1]
    BY <1>2, <1>8
  <2>2. next[a] = line[a] /\ a < j
    BY <1>3, <1>5, <1>8
  <2> QED  BY <2>1, <2>2 DEF InOrder
<1>9. CASE a # j /\ b # j
  BY <1>3, <1>5, <1>9 DEF InOrder
<1> QED  BY <1>6, <1>7, <1>8, <1>9

LEMMA AddsInOrder ==
  ASSUME NEW R, NEW line, NEW next, NEW j \in Stages, NEW x \in Byte, TypedLine(line),
         Adds(line, next, j, x), InOrder(R, line),
         Suits(R, line, j, x)
  PROVE  InOrder(R, next) /\ TypedLine(next)
<1>1. line[j] \in Seq(Byte) /\ next[j] = Append(line[j], x)
  BY DEF Adds, TypedLine
<1>2. /\ next[j] \in Seq(Byte)
      /\ \A k \in DOMAIN next[j] :
           \/ k \in DOMAIN line[j] /\ next[j][k] = line[j][k]
           \/ next[j][k] = x /\ k \notin DOMAIN line[j] /\ k = Len(line[j]) + 1
      /\ \A k \in DOMAIN line[j] : k \in Nat /\ k < Len(line[j]) + 1
  BY <1>1, AppendElements
<1>3. \A i \in Stages \ {j} : next[i] = line[i]
  BY DEF Adds
<1>4. TypedLine(next)
  BY <1>2, <1>3 DEF TypedLine
<1>5. SUFFICES ASSUME NEW a \in Stages, NEW b \in Stages,
                      NEW k \in DOMAIN next[a], NEW l \in DOMAIN next[b],
                      a < b \/ (a = b /\ k < l)
               PROVE  <<next[a][k], next[b][l]>> \in R
  BY <1>4, Zenon DEF InOrder
<1> USE DEF Stages
<1>6. CASE a = j /\ b = j
  <2>1. Len(line[j]) \in Nat
    BY <1>1, LenProperties
  <2>2. CASE next[j][l] = x /\ l \notin DOMAIN line[j] /\ l = Len(line[j]) + 1
    <3>1. k \in DOMAIN line[j]
      BY <1>2, <1>5, <1>6, <2>1, <2>2
    <3>2. next[a][k] = line[j][k] /\ next[b][l] = x
      BY <1>2, <1>6, <2>2, <3>1
    <3>3. j <= j
      OBVIOUS
    <3>4. <<line[j][k], x>> \in R
      BY <3>1, <3>3 DEF Suits
    <3> QED  BY <3>2, <3>4
  <2>3. CASE l \in DOMAIN line[j] /\ next[j][l] = line[j][l]
    <3>1. k \in DOMAIN line[j]
      <4>1. l \in Nat /\ l < Len(line[j]) + 1
        BY <1>2, <2>3
      <4> QED  BY <1>2, <1>5, <1>6, <2>1, <4>1
    <3> QED  BY <1>2, <1>5, <1>6, <2>3, <3>1 DEF InOrder
  <2> QED  BY <1>2, <1>6, <2>2, <2>3
<1>7. CASE a = j /\ b # j
  <2>1. b > j /\ next[b] = line[b] /\ l \in DOMAIN line[b]
    BY <1>3, <1>5, <1>7
  <2>2. CASE next[a][k] = x
    BY <2>1, <2>2 DEF Suits
  <2>3. CASE k \in DOMAIN line[j] /\ next[j][k] = line[j][k]
    BY <1>5, <1>7, <2>1, <2>3 DEF InOrder
  <2> QED  BY <1>2, <1>7, <2>2, <2>3
<1>8. CASE a # j /\ b = j
  <2>1. a <= j /\ next[a] = line[a] /\ k \in DOMAIN line[a]
    BY <1>3, <1>5, <1>8
  <2>2. CASE next[b][l] = x
    BY <2>1, <2>2 DEF Suits
  <2>3. CASE l \in DOMAIN line[j] /\ next[j][l] = line[j][l]
    BY <1>5, <1>8, <2>1, <2>3 DEF InOrder
  <2> QED  BY <1>2, <1>8, <2>2, <2>3
<1>9. CASE a # j /\ b # j
  BY <1>3, <1>5, <1>9 DEF InOrder
<1> QED  BY <1>6, <1>7, <1>8, <1>9

\* A byte that moves on overtakes only bytes it may come before.
LEMMA MovesInOrder ==
  ASSUME NEW R, NEW line, NEW next, NEW i \in Stages, NEW j \in Stages, i < j, TypedLine(line),
         Moves(line, next, i, j), InOrder(R, line),
         Passes(R, line, i, j)
  PROVE  InOrder(R, next) /\ TypedLine(next)
<1> DEFINE x == Head(line[j])
<1>1. line[j] \in Seq(Byte) /\ line[j] # <<>>
  BY DEF Moves, TypedLine
<1>2. /\ Tail(line[j]) \in Seq(Byte) /\ x = line[j][1] /\ 1 \in DOMAIN line[j] /\ x \in Byte
      /\ \A k \in DOMAIN Tail(line[j]) :
           k \in Nat \ {0} /\ k + 1 \in DOMAIN line[j] /\ Tail(line[j])[k] = line[j][k + 1]
  BY <1>1, TailElements
<1>m. PICK mid : mid = [k \in Stages |-> IF k = j THEN Tail(line[j]) ELSE line[k]]
  OBVIOUS
<1>n. mid[j] = Tail(line[j]) /\ \A k \in Stages \ {j} : mid[k] = line[k]
  BY <1>m
<1>3. Drops(line, mid, j)
  BY <1>1, <1>n DEF Drops
<1>4. InOrder(R, mid) /\ TypedLine(mid)
  BY <1>3, DropsInOrder
<1> USE DEF Stages
<1>5. Adds(mid, next, i, x)
  <2>1. i # j /\ mid[i] = line[i]
    BY <1>n
  <2>2. next[i] = Append(mid[i], x)
    BY <2>1 DEF Moves
  <2>3. ASSUME NEW k \in Stages \ {i} PROVE next[k] = mid[k]
    BY <1>n DEF Moves
  <2> QED  BY <2>2, <2>3 DEF Adds
<1> HIDE DEF x
<1>6. ASSUME NEW a \in Stages, NEW k \in DOMAIN mid[a]
      PROVE  (a <= i => <<mid[a][k], x>> \in R) /\ (a > i => <<x, mid[a][k]>> \in R)
  <2>1. CASE a <= i
    <3>1. a # j /\ a < j /\ mid[a] = line[a]
      BY <2>1, <1>n
    <3>2. k \in DOMAIN line[a] /\ mid[a][k] = line[a][k]
      BY <3>1
    <3>3. <<line[a][k], line[j][1]>> \in R
      BY <1>2, <3>1, <3>2 DEF InOrder
    <3> QED  BY <1>2, <2>1, <3>2, <3>3
  <2>2. CASE a > i /\ a < j
    <3>1. mid[a] = line[a]
      BY <2>2, <1>n
    <3>2. k \in DOMAIN line[a] /\ mid[a][k] = line[a][k]
      BY <3>1
    <3>3. <<x, line[a][k]>> \in R
      BY <2>2, <3>2 DEF x, Passes
    <3> QED  BY <2>2, <3>2, <3>3
  <2>3. CASE a = j
    <3>1. mid[a] = Tail(line[j])
      BY <2>3, <1>n
    <3>2. k \in Nat \ {0} /\ k + 1 \in DOMAIN line[j] /\ mid[a][k] = line[j][k + 1]
      BY <1>2, <1>6, <3>1
    <3>3. <<line[j][1], line[j][k + 1]>> \in R
      <4>1. 1 < k + 1
        BY <3>2
      <4> QED  BY <1>2, <3>2, <4>1 DEF InOrder
    <3> QED  BY <1>2, <2>3, <3>2, <3>3
  <2>4. CASE a > j
    <3>1. mid[a] = line[a]
      BY <2>4, <1>n
    <3>2. k \in DOMAIN line[a] /\ mid[a][k] = line[a][k]
      BY <3>1
    <3>3. <<line[j][1], line[a][k]>> \in R
      BY <1>2, <2>4, <3>2 DEF InOrder
    <3> QED  BY <1>2, <2>4, <3>2, <3>3
  <2> QED  BY <2>1, <2>2, <2>3, <2>4 DEF Stages
<1>7. Suits(R, mid, i, x)
  BY <1>6 DEF Suits
<1>8. x \in Byte
  BY <1>2
<1> QED  BY <1>4, <1>5, <1>7, <1>8, AddsInOrder, Zenon

LEMMA DropsFit ==
  ASSUME NEW R, NEW V, NEW line, NEW next, NEW j \in Stages, TypedLine(line),
         Drops(line, next, j), Fits(R, V, line)
  PROVE  Fits(R, V, next) /\ TypedLine(next)
<1>1. InOrder(R, next) /\ TypedLine(next)
  BY DropsInOrder DEF Fits
<1>2. line[j] \in Seq(Byte) /\ line[j] # <<>> /\ next[j] = Tail(line[j])
  BY DEF Drops, TypedLine
<1>3. \A k \in DOMAIN next[j] : k + 1 \in DOMAIN line[j] /\ next[j][k] = line[j][k + 1]
  BY <1>2, TailElements
<1>4. ASSUME NEW i \in Stages, NEW k \in DOMAIN next[i]
      PROVE  next[i][k] \in V[i]
  <2>1. CASE i = j
    BY <1>3, <2>1 DEF Fits
  <2>2. CASE i # j
    <3>1. next[i] = line[i]
      BY <2>2 DEF Drops
    <3> QED  BY <3>1 DEF Fits
  <2> QED  BY <2>1, <2>2
<1> QED  BY <1>1, <1>4 DEF Fits

LEMMA AddsFit ==
  ASSUME NEW R, NEW V, NEW line, NEW next, NEW j \in Stages, NEW x \in Byte, TypedLine(line),
         Adds(line, next, j, x), Fits(R, V, line), x \in V[j],
         Suits(R, line, j, x)
  PROVE  Fits(R, V, next) /\ TypedLine(next)
<1>1. InOrder(R, line)
  BY DEF Fits
<1>2. InOrder(R, next) /\ TypedLine(next)
  BY <1>1, AddsInOrder
<1>3. line[j] \in Seq(Byte) /\ next[j] = Append(line[j], x)
  BY DEF Adds, TypedLine
<1>4. \A k \in DOMAIN next[j] : next[j][k] = x \/ (k \in DOMAIN line[j] /\ next[j][k] = line[j][k])
  BY <1>3, AppendElements
<1>5. ASSUME NEW i \in Stages, NEW k \in DOMAIN next[i]
      PROVE  next[i][k] \in V[i]
  <2>1. CASE i = j
    BY <1>4, <2>1 DEF Fits
  <2>2. CASE i # j
    <3>1. next[i] = line[i]
      BY <2>2 DEF Adds
    <3> QED  BY <3>1 DEF Fits
  <2> QED  BY <2>1, <2>2
<1> QED  BY <1>2, <1>5 DEF Fits

LEMMA MovesFit ==
  ASSUME NEW R, NEW V, NEW line, NEW next, NEW i \in Stages, NEW j \in Stages, i < j,
         TypedLine(line), Moves(line, next, i, j), Fits(R, V, line), Head(line[j]) \in V[i],
         Passes(R, line, i, j)
  PROVE  Fits(R, V, next) /\ TypedLine(next)
<1>1. InOrder(R, line)
  BY DEF Fits
<1>2. InOrder(R, next) /\ TypedLine(next)
  BY <1>1, MovesInOrder
<1>3. /\ line[j] \in Seq(Byte) /\ line[j] # <<>> /\ next[j] = Tail(line[j])
      /\ line[i] \in Seq(Byte) /\ next[i] = Append(line[i], Head(line[j]))
  BY DEF Moves, TypedLine
<1>4. \A k \in DOMAIN next[j] : k + 1 \in DOMAIN line[j] /\ next[j][k] = line[j][k + 1]
  BY <1>3, TailElements
<1>5. Head(line[j]) \in Byte
  BY <1>3, TailElements
<1>6. \A k \in DOMAIN next[i] : \/ next[i][k] = Head(line[j])
                                \/ k \in DOMAIN line[i] /\ next[i][k] = line[i][k]
  BY <1>3, <1>5, AppendElements
<1>7. ASSUME NEW a \in Stages, NEW k \in DOMAIN next[a]
      PROVE  next[a][k] \in V[a]
  <2>1. CASE a = j
    BY <1>4, <2>1 DEF Fits
  <2>2. CASE a = i
    BY <1>6, <2>2 DEF Fits
  <2>3. CASE a \notin {i, j}
    <3>1. next[a] = line[a]
      BY <2>3 DEF Moves
    <3> QED  BY <3>1 DEF Fits
  <2> QED  BY <2>1, <2>2, <2>3
<1> QED  BY <1>2, <1>7 DEF Fits

\* The first byte of a stage is one that may be there.
LEMMA HeadFits ==
  ASSUME NEW R, NEW V, NEW line, NEW j \in Stages, TypedLine(line), Fits(R, V, line), line[j] # <<>>
  PROVE  Head(line[j]) \in V[j]
<1>1. Head(line[j]) = line[j][1] /\ 1 \in DOMAIN line[j]
  BY TailElements DEF TypedLine
<1> QED  BY <1>1 DEF Fits

\* The six stages of a line, and of the next one.
LEMMA LineStages ==
  ASSUME NEW s
  PROVE  /\ Line(s)[1] = dispatched[s] /\ Line(s)[2] = Kept(s) /\ Line(s)[3] = Queued(s)
         /\ Line(s)[4] = InPort(s) /\ Line(s)[5] = answers[s] /\ Line(s)[6] = unsent[s]
         /\ Line(s)'[1] = dispatched'[s] /\ Line(s)'[2] = Kept(s)' /\ Line(s)'[3] = Queued(s)'
         /\ Line(s)'[4] = InPort(s)' /\ Line(s)'[5] = answers'[s] /\ Line(s)'[6] = unsent'[s]
  BY DEF Line

LEMMA LineTyped ==
  ASSUME TypeInv, NEW s \in Stream
  PROVE  TypedLine(Line(s))
<1>1. dispatched[s] \in Seq(Byte) /\ answers[s] \in Seq(Byte) /\ unsent[s] \in Seq(Byte)
  BY DEF TypeInv, TypeOK
<1>2. Kept(s) \in Seq(Byte) /\ Queued(s) \in Seq(Byte)
  BY EmptySeq DEF Kept, Queued, TypeInv, TypeOK
<1>3. InPort(s) \in Seq(Byte)
  <2>1. Ready => InputByte \in Byte
    BY BufferFacts
  <2> QED  BY <2>1, EmptySeq DEF InPort
<1> QED  BY <1>1, <1>2, <1>3, LineStages DEF TypedLine, Stages

LEMMA MovesByStage ==
  ASSUME NEW line, NEW next, NEW i \in Stages, NEW j \in Stages,
         line[j] # <<>>, next[j] = Tail(line[j]), next[i] = Append(line[i], Head(line[j])),
         1 \in {i, j} \/ next[1] = line[1], 2 \in {i, j} \/ next[2] = line[2],
         3 \in {i, j} \/ next[3] = line[3], 4 \in {i, j} \/ next[4] = line[4],
         5 \in {i, j} \/ next[5] = line[5], 6 \in {i, j} \/ next[6] = line[6]
  PROVE  Moves(line, next, i, j)
<1>1. ASSUME NEW k \in Stages \ {i, j} PROVE next[k] = line[k]
  BY DEF Stages
<1> QED  BY <1>1 DEF Moves

LEMMA DropsByStage ==
  ASSUME NEW line, NEW next, NEW j \in Stages, line[j] # <<>>, next[j] = Tail(line[j]),
         1 = j \/ next[1] = line[1], 2 = j \/ next[2] = line[2],
         3 = j \/ next[3] = line[3], 4 = j \/ next[4] = line[4],
         5 = j \/ next[5] = line[5], 6 = j \/ next[6] = line[6]
  PROVE  Drops(line, next, j)
<1>1. ASSUME NEW k \in Stages \ {j} PROVE next[k] = line[k]
  BY DEF Stages
<1> QED  BY <1>1 DEF Drops

\* A line none of whose stages changes.
LEMMA SameFits ==
  ASSUME NEW R, NEW V, NEW s, Fits(R, V, Line(s)),
         dispatched'[s] = dispatched[s], Kept(s)' = Kept(s), Queued(s)' = Queued(s),
         InPort(s)' = InPort(s), answers'[s] = answers[s], unsent'[s] = unsent[s]
  PROVE  Fits(R, V, Line(s)')
<1>1. Line(s)' = Line(s)
  BY DEF Line
<1> QED  BY <1>1

\* One byte moves on, or disappears.
LEMMA LineMoves ==
  ASSUME NEW R, NEW V, NEW s \in Stream, TypeInv, Fits(R, V, Line(s)),
         NEW i \in Stages, NEW j \in Stages, i < j, V[j] \subseteq V[i],
         Line(s)[j] # <<>>, Line(s)'[j] = Tail(Line(s)[j]),
         Line(s)'[i] = Append(Line(s)[i], Head(Line(s)[j])),
         1 \in {i, j} \/ Line(s)'[1] = Line(s)[1], 2 \in {i, j} \/ Line(s)'[2] = Line(s)[2],
         3 \in {i, j} \/ Line(s)'[3] = Line(s)[3], 4 \in {i, j} \/ Line(s)'[4] = Line(s)[4],
         5 \in {i, j} \/ Line(s)'[5] = Line(s)[5], 6 \in {i, j} \/ Line(s)'[6] = Line(s)[6],
         Passes(R, Line(s), i, j)
  PROVE  Fits(R, V, Line(s)')
<1>1. Moves(Line(s), Line(s)', i, j)
  BY MovesByStage
<1>2. TypedLine(Line(s))
  BY LineTyped
<1>3. Head(Line(s)[j]) \in V[i]
  BY <1>2, HeadFits
<1> QED  BY <1>1, <1>2, <1>3, MovesFit

LEMMA LineDrops ==
  ASSUME NEW R, NEW V, NEW s \in Stream, TypeInv, Fits(R, V, Line(s)),
         NEW j \in Stages, Line(s)[j] # <<>>, Line(s)'[j] = Tail(Line(s)[j]),
         1 = j \/ Line(s)'[1] = Line(s)[1], 2 = j \/ Line(s)'[2] = Line(s)[2],
         3 = j \/ Line(s)'[3] = Line(s)[3], 4 = j \/ Line(s)'[4] = Line(s)[4],
         5 = j \/ Line(s)'[5] = Line(s)[5], 6 = j \/ Line(s)'[6] = Line(s)[6]
  PROVE  Fits(R, V, Line(s)')
<1>1. Drops(Line(s), Line(s)', j)
  BY DropsByStage
<1>2. TypedLine(Line(s))
  BY LineTyped
<1> QED  BY <1>1, <1>2, DropsFit

\* receiveByte: the first byte of stage j leaves it, and a held byte is dispatched or
\* returned, or the byte itself is held or dispatched.
LEMMA ReceivesInOrder ==
  ASSUME NEW R, NEW V, NEW line, NEW next, TypedLine(line), Fits(R, V, line),
         NEW j \in {3, 4}, line[j] # <<>>, next[j] = Tail(line[j]),
         j = 3 \/ (line[3] = <<>> /\ next[3] = line[3]), j = 4 \/ next[4] = line[4],
         next[5] = line[5], next[6] = line[6],
         line[2] = <<>> \/ Tail(line[2]) = <<>>, V[2] \subseteq V[1],
         \/ next[1] = line[1] /\ next[2] = <<>>
         \/ line[2] # <<>> /\ next[1] = Append(line[1], Head(line[2])) /\ next[2] = <<>>
         \/ /\ line[2] = <<>> /\ next[1] = line[1] /\ next[2] = Append(<<>>, Head(line[j]))
            /\ Head(line[j]) \in V[2]
         \/ next[1] = Append(line[1], Head(line[j])) /\ next[2] = <<>> /\ Head(line[j]) \in V[1]
  PROVE  Fits(R, V, next)
<1>0. 1 \in Stages /\ 2 \in Stages /\ j \in Stages /\ 1 < 2 /\ 1 < j /\ 2 < j
  BY DEF Stages
<1>m. PICK mid : mid = [k \in Stages |-> IF k = 2 THEN <<>> ELSE line[k]]
  OBVIOUS
<1>n. /\ mid[1] = line[1] /\ mid[2] = <<>> /\ mid[3] = line[3] /\ mid[4] = line[4]
      /\ mid[5] = line[5] /\ mid[6] = line[6]
  BY <1>m DEF Stages
<1>1. mid[j] # <<>> /\ next[j] = Tail(mid[j]) /\ Head(mid[j]) = Head(line[j])
  BY <1>n
<1>2. TypedLine(mid) /\ Fits(R, V, mid)
  <2>1. CASE line[2] = <<>>
    <3>1. \A k \in Stages : mid[k] = line[k]
      BY <1>m, <2>1
    <3>2. TypedLine(mid)
      BY <3>1 DEF TypedLine
    <3>3. Fits(R, V, mid)
      BY <3>1 DEF Fits, InOrder
    <3> QED  BY <3>2, <3>3
  <2>2. CASE line[2] # <<>>
    <3>1. mid[2] = Tail(line[2])
      BY <1>n, <2>2
    <3>2. Drops(line, mid, 2)
      BY <1>0, <1>n, <2>2, <3>1, DropsByStage
    <3> QED  BY <3>2, <1>0, DropsFit
  <2> QED  BY <2>1, <2>2
<1>3. CASE next[1] = line[1] /\ next[2] = <<>>
  <2>1. Drops(mid, next, j)
    BY <1>0, <1>n, <1>1, <1>3, DropsByStage
  <2> QED  BY <2>1, <1>0, <1>2, DropsFit
<1>4. CASE line[2] # <<>> /\ next[1] = Append(line[1], Head(line[2])) /\ next[2] = <<>>
  <2>m. PICK upd : upd = [k \in Stages |-> IF k = 1 THEN next[1] ELSE IF k = 2 THEN <<>>
                                           ELSE line[k]]
    OBVIOUS
  <2>n. /\ upd[1] = next[1] /\ upd[2] = <<>> /\ upd[3] = line[3] /\ upd[4] = line[4]
        /\ upd[5] = line[5] /\ upd[6] = line[6]
    BY <2>m DEF Stages
  <2>1. Moves(line, upd, 1, 2)
    <3>1. upd[2] = Tail(line[2]) /\ upd[1] = Append(line[1], Head(line[2]))
      BY <2>n, <1>4
    <3> QED  BY <1>0, <1>4, <2>n, <3>1, MovesByStage
  <2>2. Fits(R, V, upd) /\ TypedLine(upd)
    <3>1. Passes(R, line, 1, 2)
      BY DEF Passes, Stages
    <3>2. Head(line[2]) \in V[1]
      BY <1>0, <1>4, HeadFits
    <3> QED  BY <3>1, <3>2, <2>1, <1>0, MovesFit
  <2>3. upd[j] # <<>> /\ next[j] = Tail(upd[j])
    BY <2>n
  <2>4. Drops(upd, next, j)
    BY <1>0, <1>4, <2>n, <2>3, DropsByStage
  <2> QED  BY <2>2, <2>4, <1>0, DropsFit
<1>5. CASE /\ line[2] = <<>> /\ next[1] = line[1] /\ next[2] = Append(<<>>, Head(line[j]))
           /\ Head(line[j]) \in V[2]
  <2>1. Moves(mid, next, 2, j)
    <3>1. next[2] = Append(mid[2], Head(mid[j]))
      BY <1>1, <1>5, <1>n
    <3> QED  BY <1>0, <1>1, <1>5, <1>n, <3>1, MovesByStage
  <2>2. Passes(R, mid, 2, j)
    <3>1. ASSUME NEW k \in Stages, 2 < k, k < j
          PROVE  DOMAIN mid[k] = {}
      BY <3>1, <1>n DEF Stages
    <3> QED  BY <3>1 DEF Passes
  <2>3. 2 \in Stages /\ j \in Stages /\ 2 < j /\ Head(mid[j]) \in V[2]
    BY <1>0, <1>1, <1>5
  <2> QED  BY <2>1, <2>2, <2>3, <1>2, MovesFit
<1>6. CASE /\ next[1] = Append(line[1], Head(line[j])) /\ next[2] = <<>>
           /\ Head(line[j]) \in V[1]
  <2>1. Moves(mid, next, 1, j)
    <3>1. next[1] = Append(mid[1], Head(mid[j]))
      BY <1>1, <1>6, <1>n
    <3> QED  BY <1>0, <1>1, <1>6, <1>n, <3>1, MovesByStage
  <2>2. Passes(R, mid, 1, j)
    <3>1. ASSUME NEW k \in Stages, 1 < k, k < j
          PROVE  DOMAIN mid[k] = {}
      BY <3>1, <1>n DEF Stages
    <3> QED  BY <3>1 DEF Passes
  <2>3. 1 \in Stages /\ j \in Stages /\ 1 < j /\ Head(mid[j]) \in V[1]
    BY <1>0, <1>1, <1>6
  <2> QED  BY <2>1, <2>2, <2>3, <1>2, MovesFit
<1> QED  BY <1>3, <1>4, <1>5, <1>6

\* The places V of bytes are such that no step of stream s takes a byte where it may not
\* be.
Admits(V, s) ==
  /\ V[6] \subseteq V[5] /\ V[5] \subseteq V[4] /\ V[4] \subseteq V[3] /\ V[2] \subseteq V[1]
  /\ pc = "loop" \/ (pc \in {"between", "await"} /\ Now.stream # s) => V[3] \subseteq V[1]
  /\ pc \in {"between", "await"} /\ Now.stream = s /\ Now.do \in Reading \ {"read"} =>
       \A x \in V[3] : x # Expected => x \in V[1] /\ x \in V[2]

LEMMA OneByte ==
  ASSUME NEW x \in Byte
  PROVE  /\ <<x>> # <<>> /\ Head(<<x>>) = x /\ Tail(<<x>>) = <<>> /\ Append(<<>>, x) = <<x>>
         /\ <<x>>[1] = x
  OBVIOUS

LEMMA ReportInOrder ==
  ASSUME NEW R, NEW V, NEW s \in Stream, TypeInv, Fits(R, V, Line(s)), Admits(V, s), NEW d \in Stream, deviceReports(d)
  PROVE  Fits(R, V, Line(s)')
<1>1. /\ dispatched' = dispatched /\ Kept(s)' = Kept(s) /\ Queued(s)' = Queued(s)
      /\ InPort(s)' = InPort(s)
  BY DEF deviceReports, Kept, Queued, InPort, Ready, InputStream, InputByte, Now
<1>2. CASE d = s
  <2>1. /\ unsent[s] # <<>> /\ unsent'[s] = Tail(unsent[s])
        /\ answers'[s] = Append(answers[s], Head(unsent[s]))
    BY <1>2 DEF deviceReports, TypeInv, TypeOK
  <2>2. 5 \in Stages /\ 6 \in Stages /\ 5 < 6 /\ Passes(R, Line(s), 5, 6)
    BY DEF Stages, Passes
  <2>3. /\ Line(s)[6] # <<>> /\ Line(s)'[6] = Tail(Line(s)[6])
        /\ Line(s)'[5] = Append(Line(s)[5], Head(Line(s)[6]))
    BY <2>1, LineStages
  <2>4. /\ Line(s)'[1] = Line(s)[1] /\ Line(s)'[2] = Line(s)[2]
        /\ Line(s)'[3] = Line(s)[3] /\ Line(s)'[4] = Line(s)[4]
    BY <1>1, LineStages
  <2>5. V[6] \subseteq V[5]
    BY DEF Admits
  <2> QED  BY <2>2, <2>3, <2>4, <2>5, LineMoves
<1>3. CASE d # s
  <2>1. unsent'[s] = unsent[s] /\ answers'[s] = answers[s]
    BY <1>3 DEF deviceReports, TypeInv, TypeOK
  <2> QED  BY <1>1, <2>1, SameFits
<1> QED  BY <1>2, <1>3

LEMMA LossInOrder ==
  ASSUME NEW R, NEW V, NEW s \in Stream, TypeInv, Fits(R, V, Line(s)), Admits(V, s), NEW d \in Stream, loseByte(d)
  PROVE  Fits(R, V, Line(s)')
<1>1. /\ dispatched' = dispatched /\ Kept(s)' = Kept(s) /\ Queued(s)' = Queued(s)
      /\ InPort(s)' = InPort(s) /\ unsent' = unsent
  BY DEF loseByte, Kept, Queued, InPort, Ready, InputStream, InputByte, Now
<1>2. CASE d = s
  <2>1. answers[s] # <<>> /\ answers'[s] = Tail(answers[s])
    BY <1>2 DEF loseByte, TypeInv, TypeOK
  <2>2. 5 \in Stages
    BY DEF Stages
  <2>3. Line(s)[5] # <<>> /\ Line(s)'[5] = Tail(Line(s)[5])
    BY <2>1, LineStages
  <2>4. /\ Line(s)'[1] = Line(s)[1] /\ Line(s)'[2] = Line(s)[2] /\ Line(s)'[3] = Line(s)[3]
        /\ Line(s)'[4] = Line(s)[4] /\ Line(s)'[6] = Line(s)[6]
    BY <1>1, LineStages
  <2> QED  BY <2>2, <2>3, <2>4, LineDrops
<1>3. CASE d # s
  <2>1. answers'[s] = answers[s]
    BY <1>3 DEF loseByte, TypeInv, TypeOK
  <2> QED  BY <1>1, <2>1, SameFits
<1> QED  BY <1>2, <1>3

LEMMA FillInOrder ==
  ASSUME NEW R, NEW V, NEW s \in Stream, TypeInv, Fits(R, V, Line(s)), Admits(V, s), NEW d \in Stream,
         fillOutputBuffer(d)
  PROVE  Fits(R, V, Line(s)')
<1>1. /\ dispatched' = dispatched /\ Kept(s)' = Kept(s) /\ Queued(s)' = Queued(s)
      /\ unsent' = unsent /\ InPort(s) = <<>>
  BY DEF fillOutputBuffer, Kept, Queued, InPort, Ready, Now
<1>2. CASE d = s
  <2>1. answers[s] # <<>> /\ answers'[s] = Tail(answers[s]) /\ Head(answers[s]) \in Byte
    BY <1>2, SeqFacts DEF fillOutputBuffer, TypeInv, TypeOK
  <2>2. InPort(s)' = <<Head(answers[s])>>
    BY <1>2 DEF fillOutputBuffer, InPort, Ready, InputStream, InputByte
  <2>3. InPort(s)' = Append(<<>>, Head(answers[s]))
    BY <2>1, <2>2, OneByte
  <2>4. 4 \in Stages /\ 5 \in Stages /\ 4 < 5 /\ Passes(R, Line(s), 4, 5)
    BY DEF Stages, Passes
  <2>5. /\ Line(s)[5] # <<>> /\ Line(s)'[5] = Tail(Line(s)[5])
        /\ Line(s)'[4] = Append(Line(s)[4], Head(Line(s)[5]))
    BY <1>1, <2>1, <2>3, LineStages
  <2>6. /\ Line(s)'[1] = Line(s)[1] /\ Line(s)'[2] = Line(s)[2]
        /\ Line(s)'[3] = Line(s)[3] /\ Line(s)'[6] = Line(s)[6]
    BY <1>1, LineStages
  <2>7. V[5] \subseteq V[4]
    BY DEF Admits
  <2> QED  BY <2>4, <2>5, <2>6, <2>7, LineMoves
<1>3. CASE d # s
  <2>1. answers'[s] = answers[s]
    BY <1>3 DEF fillOutputBuffer, TypeInv, TypeOK
  <2>2. InPort(s)' = <<>>
    BY <1>3 DEF fillOutputBuffer, InPort, Ready, InputStream
  <2> QED  BY <1>1, <2>1, <2>2, SameFits
<1> QED  BY <1>2, <1>3

LEMMA HandlersInOrder ==
  ASSUME NEW R, NEW V, NEW s \in Stream, TypeInv, Fits(R, V, Line(s)), Admits(V, s),
         interruptHandlerKeyboard \/ interruptHandlerMouse
  PROVE  Fits(R, V, Line(s)')
<1>1. /\ dispatched' = dispatched /\ Kept(s)' = Kept(s) /\ answers' = answers /\ unsent' = unsent
  BY DEF interruptHandlerKeyboard, interruptHandlerMouse, device, Kept, Now
<1>2. CASE interruptHandlerKeyboard /\ Ready /\ InputStream = "Keyboard"
  <2>1. outputBuffer' = <<>> /\ enqueueKeyboardData(InputByte) /\ InputByte \in Byte
    BY <1>2, BufferFacts DEF interruptHandlerKeyboard
  <2>2. InPort(s)' = <<>>
    BY <2>1 DEF InPort, Ready
  <2>3. CASE s = "Mouse"
    <3>1. InPort(s) = <<>> /\ Queued(s)' = Queued(s)
      BY <1>2, <2>3 DEF InPort, Queued
    <3> QED  BY <1>1, <2>2, <3>1, SameFits
  <2>4. CASE s = "Keyboard"
    <3>1. InPort(s) = <<InputByte>> /\ Queued(s) = keyboardQueue /\ Queued(s)' = keyboardQueue'
      BY <1>2, <2>4 DEF InPort, Queued
    <3>2. /\ InPort(s) # <<>> /\ InPort(s)' = Tail(InPort(s)) /\ Head(InPort(s)) = InputByte
      BY <2>1, <2>2, <3>1, OneByte
    <3>3. 3 \in Stages /\ 4 \in Stages /\ 3 < 4 /\ Passes(R, Line(s), 3, 4)
      BY DEF Stages, Passes
    <3>4. Line(s)[4] # <<>> /\ Line(s)'[4] = Tail(Line(s)[4]) /\ Head(Line(s)[4]) = InputByte
      BY <3>2, LineStages
    <3>5. /\ Line(s)'[1] = Line(s)[1] /\ Line(s)'[2] = Line(s)[2]
          /\ Line(s)'[5] = Line(s)[5] /\ Line(s)'[6] = Line(s)[6]
      BY <1>1, LineStages
    <3>6. CASE Len(keyboardQueue) < QueueSize
      <4>1. Line(s)'[3] = Append(Line(s)[3], Head(Line(s)[4]))
        BY <2>1, <3>1, <3>4, <3>6, LineStages DEF enqueueKeyboardData
      <4>2. V[4] \subseteq V[3]
        BY DEF Admits
      <4> QED  BY <3>3, <3>4, <3>5, <4>1, <4>2, LineMoves
    <3>7. CASE ~(Len(keyboardQueue) < QueueSize)
      <4>1. Line(s)'[3] = Line(s)[3]
        BY <2>1, <3>1, <3>7, LineStages DEF enqueueKeyboardData
      <4> QED  BY <3>3, <3>4, <3>5, <4>1, LineDrops
    <3> QED  BY <3>6, <3>7
  <2> QED  BY <2>3, <2>4 DEF Stream
<1>3. CASE interruptHandlerMouse \/ ~(Ready /\ InputStream = "Keyboard")
  <2>1. outputBuffer' = outputBuffer /\ keyboardQueue' = keyboardQueue
    BY <1>3 DEF interruptHandlerKeyboard, interruptHandlerMouse
  <2>2. InPort(s)' = InPort(s) /\ Queued(s)' = Queued(s)
    BY <2>1 DEF InPort, Ready, InputStream, InputByte, Queued
  <2> QED  BY <1>1, <2>2, SameFits
<1> QED  BY <1>2, <1>3

\* interruptOccurred, and a program that begins.
LEMMA EntriesInOrder ==
  ASSUME NEW R, NEW V, NEW s \in Stream, TypeInv, Fits(R, V, Line(s)), Admits(V, s),
         interruptOccurred \/ \E p \in Programs : beginProgram(p)
  PROVE  Fits(R, V, Line(s)')
<1>1. /\ dispatched' = dispatched /\ answers' = answers /\ unsent' = unsent
      /\ outputBuffer' = outputBuffer /\ keyboardQueue' = keyboardQueue
      /\ held' = held /\ pc = "idle"
  BY DEF interruptOccurred, beginProgram, device
<1>2. held = <<>>
  BY <1>1 DEF TypeInv, Running
<1>3. Kept(s)' = Kept(s)
  BY <1>1, <1>2 DEF Kept
<1>4. InPort(s)' = InPort(s) /\ Queued(s)' = Queued(s)
  BY <1>1 DEF InPort, Ready, InputStream, InputByte, Queued
<1> QED  BY <1>1, <1>3, <1>4, SameFits

LEMMA ServeInOrder ==
  ASSUME NEW R, NEW V, NEW s \in Stream, TypeInv, Fits(R, V, Line(s)), Admits(V, s), serveInput
  PROVE  Fits(R, V, Line(s)')
<1>1. answers' = answers /\ unsent' = unsent /\ held' = held /\ pc = "loop" /\ pc' \in {"idle", "loop"}
  BY DEF serveInput, device
<1>2. Kept(s) = <<>> /\ Kept(s)' = <<>>
  BY <1>1 DEF Kept
<1>3. Stream = {"Keyboard", "Mouse"}
  BY DEF Stream
<1>4. CASE keyboardQueue # <<>>
  <2>1. /\ dispatchDriverInterrupt("Keyboard", Head(keyboardQueue))
        /\ keyboardQueue' = Tail(keyboardQueue) /\ outputBuffer' = outputBuffer
        /\ Head(keyboardQueue) \in Byte
    BY <1>4, SeqFacts DEF serveInput, TypeInv, TypeOK
  <2>2. InPort(s)' = InPort(s)
    BY <2>1 DEF InPort, Ready, InputStream, InputByte
  <2>3. CASE s = "Mouse"
    <3>1. dispatched'[s] = dispatched[s] /\ Queued(s)' = Queued(s)
      BY <1>3, <2>1, <2>3, DispatchTyped DEF Queued
    <3> QED  BY <1>1, <1>2, <2>2, <3>1, SameFits
  <2>4. CASE s = "Keyboard"
    <3>1. Queued(s) = keyboardQueue /\ Queued(s)' = keyboardQueue'
      BY <2>4 DEF Queued
    <3>2. 1 \in Stages /\ 3 \in Stages /\ 1 < 3
      BY DEF Stages
    <3>3. Line(s)[3] # <<>> /\ Line(s)'[3] = Tail(Line(s)[3])
          /\ Head(Line(s)[3]) = Head(keyboardQueue)
      BY <1>4, <2>1, <3>1, LineStages
    <3>4. /\ Line(s)'[2] = Line(s)[2] /\ Line(s)'[4] = Line(s)[4]
          /\ Line(s)'[5] = Line(s)[5] /\ Line(s)'[6] = Line(s)[6]
      BY <1>1, <1>2, <2>2, LineStages
    <3>5. ASSUME NEW k \in Stages, 1 < k, k < 3
          PROVE  DOMAIN Line(s)[k] = {}
      <4>1. k = 2
        BY <3>5 DEF Stages
      <4>2. Line(s)[2] = <<>>
        BY <1>2, LineStages
      <4> QED  BY <4>1, <4>2
    <3>6. CASE s \in installed
      <4>1. Line(s)'[1] = Append(Line(s)[1], Head(Line(s)[3]))
        <5>1. dispatched'[s] = Append(dispatched[s], Head(keyboardQueue))
          BY <2>1, <2>4, <3>6, DispatchTyped
        <5> QED  BY <5>1, <3>3, LineStages
      <4>2. V[3] \subseteq V[1] /\ Passes(R, Line(s), 1, 3)
        BY <1>1, <3>5 DEF Admits, Passes
      <4> QED  BY <3>2, <3>3, <3>4, <4>1, <4>2, LineMoves
    <3>7. CASE s \notin installed
      <4>1. Line(s)'[1] = Line(s)[1]
        BY <2>1, <2>4, <3>7, LineStages, DispatchTyped
      <4> QED  BY <3>2, <3>3, <3>4, <4>1, LineDrops
    <3> QED  BY <3>6, <3>7
  <2> QED  BY <1>3, <2>3, <2>4
<1>5. CASE keyboardQueue = <<>> /\ Ready /\ InputStream = "Mouse"
  <2>1. /\ dispatchDriverInterrupt("Mouse", InputByte) /\ InputByte \in Byte
        /\ keyboardQueue' = keyboardQueue /\ outputBuffer' = <<>>
    BY <1>5, BufferFacts DEF serveInput
  <2>2. InPort(s)' = <<>> /\ Queued(s)' = Queued(s)
    BY <2>1 DEF InPort, Ready, Queued
  <2>3. CASE s = "Keyboard"
    <3>1. dispatched'[s] = dispatched[s] /\ InPort(s) = <<>>
      BY <1>3, <1>5, <2>1, <2>3, DispatchTyped DEF InPort
    <3> QED  BY <1>1, <1>2, <2>2, <3>1, SameFits
  <2>4. CASE s = "Mouse"
    <3>1. InPort(s) = <<InputByte>> /\ Queued(s) = <<>>
      BY <1>5, <2>4 DEF InPort, Queued
    <3>2. InPort(s) # <<>> /\ InPort(s)' = Tail(InPort(s)) /\ Head(InPort(s)) = InputByte
      BY <2>1, <2>2, <3>1, OneByte
    <3>3. 1 \in Stages /\ 4 \in Stages /\ 1 < 4
      BY DEF Stages
    <3>4. Line(s)[4] # <<>> /\ Line(s)'[4] = Tail(Line(s)[4]) /\ Head(Line(s)[4]) = InputByte
      BY <3>2, LineStages
    <3>5. /\ Line(s)'[2] = Line(s)[2] /\ Line(s)'[3] = Line(s)[3]
          /\ Line(s)'[5] = Line(s)[5] /\ Line(s)'[6] = Line(s)[6]
      BY <1>1, <1>2, <2>2, LineStages
    <3>6. ASSUME NEW k \in Stages, 1 < k, k < 4
          PROVE  DOMAIN Line(s)[k] = {}
      <4>1. k = 2 \/ k = 3
        BY <3>6 DEF Stages
      <4>2. Line(s)[2] = <<>> /\ Line(s)[3] = <<>>
        BY <1>2, <3>1, LineStages
      <4> QED  BY <4>1, <4>2
    <3>7. CASE s \in installed
      <4>1. Line(s)'[1] = Append(Line(s)[1], Head(Line(s)[4]))
        <5>1. dispatched'[s] = Append(dispatched[s], InputByte)
          BY <2>1, <2>4, <3>7, DispatchTyped
        <5> QED  BY <5>1, <3>4, LineStages
      <4>2. V[4] \subseteq V[1] /\ Passes(R, Line(s), 1, 4)
        BY <1>1, <3>6 DEF Admits, Passes
      <4> QED  BY <3>3, <3>4, <3>5, <4>1, <4>2, LineMoves
    <3>8. CASE s \notin installed
      <4>1. Line(s)'[1] = Line(s)[1]
        BY <2>1, <2>4, <3>8, LineStages, DispatchTyped
      <4> QED  BY <3>3, <3>4, <3>5, <4>1, LineDrops
    <3> QED  BY <3>7, <3>8
  <2> QED  BY <1>3, <2>3, <2>4
<1>6. CASE keyboardQueue = <<>> /\ ~(Ready /\ InputStream = "Mouse")
  <2>1. keyboardQueue' = keyboardQueue /\ outputBuffer' = outputBuffer /\ dispatched' = dispatched
    BY <1>6 DEF serveInput
  <2>2. InPort(s)' = InPort(s) /\ Queued(s)' = Queued(s)
    BY <2>1 DEF InPort, Ready, InputStream, InputByte, Queued
  <2> QED  BY <1>1, <1>2, <2>1, <2>2, SameFits
<1> QED  BY <1>4, <1>5, <1>6

\* readDataPort takes the first byte of stage j, the queue or the port.
LEMMA ReceiveInOrder ==
  ASSUME NEW R, NEW V, NEW s \in Stream, TypeInv, Fits(R, V, Line(s)), Admits(V, s),
         pc \in {"between", "await"}, Now.do \in Reading, Now.stream = s,
         NEW j \in {3, 4}, Line(s)[j] # <<>>, Line(s)'[j] = Tail(Line(s)[j]),
         j = 3 \/ (Line(s)[3] = <<>> /\ Line(s)'[3] = Line(s)[3]),
         j = 4 \/ Line(s)'[4] = Line(s)[4],
         answers' = answers, unsent' = unsent,
         NEW byte \in Byte, byte = Head(Line(s)[j]), receiveByte(byte)
  PROVE  Fits(R, V, Line(s)')
<1>1. TypedLine(Line(s)) /\ Line(s)'[5] = Line(s)[5] /\ Line(s)'[6] = Line(s)[6]
  BY LineTyped, LineStages
<1>2. Kept(s) = held /\ held \in Seq(Byte) /\ Len(held) <= 1
  BY DEF Kept, TypeInv, TypeOK
<1>3. held # <<>> => held[1] \in Byte /\ held[1] = Head(held) /\ Tail(held) = <<>>
  <2> SUFFICES ASSUME held # <<>>
               PROVE  held[1] \in Byte /\ held[1] = Head(held) /\ Tail(held) = <<>>
    OBVIOUS
  <2>1. Len(held) \in Nat \ {0} /\ Len(held) <= 1
    BY <1>2, EmptySeq
  <2>2. Len(held) = 1
    BY <2>1, OnlyOne, Zenon
  <2>3. held[1] \in Byte /\ held[1] = Head(held) /\ Tail(held) \in Seq(Byte) /\ Len(Tail(held)) = Len(held) - 1
    BY <1>2, <2>2, HeadTailProperties
  <2>4. Len(Tail(held)) = 0
    BY <2>2, <2>3
  <2> QED  BY <2>3, <2>4, EmptySeq
<1>4. Line(s)[2] = held /\ (Line(s)[2] = <<>> \/ Tail(Line(s)[2]) = <<>>)
  BY <1>2, <1>3, LineStages
<1>v. Now.do # "read" /\ byte # Expected => byte \in V[1] /\ byte \in V[2]
  <2>1. byte \in V[j] /\ V[j] \subseteq V[3]
    BY <1>1, HeadFits DEF Admits, Stages
  <2> QED  BY <2>1 DEF Admits
<1>5. \/ Line(s)'[1] = Line(s)[1] /\ Line(s)'[2] = <<>>
      \/ /\ Line(s)[2] # <<>> /\ Line(s)'[1] = Append(Line(s)[1], Head(Line(s)[2]))
         /\ Line(s)'[2] = <<>>
      \/ /\ Line(s)[2] = <<>> /\ Line(s)'[1] = Line(s)[1]
         /\ Line(s)'[2] = Append(<<>>, Head(Line(s)[j])) /\ Head(Line(s)[j]) \in V[2]
      \/ /\ Line(s)'[1] = Append(Line(s)[1], Head(Line(s)[j])) /\ Line(s)'[2] = <<>>
         /\ Head(Line(s)[j]) \in V[1]
  <2>1. CASE (Now.do = "read" \/ byte = Expected) /\ held = <<>>
    <3>1. held' = <<>> /\ dispatched' = dispatched
      BY <2>1 DEF receiveByte, returnByte
    <3>2. Kept(s)' = <<>>
      BY <3>1 DEF Kept
    <3> QED  BY <3>1, <3>2, LineStages
  <2>2. CASE (Now.do = "read" \/ byte = Expected) /\ held # <<>>
    <3>1. held' = <<>> /\ dispatchDriverInterrupt(s, held[1])
      BY <2>2 DEF receiveByte, returnByte
    <3>2. Kept(s)' = <<>>
      BY <3>1 DEF Kept
    <3>3. dispatched'[s] = dispatched[s] \/ dispatched'[s] = Append(dispatched[s], held[1])
      BY <1>3, <2>2, <3>1, DispatchTyped
    <3>4. held[1] = Head(Line(s)[2]) /\ Line(s)[2] # <<>>
      BY <1>3, <1>4, <2>2
    <3> QED  BY <3>2, <3>3, <3>4, LineStages
  <2>3. CASE ~(Now.do = "read" \/ byte = Expected) /\ held = <<>>
    <3>1. held' = <<byte>> /\ dispatched' = dispatched /\ pc' = "between"
          /\ program' = program /\ at' = at
      BY <2>3 DEF receiveByte
    <3>2. Kept(s)' = <<byte>>
      BY <3>1 DEF Kept, Now
    <3>3. Kept(s)' = Append(<<>>, Head(Line(s)[j]))
      BY <3>2, OneByte
    <3> QED  BY <1>4, <1>v, <2>3, <3>1, <3>3, LineStages
  <2>4. CASE ~(Now.do = "read" \/ byte = Expected) /\ held # <<>>
    <3>1. held' = <<>> /\ dispatchDriverInterrupt(s, byte)
      BY <2>4 DEF receiveByte, returnByte
    <3>2. Kept(s)' = <<>>
      BY <3>1 DEF Kept
    <3>3. dispatched'[s] = dispatched[s] \/ dispatched'[s] = Append(dispatched[s], byte)
      BY <3>1, DispatchTyped
    <3> QED  BY <1>v, <2>4, <3>2, <3>3, LineStages
  <2> QED  BY <2>1, <2>2, <2>3, <2>4
<1>6. V[2] \subseteq V[1]
  BY DEF Admits
<1> QED  BY <1>1, <1>4, <1>5, <1>6, ReceivesInOrder

\* A stream that is not read: only its own byte in the port can move.
LEMMA NotKept ==
  ASSUME NEW s, pc \in {"between", "await"}, Now.stream # s,
         held' = <<>> \/ (program' = program /\ at' = at)
  PROVE  Kept(s) = <<>> /\ Kept(s)' = <<>>
  BY DEF Kept, Now

LEMMA ReadQueueInOrder ==
  ASSUME NEW R, NEW V, NEW s \in Stream, TypeInv, Fits(R, V, Line(s)), Admits(V, s), readDataPort
  PROVE  Fits(R, V, Line(s)')
<1>1. /\ pc = "between" /\ Now.do \in Reading /\ Now.stream \in Stream
      /\ answers' = answers /\ unsent' = unsent /\ outputBuffer' = outputBuffer
  BY AtNow DEF readDataPort, AtAccess, device
<1>2. InPort(s)' = InPort(s)
  BY <1>1 DEF InPort, Ready, InputStream, InputByte
<1>3. CASE Now.stream = "Keyboard" /\ keyboardQueue # <<>>
  <2>1. /\ receiveByte(Head(keyboardQueue)) /\ keyboardQueue' = Tail(keyboardQueue)
        /\ Head(keyboardQueue) \in Byte
    BY <1>3, SeqFacts DEF readDataPort, TypeInv, TypeOK
  <2>2. CASE s = "Keyboard"
    <3>1. Queued(s) = keyboardQueue /\ Queued(s)' = keyboardQueue'
      BY <2>2 DEF Queued
    <3>2. Line(s)[3] = keyboardQueue /\ Line(s)'[3] = Tail(keyboardQueue)
      BY <2>1, <3>1, LineStages
    <3>3. Line(s)'[4] = Line(s)[4]
      BY <1>2, LineStages
    <3>4. /\ Line(s)[3] # <<>> /\ Line(s)'[3] = Tail(Line(s)[3])
          /\ Head(keyboardQueue) = Head(Line(s)[3])
      BY <1>3, <3>2
    <3> QED  BY <1>1, <1>3, <2>1, <2>2, <3>3, <3>4, ReceiveInOrder
  <2>3. CASE s # "Keyboard"
    <3>1. Queued(s)' = Queued(s)
      BY <2>3 DEF Queued
    <3>2. held' = <<>> \/ (program' = program /\ at' = at)
      BY <2>1 DEF receiveByte, returnByte
    <3>3. Kept(s)' = Kept(s)
      BY <1>1, <1>3, <2>3, <3>2, NotKept
    <3>4. dispatched'[s] = dispatched[s]
      <4>1. held # <<>> => held[1] \in Byte
        BY SeqFacts, <2>1 DEF TypeInv, TypeOK
      <4>2. \/ dispatched' = dispatched
            \/ held # <<>> /\ dispatchDriverInterrupt("Keyboard", held[1])
            \/ dispatchDriverInterrupt("Keyboard", Head(keyboardQueue))
        BY <1>3, <2>1 DEF receiveByte
      <4>3. "Keyboard" \in Stream
        BY DEF Stream
      <4> QED  BY <4>1, <4>2, <4>3, <2>1, <2>3, DispatchTyped
    <3> QED  BY <1>1, <1>2, <3>1, <3>3, <3>4, SameFits
  <2> QED  BY <2>2, <2>3
<1>4. CASE ~(Now.stream = "Keyboard" /\ keyboardQueue # <<>>)
  <2>1. /\ pc' = "await" /\ keyboardQueue' = keyboardQueue /\ held' = held
        /\ program' = program /\ at' = at /\ dispatched' = dispatched
    BY <1>4 DEF readDataPort
  <2>2. Kept(s)' = Kept(s) /\ Queued(s)' = Queued(s)
    BY <1>1, <2>1 DEF Kept, Now, Queued
  <2> QED  BY <1>1, <1>2, <2>1, <2>2, SameFits
<1> QED  BY <1>3, <1>4

\* While readDataPort polls the port for the keyboard stream, the queue is empty: the
\* interrupt handler, which fills it, is locked out.
PolledEmpty == pc = "await" /\ Now.stream = "Keyboard" => keyboardQueue = <<>>

\* A scan code that a read of the mouse stream finds in the port is dispatched ahead of
\* those on the queue.
MayOvertake(R, s) ==
  pc = "await" /\ Ready /\ InputStream = s /\ Now.stream # s =>
    \A l \in DOMAIN Queued(s) : <<InputByte, Queued(s)[l]>> \in R

LEMMA ReadPortInOrder ==
  ASSUME NEW R, NEW V, NEW s \in Stream, TypeInv, Fits(R, V, Line(s)), Admits(V, s), readOutputBuffer,
         PolledEmpty, MayOvertake(R, s)
  PROVE  Fits(R, V, Line(s)')
<1>1. /\ pc = "await" /\ Ready /\ answers' = answers /\ unsent' = unsent
      /\ outputBuffer' = <<>> /\ keyboardQueue' = keyboardQueue
  BY DEF readOutputBuffer, device
<1>2. Now.do \in Reading /\ Now.stream \in Stream /\ InputStream \in Stream /\ InputByte \in Byte
  BY <1>1, AtNow, BufferFacts DEF TypeInv, Running
<1>3. InPort(s)' = <<>> /\ Queued(s)' = Queued(s)
  BY <1>1 DEF InPort, Ready, Queued
<1>4. Stream = {"Keyboard", "Mouse"}
  BY DEF Stream
<1>5. CASE InputStream # s
  <2>1. InPort(s) = <<>>
    BY <1>5 DEF InPort
  <2>2. CASE InputStream = Now.stream
    <3>1. receiveByte(InputByte)
      BY <2>2 DEF readOutputBuffer
    <3>2. held' = <<>> \/ (program' = program /\ at' = at)
      BY <3>1 DEF receiveByte, returnByte
    <3>3. Kept(s)' = Kept(s)
      BY <1>1, <1>5, <2>2, <3>2, NotKept
    <3>4. dispatched'[s] = dispatched[s]
      <4>1. held # <<>> => held[1] \in Byte
        BY SeqFacts, <1>2 DEF TypeInv, TypeOK
      <4>2. \/ dispatched' = dispatched
            \/ held # <<>> /\ dispatchDriverInterrupt(Now.stream, held[1])
            \/ dispatchDriverInterrupt(Now.stream, InputByte)
        BY <3>1 DEF receiveByte
      <4> QED  BY <1>2, <1>5, <2>2, <4>1, <4>2, DispatchTyped
    <3> QED  BY <1>1, <1>3, <2>1, <3>3, <3>4, SameFits
  <2>3. CASE InputStream # Now.stream
    <3>1. /\ Other(Now.stream) = InputStream /\ held' = held /\ pc' = "between"
          /\ program' = program /\ at' = at
          /\ dispatchDriverInterrupt(Other(Now.stream), InputByte)
      BY <1>2, <1>4, <2>3 DEF readOutputBuffer, Other
    <3>2. dispatched'[s] = dispatched[s]
      BY <1>2, <1>5, <3>1, DispatchTyped
    <3>3. Kept(s)' = Kept(s)
      BY <1>1, <3>1 DEF Kept, Now
    <3> QED  BY <1>1, <1>3, <2>1, <3>2, <3>3, SameFits
  <2> QED  BY <2>2, <2>3
<1>6. CASE InputStream = s
  <2>1. InPort(s) = <<InputByte>>
    BY <1>1, <1>6 DEF InPort
  <2>2. InPort(s) # <<>> /\ InPort(s)' = Tail(InPort(s)) /\ Head(InPort(s)) = InputByte
    BY <1>2, <1>3, <2>1, OneByte
  <2>3. /\ Line(s)[4] # <<>> /\ Line(s)'[4] = Tail(Line(s)[4]) /\ InputByte = Head(Line(s)[4])
        /\ Line(s)'[3] = Line(s)[3] /\ Line(s)'[5] = Line(s)[5] /\ Line(s)'[6] = Line(s)[6]
    <3>1. Line(s)[4] = InPort(s) /\ Line(s)'[4] = InPort(s)'
      BY LineStages
    <3>2. Line(s)'[3] = Line(s)[3] /\ Line(s)'[5] = Line(s)[5] /\ Line(s)'[6] = Line(s)[6]
      BY <1>1, <1>3, LineStages
    <3> QED  BY <2>2, <3>1, <3>2
  <2>4. CASE Now.stream = s
    <3>1. receiveByte(InputByte)
      BY <1>6, <2>4 DEF readOutputBuffer
    <3>2. Line(s)[3] = <<>>
      <4>1. Queued(s) = <<>>
        BY <1>1, <2>4 DEF PolledEmpty, Queued
      <4> QED  BY <4>1, LineStages
    <3> QED  BY <1>1, <1>2, <2>3, <2>4, <3>1, <3>2, ReceiveInOrder
  <2>5. CASE Now.stream # s
    <3>1. /\ Other(Now.stream) = s /\ held' = held /\ pc' = "between"
          /\ program' = program /\ at' = at
          /\ dispatchDriverInterrupt(Other(Now.stream), InputByte)
      BY <1>2, <1>4, <1>6, <2>5 DEF readOutputBuffer, Other
    <3>2. Kept(s) = <<>> /\ Kept(s)' = <<>>
      BY <1>1, <2>5, <3>1, NotKept
    <3>3. Line(s)[2] = <<>> /\ Line(s)'[2] = Line(s)[2]
      BY <3>2, LineStages
    <3>4. 1 \in Stages /\ 4 \in Stages /\ 1 < 4
      BY DEF Stages
    <3>5. ASSUME NEW k \in Stages, 1 < k, k < 4, NEW l \in DOMAIN Line(s)[k]
          PROVE  <<Head(Line(s)[4]), Line(s)[k][l]>> \in R
      <4>1. k = 2 \/ k = 3
        BY <3>5 DEF Stages
      <4>2. k = 3
        BY <3>3, <3>5, <4>1
      <4>3. Line(s)[k] = Queued(s)
        BY <4>2, LineStages
      <4>4. l \in DOMAIN Queued(s)
        BY <3>5, <4>3
      <4>5. <<InputByte, Queued(s)[l]>> \in R
        BY <1>1, <1>6, <2>5, <4>4 DEF MayOvertake
      <4> QED  BY <2>3, <4>3, <4>5
    <3>6. CASE s \in installed
      <4>1. Line(s)'[1] = Append(Line(s)[1], Head(Line(s)[4]))
        <5>1. dispatched'[s] = Append(dispatched[s], InputByte)
          BY <1>2, <3>1, <3>6, DispatchTyped
        <5> QED  BY <5>1, <2>3, LineStages
      <4>2. V[4] \subseteq V[1] /\ Passes(R, Line(s), 1, 4)
        BY <1>1, <2>5, <3>5 DEF Admits, Passes
      <4> QED  BY <2>3, <3>3, <3>4, <4>1, <4>2, LineMoves
    <3>7. CASE s \notin installed
      <4>1. Line(s)'[1] = Line(s)[1]
        BY <1>2, <3>1, <3>7, LineStages, DispatchTyped
      <4> QED  BY <2>3, <3>3, <3>4, <4>1, LineDrops
    <3> QED  BY <3>6, <3>7
  <2> QED  BY <2>4, <2>5
<1> QED  BY <1>5, <1>6

LEMMA TimeOutInOrder ==
  ASSUME NEW R, NEW V, NEW s \in Stream, TypeInv, Fits(R, V, Line(s)), Admits(V, s), timeOut
  PROVE  Fits(R, V, Line(s)')
<1>1. /\ pc = "await" /\ answers' = answers /\ unsent' = unsent /\ outputBuffer' = outputBuffer
      /\ keyboardQueue' = keyboardQueue /\ dispatched' = dispatched /\ held' = <<>>
  BY DEF timeOut, returnByte, device
<1>2. Kept(s)' = <<>> /\ InPort(s)' = InPort(s) /\ Queued(s)' = Queued(s)
  BY <1>1 DEF Kept, InPort, Ready, InputStream, InputByte, Queued
<1>3. CASE Kept(s) = <<>>
  BY <1>1, <1>2, <1>3, SameFits
<1>4. CASE Kept(s) # <<>>
  <2>1. Kept(s) = held /\ held \in Seq(Byte) /\ Len(held) <= 1
    BY <1>4 DEF Kept, TypeInv, TypeOK
  <2>2. Tail(held) = <<>>
    <3>1. Len(held) \in Nat \ {0} /\ Len(held) <= 1
      BY <1>4, <2>1, EmptySeq
    <3>2. Len(held) = 1
      BY <3>1, OnlyOne, Zenon
    <3>3. Tail(held) \in Seq(Byte) /\ Len(Tail(held)) = Len(held) - 1
      BY <1>4, <2>1, HeadTailProperties
    <3>4. Len(Tail(held)) = 0
      BY <3>2, <3>3
    <3> QED  BY <3>3, <3>4, EmptySeq
  <2>3. 2 \in Stages
    BY DEF Stages
  <2>4. Line(s)[2] # <<>> /\ Line(s)'[2] = Tail(Line(s)[2])
    BY <1>2, <1>4, <2>1, <2>2, LineStages
  <2>5. /\ Line(s)'[1] = Line(s)[1] /\ Line(s)'[3] = Line(s)[3] /\ Line(s)'[4] = Line(s)[4]
        /\ Line(s)'[5] = Line(s)[5] /\ Line(s)'[6] = Line(s)[6]
    BY <1>1, <1>2, LineStages
  <2> QED  BY <2>3, <2>4, <2>5, LineDrops
<1> QED  BY <1>3, <1>4

\* A command is sent to the device: its acknowledge takes the place after all that is on
\* its way.
AckFits(R, V, s) ==
  access /\ Now.do = "send" /\ Now.stream = s =>
    Suits(R, Line(s), 5, Acknowledge) /\ Acknowledge \in V[5]

\* The command byte is not asked for.
NoGet == \A p \in Programs : \A k \in DOMAIN p : p[k].do # "get"

LEMMA AccessInOrder ==
  ASSUME NEW R, NEW V, NEW s \in Stream, TypeInv, Fits(R, V, Line(s)), Admits(V, s), access, NoGet, AckFits(R, V, s)
  PROVE  Fits(R, V, Line(s)')
<1>1. /\ pc = "between" /\ Now.do \notin Reading /\ unsent' = unsent /\ outputBuffer' = outputBuffer
      /\ keyboardQueue' = keyboardQueue /\ dispatched' = dispatched /\ held' = held
  BY DEF access, AtAccess, Reading
<1>2. held = <<>>
  BY <1>1 DEF TypeInv, Running
<1>3. Kept(s)' = Kept(s) /\ InPort(s)' = InPort(s) /\ Queued(s)' = Queued(s)
  BY <1>1, <1>2 DEF Kept, InPort, Ready, InputStream, InputByte, Queued
<1>4. Now.do # "get"
  <2>1. program \in Programs /\ at \in DOMAIN program /\ Now = program[at]
    BY <1>1, AtNow, LenProperties
  <2> QED  BY <2>1 DEF NoGet
<1>5. CASE Now.do = "send" /\ Now.stream = s
  <2>1. answers'[s] = Append(answers[s], Acknowledge)
    BY <1>5 DEF access, TypeInv, TypeOK
  <2>2. Acknowledge \in Byte /\ 5 \in Stages
    BY DEF Acknowledge, Byte, Stages
  <2>3. Adds(Line(s), Line(s)', 5, Acknowledge)
    <3>1. Line(s)'[5] = Append(Line(s)[5], Acknowledge)
      BY <2>1, LineStages
    <3>2. /\ Line(s)'[1] = Line(s)[1] /\ Line(s)'[2] = Line(s)[2] /\ Line(s)'[3] = Line(s)[3]
          /\ Line(s)'[4] = Line(s)[4] /\ Line(s)'[6] = Line(s)[6]
      BY <1>1, <1>3, LineStages
    <3>3. ASSUME NEW k \in Stages \ {5} PROVE Line(s)'[k] = Line(s)[k]
      BY <3>2 DEF Stages
    <3> QED  BY <3>1, <3>3 DEF Adds
  <2>4. Suits(R, Line(s), 5, Acknowledge) /\ Acknowledge \in V[5]
    BY <1>5 DEF AckFits
  <2> QED  BY <2>2, <2>3, <2>4, LineTyped, AddsFit
<1>6. CASE ~(Now.do = "send" /\ Now.stream = s)
  <2>1. answers'[s] = answers[s]
    BY <1>4, <1>6 DEF access, TypeInv, TypeOK
  <2> QED  BY <1>1, <1>3, <2>1, SameFits
<1> QED  BY <1>5, <1>6

\* A step keeps the order of a line, if acknowledges fit in and whatever overtakes may.
LEMMA StepInOrder ==
  ASSUME NEW R, NEW V, NEW s \in Stream, TypeInv, PolledEmpty, Fits(R, V, Line(s)), Admits(V, s), [Next]_vars,
         NoGet, AckFits(R, V, s), MayOvertake(R, s)
  PROVE  Fits(R, V, Line(s)')
<1>1. CASE \E d \in Stream : deviceReports(d) \/ loseByte(d) \/ fillOutputBuffer(d)
  BY <1>1, ReportInOrder, LossInOrder, FillInOrder
<1>2. CASE interruptHandlerKeyboard \/ interruptHandlerMouse
  BY <1>2, HandlersInOrder
<1>3. CASE interruptOccurred \/ \E p \in Programs : beginProgram(p)
  BY <1>3, EntriesInOrder
<1>4. CASE serveInput \/ timeOut
  BY <1>4, ServeInOrder, TimeOutInOrder
<1>5. CASE access
  BY <1>5, AccessInOrder
<1>6. CASE readDataPort \/ readOutputBuffer
  BY <1>6, ReadQueueInOrder, ReadPortInOrder
<1>7. CASE UNCHANGED vars
  <2>1. Line(s)' = Line(s)
    BY <1>7 DEF vars, Line, Kept, Queued, InPort, Ready, InputStream, InputByte, Now
  <2> QED  BY <2>1
<1> QED  BY <1>1, <1>2, <1>3, <1>4, <1>5, <1>6, <1>7 DEF Next, WorkLoop

LEMMA StepPolls == TypeInv /\ PolledEmpty /\ [Next]_vars => PolledEmpty'
<1> SUFFICES ASSUME TypeInv, PolledEmpty, [Next]_vars, pc' = "await", Now'.stream = "Keyboard"
             PROVE  keyboardQueue' = <<>>
  BY DEF PolledEmpty
<1>1. CASE pc = "await" /\ pc' = pc /\ program' = program /\ at' = at /\ keyboardQueue' = keyboardQueue
  BY <1>1 DEF PolledEmpty, Now
<1>2. ASSUME NEW d \in Stream, deviceReports(d) \/ loseByte(d) \/ fillOutputBuffer(d)
      PROVE  keyboardQueue' = <<>>
  BY <1>1, <1>2 DEF deviceReports, loseByte, fillOutputBuffer
<1>3. CASE interruptHandlerKeyboard
  BY <1>3 DEF interruptHandlerKeyboard
<1>4. CASE interruptHandlerMouse
  BY <1>1, <1>4 DEF interruptHandlerMouse
<1>5. CASE interruptOccurred \/ serveInput \/ \E p \in Programs : beginProgram(p)
  BY <1>5 DEF interruptOccurred, serveInput, beginProgram
<1>6. CASE access
  <2>1. pc' \in {"idle", "between"}
    BY <1>6 DEF access, GoTo
  <2> QED  BY <2>1
<1>7. CASE readDataPort
  <2>1. CASE Now.stream = "Keyboard" /\ keyboardQueue # <<>>
    <3>1. receiveByte(Head(keyboardQueue))
      BY <1>7, <2>1 DEF readDataPort
    <3>2. pc' \in {"idle", "between"}
      BY <3>1 DEF receiveByte, returnByte, GoTo
    <3> QED  BY <3>2
  <2>2. CASE ~(Now.stream = "Keyboard" /\ keyboardQueue # <<>>)
    BY <1>7, <2>2 DEF readDataPort, Now
  <2> QED  BY <2>1, <2>2
<1>8. CASE readOutputBuffer
  <2>1. pc' \in {"idle", "between"}
    BY <1>8 DEF readOutputBuffer, receiveByte, returnByte, GoTo
  <2> QED  BY <2>1
<1>9. CASE timeOut
  <2>1. pc' \in {"idle", "between"}
    BY <1>9 DEF timeOut, returnByte, GoTo
  <2> QED  BY <2>1
<1>10. CASE UNCHANGED vars
  BY <1>1, <1>10 DEF vars
<1> QED  BY <1>2, <1>3, <1>4, <1>5, <1>6, <1>7, <1>8, <1>9, <1>10 DEF Next, WorkLoop

-----------------------------------------------------------------------------
(* Scan codes stay in order.                                               *)

\* Programs that read the keyboard stream only and do not ask for the command byte, and
\* keys that can be told apart, from each other and from an acknowledge.
KeyboardPrograms ==
  \A p \in Programs : \A k \in DOMAIN p :
    p[k].do # "get" /\ (p[k].do \in Reading => p[k].stream = "Keyboard")
DistinctKeys ==
  LET keys == Data["Keyboard"]
  IN  /\ \A m, n \in DOMAIN keys : keys[m] = keys[n] => m = n
      /\ \A m \in DOMAIN keys : keys[m] # Acknowledge

Before ==
  {pair \in Byte \X Byte :
     \A m, n \in DOMAIN Data["Keyboard"] :
       pair[1] = Data["Keyboard"][m] /\ pair[2] = Data["Keyboard"][n] => m < n}
Anywhere == [i \in Stages |-> Byte]

KeysInv == PolledEmpty /\ Fits(Before, Anywhere, Line("Keyboard"))

LEMMA KeysAtFirst ==
  ASSUME Init, DistinctKeys
  PROVE  KeysInv
<1>1. PolledEmpty
  BY DEF Init, PolledEmpty
<1>2. /\ Line("Keyboard")[1] = <<>> /\ Line("Keyboard")[2] = <<>> /\ Line("Keyboard")[3] = <<>>
      /\ Line("Keyboard")[4] = <<>> /\ Line("Keyboard")[5] = <<>>
      /\ Line("Keyboard")[6] = Data["Keyboard"]
  BY LineStages DEF Init, Kept, Queued, InPort, Ready, Stream
<1>3. Data["Keyboard"] \in Seq(Byte)
  BY PortAssumption DEF Stream
<1>4. ASSUME NEW i \in Stages, NEW k \in DOMAIN Line("Keyboard")[i]
      PROVE  i = 6 /\ k \in DOMAIN Data["Keyboard"] /\ k \in Nat
             /\ Line("Keyboard")[i][k] = Data["Keyboard"][k] /\ Data["Keyboard"][k] \in Byte
  <2>1. i = 6
    BY <1>2, <1>4 DEF Stages
  <2>2. k \in DOMAIN Data["Keyboard"] /\ Line("Keyboard")[i][k] = Data["Keyboard"][k]
    BY <1>2, <1>4, <2>1
  <2>3. DOMAIN Data["Keyboard"] = 1..Len(Data["Keyboard"]) /\ Len(Data["Keyboard"]) \in Nat
    BY <1>3, LenProperties
  <2> QED  BY <1>3, <2>1, <2>2, <2>3, ElementOfSeq
<1>5. ASSUME NEW i \in Stages, NEW j \in Stages,
             NEW k \in DOMAIN Line("Keyboard")[i], NEW l \in DOMAIN Line("Keyboard")[j],
             i < j \/ (i = j /\ k < l)
      PROVE  <<Line("Keyboard")[i][k], Line("Keyboard")[j][l]>> \in Before
  <2>1. /\ k \in DOMAIN Data["Keyboard"] /\ Line("Keyboard")[i][k] = Data["Keyboard"][k]
        /\ l \in DOMAIN Data["Keyboard"] /\ Line("Keyboard")[j][l] = Data["Keyboard"][l]
        /\ Data["Keyboard"][k] \in Byte /\ Data["Keyboard"][l] \in Byte /\ k < l
    BY <1>4, <1>5
  <2>2. <<Data["Keyboard"][k], Data["Keyboard"][l]>> \in Before
    BY <2>1 DEF Before, DistinctKeys
  <2> QED  BY <2>1, <2>2
<1>6. \A i \in Stages : \A k \in DOMAIN Line("Keyboard")[i] : Line("Keyboard")[i][k] \in Anywhere[i]
  BY <1>4 DEF Anywhere
<1> QED  BY <1>1, <1>5, <1>6 DEF KeysInv, Fits, InOrder

LEMMA StepKeepsKeys ==
  ASSUME KeyboardPrograms, DistinctKeys, TypeInv, KeysInv, [Next]_vars
  PROVE  KeysInv'
<1>1. "Keyboard" \in Stream /\ PolledEmpty /\ Fits(Before, Anywhere, Line("Keyboard"))
  BY DEF Stream, KeysInv
<1>2. PolledEmpty'
  BY <1>1, StepPolls
<1>3. NoGet
  BY DEF NoGet, KeyboardPrograms
<1>4. Admits(Anywhere, "Keyboard")
  <2>1. /\ Anywhere[1] = Byte /\ Anywhere[2] = Byte /\ Anywhere[3] = Byte /\ Anywhere[4] = Byte
        /\ Anywhere[5] = Byte /\ Anywhere[6] = Byte
    BY DEF Anywhere, Stages
  <2> QED  BY <2>1 DEF Admits
<1>5. AckFits(Before, Anywhere, "Keyboard")
  <2>1. Acknowledge \in Byte /\ Acknowledge \in Anywhere[5]
    BY DEF Acknowledge, Byte, Anywhere, Stages
  <2>2. ASSUME NEW i \in Stages, NEW k \in DOMAIN Line("Keyboard")[i]
        PROVE  /\ <<Line("Keyboard")[i][k], Acknowledge>> \in Before
               /\ <<Acknowledge, Line("Keyboard")[i][k]>> \in Before
    <3>1. Line("Keyboard")[i][k] \in Byte
      BY <1>1, <2>2 DEF Fits, Anywhere
    <3>2. \A m \in DOMAIN Data["Keyboard"] : Data["Keyboard"][m] # Acknowledge
      BY DEF DistinctKeys
    <3> QED  BY <2>1, <3>1, <3>2 DEF Before
  <2> QED  BY <2>1, <2>2 DEF AckFits, Suits
<1>6. MayOvertake(Before, "Keyboard")
  <2> SUFFICES ASSUME pc = "await" PROVE Now.stream = "Keyboard"
    BY DEF MayOvertake
  <2>1. program \in Programs /\ at \in DOMAIN program /\ Now = program[at] /\ Now.do \in Reading
    BY AtNow, LenProperties DEF TypeInv, Running
  <2> QED  BY <2>1 DEF KeyboardPrograms
<1>7. Fits(Before, Anywhere, Line("Keyboard")')
  BY <1>1, <1>3, <1>4, <1>5, <1>6, StepInOrder
<1> QED  BY <1>2, <1>7 DEF KeysInv

LEMMA KeysInvInOrder ==
  ASSUME TypeInv, KeysInv
  PROVE  KeysInOrder
<1> SUFFICES ASSUME NEW j \in 1..Len(dispatched["Keyboard"]), NEW k \in 1..Len(dispatched["Keyboard"]),
                    NEW m \in 1..Len(Data["Keyboard"]), NEW n \in 1..Len(Data["Keyboard"]),
                    j < k, dispatched["Keyboard"][j] = Data["Keyboard"][m],
                    dispatched["Keyboard"][k] = Data["Keyboard"][n]
             PROVE  m < n
  BY DEF KeysInOrder
<1>1. dispatched["Keyboard"] \in Seq(Byte) /\ Data["Keyboard"] \in Seq(Byte)
  BY PortAssumption DEF TypeInv, TypeOK, Stream
<1>2. /\ j \in DOMAIN dispatched["Keyboard"] /\ k \in DOMAIN dispatched["Keyboard"]
      /\ m \in DOMAIN Data["Keyboard"] /\ n \in DOMAIN Data["Keyboard"]
  BY <1>1, LenProperties
<1>3. Line("Keyboard")[1] = dispatched["Keyboard"] /\ 1 \in Stages
  BY LineStages DEF Stages
<1>4. <<dispatched["Keyboard"][j], dispatched["Keyboard"][k]>> \in Before
  BY <1>2, <1>3 DEF KeysInv, Fits, InOrder
<1> QED  BY <1>2, <1>4 DEF Before

\* Scan codes reach the keyboard driver in the order of the keyboard, for any number of
\* keys and every size of the queue: a full queue may drop them, a request may take them
\* for its answer or hold them back, time-outs may expire, and none overtakes another.
\* Needed is that no program reads the mouse stream (a scan code in the port would be
\* dispatched ahead of the queue).
THEOREM KeysStayInOrder ==
  ASSUME KeyboardPrograms, DistinctKeys
  PROVE  Spec => []KeysInOrder
<1>1. Init => KeysInv
  BY KeysAtFirst
<1>2. TypeInv /\ KeysInv /\ [Next]_vars => KeysInv'
  BY StepKeepsKeys
<1>3. TypeInv /\ KeysInv => KeysInOrder
  BY KeysInvInOrder
<1> QED  BY <1>1, <1>2, <1>3, TypeInvHolds, PTL DEF Spec

-----------------------------------------------------------------------------
(* The out-of-order data correction.                                       *)

\* Every command is followed by the read of its acknowledge, and nothing else is read.
AcknowledgedPrograms ==
  \A p \in Programs : \A k \in DOMAIN p :
    /\ p[k].do \notin {"get", "read", "test"}
    /\ p[k].do = "send" => /\ k + 1 \in DOMAIN p /\ p[k + 1].do = "compare"
                           /\ p[k + 1].stream = p[k].stream

\* A device sends at most one byte on its own, which is no acknowledge.
OneByteEach ==
  \A s \in Stream : Len(Data[s]) <= 1 /\ Data[s] # <<Acknowledge>>

Awaited(s) == pc \in {"between", "await"} /\ Now.do = "compare" /\ Now.stream = s

\* No byte is twice in a line.  An acknowledge is only on its way while it is awaited, and
\* the rest is what the device sent on its own.
Apart == {pair \in Byte \X Byte : pair[1] # pair[2]}
Own(s) == {x \in Byte : Data[s] = <<x>>}
OnlyOwn(s) == [i \in Stages |-> Own(s)]
WithAck(s) == [i \in Stages |-> IF i \in {3, 4, 5} THEN Own(s) \cup {Acknowledge} ELSE Own(s)]
Places(s) == IF Awaited(s) THEN WithAck(s) ELSE OnlyOwn(s)

CorrectionInv ==
  /\ PolledEmpty /\ ~failed
  /\ \A s \in Stream : Fits(Apart, Places(s), Line(s))

LEMMA PlacesFacts ==
  ASSUME NEW s
  PROVE  /\ OnlyOwn(s)[1] = Own(s) /\ OnlyOwn(s)[2] = Own(s) /\ OnlyOwn(s)[3] = Own(s)
         /\ OnlyOwn(s)[4] = Own(s) /\ OnlyOwn(s)[5] = Own(s) /\ OnlyOwn(s)[6] = Own(s)
         /\ WithAck(s)[1] = Own(s) /\ WithAck(s)[2] = Own(s) /\ WithAck(s)[6] = Own(s)
         /\ WithAck(s)[3] = Own(s) \cup {Acknowledge} /\ WithAck(s)[4] = Own(s) \cup {Acknowledge}
         /\ WithAck(s)[5] = Own(s) \cup {Acknowledge}
         /\ \A i \in Stages : /\ OnlyOwn(s)[i] = Own(s)
                              /\ WithAck(s)[i] \subseteq Own(s) \cup {Acknowledge}
                              /\ Own(s) \subseteq WithAck(s)[i]
<1>1. \A i \in Stages : OnlyOwn(s)[i] = Own(s)
  BY DEF OnlyOwn
<1>2. \A i \in Stages : WithAck(s)[i] = IF i \in {3, 4, 5} THEN Own(s) \cup {Acknowledge} ELSE Own(s)
  BY DEF WithAck
<1>3. 1 \in Stages /\ 2 \in Stages /\ 3 \in Stages /\ 4 \in Stages /\ 5 \in Stages /\ 6 \in Stages
  BY DEF Stages
<1> QED  BY <1>1, <1>2, <1>3

LEMMA OwnByte ==
  ASSUME OneByteEach, NEW s \in Stream
  PROVE  /\ Acknowledge \notin Own(s)
         /\ \A x, y \in Own(s) : x = y
<1>1. Data[s] # <<Acknowledge>>
  BY DEF OneByteEach
<1>2. Acknowledge \notin Own(s)
  BY <1>1 DEF Own
<1>3. ASSUME NEW x \in Own(s), NEW y \in Own(s) PROVE x = y
  <2>1. <<x>> = <<y>>
    BY DEF Own
  <2> QED  BY <2>1
<1> QED  BY <1>2, <1>3

LEMMA CorrectionAtFirst ==
  ASSUME Init, OneByteEach
  PROVE  CorrectionInv
<1>1. PolledEmpty /\ ~failed
  BY DEF Init, PolledEmpty
<1>2. ASSUME NEW s \in Stream PROVE Fits(Apart, Places(s), Line(s))
  <2>1. /\ Line(s)[1] = <<>> /\ Line(s)[2] = <<>> /\ Line(s)[3] = <<>>
        /\ Line(s)[4] = <<>> /\ Line(s)[5] = <<>> /\ Line(s)[6] = Data[s]
    BY LineStages DEF Init, Kept, Queued, InPort, Ready, Stream
  <2>2. Places(s) = OnlyOwn(s)
    BY DEF Init, Places, Awaited
  <2>3. Data[s] \in Seq(Byte) /\ Len(Data[s]) <= 1
    BY PortAssumption DEF OneByteEach
  <2>4. DOMAIN Data[s] = 1..Len(Data[s]) /\ Len(Data[s]) \in Nat
    BY <2>3, LenProperties
  <2>5. ASSUME NEW i \in Stages, NEW k \in DOMAIN Line(s)[i]
        PROVE  i = 6 /\ k = 1 /\ Line(s)[i][k] \in Own(s)
    <3>1. i = 6
      BY <2>1, <2>5 DEF Stages
    <3>2. k \in 1..Len(Data[s])
      BY <2>1, <2>4, <2>5, <3>1
    <3>3. k = 1 /\ Len(Data[s]) = 1
      BY <2>3, <2>4, <3>2, AtMostOne, Zenon
    <3>4. Data[s] = <<Data[s][1]>> /\ Data[s][1] \in Byte
      BY <2>3, <3>3, ElementOfSeq
    <3>5. Line(s)[i][k] = Data[s][1]
      BY <2>1, <3>1, <3>3
    <3> QED  BY <3>1, <3>3, <3>4, <3>5 DEF Own
  <2>6. InOrder(Apart, Line(s))
    <3>1. ASSUME NEW i \in Stages, NEW j \in Stages,
                 NEW k \in DOMAIN Line(s)[i], NEW l \in DOMAIN Line(s)[j],
                 i < j \/ (i = j /\ k < l)
          PROVE  <<Line(s)[i][k], Line(s)[j][l]>> \in Apart
      BY <2>5, <3>1
    <3> QED  BY <3>1 DEF InOrder
  <2>7. \A i \in Stages : \A k \in DOMAIN Line(s)[i] : Line(s)[i][k] \in OnlyOwn(s)[i]
    BY <2>5, PlacesFacts
  <2> QED  BY <2>2, <2>6, <2>7 DEF Fits
<1> QED  BY <1>1, <1>2 DEF CorrectionInv

\* What a read that expects an acknowledge does with the first byte of stage j: it is the
\* acknowledge, or it is held; there is no second unexpected one.
LEMMA CompareFinds ==
  ASSUME TypeInv, CorrectionInv, OneByteEach, NEW s \in Stream, Awaited(s), NEW j \in {3, 4},
         Line(s)[j] # <<>>, NEW byte \in Byte, byte = Head(Line(s)[j]), receiveByte(byte)
  PROVE  \/ /\ byte = Acknowledge /\ ~failed' /\ held' = <<>>
            /\ \/ dispatched'[s] = dispatched[s]
               \/ held # <<>> /\ dispatched'[s] = Append(dispatched[s], held[1])
         \/ /\ ~failed' /\ pc' = "between" /\ program' = program /\ at' = at
<1>1. ~failed /\ pc \in {"between", "await"} /\ Now.do = "compare" /\ Now.stream = s
  BY DEF CorrectionInv, Awaited
<1>2. Expected = Acknowledge /\ Now.do # "read"
  BY <1>1 DEF Expected
<1>3. held \in Seq(Byte) /\ (held # <<>> => held[1] \in Byte /\ 1 \in DOMAIN held)
  BY TailElements, SeqFacts DEF TypeInv, TypeOK
<1>4. CASE byte = Acknowledge
  <2>1. held' = <<>> /\ ~failed'
    BY <1>1, <1>2, <1>4 DEF receiveByte, returnByte
  <2>2. CASE held # <<>>
    <3>1. dispatchDriverInterrupt(s, held[1])
      BY <1>1, <1>2, <1>4, <2>2 DEF receiveByte
    <3>2. dispatched'[s] = dispatched[s] \/ dispatched'[s] = Append(dispatched[s], held[1])
      BY <1>3, <2>2, <3>1, DispatchTyped
    <3> QED  BY <1>4, <2>1, <2>2, <3>2
  <2>3. CASE held = <<>>
    <3>1. dispatched' = dispatched
      BY <1>1, <1>2, <1>4, <2>3 DEF receiveByte
    <3> QED  BY <1>4, <2>1, <3>1
  <2> QED  BY <2>2, <2>3
<1>5. CASE byte # Acknowledge /\ held = <<>>
  BY <1>1, <1>2, <1>5 DEF receiveByte
<1>6. CASE byte # Acknowledge /\ held # <<>>
  <2>1. Places(s) = WithAck(s) /\ Fits(Apart, WithAck(s), Line(s)) /\ TypedLine(Line(s))
    BY LineTyped DEF Places, CorrectionInv
  <2>2. j \in Stages /\ 2 \in Stages /\ 2 < j
    BY DEF Stages
  <2>3. byte \in Own(s)
    <3>1. byte \in WithAck(s)[j]
      BY <2>1, <2>2, HeadFits
    <3> QED  BY <1>6, <2>2, <3>1, PlacesFacts
  <2>4. Line(s)[2] = held
    BY <1>1, LineStages DEF Kept
  <2>5. held[1] \in Own(s)
    <3>1. 1 \in DOMAIN Line(s)[2] /\ Line(s)[2][1] = held[1]
      BY <1>3, <1>6, <2>4
    <3>2. held[1] \in WithAck(s)[2]
      BY <2>1, <2>2, <3>1 DEF Fits
    <3> QED  BY <3>2, PlacesFacts
  <2>6. <<held[1], byte>> \in Apart
    <3>1. 1 \in DOMAIN Line(s)[j] /\ Line(s)[j][1] = byte
      BY <2>1, <2>2, TailElements DEF TypedLine
    <3>2. 1 \in DOMAIN Line(s)[2] /\ Line(s)[2][1] = held[1]
      BY <1>3, <1>6, <2>4
    <3>3. <<Line(s)[2][1], Line(s)[j][1]>> \in Apart
      BY <2>1, <2>2, <3>1, <3>2 DEF Fits, InOrder
    <3> QED  BY <3>1, <3>2, <3>3
  <2>7. held[1] = byte
    BY <2>3, <2>5, OwnByte
  <2> QED  BY <2>6, <2>7 DEF Apart
<1> QED  BY <1>4, <1>5, <1>6

\* When the acknowledge has been read, none is left in the line.
LEMMA AckLeaves ==
  ASSUME NEW V, NEW line, NEW next, TypedLine(line), Fits(Apart, V, line), NEW j \in {3, 4},
         line[j] # <<>>, Head(line[j]) = Acknowledge, next[j] = Tail(line[j]),
         j = 3 \/ next[3] = line[3], j = 4 \/ next[4] = line[4],
         next[5] = line[5], next[6] = line[6], next[2] = <<>>,
         \/ next[1] = line[1]
         \/ line[2] # <<>> /\ next[1] = Append(line[1], line[2][1]),
         NEW i \in Stages, NEW k \in DOMAIN next[i]
  PROVE  next[i][k] # Acknowledge
<1>0. j \in Stages /\ 1 \in Stages /\ 2 \in Stages /\ 1 < j /\ 2 < j
  BY DEF Stages
<1>1. /\ line[j] \in Seq(Byte) /\ 1 \in DOMAIN line[j] /\ line[j][1] = Acknowledge
      /\ \A l \in DOMAIN Tail(line[j]) :
           l \in Nat \ {0} /\ l + 1 \in DOMAIN line[j] /\ Tail(line[j])[l] = line[j][l + 1]
  BY <1>0, TailElements DEF TypedLine
<1>2. ASSUME NEW a \in Stages, NEW l \in DOMAIN line[a], a # j \/ (l \in Nat /\ 1 < l)
      PROVE  line[a][l] # Acknowledge
  <2>1. CASE a < j
    <3>1. <<line[a][l], line[j][1]>> \in Apart
      BY <1>0, <1>1, <2>1 DEF Fits, InOrder
    <3> QED  BY <1>1, <3>1 DEF Apart
  <2>2. CASE j < a \/ (j = a /\ 1 < l)
    <3>1. <<line[j][1], line[a][l]>> \in Apart
      BY <1>0, <1>1, <2>2 DEF Fits, InOrder
    <3> QED  BY <1>1, <3>1 DEF Apart
  <2> QED  BY <1>2, <2>1, <2>2 DEF Stages
<1>3. CASE i = j
  <2>1. k \in Nat \ {0} /\ k + 1 \in DOMAIN line[j] /\ next[i][k] = line[j][k + 1]
    BY <1>1, <1>3
  <2>2. k + 1 \in Nat /\ 1 < k + 1
    BY <2>1
  <2> QED  BY <1>0, <1>2, <2>1, <2>2
<1>4. CASE i = 1
  <2>1. CASE next[1] = line[1]
    BY <1>0, <1>2, <1>4, <2>1
  <2>2. CASE line[2] # <<>> /\ next[1] = Append(line[1], line[2][1])
    <3>1. line[1] \in Seq(Byte) /\ line[2][1] \in Byte /\ 1 \in DOMAIN line[2]
      BY <1>0, <2>2, TailElements DEF TypedLine
    <3>2. next[1][k] = line[2][1] \/ (k \in DOMAIN line[1] /\ next[1][k] = line[1][k])
      BY <1>4, <2>2, <3>1, AppendElements
    <3> QED  BY <1>0, <1>2, <1>4, <3>1, <3>2
  <2> QED  BY <2>1, <2>2
<1>5. CASE i # j /\ i # 1
  <2>1. i # 2
    <3>1. DOMAIN next[2] = {}
      OBVIOUS
    <3> QED  BY <3>1
  <2>2. next[i] = line[i]
    BY <1>5, <2>1 DEF Stages
  <2> QED  BY <1>2, <1>5, <2>2
<1> QED  BY <1>3, <1>4, <1>5

\* The wait for an acknowledge ends when a byte of its stream is received.
LEMMA AwaitEnds ==
  ASSUME TypeInv, ~Timeouts, NEW s, Awaited(s), [Next]_vars, ~Awaited(s)'
  PROVE  \/ readDataPort /\ s = "Keyboard" /\ keyboardQueue # <<>>
         \/ readOutputBuffer /\ InputStream = s
<1>1. pc \in {"between", "await"} /\ Now.do = "compare" /\ Now.stream = s
  BY DEF Awaited
<1>2. ~(pc' \in {"between", "await"} /\ program' = program /\ at' = at)
  BY <1>1 DEF Awaited, Now
<1>3. ASSUME NEW d \in Stream PROVE ~(deviceReports(d) \/ loseByte(d) \/ fillOutputBuffer(d))
  BY <1>1, <1>2 DEF deviceReports, loseByte, fillOutputBuffer
<1>4. ~interruptHandlerKeyboard /\ ~interruptHandlerMouse
  BY <1>1, <1>2 DEF interruptHandlerKeyboard, interruptHandlerMouse
<1>5. ~interruptOccurred /\ ~serveInput /\ ~timeOut /\ \A p \in Programs : ~beginProgram(p)
  BY <1>1 DEF interruptOccurred, serveInput, timeOut, beginProgram
<1>6. ~access
  BY <1>1 DEF access, AtAccess
<1>7. CASE readDataPort
  BY <1>1, <1>2, <1>7 DEF readDataPort
<1>8. CASE readOutputBuffer
  BY <1>1, <1>2, <1>8 DEF readOutputBuffer
<1>9. ~UNCHANGED vars
  BY <1>1, <1>2 DEF vars
<1> QED  BY <1>3, <1>4, <1>5, <1>6, <1>7, <1>8, <1>9 DEF Next, WorkLoop

\* The byte that is received while an acknowledge is awaited, in the queue or in the port.
LEMMA AwaitedByte ==
  ASSUME TypeInv, NEW s \in Stream, Awaited(s),
         \/ readDataPort /\ s = "Keyboard" /\ keyboardQueue # <<>>
         \/ readOutputBuffer /\ InputStream = s
  PROVE  \E j \in {3, 4} :
           /\ Line(s)[j] # <<>> /\ Head(Line(s)[j]) \in Byte /\ receiveByte(Head(Line(s)[j]))
           /\ Line(s)'[j] = Tail(Line(s)[j])
           /\ j = 3 \/ Line(s)'[3] = Line(s)[3]
           /\ j = 4 \/ Line(s)'[4] = Line(s)[4]
           /\ Line(s)'[5] = Line(s)[5] /\ Line(s)'[6] = Line(s)[6]
<1>1. Now.stream = s
  BY DEF Awaited
<1>2. CASE readDataPort /\ s = "Keyboard" /\ keyboardQueue # <<>>
  <2>1. /\ receiveByte(Head(keyboardQueue)) /\ keyboardQueue' = Tail(keyboardQueue)
        /\ Head(keyboardQueue) \in Byte
        /\ answers' = answers /\ unsent' = unsent /\ outputBuffer' = outputBuffer
    BY <1>1, <1>2, SeqFacts DEF readDataPort, device, TypeInv, TypeOK
  <2>2. Queued(s) = keyboardQueue /\ Queued(s)' = keyboardQueue'
    BY <1>2 DEF Queued
  <2>3. InPort(s)' = InPort(s)
    BY <2>1 DEF InPort, Ready, InputStream, InputByte
  <2>4. Line(s)[3] = keyboardQueue /\ Line(s)'[3] = Tail(keyboardQueue)
    BY <2>1, <2>2, LineStages
  <2>5. Line(s)'[4] = Line(s)[4] /\ Line(s)'[5] = Line(s)[5] /\ Line(s)'[6] = Line(s)[6]
    BY <2>1, <2>3, LineStages
  <2> QED  BY <1>2, <2>1, <2>4, <2>5
<1>3. CASE readOutputBuffer /\ InputStream = s
  <2>1. /\ Ready /\ receiveByte(InputByte) /\ outputBuffer' = <<>> /\ keyboardQueue' = keyboardQueue
        /\ answers' = answers /\ unsent' = unsent
    BY <1>1, <1>3 DEF readOutputBuffer, device
  <2>2. InputByte \in Byte
    BY <2>1, BufferFacts
  <2>3. InPort(s) = <<InputByte>> /\ InPort(s)' = <<>> /\ Queued(s)' = Queued(s)
    BY <1>3, <2>1 DEF InPort, Ready, Queued
  <2>4. Line(s)[4] = <<InputByte>> /\ Line(s)'[4] = <<>>
    BY <2>3, LineStages
  <2>5. Line(s)[4] # <<>> /\ Head(Line(s)[4]) = InputByte /\ Line(s)'[4] = Tail(Line(s)[4])
    BY <2>2, <2>4, OneByte
  <2>6. Line(s)'[3] = Line(s)[3] /\ Line(s)'[5] = Line(s)[5] /\ Line(s)'[6] = Line(s)[6]
    BY <2>1, <2>3, LineStages
  <2> QED  BY <2>1, <2>2, <2>5, <2>6
<1> QED  BY <1>2, <1>3

\* The access that runs is of an AcknowledgedPrograms.
LEMMA AcknowledgedNow ==
  ASSUME AcknowledgedPrograms, TypeInv, pc \in {"between", "await"}
  PROVE  /\ Now.do \notin {"get", "read", "test"}
         /\ Now.do = "send" => /\ at + 1 \in 1..Len(program) /\ program[at + 1].do = "compare"
                               /\ program[at + 1].stream = Now.stream
<1>1. program \in Programs /\ at \in DOMAIN program /\ Now = program[at]
  BY AtNow, LenProperties
<1>2. DOMAIN program = 1..Len(program)
  BY LenProperties DEF TypeInv, TypeOK
<1> QED  BY <1>1, <1>2 DEF AcknowledgedPrograms

\* A command is followed by the read of its acknowledge.
LEMMA SendAwaits ==
  ASSUME AcknowledgedPrograms, TypeInv, access, Now.do = "send", NEW s, Now.stream = s
  PROVE  Awaited(s)'
<1>1. pc = "between" /\ GoTo(at + 1)
  BY DEF access, AtAccess
<1>2. /\ at + 1 \in 1..Len(program) /\ program[at + 1].do = "compare"
      /\ program[at + 1].stream = s
  BY <1>1, AcknowledgedNow
<1>3. Len(program) \in Nat /\ at + 1 \in Int
  BY <1>2, LenProperties DEF TypeInv, TypeOK
<1>4. ~(at + 1 > Len(program))
  BY <1>2, <1>3
<1>5. at' = at + 1 /\ pc' = "between" /\ program' = program
  BY <1>1, <1>4 DEF GoTo
<1>6. Now' = program[at + 1]
  BY <1>5 DEF Now
<1> QED  BY <1>2, <1>5, <1>6 DEF Awaited

\* No read of an acknowledge fails.
LEMMA StepFinds ==
  ASSUME AcknowledgedPrograms, OneByteEach, ~Timeouts, TypeInv, CorrectionInv, [Next]_vars
  PROVE  ~failed'
<1>0. ~failed
  BY DEF CorrectionInv
<1>1. ASSUME NEW s \in Stream, Awaited(s),
             \/ readDataPort /\ s = "Keyboard" /\ keyboardQueue # <<>>
             \/ readOutputBuffer /\ InputStream = s
      PROVE  ~failed'
  <2>1. PICK j \in {3, 4} : /\ Line(s)[j] # <<>> /\ Head(Line(s)[j]) \in Byte
                            /\ receiveByte(Head(Line(s)[j]))
    BY <1>1, AwaitedByte
  <2> QED  BY <1>1, <2>1, CompareFinds
<1>2. ASSUME pc \in {"between", "await"}, Now.do \in Reading
      PROVE  Now.stream \in Stream /\ Awaited(Now.stream)
  <2>1. Now.do = "compare" /\ Now.stream \in Stream
    BY <1>2, AcknowledgedNow, AtNow DEF Reading
  <2> QED  BY <1>2, <2>1 DEF Awaited
<1>3. CASE readDataPort
  <2>1. Now.stream \in Stream /\ Awaited(Now.stream)
    BY <1>2, <1>3 DEF readDataPort, AtAccess
  <2>2. CASE Now.stream = "Keyboard" /\ keyboardQueue # <<>>
    BY <1>1, <1>3, <2>1, <2>2
  <2>3. CASE ~(Now.stream = "Keyboard" /\ keyboardQueue # <<>>)
    BY <1>0, <1>3, <2>3 DEF readDataPort
  <2> QED  BY <2>2, <2>3
<1>4. CASE readOutputBuffer
  <2>1. Now.stream \in Stream /\ Awaited(Now.stream)
    <3>1. pc = "await" /\ Now.do \in Reading
      BY <1>4 DEF readOutputBuffer, TypeInv, Running
    <3> QED  BY <1>2, <3>1
  <2>2. CASE InputStream = Now.stream
    BY <1>1, <1>4, <2>1, <2>2
  <2>3. CASE InputStream # Now.stream
    BY <1>0, <1>4, <2>3 DEF readOutputBuffer
  <2> QED  BY <2>2, <2>3
<1>5. CASE \E d \in Stream : deviceReports(d) \/ loseByte(d) \/ fillOutputBuffer(d)
  BY <1>0, <1>5 DEF deviceReports, loseByte, fillOutputBuffer
<1>6. CASE interruptHandlerKeyboard \/ interruptHandlerMouse
  BY <1>0, <1>6 DEF interruptHandlerKeyboard, interruptHandlerMouse
<1>7. CASE interruptOccurred \/ serveInput \/ access \/ \E p \in Programs : beginProgram(p)
  BY <1>0, <1>7 DEF interruptOccurred, serveInput, access, beginProgram
<1>8. ~timeOut
  BY DEF timeOut
<1>9. CASE UNCHANGED vars
  BY <1>0, <1>9 DEF vars
<1> QED  BY <1>3, <1>4, <1>5, <1>6, <1>7, <1>8, <1>9 DEF Next, WorkLoop

\* A byte that has its place may as well have it where an acknowledge is awaited.
LEMMA OwnFitsWithAck ==
  ASSUME NEW s, NEW line, Fits(Apart, OnlyOwn(s), line)
  PROVE  Fits(Apart, WithAck(s), line)
<1>1. ASSUME NEW i \in Stages, NEW k \in DOMAIN line[i] PROVE line[i][k] \in WithAck(s)[i]
  <2>1. line[i][k] \in OnlyOwn(s)[i]
    BY DEF Fits
  <2> QED  BY <2>1, PlacesFacts
<1> QED  BY <1>1 DEF Fits

\* The line of a stream after a step.
LEMMA StepPlaces ==
  ASSUME AcknowledgedPrograms, OneByteEach, ~Timeouts, TypeInv, CorrectionInv, [Next]_vars,
         NEW s \in Stream
  PROVE  Fits(Apart, Places(s)', Line(s)')
<1>1. PolledEmpty /\ Fits(Apart, Places(s), Line(s)) /\ TypedLine(Line(s))
  BY LineTyped DEF CorrectionInv
<1>2. NoGet
  BY DEF NoGet, AcknowledgedPrograms
<1>3. MayOvertake(Apart, s)
  <2> SUFFICES ASSUME Ready, InputStream = s, NEW l \in DOMAIN Queued(s)
               PROVE  <<InputByte, Queued(s)[l]>> \in Apart
    BY DEF MayOvertake
  <2>1. InputByte \in Byte
    BY BufferFacts
  <2>2. Line(s)[3] = Queued(s) /\ Line(s)[4] = <<InputByte>>
    BY LineStages DEF InPort
  <2>3. 3 \in Stages /\ 4 \in Stages /\ 3 < 4
    BY DEF Stages
  <2>4. 1 \in DOMAIN Line(s)[4] /\ Line(s)[4][1] = InputByte
    BY <2>2
  <2>5. <<Queued(s)[l], InputByte>> \in Apart
    BY <1>1, <2>2, <2>3, <2>4 DEF Fits, InOrder
  <2> QED  BY <2>5 DEF Apart
<1>4. OnlyOwn(s)' = OnlyOwn(s) /\ WithAck(s)' = WithAck(s)
  BY DEF OnlyOwn, WithAck, Own
<1>5. Places(s)' = IF Awaited(s)' THEN WithAck(s) ELSE OnlyOwn(s)
  BY <1>4 DEF Places
<1>6. CASE access /\ Now.do = "send" /\ Now.stream = s
  <2>1. Awaited(s)' /\ ~Awaited(s)
    BY <1>6, SendAwaits DEF Awaited
  <2>2. Fits(Apart, OnlyOwn(s), Line(s)) /\ Fits(Apart, WithAck(s), Line(s))
    BY <1>1, <2>1, OwnFitsWithAck DEF Places
  <2>3. Admits(WithAck(s), s)
    <3>1. pc = "between" /\ Now.do \notin Reading
      BY <1>6 DEF access, AtAccess, Reading
    <3> QED  BY <1>6, <3>1, PlacesFacts DEF Admits
  <2>4. Acknowledge \in WithAck(s)[5] /\ Acknowledge \in Byte
    BY PlacesFacts DEF Acknowledge, Byte
  <2>5. ASSUME NEW i \in Stages, NEW k \in DOMAIN Line(s)[i]
        PROVE  <<Line(s)[i][k], Acknowledge>> \in Apart /\ <<Acknowledge, Line(s)[i][k]>> \in Apart
    <3>1. Line(s)[i][k] \in Own(s)
      BY <2>2, PlacesFacts DEF Fits
    <3>2. Line(s)[i][k] # Acknowledge /\ Line(s)[i][k] \in Byte
      BY <3>1, OwnByte DEF Own
    <3> QED  BY <2>4, <3>2 DEF Apart
  <2>6. AckFits(Apart, WithAck(s), s)
    BY <2>4, <2>5 DEF AckFits, Suits
  <2> QED  BY <1>1, <1>2, <1>3, <1>5, <2>1, <2>2, <2>3, <2>6, StepInOrder
<1>7. CASE ~(access /\ Now.do = "send" /\ Now.stream = s) /\ ~Awaited(s)
  <2>1. Fits(Apart, OnlyOwn(s), Line(s))
    BY <1>1, <1>7 DEF Places
  <2>2. Admits(OnlyOwn(s), s)
    BY PlacesFacts DEF Admits
  <2>3. AckFits(Apart, OnlyOwn(s), s)
    BY <1>7 DEF AckFits
  <2>4. Fits(Apart, OnlyOwn(s), Line(s)')
    BY <1>1, <1>2, <1>3, <2>1, <2>2, <2>3, StepInOrder
  <2>5. Fits(Apart, WithAck(s), Line(s)')
    BY <2>4, OwnFitsWithAck
  <2> QED  BY <1>5, <2>4, <2>5
<1>8. CASE Awaited(s)
  <2>1. pc \in {"between", "await"} /\ Now.do = "compare" /\ Now.stream = s
    BY <1>8 DEF Awaited
  <2>2. Fits(Apart, WithAck(s), Line(s))
    BY <1>1, <1>8 DEF Places
  <2>3. Admits(WithAck(s), s)
    <3>1. Expected = Acknowledge
      BY <2>1 DEF Expected
    <3> QED  BY <2>1, <3>1, PlacesFacts DEF Admits
  <2>4. AckFits(Apart, WithAck(s), s)
    BY <2>1 DEF AckFits
  <2>5. Fits(Apart, WithAck(s), Line(s)')
    BY <1>1, <1>2, <1>3, <2>2, <2>3, <2>4, StepInOrder
  <2>6. CASE Awaited(s)'
    BY <1>5, <2>5, <2>6
  <2>7. CASE ~Awaited(s)'
    <3>1. PICK j \in {3, 4} :
            /\ Line(s)[j] # <<>> /\ Head(Line(s)[j]) \in Byte /\ receiveByte(Head(Line(s)[j]))
            /\ Line(s)'[j] = Tail(Line(s)[j])
            /\ j = 3 \/ Line(s)'[3] = Line(s)[3]
            /\ j = 4 \/ Line(s)'[4] = Line(s)[4]
            /\ Line(s)'[5] = Line(s)[5] /\ Line(s)'[6] = Line(s)[6]
      BY <1>8, <2>7, AwaitEnds, AwaitedByte
    <3>2. ~(pc' = "between" /\ program' = program /\ at' = at)
      BY <2>1, <2>7 DEF Awaited, Now
    <3>3. /\ Head(Line(s)[j]) = Acknowledge /\ held' = <<>>
          /\ \/ dispatched'[s] = dispatched[s]
             \/ held # <<>> /\ dispatched'[s] = Append(dispatched[s], held[1])
      BY <1>8, <3>1, <3>2, CompareFinds
    <3>4. Line(s)'[2] = <<>> /\ Line(s)[2] = held
      BY <2>1, <3>3, LineStages DEF Kept
    <3>5. \/ Line(s)'[1] = Line(s)[1]
          \/ Line(s)[2] # <<>> /\ Line(s)'[1] = Append(Line(s)[1], Line(s)[2][1])
      BY <3>3, <3>4, LineStages
    <3>6. ASSUME NEW i \in Stages, NEW k \in DOMAIN Line(s)'[i]
          PROVE  Line(s)'[i][k] \in OnlyOwn(s)[i]
      <4>1. Line(s)'[i][k] # Acknowledge
        BY <1>1, <2>2, <3>1, <3>3, <3>4, <3>5, <3>6, AckLeaves
      <4>2. Line(s)'[i][k] \in WithAck(s)[i]
        BY <2>5, <3>6 DEF Fits
      <4> QED  BY <4>1, <4>2, PlacesFacts
    <3>7. Fits(Apart, OnlyOwn(s), Line(s)')
      BY <2>5, <3>6 DEF Fits
    <3> QED  BY <1>5, <2>7, <3>7
  <2> QED  BY <2>6, <2>7
<1> QED  BY <1>6, <1>7, <1>8

LEMMA StepCorrects ==
  ASSUME AcknowledgedPrograms, OneByteEach, ~Timeouts, TypeInv, CorrectionInv, [Next]_vars
  PROVE  CorrectionInv'
<1>1. PolledEmpty'
  BY StepPolls DEF CorrectionInv
<1>2. ~failed'
  BY StepFinds
<1>3. \A s \in Stream : Fits(Apart, Places(s)', Line(s)')
  BY StepPlaces
<1> QED  BY <1>1, <1>2, <1>3 DEF CorrectionInv, Fits, InOrder

LEMMA CorrectionHolds ==
  ASSUME AcknowledgedPrograms, OneByteEach, ~Timeouts
  PROVE  Spec => []CorrectionInv
<1>1. Init => CorrectionInv
  BY CorrectionAtFirst
<1>2. TypeInv /\ CorrectionInv /\ [Next]_vars => CorrectionInv'
  BY StepCorrects
<1> QED  BY <1>1, <1>2, TypeInvHolds, PTL DEF Spec

\* The out-of-order data correction of readDataPort works, whatever the programs and the
\* byte: as long as a device has at most one byte of its own on its way and every answer
\* comes in time, each command finds its acknowledge, in the port or on the keyboard
\* queue, before or after that byte.
THEOREM AcknowledgeAlwaysFound ==
  ASSUME AcknowledgedPrograms, OneByteEach, ~Timeouts
  PROVE  Spec => []AcknowledgeFound
<1>1. CorrectionInv => AcknowledgeFound
  BY DEF CorrectionInv, AcknowledgeFound
<1> QED  BY <1>1, CorrectionHolds, PTL

LEMMA CorrectionDelivers ==
  ASSUME OneByteEach, TypeInv, CorrectionInv
  PROVE  DeliveredInOrder
<1> SUFFICES ASSUME NEW s \in Stream
             PROVE  /\ Len(dispatched[s]) <= Len(Data[s])
                    /\ \A k \in 1..Len(dispatched[s]) : dispatched[s][k] = Data[s][k]
  BY DEF DeliveredInOrder
<1>1. dispatched[s] \in Seq(Byte) /\ Data[s] \in Seq(Byte)
  BY PortAssumption DEF TypeInv, TypeOK
<1>2. /\ DOMAIN dispatched[s] = 1..Len(dispatched[s])
      /\ Len(dispatched[s]) \in Nat /\ Len(Data[s]) \in Nat
  BY <1>1, LenProperties
<1>3. Line(s)[1] = dispatched[s] /\ 1 \in Stages /\ Fits(Apart, Places(s), Line(s))
  BY LineStages DEF Stages, CorrectionInv
<1>4. ASSUME NEW k \in DOMAIN dispatched[s] PROVE dispatched[s][k] \in Own(s)
  <2>1. dispatched[s][k] \in Places(s)[1]
    BY <1>3 DEF Fits
  <2> QED  BY <2>1, PlacesFacts DEF Places
<1>5. ASSUME NEW k \in DOMAIN dispatched[s], NEW l \in DOMAIN dispatched[s] PROVE ~(k < l)
  <2>1. dispatched[s][k] = dispatched[s][l]
    BY <1>4, OwnByte
  <2>2. ASSUME k < l PROVE <<dispatched[s][k], dispatched[s][l]>> \in Apart
    BY <1>3, <2>2 DEF Fits, InOrder
  <2> QED  BY <2>1, <2>2 DEF Apart
<1>6. ASSUME NEW k \in DOMAIN dispatched[s]
      PROVE  k = 1 /\ Len(dispatched[s]) = 1 /\ Data[s] = <<dispatched[s][k]>>
  <2>1. k \in Nat /\ 1 <= k /\ k <= Len(dispatched[s])
    BY <1>2
  <2>2. 1 \in DOMAIN dispatched[s] /\ Len(dispatched[s]) \in DOMAIN dispatched[s]
    BY <1>2, <2>1
  <2>3. ~(1 < Len(dispatched[s]))
    BY <1>5, <2>2
  <2>4. k = 1 /\ Len(dispatched[s]) = 1
    <3>1. k \in 1..Len(dispatched[s])
      BY <1>2
    <3> QED  BY <1>2, <2>3, <3>1, OnlyFirst, Zenon
  <2>5. Data[s] = <<dispatched[s][k]>>
    BY <1>4 DEF Own
  <2> QED  BY <2>4, <2>5
<1>7. CASE DOMAIN dispatched[s] = {}
  <2>1. Len(dispatched[s]) = 0
    <3>1. 1..Len(dispatched[s]) = {}
      BY <1>2, <1>7
    <3> QED  BY <1>2, <3>1, NoneBelow, Zenon
  <2> QED  BY <1>2, <1>7, <2>1
<1>8. CASE DOMAIN dispatched[s] # {}
  <2>1. PICK k : k \in DOMAIN dispatched[s]
    BY <1>8
  <2>2. k = 1 /\ Len(dispatched[s]) = 1 /\ Data[s] = <<dispatched[s][1]>>
    BY <1>6, <2>1
  <2>3. Len(Data[s]) = 1 /\ Data[s][1] = dispatched[s][1]
    BY <2>2
  <2>4. \A l \in 1..Len(dispatched[s]) : l = 1
    BY <1>2, <1>6
  <2> QED  BY <2>2, <2>3, <2>4
<1> QED  BY <1>7, <1>8

\* Under the same conditions no driver is ever given an acknowledge, or the same byte
\* twice: what its interrupt routine sees is what its device sent.
THEOREM DataDeliveredInOrder ==
  ASSUME AcknowledgedPrograms, OneByteEach, ~Timeouts
  PROVE  Spec => []DeliveredInOrder
<1>1. TypeInv /\ CorrectionInv => DeliveredInOrder
  BY CorrectionDelivers
<1> QED  BY <1>1, CorrectionHolds, TypeInvHolds, PTL

-----------------------------------------------------------------------------
(* The command byte.                                                       *)

\* The scan codes, and the keyboard's bytes on their way to the driver, the next one
\* first.
Codes == {Data["Keyboard"][k] : k \in DOMAIN Data["Keyboard"]}
Flow(q, o, a) == (q \o o) \o a
InFlight == Flow(keyboardQueue, InPort("Keyboard"), answers["Keyboard"])

Busy == pc \in {"between", "await"}
BeforeTest(p, k) == k < Len(p) /\ p[k + 1].do = "test"
BeforeSet(p, k) == k < Len(p) /\ p[k + 1].do = "set"

\* The keyboard was told to be silent, or is silent when program p begins, and was not
\* told to report before access k.
Tells(a, on) == a.do = "send" /\ a.stream = "Keyboard" /\ a.reports = on
Silent(p, k) ==
  \E j \in 0..k - 1 : /\ IF j = 0 THEN \E i \in DOMAIN p : p[i].do = "unblock" ELSE Tells(p[j], FALSE)
                      /\ \A i \in j + 1..k - 1 : ~Tells(p[i], TRUE)

\* Programs are put together from commands with their acknowledge, from test-and-sets of
\* the command byte, and, while the keyboard is silent, from sets without a test; a
\* program may end by taking the hardware offline, with a silent keyboard.
Begins(p, k) ==
  \/ p[k].do \in {"send", "freeze", "unblock", "uninstall", "install"}
  \/ p[k].do = "get" /\ k < Len(p) /\ p[k + 1].do = "read"

\* A command that is not acknowledged ends its request: what comes after the request
\* begins a part, and no access of it that is skipped for a mouse that did not answer
\* silences the keyboard or brings the hardware online (Quiet, from k until n).
Skips(p, k) ==
  /\ k + p[k].left <= Len(p)
  /\ k + 1 + p[k].left <= Len(p) => Begins(p, k + 1 + p[k].left)
  /\ p[k].stream # "Keyboard" =>
       \A i \in k + 1..k + p[k].left : ~Tells(p[i], FALSE) /\ p[i].do # "unblock"
Quiet(p, k, n) == \A i \in k..n - 1 : ~Tells(p[i], FALSE) /\ p[i].do # "unblock"
SetPrograms ==
  \A p \in Programs :
    /\ Begins(p, 1)
    /\ \A k \in 1..Len(p) :
         /\ p[k].do = "send" => /\ k < Len(p) /\ p[k + 1].do = "compare"
                                /\ p[k + 1].stream = p[k].stream
         /\ p[k].do = "get" => k < Len(p) /\ p[k + 1].do \in {"read", "test"}
         /\ p[k].do \in {"read", "test"} => p[k].stream = "Keyboard"
         /\ p[k].do = "read" => \/ BeforeSet(p, k) /\ Silent(p, k)
                                \/ k < Len(p) /\ p[k + 1].do = "get" /\ BeforeTest(p, k + 1)
         /\ p[k].do = "test" => /\ BeforeSet(p, k) /\ p[k - 1].do = "get" /\ p[k - 2].do = "read"
                                /\ p[k - 3].do = "get"
         /\ p[k].do = "freeze" => k = Len(p) /\ Silent(p, k)
         /\ p[k].do \notin {"send", "get", "read", "test"} /\ k < Len(p) => Begins(p, k + 1)
         /\ p[k].do = "compare" => Skips(p, k)

\* While a program runs, no more than one scan code is under way, one that was taken for
\* an answer included.
Single(w) == \A j, k \in 1..Len(w) : w[j] \in Codes /\ w[k] \in Codes => j = k
NoCode(w) == \A k \in 1..Len(w) : w[k] \notin Codes
Taken(p, k, h, r) ==
  \/ h # <<>> /\ h[1] \in Codes /\ p[k].stream = "Keyboard"
  \/ r \in Codes /\ (p[k].do = "test" \/ BeforeTest(p, k))
OneKey ==
  Busy => Single(InFlight) /\ (Taken(program, at, held, lastRead) => NoCode(InFlight))

\* A scan code is neither an acknowledge nor the command byte.
CodesDiffer == Acknowledge \notin Codes /\ commandByte \notin Codes

\* The answer x is on its way, and at most one scan code, before or after it.
Around(w, x) == w = <<x>> \/ \E k \in Codes : w = <<k, x>> \/ w = <<x, k>>

\* What is under way (w), was held (h) and read last (r), with command byte c, when
\* program p is at access k: an acknowledge is awaited; the command byte was read, and is
\* to be asked for again; it is on its way again.
AtCompare(h, w) ==
  \/ h = <<>> /\ Around(w, Acknowledge)
  \/ w = <<Acknowledge>> /\ \E x \in Codes : h = <<x>>
AtGet(r, c, w) == (r = c /\ w \in Seq(Codes)) \/ (r \in Codes /\ w = <<c>>)
AtTest(h, r, c, w) ==
  \/ h = <<>> /\ r = c /\ Around(w, c)
  \/ h = <<>> /\ r \in Codes /\ w = <<c, c>>
  \/ r = c /\ w = <<c>> /\ \E x \in Codes : h = <<x>>
  \/ r \in Codes /\ w = <<c>> /\ h = <<c>>
PlaceOK(p, k, h, r, c, w) ==
  CASE p[k].do = "compare" /\ p[k].stream = "Keyboard" -> AtCompare(h, w)
    [] p[k].do = "compare" /\ p[k].stream # "Keyboard" -> w \in Seq(Codes)
    [] p[k].do = "read" -> h = <<>> /\ Around(w, c)
    [] p[k].do = "get" /\ BeforeTest(p, k) -> h = <<>> /\ AtGet(r, c, w)
    [] p[k].do = "test" -> AtTest(h, r, c, w)
    [] p[k].do = "set" -> h = <<>> /\ r = c /\ w \in Seq(Codes)
    [] OTHER -> h = <<>> /\ w \in Seq(Codes)

\* Nothing of a silent keyboard is under way, but in front of the acknowledge of the
\* command that made it silent.
Hushed(p, k, w) ==
  IF p[k].do = "compare" /\ p[k].stream = "Keyboard" THEN w # <<>> /\ w[Len(w)] \notin Codes
  ELSE NoCode(w)

\* The inductive invariant.
CommandInv ==
  /\ PolledEmpty
  /\ unsent["Keyboard"] \in Seq(Codes)
  /\ ~Busy => /\ InFlight \in Seq(Codes)
              /\ hardwareOffline => InFlight = <<>> /\ "Keyboard" \notin reporting
  /\ Busy => /\ PlaceOK(program, at, held, lastRead, commandByte, InFlight)
             /\ hardwareOffline => \E j \in at..Len(program) : program[j].do = "unblock"
             /\ Silent(program, at) => "Keyboard" \notin reporting /\ Hushed(program, at, InFlight)

\* Sequences and their elements.
LEMMA SeqOfElements ==
  ASSUME NEW S, NEW s \in Seq(S), NEW C, \A k \in 1..Len(s) : s[k] \in C
  PROVE  s \in Seq(C)
  OBVIOUS

LEMMA SeqSingleton == ASSUME NEW S, NEW x \in S PROVE <<x>> \in Seq(S) /\ Len(<<x>>) = 1 /\ <<x>>[1] = x
  OBVIOUS

LEMMA HeadTailOfConcat ==
  ASSUME NEW S, NEW s \in Seq(S), NEW t \in Seq(S), s # <<>>
  PROVE  s \o t # <<>> /\ Head(s \o t) = Head(s) /\ Tail(s \o t) = Tail(s) \o t
<1>1. PICK w : w = s \o t
  OBVIOUS
<1>2. /\ w \in Seq(S) /\ Len(w) = Len(s) + Len(t)
      /\ \A i \in 1..Len(s) + Len(t) : w[i] = IF i <= Len(s) THEN s[i] ELSE t[i - Len(s)]
  BY <1>1, ConcatProperties
<1>3. Len(s) \in Nat \ {0} /\ Len(t) \in Nat
  BY EmptySeq
<1>4. Len(w) # 0 /\ Len(w) \in Nat
  BY <1>2, <1>3
<1>5. w # <<>>
  BY <1>4
<1>6. Head(w) = w[1] /\ Head(s) = s[1]
  OBVIOUS
<1>7. w[1] = s[1]
  <2>1. 1 \in 1..Len(s) + Len(t) /\ 1 <= Len(s)
    BY <1>3
  <2> QED  BY <1>2, <2>1
<1>8. PICK v : v = Tail(s)
  OBVIOUS
<1>9. v \in Seq(S) /\ Len(v) = Len(s) - 1 /\ \A i \in 1..Len(v) : v[i] = s[i + 1]
  BY <1>8, HeadTailProperties
<1>10. /\ v \o t \in Seq(S) /\ Len(v \o t) = Len(v) + Len(t)
       /\ \A i \in 1..Len(v) + Len(t) : (v \o t)[i] = IF i <= Len(v) THEN v[i] ELSE t[i - Len(v)]
  BY <1>9, ConcatProperties
<1>11. Tail(w) \in Seq(S) /\ Len(Tail(w)) = Len(w) - 1 /\ \A i \in 1..Len(Tail(w)) : Tail(w)[i] = w[i + 1]
  BY <1>2, <1>5, HeadTailProperties
<1>12. Len(Tail(w)) = Len(v \o t)
  BY <1>2, <1>3, <1>9, <1>10, <1>11
<1>13. ASSUME NEW i \in 1..Len(Tail(w)) PROVE Tail(w)[i] = (v \o t)[i]
  <2>1. PICK m : m = Len(v)
    OBVIOUS
  <2>2. m \in Nat /\ Len(s) = m + 1 /\ Len(w) = (m + 1) + Len(t) /\ Len(Tail(w)) = m + Len(t)
    BY <1>2, <1>3, <1>9, <1>11, <2>1
  <2>3. i \in 1..m + Len(t) /\ i + 1 \in 1..(m + 1) + Len(t)
    BY <1>3, <2>2
  <2>4. Tail(w)[i] = w[i + 1]
    BY <1>11
  <2>5. CASE i <= m
    <3>1. w[i + 1] = s[i + 1]
      <4>1. i + 1 <= m + 1
        BY <2>2, <2>3, <2>5
      <4> QED  BY <1>2, <2>2, <2>3, <4>1
    <3>2. (v \o t)[i] = v[i]
      BY <1>10, <2>1, <2>3, <2>5
    <3>3. v[i] = s[i + 1]
      BY <1>9, <2>1, <2>3, <2>5
    <3> QED  BY <2>4, <3>1, <3>2, <3>3
  <2>6. CASE ~(i <= m)
    <3>1. w[i + 1] = t[(i + 1) - (m + 1)]
      <4>1. ~(i + 1 <= m + 1)
        BY <2>2, <2>3, <2>6
      <4> QED  BY <1>2, <2>2, <2>3, <4>1
    <3>2. (v \o t)[i] = t[i - m]
      BY <1>10, <2>1, <2>3, <2>6
    <3>3. (i + 1) - (m + 1) = i - m
      BY <2>2, <2>3
    <3> QED  BY <2>4, <3>1, <3>2, <3>3
  <2> QED  BY <2>5, <2>6
<1>14. Tail(w) = v \o t
  <2>1. PICK y : y = Tail(w)
    OBVIOUS
  <2>2. PICK z : z = v \o t
    OBVIOUS
  <2>3. y \in Seq(S) /\ z \in Seq(S)
    BY <1>10, <1>11, <2>1, <2>2
  <2>4. Len(y) = Len(z)
    BY <1>12, <2>1, <2>2
  <2>5. \A i \in 1..Len(y) : y[i] = z[i]
    BY <1>13, <2>1, <2>2
  <2>6. y = z
    BY <2>3, <2>4, <2>5, SeqEqual
  <2> QED  BY <2>1, <2>2, <2>6
<1> QED  BY <1>1, <1>5, <1>6, <1>7, <1>8, <1>14

LEMMA PartsOfConcat ==
  ASSUME NEW S, NEW s \in Seq(S), NEW t \in Seq(S), NEW C, s \o t \in Seq(C)
  PROVE  s \in Seq(C) /\ t \in Seq(C)
<1>1. PICK w : w = s \o t
  OBVIOUS
<1>2. /\ Len(w) = Len(s) + Len(t) /\ Len(s) \in Nat /\ Len(t) \in Nat /\ w \in Seq(C)
      /\ \A i \in 1..Len(s) + Len(t) : w[i] = IF i <= Len(s) THEN s[i] ELSE t[i - Len(s)]
  BY <1>1, ConcatProperties, LenProperties
<1>3. \A i \in 1..Len(w) : w[i] \in C
  BY <1>2, ElementOfSeq
<1>4. ASSUME NEW i \in 1..Len(s) PROVE s[i] \in C
  <2>1. i \in 1..Len(s) + Len(t) /\ i <= Len(s) /\ i \in 1..Len(w)
    BY <1>2
  <2> QED  BY <1>2, <1>3, <2>1
<1>5. ASSUME NEW i \in 1..Len(t) PROVE t[i] \in C
  <2>1. PICK j : j = i + Len(s)
    OBVIOUS
  <2>2. j \in 1..Len(s) + Len(t) /\ ~(j <= Len(s)) /\ j - Len(s) = i /\ j \in 1..Len(w)
    BY <1>2, <2>1
  <2>3. w[j] = t[i]
    BY <1>2, <2>2
  <2> QED  BY <1>3, <2>2, <2>3
<1> QED  BY <1>4, <1>5, SeqOfElements

\* What the parties of the port do to the bytes that are under way.
LEMMA FlowFacts ==
  ASSUME NEW S, NEW q \in Seq(S), NEW o \in Seq(S), NEW a \in Seq(S)
  PROVE  /\ Flow(q, o, a) \in Seq(S)
         /\ q # <<>> => /\ Flow(q, o, a) # <<>> /\ Head(Flow(q, o, a)) = Head(q)
                        /\ Tail(Flow(q, o, a)) = Flow(Tail(q), o, a)
<1>1. PICK s : s = q \o o
  OBVIOUS
<1>2. s \in Seq(S) /\ s \o a \in Seq(S) /\ Flow(q, o, a) = s \o a
  BY <1>1, ConcatProperties DEF Flow
<1>3. ASSUME q # <<>>
      PROVE  /\ s \o a # <<>> /\ Head(s \o a) = Head(q) /\ Tail(s \o a) = Flow(Tail(q), o, a)
  <2>1. s # <<>> /\ Head(s) = Head(q) /\ Tail(s) = Tail(q) \o o
    BY <1>1, <1>3, HeadTailOfConcat
  <2>2. s \o a # <<>> /\ Head(s \o a) = Head(s) /\ Tail(s \o a) = Tail(s) \o a
    BY <1>2, <2>1, HeadTailOfConcat
  <2> QED  BY <2>1, <2>2 DEF Flow
<1> QED  BY <1>2, <1>3

LEMMA FlowGrows ==
  ASSUME NEW S, NEW q \in Seq(S), NEW o \in Seq(S), NEW a \in Seq(S), NEW x \in S
  PROVE  Flow(q, o, Append(a, x)) = Append(Flow(q, o, a), x)
<1>1. PICK s : s = q \o o
  OBVIOUS
<1>2. s \in Seq(S) /\ s \o a \in Seq(S)
  BY <1>1, ConcatProperties
<1>3. PICK y : y = <<x>>
  OBVIOUS
<1>4. y \in Seq(S)
  BY <1>3, SeqSingleton
<1>5. Append(a, x) = a \o y /\ Append(s \o a, x) = (s \o a) \o y
  BY <1>2, <1>3, AppendIsConcat
<1>6. (s \o a) \o y = s \o (a \o y)
  <2>1. s \in Seq(S)
    BY <1>2
  <2> QED  BY <2>1, <1>4, ConcatAssociative, SMTT(30)
<1> QED  BY <1>1, <1>5, <1>6 DEF Flow

\* A byte that fills the output buffer, and one that is moved to the queue, stay in place.
LEMMA FlowMoves ==
  ASSUME NEW S, NEW q \in Seq(S), NEW a \in Seq(S)
  PROVE  a # <<>> => Flow(q, <<Head(a)>>, Tail(a)) = Flow(q, <<>>, a)
<1>1. <<>> \in Seq(S) /\ q \o <<>> = q
  BY EmptySeq, ConcatEmptySeq
<1>2. ASSUME a # <<>> PROVE Flow(q, <<Head(a)>>, Tail(a)) = Flow(q, <<>>, a)
  <2>1. PICK x, t : x = Head(a) /\ t = Tail(a)
    OBVIOUS
  <2>2. x \in S /\ t \in Seq(S)
    BY <1>2, <2>1, HeadTailProperties
  <2>3. <<x>> \in Seq(S)
    BY <2>2, SeqSingleton
  <2>4. a = <<x>> \o t
    BY <1>2, <2>1
  <2>5. (q \o <<x>>) \o t = q \o (<<x>> \o t)
    BY <2>2, <2>3, ConcatAssociative, SMTT(30)
  <2> QED  BY <1>1, <2>1, <2>4, <2>5 DEF Flow
<1> QED  BY <1>2

LEMMA FlowQueues ==
  ASSUME NEW S, NEW q \in Seq(S), NEW a \in Seq(S), NEW x \in S
  PROVE  Flow(Append(q, x), <<>>, a) = Flow(q, <<x>>, a)
<1>1. Append(q, x) = q \o <<x>> /\ Append(q, x) \in Seq(S)
  BY AppendIsConcat, AppendProperties
<1>2. Append(q, x) \o <<>> = Append(q, x)
  BY <1>1, ConcatEmptySeq
<1> QED  BY <1>1, <1>2 DEF Flow

\* The byte in the port is next if the queue is empty.
LEMMA FlowPortNext ==
  ASSUME NEW S, NEW a \in Seq(S), NEW x \in S
  PROVE  /\ Flow(<<>>, <<x>>, a) # <<>> /\ Head(Flow(<<>>, <<x>>, a)) = x
         /\ Tail(Flow(<<>>, <<x>>, a)) = Flow(<<>>, <<>>, a)
<1>1. <<x>> \in Seq(S) /\ <<x>> # <<>> /\ Head(<<x>>) = x /\ Tail(<<x>>) = <<>>
  BY SeqSingleton
<1>2. <<>> \in Seq(S) /\ <<>> \o <<x>> = <<x>> /\ <<>> \o <<>> = <<>>
  BY <1>1, EmptySeq, ConcatEmptySeq
<1>3. Flow(<<>>, <<x>>, a) = <<x>> \o a /\ Flow(<<>>, <<>>, a) = <<>> \o a
  BY <1>2 DEF Flow
<1>4. <<x>> \o a # <<>> /\ Head(<<x>> \o a) = Head(<<x>>) /\ Tail(<<x>> \o a) = Tail(<<x>>) \o a
  BY <1>1, HeadTailOfConcat
<1> QED  BY <1>1, <1>3, <1>4

\* It may be taken away.
LEMMA FlowPort ==
  ASSUME NEW S, NEW q \in Seq(S), NEW a \in Seq(S), NEW x \in S, NEW C, Flow(q, <<x>>, a) \in Seq(C)
  PROVE  Flow(q, <<>>, a) \in Seq(C) /\ x \in C
<1>1. <<x>> \in Seq(S) /\ Len(<<x>>) = 1 /\ <<x>>[1] = x
  BY SeqSingleton
<1>2. <<>> \in Seq(S) /\ q \o <<>> = q
  BY EmptySeq, ConcatEmptySeq
<1>3. q \o <<x>> \in Seq(S)
  BY <1>1, ConcatProperties
<1>4. (q \o <<x>>) \o a \in Seq(C)
  BY DEF Flow
<1>5. q \o <<x>> \in Seq(C) /\ a \in Seq(C)
  BY <1>3, <1>4, PartsOfConcat
<1>6. q \in Seq(C) /\ <<x>> \in Seq(C)
  BY <1>1, <1>5, PartsOfConcat
<1>7. q \o a \in Seq(C) /\ x \in C
  BY <1>1, <1>5, <1>6, ConcatProperties
<1> QED  BY <1>2, <1>7 DEF Flow

\* Short sequences.
LEMMA ShortSeqs ==
  ASSUME NEW S, NEW x \in S, NEW y \in S
  PROVE  /\ <<x>> # <<>> /\ Head(<<x>>) = x /\ Tail(<<x>>) = <<>> /\ Append(<<>>, x) = <<x>>
         /\ <<x, y>> # <<>> /\ Head(<<x, y>>) = x /\ Tail(<<x, y>>) = <<y>> /\ Append(<<x>>, y) = <<x, y>>
         /\ Len(<<x>>) = 1 /\ Len(<<x, y>>) = 2 /\ <<x>>[1] = x /\ <<x, y>>[1] = x /\ <<x, y>>[2] = y
         /\ <<x>> \in Seq(S) /\ <<x, y>> \in Seq(S)
<1>1. <<x>> # <<>> /\ Head(<<x>>) = x /\ Len(<<x>>) = 1 /\ <<x>>[1] = x /\ <<x>> \in Seq(S)
  OBVIOUS
<1>2. <<x, y>> # <<>> /\ Head(<<x, y>>) = x /\ Len(<<x, y>>) = 2 /\ <<x, y>>[1] = x /\ <<x, y>>[2] = y
  OBVIOUS
<1>3. <<x, y>> \in Seq(S)
  OBVIOUS
<1>4. Tail(<<x>>) = <<>>
  OBVIOUS
<1>5. Tail(<<x, y>>) = <<y>>
  OBVIOUS
<1>6. Append(<<>>, x) = <<x>>
  OBVIOUS
<1>7. Append(<<x>>, y) = <<x, y>>
  <2>1. PICK u : u = <<x>>
    OBVIOUS
  <2>2. PICK v : v = Append(u, y)
    OBVIOUS
  <2>3. u \in Seq(S) /\ Len(u) = 1 /\ u[1] = x
    BY <1>1, <2>1
  <2>4. v \in Seq(S) /\ Len(v) = Len(u) + 1 /\ v[Len(u) + 1] = y /\ \A k \in 1..Len(u) : v[k] = u[k]
    BY <2>2, <2>3, AppendProperties
  <2>5. Len(v) = 2 /\ v[2] = y /\ v[1] = x
    BY <2>3, <2>4
  <2>6. v = <<x, y>>
    <3>1. PICK z : z = <<x, y>>
      OBVIOUS
    <3>2. z \in Seq(S) /\ Len(z) = 2 /\ z[1] = x /\ z[2] = y
      BY <1>2, <1>3, <3>1
    <3>3. \A k \in 1..2 : k = 1 \/ k = 2
      OBVIOUS
    <3>4. Len(v) = Len(z) /\ \A k \in 1..Len(v) : v[k] = z[k]
      BY <2>5, <3>2, <3>3
    <3>5. v = z
      BY <2>4, <3>2, <3>4, SeqEqual
    <3> QED  BY <3>1, <3>5
  <2> QED  BY <2>1, <2>2, <2>6
<1> QED  BY <1>1, <1>2, <1>3, <1>4, <1>5, <1>6, <1>7

LEMMA CodesAreBytes == Codes \subseteq Byte
<1>1. Data["Keyboard"] \in Seq(Byte)
  BY PortAssumption DEF Stream
<1>2. \A k \in DOMAIN Data["Keyboard"] : Data["Keyboard"][k] \in Byte
  BY <1>1
<1> QED  BY <1>2 DEF Codes

LEMMA AcknowledgeByte == Acknowledge \in Byte
  BY DEF Acknowledge, Byte

\* At most one scan code.
LEMMA SingleCode ==
  ASSUME NEW w \in Seq(Codes), Single(w)
  PROVE  w = <<>> \/ \E k \in Codes : w = <<k>>
<1> SUFFICES ASSUME w # <<>> PROVE \E k \in Codes : w = <<k>>
  OBVIOUS
<1>1. Len(w) \in Nat \ {0} /\ \A k \in 1..Len(w) : w[k] \in Codes
  BY EmptySeq, ElementOfSeq
<1>2. Len(w) = 1
  <2>1. SUFFICES ASSUME Len(w) # 1 PROVE FALSE
    OBVIOUS
  <2>2. 1 \in 1..Len(w) /\ 2 \in 1..Len(w)
    <3>1. \A n \in Nat \ {0} : n # 1 => 1 \in 1..n /\ 2 \in 1..n
      OBVIOUS
    <3>2. Len(w) \in Nat \ {0}
      BY <1>1
    <3> QED  BY <2>1, <3>1, <3>2, Zenon
  <2>3. w[1] \in Codes /\ w[2] \in Codes
    BY <1>1, <2>2
  <2>4. 1 = 2
    BY <2>2, <2>3 DEF Single
  <2> QED  BY <2>4
<1>3. w = <<w[1]>> /\ w[1] \in Codes
  BY <1>1, <1>2
<1> QED  BY <1>3

LEMMA NoCodeEmpty ==
  ASSUME NEW w \in Seq(Codes), NoCode(w)
  PROVE  w = <<>>
<1> SUFFICES ASSUME w # <<>> PROVE FALSE
  OBVIOUS
<1>1. Len(w) \in Nat \ {0} /\ \A k \in 1..Len(w) : w[k] \in Codes
  BY EmptySeq, ElementOfSeq
<1>2. 1 \in 1..Len(w)
  BY <1>1
<1> QED  BY <1>1, <1>2 DEF NoCode

LEMMA NoCodeAppend ==
  ASSUME NEW w \in Seq(Byte), NEW x \in Byte
  PROVE  NoCode(Append(w, x)) <=> NoCode(w) /\ x \notin Codes
<1>1. PICK v : v = Append(w, x)
  OBVIOUS
<1>2. /\ Len(w) \in Nat /\ Len(v) = Len(w) + 1 /\ v[Len(w) + 1] = x
      /\ \A k \in 1..Len(w) : v[k] = w[k]
  BY <1>1, AppendProperties, LenProperties
<1>3. \A k \in 1..Len(v) : k \in 1..Len(w) \/ k = Len(w) + 1
  BY <1>2
<1>4. Len(w) + 1 \in 1..Len(v) /\ \A k \in 1..Len(w) : k \in 1..Len(v)
  BY <1>2
<1>5. ASSUME NoCode(v) PROVE NoCode(w) /\ x \notin Codes
  BY <1>2, <1>4, <1>5 DEF NoCode
<1>6. ASSUME NoCode(w), x \notin Codes PROVE NoCode(v)
  BY <1>2, <1>3, <1>6 DEF NoCode
<1> QED  BY <1>1, <1>5, <1>6

LEMMA NoCodeTail ==
  ASSUME NEW w \in Seq(Byte), w # <<>>, NoCode(w)
  PROVE  NoCode(Tail(w)) /\ Head(w) \notin Codes
<1>1. PICK v : v = Tail(w)
  OBVIOUS
<1>2. /\ Len(w) \in Nat \ {0} /\ Len(v) = Len(w) - 1 /\ Head(w) = w[1]
      /\ \A k \in 1..Len(v) : v[k] = w[k + 1]
  BY <1>1, HeadTailProperties, EmptySeq
<1>3. 1 \in 1..Len(w) /\ \A k \in 1..Len(v) : k + 1 \in 1..Len(w)
  BY <1>2
<1>4. NoCode(v) /\ w[1] \notin Codes
  BY <1>2, <1>3 DEF NoCode
<1> QED  BY <1>1, <1>2, <1>4

LEMMA NoCodeShort ==
  ASSUME NEW x \in Byte, NEW y \in Byte
  PROVE  /\ NoCode(<<>>) /\ (NoCode(<<x>>) <=> x \notin Codes)
         /\ NoCode(<<x, y>>) <=> x \notin Codes /\ y \notin Codes
<1>1. NoCode(<<>>)
  BY DEF NoCode
<1>2. Append(<<>>, x) = <<x>> /\ Append(<<x>>, y) = <<x, y>> 
  BY ShortSeqs
<1>5. <<>> \in Seq(Byte) /\ <<x>> \in Seq(Byte)
  BY EmptySeq, ShortSeqs
<1>3. NoCode(<<x>>) <=> x \notin Codes
  BY <1>1, <1>2, <1>5, NoCodeAppend
<1>4. NoCode(<<x, y>>) <=> NoCode(<<x>>) /\ y \notin Codes
  <2>1. PICK u : u = <<x>>
    OBVIOUS
  <2>2. u \in Seq(Byte) /\ Append(u, y) = <<x, y>>
    BY <1>2, <1>5, <2>1
  <2>3. NoCode(Append(u, y)) <=> NoCode(u) /\ y \notin Codes
    BY <2>2, NoCodeAppend
  <2> QED  BY <2>1, <2>2, <2>3
<1> QED  BY <1>1, <1>3, <1>4

LEMMA NoCodeNone == NoCode(<<>>)
  BY DEF NoCode

\* A scan code comes after the others.
LEMMA SingleAppend ==
  ASSUME NEW w \in Seq(Byte), NEW x \in Codes, Single(Append(w, x))
  PROVE  NoCode(w)
<1>1. PICK v : v = Append(w, x)
  OBVIOUS
<1>2. x \in Byte
  BY CodesAreBytes
<1>3. /\ Len(w) \in Nat /\ Len(v) = Len(w) + 1 /\ v[Len(w) + 1] = x
      /\ \A k \in 1..Len(w) : v[k] = w[k]
  BY <1>1, <1>2, AppendProperties, LenProperties
<1>4. SUFFICES ASSUME NEW k \in 1..Len(w), w[k] \in Codes PROVE FALSE
  BY DEF NoCode
<1>5. Len(w) + 1 \in 1..Len(v) /\ k \in 1..Len(v) /\ k # Len(w) + 1
  BY <1>3
<1>6. v[k] \in Codes /\ v[Len(w) + 1] \in Codes
  BY <1>3, <1>4
<1>7. k = Len(w) + 1
  BY <1>1, <1>5, <1>6 DEF Single
<1> QED  BY <1>5, <1>7

\* The places of a program.
Elsewhere(p, k) ==
  /\ p[k].do \notin {"compare", "read", "test", "set"}
  /\ ~(p[k].do = "get" /\ BeforeTest(p, k))

LEMMA PlaceIs ==
  ASSUME NEW p, NEW k, NEW h, NEW r, NEW c, NEW w
  PROVE  /\ p[k].do = "compare" /\ p[k].stream = "Keyboard" =>
              (PlaceOK(p, k, h, r, c, w) <=> AtCompare(h, w))
         /\ p[k].do = "compare" /\ p[k].stream # "Keyboard" =>
              (PlaceOK(p, k, h, r, c, w) <=> w \in Seq(Codes))
         /\ p[k].do = "read" => (PlaceOK(p, k, h, r, c, w) <=> h = <<>> /\ Around(w, c))
         /\ p[k].do = "get" /\ BeforeTest(p, k) =>
              (PlaceOK(p, k, h, r, c, w) <=> h = <<>> /\ AtGet(r, c, w))
         /\ p[k].do = "test" => (PlaceOK(p, k, h, r, c, w) <=> AtTest(h, r, c, w))
         /\ p[k].do = "set" => (PlaceOK(p, k, h, r, c, w) <=> h = <<>> /\ r = c /\ w \in Seq(Codes))
         /\ Elsewhere(p, k) => (PlaceOK(p, k, h, r, c, w) <=> h = <<>> /\ w \in Seq(Codes))
<1>1. ASSUME p[k].do = "compare", p[k].stream = "Keyboard"
      PROVE  PlaceOK(p, k, h, r, c, w) <=> AtCompare(h, w)
  BY <1>1 DEF PlaceOK
<1>2. ASSUME p[k].do = "compare", p[k].stream # "Keyboard"
      PROVE  PlaceOK(p, k, h, r, c, w) <=> w \in Seq(Codes)
  BY <1>2 DEF PlaceOK
<1>3. ASSUME p[k].do = "read" PROVE PlaceOK(p, k, h, r, c, w) <=> h = <<>> /\ Around(w, c)
  BY <1>3 DEF PlaceOK
<1>4. ASSUME p[k].do = "get", BeforeTest(p, k)
      PROVE  PlaceOK(p, k, h, r, c, w) <=> h = <<>> /\ AtGet(r, c, w)
  BY <1>4 DEF PlaceOK
<1>5. ASSUME p[k].do = "test" PROVE PlaceOK(p, k, h, r, c, w) <=> AtTest(h, r, c, w)
  BY <1>5 DEF PlaceOK
<1>6. ASSUME p[k].do = "set" PROVE PlaceOK(p, k, h, r, c, w) <=> h = <<>> /\ r = c /\ w \in Seq(Codes)
  BY <1>6 DEF PlaceOK
<1>7. ASSUME Elsewhere(p, k) PROVE PlaceOK(p, k, h, r, c, w) <=> h = <<>> /\ w \in Seq(Codes)
  BY <1>7 DEF PlaceOK, Elsewhere
<1> QED  BY <1>1, <1>2, <1>3, <1>4, <1>5, <1>6, <1>7

\* An answer and at most one scan code.
LEMMA AroundComes ==
  ASSUME NEW w \in Seq(Codes), Single(w), NEW x \in Byte
  PROVE  Around(Append(w, x), x)
<1>1. CASE w = <<>>
  BY <1>1, ShortSeqs DEF Around
<1>2. ASSUME NEW k \in Codes, w = <<k>> PROVE Around(Append(w, x), x)
  <2>1. k \in Byte
    BY CodesAreBytes
  <2>2. Append(<<k>>, x) = <<k, x>>
    BY <2>1, ShortSeqs
  <2> QED  BY <1>2, <2>2 DEF Around
<1> QED  BY <1>1, <1>2, SingleCode

LEMMA AroundGrows ==
  ASSUME NEW w \in Seq(Byte), NEW y \in Byte, NEW x \in Codes, Around(w, y), Single(Append(w, x))
  PROVE  Around(Append(w, x), y)
<1>1. NoCode(w) /\ x \in Byte
  BY SingleAppend, CodesAreBytes
<1>2. CASE w = <<y>>
  <2>1. x \in Byte
    BY CodesAreBytes
  <2>2. Append(<<y>>, x) = <<y, x>>
    BY <2>1, ShortSeqs
  <2> QED  BY <1>2, <2>2 DEF Around
<1>3. ASSUME NEW k \in Codes, w = <<k, y>> \/ w = <<y, k>> PROVE FALSE
  <2>1. k \in Byte
    BY CodesAreBytes
  <2> QED  BY <1>1, <1>3, <2>1, NoCodeShort
<1> QED  BY <1>2, <1>3 DEF Around

LEMMA AroundTaken ==
  ASSUME NEW w, NEW y \in Byte, Around(w, y)
  PROVE  /\ w \in Seq(Byte) /\ w # <<>> /\ Len(w) <= 2
         /\ \/ Head(w) = y /\ Tail(w) \in Seq(Codes)
            \/ Head(w) \in Codes /\ Tail(w) = <<y>> /\ w = <<Head(w), y>>
<1>1. CASE w = <<y>>
  <2>1. Head(w) = y /\ Tail(w) = <<>> /\ w \in Seq(Byte) /\ w # <<>> /\ Len(w) = 1
    BY <1>1, ShortSeqs
  <2>2. Len(w) <= 2
    BY <2>1
  <2>3. <<>> \in Seq(Codes)
    BY EmptySeq
  <2> QED  BY <2>1, <2>2, <2>3, Zenon
<1>2. ASSUME NEW k \in Codes, w = <<k, y>>
      PROVE  /\ w \in Seq(Byte) /\ w # <<>> /\ Len(w) <= 2
             /\ Head(w) \in Codes /\ Tail(w) = <<y>> /\ w = <<Head(w), y>>
  <2>1. k \in Byte
    BY CodesAreBytes
  <2>2. Head(w) = k /\ Tail(w) = <<y>> /\ w \in Seq(Byte) /\ w # <<>> /\ Len(w) = 2
    BY <1>2, <2>1, ShortSeqs
  <2> QED  BY <1>2, <2>2
<1>3. ASSUME NEW k \in Codes, w = <<y, k>>
      PROVE  /\ w \in Seq(Byte) /\ w # <<>> /\ Len(w) <= 2
             /\ Head(w) = y /\ Tail(w) \in Seq(Codes)
  <2>1. k \in Byte
    BY CodesAreBytes
  <2>2. Head(w) = y /\ Tail(w) = <<k>> /\ w \in Seq(Byte) /\ w # <<>> /\ Len(w) = 2
    BY <1>3, <2>1, ShortSeqs
  <2>3. <<k>> \in Seq(Codes)
    BY ShortSeqs
  <2>4. Len(w) <= 2
    BY <2>2
  <2> QED  BY <2>2, <2>3, <2>4, Zenon
<1> QED  BY <1>1, <1>2, <1>3 DEF Around

\* No more than two bytes are under way while a program runs.
LEMMA PlaceShort ==
  ASSUME NEW p, NEW k, NEW h, NEW r, NEW c \in Byte, NEW w, Single(w), PlaceOK(p, k, h, r, c, w)
  PROVE  Len(w) <= 2
<1>1. ASSUME w \in Seq(Codes) PROVE Len(w) <= 2
  <2>1. CASE w = <<>>
    BY <2>1
  <2>2. ASSUME NEW x \in Codes, w = <<x>> PROVE Len(w) <= 2
    BY <2>2
  <2> QED  BY <1>1, <2>1, <2>2, SingleCode
<1>2. ASSUME NEW x \in Byte, Around(w, x) PROVE Len(w) <= 2
  BY <1>2, AroundTaken
<1>3. ASSUME NEW x \in Byte, NEW y \in Byte, w = <<x>> \/ w = <<x, y>> PROVE Len(w) <= 2
  <2>1. Len(w) = 1 \/ Len(w) = 2
    BY <1>3, ShortSeqs
  <2>2. 1 <= 2 /\ 2 <= 2
    OBVIOUS
  <2> QED  BY <2>1, <2>2, Zenon
<1>4. CASE p[k].do = "compare" /\ p[k].stream = "Keyboard"
  <2>1. AtCompare(h, w)
    BY <1>4, PlaceIs
  <2> QED  BY <2>1, <1>2, <1>3, AcknowledgeByte DEF AtCompare
<1>5. CASE p[k].do = "compare" /\ p[k].stream # "Keyboard"
  BY <1>1, <1>5, PlaceIs
<1>6. CASE p[k].do = "read"
  BY <1>2, <1>6, PlaceIs
<1>7. CASE p[k].do = "get" /\ BeforeTest(p, k)
  <2>1. AtGet(r, c, w)
    BY <1>7, PlaceIs
  <2> QED  BY <2>1, <1>1, <1>3 DEF AtGet
<1>8. CASE p[k].do = "test"
  <2>1. AtTest(h, r, c, w)
    BY <1>8, PlaceIs
  <2> QED  BY <2>1, <1>2, <1>3 DEF AtTest
<1>9. CASE p[k].do = "set"
  BY <1>1, <1>9, PlaceIs
<1>10. CASE Elsewhere(p, k)
  BY <1>1, <1>10, PlaceIs
<1> QED  BY <1>4, <1>5, <1>6, <1>7, <1>8, <1>9, <1>10 DEF Elsewhere

\* A scan code joins the bytes under way.
LEMMA PlaceGrows ==
  ASSUME NEW p, NEW k, NEW h, NEW r, NEW c \in Byte, NEW w \in Seq(Byte), NEW x \in Codes,
         p[k].do = "test" => p[k].stream = "Keyboard",
         PlaceOK(p, k, h, r, c, w), Single(Append(w, x)), ~Taken(p, k, h, r)
  PROVE  PlaceOK(p, k, h, r, c, Append(w, x))
<1>1. PICK v : v = Append(w, x)
  OBVIOUS
<1>2. w \in Seq(Codes) => v \in Seq(Codes)
  BY <1>1, AppendProperties
<1>3. ASSUME NEW y \in Byte, Around(w, y) PROVE Around(v, y)
  BY <1>1, <1>3, AroundGrows
<1>4. CASE p[k].do = "compare" /\ p[k].stream = "Keyboard"
  <2>1. AtCompare(h, w)
    BY <1>4, PlaceIs
  <2>2. ASSUME NEW z \in Codes, h = <<z>> PROVE FALSE
    <3>1. h # <<>> /\ h[1] = z
      BY <2>2
    <3> QED  BY <1>4, <2>2, <3>1 DEF Taken
  <2>3. h = <<>> /\ Around(v, Acknowledge)
    BY <1>3, <2>1, <2>2, AcknowledgeByte DEF AtCompare
  <2>4. AtCompare(h, v)
    BY <2>3 DEF AtCompare
  <2> QED  BY <1>1, <1>4, <2>4, PlaceIs
<1>5. CASE p[k].do = "compare" /\ p[k].stream # "Keyboard"
  BY <1>1, <1>2, <1>5, PlaceIs
<1>6. CASE p[k].do = "read"
  BY <1>1, <1>3, <1>6, PlaceIs
<1>7. CASE p[k].do = "get" /\ BeforeTest(p, k)
  <2>1. h = <<>> /\ AtGet(r, c, w) /\ r \notin Codes
    BY <1>7, PlaceIs DEF Taken
  <2>2. AtGet(r, c, v)
    BY <1>2, <2>1 DEF AtGet
  <2> QED  BY <1>1, <1>7, <2>1, <2>2, PlaceIs
<1>8. CASE p[k].do = "test"
  <2>1. AtTest(h, r, c, w) /\ r \notin Codes
    BY <1>8, PlaceIs DEF Taken
  <2>2. ASSUME NEW z \in Codes, h = <<z>> PROVE FALSE
    <3>1. h # <<>> /\ h[1] = z
      BY <2>2
    <3> QED  BY <1>8, <2>2, <3>1 DEF Taken
  <2>3. h = <<>> /\ r = c /\ Around(v, c)
    BY <1>3, <2>1, <2>2 DEF AtTest
  <2>4. AtTest(h, r, c, v)
    BY <2>3 DEF AtTest
  <2> QED  BY <1>1, <1>8, <2>4, PlaceIs
<1>9. CASE p[k].do = "set"
  <2>1. h = <<>> /\ r = c /\ v \in Seq(Codes)
    BY <1>2, <1>9, PlaceIs
  <2>2. PlaceOK(p, k, h, r, c, v)
    BY <1>9, <2>1, PlaceIs
  <2> QED  BY <1>1, <2>2
<1>10. CASE Elsewhere(p, k)
  BY <1>1, <1>2, <1>10, PlaceIs
<1> QED  BY <1>4, <1>5, <1>6, <1>7, <1>8, <1>9, <1>10 DEF Elsewhere

\* The acknowledge is found, or a scan code in front of it is held.
LEMMA CompareTakes ==
  ASSUME NEW h, NEW w, AtCompare(h, w), Acknowledge \notin Codes
  PROVE  /\ w # <<>>
         /\ \/ /\ Head(w) = Acknowledge /\ Tail(w) \in Seq(Codes)
               /\ w[Len(w)] \notin Codes => Tail(w) = <<>>
            \/ /\ Head(w) \in Codes /\ h = <<>> /\ Tail(w) = <<Acknowledge>>
               /\ AtCompare(<<Head(w)>>, Tail(w))
<1>1. CASE w = <<Acknowledge>>
  <2>1. Head(w) = Acknowledge /\ Tail(w) = <<>> /\ w # <<>>
    BY <1>1, AcknowledgeByte, ShortSeqs
  <2>2. <<>> \in Seq(Codes)
    BY EmptySeq
  <2> QED  BY <2>1, <2>2, Zenon
<1>2. ASSUME NEW k \in Codes, h = <<>>, w = <<k, Acknowledge>>
      PROVE  /\ w # <<>> /\ Head(w) \in Codes /\ h = <<>> /\ Tail(w) = <<Acknowledge>>
             /\ AtCompare(<<Head(w)>>, Tail(w))
  <2>1. k \in Byte
    BY CodesAreBytes
  <2>2. Head(w) = k /\ Tail(w) = <<Acknowledge>> /\ w # <<>>
    BY <1>2, <2>1, AcknowledgeByte, ShortSeqs
  <2> QED  BY <1>2, <2>2 DEF AtCompare
<1>3. ASSUME NEW k \in Codes, w = <<Acknowledge, k>>
      PROVE  /\ w # <<>> /\ Head(w) = Acknowledge /\ Tail(w) \in Seq(Codes) /\ w[Len(w)] \in Codes
  <2>1. k \in Byte
    BY CodesAreBytes
  <2>2. Head(w) = Acknowledge /\ Tail(w) = <<k>> /\ w # <<>> /\ Len(w) = 2 /\ w[2] = k
    BY <1>3, <2>1, AcknowledgeByte, ShortSeqs
  <2>3. <<k>> \in Seq(Codes)
    BY ShortSeqs
  <2> QED  BY <2>2, <2>3
<1>4. w = <<Acknowledge>> \/ (h = <<>> /\ \E k \in Codes : w = <<k, Acknowledge>> \/ w = <<Acknowledge, k>>)
  BY DEF AtCompare, Around
<1> QED  BY <1>1, <1>2, <1>3, <1>4, Zenon

\* The test finds the command byte again; or it holds the first byte; or what was read
\* before was a scan code, and the test fails with nothing left under way.
LEMMA TestTakes ==
  ASSUME NEW h, NEW r, NEW c \in Byte, NEW w, AtTest(h, r, c, w), c \notin Codes
  PROVE  /\ w # <<>>
         /\ \/ Head(w) = r /\ r = c /\ Tail(w) \in Seq(Codes)
            \/ Head(w) # r /\ h = <<>> /\ AtTest(<<Head(w)>>, r, c, Tail(w))
            \/ Head(w) # r /\ h # <<>> /\ h[1] # r /\ Tail(w) = <<>>
<1>1. CASE h = <<>> /\ r = c /\ Around(w, c)
  <2>1. w # <<>> /\ ((Head(w) = c /\ Tail(w) \in Seq(Codes)) \/ (Head(w) \in Codes /\ Tail(w) = <<c>>))
    BY <1>1, AroundTaken
  <2>2. ASSUME Head(w) \in Codes, Tail(w) = <<c>>
        PROVE  Head(w) # r /\ AtTest(<<Head(w)>>, r, c, Tail(w))
    BY <1>1, <2>2 DEF AtTest
  <2> QED  BY <1>1, <2>1, <2>2
<1>2. CASE h = <<>> /\ r \in Codes /\ w = <<c, c>>
  <2>1. Head(w) = c /\ Tail(w) = <<c>> /\ w # <<>>
    BY <1>2, ShortSeqs
  <2>2. AtTest(<<c>>, r, c, <<c>>)
    BY <1>2 DEF AtTest
  <2> QED  BY <1>2, <2>1, <2>2
<1>3. CASE w = <<c>>
  <2>1. Head(w) = c /\ Tail(w) = <<>> /\ w # <<>>
    BY <1>3, ShortSeqs
  <2>2. <<>> \in Seq(Codes)
    BY EmptySeq
  <2>3. CASE r = c
    BY <2>1, <2>2, <2>3, Zenon
  <2>4. CASE r \in Codes /\ h = <<c>>
    <3>1. h # <<>> /\ h[1] = c
      BY <2>4, ShortSeqs
    <3> QED  BY <2>1, <2>4, <3>1
  <2> QED  BY <1>1, <1>2, <2>3, <2>4 DEF AtTest
<1> QED  BY <1>1, <1>2, <1>3 DEF AtTest

\* Where the parts of a program begin, nothing is expected.
LEMMA BeginsPlace ==
  ASSUME NEW p, NEW k, Begins(p, k)
  PROVE  Elsewhere(p, k)
  BY DEF Begins, Elsewhere, BeforeTest

\* What follows an access.
LEMMA ProgramAt ==
  ASSUME SetPrograms, NEW p \in Programs, NEW k \in 1..Len(p)
  PROVE  /\ Begins(p, 1)
         /\ p[k].do = "send" => /\ k < Len(p) /\ p[k + 1].do = "compare"
                                /\ p[k + 1].stream = p[k].stream
         /\ p[k].do = "get" => k < Len(p) /\ p[k + 1].do \in {"read", "test"}
         /\ p[k].do \in {"read", "test"} => p[k].stream = "Keyboard"
         /\ p[k].do = "read" => \/ BeforeSet(p, k) /\ Silent(p, k)
                                \/ k < Len(p) /\ p[k + 1].do = "get" /\ BeforeTest(p, k + 1)
         /\ p[k].do = "test" => /\ BeforeSet(p, k) /\ p[k - 1].do = "get" /\ p[k - 2].do = "read"
                                /\ p[k - 3].do = "get"
         /\ p[k].do = "freeze" => k = Len(p) /\ Silent(p, k)
         /\ p[k].do \notin {"send", "get", "read", "test"} /\ k < Len(p) => Begins(p, k + 1)
         /\ p[k].do = "compare" => Skips(p, k)
  BY DEF SetPrograms

\* How long a silence lasts.
LEMMA SilenceLasts ==
  ASSUME NEW p, NEW k \in Nat \ {0}
  PROVE  /\ Silent(p, k + 1) /\ ~Tells(p[k], FALSE) => Silent(p, k)
         /\ Tells(p[k], TRUE) => ~Silent(p, k + 1)
<1>1. ASSUME Silent(p, k + 1)
      PROVE  ~Tells(p[k], TRUE) /\ (~Tells(p[k], FALSE) => Silent(p, k))
  <2>1. PICK j \in 0..k :
          /\ IF j = 0 THEN \E i \in DOMAIN p : p[i].do = "unblock" ELSE Tells(p[j], FALSE)
          /\ \A i \in j + 1..k : ~Tells(p[i], TRUE)
    <3>1. (k + 1) - 1 = k
      OBVIOUS
    <3> QED  BY <1>1, <3>1 DEF Silent
  <2>2. CASE j = k
    <3>1. Tells(p[k], FALSE)
      BY <2>1, <2>2
    <3> QED  BY <3>1 DEF Tells
  <2>3. CASE j # k
    <3>1. j \in 0..k - 1 /\ k \in j + 1..k /\ \A i \in j + 1..k - 1 : i \in j + 1..k
      BY <2>3
    <3>2. Silent(p, k)
      BY <2>1, <3>1 DEF Silent
    <3> QED  BY <2>1, <3>1, <3>2
  <2> QED  BY <2>2, <2>3
<1> QED  BY <1>1

LEMMA SilenceSkipped ==
  ASSUME NEW p, NEW k \in Nat \ {0}, NEW n \in Nat, k < n, Silent(p, n), Quiet(p, k, n)
  PROVE  Silent(p, k)
<1>1. PICK j \in 0..n - 1 :
        /\ IF j = 0 THEN \E i \in DOMAIN p : p[i].do = "unblock" ELSE Tells(p[j], FALSE)
        /\ \A i \in j + 1..n - 1 : ~Tells(p[i], TRUE)
  BY DEF Silent
<1>2. j \notin k..n - 1
  <2>1. SUFFICES ASSUME j \in k..n - 1 PROVE FALSE
    OBVIOUS
  <2>2. j # 0
    BY <2>1
  <2>3. ~Tells(p[j], FALSE)
    BY <2>1 DEF Quiet
  <2> QED  BY <1>1, <2>2, <2>3
<1>3. j \in 0..k - 1 /\ \A i \in j + 1..k - 1 : i \in j + 1..n - 1
  BY <1>2
<1> QED  BY <1>1, <1>3 DEF Silent

LEMMA SilenceKept ==
  ASSUME NEW p, NEW k \in Nat, k > 3, Silent(p, k - 3),
         p[k - 1].do # "send", p[k - 2].do # "send", p[k - 3].do # "send"
  PROVE  Silent(p, k)
<1>1. PICK n \in Nat \ {0} : k = n + 3
  <2>1. k - 3 \in Nat \ {0} /\ k = (k - 3) + 3
    OBVIOUS
  <2> QED  BY <2>1
<1>2. k - 3 = n /\ k - 2 = n + 1 /\ k - 1 = n + 2
  BY <1>1
<1>3. PICK j \in 0..n - 1 :
        /\ IF j = 0 THEN \E i \in DOMAIN p : p[i].do = "unblock" ELSE Tells(p[j], FALSE)
        /\ \A i \in j + 1..n - 1 : ~Tells(p[i], TRUE)
  BY <1>2 DEF Silent
<1>4. ~Tells(p[n], TRUE) /\ ~Tells(p[n + 1], TRUE) /\ ~Tells(p[n + 2], TRUE)
  BY <1>2 DEF Tells
<1>5. j \in 0..k - 1 /\ \A i \in j + 1..k - 1 : i \in j + 1..n - 1 \/ i = n \/ i = n + 1 \/ i = n + 2
  BY <1>1
<1>6. \A i \in j + 1..k - 1 : ~Tells(p[i], TRUE)
  BY <1>3, <1>4, <1>5
<1> QED  BY <1>3, <1>5, <1>6 DEF Silent

LEMMA SilentAtStart ==
  ASSUME NEW p, Silent(p, 1)
  PROVE  \E i \in DOMAIN p : p[i].do = "unblock"
<1>1. PICK j \in 0..1 - 1 : IF j = 0 THEN \E i \in DOMAIN p : p[i].do = "unblock" ELSE Tells(p[j], FALSE)
  BY DEF Silent
<1>2. j = 0
  OBVIOUS
<1> QED  BY <1>1, <1>2

\* The bytes under way are bytes.
LEMMA InFlightTyped ==
  ASSUME TypeInv
  PROVE  /\ keyboardQueue \in Seq(Byte) /\ InPort("Keyboard") \in Seq(Byte)
         /\ answers["Keyboard"] \in Seq(Byte) /\ unsent["Keyboard"] \in Seq(Byte)
         /\ InFlight \in Seq(Byte) /\ commandByte \in Byte
<1>1. keyboardQueue \in Seq(Byte) /\ answers["Keyboard"] \in Seq(Byte) /\ unsent["Keyboard"] \in Seq(Byte)
      /\ commandByte \in Byte
  BY DEF TypeInv, TypeOK, Stream
<1>2. InPort("Keyboard") \in Seq(Byte)
  <2>1. CASE Ready
    <3>1. InputByte \in Byte
      BY <2>1, BufferFacts
    <3>2. <<InputByte>> \in Seq(Byte) /\ <<>> \in Seq(Byte)
      BY <3>1, ShortSeqs, EmptySeq
    <3> QED  BY <3>2 DEF InPort
  <2>2. CASE ~Ready
    BY <2>2, EmptySeq DEF InPort
  <2> QED  BY <2>1, <2>2
<1>3. InFlight \in Seq(Byte)
  BY <1>1, <1>2, FlowFacts DEF InFlight
<1> QED  BY <1>1, <1>2, <1>3

\* What each action does to the bytes under way.
LEMMA ReportFlow ==
  ASSUME TypeInv, NEW d \in Stream, deviceReports(d)
  PROVE  /\ d # "Keyboard" => InFlight' = InFlight /\ unsent'["Keyboard"] = unsent["Keyboard"]
         /\ d = "Keyboard" => /\ unsent["Keyboard"] # <<>> /\ unsent'["Keyboard"] = Tail(unsent["Keyboard"])
                              /\ InFlight' = Append(InFlight, Head(unsent["Keyboard"]))
<1>1. keyboardQueue' = keyboardQueue /\ InPort("Keyboard")' = InPort("Keyboard")
  BY DEF deviceReports, InPort, Ready, InputStream, InputByte
<1>2. CASE d # "Keyboard"
  <2>1. answers'["Keyboard"] = answers["Keyboard"] /\ unsent'["Keyboard"] = unsent["Keyboard"]
    BY <1>2 DEF deviceReports, TypeInv, TypeOK, Stream
  <2> QED  BY <1>1, <1>2, <2>1 DEF InFlight
<1>3. CASE d = "Keyboard"
  <2>1. PICK x : x = Head(unsent["Keyboard"])
    OBVIOUS
  <2>2. unsent["Keyboard"] \in Seq(Byte) /\ unsent["Keyboard"] # <<>>
    BY <1>3, InFlightTyped DEF deviceReports
  <2>3. x \in Byte
    BY <2>1, <2>2, HeadTailProperties
  <2>4. /\ answers'["Keyboard"] = Append(answers["Keyboard"], x)
        /\ unsent'["Keyboard"] = Tail(unsent["Keyboard"])
    BY <1>3, <2>1 DEF deviceReports, TypeInv, TypeOK, Stream
  <2>5. PICK q, o, a : q = keyboardQueue /\ o = InPort("Keyboard") /\ a = answers["Keyboard"]
    OBVIOUS
  <2>6. InFlight = Flow(q, o, a) /\ InFlight' = Flow(q, o, Append(a, x))
    BY <1>1, <2>4, <2>5 DEF InFlight
  <2>7. q \in Seq(Byte) /\ o \in Seq(Byte) /\ a \in Seq(Byte)
    BY <2>5, InFlightTyped
  <2>8. Flow(q, o, Append(a, x)) = Append(Flow(q, o, a), x)
    BY <2>3, <2>7, FlowGrows
  <2> QED  BY <1>3, <2>1, <2>2, <2>4, <2>6, <2>8
<1> QED  BY <1>2, <1>3

LEMMA FillFlow ==
  ASSUME TypeInv, NEW d \in Stream, fillOutputBuffer(d)
  PROVE  InFlight' = InFlight
<1>1. /\ keyboardQueue' = keyboardQueue /\ outputBuffer = <<>>
      /\ outputBuffer' = <<[stream |-> d, data |-> Head(answers[d])]>>
  BY DEF fillOutputBuffer
<1>2. keyboardQueue \in Seq(Byte) /\ answers["Keyboard"] \in Seq(Byte)
  BY InFlightTyped
<1>3. InPort("Keyboard") = <<>>
  BY <1>1 DEF InPort, Ready
<1>4. Ready' /\ InputStream' = d /\ InputByte' = Head(answers[d])
  BY <1>1 DEF Ready, InputStream, InputByte
<1>5. CASE d = "Keyboard"
  <2>1. answers["Keyboard"] # <<>> /\ answers'["Keyboard"] = Tail(answers["Keyboard"])
    BY <1>5 DEF fillOutputBuffer, TypeInv, TypeOK, Stream
  <2>2. InPort("Keyboard")' = <<Head(answers["Keyboard"])>>
    BY <1>4, <1>5 DEF InPort
  <2> QED  BY <1>1, <1>2, <1>3, <2>1, <2>2, FlowMoves DEF InFlight
<1>6. CASE d # "Keyboard"
  <2>1. answers'["Keyboard"] = answers["Keyboard"]
    BY <1>6 DEF fillOutputBuffer, TypeInv, TypeOK, Stream
  <2>2. InPort("Keyboard")' = <<>>
    BY <1>4, <1>6 DEF InPort
  <2> QED  BY <1>1, <1>3, <2>1, <2>2 DEF InFlight
<1> QED  BY <1>5, <1>6

\* A byte is taken out of the port, past the queue.
Loses(q, a, w, v) == \E x \in Byte : w = Flow(q, <<x>>, a) /\ v = Flow(q, <<>>, a)

LEMMA LosesByte ==
  ASSUME NEW q \in Seq(Byte), NEW a \in Seq(Byte), NEW w, NEW v, Loses(q, a, w, v)
  PROVE  /\ w # <<>> /\ w \in Seq(Byte) /\ Len(w) >= Len(q) + 1
         /\ \A C : w \in Seq(C) => v \in Seq(C)
         /\ Len(w) = 1 => v = <<>>
<1>1. PICK x \in Byte : w = Flow(q, <<x>>, a) /\ v = Flow(q, <<>>, a)
  BY DEF Loses
<1>2. <<x>> \in Seq(Byte) /\ Len(<<x>>) = 1
  BY SeqSingleton
<1>3. PICK s : s = q \o <<x>>
  OBVIOUS
<1>4. s \in Seq(Byte) /\ Len(s) = Len(q) + 1
  BY <1>2, <1>3, ConcatProperties
<1>5. w = s \o a /\ v = q \o a
  <2>1. q \o <<>> = q
    BY ConcatEmptySeq
  <2> QED  BY <1>1, <1>3, <2>1 DEF Flow
<1>6. w \in Seq(Byte) /\ Len(w) = Len(s) + Len(a)
  BY <1>4, <1>5, ConcatProperties
<1>7. v \in Seq(Byte) /\ Len(v) = Len(q) + Len(a)
  BY <1>5, ConcatProperties
<1>8. Len(q) \in Nat /\ Len(a) \in Nat
  BY LenProperties
<1>9. \A m, n \in Nat : (m + 1) + n >= m + 1 /\ (m + 1) + n # 0 /\ ((m + 1) + n = 1 => m + n = 0)
  OBVIOUS
<1>10. Len(w) = (Len(q) + 1) + Len(a)
  BY <1>4, <1>6
<1>11. Len(w) >= Len(q) + 1 /\ Len(w) # 0 /\ (Len(w) = 1 => Len(v) = 0)
  <2>1. PICK m, n, k, l : m = Len(q) /\ n = Len(a) /\ k = Len(w) /\ l = Len(v)
    OBVIOUS
  <2>2. m \in Nat /\ n \in Nat /\ k = (m + 1) + n /\ l = m + n
    BY <1>7, <1>8, <1>10, <2>1
  <2>3. k >= m + 1 /\ k # 0 /\ (k = 1 => l = 0)
    BY <2>2, <1>9
  <2> QED  BY <2>1, <2>3
<1>12. w # <<>> /\ (Len(w) = 1 => v = <<>>)
  BY <1>6, <1>7, <1>11, EmptySeq
<1>13. ASSUME NEW C, w \in Seq(C) PROVE v \in Seq(C)
  BY <1>1, <1>13, FlowPort
<1> QED  BY <1>6, <1>11, <1>12, <1>13

LEMMA HandlerFlow ==
  ASSUME TypeInv, interruptHandlerKeyboard \/ interruptHandlerMouse
  PROVE  \/ InFlight' = InFlight
         \/ /\ ~(Len(keyboardQueue) < QueueSize)
            /\ Loses(keyboardQueue, answers["Keyboard"], InFlight, InFlight')
<1>1. answers' = answers /\ keyboardQueue \in Seq(Byte) /\ answers["Keyboard"] \in Seq(Byte)
  BY InFlightTyped DEF interruptHandlerKeyboard, interruptHandlerMouse, device
<1>2. CASE keyboardQueue' = keyboardQueue /\ outputBuffer' = outputBuffer
  BY <1>1, <1>2 DEF InFlight, InPort, Ready, InputStream, InputByte
<1>3. CASE /\ Ready /\ InputStream = "Keyboard" /\ enqueueKeyboardData(InputByte) /\ outputBuffer' = <<>>
  <2>1. PICK x, q, a : x = InputByte /\ q = keyboardQueue /\ a = answers["Keyboard"]
    OBVIOUS
  <2>2. x \in Byte /\ InPort("Keyboard") = <<x>> /\ InPort("Keyboard")' = <<>>
    BY <1>3, <2>1, BufferFacts DEF InPort, Ready
  <2>3. q \in Seq(Byte) /\ a \in Seq(Byte) /\ InFlight = Flow(q, <<x>>, a)
    BY <1>1, <2>1, <2>2 DEF InFlight
  <2>4. CASE Len(keyboardQueue) < QueueSize
    <3>1. keyboardQueue' = Append(q, x)
      BY <1>3, <2>1, <2>4 DEF enqueueKeyboardData
    <3>2. InFlight' = Flow(Append(q, x), <<>>, a)
      BY <1>1, <2>1, <2>2, <3>1 DEF InFlight
    <3>3. Flow(Append(q, x), <<>>, a) = Flow(q, <<x>>, a)
      BY <2>2, <2>3, FlowQueues
    <3> QED  BY <2>3, <3>2, <3>3
  <2>5. CASE ~(Len(keyboardQueue) < QueueSize)
    <3>1. keyboardQueue' = keyboardQueue
      BY <1>3, <2>5 DEF enqueueKeyboardData
    <3>2. InFlight' = Flow(q, <<>>, a)
      BY <1>1, <2>1, <2>2, <3>1 DEF InFlight
    <3>3. Loses(q, a, InFlight, InFlight')
      BY <2>2, <2>3, <3>2 DEF Loses
    <3> QED  BY <2>1, <2>5, <3>3
  <2> QED  BY <2>4, <2>5
<1>4. CASE interruptHandlerKeyboard
  BY <1>2, <1>3, <1>4 DEF interruptHandlerKeyboard
<1>5. CASE interruptHandlerMouse
  BY <1>2, <1>5 DEF interruptHandlerMouse
<1> QED  BY <1>4, <1>5

LEMMA LoopFlow ==
  ASSUME TypeInv, interruptOccurred \/ serveInput
  PROVE  InFlight' = InFlight \/ (InFlight # <<>> /\ InFlight' = Tail(InFlight))
<1>1. answers' = answers
  BY DEF interruptOccurred, serveInput, device
<1>2. CASE keyboardQueue' = keyboardQueue /\ outputBuffer' = outputBuffer
  BY <1>1, <1>2 DEF InFlight, InPort, Ready, InputStream, InputByte
<1>3. CASE serveInput /\ keyboardQueue # <<>>
  <2>1. keyboardQueue' = Tail(keyboardQueue) /\ outputBuffer' = outputBuffer
    BY <1>3 DEF serveInput
  <2>2. PICK q, o, a : q = keyboardQueue /\ o = InPort("Keyboard") /\ a = answers["Keyboard"]
    OBVIOUS
  <2>3. InFlight = Flow(q, o, a) /\ InFlight' = Flow(Tail(q), o, a)
    BY <1>1, <2>1, <2>2 DEF InFlight, InPort, Ready, InputStream, InputByte
  <2>4. q \in Seq(Byte) /\ o \in Seq(Byte) /\ a \in Seq(Byte) /\ q # <<>>
    BY <1>3, <2>2, InFlightTyped
  <2> QED  BY <2>3, <2>4, FlowFacts
<1>4. CASE serveInput /\ keyboardQueue = <<>> /\ Ready /\ InputStream = "Mouse"
  <2>1. keyboardQueue' = keyboardQueue /\ outputBuffer' = <<>>
    BY <1>4 DEF serveInput
  <2>2. InPort("Keyboard") = <<>> /\ InPort("Keyboard")' = <<>>
    BY <1>4, <2>1 DEF InPort, Ready
  <2> QED  BY <1>1, <2>1, <2>2 DEF InFlight
<1>5. CASE serveInput /\ keyboardQueue = <<>> /\ ~(Ready /\ InputStream = "Mouse")
  <2>1. keyboardQueue' = keyboardQueue /\ outputBuffer' = outputBuffer
    BY <1>5 DEF serveInput
  <2> QED  BY <1>2, <2>1
<1>6. CASE interruptOccurred
  <2>1. keyboardQueue' = keyboardQueue /\ outputBuffer' = outputBuffer
    BY <1>6 DEF interruptOccurred
  <2> QED  BY <1>2, <2>1
<1> QED  BY <1>3, <1>4, <1>5, <1>6

LEMMA AccessFlow ==
  ASSUME TypeInv, access
  PROVE  /\ Now.do = "send" /\ Now.stream = "Keyboard" => InFlight' = Append(InFlight, Acknowledge)
         /\ Now.do = "get" => InFlight' = Append(InFlight, commandByte)
         /\ Now.do # "get" /\ ~(Now.do = "send" /\ Now.stream = "Keyboard") => InFlight' = InFlight
<1>1. keyboardQueue' = keyboardQueue /\ InPort("Keyboard")' = InPort("Keyboard")
  BY DEF access, InPort, Ready, InputStream, InputByte
<1>2. /\ keyboardQueue \in Seq(Byte) /\ InPort("Keyboard") \in Seq(Byte) /\ answers["Keyboard"] \in Seq(Byte)
      /\ commandByte \in Byte
  BY InFlightTyped
<1>3. ASSUME NEW x \in Byte, answers'["Keyboard"] = Append(answers["Keyboard"], x)
      PROVE  InFlight' = Append(InFlight, x)
  <2>1. PICK q, o, a : q = keyboardQueue /\ o = InPort("Keyboard") /\ a = answers["Keyboard"]
    OBVIOUS
  <2>2. InFlight = Flow(q, o, a) /\ InFlight' = Flow(q, o, Append(a, x))
    BY <1>1, <1>3, <2>1 DEF InFlight
  <2>3. q \in Seq(Byte) /\ o \in Seq(Byte) /\ a \in Seq(Byte)
    BY <1>2, <2>1
  <2>4. Flow(q, o, Append(a, x)) = Append(Flow(q, o, a), x)
    BY <1>3, <2>3, FlowGrows
  <2> QED  BY <2>2, <2>4
<1>4. ASSUME Now.do = "send", Now.stream = "Keyboard" PROVE InFlight' = Append(InFlight, Acknowledge)
  <2>1. answers'["Keyboard"] = Append(answers["Keyboard"], Acknowledge)
    BY <1>4 DEF access, TypeInv, TypeOK, Stream
  <2> QED  BY <1>3, <2>1, AcknowledgeByte
<1>5. ASSUME Now.do = "get" PROVE InFlight' = Append(InFlight, commandByte)
  <2>1. answers'["Keyboard"] = Append(answers["Keyboard"], commandByte)
    BY <1>5 DEF access, TypeInv, TypeOK, Stream
  <2> QED  BY <1>2, <1>3, <2>1
<1>6. ASSUME Now.do # "get", ~(Now.do = "send" /\ Now.stream = "Keyboard") PROVE InFlight' = InFlight
  <2>1. answers'["Keyboard"] = answers["Keyboard"]
    <3>1. CASE Now.do = "send"
      BY <1>6, <3>1 DEF access, TypeInv, TypeOK, Stream
    <3>2. CASE Now.do # "send"
      BY <1>6, <3>2 DEF access
    <3> QED  BY <3>1, <3>2
  <2> QED  BY <1>1, <2>1 DEF InFlight
<1> QED  BY <1>4, <1>5, <1>6

LEMMA ReadFlow ==
  ASSUME TypeInv, readDataPort
  PROVE  \/ /\ Now.stream = "Keyboard" /\ InFlight # <<>> /\ receiveByte(Head(InFlight))
            /\ InFlight' = Tail(InFlight)
         \/ /\ InFlight' = InFlight /\ pc' = "await" /\ held' = held /\ lastRead' = lastRead
            /\ program' = program /\ at' = at
<1>1. answers' = answers /\ InPort("Keyboard")' = InPort("Keyboard")
  BY DEF readDataPort, device, InPort, Ready, InputStream, InputByte
<1>2. CASE Now.stream = "Keyboard" /\ keyboardQueue # <<>>
  <2>1. receiveByte(Head(keyboardQueue)) /\ keyboardQueue' = Tail(keyboardQueue)
    BY <1>2 DEF readDataPort
  <2>2. PICK q, o, a : q = keyboardQueue /\ o = InPort("Keyboard") /\ a = answers["Keyboard"]
    OBVIOUS
  <2>3. InFlight = Flow(q, o, a) /\ InFlight' = Flow(Tail(q), o, a)
    BY <1>1, <2>1, <2>2 DEF InFlight
  <2>4. q \in Seq(Byte) /\ o \in Seq(Byte) /\ a \in Seq(Byte) /\ q # <<>>
    BY <1>2, <2>2, InFlightTyped
  <2>5. InFlight # <<>> /\ Head(InFlight) = Head(q) /\ InFlight' = Tail(InFlight)
    BY <2>3, <2>4, FlowFacts
  <2>6. receiveByte(Head(InFlight))
    BY <2>1, <2>2, <2>5
  <2> QED  BY <1>2, <2>5, <2>6
<1>3. CASE ~(Now.stream = "Keyboard" /\ keyboardQueue # <<>>)
  <2>1. /\ pc' = "await" /\ keyboardQueue' = keyboardQueue /\ held' = held /\ lastRead' = lastRead
        /\ program' = program /\ at' = at
    BY <1>3 DEF readDataPort
  <2>2. InFlight' = InFlight
    BY <1>1, <2>1 DEF InFlight
  <2> QED  BY <2>1, <2>2
<1> QED  BY <1>2, <1>3

LEMMA PortFlow ==
  ASSUME TypeInv, PolledEmpty, readOutputBuffer
  PROVE  \/ /\ Now.stream = "Keyboard" /\ InFlight # <<>> /\ receiveByte(Head(InFlight))
            /\ InFlight' = Tail(InFlight)
         \/ Now.stream # "Keyboard" /\ InFlight' = InFlight /\ receiveByte(InputByte)
         \/ /\ pc' = "between" /\ held' = held /\ lastRead' = lastRead /\ program' = program /\ at' = at
            /\ \/ InFlight' = InFlight
               \/ /\ Now.stream # "Keyboard"
                  /\ Loses(keyboardQueue, answers["Keyboard"], InFlight, InFlight')
<1>1. /\ pc = "await" /\ Ready /\ outputBuffer' = <<>> /\ answers' = answers /\ keyboardQueue' = keyboardQueue
      /\ Now.stream \in Stream
  BY AtNow DEF readOutputBuffer, device
<1>2. InPort("Keyboard")' = <<>>
  BY <1>1 DEF InPort, Ready
<1>3. PICK x, q, a : x = InputByte /\ q = keyboardQueue /\ a = answers["Keyboard"]
  OBVIOUS
<1>4. x \in Byte /\ q \in Seq(Byte) /\ a \in Seq(Byte) /\ InputStream \in Stream
  BY <1>1, <1>3, InFlightTyped, BufferFacts
<1>5. InFlight' = Flow(q, <<>>, a)
  BY <1>1, <1>2, <1>3 DEF InFlight
<1>6. InputStream = "Keyboard" => InFlight = Flow(q, <<x>>, a)
  BY <1>1, <1>3 DEF InFlight, InPort
<1>7. InputStream # "Keyboard" => InFlight' = InFlight
  BY <1>3, <1>5 DEF InFlight, InPort
<1>8. InputStream # Now.stream => /\ pc' = "between" /\ held' = held /\ lastRead' = lastRead
                                  /\ program' = program /\ at' = at
  BY DEF readOutputBuffer
<1>9. InputStream = Now.stream => receiveByte(x)
  BY <1>3 DEF readOutputBuffer
<1>10. CASE InputStream = "Keyboard" /\ Now.stream = "Keyboard"
  <2>1. q = <<>>
    BY <1>1, <1>3, <1>10 DEF PolledEmpty
  <2>2. Flow(q, <<x>>, a) # <<>> /\ Head(Flow(q, <<x>>, a)) = x /\ Tail(Flow(q, <<x>>, a)) = Flow(q, <<>>, a)
    BY <1>4, <2>1, FlowPortNext
  <2>3. InFlight # <<>> /\ Head(InFlight) = x /\ InFlight' = Tail(InFlight)
    BY <1>5, <1>6, <1>10, <2>2
  <2> QED  BY <1>9, <1>10, <2>3
<1>11. CASE InputStream # "Keyboard" /\ Now.stream = "Keyboard"
  BY <1>7, <1>8, <1>11
<1>12. CASE InputStream = "Keyboard" /\ Now.stream # "Keyboard"
  <2>1. Loses(q, a, InFlight, InFlight')
    BY <1>4, <1>5, <1>6, <1>12 DEF Loses
  <2> QED  BY <1>3, <1>8, <1>12, <2>1
<1>13. CASE InputStream # "Keyboard" /\ Now.stream # "Keyboard"
  <2>1. InputStream = Now.stream
    BY <1>1, <1>4, <1>13 DEF Stream
  <2> QED  BY <1>3, <1>7, <1>9, <1>13, <2>1
<1> QED  BY <1>10, <1>11, <1>12, <1>13

\* Nothing that matters changes.
LEMMA CommandSame ==
  ASSUME CommandInv, PolledEmpty', Busy' <=> Busy, program' = program, at' = at, held' = held,
         lastRead' = lastRead, commandByte' = commandByte, hardwareOffline' = hardwareOffline,
         reporting' = reporting, unsent'["Keyboard"] = unsent["Keyboard"], InFlight' = InFlight
  PROVE  CommandInv'
  BY DEF CommandInv

\* The program goes on, or is over.
LEMMA CommandGoesOn ==
  ASSUME TypeInv, CommandInv, PolledEmpty', pc \in {"between", "await"}, GoTo(at + 1),
         unsent'["Keyboard"] = unsent["Keyboard"],
         hardwareOffline' => hardwareOffline /\ Now.do # "unblock",
         at = Len(program) => InFlight' \in Seq(Codes),
         at < Len(program) => PlaceOK(program, at + 1, held', lastRead', commandByte', InFlight'),
         at < Len(program) /\ Silent(program, at + 1) =>
           "Keyboard" \notin reporting' /\ Hushed(program, at + 1, InFlight')
  PROVE  CommandInv'
<1>1. at \in 1..Len(program) /\ at \in Nat /\ Len(program) \in Nat /\ Now = program[at]
  BY AtNow
<1>2. /\ unsent'["Keyboard"] \in Seq(Codes)
      /\ hardwareOffline => \E j \in at..Len(program) : program[j].do = "unblock"
  BY DEF CommandInv, Busy
<1>3. ASSUME hardwareOffline' PROVE \E j \in at + 1..Len(program) : program[j].do = "unblock"
  <2>1. PICK j \in at..Len(program) : program[j].do = "unblock"
    BY <1>2, <1>3
  <2>2. j # at
    BY <1>1, <1>3, <2>1
  <2>3. j \in at + 1..Len(program)
    BY <1>1, <2>2
  <2> QED  BY <2>1, <2>3
<1>4. CASE at = Len(program)
  <2>1. pc' = "idle"
    <3>1. at + 1 > Len(program)
      BY <1>1, <1>4
    <3> QED  BY <3>1 DEF GoTo
  <2>2. ~hardwareOffline'
    <3>1. at + 1..Len(program) = {}
      BY <1>1, <1>4
    <3> QED  BY <1>3, <3>1
  <2> QED  BY <1>2, <1>4, <2>1, <2>2 DEF CommandInv, Busy
<1>5. CASE at < Len(program)
  <2>1. pc' = "between" /\ program' = program /\ at' = at + 1
    <3>1. ~(at + 1 > Len(program))
      BY <1>1, <1>5
    <3> QED  BY <3>1 DEF GoTo
  <2> QED  BY <1>2, <1>3, <1>5, <2>1 DEF CommandInv, Busy
<1> QED  BY <1>1, <1>4, <1>5

\* The rest of a request is skipped.
LEMMA CommandJumps ==
  ASSUME TypeInv, CommandInv, PolledEmpty', pc \in {"between", "await"}, NEW n \in Nat, at < n, GoTo(n),
         unsent'["Keyboard"] = unsent["Keyboard"], hardwareOffline' = hardwareOffline,
         n <= Len(program) + 1, Quiet(program, at, n),
         n > Len(program) => InFlight' \in Seq(Codes),
         n <= Len(program) => PlaceOK(program, n, held', lastRead', commandByte', InFlight'),
         n <= Len(program) /\ Silent(program, n) =>
           "Keyboard" \notin reporting' /\ Hushed(program, n, InFlight')
  PROVE  CommandInv'
<1>1. at \in 1..Len(program) /\ at \in Nat /\ Len(program) \in Nat
  BY AtNow
<1>2. /\ unsent'["Keyboard"] \in Seq(Codes)
      /\ hardwareOffline => \E j \in at..Len(program) : program[j].do = "unblock"
  BY DEF CommandInv, Busy
<1>3. ASSUME hardwareOffline PROVE \E j \in n..Len(program) : program[j].do = "unblock"
  <2>1. PICK j \in at..Len(program) : program[j].do = "unblock"
    BY <1>2, <1>3
  <2>2. j \notin at..n - 1
    BY <2>1 DEF Quiet
  <2>3. j \in n..Len(program)
    BY <1>1, <2>2
  <2> QED  BY <2>1, <2>3
<1>4. CASE n > Len(program)
  <2>1. pc' = "idle"
    BY <1>4 DEF GoTo
  <2>2. ~hardwareOffline'
    <3>1. n..Len(program) = {}
      BY <1>1, <1>4
    <3> QED  BY <1>3, <3>1
  <2> QED  BY <1>2, <1>4, <2>1, <2>2 DEF CommandInv, Busy
<1>5. CASE ~(n > Len(program))
  <2>1. pc' = "between" /\ program' = program /\ at' = n
    BY <1>5 DEF GoTo
  <2>2. n <= Len(program)
    BY <1>1, <1>5
  <2> QED  BY <1>2, <1>3, <2>1, <2>2 DEF CommandInv, Busy
<1> QED  BY <1>4, <1>5

\* Where a command to the mouse goes on, whatever its answer.
LEMMA MouseGoesOn ==
  ASSUME SetPrograms, TypeInv, pc \in {"between", "await"}, Now.stream # "Keyboard", Now.do = "compare",
         NEW b, returnByte(b)
  PROVE  \E n \in Nat : /\ at < n /\ GoTo(n) /\ n <= Len(program) + 1
                        /\ n <= Len(program) => Begins(program, n)
                        /\ Quiet(program, at, n)
<1>1. /\ program \in Programs /\ at \in 1..Len(program) /\ Now = program[at] /\ Now.left \in Nat
      /\ at \in Nat /\ Len(program) \in Nat
  BY AtNow
<1>2. /\ Skips(program, at) /\ (at < Len(program) => Begins(program, at + 1))
      /\ ~Tells(program[at], FALSE) /\ program[at].do # "unblock"
  BY <1>1, ProgramAt DEF Tells
<1>3. CASE b = Expected
  <2>1. GoTo(at + 1)
    BY <1>3 DEF returnByte
  <2>2. at + 1 \in Nat /\ at < at + 1 /\ at + 1 <= Len(program) + 1
        /\ (at + 1 <= Len(program) => at < Len(program)) /\ \A i \in at..(at + 1) - 1 : i = at
    BY <1>1
  <2>3. Quiet(program, at, at + 1)
    BY <1>2, <2>2 DEF Quiet
  <2> QED  BY <1>2, <2>1, <2>2, <2>3
<1>4. CASE b # Expected
  <2>1. PICK m \in Nat : m = Now.left
    BY <1>1
  <2>2. GoTo(at + 1 + m)
    BY <1>4, <2>1 DEF returnByte
  <2>3. /\ at + m <= Len(program) /\ (at + 1 + m <= Len(program) => Begins(program, at + 1 + m))
        /\ \A i \in at + 1..at + m : ~Tells(program[i], FALSE) /\ program[i].do # "unblock"
    BY <1>1, <1>2, <2>1 DEF Skips
  <2>4. /\ at + 1 + m \in Nat /\ at < at + 1 + m /\ at + 1 + m <= Len(program) + 1
        /\ \A i \in at..(at + 1 + m) - 1 : i = at \/ i \in at + 1..at + m
    BY <1>1, <2>3
  <2>5. Quiet(program, at, at + 1 + m)
    BY <1>2, <2>3, <2>4 DEF Quiet
  <2> QED  BY <2>2, <2>3, <2>4, <2>5
<1> QED  BY <1>3, <1>4

\* The devices and the interrupt handlers.
LEMMA ReportCommand ==
  ASSUME SetPrograms, TypeInv, OneKey', CommandInv, PolledEmpty', NEW d \in Stream, deviceReports(d)
  PROVE  CommandInv'
<1>1. /\ pc' = pc /\ program' = program /\ at' = at /\ held' = held /\ lastRead' = lastRead
      /\ commandByte' = commandByte /\ hardwareOffline' = hardwareOffline /\ reporting' = reporting
  BY DEF deviceReports
<1>2. Busy' <=> Busy
  BY <1>1 DEF Busy
<1>3. InFlight \in Seq(Byte) /\ commandByte \in Byte
  BY InFlightTyped
<1>4. CASE d # "Keyboard"
  BY <1>1, <1>2, <1>4, ReportFlow, CommandSame
<1>5. CASE d = "Keyboard"
  <2>1. PICK x : x = Head(unsent["Keyboard"])
    OBVIOUS
  <2>2. /\ unsent["Keyboard"] # <<>> /\ unsent'["Keyboard"] = Tail(unsent["Keyboard"])
        /\ InFlight' = Append(InFlight, x)
    BY <1>5, <2>1, ReportFlow
  <2>3. unsent["Keyboard"] \in Seq(Codes) /\ "Keyboard" \in reporting
    BY <1>5 DEF CommandInv, deviceReports
  <2>4. x \in Codes /\ Tail(unsent["Keyboard"]) \in Seq(Codes)
    BY <2>1, <2>2, <2>3, HeadTailProperties
  <2>5. x \in Byte
    BY <2>4, CodesAreBytes
  <2>6. CASE Busy
    <3>1. /\ PlaceOK(program, at, held, lastRead, commandByte, InFlight) /\ ~Silent(program, at)
          /\ hardwareOffline => \E j \in at..Len(program) : program[j].do = "unblock"
      BY <2>3, <2>6 DEF CommandInv
    <3>2. Single(Append(InFlight, x))
      BY <1>2, <2>2, <2>6 DEF OneKey
    <3>3. ~Taken(program, at, held, lastRead)
      <4>1. ~NoCode(Append(InFlight, x))
        BY <1>3, <2>4, <2>5, NoCodeAppend
      <4> QED  BY <1>1, <1>2, <2>2, <2>6, <4>1 DEF OneKey
    <3>4. program[at].do = "test" => program[at].stream = "Keyboard"
      <4>1. program \in Programs /\ at \in 1..Len(program)
        BY <2>6, AtNow DEF Busy
      <4> QED  BY <4>1, ProgramAt
    <3>5. PlaceOK(program, at, held, lastRead, commandByte, Append(InFlight, x))
      BY <1>3, <2>4, <3>1, <3>2, <3>3, <3>4, PlaceGrows
    <3>6. PlaceOK(program', at', held', lastRead', commandByte', InFlight')
      BY <1>1, <2>2, <3>5
    <3>7. ~Silent(program', at') /\ (hardwareOffline' => \E j \in at'..Len(program') : program'[j].do = "unblock")
      BY <1>1, <3>1
    <3> QED  BY <1>2, <2>2, <2>4, <2>6, <3>6, <3>7 DEF CommandInv
  <2>7. CASE ~Busy
    <3>1. InFlight \in Seq(Codes) /\ ~hardwareOffline
      BY <2>3, <2>7 DEF CommandInv
    <3>2. Append(InFlight, x) \in Seq(Codes)
      BY <2>4, <3>1, AppendProperties
    <3> QED  BY <1>1, <1>2, <2>2, <2>4, <2>7, <3>1, <3>2 DEF CommandInv
  <2> QED  BY <2>6, <2>7
<1> QED  BY <1>4, <1>5

LEMMA FillCommand ==
  ASSUME TypeInv, CommandInv, PolledEmpty', NEW d \in Stream, fillOutputBuffer(d)
  PROVE  CommandInv'
<1>1. /\ pc' = pc /\ program' = program /\ at' = at /\ held' = held /\ lastRead' = lastRead
      /\ commandByte' = commandByte /\ hardwareOffline' = hardwareOffline /\ reporting' = reporting
      /\ unsent' = unsent
  BY DEF fillOutputBuffer
<1>2. InFlight' = InFlight /\ (Busy' <=> Busy)
  BY <1>1, FillFlow DEF Busy
<1> QED  BY <1>1, <1>2, CommandSame

\* While a program runs the queue has room.
LEMMA HandlerCommand ==
  ASSUME QueueSize >= 2, TypeInv, OneKey, CommandInv, PolledEmpty',
         interruptHandlerKeyboard \/ interruptHandlerMouse
  PROVE  CommandInv'
<1>1. /\ pc' = pc /\ program' = program /\ at' = at /\ held' = held /\ lastRead' = lastRead
      /\ commandByte' = commandByte /\ hardwareOffline' = hardwareOffline /\ reporting' = reporting
      /\ unsent' = unsent
  BY DEF interruptHandlerKeyboard, interruptHandlerMouse, device
<1>2. /\ keyboardQueue \in Seq(Byte) /\ answers["Keyboard"] \in Seq(Byte) /\ (Busy' <=> Busy)
      /\ commandByte \in Byte
  BY <1>1, InFlightTyped DEF Busy
<1>3. CASE InFlight' = InFlight
  BY <1>1, <1>2, <1>3, CommandSame
<1>4. CASE /\ ~(Len(keyboardQueue) < QueueSize)
           /\ Loses(keyboardQueue, answers["Keyboard"], InFlight, InFlight')
  <2>1. PICK w, v : w = InFlight /\ v = InFlight'
    OBVIOUS
  <2>2. /\ w # <<>> /\ w \in Seq(Byte) /\ Len(w) >= Len(keyboardQueue) + 1
        /\ \A C : w \in Seq(C) => v \in Seq(C)
    BY <1>2, <1>4, <2>1, LosesByte
  <2>3. ~Busy
    <3>1. SUFFICES ASSUME Busy PROVE FALSE
      OBVIOUS
    <3>2. Len(w) <= 2
      BY <1>2, <2>1, <3>1, PlaceShort DEF CommandInv, OneKey
    <3>3. \A k, m, n \in Nat : ~(m < n) /\ n >= 2 /\ k >= m + 1 => ~(k <= 2)
      OBVIOUS
    <3>4. Len(keyboardQueue) \in Nat /\ QueueSize \in Nat /\ Len(w) \in Nat
      BY <1>2, <2>2, LenProperties, PortAssumption
    <3> QED  BY <1>4, <2>2, <3>2, <3>3, <3>4, Zenon
  <2>4. InFlight' \in Seq(Codes) /\ ~hardwareOffline
    BY <2>1, <2>2, <2>3 DEF CommandInv
  <2> QED  BY <1>1, <1>2, <2>3, <2>4 DEF CommandInv
<1> QED  BY <1>3, <1>4, HandlerFlow

\* The work loop outside of programs, and the start of one.
LEMMA LoopCommand ==
  ASSUME TypeInv, CommandInv, PolledEmpty', interruptOccurred \/ serveInput
  PROVE  CommandInv'
<1>1. /\ program' = program /\ at' = at /\ held' = held /\ lastRead' = lastRead
      /\ commandByte' = commandByte /\ hardwareOffline' = hardwareOffline /\ reporting' = reporting
      /\ unsent' = unsent
  BY DEF interruptOccurred, serveInput, device
<1>2. ~Busy /\ ~Busy'
  BY DEF interruptOccurred, serveInput, Busy
<1>3. CASE InFlight' = InFlight
  BY <1>1, <1>2, <1>3, CommandSame
<1>4. CASE InFlight # <<>> /\ InFlight' = Tail(InFlight)
  <2>1. InFlight \in Seq(Codes) /\ ~hardwareOffline
    BY <1>2, <1>4 DEF CommandInv
  <2>2. InFlight' \in Seq(Codes)
    BY <1>4, <2>1, HeadTailProperties
  <2> QED  BY <1>1, <1>2, <2>1, <2>2 DEF CommandInv
<1> QED  BY <1>3, <1>4, LoopFlow

LEMMA BeginCommand ==
  ASSUME SetPrograms, TypeInv, CommandInv, PolledEmpty', NEW p \in Programs, beginProgram(p)
  PROVE  CommandInv'
<1>1. /\ lastRead' = lastRead /\ commandByte' = commandByte /\ hardwareOffline' = hardwareOffline
      /\ reporting' = reporting /\ unsent' = unsent /\ held' = held
      /\ program' = p /\ at' = 1 /\ pc = "idle" /\ pc' = "between"
      /\ hardwareOffline <=> \E k \in DOMAIN p : p[k].do = "unblock"
  BY DEF beginProgram, device
<1>2. InFlight' = InFlight
  BY DEF beginProgram, device, InFlight, InPort, Ready, InputStream, InputByte
<1>3. held = <<>>
  BY <1>1 DEF TypeInv, Running
<1>4. p \in Seq(Access) /\ Len(p) \in Nat /\ DOMAIN p = 1..Len(p) /\ p # <<>>
  BY PortAssumption, LenProperties
<1>5. 1 \in 1..Len(p)
  BY <1>4, EmptySeq
<1>6. Begins(p, 1)
  BY <1>5, ProgramAt
<1>7. Elsewhere(p, 1)
  BY <1>6, BeginsPlace
<1>8. InFlight \in Seq(Codes) /\ (hardwareOffline => InFlight = <<>> /\ "Keyboard" \notin reporting)
  BY <1>1 DEF CommandInv, Busy
<1>9. PlaceOK(program', at', held', lastRead', commandByte', InFlight')
  BY <1>1, <1>2, <1>3, <1>7, <1>8, PlaceIs
<1>10. hardwareOffline' => \E j \in at'..Len(program') : program'[j].do = "unblock"
  BY <1>1, <1>4
<1>11. ASSUME Silent(program', at') PROVE "Keyboard" \notin reporting' /\ Hushed(program', at', InFlight')
  <2>1. hardwareOffline
    BY <1>1, <1>11, SilentAtStart
  <2>2. InFlight' = <<>> /\ "Keyboard" \notin reporting'
    BY <1>1, <1>2, <1>8, <2>1
  <2>3. NoCode(InFlight')
    BY <2>2 DEF NoCode
  <2>4. p[1].do # "compare"
    BY <1>7 DEF Elsewhere
  <2> QED  BY <1>1, <2>2, <2>3, <2>4 DEF Hushed
<1>12. unsent'["Keyboard"] \in Seq(Codes)
  BY <1>1 DEF CommandInv
<1> QED  BY <1>1, <1>9, <1>10, <1>11, <1>12 DEF CommandInv, Busy

\* The last set of a program's place: nothing of a silent keyboard is under way.
LEMMA HushedElsewhere ==
  ASSUME NEW p, NEW k, NEW w, ~(p[k].do = "compare" /\ p[k].stream = "Keyboard")
  PROVE  Hushed(p, k, w) <=> NoCode(w)
  BY DEF Hushed

\* What an access that does not read puts on its way, and where the program is then.
LEMMA AccessCommand ==
  ASSUME SetPrograms, TypeInv, OneKey, CodesDiffer, CommandInv, PolledEmpty', access
  PROVE  CommandInv' /\ (Now.do = "set" => lastRead = commandByte)
<1>1. /\ pc = "between" /\ GoTo(at + 1) /\ unsent' = unsent /\ held' = held /\ lastRead' = lastRead
      /\ Now.do \in {"send", "get", "set", "freeze", "unblock", "uninstall", "install"}
  BY DEF access, AtAccess
<1>2. /\ program \in Programs /\ at \in 1..Len(program) /\ Now = program[at] /\ Now \in Access
      /\ at \in Nat \ {0} /\ Len(program) \in Nat
  BY <1>1, AtNow
<1>3. Busy
  BY <1>1 DEF Busy
<1>4. InFlight \in Seq(Byte) /\ commandByte \in Byte
  BY InFlightTyped
<1>5. /\ PlaceOK(program, at, held, lastRead, commandByte, InFlight) /\ Single(InFlight)
      /\ Silent(program, at) => "Keyboard" \notin reporting /\ Hushed(program, at, InFlight)
  BY <1>3 DEF CommandInv, OneKey
<1>6. Silent(program, at) => NoCode(InFlight)
  BY <1>1, <1>2, <1>5, HushedElsewhere
<1>7. /\ Silent(program, at + 1) /\ ~Tells(program[at], FALSE) => Silent(program, at)
      /\ Tells(program[at], TRUE) => ~Silent(program, at + 1)
  BY <1>2, SilenceLasts
<1>8. /\ Now.do = "send" /\ Now.stream = "Keyboard" => InFlight' = Append(InFlight, Acknowledge)
      /\ Now.do = "get" => InFlight' = Append(InFlight, commandByte)
      /\ Now.do # "get" /\ ~(Now.do = "send" /\ Now.stream = "Keyboard") => InFlight' = InFlight
  BY AccessFlow
<1>9. CASE Now.do = "send" /\ Now.stream = "Keyboard"
  <2>1. /\ at < Len(program) /\ program[at + 1].do = "compare" /\ program[at + 1].stream = "Keyboard"
    BY <1>2, <1>9, ProgramAt
  <2>2. hardwareOffline' = hardwareOffline
    BY <1>9 DEF access
  <2>3. InFlight' = Append(InFlight, Acknowledge)
    BY <1>8, <1>9
  <2>4. held = <<>> /\ InFlight \in Seq(Codes)
    <3>1. Elsewhere(program, at)
      BY <1>2, <1>9 DEF Elsewhere
    <3> QED  BY <1>5, <3>1, PlaceIs
  <2>5. AtCompare(held', InFlight')
    <3>1. Around(InFlight', Acknowledge)
      BY <1>5, <2>3, <2>4, AroundComes, AcknowledgeByte
    <3> QED  BY <1>1, <2>4, <3>1 DEF AtCompare
  <2>6. PlaceOK(program, at + 1, held', lastRead', commandByte', InFlight')
    BY <2>1, <2>5, PlaceIs
  <2>7. Hushed(program, at + 1, InFlight')
    <3>1. PICK w : w = InFlight'
      OBVIOUS
    <3>2. w # <<>> /\ w[Len(w)] = Acknowledge
      <4>1. /\ w \in Seq(Byte) /\ Len(w) = Len(InFlight) + 1 /\ w[Len(InFlight) + 1] = Acknowledge
            /\ Len(InFlight) \in Nat
        BY <1>4, <2>3, <3>1, AppendProperties, LenProperties, AcknowledgeByte
      <4>2. Len(w) # 0
        BY <4>1
      <4> QED  BY <4>1, <4>2, EmptySeq
    <3>3. Acknowledge \notin Codes
      BY DEF CodesDiffer
    <3> QED  BY <2>1, <3>1, <3>2, <3>3 DEF Hushed
  <2>8. ASSUME Silent(program, at + 1) PROVE "Keyboard" \notin reporting'
    <3>1. Now.reports \in BOOLEAN /\ ~Tells(program[at], TRUE)
      BY <1>2, <1>7, <2>8 DEF Access
    <3>2. ~Now.reports
      BY <1>2, <1>9, <3>1 DEF Tells
    <3> QED  BY <1>9, <3>2 DEF access
  <2>9. CommandInv'
    BY <1>1, <1>9, <2>1, <2>2, <2>6, <2>7, <2>8, CommandGoesOn
  <2> QED  BY <1>9, <2>9
<1>10. CASE Now.do = "send" /\ Now.stream # "Keyboard"
  <2>1. /\ at < Len(program) /\ program[at + 1].do = "compare" /\ program[at + 1].stream # "Keyboard"
    BY <1>2, <1>10, ProgramAt
  <2>2. /\ hardwareOffline' = hardwareOffline
        /\ "Keyboard" \in reporting' <=> "Keyboard" \in reporting
    BY <1>2, <1>10 DEF access
  <2>3. InFlight' = InFlight
    BY <1>8, <1>10
  <2>4. InFlight \in Seq(Codes)
    <3>1. Elsewhere(program, at)
      BY <1>2, <1>10 DEF Elsewhere
    <3> QED  BY <1>5, <3>1, PlaceIs
  <2>5. PlaceOK(program, at + 1, held', lastRead', commandByte', InFlight')
    BY <2>1, <2>3, <2>4, PlaceIs
  <2>6. ASSUME Silent(program, at + 1)
        PROVE  "Keyboard" \notin reporting' /\ Hushed(program, at + 1, InFlight')
    <3>1. Silent(program, at)
      BY <1>2, <1>7, <1>10, <2>6 DEF Tells
    <3> QED  BY <1>5, <1>6, <2>1, <2>2, <2>3, <3>1, HushedElsewhere
  <2>7. CommandInv'
    BY <1>1, <1>10, <2>1, <2>2, <2>5, <2>6, CommandGoesOn
  <2> QED  BY <1>10, <2>7
<1>11. CASE Now.do = "get"
  <2>1. at < Len(program) /\ program[at + 1].do \in {"read", "test"}
    BY <1>2, <1>11, ProgramAt
  <2>2. /\ hardwareOffline' = hardwareOffline /\ reporting' = reporting /\ commandByte' = commandByte
    BY <1>11 DEF access
  <2>3. InFlight' = Append(InFlight, commandByte)
    BY <1>8, <1>11
  <2>4. PlaceOK(program, at + 1, held', lastRead', commandByte', InFlight')
    <3>1. CASE program[at + 1].do = "test"
      <4>1. BeforeTest(program, at)
        BY <2>1, <3>1 DEF BeforeTest
      <4>2. held = <<>> /\ AtGet(lastRead, commandByte, InFlight)
        BY <1>2, <1>5, <1>11, <4>1, PlaceIs
      <4>3. ASSUME InFlight \in Seq(Codes) PROVE Around(InFlight', commandByte)
        BY <1>4, <1>5, <2>3, <4>3, AroundComes
      <4>4. ASSUME InFlight = <<commandByte>> PROVE InFlight' = <<commandByte, commandByte>>
        <5>1. Append(<<commandByte>>, commandByte) = <<commandByte, commandByte>>
          BY <1>4, ShortSeqs
        <5> QED  BY <2>3, <4>4, <5>1
      <4>5. AtTest(held, lastRead, commandByte, InFlight')
        BY <4>2, <4>3, <4>4 DEF AtTest, AtGet
      <4> QED  BY <1>1, <2>2, <3>1, <4>5, PlaceIs
    <3>2. CASE program[at + 1].do = "read"
      <4>1. Elsewhere(program, at)
        BY <1>2, <1>11, <3>2 DEF Elsewhere, BeforeTest
      <4>2. held = <<>> /\ InFlight \in Seq(Codes)
        BY <1>5, <4>1, PlaceIs
      <4>3. Around(InFlight', commandByte)
        BY <1>4, <1>5, <2>3, <4>2, AroundComes
      <4> QED  BY <1>1, <2>2, <3>2, <4>2, <4>3, PlaceIs
    <3> QED  BY <2>1, <3>1, <3>2
  <2>5. ASSUME Silent(program, at + 1)
        PROVE  "Keyboard" \notin reporting' /\ Hushed(program, at + 1, InFlight')
    <3>1. Silent(program, at)
      BY <1>2, <1>7, <1>11, <2>5 DEF Tells
    <3>2. NoCode(InFlight) /\ commandByte \notin Codes
      BY <1>6, <3>1 DEF CodesDiffer
    <3>3. NoCode(InFlight')
      BY <1>4, <2>3, <3>2, NoCodeAppend
    <3> QED  BY <1>5, <2>1, <2>2, <3>1, <3>3, HushedElsewhere
  <2>6. CommandInv'
    BY <1>1, <1>11, <2>1, <2>2, <2>4, <2>5, CommandGoesOn
  <2> QED  BY <1>11, <2>6
<1>12. CASE Now.do \in {"set", "freeze", "unblock", "uninstall", "install"}
  <2>1. reporting' = reporting
    BY <1>12 DEF access
  <2>2. InFlight' = InFlight
    BY <1>8, <1>12
  <2>3. held = <<>> /\ InFlight \in Seq(Codes) /\ (Now.do = "set" => lastRead = commandByte)
    <3>1. CASE Now.do = "set"
      BY <1>2, <1>5, <3>1, PlaceIs
    <3>2. CASE Now.do # "set"
      <4>1. Elsewhere(program, at)
        BY <1>2, <1>12, <3>2 DEF Elsewhere
      <4> QED  BY <1>5, <3>2, <4>1, PlaceIs
    <3> QED  BY <3>1, <3>2
  <2>4. CASE Now.do = "freeze"
    <3>1. at = Len(program) /\ Silent(program, at)
      BY <1>2, <2>4, ProgramAt
    <3>2. InFlight = <<>> /\ "Keyboard" \notin reporting
      BY <1>5, <1>6, <2>3, <3>1, NoCodeEmpty
    <3>3. pc' = "idle"
      <4>1. at + 1 > Len(program)
        BY <1>2, <3>1
      <4> QED  BY <1>1, <4>1 DEF GoTo
    <3>4. unsent'["Keyboard"] \in Seq(Codes)
      BY <1>1 DEF CommandInv
    <3> QED  BY <2>1, <2>2, <2>3, <2>4, <3>2, <3>3, <3>4 DEF CommandInv, Busy
  <2>5. CASE Now.do # "freeze"
    <3>1. hardwareOffline' => hardwareOffline /\ Now.do # "unblock"
      BY <1>12, <2>5 DEF access
    <3>2. ASSUME at < Len(program) PROVE Elsewhere(program, at + 1)
      <4>1. Begins(program, at + 1)
        BY <1>2, <1>12, <3>2, ProgramAt
      <4> QED  BY <4>1, BeginsPlace
    <3>3. at < Len(program) => PlaceOK(program, at + 1, held', lastRead', commandByte', InFlight')
      BY <1>1, <2>2, <2>3, <3>2, PlaceIs
    <3>4. ASSUME at < Len(program), Silent(program, at + 1)
          PROVE  "Keyboard" \notin reporting' /\ Hushed(program, at + 1, InFlight')
      <4>1. Silent(program, at)
        BY <1>2, <1>7, <1>12, <3>4 DEF Tells
      <4>2. program[at + 1].do # "compare"
        BY <3>2, <3>4 DEF Elsewhere
      <4> QED  BY <1>5, <1>6, <2>1, <2>2, <4>1, <4>2, HushedElsewhere
    <3>5. InFlight' \in Seq(Codes)
      BY <2>2, <2>3
    <3>6. CommandInv'
      BY <1>1, <3>1, <3>3, <3>4, <3>5, CommandGoesOn
    <3> QED  BY <2>3, <3>6
  <2> QED  BY <2>4, <2>5
<1> QED  BY <1>1, <1>9, <1>10, <1>11, <1>12

\* The byte is held.
LEMMA CommandHolds ==
  ASSUME TypeInv, CommandInv, PolledEmpty', pc \in {"between", "await"}, pc' = "between",
         program' = program, at' = at, lastRead' = lastRead, commandByte' = commandByte,
         hardwareOffline' = hardwareOffline, reporting' = reporting, unsent' = unsent,
         PlaceOK(program, at, held', lastRead, commandByte, InFlight'),
         Silent(program, at) => Hushed(program, at, InFlight')
  PROVE  CommandInv'
<1>1. /\ unsent["Keyboard"] \in Seq(Codes)
      /\ hardwareOffline => \E j \in at..Len(program) : program[j].do = "unblock"
      /\ Silent(program, at) => "Keyboard" \notin reporting
  BY DEF CommandInv, Busy
<1> QED  BY <1>1 DEF CommandInv, Busy

\* readDataPort of the keyboard stream takes the next byte that is under way.
LEMMA ReceiveCommand ==
  ASSUME SetPrograms, TypeInv, CodesDiffer, CommandInv, PolledEmpty', pc \in {"between", "await"},
         Now.do \in Reading, Now.stream = "Keyboard", InFlight # <<>>, receiveByte(Head(InFlight)),
         InFlight' = Tail(InFlight), commandByte' = commandByte, hardwareOffline' = hardwareOffline,
         reporting' = reporting, unsent' = unsent
  PROVE  CommandInv'
<1>1. /\ program \in Programs /\ at \in 1..Len(program) /\ Now = program[at] /\ Now \in Access
      /\ at \in Nat \ {0} /\ Len(program) \in Nat
      /\ Now.do = "test" => at - 3 \in 1..Len(program)
  BY AtNow
<1>2. InFlight \in Seq(Byte) /\ commandByte \in Byte
  BY InFlightTyped
<1>3. /\ PlaceOK(program, at, held, lastRead, commandByte, InFlight)
      /\ Silent(program, at) => "Keyboard" \notin reporting /\ Hushed(program, at, InFlight)
      /\ hardwareOffline => \E j \in at..Len(program) : program[j].do = "unblock"
      /\ unsent["Keyboard"] \in Seq(Codes)
  BY DEF CommandInv, Busy
<1>4. Silent(program, at + 1) => Silent(program, at)
  <2>1. ~Tells(program[at], FALSE)
    BY <1>1 DEF Tells, Reading
  <2> QED  BY <1>1, <2>1, SilenceLasts
<1>5. Acknowledge \notin Codes /\ commandByte \notin Codes
  BY DEF CodesDiffer
<1>6. Now.do # "unblock"
  BY DEF Reading
<1>7. PICK b : b = Head(InFlight)
  OBVIOUS
<1>8. /\ Now.do = "read" \/ b = Expected => returnByte(b)
      /\ Now.do # "read" /\ b # Expected /\ held = <<>> =>
           /\ held' = <<b>> /\ pc' = "between" /\ lastRead' = lastRead
           /\ program' = program /\ at' = at
      /\ Now.do # "read" /\ b # Expected /\ held # <<>> => returnByte(held[1])
  BY <1>7 DEF receiveByte
<1>9. CASE Now.do = "compare"
  <2>1. AtCompare(held, InFlight) /\ Expected = Acknowledge
    BY <1>1, <1>3, <1>9, PlaceIs DEF Expected
  <2>2. CASE /\ b = Acknowledge /\ Tail(InFlight) \in Seq(Codes)
             /\ InFlight[Len(InFlight)] \notin Codes => Tail(InFlight) = <<>>
    <3>1. held' = <<>> /\ lastRead' = lastRead /\ GoTo(at + 1)
      BY <1>8, <1>9, <2>1, <2>2 DEF returnByte
    <3>2. ASSUME at < Len(program) PROVE Elsewhere(program, at + 1)
      <4>1. Begins(program, at + 1)
        BY <1>1, <1>9, <3>2, ProgramAt
      <4> QED  BY <4>1, BeginsPlace
    <3>3. at < Len(program) => PlaceOK(program, at + 1, held', lastRead', commandByte', InFlight')
      BY <2>2, <3>1, <3>2, PlaceIs
    <3>4. ASSUME at < Len(program), Silent(program, at + 1)
          PROVE  "Keyboard" \notin reporting' /\ Hushed(program, at + 1, InFlight')
      <4>1. Silent(program, at)
        BY <1>4, <3>4
      <4>2. InFlight[Len(InFlight)] \notin Codes
        BY <1>1, <1>3, <1>9, <4>1 DEF Hushed
      <4>3. NoCode(InFlight')
        <5>1. InFlight' = <<>>
          BY <2>2, <4>2
        <5> QED  BY <5>1, NoCodeNone
      <4>4. program[at + 1].do # "compare"
        BY <3>2, <3>4 DEF Elsewhere
      <4> QED  BY <1>3, <4>1, <4>3, <4>4, HushedElsewhere
    <3> QED  BY <1>6, <2>2, <3>1, <3>3, <3>4, CommandGoesOn
  <2>3. CASE b \in Codes /\ held = <<>> /\ Tail(InFlight) = <<Acknowledge>> /\ AtCompare(<<b>>, Tail(InFlight))
    <3>1. /\ held' = <<b>> /\ pc' = "between" /\ lastRead' = lastRead
          /\ program' = program /\ at' = at
      <4>1. b # Expected /\ Now.do # "read"
        BY <1>5, <1>9, <2>1, <2>3
      <4> QED  BY <1>8, <2>3, <4>1
    <3>2. PlaceOK(program, at, held', lastRead, commandByte, InFlight')
      BY <1>1, <1>9, <2>3, <3>1, PlaceIs
    <3>3. Hushed(program, at, InFlight')
      <4>1. <<Acknowledge>> # <<>> /\ Len(<<Acknowledge>>) = 1 /\ <<Acknowledge>>[1] = Acknowledge
        BY AcknowledgeByte, ShortSeqs
      <4>2. InFlight' # <<>> /\ InFlight'[Len(InFlight')] = Acknowledge
        BY <2>3, <4>1
      <4> QED  BY <1>1, <1>5, <1>9, <4>2 DEF Hushed
    <3> QED  BY <3>1, <3>2, <3>3, CommandHolds
  <2>4. PICK w, h : w = InFlight /\ h = held
    OBVIOUS
  <2>5. \/ /\ Head(w) = Acknowledge /\ Tail(w) \in Seq(Codes)
           /\ w[Len(w)] \notin Codes => Tail(w) = <<>>
        \/ /\ Head(w) \in Codes /\ h = <<>> /\ Tail(w) = <<Acknowledge>>
           /\ AtCompare(<<Head(w)>>, Tail(w))
    <3>1. AtCompare(h, w)
      BY <2>1, <2>4
    <3> QED  BY <1>5, <3>1, CompareTakes
  <2>6. w = InFlight /\ h = held /\ b = Head(w)
    BY <1>7, <2>4
  <2> QED  BY <2>2, <2>3, <2>5, <2>6, Zenon
<1>10. Now.do # "compare" /\ Silent(program, at) => NoCode(InFlight)
  BY <1>1, <1>3, HushedElsewhere
<1>11. NoCode(InFlight) => NoCode(InFlight') /\ b \notin Codes
  BY <1>2, <1>7, NoCodeTail
<1>12. CASE Now.do = "read"
  <2>1. held = <<>> /\ Around(InFlight, commandByte)
    BY <1>1, <1>3, <1>12, PlaceIs
  <2>2. \/ b = commandByte /\ Tail(InFlight) \in Seq(Codes)
        \/ b \in Codes /\ Tail(InFlight) = <<commandByte>>
    BY <1>2, <1>7, <2>1, AroundTaken
  <2>3. held' = <<>> /\ lastRead' = b /\ GoTo(at + 1)
    BY <1>8, <1>12 DEF returnByte
  <2>4. /\ at < Len(program) /\ program[at + 1].do # "compare"
        /\ PlaceOK(program, at + 1, held', lastRead', commandByte', InFlight')
    <3>1. CASE BeforeSet(program, at) /\ Silent(program, at)
      <4>1. at < Len(program) /\ program[at + 1].do = "set"
        BY <3>1 DEF BeforeSet
      <4>2. b = commandByte /\ Tail(InFlight) \in Seq(Codes)
        BY <1>10, <1>11, <1>12, <2>2, <3>1
      <4> QED  BY <2>3, <4>1, <4>2, PlaceIs
    <3>2. CASE at < Len(program) /\ program[at + 1].do = "get" /\ BeforeTest(program, at + 1)
      <4>1. AtGet(lastRead', commandByte', InFlight')
        BY <2>2, <2>3 DEF AtGet
      <4> QED  BY <2>3, <3>2, <4>1, PlaceIs
    <3> QED  BY <1>1, <1>12, <3>1, <3>2, ProgramAt
  <2>5. ASSUME Silent(program, at + 1)
        PROVE  "Keyboard" \notin reporting' /\ Hushed(program, at + 1, InFlight')
    <3>1. Silent(program, at) /\ NoCode(InFlight')
      BY <1>4, <1>10, <1>11, <1>12, <2>5
    <3> QED  BY <1>3, <2>4, <3>1, HushedElsewhere
  <2>6. at # Len(program)
    BY <1>1, <2>4
  <2> QED  BY <1>6, <2>3, <2>4, <2>5, <2>6, CommandGoesOn
<1>13. CASE Now.do = "test"
  <2>1. AtTest(held, lastRead, commandByte, InFlight) /\ Expected = lastRead
    BY <1>1, <1>3, <1>13, PlaceIs DEF Expected
  <2>2. CASE b = lastRead /\ lastRead = commandByte /\ Tail(InFlight) \in Seq(Codes)
    <3>1. held' = <<>> /\ lastRead' = lastRead /\ GoTo(at + 1)
      BY <1>8, <1>13, <2>1, <2>2 DEF returnByte
    <3>2. at < Len(program) /\ program[at + 1].do = "set"
      BY <1>1, <1>13, ProgramAt DEF BeforeSet
    <3>3. PlaceOK(program, at + 1, held', lastRead', commandByte', InFlight')
      BY <2>2, <3>1, <3>2, PlaceIs
    <3>4. ASSUME Silent(program, at + 1)
          PROVE  "Keyboard" \notin reporting' /\ Hushed(program, at + 1, InFlight')
      <4>1. Silent(program, at) /\ NoCode(InFlight')
        BY <1>4, <1>10, <1>11, <1>13, <3>4
      <4> QED  BY <1>3, <3>2, <4>1, HushedElsewhere
    <3>5. at # Len(program)
      BY <1>1, <3>2
    <3> QED  BY <1>6, <3>1, <3>2, <3>3, <3>4, <3>5, CommandGoesOn
  <2>3. CASE b # lastRead /\ held = <<>> /\ AtTest(<<b>>, lastRead, commandByte, Tail(InFlight))
    <3>1. /\ held' = <<b>> /\ pc' = "between" /\ lastRead' = lastRead
          /\ program' = program /\ at' = at
      BY <1>8, <1>13, <2>1, <2>3
    <3>2. PlaceOK(program, at, held', lastRead, commandByte, InFlight')
      BY <1>1, <1>13, <2>3, <3>1, PlaceIs
    <3>3. Silent(program, at) => Hushed(program, at, InFlight')
      BY <1>1, <1>10, <1>11, <1>13, HushedElsewhere
    <3> QED  BY <3>1, <3>2, <3>3, CommandHolds
  <2>4. CASE b # lastRead /\ held # <<>> /\ held[1] # lastRead /\ Tail(InFlight) = <<>>
    <3>1. returnByte(held[1])
      BY <1>8, <1>13, <2>1, <2>4
    <3>2. held' = <<>> /\ GoTo(at - 3)
      BY <1>13, <2>1, <2>4, <3>1 DEF returnByte
    <3>3. pc' = "between" /\ program' = program /\ at' = at - 3
      <4>1. ~(at - 3 > Len(program))
        BY <1>1, <1>13
      <4> QED  BY <3>2, <4>1 DEF GoTo
    <3>4. program[at - 1].do = "get" /\ program[at - 2].do = "read" /\ program[at - 3].do = "get"
      BY <1>1, <1>13, ProgramAt
    <3>5. Elsewhere(program, at - 3)
      <4>1. (at - 3) + 1 = at - 2
        BY <1>1
      <4>2. ~BeforeTest(program, at - 3)
        BY <3>4, <4>1 DEF BeforeTest
      <4> QED  BY <3>4, <4>2 DEF Elsewhere
    <3>6. InFlight' = <<>> /\ InFlight' \in Seq(Codes) /\ NoCode(InFlight')
      <4>1. <<>> \in Seq(Codes)
        BY EmptySeq
      <4> QED  BY <2>4, <4>1, NoCodeNone
    <3>7. PlaceOK(program', at', held', lastRead', commandByte', InFlight')
      BY <3>2, <3>3, <3>5, <3>6, PlaceIs
    <3>8. hardwareOffline' => \E j \in at'..Len(program') : program'[j].do = "unblock"
      <4>1. SUFFICES ASSUME hardwareOffline PROVE \E j \in at - 3..Len(program) : program[j].do = "unblock"
        BY <3>3
      <4>2. PICK j \in at..Len(program) : program[j].do = "unblock"
        BY <1>3, <4>1
      <4>3. j \in at - 3..Len(program)
        BY <1>1
      <4> QED  BY <4>2, <4>3
    <3>9. ASSUME Silent(program', at') PROVE "Keyboard" \notin reporting' /\ Hushed(program', at', InFlight')
      <4>1. at > 3
        BY <1>1, <1>13
      <4>2. Silent(program, at)
        BY <1>1, <3>3, <3>4, <3>9, <4>1, SilenceKept
      <4> QED  BY <1>3, <3>3, <3>4, <3>6, <4>2, HushedElsewhere
    <3> QED  BY <1>3, <3>3, <3>7, <3>8, <3>9 DEF CommandInv, Busy
  <2>5. PICK w, h, r, c : w = InFlight /\ h = held /\ r = lastRead /\ c = commandByte
    OBVIOUS
  <2>6. \/ Head(w) = r /\ r = c /\ Tail(w) \in Seq(Codes)
        \/ Head(w) # r /\ h = <<>> /\ AtTest(<<Head(w)>>, r, c, Tail(w))
        \/ Head(w) # r /\ h # <<>> /\ h[1] # r /\ Tail(w) = <<>>
    <3>1. AtTest(h, r, c, w) /\ c \in Byte /\ c \notin Codes
      BY <1>2, <1>5, <2>1, <2>5
    <3> QED  BY <3>1, TestTakes
  <2>7. w = InFlight /\ h = held /\ r = lastRead /\ c = commandByte /\ b = Head(w)
    BY <1>7, <2>5
  <2> QED  BY <2>2, <2>3, <2>4, <2>6, <2>7, Zenon
<1> QED  BY <1>9, <1>12, <1>13 DEF Reading

LEMMA ReadCommand ==
  ASSUME SetPrograms, TypeInv, CodesDiffer, CommandInv, PolledEmpty', readDataPort
  PROVE  CommandInv'
<1>1. /\ pc = "between" /\ Now.do \in Reading /\ commandByte' = commandByte
      /\ hardwareOffline' = hardwareOffline /\ reporting' = reporting /\ unsent' = unsent
  BY DEF readDataPort, AtAccess, device
<1>2. CASE /\ Now.stream = "Keyboard" /\ InFlight # <<>> /\ receiveByte(Head(InFlight))
           /\ InFlight' = Tail(InFlight)
  BY <1>1, <1>2, ReceiveCommand
<1>3. CASE /\ InFlight' = InFlight /\ pc' = "await" /\ held' = held /\ lastRead' = lastRead
           /\ program' = program /\ at' = at
  <2>1. Busy' <=> Busy
    BY <1>1, <1>3 DEF Busy
  <2> QED  BY <1>1, <1>3, <2>1, CommandSame
<1> QED  BY <1>2, <1>3, ReadFlow

LEMMA PortCommand ==
  ASSUME SetPrograms, TypeInv, CodesDiffer, CommandInv, PolledEmpty', readOutputBuffer
  PROVE  CommandInv'
<1>1. /\ pc = "await" /\ commandByte' = commandByte /\ hardwareOffline' = hardwareOffline
      /\ reporting' = reporting /\ unsent' = unsent
  BY DEF readOutputBuffer, device
<1>2. /\ program \in Programs /\ at \in 1..Len(program) /\ Now = program[at] /\ Now.stream \in Stream
      /\ Now.do \in Reading /\ at \in Nat \ {0} /\ Len(program) \in Nat
  BY <1>1, AtNow DEF TypeInv, Running
<1>3. /\ PlaceOK(program, at, held, lastRead, commandByte, InFlight) /\ PolledEmpty
      /\ Silent(program, at) => "Keyboard" \notin reporting /\ Hushed(program, at, InFlight)
  BY <1>1 DEF CommandInv, Busy
<1>4. Now.stream # "Keyboard" => Now.do = "compare" /\ InFlight \in Seq(Codes)
  <2>1. Now.stream # "Keyboard" => Now.do = "compare"
    BY <1>2, ProgramAt DEF Reading
  <2> QED  BY <1>2, <1>3, <2>1, PlaceIs
<1>5. CASE /\ Now.stream = "Keyboard" /\ InFlight # <<>> /\ receiveByte(Head(InFlight))
           /\ InFlight' = Tail(InFlight)
  BY <1>1, <1>2, <1>5, ReceiveCommand
<1>6. CASE /\ InFlight' = InFlight
           /\ pc' = "between" /\ held' = held /\ lastRead' = lastRead /\ program' = program /\ at' = at
  <2>1. Busy' <=> Busy
    BY <1>1, <1>6 DEF Busy
  <2> QED  BY <1>1, <1>6, <2>1, CommandSame
<1>7. CASE /\ Now.stream # "Keyboard" /\ Loses(keyboardQueue, answers["Keyboard"], InFlight, InFlight')
           /\ pc' = "between" /\ held' = held /\ lastRead' = lastRead /\ program' = program /\ at' = at
  <2>1. PICK w, v, q, a : w = InFlight /\ v = InFlight' /\ q = keyboardQueue /\ a = answers["Keyboard"]
    OBVIOUS
  <2>2. Loses(q, a, w, v) /\ q \in Seq(Byte) /\ a \in Seq(Byte)
    BY <1>7, <2>1, InFlightTyped
  <2>3. w # <<>> /\ \A C : w \in Seq(C) => v \in Seq(C)
    BY <2>2, LosesByte
  <2>4. InFlight' \in Seq(Codes)
    BY <1>4, <1>7, <2>1, <2>3
  <2>5. PlaceOK(program, at, held', lastRead, commandByte, InFlight')
    BY <1>2, <1>4, <1>7, <2>4, PlaceIs
  <2>6. ~Silent(program, at)
    <3>1. SUFFICES ASSUME Silent(program, at) PROVE FALSE
      OBVIOUS
    <3>2. NoCode(InFlight)
      BY <1>2, <1>3, <1>7, <3>1, HushedElsewhere
    <3>3. InFlight = <<>>
      BY <1>4, <1>7, <3>2, NoCodeEmpty
    <3> QED  BY <2>1, <2>3, <3>3
  <2> QED  BY <1>1, <1>7, <2>5, <2>6, CommandHolds
<1>8. CASE Now.stream # "Keyboard" /\ InFlight' = InFlight /\ receiveByte(InputByte)
  <2>1. receiveByte(InputByte) /\ Now.do = "compare" /\ InFlight' = InFlight /\ InFlight \in Seq(Codes)
    BY <1>4, <1>8
  <2>2. Silent(program, at) => NoCode(InFlight)
    BY <1>2, <1>3, <1>8, HushedElsewhere
  <2>3. ASSUME NEW b, returnByte(b) PROVE CommandInv'
    <3>1. held' = <<>>
      BY <2>3 DEF returnByte
    <3>2. PICK n \in Nat : /\ at < n /\ GoTo(n) /\ n <= Len(program) + 1
                           /\ n <= Len(program) => Begins(program, n)
                           /\ Quiet(program, at, n)
      BY <1>1, <1>8, <2>1, <2>3, MouseGoesOn
    <3>3. ASSUME n <= Len(program) PROVE Elsewhere(program, n)
      <4>1. Begins(program, n)
        BY <3>2, <3>3
      <4> QED  BY <4>1, BeginsPlace
    <3>4. n <= Len(program) => PlaceOK(program, n, held', lastRead', commandByte', InFlight')
      BY <2>1, <3>1, <3>3, PlaceIs
    <3>5. ASSUME n <= Len(program), Silent(program, n)
          PROVE  "Keyboard" \notin reporting' /\ Hushed(program, n, InFlight')
      <4>1. Silent(program, at)
        <5>1. at \in Nat \ {0} /\ at < n /\ Quiet(program, at, n) /\ Silent(program, n)
          BY <1>2, <3>2, <3>5
        <5> QED  BY <5>1, SilenceSkipped
      <4>2. program[n].do # "compare"
        BY <3>3, <3>5 DEF Elsewhere
      <4> QED  BY <1>1, <1>3, <2>1, <2>2, <4>1, <4>2, HushedElsewhere
    <3>6. /\ at < n /\ GoTo(n) /\ n <= Len(program) + 1 /\ Quiet(program, at, n)
          /\ InFlight' \in Seq(Codes) /\ hardwareOffline' = hardwareOffline
          /\ unsent'["Keyboard"] = unsent["Keyboard"] /\ pc \in {"between", "await"}
      BY <1>1, <2>1, <3>2
    <3> QED  BY <3>4, <3>5, <3>6, CommandJumps
  <2>4. CASE pc' = "between" /\ lastRead' = lastRead /\ program' = program /\ at' = at
    <3>1. PlaceOK(program, at, held', lastRead, commandByte, InFlight')
      BY <1>2, <1>8, <2>1, PlaceIs
    <3>2. Silent(program, at) => Hushed(program, at, InFlight')
      BY <1>3, <2>1
    <3> QED  BY <1>1, <2>4, <3>1, <3>2, CommandHolds
  <2> QED  BY <2>1, <2>3, <2>4 DEF receiveByte
<1> QED  BY <1>5, <1>6, <1>7, <1>8, PortFlow, <1>3

LEMMA InitCommand == Init => CommandInv
<1> SUFFICES ASSUME Init PROVE CommandInv
  OBVIOUS
<1>1. /\ pc = "idle" /\ keyboardQueue = <<>> /\ outputBuffer = <<>> /\ answers["Keyboard"] = <<>>
      /\ unsent = Data /\ ~hardwareOffline
  BY DEF Init, Stream
<1>2. ~Busy /\ PolledEmpty
  BY <1>1 DEF Busy, PolledEmpty
<1>3. Data["Keyboard"] \in Seq(Codes)
  <2>1. PICK s : s = Data["Keyboard"]
    OBVIOUS
  <2>2. s \in Seq(Byte) /\ DOMAIN s = 1..Len(s)
    BY <2>1, PortAssumption DEF Stream
  <2>3. \A k \in 1..Len(s) : s[k] \in Codes
    BY <2>1, <2>2 DEF Codes
  <2> QED  BY <2>1, <2>2, <2>3, SeqOfElements
<1>4. InFlight \in Seq(Codes)
  <2>1. InPort("Keyboard") = <<>>
    BY <1>1 DEF InPort, Ready
  <2>2. <<>> \in Seq(Codes)
    BY EmptySeq
  <2>3. Flow(<<>>, <<>>, <<>>) \in Seq(Codes)
    BY <2>2, FlowFacts
  <2> QED  BY <1>1, <2>1, <2>3 DEF InFlight
<1> QED  BY <1>1, <1>2, <1>3, <1>4 DEF CommandInv

LEMMA StepCommand ==
  ASSUME SetPrograms, ~Timeouts, QueueSize >= 2, TypeInv, OneKey, OneKey', CodesDiffer, CommandInv,
         [Next]_vars
  PROVE  CommandInv'
<1>1. PolledEmpty'
  BY StepPolls DEF CommandInv
<1>2. ASSUME NEW s \in Stream, deviceReports(s) \/ loseByte(s) \/ fillOutputBuffer(s) PROVE CommandInv'
  BY <1>1, <1>2, ReportCommand, FillCommand DEF loseByte
<1>3. CASE interruptHandlerKeyboard \/ interruptHandlerMouse
  BY <1>1, <1>3, HandlerCommand
<1>4. ASSUME NEW p \in Programs, beginProgram(p) PROVE CommandInv'
  BY <1>1, <1>4, BeginCommand
<1>5. CASE WorkLoop
  BY <1>1, <1>5, LoopCommand, AccessCommand, ReadCommand, PortCommand DEF WorkLoop, timeOut
<1>6. CASE UNCHANGED vars
  <2>1. InFlight' = InFlight /\ (Busy' <=> Busy)
    BY <1>6 DEF vars, InFlight, InPort, Ready, InputStream, InputByte, Busy
  <2>2. /\ program' = program /\ at' = at /\ held' = held /\ lastRead' = lastRead
        /\ commandByte' = commandByte /\ hardwareOffline' = hardwareOffline
        /\ reporting' = reporting /\ unsent' = unsent
    BY <1>6 DEF vars
  <2> QED  BY <1>1, <2>1, <2>2, CommandSame
<1> QED  BY <1>2, <1>3, <1>4, <1>5, <1>6 DEF Next

\* A test-and-set of the command byte never writes back a value that is out of date, and
\* never one that was not a command byte, whatever the keyboard sends meanwhile, as long
\* as there is no more than one scan code under way when a program runs, scan codes
\* differ from the acknowledge and from the command byte, answers come in time and the
\* queue holds two bytes.
THEOREM CommandByteStaysAtomic ==
  ASSUME SetPrograms, ~Timeouts, QueueSize >= 2
  PROVE  Spec /\ []OneKey /\ []CodesDiffer => CommandByteAtomic
<1>1. TypeInv /\ OneKey /\ OneKey' /\ CodesDiffer /\ CommandInv /\ [Next]_vars => CommandInv'
  BY StepCommand
<1>2. ASSUME TypeInv, OneKey, CodesDiffer, CommandInv, [Next]_vars
      PROVE  [commandByte' # commandByte =>
                commandByte' = Modified(commandByte, Now.setBits, Now.clearBits)]_vars
  <2>1. SUFFICES ASSUME commandByte' # commandByte
                 PROVE  commandByte' = Modified(commandByte, Now.setBits, Now.clearBits)
    OBVIOUS
  <2>2. access
    BY <1>2, <2>1 DEF Next, WorkLoop, deviceReports, loseByte, fillOutputBuffer, interruptHandlerKeyboard,
       interruptHandlerMouse, beginProgram, interruptOccurred, serveInput, readDataPort,
       readOutputBuffer, timeOut, vars
  <2>3. Now.do = "set" /\ commandByte' = Modified(lastRead, Now.setBits, Now.clearBits)
    BY <2>1, <2>2 DEF access
  <2>4. PolledEmpty'
    BY <1>2, StepPolls DEF CommandInv
  <2>5. lastRead = commandByte
    BY <1>2, <2>2, <2>3, <2>4, AccessCommand
  <2> QED  BY <2>3, <2>5
<1> QED  BY <1>1, <1>2, InitCommand, TypeInvHolds, PTL DEF Spec, CommandByteAtomic

-----------------------------------------------------------------------------
(* The command byte and a keyboard that sends one scan code.               *)

KeyLeft == unsent["Keyboard"] # <<>>

\* The scan code is still to come, under way, taken for an answer, or gone.
OneInv ==
  /\ Len(unsent["Keyboard"]) <= 1
  /\ Single(InFlight)
  /\ KeyLeft => NoCode(InFlight)
  /\ Busy /\ Taken(program, at, held, lastRead) => NoCode(InFlight) /\ ~KeyLeft

\* V has the command byte of Init and is closed under the sets of the programs; no scan
\* code is in it, or is an acknowledge.
CommandBytes(V) ==
  /\ 71 \in V /\ V \cap Codes = {} /\ Acknowledge \notin Codes
  /\ \A p \in Programs : \A k \in 1..Len(p) : p[k].do = "set" =>
       \A v \in V : Modified(v, p[k].setBits, p[k].clearBits) \in V

LEMMA SingleTail ==
  ASSUME NEW w \in Seq(Byte), w # <<>>, Single(w)
  PROVE  Single(Tail(w)) /\ (Head(w) \in Codes => NoCode(Tail(w)))
<1>1. PICK v : v = Tail(w)
  OBVIOUS
<1>2. /\ Len(w) \in Nat \ {0} /\ Len(v) = Len(w) - 1 /\ Head(w) = w[1]
      /\ \A k \in 1..Len(v) : v[k] = w[k + 1]
  BY <1>1, HeadTailProperties, EmptySeq
<1>3. 1 \in 1..Len(w) /\ \A k \in 1..Len(v) : k \in Nat \ {0} /\ k + 1 \in 1..Len(w) /\ k + 1 # 1
  BY <1>2
<1>4. ASSUME NEW j \in 1..Len(v), NEW k \in 1..Len(v), v[j] \in Codes, v[k] \in Codes PROVE j = k
  <2>1. w[j + 1] \in Codes /\ w[k + 1] \in Codes /\ j + 1 \in 1..Len(w) /\ k + 1 \in 1..Len(w)
    BY <1>2, <1>3, <1>4
  <2>2. j + 1 = k + 1
    BY <2>1 DEF Single
  <2> QED  BY <1>3, <2>2
<1>5. ASSUME w[1] \in Codes, NEW k \in 1..Len(v), v[k] \in Codes PROVE FALSE
  <2>1. w[k + 1] \in Codes /\ k + 1 \in 1..Len(w) /\ k + 1 # 1
    BY <1>2, <1>3, <1>5
  <2>2. k + 1 = 1
    BY <1>3, <1>5, <2>1 DEF Single
  <2> QED  BY <2>1, <2>2
<1>6. Single(v) /\ (w[1] \in Codes => NoCode(v))
  BY <1>4, <1>5 DEF Single, NoCode
<1> QED  BY <1>1, <1>2, <1>6

LEMMA SingleGrows ==
  ASSUME NEW w \in Seq(Byte), NEW x \in Byte, Single(w), x \in Codes => NoCode(w)
  PROVE  Single(Append(w, x))
<1>1. PICK v : v = Append(w, x)
  OBVIOUS
<1>2. /\ Len(w) \in Nat /\ Len(v) = Len(w) + 1 /\ v[Len(w) + 1] = x
      /\ \A k \in 1..Len(w) : v[k] = w[k]
  BY <1>1, AppendProperties, LenProperties
<1>3. \A k \in 1..Len(v) : k \in 1..Len(w) \/ k = Len(w) + 1
  BY <1>2
<1>4. ASSUME NEW j \in 1..Len(v), NEW k \in 1..Len(v), v[j] \in Codes, v[k] \in Codes PROVE j = k
  <2>1. CASE j \in 1..Len(w) /\ k \in 1..Len(w)
    BY <1>2, <1>4, <2>1 DEF Single
  <2>2. CASE j = Len(w) + 1 /\ k \in 1..Len(w)
    BY <1>2, <1>4, <2>2 DEF NoCode
  <2>3. CASE j \in 1..Len(w) /\ k = Len(w) + 1
    BY <1>2, <1>4, <2>3 DEF NoCode
  <2> QED  BY <1>3, <2>1, <2>2, <2>3
<1>5. Single(v)
  BY <1>4 DEF Single
<1> QED  BY <1>1, <1>5

\* A scan code can be taken for the command byte in a test-and-set only.
LEMMA TakenPlace ==
  ASSUME SetPrograms, NEW p \in Programs, NEW k \in 1..Len(p), NEW r, Taken(p, k, <<>>, r)
  PROVE  r \in Codes /\ (p[k].do = "test" \/ (p[k].do = "get" /\ BeforeTest(p, k)))
<1>1. r \in Codes /\ (p[k].do = "test" \/ BeforeTest(p, k))
  BY DEF Taken
<1>2. ASSUME BeforeTest(p, k) PROVE p[k].do = "get"
  <2>1. k < Len(p) /\ p[k + 1].do = "test"
    BY <1>2 DEF BeforeTest
  <2>2. Len(p) \in Nat
    BY PortAssumption, LenProperties
  <2>3. k + 1 \in 1..Len(p) /\ (k + 1) - 1 = k
    BY <2>1, <2>2
  <2> QED  BY <2>1, <2>3, ProgramAt
<1> QED  BY <1>1, <1>2

LEMMA TakenBefore ==
  ASSUME SetPrograms, NEW p \in Programs, NEW k \in 1..Len(p), NEW r, k < Len(p),
         Taken(p, k + 1, <<>>, r)
  PROVE  r \in Codes /\ (p[k].do = "read" \/ (p[k].do = "get" /\ BeforeTest(p, k)))
<1>1. Len(p) \in Nat
  BY PortAssumption, LenProperties
<1>2. k + 1 \in 1..Len(p) /\ (k + 1) - 1 = k
  BY <1>1
<1>3. r \in Codes /\ (p[k + 1].do = "test" \/ (p[k + 1].do = "get" /\ BeforeTest(p, k + 1)))
  BY <1>2, TakenPlace
<1>4. CASE p[k + 1].do = "test"
  BY <1>2, <1>3, <1>4, ProgramAt DEF BeforeTest
<1>5. CASE BeforeTest(p, k + 1)
  <2>1. k + 1 < Len(p) /\ p[(k + 1) + 1].do = "test"
    BY <1>5 DEF BeforeTest
  <2>2. (k + 1) + 1 \in 1..Len(p) /\ ((k + 1) + 1) - 2 = k
    BY <1>1, <1>2, <2>1
  <2> QED  BY <1>3, <2>1, <2>2, ProgramAt
<1> QED  BY <1>3, <1>4, <1>5

\* Nothing that matters changes.
LEMMA OneSame ==
  ASSUME OneInv, Busy' => Busy, program' = program, at' = at, held' = held, lastRead' = lastRead,
         unsent'["Keyboard"] = unsent["Keyboard"], InFlight' = InFlight
  PROVE  OneInv'
  BY DEF OneInv, KeyLeft

\* readDataPort takes a byte, of either stream.
LEMMA ReceiveOne ==
  ASSUME SetPrograms, TypeInv, OneInv, pc \in {"between", "await"}, Now.do \in Reading, NEW b \in Byte,
         receiveByte(b), unsent' = unsent,
         \/ Now.stream = "Keyboard" /\ InFlight # <<>> /\ b = Head(InFlight) /\ InFlight' = Tail(InFlight)
         \/ Now.stream # "Keyboard" /\ InFlight' = InFlight
  PROVE  OneInv'
<1>1. /\ program \in Programs /\ at \in 1..Len(program) /\ Now = program[at] /\ at \in Nat
      /\ Len(program) \in Nat /\ (Now.do = "test" => at - 3 \in 1..Len(program))
  BY AtNow
<1>2. InFlight \in Seq(Byte) /\ Busy
  BY InFlightTyped DEF Busy
<1>3. /\ Single(InFlight) /\ (KeyLeft => NoCode(InFlight)) /\ Len(unsent["Keyboard"]) <= 1
      /\ Taken(program, at, held, lastRead) => NoCode(InFlight) /\ ~KeyLeft
      /\ KeyLeft' <=> KeyLeft
  BY <1>2 DEF OneInv, KeyLeft
<1>4. /\ Single(InFlight') /\ (NoCode(InFlight) => NoCode(InFlight'))
      /\ Now.stream = "Keyboard" /\ b \in Codes => NoCode(InFlight') /\ ~KeyLeft
  BY <1>2, <1>3, SingleTail, NoCodeTail
<1>5. ASSUME held' = <<b>>, program' = program, at' = at, lastRead' = lastRead,
             Taken(program', at', held', lastRead')
      PROVE  NoCode(InFlight') /\ ~KeyLeft
  <2>1. <<b>>[1] = b
    OBVIOUS
  <2>2. CASE b \in Codes /\ Now.stream = "Keyboard"
    BY <1>4, <2>2
  <2>3. CASE lastRead \in Codes /\ (Now.do = "test" \/ BeforeTest(program, at))
    BY <1>1, <1>3, <1>4, <2>3 DEF Taken
  <2> QED  BY <1>1, <1>5, <2>1, <2>2, <2>3 DEF Taken
<1>6. ASSUME NEW x, returnByte(x), Busy', Taken(program', at', held', lastRead'),
             Now.do = "read" => x = b
      PROVE  NoCode(InFlight') /\ ~KeyLeft
  <2>1. /\ held' = <<>> /\ lastRead' = IF Now.do = "read" THEN x ELSE lastRead
        /\ Now.do = "test" /\ x # Expected => GoTo(at - 3)
        /\ Now.do = "compare" /\ x # Expected => GoTo(at + 1 + Now.left)
        /\ Now.do = "read" \/ x = Expected => GoTo(at + 1)
    BY <1>6 DEF returnByte
  <2>2. CASE Now.do = "test" /\ x # Expected
    <3>1. GoTo(at - 3)
      BY <2>1, <2>2
    <3>2. program' = program /\ at' = at - 3
      BY <1>6, <3>1 DEF GoTo, Busy
    <3>3. Taken(program, at - 3, <<>>, lastRead')
      BY <1>6, <2>1, <3>2
    <3>4. at - 3 \in 1..Len(program) /\ (at - 3) + 1 = at - 2
      BY <1>1, <2>2
    <3>5. program[at - 3].do = "test" \/ BeforeTest(program, at - 3)
      BY <3>3, <3>4, <1>1, TakenPlace
    <3>6. program[at - 3].do = "get" /\ program[at - 2].do = "read"
      BY <1>1, <2>2, ProgramAt
    <3> QED  BY <3>4, <3>5, <3>6 DEF BeforeTest
  <2>3. CASE Now.do = "read" \/ x = Expected
    <3>1. GoTo(at + 1)
      BY <2>1, <2>3
    <3>2. program' = program /\ at' = at + 1 /\ ~(at + 1 > Len(program))
      BY <1>6, <3>1 DEF GoTo, Busy
    <3>3. at < Len(program)
      BY <1>1, <3>2
    <3>4. Taken(program, at + 1, <<>>, lastRead')
      BY <1>6, <2>1, <3>2
    <3>5. lastRead' \in Codes /\ Now.do = "read"
      BY <1>1, <3>3, <3>4, TakenBefore DEF Reading
    <3>6. b \in Codes /\ Now.stream = "Keyboard"
      BY <1>1, <1>6, <2>1, <3>5, ProgramAt
    <3> QED  BY <1>4, <3>6
  <2>4. CASE Now.do = "compare" /\ x # Expected
    <3>1. PICK n : n = at + 1 + Now.left
      OBVIOUS
    <3>2. n \in Nat /\ 1 <= n
      BY <1>1, <3>1, AtNow
    <3>3. program' = program /\ at' = n /\ ~(n > Len(program))
      BY <1>6, <2>1, <2>4, <3>1 DEF GoTo, Busy
    <3>4. n \in 1..Len(program)
      BY <1>1, <3>2, <3>3
    <3>5. Begins(program, n)
      <4>1. Skips(program, at)
        BY <1>1, <2>4, ProgramAt
      <4>2. n <= Len(program)
        BY <3>4
      <4> QED  BY <1>1, <3>1, <4>1, <4>2 DEF Skips
    <3>6. Taken(program, n, <<>>, lastRead')
      BY <1>6, <2>1, <3>3
    <3>7. program[n].do = "test" \/ (program[n].do = "get" /\ BeforeTest(program, n))
      BY <1>1, <3>4, <3>6, TakenPlace
    <3> QED  BY <3>5, <3>7 DEF Begins, BeforeTest
  <2> QED  BY <2>2, <2>3, <2>4 DEF Reading
<1>7. Busy' /\ Taken(program', at', held', lastRead') => NoCode(InFlight') /\ ~KeyLeft
  BY <1>5, <1>6 DEF receiveByte
<1>8. Len(unsent'["Keyboard"]) <= 1
  BY <1>3
<1> QED  BY <1>3, <1>4, <1>7, <1>8 DEF OneInv

\* What the devices, the interrupt handlers and the work loop do outside of programs.
LEMMA ReportOne ==
  ASSUME TypeInv, CommandInv, OneInv, NEW d \in Stream, deviceReports(d)
  PROVE  OneInv'
<1>1. /\ pc' = pc /\ program' = program /\ at' = at /\ held' = held /\ lastRead' = lastRead
  BY DEF deviceReports
<1>2. Busy' <=> Busy
  BY <1>1 DEF Busy
<1>3. InFlight \in Seq(Byte)
  BY InFlightTyped
<1>4. CASE d # "Keyboard"
  BY <1>1, <1>2, <1>4, ReportFlow, OneSame
<1>5. CASE d = "Keyboard"
  <2>1. PICK x, u : x = Head(unsent["Keyboard"]) /\ u = unsent["Keyboard"]
    OBVIOUS
  <2>2. u # <<>> /\ unsent'["Keyboard"] = Tail(u) /\ InFlight' = Append(InFlight, x)
    BY <1>5, <2>1, ReportFlow
  <2>3. u \in Seq(Codes) /\ Len(u) <= 1
    BY <2>1 DEF CommandInv, OneInv
  <2>4. x \in Codes /\ x \in Byte
    <3>1. Head(u) \in Codes
      BY <2>2, <2>3, HeadTailProperties
    <3> QED  BY <2>1, <3>1, CodesAreBytes
  <2>5. Len(unsent'["Keyboard"]) <= 1 /\ ~KeyLeft'
    <3>1. PICK v : v = Tail(u)
      OBVIOUS
    <3>2. v \in Seq(Codes) /\ Len(v) = Len(u) - 1 /\ Len(u) \in Nat \ {0}
      BY <2>2, <2>3, <3>1, HeadTailProperties, EmptySeq
    <3>3. Len(v) = 0
      BY <2>3, <3>2
    <3>4. v = <<>>
      BY <3>2, <3>3, EmptySeq
    <3>5. unsent'["Keyboard"] = v
      BY <2>2, <3>1
    <3>6. ~KeyLeft'
      BY <3>4, <3>5, Zenon DEF KeyLeft
    <3>7. Len(v) <= 1
      BY <3>3
    <3> QED  BY <3>5, <3>6, <3>7, Zenon
  <2>6. KeyLeft
    BY <2>1, <2>2 DEF KeyLeft
  <2>7. Single(InFlight) /\ NoCode(InFlight) /\ ~(Busy /\ Taken(program, at, held, lastRead))
    BY <2>6 DEF OneInv
  <2>8. Single(InFlight')
    BY <1>3, <2>2, <2>4, <2>7, SingleGrows
  <2>9. ~(Busy' /\ Taken(program', at', held', lastRead'))
    BY <1>1, <1>2, <2>7
  <2> QED  BY <2>5, <2>8, <2>9 DEF OneInv
<1> QED  BY <1>4, <1>5

\* The queue always has room.
LEMMA HandlerOne ==
  ASSUME QueueSize >= 2, TypeInv, CommandInv, OneInv, interruptHandlerKeyboard \/ interruptHandlerMouse
  PROVE  OneInv'
<1>1. /\ pc' = pc /\ program' = program /\ at' = at /\ held' = held /\ lastRead' = lastRead
      /\ unsent' = unsent
  BY DEF interruptHandlerKeyboard, interruptHandlerMouse, device
<1>2. /\ keyboardQueue \in Seq(Byte) /\ answers["Keyboard"] \in Seq(Byte) /\ (Busy' <=> Busy)
      /\ commandByte \in Byte
  BY <1>1, InFlightTyped DEF Busy
<1>3. CASE InFlight' = InFlight
  BY <1>1, <1>2, <1>3, OneSame
<1>4. CASE /\ ~(Len(keyboardQueue) < QueueSize)
           /\ Loses(keyboardQueue, answers["Keyboard"], InFlight, InFlight')
  <2>1. PICK w, v : w = InFlight /\ v = InFlight'
    OBVIOUS
  <2>2. w # <<>> /\ w \in Seq(Byte) /\ Len(w) >= Len(keyboardQueue) + 1
    BY <1>2, <1>4, <2>1, LosesByte
  <2>3. Single(w)
    BY <2>1 DEF OneInv
  <2>4. Len(w) <= 2
    <3>1. CASE Busy
      BY <1>2, <2>1, <2>3, <3>1, PlaceShort DEF CommandInv
    <3>2. CASE ~Busy
      <4>1. w \in Seq(Codes)
        BY <2>1, <3>2 DEF CommandInv
      <4>2. PICK x \in Codes : w = <<x>>
        BY <2>2, <2>3, <4>1, SingleCode
      <4>3. Len(w) = 1
        BY <4>2, SeqSingleton
      <4> QED  BY <4>3
    <3> QED  BY <3>1, <3>2
  <2>5. \A k, m, n \in Nat : ~(m < n) /\ n >= 2 /\ k >= m + 1 => ~(k <= 2)
    OBVIOUS
  <2>6. Len(keyboardQueue) \in Nat /\ QueueSize \in Nat /\ Len(w) \in Nat
    BY <1>2, <2>2, LenProperties, PortAssumption
  <2>7. FALSE
    BY <1>4, <2>2, <2>4, <2>5, <2>6, Zenon
  <2> QED  BY <2>7
<1> QED  BY <1>3, <1>4, HandlerFlow

LEMMA LoopOne ==
  ASSUME TypeInv, OneInv, interruptOccurred \/ serveInput
  PROVE  OneInv'
<1>1. unsent' = unsent /\ ~Busy'
  BY DEF interruptOccurred, serveInput, device, Busy
<1>2. Single(InFlight) /\ (KeyLeft => NoCode(InFlight)) /\ Len(unsent["Keyboard"]) <= 1
  BY DEF OneInv
<1>3. (KeyLeft' <=> KeyLeft) /\ Len(unsent'["Keyboard"]) <= 1
  BY <1>1, <1>2 DEF KeyLeft
<1>4. CASE InFlight' = InFlight
  BY <1>1, <1>2, <1>3, <1>4 DEF OneInv
<1>5. CASE InFlight # <<>> /\ InFlight' = Tail(InFlight)
  <2>1. InFlight \in Seq(Byte)
    BY InFlightTyped
  <2>2. Single(InFlight') /\ (KeyLeft => NoCode(InFlight'))
    BY <1>2, <1>5, <2>1, SingleTail, NoCodeTail
  <2> QED  BY <1>1, <1>3, <2>2 DEF OneInv
<1> QED  BY <1>4, <1>5, LoopFlow

LEMMA BeginOne ==
  ASSUME SetPrograms, TypeInv, OneInv, NEW p \in Programs, beginProgram(p)
  PROVE  OneInv'
<1>1. /\ unsent' = unsent /\ held' = held /\ program' = p /\ at' = 1 /\ pc = "idle"
  BY DEF beginProgram, device
<1>2. InFlight' = InFlight
  BY DEF beginProgram, device, InFlight, InPort, Ready, InputStream, InputByte
<1>3. held = <<>>
  BY <1>1 DEF TypeInv, Running
<1>4. p \in Seq(Access) /\ Len(p) \in Nat /\ p # <<>>
  BY PortAssumption, LenProperties
<1>5. 1 \in 1..Len(p)
  BY <1>4, EmptySeq
<1>6. Elsewhere(p, 1)
  BY <1>5, ProgramAt, BeginsPlace
<1>7. ~Taken(p, 1, <<>>, lastRead')
  <2>1. SUFFICES ASSUME Taken(p, 1, <<>>, lastRead') PROVE FALSE
    OBVIOUS
  <2>2. p[1].do = "test" \/ (p[1].do = "get" /\ BeforeTest(p, 1))
    BY <1>5, <2>1, TakenPlace
  <2> QED  BY <1>6, <2>2 DEF Elsewhere
<1>8. ~Taken(program', at', held', lastRead')
  BY <1>1, <1>3, <1>7
<1> QED  BY <1>1, <1>2, <1>8 DEF OneInv, KeyLeft

\* What a program's accesses do.
LEMMA AccessOne ==
  ASSUME SetPrograms, TypeInv, CodesDiffer, CommandInv, OneInv, access
  PROVE  OneInv'
<1>1. /\ pc = "between" /\ GoTo(at + 1) /\ unsent' = unsent /\ held' = held /\ lastRead' = lastRead
      /\ Now.do \in {"send", "get", "set", "freeze", "unblock", "uninstall", "install"}
  BY DEF access, AtAccess
<1>2. /\ program \in Programs /\ at \in 1..Len(program) /\ Now = program[at]
      /\ at \in Nat \ {0} /\ Len(program) \in Nat
  BY <1>1, AtNow
<1>3. Busy
  BY <1>1 DEF Busy
<1>4. InFlight \in Seq(Byte) /\ commandByte \in Byte /\ Acknowledge \in Byte
  BY InFlightTyped, AcknowledgeByte
<1>5. /\ Single(InFlight) /\ (KeyLeft => NoCode(InFlight)) /\ Len(unsent["Keyboard"]) <= 1
      /\ Taken(program, at, held, lastRead) => NoCode(InFlight) /\ ~KeyLeft
  BY <1>3 DEF OneInv
<1>6. Acknowledge \notin Codes /\ commandByte \notin Codes
  BY DEF CodesDiffer
<1>7. Single(InFlight') /\ (NoCode(InFlight) => NoCode(InFlight'))
  <2>1. CASE InFlight' = InFlight
    BY <1>5, <2>1
  <2>2. ASSUME NEW x \in Byte, x \notin Codes, InFlight' = Append(InFlight, x)
        PROVE  Single(InFlight') /\ (NoCode(InFlight) => NoCode(InFlight'))
    BY <1>4, <1>5, <2>2, SingleGrows, NoCodeAppend
  <2> QED  BY <1>4, <1>6, <2>1, <2>2, AccessFlow
<1>8. held = <<>>
  <2>1. /\ PlaceOK(program, at, held, lastRead, commandByte, InFlight)
    BY <1>3 DEF CommandInv
  <2> QED  BY <1>1, <1>2, <2>1 DEF PlaceOK
<1>9. ASSUME Busy', Taken(program', at', held', lastRead') PROVE NoCode(InFlight') /\ ~KeyLeft
  <2>1. program' = program /\ at' = at + 1 /\ ~(at + 1 > Len(program))
    BY <1>1, <1>9 DEF GoTo, Busy
  <2>2. at < Len(program)
    BY <1>2, <2>1
  <2>3. Taken(program, at + 1, <<>>, lastRead)
    BY <1>1, <1>8, <1>9, <2>1
  <2>4. lastRead \in Codes /\ BeforeTest(program, at)
    BY <1>1, <1>2, <2>2, <2>3, TakenBefore
  <2>5. Taken(program, at, held, lastRead)
    BY <2>4 DEF Taken
  <2> QED  BY <1>5, <1>7, <2>5
<1>10. (KeyLeft' <=> KeyLeft) /\ Len(unsent'["Keyboard"]) <= 1
  BY <1>1, <1>5 DEF KeyLeft
<1> QED  BY <1>5, <1>7, <1>9, <1>10 DEF OneInv

LEMMA ReadOne ==
  ASSUME SetPrograms, TypeInv, OneInv, readDataPort
  PROVE  OneInv'
<1>1. pc = "between" /\ Now.do \in Reading /\ unsent' = unsent
  BY DEF readDataPort, AtAccess, device
<1>2. CASE /\ Now.stream = "Keyboard" /\ InFlight # <<>> /\ receiveByte(Head(InFlight))
           /\ InFlight' = Tail(InFlight)
  <2>1. Head(InFlight) \in Byte
    BY <1>2, InFlightTyped, HeadTailProperties
  <2> QED  BY <1>1, <1>2, <2>1, ReceiveOne
<1>3. CASE /\ InFlight' = InFlight /\ held' = held /\ lastRead' = lastRead
           /\ program' = program /\ at' = at
  <2>1. Busy' => Busy
    BY <1>1 DEF Busy
  <2> QED  BY <1>1, <1>3, <2>1, OneSame
<1> QED  BY <1>2, <1>3, ReadFlow

LEMMA PortOne ==
  ASSUME SetPrograms, TypeInv, CommandInv, OneInv, readOutputBuffer
  PROVE  OneInv'
<1>1. pc = "await" /\ unsent' = unsent /\ Ready
  BY DEF readOutputBuffer, device
<1>2. /\ program \in Programs /\ at \in 1..Len(program) /\ Now = program[at] /\ Now.stream \in Stream
      /\ Now.do \in Reading
  BY <1>1, AtNow DEF TypeInv, Running
<1>3. /\ PlaceOK(program, at, held, lastRead, commandByte, InFlight) /\ PolledEmpty /\ Busy
  BY <1>1 DEF CommandInv, Busy
<1>4. Now.stream # "Keyboard" => Now.do = "compare" /\ InFlight \in Seq(Codes)
  <2>1. Now.stream # "Keyboard" => Now.do = "compare"
    BY <1>2, ProgramAt DEF Reading
  <2> QED  BY <1>2, <1>3, <2>1, PlaceIs
<1>5. CASE /\ Now.stream = "Keyboard" /\ InFlight # <<>> /\ receiveByte(Head(InFlight))
           /\ InFlight' = Tail(InFlight)
  <2>1. Head(InFlight) \in Byte
    BY <1>5, InFlightTyped, HeadTailProperties
  <2> QED  BY <1>1, <1>2, <1>5, <2>1, ReceiveOne
<1>6. CASE Now.stream # "Keyboard" /\ InFlight' = InFlight /\ receiveByte(InputByte)
  <2>1. InputByte \in Byte
    BY <1>1, BufferFacts
  <2> QED  BY <1>1, <1>2, <1>6, <2>1, ReceiveOne
<1>7. CASE /\ InFlight' = InFlight
           /\ held' = held /\ lastRead' = lastRead /\ program' = program /\ at' = at
  BY <1>1, <1>3, <1>7, OneSame
<1>8. CASE /\ Now.stream # "Keyboard" /\ Loses(keyboardQueue, answers["Keyboard"], InFlight, InFlight')
           /\ held' = held /\ lastRead' = lastRead /\ program' = program /\ at' = at
  <2>1. PICK w, v, q, a : w = InFlight /\ v = InFlight' /\ q = keyboardQueue /\ a = answers["Keyboard"]
    OBVIOUS
  <2>2. Loses(q, a, w, v) /\ q \in Seq(Byte) /\ a \in Seq(Byte)
    BY <1>8, <2>1, InFlightTyped
  <2>3. w # <<>> /\ (Len(w) = 1 => v = <<>>)
    BY <2>2, LosesByte
  <2>4. w \in Seq(Codes) /\ Single(w) /\ Len(unsent["Keyboard"]) <= 1
    BY <1>4, <1>8, <2>1 DEF OneInv
  <2>5. PICK x \in Codes : w = <<x>>
    BY <2>3, <2>4, SingleCode
  <2>6. Len(w) = 1 /\ w[1] = x
    BY <2>5, SeqSingleton
  <2>7. InFlight' = <<>>
    BY <2>1, <2>3, <2>6
  <2>8. NoCode(InFlight') /\ Single(InFlight')
    BY <2>7, NoCodeNone DEF NoCode, Single
  <2>9. ~NoCode(w)
    <3>1. 1 \in 1..Len(w)
      BY <2>6
    <3> QED  BY <2>6, <3>1 DEF NoCode
  <2>10. ~KeyLeft /\ Len(unsent'["Keyboard"]) <= 1
    BY <1>1, <2>1, <2>4, <2>9 DEF OneInv
  <2>11. ~KeyLeft'
    BY <1>1, <2>10 DEF KeyLeft
  <2> QED  BY <2>8, <2>10, <2>11 DEF OneInv
<1> QED  BY <1>3, <1>5, <1>6, <1>7, <1>8, PortFlow

LEMMA StepOne ==
  ASSUME SetPrograms, ~Timeouts, QueueSize >= 2, TypeInv, CodesDiffer, CommandInv, OneInv, [Next]_vars
  PROVE  OneInv'
<1>1. ASSUME NEW s \in Stream, fillOutputBuffer(s) PROVE OneInv'
  <2>1. /\ pc' = pc /\ program' = program /\ at' = at /\ held' = held /\ lastRead' = lastRead
        /\ unsent' = unsent
    BY <1>1 DEF fillOutputBuffer
  <2>2. InFlight' = InFlight /\ (Busy' => Busy)
    BY <1>1, <2>1, FillFlow DEF Busy
  <2> QED  BY <2>1, <2>2, OneSame
<1>2. ASSUME NEW s \in Stream, deviceReports(s) \/ loseByte(s) \/ fillOutputBuffer(s) PROVE OneInv'
  BY <1>1, <1>2, ReportOne DEF loseByte
<1>3. CASE interruptHandlerKeyboard \/ interruptHandlerMouse
  BY <1>3, HandlerOne
<1>4. ASSUME NEW p \in Programs, beginProgram(p) PROVE OneInv'
  BY <1>4, BeginOne
<1>5. CASE WorkLoop
  BY <1>5, LoopOne, AccessOne, ReadOne, PortOne DEF WorkLoop, timeOut
<1>6. CASE UNCHANGED vars
  <2>1. InFlight' = InFlight /\ (Busy' => Busy)
    BY <1>6 DEF vars, InFlight, InPort, Ready, InputStream, InputByte, Busy
  <2>2. /\ program' = program /\ at' = at /\ held' = held /\ lastRead' = lastRead /\ unsent' = unsent
    BY <1>6 DEF vars
  <2> QED  BY <2>1, <2>2, OneSame
<1> QED  BY <1>2, <1>3, <1>4, <1>5, <1>6 DEF Next

LEMMA InitOne ==
  ASSUME Len(Data["Keyboard"]) <= 1, Init
  PROVE  OneInv
<1>1. /\ pc = "idle" /\ keyboardQueue = <<>> /\ outputBuffer = <<>> /\ answers["Keyboard"] = <<>>
      /\ unsent = Data
  BY DEF Init, Stream
<1>2. InPort("Keyboard") = <<>>
  BY <1>1 DEF InPort, Ready
<1>3. <<>> \o <<>> = <<>>
  OBVIOUS
<1>4. InFlight = <<>>
  BY <1>1, <1>2, <1>3 DEF InFlight, Flow
<1>5. Single(InFlight) /\ NoCode(InFlight) /\ ~Busy
  BY <1>1, <1>4 DEF Single, NoCode, Busy
<1> QED  BY <1>1, <1>5 DEF OneInv

\* The command byte stays one of V.
LEMMA StepInV ==
  ASSUME SetPrograms, TypeInv, OneKey, CodesDiffer, CommandInv, [Next]_vars,
         NEW V, CommandBytes(V), commandByte \in V
  PROVE  commandByte' \in V
<1>1. SUFFICES ASSUME commandByte' # commandByte PROVE commandByte' \in V
  OBVIOUS
<1>2. access
  BY <1>1 DEF Next, WorkLoop, deviceReports, loseByte, fillOutputBuffer, interruptHandlerKeyboard,
     interruptHandlerMouse, beginProgram, interruptOccurred, serveInput, readDataPort,
     readOutputBuffer, timeOut, vars
<1>3. Now.do = "set" /\ commandByte' = Modified(lastRead, Now.setBits, Now.clearBits)
  BY <1>1, <1>2 DEF access
<1>4. lastRead = commandByte
  <2>1. PolledEmpty'
    BY StepPolls DEF CommandInv
  <2> QED  BY <1>2, <1>3, <2>1, AccessCommand
<1>5. program \in Programs /\ at \in 1..Len(program) /\ Now = program[at]
  BY <1>2, AtNow DEF access, AtAccess
<1> QED  BY <1>3, <1>4, <1>5 DEF CommandBytes

\* For a keyboard that sends one scan code while the programs run, nothing has to be
\* assumed of the behaviour: only that no command byte that the programs can make is that
\* scan code, nor is an acknowledge.
THEOREM CommandByteAtomicForOneKey ==
  ASSUME SetPrograms, ~Timeouts, QueueSize >= 2, Len(Data["Keyboard"]) <= 1,
         NEW V, CommandBytes(V)
  PROVE  Spec => CommandByteAtomic
<1> DEFINE Inv == CommandInv /\ OneInv /\ commandByte \in V
<1>1. Init => Inv
  BY InitCommand, InitOne DEF Init, CommandBytes
<1>2. Inv => OneKey /\ CodesDiffer
  BY DEF OneInv, OneKey, CommandBytes, CodesDiffer
<1>3. TypeInv /\ Inv /\ [Next]_vars => Inv'
  <2>1. SUFFICES ASSUME TypeInv, Inv, [Next]_vars PROVE Inv'
    OBVIOUS
  <2>2. OneKey /\ CodesDiffer
    BY <1>2, <2>1
  <2>3. OneInv' /\ commandByte' \in V
    BY <2>1, <2>2, StepOne, StepInV
  <2>4. OneKey'
    BY <2>3 DEF OneInv, OneKey
  <2>5. CommandInv'
    BY <2>1, <2>2, <2>4, StepCommand
  <2> QED  BY <2>3, <2>5
<1>4. Spec => []Inv
  <2> HIDE DEF Inv
  <2> QED  BY <1>1, <1>3, TypeInvHolds, PTL DEF Spec
<1>5. Spec => []OneKey /\ []CodesDiffer
  <2> HIDE DEF Inv
  <2> QED  BY <1>2, <1>4, PTL
<1>6. Spec /\ []OneKey /\ []CodesDiffer => CommandByteAtomic
  BY CommandByteStaysAtomic
<1> QED  BY <1>5, <1>6, PTL
=============================================================================
