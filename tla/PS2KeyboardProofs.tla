------------------------- MODULE PS2KeyboardProofs -------------------------
(***************************************************************************)
(* Proofs about PS2Keyboard, for every subset of the twelve keys that the  *)
(* module knows, every setting and any number of strokes: the type         *)
(* invariant; that doEscape follows the modifier keys; and that no key     *)
(* sticks and every held key is reported, as long as the queue of scan     *)
(* codes has room.                                                         *)
(***************************************************************************)
EXTENDS PS2Keyboard, FiniteSetTheorems, SequenceTheorems, TLAPS

-----------------------------------------------------------------------------
(* The type invariant.                                                     *)

Codebyte == 0..255
Parser == [extendCount : 0..2, keyBitVector : SUBSET (1..127), reported : SUBSET (1..127)]

LEMMA HeadAndTail ==
  ASSUME NEW S, NEW s \in Seq(S), s # <<>>
  PROVE  Head(s) \in S /\ Tail(s) \in Seq(S) /\ Len(Tail(s)) = Len(s) - 1 /\ Len(s) \in Nat
OBVIOUS

\* The scan codes of keys, extended and not: they fit a byte, with the up bit too.
LEMMA KeyCodes ==
  ASSUME NEW k \in DOMAIN KeyCode
  PROVE  \/ \E c \in {29, 30, 56, 58, 83} : KeyCode[k] = Unextended(c)
         \/ \E c \in {52, 56, 83, 92, 93} : KeyCode[k] = Extended(c)
<1>1. KeyCode[k] \in {Unextended(30), Unextended(56), Extended(56), Unextended(29),
                      Unextended(58), Extended(92), Extended(93), Extended(52),
                      Unextended(83), Extended(83)}
  BY DEF KeyCode, kSC_Delete
<1> QED
  BY <1>1

LEMMA CodesTyped ==
  ASSUME NEW k \in DOMAIN KeyCode
  PROVE  /\ KeyCode[k].code \in 1..95
         /\ KeyCode[k].extended \in BOOLEAN
         /\ KeyCode[k].extended => KeyCode[k] = Extended(KeyCode[k].code)
         /\ ~KeyCode[k].extended => KeyCode[k] = Unextended(KeyCode[k].code)
<1>1. CASE \E c \in {29, 30, 56, 58, 83} : KeyCode[k] = Unextended(c)
  <2>1. PICK c \in {29, 30, 56, 58, 83} : KeyCode[k] = Unextended(c)
    BY <1>1
  <2>2. KeyCode[k].code = c /\ KeyCode[k].extended = FALSE
    BY <2>1 DEF Unextended
  <2>3. c \in 1..95
    OBVIOUS
  <2> QED
    BY <2>1, <2>2, <2>3, Zenon
<1>2. CASE \E c \in {52, 56, 83, 92, 93} : KeyCode[k] = Extended(c)
  <2>1. PICK c \in {52, 56, 83, 92, 93} : KeyCode[k] = Extended(c)
    BY <1>2
  <2>2. KeyCode[k].code = c /\ KeyCode[k].extended = TRUE
    BY <2>1 DEF Extended
  <2>3. c \in 1..95
    OBVIOUS
  <2> QED
    BY <2>1, <2>2, <2>3, Zenon
<1> QED
  BY <1>1, <1>2, KeyCodes

LEMMA SequencesTyped ==
  ASSUME NEW k \in DOMAIN KeyCode \cup {"printScreen", "pause"}
  PROVE  /\ Make(k) \in Seq(Codebyte)
         /\ k # "pause" => Break(k) \in Seq(Codebyte)
         /\ CtrlBreak \in Seq(Codebyte)
<1> USE DEF kSC_Extend, kSC_Pause, kSC_UpBit, Codebyte
<1>1. CtrlBreak \in Seq(Codebyte)
  BY DEF CtrlBreak
<1>2. CASE k = "printScreen"
  BY <1>1, <1>2 DEF Make, Break
<1>3. CASE k = "pause"
  BY <1>1, <1>3 DEF Make
<1>4. CASE k \notin {"printScreen", "pause"}
  <2>1. KeyCode[k].code \in Codebyte /\ KeyCode[k].code + kSC_UpBit \in Codebyte
    BY <1>4, CodesTyped
  <2>2. \A c \in Codebyte : <<kSC_Extend, c>> \in Seq(Codebyte) /\ <<c>> \in Seq(Codebyte)
    OBVIOUS
  <2>3. \A c : Sent(k, c) \in {<<kSC_Extend, c>>, <<c>>}
    BY Zenon DEF Sent
  <2> QED
    <3>1. Make(k) = Sent(k, KeyCode[k].code) /\ Break(k) = Sent(k, KeyCode[k].code + kSC_UpBit)
      BY <1>4 DEF Make, Break
    <3>2. Make(k) \in Seq(Codebyte)
      BY <2>1, <2>2, <2>3, <3>1, ZenonT(40)
    <3>3. Break(k) \in Seq(Codebyte)
      BY <2>1, <2>2, <2>3, <3>1, ZenonT(40)
    <3> QED
      BY <1>1, <3>2, <3>3, Zenon
<1> QED
  BY <1>2, <1>3, <1>4

LEMMA KeyEventTyped ==
  ASSUME NEW p \in Parser, NEW c \in 1..127, NEW goingDown
  PROVE  keyEvent(p, c, goingDown) \in Parser
BY ZenonT(40) DEF keyEvent, Parser

LEMMA PlainTyped ==
  ASSUME NEW p \in Parser, NEW code \in Codebyte
  PROVE  plainCode(p, code) \in Parser
<1>1. code % kSC_UpBit \in 0..127
  BY DEF Codebyte, kSC_UpBit
<1>2. code % kSC_UpBit # 0 => plainKeyCode(code % kSC_UpBit) \in 1..127
  BY <1>1 DEF plainKeyCode
<1> QED
  BY <1>2, KeyEventTyped DEF plainCode

LEMMA PrintScreenTyped ==
  ASSUME NEW p \in Parser, NEW up \in {0, 128}
  PROVE  printScreen(p, up) \in Parser
<1> DEFINE q == IF saveSS THEN p ELSE plainCode(p, 29 + up)
           a == plainCode(q, 56 + up)
           b == plainCode(a, 42 + up)
<1>1. {29 + up, 56 + up, 42 + up, 5 + up} \subseteq Codebyte
  BY DEF Codebyte
<1>2. q \in Parser
  BY <1>1, PlainTyped
<1> HIDE DEF q
<1>3. a \in Parser
  BY <1>1, <1>2, PlainTyped
<1> HIDE DEF a
<1>4. b \in Parser
  BY <1>1, <1>3, PlainTyped
<1> HIDE DEF b
<1>5. plainCode(b, 5 + up) \in Parser
  BY <1>1, <1>4, PlainTyped
<1> QED
  BY <1>5 DEF printScreen, q, a, b

LEMMA ExtendedTyped ==
  ASSUME NEW p \in Parser, NEW code \in Codebyte
  PROVE  extendedCode(p, code) \in Parser
<1> DEFINE base == code % kSC_UpBit
           key == (CHOOSE e \in ExtendedKeys : e[1] = base)[2]
           up == IF code < kSC_UpBit THEN 0 ELSE kSC_UpBit
<1>1. \A e \in ExtendedKeys : e[2] \in 1..127
  BY DEF ExtendedKeys
<1>2. (\E e \in ExtendedKeys : e[1] = base) => key \in 1..127
  BY <1>1
<1>3. up \in {0, 128}
  BY DEF kSC_UpBit
<1>4. /\ [p EXCEPT !.reported = @ \cup ejectCodes] \in Parser
      /\ [p EXCEPT !.reported = @ \ ejectCodes] \in Parser
  BY DEF Parser, ejectCodes
<1>5. printScreen(p, up) \in Parser
  BY <1>3, PrintScreenTyped
<1>6. (\E e \in ExtendedKeys : e[1] = base) => keyEvent(p, key, code < kSC_UpBit) \in Parser
  BY <1>2, KeyEventTyped
<1> QED
  BY <1>4, <1>5, <1>6 DEF extendedCode

LEMMA DispatchTyped ==
  ASSUME NEW p \in Parser, NEW code \in Codebyte
  PROVE  dispatchKeyboardEventWithScancode(p, code) \in Parser
<1>1. [p EXCEPT !.extendCount = 0] \in Parser
  BY DEF Parser
<1>2. [p EXCEPT !.extendCount = 1] \in Parser /\ [p EXCEPT !.extendCount = 2] \in Parser
  BY DEF Parser
<1>3. p.extendCount \notin {0, 1} => [p EXCEPT !.extendCount = @ - 1] \in Parser
  BY DEF Parser
<1>4. extendedCode([p EXCEPT !.extendCount = 0], code) \in Parser
  BY <1>1, ExtendedTyped
<1> QED
  BY <1>2, <1>3, <1>4, PlainTyped DEF dispatchKeyboardEventWithScancode

LEMMA EnqueueTyped ==
  ASSUME keyboardQueue \in Seq(Codebyte), NEW codes \in Seq(Codebyte), enqueueKeyboardData(codes)
  PROVE  keyboardQueue' \in Seq(Codebyte) /\ Len(keyboardQueue') <= QueueSize
<1>1. PICK all : all = keyboardQueue \o codes
  OBVIOUS
<1>2. all \in Seq(Codebyte) /\ QueueSize \in Nat
  BY <1>1, KeyboardAssumption
<1>3. keyboardQueue' = SubSeq(all, 1, IF Len(all) < QueueSize THEN Len(all) ELSE QueueSize)
  BY <1>1 DEF enqueueKeyboardData
<1> QED
  BY <1>2, <1>3

LEMMA EscapeTyped ==
  ASSUME TypeOK, NEW code, doEscape(code)
  PROVE  extendedState' \in BOOLEAN /\ modifierState' \subseteq Modifiers
<1>1. extendedState \in BOOLEAN /\ modifierState \subseteq Modifiers
  BY DEF TypeOK
<1>2. extendedState' \in BOOLEAN
  BY Zenon DEF doEscape
<1>3. modifierState' \subseteq Modifiers
  BY <1>1 DEF doEscape, IsModifier
<1> QED
  BY <1>2, <1>3

TypeInv == TypeOK /\ "pause" \notin down

LEMMA StepTyped == TypeInv /\ [Next]_vars => TypeInv'
<1> SUFFICES ASSUME TypeInv, [Next]_vars PROVE TypeInv'
  OBVIOUS
<1> USE DEF TypeInv, TypeOK
<1>1. CASE \E k \in Keys : press(k) \/ repeat(k) \/ release(k)
  <2>1. PICK k \in Keys : press(k) \/ repeat(k) \/ release(k)
    BY <1>1
  <2>2. k \in DOMAIN KeyCode \cup {"printScreen", "pause"}
    BY KeyboardAssumption
  <2>3. wire' \in Seq(0..255)
    <3>1. wire' \in {Make(k), CtrlBreak} \/ (k # "pause" /\ wire' = Break(k))
      BY <2>1 DEF press, repeat, release
    <3> QED
      BY <2>2, <3>1, SequencesTyped DEF Codebyte
  <2>4. down' \subseteq Keys /\ "pause" \notin down' /\ last' \in Keys \cup {"none"}
    BY <2>1 DEF press, repeat, release
  <2>5. strokes' \in 0..MaxStrokes
    BY <2>1, KeyboardAssumption DEF press, repeat, release
  <2>6. UNCHANGED <<extendedState, modifierState, keyboardQueue, driver>>
    BY <2>1 DEF press, repeat, release
  <2> QED
    BY <2>3, <2>4, <2>5, <2>6 DEF driver
<1>2. CASE interruptHandlerKeyboard
  <2>1. Head(wire) \in Codebyte /\ wire' \in Seq(0..255)
    BY <1>2, HeadAndTail DEF interruptHandlerKeyboard, Codebyte
  <2>2. keyboardQueue' \in Seq(Codebyte) /\ Len(keyboardQueue') <= QueueSize
    <3>1. <<Head(wire)>> \in Seq(Codebyte) /\ enqueueKeyboardData(<<Head(wire)>>)
      BY <1>2, <2>1 DEF interruptHandlerKeyboard
    <3> QED
      BY <3>1, EnqueueTyped DEF Codebyte
  <2>3. extendedState' \in BOOLEAN /\ modifierState' \subseteq Modifiers
    BY <1>2, EscapeTyped DEF interruptHandlerKeyboard
  <2> QED
    BY <1>2, <2>1, <2>2, <2>3 DEF interruptHandlerKeyboard, keyboard, driver, Codebyte
<1>3. CASE callDebugger
  <2>1. keyboardQueue' \in Seq(Codebyte) /\ Len(keyboardQueue') <= QueueSize
    <3>1. <<56 + kSC_UpBit, kSC_Extend, 56 + kSC_UpBit>> \in Seq(Codebyte)
      BY DEF kSC_UpBit, kSC_Extend, Codebyte
    <3>2. enqueueKeyboardData(<<56 + kSC_UpBit, kSC_Extend, 56 + kSC_UpBit>>)
      BY <1>3 DEF callDebugger
    <3> QED
      BY <3>1, <3>2, EnqueueTyped DEF Codebyte
  <2>2. wire' \in Seq(0..255) /\ down' \subseteq Keys /\ "pause" \notin down'
    BY <1>3 DEF callDebugger
  <2>3. extendedState' \in BOOLEAN /\ modifierState' \subseteq Modifiers
    BY <1>3, Zenon DEF callDebugger
  <2> QED
    BY <1>3, <2>1, <2>2, <2>3 DEF callDebugger, driver, Codebyte
<1>4. CASE interruptOccurred
  <2> DEFINE p == [extendCount |-> extendCount, keyBitVector |-> keyBitVector,
                   reported |-> reported]
             q == dispatchKeyboardEventWithScancode(p, Head(keyboardQueue))
  <2>1. Head(keyboardQueue) \in Codebyte /\ keyboardQueue' \in Seq(0..255)
        /\ Len(keyboardQueue') <= QueueSize
    BY <1>4, KeyboardAssumption, HeadAndTail DEF interruptOccurred, Codebyte
  <2>2. p \in Parser
    BY DEF Parser
  <2>3. q \in Parser
    BY <2>1, <2>2, DispatchTyped
  <2>4. extendCount' = q.extendCount /\ keyBitVector' = q.keyBitVector /\ reported' = q.reported
    BY <1>4 DEF interruptOccurred
  <2> HIDE DEF q
  <2>5. extendCount' \in 0..2 /\ keyBitVector' \subseteq 1..127 /\ reported' \subseteq 1..127
    BY <2>3, <2>4 DEF Parser
  <2> QED
    BY <1>4, <2>1, <2>5 DEF interruptOccurred, keyboard
<1>5. CASE UNCHANGED vars
  BY <1>5 DEF vars
<1> QED
  BY <1>1, <1>2, <1>3, <1>4, <1>5 DEF Next

LEMMA InitTyped == Init => TypeInv
<1> SUFFICES ASSUME Init PROVE TypeInv
  OBVIOUS
<1>1. strokes \in 0..MaxStrokes /\ extendCount \in 0..2
  BY KeyboardAssumption DEF Init
<1>2. wire \in Seq(0..255) /\ keyboardQueue \in Seq(0..255) /\ Len(keyboardQueue) <= QueueSize
  BY KeyboardAssumption DEF Init
<1> QED
  BY <1>1, <1>2, Zenon DEF Init, TypeInv, TypeOK

\* The state of the interrupt handler and of the keyboard driver keeps its type: every
\* key code has its bit in _keyBitVector, and _extendCount counts down from two.
THEOREM TypeCorrect == Spec => []TypeOK
<1>1. TypeInv => TypeOK
  BY DEF TypeInv
<1> QED
  BY <1>1, InitTyped, StepTyped, PTL DEF Spec

-----------------------------------------------------------------------------
(* The modifier keys.                                                      *)

\* The modifiers among the keys that are held.
Held == {KeyCode[k] : k \in down \cap DOMAIN KeyCode} \cap Modifiers

\* The last byte of key k is still to come, or both are.
Arriving(k, code) ==
  \/ KeyCode[k].extended /\ ~extendedState /\ wire = <<kSC_Extend, code>>
  \/ extendedState = KeyCode[k].extended /\ wire = <<code>>

\* A key of its own has been pressed, or released, and the handler has not seen it yet.
Pressed(k) ==
  /\ modifierState \cup ({KeyCode[k]} \cap Modifiers) = Held
  /\ Arriving(k, KeyCode[k].code)
Released(k) ==
  /\ modifierState \ {KeyCode[k]} = Held
  /\ Arriving(k, KeyCode[k].code + kSC_UpBit)

\* The sequences of PrintScreen and Break, which hold no modifier.
Sequence(a, b) ==
  /\ modifierState = Held
  /\ \/ ~extendedState /\ wire \in {<<kSC_Extend, a, kSC_Extend, b>>, <<kSC_Extend, b>>}
     \/ extendedState /\ wire \in {<<a, kSC_Extend, b>>, <<b>>}

\* The sequence of Pause presses and releases the left Ctrl key for the handler, which
\* does not know the prefix of Pause.
Pausing ==
  /\ ~extendedState /\ "ctrlLeft" \notin down
  /\ \/ /\ modifierState = Held
        /\ wire \in {<<kSC_Pause, 29, 69, kSC_Pause, 157, 197>>, <<29, 69, kSC_Pause, 157, 197>>,
                     <<197>>}
     \/ /\ modifierState = Held \cup {Unextended(29)}
        /\ wire \in {<<69, kSC_Pause, 157, 197>>, <<kSC_Pause, 157, 197>>, <<157, 197>>}

\* The inductive invariant: what the handler knows of the modifiers, and what the bytes
\* that are on the wire will still tell it.
ChordInv ==
  debuggingEnabled =>
    \/ wire = <<>> /\ ~extendedState /\ modifierState = Held
    \/ \E k \in DOMAIN KeyCode : Pressed(k) \/ Released(k)
    \/ Sequence(42, 55) \/ Sequence(183, 170) \/ Sequence(70, 198)
    \/ Pausing

\* No two keys have the same scan code.
LEMMA CodesDiffer == \A j, k \in DOMAIN KeyCode : KeyCode[j] = KeyCode[k] => j = k
BY DEF KeyCode, Unextended, Extended, kSC_Delete

LEMMA CtrlAlone ==
  /\ "ctrlLeft" \in DOMAIN KeyCode /\ KeyCode["ctrlLeft"] = Unextended(29)
  /\ "pause" \notin DOMAIN KeyCode /\ "printScreen" \notin DOMAIN KeyCode
  /\ \A k \in DOMAIN KeyCode : KeyCode[k] = Unextended(29) => k = "ctrlLeft"
<1>1. "ctrlLeft" \in DOMAIN KeyCode /\ KeyCode["ctrlLeft"] = Unextended(29)
  BY DEF KeyCode
<1>2. "pause" \notin DOMAIN KeyCode /\ "printScreen" \notin DOMAIN KeyCode
  BY DEF KeyCode
<1> QED
  BY <1>1, <1>2, CodesDiffer

LEMMA WhatModifies ==
  /\ Extended(42) \notin Modifiers /\ Extended(55) \notin Modifiers
  /\ Extended(70) \notin Modifiers
  /\ Unextended(97) \notin Modifiers /\ Unextended(69) \notin Modifiers
  /\ Unextended(29) \in Modifiers
BY DEF Modifiers, Unextended, Extended

\* What doEscape notes about a scan code.
LEMMA EscapeOfPrefix ==
  ASSUME doEscape(kSC_Extend)
  PROVE  extendedState' /\ modifierState' = modifierState
BY DEF doEscape

\* What becomes of the modifiers when a code arrives for K.
Noted(S, K, code) == IF code >= kSC_UpBit THEN S \ {K} ELSE S \cup ({K} \cap Modifiers)

LEMMA NotNoted ==
  ASSUME NEW S, S \subseteq Modifiers, NEW K, K \notin Modifiers, NEW code
  PROVE  Noted(S, K, code) = S
BY DEF Noted

LEMMA EscapeOfCode ==
  ASSUME NEW a, a # kSC_Extend, doEscape(a)
  PROVE  /\ ~extendedState'
         /\ extendedState = TRUE =>
              modifierState' = Noted(modifierState, Extended(a % kSC_UpBit), a)
         /\ extendedState = FALSE =>
              modifierState' = Noted(modifierState, Unextended(a % kSC_UpBit), a)
BY DEF doEscape, Noted, Extended, Unextended

\* The handler takes the next code.
LEMMA Taken ==
  ASSUME debuggingEnabled, interruptHandlerKeyboard
  PROVE  /\ wire' = Tail(wire) /\ doEscape(Head(wire))
         /\ Held' = Held /\ down' = down
BY DEF interruptHandlerKeyboard, Held, keyboard

LEMMA TakenOfKey ==
  ASSUME TypeInv, debuggingEnabled, interruptHandlerKeyboard,
         NEW k \in DOMAIN KeyCode, Pressed(k) \/ Released(k)
  PROVE  ChordInv'
<1> USE DEF kSC_Extend, kSC_UpBit
<1>1. PICK code : Arriving(k, code)
                  /\ \/ code = KeyCode[k].code /\ Pressed(k)
                     \/ code = KeyCode[k].code + 128 /\ Released(k)
  BY DEF Pressed, Released
<1>2. KeyCode[k].code \in 1..95 /\ KeyCode[k].extended \in BOOLEAN
  BY CodesTyped
<1>3. code \in Nat /\ code # 224 /\ code % 128 = KeyCode[k].code
  BY <1>1, <1>2
<1>4. CASE KeyCode[k].extended /\ ~extendedState /\ wire = <<224, code>>
  <2>1. Head(wire) = 224 /\ Tail(wire) = <<code>>
    BY <1>4
  <2>2. wire' = <<code>> /\ extendedState' /\ modifierState' = modifierState /\ Held' = Held
    BY <2>1, Taken, EscapeOfPrefix
  <2>3. extendedState' = KeyCode[k].extended
    <3>1. extendedState' \in BOOLEAN
      BY StepTyped DEF Next, TypeInv, TypeOK
    <3> QED
      BY <1>2, <1>4, <2>2, <3>1
  <2>4. Arriving(k, code)'
    BY <2>2, <2>3 DEF Arriving
  <2>5. Pressed(k)' \/ Released(k)'
    BY <1>1, <2>2, <2>4 DEF Pressed, Released
  <2> QED
    BY <2>5 DEF ChordInv
<1>5. CASE extendedState = KeyCode[k].extended /\ wire = <<code>>
  <2>1. Head(wire) = code /\ Tail(wire) = <<>>
    BY <1>5
  <2>2. wire' = <<>> /\ Held' = Held /\ doEscape(code)
    BY <2>1, Taken
  <2>3. ~extendedState'
    BY <1>3, <2>2, EscapeOfCode
  <2>4. modifierState' = Noted(modifierState, KeyCode[k], code)
    <3>1. CASE extendedState = TRUE
      <4>1. KeyCode[k] = Extended(code % 128)
        BY <1>3, <1>5, <3>1, CodesTyped
      <4> QED
        BY <1>3, <2>2, <3>1, <4>1, EscapeOfCode
    <3>2. CASE extendedState = FALSE
      <4>1. KeyCode[k] = Unextended(code % 128)
        BY <1>3, <1>5, <3>2, CodesTyped
      <4> QED
        BY <1>3, <2>2, <3>2, <4>1, EscapeOfCode
    <3> QED
      BY <3>1, <3>2 DEF TypeInv, TypeOK
  <2>5. modifierState' = Held
    <3>1. CASE code = KeyCode[k].code /\ Pressed(k)
      BY <1>2, <2>4, <3>1 DEF Pressed, Noted
    <3>2. CASE code = KeyCode[k].code + 128 /\ Released(k)
      BY <1>2, <2>4, <3>2 DEF Released, Noted
    <3> QED
      BY <1>1, <3>1, <3>2
  <2> QED
    BY <2>2, <2>3, <2>5 DEF ChordInv
<1> QED
  BY <1>1, <1>4, <1>5 DEF Arriving

LEMMA TakenOfSequence ==
  ASSUME TypeInv, debuggingEnabled, interruptHandlerKeyboard,
         NEW a \in Nat, NEW b \in Nat, a # kSC_Extend, b # kSC_Extend,
         Extended(a % kSC_UpBit) \notin Modifiers, Extended(b % kSC_UpBit) \notin Modifiers,
         Sequence(a, b)
  PROVE  Sequence(a, b)' \/ (wire' = <<>> /\ ~extendedState' /\ modifierState' = Held')
<1> USE DEF kSC_Extend
<1>1. Held' = Held /\ modifierState = Held /\ modifierState \subseteq Modifiers
  BY Taken DEF Sequence, TypeInv, TypeOK
<1>2. ASSUME NEW c \in {a, b}, Head(wire) = c, extendedState
      PROVE  ~extendedState' /\ modifierState' = modifierState
  <2>1. extendedState = TRUE /\ c # kSC_Extend /\ doEscape(c)
    BY <1>2, Taken DEF TypeInv, TypeOK
  <2>2. Extended(c % kSC_UpBit) \notin Modifiers
    BY <1>2
  <2> QED
    BY <1>1, <2>1, <2>2, EscapeOfCode, NotNoted
<1>3. CASE ~extendedState /\ wire = <<224, a, 224, b>>
  <2>1. Head(wire) = 224 /\ Tail(wire) = <<a, 224, b>>
    BY <1>3
  <2> QED
    BY <1>1, <2>1, Taken, EscapeOfPrefix, ZenonT(40) DEF Sequence
<1>4. CASE ~extendedState /\ wire = <<224, b>>
  <2>1. Head(wire) = 224 /\ Tail(wire) = <<b>>
    BY <1>4
  <2> QED
    BY <1>1, <2>1, Taken, EscapeOfPrefix, ZenonT(40) DEF Sequence
<1>5. CASE extendedState /\ wire = <<a, 224, b>>
  <2>1. Head(wire) = a /\ Tail(wire) = <<224, b>>
    BY <1>5
  <2> QED
    BY <1>1, <1>2, <1>5, <2>1, Taken DEF Sequence
<1>6. CASE extendedState /\ wire = <<b>>
  <2>1. Head(wire) = b /\ Tail(wire) = <<>>
    BY <1>6
  <2> QED
    BY <1>1, <1>2, <1>6, <2>1, Taken
<1> QED
  BY <1>3, <1>4, <1>5, <1>6 DEF Sequence

LEMMA TakenOfPause ==
  ASSUME TypeInv, debuggingEnabled, interruptHandlerKeyboard, Pausing
  PROVE  Pausing' \/ (wire' = <<>> /\ ~extendedState' /\ modifierState' = Held')
<1> USE DEF kSC_Pause
<1> DEFINE ctrl == Unextended(29)
<1>1. /\ Held' = Held /\ down' = down /\ modifierState \subseteq Modifiers
      /\ ~extendedState /\ "ctrlLeft" \notin down
  BY Taken DEF Pausing, TypeInv, TypeOK
<1>2. ctrl \notin Held /\ ctrl \in Modifiers
  BY <1>1, CtrlAlone, WhatModifies DEF Held
<1>3. ASSUME NEW a \in Nat, Head(wire) = a, a # 224
      PROVE  /\ ~extendedState'
             /\ modifierState' = Noted(modifierState, Unextended(a % 128), a)
  <2>1. extendedState = FALSE /\ a # kSC_Extend /\ doEscape(a)
    BY <1>1, <1>3, Taken DEF TypeInv, TypeOK, kSC_Extend
  <2> QED
    BY <2>1, EscapeOfCode DEF kSC_UpBit
<1>4. 225 % 128 = 97 /\ 29 % 128 = 29 /\ 69 % 128 = 69 /\ 157 % 128 = 29 /\ 197 % 128 = 69
  OBVIOUS
<1>5. CASE modifierState = Held /\ wire = <<225, 29, 69, 225, 157, 197>>
  <2>1. Head(wire) = 225 /\ Tail(wire) = <<29, 69, 225, 157, 197>>
    BY <1>5
  <2>2. ~extendedState' /\ modifierState' = modifierState
    BY <1>1, <1>3, <1>4, <2>1, WhatModifies, NotNoted
  <2> QED
    BY <1>1, <1>5, <2>1, <2>2, Taken DEF Pausing
<1>6. CASE modifierState = Held /\ wire = <<29, 69, 225, 157, 197>>
  <2>1. Head(wire) = 29 /\ Tail(wire) = <<69, 225, 157, 197>>
    BY <1>6
  <2>2. ~extendedState' /\ modifierState' = modifierState \cup {ctrl}
    BY <1>2, <1>3, <1>4, <2>1 DEF Noted, kSC_UpBit
  <2> QED
    BY <1>1, <1>6, <2>1, <2>2, Taken DEF Pausing
<1>7. CASE modifierState = Held \cup {ctrl} /\ wire = <<69, 225, 157, 197>>
  <2>1. Head(wire) = 69 /\ Tail(wire) = <<225, 157, 197>>
    BY <1>7
  <2>2. ~extendedState' /\ modifierState' = modifierState
    BY <1>1, <1>3, <1>4, <2>1, WhatModifies, NotNoted
  <2> QED
    BY <1>1, <1>7, <2>1, <2>2, Taken DEF Pausing
<1>8. CASE modifierState = Held \cup {ctrl} /\ wire = <<225, 157, 197>>
  <2>1. Head(wire) = 225 /\ Tail(wire) = <<157, 197>>
    BY <1>8
  <2>2. ~extendedState' /\ modifierState' = modifierState
    BY <1>1, <1>3, <1>4, <2>1, WhatModifies, NotNoted
  <2> QED
    BY <1>1, <1>8, <2>1, <2>2, Taken DEF Pausing
<1>9. CASE modifierState = Held \cup {ctrl} /\ wire = <<157, 197>>
  <2>1. Head(wire) = 157 /\ Tail(wire) = <<197>>
    BY <1>9
  <2>2. ~extendedState' /\ modifierState' = modifierState \ {ctrl}
    BY <1>3, <1>4, <2>1 DEF Noted, kSC_UpBit
  <2>3. modifierState' = Held
    BY <1>2, <1>9, <2>2
  <2> QED
    BY <1>1, <1>9, <2>1, <2>2, <2>3, Taken DEF Pausing
<1>10. CASE modifierState = Held /\ wire = <<197>>
  <2>1. Head(wire) = 197 /\ Tail(wire) = <<>>
    BY <1>10
  <2>2. ~extendedState' /\ modifierState' = modifierState
    BY <1>1, <1>3, <1>4, <2>1, WhatModifies, NotNoted
  <2> QED
    BY <1>1, <1>10, <2>1, <2>2, Taken
<1> QED
  BY <1>5, <1>6, <1>7, <1>8, <1>9, <1>10 DEF Pausing

\* A press or a release puts a sequence on the wire and changes what is held.
LEMMA StrokeNoted ==
  ASSUME TypeInv, ChordInv, debuggingEnabled, NEW k \in Keys,
         press(k) \/ repeat(k) \/ release(k)
  PROVE  ChordInv'
<1>1. /\ wire = <<>> /\ "pause" \notin down
      /\ UNCHANGED <<extendedState, modifierState>>
  BY DEF press, repeat, release, TypeInv
<1>2. ~extendedState /\ modifierState = Held
  BY <1>1 DEF ChordInv, Pressed, Released, Arriving, Sequence, Pausing
<1>3. k \in DOMAIN KeyCode \cup {"printScreen", "pause"}
  BY KeyboardAssumption
<1>4. CASE k \in DOMAIN KeyCode
  <2>1. k \notin {"printScreen", "pause"}
    BY <1>4, CtrlAlone
  <2>2. \A code : wire' = Sent(k, code) => Arriving(k, code)'
    <3>1. SUFFICES ASSUME NEW code, wire' = Sent(k, code) PROVE Arriving(k, code)'
      OBVIOUS
    <3>2. KeyCode[k].extended \in BOOLEAN /\ extendedState \in BOOLEAN
      BY <1>4, CodesTyped DEF TypeInv, TypeOK
    <3>3. CASE KeyCode[k].extended = TRUE
      BY <1>1, <1>2, <3>1, <3>3 DEF Sent, Arriving
    <3>4. CASE KeyCode[k].extended = FALSE
      BY <1>1, <1>2, <3>1, <3>2, <3>4 DEF Sent, Arriving
    <3> QED
      BY <3>2, <3>3, <3>4
  <2>3. CASE press(k)
    <3>1. down' = down \cup {k} /\ wire' = Sent(k, KeyCode[k].code)
      BY <2>1, <2>3 DEF press, Make
    <3>2. Held' = Held \cup ({KeyCode[k]} \cap Modifiers)
      BY <1>4, <3>1 DEF Held
    <3>3. Pressed(k)'
      BY <1>1, <1>2, <2>2, <3>1, <3>2 DEF Pressed
    <3> QED
      BY <1>4, <3>3 DEF ChordInv
  <2>4. CASE repeat(k)
    <3>1. down' = down /\ k \in down /\ wire' = Sent(k, KeyCode[k].code)
      BY <2>1, <2>4 DEF repeat, Make
    <3>2. Held' = Held /\ {KeyCode[k]} \cap Modifiers \subseteq Held
      BY <1>4, <3>1 DEF Held
    <3>3. Pressed(k)'
      BY <1>1, <1>2, <2>2, <3>1, <3>2 DEF Pressed
    <3> QED
      BY <1>4, <3>3 DEF ChordInv
  <2>5. CASE release(k)
    <3>1. down' = down \ {k} /\ wire' = Sent(k, KeyCode[k].code + kSC_UpBit)
      BY <2>1, <2>5 DEF release, Break
    <3>2. Held' = Held \ {KeyCode[k]}
      BY <1>4, <3>1, CodesDiffer DEF Held
    <3>3. Released(k)'
      BY <1>1, <1>2, <2>2, <3>1, <3>2 DEF Released
    <3> QED
      BY <1>4, <3>3 DEF ChordInv
  <2> QED
    BY <2>3, <2>4, <2>5
<1>5. CASE k \in {"printScreen", "pause"}
  <2>1. down' \cap DOMAIN KeyCode = down \cap DOMAIN KeyCode
    BY <1>5, CtrlAlone DEF press, repeat, release
  <2>2. Held' = Held
    BY <2>1 DEF Held
  <2>3. CASE wire' = CtrlBreak
    BY <1>1, <1>2, <2>2, <2>3 DEF CtrlBreak, ChordInv, Sequence
  <2>4. CASE k = "printScreen" /\ wire' = Make(k)
    BY <1>1, <1>2, <2>2, <2>4 DEF Make, ChordInv, Sequence
  <2>5. CASE k = "printScreen" /\ wire' = Break(k)
    BY <1>1, <1>2, <2>2, <2>5 DEF Break, ChordInv, Sequence
  <2>6. CASE k = "pause" /\ wire' # CtrlBreak
    <3>1. wire' = Make("pause") /\ "ctrlLeft" \notin down /\ down' = down
      BY <1>1, <2>6 DEF press, repeat, release
    <3> QED
      BY <1>1, <1>2, <2>2, <3>1 DEF Make, ChordInv, Pausing
  <2> QED
    BY <1>5, <2>3, <2>4, <2>5, <2>6 DEF press, repeat, release
<1> QED
  BY <1>3, <1>4, <1>5

LEMMA StepNoted == TypeInv /\ ChordInv /\ [Next]_vars => ChordInv'
<1> SUFFICES ASSUME TypeInv, ChordInv, [Next]_vars, debuggingEnabled PROVE ChordInv'
  BY DEF ChordInv
<1>1. CASE \E k \in Keys : press(k) \/ repeat(k) \/ release(k)
  BY <1>1, StrokeNoted
<1>2. CASE interruptHandlerKeyboard
  <2>1. wire # <<>>
    BY <1>2 DEF interruptHandlerKeyboard
  <2>2. CASE \E k \in DOMAIN KeyCode : Pressed(k) \/ Released(k)
    BY <1>2, <2>2, TakenOfKey
  <2>3. 42 % 128 = 42 /\ 55 % 128 = 55 /\ 183 % 128 = 55 /\ 170 % 128 = 42
        /\ 70 % 128 = 70 /\ 198 % 128 = 70
    OBVIOUS
  <2>4. CASE Sequence(42, 55)
    BY <1>2, <2>3, <2>4, WhatModifies, TakenOfSequence DEF ChordInv, kSC_UpBit, kSC_Extend
  <2>5. CASE Sequence(183, 170)
    BY <1>2, <2>3, <2>5, WhatModifies, TakenOfSequence DEF ChordInv, kSC_UpBit, kSC_Extend
  <2>6. CASE Sequence(70, 198)
    BY <1>2, <2>3, <2>6, WhatModifies, TakenOfSequence DEF ChordInv, kSC_UpBit, kSC_Extend
  <2>7. CASE Pausing
    BY <1>2, <2>7, TakenOfPause DEF ChordInv
  <2> QED
    BY <2>1, <2>2, <2>4, <2>5, <2>6, <2>7 DEF ChordInv
<1>3. CASE callDebugger
  <2>1. Held' = {}
    BY <1>3 DEF callDebugger, Held
  <2> QED
    BY <1>3, <2>1 DEF callDebugger, ChordInv
<1>4. CASE interruptOccurred
  <2>1. UNCHANGED <<down, wire, extendedState, modifierState>>
    BY <1>4 DEF interruptOccurred, keyboard
  <2> QED
    BY <2>1 DEF ChordInv, Held, Pressed, Released, Arriving, Sequence, Pausing
<1>5. CASE UNCHANGED vars
  BY <1>5 DEF vars, ChordInv, Held, Pressed, Released, Arriving, Sequence, Pausing
<1> QED
  BY <1>1, <1>2, <1>3, <1>4, <1>5 DEF Next

LEMMA InitChord == Init => ChordInv
BY DEF Init, ChordInv, Held

\* doEscape knows which modifiers are held whenever the keyboard is not in the middle of
\* a sequence, whatever keys are pressed, repeated and released in whatever order, and
\* after a return from the debugger.
THEOREM ModifiersAlwaysFollowed == Spec => []ModifiersFollowed
<1>1. ChordInv => ModifiersFollowed
  <2>1. SUFFICES ASSUME ChordInv, debuggingEnabled, wire = <<>> PROVE modifierState = Held
    BY DEF ModifiersFollowed, Held
  <2> QED
    BY <2>1 DEF ChordInv, Pressed, Released, Arriving, Sequence, Pausing
<1> QED
  BY <1>1, InitTyped, InitChord, StepTyped, StepNoted, PTL DEF Spec

-----------------------------------------------------------------------------
(* The keys the driver and the HID system take for held.                   *)

\* A queue of scan codes takes the parser of the keyboard driver from state p to q: t
\* holds the states in between.
Parsing(codes, p, q) ==
  \E t \in [0..Len(codes) -> Parser] :
    /\ t[0] = p /\ t[Len(codes)] = q
    /\ \A i \in 1..Len(codes) : t[i] = dispatchKeyboardEventWithScancode(t[i - 1], codes[i])

LEMMA ParseNothing ==
  ASSUME NEW p \in Parser, NEW q \in Parser
  PROVE  /\ Parsing(<<>>, p, q) => p = q
         /\ Parsing(<<>>, p, p)
<1>1. Parsing(<<>>, p, q) => p = q
  BY DEF Parsing
<1>2. Len(<<>>) = 0
  OBVIOUS
<1> DEFINE t == [i \in 0..0 |-> p]
<1>3. t \in [0..0 -> Parser] /\ t[0] = p
  OBVIOUS
<1>4. 1..0 = {}
  OBVIOUS
<1>5. Parsing(<<>>, p, p)
  BY <1>2, <1>3, <1>4 DEF Parsing
<1> QED
  BY <1>1, <1>5

\* The first code is taken off the queue.
LEMMA ParseFirst ==
  ASSUME NEW codes \in Seq(Codebyte), codes # <<>>, NEW p \in Parser, NEW q \in Parser,
         Parsing(codes, p, q)
  PROVE  Parsing(Tail(codes), dispatchKeyboardEventWithScancode(p, Head(codes)), q)
<1>1. PICK t \in [0..Len(codes) -> Parser] :
        /\ t[0] = p /\ t[Len(codes)] = q
        /\ \A i \in 1..Len(codes) : t[i] = dispatchKeyboardEventWithScancode(t[i - 1], codes[i])
  BY DEF Parsing
<1>2. PICK n \in Nat : n + 1 = Len(codes) /\ Len(Tail(codes)) = n
  BY HeadAndTail
<1>3. Head(codes) = codes[1] /\ \A i \in 1..n : Tail(codes)[i] = codes[i + 1]
  BY <1>2
<1> DEFINE u == [i \in 0..n |-> t[i + 1]]
<1>4. u \in [0..n -> Parser]
  BY <1>2
<1>5. u[0] = t[1] /\ u[n] = t[n + 1]
  BY <1>2
<1>6. t[1] = dispatchKeyboardEventWithScancode(p, Head(codes))
  <2>1. 1 \in 1..Len(codes) /\ 1 - 1 = 0
    BY <1>2
  <2> QED
    BY <1>1, <1>3, <2>1, Zenon
<1>7. ASSUME NEW i \in 1..n
      PROVE  u[i] = dispatchKeyboardEventWithScancode(u[i - 1], Tail(codes)[i])
  <2>1. i + 1 \in 1..Len(codes) /\ (i + 1) - 1 = i /\ i \in 0..n /\ i - 1 \in 0..n
        /\ (i - 1) + 1 = i
    BY <1>2
  <2>2. u[i] = t[i + 1] /\ u[i - 1] = t[i]
    BY <2>1
  <2>3. t[i + 1] = dispatchKeyboardEventWithScancode(t[i], codes[i + 1])
    BY <1>1, <2>1
  <2> QED
    BY <1>3, <2>2, <2>3, Zenon
<1> HIDE DEF u
<1> QED
  BY <1>1, <1>2, <1>4, <1>5, <1>6, <1>7, Zenon DEF Parsing

\* A code is put at the end of the queue.
LEMMA ParseLast ==
  ASSUME NEW codes \in Seq(Codebyte), NEW c \in Codebyte, NEW p \in Parser, NEW q \in Parser,
         Parsing(codes, p, q)
  PROVE  Parsing(Append(codes, c), p, dispatchKeyboardEventWithScancode(q, c))
<1>1. PICK t \in [0..Len(codes) -> Parser] :
        /\ t[0] = p /\ t[Len(codes)] = q
        /\ \A i \in 1..Len(codes) : t[i] = dispatchKeyboardEventWithScancode(t[i - 1], codes[i])
  BY DEF Parsing
<1>2. PICK n \in Nat : n = Len(codes)
  OBVIOUS
<1>3. PICK s : s = Append(codes, c)
  OBVIOUS
<1>4. Len(s) = n + 1 /\ s[n + 1] = c /\ \A i \in 1..n : s[i] = codes[i]
  BY <1>2, <1>3
<1>5. PICK r \in Parser : r = dispatchKeyboardEventWithScancode(q, c)
  BY DispatchTyped
<1> DEFINE u == [i \in 0..(n + 1) |-> IF i = n + 1 THEN r ELSE t[i]]
<1>6. u \in [0..(n + 1) -> Parser]
  BY <1>2
<1>7. u[0] = p /\ u[n + 1] = r /\ u[n] = q
  BY <1>1, <1>2
<1>8. ASSUME NEW i \in 1..(n + 1)
      PROVE  u[i] = dispatchKeyboardEventWithScancode(u[i - 1], s[i])
  <2>1. CASE i = n + 1
    <3>1. i - 1 = n
      BY <2>1
    <3> QED
      BY <1>4, <1>5, <1>7, <2>1, <3>1, Zenon
  <2>2. CASE i # n + 1
    <3>1. i \in 1..n /\ i \in 0..(n + 1) /\ i - 1 \in 0..(n + 1) /\ i - 1 # n + 1
      BY <2>2
    <3>2. u[i] = t[i] /\ u[i - 1] = t[i - 1]
      BY <2>2, <3>1
    <3> QED
      BY <1>1, <1>2, <1>4, <3>1, <3>2, Zenon
  <2> QED
    BY <2>1, <2>2
<1> HIDE DEF u
<1>9. Parsing(s, p, r)
  BY <1>4, <1>6, <1>7, <1>8 DEF Parsing
<1> QED
  BY <1>3, <1>5, <1>9

AllCodes(D) == UNION {Codes(k) : k \in D}
Alone(k) == \A j \in Keys \ {k} : Codes(j) \cap Codes(k) = {}

\* What parser state p knows of the keys: of those in D at most, and of those in E, where
\* they share their key codes with no other key, for certain.  A key of the bit vector is
\* reported too, unless the eject key, which goes past the bit vector, interfered.
Knows(p, D, E) ==
  /\ p \in Parser
  /\ p.keyBitVector \subseteq AllCodes(D \ {"eject"}) /\ p.reported \subseteq AllCodes(D)
  /\ \A k \in E : Alone(k) => Codes(k) \subseteq p.reported
  /\ \A c \in p.keyBitVector : c \in p.reported \/ ("eject" \in Keys /\ c \in ejectCodes)

\* Key codes C go down, and up.
GoDown(p, q, C) ==
  /\ q \in Parser /\ q.extendCount = 0
  /\ q.keyBitVector = p.keyBitVector \cup C
  /\ q.reported = p.reported \cup (C \ p.keyBitVector)
GoUp(p, q, C) ==
  /\ q \in Parser /\ q.extendCount = 0
  /\ q.keyBitVector = p.keyBitVector \ C /\ q.reported = p.reported \ C
\* The eject key.
Ejecting(p, q, rep) ==
  q \in Parser /\ q.extendCount = 0 /\ q.keyBitVector = p.keyBitVector /\ q.reported = rep

LEMMA EjectCodes == Codes("eject") = ejectCodes
BY DEF Codes

\* A key that goes down is known from then on.
LEMMA KnowsDown ==
  ASSUME NEW p, NEW q, NEW D, D \subseteq Keys, NEW E, NEW k \in D, Knows(p, D, E),
         \/ k # "eject" /\ GoDown(p, q, Codes(k))
         \/ k = "eject" /\ Ejecting(p, q, p.reported \cup Codes(k))
  PROVE  q.extendCount = 0 /\ Knows(q, D, E \cup {k})
<1> USE DEF Knows
<1>1. Codes(k) \subseteq AllCodes(D) /\ (k # "eject" => Codes(k) \subseteq AllCodes(D \ {"eject"}))
  BY DEF AllCodes
<1>2. CASE k # "eject" /\ GoDown(p, q, Codes(k))
  <2>1. Alone(k) => Codes(k) \subseteq q.reported
    <3>1. SUFFICES ASSUME Alone(k), NEW c \in Codes(k) PROVE c \in q.reported
      OBVIOUS
    <3>2. "eject" \in Keys => c \notin ejectCodes
      BY <1>2, <3>1, EjectCodes DEF Alone
    <3> QED
      BY <1>2, <3>1, <3>2 DEF GoDown
  <2>2. \A j \in E \cup {k} : Alone(j) => Codes(j) \subseteq q.reported
    BY <1>2, <2>1 DEF GoDown
  <2>3. \A c \in q.keyBitVector : c \in q.reported \/ ("eject" \in Keys /\ c \in ejectCodes)
    BY <1>2 DEF GoDown
  <2>4. q.keyBitVector \subseteq AllCodes(D \ {"eject"}) /\ q.reported \subseteq AllCodes(D)
    BY <1>1, <1>2 DEF GoDown
  <2> QED
    BY <1>2, <2>2, <2>3, <2>4 DEF GoDown
<1>3. CASE k = "eject" /\ Ejecting(p, q, p.reported \cup Codes(k))
  <2>1. q.keyBitVector = p.keyBitVector /\ q.reported = p.reported \cup Codes(k)
        /\ q \in Parser /\ q.extendCount = 0
    BY <1>3 DEF Ejecting
  <2>2. \A j \in E \cup {k} : Alone(j) => Codes(j) \subseteq q.reported
    BY <2>1
  <2>3. q.reported \subseteq AllCodes(D)
    BY <1>1, <2>1
  <2> QED
    BY <2>1, <2>2, <2>3
<1> QED
  BY <1>2, <1>3

\* A key that goes up is forgotten, whatever other keys have the same key codes.
Releases(p, q, k) ==
  \/ k # "eject" /\ GoUp(p, q, Codes(k))
  \/ k = "eject" /\ Ejecting(p, q, p.reported \ Codes(k))

LEMMA KnowsUp ==
  ASSUME NEW p, NEW q, NEW k \in Keys, NEW D, NEW E, E \subseteq Keys \ {k}, Knows(p, D \cup {k}, E),
         Releases(p, q, k)
  PROVE  q.extendCount = 0 /\ Knows(q, D, E)
<1> USE DEF Knows, Releases
<1>1. AllCodes(D \cup {k}) \ Codes(k) \subseteq AllCodes(D)
  BY DEF AllCodes
<1>2. q.reported = p.reported \ Codes(k) /\ q \in Parser /\ q.extendCount = 0
  BY DEF GoUp, Ejecting
<1>3. \A j \in E : Alone(j) => Codes(j) \subseteq q.reported
  <2>1. SUFFICES ASSUME NEW j \in E, Alone(j) PROVE Codes(j) \subseteq q.reported
    OBVIOUS
  <2>2. Codes(k) \cap Codes(j) = {}
    BY <2>1 DEF Alone
  <2> QED
    BY <1>2, <2>1, <2>2
<1>4. q.reported \subseteq AllCodes(D)
  BY <1>1, <1>2
<1>5. CASE k # "eject" /\ GoUp(p, q, Codes(k))
  <2>1. AllCodes((D \cup {k}) \ {"eject"}) \ Codes(k) \subseteq AllCodes(D \ {"eject"})
    BY DEF AllCodes
  <2>2. q.keyBitVector = p.keyBitVector \ Codes(k)
    BY <1>5 DEF GoUp
  <2>3. q.keyBitVector \subseteq AllCodes(D \ {"eject"})
    BY <2>1, <2>2
  <2> QED
    BY <1>2, <1>3, <1>4, <2>2, <2>3
<1>6. CASE k = "eject" /\ Ejecting(p, q, p.reported \ Codes(k))
  <2>1. q.keyBitVector = p.keyBitVector
    BY <1>6 DEF Ejecting
  <2>2. (D \cup {k}) \ {"eject"} = D \ {"eject"}
    BY <1>6
  <2> QED
    BY <1>2, <1>3, <1>4, <1>6, <2>1, <2>2, EjectCodes
<1> QED
  BY <1>5, <1>6

LEMMA KnowsPlainUp ==
  ASSUME NEW p, NEW q, NEW k \in Keys, k # "eject", NEW D, Knows(p, D \cup {k}, {}),
         GoUp(p, q, Codes(k))
  PROVE  q.extendCount = 0 /\ Knows(q, D, {})
<1>1. {} \subseteq Keys \ {k} /\ Releases(p, q, k)
  BY DEF Releases
<1> QED
  BY <1>1, KnowsUp

LEMMA KnowsLess ==
  ASSUME NEW p, NEW D, NEW E, NEW F, NEW G, Knows(p, D, E), D \subseteq F, G \subseteq E
  PROVE  Knows(p, F, G)
<1>1. AllCodes(D) \subseteq AllCodes(F) /\ AllCodes(D \ {"eject"}) \subseteq AllCodes(F \ {"eject"})
  BY DEF AllCodes
<1> QED
  BY <1>1 DEF Knows

\* Knowledge does not depend on the prefix.
LEMMA KnowsPrefix ==
  ASSUME NEW p, NEW D, NEW E, Knows(p, D, E), NEW n \in 0..2,
         NEW q, q = [p EXCEPT !.extendCount = n]
  PROVE  Knows(q, D, E) /\ q.extendCount = n
<1>1. q \in Parser /\ q.keyBitVector = p.keyBitVector /\ q.reported = p.reported
      /\ q.extendCount = n
  BY DEF Knows, Parser
<1> QED
  BY <1>1 DEF Knows

\* Codes of keys, with and without the up bit, for the two parsers.
UpBit(code, goingDown) == IF goingDown THEN code ELSE code + kSC_UpBit

LEMMA CodeParts ==
  ASSUME NEW c \in 1..127, NEW goingDown \in BOOLEAN
  PROVE  /\ UpBit(c, goingDown) \in Codebyte
         /\ UpBit(c, goingDown) % kSC_UpBit = c
         /\ (UpBit(c, goingDown) < kSC_UpBit) = goingDown
<1> USE DEF UpBit, kSC_UpBit, Codebyte
<1>1. CASE goingDown = TRUE
  <2>1. c % 128 = c /\ c \in Codebyte /\ (c < 128) = TRUE
    OBVIOUS
  <2>2. UpBit(c, goingDown) = c
    BY <1>1
  <2> QED
    BY <1>1, <2>1, <2>2, Zenon
<1>2. CASE goingDown = FALSE
  <2>1. (c + 128) % 128 = c /\ c + 128 \in Codebyte /\ (c + 128 < 128) = FALSE
    OBVIOUS
  <2>2. UpBit(c, goingDown) = c + 128
    BY <1>2
  <2> QED
    BY <1>2, <2>1, <2>2, Zenon
<1> QED
  BY <1>1, <1>2

\* What a plain code and an extended code do.
Effect(p, q, C, goingDown) == IF goingDown THEN GoDown(p, q, C) ELSE GoUp(p, q, C)

LEMMA KeyEventEffect ==
  ASSUME NEW p \in Parser, p.extendCount = 0, NEW c \in 1..127, NEW goingDown \in BOOLEAN
  PROVE  Effect(p, keyEvent(p, c, goingDown), {c}, goingDown)
<1>1. PICK q : q = keyEvent(p, c, goingDown)
  OBVIOUS
<1>2. q \in Parser
  BY <1>1, KeyEventTyped
<1>3. CASE goingDown /\ c \in p.keyBitVector
  <2>1. q = p
    BY <1>1, <1>3 DEF keyEvent
  <2>2. GoDown(p, q, {c})
    BY <1>2, <1>3, <2>1 DEF GoDown
  <2> QED
    BY <1>1, <1>3, <2>2 DEF Effect
<1>4. CASE goingDown /\ c \notin p.keyBitVector
  <2>1. q = [p EXCEPT !.keyBitVector = @ \cup {c}, !.reported = @ \cup {c}]
    BY <1>1, <1>4 DEF keyEvent
  <2>2. q.extendCount = 0 /\ q.keyBitVector = p.keyBitVector \cup {c}
        /\ q.reported = p.reported \cup {c}
    BY <2>1 DEF Parser
  <2>3. GoDown(p, q, {c})
    BY <1>2, <1>4, <2>2 DEF GoDown
  <2> QED
    BY <1>1, <1>4, <2>3 DEF Effect
<1>5. CASE ~goingDown
  <2>1. q = [p EXCEPT !.keyBitVector = @ \ {c}, !.reported = @ \ {c}]
    BY <1>1, <1>5 DEF keyEvent
  <2>2. q.extendCount = 0 /\ q.keyBitVector = p.keyBitVector \ {c}
        /\ q.reported = p.reported \ {c}
    BY <2>1 DEF Parser
  <2>3. GoUp(p, q, {c})
    BY <1>2, <2>2 DEF GoUp
  <2> QED
    BY <1>1, <1>5, <2>3 DEF Effect
<1> QED
  BY <1>3, <1>4, <1>5

LEMMA EffectsCompose ==
  ASSUME NEW p, NEW q, NEW r, NEW B, NEW C, NEW goingDown \in BOOLEAN,
         Effect(p, q, B, goingDown), Effect(q, r, C, goingDown)
  PROVE  Effect(p, r, B \cup C, goingDown)
BY DEF Effect, GoDown, GoUp

LEMMA PlainEffect ==
  ASSUME NEW p \in Parser, p.extendCount = 0, NEW c \in 1..127, NEW goingDown \in BOOLEAN
  PROVE  Effect(p, plainCode(p, UpBit(c, goingDown)), {plainKeyCode(c)}, goingDown)
<1>1. plainKeyCode(c) \in 1..127
  BY DEF plainKeyCode
<1>2. plainCode(p, UpBit(c, goingDown)) = keyEvent(p, plainKeyCode(c), goingDown)
  BY CodeParts DEF plainCode
<1> QED
  BY <1>1, <1>2, KeyEventEffect

LEMMA PrintScreenCodes == Codes("printScreen") = printScreenCodes
BY CtrlAlone DEF Codes

LEMMA PrintScreenEffect ==
  ASSUME NEW p \in Parser, p.extendCount = 0, NEW goingDown \in BOOLEAN
  PROVE  Effect(p, printScreen(p, IF goingDown THEN 0 ELSE kSC_UpBit), Codes("printScreen"), goingDown)
<1> DEFINE up == IF goingDown THEN 0 ELSE kSC_UpBit
           K(c) == {plainKeyCode(c)}
<1>1. /\ 29 + up = UpBit(29, goingDown) /\ 56 + up = UpBit(56, goingDown)
      /\ 42 + up = UpBit(42, goingDown) /\ 5 + up = UpBit(5, goingDown)
  BY DEF UpBit, kSC_UpBit
<1> HIDE DEF up
<1>2. PICK q : q = IF saveSS THEN p ELSE plainCode(p, 29 + up)
  OBVIOUS
<1>3. PICK a : a = plainCode(q, 56 + up)
  OBVIOUS
<1>4. PICK b : b = plainCode(a, 42 + up)
  OBVIOUS
<1>5. PICK r : r = plainCode(b, 5 + up)
  OBVIOUS
<1>6. r = printScreen(p, up)
  BY <1>2, <1>3, <1>4, <1>5 DEF printScreen
<1>7. \A s, t, C : Effect(s, t, C, goingDown) => t \in Parser /\ t.extendCount = 0
  BY DEF Effect, GoDown, GoUp
<1> USE DEF K
<1>0. 29 \in 1..127 /\ 56 \in 1..127 /\ 42 \in 1..127 /\ 5 \in 1..127
  OBVIOUS
<1>8. ~saveSS => Effect(p, q, K(29), goingDown)
  BY <1>0, <1>1, <1>2, PlainEffect, Zenon
<1>9. q \in Parser /\ q.extendCount = 0
  BY <1>2, <1>7, <1>8
<1>10. Effect(q, a, K(56), goingDown)
  BY <1>0, <1>1, <1>3, <1>9, PlainEffect, Zenon
<1>11. Effect(a, b, K(42), goingDown)
  BY <1>0, <1>1, <1>4, <1>7, <1>10, PlainEffect, ZenonT(40)
<1>12. Effect(b, r, K(5), goingDown)
  BY <1>0, <1>1, <1>5, <1>7, <1>11, PlainEffect, ZenonT(40)
<1>13. Effect(q, r, (K(56) \cup K(42)) \cup K(5), goingDown)
  <2>1. Effect(q, b, K(56) \cup K(42), goingDown)
    BY <1>10, <1>11, EffectsCompose
  <2> QED
    BY <1>12, <2>1, EffectsCompose
<1>14. CASE saveSS
  <2>1. Codes("printScreen") = (K(56) \cup K(42)) \cup K(5)
    <3>1. Codes("printScreen") = {plainKeyCode(c) : c \in {56, 42, 5} \cup {}}
      <4>1. (IF saveSS THEN {} ELSE {29}) = {}
        BY <1>14
      <4> QED
        BY <4>1, PrintScreenCodes DEF printScreenCodes
    <3> QED
      BY <3>1
  <2> QED
    BY <1>2, <1>6, <1>13, <1>14, <2>1 DEF up
<1>15. CASE ~saveSS
  <2>1. Codes("printScreen") = K(29) \cup ((K(56) \cup K(42)) \cup K(5))
    <3>1. Codes("printScreen") = {plainKeyCode(c) : c \in {56, 42, 5} \cup {29}}
      <4>1. (IF saveSS THEN {} ELSE {29}) = {29}
        BY <1>15
      <4> QED
        BY <4>1, PrintScreenCodes DEF printScreenCodes
    <3> QED
      BY <3>1
  <2> QED
    BY <1>6, <1>8, <1>13, <1>15, <2>1, EffectsCompose DEF up
<1> QED
  BY <1>14, <1>15

\* What the last code of a key does.  An extended code is one of the table, the eject key
\* apart.
Entry(c, v) ==
  (\E e \in ExtendedKeys : e[1] = c) /\ (\A e \in ExtendedKeys : e[1] = c => e[2] = v)

LEMMA ExtendedTable ==
  ASSUME NEW c \in {56, 83, 92, 93}
  PROVE  \E v \in 1..127 : Entry(c, v)
<1>1. CASE c = 56
  <2>1. PICK v \in 1..127 : v = IF macintoshMode THEN 113 ELSE 97
    OBVIOUS
  <2>2. \E e \in ExtendedKeys : e[1] = c
    BY <1>1 DEF ExtendedKeys
  <2>3. \A e \in ExtendedKeys : e[1] = c => e[2] = v
    BY <1>1, <2>1 DEF ExtendedKeys
  <2> QED
    BY <2>2, <2>3 DEF Entry
<1>2. CASE c = 83
  <2>1. PICK v \in 1..127 : v = 105
    OBVIOUS
  <2>2. \E e \in ExtendedKeys : e[1] = c
    BY <1>2 DEF ExtendedKeys
  <2>3. \A e \in ExtendedKeys : e[1] = c => e[2] = v
    BY <1>2, <2>1 DEF ExtendedKeys
  <2> QED
    BY <2>2, <2>3 DEF Entry
<1>3. CASE c = 92
  <2>1. PICK v \in 1..127 : v = IF macintoshMode THEN 97 ELSE 113
    OBVIOUS
  <2>2. \E e \in ExtendedKeys : e[1] = c
    BY <1>3 DEF ExtendedKeys
  <2>3. \A e \in ExtendedKeys : e[1] = c => e[2] = v
    BY <1>3, <2>1 DEF ExtendedKeys
  <2> QED
    BY <2>2, <2>3 DEF Entry
<1>4. CASE c = 93
  <2>1. PICK v \in 1..127 : v = 113
    OBVIOUS
  <2>2. \E e \in ExtendedKeys : e[1] = c
    BY <1>4 DEF ExtendedKeys
  <2>3. \A e \in ExtendedKeys : e[1] = c => e[2] = v
    BY <1>4, <2>1 DEF ExtendedKeys
  <2> QED
    BY <2>2, <2>3 DEF Entry
<1> QED
  BY <1>1, <1>2, <1>3, <1>4

LEMMA UnusedCodes == \A e \in ExtendedKeys : e[1] \notin {42, 52, 55, 69, 70}
BY DEF ExtendedKeys

\* The code that tells extended keys apart.
Prefix(k) == IF KeyCode[k].extended THEN 1 ELSE 0

LEMMA DispatchKey ==
  ASSUME NEW p \in Parser, NEW code \in Codebyte, code \notin {kSC_Extend, kSC_Pause}
  PROVE  /\ p.extendCount = 0 => dispatchKeyboardEventWithScancode(p, code) = plainCode(p, code)
         /\ p.extendCount = 1 => dispatchKeyboardEventWithScancode(p, code)
                                   = extendedCode([p EXCEPT !.extendCount = 0], code)
BY DEF dispatchKeyboardEventWithScancode

LEMMA KeyEffect ==
  ASSUME NEW p \in Parser, NEW k \in DOMAIN KeyCode, p.extendCount = Prefix(k),
         NEW goingDown \in BOOLEAN,
         NEW q, q = dispatchKeyboardEventWithScancode(p, UpBit(KeyCode[k].code, goingDown))
  PROVE  \/ k # "eject" /\ Effect(p, q, Codes(k), goingDown)
         \/ k = "eject" /\ Ejecting(p, q, IF goingDown THEN p.reported \cup Codes(k)
                                          ELSE p.reported \ Codes(k))
<1>1. PICK code : code = UpBit(KeyCode[k].code, goingDown)
  OBVIOUS
<1>2. KeyCode[k].code \in 1..95 /\ KeyCode[k].extended \in BOOLEAN
  BY CodesTyped
<1>3. code \in Codebyte /\ code % kSC_UpBit = KeyCode[k].code /\ (code < kSC_UpBit) = goingDown
  BY <1>1, <1>2, CodeParts
<1>4. code \notin {kSC_Extend, kSC_Pause}
  BY <1>1, <1>2 DEF UpBit, kSC_UpBit, kSC_Extend, kSC_Pause
<1>5. CASE KeyCode[k].extended = FALSE
  <2>1. p.extendCount = 0 /\ q = plainCode(p, code)
    BY <1>1, <1>3, <1>4, <1>5, DispatchKey DEF Prefix
  <2>2. Effect(p, q, {plainKeyCode(KeyCode[k].code)}, goingDown)
    <3>1. KeyCode[k].code \in 1..127
      BY <1>2
    <3> QED
      BY <1>1, <2>1, <3>1, PlainEffect, Zenon
  <2>3. k \notin {"eject", "printScreen", "pause"}
    BY <1>5, CtrlAlone DEF KeyCode, Extended
  <2>4. Codes(k) = {plainKeyCode(KeyCode[k].code)}
    BY <1>5, <2>3 DEF Codes
  <2> QED
    BY <2>2, <2>3, <2>4
<1>6. CASE KeyCode[k].extended = TRUE
  <2>1. PICK r : r = [p EXCEPT !.extendCount = 0]
    OBVIOUS
  <2>2. r \in Parser /\ r.extendCount = 0 /\ r.keyBitVector = p.keyBitVector
        /\ r.reported = p.reported
    BY <2>1 DEF Parser
  <2>3. q = extendedCode(r, code)
    BY <1>1, <1>3, <1>4, <1>6, <2>1, DispatchKey DEF Prefix
  <2>4. CASE k = "eject"
    <3>1. KeyCode[k].code = 52
      BY <2>4 DEF KeyCode, Extended
    <3>2. q = [r EXCEPT !.reported = IF goingDown THEN @ \cup ejectCodes ELSE @ \ ejectCodes]
      <4>1. code % kSC_UpBit = 52
        BY <1>3, <3>1
      <4>2. ~\E e \in ExtendedKeys : e[1] = 52
        BY UnusedCodes
      <4>3. q = [r EXCEPT !.reported = IF code < kSC_UpBit THEN @ \cup ejectCodes ELSE @ \ ejectCodes]
        BY <2>3, <4>1, <4>2 DEF extendedCode
      <4> QED
        BY <1>3, <4>3, Zenon
    <3>3. q \in Parser /\ q.extendCount = 0 /\ q.keyBitVector = p.keyBitVector
          /\ q.reported = IF goingDown THEN p.reported \cup ejectCodes ELSE p.reported \ ejectCodes
      BY <2>2, <3>2 DEF Parser, ejectCodes
    <3> QED
      BY <2>4, <3>3, EjectCodes DEF Ejecting
  <2>5. CASE k # "eject"
    <3>1. KeyCode[k].code \in {56, 83, 92, 93}
      BY <1>6, <2>5 DEF KeyCode, Extended, Unextended, kSC_Delete
    <3>2. PICK v \in 1..127 : Entry(KeyCode[k].code, v)
      BY <3>1, ExtendedTable, ZenonT(40)
    <3>3. q = keyEvent(r, v, goingDown)
      <4>1. PICK base : base = code % kSC_UpBit
        OBVIOUS
      <4>2. base \notin {52, 55} /\ base = KeyCode[k].code
        BY <1>3, <3>1, <4>1
      <4>3. \E e \in ExtendedKeys : e[1] = base
        BY <3>2, <4>2 DEF Entry
      <4>4. (CHOOSE e \in ExtendedKeys : e[1] = base)[2] = v
        <5>1. PICK x : x = CHOOSE e \in ExtendedKeys : e[1] = base
          OBVIOUS
        <5>2. x \in ExtendedKeys /\ x[1] = base
          BY <4>3, <5>1
        <5> QED
          BY <3>2, <4>2, <5>1, <5>2 DEF Entry
      <4>5. q = keyEvent(r, (CHOOSE e \in ExtendedKeys : e[1] = base)[2], goingDown)
        BY <1>3, <2>3, <4>1, <4>2, <4>3 DEF extendedCode
      <4> QED
        BY <4>4, <4>5
    <3>4. Effect(r, q, {v}, goingDown)
      BY <2>2, <3>3, KeyEventEffect
    <3>5. Codes(k) = {v}
      <4>1. k \notin {"eject", "printScreen", "pause"}
        BY <2>5, CtrlAlone
      <4>2. Codes(k) = {e[2] : e \in {x \in ExtendedKeys : x[1] = KeyCode[k].code}}
        BY <1>6, <4>1 DEF Codes
      <4> QED
        BY <3>2, <4>2 DEF Entry
    <3> QED
      BY <2>2, <2>5, <3>4, <3>5 DEF Effect, GoDown, GoUp
  <2> QED
    BY <2>4, <2>5
<1> QED
  BY <1>2, <1>5, <1>6

\* The codes still on the wire, w, and the parser, p, that has taken all codes before
\* them.  The last code of key k is to come, or both are.
Coming(p, w, k, goingDown) ==
  \/ /\ KeyCode[k].extended /\ p.extendCount = 0
     /\ w = <<kSC_Extend, UpBit(KeyCode[k].code, goingDown)>>
  \/ p.extendCount = Prefix(k) /\ w = <<UpBit(KeyCode[k].code, goingDown)>>

\* Codes a and b with their prefixes: all of them, or only the second.
BothComing(p, w, a, b) ==
  \/ p.extendCount = 0 /\ w = <<kSC_Extend, a, kSC_Extend, b>>
  \/ p.extendCount = 1 /\ w = <<a, kSC_Extend, b>>
OneComing(p, w, b) ==
  \/ p.extendCount = 0 /\ w = <<kSC_Extend, b>>
  \/ p.extendCount = 1 /\ w = <<b>>

PauseComing(p, w) ==
  \/ p.extendCount = 0 /\ w = <<kSC_Pause, 29, 69, kSC_Pause, 157, 197>>
  \/ p.extendCount = 2 /\ w = <<29, 69, kSC_Pause, 157, 197>>
  \/ p.extendCount = 1 /\ w = <<69, kSC_Pause, 157, 197>>
  \/ p.extendCount = 0 /\ w = <<kSC_Pause, 157, 197>>
  \/ p.extendCount = 2 /\ w = <<157, 197>>
  \/ p.extendCount = 1 /\ w = <<197>>

\* What p knows of the keys in D, that are held, until w has arrived.  Delete has not
\* been seen yet when it completes the debugger chord.
KeyDown(p, w, D, k) ==
  /\ k \in D /\ Coming(p, w, k, TRUE) /\ Knows(p, D, D \ {k})
  /\ k = "delete" /\ debuggingEnabled /\ Alts \subseteq D => Knows(p, D \ {k}, D \ {k})
KeyUp(p, w, D, k) ==
  /\ k \notin D /\ Coming(p, w, k, FALSE) /\ Knows(p, D \cup {k}, D)
  /\ k = "delete" /\ debuggingEnabled => ~(Alts \subseteq D)
PictureDown(p, w, D) ==
  /\ "printScreen" \in D /\ (BothComing(p, w, 42, 55) \/ OneComing(p, w, 55))
  /\ Knows(p, D, D \ {"printScreen"})
PictureUp(p, w, D) ==
  /\ "printScreen" \in Keys \ D /\ BothComing(p, w, 183, 170)
  /\ Knows(p, D \cup {"printScreen"}, D)
NothingNew(p, w, D) ==
  /\ \/ p.extendCount = 0 /\ w = <<>>
     \/ BothComing(p, w, 70, 198) \/ OneComing(p, w, 198) \/ OneComing(p, w, 170)
     \/ PauseComing(p, w)
  /\ Knows(p, D, D)
WireInv(p, w, D) ==
  \/ \E k \in Keys \cap DOMAIN KeyCode : KeyDown(p, w, D, k) \/ KeyUp(p, w, D, k)
  \/ PictureDown(p, w, D) \/ PictureUp(p, w, D) \/ NothingNew(p, w, D)

\* What the parser makes of prefixes, and of codes that stand for no key.
LEMMA DispatchPrefix ==
  ASSUME NEW p, NEW D, NEW E, Knows(p, D, E), NEW q
  PROVE  /\ q = dispatchKeyboardEventWithScancode(p, kSC_Extend) =>
              Knows(q, D, E) /\ q.extendCount = 1
         /\ q = dispatchKeyboardEventWithScancode(p, kSC_Pause) =>
              Knows(q, D, E) /\ q.extendCount = 2
<1>1. /\ dispatchKeyboardEventWithScancode(p, kSC_Extend) = [p EXCEPT !.extendCount = 1]
      /\ dispatchKeyboardEventWithScancode(p, kSC_Pause) = [p EXCEPT !.extendCount = 2]
  BY DEF dispatchKeyboardEventWithScancode, kSC_Extend, kSC_Pause
<1>2. 1 \in 0..2 /\ 2 \in 0..2
  OBVIOUS
<1> QED
  BY <1>1, <1>2, KnowsPrefix

LEMMA DispatchIgnored ==
  ASSUME NEW p, NEW D, NEW E, Knows(p, D, E), NEW code \in {42, 69, 70, 170, 197, 198},
         p.extendCount = 1, NEW q, q = dispatchKeyboardEventWithScancode(p, code)
  PROVE  Knows(q, D, E) /\ q.extendCount = 0
<1>1. p \in Parser /\ code \in Codebyte /\ code \notin {kSC_Extend, kSC_Pause}
  BY DEF Knows, Codebyte, kSC_Extend, kSC_Pause
<1>2. PICK r : r = [p EXCEPT !.extendCount = 0]
  OBVIOUS
<1>3. q = extendedCode(r, code)
  BY <1>1, <1>2, DispatchKey
<1>4. PICK base : base = code % kSC_UpBit
  OBVIOUS
<1>5. base \in {42, 69, 70}
  BY <1>4 DEF kSC_UpBit
<1>6. (~\E e \in ExtendedKeys : e[1] = base) /\ base # 52 /\ base # 55
  BY <1>5, UnusedCodes
<1>7. q = r
  BY <1>3, <1>4, <1>6 DEF extendedCode
<1>8. 0 \in 0..2
  OBVIOUS
<1> QED
  BY <1>2, <1>7, <1>8, KnowsPrefix

\* The second prefix of Pause counts two codes.
LEMMA DispatchPause ==
  ASSUME NEW p, NEW D, NEW E, Knows(p, D, E), NEW code \in {29, 157},
         p.extendCount = 2, NEW q, q = dispatchKeyboardEventWithScancode(p, code)
  PROVE  Knows(q, D, E) /\ q.extendCount = 1
<1>1. code \notin {kSC_Extend, kSC_Pause}
  BY DEF kSC_Extend, kSC_Pause
<1>2. q = [p EXCEPT !.extendCount = p.extendCount - 1]
  BY <1>1 DEF dispatchKeyboardEventWithScancode
<1>3. q = [p EXCEPT !.extendCount = 1] /\ 1 \in 0..2
  BY <1>2
<1> QED
  BY <1>3, KnowsPrefix

\* PrintScreen, the second code of its press and the first of its release.
LEMMA DispatchPicture ==
  ASSUME NEW p \in Parser, p.extendCount = 1, NEW goingDown \in BOOLEAN,
         NEW q, q = dispatchKeyboardEventWithScancode(p, UpBit(55, goingDown))
  PROVE  Effect(p, q, Codes("printScreen"), goingDown)
<1>1. PICK code : code = UpBit(55, goingDown)
  OBVIOUS
<1>2. code \in Codebyte /\ code % kSC_UpBit = 55 /\ (code < kSC_UpBit) = goingDown
  <2>1. 55 \in 1..127
    OBVIOUS
  <2> QED
    BY <1>1, <2>1, CodeParts, Zenon
<1>3. code \notin {kSC_Extend, kSC_Pause}
  BY <1>1 DEF UpBit, kSC_UpBit, kSC_Extend, kSC_Pause
<1>4. PICK r : r = [p EXCEPT !.extendCount = 0]
  OBVIOUS
<1>5. r \in Parser /\ r.extendCount = 0 /\ r.keyBitVector = p.keyBitVector
      /\ r.reported = p.reported
  BY <1>4 DEF Parser
<1>6. q = extendedCode(r, code)
  BY <1>1, <1>2, <1>3, <1>4, DispatchKey
<1>7. q = printScreen(r, IF goingDown THEN 0 ELSE kSC_UpBit)
  <2>1. ~\E e \in ExtendedKeys : e[1] = 55
    BY UnusedCodes
  <2>2. q = printScreen(r, IF code < kSC_UpBit THEN 0 ELSE kSC_UpBit)
    BY <1>2, <1>6, <2>1 DEF extendedCode
  <2> QED
    BY <1>2, <2>2, Zenon
<1>8. Effect(r, q, Codes("printScreen"), goingDown)
  BY <1>5, <1>7, PrintScreenEffect
<1> QED
  BY <1>5, <1>8 DEF Effect, GoDown, GoUp

\* The last code of a key.
LEMMA LastOfKey ==
  ASSUME NEW p \in Parser, NEW D, D \subseteq Keys, NEW k \in Keys \cap DOMAIN KeyCode,
         NEW goingDown \in BOOLEAN, p.extendCount = Prefix(k),
         NEW q, q = dispatchKeyboardEventWithScancode(p, UpBit(KeyCode[k].code, goingDown)),
         \/ goingDown = TRUE /\ k \in D /\ Knows(p, D, D \ {k})
         \/ goingDown = FALSE /\ k \notin D /\ Knows(p, D \cup {k}, D)
  PROVE  q.extendCount = 0 /\ Knows(q, D, D)
<1>1. \/ k # "eject" /\ Effect(p, q, Codes(k), goingDown)
      \/ k = "eject" /\ Ejecting(p, q, IF goingDown THEN p.reported \cup Codes(k)
                                       ELSE p.reported \ Codes(k))
  BY KeyEffect
<1>2. CASE goingDown
  <2>1. \/ k # "eject" /\ GoDown(p, q, Codes(k))
        \/ k = "eject" /\ Ejecting(p, q, p.reported \cup Codes(k))
    BY <1>1, <1>2 DEF Effect
  <2>2. k \in D /\ Knows(p, D, D \ {k})
    BY <1>2
  <2>3. q.extendCount = 0 /\ Knows(q, D, (D \ {k}) \cup {k})
    BY <2>1, <2>2, KnowsDown
  <2>4. (D \ {k}) \cup {k} = D
    BY <2>2
  <2> QED
    BY <2>3, <2>4
<1>3. CASE ~goingDown
  <2>1. Releases(p, q, k)
    BY <1>1, <1>3 DEF Effect, Releases
  <2>2. k \notin D /\ Knows(p, D \cup {k}, D) /\ D \subseteq Keys \ {k} /\ k \in Keys
    BY <1>3
  <2> QED
    BY <2>1, <2>2, KnowsUp
<1> QED
  BY <1>2, <1>3

LEMMA HeadTail1 == ASSUME NEW a PROVE Head(<<a>>) = a /\ Tail(<<a>>) = <<>>
OBVIOUS
LEMMA HeadTail2 == ASSUME NEW a, NEW b PROVE Head(<<a, b>>) = a /\ Tail(<<a, b>>) = <<b>>
OBVIOUS
LEMMA HeadTail3 ==
  ASSUME NEW a, NEW b, NEW c PROVE Head(<<a, b, c>>) = a /\ Tail(<<a, b, c>>) = <<b, c>>
OBVIOUS
LEMMA HeadTail4 ==
  ASSUME NEW a, NEW b, NEW c, NEW d
  PROVE  Head(<<a, b, c, d>>) = a /\ Tail(<<a, b, c, d>>) = <<b, c, d>>
OBVIOUS

\* The parser takes the next code off the wire.
LEMMA WireStep ==
  ASSUME NEW p \in Parser, NEW w, w # <<>>, NEW D, D \subseteq Keys, WireInv(p, w, D),
         NEW q, q = dispatchKeyboardEventWithScancode(p, Head(w))
  PROVE  WireInv(q, Tail(w), D)
<1>1. ASSUME q.extendCount = 0, Tail(w) = <<>>, Knows(q, D, D)
      PROVE  WireInv(q, Tail(w), D)
  BY <1>1 DEF WireInv, NothingNew
<1>2. ASSUME NEW k \in Keys \cap DOMAIN KeyCode, KeyDown(p, w, D, k)
      PROVE  WireInv(q, Tail(w), D)
  <2>1. CASE /\ KeyCode[k].extended /\ p.extendCount = 0
             /\ w = <<kSC_Extend, UpBit(KeyCode[k].code, TRUE)>>
    <3>1. Head(w) = kSC_Extend /\ Tail(w) = <<UpBit(KeyCode[k].code, TRUE)>>
      BY <2>1, HeadTail2
    <3>2. q.extendCount = 1 /\ Knows(q, D, D \ {k})
          /\ (k = "delete" /\ debuggingEnabled /\ Alts \subseteq D => Knows(q, D \ {k}, D \ {k}))
      BY <1>2, <3>1, DispatchPrefix DEF KeyDown
    <3>3. Coming(q, Tail(w), k, TRUE)
      BY <2>1, <3>1, <3>2 DEF Coming, Prefix
    <3> QED
      BY <1>2, <3>2, <3>3 DEF WireInv, KeyDown
  <2>2. CASE p.extendCount = Prefix(k) /\ w = <<UpBit(KeyCode[k].code, TRUE)>>
    <3>1. Head(w) = UpBit(KeyCode[k].code, TRUE) /\ Tail(w) = <<>>
      BY <2>2, HeadTail1
    <3>2. k \in D /\ Knows(p, D, D \ {k})
      BY <1>2 DEF KeyDown
    <3>3. q.extendCount = 0 /\ Knows(q, D, D)
      <4>1. p.extendCount = Prefix(k)
        BY <2>2
      <4>2. q = dispatchKeyboardEventWithScancode(p, UpBit(KeyCode[k].code, TRUE)) /\ TRUE \in BOOLEAN
        BY <3>1
      <4> QED
        BY <3>2, <4>1, <4>2, LastOfKey, Zenon
    <3> QED
      BY <1>1, <3>1, <3>3
  <2> QED
    BY <1>2, <2>1, <2>2 DEF KeyDown, Coming
<1>3. ASSUME NEW k \in Keys \cap DOMAIN KeyCode, KeyUp(p, w, D, k)
      PROVE  WireInv(q, Tail(w), D)
  <2>1. CASE /\ KeyCode[k].extended /\ p.extendCount = 0
             /\ w = <<kSC_Extend, UpBit(KeyCode[k].code, FALSE)>>
    <3>1. Head(w) = kSC_Extend /\ Tail(w) = <<UpBit(KeyCode[k].code, FALSE)>>
      BY <2>1, HeadTail2
    <3>2. q.extendCount = 1 /\ Knows(q, D \cup {k}, D)
      BY <1>3, <3>1, DispatchPrefix DEF KeyUp
    <3>3. Coming(q, Tail(w), k, FALSE)
      BY <2>1, <3>1, <3>2 DEF Coming, Prefix
    <3> QED
      BY <1>3, <3>2, <3>3 DEF WireInv, KeyUp
  <2>2. CASE p.extendCount = Prefix(k) /\ w = <<UpBit(KeyCode[k].code, FALSE)>>
    <3>1. Head(w) = UpBit(KeyCode[k].code, FALSE) /\ Tail(w) = <<>>
      BY <2>2, HeadTail1
    <3>2. k \notin D /\ Knows(p, D \cup {k}, D)
      BY <1>3 DEF KeyUp
    <3>3. q.extendCount = 0 /\ Knows(q, D, D)
      <4>1. p.extendCount = Prefix(k)
        BY <2>2
      <4> QED
        BY <3>1, <3>2, <4>1, LastOfKey, ZenonT(40)
    <3> QED
      BY <1>1, <3>1, <3>3
  <2> QED
    BY <1>3, <2>1, <2>2 DEF KeyUp, Coming
<1>4. CASE PictureDown(p, w, D)
  <2>1. "printScreen" \in D /\ Knows(p, D, D \ {"printScreen"})
    BY <1>4 DEF PictureDown
  <2>2. CASE p.extendCount = 0 /\ w = <<kSC_Extend, 42, kSC_Extend, 55>>
    <3>1. Head(w) = kSC_Extend /\ Tail(w) = <<42, kSC_Extend, 55>>
      BY <2>2, HeadTail4
    <3>2. q.extendCount = 1 /\ Knows(q, D, D \ {"printScreen"})
      BY <2>1, <3>1, DispatchPrefix
    <3> QED
      BY <2>1, <3>1, <3>2 DEF WireInv, PictureDown, BothComing
  <2>3. CASE p.extendCount = 1 /\ w = <<42, kSC_Extend, 55>>
    <3>1. Head(w) = 42 /\ Tail(w) = <<kSC_Extend, 55>>
      BY <2>3, HeadTail3
    <3>2. q.extendCount = 0 /\ Knows(q, D, D \ {"printScreen"})
      BY <2>1, <2>3, <3>1, DispatchIgnored
    <3> QED
      BY <2>1, <3>1, <3>2 DEF WireInv, PictureDown, OneComing
  <2>4. CASE p.extendCount = 0 /\ w = <<kSC_Extend, 55>>
    <3>1. Head(w) = kSC_Extend /\ Tail(w) = <<55>>
      BY <2>4, HeadTail2
    <3>2. q.extendCount = 1 /\ Knows(q, D, D \ {"printScreen"})
      BY <2>1, <3>1, DispatchPrefix
    <3> QED
      BY <2>1, <3>1, <3>2 DEF WireInv, PictureDown, OneComing
  <2>5. CASE p.extendCount = 1 /\ w = <<55>>
    <3>1. Head(w) = 55 /\ Tail(w) = <<>>
      BY <2>5, HeadTail1
    <3>2. UpBit(55, TRUE) = 55
      BY DEF UpBit
    <3>3. Effect(p, q, Codes("printScreen"), TRUE)
      BY <2>5, <3>1, <3>2, DispatchPicture
    <3>4. GoDown(p, q, Codes("printScreen"))
      BY <3>3 DEF Effect
    <3>5. q.extendCount = 0 /\ Knows(q, D, (D \ {"printScreen"}) \cup {"printScreen"})
      BY <2>1, <3>4, KnowsDown
    <3>6. (D \ {"printScreen"}) \cup {"printScreen"} = D
      BY <2>1
    <3> QED
      BY <1>1, <3>1, <3>5, <3>6
  <2> QED
    BY <1>4, <2>2, <2>3, <2>4, <2>5 DEF PictureDown, BothComing, OneComing
<1>5. CASE PictureUp(p, w, D)
  <2>1. "printScreen" \in Keys \ D /\ Knows(p, D \cup {"printScreen"}, D)
    BY <1>5 DEF PictureUp
  <2>2. CASE p.extendCount = 0 /\ w = <<kSC_Extend, 183, kSC_Extend, 170>>
    <3>1. Head(w) = kSC_Extend /\ Tail(w) = <<183, kSC_Extend, 170>>
      BY <2>2, HeadTail4
    <3>2. q.extendCount = 1 /\ Knows(q, D \cup {"printScreen"}, D)
      BY <2>1, <3>1, DispatchPrefix
    <3> QED
      BY <2>1, <3>1, <3>2 DEF WireInv, PictureUp, BothComing
  <2>3. CASE p.extendCount = 1 /\ w = <<183, kSC_Extend, 170>>
    <3>1. Head(w) = 183 /\ Tail(w) = <<kSC_Extend, 170>>
      BY <2>3, HeadTail3
    <3>2. UpBit(55, FALSE) = 183
      BY DEF UpBit, kSC_UpBit
    <3>3. Effect(p, q, Codes("printScreen"), FALSE)
      BY <2>3, <3>1, <3>2, DispatchPicture
    <3>4. GoUp(p, q, Codes("printScreen"))
      BY <3>3 DEF Effect
    <3>5. D \subseteq Keys \ {"printScreen"} /\ Releases(p, q, "printScreen")
      BY <2>1, <3>4 DEF Releases
    <3>6. q.extendCount = 0 /\ Knows(q, D, D)
      BY <2>1, <3>5, KnowsUp
    <3> QED
      BY <3>1, <3>6 DEF WireInv, NothingNew, OneComing
  <2> QED
    BY <1>5, <2>2, <2>3 DEF PictureUp, BothComing
<1>6. CASE NothingNew(p, w, D)
  <2>1. Knows(p, D, D)
    BY <1>6 DEF NothingNew
  <2>2. CASE BothComing(p, w, 70, 198)
    <3>1. CASE p.extendCount = 0 /\ w = <<kSC_Extend, 70, kSC_Extend, 198>>
      <4>1. Head(w) = kSC_Extend /\ Tail(w) = <<70, kSC_Extend, 198>>
        BY <3>1, HeadTail4
      <4>2. q.extendCount = 1 /\ Knows(q, D, D)
        BY <2>1, <4>1, DispatchPrefix
      <4> QED
        BY <4>1, <4>2 DEF WireInv, NothingNew, BothComing
    <3>2. CASE p.extendCount = 1 /\ w = <<70, kSC_Extend, 198>>
      <4>1. Head(w) = 70 /\ Tail(w) = <<kSC_Extend, 198>>
        BY <3>2, HeadTail3
      <4>2. q.extendCount = 0 /\ Knows(q, D, D)
        BY <2>1, <3>2, <4>1, DispatchIgnored
      <4> QED
        BY <4>1, <4>2 DEF WireInv, NothingNew, OneComing
    <3> QED
      BY <2>2, <3>1, <3>2 DEF BothComing
  <2>3. ASSUME NEW c \in {198, 170}, OneComing(p, w, c)
        PROVE  WireInv(q, Tail(w), D)
    <3>1. CASE p.extendCount = 0 /\ w = <<kSC_Extend, c>>
      <4>1. Head(w) = kSC_Extend /\ Tail(w) = <<c>>
        BY <3>1, HeadTail2
      <4>2. q.extendCount = 1 /\ Knows(q, D, D)
        BY <2>1, <4>1, DispatchPrefix
      <4> QED
        BY <4>1, <4>2 DEF WireInv, NothingNew, OneComing
    <3>2. CASE p.extendCount = 1 /\ w = <<c>>
      <4>1. Head(w) = c /\ Tail(w) = <<>>
        BY <3>2, HeadTail1
      <4>2. c \in {42, 69, 70, 170, 197, 198}
        OBVIOUS
      <4>3. q.extendCount = 0 /\ Knows(q, D, D)
        <5>1. q = dispatchKeyboardEventWithScancode(p, c)
          BY <4>1
        <5> QED
          BY <2>1, <3>2, <4>2, <5>1, DispatchIgnored
      <4> QED
        BY <1>1, <4>1, <4>3
    <3> QED
      BY <2>3, <3>1, <3>2 DEF OneComing
  <2>4. CASE PauseComing(p, w)
    <3> USE DEF WireInv, NothingNew, PauseComing
    <3>1. CASE p.extendCount = 0 /\ w = <<kSC_Pause, 29, 69, kSC_Pause, 157, 197>>
      <4>1. Head(w) = kSC_Pause /\ Tail(w) = <<29, 69, kSC_Pause, 157, 197>>
        BY <3>1
      <4>2. q.extendCount = 2 /\ Knows(q, D, D)
        BY <2>1, <4>1, DispatchPrefix
      <4> QED
        BY <4>1, <4>2
    <3>2. CASE p.extendCount = 2 /\ w = <<29, 69, kSC_Pause, 157, 197>>
      <4>1. Head(w) = 29 /\ Tail(w) = <<69, kSC_Pause, 157, 197>>
        BY <3>2
      <4>2. q.extendCount = 1 /\ Knows(q, D, D)
        BY <2>1, <3>2, <4>1, DispatchPause
      <4> QED
        BY <4>1, <4>2
    <3>3. CASE p.extendCount = 1 /\ w = <<69, kSC_Pause, 157, 197>>
      <4>1. Head(w) = 69 /\ Tail(w) = <<kSC_Pause, 157, 197>>
        BY <3>3, HeadTail4
      <4>2. q.extendCount = 0 /\ Knows(q, D, D)
        BY <2>1, <3>3, <4>1, DispatchIgnored
      <4> QED
        BY <4>1, <4>2
    <3>4. CASE p.extendCount = 0 /\ w = <<kSC_Pause, 157, 197>>
      <4>1. Head(w) = kSC_Pause /\ Tail(w) = <<157, 197>>
        BY <3>4, HeadTail3
      <4>2. q.extendCount = 2 /\ Knows(q, D, D)
        BY <2>1, <4>1, DispatchPrefix
      <4> QED
        BY <4>1, <4>2
    <3>5. CASE p.extendCount = 2 /\ w = <<157, 197>>
      <4>1. Head(w) = 157 /\ Tail(w) = <<197>>
        BY <3>5, HeadTail2
      <4>2. q.extendCount = 1 /\ Knows(q, D, D)
        BY <2>1, <3>5, <4>1, DispatchPause
      <4> QED
        BY <4>1, <4>2
    <3>6. CASE p.extendCount = 1 /\ w = <<197>>
      <4>1. Head(w) = 197 /\ Tail(w) = <<>>
        BY <3>6, HeadTail1
      <4>2. q.extendCount = 0 /\ Knows(q, D, D)
        BY <2>1, <3>6, <4>1, DispatchIgnored
      <4> QED
        BY <1>1, <4>1, <4>2
    <3> QED
      BY <2>4, <3>1, <3>2, <3>3, <3>4, <3>5, <3>6
  <2> QED
    BY <1>6, <2>2, <2>3, <2>4 DEF NothingNew
<1> QED
  BY <1>2, <1>3, <1>4, <1>5, <1>6 DEF WireInv

\* The state of the parser, and the inductive invariant: when the driver will have taken
\* all codes off the queue, it knows the keys that are held but for what is on the wire.
ParserState == [extendCount |-> extendCount, keyBitVector |-> keyBitVector, reported |-> reported]
KeyInv == \E p \in Parser : Parsing(keyboardQueue, ParserState, p) /\ WireInv(p, wire, down)

\* Delete is the last key of the chord.
DeleteLast ==
  debuggingEnabled /\ Alts \subseteq down /\ "delete" \in down =>
    down = Alts \cup {"delete"} /\ wire = <<kSC_Delete>>

\* No scan code has been dropped.
Room == Len(keyboardQueue) < QueueSize

\* With the gray Delete key the prefix of the chord's last code is left on the queue, ahead
\* of the codes that release the modifiers.
PlainDelete == debuggingEnabled => "grayDelete" \notin Keys

LEMMA ParserTyped == TypeInv => ParserState \in Parser
BY DEF TypeInv, TypeOK, ParserState, Parser

LEMMA WireEmpty ==
  ASSUME NEW p, NEW D, WireInv(p, <<>>, D)
  PROVE  p.extendCount = 0 /\ Knows(p, D, D)
<1>1. \A a : <<>> # <<a>>
  OBVIOUS
<1>2. \A a, b : <<>> # <<a, b>>
  OBVIOUS
<1>3. \A a, b, c : <<>> # <<a, b, c>>
  OBVIOUS
<1>4. \A a, b, c, d : <<>> # <<a, b, c, d>>
  OBVIOUS
<1>5. ~BothComing(p, <<>>, 70, 198) /\ ~BothComing(p, <<>>, 42, 55) /\ ~BothComing(p, <<>>, 183, 170)
  BY <1>3, <1>4 DEF BothComing
<1>6. ~OneComing(p, <<>>, 198) /\ ~OneComing(p, <<>>, 55) /\ ~OneComing(p, <<>>, 170)
  BY <1>1, <1>2 DEF OneComing
<1>7. ~PauseComing(p, <<>>)
  BY DEF PauseComing
<1>8. \A k : ~Coming(p, <<>>, k, TRUE) /\ ~Coming(p, <<>>, k, FALSE)
  BY <1>1, <1>2 DEF Coming
<1> QED
  BY <1>5, <1>6, <1>7, <1>8 DEF WireInv, KeyDown, KeyUp, PictureDown, PictureUp, NothingNew

\* Sent as it is seen by the driver's parser.
LEMMA SentComes ==
  ASSUME NEW p, p.extendCount = 0, NEW k \in DOMAIN KeyCode, NEW goingDown \in BOOLEAN
  PROVE  Coming(p, Sent(k, UpBit(KeyCode[k].code, goingDown)), k, goingDown)
<1>1. KeyCode[k].extended \in BOOLEAN
  BY CodesTyped
<1>2. CASE KeyCode[k].extended = TRUE
  BY <1>2 DEF Sent, Coming
<1>3. CASE KeyCode[k].extended = FALSE
  BY <1>3 DEF Sent, Coming, Prefix
<1> QED
  BY <1>1, <1>2, <1>3

LEMMA StrokeKnown ==
  ASSUME TypeInv, DeleteLast, NEW k \in Keys, press(k) \/ repeat(k) \/ release(k),
         NEW p \in Parser, WireInv(p, wire, down)
  PROVE  WireInv(p, wire', down')
<1>1. wire = <<>> /\ "pause" \notin down /\ down \subseteq Keys
  BY DEF press, repeat, release, TypeInv, TypeOK
<1>2. p.extendCount = 0 /\ Knows(p, down, down)
  BY <1>1, WireEmpty
<1>3. k \in DOMAIN KeyCode \cup {"printScreen", "pause"}
  BY KeyboardAssumption
<1>4. ~(debuggingEnabled /\ Alts \subseteq down /\ "delete" \in down)
  BY <1>1 DEF DeleteLast
<1>5. CASE k \in DOMAIN KeyCode
  <2>1. k \notin {"printScreen", "pause"}
    BY <1>5, CtrlAlone
  <2>2. /\ UpBit(KeyCode[k].code, TRUE) = KeyCode[k].code
        /\ UpBit(KeyCode[k].code, FALSE) = KeyCode[k].code + kSC_UpBit
    BY DEF UpBit
  <2>3. CASE press(k)
    <3>1. down' = down \cup {k} /\ wire' = Sent(k, KeyCode[k].code) /\ k \notin down
      BY <2>1, <2>3 DEF press, Make
    <3>2. Coming(p, wire', k, TRUE)
      BY <1>2, <1>5, <2>2, <3>1, SentComes
    <3>3. down' \ {k} = down /\ down \subseteq down'
      BY <3>1
    <3>4. Knows(p, down', down' \ {k}) /\ Knows(p, down' \ {k}, down' \ {k})
      BY <1>2, <3>3, KnowsLess
    <3> QED
      BY <1>5, <3>1, <3>2, <3>4 DEF WireInv, KeyDown
  <2>4. CASE repeat(k)
    <3>1. down' = down /\ wire' = Sent(k, KeyCode[k].code) /\ k \in down
      BY <2>1, <2>4 DEF repeat, Make
    <3>2. Coming(p, wire', k, TRUE)
      BY <1>2, <1>5, <2>2, <3>1, SentComes
    <3>3. Knows(p, down', down' \ {k})
      BY <1>2, <3>1, KnowsLess
    <3> QED
      BY <1>4, <1>5, <3>1, <3>2, <3>3 DEF WireInv, KeyDown
  <2>5. CASE release(k)
    <3>1. down' = down \ {k} /\ wire' = Sent(k, KeyCode[k].code + kSC_UpBit) /\ k \in down
      BY <2>1, <2>5 DEF release, Break
    <3>2. Coming(p, wire', k, FALSE)
      BY <1>2, <1>5, <2>2, <3>1, SentComes
    <3>3. Knows(p, down' \cup {k}, down')
      BY <1>2, <3>1, KnowsLess
    <3>4. k \notin down' /\ (k = "delete" /\ debuggingEnabled => ~(Alts \subseteq down'))
      BY <1>4, <3>1
    <3> QED
      BY <1>5, <3>2, <3>3, <3>4 DEF WireInv, KeyUp
  <2> QED
    BY <2>3, <2>4, <2>5
<1>6. CASE k = "printScreen" /\ (press(k) \/ repeat(k))
  <2>1. k \in down' /\ down \subseteq down' /\ down' \ {k} \subseteq down /\ wire' = Make(k)
    BY <1>6 DEF press, repeat
  <2>2. Knows(p, down', down' \ {k})
    BY <1>2, <2>1, KnowsLess
  <2>3. wire' = <<kSC_Extend, 42, kSC_Extend, 55>>
    BY <1>6, <2>1 DEF Make
  <2>4. BothComing(p, wire', 42, 55)
    BY <1>2, <2>3 DEF BothComing
  <2> QED
    BY <1>6, <2>1, <2>2, <2>4 DEF WireInv, PictureDown
<1>7. CASE k = "printScreen" /\ release(k)
  <2>1. k \in Keys \ down' /\ down' \subseteq down /\ down \subseteq down' \cup {k} /\ wire' = Break(k)
    BY <1>7 DEF release
  <2>2. Knows(p, down' \cup {k}, down')
    BY <1>2, <2>1, KnowsLess
  <2>3. wire' = <<kSC_Extend, 183, kSC_Extend, 170>>
    BY <1>7, <2>1 DEF Break
  <2>4. BothComing(p, wire', 183, 170)
    BY <1>2, <2>3 DEF BothComing
  <2> QED
    BY <1>7, <2>1, <2>2, <2>4 DEF WireInv, PictureUp
<1>8. CASE k = "pause"
  <2>1. down' = down /\ wire' \in {CtrlBreak, Make(k)}
    BY <1>1, <1>8 DEF press, repeat, release
  <2>2. CASE wire' = CtrlBreak
    <3>1. BothComing(p, wire', 70, 198)
      BY <1>2, <2>2 DEF BothComing, CtrlBreak
    <3> QED
      BY <1>2, <2>1, <3>1 DEF WireInv, NothingNew
  <2>3. CASE wire' = Make(k)
    <3>1. PauseComing(p, wire')
      BY <1>2, <1>8, <2>3 DEF PauseComing, Make
    <3> QED
      BY <1>2, <2>1, <3>1 DEF WireInv, NothingNew
  <2> QED
    BY <2>1, <2>2, <2>3
<1> QED
  BY <1>3, <1>5, <1>6, <1>7, <1>8

\* A queue that is not full afterwards has taken every code.
LEMMA Enqueued ==
  ASSUME keyboardQueue \in Seq(Codebyte), NEW codes \in Seq(Codebyte),
         enqueueKeyboardData(codes), Room'
  PROVE  keyboardQueue' = keyboardQueue \o codes
<1>1. PICK all : all = keyboardQueue \o codes
  OBVIOUS
<1>2. all \in Seq(Codebyte) /\ QueueSize \in Nat /\ Len(all) \in Nat
  BY <1>1, KeyboardAssumption
<1>3. keyboardQueue' = SubSeq(all, 1, IF Len(all) < QueueSize THEN Len(all) ELSE QueueSize)
  BY <1>1 DEF enqueueKeyboardData
<1>4. CASE Len(all) < QueueSize
  <2>1. SubSeq(all, 1, Len(all)) = all
    BY <1>2
  <2> QED
    BY <1>1, <1>3, <1>4, <2>1
<1>5. CASE ~(Len(all) < QueueSize)
  <2>1. Len(SubSeq(all, 1, QueueSize)) = QueueSize
    BY <1>2, <1>5
  <2> QED
    BY <1>2, <1>3, <1>5, <2>1 DEF Room
<1> QED
  BY <1>4, <1>5

LEMMA ConcatOne ==
  ASSUME NEW s \in Seq(Codebyte), NEW a \in Codebyte
  PROVE  s \o <<a>> = Append(s, a) /\ Append(s, a) \in Seq(Codebyte)
OBVIOUS

LEMMA ConcatThree ==
  ASSUME NEW s \in Seq(Codebyte), NEW a \in Codebyte, NEW b \in Codebyte, NEW c \in Codebyte
  PROVE  s \o <<a, b, c>> = Append(Append(Append(s, a), b), c)
<1>1. PICK t : t = <<a, b, c>>
  OBVIOUS
<1>2. Len(t) = 3 /\ t \in Seq(Codebyte) /\ t[1] = a /\ t[2] = b /\ t[3] = c
  BY <1>1
<1>3. PICK n \in Nat : n = Len(s)
  OBVIOUS
<1>4. PICK u : u = s \o t
  OBVIOUS
<1>5. /\ u \in Seq(Codebyte) /\ Len(u) = n + 3
      /\ \A i \in 1..(n + 3) : u[i] = IF i <= n THEN s[i] ELSE t[i - n]
  <2>1. u \in Seq(Codebyte) /\ Len(u) = Len(s) + Len(t)
    BY <1>2, <1>4, ConcatProperties
  <2>2. \A i \in 1..(Len(s) + Len(t)) : u[i] = IF i <= Len(s) THEN s[i] ELSE t[i - Len(s)]
    BY <1>2, <1>4, ConcatProperties
  <2> QED
    BY <1>2, <1>3, <2>1, <2>2
<1>6. PICK x : x = Append(s, a)
  OBVIOUS
<1>7. x \in Seq(Codebyte) /\ Len(x) = n + 1 /\ x[n + 1] = a /\ \A i \in 1..n : x[i] = s[i]
  BY <1>3, <1>6
<1>8. PICK y : y = Append(x, b)
  OBVIOUS
<1>9. y \in Seq(Codebyte) /\ Len(y) = n + 2 /\ y[n + 2] = b /\ \A i \in 1..(n + 1) : y[i] = x[i]
  BY <1>7, <1>8
<1>10. PICK v : v = Append(y, c)
  OBVIOUS
<1>11. v \in Seq(Codebyte) /\ Len(v) = n + 3 /\ v[n + 3] = c /\ \A i \in 1..(n + 2) : v[i] = y[i]
  BY <1>9, <1>10
<1>12. ASSUME NEW i \in 1..(n + 3)
       PROVE  u[i] = v[i]
  <2>1. CASE i \in 1..n
    <3>1. i <= n /\ i \in 1..(n + 1) /\ i \in 1..(n + 2)
      BY <2>1
    <3> QED
      BY <1>5, <1>7, <1>9, <1>11, <2>1, <3>1
  <2>2. CASE i = n + 1
    <3>1. ~(i <= n) /\ i - n = 1 /\ i \in 1..(n + 1) /\ i \in 1..(n + 2)
      BY <2>2
    <3> QED
      BY <1>2, <1>5, <1>7, <1>9, <1>11, <2>2, <3>1
  <2>3. CASE i = n + 2
    <3>1. ~(i <= n) /\ i - n = 2 /\ i \in 1..(n + 2)
      BY <2>3
    <3> QED
      BY <1>2, <1>5, <1>9, <1>11, <2>3, <3>1
  <2>4. CASE i = n + 3
    <3>1. ~(i <= n) /\ i - n = 3
      BY <2>4
    <3> QED
      BY <1>2, <1>5, <1>11, <2>4, <3>1
  <2>5. i \in 1..n \/ i \in {n + 1, n + 2, n + 3}
    OBVIOUS
  <2> QED
    BY <2>1, <2>2, <2>3, <2>4, <2>5
<1>13. u = v
  BY <1>5, <1>11, <1>12
<1> QED
  BY <1>1, <1>4, <1>6, <1>8, <1>10, <1>13

LEMMA HandlerKnown ==
  ASSUME TypeInv, KeyInv, Room', interruptHandlerKeyboard
  PROVE  KeyInv'
<1>1. PICK p \in Parser : Parsing(keyboardQueue, ParserState, p) /\ WireInv(p, wire, down)
  BY DEF KeyInv
<1>2. /\ wire # <<>> /\ wire' = Tail(wire) /\ down' = down /\ ParserState' = ParserState
      /\ enqueueKeyboardData(<<Head(wire)>>)
  BY DEF interruptHandlerKeyboard, keyboard, driver, ParserState
<1>3. /\ keyboardQueue \in Seq(Codebyte) /\ Head(wire) \in Codebyte /\ down \subseteq Keys
      /\ ParserState \in Parser
  BY <1>2, HeadAndTail, ParserTyped, SMTT(30) DEF TypeInv, TypeOK, Codebyte
<1>4. keyboardQueue' = Append(keyboardQueue, Head(wire))
  <2>1. <<Head(wire)>> \in Seq(Codebyte)
    BY <1>3
  <2> QED
    BY <1>2, <1>3, <2>1, Enqueued, ConcatOne
<1>5. PICK q : q = dispatchKeyboardEventWithScancode(p, Head(wire))
  OBVIOUS
<1>6. q \in Parser
  BY <1>3, <1>5, DispatchTyped
<1>7. Parsing(keyboardQueue', ParserState', q)
  BY <1>1, <1>2, <1>3, <1>4, <1>5, ParseLast
<1>8. WireInv(q, wire', down')
  BY <1>1, <1>2, <1>3, <1>5, WireStep
<1> QED
  BY <1>6, <1>7, <1>8 DEF KeyInv

LEMMA DriverKnown ==
  ASSUME TypeInv, KeyInv, interruptOccurred
  PROVE  KeyInv'
<1>1. PICK p \in Parser : Parsing(keyboardQueue, ParserState, p) /\ WireInv(p, wire, down)
  BY DEF KeyInv
<1>2. PICK q : q = dispatchKeyboardEventWithScancode(ParserState, Head(keyboardQueue))
  OBVIOUS
<1>3. /\ keyboardQueue # <<>> /\ keyboardQueue' = Tail(keyboardQueue)
      /\ wire' = wire /\ down' = down
      /\ extendCount' = q.extendCount /\ keyBitVector' = q.keyBitVector /\ reported' = q.reported
  BY <1>2 DEF interruptOccurred, keyboard, ParserState
<1>4. keyboardQueue \in Seq(Codebyte) /\ Head(keyboardQueue) \in Codebyte /\ ParserState \in Parser
  BY <1>3, HeadAndTail, ParserTyped DEF TypeInv, TypeOK, Codebyte
<1>5. q \in Parser
  BY <1>2, <1>4, DispatchTyped
<1>6. q = [extendCount |-> q.extendCount, keyBitVector |-> q.keyBitVector, reported |-> q.reported]
  BY <1>5 DEF Parser
<1>7. ParserState' = q
  BY <1>3, <1>6 DEF ParserState
<1>8. Parsing(keyboardQueue', ParserState', p)
  BY <1>1, <1>2, <1>3, <1>4, <1>7, ParseFirst
<1> QED
  BY <1>1, <1>3, <1>8 DEF KeyInv

\* The chord is complete.
LEMMA AltCodes ==
  /\ "altLeft" \in DOMAIN KeyCode /\ KeyCode["altLeft"] = Unextended(56)
  /\ "altRight" \in DOMAIN KeyCode /\ KeyCode["altRight"] = Extended(56)
  /\ KeyCode["altLeft"].code = 56 /\ ~KeyCode["altLeft"].extended
  /\ KeyCode["altRight"].code = 56 /\ KeyCode["altRight"].extended
  /\ \A k \in DOMAIN KeyCode : KeyCode[k].code = 83 => k \in Deletes
  /\ "delete" \in DOMAIN KeyCode /\ KeyCode["delete"].code = 83 /\ ~KeyCode["delete"].extended
BY DEF KeyCode, Unextended, Extended, kSC_Delete, Deletes

\* The modifiers are released for the driver: left Alt, then right Alt.
LEMMA ChordReleased ==
  ASSUME NEW p, p.extendCount = 0, Alts \subseteq Keys, Knows(p, Alts, {}),
         NEW a, a = dispatchKeyboardEventWithScancode(p, 56 + kSC_UpBit),
         NEW b, b = dispatchKeyboardEventWithScancode(a, kSC_Extend),
         NEW c, c = dispatchKeyboardEventWithScancode(b, 56 + kSC_UpBit)
  PROVE  c.extendCount = 0 /\ Knows(c, {}, {})
<1>1. UpBit(56, FALSE) = 56 + kSC_UpBit
  BY DEF UpBit
<1>2. "altLeft" \in Keys /\ "altRight" \in Keys /\ Alts = {"altRight"} \cup {"altLeft"}
      /\ {"altRight"} = {} \cup {"altRight"}
  BY DEF Alts
<1>3. p \in Parser
  BY DEF Knows
<1>4. a.extendCount = 0 /\ Knows(a, {"altRight"}, {})
  <2>1. p.extendCount = Prefix("altLeft")
    BY AltCodes DEF Prefix
  <2>2. Effect(p, a, Codes("altLeft"), FALSE)
    <3>1. a = dispatchKeyboardEventWithScancode(p, UpBit(KeyCode["altLeft"].code, FALSE))
      BY <1>1, AltCodes
    <3>2. "altLeft" # "eject" /\ FALSE \in BOOLEAN
      OBVIOUS
    <3> QED
      BY <1>3, <2>1, <3>1, <3>2, AltCodes, KeyEffect, Zenon
  <2>3. GoUp(p, a, Codes("altLeft"))
    BY <2>2 DEF Effect
  <2>4. Knows(p, {"altRight"} \cup {"altLeft"}, {})
    BY <1>2
  <2>5. PICK k : k = "altLeft"
    OBVIOUS
  <2>6. k \in Keys /\ k # "eject" /\ GoUp(p, a, Codes(k)) /\ Knows(p, {"altRight"} \cup {k}, {})
    BY <1>2, <2>3, <2>4, <2>5
  <2> QED
    BY <2>6, KnowsPlainUp
<1>5. b.extendCount = 1 /\ Knows(b, {"altRight"}, {})
  BY <1>4, DispatchPrefix
<1>6. b \in Parser
  BY <1>5 DEF Knows
<1>7. b.extendCount = Prefix("altRight")
  BY <1>5, AltCodes DEF Prefix
<1>8. Effect(b, c, Codes("altRight"), FALSE)
  <2>1. c = dispatchKeyboardEventWithScancode(b, UpBit(KeyCode["altRight"].code, FALSE))
    BY <1>1, AltCodes
  <2>2. "altRight" # "eject" /\ FALSE \in BOOLEAN
    OBVIOUS
  <2> QED
    BY <1>6, <1>7, <2>1, <2>2, AltCodes, KeyEffect, Zenon
<1>9. GoUp(b, c, Codes("altRight"))
  BY <1>8 DEF Effect
<1>10. Knows(b, {} \cup {"altRight"}, {})
  BY <1>2, <1>5
<1>11. PICK k : k = "altRight"
  OBVIOUS
<1>12. k \in Keys /\ k # "eject" /\ GoUp(b, c, Codes(k)) /\ Knows(b, {} \cup {k}, {})
  BY <1>2, <1>9, <1>10, <1>11
<1> QED
  BY <1>12, KnowsPlainUp

\* The handler recognises the chord only while both Alt keys are held.
LEMMA ChordHeld ==
  ASSUME TypeInv, ChordInv, debuggingEnabled, wire # <<>>, CallsDebugger(Head(wire))
  PROVE  Alts \subseteq down
<1>1. modifierState = DebuggerChord /\ Head(wire) % 128 = 83
  BY DEF CallsDebugger, kSC_UpBit, kSC_Delete
<1>2. SUFFICES DebuggerChord \subseteq Held
  <2>1. \A k \in DOMAIN KeyCode : /\ KeyCode[k] = Unextended(56) => k = "altLeft"
                                  /\ KeyCode[k] = Extended(56) => k = "altRight"
    BY AltCodes, CodesDiffer
  <2>2. Unextended(56) \in Held /\ Extended(56) \in Held
    BY <1>2 DEF DebuggerChord
  <2> QED
    BY <2>1, <2>2 DEF Held, Alts
<1>3. ASSUME NEW k \in DOMAIN KeyCode, Pressed(k)
      PROVE  DebuggerChord \subseteq Held
  BY <1>1, <1>3, AltCodes DEF Pressed, DebuggerChord, Modifiers, Unextended, Extended
<1>4. ASSUME NEW k \in DOMAIN KeyCode, Released(k)
      PROVE  DebuggerChord \subseteq Held
  <2>1. modifierState \ {KeyCode[k]} = Held
    BY <1>4 DEF Released
  <2>2. KeyCode[k].code \in 1..127
    BY CodesTyped
  <2>3. Head(wire) = kSC_Extend \/ Head(wire) = KeyCode[k].code + 128
    BY <1>4, HeadTail1, HeadTail2 DEF Released, Arriving, kSC_UpBit
  <2>4. (KeyCode[k].code + 128) % 128 = KeyCode[k].code /\ kSC_Extend % 128 = 96
    <3>1. PICK n \in 1..127 : n = KeyCode[k].code
      BY <2>2
    <3>2. (n + 128) % 128 = n
      OBVIOUS
    <3> QED
      BY <3>1, <3>2 DEF kSC_Extend
  <2>5. KeyCode[k].code = 83
    BY <1>1, <2>3, <2>4
  <2>6. KeyCode[k] \notin DebuggerChord
    BY <2>5 DEF DebuggerChord, Unextended, Extended
  <2> QED
    BY <1>1, <2>1, <2>6
<1>5. CASE modifierState = Held
  BY <1>1, <1>5
<1>6. CASE modifierState = Held \cup {Unextended(29)}
  <2>1. Unextended(29) \notin DebuggerChord
    BY DEF DebuggerChord, Unextended, Extended
  <2> QED
    BY <1>1, <1>6, <2>1
<1> QED
  BY <1>3, <1>4, <1>5, <1>6 DEF ChordInv, Sequence, Pausing

\* The code of Delete is the code that completes the chord.
LEMMA ChordCompleted ==
  ASSUME PlainDelete, debuggingEnabled, NEW p, NEW w, NEW D, Alts \subseteq D, WireInv(p, w, D),
         w # <<>>, Head(w) % kSC_UpBit = kSC_Delete
  PROVE  /\ "delete" \in D /\ p.extendCount = 0 /\ w = <<kSC_Delete>>
         /\ Knows(p, D \ {"delete"}, D \ {"delete"})
<1>1. Head(w) % 128 = 83
  BY DEF kSC_UpBit, kSC_Delete
<1>2. ASSUME NEW k \in Keys \cap DOMAIN KeyCode, NEW goingDown \in BOOLEAN, Coming(p, w, k, goingDown)
      PROVE  k = "delete" /\ p.extendCount = 0 /\ w = <<UpBit(83, goingDown)>>
  <2>1. KeyCode[k].code \in 1..127 /\ KeyCode[k].extended \in BOOLEAN
    BY CodesTyped
  <2>2. UpBit(KeyCode[k].code, goingDown) % 128 = KeyCode[k].code
    BY <2>1, CodeParts DEF kSC_UpBit
  <2>3. kSC_Extend % 128 = 96
    BY DEF kSC_Extend
  <2>4. p.extendCount = Prefix(k) /\ w = <<UpBit(KeyCode[k].code, goingDown)>>
    BY <1>1, <1>2, <2>3, HeadTail2 DEF Coming
  <2>5. KeyCode[k].code = 83
    BY <1>1, <2>2, <2>4, HeadTail1
  <2>6. k = "delete"
    BY <2>5, AltCodes DEF PlainDelete, Deletes
  <2> QED
    BY <2>4, <2>6, AltCodes DEF Prefix
<1>3. ~BothComing(p, w, 70, 198) /\ ~BothComing(p, w, 42, 55) /\ ~BothComing(p, w, 183, 170)
  BY <1>1, HeadTail3, HeadTail4 DEF BothComing, kSC_Extend
<1>4. ~OneComing(p, w, 198) /\ ~OneComing(p, w, 55) /\ ~OneComing(p, w, 170)
  BY <1>1, HeadTail1, HeadTail2 DEF OneComing, kSC_Extend
<1>5. ~PauseComing(p, w)
  <2>1. w # <<kSC_Pause, 29, 69, kSC_Pause, 157, 197>>
    BY <1>1 DEF kSC_Pause
  <2>2. w # <<29, 69, kSC_Pause, 157, 197>>
    BY <1>1
  <2>3. w # <<69, kSC_Pause, 157, 197>>
    BY <1>1, HeadTail4
  <2>4. w # <<kSC_Pause, 157, 197>>
    BY <1>1, HeadTail3 DEF kSC_Pause
  <2>5. w # <<157, 197>> /\ w # <<197>>
    BY <1>1, HeadTail1, HeadTail2
  <2> QED
    BY <2>1, <2>2, <2>3, <2>4, <2>5 DEF PauseComing
<1>6. PICK k \in Keys \cap DOMAIN KeyCode : KeyDown(p, w, D, k) \/ KeyUp(p, w, D, k)
  BY <1>3, <1>4, <1>5 DEF WireInv, PictureDown, PictureUp, NothingNew
<1>7. ~KeyUp(p, w, D, k)
  BY <1>2 DEF KeyUp
<1>8. k = "delete" /\ p.extendCount = 0 /\ w = <<UpBit(83, TRUE)>>
  BY <1>2, <1>6, <1>7 DEF KeyDown
<1> QED
  BY <1>6, <1>7, <1>8 DEF KeyDown, UpBit, kSC_Delete

LEMMA DebuggerKnown ==
  ASSUME PlainDelete, TypeInv, ChordInv, DeleteLast, KeyInv, Room', callDebugger
  PROVE  KeyInv'
<1>1. PICK p \in Parser : Parsing(keyboardQueue, ParserState, p) /\ WireInv(p, wire, down)
  BY DEF KeyInv
<1>2. /\ wire # <<>> /\ debuggingEnabled /\ CallsDebugger(Head(wire))
      /\ down' = {} /\ wire' = <<>> /\ ParserState' = ParserState
      /\ enqueueKeyboardData(<<56 + kSC_UpBit, kSC_Extend, 56 + kSC_UpBit>>)
  BY DEF callDebugger, driver, ParserState
<1>3. Alts \subseteq down /\ Head(wire) % kSC_UpBit = kSC_Delete
  BY <1>2, ChordHeld DEF CallsDebugger
<1>4. /\ "delete" \in down /\ p.extendCount = 0
      /\ Knows(p, down \ {"delete"}, down \ {"delete"})
  BY <1>1, <1>2, <1>3, ChordCompleted
<1>5. down \ {"delete"} = Alts
  BY <1>2, <1>3, <1>4 DEF DeleteLast, Alts
<1>6. Knows(p, Alts, {}) /\ Alts \subseteq Keys
  BY <1>3, <1>4, <1>5, KnowsLess DEF TypeInv, TypeOK
<1>7. PICK alt : alt = 56 + kSC_UpBit
  OBVIOUS
<1>8. alt \in Codebyte /\ kSC_Extend \in Codebyte
  BY <1>7 DEF Codebyte, kSC_UpBit, kSC_Extend
<1>9. PICK a : a = dispatchKeyboardEventWithScancode(p, alt)
  OBVIOUS
<1>10. PICK b : b = dispatchKeyboardEventWithScancode(a, kSC_Extend)
  OBVIOUS
<1>11. PICK c : c = dispatchKeyboardEventWithScancode(b, alt)
  OBVIOUS
<1>12. a \in Parser /\ b \in Parser /\ c \in Parser
  BY <1>8, <1>9, <1>10, <1>11, DispatchTyped
<1>13. c.extendCount = 0 /\ Knows(c, {}, {})
  BY <1>4, <1>6, <1>7, <1>9, <1>10, <1>11, ChordReleased
<1>14. keyboardQueue \in Seq(Codebyte) /\ ParserState \in Parser
  BY ParserTyped DEF TypeInv, TypeOK, Codebyte
<1>15. PICK s : s = Append(keyboardQueue, alt)
  OBVIOUS
<1>16. PICK t : t = Append(s, kSC_Extend)
  OBVIOUS
<1>17. PICK u : u = Append(t, alt)
  OBVIOUS
<1>18. s \in Seq(Codebyte) /\ t \in Seq(Codebyte)
  BY <1>8, <1>14, <1>15, <1>16, ConcatOne
<1>19. Parsing(s, ParserState, a)
  BY <1>1, <1>8, <1>9, <1>14, <1>15, ParseLast
<1>20. Parsing(t, ParserState, b)
  BY <1>8, <1>10, <1>12, <1>14, <1>16, <1>18, <1>19, ParseLast
<1>21. Parsing(u, ParserState, c)
  BY <1>8, <1>11, <1>12, <1>14, <1>17, <1>18, <1>20, ParseLast
<1>22. keyboardQueue' = u
  <2>1. <<alt, kSC_Extend, alt>> \in Seq(Codebyte)
    BY <1>8
  <2>2. keyboardQueue' = keyboardQueue \o <<alt, kSC_Extend, alt>>
    BY <1>2, <1>7, <1>14, <2>1, Enqueued
  <2> QED
    BY <1>8, <1>14, <1>15, <1>16, <1>17, <2>2, ConcatThree
<1>23. WireInv(c, wire', down')
  BY <1>2, <1>13 DEF WireInv, NothingNew
<1> QED
  BY <1>2, <1>12, <1>21, <1>22, <1>23 DEF KeyInv

\* Delete completes the chord and nothing is pressed after it: the handler takes its code
\* for the chord's.
LEMMA ChordTaken ==
  ASSUME ChordInv, DeleteLast, debuggingEnabled, Alts \subseteq down, "delete" \in down
  PROVE  CallsDebugger(Head(wire))
<1>1. down = Alts \cup {"delete"} /\ wire = <<83>>
  BY DEF DeleteLast, kSC_Delete
<1>2. Head(wire) = 83 /\ 83 % 128 = 83
  BY <1>1, HeadTail1
<1>3. Held = DebuggerChord
  <2>1. down \cap DOMAIN KeyCode = {"altLeft", "altRight", "delete"}
    BY <1>1, AltCodes DEF Alts
  <2>2. KeyCode["delete"] \notin Modifiers
    BY AltCodes DEF Modifiers, Unextended, Extended
  <2>3. Unextended(56) \in Modifiers /\ Extended(56) \in Modifiers
    BY DEF Modifiers
  <2> QED
    BY <2>1, <2>2, <2>3, AltCodes DEF Held, DebuggerChord
<1>4. wire # <<>> /\ \A a : wire = <<a>> => a = 83
  BY <1>1
<1>5. /\ \A a, b : wire # <<a, b>>
      /\ \A a, b, c : wire # <<a, b, c>>
      /\ \A a, b, c, d : wire # <<a, b, c, d>>
  BY <1>1
<1>6. wire # <<29, 69, kSC_Pause, 157, 197>> /\ wire # <<kSC_Pause, 29, 69, kSC_Pause, 157, 197>>
  BY <1>1
<1>7. ~Sequence(42, 55) /\ ~Sequence(183, 170) /\ ~Sequence(70, 198)
  BY <1>4, <1>5 DEF Sequence
<1>8. ~Pausing
  BY <1>4, <1>5, <1>6 DEF Pausing
<1>9. \A k \in DOMAIN KeyCode : ~Released(k)
  <2>1. \A k \in DOMAIN KeyCode : KeyCode[k].code \in 1..127
    BY CodesTyped
  <2>2. \A n \in 1..127 : n + 128 # 83
    OBVIOUS
  <2> QED
    BY <1>4, <1>5, <2>1, <2>2 DEF Released, Arriving, kSC_UpBit
<1>10. PICK k \in DOMAIN KeyCode : Pressed(k)
  BY <1>4, <1>7, <1>8, <1>9 DEF ChordInv
<1>11. KeyCode[k].code = 83
  BY <1>4, <1>5, <1>10 DEF Pressed, Arriving
<1>12. modifierState = DebuggerChord
  <2>1. KeyCode[k] \notin Modifiers
    BY <1>11 DEF Modifiers, Unextended, Extended
  <2> QED
    BY <1>3, <1>10, <2>1 DEF Pressed
<1>13. ~IsModifier(83)
  <2>1. [extended |-> extendedState, code |-> 83].code = 83
    OBVIOUS
  <2> QED
    BY <1>2, <2>1 DEF IsModifier, Modifiers, Unextended, Extended, kSC_UpBit
<1> QED
  BY <1>2, <1>12, <1>13 DEF CallsDebugger, kSC_UpBit, kSC_Extend, kSC_Delete

LEMMA StepDeleteLast ==
  ASSUME ChordInv, DeleteLast, [Next]_vars
  PROVE  DeleteLast'
<1>1. SUFFICES ASSUME debuggingEnabled, Alts \subseteq down', "delete" \in down'
               PROVE  down' = Alts \cup {"delete"} /\ wire' = <<kSC_Delete>>
  BY DEF DeleteLast
<1>2. ~(wire = <<>> /\ Alts \subseteq down /\ "delete" \in down)
  BY <1>1 DEF DeleteLast
<1>3. ASSUME NEW k \in Keys, press(k)
      PROVE  down' = Alts \cup {"delete"} /\ wire' = <<kSC_Delete>>
  <2>1. /\ wire = <<>> /\ k \notin down /\ ChordInOrder(k)
        /\ down' = IF k = "pause" THEN down ELSE down \cup {k}
        /\ wire' = IF k = "pause" /\ "ctrlLeft" \in down THEN CtrlBreak ELSE Make(k)
    BY <1>3 DEF press
  <2>2. k \in Alts \cup {"delete"}
    BY <1>1, <1>2, <2>1
  <2>3. CASE k = "delete"
    <3>1. "delete" \notin Alts /\ k # "pause" /\ k # "printScreen"
      BY <2>3 DEF Alts
    <3>2. Alts \subseteq down
      BY <1>1, <2>1, <2>3, <3>1
    <3>3. down = Alts
      BY <2>1, <2>3, <3>2 DEF ChordInOrder, Deletes
    <3>4. wire' = Sent(k, KeyCode[k].code)
      BY <2>1, <3>1 DEF Make
    <3>5. wire' = <<kSC_Delete>>
      BY <2>3, <3>4, AltCodes DEF Sent, kSC_Delete
    <3> QED
      BY <2>1, <2>3, <3>1, <3>3, <3>5
  <2>4. CASE k \in Alts
    <3>1. k # "pause" /\ k # "delete" /\ "delete" \in down
      BY <1>1, <2>1, <2>4 DEF Alts
    <3>2. down \cap Alts = {}
      BY <2>1, <2>4, <3>1 DEF ChordInOrder, Deletes
    <3>3. Alts \subseteq down \cup {k}
      BY <1>1, <2>1, <3>1
    <3> QED
      BY <3>2, <3>3 DEF Alts
  <2> QED
    BY <2>2, <2>3, <2>4
<1>4. ASSUME NEW k \in Keys, repeat(k) \/ release(k)
      PROVE  FALSE
  BY <1>1, <1>2, <1>4 DEF repeat, release
<1>5. CASE interruptHandlerKeyboard
  <2>1. down' = down /\ ~CallsDebugger(Head(wire))
    BY <1>1, <1>5 DEF interruptHandlerKeyboard, keyboard
  <2> QED
    BY <1>1, <2>1, ChordTaken
<1>6. CASE callDebugger
  BY <1>1, <1>6 DEF callDebugger
<1>7. CASE interruptOccurred \/ UNCHANGED vars
  <2>1. down' = down /\ wire' = wire
    BY <1>7 DEF interruptOccurred, keyboard, vars
  <2> QED
    BY <1>1, <2>1 DEF DeleteLast
<1> QED
  BY <1>3, <1>4, <1>5, <1>6, <1>7 DEF Next

LEMMA StepKnown ==
  ASSUME PlainDelete, TypeInv, ChordInv, DeleteLast, KeyInv, Room', [Next]_vars
  PROVE  KeyInv'
<1>1. ASSUME NEW k \in Keys, press(k) \/ repeat(k) \/ release(k)
      PROVE  KeyInv'
  <2>1. PICK p \in Parser : Parsing(keyboardQueue, ParserState, p) /\ WireInv(p, wire, down)
    BY DEF KeyInv
  <2>2. WireInv(p, wire', down')
    BY <1>1, <2>1, StrokeKnown
  <2>3. keyboardQueue' = keyboardQueue /\ ParserState' = ParserState
    BY <1>1 DEF press, repeat, release, driver, ParserState
  <2> QED
    BY <2>1, <2>2, <2>3 DEF KeyInv
<1>2. CASE UNCHANGED vars
  BY <1>2 DEF vars, KeyInv, ParserState
<1> QED
  BY <1>1, <1>2, HandlerKnown, DebuggerKnown, DriverKnown DEF Next

LEMMA InitKnown == Init => KeyInv /\ DeleteLast
<1>1. SUFFICES ASSUME Init PROVE KeyInv /\ DeleteLast
  OBVIOUS
<1>2. ParserState \in Parser
  BY <1>1, InitTyped, ParserTyped
<1>3. Parsing(keyboardQueue, ParserState, ParserState)
  BY <1>1, <1>2, ParseNothing DEF Init
<1>4. Knows(ParserState, {}, {}) /\ ParserState.extendCount = 0
  BY <1>1, <1>2 DEF Init, Knows, ParserState
<1>5. WireInv(ParserState, wire, down)
  BY <1>1, <1>4 DEF Init, WireInv, NothingNew
<1>6. DeleteLast
  BY <1>1 DEF Init, DeleteLast
<1> QED
  BY <1>2, <1>3, <1>5, <1>6 DEF KeyInv

\* The inductive invariant when nothing is on its way.
LEMMA QuietKnows ==
  ASSUME TypeInv, KeyInv, Quiet
  PROVE  extendCount = 0 /\ Knows(ParserState, down, down)
<1>1. PICK p \in Parser : Parsing(<<>>, ParserState, p) /\ WireInv(p, <<>>, down)
  BY DEF KeyInv, Quiet
<1>2. p = ParserState
  BY <1>1, ParserTyped, ParseNothing
<1>3. ParserState.extendCount = extendCount
  BY DEF ParserState
<1> QED
  BY <1>1, <1>2, <1>3, WireEmpty

\* Every key but Pause, which is never held, has a key code.
LEMMA KeysHaveCodes ==
  ASSUME NEW k \in Keys, k # "pause"
  PROVE  Codes(k) # {}
<1>1. k \in DOMAIN KeyCode \cup {"printScreen"}
  BY KeyboardAssumption
<1>2. CASE k = "printScreen"
  <2>1. plainKeyCode(5) \in printScreenCodes
    BY DEF printScreenCodes
  <2> QED
    BY <1>2, <2>1, PrintScreenCodes
<1>3. CASE k = "eject"
  BY <1>3, EjectCodes DEF ejectCodes
<1>4. CASE k \in DOMAIN KeyCode \ {"eject"} /\ KeyCode[k].extended
  <2>1. KeyCode[k].code \in {56, 83, 92, 93}
    BY <1>4 DEF KeyCode, Extended, Unextended, kSC_Delete
  <2>2. PICK v \in 1..127 : Entry(KeyCode[k].code, v)
    BY <2>1, ExtendedTable
  <2>3. Codes(k) = {x[2] : x \in {y \in ExtendedKeys : y[1] = KeyCode[k].code}}
    BY <1>4, CtrlAlone DEF Codes
  <2> QED
    BY <2>2, <2>3, Zenon DEF Entry
<1>5. CASE k \in DOMAIN KeyCode /\ ~KeyCode[k].extended
  <2>1. k # "eject" /\ k # "printScreen"
    BY <1>5, CtrlAlone DEF KeyCode, Extended
  <2>2. Codes(k) = {plainKeyCode(KeyCode[k].code)}
    BY <1>5, <2>1 DEF Codes
  <2> QED
    BY <2>2
<1> QED
  BY <1>1, <1>2, <1>3, <1>4, <1>5

LEMMA KnownKeys ==
  ASSUME TypeInv, KeyInv
  PROVE  NoStuckKeys /\ HeldKeysReported
<1>1. NoStuckKeys
  <2>1. SUFFICES ASSUME Quiet, down = {} PROVE keyBitVector = {} /\ reported = {} /\ extendCount = 0
    BY DEF NoStuckKeys
  <2>2. extendCount = 0 /\ Knows(ParserState, {}, {})
    BY <2>1, QuietKnows
  <2>3. AllCodes({}) = {} /\ {} \ {"eject"} = {}
    BY DEF AllCodes
  <2> QED
    BY <2>2, <2>3 DEF Knows, ParserState
<1>2. HeldKeysReported
  <2>1. SUFFICES ASSUME Quiet, NEW k \in Keys, Alone(k)
                 PROVE  k \in down <=> Codes(k) # {} /\ Codes(k) \subseteq reported
    BY DEF HeldKeysReported, Alone
  <2>2. Knows(ParserState, down, down) /\ ParserState.reported = reported
    BY <2>1, QuietKnows DEF ParserState
  <2>3. down \subseteq Keys /\ "pause" \notin down
    BY DEF TypeInv, TypeOK
  <2>4. ASSUME k \in down
        PROVE  Codes(k) # {} /\ Codes(k) \subseteq reported
    BY <2>1, <2>2, <2>3, <2>4, KeysHaveCodes DEF Knows
  <2>5. ASSUME k \notin down, Codes(k) # {}, Codes(k) \subseteq reported
        PROVE  FALSE
    <3>1. PICK c : c \in Codes(k)
      BY <2>5
    <3>2. c \in AllCodes(down)
      BY <2>2, <2>5, <3>1 DEF Knows
    <3>3. PICK j \in down : c \in Codes(j)
      BY <3>2 DEF AllCodes
    <3> QED
      BY <2>1, <2>3, <2>5, <3>1, <3>3 DEF Alone
  <2> QED
    BY <2>4, <2>5
<1> QED
  BY <1>1, <1>2

\* No key sticks, whatever keys there are and whatever the settings, as long as the queue
\* between the interrupt handler and the work loop does not fill up (a full queue drops scan
\* codes, releases among them) and the debugger is not called with the gray Delete key.
THEOREM NoKeySticks ==
  ASSUME PlainDelete
  PROVE  Spec /\ []Room => []NoStuckKeys
<1>1. TypeInv /\ ChordInv /\ KeyInv => NoStuckKeys
  BY KnownKeys
<1>2. Init => TypeInv /\ ChordInv /\ KeyInv /\ DeleteLast
  BY InitTyped, InitChord, InitKnown
<1>3. TypeInv /\ ChordInv /\ KeyInv /\ DeleteLast /\ Room' /\ [Next]_vars
        => TypeInv' /\ ChordInv' /\ KeyInv' /\ DeleteLast'
  BY StepTyped, StepNoted, StepKnown, StepDeleteLast
<1> QED
  BY <1>1, <1>2, <1>3, PTL DEF Spec

\* A key that shares its key codes with no other is down for the HID system exactly while
\* it is held, under the same conditions.
THEOREM HeldKeysAlwaysReported ==
  ASSUME PlainDelete
  PROVE  Spec /\ []Room => []HeldKeysReported
<1>1. TypeInv /\ ChordInv /\ KeyInv => HeldKeysReported
  BY KnownKeys
<1>2. Init => TypeInv /\ ChordInv /\ KeyInv /\ DeleteLast
  BY InitTyped, InitChord, InitKnown
<1>3. TypeInv /\ ChordInv /\ KeyInv /\ DeleteLast /\ Room' /\ [Next]_vars
        => TypeInv' /\ ChordInv' /\ KeyInv' /\ DeleteLast'
  BY StepTyped, StepNoted, StepKnown, StepDeleteLast
<1> QED
  BY <1>1, <1>2, <1>3, PTL DEF Spec

-----------------------------------------------------------------------------
(* How many scan codes a number of strokes can put on the queue.           *)

\* A stroke sends up to four codes and its release as many, and Pause sends six: what is on
\* its way, with the releases still to come, is at most eight codes for each stroke.
Sending(q, w, D, n) ==
  /\ q \in Seq(Codebyte) /\ w \in Seq(Codebyte) /\ IsFiniteSet(D) /\ n \in Nat
  /\ Len(q) + Len(w) + 4 * Cardinality(D) <= 8 * n
QueueInv == Sending(keyboardQueue, wire, down, strokes)

LEMMA SequenceLengths ==
  ASSUME NEW k \in DOMAIN KeyCode \cup {"printScreen", "pause"}
  PROVE  /\ k = "pause" => Len(Make(k)) <= 6
         /\ k # "pause" => Len(Make(k)) <= 4 /\ Len(Break(k)) <= 4
         /\ Len(CtrlBreak) = 4
<1>1. Len(CtrlBreak) = 4
  BY DEF CtrlBreak
<1>2. CASE k = "printScreen"
  <2>1. /\ Len(<<kSC_Extend, 42, kSC_Extend, 55>>) = 4
        /\ Len(<<kSC_Extend, 183, kSC_Extend, 170>>) = 4
    OBVIOUS
  <2> QED
    BY <1>1, <1>2, <2>1 DEF Make, Break
<1>3. CASE k = "pause"
  <2>1. Len(<<kSC_Pause, 29, 69, kSC_Pause, 157, 197>>) = 6
    OBVIOUS
  <2> QED
    BY <1>1, <1>3, <2>1 DEF Make
<1>4. CASE k \notin {"printScreen", "pause"}
  <2>1. \A c : Len(<<kSC_Extend, c>>) = 2 /\ Len(<<c>>) = 1
    OBVIOUS
  <2>2. \A c : Len(Sent(k, c)) \in {1, 2}
    BY <2>1 DEF Sent
  <2>3. Make(k) = Sent(k, KeyCode[k].code) /\ Break(k) = Sent(k, KeyCode[k].code + kSC_UpBit)
    BY <1>4 DEF Make, Break
  <2>4. Len(Make(k)) \in {1, 2} /\ Len(Break(k)) \in {1, 2}
    BY <2>2, <2>3
  <2>5. \A n \in {1, 2} : n <= 4
    OBVIOUS
  <2>6. Len(Make(k)) <= 4 /\ Len(Break(k)) <= 4
    BY <2>4, <2>5
  <2> QED
    BY <1>1, <1>4, <2>6
<1> QED
  BY <1>2, <1>3, <1>4

LEMMA EnqueueLength ==
  ASSUME keyboardQueue \in Seq(Codebyte), NEW codes \in Seq(Codebyte), enqueueKeyboardData(codes)
  PROVE  /\ keyboardQueue' \in Seq(Codebyte)
         /\ Len(keyboardQueue') <= Len(keyboardQueue) + Len(codes)
<1>1. PICK all : all = keyboardQueue \o codes
  OBVIOUS
<1>2. all \in Seq(Codebyte) /\ Len(all) = Len(keyboardQueue) + Len(codes) /\ QueueSize \in Nat
  BY <1>1, KeyboardAssumption, ConcatProperties
<1>3. PICK m : m = IF Len(all) < QueueSize THEN Len(all) ELSE QueueSize
  OBVIOUS
<1>4. m \in 0..Len(all)
  BY <1>2, <1>3
<1>5. keyboardQueue' = SubSeq(all, 1, m)
  BY <1>1, <1>3 DEF enqueueKeyboardData
<1>6. Len(SubSeq(all, 1, m)) = m
  BY <1>2, <1>4
<1>7. keyboardQueue' \in Seq(Codebyte)
  BY EnqueueTyped
<1> QED
  BY <1>2, <1>4, <1>5, <1>6, <1>7

\* The arithmetic of a step: codes move, and a stroke pays for the codes it adds.
LEMMA Budget ==
  ASSUME NEW q \in Nat, NEW w \in Nat, NEW d \in Nat, NEW n \in Nat, q + w + 4 * d <= 8 * n,
         NEW q1 \in Nat, NEW w1 \in Nat, NEW d1 \in Nat, NEW n1 \in Nat,
         \/ n1 = n + 1 /\ q1 + w1 + 4 * d1 <= q + w + 4 * d + 8
         \/ n1 = n /\ q1 + w1 + 4 * d1 <= q + w + 4 * d
  PROVE  q1 + w1 + 4 * d1 <= 8 * n1
OBVIOUS

LEMMA StrokeBudget ==
  ASSUME NEW q \in Nat, NEW w \in Nat, w = 0, NEW d \in Nat, NEW q1, q1 = q, NEW w1 \in Nat, NEW d1,
         (w1 <= 6 /\ d1 = d) \/ (w1 <= 4 /\ d1 = d + 1)
  PROVE  q1 + w1 + 4 * d1 <= q + w + 4 * d + 8
OBVIOUS

LEMMA Paid ==
  ASSUME QueueInv, keyboardQueue' \in Seq(Codebyte), wire' \in Seq(Codebyte), IsFiniteSet(down'),
         strokes' \in Nat,
         LET before == Len(keyboardQueue) + Len(wire) + 4 * Cardinality(down)
             after == Len(keyboardQueue') + Len(wire') + 4 * Cardinality(down')
         IN  \/ strokes' = strokes + 1 /\ after <= before + 8
             \/ strokes' = strokes /\ after <= before
  PROVE  QueueInv'
<1>1. /\ Len(keyboardQueue) \in Nat /\ Len(wire) \in Nat /\ strokes \in Nat
      /\ Len(keyboardQueue') \in Nat /\ Len(wire') \in Nat
  BY DEF QueueInv, Sending
<1>2. Cardinality(down) \in Nat /\ Cardinality(down') \in Nat
  BY FS_CardinalityType DEF QueueInv, Sending
<1>3. Len(keyboardQueue) + Len(wire) + 4 * Cardinality(down) <= 8 * strokes
  BY DEF QueueInv, Sending
<1>4. Len(keyboardQueue') + Len(wire') + 4 * Cardinality(down') <= 8 * strokes'
  BY <1>1, <1>2, <1>3, Budget, SMTT(30)
<1> QED
  BY <1>4 DEF QueueInv, Sending

LEMMA StepPaid ==
  ASSUME TypeInv, TypeInv', ChordInv, QueueInv, [Next]_vars
  PROVE  QueueInv'
<1>1. /\ keyboardQueue' \in Seq(Codebyte) /\ wire' \in Seq(Codebyte) /\ strokes' \in Nat
      /\ keyboardQueue \in Seq(Codebyte) /\ wire \in Seq(Codebyte) /\ strokes \in Nat
  BY DEF TypeInv, TypeOK, Codebyte
<1>2. IsFiniteSet(down) /\ Cardinality(down) \in Nat
  BY FS_CardinalityType DEF QueueInv, Sending
<1>3. Len(<<>>) = 0 /\ Len(keyboardQueue) \in Nat /\ Len(wire) \in Nat /\ Len(wire') \in Nat
      /\ Len(keyboardQueue') \in Nat
  BY <1>1
<1>4. ASSUME NEW k \in Keys, press(k)
      PROVE  QueueInv'
  <2>1. /\ wire = <<>> /\ k \notin down /\ keyboardQueue' = keyboardQueue /\ strokes' = strokes + 1
        /\ down' = IF k = "pause" THEN down ELSE down \cup {k}
        /\ wire' = IF k = "pause" /\ "ctrlLeft" \in down THEN CtrlBreak ELSE Make(k)
    BY <1>4 DEF press
  <2>2. k \in DOMAIN KeyCode \cup {"printScreen", "pause"}
    BY KeyboardAssumption
  <2>3. Len(wire) = 0 /\ Len(keyboardQueue') = Len(keyboardQueue)
    BY <1>3, <2>1
  <2>4. CASE k = "pause"
    <3>1. down' = down /\ (wire' = CtrlBreak \/ wire' = Make(k))
      BY <2>1, <2>4
    <3>2. Len(wire') <= 6
      <4>1. CASE wire' = CtrlBreak
        <5>1. Len(wire') = 4
          BY <2>2, <4>1, SequenceLengths
        <5> QED
          BY <5>1
      <4>2. CASE wire' = Make(k)
        BY <2>2, <2>4, <4>2, SequenceLengths
      <4> QED
        BY <3>1, <4>1, <4>2
    <3>3. Len(keyboardQueue') + Len(wire') + 4 * Cardinality(down')
            <= Len(keyboardQueue) + Len(wire) + 4 * Cardinality(down) + 8
      BY <1>2, <1>3, <2>3, <3>1, <3>2, StrokeBudget
    <3> QED
      BY <1>1, <1>2, <2>1, <3>1, <3>3, Paid
  <2>5. CASE k # "pause"
    <3>1. down' = down \cup {k} /\ wire' = Make(k)
      BY <2>1, <2>5
    <3>2. Len(wire') <= 4
      BY <2>2, <2>5, <3>1, SequenceLengths
    <3>3. IsFiniteSet(down') /\ Cardinality(down') = Cardinality(down) + 1
      BY <1>2, <2>1, <3>1, FS_AddElement
    <3>4. Len(keyboardQueue') + Len(wire') + 4 * Cardinality(down')
            <= Len(keyboardQueue) + Len(wire) + 4 * Cardinality(down) + 8
      BY <1>2, <1>3, <2>3, <3>2, <3>3, StrokeBudget
    <3> QED
      BY <1>1, <2>1, <3>3, <3>4, Paid
  <2> QED
    BY <2>4, <2>5
<1>5. ASSUME NEW k \in Keys, repeat(k)
      PROVE  QueueInv'
  <2>1. /\ wire = <<>> /\ keyboardQueue' = keyboardQueue /\ strokes' = strokes + 1 /\ down' = down
        /\ wire' = Make(k)
    BY <1>5 DEF repeat
  <2>2. Len(wire') <= 8
    <3>1. k \in DOMAIN KeyCode \cup {"printScreen", "pause"}
      BY KeyboardAssumption
    <3>2. Len(wire') <= 6 \/ Len(wire') <= 4
      BY <2>1, <3>1, SequenceLengths
    <3> QED
      BY <1>3, <3>2
  <2>3. Len(wire) = 0
    BY <1>3, <2>1
  <2>4. Len(keyboardQueue') + Len(wire') + 4 * Cardinality(down')
          <= Len(keyboardQueue) + Len(wire) + 4 * Cardinality(down) + 8
    BY <1>2, <1>3, <2>1, <2>2, <2>3
  <2> QED
    BY <1>1, <1>2, <2>1, <2>4, Paid
<1>6. ASSUME NEW k \in Keys, release(k)
      PROVE  QueueInv'
  <2>1. /\ wire = <<>> /\ keyboardQueue' = keyboardQueue /\ strokes' = strokes
        /\ down' = down \ {k} /\ k \in down /\ wire' = Break(k)
    BY <1>6 DEF release
  <2>2. Len(wire') <= 4
    <3>1. k \in DOMAIN KeyCode \cup {"printScreen", "pause"} /\ k # "pause"
      BY <2>1, KeyboardAssumption DEF TypeInv
    <3> QED
      BY <2>1, <3>1, SequenceLengths
  <2>3. IsFiniteSet(down') /\ Cardinality(down') = Cardinality(down) - 1
    BY <1>2, <2>1, FS_RemoveElement
  <2>4. Len(wire) = 0
    BY <1>3, <2>1
  <2>5. Len(keyboardQueue') + Len(wire') + 4 * Cardinality(down')
          <= Len(keyboardQueue) + Len(wire) + 4 * Cardinality(down)
    BY <1>2, <1>3, <2>1, <2>2, <2>3, <2>4
  <2> QED
    BY <1>1, <2>1, <2>3, <2>5, Paid
<1>7. CASE interruptHandlerKeyboard
  <2>1. /\ wire # <<>> /\ wire' = Tail(wire) /\ enqueueKeyboardData(<<Head(wire)>>)
        /\ strokes' = strokes /\ down' = down
    BY <1>7 DEF interruptHandlerKeyboard, keyboard
  <2>2. Head(wire) \in Codebyte /\ Len(wire') = Len(wire) - 1
    BY <1>1, <2>1, HeadAndTail
  <2>3. <<Head(wire)>> \in Seq(Codebyte) /\ Len(<<Head(wire)>>) = 1
    BY <2>2
  <2>4. Len(keyboardQueue') <= Len(keyboardQueue) + 1
    BY <1>1, <2>1, <2>3, EnqueueLength
  <2>5. Len(keyboardQueue') + Len(wire') + 4 * Cardinality(down')
          <= Len(keyboardQueue) + Len(wire) + 4 * Cardinality(down)
    BY <1>2, <1>3, <2>1, <2>2, <2>4
  <2> QED
    BY <1>1, <1>2, <2>1, <2>5, Paid
<1>8. CASE callDebugger
  <2>1. /\ wire # <<>> /\ debuggingEnabled /\ CallsDebugger(Head(wire))
        /\ wire' = <<>> /\ down' = {} /\ strokes' = strokes
        /\ enqueueKeyboardData(<<56 + kSC_UpBit, kSC_Extend, 56 + kSC_UpBit>>)
    BY <1>8 DEF callDebugger
  <2>2. PICK codes : codes = <<56 + kSC_UpBit, kSC_Extend, 56 + kSC_UpBit>>
    OBVIOUS
  <2>3. codes \in Seq(Codebyte) /\ Len(codes) = 3
    BY <2>2 DEF Codebyte, kSC_UpBit, kSC_Extend
  <2>4. Len(keyboardQueue') <= Len(keyboardQueue) + 3
    BY <1>1, <2>1, <2>2, <2>3, EnqueueLength
  <2>5. Cardinality(down) >= 1
    <3>1. down # {}
      BY <2>1, ChordHeld DEF Alts
    <3>2. Cardinality(down) # 0
      BY <1>2, <3>1, FS_EmptySet
    <3> QED
      BY <1>2, <3>2
  <2>6. IsFiniteSet(down') /\ Cardinality(down') = 0 /\ Len(wire') = 0
    BY <1>3, <2>1, FS_EmptySet
  <2>7. Len(keyboardQueue') + Len(wire') + 4 * Cardinality(down')
          <= Len(keyboardQueue) + Len(wire) + 4 * Cardinality(down)
    BY <1>2, <1>3, <2>4, <2>5, <2>6
  <2> QED
    BY <1>1, <2>1, <2>6, <2>7, Paid
<1>9. CASE interruptOccurred
  <2>1. /\ keyboardQueue # <<>> /\ keyboardQueue' = Tail(keyboardQueue)
        /\ wire' = wire /\ strokes' = strokes /\ down' = down
    BY <1>9 DEF interruptOccurred, keyboard
  <2>2. Len(keyboardQueue') = Len(keyboardQueue) - 1
    BY <1>1, <2>1, HeadAndTail
  <2>3. Len(keyboardQueue') + Len(wire') + 4 * Cardinality(down')
          <= Len(keyboardQueue) + Len(wire) + 4 * Cardinality(down)
    BY <1>2, <1>3, <2>1, <2>2
  <2> QED
    BY <1>1, <1>2, <2>1, <2>3, Paid
<1>10. CASE UNCHANGED vars
  BY <1>10 DEF vars, QueueInv, Sending
<1> QED
  BY <1>4, <1>5, <1>6, <1>7, <1>8, <1>9, <1>10 DEF Next

\* The queue holds what a number of strokes can send, and then no scan code is lost.
LEMMA QueueSuffices ==
  ASSUME 8 * MaxStrokes < QueueSize, TypeInv, QueueInv
  PROVE  Room
<1>1. /\ strokes \in 0..MaxStrokes /\ MaxStrokes \in Nat /\ QueueSize \in Nat
      /\ Len(keyboardQueue) \in Nat /\ Len(wire) \in Nat
  BY KeyboardAssumption DEF TypeInv, TypeOK
<1>2. Cardinality(down) \in Nat
  BY FS_CardinalityType DEF QueueInv, Sending
<1>3. Len(keyboardQueue) + Len(wire) + 4 * Cardinality(down) <= 8 * strokes
  BY DEF QueueInv, Sending
<1>4. Len(keyboardQueue) < QueueSize
  BY <1>1, <1>2, <1>3
<1> QED
  BY <1>4 DEF Room

\* As many strokes as the queue has room for, and the work loop may take as long as it
\* likes: no key sticks.
THEOREM NoKeySticksInTime ==
  ASSUME PlainDelete, 8 * MaxStrokes < QueueSize
  PROVE  Spec => []NoStuckKeys /\ []HeldKeysReported
<1>1. Init => QueueInv
  <2>1. SUFFICES ASSUME Init PROVE QueueInv
    OBVIOUS
  <2>2. <<>> \in Seq(Codebyte) /\ Len(<<>>) = 0 /\ 0 + 0 + 4 * 0 <= 8 * 0 /\ 0 \in Nat
    OBVIOUS
  <2> QED
    BY <2>1, <2>2, FS_EmptySet DEF Init, QueueInv, Sending
<1>2. TypeInv /\ ChordInv /\ QueueInv /\ [Next]_vars => QueueInv'
  BY StepPaid, StepTyped
<1>3. TypeInv /\ QueueInv => Room
  BY QueueSuffices
<1> QED
  BY <1>1, <1>2, <1>3, InitTyped, InitChord, StepTyped, StepNoted, NoKeySticks,
     HeldKeysAlwaysReported, PTL DEF Spec
=============================================================================
