---------------------------- MODULE PS2Keyboard ----------------------------
(***************************************************************************)
(* Scan codes on their way to key events.  The keyboard interrupt handler  *)
(* follows the modifier keys to recognise the debugger chord (doEscape)    *)
(* and queues the scan codes; the keyboard driver takes them off the queue *)
(* and turns them into key events (dispatchKeyboardEventWithScancode).     *)
(* Both are parsers of the same sequences, with state of their own.        *)
(***************************************************************************)
EXTENDS Naturals, Sequences

CONSTANTS
  Keys,           \* the keys of the keyboard that are used
  MaxStrokes,     \* bound on presses and automatic repetitions
  QueueSize,      \* kKeyboardQueueSize
  debuggingEnabled, macintoshMode, emacsMode, saveSS   \* settings

kSC_Extend == 224
kSC_Pause == 225
kSC_UpBit == 128
kSC_Delete == 83
Unextended(code) == [extended |-> FALSE, code |-> code]
Extended(code) == [extended |-> TRUE, code |-> code]

\* The scan codes of keys (external).  PrintScreen and Pause are sequences.
KeyCode ==
  [A |-> Unextended(30), altLeft |-> Unextended(56), altRight |-> Extended(56),
   ctrlLeft |-> Unextended(29), capsLock |-> Unextended(58), windowsRight |-> Extended(92),
   menu |-> Extended(93), eject |-> Extended(52), delete |-> Unextended(kSC_Delete),
   grayDelete |-> Extended(kSC_Delete)]
Sent(k, code) == IF KeyCode[k].extended THEN <<kSC_Extend, code>> ELSE <<code>>
Make(k) == CASE k = "printScreen" -> <<kSC_Extend, 42, kSC_Extend, 55>>
             [] k = "pause" -> <<kSC_Pause, 29, 69, kSC_Pause, 157, 197>>
             [] OTHER -> Sent(k, KeyCode[k].code)
Break(k) == CASE k = "printScreen" -> <<kSC_Extend, 183, kSC_Extend, 170>>
              [] OTHER -> Sent(k, KeyCode[k].code + kSC_UpBit)
\* Pause with Ctrl held is the key Break, which sends its release with it.
CtrlBreak == <<kSC_Extend, 70, kSC_Extend, 198>>

ASSUME KeyboardAssumption ==
  /\ Keys \subseteq DOMAIN KeyCode \cup {"printScreen", "pause"}
  /\ MaxStrokes \in Nat /\ QueueSize \in Nat
  /\ debuggingEnabled \in BOOLEAN /\ macintoshMode \in BOOLEAN
  /\ emacsMode \in BOOLEAN /\ saveSS \in BOOLEAN

VARIABLES
  down,           \* the keys that are held (external)
  last,           \* the key pressed last, which repeats while it is held (external)
  strokes,        \* presses and repetitions so far (external)
  wire,           \* scan codes the keyboard is sending (external)
  extendedState,  \* _extendedState
  modifierState,  \* _modifierState
  keyboardQueue,  \* _keyboardQueue
  extendCount,    \* _extendCount
  keyBitVector,   \* _keyBitVector
  reported        \* the keys that are down for the HID system: IOHIKeyboard (external)

keyboard == <<down, last, strokes>>
driver == <<extendCount, keyBitVector, reported>>
vars == <<down, last, strokes, wire, extendedState, modifierState, keyboardQueue,
          extendCount, keyBitVector, reported>>

Modifiers ==
  {Unextended(56), Extended(56), Unextended(29), Extended(29), Unextended(42), Unextended(54),
   Extended(91), Extended(92)}
DebuggerChord == {Unextended(56), Extended(56)}

TypeOK ==
  /\ down \subseteq Keys /\ last \in Keys \cup {"none"} /\ strokes \in 0..MaxStrokes
  /\ wire \in Seq(0..255)
  /\ extendedState \in BOOLEAN /\ modifierState \subseteq Modifiers
  /\ keyboardQueue \in Seq(0..255) /\ Len(keyboardQueue) <= QueueSize
  /\ extendCount \in 0..2
  /\ keyBitVector \subseteq 1..127 /\ reported \subseteq 1..127

Init ==
  /\ down = {} /\ last = "none" /\ strokes = 0 /\ wire = <<>>
  /\ extendedState = FALSE /\ modifierState = {} /\ keyboardQueue = <<>>
  /\ extendCount = 0 /\ keyBitVector = {} /\ reported = {}

-----------------------------------------------------------------------------
(* The keyboard (external).                                                *)

\* Delete is the last key of the debugger chord and is pressed with no other key
\* held: doEscape ignores the up bit and releases modifiers only, so it would lose
\* the release of a Delete that was held before the Alt keys.
Alts == {"altLeft", "altRight"}
Deletes == {"delete", "grayDelete"}
ChordInOrder(k) ==
  /\ k \in Deletes /\ Alts \subseteq down => down = Alts
  /\ k \in Alts /\ down \cap Deletes # {} => down \cap Alts = {}

press(k) ==
  /\ k \notin down /\ wire = <<>> /\ strokes < MaxStrokes /\ ChordInOrder(k)
  /\ down' = IF k = "pause" THEN down ELSE down \cup {k}
  /\ last' = k /\ strokes' = strokes + 1
  /\ wire' = IF k = "pause" /\ "ctrlLeft" \in down THEN CtrlBreak ELSE Make(k)
  /\ UNCHANGED <<extendedState, modifierState, keyboardQueue, driver>>

repeat(k) ==
  /\ k \in down /\ k = last /\ wire = <<>> /\ strokes < MaxStrokes
  /\ strokes' = strokes + 1
  /\ wire' = Make(k)
  /\ UNCHANGED <<down, last, extendedState, modifierState, keyboardQueue, driver>>

release(k) ==
  /\ k \in down /\ wire = <<>>
  /\ down' = down \ {k}
  /\ wire' = Break(k)
  /\ UNCHANGED <<last, strokes, extendedState, modifierState, keyboardQueue, driver>>

-----------------------------------------------------------------------------
(* The interrupt handler.                                                  *)

IsModifier(code) == [extended |-> extendedState, code |-> code % kSC_UpBit] \in Modifiers
CallsDebugger(code) ==
  /\ code # kSC_Extend /\ ~IsModifier(code)
  /\ code % kSC_UpBit = kSC_Delete /\ modifierState = DebuggerChord

enqueueKeyboardData(codes) ==
  keyboardQueue' = SubSeq(keyboardQueue \o codes, 1,
                          IF Len(keyboardQueue \o codes) < QueueSize
                          THEN Len(keyboardQueue \o codes) ELSE QueueSize)

\* Deviation: _extendedState stays set after a modifier.
doEscape_staysExtended(code) ==
  LET m == [extended |-> extendedState, code |-> code % kSC_UpBit] IN
  IF code = kSC_Extend THEN extendedState' = TRUE /\ UNCHANGED modifierState
  ELSE /\ extendedState' = (extendedState /\ IsModifier(code))
       /\ modifierState' = IF code >= kSC_UpBit THEN modifierState \ {m}
                           ELSE modifierState \cup ({m} \cap Modifiers)

\* What doEscape notes about a scan code that does not call the debugger.
doEscape(code) ==
  LET m == [extended |-> extendedState, code |-> code % kSC_UpBit] IN
  IF code = kSC_Extend THEN extendedState' = TRUE /\ UNCHANGED modifierState
  ELSE /\ extendedState' = FALSE
       /\ modifierState' = IF code >= kSC_UpBit THEN modifierState \ {m}
                           ELSE modifierState \cup ({m} \cap Modifiers)

interruptHandlerKeyboard ==
  /\ wire # <<>>
  /\ ~(debuggingEnabled /\ CallsDebugger(Head(wire)))
  /\ wire' = Tail(wire)
  /\ IF debuggingEnabled THEN doEscape(Head(wire)) ELSE UNCHANGED <<extendedState, modifierState>>
  /\ enqueueKeyboardData(<<Head(wire)>>)
  /\ UNCHANGED <<keyboard, driver>>

\* Deviation: the modifiers are not released.
callDebugger_keepsModifiers ==
  /\ wire # <<>> /\ debuggingEnabled /\ CallsDebugger(Head(wire))
  /\ down' = {} /\ wire' = <<>>
  /\ extendedState' = FALSE /\ modifierState' = {}
  /\ UNCHANGED <<last, strokes, keyboardQueue, driver>>

\* The chord is complete: Debugger returns with all keys released, which only it
\* has seen; the modifiers are released on its behalf, in the order of
\* modifierTable, and the scan code is dropped.
callDebugger ==
  /\ wire # <<>> /\ debuggingEnabled /\ CallsDebugger(Head(wire))
  /\ down' = {} /\ wire' = <<>>
  /\ extendedState' = FALSE /\ modifierState' = {}
  /\ enqueueKeyboardData(<<56 + kSC_UpBit, kSC_Extend, 56 + kSC_UpBit>>)
  /\ UNCHANGED <<last, strokes, driver>>

-----------------------------------------------------------------------------
(* The keyboard driver.  A parser is its state: a record of extendCount,   *)
(* keyBitVector and reported.                                              *)

\* Deviation: an automatic repetition toggles the key.
keyEvent_toggles(p, keyCode, goingDown) ==
  IF keyCode \in p.keyBitVector
  THEN [p EXCEPT !.keyBitVector = @ \ {keyCode}, !.reported = @ \ {keyCode}]
  ELSE IF goingDown THEN [p EXCEPT !.keyBitVector = @ \cup {keyCode}, !.reported = @ \cup {keyCode}]
  ELSE p

\* A key of the bit vector goes up or down; automatic repetitions are discarded.
keyEvent(p, keyCode, goingDown) ==
  IF goingDown
  THEN IF keyCode \in p.keyBitVector THEN p
       ELSE [p EXCEPT !.keyBitVector = @ \cup {keyCode}, !.reported = @ \cup {keyCode}]
  ELSE [p EXCEPT !.keyBitVector = @ \ {keyCode}, !.reported = @ \ {keyCode}]

plainKeyCode(code) ==
  CASE code = 58 /\ emacsMode -> 96
    [] code = 56 /\ macintoshMode -> 112
    [] OTHER -> code

plainCode(p, code) ==
  IF code % kSC_UpBit = 0 THEN p
  ELSE keyEvent(p, plainKeyCode(code % kSC_UpBit), code < kSC_UpBit)

\* Deviation: a key code that does not fit the bit vector (128 for 113).
ExtendedKeys_outOfRange == {<<91, 112>>, <<92, 128>>, <<93, 113>>, <<56, 97>>}

\* Extended scan codes and their key codes: volume, ctrl, alt, enter, slash, the
\* cursor keys, and the Windows and menu keys.
ExtendedKeys ==
  {<<48, 125>>, <<46, 126>>, <<32, 127>>, <<29, 96>>, <<56, IF macintoshMode THEN 113 ELSE 97>>,
   <<28, 98>>, <<53, 99>>, <<72, 100>>, <<80, 101>>, <<75, 102>>, <<77, 103>>, <<82, 104>>,
   <<83, 105>>, <<73, 106>>, <<81, 107>>, <<71, 108>>, <<79, 109>>,
   <<91, IF macintoshMode THEN 56 ELSE 112>>, <<92, IF macintoshMode THEN 97 ELSE 113>>, <<93, 113>>}

\* PrintScreen is command, shift and 4, with ctrl unless the picture is saved; the
\* eject key is alt and Q, past the bit vector.  Other extended codes give no key:
\* the sleep key asks the power management root to sleep, the rest are ignored.
printScreen(p, up) ==
  LET q == IF saveSS THEN p ELSE plainCode(p, 29 + up)
  IN  plainCode(plainCode(plainCode(q, 56 + up), 42 + up), 5 + up)
ejectCodes == {56, 16}

extendedCode(p, code) ==
  LET base == code % kSC_UpBit
      goingDown == code < kSC_UpBit
      up == IF goingDown THEN 0 ELSE kSC_UpBit
  IN
  CASE base = 52 -> [p EXCEPT !.reported = IF goingDown THEN @ \cup ejectCodes ELSE @ \ ejectCodes]
    [] base = 55 -> printScreen(p, up)
    [] \E e \in ExtendedKeys : e[1] = base ->
         keyEvent(p, (CHOOSE e \in ExtendedKeys : e[1] = base)[2], goingDown)
    [] OTHER -> p

dispatchKeyboardEventWithScancode(p, code) ==
  CASE code = kSC_Extend -> [p EXCEPT !.extendCount = 1]
    [] code = kSC_Pause -> [p EXCEPT !.extendCount = 2]
    [] code \notin {kSC_Extend, kSC_Pause} /\ p.extendCount = 0 -> plainCode(p, code)
    [] code \notin {kSC_Extend, kSC_Pause} /\ p.extendCount = 1 ->
         extendedCode([p EXCEPT !.extendCount = 0], code)
    [] OTHER -> [p EXCEPT !.extendCount = @ - 1]

\* The work loop takes a scan code off the queue for the driver.
interruptOccurred ==
  /\ keyboardQueue # <<>>
  /\ keyboardQueue' = Tail(keyboardQueue)
  /\ LET p == dispatchKeyboardEventWithScancode(
                [extendCount |-> extendCount, keyBitVector |-> keyBitVector, reported |-> reported],
                Head(keyboardQueue))
     IN  extendCount' = p.extendCount /\ keyBitVector' = p.keyBitVector /\ reported' = p.reported
  /\ UNCHANGED <<keyboard, wire, extendedState, modifierState>>

Next ==
  \/ \E k \in Keys : press(k) \/ repeat(k) \/ release(k)
  \/ interruptHandlerKeyboard \/ callDebugger \/ interruptOccurred

Spec == Init /\ [][Next]_vars

-----------------------------------------------------------------------------
(* Properties.                                                             *)

Quiet == wire = <<>> /\ keyboardQueue = <<>>

\* No key sticks: when all keys have been released and their scan codes processed,
\* none is down for the driver or for the HID system, whatever keys overlapped,
\* repeated or shared a key code, and after a return from the debugger too.
NoStuckKeys == Quiet /\ down = {} => keyBitVector = {} /\ reported = {} /\ extendCount = 0

\* The interrupt handler knows which modifiers are held: the debugger chord is
\* recognised when it is pressed, and only then.
ModifiersFollowed ==
  debuggingEnabled /\ wire = <<>> =>
    modifierState = {KeyCode[k] : k \in down \cap DOMAIN KeyCode} \cap Modifiers

\* The key codes a key stands for.
printScreenCodes == {plainKeyCode(c) : c \in {56, 42, 5} \cup (IF saveSS THEN {} ELSE {29})}
Codes(k) ==
  CASE k = "printScreen" -> printScreenCodes
    [] k = "eject" -> ejectCodes
    [] k = "pause" -> {}
    [] k \in DOMAIN KeyCode \ {"eject"} /\ KeyCode[k].extended ->
         {e[2] : e \in {x \in ExtendedKeys : x[1] = KeyCode[k].code}}
    [] OTHER -> {plainKeyCode(KeyCode[k].code)}

\* A key that shares its key codes with no other key is down for the HID system
\* exactly while it is held.
HeldKeysReported ==
  Quiet => \A k \in Keys : (\A j \in Keys \ {k} : Codes(j) \cap Codes(k) = {})
                             => (k \in down <=> Codes(k) # {} /\ Codes(k) \subseteq reported)
=============================================================================
