-------------------------- MODULE SynapticsProofs --------------------------
(***************************************************************************)
(* Proofs about SynapticsTouchPad, for every set of settings, every pad    *)
(* and any number of touches: a drag that waits for the finger is timed,   *)
(* and no button is left down.                                             *)
(***************************************************************************)
EXTENDS SynapticsTouchPad, Integers, TLAPS

\* The state that the parts of the method pass on.
PassedState ==
  [event : Event, settleTime : Int, tapped : BOOLEAN, dragging : BOOLEAN,
   dragLocked : BOOLEAN, dragTimeout : BOOLEAN, long : BOOLEAN, far : BOOLEAN,
   buttons : SUBSET Button]

TimedState == {s \in PassedState : s.dragging => s.dragTimeout}

\* t differs from s in nothing that a drag and its timer depend on.
Keeps(s, t) == t \in PassedState /\ t.dragging = s.dragging /\ t.dragTimeout = s.dragTimeout

\* The inductive invariant: DragIsTimed and the types of what a packet works on.
PadInv ==
  /\ event \in Event /\ settleTime \in Int
  /\ tapped \in BOOLEAN /\ dragging \in BOOLEAN /\ dragLocked \in BOOLEAN
  /\ dragTimeout \in BOOLEAN /\ long \in BOOLEAN
  /\ pressed \subseteq Button /\ fingers \in 0..3
  /\ DragIsTimed

LEMMA InitTimed == padInit => PadInv
<1> SUFFICES ASSUME padInit PROVE PadInv
  OBVIOUS
<1>1. settleTime \in Int /\ fingers \in 0..3
  BY DEF padInit
<1> QED
  BY <1>1, Zenon DEF padInit, PadInv, DragIsTimed, Event, Button

\* The event of a stream, before and after the edges have been looked at.
LEMMA StreamEvents ==
  ASSUME event \in Event, NEW count \in 0..3, NEW edge
  PROVE  AtEdge(AfterSwipe(StreamEvent(NumFingers(count))), edge) \in Event
         /\ AfterSwipe(StreamEvent(NumFingers(count))) \in Event
<1> DEFINE n == NumFingers(count)
<1>1. n \in 0..3
  BY DEF NumFingers
<1>2. StreamEvent(n) \in Event
  <2> HIDE DEF n
  <2> QED
    BY <1>1 DEF StreamEvent, Event
<1> HIDE DEF n
<1>3. AfterSwipe(StreamEvent(n)) \in Event
  BY <1>2 DEF AfterSwipe, Event
<1>4. \A e \in Event : AtEdge(e, edge) \in Event
  BY DEF AtEdge, Event
<1> QED
  BY <1>3, <1>4 DEF n

\* Changes of single fields.  Only dragging and dragTimeout matter to the invariant.
LEMMA Changes ==
  ASSUME NEW s \in PassedState
  PROVE  /\ \A i \in Int : Keeps(s, [s EXCEPT !.settleTime = i])
         /\ \A e \in Event : Keeps(s, [s EXCEPT !.event = e])
         /\ \A b \in SUBSET Button : Keeps(s, [s EXCEPT !.buttons = b])
         /\ \A b \in BOOLEAN : /\ Keeps(s, [s EXCEPT !.long = b])
                             /\ Keeps(s, [s EXCEPT !.tapped = b])
                             /\ Keeps(s, [s EXCEPT !.dragLocked = b])
  BY DEF PassedState, Keeps

LEMMA ChangesOfDrag ==
  ASSUME NEW s \in PassedState, NEW b \in BOOLEAN
  PROVE  /\ [s EXCEPT !.dragging = b] \in PassedState
         /\ [s EXCEPT !.dragging = b].dragging = b
         /\ [s EXCEPT !.dragging = b].dragTimeout = s.dragTimeout
         /\ [s EXCEPT !.dragTimeout = b] \in PassedState
         /\ [s EXCEPT !.dragTimeout = b].dragTimeout = b
         /\ [s EXCEPT !.dragTimeout = b].dragging = s.dragging
  BY DEF PassedState

\* The same for states in which a drag is timed.
LEMMA TimedChanges ==
  ASSUME NEW s \in TimedState
  PROVE  /\ \A i \in Int : [s EXCEPT !.settleTime = i] \in TimedState
         /\ \A e \in Event : [s EXCEPT !.event = e] \in TimedState
         /\ \A b \in SUBSET Button : [s EXCEPT !.buttons = b] \in TimedState
         /\ \A b \in BOOLEAN : /\ [s EXCEPT !.long = b] \in TimedState
                             /\ [s EXCEPT !.tapped = b] \in TimedState
                             /\ [s EXCEPT !.dragLocked = b] \in TimedState
         /\ [s EXCEPT !.dragTimeout = TRUE] \in TimedState
         /\ [[s EXCEPT !.dragTimeout = FALSE] EXCEPT !.dragging = FALSE] \in TimedState
         /\ [[s EXCEPT !.dragging = TRUE] EXCEPT !.dragTimeout = TRUE] \in TimedState
         /\ [s EXCEPT !.dragging = FALSE] \in TimedState
<1>1. s \in PassedState /\ (s.dragging => s.dragTimeout)
  BY DEF TimedState
<1>2. \A t : Keeps(s, t) => t \in TimedState
  BY <1>1, Zenon DEF Keeps, TimedState
<1>3. [s EXCEPT !.dragTimeout = TRUE] \in TimedState
  BY <1>1, ChangesOfDrag, Zenon DEF TimedState
<1>4. [s EXCEPT !.dragging = FALSE] \in TimedState
  BY <1>1, ChangesOfDrag, Zenon DEF TimedState
<1>5. [[s EXCEPT !.dragTimeout = FALSE] EXCEPT !.dragging = FALSE] \in TimedState
  BY <1>1, ChangesOfDrag, Zenon DEF TimedState
<1>6. [[s EXCEPT !.dragging = TRUE] EXCEPT !.dragTimeout = TRUE] \in TimedState
  BY <1>1, ChangesOfDrag, Zenon DEF TimedState
<1> QED
  BY <1>1, <1>2, <1>3, <1>4, <1>5, <1>6, Changes, Zenon

\* A stream that goes on takes the waiting drag and its timer with it.
LEMMA NewStreamTimed ==
  ASSUME NEW s \in TimedState PROVE NewStream(s) \in TimedState
<1> DEFINE t == [s EXCEPT !.settleTime = 2, !.long = FALSE]
           u == [[t EXCEPT !.dragTimeout = FALSE] EXCEPT !.dragging = FALSE]
<1>1. t \in TimedState
  <2>1. [s EXCEPT !.settleTime = 2] \in TimedState
    <3>1. 2 \in Int
      OBVIOUS
    <3> QED
      BY <3>1, TimedChanges, Zenon
  <2> QED
    BY <2>1, TimedChanges
<1>2. u \in TimedState
  <2> HIDE DEF t
  <2> QED
    BY <1>1, TimedChanges
<1>3. [u EXCEPT !.event = "dragging"] \in TimedState
  <2> HIDE DEF u
  <2> QED
    BY <1>2, TimedChanges DEF Event
<1> QED
  BY <1>1, <1>3, Zenon DEF NewStream

LEMMA EndsTimed ==
  ASSUME NEW s \in TimedState, NEW n
  PROVE  /\ EndOfScrolling(s, n) \in TimedState
         /\ EndOfMovement(s) \in TimedState
         /\ EndOfDragging(s) \in TimedState
<1>1. EndOfScrolling(s, n) \in TimedState
  <2> DEFINE i == IF n = 3 THEN 5 ELSE 10
             t == [s EXCEPT !.settleTime = i, !.event = "scrolling"]
  <2>1. [s EXCEPT !.settleTime = i] \in TimedState
    <3>1. i \in Int
      OBVIOUS
    <3> HIDE DEF i
    <3> QED
      BY <3>1, TimedChanges
  <2>2. t \in TimedState
    <3> HIDE DEF i
    <3> QED
      BY <2>1, TimedChanges DEF Event
  <2>3. [t EXCEPT !.buttons = {"right"}, !.event = "movement"] \in TimedState
    <3> HIDE DEF t
    <3>1. [t EXCEPT !.buttons = {"right"}] \in TimedState
      BY <2>2, TimedChanges DEF Button
    <3> QED
      BY <3>1, TimedChanges DEF Event
  <2> QED
    BY <2>2, <2>3, Zenon DEF EndOfScrolling
<1>2. EndOfMovement(s) \in TimedState
  <2> DEFINE t == [s EXCEPT !.settleTime = 5]
  <2>1. t \in TimedState
    <3>1. 5 \in Int
      OBVIOUS
    <3> QED
      BY <3>1, TimedChanges, Zenon
  <2> HIDE DEF t
  <2>2. [t EXCEPT !.buttons = {"left"}] \in TimedState
    BY <2>1, TimedChanges DEF Button
  <2>3. [t EXCEPT !.dragLocked = FALSE] \in TimedState
    BY <2>1, TimedChanges
  <2>4. [t EXCEPT !.tapped = TRUE, !.dragTimeout = TRUE] \in TimedState
    <3>1. [t EXCEPT !.tapped = TRUE] \in TimedState
      BY <2>1, TimedChanges
    <3> QED
      BY <3>1, TimedChanges
  <2> QED
    BY <2>1, <2>2, <2>3, <2>4 DEF EndOfMovement, t
<1>3. EndOfDragging(s) \in TimedState
  <2> DEFINE t == [s EXCEPT !.settleTime = 10]
  <2>1. t \in TimedState
    <3>1. 10 \in Int
      OBVIOUS
    <3> QED
      BY <3>1, TimedChanges, Zenon
  <2> HIDE DEF t
  <2>2. [t EXCEPT !.dragging = TRUE, !.dragTimeout = TRUE] \in TimedState
    BY <2>1, TimedChanges
  <2>3. [t EXCEPT !.dragLocked = FALSE] \in TimedState
    BY <2>1, TimedChanges
  <2>4. [t EXCEPT !.buttons = {"left"}, !.tapped = FALSE] \in TimedState
    <3>1. [t EXCEPT !.buttons = {"left"}] \in TimedState
      BY <2>1, TimedChanges DEF Button
    <3> QED
      BY <3>1, TimedChanges
  <2> QED
    BY <2>1, <2>2, <2>3, <2>4 DEF EndOfDragging, t
<1> QED
  BY <1>1, <1>2, <1>3

LEMMA SettledTimed ==
  ASSUME PadInv, NEW s \in TimedState, NEW n, s.settleTime = settleTime
  PROVE  Settled(s, n) \in TimedState
<1>1. \A i \in Int : [s EXCEPT !.settleTime = i] \in TimedState
  BY DEF TimedState, PassedState
<1>2. [s EXCEPT !.settleTime = @ - 1] \in TimedState
  BY DEF TimedState, PassedState
<1>3. [s EXCEPT !.settleTime = IF s.event # "scrolling" THEN 10 ELSE @] \in TimedState
  BY DEF TimedState, PassedState
<1>4. event \in Event
  BY DEF PadInv
<1> QED
  BY <1>1, <1>2, <1>3, <1>4, NewStreamTimed, EndsTimed DEF Settled, Event

LEMMA StartDragTimed ==
  ASSUME NEW s \in TimedState PROVE StartDrag(s) \in TimedState
  BY DEF StartDrag, TimedState, PassedState, Event

LEMMA ButtonsTimed ==
  ASSUME NEW s \in TimedState PROVE Buttons(s) \in TimedState
  BY DEF Buttons, TimedState, PassedState, Event, Button

LEMMA PacketTimed == PadInv /\ packet => PadInv'
<1> SUFFICES ASSUME PadInv, packet PROVE PadInv'
  OBVIOUS
<1>1. PICK count \in Counted, lapsed \in BOOLEAN, far \in BOOLEAN,
           edge \in {"none", "right", "bottom"} :
        LET n == NumFingers(count)
            e == AfterSwipe(StreamEvent(n))
            changed == e # event \/ settleTime > 0
            s == IF changed
                   THEN StartDrag(Settled(State(AtEdge(e, edge), lapsed, far, pressed), n))
                   ELSE State(e, lapsed, far, pressed)
            t == Buttons(s)
        IN  /\ event' = t.event /\ settleTime' = t.settleTime
            /\ tapped' = t.tapped /\ dragging' = t.dragging /\ dragLocked' = t.dragLocked
            /\ dragTimeout' = t.dragTimeout /\ long' = t.long
  BY DEF packet
<1> DEFINE n == NumFingers(count)
           e == AfterSwipe(StreamEvent(n))
           s1 == State(AtEdge(e, edge), lapsed, far, pressed)
           s2 == State(e, lapsed, far, pressed)
           s == IF e # event \/ settleTime > 0 THEN StartDrag(Settled(s1, n)) ELSE s2
           t == Buttons(s)
<1>2. count \in 0..3
  BY DEF Counted, PadInv
<1>3. AtEdge(e, edge) \in Event /\ e \in Event
  BY <1>2, StreamEvents DEF PadInv
<1>4. \A x \in Event : /\ State(x, lapsed, far, pressed) \in TimedState
                       /\ State(x, lapsed, far, pressed).settleTime = settleTime
  BY DEF PadInv, DragIsTimed, State, TimedState, PassedState
<1>5. s \in TimedState
  <2>1. StartDrag(Settled(s1, n)) \in TimedState
    BY <1>3, <1>4, SettledTimed, StartDragTimed
  <2> QED
    BY <1>3, <1>4, <2>1
<1>6. t \in TimedState
  BY <1>5, ButtonsTimed
<1>7. /\ event' = t.event /\ settleTime' = t.settleTime
      /\ tapped' = t.tapped /\ dragging' = t.dragging /\ dragLocked' = t.dragLocked
      /\ dragTimeout' = t.dragTimeout /\ long' = t.long
  BY <1>1
<1>8. pressed' = pressed /\ fingers' = fingers
  BY DEF packet
<1> HIDE DEF t
<1> QED
  BY <1>6, <1>7, <1>8 DEF PadInv, DragIsTimed, TimedState, PassedState

LEMMA StepTimed == PadInv /\ [padNext]_padVars => PadInv'
<1> SUFFICES ASSUME PadInv, [padNext]_padVars PROVE PadInv'
  OBVIOUS
<1> USE DEF PadInv, DragIsTimed
<1>1. CASE packet
  BY <1>1, PacketTimed
<1>2. CASE ignorePacket
  BY <1>2 DEF ignorePacket
<1>3. CASE draggingTimeout
  BY <1>3 DEF draggingTimeout, Event
<1>4. CASE setParamProperties
  BY <1>4 DEF setParamProperties
<1>5. CASE disableDevice
  BY <1>5 DEF disableDevice
<1>6. CASE enableDevice
  <2>1. settleTime' \in Int
    BY <1>6 DEF enableDevice
  <2> QED
    BY <1>6, <2>1, Zenon DEF enableDevice
<1>7. CASE touch
  <2>1. fingers' \in 0..3
    BY <1>7 DEF touch
  <2>2. pressed' \subseteq Button
    BY <1>7, Zenon DEF touch, Button
  <2> QED
    BY <1>7, <2>1, <2>2, Zenon DEF touch, unchangedByUser
<1>8. CASE lift
  BY <1>8 DEF lift, unchangedByUser
<1>9. CASE fallSilent
  BY <1>9 DEF fallSilent, unchangedByUser
<1>10. CASE type
  BY <1>10 DEF type, unchangedByUser
<1>11. CASE UNCHANGED padVars
  BY <1>11 DEF padVars
<1> QED
  BY <1>1, <1>2, <1>3, <1>4, <1>5, <1>6, <1>7, <1>8, <1>9, <1>10, <1>11 DEF padNext, brownOut

\* A drag that waits for the finger to come back always has the timer that ends it,
\* whatever packets, settings, sleep and resets come in between (_dragging,
\* _dragTimeout).
THEOREM DragAlwaysTimed == padSpec => []DragIsTimed
<1>1. PadInv => DragIsTimed
  BY DEF PadInv
<1> QED
  BY <1>1, InitTimed, StepTimed, PTL DEF padSpec

-----------------------------------------------------------------------------
(* No button is left down.                                                 *)

\* What ends a gesture leaves a time for settling: a button that is sent with it is
\* released by one of the packets that follow.
LEMMA EndsSettle ==
  ASSUME NEW s \in PassedState, NEW n
  PROVE  /\ NewStream(s).settleTime = 2
         /\ EndOfScrolling(s, n).settleTime \in {5, 10}
         /\ EndOfMovement(s).settleTime = 5
         /\ EndOfDragging(s).settleTime = 10
  BY DEF PassedState, NewStream, EndOfScrolling, EndOfMovement, EndOfDragging

LEMMA SettledButtons ==
  ASSUME PadInv, NEW s \in PassedState, NEW n, Settled(s, n).settleTime = 0
  PROVE  Settled(s, n).buttons = s.buttons
<1> DEFINE passed(i) == [s EXCEPT !.settleTime = i]
<1>1. \A i : passed(i).buttons = s.buttons
  BY DEF PassedState
<1>2. event \in {"scrolling", "movement", "dragging", "swipe", "vertical", "horizontal", "default"}
  BY DEF PadInv, Event
<1> HIDE DEF passed
<1>3. \/ Settled(s, n) \in {NewStream(s), EndOfScrolling(s, n), EndOfMovement(s), EndOfDragging(s)}
      \/ \E i : Settled(s, n) = passed(i)
  BY <1>2 DEF Settled, passed
<1> QED
  BY <1>1, <1>3, EndsSettle

\* The inductive invariant: while a gesture that was received in full is over and has
\* settled, the last pointer event had no button, or the timer will send a release.
ReleaseInv ==
  /\ sending \in {"touched", "after", "no"}
  /\ sending # "touched" => fingers = 0 /\ pressed = {}
  /\ /\ ~cutOff /\ ~dragTimeout
     /\ sending = "no" \/ (sending = "after" /\ event = "default" /\ settleTime = 0)
     => sentButtons = {}

LEMMA PacketReleases == PadInv /\ ReleaseInv /\ packet => ReleaseInv'
<1> SUFFICES ASSUME PadInv, ReleaseInv, packet PROVE ReleaseInv'
  OBVIOUS
<1>1. /\ sending' = Linger /\ sending \in {"touched", "after"}
      /\ pressed' = pressed /\ fingers' = fingers
  BY DEF packet, ReleaseInv
<1>2. sending' \in {"touched", "after"} /\ (sending' = "after" => fingers = 0 /\ pressed = {})
  BY <1>1 DEF Linger, ReleaseInv
<1>3. ASSUME sending' = "after", ~dragTimeout', event' = "default", settleTime' = 0
      PROVE  sentButtons' = {}
  <2>1. PICK count \in Counted, lapsed \in BOOLEAN, far \in BOOLEAN,
             edge \in {"none", "right", "bottom"} :
          /\ long => lapsed
          /\ lapsed => far
          /\ edge # "none" => event = "default" /\ pref.scroll = "edge"
          /\ LET n == NumFingers(count)
                 e == AfterSwipe(StreamEvent(n))
                 changed == e # event \/ settleTime > 0
                 s == IF changed
                        THEN StartDrag(Settled(State(AtEdge(e, edge), lapsed, far, pressed), n))
                        ELSE State(e, lapsed, far, pressed)
                 t == Buttons(s)
             IN  /\ event' = t.event /\ settleTime' = t.settleTime
                 /\ tapped' = t.tapped /\ dragging' = t.dragging /\ dragLocked' = t.dragLocked
                 /\ dragTimeout' = t.dragTimeout /\ long' = t.long
                 /\ sentButtons' = IF ~Reports(t) THEN sentButtons
                                ELSE t.buttons \cup (IF t.dragging THEN {"left"} ELSE {})
    BY Zenon DEF packet
  <2> DEFINE n == NumFingers(count)
             e == AfterSwipe(StreamEvent(n))
             s1 == State(AtEdge(e, edge), lapsed, far, pressed)
             s2 == State(e, lapsed, far, pressed)
             d == Settled(s1, n)
             s == IF e # event \/ settleTime > 0 THEN StartDrag(d) ELSE s2
             t == Buttons(s)
  <2>2. count \in 0..3
    BY DEF Counted, PadInv
  <2>3. AtEdge(e, edge) \in Event /\ e \in Event
    BY <2>2, StreamEvents DEF PadInv
  <2>4. \A x \in Event : /\ State(x, lapsed, far, pressed) \in TimedState
                         /\ State(x, lapsed, far, pressed).settleTime = settleTime
                         /\ State(x, lapsed, far, pressed).buttons = {}
    <3>1. \A x \in Event : /\ State(x, lapsed, far, pressed) \in TimedState
                           /\ State(x, lapsed, far, pressed).settleTime = settleTime
      BY DEF PadInv, DragIsTimed, State, TimedState, PassedState
    <3>2. \A x : State(x, lapsed, far, pressed).buttons = pressed
      BY DEF State
    <3> QED
      BY <1>2, <1>3, <3>1, <3>2
  <2>5. d \in TimedState /\ (d.settleTime = 0 => d.buttons = {})
    BY <2>3, <2>4, SettledTimed, SettledButtons DEF TimedState
  <2>6. s2 \in TimedState /\ s2.buttons = {}
    BY <2>3, <2>4
  <2>7. /\ event' = t.event /\ settleTime' = t.settleTime
        /\ dragging' = t.dragging /\ dragTimeout' = t.dragTimeout
        /\ sentButtons' = IF ~Reports(t) THEN sentButtons
                       ELSE t.buttons \cup (IF t.dragging THEN {"left"} ELSE {})
    BY <2>1
  <2> HIDE DEF d, s2
  <2>8. s \in TimedState /\ (s.settleTime = 0 /\ s.event = "default" => s.buttons = {})
    <3>1. StartDrag(d) \in TimedState
      BY <2>5, StartDragTimed
    <3>2. StartDrag(d).event = "default" => StartDrag(d) = d
      BY <2>5 DEF StartDrag, TimedState, PassedState
    <3> QED
      BY <2>5, <2>6, <3>1, <3>2
  <2> HIDE DEF s
  <2>9. t = s /\ Reports(t)
    <3>1. t.event = "default"
      BY <1>3, <2>7
    <3>2. t = s
      BY <2>8, <3>1 DEF Buttons, TimedState, PassedState
    <3> QED
      BY <3>1, <3>2 DEF Reports
  <2>10. t.buttons = {} /\ ~t.dragging
    BY <1>3, <2>7, <2>8, <2>9 DEF TimedState, PassedState
  <2> QED
    BY <2>7, <2>9, <2>10
<1> QED
  BY <1>1, <1>2, <1>3 DEF ReleaseInv

LEMMA StepReleases == PadInv /\ ReleaseInv /\ [padNext]_padVars => ReleaseInv'
<1> SUFFICES ASSUME PadInv, ReleaseInv, [padNext]_padVars PROVE ReleaseInv'
  OBVIOUS
<1> USE DEF ReleaseInv
<1>1. CASE packet
  BY <1>1, PacketReleases
<1>2. CASE ignorePacket
  BY <1>2 DEF ignorePacket, Linger
<1>3. CASE draggingTimeout
  BY <1>3 DEF draggingTimeout
<1>4. CASE setParamProperties
  BY <1>4 DEF setParamProperties
<1>5. CASE disableDevice
  BY <1>5 DEF disableDevice
<1>6. CASE enableDevice
  BY <1>6 DEF enableDevice
<1>7. CASE touch
  BY <1>7 DEF touch, unchangedByUser
<1>8. CASE lift
  BY <1>8 DEF lift, unchangedByUser, PadInv
<1>9. CASE fallSilent
  BY <1>9 DEF fallSilent, unchangedByUser
<1>10. CASE type
  BY <1>10 DEF type, unchangedByUser
<1>11. CASE UNCHANGED padVars
  BY <1>11 DEF padVars
<1> QED
  BY <1>1, <1>2, <1>3, <1>4, <1>5, <1>6, <1>7, <1>8, <1>9, <1>10, <1>11 DEF padNext, brownOut

\* Once the pad has nothing more to say and no timer runs, the last pointer event of
\* dispatchRelativePointerEventWithAbsolutePacket had no button, unless packets of the
\* gesture were lost.
THEOREM ButtonsReleased == padSpec => []NoButtonLeftDown
<1>1. padInit => ReleaseInv
  BY DEF padInit, ReleaseInv
<1>2. ReleaseInv => NoButtonLeftDown
  BY DEF ReleaseInv, NoButtonLeftDown, AtRest
<1> QED
  BY <1>1, <1>2, InitTimed, StepTimed, StepReleases, PTL DEF padSpec

=============================================================================
