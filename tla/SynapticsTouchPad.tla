------------------------- MODULE SynapticsTouchPad -------------------------
(***************************************************************************)
(* The gestures of ApplePS2SynapticsTouchPad: how absolute packets become  *)
(* movements, scrolling, taps, drags and buttons.                          *)
(*                                                                         *)
(* Positions and times are abstracted: with every packet the finger may be *)
(* at an edge, the stream may or may not have moved farther than a tap     *)
(* (_streamdx, _streamdy), and it may have become longer than              *)
(* _prefClickDelay, which the user may set to anything (_streamdt).        *)
(* Speeds and the keys of a swipe are left out.                            *)
(***************************************************************************)
EXTENDS Naturals, FiniteSets

CONSTANTS
  Prefs,         \* the settings that setParamProperties may make
  Capability,    \* of the pad: "multifinger", "wmode" (W mode only) or "none"
  MaxTouches     \* bound: how often fingers are put on the pad or a button is pressed

VARIABLES
  event, settleTime, tapped, dragging, dragLocked,
  dragTimeout,   \* the timer is armed
  long,          \* _streamdt >= _prefClickDelay
  pref,
  sentButtons,   \* the buttons of the last pointer event
  \* the pad and its user (external)
  fingers, pressed, touches,
  sending,       \* the pad sends packets: "touched", for a second more ("after"), or "no"
  gap,           \* the driver has missed packets: dt > 20000
  typing,        \* a key is held or was pressed within the last half second
  asleep,
  cutOff         \* packets that would end a gesture were lost

padVars == <<event, settleTime, tapped, dragging, dragLocked, dragTimeout, long, pref,
             sentButtons, fingers, pressed, touches, sending, gap, typing, asleep, cutOff>>

Button == {"left", "right"}
Event == {"default", "movement", "scrolling", "vertical", "horizontal", "dragging", "swipe"}

padInit ==
  /\ event = "default" /\ settleTime = 0
  /\ tapped = FALSE /\ dragging = FALSE /\ dragLocked = FALSE /\ dragTimeout = FALSE
  /\ long = FALSE
  /\ pref \in Prefs
  /\ sentButtons = {}
  /\ fingers = 0 /\ pressed = {} /\ touches = 0 /\ sending = "no"
  /\ gap = TRUE /\ typing = FALSE /\ asleep = FALSE /\ cutOff = FALSE

-----------------------------------------------------------------------------
(* dispatchRelativePointerEventWithAbsolutePacket                          *)

\* numFingers: a light touch may count for none; without the capability the sizes
\* and pressures of fingers are guessed at; without W mode the count is always 1.
Counted ==
  CASE Capability = "none"        -> {1}
    [] fingers = 0                -> {0}
    [] Capability = "multifinger" -> {0, IF fingers > 3 THEN 3 ELSE fingers}
    [] pressed # {}               -> {0, 1}
    [] OTHER                      -> 0..3

\* Three fingers under the different settings of _prefGestureMode.
NumFingers(count) ==
  IF count # 3 THEN count
  ELSE CASE pref.gestures = "none" -> 0 [] pref.gestures = "scroll" -> 2 [] OTHER -> 3

\* The event of a stream that has not changed yet.
StreamEvent(n) ==
  CASE gap \/ n = 0                                   -> "default"
    [] event \in {"vertical", "horizontal", "dragging"} -> event
    [] n = 1                                          -> "movement"
    [] n = 2 -> IF pref.scroll = "twoFinger" THEN "scrolling" ELSE "movement"
    [] n = 3                                          -> "swipe"

AfterSwipe(e) == IF event = "swipe" /\ settleTime > 0 THEN "swipe" ELSE e

\* The edges count when a stream starts, also without a finger: the pad then reports
\* some position too.
AtEdge(e, edge) ==
  CASE event # "default" \/ pref.scroll # "edge"                -> e
    [] edge = "right"                                           -> "vertical"
    [] pref.horizontal /\ edge = "bottom"                       -> "horizontal"
    [] OTHER                                                    -> e

\* TAPPING: a short stream; far: it has moved by more than 50.
Tap(s) == ~s.long /\ ~s.far

\* The driver's state, as the parts of the method pass it on.
State(e, lapsed, far, buttons) ==
  [event |-> e, settleTime |-> settleTime, tapped |-> tapped, dragging |-> dragging,
   dragLocked |-> dragLocked, dragTimeout |-> dragTimeout, long |-> lapsed, far |-> far,
   buttons |-> buttons]

\* Deviation: a drag that goes on is still said to wait, its timer stopped.
NewStream_keepsDragging(s) ==
  LET t == [s EXCEPT !.settleTime = 2, !.long = FALSE]
  IN  IF dragging THEN [t EXCEPT !.dragTimeout = FALSE, !.event = "dragging"] ELSE t

\* A stream starts; a finger that comes back in time goes on dragging.
NewStream(s) ==
  LET t == [s EXCEPT !.settleTime = 2, !.long = FALSE]
  IN  IF dragging THEN [t EXCEPT !.dragTimeout = FALSE, !.dragging = FALSE, !.event = "dragging"]
                  ELSE t

EndOfScrolling(s, n) ==
  LET t == [s EXCEPT !.settleTime = IF n = 3 THEN 5 ELSE 10, !.event = "scrolling"]
  IN  IF pref.clicking /\ pref.secondaryClick /\ Tap(s)
        THEN [t EXCEPT !.buttons = {"right"}, !.event = "movement"]
        ELSE t

EndOfMovement(s) ==
  LET t == [s EXCEPT !.settleTime = 5]
  IN  CASE ~pref.clicking \/ ~Tap(s) -> t
        [] ~pref.dragging -> [t EXCEPT !.buttons = {"left"}]
        [] dragLocked     -> [t EXCEPT !.dragLocked = FALSE]
        [] OTHER          -> [t EXCEPT !.tapped = TRUE, !.dragTimeout = TRUE]

\* A tap ends a locked drag, or is the second of a double click.
EndOfDragging(s) ==
  LET t == [s EXCEPT !.settleTime = 10]
  IN  CASE ~Tap(s) -> [t EXCEPT !.dragging = TRUE, !.dragTimeout = TRUE]
        [] dragLocked                -> [t EXCEPT !.dragLocked = FALSE]
        [] OTHER                     -> [t EXCEPT !.buttons = {"left"}, !.tapped = FALSE]

\* What follows when the event changes, or has changed lately.
Settled(s, n) ==
  CASE settleTime > 0                             -> [s EXCEPT !.settleTime = @ - 1]
    [] event = "default"                          -> NewStream(s)
    [] s.event # "default"                        -> [s EXCEPT !.settleTime =
                                                        IF s.event # "scrolling" THEN 10 ELSE @]
    [] event = "scrolling"                        -> EndOfScrolling(s, n)
    [] event = "movement"                         -> EndOfMovement(s)
    [] event = "dragging"                         -> EndOfDragging(s)
    [] event \in {"swipe", "vertical", "horizontal"} -> [s EXCEPT !.settleTime = 10]

\* The second touch of a tap that is still pending starts a drag.
StartDrag(s) ==
  IF /\ s.event = "movement" /\ pref.clicking /\ pref.dragging
     /\ s.tapped /\ ~s.long
    THEN [s EXCEPT !.event = "dragging", !.tapped = FALSE, !.dragging = FALSE,
                   !.dragTimeout = FALSE, !.dragLocked = @ \/ pref.dragLock]
    ELSE s

\* A button of the pad ends a drag; otherwise a drag holds the left button.
Buttons(s) ==
  CASE s.event # "dragging" -> s
    [] s.buttons # {} -> [s EXCEPT !.event = "movement", !.tapped = FALSE, !.dragging = FALSE,
                                   !.dragLocked = FALSE, !.buttons = {}]
    [] OTHER -> [s EXCEPT !.buttons = {"left"}]

\* Deviation: scrolling ends when the fingers are lifted, without an event of its own.
Reports_scrolling(s) == s.event \in {"movement", "dragging"}

\* Scrolling sends no pointer event.
Reports(s) == s.event \notin {"vertical", "horizontal", "scrolling"}

\* After a packet that told of no finger and no button only a second of packets is left.
Linger == IF fingers = 0 /\ pressed = {} THEN "after" ELSE sending

packet ==
  /\ ~asleep /\ ~typing
  /\ sending # "no"
  /\ \E count \in Counted, lapsed, far \in BOOLEAN, edge \in {"none", "right", "bottom"} :
       /\ long => lapsed
       /\ lapsed => far                        \* a long stream is no tap, moved or not
       /\ edge # "none" => event = "default" /\ pref.scroll = "edge"   \* else nobody asks
       /\ LET n == NumFingers(count)
              e == AfterSwipe(StreamEvent(n))
              changed == e # event \/ settleTime > 0
              s == IF changed
                     THEN StartDrag(Settled(State(AtEdge(e, edge), lapsed, far, pressed), n))
                     ELSE State(e, lapsed, far, pressed)
              t == Buttons(s)
          IN  /\ event' = t.event /\ settleTime' = t.settleTime
              /\ tapped' = t.tapped /\ dragging' = t.dragging /\ dragLocked' = t.dragLocked
              /\ dragTimeout' = t.dragTimeout /\ long' = t.long
              /\ sentButtons' = IF ~Reports(t) THEN sentButtons
                             ELSE t.buttons \cup (IF t.dragging THEN {"left"} ELSE {})
  /\ gap' = FALSE
  /\ cutOff' = (cutOff /\ fingers = 0 /\ pressed = {})
  /\ sending' = Linger
  /\ UNCHANGED <<pref, fingers, pressed, touches, typing, asleep>>

\* _prefIgnoreAccidental: packets are dropped while the user types.
ignorePacket ==
  /\ ~asleep /\ typing
  /\ sending # "no"
  /\ gap' = TRUE
  /\ cutOff' = TRUE
  /\ sending' = Linger
  /\ UNCHANGED <<event, settleTime, tapped, dragging, dragLocked, dragTimeout, long,
                 pref, sentButtons, fingers, pressed, touches, typing, asleep>>

-----------------------------------------------------------------------------
(* The timer, settings and power                                           *)

\* A press and a release are sent, whatever the timer was for.
draggingTimeout ==
  /\ dragTimeout /\ dragTimeout' = FALSE
  /\ dragLocked' = FALSE /\ tapped' = FALSE /\ dragging' = FALSE
  /\ event' = "movement"
  /\ sentButtons' = {}
  /\ UNCHANGED <<settleTime, long, pref, fingers, pressed, touches, sending, gap, typing,
                 asleep, cutOff>>

\* The timer is not stopped.  The method runs on the thread of its caller, outside the
\* gate, and writes the settings one by one; here a packet finds all of them or none.
setParamProperties ==
  /\ pref' \in Prefs
  /\ dragLocked' = FALSE /\ dragging' = FALSE /\ tapped' = FALSE
  /\ UNCHANGED <<event, settleTime, dragTimeout, long, sentButtons, fingers, pressed,
                 touches, sending, gap, typing, asleep, cutOff>>

disableDevice ==
  /\ ~asleep /\ asleep' = TRUE
  /\ cutOff' = TRUE
  /\ UNCHANGED <<event, settleTime, tapped, dragging, dragLocked, dragTimeout, long,
                 pref, sentButtons, fingers, pressed, touches, sending, gap, typing>>

\* Part of the state is cleared: event, _dragging and the timer are not.  The pad
\* says nothing unless it is touched.
enableDevice ==
  /\ asleep' = FALSE
  /\ settleTime' = 0 /\ tapped' = FALSE /\ dragLocked' = FALSE
  /\ gap' = TRUE
  /\ sending' = IF fingers = 0 /\ pressed = {} THEN "no" ELSE "touched"
  /\ cutOff' = TRUE
  /\ UNCHANGED <<event, dragging, dragTimeout, long, pref, sentButtons, fingers, pressed,
                 touches, typing>>

\* The first byte of a packet shows that the pad has lost its power and its mode.
brownOut == ~asleep /\ enableDevice

-----------------------------------------------------------------------------
(* The user                                                                *)

unchangedByUser == <<event, settleTime, tapped, dragging, dragLocked, dragTimeout, long,
                     pref, sentButtons, asleep, cutOff>>

\* Fingers come and go, a button of the pad is pressed or released.
touch ==
  /\ touches < MaxTouches /\ touches' = touches + 1
  /\ \/ fingers = 0 /\ fingers' \in 1..3 /\ UNCHANGED pressed
     \/ pressed = {} /\ pressed' \in {{"left"}, {"right"}} /\ UNCHANGED fingers
  /\ gap' = (gap \/ sending = "no")
  /\ sending' = "touched"
  /\ UNCHANGED <<unchangedByUser, typing>>

lift ==
  /\ \/ fingers > 0 /\ fingers' \in 0..fingers - 1 /\ UNCHANGED pressed
     \/ pressed # {} /\ pressed' = {} /\ UNCHANGED fingers
  /\ sending' = IF sending = "no" THEN "no" ELSE "touched"
  /\ UNCHANGED <<unchangedByUser, touches, gap, typing>>

\* A second is longer than any settling time: a gesture that was received in full has
\* settled by then.  (For a pad whose Capability is "none" the driver counts one finger in
\* every packet, so that the stream does not settle and the pad never falls silent here.)
fallSilent ==
  /\ sending = "after"
  /\ cutOff \/ (settleTime = 0 /\ event = "default")
  /\ sending' = "no"
  /\ UNCHANGED <<unchangedByUser, fingers, pressed, touches, gap, typing>>

type ==
  /\ typing' = ~typing
  /\ UNCHANGED <<unchangedByUser, fingers, pressed, touches, sending, gap>>

padNext == packet \/ ignorePacket \/ draggingTimeout \/ setParamProperties
          \/ disableDevice \/ (asleep /\ enableDevice) \/ brownOut \/ touch \/ lift
          \/ fallSilent \/ type

padSpec == padInit /\ [][padNext]_padVars

-----------------------------------------------------------------------------
(* Properties                                                              *)

AtRest == fingers = 0 /\ pressed = {} /\ sending = "no"

\* When the pad has nothing more to say and no timer runs, no button is left down:
\* taps, drags, scrolling and settings end with a release although several of their
\* states send no pointer event.  The exception is a gesture whose last packets were
\* lost, to sleep, to a reset or to typing: nothing releases its button until the pad
\* is touched again.  A pad whose Capability is "none" does not come to rest in this
\* model, so that nothing is said of it.
NoButtonLeftDown == AtRest /\ ~dragTimeout /\ ~cutOff => sentButtons = {}

\* A drag that waits for the finger to come back holds the left button down, and is
\* never without the timer that ends it, however packets, settings, sleep and resets
\* come in between.  (A pending tap may be: a short drag that returns to where it began
\* is taken for a tap while the drag is waiting, and the next stream stops the timer.)
DragIsTimed == dragging => dragTimeout

=============================================================================
