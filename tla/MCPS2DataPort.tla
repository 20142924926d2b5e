--------------------------- MODULE MCPS2DataPort ---------------------------
(***************************************************************************)
(* The data port under the commands of the keyboard driver, of a pointing  *)
(* device driver and of a power change.                                    *)
(***************************************************************************)
EXTENDS PS2DataPort

CONSTANTS Keys, Movements,   \* how many bytes of the samples below are sent
          Run                \* which programs are run

\* Scan codes: A pressed, A released, B pressed.
KeySample == <<30, 158, 48>>
MCData == [s \in Stream |-> IF s = "Keyboard" THEN SubSeq(KeySample, 1, Keys)
                            ELSE SubSeq(<<8, 1, 2>>, 1, Movements)]

Step(do) == [do |-> do, stream |-> "Keyboard", reports |-> TRUE, setBits |-> {}, clearBits |-> {},
             left |-> 0]
SendAndCompare(s, reports) ==
  <<[Step("send") EXCEPT !.stream = s, !.reports = reports], [Step("compare") EXCEPT !.stream = s]>>
Set(setBits, clearBits) ==
  <<[Step("set") EXCEPT !.setBits = setBits, !.clearBits = clearBits]>>

setCommandByte(setBits, clearBits) ==
  <<Step("get"), Step("read"), Step("get"), Step("test")>> \o Set(setBits, clearBits)

\* Two commands of one request: when the first is not acknowledged, the second is not sent.
TwoCommands(s) ==
  [SendAndCompare(s, TRUE) EXCEPT ![2].left = 2] \o SendAndCompare(s, TRUE)

setLEDs == TwoCommands("Keyboard")
setMouseSampleRate == TwoCommands("Mouse")
enableMouseLine == setCommandByte({2}, {32})

sleep ==
  SendAndCompare("Mouse", FALSE) \o SendAndCompare("Keyboard", FALSE)
    \o setCommandByte({16}, {1}) \o <<Step("uninstall"), Step("freeze")>>
wake ==
  <<Step("get"), Step("read")>> \o Set({1, 2}, {16, 32}) \o <<Step("unblock")>>
    \o setCommandByte({2}, {32}) \o SendAndCompare("Mouse", TRUE)
    \o <<Step("install")>> \o setLEDs \o setCommandByte({1, 64}, {16})
    \o SendAndCompare("Keyboard", TRUE)

MCPrograms ==
  CASE Run = "acks"  -> {setLEDs, setMouseSampleRate}
    [] Run = "leds"  -> {setLEDs}
    [] Run = "power" -> {enableMouseLine, sleep, wake}
=============================================================================
