----------------------------- MODULE PS2Drivers -----------------------------
(***************************************************************************)
(* The requests the PS/2 device drivers issue: for each of their methods   *)
(* the calls it makes on the controller, in order, and for each request    *)
(* the command primitives it is filled with.  A request is named by the    *)
(* call site that allocates it (the driver method that ends up running and *)
(* what the request is for), so two requests that can be outstanding at    *)
(* the same time are distinct.                                             *)
(***************************************************************************)
EXTENDS Naturals, Sequences

Async(site, name) == <<[op |-> "async", req |-> <<site, name>>]>>
Sync(site, name)  == <<[op |-> "sync",  req |-> <<site, name>>]>>
Until(site, name) == <<[op |-> "until", req |-> <<site, name>>]>>
IfDone(site, name) == <<[op |-> "ifDone", req |-> <<site, name>>]>>

\* The test-and-set loop all drivers have: read the command byte, then replace
\* it if it still has the value that was read.
setCommandByte(site) ==
  Sync(site, "readCommandByte") \o Sync(site, "testAndSet") \o Until(site, "testAndSet")

-----------------------------------------------------------------------------
(* ApplePS2Keyboard                                                        *)

setLEDs(site) == Async(site, "setLEDs")
setKeyboardEnable(site) == Async(site, "setKeyboardEnable")

Keyboard_DisableDevice == setKeyboardEnable("kbdDisable") \o setCommandByte("kbdDisable")
Keyboard_EnableDevice ==
  setLEDs("kbdEnable") \o setCommandByte("kbdEnable") \o setKeyboardEnable("kbdEnable")

-----------------------------------------------------------------------------
(* ApplePS2Mouse                                                           *)

setMouseEnable(site, name) == Sync(site, name)
setMouseSampleRate(site, name) == Async(site, name)
setMouseResolution(site) == Async(site, "setMouseResolution")
getMouseID(site) == Sync(site, "getMouseID")

\* A mouse that is not an Intellimouse: one identification, no wheel.
setIntellimouseMode(site) ==
  setMouseSampleRate(site, "rate200") \o setMouseSampleRate(site, "rate100")
    \o setMouseSampleRate(site, "rate80") \o getMouseID(site)
    \o setMouseSampleRate(site, "rateRestore")

\* After the first reset _mouseInfoBytes is known and the resolution is restored.
resetMouse(site) ==
  Sync(site, "setDefaults") \o setMouseResolution(site) \o setIntellimouseMode(site)
    \o setCommandByte(site) \o setMouseEnable(site, "enable")

scheduleMouseReset(site) == setMouseEnable(site, "disable") \o resetMouse(site)

Mouse_DisableDevice == setMouseEnable("mouseDisable", "disable")
Mouse_EnableDevice == resetMouse("mouseEnable")

-----------------------------------------------------------------------------
(* ApplePS2ALPSGlidePoint                                                  *)

setSampleRateAndResolution(site) == Sync(site, "setSampleRateAndResolution")
setTapEnable(site) ==
  Sync(site, "setTapEnable") \o IfDone(site, "setTapEnable") \o setSampleRateAndResolution(site)
setTouchPadEnable(site) == Async(site, "setTouchPadEnable")

ALPS_DisableDevice == setTouchPadEnable("alpsDisable")
ALPS_EnableDevice ==
  setTapEnable("alpsEnable") \o setCommandByte("alpsEnable") \o setTouchPadEnable("alpsEnable")

-----------------------------------------------------------------------------
(* ApplePS2ElantechTouchpad issues the requests of the ALPS driver.        *)

Elantech_DisableDevice == setTouchPadEnable("elantechDisable")
Elantech_EnableDevice ==
  setTapEnable("elantechEnable") \o setCommandByte("elantechEnable")
    \o setTouchPadEnable("elantechEnable")

-----------------------------------------------------------------------------
(* ApplePS2SynapticsTouchPad                                               *)

setTouchPadModeByte(site) == Sync(site, "setTouchPadModeByte")
setPadEnable(site) == Sync(site, "setPadEnable")

Synaptics_DisableDevice == setPadEnable("synDisable")
Synaptics_EnableDevice(site) ==
  setTouchPadModeByte(site) \o setCommandByte(site) \o setPadEnable(site)

\* What interruptOccurred does when the first byte of a packet shows that the pad
\* has lost its mode.
Synaptics_brownOut == Synaptics_EnableDevice("intr")

-----------------------------------------------------------------------------
(* Command lists.                                                          *)

TransmitAndAck == <<"WriteCommandPort", "WriteDataPort", "ReadDataPortAndCompare">>
SendAndAck == <<"WriteDataPort", "ReadDataPortAndCompare">>
Send(n) == [k \in 1..n |-> "SendMouseCommandAndCompareAck"]

CommandList(name) ==
  CASE name = "readCommandByte"   -> <<"WriteCommandPort", "ReadDataPort">>
    [] name = "testAndSet"        -> <<"WriteCommandPort", "ReadDataPortAndCompare",
                                       "WriteCommandPort", "WriteDataPort">>
    [] name = "setLEDs"           -> SendAndAck \o SendAndAck
    [] name = "setKeyboardEnable" -> SendAndAck
    [] name \in {"enable", "disable"} -> TransmitAndAck
    [] name \in {"rate200", "rate100", "rate80", "rateRestore", "setMouseResolution"}
                                  -> TransmitAndAck \o TransmitAndAck
    [] name = "getMouseID"        -> TransmitAndAck \o <<"ReadDataPort">>
    [] name \in {"setDefaults", "setPadEnable"} -> Send(1)
    [] name = "setTouchPadModeByte" -> Send(12)
    [] name = "setTouchPadEnable" -> Send(5)
    [] name = "setTapEnable"      -> Send(14)
    [] name = "setSampleRateAndResolution" -> Send(6)
=============================================================================
