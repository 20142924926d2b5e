-------------------------- MODULE MCPS2Requests --------------------------
(***************************************************************************)
(* The request service with the drivers of a netbook: the keyboard driver  *)
(* and one of the pointing devices: the ALPS or the Elantech touchpad,     *)
(* whose interrupt routines issue no requests, the PS/2 mouse, which is    *)
(* reset by its interrupt routine when packets get out of step, or the     *)
(* Synaptics touchpad, which is set up anew when it has lost its mode.     *)
(* Up to two driver threads issue requests of their own, one a synchronous *)
(* one, the other a fire-and-forget one.                                   *)
(***************************************************************************)
EXTENDS PS2Requests, PS2Drivers, FiniteSets

CONSTANTS Pointer,  \* "alps", "elantech", "mouse" or "synaptics"
          Threads   \* the driver threads: a subset of {"async", "sync"}

MCThreadAsync == IF "async" \in Threads THEN {<<"thread1", "setLEDs">>} ELSE {}
MCThreadSync == IF "sync" \in Threads THEN {<<"thread2", "readCommandByte">>} ELSE {}

\* Bound: of the requests of a mouse reset, one of each kind is kept: a
\* synchronous command, a fire-and-forget one and the test-and-set loop.
KeptInReset == {"disable", "rate200", "readCommandByte", "testAndSet"}
Shortened(prog) == SelectSeq(prog, LAMBDA op : op.req[2] \in KeptInReset)

MCIntrRoutines ==
  CASE Pointer = "mouse"     -> {Shortened(scheduleMouseReset("intr"))}
    [] Pointer = "synaptics" -> {Synaptics_brownOut}
    [] OTHER                 -> {}
MCMouseDisable ==
  CASE Pointer = "mouse"     -> Mouse_DisableDevice
    [] Pointer = "synaptics" -> Synaptics_DisableDevice
    [] Pointer = "elantech"  -> Elantech_DisableDevice
    [] OTHER                 -> ALPS_DisableDevice
MCMouseEnable ==
  CASE Pointer = "mouse"     -> Shortened(Mouse_EnableDevice)
    [] Pointer = "synaptics" -> Synaptics_EnableDevice("synEnable")
    [] Pointer = "elantech"  -> Elantech_EnableDevice
    [] OTHER                 -> ALPS_EnableDevice
MCKeyboardDisable == Keyboard_DisableDevice
MCKeyboardEnable == Keyboard_EnableDevice

MCRequest ==
  MCThreadAsync \cup MCThreadSync
    \cup UNION {{prog[k].req : k \in DOMAIN prog} :
                  prog \in MCIntrRoutines \cup {MCMouseDisable, MCMouseEnable,
                                                MCKeyboardDisable, MCKeyboardEnable}}

\* Bound: of a run of identical commands, and of a group of commands that is
\* repeated, the first is kept.
Abridged(list) ==
  LET first == {k \in DOMAIN list : \A j \in 1..(k - 1) : list[j] # list[k]}
  IN  [n \in 1..Cardinality(first) |->
         list[CHOOSE k \in first : Cardinality({j \in first : j <= k}) = n]]
MCCommands == [r \in MCRequest |-> Abridged(CommandList(r[2]))]
=============================================================================
