# TLA+ models of netbook-installer

This directory holds TLA+ models of the kernel extensions and of the installer of
the netbook-installer repository, TLC configurations that check them on small
instances, and TLAPS proofs of what matters most. `PROJECT.json` lists the
components, the runs, the source lines behind every definition, the hazards the
properties are aimed at and the theorems. Paths below are relative to
`Kext Sources/ApplePS2Controller/` unless they say otherwise.

## Inventory

| component | state | operations | hard behaviour | what makes it correct |
|---|---|---|---|---|
| **ApplePS2Controller: requests** | `_requestQueue`, event source, `_hardwareOffline`, `_currentPowerState`, nested activations of `processRequestQueue` | `submitRequest`, `submitRequestAndBlock`, `processRequestQueue`, `processRequest`, `setPowerState` (**modelled**); `stop` (not) | driver threads, the work loop, the power thread and interrupt routines meet in one gate that is recursive | no request or wake-up is lost, requests are linked once and completed once, the port rests while offline, every request and power change ends |
| **ApplePS2Controller: data port** | the 8042's output buffer, `_keyboardQueue` (32), signalled sources, `firstByte` | interrupt handlers, `interruptOccurred`, `readDataPort` (two versions), port writes | answers and unsolicited data share one byte of buffer; time-outs; data is dispatched in the middle of a request | the acknowledge is found, data arrives once and in order, no byte is stuck, nothing waits for ever |
| **ApplePS2Controller: debugger chord** | `_modifierState`, `_extendedState` | `doEscape` | a second parser of scan codes, in the interrupt handler, that also writes to the queue | follows the modifiers, no key sticks |
| **ApplePS2Keyboard** | `_extendCount`, `_keyBitVector`, settings | `dispatchKeyboardEventWithScancode`, LEDs, enable, power | multi-byte sequences, automatic repetition, shared key codes | keys are down exactly while they are held |
| **ApplePS2Mouse** | `_packetBuffer`, `_packetByteCount`, `_packetLength`, `_mouseResetCount` | `interruptOccurred`, `resetMouse`, `setIntellimouseMode`, start, stop, power | the reset runs inside the interrupt routine and receives data itself | buffer in bounds, packet length agrees with the mouse, back in step after faults |
| **ApplePS2SynapticsTouchPad** | `_event`, `_settleTime`, `_tapped`, `_dragging`, `_dragLocked`, the drag timer, settings | absolute packets, `draggingTimeout`, `setParamProperties`, power, re-initialisation after a brown-out | one timer for taps and drags, states that send no pointer event, lost packets | no button stays down, a drag that waits is ended |
| ApplePS2ALPSGlidePoint, ApplePS2ElantechTouchpad | packet buffers | mode switches, power (**modelled**); packet parsers (not) | asynchronous requests in the power routine | as the request service |
| **RealtekR1000** (`../RealtekR1000`) | `cur_tx`, `dirty_tx`, `cur_rx`, the descriptor rings, interrupt status and mask | `outputPacket`, `R1000Interrupt`, `R1000TxInterrupt`, `R1000RxInterrupt`, `R1000TxTimeout`, enable, disable, free | rings shared with the controller, indices that wrap, events cleared before they are served | a packet is freed once and received once, the rings get back in step, a stalled queue is restarted |
| **AppleACPIBatteryManager** (`../AppleACPIBatteryManager`) | what is known of the battery, poll timers, the power source | polls of `_STA`, `_BIF`, `_BST`, notifications, insertion, removal, wake-up | the battery changes between evaluations, evaluations fail, notifications are compared outside the gate | what is told is consistent and in the end true |
| **NetbookInstaller** (`NetbookInstaller/`) | volume menu, `installing`, the installing thread, Extra and Extra.bak of every volume | `performInstall`, `removePrevExtra` and the commands after it, `installBootdisk`, quitting | volumes come and go, commands fail, the application dies between commands | the user's files are somewhere at any time and back at the end; the window comes back |
| Mini9WirelessManager, Mini9MuteControl | radio status, codec state | port and verb protocols | — | not modelled, see the end |
| PostbootMounter, NetbookBootMaker, DSDT patchers, preference pane, PIIXATA, nubs, SMBIOSResolver, ClamshellDisplay | — | — | text, tables, pass-through, external tools | not modelled, see the end |

How they interact: the PS/2 drivers call the controller through nubs that pass calls
on unchanged. The controller calls the drivers back: interrupt routines
(`dispatchDriverInterrupt`) from the work loop or from the middle of a request,
and power control routines (`dispatchDriverPowerControl`) from the power change
thread. All of this runs inside the gate of one work loop; the interrupt handlers
do not, and share `_keyboardQueue` with it under `lockController`. The touchpad
driver learns from the keyboard driver when a key was pressed. Ethernet driver,
battery manager and installer each stand alone: they interact with hardware,
firmware, volumes and the user, which their modules include.

## Modules

* **RequestService** — what a driver may rely on: a request is in the controller's
  hands from its submission to its completion, which happens once, and a thread
  blocked on it is woken by that completion only.
* **PS2Requests** — the request service and power management in detail. `stack` is
  the stack of activations inside the gate: a driver routine at one of its calls, an
  entered `processRequestQueue` before and after it took the queue, and
  `processRequest` at one of its commands. Driver threads enqueue
  (`submitRequest`, `submitRequestAndBlock`) and signal (`signalQueueSource`) in
  two steps, as the code drops the lock in between. The in-gate branch of
  `submitRequestAndBlock` pushes an activation whose local queue ends with its own
  request. A power change is a pending thread call (`setPowerState`) that a thread takes
  up (`enterCallout`), after which it can be entered anew and another thread take up that
  one; each waits for the gate by itself (`setPowerStateCallout`). Inside the gate
  (`setPowerStateGated`) it is split where driver code or port accesses can be
  interleaved: `freezeRequests`, `unblockRequests`, `acknowledgeWake`. What the drivers
  do is a parameter: a *program* of calls.
  `ImplementsService` is RequestService with the pending and blocked requests read
  off queue, stack and threads.
* **PS2Drivers** — these programs and the command lists of the requests, for the
  keyboard, mouse, ALPS, Synaptics and Elantech drivers. **MCPS2Requests** picks a
  pointing device.
* **PS2RequestsProofs** — proofs about PS2Requests.
* **PS2DataPort** — one byte at a time: devices, 8042 output buffer, interrupt
  handlers, `interruptOccurred` and its loop, and `readDataPort` with the
  held first byte. A port program is the flat list of port accesses of a driver
  call or a power change; an access knows how many are left of its request (`left`),
  which a comparison that fails skips, as `processRequest` gives up the request. That
  the handlers are registered with the interrupt controller is `installed`; the
  registration itself is left out. **MCPS2DataPort** has those of `setLEDs`,
  `setMouseSampleRate`, `setCommandByte`, sleep and wake-up. **PS2DataPortProofs** has
  the proofs.
* **PS2Mouse** — packets and resets. A reset is a script of requests; a byte that is
  dispatched while a script waits for an answer may start another one on top.
  Bytes are kept by what the driver can tell about them; movements do not contain the
  bytes of an acknowledge or an announcement (0xFA, 0xAA). **PS2MouseProofs** has the
  proofs.
* **PS2Keyboard** — the two parsers of scan codes, the debugger chord and the queue
  between them, on the real scan codes of twelve keys that cover every path of the
  parsers. **PS2KeyboardProofs** has the proofs.
* **SynapticsTouchPad** — absolute packets as the pad sends them while it is touched
  and for a second afterwards. A packet's effect is one step, composed as in the
  method: finger count, event of the stream, edges, start or end of a stream,
  start of a drag, buttons. How far and for how long a finger moved is left open with
  every packet. `setParamProperties`, which writes the settings outside the gate on
  another thread, is one step. A pad with neither W mode nor finger count never comes
  to rest in the model, so that NoButtonLeftDown says nothing of it. **MCInput** runs
  keyboard and touchpad: a behaviour is one of one
  device, the other rests, since all the touchpad sees of keys is a time that its
  model leaves open (`typing`). **SynapticsProofs** has the proof.
* **RealtekR1000** — both rings, the controller that sends, receives and raises
  events, and the driver's code in the gate. The interrupt routine is split between
  reading the status, clearing it and serving the rings, and the receive loop takes a
  descriptor in each step, since what the loop finds there may change under it: an
  allocation that fails once, a descriptor the controller fills meanwhile. `spare` are
  the words behind the ring that the transmit loop reads. **RealtekR1000Proofs** has
  the proofs.
* **ACPIBattery** — the polls evaluation by evaluation, the poll timer, `message`
  outside and inside the gate. With several bays an empty one gets no battery device at
  start (`fBattery`), no gate and no timer. `told` is what the power management was
  last told: `updateStatus` of IOPMPowerSource (external) tells of changes that its
  setters noticed, and `setFullyCharged` writes its property past them.
  **ACPIBatteryProofs** has the proof.
* **NetbookInstaller** — main thread, installing thread, and the folders of every
  volume. Every file command is a step that may work on another volume than the one
  chosen (`misled`) or be the last before the application dies. Copies may also fail
  halfway; deleting and making a folder, and the installer's own files, are taken to
  succeed.
  **NetbookInstallerProofs** has the proofs.

Definitions named `X_something`, commented "Deviation", are plausible mistakes in
the code of `X`; no specification uses them. Replacing `X` by one shows that the
property it is paired with in `PROJECT.json` depends on that code.

PS2Requests leaves the bytes out, PS2DataPort the queue of requests; PS2Mouse
takes the data port's second chance and the request order from both.

## Runs

| run | what it shows |
|---|---|
| `requests_alps` | 21,657 states. Keyboard and ALPS drivers, a driver thread that waits for its request, any sequence of power changes of which two may wait for the gate at a time: type, requests atomic, port quiet while offline, the drivers' sleep commands carried out before going offline; every request completes, every power change is acknowledged, and a state that was asked for is reached unless another is asked for before a thread takes the call up |
| `requests_synaptics` | 238,909 states. With the Synaptics driver, whose interrupt routine sets the pad up again inside other requests, a thread that waits and one that does not, and one power change at a time: no lost wake-up, no forgotten waiter, requests linked once, and PS2Requests implements RequestService whatever nests |
| `requests_wake_hang` | violated: a mouse byte met by the wake-up's `readDataPort` starts a reset while requests still fail; `setCommandByte` then loops for ever and the power change is never acknowledged (comment at ApplePS2Controller.cpp:1461) |
| `dataport_acks` | 5,803 states. A key and a movement among the answers to `setLEDs` and `setMouseSampleRate`: acknowledges found, data delivered, in order |
| `dataport_limits` | 154,693 states. Lost and late answers, which end the request they belong to, with a queue of two: drops, but no reordering, no stuck byte, no endless wait |
| `dataport_power` | 24,808 states. `setCommandByte`, sleep and wake-up with data at any point: the command byte is only replaced by one computed from it |
| `mouse` | 30,918 states. Two faults (lost bytes, replaced mouse) at any point, nested resets: buffer, packet length, nesting, and recovery |
| `input` | 809,268 states. Ten keys, three strokes, in every overlap; two touches or button presses with every packet, setting, sleep, brown-out and typing in between: no key and no button stays down, a waiting drag is timed |
| `ethernet` | 504,670 states. Five packets one way or two each way through rings of three, interface off and on twice: freed once, received once and in order, in step after the watchdog, stalled queue restarted |
| `battery` | 34,108 states. Two changes of the battery and a failing evaluation anywhere, a bay with and without a battery device: told consistently, and with a device in the end the truth (but for "fully charged" of a battery that was removed, which may stay told) |
| `installer` | 757,298 states. Two installations on a disk and a DVD, a mount change, an edit by the user, a failing copy or crash anywhere: nothing lost, carried over, and the window comes back. Nothing lost excepts a volume that is installed to again after a failure, and volumes that change under an installation; carried over excepts damaged volumes |
| `booter_extensions` | violated: "Preserve AdditionalExtensions, just in case" (NetbookInstallerController.m:442); the third booter on a volume restores the extensions of the first backup |

More disagreements were met and are kept as hazards in `PROJECT.json` instead of runs:

* a request submitted while offline is failed, where the comment at
  ApplePS2Controller.cpp:1393 speaks of a frozen queue;
* with the mouse or the Synaptics driver requests are not atomic, against
  ApplePS2Device.h:222: a reset runs inside another request;
* the second byte of an arrow key can overtake the first (comment at
  ApplePS2Keyboard.cpp:263);
* a mouse replaced in the middle of a packet is not noticed (ApplePS2Mouse.cpp:348);
* the debugger chord with the gray Delete key leaves the left Alt down
  (ApplePS2Controller.cpp:1230);
* `outputPacket` may overwrite the link to a packet that was sent but not freed
  (RealtekR1000.cpp:395);
* a pending tap of the touchpad can lose its timer: a short drag that returns to where
  it began is taken for a tap while the drag waits, and the next stream stops the timer;
* with several bays, a battery put into a bay that was empty at start is never told
  (AppleACPIBatteryManager.cpp:71-79);
* a volume pulled while an installation runs makes another one the target, and one
  pulled before leaves the window without its button.

### Bounds

* Requests: a request structure is in use once, so requests need no counter. Of
  repeated commands of a request and of the requests of a mouse reset one of each
  kind is kept (`Abridged`, `Shortened` in MCPS2Requests): what is repeated adds
  only states that differ in an index. Interrupt routines nest once per program.
  `Callout` are the threads that power changes run on: two in the run with one driver
  thread, so that they race for the gate, one in the others. `MaxPowerCalls` bounds how
  many are not acknowledged when power management asks again, which it does after five
  seconds at most. Two driver threads and two callouts together are too many states for
  the liveness properties.
* Data port: one to three bytes per device. A held byte plus a second mismatch needs
  two; a full queue of two with a third key needs three. Each program runs once.
* Mouse: `MaxFaults` 2 (a fault during the recovery from another), `ResetLimit` 1.
  The properties also hold for limits of 2 and 5 and for mice of all three types;
  1 makes the limit bite soonest. `reconnect` is limited to places between packets
  (`InPacket = FALSE`) because of the hazard above.
* Keyboard: `MaxStrokes` 3 presses or repetitions; the debugger chord takes three.
  The queue has its real size. `ChordInOrder` keeps Delete the last key of the chord.
* Touchpad: `MaxTouches` 2, enough for a tap and the touch that makes it a drag, or a
  drag and its continuation; number and kind of packets and the settling times are the
  code's. Two settings between which the user may switch at any time: all gestures
  with two-finger scrolling, and edge scrolling.
* Ethernet: rings of 3 (`NumTxDesc`, `NumRxDesc`), `MaxWork` 2 and up to 5 packets, so
  that rings fill, wrap, and leave work for a later interrupt; `MaxEnables` 2.
* Battery: `MaxChanges` 2 (a battery pulled and put back), `MaxFailures` 1.
* Installer: `MaxInstalls` 2 (the second meets the backup of the first), `MaxMounts`,
  `MaxEdits` and `MaxFaults` 1.

### Fairness

* Requests: threads that can run do (signalling, the holder of the gate). A repeated
  test-and-set gets through in the end, and data of the other stream does not hold
  up the wake-up's read for ever (both strong: the holder may be preempted in
  between). A pending power change is taken up by a thread. The gate is a queued lock,
  so that neither the queue source nor one of the power threads starves (strong).
  `readDataPort` is bounded by `timeoutCounter`, which is why every
  command ends.
* Data port: devices, interrupt handlers and the work loop get their turn; which
  program is started, and whether an answer gets lost, is left open.
* Mouse: the gate holder and `start` run; the mouse is moved, and not all bytes of
  movements have bit 3 set, since otherwise nothing could tell the driver that it is
  out of step.
* Ethernet: a controller that is told of packets transmits them, interrupts are served,
  the watchdog fires when it is armed.
* Battery: evaluations and `message` end; the timer fires and a message gets into the
  gate although both compete for it (strong).
* Installer: commands end, and the main thread gets to its messages.

Deadlock is not checked: the environments are bounded (keys, movements, packets and
programs run out, a controller without requests rests). Unwanted rest is what the
liveness properties and NoLostWakeup, NoStuckInput exclude.

## Proofs

TLC shows a property for the constants of a run; the theorems below hold for every value
of the constants that meets the module's named assumptions. Every inductive invariant was
checked by TLC before it was proved.

| module | theorem | property |
|---|---|---|
| PS2RequestsProofs | TypeCorrect, BlockedNeverForgotten, WakeupNeverLost, OfflineIsQuiet | TypeOK, BlockedThreadsHaveRequests, NoLostWakeup, OfflineQuiesced |
| | AtomicWithoutResets | RequestsAtomic, if no interrupt routine issues requests |
| | RequestsLinkedOnce, SleepIsDrained | PendingOnce, SleepDrained |
| | ServiceImplemented | ImplementsService: PS2Requests implements RequestService |
| PS2DataPortProofs | TypeCorrect | TypeOK |
| | InputNeverStuck | NoStuckInput, for programs that leave the command byte alone |
| | KeysStayInOrder | KeysInOrder, for distinct keys and programs that read the keyboard stream |
| | AcknowledgeAlwaysFound, DataDeliveredInOrder | AcknowledgeFound, DeliveredInOrder, for acknowledged commands, one byte of its own per device, no time-outs |
| | CommandByteStaysAtomic, CommandByteAtomicForOneKey | CommandByteAtomic, with at most one scan code under way while a program runs, no time-outs |
| PS2MouseProofs | TypeCorrect, PacketNeverOverruns, PacketLengthAgrees | TypeOK, PacketFits, ModeAgrees |
| | NestingWithoutFaults | NestingBounded, as long as nothing was lost or replaced |
| PS2KeyboardProofs | TypeCorrect, ModifiersAlwaysFollowed | TypeOK, ModifiersFollowed |
| | NoKeySticks, HeldKeysAlwaysReported, NoKeySticksInTime | NoStuckKeys, HeldKeysReported, as long as the keyboard queue has room |
| SynapticsProofs | DragAlwaysTimed, ButtonsReleased | DragIsTimed, NoButtonLeftDown |
| RealtekR1000Proofs | PacketsFreedOnce, PacketsReceivedOnce, RingInStep | FreedOnce, ReceivedOnce, WatchdogResynchronises |
| ACPIBatteryProofs | ToldAlwaysConsistent | ToldConsistent |
| NetbookInstallerProofs | NoFileLost, FilesCarriedOver | NothingLost, CarriedOver |

**PS2RequestsProofs** (all sets of requests, command lists and driver programs). The first
four theorems come from `ServiceInv`, the conjunction of

* `TypeInv`: TypeOK, well-formed activations (a request under way has a command to
  be at), and a target for each power change under way;
* `GateFree`: a free gate means an empty stack;
* BlockedThreadsHaveRequests, NoLostWakeup, OfflineQuiesced.

The last three are not inductive alone: that completing a request wakes the right
thread needs the form of the innermost activation; that going offline leaves no
request in the middle needs to know that the power change holds the gate with an
empty stack; that a queue taken is not lost needs the activation's kind. The proof
has lemmas for pushing, updating and popping an activation, one for the completion
of a request, and a step per action. `AtomicWithoutResets` adds `Flat` (only driver
routines have activations above them) and assumes `IntrRoutines = {}`: requests made
by interrupt routines are the only way one request gets into the middle of another.

PendingOnce becomes inductive as `LinkInv`: a driver program runs in one activation at a
time (`RoutinesApart`), what a routine has still to submit without waiting is not in use
(`AsyncUnused`), and what it waits for is in the activation just above it or nowhere
(`SyncAbove`). An asynchronous request of the enable routines can only be free again at
the next wake-up because the way to sleep, in between, ends with a synchronous request,
and serving that drains the queue: `PowerInv` follows the phases of a power change and
says when the queue holds none of the requests of either routine. SleepDrained is part of
the same argument. `DriversAssumption` is what this needs of the drivers: programs share
no requests (each driver call allocates its own), within a program an asynchronous request
is submitted once, and the way to sleep ends with the command byte loop of the keyboard
driver's `setCommandByte`. TLC evaluates it on the programs of
PS2Drivers in every run.

The refinement goes through `ServiceMove`: each step leaves the set of pending requests and
the blocked threads alone, submits a request that was not pending, or completes one that
was and wakes its thread. That the submitted one was not pending is LinkInv.

**PS2DataPortProofs** (all port programs, all data, every queue size). TypeInv adds
`Running`: a program is at one of its accesses, and a byte is held, or the port polled, by
a read only. `InputInv` ties a byte in the port to its interrupt and queued scan codes to
their source, with the mouse byte that the work loop is going to look for as the
exception.

The next three theorems share one argument. Bytes of a stream travel along a `Line` of six
stages: delivered, held, keyboard queue, output buffer, answers on their way, unsent data.
An order R between bytes, and a set V(i) of the bytes allowed in stage i, are preserved by
every move along the line that neither skips a byte nor puts one where it does not belong;
each action is shown to be such a move. For KeysInOrder R is the order of the keyboard; for
the correction R keeps bytes apart and V allows an acknowledge only while one is awaited,
in the stages it is looked for. The hypotheses are where the code's guarantee ends: with
a mouse read in a program a scan code in the port is dispatched ahead of the queue, and
the correction of `readDataPort` is made for one unexpected byte, so that two make it
give up. Both are listed as hazards.

The last two theorems are about the test-and-set of the command byte, whose answers come in
the keyboard's own stream. `CommandInv` says what is under way between keyboard and driver
(`InFlight`: queue, output buffer, answers) at each place of a program: an awaited
acknowledge or command byte with at most one scan code before or after it, one that was
taken for an answer included (`AtCompare`, `AtGet`, `AtTest`), and scan codes only where
nothing is awaited. A scan code taken for the command byte leaves the real one behind, and
the test then compares the two and starts again. The set without a test on the way to sleep
and on wake-up reads the real command byte for another reason: the keyboard was told to be
silent before, and once its acknowledge was found nothing of it is under way (`Silent`,
`Hushed`). The hypotheses: `SetPrograms` is the form of the programs that the drivers
issue, each comparison that fails skipping the rest of its request (TLC evaluates it to
TRUE on the programs of the power run); no time-outs; a queue of
two bytes or more (with one, TLC finds an answer dropped); scan codes that differ from the
acknowledge and the command byte; and `OneKey`, at most one scan code under way while a
program runs. CommandByteStaysAtomic takes the last two as assumptions on the behaviour;
CommandByteAtomicForOneKey has assumptions on the constants only (a keyboard that sends one
scan code, and a set V of command bytes that is closed under what the programs do to them
and has no scan code in it), all of which the power run's instance meets. Two scan codes
that are equal pass the test and become the command byte (listed as a hazard); with
distinct ones TLC finds no violation up to four and one with five, where two copies of an
older command byte, left behind by rounds that read scan codes, match the read and the test
of a later test-and-set.

**PS2MouseProofs** (any mouse, reset limit and number of faults). TypeOK and PacketFits
come from `MouseInv`: every script on the stack stands at a byte of its request, and the
mouse is at a place of a packet of its mode. PacketLengthAgrees needs to know what is on
the line while a script runs (`AgreeInv`, as long as nothing was lost):

* `LineOK`: at most one byte of a movement is in front of what the innermost script
  waits for, so that the second chance of `readDataPort` finds the acknowledge, and none
  is in front of data it reads; no read times out.
* A command ends the packet the mouse was sending. Between two commands of a script there
  is time for the first byte of a packet only (`Settled`), which has bit 3 set and so
  starts no reset. Resets therefore start on top of a script only after its "disable", at
  its command byte or at its end (`Parked`): never between the identification command and
  its answer, which the inner reset would take.
* `StartOK` follows rates and mode of the mouse through start's script, at whose end the
  mouse is in the mode it is capable of. No later command takes it out of that mode,
  so each later identification finds the same (`ModeOK`).

NestingWithoutFaults adds `NestInv`: every script under way after start, but the one of
stop, has been counted in `_mouseResetCount`, because no packet becomes complete, and sets
the count back, while a reset is under way: the packet buffer was empty when the reset
began and gets one byte at most before the mouse is stopped (`BufferShort`), and after that
nothing of a movement is on the line (`Calm`). The script of start is on the stack and not
counted, hence the limit of one or more.

**PS2KeyboardProofs** (any subset of the twelve modelled keys, any queue size and number
of strokes). `ChordInv` describes
the wire: either nothing is on it and `_modifierState` is what is held, or it is the
rest of the sequence of one press or release, Print Screen or Pause, and
`_modifierState` lacks just what that rest will tell.

NoStuckKeys and HeldKeysReported speak of what the driver's parser has made of the scan codes
once the queue is empty, and what it will make of a queue is a fold over it. Instead of the
fold the invariant `KeyInv` says that there is a parser state reached by a run over
the queue, one state per scan code (`Parsing`), so that a code entered at the end lengthens the
run and a code taken off the front shortens it; no induction over the queue is needed.
`WireInv` relates that state to the wire and the keys that are down: `Knows` (all
that is reported belongs to keys that are down, and each of these that shares no key code
is reported) up to what the rest of the current sequence will tell.
`Room` (the queue is not full) is needed because a full queue drops releases as well as
presses; NoKeySticksInTime replaces it by a bound on the strokes (a stroke sends eight codes
at most, `QueueInv`), however slow the work loop is. `PlainDelete` is needed because the
debugger chord takes the last code of the gray Delete key and leaves its prefix on the queue,
ahead of the next code. The input run's instance meets both.

**SynapticsProofs** (any settings, pad and number of touches). The parts of the method
(`NewStream`, the ends of streams, `Settled`, `StartDrag`, `Buttons`) are each shown to
keep "a drag that waits is timed" of the state they pass on, and the packet is their
composition (`PadInv`). `ReleaseInv` adds what a gesture that was received in full leaves:
no button in the last event, or a timer that will send a release.

**RealtekR1000Proofs** (rings of any size, any load). `LinkInv` numbers packets in the order
of the stack; one not handed over yet is neither linked nor freed. `RingInv` describes the
ring before it is switched on for the first time. `RxInv` says that the descriptors from
`cur_rx` on are those the controller has filled since, in the order of arrival (`RxFilled`),
or that the driver has gone round to a descriptor with an error, which is never given
back, while the controller waits for it (`RxStuck`). The second case came out of the proof:
it needs an allocation that fails and succeeds later, and the receive loop had to be
modelled descriptor by descriptor to have it.

**ACPIBatteryProofs** (any number of changes and failures). What makes ToldConsistent
inductive (`BatteryInv`) is `PresenceKnown`: a poll that got past `_STA`, and a battery that
an earlier poll found, have marked the power source as installed, so that the answer to
`_BST` may be passed on.

**NetbookInstallerProofs** (any volumes and files, any number of installations and
failures). `VolumeInv` says where the files of a volume are before each command of the
installing thread: in Extra, in Extra.bak, or in Extra.bak/Extra.

Assumptions, all evaluated by TLC: `ConstantsAssumption` and `DriversAssumption`
(PS2Requests), `PortAssumption` (a queue of at least one byte, programs that are not empty,
a test with the three accesses it repeats before it), `MouseAssumption`,
`KeyboardAssumption` (types), `R1000Assumption` (no interrupt goes once round a ring),
`InstallerAssumption` (kernel extensions are not named like the other files).

Only model-checked:

* all liveness and everything about fairness, which is out of the prover's reach;
* NestingBounded after faults: how much deeper a lost byte makes resets nest depends on which
  answers are then taken for which, and no invariant short of following the script with each
  possible loss was found;
* CommandByteAtomic with several distinct scan codes under way at a time: the copies of the
  command byte that are left behind then add up, and how many there are at a time depends on
  the number of scan codes (see above).

## Plan

Done: 1. the request service, its drivers, its abstraction and its proofs; 2. the data
port; 3. the mouse; 4. the keyboard; 5. the Ethernet driver's rings; 6. the Synaptics
touchpad; 7. the battery; 8. the installation sequences with failures; 9. theorems for
every safety invariant, for two of them under the conditions above. Next:

10. Sleep and wake-up in PS2Keyboard (key state that survives sleep), keyboard `stop`.
11. NetbookBootMaker and the uninstaller on the volumes of NetbookInstaller.
12. The codec loop of Mini9MuteControl.

## Not modelled

Most of the repository's lines are not the program's own logic. Of some 108,000 lines of
implementation about 20,000 are this project's drivers and tools; the rest are copies of
Apple's IOHIDFamily and IOAudioFamily, kernel headers (`PostbootMounter/sysproto.h`),
tables (`NetbookInstaller/pci_device_ids.h`, key maps, codec tables) and files shipped
for particular machines. They are third-party code or data and are left out. Of the
project's own code:

* register programming and timing have no decisions that a model could get wrong: PHY and
  MAC set-up of RealtekR1000, the tables and DMA set-up of AppleIntelPIIXATA;
* text rewriting and property lists (DSDT patchers, boot and extension property lists)
  are formatting;
* user interface: preference pane, about window, progress;
* nubs, AppleACPIPS2Nub, ClamshellDisplay and SMBIOSResolver pass calls on, match devices
  or publish tables once;
* Mini9WirelessManager reads the radio's status once; the operation that would change it
  has no caller. PostbootMounter races for the mount hook with extensions that are not in
  the repository, so that a model of the race would be one of invented code;
* `stop` of the controller runs `processRequestQueue` on its own thread outside the gate
  and frees the lock (ApplePS2Controller.cpp:372-428). Whether the work loop, a power
  change or a driver can still be running depends on how IOKit terminates the nubs and
  releases the work loop, which is not in the repository;
* the command byte between two drivers: port programs run one after the other in
  PS2DataPort, so that CommandByteAtomic is about scan codes among the answers only;
* evaluations of ACPI methods that do not return, for which `fBatteryReadAllTimer` is
  meant, which is never added to the work loop;
* `probe` methods and allocation failures of the modelled drivers, the relative mode of
  the touchpads, and the polled packets of the kernel debugger.
