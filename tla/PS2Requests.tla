---------------------------- MODULE PS2Requests ----------------------------
(***************************************************************************)
(* The request service of ApplePS2Controller: how the PS/2 device drivers  *)
(* get sequences of port commands executed, from their own threads, from   *)
(* their interrupt routines and from their power control routines.         *)
(*                                                                         *)
(* Driver threads append to _requestQueue under a spin lock and signal an  *)
(* interrupt event source; one work loop empties the queue.  Code that     *)
(* already runs inside the gate of the work loop (interrupt routines, the  *)
(* power change thread) executes a synchronous request on the spot, so the *)
(* controller is a stack of activations: `stack' holds them, the innermost *)
(* one last.  Requests have an identity and are reused once completed.     *)
(*                                                                         *)
(* The controller is one that has been started and is not stopped.         *)
(***************************************************************************)
EXTENDS Naturals, Sequences, FiniteSets

CONSTANTS
  Request,       (* every PS2Request the drivers use                           *)
  Commands,      (* the list of command primitives of each request             *)
  ThreadAsync,   (* requests a driver thread passes to submitRequest           *)
  ThreadSync,    (* requests a driver thread passes to submitRequestAndBlock   *)
  IntrRoutines,  (* what interrupt routines may do: a set of driver programs   *)
  Callout,       (* threads that may be running the power change thread call   *)
  MaxPowerCalls, (* bound: power changes asked for and not yet acknowledged    *)
  MouseDisable, KeyboardDisable,   (* the power control routines of the mouse  *)
  MouseEnable,  KeyboardEnable     (* and the keyboard driver: driver programs *)

CommandKind == {"ReadDataPort", "ReadDataPortAndCompare", "WriteDataPort",
                "WriteCommandPort", "SendMouseCommandAndCompareAck"}

\* A driver program is a list of calls made inside the gate.  "until" closes a
\* do-while loop whose body is the two calls before it, "ifDone" guards the call
\* after it; both look at whether the request got through all its commands.
Op == [op : {"async", "sync", "until", "ifDone"}, req : Request]
Program == {prog \in Seq(Op) : \A k \in DOMAIN prog : prog[k].op = "until" => k > 2}

RequestsOf(prog) == {prog[k].req : k \in DOMAIN prog}

ASSUME ConstantsAssumption ==
  /\ Commands \in [Request -> Seq(CommandKind) \ {<<>>}]
  /\ ThreadAsync \subseteq Request
  /\ ThreadSync \subseteq Request
  /\ \A prog \in IntrRoutines : prog \in Program
  /\ MouseDisable \in Program /\ KeyboardDisable \in Program
  /\ MouseEnable \in Program /\ KeyboardEnable \in Program

\* What the drivers are made to do on the way to sleep and on the way back, and all
\* that runs inside the gate on behalf of drivers.
Sleeping == MouseDisable \o KeyboardDisable
Waking == MouseEnable \o KeyboardEnable
DriverPrograms == IntrRoutines \cup {Sleeping, Waking}

\* A loop repeats two synchronous calls, and a request that is not waited for comes
\* from an allocateRequest of its own.
Orderly(prog) ==
  /\ \A k \in DOMAIN prog :
       prog[k].op = "until" => k > 2 /\ prog[k - 1].op = "sync" /\ prog[k - 2].op = "sync"
  /\ \A j, k \in DOMAIN prog :
       prog[j].op = "async" /\ prog[k].op \in {"async", "sync"} /\ prog[j].req = prog[k].req
         => j = k

\* Every driver allocates its requests where it needs them, so two routines share
\* none; the last thing on the way to sleep is the command byte loop.
ASSUME DriversAssumption ==
  /\ \A prog \in DriverPrograms : Orderly(prog)
  /\ \A p, q \in DriverPrograms : p # q => RequestsOf(p) \cap RequestsOf(q) = {}
  /\ \A prog \in DriverPrograms : RequestsOf(prog) \cap (ThreadAsync \cup ThreadSync) = {}
  /\ Sleeping \notin IntrRoutines /\ Waking \notin IntrRoutines /\ Sleeping # Waking
  /\ Sleeping # <<>> /\ Sleeping[Len(Sleeping)].op = "until"

VARIABLES
  requestQueue,      \* _requestQueue
  signalled,         \* _interruptSourceQueue has been signalled
  unsignalled,       \* requests whose thread has enqueued but not yet signalled
  waiting,           \* requests whose thread is inside submitRequestAndBlock
  stack,             \* activations inside the gate of the work loop
  owner,             \* the thread that holds the gate
  hardwareOffline,   \* _hardwareOffline
  currentPowerState, \* _currentPowerState
  powerCall,         \* argument of the pending power change thread call
  callout,           \* what each thread running the thread call is to switch to
  powerTarget,       \* the state setPowerStateGated is switching to
  powerStep          \* where setPowerStateGated is

vars == <<requestQueue, signalled, unsignalled, waiting, stack, owner,
          hardwareOffline, currentPowerState, powerCall, callout, powerTarget, powerStep>>

PowerState == {"Sleep", "Doze", "Normal"}
NoState == "None"

\* kind: a driver routine at call `index'; an entered processRequestQueue that has
\* not yet taken the queue; one that has; or processRequest at command `index' of
\* the first request of `local'.  `complete' is what a routine finds in
\* commandsCount after a synchronous call: all commands of the request were done.
Frame == [kind : {"routine", "take", "queue", "request"},
          ops : Program, local : Seq(Request), index : Nat, complete : BOOLEAN]

RoutineFrame(prog) ==
  [kind |-> "routine", ops |-> prog, local |-> <<>>, index |-> 1, complete |-> FALSE]
TakeFrame(own) ==
  [kind |-> "take", ops |-> <<>>, local |-> own, index |-> 0, complete |-> FALSE]

TypeOK ==
  /\ requestQueue \in Seq(Request)
  /\ signalled \in BOOLEAN
  /\ unsignalled \subseteq Request
  /\ waiting \subseteq Request
  /\ stack \in Seq(Frame)
  /\ owner \in {"none", "workloop", "power"}
  /\ hardwareOffline \in BOOLEAN
  /\ currentPowerState \in PowerState
  /\ powerCall \in PowerState \cup {NoState}
  /\ callout \in [Callout -> PowerState \cup {NoState}]
  /\ powerTarget \in PowerState \cup {NoState}
  /\ powerStep \in {"idle", "disable", "port", "enable"}

Init ==
  /\ requestQueue = <<>> /\ signalled = FALSE /\ unsignalled = {} /\ waiting = {}
  /\ stack = <<>> /\ owner = "none"
  /\ hardwareOffline = FALSE /\ currentPowerState = "Normal"
  /\ powerCall = NoState /\ callout = [t \in Callout |-> NoState]
  /\ powerTarget = NoState /\ powerStep = "idle"

-----------------------------------------------------------------------------
(* The stack of activations.                                               *)

Depth == Len(stack)
Top == stack[Depth]
Push(f) == stack' = Append(stack, f)
Pop == stack' = SubSeq(stack, 1, Depth - 1)
SetTop(f) == stack' = [stack EXCEPT ![Depth] = f]

InQueue(r) == \E k \in 1..Len(requestQueue) : requestQueue[k] = r
InFrame(r) == \E d \in 1..Len(stack) : \E k \in 1..Len(stack[d].local) : stack[d].local[k] = r
Pending(r) == InQueue(r) \/ InFrame(r)

\* A request structure a driver may fill in: not in use by the controller.
Free(r) == ~Pending(r) /\ r \notin unsignalled

powerVars ==
  <<hardwareOffline, currentPowerState, powerCall, callout, powerTarget, powerStep>>

-----------------------------------------------------------------------------
(* Driver threads, outside the gate.                                       *)

enqueueRequest(r) ==
  /\ Free(r)
  /\ requestQueue' = Append(requestQueue, r)
  /\ unsignalled' = unsignalled \cup {r}
  /\ UNCHANGED <<signalled, stack, owner, powerVars>>

submitRequest(r) ==
  /\ r \in ThreadAsync
  /\ enqueueRequest(r)
  /\ UNCHANGED waiting

submitRequestAndBlock(r) ==
  /\ r \in ThreadSync
  /\ enqueueRequest(r)
  /\ waiting' = waiting \cup {r}

\* The second half of submitRequest: the event source is signalled after the
\* queue lock has been dropped.
signalQueueSource(r) ==
  /\ r \in unsignalled
  /\ signalled' = TRUE
  /\ unsignalled' = unsignalled \ {r}
  /\ UNCHANGED <<requestQueue, waiting, stack, owner, powerVars>>

-----------------------------------------------------------------------------
(* The work loop.                                                          *)

\* The work loop finds the queue source signalled and calls processRequestQueue.
checkForWork ==
  /\ owner = "none" /\ signalled
  /\ signalled' = FALSE
  /\ owner' = "workloop"
  /\ Push(TakeFrame(<<>>))
  /\ UNCHANGED <<requestQueue, unsignalled, waiting, powerVars>>

\* Deviation: the queue head is copied but not reinitialised.
takeQueue_keepsQueue ==
  /\ Depth > 0 /\ Top.kind = "take"
  /\ SetTop([Top EXCEPT !.kind = "queue", !.local = requestQueue \o @])
  /\ UNCHANGED <<requestQueue, signalled, unsignalled, waiting, owner, powerVars>>

\* processRequestQueue moves the whole queue to a local queue; what an in-gate
\* submitRequestAndBlock wants executed comes after it.
takeQueue ==
  /\ Depth > 0 /\ Top.kind = "take"
  /\ SetTop([Top EXCEPT !.kind = "queue", !.local = requestQueue \o @])
  /\ requestQueue' = <<>>
  /\ UNCHANGED <<signalled, unsignalled, waiting, owner, powerVars>>

\* The completion routine wakes the thread blocked on the request, if any; a
\* request without one is freed.  The last request of an activation started by a
\* routine is the one the routine asked for.
completeRequest(all) ==
  LET rest == Tail(Top.local)
      idle == [Top EXCEPT !.kind = "queue", !.local = rest, !.index = 0]
      asked == rest = <<>> /\ Depth > 1 /\ stack[Depth - 1].kind = "routine"
  IN
  /\ waiting' = waiting \ {Head(Top.local)}
  /\ stack' = [d \in 1..Depth |->
                 CASE d = Depth -> idle
                   [] d = Depth - 1 /\ asked -> [stack[d] EXCEPT !.complete = all]
                   [] OTHER -> stack[d]]
  /\ UNCHANGED <<requestQueue, signalled, unsignalled, owner, powerVars>>

\* Deviations: an offline request is returned from without completing it, is left
\* where it is until the wake-up, or is processed like any other.
beginRequest_forgets ==
  /\ Depth > 0 /\ Top.kind = "queue" /\ Top.local # <<>>
  /\ SetTop(IF hardwareOffline THEN [Top EXCEPT !.local = Tail(@)]
            ELSE [Top EXCEPT !.kind = "request", !.index = 1])
  /\ UNCHANGED <<requestQueue, signalled, unsignalled, waiting, owner, powerVars>>

beginRequest_freezes ==
  /\ Depth > 0 /\ Top.kind = "queue" /\ Top.local # <<>> /\ ~hardwareOffline
  /\ SetTop([Top EXCEPT !.kind = "request", !.index = 1])
  /\ UNCHANGED <<requestQueue, signalled, unsignalled, waiting, owner, powerVars>>

beginRequest_ignoresOffline ==
  /\ Depth > 0 /\ Top.kind = "queue" /\ Top.local # <<>>
  /\ SetTop([Top EXCEPT !.kind = "request", !.index = 1])
  /\ UNCHANGED <<requestQueue, signalled, unsignalled, waiting, owner, powerVars>>

beginRequest ==
  /\ Depth > 0 /\ Top.kind = "queue" /\ Top.local # <<>>
  /\ IF hardwareOffline
     THEN completeRequest(FALSE)
     ELSE /\ SetTop([Top EXCEPT !.kind = "request", !.index = 1])
          /\ UNCHANGED <<requestQueue, signalled, unsignalled, waiting, owner, powerVars>>

InRequest == Depth > 0 /\ Top.kind = "request"
CurrentCommand == Commands[Head(Top.local)][Top.index]
Compares == CurrentCommand \in {"ReadDataPortAndCompare", "SendMouseCommandAndCompareAck"}
Reads == CurrentCommand = "ReadDataPort" \/ Compares

commandSucceeds ==
  /\ InRequest
  /\ IF Top.index = Len(Commands[Head(Top.local)])
     THEN completeRequest(TRUE)
     ELSE /\ SetTop([Top EXCEPT !.index = @ + 1])
          /\ UNCHANGED <<requestQueue, signalled, unsignalled, waiting, owner, powerVars>>

\* Only a comparison fails; it ends the request.
commandFails ==
  /\ InRequest /\ Compares
  /\ completeRequest(FALSE)

leaveQueue ==
  /\ Depth > 0 /\ Top.kind = "queue" /\ Top.local = <<>>
  /\ Pop
  /\ owner' = IF Depth = 1 /\ owner # "power" THEN "none" ELSE owner
  /\ UNCHANGED <<requestQueue, signalled, unsignalled, waiting, powerVars>>

-----------------------------------------------------------------------------
(* Driver code that runs inside the gate.                                  *)

\* Data for a driver is delivered by the work loop, or by readDataPort in the
\* middle of a request or of the port access that wakes the controller.
Preemptible ==
  \/ InRequest /\ Reads
  \/ owner = "power" /\ powerStep = "port" /\ Depth = 0
  \/ owner = "none" /\ ~hardwareOffline

dispatchDriverInterrupt(prog) ==
  /\ Preemptible
  /\ \A r \in RequestsOf(prog) : Free(r)
  /\ \A d \in 1..Depth : stack[d].ops # prog
  /\ Push(RoutineFrame(prog))
  /\ owner' = IF owner = "none" THEN "workloop" ELSE owner
  /\ UNCHANGED <<requestQueue, signalled, unsignalled, waiting, powerVars>>

InRoutine == Depth > 0 /\ Top.kind = "routine" /\ Top.index <= Len(Top.ops)
NextOp == Top.ops[Top.index]

\* Deviation: the event source is not signalled.
gatedSubmitRequest_silent ==
  /\ InRoutine /\ NextOp.op = "async"
  /\ requestQueue' = Append(requestQueue, NextOp.req)
  /\ SetTop([Top EXCEPT !.index = @ + 1])
  /\ UNCHANGED <<signalled, unsignalled, waiting, owner, powerVars>>

\* submitRequest from inside the gate: the thread that would serve the event
\* source is this one, so enqueueing and signalling are one step.
gatedSubmitRequest ==
  /\ InRoutine /\ NextOp.op = "async"
  /\ requestQueue' = Append(requestQueue, NextOp.req)
  /\ signalled' = TRUE
  /\ SetTop([Top EXCEPT !.index = @ + 1])
  /\ UNCHANGED <<unsignalled, waiting, owner, powerVars>>

\* The inGate() branch: the queue is processed first, then the request itself.
gatedSubmitRequestAndBlock ==
  /\ InRoutine /\ NextOp.op = "sync"
  /\ stack' = Append([stack EXCEPT ![Depth].index = @ + 1], TakeFrame(<<NextOp.req>>))
  /\ UNCHANGED <<requestQueue, signalled, unsignalled, waiting, owner, powerVars>>

\* Deviation: the loop is left when the request failed.
testCommandsCount_inverted ==
  /\ InRoutine /\ NextOp.op \in {"until", "ifDone"}
  /\ SetTop([Top EXCEPT !.index =
               IF ~Top.complete THEN @ + 1
               ELSE IF NextOp.op = "until" THEN @ - 2 ELSE @ + 2])
  /\ UNCHANGED <<requestQueue, signalled, unsignalled, waiting, owner, powerVars>>

\* What a driver does on looking at commandsCount: `} while (commandsCount != 4)'
\* of setCommandByte, `if (success)' of setTapEnable.
testCommandsCount ==
  /\ InRoutine /\ NextOp.op \in {"until", "ifDone"}
  /\ SetTop([Top EXCEPT !.index =
               IF Top.complete THEN @ + 1
               ELSE IF NextOp.op = "until" THEN @ - 2 ELSE @ + 2])
  /\ UNCHANGED <<requestQueue, signalled, unsignalled, waiting, owner,
                 powerVars>>

returnFromRoutine ==
  /\ Depth > 0 /\ Top.kind = "routine" /\ Top.index > Len(Top.ops)
  /\ Pop
  /\ owner' = IF Depth = 1 /\ owner # "power" THEN "none" ELSE owner
  /\ UNCHANGED <<requestQueue, signalled, unsignalled, waiting, powerVars>>

-----------------------------------------------------------------------------
(* Power management.                                                       *)

\* Deviation: the keyboard driver is told first.
dispatchDriverPowerControl_keyboardFirst(mouse, keyboard) == keyboard \o mouse

dispatchDriverPowerControl(mouse, keyboard) == mouse \o keyboard

\* Power changes that are waiting for the gate or under way.
CalledOut == {t \in Callout : callout[t] # NoState}
Unacknowledged == Cardinality(CalledOut) + (IF powerStep = "idle" THEN 0 ELSE 1)

\* thread_call_enter1 replaces the argument of a call that is still pending.  Power
\* management waits for the acknowledgement, or for five seconds, before it asks again.
setPowerState(s) ==
  /\ Unacknowledged < MaxPowerCalls
  /\ powerCall' = s
  /\ UNCHANGED <<requestQueue, signalled, unsignalled, waiting, stack, owner,
                 hardwareOffline, currentPowerState, callout, powerTarget, powerStep>>

\* A thread takes up the pending call.  From here on the call can be entered anew,
\* and another thread may take up that one, while this one waits for the gate.
enterCallout(t) ==
  /\ powerCall # NoState /\ callout[t] = NoState
  /\ callout' = [callout EXCEPT ![t] = powerCall]
  /\ powerCall' = NoState
  /\ UNCHANGED <<requestQueue, signalled, unsignalled, waiting, stack, owner,
                 hardwareOffline, currentPowerState, powerTarget, powerStep>>

\* setPowerStateGated up to the first point at which it runs driver code.
setPowerStateGated(s) ==
  IF s = currentPowerState
  THEN UNCHANGED <<stack, owner, currentPowerState, powerTarget, powerStep>>
  ELSE IF s # "Sleep" /\ currentPowerState # "Sleep"
       THEN /\ currentPowerState' = s
            /\ UNCHANGED <<stack, owner, powerTarget, powerStep>>
       ELSE /\ owner' = "power"
            /\ powerTarget' = s
            /\ UNCHANGED currentPowerState
            /\ IF s = "Sleep"
               THEN /\ powerStep' = "disable"
                    /\ Push(RoutineFrame(
                              dispatchDriverPowerControl(MouseDisable, KeyboardDisable)))
               ELSE powerStep' = "port" /\ UNCHANGED stack

\* Deviation: the action is called directly instead of through runAction.
setPowerStateCallout_ungated(t) ==
  /\ callout[t] # NoState
  /\ callout' = [callout EXCEPT ![t] = NoState]
  /\ setPowerStateGated(callout[t])
  /\ UNCHANGED <<requestQueue, signalled, unsignalled, waiting, hardwareOffline, powerCall>>

\* The thread gets the gate through the work loop's runAction.
setPowerStateCallout(t) ==
  /\ callout[t] # NoState
  /\ owner = "none"
  /\ callout' = [callout EXCEPT ![t] = NoState]
  /\ setPowerStateGated(callout[t])
  /\ UNCHANGED <<requestQueue, signalled, unsignalled, waiting, hardwareOffline, powerCall>>

\* Deviation: powerTarget is cleared before it is copied.
freezeRequests_clearedTarget ==
  /\ owner = "power" /\ powerStep = "disable" /\ Depth = 0
  /\ hardwareOffline' = TRUE
  /\ currentPowerState' = NoState
  /\ powerTarget' = NoState /\ powerStep' = "idle" /\ owner' = "none"
  /\ UNCHANGED <<requestQueue, signalled, unsignalled, waiting, stack, powerCall, callout>>

\* The drivers have been told to disable their devices.
freezeRequests ==
  /\ owner = "power" /\ powerStep = "disable" /\ Depth = 0
  /\ hardwareOffline' = TRUE
  /\ currentPowerState' = powerTarget
  /\ powerTarget' = NoState /\ powerStep' = "idle" /\ owner' = "none"
  /\ UNCHANGED <<requestQueue, signalled, unsignalled, waiting, stack,
                 powerCall, callout>>

\* The command byte has been rewritten; the drivers are told to enable.
unblockRequests ==
  /\ owner = "power" /\ powerStep = "port" /\ Depth = 0
  /\ hardwareOffline' = FALSE
  /\ powerStep' = "enable"
  /\ Push(RoutineFrame(dispatchDriverPowerControl(MouseEnable, KeyboardEnable)))
  /\ UNCHANGED <<requestQueue, signalled, unsignalled, waiting, owner,
                 currentPowerState, powerCall, callout, powerTarget>>


acknowledgeWake ==
  /\ owner = "power" /\ powerStep = "enable" /\ Depth = 0
  /\ currentPowerState' = powerTarget
  /\ powerTarget' = NoState /\ powerStep' = "idle" /\ owner' = "none"
  /\ UNCHANGED <<requestQueue, signalled, unsignalled, waiting, stack,
                 hardwareOffline, powerCall, callout>>

-----------------------------------------------------------------------------
InGate ==
  \/ takeQueue \/ beginRequest \/ commandSucceeds \/ commandFails \/ leaveQueue
  \/ gatedSubmitRequest \/ gatedSubmitRequestAndBlock
  \/ testCommandsCount \/ returnFromRoutine
  \/ freezeRequests \/ unblockRequests \/ acknowledgeWake

Next ==
  \/ \E r \in Request : submitRequest(r) \/ submitRequestAndBlock(r) \/ signalQueueSource(r)
  \/ checkForWork
  \/ \E prog \in IntrRoutines : dispatchDriverInterrupt(prog)
  \/ InGate
  \/ \E s \in PowerState : setPowerState(s)
  \/ \E t \in Callout : enterCallout(t) \/ setPowerStateCallout(t)

Spec == Init /\ [][Next]_vars

\* The requests a driver repeats until they get through.
Retried ==
  {r \in Request : \E prog \in IntrRoutines \cup {MouseDisable, KeyboardDisable,
                                                   MouseEnable, KeyboardEnable} :
                     \E k \in DOMAIN prog : prog[k] = [op |-> "until", req |-> r]}

(***************************************************************************)
(* Fairness.  A thread between enqueueing and signalling is runnable, and  *)
(* so is the holder of the gate: the port polls of readDataPort are        *)
(* bounded by timeoutCounter, so a command is finished one way or the      *)
(* other.  A test-and-set of the command byte that is repeated over and    *)
(* over eventually compares equal, since nothing else writes the command   *)
(* byte while the gate is held, and other-stream data does not hold up the *)
(* port access of the wake-up for ever.  The gate is a kernel lock with a  *)
(* queue of waiters: neither the queue source nor a callout starves, and   *)
(* a pending thread call is taken up once a thread is free for it.         *)
(***************************************************************************)
Fairness ==
  /\ \A r \in Request : WF_vars(signalQueueSource(r))
  /\ WF_vars(InGate)
  /\ SF_vars(commandSucceeds /\ Compares /\ Head(Top.local) \in Retried)
  /\ SF_vars(unblockRequests)
  /\ SF_vars(checkForWork)
  /\ WF_vars(\E t \in Callout : enterCallout(t))
  /\ \A t \in Callout : SF_vars(setPowerStateCallout(t))

FairSpec == Spec /\ Fairness

-----------------------------------------------------------------------------
(* Safety.                                                                 *)

\* A driver thread blocked in submitRequestAndBlock has its request on the queue
\* or in a local queue of the work loop: nothing drops a request without running
\* its completion routine, whatever the power state.
BlockedThreadsHaveRequests == \A r \in waiting : Pending(r)

\* A request on the queue is never left to an idle work loop: the source is
\* signalled, or a thread is about to signal it, or an activation of
\* processRequestQueue has yet to take the queue.
NoLostWakeup ==
  requestQueue # <<>> =>
    \/ signalled
    \/ \E r \in unsignalled : InQueue(r)
    \/ \E d \in 1..Len(stack) : stack[d].kind = "take"

\* A request structure is linked into one queue at a time, once: the queue and
\* the local queues of the nested activations of processRequestQueue share the
\* one chain field of the request.
PendingOnce ==
  /\ \A j, k \in 1..Len(requestQueue) : requestQueue[j] = requestQueue[k] => j = k
  /\ \A r \in Request : ~(InQueue(r) /\ InFrame(r))
  /\ \A c, d \in 1..Len(stack) : \A j \in 1..Len(stack[c].local) : \A k \in 1..Len(stack[d].local) :
       stack[c].local[j] = stack[d].local[k] => c = d /\ j = k

\* No request is in the middle of its commands while the hardware is offline: the
\* port is not touched between freezeRequests and the wake-up.
OfflineQuiesced == hardwareOffline => \A d \in 1..Len(stack) : stack[d].kind # "request"

\* What the power control routines asked for on the way to sleep has been carried
\* out before the hardware goes offline; nothing of it is left to be failed.
SleepDrained ==
  hardwareOffline => \A r \in RequestsOf(MouseDisable) \cup RequestsOf(KeyboardDisable) : ~Pending(r)

\* Requests are executed atomically with respect to all other requests.
RequestsAtomic ==
  \A c, d \in 1..Len(stack) : stack[c].kind = "request" /\ stack[d].kind = "request" => c = d

\* The controller seen by its drivers: all requests on the queue and in local queues.
PendingRequests ==
  {requestQueue[k] : k \in DOMAIN requestQueue}
    \cup UNION {{f.local[k] : k \in DOMAIN f.local} : f \in {stack[d] : d \in DOMAIN stack}}

Service == INSTANCE RequestService WITH pending <- PendingRequests, blocked <- waiting

\* The controller implements the request service: no request is completed twice for
\* one submission, none is handed back before it is completed, and a blocked thread
\* is woken by the completion of its own request only, through nested activations,
\* sleep and wake-up.
ImplementsService == Service!Spec

-----------------------------------------------------------------------------
(* Liveness.                                                               *)

\* Every request a driver thread submits is completed, be it by failing it while
\* the hardware is offline: no thread stays blocked and no structure is leaked.
EveryRequestCompletes == \A r \in ThreadAsync \cup ThreadSync : Pending(r) ~> ~Pending(r)

\* A power change that has been started is acknowledged.
PowerChangeAcknowledged == (owner = "power") ~> (owner # "power")

=============================================================================
