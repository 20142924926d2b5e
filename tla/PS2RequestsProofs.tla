------------------------- MODULE PS2RequestsProofs -------------------------
(***************************************************************************)
(* Proofs about the request service, for any drivers: any requests, any    *)
(* driver programs and any number of nested activations.                   *)
(***************************************************************************)
EXTENDS PS2Requests, SequenceTheorems, TLAPS

-----------------------------------------------------------------------------
(* The inductive invariant.                                                *)

\* A routine is at one of its calls and owns no queue; a request is processed
\* from the head of a non-empty local queue.
FrameOK(f) ==
  /\ f.kind = "routine" => f.index >= 1 /\ f.local = <<>>
  /\ f.kind = "request" => f.local # <<>>

FramesOK == \A d \in 1..Len(stack) : FrameOK(stack[d])

\* Activations exist only while some thread holds the gate.
GateFree == owner = "none" => Len(stack) = 0

\* While a power change is under way its target is known.
TargetSet == powerStep # "idle" => powerTarget \in PowerState

TypeInv == TypeOK /\ FramesOK /\ TargetSet

ServiceInv ==
  /\ TypeInv
  /\ GateFree
  /\ BlockedThreadsHaveRequests
  /\ NoLostWakeup
  /\ OfflineQuiesced

-----------------------------------------------------------------------------
(* Driver programs and activations.                                        *)

\* What a driver program is made of.
LEMMA ProgramElements ==
  ASSUME NEW prog \in Program, NEW k \in 1..Len(prog)
  PROVE  /\ prog[k] \in Op
         /\ prog[k].req \in Request
         /\ prog[k].op = "until" => k > 2
<1>1. prog \in Seq(Op) /\ \A j \in DOMAIN prog : prog[j].op = "until" => j > 2
  BY DEF Program
<1>2. DOMAIN prog = 1..Len(prog)
  BY <1>1, LenProperties
<1>3. prog[k] \in Op
  BY <1>1, ElementOfSeq
<1> QED  BY <1>1, <1>2, <1>3 DEF Op

\* dispatchDriverPowerControl runs one driver's program after the other's: that
\* is a program again.
LEMMA ProgramsConcatenate ==
  ASSUME NEW p \in Program, NEW q \in Program
  PROVE  dispatchDriverPowerControl(p, q) \in Program
<1>1. p \in Seq(Op) /\ q \in Seq(Op)
  BY DEF Program
<1>2. /\ p \o q \in Seq(Op)
      /\ Len(p \o q) = Len(p) + Len(q)
      /\ \A i \in 1..(Len(p) + Len(q)) :
           (p \o q)[i] = IF i <= Len(p) THEN p[i] ELSE q[i - Len(p)]
  BY <1>1, ConcatProperties
<1>3. ASSUME NEW k \in DOMAIN (p \o q), (p \o q)[k].op = "until"
      PROVE  k > 2
  <2>1. k \in 1..(Len(p) + Len(q)) /\ Len(p) \in Nat /\ Len(q) \in Nat
    BY <1>1, <1>2, LenProperties
  <2>2. CASE k <= Len(p)
    BY <2>1, <2>2, <1>1, <1>2, <1>3, LenProperties DEF Program
  <2>3. CASE k > Len(p)
    <3>1. k - Len(p) \in 1..Len(q) /\ q[k - Len(p)].op = "until"
      BY <2>1, <2>3, <1>2, <1>3
    <3>2. k - Len(p) > 2
      BY <3>1, <1>1, LenProperties DEF Program
    <3> QED  BY <3>2, <2>1
  <2> QED  BY <2>1, <2>2, <2>3
<1> QED  BY <1>2, <1>3 DEF Program, dispatchDriverPowerControl

\* The activations the controller starts are well formed.
LEMMA NewFrames ==
  /\ \A prog \in Program : RoutineFrame(prog) \in Frame /\ FrameOK(RoutineFrame(prog))
  /\ \A own \in Seq(Request) : TakeFrame(own) \in Frame /\ FrameOK(TakeFrame(own))
<1>1. <<>> \in Program
  BY EmptySeq, LenProperties DEF Program
<1> QED  BY <1>1, EmptySeq DEF RoutineFrame, TakeFrame, Frame, FrameOK

\* Pushing an activation on the stack leaves the others as they are.
LEMMA PushFrame ==
  ASSUME NEW s \in Seq(Frame), NEW f \in Frame
  PROVE  /\ Append(s, f) \in Seq(Frame)
         /\ Len(Append(s, f)) = Len(s) + 1 /\ Len(s) \in Nat
         /\ \A d \in 1..Len(s) : Append(s, f)[d] = s[d]
         /\ Append(s, f)[Len(s) + 1] = f
  BY AppendProperties, LenProperties

\* Removing the innermost activation leaves the others as they are.
LEMMA PopFrame ==
  ASSUME NEW s \in Seq(Frame), Len(s) > 0
  PROVE  /\ SubSeq(s, 1, Len(s) - 1) \in Seq(Frame)
         /\ Len(SubSeq(s, 1, Len(s) - 1)) = Len(s) - 1 /\ Len(s) \in Nat
         /\ \A d \in 1..(Len(s) - 1) : SubSeq(s, 1, Len(s) - 1)[d] = s[d]
<1>1. Len(s) \in Nat /\ \A d \in 1..Len(s) : s[d] \in Frame
  BY LenProperties, ElementOfSeq
<1>2. \A d \in 1..(Len(s) - 1) : s[d] \in Frame
  BY <1>1
<1> DEFINE t == SubSeq(s, 1, Len(s) - 1)
           n == Len(s) - 1
<1>3. /\ t \in Seq(Frame)
      /\ Len(t) = IF 1 <= n THEN n - 1 + 1 ELSE 0
      /\ \A i \in 1..(n - 1 + 1) : t[i] = s[1 + i - 1]
  BY <1>1, <1>2, SubSeqProperties
<1>4. n \in Nat
  BY <1>1
<1> HIDE DEF t, n
<1>5. Len(t) = n
  BY <1>3, <1>4
<1>6. ASSUME NEW d \in 1..n PROVE t[d] = s[d]
  <2>1. d \in 1..(n - 1 + 1) /\ 1 + d - 1 = d
    BY <1>4
  <2> QED  BY <2>1, <1>3
<1> QED  BY <1>1, <1>3, <1>5, <1>6 DEF t, n

\* Updating the innermost activation leaves the others as they are.
LEMMA UpdateFrame ==
  ASSUME NEW s \in Seq(Frame), Len(s) > 0, NEW f \in Frame
  PROVE  /\ [s EXCEPT ![Len(s)] = f] \in Seq(Frame)
         /\ Len([s EXCEPT ![Len(s)] = f]) = Len(s) /\ Len(s) \in Nat
         /\ \A d \in 1..Len(s) : [s EXCEPT ![Len(s)] = f][d] = IF d = Len(s) THEN f ELSE s[d]
<1>1. Len(s) \in Nat /\ Len(s) \in 1..Len(s)
  BY LenProperties
<1> QED  BY <1>1, ExceptSeq

-----------------------------------------------------------------------------
(* Completing a request.                                                   *)

\* What the completion of the current request does to the activations: the
\* innermost one drops the request and returns to its queue, the one below may
\* learn whether all commands were done, and nothing else changes.
LEMMA CompletionEffect ==
  ASSUME TypeInv, Depth > 0, Top.local # <<>>, NEW all \in BOOLEAN, completeRequest(all)
  PROVE  /\ stack' \in Seq(Frame)
         /\ Len(stack') = Len(stack)
         /\ Len(stack) \in Nat
         /\ stack[Len(stack)].local \in Seq(Request)
         /\ stack'[Len(stack)].kind = "queue"
         /\ stack'[Len(stack)].local = Tail(stack[Len(stack)].local)
         /\ \A d \in 1..(Len(stack) - 1) :
              /\ stack'[d].kind = stack[d].kind
              /\ stack'[d].ops = stack[d].ops
              /\ stack'[d].local = stack[d].local
              /\ stack'[d].index = stack[d].index
<1> DEFINE n == Len(stack)
           idle == [Top EXCEPT !.kind = "queue", !.local = Tail(Top.local), !.index = 0]
<1>1. /\ stack \in Seq(Frame)
      /\ n \in Nat /\ n > 0
      /\ \A d \in 1..n : stack[d] \in Frame
  BY LenProperties, ElementOfSeq DEF TypeInv, TypeOK, Depth
<1>2. Top \in Frame /\ Top = stack[n]
  BY <1>1 DEF Top, Depth
<1>3. Top.local \in Seq(Request) /\ Tail(Top.local) \in Seq(Request)
  BY <1>2, HeadTailProperties DEF Frame
<1>4. idle \in Frame /\ idle.kind = "queue" /\ idle.local = Tail(Top.local)
  BY <1>2, <1>3 DEF Frame
<1> DEFINE asked == Tail(Top.local) = <<>> /\ Depth > 1 /\ stack[Depth - 1].kind = "routine"
<1>5. stack' = [d \in 1..n |-> CASE d = n -> idle
                                 [] d = n - 1 /\ asked -> [stack[d] EXCEPT !.complete = all]
                                 [] OTHER -> stack[d]]
  BY DEF completeRequest, Depth
<1> HIDE DEF idle, asked
<1>6. ASSUME NEW d \in 1..n
      PROVE  /\ stack'[d] \in Frame
             /\ d = n => stack'[d] = idle
             /\ d # n => /\ stack'[d].kind = stack[d].kind
                         /\ stack'[d].ops = stack[d].ops
                         /\ stack'[d].local = stack[d].local
                         /\ stack'[d].index = stack[d].index
  <2>1. stack[d] \in Frame
    BY <1>1
  <2>2. stack'[d] \in {idle, stack[d], [stack[d] EXCEPT !.complete = all]}
    BY <1>5
  <2>3. d = n => stack'[d] = idle
    BY <1>5
  <2>4. d # n => stack'[d] \in {stack[d], [stack[d] EXCEPT !.complete = all]}
    BY <1>1, <1>5
  <2>5. [stack[d] EXCEPT !.complete = all] \in Frame
    BY <2>1 DEF Frame
  <2> QED  BY <2>1, <2>2, <2>3, <2>4, <2>5, <1>4 DEF Frame
<1>7. stack' \in [1..n -> Frame]
  BY <1>5, <1>6
<1>8. stack' \in Seq(Frame)
  BY <1>1, <1>7, SeqDef
<1>9. Len(stack') = n
  BY <1>1, <1>7, <1>8, LenProperties
<1> QED  BY <1>1, <1>2, <1>3, <1>4, <1>6, <1>8, <1>9

\* Completing a request keeps the invariant: the only thread that may lose its
\* request is the one the completion routine wakes.
LEMMA CompletionPreserves ==
  ASSUME ServiceInv, Depth > 0, Top.kind \in {"queue", "request"}, Top.local # <<>>,
         NEW all \in BOOLEAN, completeRequest(all)
  PROVE  ServiceInv'
<1> DEFINE n == Len(stack)
<1>1. /\ stack' \in Seq(Frame)
      /\ Len(stack') = n
      /\ n \in Nat /\ n > 0
      /\ stack[n].local \in Seq(Request)
      /\ stack'[n].kind = "queue"
      /\ stack'[n].local = Tail(stack[n].local)
      /\ \A d \in 1..(n - 1) : /\ stack'[d].kind = stack[d].kind
                               /\ stack'[d].local = stack[d].local
                               /\ stack'[d].index = stack[d].index
  BY CompletionEffect DEF ServiceInv, Depth
<1>2. /\ waiting' = waiting \ {Head(stack[n].local)}
      /\ UNCHANGED <<requestQueue, signalled, unsignalled, owner, powerVars>>
      /\ stack[n].local # <<>> /\ stack[n].kind \in {"queue", "request"}
  BY DEF completeRequest, Top, Depth
<1>3. TypeInv'
  <2>1. TypeOK' /\ TargetSet'
    BY <1>1, <1>2 DEF ServiceInv, TypeInv, TypeOK, TargetSet, powerVars
  <2>2. FramesOK'
    BY <1>1 DEF ServiceInv, TypeInv, FramesOK, FrameOK
  <2> QED  BY <2>1, <2>2 DEF TypeInv
<1>4. GateFree'
  BY <1>1, <1>2 DEF ServiceInv, GateFree
<1>5. BlockedThreadsHaveRequests'
  <2> SUFFICES ASSUME NEW r \in waiting, r # Head(stack[n].local) PROVE Pending(r)'
    BY <1>2 DEF BlockedThreadsHaveRequests
  <2>1. CASE InQueue(r)
    BY <2>1, <1>2 DEF InQueue, Pending
  <2>2. CASE InFrame(r)
    <3>1. PICK d \in 1..n : \E k \in 1..Len(stack[d].local) : stack[d].local[k] = r
      BY <2>2 DEF InFrame
    <3>2. PICK k \in 1..Len(stack[d].local) : stack[d].local[k] = r
      BY <3>1
    <3>3. CASE d < n
      <4>1. d \in 1..Len(stack') /\ stack'[d].local = stack[d].local
        BY <3>3, <1>1
      <4> QED  BY <4>1, <3>2 DEF Pending, InFrame
    <3>4. CASE d = n
      <4>1. /\ Len(stack[n].local) \in Nat
            /\ stack[n].local[1] = Head(stack[n].local)
            /\ Len(Tail(stack[n].local)) = Len(stack[n].local) - 1
            /\ \A i \in 1..Len(Tail(stack[n].local)) :
                 Tail(stack[n].local)[i] = stack[n].local[i + 1]
        BY <1>1, <1>2, HeadTailProperties, LenProperties
      <4>2. k # 1
        BY <4>1, <3>2, <3>4
      <4>3. /\ k - 1 \in 1..Len(stack'[n].local)
            /\ stack'[n].local[k - 1] = r
        BY <4>1, <4>2, <3>2, <3>4, <1>1
      <4>4. n \in 1..Len(stack')
        BY <1>1
      <4> QED  BY <4>3, <4>4 DEF Pending, InFrame
    <3> QED  BY <3>3, <3>4, <1>1
  <2> QED  BY <2>1, <2>2 DEF ServiceInv, BlockedThreadsHaveRequests, Pending
<1>6. NoLostWakeup'
  BY <1>1, <1>2 DEF ServiceInv, NoLostWakeup, InQueue
<1>7. OfflineQuiesced'
  BY <1>1, <1>2 DEF ServiceInv, OfflineQuiesced, powerVars
<1> QED  BY <1>3, <1>4, <1>5, <1>6, <1>7 DEF ServiceInv

-----------------------------------------------------------------------------
(* The other changes of the stack.                                         *)

HasTake == \E d \in 1..Len(stack) : stack[d].kind = "take"
Quiet == \A d \in 1..Len(stack) : stack[d].kind # "request"

\* A new activation disturbs none of the facts about the ones it is stacked on.
LEMMA PushKeeps ==
  ASSUME TypeInv, NEW f \in Frame, FrameOK(f), f.kind # "request", Push(f)
  PROVE  /\ stack' \in Seq(Frame) /\ FramesOK'
         /\ Len(stack') > 0
         /\ \A r : InFrame(r) => InFrame(r)'
         /\ HasTake => HasTake'
         /\ f.kind = "take" => HasTake'
         /\ Quiet => Quiet'
<1>1. /\ stack \in Seq(Frame) /\ stack' = Append(stack, f)
  BY DEF TypeInv, TypeOK, Push
<1>2. /\ stack' \in Seq(Frame)
      /\ Len(stack') = Len(stack) + 1 /\ Len(stack) \in Nat
      /\ \A d \in 1..Len(stack) : stack'[d] = stack[d]
      /\ stack'[Len(stack) + 1] = f
  BY <1>1, PushFrame
<1>3. FramesOK'
  BY <1>2 DEF TypeInv, FramesOK, FrameOK
<1>4. \A r : InFrame(r) => InFrame(r)'
  BY <1>2 DEF InFrame
<1>5. /\ HasTake => HasTake'
      /\ f.kind = "take" => HasTake'
      /\ Quiet => Quiet'
  BY <1>2 DEF HasTake, Quiet
<1> QED  BY <1>2, <1>3, <1>4, <1>5

\* The innermost activation moves on, with the requests it had.
LEMMA UpdateKeeps ==
  ASSUME TypeInv, Depth > 0, NEW f \in Frame, FrameOK(f), SetTop(f),
         Top.kind # "take", f.local = Top.local
  PROVE  /\ stack' \in Seq(Frame) /\ FramesOK'
         /\ Len(stack') = Len(stack)
         /\ \A r : InFrame(r) => InFrame(r)'
         /\ HasTake => HasTake'
         /\ Quiet /\ f.kind # "request" => Quiet'
<1>1. /\ stack \in Seq(Frame) /\ stack' = [stack EXCEPT ![Len(stack)] = f] /\ Len(stack) > 0
  BY DEF TypeInv, TypeOK, SetTop, Depth
<1>2. /\ stack' \in Seq(Frame)
      /\ Len(stack') = Len(stack) /\ Len(stack) \in Nat
      /\ \A d \in 1..Len(stack) : stack'[d] = IF d = Len(stack) THEN f ELSE stack[d]
  BY <1>1, UpdateFrame
<1>3. FramesOK'
  BY <1>2 DEF TypeInv, FramesOK, FrameOK
<1>4. \A r : InFrame(r) => InFrame(r)'
  BY <1>2 DEF InFrame, Top, Depth
<1>5. /\ HasTake => HasTake'
      /\ Quiet /\ f.kind # "request" => Quiet'
  BY <1>2 DEF HasTake, Quiet, Top, Depth
<1> QED  BY <1>2, <1>3, <1>4, <1>5

\* The innermost activation returns, with no requests left.
LEMMA PopKeeps ==
  ASSUME TypeInv, Depth > 0, Pop, Top.kind # "take", Top.local = <<>>
  PROVE  /\ stack' \in Seq(Frame) /\ FramesOK'
         /\ Len(stack') = Len(stack) - 1
         /\ \A r : InFrame(r) => InFrame(r)'
         /\ HasTake => HasTake'
         /\ Quiet => Quiet'
<1>1. /\ stack \in Seq(Frame) /\ stack' = SubSeq(stack, 1, Len(stack) - 1) /\ Len(stack) > 0
  BY DEF TypeInv, TypeOK, Pop, Depth
<1>2. /\ stack' \in Seq(Frame)
      /\ Len(stack') = Len(stack) - 1 /\ Len(stack) \in Nat
      /\ \A d \in 1..(Len(stack) - 1) : stack'[d] = stack[d]
  BY <1>1, PopFrame
<1>3. FramesOK'
  BY <1>2 DEF TypeInv, FramesOK, FrameOK
<1>4. ASSUME NEW r, InFrame(r) PROVE InFrame(r)'
  <2>1. PICK d \in 1..Len(stack) : \E k \in 1..Len(stack[d].local) : stack[d].local[k] = r
    BY <1>4 DEF InFrame
  <2>2. Len(<<>>) = 0
    BY EmptySeq
  <2>3. d # Len(stack)
    BY <2>1, <2>2, <1>2 DEF Top, Depth
  <2>4. d \in 1..Len(stack') /\ stack'[d] = stack[d]
    BY <2>3, <1>2
  <2> QED  BY <2>1, <2>4 DEF InFrame
<1>5. /\ HasTake => HasTake'
      /\ Quiet => Quiet'
  BY <1>2 DEF HasTake, Quiet, Top, Depth
<1> QED  BY <1>2, <1>3, <1>4, <1>5

\* A step after which the stack still holds what it held keeps what the
\* invariant says of the blocked threads and of the queue, if the queue and the
\* blocked threads stay the same and no signal is lost.
LEMMA KeepsRequests ==
  ASSUME ServiceInv, \A r : InFrame(r) => InFrame(r)', HasTake => HasTake',
         UNCHANGED <<requestQueue, waiting, unsignalled>>,
         signalled => signalled' \/ HasTake'
  PROVE  BlockedThreadsHaveRequests' /\ NoLostWakeup'
<1>1. \A r : InQueue(r) <=> InQueue(r)'
  BY DEF InQueue
<1>2. BlockedThreadsHaveRequests'
  BY <1>1 DEF ServiceInv, BlockedThreadsHaveRequests, Pending
<1>3. NoLostWakeup'
  BY <1>1 DEF ServiceInv, NoLostWakeup, HasTake
<1> QED  BY <1>2, <1>3

-----------------------------------------------------------------------------
(* Every step keeps the invariant.                                         *)

\* A controller without requests and power changes under way is in order.
LEMMA InitEstablishes == Init => ServiceInv
<1> SUFFICES ASSUME Init PROVE ServiceInv
  OBVIOUS
<1>1. requestQueue \in Seq(Request) /\ stack \in Seq(Frame) /\ Len(stack) = 0
  BY EmptySeq DEF Init
<1>2. TypeOK
  BY <1>1 DEF Init, TypeOK, PowerState, NoState
<1>3. FramesOK /\ OfflineQuiesced
  BY <1>1 DEF FramesOK, OfflineQuiesced
<1>4. TargetSet /\ GateFree /\ BlockedThreadsHaveRequests /\ NoLostWakeup
  BY <1>1 DEF Init, TargetSet, GateFree, BlockedThreadsHaveRequests, NoLostWakeup
<1> QED  BY <1>2, <1>3, <1>4 DEF ServiceInv, TypeInv

\* A driver thread appends its request: it is pending, and about to be signalled.
LEMMA EnqueuePreserves ==
  ASSUME ServiceInv, NEW r \in Request, enqueueRequest(r),
         waiting' \in {waiting, waiting \cup {r}}
  PROVE  ServiceInv'
<1>1. /\ requestQueue \in Seq(Request) /\ requestQueue' = Append(requestQueue, r)
      /\ unsignalled' = unsignalled \cup {r}
      /\ UNCHANGED <<signalled, stack, owner, powerVars>>
  BY DEF ServiceInv, TypeInv, TypeOK, enqueueRequest
<1>2. /\ requestQueue' \in Seq(Request)
      /\ Len(requestQueue') = Len(requestQueue) + 1 /\ Len(requestQueue) \in Nat
      /\ \A i \in 1..Len(requestQueue) : requestQueue'[i] = requestQueue[i]
      /\ requestQueue'[Len(requestQueue) + 1] = r
  BY <1>1, AppendProperties, LenProperties
<1>3. /\ InQueue(r)'
      /\ \A q : InQueue(q) => InQueue(q)'
      /\ \A q : InFrame(q) <=> InFrame(q)'
  BY <1>1, <1>2 DEF InQueue, InFrame
<1>4. TypeInv'
  BY <1>1, <1>2 DEF ServiceInv, TypeInv, TypeOK, TargetSet, FramesOK, powerVars
<1>5. BlockedThreadsHaveRequests'
  BY <1>3 DEF ServiceInv, BlockedThreadsHaveRequests, Pending
<1>6. NoLostWakeup'
  BY <1>1, <1>3 DEF NoLostWakeup
<1>7. GateFree' /\ OfflineQuiesced'
  BY <1>1 DEF ServiceInv, GateFree, OfflineQuiesced, powerVars
<1> QED  BY <1>4, <1>5, <1>6, <1>7 DEF ServiceInv

\* processRequestQueue takes the queue: what was on it is now in a local queue.
LEMMA TakeQueuePreserves ==
  ASSUME ServiceInv, takeQueue
  PROVE  ServiceInv'
<1> DEFINE n == Len(stack)
           f == [Top EXCEPT !.kind = "queue", !.local = requestQueue \o Top.local]
<1>1. /\ stack \in Seq(Frame) /\ n \in Nat /\ n > 0 /\ Top \in Frame /\ Top = stack[n]
      /\ Top.kind = "take" /\ stack' = [stack EXCEPT ![n] = f] /\ requestQueue' = <<>>
      /\ requestQueue \in Seq(Request) /\ Top.local \in Seq(Request)
      /\ UNCHANGED <<signalled, unsignalled, waiting, owner, powerVars>>
  <2>1. stack \in Seq(Frame) /\ n \in Nat /\ n > 0 /\ Top = stack[n]
    BY LenProperties DEF ServiceInv, TypeInv, TypeOK, takeQueue, Depth, Top
  <2>2. Top \in Frame
    BY <2>1, ElementOfSeq
  <2> QED  BY <2>1, <2>2 DEF ServiceInv, TypeInv, TypeOK, takeQueue, SetTop, Depth, Frame
<1>2. /\ requestQueue \o Top.local \in Seq(Request)
      /\ Len(requestQueue \o Top.local) = Len(requestQueue) + Len(Top.local)
      /\ Len(requestQueue) \in Nat /\ Len(Top.local) \in Nat
      /\ \A i \in 1..(Len(requestQueue) + Len(Top.local)) :
           (requestQueue \o Top.local)[i] =
             IF i <= Len(requestQueue) THEN requestQueue[i] ELSE Top.local[i - Len(requestQueue)]
  BY <1>1, ConcatProperties, LenProperties
<1>3. /\ f \in Frame /\ FrameOK(f)
      /\ f.kind = "queue" /\ f.local = requestQueue \o Top.local
  BY <1>1, <1>2 DEF Frame, FrameOK
<1> HIDE DEF f
<1>4. /\ stack' \in Seq(Frame) /\ Len(stack') = n
      /\ \A d \in 1..n : stack'[d] = IF d = n THEN f ELSE stack[d]
  BY <1>1, <1>3, UpdateFrame
<1>5. TypeInv'
  <2>1. <<>> \in Seq(Request)
    BY EmptySeq
  <2> QED  BY <2>1, <1>1, <1>3, <1>4
           DEF ServiceInv, TypeInv, TypeOK, TargetSet, FramesOK, FrameOK, powerVars
<1>6. ASSUME NEW r, Pending(r) PROVE InFrame(r)'
  <2>1. CASE InQueue(r)
    <3>1. PICK k \in 1..Len(requestQueue) : requestQueue[k] = r
      BY <2>1 DEF InQueue
    <3>2. k \in 1..Len(f.local) /\ f.local[k] = r
      BY <3>1, <1>2, <1>3
    <3>3. n \in 1..Len(stack') /\ stack'[n] = f
      BY <1>1, <1>4
    <3> QED  BY <3>2, <3>3 DEF InFrame
  <2>2. CASE InFrame(r)
    <3>1. PICK d \in 1..n : \E k \in 1..Len(stack[d].local) : stack[d].local[k] = r
      BY <2>2 DEF InFrame
    <3>2. PICK k \in 1..Len(stack[d].local) : stack[d].local[k] = r
      BY <3>1
    <3>3. CASE d # n
      BY <3>1, <3>3, <1>4 DEF InFrame
    <3>4. CASE d = n
      <4>1. /\ k + Len(requestQueue) \in 1..Len(f.local)
            /\ k + Len(requestQueue) > Len(requestQueue)
            /\ (k + Len(requestQueue)) - Len(requestQueue) = k
        BY <3>2, <3>4, <1>1, <1>2, <1>3
      <4>2. f.local[k + Len(requestQueue)] = r
        BY <4>1, <3>2, <3>4, <1>1, <1>2, <1>3
      <4>3. n \in 1..Len(stack') /\ stack'[n] = f
        BY <1>1, <1>4
      <4> QED  BY <4>1, <4>2, <4>3 DEF InFrame
    <3> QED  BY <3>3, <3>4
  <2> QED  BY <2>1, <2>2, <1>6 DEF Pending
<1>7. BlockedThreadsHaveRequests'
  BY <1>1, <1>6 DEF ServiceInv, BlockedThreadsHaveRequests, Pending
<1>8. NoLostWakeup'
  BY <1>1 DEF NoLostWakeup
<1>9. GateFree' /\ OfflineQuiesced'
  BY <1>1, <1>3, <1>4 DEF ServiceInv, GateFree, OfflineQuiesced, powerVars
<1> QED  BY <1>5, <1>7, <1>8, <1>9 DEF ServiceInv

\* The routine on top of the stack, at one of its calls.
LEMMA RoutineOnTop ==
  ASSUME TypeInv, InRoutine
  PROVE  /\ stack \in Seq(Frame) /\ Len(stack) \in Nat /\ Depth > 0
         /\ Top \in Frame /\ Top = stack[Len(stack)] /\ Top.kind = "routine"
         /\ Top.local = <<>> /\ Top.index \in Nat
         /\ NextOp \in Op /\ NextOp.req \in Request
         /\ NextOp.op = "until" => Top.index > 2
<1>1. stack \in Seq(Frame) /\ Len(stack) \in Nat /\ Len(stack) > 0 /\ Depth = Len(stack)
  BY LenProperties DEF TypeInv, TypeOK, InRoutine, Depth
<1>2. Top = stack[Len(stack)] /\ Top \in Frame
  BY <1>1, ElementOfSeq DEF Top
<1>3. /\ Top.kind = "routine" /\ Top.local = <<>> /\ Top.index \in Nat /\ Top.ops \in Program
      /\ Top.index >= 1 /\ Top.index <= Len(Top.ops)
  BY <1>1, <1>2 DEF TypeInv, FramesOK, FrameOK, InRoutine, Frame
<1>4. Top.ops \in Seq(Op) /\ Len(Top.ops) \in Nat
  BY <1>3, LenProperties DEF Program
<1>5. Top.index \in 1..Len(Top.ops)
  BY <1>3, <1>4
<1>7. NextOp \in Op /\ NextOp.req \in Request /\ (NextOp.op = "until" => Top.index > 2)
  BY <1>3, <1>5, ProgramElements DEF NextOp
<1> QED  BY <1>1, <1>2, <1>3, <1>7

\* A routine submits an asynchronous request and signals the queue source.
LEMMA GatedSubmitPreserves ==
  ASSUME ServiceInv, gatedSubmitRequest
  PROVE  ServiceInv'
<1>1. /\ stack \in Seq(Frame) /\ Len(stack) \in Nat /\ Depth > 0
      /\ Top \in Frame /\ Top.kind = "routine" /\ Top.local = <<>> /\ Top.index \in Nat
      /\ NextOp.req \in Request
  BY RoutineOnTop DEF ServiceInv, gatedSubmitRequest
<1> DEFINE f == [Top EXCEPT !.index = Top.index + 1]
<1>2. f \in Frame /\ FrameOK(f) /\ f.local = Top.local /\ f.kind = "routine"
  <2>0. Top \in Frame /\ Top.index + 1 \in Nat
    BY <1>1
  <2>1. f \in Frame
    BY <2>0 DEF Frame
  <2>2. f.local = <<>> /\ f.kind = "routine" /\ f.index >= 1
    BY <1>1 DEF Frame
  <2> QED  BY <2>1, <2>2, <1>1 DEF FrameOK
<1>3. SetTop(f)
  BY DEF gatedSubmitRequest
<1>4. /\ requestQueue \in Seq(Request) /\ requestQueue' = Append(requestQueue, NextOp.req)
      /\ signalled' = TRUE
      /\ UNCHANGED <<unsignalled, waiting, owner, powerVars>>
  BY DEF ServiceInv, TypeInv, TypeOK, gatedSubmitRequest
<1> HIDE DEF f
<1>5. /\ stack' \in Seq(Frame) /\ FramesOK' /\ Len(stack') = Len(stack)
      /\ \A r : InFrame(r) => InFrame(r)'
      /\ Quiet => Quiet'
  BY <1>1, <1>2, <1>3, UpdateKeeps DEF ServiceInv
<1>6. /\ requestQueue' \in Seq(Request)
      /\ Len(requestQueue') = Len(requestQueue) + 1 /\ Len(requestQueue) \in Nat
      /\ \A i \in 1..Len(requestQueue) : requestQueue'[i] = requestQueue[i]
  BY <1>1, <1>4, AppendProperties, LenProperties
<1>7. \A r : InQueue(r) => InQueue(r)'
  BY <1>6 DEF InQueue
<1>8. TypeInv'
  BY <1>4, <1>5, <1>6 DEF ServiceInv, TypeInv, TypeOK, TargetSet, powerVars
<1>9. BlockedThreadsHaveRequests' /\ NoLostWakeup'
  BY <1>4, <1>5, <1>7 DEF ServiceInv, BlockedThreadsHaveRequests, Pending, NoLostWakeup
<1>10. GateFree' /\ OfflineQuiesced'
  BY <1>4, <1>5 DEF ServiceInv, GateFree, OfflineQuiesced, Quiet, powerVars
<1> QED  BY <1>8, <1>9, <1>10 DEF ServiceInv

\* A routine submits a synchronous request: the activation that serves it takes
\* the queue first.
LEMMA GatedSubmitAndBlockPreserves ==
  ASSUME ServiceInv, gatedSubmitRequestAndBlock
  PROVE  ServiceInv'
<1>1. /\ stack \in Seq(Frame) /\ Len(stack) \in Nat /\ Len(stack) > 0
      /\ Top \in Frame /\ Top = stack[Len(stack)]
      /\ Top.kind = "routine" /\ Top.local = <<>> /\ Top.index \in Nat
      /\ NextOp.req \in Request
  BY RoutineOnTop DEF ServiceInv, gatedSubmitRequestAndBlock, Depth
<1> DEFINE n == Len(stack)
           f == [Top EXCEPT !.index = Top.index + 1]
           g == TakeFrame(<<NextOp.req>>)
           s == [stack EXCEPT ![n] = f]
<1>2. f \in Frame /\ FrameOK(f) /\ f.local = <<>> /\ f.kind = "routine"
  <2>1. f \in Frame
    BY <1>1, SMTT(30) DEF Frame
  <2>2. f.local = <<>> /\ f.kind = "routine" /\ f.index >= 1
    BY <1>1 DEF Frame
  <2> QED  BY <2>1, <2>2 DEF FrameOK
<1>3. <<NextOp.req>> \in Seq(Request)
  BY <1>1
<1>4. g \in Frame /\ FrameOK(g) /\ g.kind = "take"
  BY <1>3, NewFrames DEF TakeFrame
<1>5. /\ stack' = Append(s, g)
      /\ UNCHANGED <<requestQueue, signalled, unsignalled, waiting, owner, powerVars>>
  BY <1>1 DEF gatedSubmitRequestAndBlock, Depth
<1> HIDE DEF f, g
<1>6. /\ s \in Seq(Frame) /\ Len(s) = n
      /\ \A d \in 1..n : s[d] = IF d = n THEN f ELSE stack[d]
  BY <1>1, <1>2, UpdateFrame
<1> HIDE DEF s
<1>7. /\ stack' \in Seq(Frame) /\ Len(stack') = n + 1
      /\ \A d \in 1..n : stack'[d] = s[d]
      /\ stack'[n + 1] = g
  BY <1>4, <1>5, <1>6, PushFrame
<1>8. TypeInv'
  <2>1. FramesOK'
    BY <1>1, <1>2, <1>4, <1>6, <1>7 DEF ServiceInv, TypeInv, FramesOK
  <2> QED  BY <2>1, <1>5, <1>7 DEF ServiceInv, TypeInv, TypeOK, TargetSet, powerVars
<1>9. \A r : InFrame(r) => InFrame(r)'
  BY <1>1, <1>2, <1>6, <1>7 DEF InFrame
<1>10. HasTake'
  BY <1>1, <1>4, <1>7 DEF HasTake
<1>11. Quiet => Quiet'
  BY <1>1, <1>2, <1>4, <1>6, <1>7 DEF Quiet
<1>12. BlockedThreadsHaveRequests' /\ NoLostWakeup'
  BY <1>5, <1>9, <1>10, KeepsRequests
<1>13. GateFree' /\ OfflineQuiesced'
  BY <1>1, <1>5, <1>11 DEF ServiceInv, GateFree, OfflineQuiesced, Quiet, powerVars
<1> QED  BY <1>8, <1>12, <1>13 DEF ServiceInv

\* A driver program is started, on the gate its thread holds or takes.
LEMMA StartRoutinePreserves ==
  ASSUME ServiceInv, NEW prog \in Program, Push(RoutineFrame(prog)),
         UNCHANGED <<requestQueue, signalled, unsignalled, waiting>>,
         owner' \in {"workloop", "power"},
         hardwareOffline' \in {hardwareOffline, FALSE},
         currentPowerState' = currentPowerState,
         powerCall' \in PowerState \cup {NoState},
         callout' \in [Callout -> PowerState \cup {NoState}], powerTarget' \in PowerState \cup {NoState},
         powerStep' \in {"idle", "disable", "port", "enable"},
         powerStep' # "idle" => powerTarget' \in PowerState
  PROVE  ServiceInv'
<1>1. RoutineFrame(prog) \in Frame /\ FrameOK(RoutineFrame(prog))
      /\ RoutineFrame(prog).kind = "routine"
  BY NewFrames DEF RoutineFrame
<1>2. /\ stack' \in Seq(Frame) /\ FramesOK'
      /\ \A r : InFrame(r) => InFrame(r)'
      /\ HasTake => HasTake'
      /\ Quiet => Quiet'
  BY <1>1, PushKeeps DEF ServiceInv
<1>3. TypeInv'
  BY <1>2 DEF ServiceInv, TypeInv, TypeOK, TargetSet
<1>4. BlockedThreadsHaveRequests' /\ NoLostWakeup'
  BY <1>2, KeepsRequests
<1>5. GateFree'
  BY DEF GateFree
<1>6. OfflineQuiesced'
  BY <1>2 DEF ServiceInv, OfflineQuiesced, Quiet
<1> QED  BY <1>3, <1>4, <1>5, <1>6 DEF ServiceInv

\* An activation of processRequestQueue or a driver program returns.
LEMMA ReturnPreserves ==
  ASSUME ServiceInv, Depth > 0, Pop, Top.kind # "take", Top.local = <<>>,
         owner' = IF Depth = 1 /\ owner # "power" THEN "none" ELSE owner,
         UNCHANGED <<requestQueue, signalled, unsignalled, waiting, powerVars>>
  PROVE  ServiceInv'
<1>1. /\ stack' \in Seq(Frame) /\ FramesOK'
      /\ Len(stack') = Len(stack) - 1
      /\ \A r : InFrame(r) => InFrame(r)'
      /\ HasTake => HasTake'
      /\ Quiet => Quiet'
  BY PopKeeps DEF ServiceInv
<1>2. TypeInv'
  BY <1>1 DEF ServiceInv, TypeInv, TypeOK, TargetSet, powerVars
<1>3. BlockedThreadsHaveRequests' /\ NoLostWakeup'
  BY <1>1, KeepsRequests
<1>4. GateFree'
  BY <1>1 DEF ServiceInv, GateFree, Depth
<1>5. OfflineQuiesced'
  BY <1>1 DEF ServiceInv, OfflineQuiesced, Quiet, powerVars
<1> QED  BY <1>2, <1>3, <1>4, <1>5 DEF ServiceInv

\* The innermost activation moves on without touching the queue.
LEMMA MovePreserves ==
  ASSUME ServiceInv, Depth > 0, NEW f \in Frame, FrameOK(f), SetTop(f),
         Top.kind # "take", f.local = Top.local, f.kind = "request" => ~hardwareOffline,
         UNCHANGED <<requestQueue, signalled, unsignalled, waiting, owner, powerVars>>
  PROVE  ServiceInv'
<1>1. /\ stack' \in Seq(Frame) /\ FramesOK'
      /\ Len(stack') = Len(stack)
      /\ \A r : InFrame(r) => InFrame(r)'
      /\ HasTake => HasTake'
      /\ Quiet /\ f.kind # "request" => Quiet'
  BY UpdateKeeps DEF ServiceInv
<1>2. TypeInv'
  BY <1>1 DEF ServiceInv, TypeInv, TypeOK, TargetSet, powerVars
<1>3. BlockedThreadsHaveRequests' /\ NoLostWakeup'
  BY <1>1, KeepsRequests
<1>4. GateFree'
  BY <1>1 DEF ServiceInv, GateFree
<1>5. OfflineQuiesced'
  BY <1>1 DEF ServiceInv, OfflineQuiesced, Quiet, powerVars
<1> QED  BY <1>2, <1>3, <1>4, <1>5 DEF ServiceInv

\* Every step of the controller, of its clients and of power management keeps
\* the invariant.
LEMMA StepPreserves == ServiceInv /\ [Next]_vars => ServiceInv'
<1> SUFFICES ASSUME ServiceInv, [Next]_vars PROVE ServiceInv'
  OBVIOUS
<1> USE DEF ServiceInv
<1>1. ASSUME NEW r \in Request, submitRequest(r) PROVE ServiceInv'
  BY <1>1, EnqueuePreserves DEF submitRequest
<1>2. ASSUME NEW r \in Request, submitRequestAndBlock(r) PROVE ServiceInv'
  BY <1>2, EnqueuePreserves DEF submitRequestAndBlock
<1>3. ASSUME NEW r \in Request, signalQueueSource(r) PROVE ServiceInv'
  <2>1. TypeInv'
    BY <1>3 DEF signalQueueSource, TypeInv, TypeOK, TargetSet, FramesOK, powerVars
  <2>2. BlockedThreadsHaveRequests' /\ NoLostWakeup'
    BY <1>3 DEF signalQueueSource, BlockedThreadsHaveRequests, NoLostWakeup, Pending,
                InQueue, InFrame
  <2>3. GateFree' /\ OfflineQuiesced'
    BY <1>3 DEF signalQueueSource, GateFree, OfflineQuiesced, powerVars
  <2> QED  BY <2>1, <2>2, <2>3
<1>4. ASSUME checkForWork PROVE ServiceInv'
  <2>1. TakeFrame(<<>>) \in Frame /\ FrameOK(TakeFrame(<<>>)) /\ TakeFrame(<<>>).kind = "take"
    BY NewFrames, EmptySeq DEF TakeFrame
  <2>2. /\ stack' \in Seq(Frame) /\ FramesOK'
        /\ \A r : InFrame(r) => InFrame(r)'
        /\ HasTake'
        /\ Quiet => Quiet'
    BY <2>1, <1>4, PushKeeps DEF checkForWork
  <2>3. TypeInv'
    BY <2>2, <1>4 DEF checkForWork, TypeInv, TypeOK, TargetSet, powerVars
  <2>4. BlockedThreadsHaveRequests' /\ NoLostWakeup'
    BY <2>2, <1>4, KeepsRequests DEF checkForWork
  <2>5. GateFree' /\ OfflineQuiesced'
    BY <2>2, <1>4 DEF checkForWork, GateFree, OfflineQuiesced, Quiet, powerVars
  <2> QED  BY <2>3, <2>4, <2>5
<1>5. ASSUME NEW prog \in IntrRoutines, dispatchDriverInterrupt(prog) PROVE ServiceInv'
  <2>1. prog \in Program
    BY ConstantsAssumption
  <2>2. owner' \in {"workloop", "power"}
    BY <1>5 DEF dispatchDriverInterrupt, TypeInv, TypeOK
  <2>3. powerStep' # "idle" => powerTarget' \in PowerState
    BY <1>5 DEF dispatchDriverInterrupt, powerVars, TypeInv, TargetSet
  <2> QED  BY <2>1, <2>2, <2>3, <1>5, StartRoutinePreserves
           DEF dispatchDriverInterrupt, powerVars, TypeInv, TypeOK
<1>6. ASSUME takeQueue PROVE ServiceInv'
  BY <1>6, TakeQueuePreserves
<1>7. ASSUME beginRequest PROVE ServiceInv'
  <2>1. CASE hardwareOffline
    BY <2>1, <1>7, CompletionPreserves DEF beginRequest
  <2>2. CASE ~hardwareOffline
    <3> DEFINE f == [Top EXCEPT !.kind = "request", !.index = 1]
    <3>1. Top \in Frame /\ Top.local # <<>> /\ Top.kind = "queue" /\ Depth > 0
      BY <1>7, LenProperties, ElementOfSeq DEF beginRequest, Top, Depth, TypeInv, TypeOK
    <3>2. f \in Frame /\ f.local = Top.local /\ f.kind = "request"
      BY <3>1 DEF Frame
    <3>3. FrameOK(f)
      BY <3>1, <3>2 DEF FrameOK
    <3>4. /\ SetTop(f)
          /\ UNCHANGED <<requestQueue, signalled, unsignalled, waiting, owner, powerVars>>
      BY <2>2, <1>7 DEF beginRequest
    <3> HIDE DEF f
    <3> QED  BY <2>2, <3>1, <3>2, <3>3, <3>4, MovePreserves
  <2> QED  BY <2>1, <2>2
<1>8. ASSUME commandSucceeds PROVE ServiceInv'
  <2>1. /\ Top \in Frame /\ Top.local # <<>> /\ Top.kind = "request" /\ Depth > 0
        /\ Top.index \in Nat
    <3>1. stack \in Seq(Frame) /\ Len(stack) \in Nat /\ Len(stack) > 0 /\ Top = stack[Len(stack)]
      BY <1>8, LenProperties DEF commandSucceeds, InRequest, Top, Depth, TypeInv, TypeOK
    <3>2. Top \in Frame /\ FrameOK(Top)
      BY <3>1, ElementOfSeq DEF TypeInv, FramesOK
    <3> QED  BY <3>2, <1>8 DEF commandSucceeds, InRequest, FrameOK, Frame
  <2>2. CASE Top.index = Len(Commands[Head(Top.local)])
    BY <2>1, <2>2, <1>8, CompletionPreserves DEF commandSucceeds
  <2>3. CASE Top.index # Len(Commands[Head(Top.local)])
    <3> DEFINE f == [Top EXCEPT !.index = Top.index + 1]
    <3>1. Top \in Frame /\ Top.index + 1 \in Nat
      BY <2>1
    <3>2. f \in Frame
      BY <3>1 DEF Frame
    <3>3. f.local = Top.local /\ f.kind = "request"
      BY <2>1 DEF Frame
    <3>4. FrameOK(f)
      BY <3>3, <2>1 DEF FrameOK
    <3>5. /\ SetTop(f)
          /\ UNCHANGED <<requestQueue, signalled, unsignalled, waiting, owner, powerVars>>
      BY <2>3, <1>8 DEF commandSucceeds
    <3>6. ~hardwareOffline
      <4>1. Len(stack) \in 1..Len(stack) /\ stack[Len(stack)].kind = "request"
        BY <2>1, LenProperties DEF Top, Depth, TypeInv, TypeOK
      <4> QED  BY <4>1 DEF OfflineQuiesced
    <3> HIDE DEF f
    <3> QED  BY <2>1, <3>2, <3>3, <3>4, <3>5, <3>6, MovePreserves
  <2> QED  BY <2>2, <2>3
<1>9. ASSUME commandFails PROVE ServiceInv'
  <2>1. Top.local # <<>> /\ Top.kind = "request" /\ Depth > 0
    <3>1. Len(stack) \in 1..Len(stack)
      BY <1>9, LenProperties DEF commandFails, InRequest, Depth, TypeInv, TypeOK
    <3> QED  BY <3>1, <1>9 DEF commandFails, InRequest, TypeInv, FramesOK, FrameOK, Top, Depth
  <2> QED  BY <2>1, <1>9, CompletionPreserves DEF commandFails
<1>10. ASSUME leaveQueue PROVE ServiceInv'
  BY <1>10, ReturnPreserves DEF leaveQueue
<1>11. ASSUME gatedSubmitRequest PROVE ServiceInv'
  BY <1>11, GatedSubmitPreserves
<1>12. ASSUME gatedSubmitRequestAndBlock PROVE ServiceInv'
  BY <1>12, GatedSubmitAndBlockPreserves
<1>13. ASSUME testCommandsCount PROVE ServiceInv'
  <2>1. /\ Top \in Frame /\ Top.kind = "routine" /\ Top.local = <<>> /\ Top.index \in Nat
        /\ Depth > 0 /\ (NextOp.op = "until" => Top.index > 2) /\ Top.index >= 1
    <3>1. Len(stack) \in 1..Len(stack)
      BY <1>13, LenProperties DEF testCommandsCount, InRoutine, Depth, TypeInv, TypeOK
    <3>2. Top.kind = "routine" => Top.index >= 1
      BY <3>1 DEF TypeInv, FramesOK, FrameOK, Top, Depth
    <3> QED  BY <3>2, <1>13, RoutineOnTop DEF testCommandsCount
  <2> DEFINE i == IF Top.complete THEN Top.index + 1
                  ELSE IF NextOp.op = "until" THEN Top.index - 2 ELSE Top.index + 2
             f == [Top EXCEPT !.index = i]
  <2>2. i \in Nat /\ i >= 1
    BY <2>1
  <2>3. /\ SetTop(f)
        /\ UNCHANGED <<requestQueue, signalled, unsignalled, waiting, owner, powerVars>>
    BY <1>13 DEF testCommandsCount
  <2> HIDE DEF i
  <2>4. f \in Frame /\ f.local = <<>> /\ f.kind = "routine" /\ f.index = i
    BY <2>1, <2>2 DEF Frame
  <2>5. FrameOK(f)
    BY <2>2, <2>4 DEF FrameOK
  <2> HIDE DEF f
  <2> QED  BY <2>1, <2>3, <2>4, <2>5, MovePreserves
<1>14. ASSUME returnFromRoutine PROVE ServiceInv'
  <2>1. Top.kind = "routine" => Top.local = <<>>
    <3>1. Len(stack) \in 1..Len(stack)
      BY <1>14, LenProperties DEF returnFromRoutine, Depth, TypeInv, TypeOK
    <3> QED  BY <3>1 DEF TypeInv, FramesOK, FrameOK, Top, Depth
  <2> QED  BY <2>1, <1>14, ReturnPreserves DEF returnFromRoutine
<1>15. ASSUME NEW s \in PowerState, setPowerState(s) PROVE ServiceInv'
  <2>1. TypeInv'
    BY <1>15 DEF setPowerState, TypeInv, TypeOK, TargetSet, FramesOK
  <2>2. BlockedThreadsHaveRequests' /\ NoLostWakeup'
    BY <1>15 DEF setPowerState, BlockedThreadsHaveRequests, NoLostWakeup, Pending,
                 InQueue, InFrame
  <2>3. GateFree' /\ OfflineQuiesced'
    BY <1>15 DEF setPowerState, GateFree, OfflineQuiesced
  <2> QED  BY <2>1, <2>2, <2>3
<1>16. ASSUME NEW t \in Callout, setPowerStateCallout(t) PROVE ServiceInv'
  <2>0. callout[t] \in PowerState /\ callout' \in [Callout -> PowerState \cup {NoState}]
    BY <1>16 DEF setPowerStateCallout, TypeInv, TypeOK
  <2>1. CASE UNCHANGED stack
    <3>1. TypeInv'
      BY <2>0, <2>1, <1>16 DEF setPowerStateCallout, setPowerStateGated, TypeInv, TypeOK, TargetSet,
                               FramesOK, PowerState, NoState
    <3>2. BlockedThreadsHaveRequests' /\ NoLostWakeup'
      BY <2>1, <1>16 DEF setPowerStateCallout, setPowerStateGated, BlockedThreadsHaveRequests,
                         NoLostWakeup, Pending, InQueue, InFrame
    <3>3. GateFree' /\ OfflineQuiesced'
      BY <2>1, <1>16 DEF setPowerStateCallout, setPowerStateGated, GateFree, OfflineQuiesced
    <3> QED  BY <3>1, <3>2, <3>3
  <2>2. CASE ~UNCHANGED stack
    <3> DEFINE prog == dispatchDriverPowerControl(MouseDisable, KeyboardDisable)
    <3>1. /\ Push(RoutineFrame(prog))
          /\ owner' = "power" /\ powerTarget' = callout[t]
          /\ powerStep' = "disable"
          /\ UNCHANGED <<requestQueue, signalled, unsignalled, waiting, powerCall,
                         hardwareOffline, currentPowerState>>
      BY <2>2, <1>16 DEF setPowerStateCallout, setPowerStateGated
    <3>2. prog \in Program
      BY ConstantsAssumption, ProgramsConcatenate
    <3> HIDE DEF prog
    <3>3. powerTarget' \in PowerState /\ powerCall' \in PowerState \cup {NoState}
      BY <3>1, <2>0 DEF TypeInv, TypeOK
    <3> QED  BY <2>0, <3>1, <3>2, <3>3, StartRoutinePreserves
  <2> QED  BY <2>1, <2>2
<1>17. ASSUME freezeRequests \/ acknowledgeWake PROVE ServiceInv'
  <2>1. /\ UNCHANGED <<requestQueue, signalled, unsignalled, waiting, stack, powerCall, callout>>
        /\ Len(stack) = 0 /\ owner' = "none"
    BY <1>17 DEF freezeRequests, acknowledgeWake, Depth
  <2>2. TypeInv'
    <3>1. currentPowerState' = powerTarget
      BY <1>17 DEF freezeRequests, acknowledgeWake
    <3>2. powerTarget \in PowerState
      BY <1>17 DEF freezeRequests, acknowledgeWake, TypeInv, TargetSet
    <3> QED  BY <2>1, <3>1, <3>2, <1>17
             DEF freezeRequests, acknowledgeWake, TypeInv, TypeOK, TargetSet, FramesOK
  <2>3. BlockedThreadsHaveRequests' /\ NoLostWakeup'
    BY <2>1 DEF BlockedThreadsHaveRequests, NoLostWakeup, Pending, InQueue, InFrame
  <2>4. GateFree' /\ OfflineQuiesced'
    BY <2>1 DEF GateFree, OfflineQuiesced
  <2> QED  BY <2>2, <2>3, <2>4
<1>18. ASSUME unblockRequests PROVE ServiceInv'
  <2> DEFINE prog == dispatchDriverPowerControl(MouseEnable, KeyboardEnable)
  <2>1. /\ Push(RoutineFrame(prog))
        /\ owner' = "power" /\ powerStep' = "enable" /\ hardwareOffline' = FALSE
        /\ UNCHANGED <<requestQueue, signalled, unsignalled, waiting,
                       currentPowerState, powerCall, callout, powerTarget>>
    BY <1>18 DEF unblockRequests
  <2>2. prog \in Program
    BY ConstantsAssumption, ProgramsConcatenate
  <2> HIDE DEF prog
  <2>3. powerTarget' \in PowerState
    BY <2>1, <1>18 DEF unblockRequests, TypeInv, TargetSet
  <2> QED  BY <2>1, <2>2, <2>3, StartRoutinePreserves DEF TypeInv, TypeOK
<1>19. ASSUME NEW t \in Callout, enterCallout(t) PROVE ServiceInv'
  <2>1. TypeInv'
    BY <1>19 DEF enterCallout, TypeInv, TypeOK, TargetSet, FramesOK
  <2>2. BlockedThreadsHaveRequests' /\ NoLostWakeup'
    BY <1>19 DEF enterCallout, BlockedThreadsHaveRequests, NoLostWakeup, Pending,
                 InQueue, InFrame
  <2>3. GateFree' /\ OfflineQuiesced'
    BY <1>19 DEF enterCallout, GateFree, OfflineQuiesced
  <2> QED  BY <2>1, <2>2, <2>3
<1>20. ASSUME UNCHANGED vars PROVE ServiceInv'
  <2>1. TypeInv'
    BY <1>20 DEF vars, TypeInv, TypeOK, TargetSet, FramesOK
  <2>2. BlockedThreadsHaveRequests' /\ NoLostWakeup' /\ GateFree' /\ OfflineQuiesced'
    BY <1>20 DEF vars, BlockedThreadsHaveRequests, NoLostWakeup, Pending, InQueue, InFrame,
                 GateFree, OfflineQuiesced
  <2> QED  BY <2>1, <2>2
<1> QED
  BY <1>1, <1>2, <1>3, <1>4, <1>5, <1>6, <1>7, <1>8, <1>9, <1>10, <1>11, <1>12, <1>13, <1>14,
     <1>15, <1>16, <1>17, <1>18, <1>19, <1>20 DEF Next, InGate

-----------------------------------------------------------------------------
(* Theorems.                                                               *)

\* The inductive invariant holds in every state of the request service.
THEOREM InvariantHolds == Spec => []ServiceInv
<1>1. Init => ServiceInv
  BY InitEstablishes
<1>2. ServiceInv /\ [Next]_vars => ServiceInv'
  BY StepPreserves
<1> QED  BY <1>1, <1>2, PTL DEF Spec

\* Every variable of the controller keeps its type, whatever the drivers do: in
\* particular a driver program never runs past its calls and a power change
\* never records a state nobody asked for.
THEOREM TypeCorrect == Spec => []TypeOK
<1>1. ServiceInv => TypeOK
  BY DEF ServiceInv, TypeInv
<1> QED  BY <1>1, InvariantHolds, PTL

\* A thread blocked in submitRequestAndBlock never loses its request, whatever
\* the nesting of activations and across sleep and wake-up.
THEOREM BlockedNeverForgotten == Spec => []BlockedThreadsHaveRequests
<1>1. ServiceInv => BlockedThreadsHaveRequests
  BY DEF ServiceInv
<1> QED  BY <1>1, InvariantHolds, PTL

\* A request enqueued by submitRequest is never left behind by the work loop.
THEOREM WakeupNeverLost == Spec => []NoLostWakeup
<1>1. ServiceInv => NoLostWakeup
  BY DEF ServiceInv
<1> QED  BY <1>1, InvariantHolds, PTL

\* processRequest never touches the port while the hardware is offline.
THEOREM OfflineIsQuiet == Spec => []OfflineQuiesced
<1>1. ServiceInv => OfflineQuiesced
  BY DEF ServiceInv
<1> QED  BY <1>1, InvariantHolds, PTL

-----------------------------------------------------------------------------
(* Atomicity of requests, when no interrupt routine issues any.            *)

\* Only the innermost activation works on requests.
Flat == \A d \in 1..(Len(stack) - 1) : stack[d].kind = "routine"

\* Without requests from interrupt routines, only driver routines have an activation
\* above them.
LEMMA StepKeepsFlat ==
  ASSUME IntrRoutines = {}, ServiceInv, Flat, [Next]_vars
  PROVE  Flat'
<1>0. stack \in Seq(Frame) /\ Len(stack) \in Nat
  BY LenProperties DEF ServiceInv, TypeInv, TypeOK
<1>1. ASSUME Len(stack) > 0, NEW f \in Frame, SetTop(f) PROVE Flat'
  BY <1>0, <1>1, UpdateFrame DEF SetTop, Depth, Flat
<1>2. ASSUME Len(stack) = 0, NEW f \in Frame, Push(f) PROVE Flat'
  <2>1. Len(stack') = 1
    BY <1>0, <1>2, PushFrame DEF Push
  <2> QED  BY <2>1 DEF Flat
<1>3. ASSUME Len(stack) > 0, Pop PROVE Flat'
  BY <1>0, <1>3, PopFrame DEF Pop, Depth, Flat
<1>4. ASSUME NEW all \in BOOLEAN, Len(stack) > 0, Top.local # <<>>, completeRequest(all)
      PROVE  Flat'
  BY <1>0, <1>4, CompletionEffect DEF ServiceInv, Flat, Depth
<1>5. TakeFrame(<<>>) \in Frame
  BY NewFrames, EmptySeq
<1>6. Len(stack) > 0 => Top \in Frame /\ FrameOK(Top) /\ Top = stack[Len(stack)]
  BY <1>0, ElementOfSeq DEF Top, Depth, ServiceInv, TypeInv, FramesOK
<1>7. CASE UNCHANGED stack
  BY <1>7 DEF Flat
<1>8. CASE checkForWork
  BY <1>8, <1>2, <1>5 DEF checkForWork, ServiceInv, GateFree
<1>9. CASE takeQueue
  <2>1. requestQueue \o Top.local \in Seq(Request) /\ Top \in Frame /\ Len(stack) > 0
    BY <1>6, <1>9, ConcatProperties DEF takeQueue, Depth, Frame, ServiceInv, TypeInv, TypeOK
  <2>2. [Top EXCEPT !.kind = "queue", !.local = requestQueue \o Top.local] \in Frame
    BY <2>1 DEF Frame
  <2>3. SetTop([Top EXCEPT !.kind = "queue", !.local = requestQueue \o Top.local])
    BY <1>9 DEF takeQueue
  <2> QED  BY <2>1, <2>2, <2>3, <1>1
<1>10. CASE beginRequest
  <2>1. Top \in Frame /\ Len(stack) > 0
    BY <1>6, <1>10 DEF beginRequest, Depth
  <2>2. [Top EXCEPT !.kind = "request", !.index = 1] \in Frame
    BY <2>1 DEF Frame
  <2> QED  BY <2>1, <2>2, <1>1, <1>4, <1>10 DEF beginRequest
<1>11. CASE commandSucceeds \/ commandFails
  <2>0. Len(stack) > 0 /\ Top.kind = "request"
    BY <1>11 DEF commandSucceeds, commandFails, InRequest, Depth
  <2>1. Top \in Frame /\ Len(stack) > 0 /\ Top.local # <<>> /\ Top.index + 1 \in Nat
    BY <2>0, <1>6 DEF FrameOK, Frame
  <2>2. [Top EXCEPT !.index = Top.index + 1] \in Frame
    BY <2>1 DEF Frame
  <2> QED  BY <2>1, <2>2, <1>1, <1>4, <1>11 DEF commandSucceeds, commandFails
<1>12. CASE leaveQueue \/ returnFromRoutine
  BY <1>12, <1>3 DEF leaveQueue, returnFromRoutine, Depth
<1>13. CASE gatedSubmitRequest \/ testCommandsCount
  <2>1. /\ Top \in Frame /\ Len(stack) > 0 /\ Top.index \in Nat
        /\ NextOp.op = "until" => Top.index > 2
    BY <1>13, RoutineOnTop DEF gatedSubmitRequest, testCommandsCount, Depth, ServiceInv
  <2>2. PICK i \in Nat : SetTop([Top EXCEPT !.index = i])
    <3>1. CASE gatedSubmitRequest
      <4>1. SetTop([Top EXCEPT !.index = Top.index + 1]) /\ Top.index + 1 \in Nat
        BY <3>1, <2>1 DEF gatedSubmitRequest
      <4> QED  BY <4>1
    <3>2. CASE testCommandsCount
      <4> DEFINE i == IF Top.complete THEN Top.index + 1
                      ELSE IF NextOp.op = "until" THEN Top.index - 2 ELSE Top.index + 2
      <4>1. SetTop([Top EXCEPT !.index = i])
        BY <3>2 DEF testCommandsCount
      <4>2. i \in Nat
        BY <2>1
      <4> HIDE DEF i
      <4> QED  BY <4>1, <4>2
    <3> QED  BY <3>1, <3>2, <1>13
  <2>3. [Top EXCEPT !.index = i] \in Frame
    BY <2>1 DEF Frame
  <2> QED  BY <2>1, <2>2, <2>3, <1>1
<1>14. CASE gatedSubmitRequestAndBlock
  <2> DEFINE f == [Top EXCEPT !.index = Top.index + 1]
             g == TakeFrame(<<NextOp.req>>)
             s == [stack EXCEPT ![Len(stack)] = f]
  <2>1. /\ Top \in Frame /\ Len(stack) > 0 /\ Top.index \in Nat /\ Top = stack[Len(stack)]
        /\ Top.kind = "routine" /\ NextOp.req \in Request
    BY <1>14, RoutineOnTop DEF gatedSubmitRequestAndBlock, Depth, ServiceInv
  <2>2. f \in Frame /\ f.kind = "routine"
    <3>1. Top.index + 1 \in Nat
      BY <2>1
    <3> QED  BY <2>1, <3>1 DEF Frame
  <2>3. g \in Frame
    <3>1. <<NextOp.req>> \in Seq(Request)
      BY <2>1
    <3> QED  BY <3>1, NewFrames
  <2>4. stack' = Append(s, g)
    BY <2>1, <1>14 DEF gatedSubmitRequestAndBlock, Depth
  <2> HIDE DEF f, g
  <2>5. /\ s \in Seq(Frame) /\ Len(s) = Len(stack)
        /\ \A d \in 1..Len(stack) : s[d] = IF d = Len(stack) THEN f ELSE stack[d]
    BY <1>0, <2>1, <2>2, UpdateFrame
  <2> HIDE DEF s
  <2>6. /\ Len(stack') = Len(stack) + 1
        /\ \A d \in 1..Len(stack) : stack'[d] = s[d]
    BY <2>3, <2>4, <2>5, PushFrame
  <2> QED  BY <1>0, <2>2, <2>5, <2>6 DEF Flat
<1>15. ASSUME NEW t \in Callout, setPowerStateCallout(t) PROVE Flat'
  <2>1. RoutineFrame(dispatchDriverPowerControl(MouseDisable, KeyboardDisable)) \in Frame
    BY NewFrames, ProgramsConcatenate, ConstantsAssumption
  <2> QED  BY <2>1, <1>2, <1>7, <1>15 DEF setPowerStateCallout, setPowerStateGated, ServiceInv, GateFree
<1>16. CASE unblockRequests
  <2>1. RoutineFrame(dispatchDriverPowerControl(MouseEnable, KeyboardEnable)) \in Frame
    BY NewFrames, ProgramsConcatenate, ConstantsAssumption
  <2> QED  BY <2>1, <1>2, <1>16 DEF unblockRequests, Depth
<1>17. CASE \E r \in Request : submitRequest(r) \/ submitRequestAndBlock(r) \/ signalQueueSource(r)
  BY <1>17, <1>7 DEF submitRequest, submitRequestAndBlock, enqueueRequest, signalQueueSource
<1>18. CASE (\E s \in PowerState : setPowerState(s)) \/ freezeRequests \/ acknowledgeWake
  BY <1>18, <1>7 DEF setPowerState, freezeRequests, acknowledgeWake
<1>19. CASE UNCHANGED vars
  BY <1>19, <1>7 DEF vars
<1>20. ASSUME NEW t \in Callout, enterCallout(t) PROVE Flat'
  BY <1>20, <1>7 DEF enterCallout
<1> QED
  BY <1>8, <1>9, <1>10, <1>11, <1>12, <1>13, <1>14, <1>15, <1>16, <1>17, <1>18, <1>19,
     <1>20
  DEF Next, InGate

\* As long as no interrupt routine issues requests (true of the touchpad drivers,
\* not of the mouse driver, which resets the mouse), requests are executed
\* atomically: not even a power change gets between the commands of one.
THEOREM AtomicWithoutResets ==
  ASSUME IntrRoutines = {}
  PROVE  Spec => []RequestsAtomic
<1>1. Init => Flat
  BY EmptySeq DEF Init, Flat
<1>2. ServiceInv /\ Flat /\ [Next]_vars => Flat'
  BY StepKeepsFlat
<1>3. ServiceInv /\ Flat => RequestsAtomic
  <2> SUFFICES ASSUME ServiceInv, Flat,
                      NEW c \in 1..Len(stack), NEW d \in 1..Len(stack),
                      stack[c].kind = "request", stack[d].kind = "request"
               PROVE  c = d
    BY DEF RequestsAtomic
  <2>1. Len(stack) \in Nat
    BY LenProperties DEF ServiceInv, TypeInv, TypeOK
  <2> QED  BY <2>1 DEF Flat
<1> QED  BY <1>1, <1>2, <1>3, InvariantHolds, PTL DEF Spec

-----------------------------------------------------------------------------
(* A request is in one place.                                              *)

\* Request r is in the local queue of activation f.
Holds(f, r) == \E k \in 1..Len(f.local) : f.local[k] = r

\* Activation f runs the driver program prog.
Runs(f, prog) == f.kind = "routine" /\ f.ops = prog

\* A driver program is run by one activation at a time.
RoutinesApart ==
  /\ \A d \in 1..Len(stack) : stack[d].kind = "routine" => stack[d].ops \in DriverPrograms
  /\ \A c, d \in 1..Len(stack) :
       stack[c].kind = "routine" /\ Runs(stack[d], stack[c].ops) => c = d

\* What a routine has still to submit without waiting is not in use.
AsyncUnused ==
  \A d \in 1..Len(stack) : stack[d].kind = "routine" =>
    \A k \in 1..Len(stack[d].ops) :
      k >= stack[d].index /\ stack[d].ops[k].op = "async" => ~Pending(stack[d].ops[k].req)

\* What a routine waits for is in the activation just above it, or not in use.
SyncAbove ==
  \A d \in 1..Len(stack) : stack[d].kind = "routine" =>
    \A k \in 1..Len(stack[d].ops) : stack[d].ops[k].op = "sync" =>
      /\ ~InQueue(stack[d].ops[k].req)
      /\ \A c \in 1..Len(stack) : Holds(stack[c], stack[d].ops[k].req) => c = d + 1

LinkInv == PendingOnce /\ RoutinesApart /\ AsyncUnused /\ SyncAbove


\* What the activations are made of.
LEMMA StackFacts ==
  ASSUME TypeInv
  PROVE  /\ stack \in Seq(Frame) /\ Len(stack) \in Nat
         /\ requestQueue \in Seq(Request) /\ Len(requestQueue) \in Nat
         /\ \A d \in 1..Len(stack) :
              /\ stack[d] \in Frame /\ FrameOK(stack[d])
              /\ stack[d].ops \in Program /\ Len(stack[d].ops) \in Nat
              /\ stack[d].local \in Seq(Request) /\ Len(stack[d].local) \in Nat
              /\ stack[d].index \in Nat
<1>1. /\ stack \in Seq(Frame) /\ Len(stack) \in Nat
      /\ requestQueue \in Seq(Request) /\ Len(requestQueue) \in Nat
  BY LenProperties DEF TypeInv, TypeOK
<1>2. ASSUME NEW d \in 1..Len(stack)
      PROVE  /\ stack[d] \in Frame /\ FrameOK(stack[d])
             /\ stack[d].ops \in Program /\ Len(stack[d].ops) \in Nat
             /\ stack[d].local \in Seq(Request) /\ Len(stack[d].local) \in Nat
             /\ stack[d].index \in Nat
  <2>1. stack[d] \in Frame /\ FrameOK(stack[d])
    BY <1>1, ElementOfSeq DEF TypeInv, FramesOK
  <2>2. /\ stack[d].ops \in Program /\ stack[d].local \in Seq(Request)
        /\ stack[d].index \in Nat
    BY <2>1 DEF Frame
  <2>3. stack[d].ops \in Seq(Op)
    BY <2>2 DEF Program
  <2> QED  BY <2>1, <2>2, <2>3, LenProperties
<1> QED  BY <1>1, <1>2

\* The request of a call is one of its program.
LEMMA CallRequest ==
  ASSUME NEW prog \in Program, NEW k \in 1..Len(prog)
  PROVE  prog[k].req \in RequestsOf(prog)
<1>1. k \in DOMAIN prog
  BY LenProperties DEF Program
<1> QED  BY <1>1 DEF RequestsOf

\* Two activations never use the same request.
LEMMA RequestsApart ==
  ASSUME TypeInv, RoutinesApart,
         NEW c \in 1..Len(stack), stack[c].kind = "routine", NEW j \in 1..Len(stack[c].ops),
         NEW d \in 1..Len(stack), stack[d].kind = "routine", NEW k \in 1..Len(stack[d].ops),
         stack[c].ops[j].req = stack[d].ops[k].req
  PROVE  c = d
<1>1. stack[c].ops \in Program /\ stack[d].ops \in Program
  BY StackFacts
<1>2. stack[c].ops[j].req \in RequestsOf(stack[c].ops) \cap RequestsOf(stack[d].ops)
  BY <1>1, CallRequest
<1>3. stack[c].ops \in DriverPrograms /\ stack[d].ops \in DriverPrograms
  BY DEF RoutinesApart
<1>4. stack[c].ops = stack[d].ops
  BY <1>2, <1>3, DriversAssumption
<1> QED  BY <1>4 DEF RoutinesApart, Runs

\* Within a routine, a request that is not waited for is submitted by one call.
LEMMA AsyncOnce ==
  ASSUME TypeInv, RoutinesApart, NEW d \in 1..Len(stack), stack[d].kind = "routine",
         NEW j \in 1..Len(stack[d].ops), stack[d].ops[j].op = "async",
         NEW k \in 1..Len(stack[d].ops), stack[d].ops[k].op \in {"async", "sync"},
         stack[d].ops[j].req = stack[d].ops[k].req
  PROVE  j = k
<1>1. stack[d].ops \in DriverPrograms /\ stack[d].ops \in Seq(Op)
  BY StackFacts DEF RoutinesApart, Program
<1>2. Orderly(stack[d].ops) /\ DOMAIN stack[d].ops = 1..Len(stack[d].ops)
  BY <1>1, DriversAssumption, LenProperties
<1> QED  BY <1>2 DEF Orderly

\* The local queues of the activations hold every request once.
LocalsOnce ==
  \A c, d \in 1..Len(stack) : \A j \in 1..Len(stack[c].local) : \A k \in 1..Len(stack[d].local) :
    stack[c].local[j] = stack[d].local[k] => c = d /\ j = k

QueueOnce ==
  \A j, k \in 1..Len(requestQueue) : requestQueue[j] = requestQueue[k] => j = k

\* A step that only takes requests, calls or activations away.
LEMMA ShrinkLinks ==
  ASSUME ServiceInv, LinkInv, UNCHANGED requestQueue, LocalsOnce',
         Len(stack') \in Nat, Len(stack') <= Len(stack),
         \A d \in 1..Len(stack') :
           /\ \A r : Holds(stack'[d], r) => Holds(stack[d], r)
           /\ stack'[d].kind = "routine" => 
                /\ stack[d].kind = "routine"
                /\ stack'[d].ops = stack[d].ops
                /\ \A k \in 1..Len(stack[d].ops) :
                     k >= stack'[d].index /\ stack[d].ops[k].op = "async" => k >= stack[d].index
  PROVE  LinkInv' /\ \A r : Pending(r)' => Pending(r)
<1>1. Len(stack) \in Nat /\ \A d \in 1..Len(stack') : d \in 1..Len(stack)
  BY StackFacts DEF ServiceInv
<1>2. /\ \A r : InQueue(r)' <=> InQueue(r)
      /\ \A r : InFrame(r)' => InFrame(r)
  BY <1>1 DEF InQueue, InFrame, Holds
<1>3. \A r : Pending(r)' => Pending(r)
  BY <1>2 DEF Pending
<1>4. PendingOnce'
  BY <1>2 DEF LinkInv, PendingOnce, LocalsOnce
<1>5. RoutinesApart'
  BY <1>1 DEF LinkInv, RoutinesApart, Runs
<1>6. AsyncUnused'
  BY <1>1, <1>3 DEF LinkInv, AsyncUnused
<1>7. SyncAbove'
  <2> SUFFICES ASSUME NEW d \in 1..Len(stack'), stack'[d].kind = "routine",
                      NEW k \in 1..Len(stack'[d].ops), stack'[d].ops[k].op = "sync"
               PROVE  /\ ~InQueue(stack'[d].ops[k].req)
                      /\ \A c \in 1..Len(stack') :
                           Holds(stack'[c], stack'[d].ops[k].req) => c = d + 1
    BY <1>2 DEF SyncAbove, Holds
  <2> QED  BY <1>1 DEF LinkInv, SyncAbove
<1> QED  BY <1>3, <1>4, <1>5, <1>6, <1>7 DEF LinkInv

\* A new activation without requests, of a routine none of whose requests is in use.
LEMMA PushLinks ==
  ASSUME ServiceInv, LinkInv, NEW f \in Frame, f.local = <<>>, Push(f), UNCHANGED requestQueue,
         f.kind = "routine" =>
           /\ f.ops \in DriverPrograms
           /\ \A d \in 1..Len(stack) : ~Runs(stack[d], f.ops)
           /\ \A r \in RequestsOf(f.ops) : ~Pending(r)
  PROVE  LinkInv' /\ \A r : Pending(r)' <=> Pending(r)
<1> DEFINE n == Len(stack)
<1>1. /\ n \in Nat /\ Len(stack') = n + 1
      /\ \A d \in 1..n : stack'[d] = stack[d]
      /\ stack'[n + 1] = f
  BY StackFacts, PushFrame DEF Push, ServiceInv
<1>2. Len(f.local) = 0
  BY EmptySeq
<1>3. /\ \A r : InQueue(r)' <=> InQueue(r)
      /\ \A r : ~Holds(f, r)
      /\ \A r : InFrame(r)' <=> InFrame(r)
  <2>1. \A r : ~Holds(f, r)
    BY <1>2 DEF Holds
  <2>2. \A r : InFrame(r) <=> \E d \in 1..n : Holds(stack[d], r)
    BY DEF InFrame, Holds
  <2>3. \A r : InFrame(r)' <=> \E d \in 1..(n + 1) : Holds(stack'[d], r)
    BY <1>1 DEF InFrame, Holds
  <2>4. \A r : InFrame(r)' <=> InFrame(r)
    BY <2>1, <2>2, <2>3, <1>1
  <2> QED  BY <2>1, <2>4 DEF InQueue
<1>4. \A r : Pending(r)' <=> Pending(r)
  BY <1>3 DEF Pending
<1>5. PendingOnce'
  <2>1. \A d \in 1..(n + 1) : \A k \in 1..Len(stack'[d].local) : d \in 1..n
    BY <1>1, <1>2
  <2>2. LocalsOnce'
    <3> SUFFICES ASSUME NEW c \in 1..(n + 1), NEW d \in 1..(n + 1),
                        NEW j \in 1..Len(stack'[c].local), NEW k \in 1..Len(stack'[d].local),
                        stack'[c].local[j] = stack'[d].local[k]
                 PROVE  c = d /\ j = k
      BY <1>1 DEF LocalsOnce
    <3>1. stack'[c] = stack[c] /\ stack'[d] = stack[d] /\ c \in 1..n /\ d \in 1..n
      BY <2>1, <1>1
    <3> QED  BY <3>1 DEF LinkInv, PendingOnce
  <2> QED  BY <2>2, <1>3 DEF LinkInv, PendingOnce, LocalsOnce
<1>6. RoutinesApart'
  BY <1>1 DEF LinkInv, RoutinesApart, Runs
<1>7. f.ops \in Program /\ \A k \in 1..Len(f.ops) : f.ops[k].req \in RequestsOf(f.ops)
  BY CallRequest DEF Frame
<1>8. AsyncUnused'
  BY <1>1, <1>4, <1>7 DEF LinkInv, AsyncUnused
<1>9. SyncAbove'
  <2> SUFFICES ASSUME NEW d \in 1..(n + 1), stack'[d].kind = "routine",
                      NEW k \in 1..Len(stack'[d].ops), stack'[d].ops[k].op = "sync"
               PROVE  /\ ~InQueue(stack'[d].ops[k].req)
                      /\ \A c \in 1..(n + 1) : Holds(stack'[c], stack'[d].ops[k].req) => c = d + 1
    BY <1>1, <1>3 DEF SyncAbove, Holds
  <2>1. CASE d \in 1..n
    <3>1. \A c \in 1..(n + 1) : Holds(stack'[c], stack'[d].ops[k].req) => c \in 1..n
      BY <1>1, <1>3
    <3> QED  BY <3>1, <2>1, <1>1 DEF LinkInv, SyncAbove
  <2>2. CASE d = n + 1
    <3>1. ~Pending(stack'[d].ops[k].req)
      BY <2>2, <1>1, <1>7
    <3>2. \A c \in 1..(n + 1) : ~Holds(stack'[c], stack'[d].ops[k].req)
      BY <3>1, <1>1, <1>3, SMTT(30) DEF Pending, InFrame, Holds
    <3> QED  BY <3>1, <3>2 DEF Pending
  <2>3. d \in 1..n \/ d = n + 1
    BY <1>1
  <2> QED  BY <2>1, <2>2, <2>3
<1> QED  BY <1>4, <1>5, <1>6, <1>8, <1>9 DEF LinkInv

\* A driver thread submits a request of its own.
LEMMA EnqueueLinks ==
  ASSUME ServiceInv, LinkInv, NEW r \in ThreadAsync \cup ThreadSync, enqueueRequest(r)
  PROVE  /\ LinkInv'
         /\ ~Pending(r) /\ r \in Request
         /\ \A q : InQueue(q)' <=> InQueue(q) \/ q = r
         /\ \A q : Pending(q)' <=> Pending(q) \/ q = r
<1>1. /\ requestQueue' = Append(requestQueue, r) /\ UNCHANGED stack
      /\ ~Pending(r) /\ r \in Request /\ requestQueue \in Seq(Request)
  BY ConstantsAssumption DEF enqueueRequest, Free, ServiceInv, TypeInv, TypeOK
<1> DEFINE n == Len(requestQueue)
<1>2. /\ n \in Nat /\ Len(requestQueue') = n + 1
      /\ \A i \in 1..n : requestQueue'[i] = requestQueue[i]
      /\ requestQueue'[n + 1] = r
  BY <1>1, AppendProperties, LenProperties
<1>3. \A q : InQueue(q)' <=> InQueue(q) \/ q = r
  BY <1>2 DEF InQueue
<1>4. \A q : InFrame(q)' <=> InFrame(q)
  BY <1>1 DEF InFrame
<1>5. \A q : Pending(q)' <=> Pending(q) \/ q = r
  BY <1>3, <1>4 DEF Pending
<1>6. PendingOnce'
  <2>1. QueueOnce'
    BY <1>1, <1>2 DEF LinkInv, PendingOnce, QueueOnce, Pending, InQueue
  <2>2. \A q \in Request : ~(InQueue(q)' /\ InFrame(q)')
    BY <1>1, <1>3, <1>4 DEF LinkInv, PendingOnce, Pending
  <2>3. LocalsOnce'
    BY <1>1, SMTT(30) DEF LinkInv, PendingOnce, LocalsOnce
  <2> QED  BY <2>1, <2>2, <2>3 DEF PendingOnce, QueueOnce, LocalsOnce
<1>7. ASSUME NEW d \in 1..Len(stack), stack[d].kind = "routine", NEW k \in 1..Len(stack[d].ops)
      PROVE  stack[d].ops[k].req # r
  <2>1. stack[d].ops \in Program /\ stack[d].ops \in DriverPrograms
    BY <1>7, StackFacts DEF ServiceInv, LinkInv, RoutinesApart
  <2>2. stack[d].ops[k].req \in RequestsOf(stack[d].ops)
    BY <2>1, CallRequest
  <2> QED  BY <2>1, <2>2, DriversAssumption
<1>8. RoutinesApart'
  BY <1>1 DEF LinkInv, RoutinesApart
<1>9. AsyncUnused'
  BY <1>1, <1>5, <1>7 DEF LinkInv, AsyncUnused
<1>10. SyncAbove'
  BY <1>1, <1>3, <1>7 DEF LinkInv, SyncAbove
<1> QED  BY <1>1, <1>3, <1>5, <1>6, <1>8, <1>9, <1>10 DEF LinkInv

\* Positions behind the first a of a + b.
LEMMA PastPrefix ==
  ASSUME NEW a \in Nat, NEW b \in Nat, NEW x \in 1..(a + b), x > a
  PROVE  x - a \in 1..b /\ ~(x <= a)
  OBVIOUS

\* processRequestQueue moves the queue to a local queue.
LEMMA TakeLinks ==
  ASSUME ServiceInv, LinkInv, takeQueue
  PROVE  /\ LinkInv'
         /\ \A r : ~InQueue(r)'
         /\ \A r : Pending(r)' <=> Pending(r)
         /\ Len(stack') = Len(stack)
         /\ stack[Len(stack)].kind = "take" /\ stack'[Len(stack)].kind = "queue"
         /\ \A d \in 1..(Len(stack) - 1) : stack'[d] = stack[d]
<1> DEFINE n == Len(stack)
           m == Len(requestQueue)
           own == stack[n].local
           f == [Top EXCEPT !.kind = "queue", !.local = requestQueue \o own]
<1>1. /\ stack \in Seq(Frame) /\ n \in Nat /\ n > 0 /\ n \in 1..n
      /\ requestQueue \in Seq(Request) /\ m \in Nat
      /\ Top = stack[n] /\ Top.kind = "take"
      /\ stack' = [stack EXCEPT ![n] = f] /\ requestQueue' = <<>>
  BY StackFacts DEF ServiceInv, takeQueue, Depth, Top, SetTop
<1>2. Top \in Frame /\ own \in Seq(Request) /\ Len(own) \in Nat
  BY <1>1, StackFacts DEF ServiceInv
<1>3. /\ requestQueue \o own \in Seq(Request)
      /\ Len(requestQueue \o own) = m + Len(own)
      /\ \A i \in 1..(m + Len(own)) :
           (requestQueue \o own)[i] = IF i <= m THEN requestQueue[i] ELSE own[i - m]
  BY <1>1, <1>2, ConcatProperties
<1>4. f \in Frame /\ f.kind = "queue" /\ f.local = requestQueue \o own
  BY <1>2, <1>3 DEF Frame
<1> HIDE DEF f
<1>5. /\ Len(stack') = n
      /\ \A d \in 1..n : stack'[d] = IF d = n THEN f ELSE stack[d]
  BY <1>1, <1>4, UpdateFrame
<1>6. \A r : ~InQueue(r)'
  BY <1>1, EmptySeq DEF InQueue
<1>7. ASSUME NEW r PROVE Holds(f, r) <=> InQueue(r) \/ Holds(stack[n], r)
  <2>1. ASSUME NEW k \in 1..m PROVE k \in 1..Len(f.local) /\ f.local[k] = requestQueue[k]
    BY <1>2, <1>3, <1>4, <1>1
  <2>2. ASSUME NEW k \in 1..Len(own) PROVE k + m \in 1..Len(f.local) /\ f.local[k + m] = own[k]
    <3>1. k + m \in 1..(m + Len(own)) /\ ~(k + m <= m) /\ (k + m) - m = k
      BY <1>1, <1>2
    <3> QED  BY <3>1, <1>3, <1>4
  <2>3. ASSUME NEW k \in 1..Len(f.local)
        PROVE  \/ k \in 1..m /\ f.local[k] = requestQueue[k]
               \/ k - m \in 1..Len(own) /\ f.local[k] = own[k - m]
    BY <1>1, <1>2, <1>3, <1>4
  <2>4. Holds(f, r) => InQueue(r) \/ Holds(stack[n], r)
    <3>1. SUFFICES ASSUME NEW k \in 1..Len(f.local), f.local[k] = r
                   PROVE  InQueue(r) \/ Holds(stack[n], r)
      BY Zenon DEF Holds
    <3>2. CASE k \in 1..m /\ f.local[k] = requestQueue[k]
      BY <3>1, <3>2, Zenon DEF InQueue
    <3>3. CASE k - m \in 1..Len(own) /\ f.local[k] = own[k - m]
      BY <3>1, <3>3, Zenon DEF Holds
    <3> QED  BY <3>1, <3>2, <3>3, <2>3, Zenon
  <2>5. InQueue(r) => Holds(f, r)
    BY <2>1, SMTT(30) DEF Holds, InQueue
  <2>6. Holds(stack[n], r) => Holds(f, r)
    BY <2>2, SMTT(30) DEF Holds
  <2> QED  BY <2>4, <2>5, <2>6
<1>8. \A r : Pending(r)' <=> Pending(r)
  <2>1. \A r : InFrame(r) <=> \E d \in 1..n : Holds(stack[d], r)
    BY DEF InFrame, Holds
  <2>2. \A r : InFrame(r)' <=> \E d \in 1..n : Holds(stack'[d], r)
    BY <1>5 DEF InFrame, Holds
  <2>3. ASSUME NEW r, InFrame(r)' PROVE InQueue(r) \/ InFrame(r)
    BY <2>1, <2>2, <2>3, <1>5, <1>7
  <2>4. ASSUME NEW r, InQueue(r) PROVE InFrame(r)'
    <3>1. Holds(stack'[n], r)
      BY <2>4, <1>1, <1>5, <1>7
    <3> QED  BY <3>1, <2>2, <1>1
  <2>5. ASSUME NEW r, InFrame(r) PROVE InFrame(r)'
    <3>1. PICK d \in 1..n : Holds(stack[d], r)
      BY <2>1, <2>5
    <3>2. Holds(stack'[d], r)
      BY <3>1, <1>5, <1>7
    <3> QED  BY <3>2, <2>2
  <2> QED  BY <2>3, <2>4, <2>5, <1>6 DEF Pending
<1>9. LocalsOnce'
  <2> SUFFICES ASSUME NEW c \in 1..n, NEW d \in 1..n,
                      NEW j \in 1..Len(stack'[c].local), NEW k \in 1..Len(stack'[d].local),
                      stack'[c].local[j] = stack'[d].local[k]
               PROVE  c = d /\ j = k
    BY <1>5 DEF LocalsOnce
  <2>1. ASSUME NEW b \in 1..n, b # n, NEW h \in 1..Len(stack[b].local)
        PROVE  ~Holds(f, stack[b].local[h])
    <3>1. stack[b].local[h] \in Request /\ Holds(stack[b], stack[b].local[h])
      BY StackFacts, ElementOfSeq DEF Holds, ServiceInv
    <3>2. ~InQueue(stack[b].local[h])
      BY <3>1 DEF LinkInv, PendingOnce, InFrame, Holds
    <3>3. ~Holds(stack[n], stack[b].local[h])
      BY <2>1, <1>1 DEF LinkInv, PendingOnce, Holds
    <3> QED  BY <3>2, <3>3, <1>7
  <2>2. CASE c # n /\ d # n
    <3>1. stack'[c] = stack[c] /\ stack'[d] = stack[d]
      BY <2>2, <1>5
    <3> QED  BY <3>1 DEF LinkInv, PendingOnce
  <2>3. CASE c = n /\ d # n
    BY <2>1, <2>3, <1>5 DEF Holds
  <2>4. CASE c # n /\ d = n
    BY <2>1, <2>4, <1>5 DEF Holds
  <2>5. CASE c = n /\ d = n
    <3>1. j \in 1..(m + Len(own)) /\ k \in 1..(m + Len(own)) /\ f.local[j] = f.local[k]
      BY <2>5, <1>3, <1>4, <1>5
    <3>2. ASSUME NEW x \in 1..m, NEW y \in 1..Len(own) PROVE requestQueue[x] # own[y]
      <4>1. requestQueue[x] \in Request /\ InQueue(requestQueue[x])
        BY <1>1, ElementOfSeq DEF InQueue
      <4> QED  BY <4>1, <1>1 DEF LinkInv, PendingOnce, InFrame
    <3>3. ASSUME NEW x \in 1..(m + Len(own)), x > m PROVE x - m \in 1..Len(own) /\ f.local[x] = own[x - m]
      <4>1. x - m \in 1..Len(own) /\ ~(x <= m)
        BY <3>3, <1>1, <1>2, PastPrefix
      <4> QED  BY <4>1, <1>3, <1>4
    <3>4. ASSUME NEW x \in 1..(m + Len(own)), x <= m PROVE x \in 1..m /\ f.local[x] = requestQueue[x]
      BY <3>4, <1>1, <1>2, <1>3, <1>4
    <3>5. CASE j <= m /\ k <= m
      BY <3>1, <3>4, <3>5, <2>5 DEF LinkInv, PendingOnce
    <3>6. CASE j > m /\ k > m
      <4>1. j - m = k - m
        <5>1. /\ j - m \in 1..Len(stack[n].local) /\ k - m \in 1..Len(stack[n].local)
              /\ stack[n].local[j - m] = stack[n].local[k - m]
          BY <3>1, <3>3, <3>6
        <5>2. ASSUME NEW u \in 1..Len(stack[n].local), NEW v \in 1..Len(stack[n].local),
                     stack[n].local[u] = stack[n].local[v]
              PROVE  u = v
          BY <5>2, <1>1, SMTT(30) DEF LinkInv, PendingOnce
        <5> QED  BY <5>1, <5>2
      <4> QED  BY <4>1, <3>1, <2>5, <1>1, <1>2
    <3>7. CASE j <= m /\ k > m
      BY <3>1, <3>2, <3>3, <3>4, <3>7
    <3>8. CASE j > m /\ k <= m
      BY <3>1, <3>2, <3>3, <3>4, <3>8
    <3>9. j \in Nat /\ k \in Nat
      BY <3>1
    <3> QED  BY <3>5, <3>6, <3>7, <3>8, <3>9, <1>1
  <2> QED  BY <2>2, <2>3, <2>4, <2>5
<1>10. PendingOnce'
  BY <1>1, <1>6, <1>9, EmptySeq DEF PendingOnce, LocalsOnce
<1>11. ASSUME NEW d \in 1..n, stack'[d].kind = "routine" PROVE d # n /\ stack'[d] = stack[d]
  BY <1>11, <1>4, <1>5
<1>12. RoutinesApart'
  BY <1>5, <1>11 DEF LinkInv, RoutinesApart, Runs
<1>13. AsyncUnused'
  BY <1>5, <1>8, <1>11 DEF LinkInv, AsyncUnused
<1>14. SyncAbove'
  <2> SUFFICES ASSUME NEW d \in 1..n, stack'[d].kind = "routine",
                      NEW k \in 1..Len(stack'[d].ops), stack'[d].ops[k].op = "sync",
                      NEW c \in 1..n, Holds(stack'[c], stack'[d].ops[k].req)
               PROVE  c = d + 1
    BY <1>5, <1>6 DEF SyncAbove, Holds
  <2>1. stack'[d] = stack[d]
    BY <1>11
  <2>2. Holds(stack[c], stack[d].ops[k].req)
    BY <2>1, <1>5, <1>7 DEF LinkInv, SyncAbove
  <2> QED  BY <2>1, <2>2 DEF LinkInv, SyncAbove
<1>15. /\ \A d \in 1..(n - 1) : stack'[d] = stack[d]
       /\ stack[n].kind = "take" /\ stack'[n].kind = "queue"
  <2>1. \A d \in 1..(n - 1) : d \in 1..n /\ d # n
    BY <1>1
  <2>2. \A d \in 1..(n - 1) : stack'[d] = stack[d]
    BY <2>1, <1>5
  <2>3. stack'[n] = f
    BY <1>1, <1>5
  <2> QED  BY <2>2, <2>3, <1>1, <1>4
<1>16. LinkInv'
  BY <1>10, <1>12, <1>13, <1>14 DEF LinkInv
<1> QED  BY <1>5, <1>6, <1>8, <1>15, <1>16

\* The completion of a request removes it, and only it.
LEMMA CompleteLinks ==
  ASSUME ServiceInv, LinkInv, Depth > 0, Top.local # <<>>, NEW all \in BOOLEAN,
         completeRequest(all)
  PROVE  /\ LinkInv'
         /\ Head(Top.local) \in Request /\ Pending(Head(Top.local))
         /\ \A r : InQueue(r)' <=> InQueue(r)
         /\ \A r : Pending(r)' <=> Pending(r) /\ r # Head(Top.local)
<1> DEFINE n == Len(stack)
           own == stack[n].local
<1>1. /\ n \in Nat /\ n > 0 /\ n \in 1..n /\ Len(stack') = n
      /\ own \in Seq(Request) /\ own # <<>> /\ Top = stack[n]
      /\ stack'[n].kind = "queue"
      /\ stack'[n].local = Tail(own)
      /\ \A d \in 1..(n - 1) : /\ stack'[d].kind = stack[d].kind
                               /\ stack'[d].ops = stack[d].ops
                               /\ stack'[d].local = stack[d].local
                               /\ stack'[d].index = stack[d].index
  BY CompletionEffect DEF ServiceInv, Depth, Top
<1>2. /\ Len(own) \in Nat /\ Len(own) > 0 /\ own[1] = Head(own) /\ Head(own) \in Request
      /\ Len(Tail(own)) = Len(own) - 1
      /\ \A i \in 1..Len(Tail(own)) : Tail(own)[i] = own[i + 1]
  BY <1>1, HeadTailProperties, LenProperties, EmptySeq
<1>3. \A d \in 1..n : d = n \/ d \in 1..(n - 1)
  BY <1>1
<1>4. ASSUME NEW r PROVE Holds(stack'[n], r) <=> Holds(stack[n], r) /\ r # Head(own)
  <2>1. ASSUME NEW k \in 1..Len(Tail(own)), Tail(own)[k] = r
        PROVE  k + 1 \in 1..Len(own) /\ own[k + 1] = r /\ r # own[1]
    <3>1. k + 1 \in 1..Len(own) /\ k + 1 # 1 /\ 1 \in 1..Len(own)
      BY <1>2
    <3>2. own[k + 1] = r
      BY <2>1, <1>2
    <3>3. own[k + 1] # own[1]
      BY <3>1, <1>1 DEF LinkInv, PendingOnce
    <3> QED  BY <3>1, <3>2, <3>3
  <2>2. ASSUME NEW k \in 1..Len(own), own[k] = r, r # own[1]
        PROVE  k - 1 \in 1..Len(Tail(own)) /\ Tail(own)[k - 1] = r
    <3>1. k # 1
      BY <2>2
    <3>2. k - 1 \in 1..Len(Tail(own)) /\ (k - 1) + 1 = k
      BY <3>1, <1>2
    <3> QED  BY <2>2, <3>2, <1>2
  <2> QED  BY <2>1, <2>2, <1>1, <1>2 DEF Holds
<1>5. ASSUME NEW r, NEW d \in 1..(n - 1) PROVE Holds(stack'[d], r) <=> Holds(stack[d], r)
  BY <1>1 DEF Holds
<1>6. UNCHANGED requestQueue /\ \A r : InQueue(r)' <=> InQueue(r)
  BY DEF completeRequest, InQueue
<1>7. ASSUME NEW d \in 1..n, Holds(stack[d], Head(own)) PROVE d = n
  <2>1. 1 \in 1..Len(stack[n].local) /\ stack[n].local[1] = Head(own)
    BY <1>2
  <2> QED  BY <2>1, <1>1, <1>7, SMTT(30) DEF Holds, LinkInv, PendingOnce
<1>8. Holds(stack[n], Head(own)) /\ ~InQueue(Head(own))
  <2>1. 1 \in 1..Len(stack[n].local) /\ stack[n].local[1] = Head(own)
    BY <1>2
  <2> QED  BY <2>1, <1>1, <1>2 DEF Holds, LinkInv, PendingOnce, InFrame
<1>9. ASSUME NEW r PROVE InFrame(r)' <=> InFrame(r) /\ r # Head(own)
  <2>1. InFrame(r) <=> \E d \in 1..n : Holds(stack[d], r)
    BY DEF InFrame, Holds
  <2>2. InFrame(r)' <=> \E d \in 1..n : Holds(stack'[d], r)
    BY <1>1 DEF InFrame, Holds
  <2>3. ASSUME NEW d \in 1..n PROVE Holds(stack'[d], r) <=> Holds(stack[d], r) /\ r # Head(own)
    <3>1. CASE d = n
      BY <3>1, <1>4
    <3>2. CASE d \in 1..(n - 1)
      <4>1. d # n
        BY <3>2, <1>1
      <4> QED  BY <3>2, <4>1, <1>5, <1>7
    <3> QED  BY <3>1, <3>2, <1>3
  <2> QED  BY <2>1, <2>2, <2>3
<1>10. \A r : Pending(r)' <=> Pending(r) /\ r # Head(own)
  BY <1>6, <1>8, <1>9 DEF Pending
<1>11. LocalsOnce'
  <2> SUFFICES ASSUME NEW c \in 1..n, NEW d \in 1..n,
                      NEW j \in 1..Len(stack'[c].local), NEW k \in 1..Len(stack'[d].local),
                      stack'[c].local[j] = stack'[d].local[k]
               PROVE  c = d /\ j = k
    BY <1>1 DEF LocalsOnce
  <2> DEFINE off(b) == IF b = n THEN 1 ELSE 0
  <2>1. ASSUME NEW b \in 1..n, NEW h \in 1..Len(stack'[b].local)
        PROVE  /\ h + off(b) \in 1..Len(stack[b].local)
               /\ stack'[b].local[h] = stack[b].local[h + off(b)]
    <3>1. CASE b = n
      <4>1. h \in 1..Len(Tail(own)) /\ h + 1 \in 1..Len(own)
        BY <3>1, <1>1, <1>2
      <4> QED  BY <3>1, <4>1, <1>1, <1>2
    <3>2. CASE b # n
      <4>1. b \in 1..(n - 1) /\ h + 0 = h
        BY <3>2, <1>3
      <4> QED  BY <3>2, <4>1, <1>1
    <3> QED  BY <3>1, <3>2
  <2>2. off(c) \in Nat /\ off(d) \in Nat
    OBVIOUS
  <2>3. c = d => off(c) = off(d)
    OBVIOUS
  <2> HIDE DEF off
  <2>4. c = d /\ j + off(c) = k + off(d)
    <3>1. ASSUME NEW u \in 1..Len(stack[c].local), NEW v \in 1..Len(stack[d].local),
                 stack[c].local[u] = stack[d].local[v]
          PROVE  c = d /\ u = v
      BY <3>1, SMTT(30) DEF LinkInv, PendingOnce
    <3>2. /\ j + off(c) \in 1..Len(stack[c].local) /\ k + off(d) \in 1..Len(stack[d].local)
          /\ stack[c].local[j + off(c)] = stack[d].local[k + off(d)]
      BY <2>1
    <3> QED  BY <3>1, <3>2
  <2>5. j \in Nat /\ k \in Nat
    OBVIOUS
  <2> QED  BY <2>2, <2>3, <2>4, <2>5
<1>12. LinkInv'
  <2>1. ASSUME NEW d \in 1..n
        PROVE  /\ \A r : Holds(stack'[d], r) => Holds(stack[d], r)
               /\ stack'[d].kind = "routine" =>
                    /\ stack[d].kind = "routine"
                    /\ stack'[d].ops = stack[d].ops
                    /\ stack'[d].index = stack[d].index
    BY <1>1, <1>3, <1>4, <1>5
  <2>2. Len(stack') \in Nat /\ Len(stack') <= Len(stack) /\ 1..Len(stack') = 1..n
    BY <1>1
  <2> QED  BY <2>1, <2>2, <1>6, <1>11, ShrinkLinks
<1>13. Pending(Head(own))
  BY <1>1, <1>8 DEF Pending, InFrame, Holds
<1> QED  BY <1>1, <1>2, <1>6, <1>10, <1>12, <1>13

\* The innermost activation moves on with the requests it had; a routine does not
\* go back to a call that it does not wait for.
LEMMA UpdateLinks ==
  ASSUME ServiceInv, LinkInv, UNCHANGED requestQueue, Depth > 0, NEW f \in Frame, SetTop(f),
         f.local = Top.local,
         f.kind = "routine" =>
           /\ Top.kind = "routine" /\ f.ops = Top.ops
           /\ \A k \in 1..Len(Top.ops) :
                k >= f.index /\ Top.ops[k].op = "async" => k >= Top.index
  PROVE  /\ LinkInv'
         /\ \A r : InQueue(r)' <=> InQueue(r)
         /\ \A r : Pending(r)' <=> Pending(r)
         /\ Len(stack') = Len(stack)
         /\ \A d \in 1..Len(stack) : stack'[d] = IF d = Len(stack) THEN f ELSE stack[d]
<1> DEFINE n == Len(stack)
<1>1. /\ n \in Nat /\ n > 0 /\ stack \in Seq(Frame) /\ Top = stack[n]
      /\ stack' = [stack EXCEPT ![n] = f]
  BY StackFacts DEF ServiceInv, Depth, Top, SetTop
<1>2. /\ Len(stack') = n
      /\ \A d \in 1..n : stack'[d] = IF d = n THEN f ELSE stack[d]
  BY <1>1, UpdateFrame
<1>3. ASSUME NEW d \in 1..n PROVE stack'[d].local = stack[d].local
  <2>1. CASE d = n
    BY <2>1, <1>1, <1>2
  <2>2. CASE d # n
    BY <2>2, <1>2
  <2> QED  BY <2>1, <2>2
<1>4. LocalsOnce'
  BY <1>2, <1>3, SMTT(30) DEF LinkInv, PendingOnce, LocalsOnce
<1>5. ASSUME NEW d \in 1..n
      PROVE  /\ \A r : Holds(stack'[d], r) => Holds(stack[d], r)
             /\ stack'[d].kind = "routine" =>
                  /\ stack[d].kind = "routine"
                  /\ stack'[d].ops = stack[d].ops
                  /\ \A k \in 1..Len(stack[d].ops) :
                       k >= stack'[d].index /\ stack[d].ops[k].op = "async" => k >= stack[d].index
  <2>1. \A r : Holds(stack'[d], r) => Holds(stack[d], r)
    BY <1>3 DEF Holds
  <2>2. CASE d = n
    BY <2>1, <2>2, <1>1, <1>2
  <2>3. CASE d # n
    BY <2>1, <2>3, <1>2
  <2> QED  BY <2>2, <2>3
<1>6. Len(stack') \in Nat /\ Len(stack') <= Len(stack) /\ 1..Len(stack') = 1..n
  BY <1>1, <1>2
<1>7. LinkInv'
  BY <1>4, <1>5, <1>6, ShrinkLinks
<1>8. \A r : InQueue(r)' <=> InQueue(r)
  BY DEF InQueue
<1>9. \A r : InFrame(r)' <=> InFrame(r)
  BY <1>2, <1>3 DEF InFrame
<1>10. \A r : Pending(r)' <=> Pending(r)
  BY <1>8, <1>9 DEF Pending
<1> QED  BY <1>2, <1>7, <1>8, <1>10

\* The innermost activation returns, with no requests left.
LEMMA PopLinks ==
  ASSUME ServiceInv, LinkInv, UNCHANGED requestQueue, Depth > 0, Pop, Top.local = <<>>
  PROVE  /\ LinkInv'
         /\ \A r : InQueue(r)' <=> InQueue(r)
         /\ \A r : Pending(r)' <=> Pending(r)
         /\ Len(stack') = Len(stack) - 1
         /\ \A d \in 1..(Len(stack) - 1) : stack'[d] = stack[d]
<1> DEFINE n == Len(stack)
<1>1. /\ n \in Nat /\ n > 0 /\ stack \in Seq(Frame) /\ Top = stack[n]
      /\ stack' = SubSeq(stack, 1, n - 1)
  BY StackFacts DEF ServiceInv, Depth, Top, Pop
<1>2. /\ Len(stack') = n - 1
      /\ \A d \in 1..(n - 1) : stack'[d] = stack[d]
  BY <1>1, PopFrame
<1>3. \A d \in 1..(n - 1) : d \in 1..n
  BY <1>1
<1>4. LocalsOnce'
  <2> SUFFICES ASSUME NEW c \in 1..(n - 1), NEW d \in 1..(n - 1),
                      NEW j \in 1..Len(stack'[c].local), NEW k \in 1..Len(stack'[d].local),
                      stack'[c].local[j] = stack'[d].local[k]
               PROVE  c = d /\ j = k
    BY <1>2 DEF LocalsOnce
  <2>1. stack'[c] = stack[c] /\ stack'[d] = stack[d] /\ c \in 1..n /\ d \in 1..n
    BY <1>2, <1>3
  <2> QED  BY <2>1 DEF LinkInv, PendingOnce
<1>5. Len(stack') \in Nat /\ Len(stack') <= Len(stack) /\ 1..Len(stack') = 1..(n - 1)
  BY <1>1, <1>2
<1>6. LinkInv' /\ \A r : Pending(r)' => Pending(r)
  BY <1>2, <1>4, <1>5, ShrinkLinks
<1>7. \A r : InQueue(r)' <=> InQueue(r)
  BY DEF InQueue
<1>8. ASSUME NEW r, InFrame(r) PROVE InFrame(r)'
  <2>1. PICK d \in 1..n : Holds(stack[d], r)
    BY <1>8 DEF InFrame, Holds
  <2>2. d # n
    BY <2>1, <1>1, EmptySeq DEF Holds
  <2>3. d \in 1..(n - 1)
    BY <2>2, <1>1
  <2>4. Holds(stack'[d], r) /\ d \in 1..Len(stack')
    BY <2>1, <2>3, <1>2
  <2> QED  BY <2>4 DEF InFrame, Holds
<1>9. \A r : Pending(r)' <=> Pending(r)
  BY <1>6, <1>7, <1>8 DEF Pending
<1> QED  BY <1>2, <1>6, <1>7, <1>9

\* The next call of the routine on top of the stack.
LEMMA NextCall ==
  ASSUME TypeInv, InRoutine
  PROVE  /\ Len(stack) \in Nat /\ Len(stack) > 0 /\ Depth = Len(stack) /\ Len(stack) \in 1..Len(stack)
         /\ Top = stack[Len(stack)] /\ stack[Len(stack)].kind = "routine"
         /\ Top.index \in 1..Len(stack[Len(stack)].ops)
         /\ NextOp = stack[Len(stack)].ops[Top.index]
<1>1. /\ stack \in Seq(Frame) /\ Len(stack) \in Nat /\ Len(stack) > 0 /\ Len(stack) \in 1..Len(stack)
      /\ Top = stack[Len(stack)] /\ Top.kind = "routine" /\ Top.index <= Len(Top.ops)
      /\ Depth = Len(stack)
  BY StackFacts DEF InRoutine, Depth, Top
<1>2. Len(Top.ops) \in Nat /\ Top.index \in Nat /\ FrameOK(Top)
  BY <1>1, StackFacts
<1>3. Top.index >= 1
  BY <1>1, <1>2 DEF FrameOK
<1> QED  BY <1>1, <1>2, <1>3 DEF NextOp

\* A routine submits a request without waiting.
LEMMA SubmitLinks ==
  ASSUME ServiceInv, LinkInv, gatedSubmitRequest
  PROVE  /\ LinkInv'
         /\ NextOp.req \in Request /\ ~Pending(NextOp.req)
         /\ \A q : InQueue(q)' <=> InQueue(q) \/ q = NextOp.req
         /\ \A q : Pending(q)' <=> Pending(q) \/ q = NextOp.req
         /\ Len(stack') = Len(stack)
         /\ \A d \in 1..Len(stack) :
              stack'[d] = IF d = Len(stack) THEN [Top EXCEPT !.index = Top.index + 1] ELSE stack[d]
<1> DEFINE n == Len(stack)
           m == Len(requestQueue)
           f == [Top EXCEPT !.index = Top.index + 1]
<1>0. PICK r : r = NextOp.req
  OBVIOUS
<1>1. /\ n \in Nat /\ n > 0 /\ n \in 1..n /\ stack \in Seq(Frame) /\ Top = stack[n]
      /\ Top \in Frame /\ stack[n].kind = "routine"
      /\ Top.index \in 1..Len(stack[n].ops)
      /\ NextOp = stack[n].ops[Top.index] /\ NextOp.op = "async"
      /\ stack' = [stack EXCEPT ![n] = f] /\ requestQueue' = Append(requestQueue, r)
      /\ requestQueue \in Seq(Request) /\ m \in Nat /\ r \in Request
  BY <1>0, NextCall, RoutineOnTop, StackFacts DEF ServiceInv, gatedSubmitRequest, Depth, SetTop
<1>2. f \in Frame /\ f.local = Top.local /\ f.kind = Top.kind /\ f.ops = Top.ops
      /\ f.index = Top.index + 1
  <2>1. Top.index + 1 \in Nat
    BY <1>1
  <2> QED  BY <2>1, <1>1 DEF Frame
<1> HIDE DEF f
<1>3. /\ Len(stack') = n
      /\ \A d \in 1..n : stack'[d] = IF d = n THEN f ELSE stack[d]
  BY <1>1, <1>2, UpdateFrame
<1>4. ASSUME NEW d \in 1..n
      PROVE  /\ stack'[d].local = stack[d].local /\ stack'[d].kind = stack[d].kind
             /\ stack'[d].ops = stack[d].ops
             /\ stack'[d].index = IF d = n THEN Top.index + 1 ELSE stack[d].index
  BY <1>1, <1>2, <1>3
<1>5. ~Pending(r)
  <2>1. Top.index >= stack[n].index
    BY <1>1
  <2> QED  BY <2>1, <1>0, <1>1 DEF LinkInv, AsyncUnused
<1>6. /\ Len(requestQueue') = m + 1
      /\ \A i \in 1..m : requestQueue'[i] = requestQueue[i]
      /\ requestQueue'[m + 1] = r
  BY <1>1, AppendProperties
<1>7. \A q : InQueue(q)' <=> InQueue(q) \/ q = r
  BY <1>1, <1>6 DEF InQueue
<1>8. \A q : InFrame(q)' <=> InFrame(q)
  BY <1>3, <1>4 DEF InFrame
<1>9. \A q : Pending(q)' <=> Pending(q) \/ q = r
  BY <1>7, <1>8 DEF Pending
<1>10. PendingOnce'
  <2>1. QueueOnce'
    BY <1>1, <1>5, <1>6 DEF LinkInv, PendingOnce, QueueOnce, Pending, InQueue
  <2>2. \A q \in Request : ~(InQueue(q)' /\ InFrame(q)')
    BY <1>5, <1>7, <1>8 DEF LinkInv, PendingOnce, Pending
  <2>3. LocalsOnce'
    BY <1>3, <1>4, SMTT(30) DEF LinkInv, PendingOnce, LocalsOnce
  <2> QED  BY <2>1, <2>2, <2>3 DEF PendingOnce, QueueOnce, LocalsOnce
<1>11. ASSUME NEW d \in 1..n, stack[d].kind = "routine", NEW k \in 1..Len(stack[d].ops),
              stack[d].ops[k].op \in {"async", "sync"}, stack[d].ops[k].req = r
       PROVE  d = n /\ k = Top.index
  <2>1. d = n
    BY <1>0, <1>1, <1>11, RequestsApart DEF ServiceInv, LinkInv
  <2>2. k = Top.index
    BY <2>1, <1>0, <1>1, <1>11, AsyncOnce DEF ServiceInv, LinkInv
  <2> QED  BY <2>1, <2>2
<1>12. RoutinesApart'
  BY <1>3, <1>4 DEF LinkInv, RoutinesApart, Runs
<1>13. AsyncUnused'
  <2> SUFFICES ASSUME NEW d \in 1..n, stack[d].kind = "routine", NEW k \in 1..Len(stack[d].ops),
                      k >= stack'[d].index, stack[d].ops[k].op = "async"
               PROVE  ~Pending(stack[d].ops[k].req)'
    BY <1>3, <1>4 DEF AsyncUnused
  <2>1. k >= stack[d].index
    BY <1>1, <1>4
  <2>2. ~Pending(stack[d].ops[k].req)
    BY <2>1 DEF LinkInv, AsyncUnused
  <2>3. stack[d].ops[k].req # r
    <3>1. ASSUME d = n PROVE k # Top.index
      BY <3>1, <1>1, <1>4
    <3> QED  BY <3>1, <1>11
  <2>4. PICK q : q = stack[d].ops[k].req
    OBVIOUS
  <2>5. ~Pending(q)' /\ stack'[d].ops[k].req = q
    BY <2>2, <2>3, <2>4, <1>4, <1>9
  <2> QED  BY <2>5, <2>4, <1>4
<1>14. SyncAbove'
  <2> SUFFICES ASSUME NEW d \in 1..n, stack[d].kind = "routine", NEW k \in 1..Len(stack[d].ops),
                      stack[d].ops[k].op = "sync"
               PROVE  /\ ~InQueue(stack[d].ops[k].req) /\ stack[d].ops[k].req # r
                      /\ \A c \in 1..n : Holds(stack'[c], stack[d].ops[k].req) => c = d + 1
    BY <1>3, <1>4, <1>7 DEF SyncAbove, Holds
  <2> DEFINE q == stack[d].ops[k].req
  <2>1. q # r
    <3>1. d = n => k # Top.index
      BY <1>1
    <3> QED  BY <3>1, <1>11
  <2>2. ~InQueue(q) /\ \A c \in 1..n : Holds(stack[c], q) => c = d + 1
    BY DEF LinkInv, SyncAbove
  <2>3. \A c \in 1..n : Holds(stack'[c], q) => Holds(stack[c], q)
    BY <1>4 DEF Holds
  <2> QED  BY <2>1, <2>2, <2>3
<1>15. LinkInv'
  BY <1>10, <1>12, <1>13, <1>14 DEF LinkInv
<1> QED  BY <1>0, <1>1, <1>3, <1>5, <1>7, <1>9, <1>15 DEF f

\* A routine has a request executed on the spot: it goes to a new activation.
LEMMA BlockLinks ==
  ASSUME ServiceInv, LinkInv, gatedSubmitRequestAndBlock
  PROVE  /\ LinkInv'
         /\ NextOp.req \in Request /\ ~Pending(NextOp.req)
         /\ \A q : InQueue(q)' <=> InQueue(q)
         /\ \A q : Pending(q)' <=> Pending(q) \/ q = NextOp.req
         /\ Len(stack') = Len(stack) + 1
         /\ \A d \in 1..Len(stack) :
              stack'[d] = IF d = Len(stack) THEN [Top EXCEPT !.index = Top.index + 1] ELSE stack[d]
         /\ stack'[Len(stack) + 1].kind = "take"
<1> DEFINE n == Len(stack)
           f == [Top EXCEPT !.index = Top.index + 1]
           g == TakeFrame(<<NextOp.req>>)
           s == [stack EXCEPT ![n] = f]
<1>0. PICK r : r = NextOp.req
  OBVIOUS
<1>1. /\ n \in Nat /\ n > 0 /\ n \in 1..n /\ stack \in Seq(Frame) /\ Top = stack[n]
      /\ Top \in Frame /\ stack[n].kind = "routine"
      /\ Top.index \in 1..Len(stack[n].ops)
      /\ NextOp = stack[n].ops[Top.index] /\ NextOp.op = "sync"
      /\ UNCHANGED requestQueue /\ r \in Request
  BY <1>0, NextCall, RoutineOnTop, StackFacts DEF ServiceInv, gatedSubmitRequestAndBlock
<1>2. stack' = Append(s, g)
  BY <1>1 DEF gatedSubmitRequestAndBlock, Depth
<1>3. f \in Frame /\ f.local = Top.local /\ f.kind = Top.kind /\ f.ops = Top.ops
      /\ f.index = Top.index + 1
  <2>1. Top.index + 1 \in Nat
    BY <1>1
  <2> QED  BY <2>1, <1>1 DEF Frame
<1>4. g \in Frame /\ g.kind = "take" /\ g.local = <<r>> /\ Len(g.local) = 1 /\ g.local[1] = r
  <2>1. <<r>> \in Seq(Request)
    BY <1>1
  <2> QED  BY <1>0, <2>1, NewFrames DEF TakeFrame
<1> HIDE DEF f, g
<1>5. /\ s \in Seq(Frame) /\ Len(s) = n
      /\ \A d \in 1..n : s[d] = IF d = n THEN f ELSE stack[d]
  BY <1>1, <1>3, UpdateFrame
<1> HIDE DEF s
<1>6. /\ Len(stack') = n + 1
      /\ \A d \in 1..n : stack'[d] = IF d = n THEN f ELSE stack[d]
      /\ stack'[n + 1] = g
  BY <1>2, <1>4, <1>5, PushFrame
<1>7. ASSUME NEW d \in 1..n
      PROVE  /\ stack'[d].local = stack[d].local /\ stack'[d].kind = stack[d].kind
             /\ stack'[d].ops = stack[d].ops
             /\ stack'[d].index = IF d = n THEN Top.index + 1 ELSE stack[d].index
  BY <1>1, <1>3, <1>6
<1>8. ~Pending(r)
  <2>1. ~InQueue(r) /\ \A c \in 1..n : Holds(stack[c], r) => c = n + 1
    BY <1>0, <1>1 DEF LinkInv, SyncAbove
  <2>2. \A c \in 1..n : c # n + 1
    BY <1>1
  <2> QED  BY <2>1, <2>2 DEF Pending, InFrame, Holds
<1>9. \A q : Holds(g, q) <=> q = r
  BY <1>4 DEF Holds
<1>10. \A d \in 1..(n + 1) : d \in 1..n \/ d = n + 1
  BY <1>1
<1>11. /\ \A q : InQueue(q)' <=> InQueue(q)
       /\ \A q : InFrame(q)' <=> InFrame(q) \/ q = r
  <2>1. \A q : InFrame(q) <=> \E d \in 1..n : Holds(stack[d], q)
    BY DEF InFrame, Holds
  <2>2. \A q : InFrame(q)' <=> \E d \in 1..(n + 1) : Holds(stack'[d], q)
    BY <1>6 DEF InFrame, Holds
  <2>3. ASSUME NEW q, NEW d \in 1..n PROVE Holds(stack'[d], q) <=> Holds(stack[d], q)
    BY <1>7 DEF Holds
  <2>4. n + 1 \in 1..(n + 1) /\ \A d \in 1..n : d \in 1..(n + 1)
    BY <1>1
  <2>5. ASSUME NEW q PROVE InFrame(q)' <=> InFrame(q) \/ q = r
    BY <2>1, <2>2, <2>3, <2>4, <1>6, <1>9, <1>10
  <2> QED  BY <2>5, <1>1 DEF InQueue
<1>12. \A q : Pending(q)' <=> Pending(q) \/ q = r
  BY <1>11 DEF Pending
<1>13. PendingOnce'
  <2>1. LocalsOnce'
    <3> SUFFICES ASSUME NEW c \in 1..(n + 1), NEW d \in 1..(n + 1),
                        NEW j \in 1..Len(stack'[c].local), NEW k \in 1..Len(stack'[d].local),
                        stack'[c].local[j] = stack'[d].local[k]
                 PROVE  c = d /\ j = k
      BY <1>6 DEF LocalsOnce
    <3>1. ASSUME NEW b \in 1..n, NEW h \in 1..Len(stack'[b].local)
          PROVE  stack'[b].local[h] # r
      BY <1>7, <1>8 DEF Pending, InFrame
    <3>2. CASE c \in 1..n /\ d \in 1..n
      <4>1. stack'[c].local = stack[c].local /\ stack'[d].local = stack[d].local
        BY <3>2, <1>7
      <4> QED  BY <3>2, <4>1 DEF LinkInv, PendingOnce
    <3>3. CASE c = n + 1 /\ d = n + 1
      BY <3>3, <1>4, <1>6
    <3>4. CASE c \in 1..n /\ d = n + 1
      BY <3>1, <3>4, <1>4, <1>6
    <3>5. CASE c = n + 1 /\ d \in 1..n
      BY <3>1, <3>5, <1>4, <1>6
    <3> QED  BY <3>2, <3>3, <3>4, <3>5, <1>10
  <2>2. \A q \in Request : ~(InQueue(q)' /\ InFrame(q)')
    BY <1>8, <1>11 DEF LinkInv, PendingOnce, Pending
  <2>3. QueueOnce'
    BY <1>1 DEF LinkInv, PendingOnce, QueueOnce
  <2> QED  BY <2>1, <2>2, <2>3 DEF PendingOnce, QueueOnce, LocalsOnce
<1>14. ASSUME NEW d \in 1..(n + 1), stack'[d].kind = "routine" PROVE d \in 1..n
  BY <1>14, <1>4, <1>6, <1>10
<1>15. RoutinesApart'
  BY <1>6, <1>7, <1>14 DEF LinkInv, RoutinesApart, Runs
<1>16. ASSUME NEW d \in 1..n, stack[d].kind = "routine", NEW k \in 1..Len(stack[d].ops),
              stack[d].ops[k].req = r
       PROVE  d = n /\ stack[d].ops[k].op # "async"
  <2>1. d = n
    BY <1>0, <1>1, <1>16, RequestsApart DEF ServiceInv, LinkInv
  <2>2. ASSUME stack[d].ops[k].op = "async" PROVE FALSE
    <3>1. k = Top.index
      BY <2>1, <2>2, <1>0, <1>1, <1>16, AsyncOnce DEF ServiceInv, LinkInv
    <3> QED  BY <3>1, <2>1, <2>2, <1>1
  <2> QED  BY <2>1, <2>2
<1>17. AsyncUnused'
  <2> SUFFICES ASSUME NEW d \in 1..n, stack[d].kind = "routine", NEW k \in 1..Len(stack[d].ops),
                      k >= stack'[d].index, stack[d].ops[k].op = "async"
               PROVE  ~Pending(stack[d].ops[k].req) /\ stack[d].ops[k].req # r
    BY <1>6, <1>7, <1>12, <1>14 DEF AsyncUnused
  <2>1. k >= stack[d].index
    BY <1>1, <1>7
  <2> QED  BY <2>1, <1>16 DEF LinkInv, AsyncUnused
<1>18. SyncAbove'
  <2> SUFFICES ASSUME NEW d \in 1..n, stack[d].kind = "routine", NEW k \in 1..Len(stack[d].ops),
                      stack[d].ops[k].op = "sync"
               PROVE  /\ ~InQueue(stack[d].ops[k].req)
                      /\ \A c \in 1..(n + 1) : Holds(stack'[c], stack[d].ops[k].req) => c = d + 1
    BY <1>6, <1>7, <1>11, <1>14 DEF SyncAbove, Holds
  <2> DEFINE q == stack[d].ops[k].req
  <2>1. ~InQueue(q) /\ \A c \in 1..n : Holds(stack[c], q) => c = d + 1
    BY DEF LinkInv, SyncAbove
  <2>2. \A c \in 1..n : Holds(stack'[c], q) => Holds(stack[c], q)
    BY <1>7 DEF Holds
  <2>3. Holds(stack'[n + 1], q) => d = n
    BY <1>6, <1>9, <1>16
  <2> QED  BY <2>1, <2>2, <2>3, <1>10
<1>19. LinkInv'
  BY <1>13, <1>15, <1>17, <1>18 DEF LinkInv
<1> QED  BY <1>0, <1>1, <1>4, <1>6, <1>8, <1>11, <1>12, <1>19 DEF f

-----------------------------------------------------------------------------
(* Sleep and wake-up.                                                      *)

\* None of the requests of prog is on the queue.
NotQueued(prog) == \A r \in RequestsOf(prog) : ~InQueue(r)

\* Where a power change is.
PowerPhase ==
  /\ powerStep # "idle" => owner = "power"
  /\ powerStep = "disable" => powerTarget = "Sleep" /\ ~hardwareOffline
  /\ powerStep \in {"port", "enable"} => currentPowerState = "Sleep" /\ powerTarget # "Sleep"
  /\ powerStep = "enable" => ~hardwareOffline
  /\ hardwareOffline => currentPowerState = "Sleep"

\* The power control routines run at the bottom of the stack, in their phase.
PowerRoutines ==
  /\ \A d \in 1..Len(stack) :
       /\ Runs(stack[d], Sleeping) => d = 1 /\ powerStep = "disable"
       /\ Runs(stack[d], Waking) => d = 1 /\ powerStep = "enable"
  /\ powerStep = "disable" /\ Len(stack) > 0 => Runs(stack[1], Sleeping)

\* Nothing of the way to sleep is in use except while its routine runs.
SleepingRuns ==
  \A r \in RequestsOf(Sleeping) : Pending(r) => Len(stack) > 0 /\ Runs(stack[1], Sleeping)

\* Once the command byte loop has taken the queue, it holds nothing of a power change.
SleepingDrains ==
  Len(stack) > 0 /\ Runs(stack[1], Sleeping) /\ stack[1].index >= Len(Sleeping) =>
    \/ Len(stack) > 1 /\ stack[2].kind = "take"
    \/ NotQueued(Sleeping) /\ NotQueued(Waking)

\* Nothing of the way back is on the queue when it starts.
AsleepDrained ==
  (powerStep = "disable" /\ Len(stack) = 0) \/ (currentPowerState = "Sleep" /\ powerStep # "enable")
    => NotQueued(Waking)

PowerInv == PowerPhase /\ PowerRoutines /\ SleepingRuns /\ SleepingDrains /\ AsleepDrained

\* The programs of a power change.
LEMMA PowerPrograms ==
  /\ Sleeping \in Program /\ Waking \in Program
  /\ Sleeping = dispatchDriverPowerControl(MouseDisable, KeyboardDisable)
  /\ Waking = dispatchDriverPowerControl(MouseEnable, KeyboardEnable)
  /\ Sleeping \in DriverPrograms /\ Waking \in DriverPrograms
  /\ Len(Sleeping) \in Nat /\ Len(Sleeping) > 2
  /\ Sleeping[Len(Sleeping)].op = "until"
  /\ Sleeping[Len(Sleeping) - 1].op = "sync"
  /\ Sleeping[Len(Sleeping) - 2].op = "sync"
<1>1. /\ Sleeping = dispatchDriverPowerControl(MouseDisable, KeyboardDisable)
      /\ Waking = dispatchDriverPowerControl(MouseEnable, KeyboardEnable)
  BY DEF Sleeping, Waking, dispatchDriverPowerControl
<1>2. Sleeping \in Program /\ Waking \in Program
  BY <1>1, ProgramsConcatenate, ConstantsAssumption
<1>3. Sleeping \in DriverPrograms /\ Waking \in DriverPrograms
  BY DEF DriverPrograms
<1>4. Sleeping \in Seq(Op) /\ Sleeping # <<>>
  BY <1>2, DriversAssumption DEF Program
<1>5. /\ Len(Sleeping) \in Nat /\ Len(Sleeping) \in 1..Len(Sleeping)
      /\ DOMAIN Sleeping = 1..Len(Sleeping)
  BY <1>4, LenProperties, EmptySeq
<1>6. Orderly(Sleeping) /\ Sleeping[Len(Sleeping)].op = "until"
  BY <1>3, DriversAssumption
<1> QED  BY <1>1, <1>2, <1>3, <1>5, <1>6 DEF Orderly

\* The requests of a power change are its own.
LEMMA PowerRequests ==
  ASSUME NEW prog \in DriverPrograms
  PROVE  /\ prog # Sleeping => \A r \in RequestsOf(prog) : r \notin RequestsOf(Sleeping)
         /\ prog # Waking => \A r \in RequestsOf(prog) : r \notin RequestsOf(Waking)
  BY PowerPrograms, DriversAssumption

\* A step that changes neither the phase nor the activation at the bottom, and queues
\* nothing of a power change.
LEMMA OtherStep ==
  ASSUME PowerInv, UNCHANGED <<powerTarget, powerStep, currentPowerState, hardwareOffline>>,
         owner' = owner \/ powerStep = "idle",
         \A r \in RequestsOf(Sleeping) \cup RequestsOf(Waking) : InQueue(r)' => InQueue(r),
         \A r \in RequestsOf(Sleeping) : Pending(r)' => Pending(r),
         \A d \in 1..Len(stack') : \A prog \in {Sleeping, Waking} :
           Runs(stack'[d], prog) => d \in 1..Len(stack) /\ Runs(stack[d], prog),
         Len(stack) > 0 /\ Runs(stack[1], Sleeping) => Len(stack') > 0 /\ Runs(stack'[1], Sleeping),
         powerStep = "disable" /\ ~(Len(stack) > 0) => ~(Len(stack') > 0),
         Len(stack) \in Nat, Len(stack') \in Nat,
         SleepingDrains'
  PROVE  PowerInv'
<1>1. PowerPhase'
  BY DEF PowerInv, PowerPhase
<1>2. PowerRoutines'
  <2>1. ASSUME NEW d \in 1..Len(stack')
        PROVE  /\ Runs(stack'[d], Sleeping) => d = 1 /\ powerStep = "disable"
               /\ Runs(stack'[d], Waking) => d = 1 /\ powerStep = "enable"
    BY DEF PowerInv, PowerRoutines
  <2>2. powerStep = "disable" /\ Len(stack') > 0 => Runs(stack'[1], Sleeping)
    BY DEF PowerInv, PowerRoutines
  <2> QED  BY <2>1, <2>2 DEF PowerRoutines, Runs
<1>3. SleepingRuns'
  BY DEF PowerInv, SleepingRuns, Runs
<1>4. AsleepDrained'
  <2> SUFFICES ASSUME \/ powerStep = "disable" /\ Len(stack') = 0
                      \/ currentPowerState = "Sleep" /\ powerStep # "enable",
                      NEW r \in RequestsOf(Waking)
               PROVE  ~InQueue(r)'
    BY DEF AsleepDrained, NotQueued
  <2>1. CASE powerStep = "disable" /\ Len(stack') = 0
    <3>1. Len(stack) = 0
      BY <2>1 DEF PowerInv, PowerRoutines
    <3> QED  BY <2>1, <3>1 DEF PowerInv, AsleepDrained, NotQueued
  <2>2. CASE currentPowerState = "Sleep" /\ powerStep # "enable"
    BY <2>2 DEF PowerInv, AsleepDrained, NotQueued
  <2> QED  BY <2>1, <2>2
<1> QED  BY <1>1, <1>2, <1>3, <1>4 DEF PowerInv

\* Sizes of the stack.
LEMMA OneOrMore ==
  ASSUME NEW n \in Nat
  PROVE  (n > 0 => n = 1 \/ n > 1) /\ (n > 1 => n = 2 \/ n > 2)
  OBVIOUS

Placement == ServiceInv /\ LinkInv /\ PowerInv

\* The controller has the same requests before and after a step.
SamePending == \A r : Pending(r)' <=> Pending(r)

\* The free gate: no activation, no power change.
LEMMA FreeGate ==
  ASSUME Placement, owner = "none"
  PROVE  /\ Len(stack) = 0 /\ powerStep = "idle"
         /\ \A r \in RequestsOf(Sleeping) : ~Pending(r)
<1>1. Len(stack) = 0 /\ powerStep = "idle"
  BY DEF Placement, ServiceInv, GateFree, PowerInv, PowerPhase
<1> QED  BY <1>1 DEF Placement, PowerInv, SleepingRuns

\* Driver threads submit requests of their own.
LEMMA EnqueuePlaces ==
  ASSUME Placement, NEW r \in ThreadAsync \cup ThreadSync, enqueueRequest(r)
  PROVE  LinkInv' /\ PowerInv'
<1>1. /\ LinkInv'
      /\ \A q : InQueue(q)' <=> InQueue(q) \/ q = r
      /\ \A q : Pending(q)' <=> Pending(q) \/ q = r
  BY EnqueueLinks DEF Placement
<1>2. r \notin RequestsOf(Sleeping) /\ r \notin RequestsOf(Waking)
  BY DriversAssumption, PowerPrograms
<1>3. /\ UNCHANGED <<stack, owner, powerTarget, powerStep, currentPowerState, hardwareOffline>>
      /\ Len(stack) \in Nat
  BY StackFacts DEF enqueueRequest, powerVars, Placement, ServiceInv
<1>4. SleepingDrains'
  BY <1>1, <1>2, <1>3 DEF Placement, PowerInv, SleepingDrains, NotQueued
<1> QED  BY <1>1, <1>2, <1>3, <1>4, OtherStep DEF Placement

\* processRequestQueue takes the queue.
LEMMA TakePlaces ==
  ASSUME Placement, takeQueue
  PROVE  LinkInv' /\ PowerInv' /\ SamePending
<1> DEFINE n == Len(stack)
<1>1. /\ LinkInv'
      /\ \A r : ~InQueue(r)'
      /\ \A r : Pending(r)' <=> Pending(r)
      /\ Len(stack') = n /\ n \in Nat
      /\ stack[n].kind = "take" /\ stack'[n].kind = "queue"
      /\ \A d \in 1..(n - 1) : stack'[d] = stack[d]
  BY TakeLinks, StackFacts DEF Placement, ServiceInv
<1>2. UNCHANGED <<owner, powerTarget, powerStep, currentPowerState, hardwareOffline>>
      /\ n > 0
  BY DEF takeQueue, powerVars, Depth
<1>3. SleepingDrains'
  BY <1>1 DEF SleepingDrains, NotQueued
<1>4. ASSUME NEW d \in 1..n, NEW prog PROVE Runs(stack'[d], prog) <=> Runs(stack[d], prog)
  <2>1. d = n \/ d \in 1..(n - 1)
    BY <1>1
  <2> QED  BY <2>1, <1>1 DEF Runs
<1>5. 1 \in 1..n
  BY <1>1, <1>2
<1> QED  BY <1>1, <1>2, <1>3, <1>4, <1>5, OtherStep DEF Placement, SamePending

\* The innermost activation goes on with what it was doing; no routine and no take.
LEMMA WorkPlaces ==
  ASSUME Placement, \A r : InQueue(r)' <=> InQueue(r), \A r : Pending(r)' => Pending(r),
         Len(stack) > 0, Len(stack') = Len(stack),
         UNCHANGED <<owner, powerTarget, powerStep, currentPowerState, hardwareOffline>>,
         stack[Len(stack)].kind \notin {"routine", "take"},
         stack'[Len(stack)].kind # "routine",
         \A d \in 1..(Len(stack) - 1) : /\ stack'[d].kind = stack[d].kind
                                        /\ stack'[d].ops = stack[d].ops
                                        /\ stack'[d].index = stack[d].index
  PROVE  PowerInv'
<1> DEFINE n == Len(stack)
<1>1. n \in Nat /\ 1 \in 1..n
  BY StackFacts DEF Placement, ServiceInv
<1>2. \A d \in 1..n : d = n \/ d \in 1..(n - 1)
  BY <1>1
<1>3. ASSUME NEW d \in 1..n, NEW prog PROVE Runs(stack'[d], prog) <=> Runs(stack[d], prog)
  BY <1>2 DEF Runs
<1>4. SleepingDrains'
  <2> SUFFICES ASSUME Runs(stack'[1], Sleeping), stack'[1].index >= Len(Sleeping)
               PROVE  \/ n > 1 /\ stack'[2].kind = "take"
                      \/ NotQueued(Sleeping) /\ NotQueued(Waking)
    BY DEF SleepingDrains, NotQueued, Runs
  <2>1. 1 # n
    BY DEF Runs
  <2>2. 1 \in 1..(n - 1)
    BY <2>1, <1>1, <1>2
  <2>3. Runs(stack[1], Sleeping) /\ stack[1].index >= Len(Sleeping)
    BY <2>2, <1>1, <1>3
  <2>4. ASSUME n > 1, stack[2].kind = "take" PROVE stack'[2].kind = "take"
    <3>1. 2 \in 1..n /\ 2 # n
      BY <2>4, <1>1
    <3> QED  BY <3>1, <2>4, <1>2
  <2> QED  BY <2>3, <2>4 DEF Placement, PowerInv, SleepingDrains
<1> QED  BY <1>1, <1>3, <1>4, OtherStep DEF Placement

\* The innermost activation returns: the way to sleep is over when its routine does.
LEMMA PopPlaces ==
  ASSUME Placement, leaveQueue \/ returnFromRoutine
  PROVE  LinkInv' /\ PowerInv' /\ SamePending
<1> DEFINE n == Len(stack)
<1>1. /\ n \in Nat /\ n > 0 /\ n \in 1..n /\ Depth > 0 /\ Pop /\ Top = stack[n] /\ Top.local = <<>>
      /\ UNCHANGED <<requestQueue, powerTarget, powerStep, currentPowerState, hardwareOffline>>
      /\ owner' = owner \/ owner # "power"
  BY StackFacts DEF Placement, ServiceInv, leaveQueue, returnFromRoutine, Depth, Top, powerVars, FrameOK
<1>2. /\ LinkInv'
      /\ \A r : InQueue(r)' <=> InQueue(r)
      /\ \A r : Pending(r)' <=> Pending(r)
      /\ Len(stack') = n - 1
      /\ \A d \in 1..(n - 1) : stack'[d] = stack[d]
  BY <1>1, PopLinks DEF Placement
<1>3. owner' = owner \/ powerStep = "idle"
  BY <1>1 DEF Placement, PowerInv, PowerPhase
<1>4. CASE n > 1
  <2>1. 1 \in 1..(n - 1) /\ \A d \in 1..(n - 1) : d \in 1..n
    BY <1>1, <1>4
  <2>2. SleepingDrains'
    <3> SUFFICES ASSUME Runs(stack[1], Sleeping), stack[1].index >= Len(Sleeping)
                 PROVE  \/ n - 1 > 1 /\ stack'[2].kind = "take"
                        \/ NotQueued(Sleeping) /\ NotQueued(Waking)
      BY <1>2, <2>1 DEF SleepingDrains, NotQueued, Runs
    <3>1. CASE n = 2
      <4>1. stack[2].kind # "take"
        BY <3>1, <1>1 DEF leaveQueue, returnFromRoutine
      <4> QED  BY <4>1, <1>1 DEF Placement, PowerInv, SleepingDrains
    <3>2. CASE n > 2
      <4>1. 2 \in 1..(n - 1) /\ n - 1 > 1
        BY <3>2, <1>1
      <4> QED  BY <4>1, <1>2, <1>4 DEF Placement, PowerInv, SleepingDrains
    <3>3. n = 2 \/ n > 2
      BY <1>1, <1>4, OneOrMore
    <3> QED  BY <3>1, <3>2, <3>3
  <2>3. n - 1 \in Nat /\ n - 1 > 0
    BY <1>1, <1>4
  <2> QED  BY <1>1, <1>2, <1>3, <1>4, <2>1, <2>2, <2>3, OtherStep DEF Placement, SamePending
<1>5. CASE n = 1
  <2>1. Len(stack') = 0 /\ \A r : ~InFrame(r)'
    BY <1>2, <1>5 DEF InFrame
  <2>2. Runs(stack[1], Sleeping) => NotQueued(Sleeping) /\ NotQueued(Waking)
    <3> SUFFICES ASSUME Runs(stack[1], Sleeping)
                 PROVE  NotQueued(Sleeping) /\ NotQueued(Waking)
      OBVIOUS
    <3>1. Top.index > Len(Sleeping)
      BY <1>1, <1>5 DEF leaveQueue, returnFromRoutine, Runs
    <3>2. stack[1].index >= Len(Sleeping) /\ ~(n > 1)
      BY <3>1, <1>1, <1>5, StackFacts, PowerPrograms DEF Placement, ServiceInv
    <3> QED  BY <3>2, <1>1 DEF Placement, PowerInv, SleepingDrains
  <2>3. \A r \in RequestsOf(Sleeping) : ~Pending(r)'
    <3> SUFFICES ASSUME NEW r \in RequestsOf(Sleeping), Pending(r)' PROVE FALSE
      OBVIOUS
    <3>1. Pending(r) /\ InQueue(r)
      BY <1>2, <2>1 DEF Pending
    <3>2. Runs(stack[1], Sleeping)
      BY <3>1 DEF Placement, PowerInv, SleepingRuns
    <3> QED  BY <3>1, <3>2, <2>2 DEF NotQueued
  <2>4. powerStep = "disable" => NotQueued(Waking)
    BY <1>1, <2>2 DEF Placement, PowerInv, PowerRoutines
  <2>5. PowerPhase'
    BY <1>1, <1>3 DEF Placement, PowerInv, PowerPhase
  <2>6. PowerRoutines' /\ SleepingDrains'
    BY <2>1 DEF PowerRoutines, SleepingDrains
  <2>7. SleepingRuns'
    BY <2>3 DEF SleepingRuns
  <2>8. AsleepDrained'
    BY <1>1, <1>2, <2>4 DEF Placement, PowerInv, AsleepDrained, NotQueued
  <2> QED  BY <1>2, <2>5, <2>6, <2>7, <2>8 DEF PowerInv, SamePending
<1>6. n > 1 \/ n = 1
  BY <1>1, OneOrMore
<1> QED  BY <1>4, <1>5, <1>6

\* The call the routine on top of the stack is about to make, seen from a power change.
LEMMA NextCallOwner ==
  ASSUME Placement, InRoutine
  PROVE  /\ Len(stack) \in Nat /\ Len(stack) > 0 /\ Len(stack) \in 1..Len(stack)
         /\ Top = stack[Len(stack)] /\ Top.kind = "routine" /\ Top.index \in Nat
         /\ NextOp = Top.ops[Top.index]
         /\ NextOp.req \in RequestsOf(Sleeping) => Top.ops = Sleeping
         /\ NextOp.req \in RequestsOf(Waking) => Top.ops = Waking
         /\ Top.ops = Sleeping => Len(stack) = 1 /\ powerStep = "disable"
         /\ Top.ops = Waking => Len(stack) = 1 /\ powerStep = "enable"
<1> DEFINE n == Len(stack)
<1>1. /\ n \in Nat /\ n > 0 /\ n \in 1..n /\ Top = stack[n] /\ stack[n].kind = "routine"
      /\ Top.index \in 1..Len(stack[n].ops) /\ NextOp = stack[n].ops[Top.index]
      /\ stack[n].ops \in Program /\ stack[n].ops \in DriverPrograms
      /\ Top.index \in Nat
  <2>1. /\ n \in Nat /\ n > 0 /\ n \in 1..n /\ Top = stack[n] /\ stack[n].kind = "routine"
        /\ Top.index \in 1..Len(stack[n].ops) /\ NextOp = stack[n].ops[Top.index]
    BY NextCall DEF Placement, ServiceInv
  <2> QED  BY <2>1, StackFacts DEF Placement, ServiceInv, LinkInv, RoutinesApart
<1>2. NextOp.req \in RequestsOf(stack[n].ops)
  BY <1>1, CallRequest
<1>3. /\ NextOp.req \in RequestsOf(Sleeping) => Top.ops = Sleeping
      /\ NextOp.req \in RequestsOf(Waking) => Top.ops = Waking
  BY <1>1, <1>2, PowerRequests
<1>4. /\ Top.ops = Sleeping => n = 1 /\ powerStep = "disable"
      /\ Top.ops = Waking => n = 1 /\ powerStep = "enable"
  BY <1>1 DEF Placement, PowerInv, PowerRoutines, Runs
<1> QED  BY <1>1, <1>3, <1>4

\* A routine submits a request without waiting; the one on the way to sleep never
\* does so at the end.
LEMMA SubmitPlaces ==
  ASSUME Placement, gatedSubmitRequest
  PROVE  LinkInv' /\ PowerInv'
<1> DEFINE n == Len(stack)
           f == [Top EXCEPT !.index = Top.index + 1]
<1>0. PICK r : r = NextOp.req
  OBVIOUS
<1>1. /\ n \in Nat /\ n > 0 /\ n \in 1..n
      /\ Top = stack[n] /\ Top.kind = "routine" /\ Top.index \in Nat
      /\ NextOp = Top.ops[Top.index] /\ NextOp.op = "async"
      /\ r \in RequestsOf(Sleeping) => Top.ops = Sleeping
      /\ r \in RequestsOf(Waking) => Top.ops = Waking
      /\ Top.ops = Sleeping => n = 1 /\ powerStep = "disable"
      /\ Top.ops = Waking => n = 1 /\ powerStep = "enable"
      /\ UNCHANGED <<owner, powerTarget, powerStep, currentPowerState, hardwareOffline>>
  BY <1>0, NextCallOwner DEF gatedSubmitRequest, powerVars
<1>2. /\ LinkInv'
      /\ \A q : InQueue(q)' <=> InQueue(q) \/ q = r
      /\ \A q : Pending(q)' <=> Pending(q) \/ q = r
      /\ Len(stack') = n
      /\ \A d \in 1..n : stack'[d] = IF d = n THEN f ELSE stack[d]
  BY <1>0, SubmitLinks DEF Placement
<1>3. f.kind = Top.kind /\ f.ops = Top.ops /\ f.index = Top.index + 1
  BY <1>1, StackFacts DEF Placement, ServiceInv, Frame
<1> HIDE DEF f
<1>4. ASSUME NEW d \in 1..n
      PROVE  /\ stack'[d].kind = stack[d].kind /\ stack'[d].ops = stack[d].ops
             /\ d # n => stack'[d].index = stack[d].index
             /\ d = n => stack'[d].index = Top.index + 1
  BY <1>1, <1>2, <1>3
<1>5. ASSUME NEW d \in 1..n, NEW prog PROVE Runs(stack'[d], prog) <=> Runs(stack[d], prog)
  BY <1>4 DEF Runs
<1>6. 1 \in 1..n
  BY <1>1
<1>7. PowerPhase'
  BY <1>1 DEF Placement, PowerInv, PowerPhase
<1>8. PowerRoutines'
  <2>1. \A d \in 1..n : /\ Runs(stack'[d], Sleeping) => d = 1 /\ powerStep = "disable"
                        /\ Runs(stack'[d], Waking) => d = 1 /\ powerStep = "enable"
    BY <1>5 DEF Placement, PowerInv, PowerRoutines
  <2>2. powerStep = "disable" => Runs(stack'[1], Sleeping)
    BY <1>1, <1>5, <1>6 DEF Placement, PowerInv, PowerRoutines
  <2> QED  BY <2>1, <2>2, <1>1, <1>2 DEF PowerRoutines, Runs
<1>9. SleepingRuns'
  <2> SUFFICES ASSUME NEW q \in RequestsOf(Sleeping), Pending(q)' PROVE Runs(stack'[1], Sleeping)
    BY <1>1, <1>2 DEF SleepingRuns, Runs
  <2>1. CASE Pending(q)
    BY <2>1, <1>5, <1>6 DEF Placement, PowerInv, SleepingRuns
  <2>2. CASE q = r
    BY <2>2, <1>1, <1>5, <1>6 DEF Runs
  <2> QED  BY <2>1, <2>2, <1>2
<1>10. SleepingDrains'
  <2> SUFFICES ASSUME Runs(stack[1], Sleeping), stack'[1].index >= Len(Sleeping)
               PROVE  \/ n > 1 /\ stack'[2].kind = "take"
                      \/ NotQueued(Sleeping)' /\ NotQueued(Waking)'
    BY <1>2, <1>5, <1>6 DEF SleepingDrains, Runs
  <2>1. CASE n = 1
    <3>1. Top.index + 1 >= Len(Sleeping) /\ Top.ops = Sleeping
      BY <2>1, <1>1, <1>4, <1>6 DEF Runs
    <3>2. Top.index <= Len(Top.ops)
      BY DEF gatedSubmitRequest, InRoutine
    <3>3. Top.index = Len(Sleeping) \/ Top.index = Len(Sleeping) - 1
      BY <3>1, <3>2, <1>1, PowerPrograms
    <3> QED  BY <3>1, <3>3, <1>1, PowerPrograms
  <2>2. CASE n > 1
    <3>1. 2 \in 1..n /\ stack'[2].kind = stack[2].kind /\ stack'[1].index = stack[1].index
      BY <2>2, <1>1, <1>4, <1>6
    <3>2. r \notin RequestsOf(Sleeping) /\ r \notin RequestsOf(Waking)
      BY <2>2, <1>1
    <3>3. NotQueued(Sleeping) /\ NotQueued(Waking) => NotQueued(Sleeping)' /\ NotQueued(Waking)'
      BY <3>2, <1>2 DEF NotQueued
    <3> QED  BY <3>1, <3>3, <1>1 DEF Placement, PowerInv, SleepingDrains
  <2>3. n = 1 \/ n > 1
    BY <1>1, OneOrMore
  <2> QED  BY <2>1, <2>2, <2>3
<1>11. AsleepDrained'
  <2> SUFFICES ASSUME currentPowerState = "Sleep", powerStep # "enable" PROVE NotQueued(Waking)'
    BY <1>1, <1>2 DEF AsleepDrained
  <2>1. r \notin RequestsOf(Waking)
    BY <1>1
  <2> QED  BY <2>1, <1>2 DEF Placement, PowerInv, AsleepDrained, NotQueued
<1> QED  BY <1>2, <1>7, <1>8, <1>9, <1>10, <1>11 DEF PowerInv

\* A routine has a request executed on the spot.
LEMMA BlockPlaces ==
  ASSUME Placement, gatedSubmitRequestAndBlock
  PROVE  LinkInv' /\ PowerInv'
<1> DEFINE n == Len(stack)
           f == [Top EXCEPT !.index = Top.index + 1]
<1>0. PICK r : r = NextOp.req
  OBVIOUS
<1>1. /\ n \in Nat /\ n > 0 /\ n \in 1..n
      /\ Top = stack[n] /\ Top.kind = "routine" /\ Top.index \in Nat
      /\ r \in RequestsOf(Sleeping) => Top.ops = Sleeping
      /\ Top.ops = Sleeping => n = 1
      /\ UNCHANGED <<owner, powerTarget, powerStep, currentPowerState, hardwareOffline>>
  BY <1>0, NextCallOwner DEF gatedSubmitRequestAndBlock, powerVars
<1>2. /\ LinkInv'
      /\ \A q : InQueue(q)' <=> InQueue(q)
      /\ \A q : Pending(q)' <=> Pending(q) \/ q = r
      /\ Len(stack') = n + 1
      /\ \A d \in 1..n : stack'[d] = IF d = n THEN f ELSE stack[d]
      /\ stack'[n + 1].kind = "take"
  BY <1>0, BlockLinks DEF Placement
<1>3. f.kind = Top.kind /\ f.ops = Top.ops
  BY <1>1, StackFacts DEF Placement, ServiceInv, Frame
<1> HIDE DEF f
<1>4. ASSUME NEW d \in 1..n
      PROVE  /\ stack'[d].kind = stack[d].kind /\ stack'[d].ops = stack[d].ops
             /\ d # n => stack'[d].index = stack[d].index
  BY <1>1, <1>2, <1>3
<1>5. /\ 1 \in 1..n /\ n + 1 \in Nat /\ n + 1 > 0
      /\ \A d \in 1..(n + 1) : d \in 1..n \/ d = n + 1
  BY <1>1
<1>6. ASSUME NEW d \in 1..n, NEW prog PROVE Runs(stack'[d], prog) <=> Runs(stack[d], prog)
  BY <1>4 DEF Runs
<1>7. ASSUME NEW d \in 1..(n + 1), NEW prog, Runs(stack'[d], prog)
      PROVE  d \in 1..n /\ Runs(stack[d], prog)
  BY <1>2, <1>5, <1>6, <1>7 DEF Runs
<1>8. PowerPhase'
  BY <1>1 DEF Placement, PowerInv, PowerPhase
<1>9. PowerRoutines'
  <2>1. \A d \in 1..(n + 1) : /\ Runs(stack'[d], Sleeping) => d = 1 /\ powerStep = "disable"
                              /\ Runs(stack'[d], Waking) => d = 1 /\ powerStep = "enable"
    BY <1>7 DEF Placement, PowerInv, PowerRoutines
  <2>2. powerStep = "disable" => Runs(stack'[1], Sleeping)
    BY <1>1, <1>5, <1>6 DEF Placement, PowerInv, PowerRoutines
  <2> QED  BY <2>1, <2>2, <1>1, <1>2 DEF PowerRoutines, Runs
<1>10. SleepingRuns'
  <2> SUFFICES ASSUME NEW q \in RequestsOf(Sleeping), Pending(q)' PROVE Runs(stack'[1], Sleeping)
    BY <1>2, <1>5 DEF SleepingRuns, Runs
  <2>1. CASE Pending(q)
    BY <2>1, <1>5, <1>6 DEF Placement, PowerInv, SleepingRuns
  <2>2. CASE q = r
    BY <2>2, <1>1, <1>5, <1>6 DEF Runs
  <2> QED  BY <2>1, <2>2, <1>2
<1>11. SleepingDrains'
  <2> SUFFICES ASSUME Runs(stack[1], Sleeping), stack'[1].index >= Len(Sleeping)
               PROVE  \/ n + 1 > 1 /\ stack'[2].kind = "take"
                      \/ NotQueued(Sleeping) /\ NotQueued(Waking)
    BY <1>2, <1>5, <1>6 DEF SleepingDrains, Runs, NotQueued
  <2>1. CASE n = 1
    BY <2>1, <1>2
  <2>2. CASE n > 1
    <3>1. 2 \in 1..n /\ stack'[2].kind = stack[2].kind /\ stack'[1].index = stack[1].index
      BY <2>2, <1>1, <1>4, <1>5
    <3> QED  BY <3>1, <2>2, <1>1 DEF Placement, PowerInv, SleepingDrains
  <2>3. n = 1 \/ n > 1
    BY <1>1, OneOrMore
  <2> QED  BY <2>1, <2>2, <2>3
<1>12. AsleepDrained'
  BY <1>1, <1>2 DEF Placement, PowerInv, AsleepDrained, NotQueued
<1> QED  BY <1>2, <1>8, <1>9, <1>10, <1>11, <1>12 DEF PowerInv

\* Positions of calls.
LEMMA Positions ==
  ASSUME NEW i \in Nat, NEW k \in Nat
  PROVE  /\ k >= i - 2 /\ k # i - 1 /\ k # i - 2 => k >= i
         /\ \A j \in {i + 1, i + 2, i - 2} : j >= k /\ i # k - 1 /\ i # k - 2 => i >= k
  OBVIOUS

\* A routine looks at commandsCount: a loop is repeated from its first call, and the
\* end of the way to sleep is reached from the command byte loop only.
LEMMA TestPlaces ==
  ASSUME Placement, testCommandsCount
  PROVE  LinkInv' /\ PowerInv' /\ SamePending
<1> DEFINE n == Len(stack)
<1>0. PICK i : i = IF Top.complete THEN Top.index + 1
                   ELSE IF NextOp.op = "until" THEN Top.index - 2 ELSE Top.index + 2
  OBVIOUS
<1> DEFINE f == [Top EXCEPT !.index = i]
<1>1. /\ n \in Nat /\ n > 0 /\ n \in 1..n /\ Depth > 0
      /\ Top = stack[n] /\ Top.kind = "routine" /\ Top.index \in Nat
      /\ NextOp = Top.ops[Top.index] /\ NextOp.op \in {"until", "ifDone"}
      /\ Top.ops = Sleeping => n = 1
      /\ UNCHANGED <<requestQueue, owner, powerTarget, powerStep, currentPowerState,
                     hardwareOffline>>
      /\ SetTop(f)
  BY <1>0, NextCallOwner DEF testCommandsCount, powerVars, Depth
<1>2. /\ Top.ops \in Program /\ Top.ops \in DriverPrograms /\ Len(Top.ops) \in Nat
      /\ Top.index \in 1..Len(Top.ops) /\ Top \in Frame
  BY <1>1, StackFacts, NextCall
  DEF Placement, ServiceInv, LinkInv, RoutinesApart, testCommandsCount
<1>3. NextOp.op = "until" => /\ Top.index > 2
                             /\ Top.ops[Top.index - 1].op = "sync"
                             /\ Top.ops[Top.index - 2].op = "sync"
  <2>1. Orderly(Top.ops) /\ DOMAIN Top.ops = 1..Len(Top.ops)
    BY <1>2, DriversAssumption, LenProperties DEF Program
  <2> QED  BY <2>1, <1>1, <1>2 DEF Orderly
<1>4. /\ i \in Nat
      /\ i \in {Top.index + 1, Top.index + 2, Top.index - 2}
      /\ i = Top.index - 2 => NextOp.op = "until"
  <2>1. \/ i = Top.index + 1 \/ i = Top.index + 2
        \/ i = Top.index - 2 /\ NextOp.op = "until"
    BY <1>0
  <2> QED  BY <2>1, <1>1, <1>3
<1>5. f \in Frame /\ f.local = Top.local /\ f.kind = "routine" /\ f.ops = Top.ops /\ f.index = i
  BY <1>1, <1>2, <1>4 DEF Frame
<1> HIDE DEF f
<1>6. ASSUME NEW k \in 1..Len(Top.ops), k >= f.index, Top.ops[k].op = "async"
      PROVE  k >= Top.index
  <2>1. CASE i = Top.index - 2
    <3>1. Top.ops[Top.index - 1].op # "async" /\ Top.ops[Top.index - 2].op # "async"
      BY <2>1, <1>3, <1>4
    <3>2. k # Top.index - 1 /\ k # Top.index - 2
      BY <3>1, <1>6
    <3>3. k >= Top.index - 2 /\ k \in Nat
      BY <2>1, <1>2, <1>5, <1>6
    <3> QED  BY <3>2, <3>3, <1>1, Positions
  <2>2. CASE i # Top.index - 2
    BY <2>2, <1>1, <1>4, <1>5, <1>6
  <2> QED  BY <2>1, <2>2
<1>7. /\ LinkInv'
      /\ \A r : InQueue(r)' <=> InQueue(r)
      /\ \A r : Pending(r)' <=> Pending(r)
      /\ Len(stack') = n
      /\ \A d \in 1..n : stack'[d] = IF d = n THEN f ELSE stack[d]
  BY <1>1, <1>5, <1>6, UpdateLinks DEF Placement
<1>8. ASSUME NEW d \in 1..n
      PROVE  /\ stack'[d].kind = stack[d].kind /\ stack'[d].ops = stack[d].ops
             /\ d # n => stack'[d].index = stack[d].index
             /\ d = n => stack'[d].index = i
  BY <1>1, <1>5, <1>7
<1>9. ASSUME NEW d \in 1..n, NEW prog PROVE Runs(stack'[d], prog) <=> Runs(stack[d], prog)
  BY <1>8 DEF Runs
<1>10. 1 \in 1..n
  BY <1>1
<1>11. SleepingDrains'
  <2> SUFFICES ASSUME Runs(stack[1], Sleeping), stack'[1].index >= Len(Sleeping)
               PROVE  \/ n > 1 /\ stack'[2].kind = "take"
                      \/ NotQueued(Sleeping) /\ NotQueued(Waking)
    BY <1>7, <1>9, <1>10 DEF SleepingDrains, Runs, NotQueued
  <2>1. CASE n = 1
    <3>1. i >= Len(Sleeping) /\ Top.ops = Sleeping
      BY <2>1, <1>1, <1>8, <1>10 DEF Runs
    <3>2. Top.index # Len(Sleeping) - 1 /\ Top.index # Len(Sleeping) - 2
      BY <3>1, <1>1, PowerPrograms
    <3>3. stack[1].index >= Len(Sleeping) /\ ~(n > 1)
      <4>1. Top.index >= Len(Sleeping)
        BY <3>1, <3>2, <1>1, <1>4, PowerPrograms, Positions
      <4> QED  BY <4>1, <2>1, <1>1
    <3> QED  BY <3>3, <1>1 DEF Placement, PowerInv, SleepingDrains
  <2>2. CASE n > 1
    <3>1. 2 \in 1..n /\ stack'[2].kind = stack[2].kind /\ stack'[1].index = stack[1].index
      BY <2>2, <1>1, <1>8, <1>10
    <3> QED  BY <3>1, <1>1 DEF Placement, PowerInv, SleepingDrains
  <2>3. n = 1 \/ n > 1
    BY <1>1, OneOrMore
  <2> QED  BY <2>1, <2>2, <2>3
<1> QED  BY <1>1, <1>7, <1>9, <1>10, <1>11, OtherStep DEF Placement, SamePending

\* The work loop starts processRequestQueue.
LEMMA StartPlaces ==
  ASSUME Placement, checkForWork
  PROVE  LinkInv' /\ PowerInv' /\ SamePending
<1>1. /\ Len(stack) = 0 /\ powerStep = "idle" /\ Push(TakeFrame(<<>>))
      /\ \A r \in RequestsOf(Sleeping) : ~Pending(r)
      /\ UNCHANGED <<requestQueue, powerTarget, powerStep, currentPowerState, hardwareOffline>>
  BY FreeGate DEF checkForWork, powerVars
<1>2. TakeFrame(<<>>) \in Frame /\ TakeFrame(<<>>).kind = "take" /\ TakeFrame(<<>>).local = <<>>
  BY NewFrames, EmptySeq DEF TakeFrame
<1>3. LinkInv' /\ \A r : Pending(r)' <=> Pending(r)
  BY <1>1, <1>2, PushLinks DEF Placement
<1>4. Len(stack') = 1 /\ stack'[1].kind = "take"
  BY <1>1, <1>2, StackFacts, PushFrame DEF Push, Placement, ServiceInv
<1>5. PowerPhase'
  BY <1>1 DEF Placement, PowerInv, PowerPhase
<1>6. PowerRoutines'
  BY <1>1, <1>4 DEF PowerRoutines, Runs
<1>7. SleepingRuns'
  BY <1>1, <1>3 DEF SleepingRuns
<1>8. SleepingDrains'
  BY <1>4 DEF SleepingDrains, Runs
<1>9. AsleepDrained'
  BY <1>1 DEF Placement, PowerInv, AsleepDrained, NotQueued, InQueue
<1> QED  BY <1>3, <1>5, <1>6, <1>7, <1>8, <1>9 DEF PowerInv, SamePending

\* An interrupt routine starts, inside a request if the gate is taken.
LEMMA DispatchPlaces ==
  ASSUME Placement, NEW prog \in IntrRoutines, dispatchDriverInterrupt(prog)
  PROVE  LinkInv' /\ PowerInv' /\ SamePending
<1> DEFINE n == Len(stack)
           f == RoutineFrame(prog)
<1>1. /\ n \in Nat /\ prog \in Program /\ prog \in DriverPrograms
      /\ prog # Sleeping /\ prog # Waking
      /\ Push(f) /\ Preemptible
      /\ UNCHANGED <<requestQueue, powerTarget, powerStep, currentPowerState, hardwareOffline>>
      /\ owner' = owner \/ owner = "none"
      /\ \A r \in RequestsOf(prog) : ~Pending(r)
      /\ \A d \in 1..n : ~Runs(stack[d], prog)
  BY StackFacts, ConstantsAssumption, DriversAssumption
  DEF Placement, ServiceInv, dispatchDriverInterrupt, powerVars, DriverPrograms, Free, Runs, Depth
<1>2. f \in Frame /\ f.kind = "routine" /\ f.ops = prog /\ f.local = <<>>
  BY <1>1, NewFrames DEF RoutineFrame
<1> HIDE DEF f
<1>3. LinkInv' /\ \A r : Pending(r)' <=> Pending(r)
  BY <1>1, <1>2, PushLinks DEF Placement
<1>4. /\ Len(stack') = n + 1 /\ stack'[n + 1] = f
      /\ \A d \in 1..n : stack'[d] = stack[d]
  BY <1>1, <1>2, StackFacts, PushFrame DEF Push, Placement, ServiceInv
<1>5. /\ \A r : InQueue(r)' <=> InQueue(r)
      /\ owner' = owner \/ powerStep = "idle"
      /\ n + 1 \in Nat /\ n + 1 > 0
  BY <1>1, FreeGate DEF InQueue
<1>6. ASSUME NEW d \in 1..(n + 1), NEW p \in {Sleeping, Waking}, Runs(stack'[d], p)
      PROVE  d \in 1..n /\ Runs(stack[d], p)
  <2>1. d # n + 1
    BY <1>1, <1>2, <1>4, <1>6 DEF Runs
  <2>2. d \in 1..n
    BY <2>1, <1>1
  <2> QED  BY <2>2, <1>4, <1>6
<1>7. n > 0 => 1 \in 1..n
  BY <1>1
<1>8. powerStep = "disable" => n > 0
  BY <1>1, FreeGate DEF Preemptible, InRequest, Depth
<1>9. SleepingDrains'
  <2> SUFFICES ASSUME Runs(stack'[1], Sleeping), stack'[1].index >= Len(Sleeping)
               PROVE  \/ n + 1 > 1 /\ stack'[2].kind = "take"
                      \/ NotQueued(Sleeping) /\ NotQueued(Waking)
    BY <1>4, <1>5 DEF SleepingDrains, NotQueued, Runs
  <2>1. 1 \in 1..n /\ Runs(stack[1], Sleeping) /\ stack'[1] = stack[1]
    BY <1>1, <1>4, <1>6
  <2>2. CASE n > 1
    <3>1. 2 \in 1..n
      BY <2>2, <1>1
    <3> QED  BY <3>1, <2>1, <2>2, <1>1, <1>4 DEF Placement, PowerInv, SleepingDrains
  <2>3. CASE n = 1
    BY <2>1, <2>3, <1>1 DEF Placement, PowerInv, SleepingDrains
  <2>4. n = 1 \/ n > 1
    <3>1. n > 0
      BY <2>1, <1>1
    <3> QED  BY <3>1, <1>1, OneOrMore
  <2> QED  BY <2>2, <2>3, <2>4
<1> QED  BY <1>1, <1>3, <1>4, <1>5, <1>6, <1>7, <1>8, <1>9, OtherStep DEF Placement, SamePending

\* A power change starts its routine on an empty stack.
LEMMA StartRoutine ==
  ASSUME Placement, Len(stack) = 0, NEW prog \in {Sleeping, Waking}, Push(RoutineFrame(prog)),
         UNCHANGED requestQueue, \A r \in RequestsOf(prog) : ~InQueue(r)
  PROVE  /\ LinkInv'
         /\ \A r : InQueue(r)' <=> InQueue(r)
         /\ \A r : Pending(r)' <=> Pending(r)
         /\ Len(stack') = 1 /\ stack'[1] = RoutineFrame(prog) /\ Runs(stack'[1], prog)
         /\ stack'[1].index = 1
<1> DEFINE f == RoutineFrame(prog)
<1>1. prog \in Program /\ prog \in DriverPrograms
  BY PowerPrograms
<1>2. f \in Frame /\ f.kind = "routine" /\ f.ops = prog /\ f.local = <<>> /\ f.index = 1
  BY <1>1, NewFrames DEF RoutineFrame
<1> HIDE DEF f
<1>3. \A r \in RequestsOf(prog) : ~Pending(r)
  BY DEF Pending, InFrame
<1>4. LinkInv' /\ \A r : Pending(r)' <=> Pending(r)
  BY <1>1, <1>2, <1>3, PushLinks DEF Placement, f
<1>5. Len(stack') = 1 /\ stack'[1] = f
  BY <1>2, StackFacts, PushFrame DEF Push, Placement, ServiceInv, f
<1> QED  BY <1>2, <1>4, <1>5 DEF f, InQueue, Runs

\* A thread that runs the power change call gets the gate.
LEMMA CalloutPlaces ==
  ASSUME Placement, NEW t \in Callout, setPowerStateCallout(t)
  PROVE  LinkInv' /\ PowerInv' /\ SamePending
<1>1. /\ Len(stack) = 0 /\ powerStep = "idle" /\ owner = "none"
      /\ \A r \in RequestsOf(Sleeping) : ~Pending(r)
      /\ UNCHANGED <<requestQueue, hardwareOffline>>
  BY FreeGate DEF setPowerStateCallout
<1>2. UNCHANGED stack => SamePending
  BY <1>1 DEF SamePending, Pending, InQueue, InFrame
<1>3. CASE UNCHANGED <<stack, owner, currentPowerState, powerTarget, powerStep>>
  <2>1. LinkInv'
    BY <1>1, <1>3 DEF Placement, LinkInv, PendingOnce, RoutinesApart, AsyncUnused, SyncAbove,
                      Pending, InQueue, InFrame
  <2>2. PowerInv'
    BY <1>1, <1>3 DEF Placement, PowerInv, PowerPhase, PowerRoutines, SleepingRuns, SleepingDrains,
                      AsleepDrained, NotQueued, Pending, InQueue, InFrame
  <2> QED  BY <1>2, <1>3, <2>1, <2>2
<1>4. CASE /\ currentPowerState # "Sleep" /\ currentPowerState' # "Sleep"
           /\ UNCHANGED <<stack, owner, powerTarget, powerStep>>
  <2>1. LinkInv'
    BY <1>1, <1>4 DEF Placement, LinkInv, PendingOnce, RoutinesApart, AsyncUnused, SyncAbove,
                      Pending, InQueue, InFrame
  <2>2. PowerPhase' /\ PowerRoutines' /\ SleepingRuns' /\ SleepingDrains' /\ AsleepDrained'
    BY <1>1, <1>4 DEF Placement, PowerInv, PowerPhase, PowerRoutines, SleepingRuns, SleepingDrains,
                      AsleepDrained, NotQueued, Pending, InQueue, InFrame
  <2> QED  BY <1>2, <1>4, <2>1, <2>2 DEF PowerInv
<1>5. CASE /\ currentPowerState = "Sleep" /\ powerTarget' # "Sleep" /\ owner' = "power"
           /\ powerStep' = "port" /\ UNCHANGED <<currentPowerState, stack>>
  <2>1. LinkInv'
    BY <1>1, <1>5 DEF Placement, LinkInv, PendingOnce, RoutinesApart, AsyncUnused, SyncAbove,
                      Pending, InQueue, InFrame
  <2>2. PowerPhase' /\ PowerRoutines' /\ SleepingRuns' /\ SleepingDrains' /\ AsleepDrained'
    BY <1>1, <1>5 DEF Placement, PowerInv, PowerPhase, PowerRoutines, SleepingRuns, SleepingDrains,
                      AsleepDrained, NotQueued, Pending, InQueue, InFrame
  <2> QED  BY <1>2, <1>5, <2>1, <2>2 DEF PowerInv
<1>6. CASE /\ currentPowerState # "Sleep" /\ powerTarget' = "Sleep" /\ owner' = "power"
           /\ powerStep' = "disable" /\ Push(RoutineFrame(Sleeping)) /\ UNCHANGED currentPowerState
  <2>1. /\ LinkInv' /\ SamePending
        /\ Len(stack') = 1 /\ Runs(stack'[1], Sleeping) /\ stack'[1].index = 1
    BY <1>1, <1>6, StartRoutine DEF Pending, SamePending
  <2>2. PowerPhase'
    BY <1>1, <1>6 DEF Placement, PowerInv, PowerPhase
  <2>3. Sleeping # Waking
    BY DriversAssumption
  <2>4. PowerRoutines'
    BY <2>1, <2>3, <1>6 DEF PowerRoutines, Runs
  <2>5. SleepingRuns'
    BY <2>1 DEF SleepingRuns, Runs
  <2>6. ~(1 >= Len(Sleeping))
    BY PowerPrograms
  <2>7. SleepingDrains'
    BY <2>1, <2>6 DEF SleepingDrains
  <2>8. AsleepDrained'
    BY <2>1, <1>6 DEF AsleepDrained
  <2> QED  BY <2>1, <2>2, <2>4, <2>5, <2>7, <2>8 DEF PowerInv
<1>7. Sleeping = dispatchDriverPowerControl(MouseDisable, KeyboardDisable)
  BY PowerPrograms
<1> QED  BY <1>3, <1>4, <1>5, <1>6, <1>7 DEF setPowerStateCallout, setPowerStateGated

\* The hardware goes offline; it comes back; the change is recorded.
LEMMA PhasePlaces ==
  ASSUME Placement, freezeRequests \/ unblockRequests \/ acknowledgeWake
  PROVE  LinkInv' /\ PowerInv' /\ SamePending
<1>1. Len(stack) = 0 /\ UNCHANGED requestQueue /\ owner = "power"
  <2>1. Len(stack) \in Nat
    BY StackFacts DEF Placement, ServiceInv
  <2> QED  BY <2>1 DEF freezeRequests, unblockRequests, acknowledgeWake, Depth
<1>2. \A r \in RequestsOf(Sleeping) : ~Pending(r)
  BY <1>1 DEF Placement, PowerInv, SleepingRuns
<1>3. CASE freezeRequests \/ acknowledgeWake
  <2>1. UNCHANGED stack /\ powerStep' = "idle"
    BY <1>3 DEF freezeRequests, acknowledgeWake
  <2>2. LinkInv'
    BY <1>1, <2>1 DEF Placement, LinkInv, PendingOnce, RoutinesApart, AsyncUnused, SyncAbove,
                      Pending, InQueue, InFrame
  <2>3. PowerPhase'
    BY <1>3 DEF Placement, PowerInv, PowerPhase, freezeRequests, acknowledgeWake
  <2>4. PowerRoutines' /\ SleepingDrains'
    BY <1>1, <2>1 DEF PowerRoutines, SleepingDrains
  <2>5. SleepingRuns'
    BY <1>1, <1>2, <2>1 DEF SleepingRuns, Pending, InQueue, InFrame
  <2>6. AsleepDrained'
    BY <1>1, <1>3, <2>1
    DEF Placement, PowerInv, AsleepDrained, NotQueued, InQueue, PowerPhase, freezeRequests,
        acknowledgeWake
  <2>7. SamePending
    BY <1>1, <2>1 DEF SamePending, Pending, InQueue, InFrame
  <2> QED  BY <2>2, <2>3, <2>4, <2>5, <2>6, <2>7 DEF PowerInv
<1>4. CASE unblockRequests
  <2>1. /\ powerStep = "port" /\ powerStep' = "enable" /\ hardwareOffline' = FALSE
        /\ UNCHANGED <<owner, currentPowerState, powerTarget>>
        /\ Push(RoutineFrame(Waking))
    BY <1>4, PowerPrograms DEF unblockRequests
  <2>2. \A r \in RequestsOf(Waking) : ~InQueue(r)
    BY <2>1 DEF Placement, PowerInv, PowerPhase, AsleepDrained, NotQueued
  <2>3. /\ LinkInv'
        /\ \A r : Pending(r)' <=> Pending(r)
        /\ Len(stack') = 1 /\ Runs(stack'[1], Waking)
    BY <1>1, <2>1, <2>2, StartRoutine
  <2>4. PowerPhase'
    BY <1>1, <2>1 DEF Placement, PowerInv, PowerPhase
  <2>5. Sleeping # Waking
    BY DriversAssumption
  <2>6. PowerRoutines' /\ SleepingDrains'
    BY <2>1, <2>3, <2>5 DEF PowerRoutines, SleepingDrains, Runs
  <2>7. SleepingRuns'
    BY <1>2, <2>3 DEF SleepingRuns
  <2>8. AsleepDrained'
    BY <2>1 DEF AsleepDrained
  <2> QED  BY <2>3, <2>4, <2>6, <2>7, <2>8 DEF PowerInv, SamePending
<1> QED  BY <1>3, <1>4

\* Processing a request, without completing it.
LEMMA ProceedPlaces ==
  ASSUME Placement, Depth > 0, Top.kind \in {"queue", "request"}, NEW i \in Nat,
         SetTop([Top EXCEPT !.kind = "request", !.index = i]),
         UNCHANGED <<requestQueue, owner, powerVars>>
  PROVE  LinkInv' /\ PowerInv' /\ SamePending
<1> DEFINE f == [Top EXCEPT !.kind = "request", !.index = i]
<1>1. Top \in Frame /\ Top = stack[Len(stack)] /\ Len(stack) > 0 /\ Len(stack) \in 1..Len(stack)
  <2>1. Len(stack) \in Nat /\ Len(stack) > 0 /\ Top = stack[Len(stack)]
    BY StackFacts DEF Placement, ServiceInv, Depth, Top
  <2>2. Len(stack) \in 1..Len(stack)
    BY <2>1
  <2> QED  BY <2>1, <2>2, StackFacts DEF Placement, ServiceInv
<1>2. f \in Frame /\ f.local = Top.local /\ f.kind = "request"
  BY <1>1 DEF Frame
<1> HIDE DEF f
<1>3. /\ LinkInv'
      /\ \A r : InQueue(r)' <=> InQueue(r)
      /\ \A r : Pending(r)' <=> Pending(r)
      /\ Len(stack') = Len(stack)
      /\ \A d \in 1..Len(stack) : stack'[d] = IF d = Len(stack) THEN f ELSE stack[d]
  BY <1>2, UpdateLinks DEF Placement, f
<1>4. stack'[Len(stack)].kind # "routine" /\ stack[Len(stack)].kind \notin {"routine", "take"}
  BY <1>1, <1>2, <1>3
<1>5. \A d \in 1..(Len(stack) - 1) : stack'[d] = stack[d]
  <2>1. Len(stack) \in Nat
    BY StackFacts DEF Placement, ServiceInv
  <2>2. \A d \in 1..(Len(stack) - 1) : d \in 1..Len(stack) /\ d # Len(stack)
    BY <2>1
  <2> QED  BY <2>2, <1>3
<1> QED  BY <1>1, <1>3, <1>4, <1>5, WorkPlaces DEF powerVars, SamePending

\* Completing a request.
LEMMA CompletePlaces ==
  ASSUME Placement, Depth > 0, Top.kind \in {"queue", "request"}, Top.local # <<>>,
         NEW all \in BOOLEAN, completeRequest(all)
  PROVE  LinkInv' /\ PowerInv'
<1>1. /\ LinkInv'
      /\ \A r : InQueue(r)' <=> InQueue(r)
      /\ \A r : Pending(r)' => Pending(r)
  BY CompleteLinks DEF Placement
<1>2. /\ Len(stack') = Len(stack) /\ stack'[Len(stack)].kind = "queue"
      /\ \A d \in 1..(Len(stack) - 1) : /\ stack'[d].kind = stack[d].kind
                                        /\ stack'[d].ops = stack[d].ops
                                        /\ stack'[d].index = stack[d].index
  BY CompletionEffect DEF Placement, ServiceInv
<1>3. /\ Len(stack) > 0 /\ stack[Len(stack)].kind \notin {"routine", "take"}
      /\ UNCHANGED <<owner, powerTarget, powerStep, currentPowerState, hardwareOffline>>
  BY DEF Depth, Top, completeRequest, powerVars
<1> QED  BY <1>1, <1>2, <1>3, WorkPlaces

\* Every step keeps every request in one place.
LEMMA StepPlaces ==
  ASSUME Placement, [Next]_vars
  PROVE  LinkInv' /\ PowerInv'
<1>1. CASE UNCHANGED <<requestQueue, stack, owner, powerTarget, powerStep, currentPowerState,
                       hardwareOffline>>
  <2>1. LinkInv'
    <3>1. \A r : (InQueue(r)' <=> InQueue(r)) /\ (InFrame(r)' <=> InFrame(r))
      BY <1>1 DEF InQueue, InFrame
    <3>2. PendingOnce'
      BY <1>1, <3>1 DEF Placement, LinkInv, PendingOnce
    <3>3. RoutinesApart'
      BY <1>1 DEF Placement, LinkInv, RoutinesApart
    <3>4. AsyncUnused' /\ SyncAbove'
      BY <1>1, <3>1 DEF Placement, LinkInv, AsyncUnused, SyncAbove, Pending
    <3> QED  BY <3>2, <3>3, <3>4 DEF LinkInv
  <2>2. PowerInv'
    BY <1>1 DEF Placement, PowerInv, PowerPhase, PowerRoutines, SleepingRuns, SleepingDrains,
                AsleepDrained, NotQueued, Pending, InQueue, InFrame
  <2> QED  BY <2>1, <2>2
<1>2. ASSUME NEW r \in Request, submitRequest(r) \/ submitRequestAndBlock(r)
      PROVE  LinkInv' /\ PowerInv'
  BY <1>2, EnqueuePlaces DEF submitRequest, submitRequestAndBlock
<1>3. CASE \E r \in Request : signalQueueSource(r)
  BY <1>3, <1>1 DEF signalQueueSource, powerVars
<1>4. CASE beginRequest
  <2>1. CASE hardwareOffline
    BY <2>1, <1>4, CompletePlaces DEF beginRequest
  <2>2. CASE ~hardwareOffline
    <3>1. PICK i \in Nat : i = 1
      OBVIOUS
    <3>2. /\ SetTop([Top EXCEPT !.kind = "request", !.index = i])
          /\ Depth > 0 /\ Top.kind \in {"queue", "request"}
          /\ UNCHANGED <<requestQueue, owner, powerVars>>
      BY <3>1, <2>2, <1>4 DEF beginRequest
    <3> QED  BY <3>1, <3>2, ProceedPlaces, Zenon
  <2> QED  BY <2>1, <2>2
<1>5. CASE commandSucceeds \/ commandFails
  <2>1. /\ Depth > 0 /\ Top.kind = "request" /\ Top \in Frame /\ Top.index \in Nat
        /\ Top.local # <<>>
    <3>1. Len(stack) \in Nat /\ Len(stack) > 0 /\ Top = stack[Len(stack)] /\ Top.kind = "request"
          /\ Depth > 0
      BY <1>5, StackFacts DEF commandSucceeds, commandFails, InRequest, Depth, Top, Placement, ServiceInv
    <3>2. Len(stack) \in 1..Len(stack)
      BY <3>1
    <3> QED  BY <3>1, <3>2, StackFacts DEF Placement, ServiceInv, FrameOK
  <2>2. CASE completeRequest(TRUE) \/ completeRequest(FALSE)
    BY <2>1, <2>2, CompletePlaces
  <2>3. CASE /\ SetTop([Top EXCEPT !.index = Top.index + 1])
             /\ UNCHANGED <<requestQueue, owner, powerVars>>
    <3>1. [Top EXCEPT !.index = Top.index + 1] = [Top EXCEPT !.kind = "request", !.index = Top.index + 1]
      BY <2>1 DEF Frame
    <3>2. PICK i \in Nat : i = Top.index + 1
      BY <2>1
    <3>3. SetTop([Top EXCEPT !.kind = "request", !.index = i])
      BY <3>1, <3>2, <2>3
    <3>4. Depth > 0 /\ Top.kind \in {"queue", "request"}
      BY <2>1
    <3> QED  BY <3>2, <3>3, <3>4, <2>3, ProceedPlaces, Zenon
  <2> QED  BY <2>2, <2>3, <1>5 DEF commandSucceeds, commandFails
<1>6. ASSUME NEW prog \in IntrRoutines, dispatchDriverInterrupt(prog) PROVE LinkInv' /\ PowerInv'
  BY <1>6, DispatchPlaces
<1>7. CASE (\E s \in PowerState : setPowerState(s)) \/ (\E t \in Callout : enterCallout(t))
  BY <1>7, <1>1 DEF setPowerState, enterCallout
<1>8. CASE UNCHANGED vars
  BY <1>8, <1>1 DEF vars
<1> QED
  BY <1>2, <1>3, <1>4, <1>5, <1>6, <1>7, <1>8, TakePlaces, PopPlaces, SubmitPlaces, BlockPlaces,
     TestPlaces, StartPlaces, CalloutPlaces, PhasePlaces
  DEF Next, InGate

-----------------------------------------------------------------------------
(* Theorems about the places of requests.                                  *)

\* In every state each request is where the routines that use it expect it.
THEOREM PlacementHolds == Spec => []Placement
<1>1. Init => LinkInv /\ PowerInv
  <2> SUFFICES ASSUME Init PROVE LinkInv /\ PowerInv
    OBVIOUS
  <2>1. Len(stack) = 0 /\ Len(requestQueue) = 0
    BY EmptySeq DEF Init
  <2>2. \A r : ~InQueue(r) /\ ~InFrame(r) /\ ~Pending(r)
    BY <2>1 DEF InQueue, InFrame, Pending
  <2>3. LinkInv
    BY <2>1, <2>2 DEF LinkInv, PendingOnce, RoutinesApart, AsyncUnused, SyncAbove
  <2>4. PowerPhase
    BY DEF Init, PowerPhase
  <2>5. PowerRoutines /\ SleepingRuns /\ SleepingDrains /\ AsleepDrained
    BY <2>1, <2>2 DEF Init, PowerRoutines, SleepingRuns, SleepingDrains, AsleepDrained, NotQueued
  <2> QED  BY <2>3, <2>4, <2>5 DEF PowerInv
<1>2. Init => ServiceInv
  BY InitEstablishes
<1>3. Placement /\ [Next]_vars => LinkInv' /\ PowerInv'
  BY StepPlaces
<1>4. ServiceInv /\ [Next]_vars => ServiceInv'
  BY StepPreserves
<1>5. Placement <=> ServiceInv /\ LinkInv /\ PowerInv
  BY DEF Placement
<1> QED  BY <1>1, <1>2, <1>3, <1>4, <1>5, PTL DEF Spec

\* A request structure is in one queue at a time, once, whatever the interrupt
\* routines and the power control routines submit from inside the gate: its one
\* chain field is never used twice.
THEOREM RequestsLinkedOnce == Spec => []PendingOnce
<1>1. Placement => PendingOnce
  BY DEF Placement, LinkInv
<1> QED  BY <1>1, PlacementHolds, PTL

\* When the hardware goes offline, all that the drivers submitted on the way to
\* sleep has been carried out: the command byte loop of the last driver has drained
\* the queue.
THEOREM SleepIsDrained == Spec => []SleepDrained
<1>1. RequestsOf(Sleeping) = RequestsOf(MouseDisable) \cup RequestsOf(KeyboardDisable)
  <2>1. MouseDisable \in Seq(Op) /\ KeyboardDisable \in Seq(Op) /\ Sleeping \in Seq(Op)
    BY ConstantsAssumption, PowerPrograms DEF Program
  <2> DEFINE m == Len(MouseDisable)
             n == Len(KeyboardDisable)
  <2>2. /\ DOMAIN MouseDisable = 1..m /\ DOMAIN KeyboardDisable = 1..n /\ m \in Nat /\ n \in Nat
        /\ DOMAIN Sleeping = 1..(m + n)
        /\ \A i \in 1..(m + n) :
             Sleeping[i] = IF i <= m THEN MouseDisable[i] ELSE KeyboardDisable[i - m]
    BY <2>1, LenProperties, ConcatProperties DEF Sleeping
  <2>3. ASSUME NEW k \in 1..m PROVE k \in 1..(m + n) /\ Sleeping[k] = MouseDisable[k]
    BY <2>2
  <2>4. ASSUME NEW k \in 1..n PROVE k + m \in 1..(m + n) /\ Sleeping[k + m] = KeyboardDisable[k]
    <3>1. k + m \in 1..(m + n) /\ ~(k + m <= m) /\ (k + m) - m = k
      BY <2>2
    <3> QED  BY <3>1, <2>2
  <2>5. ASSUME NEW k \in 1..(m + n)
        PROVE  \/ k \in 1..m /\ Sleeping[k] = MouseDisable[k]
               \/ k - m \in 1..n /\ Sleeping[k] = KeyboardDisable[k - m]
    BY <2>2
  <2> HIDE DEF m, n
  <2> QED  BY <2>2, <2>3, <2>4, <2>5 DEF RequestsOf
<1>2. Placement => SleepDrained
  BY <1>1, StackFacts DEF Placement, PowerInv, SleepDrained, SleepingRuns, PowerRoutines, PowerPhase, ServiceInv
<1> QED  BY <1>2, PlacementHolds, PTL

-----------------------------------------------------------------------------
(* The controller implements the request service.                          *)

\* The set the refinement mapping hands to the abstract service.
PendingSet == \A r : r \in PendingRequests <=> Pending(r)

LEMMA PendingSetHolds == TypeInv => PendingSet
<1> SUFFICES ASSUME TypeInv, NEW r PROVE r \in PendingRequests <=> Pending(r)
  BY DEF PendingSet
<1>1. DOMAIN requestQueue = 1..Len(requestQueue) /\ DOMAIN stack = 1..Len(stack)
  BY StackFacts, LenProperties
<1>2. \A d \in 1..Len(stack) : DOMAIN stack[d].local = 1..Len(stack[d].local)
  BY StackFacts, LenProperties
<1>3. r \in {requestQueue[k] : k \in DOMAIN requestQueue} <=> InQueue(r)
  BY <1>1 DEF InQueue
<1>4. r \in UNION {{f.local[k] : k \in DOMAIN f.local} : f \in {stack[d] : d \in DOMAIN stack}}
        <=> \E d \in DOMAIN stack : \E k \in DOMAIN stack[d].local : r = stack[d].local[k]
  OBVIOUS
<1>5. InFrame(r) <=> \E d \in DOMAIN stack : \E k \in DOMAIN stack[d].local : r = stack[d].local[k]
  BY <1>1, <1>2 DEF InFrame
<1> QED  BY <1>3, <1>4, <1>5 DEF PendingRequests, Pending

\* What a step does to the requests of the controller: nothing, or one is submitted
\* that it did not have, or one is completed that it had.
SubmitEffect(r) ==
  /\ r \in Request /\ ~Pending(r)
  /\ \A q : Pending(q)' <=> Pending(q) \/ q = r
  /\ waiting' \in {waiting, waiting \cup {r}}

CompleteEffect(r) ==
  /\ r \in Request /\ Pending(r)
  /\ \A q : Pending(q)' <=> Pending(q) /\ q # r
  /\ waiting' = waiting \ {r}

ServiceMove ==
  \/ SamePending /\ waiting' = waiting
  \/ \E r : SubmitEffect(r)
  \/ \E r : CompleteEffect(r)

\* The completion of the request at the head of the innermost local queue.
LEMMA CompletionServes ==
  ASSUME Placement, Depth > 0, Top.local # <<>>, NEW all \in BOOLEAN, completeRequest(all)
  PROVE  ServiceMove
<1>0. PICK r : r = Head(Top.local)
  OBVIOUS
<1>1. /\ r \in Request /\ Pending(r)
      /\ \A q : Pending(q)' <=> Pending(q) /\ q # r
  BY <1>0, CompleteLinks DEF Placement
<1>2. waiting' = waiting \ {r}
  BY <1>0 DEF completeRequest
<1>3. CompleteEffect(r)
  BY <1>1, <1>2 DEF CompleteEffect
<1> QED  BY <1>3 DEF ServiceMove

\* Every step of the controller is a step of the service or none.
LEMMA StepServes ==
  ASSUME Placement, [Next]_vars
  PROVE  ServiceMove
<1>1. CASE UNCHANGED <<requestQueue, stack, waiting>>
  BY <1>1 DEF ServiceMove, SamePending, Pending, InQueue, InFrame
<1>2. ASSUME NEW r \in Request, submitRequest(r) \/ submitRequestAndBlock(r)
      PROVE  ServiceMove
  <2>1. r \in ThreadAsync \cup ThreadSync /\ enqueueRequest(r)
        /\ waiting' \in {waiting, waiting \cup {r}}
    BY <1>2 DEF submitRequest, submitRequestAndBlock
  <2>2. ~Pending(r) /\ \A q : Pending(q)' <=> Pending(q) \/ q = r
    BY <2>1, EnqueueLinks DEF Placement
  <2>3. SubmitEffect(r)
    BY <2>1, <2>2 DEF SubmitEffect
  <2> QED  BY <2>3 DEF ServiceMove
<1>3. CASE gatedSubmitRequest \/ gatedSubmitRequestAndBlock
  <2>0. PICK r : r = NextOp.req
    OBVIOUS
  <2>1. r \in Request /\ ~Pending(r) /\ \A q : Pending(q)' <=> Pending(q) \/ q = r
    BY <2>0, <1>3, SubmitLinks, BlockLinks DEF Placement
  <2>2. waiting' = waiting
    BY <1>3 DEF gatedSubmitRequest, gatedSubmitRequestAndBlock
  <2>3. SubmitEffect(r)
    BY <2>1, <2>2 DEF SubmitEffect
  <2> QED  BY <2>3 DEF ServiceMove
<1>4. CASE beginRequest
  <2>1. Depth > 0 /\ Top.kind \in {"queue", "request"} /\ Top.local # <<>>
    BY <1>4 DEF beginRequest
  <2>2. CASE hardwareOffline
    BY <2>1, <2>2, <1>4, CompletionServes DEF beginRequest
  <2>3. CASE ~hardwareOffline
    <3>1. PICK i \in Nat : i = 1
      OBVIOUS
    <3>2. /\ SetTop([Top EXCEPT !.kind = "request", !.index = i])
          /\ UNCHANGED <<requestQueue, owner, powerVars>> /\ waiting' = waiting
      BY <3>1, <2>3, <1>4 DEF beginRequest
    <3>3. SamePending
      BY <3>1, <3>2, <2>1, ProceedPlaces, Zenon
    <3> QED  BY <3>2, <3>3 DEF ServiceMove
  <2> QED  BY <2>2, <2>3
<1>5. CASE commandSucceeds \/ commandFails
  <2>1. /\ Depth > 0 /\ Top.kind \in {"queue", "request"} /\ Top.kind = "request"
        /\ Top \in Frame /\ Top.index \in Nat /\ Top.local # <<>>
    <3>1. Len(stack) \in Nat /\ Len(stack) > 0 /\ Top = stack[Len(stack)] /\ Top.kind = "request"
          /\ Depth > 0
      BY <1>5, StackFacts DEF commandSucceeds, commandFails, InRequest, Depth, Top, Placement, ServiceInv
    <3>2. Len(stack) \in 1..Len(stack)
      BY <3>1
    <3> QED  BY <3>1, <3>2, StackFacts DEF Placement, ServiceInv, FrameOK
  <2>2. CASE completeRequest(TRUE) \/ completeRequest(FALSE)
    BY <2>1, <2>2, CompletionServes
  <2>3. CASE /\ SetTop([Top EXCEPT !.index = Top.index + 1])
             /\ UNCHANGED <<requestQueue, owner, powerVars>> /\ waiting' = waiting
    <3>1. [Top EXCEPT !.index = Top.index + 1] = [Top EXCEPT !.kind = "request", !.index = Top.index + 1]
      BY <2>1 DEF Frame
    <3>2. PICK i \in Nat : i = Top.index + 1
      BY <2>1
    <3>3. SetTop([Top EXCEPT !.kind = "request", !.index = i])
      BY <3>1, <3>2, <2>3
    <3>4. SamePending
      BY <3>2, <3>3, <2>1, <2>3, ProceedPlaces, Zenon
    <3> QED  BY <3>4, <2>3 DEF ServiceMove
  <2> QED  BY <2>2, <2>3, <1>5 DEF commandSucceeds, commandFails
<1>6. CASE takeQueue \/ leaveQueue \/ returnFromRoutine \/ testCommandsCount \/ checkForWork
  <2>1. SamePending
    BY <1>6, TakePlaces, PopPlaces, TestPlaces, StartPlaces
  <2>2. waiting' = waiting
    BY <1>6 DEF takeQueue, leaveQueue, returnFromRoutine, testCommandsCount, checkForWork
  <2> QED  BY <2>1, <2>2 DEF ServiceMove
<1>7. CASE freezeRequests \/ unblockRequests \/ acknowledgeWake
  <2>1. SamePending
    BY <1>7, PhasePlaces
  <2>2. waiting' = waiting
    BY <1>7 DEF freezeRequests, unblockRequests, acknowledgeWake
  <2> QED  BY <2>1, <2>2 DEF ServiceMove
<1>8. ASSUME NEW prog \in IntrRoutines, dispatchDriverInterrupt(prog) PROVE ServiceMove
  <2>1. SamePending
    BY <1>8, DispatchPlaces
  <2>2. waiting' = waiting
    BY <1>8 DEF dispatchDriverInterrupt
  <2> QED  BY <2>1, <2>2 DEF ServiceMove
<1>9. CASE (\E r \in Request : signalQueueSource(r)) \/ (\E s \in PowerState : setPowerState(s))
  BY <1>9, <1>1 DEF signalQueueSource, setPowerState
<1>10. CASE UNCHANGED vars
  BY <1>10, <1>1 DEF vars
<1>11. ASSUME NEW t \in Callout, setPowerStateCallout(t) PROVE ServiceMove
  <2>1. SamePending
    BY <1>11, CalloutPlaces
  <2>2. waiting' = waiting
    BY <1>11 DEF setPowerStateCallout
  <2> QED  BY <2>1, <2>2 DEF ServiceMove
<1>12. ASSUME NEW t \in Callout, enterCallout(t) PROVE ServiceMove
  BY <1>12, <1>1 DEF enterCallout
<1> QED
  BY <1>2, <1>3, <1>4, <1>5, <1>6, <1>7, <1>8, <1>9, <1>10, <1>11, <1>12
  DEF Next, InGate

\* The controller implements the request service: behind queues, nested activations,
\* sleep and wake-up, a request is submitted when the controller does not have
\* it, completed when it does, and a thread is woken by its own completion only.
THEOREM ServiceImplemented == Spec => ImplementsService
<1>1. Init => Service!Init
  <2> SUFFICES ASSUME Init PROVE PendingRequests = {} /\ waiting = {}
    BY DEF Service!Init
  <2>1. requestQueue = <<>> /\ stack = <<>> /\ waiting = {}
    BY DEF Init
  <2>2. DOMAIN requestQueue = {} /\ DOMAIN stack = {}
    BY <2>1
  <2> QED  BY <2>1, <2>2 DEF PendingRequests
<1>2. Placement /\ PendingSet /\ PendingSet' /\ [Next]_vars => [Service!Next]_(Service!serviceVars)
  <2> SUFFICES ASSUME Placement, PendingSet, PendingSet', [Next]_vars
               PROVE  Service!Next \/ (PendingRequests' = PendingRequests /\ waiting' = waiting)
    BY DEF Service!serviceVars
  <2>1. CASE SamePending /\ waiting' = waiting
    BY <2>1 DEF PendingSet, SamePending
  <2>2. ASSUME NEW r, SubmitEffect(r) PROVE Service!Next
    <3>1. r \in Request \ PendingRequests
      BY <2>2 DEF SubmitEffect, PendingSet
    <3>2. PendingRequests' = PendingRequests \cup {r}
      BY <2>2 DEF SubmitEffect, PendingSet
    <3>3. Service!Submit(r)
      BY <3>2, <2>2 DEF Service!Submit, SubmitEffect
    <3> QED  BY <3>1, <3>3 DEF Service!Next
  <2>3. ASSUME NEW r, CompleteEffect(r) PROVE Service!Next
    <3>1. r \in PendingRequests
      BY <2>3 DEF CompleteEffect, PendingSet
    <3>2. PendingRequests' = PendingRequests \ {r}
      BY <2>3 DEF CompleteEffect, PendingSet
    <3>3. Service!Complete(r)
      BY <3>2, <2>3 DEF Service!Complete, CompleteEffect
    <3> QED  BY <3>1, <3>3 DEF Service!Next
  <2> QED  BY <2>1, <2>2, <2>3, StepServes DEF ServiceMove
<1>3. Placement => PendingSet
  BY PendingSetHolds DEF Placement, ServiceInv
<1> QED  BY <1>1, <1>2, <1>3, PlacementHolds, PTL DEF Spec, ImplementsService, Service!Spec

=============================================================================
