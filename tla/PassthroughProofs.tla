------------------------- MODULE PassthroughProofs --------------------------
(***************************************************************************)
(* Proofs about Passthrough, for every remote, key map, queue and ceiling, *)
(* and for any number of dialogs and keys.                                 *)
(***************************************************************************)
EXTENDS Passthrough, SequenceTheorems, TLAPS

\* A dialog that was not opened yet.
Unused(d) ==
    /\ worker[d] = "none" /\ ~stopped[d] /\ queue[d] = <<>>
    /\ inHand[d] = 0 /\ sent[d] = 0 /\ late[d] = 0

\* Only the dialog on the screen has a worker that goes on sending.
OldWorkersStopped ==
    \A d \in Dialogs : d # dialog => stopped[d] \/ worker[d] = "none"

\* A key is late only if its dialog was closed while it was in hand, and then its
\* worker is at the head of its loop, from where it ends.
WorkersInv ==
    /\ \A d \in Dialogs : d > opened => Unused(d)
    /\ OldWorkersStopped
    /\ \A d \in Dialogs : late[d] # 0 => late[d] = 1 /\ stopped[d] /\ worker[d] \in {"head", "gone"}

\* The keys of a dialog, sent, in hand and queued, are in the order of their numbers.
Ordered(d) ==
    /\ sent[d] <= pressed
    /\ \A i \in 1 .. Len(queue[d]) : sent[d] < queue[d][i] /\ queue[d][i] <= pressed
    /\ \A i, j \in 1 .. Len(queue[d]) : j < i => queue[d][j] < queue[d][i]
    /\ worker[d] = "send" =>
          /\ sent[d] < inHand[d] /\ inHand[d] <= pressed
          /\ \A i \in 1 .. Len(queue[d]) : inHand[d] < queue[d][i]

OrderInv == \A d \in Dialogs : Ordered(d)

\* The runner's counters: the ticks that left the remote to the player are charged
\* to the ceiling until it latches, and its idle count to non-active reads.
OwnerInv ==
    /\ dialog # 0 => armed
    /\ gaveUp => ~armed
    /\ held < MaxPolls /\ (~gaveUp => held <= armedPolls)
    /\ armed /\ spc # "decide" => idle <= quiet
    /\ armed /\ spc = "decide" /\ read \notin ActiveStates => idle + 1 <= quiet

-----------------------------------------------------------------------------
(* What the loop does to the dialogs. *)

OpenDialog ==
    /\ dialog = 0 /\ opened < MaxDialogs
    /\ opened' = opened + 1 /\ dialog' = opened'
    /\ worker' = [worker EXCEPT ![opened'] = "head"]
    /\ UNCHANGED <<queue, stopped, inHand, sent, late>>

\* Every step of the service's loop closes the dialog, keeps it or opens a new one.
LEMMA LoopMoves ==
    ASSUME Loop \/ KodiStops
    PROVE  UNCHANGED <<pressed, disc, enabled>> /\ (CloseDialog \/ KeepDialog \/ OpenDialog)
<1>1. CASE LoopOff \/ TickOff \/ KodiStops
  BY <1>1 DEF LoopOff, TickOff, KodiStops, Shutdown
<1>2. CASE LoopOn \/ Probe \/ NextRound
  BY <1>2 DEF LoopOn, Probe, NextRound, KeepDialog, runner, threads
<1>3. CASE Decide
  <2>1. UNCHANGED <<pressed, disc, enabled>>
    BY <1>3 DEF Decide
  <2>2. CASE StayClosed \/ Ceiling \/ Disarm
    BY <2>1, <2>2 DEF StayClosed, Ceiling, Disarm
  <2>3. CASE Arm
    BY <2>1, <2>3 DEF Arm, OpenDialog
  <2> QED BY <1>3, <2>2, <2>3 DEF Decide
<1> QED BY <1>1, <1>2, <1>3 DEF Loop

-----------------------------------------------------------------------------
(* Type correctness, in four parts. *)

Bounds ==
    /\ IdleConfirmations \in Nat /\ MaxPolls \in Nat \ {0} /\ QueueSize \in Nat \ {0}
    /\ MaxDialogs \in Nat /\ MaxPresses \in Nat /\ IdleNeeded \in Nat \ {0}

\* What arm_decision answers.
LEMMA Decision ==
    /\ ArmDecision.armed <=> read \in ActiveStates \/ (armed /\ idle + 1 < IdleNeeded)
    /\ ArmDecision.idle = IF read \in ActiveStates THEN 0 ELSE IF idle < IdleNeeded THEN idle + 1 ELSE idle
BY DEF ArmDecision

LEMMA BoundsHold == Bounds
BY PassthroughConstants DEF Bounds, IdleNeeded

ThreadTypes ==
    /\ stopped \in [Dialogs -> BOOLEAN]
    /\ worker \in [Dialogs -> {"none", "head", "get", "send", "gone"}]
    /\ inHand \in [Dialogs -> 0 .. MaxPresses] /\ sent \in [Dialogs -> 0 .. MaxPresses]
    /\ late \in [Dialogs -> Nat]
    /\ queue \in [Dialogs -> Seq(Presses)] /\ \A d \in Dialogs : Len(queue[d]) <= QueueSize

DialogTypes == dialog \in 0 .. opened /\ opened \in 0 .. MaxDialogs /\ pressed \in 0 .. MaxPresses

ServiceTypes ==
    /\ disc \in {"on", "over"} /\ enabled \in BOOLEAN
    /\ spc \in {"loop", "tick", "decide", "wait", "ended"} /\ read \in Reads
    /\ armed \in BOOLEAN /\ gaveUp \in BOOLEAN

CounterTypes ==
    /\ idle \in 0 .. IdleNeeded /\ armedPolls \in 0 .. MaxPolls - 1
    /\ armed => idle < IdleNeeded
    /\ quiet \in 0 .. IdleNeeded /\ held \in Nat

LEMMA TypeParts == TypeOK <=> ThreadTypes /\ DialogTypes /\ ServiceTypes /\ CounterTypes
BY Zenon DEF TypeOK, ThreadTypes, DialogTypes, ServiceTypes, CounterTypes

LEMMA TypePartsNext == TypeOK' <=> ThreadTypes' /\ DialogTypes' /\ ServiceTypes' /\ CounterTypes'
BY Zenon DEF TypeOK, ThreadTypes, DialogTypes, ServiceTypes, CounterTypes

LEMMA InitType == Init => TypeOK
<1> SUFFICES ASSUME Init PROVE TypeOK
  OBVIOUS
<1>1. Bounds
  BY BoundsHold
<1>2. <<>> \in Seq(Presses) /\ Len(<<>>) = 0
  OBVIOUS
<1>3. ThreadTypes
  <2>1. queue \in [Dialogs -> Seq(Presses)] /\ \A d \in Dialogs : Len(queue[d]) <= QueueSize
    BY <1>1, <1>2 DEF Init, Bounds
  <2> QED BY <1>1, <2>1 DEF Init, ThreadTypes, Bounds
<1>4. DialogTypes
  BY <1>1 DEF Init, DialogTypes, Bounds
<1>5. ServiceTypes
  BY Zenon DEF Init, ServiceTypes, Reads
<1>6. CounterTypes
  BY <1>1, SMT DEF Init, CounterTypes, Bounds
<1> QED BY <1>3, <1>4, <1>5, <1>6, TypeParts

\* A worker's steps keep the types.
LEMMA WorkerType ==
    ASSUME TypeOK, NEW d \in Dialogs, Worker(d)
    PROVE  TypeOK'
<1>1. UNCHANGED <<disc, enabled, spc, read, runner, stopped, pressed, quiet, held>>
  BY DEF Worker, WorkerStep, LoopHead, GetKey, GetTimesOut, SendKey
<1>2. DialogTypes' /\ ServiceTypes' /\ CounterTypes'
  BY <1>1, TypeParts, Zenon DEF DialogTypes, ServiceTypes, CounterTypes, runner
<1>3. ThreadTypes
  BY TypeParts
<1>4. worker' \in [Dialogs -> {"none", "head", "get", "send", "gone"}]
  BY <1>3 DEF Worker, WorkerStep, LoopHead, GetKey, GetTimesOut, SendKey, ThreadTypes
<1>5. ASSUME LoopHead(d) \/ GetTimesOut(d) PROVE ThreadTypes'
  BY <1>1, <1>3, <1>4, <1>5, Zenon DEF LoopHead, GetTimesOut, ThreadTypes
<1>6. ASSUME GetKey(d) PROVE ThreadTypes'
  <2>1. queue[d] \in Seq(Presses) /\ queue[d] # <<>> /\ Len(queue[d]) <= QueueSize
    BY <1>3, <1>6 DEF GetKey, ThreadTypes
  <2>2. Head(queue[d]) \in Presses /\ Tail(queue[d]) \in Seq(Presses)
        /\ Len(Tail(queue[d])) = Len(queue[d]) - 1 /\ Len(queue[d]) \in Nat
    BY <2>1, HeadTailProperties, LenProperties
  <2>3. queue' = [queue EXCEPT ![d] = Tail(@)] /\ inHand' = [inHand EXCEPT ![d] = Head(queue[d])]
        /\ UNCHANGED <<sent, late, stopped>>
    BY <1>1, <1>6 DEF GetKey
  <2>4. queue' \in [Dialogs -> Seq(Presses)] /\ inHand' \in [Dialogs -> 0 .. MaxPresses]
    BY <1>3, <2>2, <2>3 DEF ThreadTypes, Presses
  <2>5. QueueSize \in Nat
    BY BoundsHold DEF Bounds
  <2>6. \A e \in Dialogs : Len(queue'[e]) <= QueueSize
    BY <1>3, <2>1, <2>2, <2>3, <2>5 DEF ThreadTypes
  <2> QED BY <1>3, <1>4, <2>3, <2>4, <2>6, Zenon DEF ThreadTypes
<1>7. ASSUME SendKey(d) PROVE ThreadTypes'
  <2>1. sent' = [sent EXCEPT ![d] = inHand[d]]
        /\ late' = [late EXCEPT ![d] = IF stopped[d] THEN @ + 1 ELSE @]
        /\ UNCHANGED <<queue, inHand, stopped>>
    BY <1>1, <1>7 DEF SendKey
  <2>2. sent' \in [Dialogs -> 0 .. MaxPresses] /\ late' \in [Dialogs -> Nat]
    <3>1. inHand[d] \in 0 .. MaxPresses /\ late[d] \in Nat /\ late[d] + 1 \in Nat
      BY <1>3 DEF ThreadTypes
    <3> QED BY <1>3, <2>1, <3>1, Zenon DEF ThreadTypes
  <2> QED BY <1>3, <1>4, <2>1, <2>2, Zenon DEF ThreadTypes
<1>8. ThreadTypes'
  BY <1>5, <1>6, <1>7, Zenon DEF Worker
<1> QED BY <1>2, <1>8, TypePartsNext

\* A key that is put into the queue or dropped keeps them.
LEMMA PressType ==
    ASSUME TypeOK, NEW key \in Keys, Press(key)
    PROVE  TypeOK' /\ dialog \in Dialogs /\ pressed' = pressed + 1 /\ pressed' \in Presses
<1>1. ThreadTypes /\ DialogTypes /\ ServiceTypes /\ CounterTypes /\ Bounds
  BY TypeParts, BoundsHold
<1>2. dialog \in Dialogs
  BY <1>1 DEF Press, DialogTypes, Dialogs, Bounds
<1>3. pressed' = pressed + 1 /\ pressed' \in Presses /\ pressed' \in 0 .. MaxPresses
  BY <1>1 DEF Press, DialogTypes, Presses, Bounds
<1>4. ServiceTypes' /\ CounterTypes' /\ DialogTypes'
  BY <1>1, <1>3, Zenon DEF Press, ServiceTypes, CounterTypes, DialogTypes, runner
<1>5. CASE HasRoom(dialog)
  <2>1. queue' = [queue EXCEPT ![dialog] = Append(@, pressed')]
    BY <1>5 DEF Press
  <2>2. queue[dialog] \in Seq(Presses) /\ Len(queue[dialog]) < QueueSize /\ Len(queue[dialog]) \in Nat
    BY <1>1, <1>2, <1>5 DEF HasRoom, ThreadTypes
  <2>3. Append(queue[dialog], pressed') \in Seq(Presses)
        /\ Len(Append(queue[dialog], pressed')) = Len(queue[dialog]) + 1
    BY <1>3, <2>2
  <2>4. queue' \in [Dialogs -> Seq(Presses)]
    BY <1>1, <1>2, <2>1, <2>3 DEF ThreadTypes
  <2>5. \A e \in Dialogs : Len(queue'[e]) <= QueueSize
    BY <1>1, <1>2, <2>1, <2>2, <2>3 DEF ThreadTypes, Bounds
  <2>6. ThreadTypes'
    BY <1>1, <2>4, <2>5 DEF Press, ThreadTypes
  <2> QED BY <1>2, <1>3, <1>4, <2>6, TypePartsNext
<1>6. CASE ~HasRoom(dialog)
  <2>1. ThreadTypes'
    BY <1>1, <1>6 DEF Press, ThreadTypes
  <2> QED BY <1>2, <1>3, <1>4, <2>1, TypePartsNext
<1> QED BY <1>5, <1>6

\* So do the loop's steps.
LEMMA LoopType ==
    ASSUME TypeOK, Loop \/ KodiStops
    PROVE  TypeOK'
<1>1. ThreadTypes /\ DialogTypes /\ ServiceTypes /\ CounterTypes /\ Bounds
  BY TypeParts, BoundsHold
<1>2. ThreadTypes' /\ DialogTypes'
  <2>1. CASE CloseDialog
    BY <1>1, <2>1, LoopMoves DEF CloseDialog, ThreadTypes, DialogTypes, Bounds
  <2>2. CASE KeepDialog
    BY <1>1, <2>2, LoopMoves DEF KeepDialog, threads, ThreadTypes, DialogTypes
  <2>3. CASE OpenDialog
    <3>1. opened \in 0 .. MaxDialogs /\ opened' = opened + 1 /\ opened < MaxDialogs /\ dialog' = opened'
      BY <1>1, <2>3 DEF OpenDialog, DialogTypes
    <3>2. DialogTypes' /\ opened' \in Dialogs
      BY <1>1, <3>1, LoopMoves DEF DialogTypes, Dialogs, Bounds
    <3>3. ThreadTypes'
      BY <1>1, <2>3, <3>2, Zenon DEF OpenDialog, ThreadTypes
    <3> QED BY <3>2, <3>3
  <2> QED BY <2>1, <2>2, <2>3, LoopMoves
<1>3. UNCHANGED <<disc, enabled>>
  BY LoopMoves
<1>4. ServiceTypes'
  <2>1. CASE LoopOff \/ TickOff \/ KodiStops
    BY <1>1, <1>3, <2>1, Zenon DEF ServiceTypes, LoopOff, TickOff, KodiStops, Shutdown
  <2>2. CASE LoopOn \/ NextRound
    BY <1>1, <2>2, Zenon DEF ServiceTypes, LoopOn, NextRound, runner
  <2>3. CASE Probe
    <3>1. read' \in Reads
      BY <2>3 DEF Probe, Reads, ActiveStates
    <3> QED BY <1>1, <2>3, <3>1, Zenon DEF ServiceTypes, Probe, runner
  <2>4. CASE Decide
    <3>1. spc' = "wait" /\ read' \in Reads /\ armed' \in BOOLEAN
      BY <1>1, <2>4 DEF Decide, Reads, StayClosed, Ceiling, Disarm, Arm
    <3>2. gaveUp' \in BOOLEAN
      BY <1>1, <2>4, Zenon DEF ServiceTypes, Decide, StayClosed, Ceiling, Disarm, Arm
    <3> QED BY <1>1, <1>3, <3>1, <3>2, Zenon DEF ServiceTypes
  <2> QED BY <2>1, <2>2, <2>3, <2>4 DEF Loop
<1>5. CounterTypes'
  <2>1. CASE LoopOff \/ TickOff \/ KodiStops
    BY <1>1, <2>1 DEF CounterTypes, Bounds, LoopOff, TickOff, KodiStops, Shutdown
  <2>2. CASE LoopOn \/ NextRound
    BY <1>1, <2>2 DEF CounterTypes, LoopOn, NextRound, runner
  <2>3. CASE Probe
    BY <1>1, <2>3 DEF CounterTypes, Bounds, Probe, runner
  <2>4. CASE Decide
    <3>1. quiet' = quiet
      BY <2>4 DEF Decide
    <3>2. CASE StayClosed
      BY <1>1, <3>1, <3>2 DEF CounterTypes, StayClosed
    <3>3. CASE Ceiling
      BY <1>1, <3>1, <3>3 DEF CounterTypes, Ceiling, Bounds
    <3>4. CASE Disarm
      BY <1>1, <3>1, <3>4 DEF CounterTypes, Disarm, ArmDecision, Bounds
    <3>5. CASE Arm
      <4>1. held' \in Nat
        BY <1>1, <3>5 DEF CounterTypes, Arm
      <4>2. armedPolls' \in 0 .. MaxPolls - 1
        BY <1>1, <3>5 DEF CounterTypes, Arm, Bounds
      <4>3. idle' \in 0 .. IdleNeeded /\ idle' < IdleNeeded
        BY <1>1, <3>5, Decision DEF CounterTypes, Arm, Bounds
      <4> QED BY <1>1, <3>1, <4>1, <4>2, <4>3, Zenon DEF CounterTypes
    <3> QED BY <2>4, <3>2, <3>3, <3>4, <3>5 DEF Decide
  <2> QED BY <2>1, <2>2, <2>3, <2>4 DEF Loop
<1> QED BY <1>2, <1>4, <1>5, TypePartsNext

LEMMA StepType == TypeOK /\ [Next]_passVars => TypeOK'
<1> SUFFICES ASSUME TypeOK, [Next]_passVars PROVE TypeOK'
  OBVIOUS
<1>1. CASE UNCHANGED passVars
  BY <1>1 DEF TypeOK, passVars, runner, threads
<1>2. CASE Loop \/ KodiStops
  BY <1>2, LoopType
<1>3. ASSUME NEW d \in Dialogs, Worker(d) PROVE TypeOK'
  BY <1>3, WorkerType
<1>4. CASE DiscChanges \/ UserToggles
  <2>1. disc' \in {"on", "over"} /\ enabled' \in BOOLEAN
    BY <1>4, TypeParts, Zenon DEF DiscChanges, UserToggles, ServiceTypes
  <2>2. UNCHANGED <<spc, read, dialog, armed, idle, armedPolls, gaveUp, opened, queue, stopped,
                    worker, inHand, pressed, sent, late, quiet, held>>
    BY <1>4 DEF DiscChanges, UserToggles, runner, threads
  <2>3. ThreadTypes' /\ DialogTypes' /\ ServiceTypes' /\ CounterTypes'
    BY <2>1, <2>2, TypeParts, Zenon DEF ThreadTypes, DialogTypes, ServiceTypes, CounterTypes
  <2> QED BY <2>3, TypePartsNext
<1>5. ASSUME NEW key \in Keys, Press(key) PROVE TypeOK'
  BY <1>5, PressType
<1> QED BY <1>1, <1>2, <1>3, <1>4, <1>5 DEF Next

\* The service loop, its counters, dialogs, queues and workers stay in type.
THEOREM TypeCorrect == Spec => []TypeOK
<1> QED BY InitType, StepType, PTL DEF Spec

-----------------------------------------------------------------------------
(* The remote and its ceiling. *)

LEMMA InitOwner == Init => OwnerInv
BY PassthroughConstants DEF Init, OwnerInv

LEMMA DecideOwner ==
    ASSUME TypeOK, OwnerInv, Decide
    PROVE  OwnerInv' /\ (dialog # 0 /\ dialog' = 0 => quiet >= IdleNeeded \/ gaveUp')
<1>1. CounterTypes /\ Bounds
  BY TypeParts, BoundsHold
<1>2. spc = "decide" /\ spc' = "wait" /\ quiet' = quiet
  BY DEF Decide
<1>3. CASE StayClosed
  BY <1>1, <1>2, <1>3 DEF StayClosed, StillGivenUp, CloseDialog, OwnerInv, CounterTypes
<1>4. CASE Ceiling
  BY <1>1, <1>2, <1>4 DEF Ceiling, CloseDialog, OwnerInv, CounterTypes
<1>5. CASE Disarm
  <2>1. ~gaveUp' /\ ~armed' /\ dialog' = 0 /\ held' = 0 /\ armedPolls' = 0
    BY <1>5 DEF Disarm, CloseDialog
  <2>2. read \notin ActiveStates /\ ~(armed /\ idle + 1 < IdleNeeded)
    BY <1>5, Decision DEF Disarm
  <2>3. armed => quiet >= IdleNeeded
    BY <1>1, <1>2, <2>2 DEF OwnerInv, CounterTypes, Bounds
  <2> QED BY <1>1, <1>2, <2>1, <2>3 DEF OwnerInv, Bounds
<1>6. CASE Arm
  <2>1. ~gaveUp' /\ armed' /\ armedPolls' = armedPolls + 1 /\ armedPolls + 1 < MaxPolls
    BY <1>6 DEF Arm
  <2>2. dialog # 0 => dialog' # 0
    BY <1>6, TypeParts, BoundsHold DEF Arm, KeepDialog
  <2>3. ~gaveUp
    BY <1>6, Decision DEF Arm, StillGivenUp, OwnerInv
  <2>4. held' \in {held, held + 1}
    BY <1>6 DEF Arm
  <2>5. held' < MaxPolls /\ held' <= armedPolls'
    BY <1>1, <2>1, <2>3, <2>4 DEF OwnerInv, CounterTypes, Bounds
  <2>6. idle' <= quiet'
    BY <1>1, <1>2, <1>6, Decision DEF Arm, OwnerInv, CounterTypes, Bounds
  <2> QED BY <1>2, <2>1, <2>2, <2>5, <2>6 DEF OwnerInv
<1> QED BY <1>3, <1>4, <1>5, <1>6 DEF Decide

LEMMA StepOwner == TypeOK /\ OwnerInv /\ [Next]_passVars => OwnerInv'
<1> SUFFICES ASSUME TypeOK, OwnerInv, [Next]_passVars PROVE OwnerInv'
  OBVIOUS
<1>1. CounterTypes /\ Bounds
  BY TypeParts, BoundsHold
<1>2. CASE UNCHANGED passVars \/ DiscChanges \/ UserToggles
  <2>1. UNCHANGED <<dialog, armed, gaveUp, held, armedPolls, spc, idle, quiet, read>>
    BY <1>2 DEF passVars, runner, DiscChanges, UserToggles
  <2> QED BY <2>1, Zenon DEF OwnerInv
<1>3. ASSUME NEW d \in Dialogs, Worker(d) PROVE OwnerInv'
  <2>1. UNCHANGED <<dialog, armed, gaveUp, held, armedPolls, spc, idle, quiet, read>>
    BY <1>3 DEF Worker, WorkerStep, LoopHead, GetKey, GetTimesOut, SendKey, runner
  <2> QED BY <2>1, Zenon DEF OwnerInv
<1>4. ASSUME NEW key \in Keys, Press(key) PROVE OwnerInv'
  <2>1. UNCHANGED <<dialog, armed, gaveUp, held, armedPolls, spc, idle, quiet, read>>
    BY <1>4 DEF Press, runner
  <2> QED BY <2>1, Zenon DEF OwnerInv
<1>5. CASE LoopOff \/ TickOff \/ KodiStops
  BY <1>1, <1>5 DEF LoopOff, TickOff, KodiStops, Shutdown, CloseDialog, OwnerInv, Bounds
<1>6. CASE LoopOn \/ NextRound
  BY <1>6 DEF LoopOn, NextRound, runner, OwnerInv
<1>7. CASE Probe
  <2>1. spc = "tick" /\ spc' = "decide" /\ UNCHANGED <<dialog, armed, gaveUp, held, armedPolls, idle>>
    BY <1>7 DEF Probe, runner
  <2>2. armed /\ read' \notin ActiveStates => idle + 1 <= quiet'
    BY <1>1, <1>7, <2>1 DEF Probe, OwnerInv, CounterTypes, Bounds
  <2> QED BY <2>1, <2>2 DEF OwnerInv
<1>8. CASE Decide
  BY <1>8, DecideOwner
<1> QED BY <1>2, <1>3, <1>4, <1>5, <1>6, <1>7, <1>8 DEF Next, Loop

-----------------------------------------------------------------------------
(* The workers of closed dialogs. *)

LEMMA InitWorkers == Init => WorkersInv
BY DEF Init, WorkersInv, Unused, OldWorkersStopped

LEMMA StepWorkers == TypeOK /\ WorkersInv /\ [Next]_passVars => WorkersInv'
<1> SUFFICES ASSUME TypeOK, WorkersInv, [Next]_passVars PROVE WorkersInv'
  OBVIOUS
<1>1. ThreadTypes /\ DialogTypes /\ Bounds
  BY TypeParts, BoundsHold
<1>2. CASE UNCHANGED passVars \/ DiscChanges \/ UserToggles
  <2>1. UNCHANGED <<dialog, opened, queue, stopped, worker, inHand, sent, late>>
    BY <1>2 DEF passVars, runner, threads, DiscChanges, UserToggles
  <2> QED BY <2>1, Zenon DEF WorkersInv, Unused, OldWorkersStopped
<1>3. ASSUME NEW d \in Dialogs, Worker(d) PROVE WorkersInv'
  <2>1. UNCHANGED <<dialog, opened, stopped>>
    BY <1>3 DEF Worker, WorkerStep, LoopHead, GetKey, GetTimesOut, SendKey, runner
  <2>2. worker[d] # "none" /\ ~(d > opened) /\ worker'[d] # "none"
    BY <1>1, <1>3 DEF Worker, WorkerStep, LoopHead, GetKey, GetTimesOut, SendKey, WorkersInv, Unused, ThreadTypes
  <2>3. \A e \in Dialogs \ {d} : /\ worker'[e] = worker[e] /\ queue'[e] = queue[e] /\ inHand'[e] = inHand[e]
                                 /\ sent'[e] = sent[e] /\ late'[e] = late[e]
    BY <1>1, <1>3 DEF Worker, WorkerStep, LoopHead, GetKey, GetTimesOut, SendKey, ThreadTypes
  <2>4. late'[d] # 0 => late'[d] = 1 /\ stopped[d] /\ worker'[d] \in {"head", "gone"}
    BY <1>1, <1>3 DEF Worker, WorkerStep, LoopHead, GetKey, GetTimesOut, SendKey, WorkersInv, ThreadTypes
  <2>5. \A e \in Dialogs : e > opened' => Unused(e)'
    BY <2>1, <2>2, <2>3 DEF WorkersInv, Unused
  <2>6. OldWorkersStopped'
    BY <2>1, <2>2, <2>3 DEF WorkersInv, OldWorkersStopped
  <2>7. \A e \in Dialogs : late'[e] # 0 => late'[e] = 1 /\ stopped'[e] /\ worker'[e] \in {"head", "gone"}
    BY <2>1, <2>3, <2>4 DEF WorkersInv
  <2> QED BY <2>5, <2>6, <2>7 DEF WorkersInv
<1>4. ASSUME NEW key \in Keys, Press(key) PROVE WorkersInv'
  <2>1. UNCHANGED <<dialog, opened, stopped, worker, inHand, sent, late>> /\ dialog # 0
    BY <1>4 DEF Press, runner
  <2>2. \A e \in Dialogs : e > opened => queue'[e] = queue[e]
    BY <1>1, <1>4 DEF Press, DialogTypes, Dialogs, Bounds, ThreadTypes
  <2> QED BY <2>1, <2>2 DEF WorkersInv, Unused, OldWorkersStopped
<1>5. CASE Loop \/ KodiStops
  <2>1. CASE CloseDialog
    <3>1. UNCHANGED <<opened, queue, worker, inHand, sent, late>>
      BY <2>1 DEF CloseDialog
    <3>2. \A e \in Dialogs : stopped'[e] <=> stopped[e] \/ e = dialog
      BY <1>1, <2>1, Zenon DEF CloseDialog, ThreadTypes
    <3>3. dialog <= opened /\ dialog' = 0
      BY <1>1, <2>1 DEF CloseDialog, DialogTypes
    <3> QED BY <3>1, <3>2, <3>3, <1>1 DEF WorkersInv, Unused, OldWorkersStopped, Dialogs, Bounds, DialogTypes
  <2>2. CASE KeepDialog
    <3>1. UNCHANGED <<dialog, opened, queue, stopped, worker, inHand, sent, late>>
      BY <2>2 DEF KeepDialog, threads
    <3> QED BY <3>1, Zenon DEF WorkersInv, Unused, OldWorkersStopped
  <2>3. CASE OpenDialog
    <3>1. opened \in 0 .. MaxDialogs /\ opened' = opened + 1 /\ dialog' = opened + 1 /\ dialog = 0
          /\ UNCHANGED <<queue, stopped, inHand, sent, late>>
      BY <1>1, <2>3 DEF OpenDialog, DialogTypes
    <3>2. opened + 1 \in Dialogs /\ Unused(opened + 1)
      BY <1>1, <2>3, <3>1 DEF OpenDialog, Dialogs, WorkersInv, Bounds
    <3>3. worker'[opened + 1] = "head" /\ \A e \in Dialogs \ {opened + 1} : worker'[e] = worker[e]
      BY <1>1, <2>3, <3>1, <3>2 DEF OpenDialog, ThreadTypes
    <3>4. \A e \in Dialogs : e > opened' => Unused(e)'
      BY <3>1, <3>3 DEF WorkersInv, Unused, Dialogs
    <3>5. OldWorkersStopped'
      BY <3>1, <3>3, <1>1 DEF WorkersInv, OldWorkersStopped, Dialogs, Bounds
    <3>6. \A e \in Dialogs : late'[e] # 0 => late'[e] = 1 /\ stopped'[e] /\ worker'[e] \in {"head", "gone"}
      BY <3>1, <3>2, <3>3 DEF WorkersInv, Unused
    <3> QED BY <3>4, <3>5, <3>6 DEF WorkersInv
  <2> QED BY <1>5, <2>1, <2>2, <2>3, LoopMoves
<1> QED BY <1>2, <1>3, <1>4, <1>5 DEF Next

-----------------------------------------------------------------------------
(* The order of the keys. *)

LEMMA InitOrder == Init => OrderInv
BY PassthroughConstants DEF Init, OrderInv, Ordered

\* Only what happens to the dialog itself can disturb its order.
LEMMA OrderFrame ==
    ASSUME OrderInv, NEW d \in Dialogs, pressed' = pressed,
           queue'[d] = queue[d], inHand'[d] = inHand[d], sent'[d] = sent[d],
           worker'[d] = "send" => worker[d] = "send"
    PROVE  Ordered(d)'
BY DEF OrderInv, Ordered

\* A step of a worker takes the first key of its queue, or sends the one in hand.
LEMMA WorkerOrder ==
    ASSUME TypeOK, OrderInv, NEW d \in Dialogs, Worker(d)
    PROVE  OrderInv'
<1>1. ThreadTypes /\ pressed' = pressed
  BY TypeParts DEF Worker, WorkerStep, LoopHead, GetKey, GetTimesOut, SendKey
<1>2. ASSUME NEW e \in Dialogs \ {d} PROVE Ordered(e)'
  <2>1. queue'[e] = queue[e] /\ inHand'[e] = inHand[e] /\ sent'[e] = sent[e] /\ worker'[e] = worker[e]
    BY <1>1, <1>2 DEF Worker, WorkerStep, LoopHead, GetKey, GetTimesOut, SendKey, ThreadTypes
  <2> QED BY <1>1, <2>1, OrderFrame
<1>3. Ordered(d)
  BY DEF OrderInv
<1>4. ASSUME LoopHead(d) \/ GetTimesOut(d) PROVE Ordered(d)'
  <2>1. queue' = queue /\ inHand' = inHand /\ sent' = sent /\ worker'[d] # "send"
    BY <1>1, <1>4 DEF LoopHead, GetTimesOut, WorkerStep, ThreadTypes
  <2> QED BY <1>1, <2>1, OrderFrame
<1>5. ASSUME GetKey(d) PROVE Ordered(d)'
  <2> DEFINE q == queue[d]
  <2>1. q \in Seq(Presses) /\ q # <<>>
    BY <1>1, <1>5 DEF GetKey, ThreadTypes
  <2>2. queue'[d] = Tail(q) /\ inHand'[d] = q[1] /\ sent' = sent
    BY <1>1, <1>5, <2>1 DEF GetKey, ThreadTypes
  <2>3. Len(Tail(q)) = Len(q) - 1 /\ Len(q) \in Nat \ {0}
        /\ \A i \in 1 .. Len(Tail(q)) : Tail(q)[i] = q[i + 1]
    BY <2>1
  <2>4. \A i \in 1 .. Len(q) : sent[d] < q[i] /\ q[i] <= pressed
    BY <1>3 DEF Ordered
  <2>5. \A i, j \in 1 .. Len(q) : j < i => q[j] < q[i]
    BY <1>3 DEF Ordered
  <2>6. \A i \in 1 .. Len(queue'[d]) : /\ sent'[d] < queue'[d][i] /\ queue'[d][i] <= pressed'
                                       /\ inHand'[d] < queue'[d][i]
    BY <1>1, <2>2, <2>3, <2>4, <2>5
  <2>7. \A i, j \in 1 .. Len(queue'[d]) : j < i => queue'[d][j] < queue'[d][i]
    BY <2>2, <2>3, <2>5
  <2>8. sent'[d] < inHand'[d] /\ inHand'[d] <= pressed' /\ sent'[d] <= pressed'
    BY <1>1, <1>3, <2>2, <2>3, <2>4 DEF Ordered
  <2> QED BY <2>6, <2>7, <2>8 DEF Ordered
<1>6. ASSUME SendKey(d) PROVE Ordered(d)'
  <2>1. queue' = queue /\ sent'[d] = inHand[d] /\ worker'[d] = "head" /\ worker[d] = "send"
    BY <1>1, <1>6 DEF SendKey, WorkerStep, ThreadTypes
  <2> QED BY <1>1, <1>3, <2>1 DEF Ordered
<1>7. Ordered(d)'
  BY <1>4, <1>5, <1>6 DEF Worker
<1> QED BY <1>2, <1>7 DEF OrderInv

\* A key that is pressed has a higher number than every key before it.
LEMMA PressOrder ==
    ASSUME TypeOK, OrderInv, NEW key \in Keys, Press(key)
    PROVE  OrderInv'
<1>1. ThreadTypes /\ dialog \in Dialogs /\ pressed' = pressed + 1 /\ pressed \in Nat
  BY PressType, TypeParts, BoundsHold DEF DialogTypes, Bounds
<1>2. inHand' = inHand /\ sent' = sent /\ worker' = worker
  BY DEF Press
<1>3. ASSUME NEW d \in Dialogs PROVE Ordered(d)'
  <2>1. Ordered(d) /\ queue[d] \in Seq(Presses) /\ Len(queue[d]) \in Nat /\ sent[d] \in Nat /\ inHand[d] \in Nat
    BY <1>1 DEF OrderInv, ThreadTypes
  <2>2. \A i \in 1 .. Len(queue[d]) : queue[d][i] \in Nat
    BY <2>1, BoundsHold DEF Presses, Bounds
  <2>3. CASE queue'[d] = queue[d]
    BY <1>1, <1>2, <2>1, <2>2, <2>3 DEF Ordered
  <2>4. CASE queue'[d] = Append(queue[d], pressed')
    <3>1. Len(queue'[d]) = Len(queue[d]) + 1 /\ queue'[d][Len(queue[d]) + 1] = pressed + 1
          /\ \A i \in 1 .. Len(queue[d]) : queue'[d][i] = queue[d][i]
      BY <1>1, <2>1, <2>4
    <3>2. \A i \in 1 .. Len(queue[d]) : sent[d] < queue[d][i] /\ queue[d][i] <= pressed
      BY <2>1 DEF Ordered
    <3>3. \A i, j \in 1 .. Len(queue[d]) : j < i => queue[d][j] < queue[d][i]
      BY <2>1 DEF Ordered
    <3>4. sent[d] <= pressed
      BY <2>1 DEF Ordered
    <3>5. \A i \in 1 .. Len(queue'[d]) : sent'[d] < queue'[d][i] /\ queue'[d][i] <= pressed'
      BY <1>1, <1>2, <2>1, <2>2, <3>1, <3>2, <3>4
    <3>6. \A i, j \in 1 .. Len(queue'[d]) : j < i => queue'[d][j] < queue'[d][i]
      <4> SUFFICES ASSUME NEW i \in 1 .. Len(queue'[d]), NEW j \in 1 .. Len(queue'[d]), j < i
                   PROVE  queue'[d][j] < queue'[d][i]
        OBVIOUS
      <4>1. j \in 1 .. Len(queue[d]) /\ queue'[d][j] = queue[d][j]
        BY <2>1, <3>1
      <4>2. CASE i = Len(queue[d]) + 1
        BY <1>1, <2>2, <3>1, <3>2, <4>1, <4>2
      <4>3. CASE i # Len(queue[d]) + 1
        <5>1. i \in 1 .. Len(queue[d]) /\ queue'[d][i] = queue[d][i]
          BY <2>1, <3>1, <4>3
        <5> QED BY <3>3, <4>1, <5>1
      <4> QED BY <4>2, <4>3
    <3>7. worker[d] = "send" => /\ sent[d] < inHand[d] /\ inHand[d] <= pressed
                                /\ \A i \in 1 .. Len(queue[d]) : inHand[d] < queue[d][i]
      BY <2>1 DEF Ordered
    <3>8. worker'[d] = "send" => /\ sent'[d] < inHand'[d] /\ inHand'[d] <= pressed'
                                 /\ \A i \in 1 .. Len(queue'[d]) : inHand'[d] < queue'[d][i]
      <4> SUFFICES ASSUME worker[d] = "send"
                   PROVE  /\ sent[d] < inHand[d] /\ inHand[d] <= pressed + 1
                          /\ \A i \in 1 .. Len(queue'[d]) : inHand[d] < queue'[d][i]
        BY <1>1, <1>2
      <4>1. sent[d] < inHand[d] /\ inHand[d] <= pressed
        BY <3>7
      <4>2. ASSUME NEW i \in 1 .. Len(queue'[d]) PROVE inHand[d] < queue'[d][i]
        <5>1. CASE i = Len(queue[d]) + 1
          BY <1>1, <2>1, <3>1, <4>1, <5>1
        <5>2. CASE i # Len(queue[d]) + 1
          <6>1. i \in 1 .. Len(queue[d])
            BY <2>1, <3>1, <5>2
          <6> QED BY <3>1, <3>7, <6>1
        <5> QED BY <5>1, <5>2
      <4> QED BY <1>1, <2>1, <4>1, <4>2
    <3> QED BY <1>1, <1>2, <2>1, <3>4, <3>5, <3>6, <3>8 DEF Ordered
  <2>5. queue'[d] = queue[d] \/ queue'[d] = Append(queue[d], pressed')
    BY <1>1 DEF Press, ThreadTypes
  <2> QED BY <2>3, <2>4, <2>5
<1> QED BY <1>3 DEF OrderInv

LEMMA StepOrder == TypeOK /\ OrderInv /\ [Next]_passVars => OrderInv'
<1> SUFFICES ASSUME TypeOK, OrderInv, [Next]_passVars PROVE OrderInv'
  OBVIOUS
<1>1. CASE UNCHANGED passVars \/ DiscChanges \/ UserToggles
  <2>1. UNCHANGED <<pressed, queue, worker, inHand, sent>>
    BY <1>1 DEF passVars, runner, threads, DiscChanges, UserToggles
  <2> QED BY <2>1, OrderFrame DEF OrderInv
<1>2. ASSUME NEW d \in Dialogs, Worker(d) PROVE OrderInv'
  BY <1>2, WorkerOrder
<1>3. ASSUME NEW key \in Keys, Press(key) PROVE OrderInv'
  BY <1>3, PressOrder
<1>4. CASE Loop \/ KodiStops
  <2>1. pressed' = pressed /\ UNCHANGED <<queue, inHand, sent>>
    BY <1>4, LoopMoves DEF CloseDialog, KeepDialog, OpenDialog, threads
  <2>2. worker \in [Dialogs -> {"none", "head", "get", "send", "gone"}]
    BY TypeParts DEF ThreadTypes
  <2>3. \A d \in Dialogs : worker'[d] = "send" => worker[d] = "send"
    BY <1>4, <2>2, LoopMoves DEF CloseDialog, KeepDialog, OpenDialog, threads
  <2> QED BY <2>1, <2>3, OrderFrame DEF OrderInv
<1> QED BY <1>1, <1>2, <1>3, <1>4 DEF Next

\* What is in order in hand and in the queue is what waits.
LEMMA OrderedWaits == TypeOK /\ OrderInv => KeysInOrder
<1> SUFFICES ASSUME TypeOK, OrderInv, NEW d \in Dialogs
             PROVE  /\ \A i \in 1 .. Len(Waiting(d)) : Waiting(d)[i] > sent[d]
                    /\ \A i \in 1 .. Len(Waiting(d)) : \A j \in 1 .. i - 1 : Waiting(d)[j] < Waiting(d)[i]
  BY DEF KeysInOrder
<1>1. Ordered(d) /\ queue[d] \in Seq(Presses) /\ Len(queue[d]) \in Nat /\ sent[d] \in Nat
      /\ inHand[d] \in 0 .. MaxPresses
  BY TypeParts, BoundsHold DEF OrderInv, ThreadTypes, Bounds
<1>2. \A i \in 1 .. Len(queue[d]) : queue[d][i] \in Nat
  BY <1>1, BoundsHold DEF Presses, Bounds
<1>3. CASE worker[d] # "send"
  <2>1. Waiting(d) = queue[d]
    BY <1>3 DEF Waiting
  <2> QED BY <1>1, <1>2, <2>1 DEF Ordered
<1>4. CASE worker[d] = "send"
  <2> DEFINE w == Waiting(d)
  <2>1. w = <<inHand[d]>> \o queue[d]
    BY <1>4 DEF Waiting
  <2>2. Len(w) = Len(queue[d]) + 1 /\ w[1] = inHand[d]
        /\ \A i \in 2 .. Len(queue[d]) + 1 : w[i] = queue[d][i - 1]
    <3>1. <<inHand[d]>> \in Seq(Nat) /\ queue[d] \in Seq(Nat)
      BY <1>1, BoundsHold DEF Bounds, Presses
    <3> QED BY <1>1, <2>1, <3>1
  <2>3. sent[d] < inHand[d] /\ \A i \in 1 .. Len(queue[d]) : sent[d] < queue[d][i] /\ inHand[d] < queue[d][i]
    BY <1>1, <1>4 DEF Ordered
  <2>4. \A i, j \in 1 .. Len(queue[d]) : j < i => queue[d][j] < queue[d][i]
    BY <1>1 DEF Ordered
  <2> HIDE DEF w
  <2>5. \A i \in 1 .. Len(w) : w[i] > sent[d]
    BY <1>1, <1>2, <2>2, <2>3
  <2>6. \A i \in 1 .. Len(w) : \A j \in 1 .. i - 1 : w[j] < w[i]
    <3> SUFFICES ASSUME NEW i \in 1 .. Len(w), NEW j \in 1 .. i - 1 PROVE w[j] < w[i]
      OBVIOUS
    <3>1. i \in 2 .. Len(queue[d]) + 1 /\ i - 1 \in 1 .. Len(queue[d]) /\ w[i] = queue[d][i - 1]
      BY <1>1, <2>2
    <3>2. CASE j = 1
      BY <2>2, <2>3, <3>1, <3>2
    <3>3. CASE j # 1
      <4>1. j - 1 \in 1 .. Len(queue[d]) /\ w[j] = queue[d][j - 1] /\ j - 1 < i - 1
        BY <1>1, <2>2, <3>1, <3>3
      <4> QED BY <2>4, <3>1, <4>1
    <3> QED BY <3>2, <3>3
  <2> QED BY <2>5, <2>6 DEF w
<1> QED BY <1>3, <1>4

-----------------------------------------------------------------------------
(* The theorems. *)

PassthroughInv == TypeOK /\ OwnerInv /\ WorkersInv /\ OrderInv

LEMMA PassthroughInvariant == Spec => []PassthroughInv
<1>1. Init => PassthroughInv
  BY InitType, InitOwner, InitWorkers, InitOrder DEF PassthroughInv
<1>2. PassthroughInv /\ [Next]_passVars => PassthroughInv'
  BY StepType, StepOwner, StepWorkers, StepOrder DEF PassthroughInv
<1> QED BY <1>1, <1>2, PTL DEF Spec

\* For any queue and any number of dialogs, no key is sent twice or out of turn.
THEOREM KeysStayInOrder == Spec => []KeysInOrder
<1>1. PassthroughInv => KeysInOrder
  BY OrderedWaits DEF PassthroughInv
<1> QED BY <1>1, PassthroughInvariant, PTL

\* The worker of a closed dialog sends at most one more key.
THEOREM AtMostOneLateKey == Spec => []OneLateKey
<1>1. PassthroughInv => OneLateKey
  <2> SUFFICES ASSUME PassthroughInv, NEW d \in Dialogs PROVE late[d] <= 1
    BY DEF OneLateKey
  <2>1. late[d] \in Nat /\ (late[d] # 0 => late[d] = 1)
    BY TypeParts DEF PassthroughInv, WorkersInv, ThreadTypes
  <2> QED BY <2>1
<1> QED BY <1>1, PassthroughInvariant, PTL

\* A player that claims to play for ever does not keep the remote for ever.
THEOREM RemoteIsReturned == Spec => []RemoteComesBack
<1>1. PassthroughInv => RemoteComesBack
  BY DEF PassthroughInv, OwnerInv, RemoteComesBack
<1> QED BY <1>1, PassthroughInvariant, PTL

\* For any idle_confirmations, only as many bad reads in a row, the ceiling or the
\* feature's end take the remote from a disc.
THEOREM BlipsKeepTheRemote == Spec => NotDroppedByBlips
<1>1. PassthroughInv /\ [Next]_passVars
      => [Decide /\ dialog # 0 /\ dialog' = 0 => quiet >= IdleNeeded \/ gaveUp']_passVars
  BY DecideOwner DEF PassthroughInv
<1> QED BY <1>1, PassthroughInvariant, PTL DEF Spec, NotDroppedByBlips
=============================================================================
