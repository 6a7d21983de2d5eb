---------------------------- MODULE Passthrough ----------------------------
(***************************************************************************)
(* The remote passthrough: the service loop polls the player               *)
(* (PassthroughRunner.tick), opens a dialog that swallows every key while  *)
(* a disc plays, and closes it afterwards.  Each dialog (PassthroughDialog)*)
(* has a bounded queue and a worker thread that sends the keys one by one  *)
(* to the player; a closed dialog's worker may still be in a send when the *)
(* next dialog is open.  Keys are numbered in the order they are pressed.  *)
(***************************************************************************)
EXTENDS Integers, Sequences

CONSTANTS
    IdleConfirmations,  \* config.idle_confirmations
    MaxPolls,           \* max_watch_seconds / passthrough_poll_interval, at least 1
    QueueSize,          \* the queue's maxsize
    Keys,               \* <<action id, button code>> pairs the remote emits
    Overrides, CodeByButton, CodeByAction,  \* the three key maps, as functions
    MaxDialogs,         \* bound: dialogs opened
    MaxPresses          \* bound: mapped keys pressed

ASSUME PassthroughConstants ==
    /\ IdleConfirmations \in Nat
    /\ MaxPolls \in Nat \ {0} /\ QueueSize \in Nat \ {0}
    /\ MaxDialogs \in Nat /\ MaxPresses \in Nat

Dialogs == 1 .. MaxDialogs
Presses == 1 .. MaxPresses

VARIABLES
    disc,     \* whether a disc is on, playing or paused
    enabled,  \* remote_passthrough_enabled, and an address is configured
    spc,      \* where the service loop is
    read,     \* _probe's answer, while tick needs it
    dialog,   \* _dialog: its number, 0 for None
    armed, idle, armedPolls, gaveUp,  \* the runner's fields
    opened,   \* dialogs opened so far
    queue, stopped, worker, inHand,  \* of each dialog: _q, _stop, its thread, its key
    pressed,  \* mapped keys pressed so far
    sent,     \* history: per dialog, the last key sent
    late,     \* history: per dialog, keys sent after its shutdown
    quiet,    \* history: non-active reads in a row
    held      \* history: ticks that left the remote to the player

runner == <<dialog, armed, idle, armedPolls, gaveUp, opened>>
threads == <<queue, stopped, worker, inHand, sent, late>>
passVars == <<disc, enabled, spc, read, runner, threads, pressed, quiet, held>>

ActiveStates == {"playing", "paused"}
Reads == ActiveStates \union {"idle", "unknown", "down"}
IdleNeeded == IF IdleConfirmations > 1 THEN IdleConfirmations ELSE 1

Init ==
    /\ disc \in {"on", "over"} /\ enabled \in BOOLEAN
    /\ spc = "loop" /\ read = "down"
    /\ dialog = 0 /\ armed = FALSE /\ idle = 0 /\ armedPolls = 0 /\ gaveUp = FALSE
    /\ opened = 0 /\ pressed = 0
    /\ queue = [d \in Dialogs |-> <<>>]
    /\ stopped = [d \in Dialogs |-> FALSE]
    /\ worker = [d \in Dialogs |-> "none"] /\ inHand = [d \in Dialogs |-> 0]
    /\ sent = [d \in Dialogs |-> 0] /\ late = [d \in Dialogs |-> 0]
    /\ quiet = 0 /\ held = 0

-----------------------------------------------------------------------------
(* The player and the user. *)

DiscChanges ==
    /\ disc' \in {"on", "over"} \ {disc}
    /\ UNCHANGED <<enabled, spc, read, runner, threads, pressed, quiet, held>>

UserToggles ==
    /\ enabled' = ~enabled
    /\ UNCHANGED <<disc, spc, read, runner, threads, pressed, quiet, held>>

\* Bug to catch: one key too many is kept.
HasRoom_OffByOne(d) == Len(queue[d]) <= QueueSize

HasRoom(d) == Len(queue[d]) < QueueSize

\* passthrough.resolve: overrides by button, then buttons, then actions.
Resolve(key) ==
    LET action == key[1] button == key[2] IN
    IF button \in DOMAIN Overrides THEN {Overrides[button]}
    ELSE IF button \in DOMAIN CodeByButton THEN {CodeByButton[button]}
    ELSE {CodeByAction[a] : a \in {action} \cap DOMAIN CodeByAction}

\* onAction: a key without a code is swallowed, a full queue drops the new key.
Press(key) ==
    /\ dialog # 0 /\ pressed < MaxPresses
    /\ Resolve(key) # {}
    /\ pressed' = pressed + 1
    /\ queue' = IF HasRoom(dialog)
                THEN [queue EXCEPT ![dialog] = Append(@, pressed')]
                ELSE queue
    /\ UNCHANGED <<disc, enabled, spc, read, runner, stopped, worker, inHand, sent, late, quiet, held>>

-----------------------------------------------------------------------------
(* The workers: PassthroughDialog._pump. *)

WorkerStep(d, from, to) ==
    /\ worker[d] = from
    /\ worker' = [worker EXCEPT ![d] = to]
    /\ UNCHANGED <<disc, enabled, spc, read, runner, stopped, pressed, quiet, held>>

\* Bug to catch: the backlog is sent before the stop is looked at.
LoopHead_Drains(d) ==
    /\ WorkerStep(d, "head", IF stopped[d] /\ queue[d] = <<>> THEN "gone" ELSE "get")
    /\ UNCHANGED <<queue, inHand, sent, late>>

\* while not _stop.is_set().
LoopHead(d) ==
    /\ WorkerStep(d, "head", IF stopped[d] THEN "gone" ELSE "get")
    /\ UNCHANGED <<queue, inHand, sent, late>>

\* Bug to catch: the newest key is taken first.
GetKey_Newest(d) ==
    /\ queue[d] # <<>>
    /\ WorkerStep(d, "get", "send")
    /\ inHand' = [inHand EXCEPT ![d] = queue[d][Len(queue[d])]]
    /\ queue' = [queue EXCEPT ![d] = SubSeq(@, 1, Len(@) - 1)]
    /\ UNCHANGED <<sent, late>>

\* _q.get(timeout=0.5): a key, or Empty.
GetKey(d) ==
    /\ queue[d] # <<>>
    /\ WorkerStep(d, "get", "send")
    /\ inHand' = [inHand EXCEPT ![d] = Head(queue[d])]
    /\ queue' = [queue EXCEPT ![d] = Tail(@)]
    /\ UNCHANGED <<sent, late>>

GetTimesOut(d) ==
    /\ queue[d] = <<>>
    /\ WorkerStep(d, "get", "head")
    /\ UNCHANGED <<queue, inHand, sent, late>>

\* send_remote_key came back: whether it arrived or raised, it is not sent again.
SendKey(d) ==
    /\ WorkerStep(d, "send", "head")
    /\ sent' = [sent EXCEPT ![d] = inHand[d]]
    /\ late' = [late EXCEPT ![d] = IF stopped[d] THEN @ + 1 ELSE @]
    /\ UNCHANGED <<queue, inHand>>

Worker(d) == LoopHead(d) \/ GetKey(d) \/ GetTimesOut(d) \/ SendKey(d)

-----------------------------------------------------------------------------
(* The service loop and the runner. *)

\* _close: dlg.shutdown(); the dialog is forgotten even when closing it raises.
CloseDialog ==
    /\ dialog' = 0
    /\ stopped' = [d \in Dialogs |-> stopped[d] \/ d = dialog]
    /\ UNCHANGED <<opened, queue, worker, inHand, sent, late>>

KeepDialog == UNCHANGED <<dialog, opened, threads>>

\* PassthroughRunner.shutdown.
Shutdown ==
    /\ armed' = FALSE /\ idle' = 0 /\ armedPolls' = 0
    /\ CloseDialog
    /\ held' = 0 /\ quiet' = 0

\* The loop of main with the feature off.
LoopOff ==
    /\ spc = "loop" /\ ~enabled /\ spc' = "wait"
    /\ Shutdown
    /\ UNCHANGED <<disc, enabled, read, gaveUp, pressed>>

LoopOn ==
    /\ spc = "loop" /\ enabled /\ spc' = "tick"
    /\ UNCHANGED <<disc, enabled, read, runner, threads, pressed, quiet, held>>

\* tick reads the settings again.
TickOff ==
    /\ spc = "tick" /\ ~enabled /\ spc' = "wait"
    /\ gaveUp' = FALSE
    /\ Shutdown
    /\ UNCHANGED <<disc, enabled, read, pressed>>

\* _probe: the player's state, or no usable answer.
Probe ==
    /\ spc = "tick" /\ enabled /\ spc' = "decide"
    /\ read' \in {"idle", "unknown", "down"} \union (IF disc = "on" THEN ActiveStates ELSE {})
    /\ quiet' = IF read' \in ActiveStates THEN 0 ELSE IF quiet < IdleNeeded THEN quiet + 1 ELSE quiet
    /\ UNCHANGED <<disc, enabled, runner, threads, pressed, held>>

\* Bug to catch: one unreadable poll takes the remote away from a running disc.
ArmDecision_AtOnce == [armed |-> read \in ActiveStates, idle |-> 0]

\* passthrough.arm_decision.  Bound: the count stops at IdleNeeded, above which
\* it makes no difference.
ArmDecision ==
    IF read \in ActiveStates THEN [armed |-> TRUE, idle |-> 0]
    ELSE [armed |-> armed /\ idle + 1 < IdleNeeded,
          idle |-> IF idle < IdleNeeded THEN idle + 1 ELSE idle]

\* The latch after this read: a non-active one clears it.
StillGivenUp == gaveUp /\ read \in ActiveStates

StayClosed ==
    /\ StillGivenUp
    /\ armed' = FALSE
    /\ CloseDialog
    /\ UNCHANGED <<idle, armedPolls, gaveUp, held>>

\* Bug to catch: the ceiling does not latch.
Ceiling_Forgets ==
    /\ ~StillGivenUp /\ ArmDecision.armed
    /\ armedPolls + 1 >= MaxPolls
    /\ gaveUp' = FALSE
    /\ armed' = FALSE /\ armedPolls' = 0 /\ idle' = 0
    /\ CloseDialog
    /\ UNCHANGED held

\* The armed-time ceiling: the remote goes back to Kodi.
Ceiling ==
    /\ ~StillGivenUp /\ ArmDecision.armed
    /\ armedPolls + 1 >= MaxPolls
    /\ gaveUp' = TRUE
    /\ armed' = FALSE /\ armedPolls' = 0 /\ idle' = 0
    /\ CloseDialog
    /\ UNCHANGED held

\* Armed: a dialog is opened if there is none; when that raises, the next tick retries.
Arm ==
    /\ ~StillGivenUp /\ ArmDecision.armed
    /\ armedPolls + 1 < MaxPolls
    /\ armed' = TRUE /\ idle' = ArmDecision.idle /\ armedPolls' = armedPolls + 1
    /\ gaveUp' = FALSE
    /\ \/ dialog # 0 /\ KeepDialog
       \/ dialog = 0 /\ KeepDialog
       \/ /\ dialog = 0 /\ opened < MaxDialogs
          /\ opened' = opened + 1 /\ dialog' = opened'
          /\ worker' = [worker EXCEPT ![opened'] = "head"]
          /\ UNCHANGED <<queue, stopped, inHand, sent, late>>
    /\ held' = IF dialog' # 0 THEN held + 1 ELSE held

\* Bug to catch: the dialog stays open when the disc is over.
Disarm_KeepsDialog ==
    /\ ~StillGivenUp /\ ~ArmDecision.armed
    /\ armed' = FALSE /\ idle' = ArmDecision.idle /\ armedPolls' = 0
    /\ gaveUp' = FALSE
    /\ KeepDialog
    /\ UNCHANGED held

Disarm ==
    /\ ~StillGivenUp /\ ~ArmDecision.armed
    /\ armed' = FALSE /\ idle' = ArmDecision.idle /\ armedPolls' = 0
    /\ gaveUp' = FALSE
    /\ CloseDialog
    /\ held' = 0

Decide ==
    /\ spc = "decide" /\ spc' = "wait"
    /\ StayClosed \/ Ceiling \/ Arm \/ Disarm
    /\ read' = "down"
    /\ UNCHANGED <<disc, enabled, pressed, quiet>>

\* waitForAbort returned: the interval is over, or Kodi stops and the loop ends.
NextRound ==
    /\ spc = "wait" /\ spc' = "loop"
    /\ UNCHANGED <<disc, enabled, read, runner, threads, pressed, quiet, held>>

KodiStops ==
    /\ spc = "wait" /\ spc' = "ended"
    /\ Shutdown
    /\ UNCHANGED <<disc, enabled, read, gaveUp, pressed>>

Loop == LoopOff \/ LoopOn \/ TickOff \/ Probe \/ Decide \/ NextRound

Next ==
    \/ Loop \/ KodiStops
    \/ \E d \in Dialogs : Worker(d)
    \/ DiscChanges \/ UserToggles
    \/ \E key \in Keys : Press(key)

Spec == Init /\ [][Next]_passVars
FairSpec == Spec /\ WF_passVars(Loop) /\ \A d \in Dialogs : WF_passVars(Worker(d))

-----------------------------------------------------------------------------
(* Properties. *)

TypeOK ==
    /\ disc \in {"on", "over"} /\ enabled \in BOOLEAN
    /\ spc \in {"loop", "tick", "decide", "wait", "ended"} /\ read \in Reads
    /\ dialog \in 0 .. opened /\ opened \in 0 .. MaxDialogs
    /\ armed \in BOOLEAN /\ gaveUp \in BOOLEAN
    /\ idle \in 0 .. IdleNeeded /\ armedPolls \in 0 .. MaxPolls - 1
    /\ armed => idle < IdleNeeded
    /\ pressed \in 0 .. MaxPresses
    /\ stopped \in [Dialogs -> BOOLEAN]
    /\ worker \in [Dialogs -> {"none", "head", "get", "send", "gone"}]
    /\ inHand \in [Dialogs -> 0 .. MaxPresses] /\ sent \in [Dialogs -> 0 .. MaxPresses]
    /\ late \in [Dialogs -> Nat] /\ quiet \in 0 .. IdleNeeded /\ held \in Nat
    /\ queue \in [Dialogs -> Seq(Presses)] /\ \A d \in Dialogs : Len(queue[d]) <= QueueSize

\* Every key a worker will still send was pressed after the ones it has sent, in
\* that order: none is sent twice or out of turn (passthrough_ui.py:75-86).
Waiting(d) == IF worker[d] = "send" THEN <<inHand[d]>> \o queue[d] ELSE queue[d]

KeysInOrder ==
    \A d \in Dialogs :
        /\ \A i \in 1 .. Len(Waiting(d)) : Waiting(d)[i] > sent[d]
        /\ \A i \in 1 .. Len(Waiting(d)) : \A j \in 1 .. i - 1 : Waiting(d)[j] < Waiting(d)[i]

\* A closed dialog's worker sends at most one more key, so at most one key meant
\* for one disc reaches whatever plays next (passthrough_ui.py:75-89).
OneLateKey == \A d \in Dialogs : late[d] <= 1

\* However long the player keeps claiming to play, the remote is the player's for
\* fewer ticks than the ceiling until a real stop (passthrough_ui.py:122-149).
RemoteComesBack == held < MaxPolls

\* A tick takes the remote from a disc only after IdleNeeded non-active reads in a
\* row, at the ceiling, or because the feature is off (passthrough.py:98-107).
NotDroppedByBlips ==
    [][Decide /\ dialog # 0 /\ dialog' = 0 => quiet >= IdleNeeded \/ gaveUp']_passVars

\* Once the disc is over or the feature is off, the dialog closes, and the worker
\* of every closed dialog ends (service_cec.py:167-182).
DialogCloses ==
    /\ (disc = "over" \/ ~enabled) ~> (dialog = 0 \/ (disc = "on" /\ enabled))
    /\ \A d \in Dialogs : stopped[d] ~> worker[d] = "gone"
=============================================================================
