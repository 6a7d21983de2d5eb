------------------------------ MODULE Monitor ------------------------------
(***************************************************************************)
(* monitor.watch_playback: the poll loop that decides when a disc handed   *)
(* to the OPPO has stopped.  Phase 1 ("starting") waits for playback to    *)
(* start and re-issues the play once when it does not; phase 2             *)
(* ("watching") waits for it to stop.  Each action is one iteration of a   *)
(* loop: the read of the player is its argument, so that any environment   *)
(* can drive the monitor.  Sleeping between reads changes no state.        *)
(***************************************************************************)
EXTENDS Integers

CONSTANTS
    PollInterval,       \* config.poll_interval, whole seconds
    GraceSeconds,       \* config.playback_start_grace_seconds
    IdleConfirmations,  \* config.idle_confirmations
    MaxReadFailures,    \* config.max_read_failures
    MaxWatchSeconds,    \* config.max_watch_seconds
    CanAbort            \* whether the caller's should_abort() may turn true

ASSUME MonitorConfig ==
    /\ PollInterval \in Nat
    /\ GraceSeconds \in Nat
    /\ IdleConfirmations \in Nat
    /\ MaxReadFailures \in Nat
    /\ MaxWatchSeconds \in Nat
    /\ CanAbort \in BOOLEAN

Larger(a, b) == IF a >= b THEN a ELSE b

Interval == Larger(2, PollInterval)
OrOne(n) == IF n = 0 THEN 1 ELSE n
Grace == Larger(IdleConfirmations, OrOne(GraceSeconds \div Interval))
Needed == Larger(1, IdleConfirmations)
MaxUnknown == Larger(Needed, MaxReadFailures)
MaxPolls == Larger(1, MaxWatchSeconds \div Interval)

VARIABLES
    mpc,      \* where watch_playback is
    idle,     \* phase 1: reads without playback; phase 2: confirmed-idle reads
    unknown,  \* phase 2: unreadable polls in a row
    polls,    \* phase 2: polls charged to the watch ceiling
    paused,   \* phase 2: polls charged to the pause ceiling
    healed,   \* the play was re-issued once
    verdict   \* which return the function took

monitorVars == <<mpc, idle, unknown, polls, paused, healed, verdict>>

PlaybackStates == {"playing", "paused", "idle", "unknown"}
SeenVerdicts == {"stopped", "unreadable", "playCeiling", "pauseCeiling", "aborted"}
UnseenVerdicts == {"nostart", "abortedEarly"}

\* Type invariant: the counters stay below the limits while the loop runs.
MonitorTypeOK ==
    /\ mpc \in {"off", "starting", "healing", "watching", "done"}
    /\ idle \in Nat /\ unknown \in Nat
    /\ polls \in 0 .. MaxPolls /\ paused \in 0 .. MaxPolls
    /\ mpc = "off" => idle = 0
    /\ mpc \in {"starting", "healing"} => idle <= Grace
    /\ mpc = "starting" => idle < Grace
    /\ mpc = "watching" => /\ idle < Needed /\ unknown < MaxUnknown
                           /\ polls < MaxPolls /\ paused < MaxPolls
    /\ healed \in BOOLEAN
    /\ verdict \in {"none"} \union SeenVerdicts \union UnseenVerdicts
    /\ verdict # "none" <=> mpc = "done"

\* The function's return value: playback was observed at all.
Observed == verdict \in SeenVerdicts

MonitorInit ==
    /\ mpc = "off"
    /\ idle = 0 /\ unknown = 0 /\ polls = 0 /\ paused = 0
    /\ healed = FALSE
    /\ verdict = "none"

Return(v) == mpc' = "done" /\ verdict' = v

\* The counters are locals of the function: they are gone once it returned.
Forget ==
    /\ idle' = 0 /\ unknown' = 0 /\ polls' = 0 /\ paused' = 0
    /\ UNCHANGED <<mpc, healed, verdict>>

Begin ==
    /\ mpc = "off"
    /\ mpc' = "starting"
    /\ UNCHANGED <<idle, unknown, polls, paused, healed, verdict>>

-----------------------------------------------------------------------------
(* Phase 1. *)

\* Bug to catch: one read too many.
OutOfPatience_OffByOne(n) == n > Grace

OutOfPatience(n) == n >= Grace

\* client.is_playing() was true: phase 2 starts with fresh counters.
SeePlaying ==
    /\ mpc = "starting"
    /\ mpc' = "watching"
    /\ idle' = 0 /\ unknown' = 0 /\ polls' = 0 /\ paused' = 0
    /\ UNCHANGED <<healed, verdict>>

\* client.is_playing() was false.
SeeNothing ==
    /\ mpc = "starting"
    /\ idle' = idle + 1
    /\ \/ /\ ~OutOfPatience(idle')
          /\ UNCHANGED <<mpc, healed, verdict>>
       \/ /\ OutOfPatience(idle') /\ ~healed
          /\ healed' = TRUE
          /\ mpc' = "healing"
          /\ UNCHANGED verdict
       \/ /\ OutOfPatience(idle') /\ healed
          /\ Return("nostart")
          /\ UNCHANGED healed
    /\ UNCHANGED <<unknown, polls, paused>>

IsPlayingRead(playing) == IF playing THEN SeePlaying ELSE SeeNothing

\* Bug to catch: the second grace window starts where the first one ended.
HealReturns_KeepsIdle ==
    /\ mpc = "healing"
    /\ mpc' = "starting"
    /\ UNCHANGED <<idle, unknown, polls, paused, healed, verdict>>

\* on_stall() came back: its result is ignored, an exception is swallowed.
HealReturns ==
    /\ mpc = "healing"
    /\ mpc' = "starting"
    /\ idle' = 0
    /\ UNCHANGED <<unknown, polls, paused, healed, verdict>>

-----------------------------------------------------------------------------
(* Phase 2. *)

\* The tail of the loop body: charge the poll to the watch ceiling.
ChargePoll ==
    /\ polls' = polls + 1
    /\ IF polls' >= MaxPolls THEN Return("playCeiling") ELSE UNCHANGED <<mpc, verdict>>

\* Bug to catch: a paused read leaves the idle confirmations standing.
ReadPaused_KeepsIdle ==
    /\ unknown' = 0
    /\ paused' = paused + 1
    /\ IF paused' >= MaxPolls THEN Return("pauseCeiling") ELSE UNCHANGED <<mpc, verdict>>
    /\ UNCHANGED <<idle, polls>>

ReadPaused ==
    /\ idle' = 0 /\ unknown' = 0
    /\ paused' = paused + 1
    /\ IF paused' >= MaxPolls THEN Return("pauseCeiling") ELSE UNCHANGED <<mpc, verdict>>
    /\ UNCHANGED polls

\* Bug to catch: the paused budget starts again whenever the disc plays.
ReadPlaying_ForgetsPauses ==
    /\ idle' = 0 /\ unknown' = 0
    /\ paused' = 0
    /\ ChargePoll

ReadPlaying ==
    /\ idle' = 0 /\ unknown' = 0
    /\ ChargePoll
    /\ UNCHANGED paused

ReadIdle ==
    /\ unknown' = 0
    /\ idle' = idle + 1
    /\ IF idle' >= Needed THEN Return("stopped") /\ UNCHANGED polls ELSE ChargePoll
    /\ UNCHANGED paused

ReadUnknown ==
    /\ unknown' = unknown + 1
    /\ IF unknown' >= MaxUnknown THEN Return("unreadable") /\ UNCHANGED polls ELSE ChargePoll
    /\ UNCHANGED <<idle, paused>>

WatchRead(state) ==
    /\ mpc = "watching"
    /\ CASE state = "paused" -> ReadPaused
         [] state = "playing" -> ReadPlaying
         [] state = "idle" -> ReadIdle
         [] state = "unknown" -> ReadUnknown
    /\ UNCHANGED healed

\* should_abort() is looked at before every read, in both phases.
Abort ==
    /\ CanAbort
    /\ \/ mpc = "starting" /\ Return("abortedEarly")
       \/ mpc = "watching" /\ Return("aborted")
    /\ UNCHANGED <<idle, unknown, polls, paused, healed>>
=============================================================================
