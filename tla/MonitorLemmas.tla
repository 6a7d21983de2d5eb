--------------------------- MODULE MonitorLemmas ---------------------------
(***************************************************************************)
(* What each step of the monitor does to its control state, whatever       *)
(* drives it.  The theorems about the monitor alone (MonitorProofs) and    *)
(* about the whole run (OrchestratorProofs) rest on these.                 *)
(***************************************************************************)
EXTENDS Monitor, TLAPS

\* The limits watch_playback derives from any configuration are positive, so
\* no loop of it is over before its first read.
LEMMA LimitsPositive ==
    /\ Grace \in Nat \ {0} /\ Needed \in Nat \ {0}
    /\ MaxUnknown \in Nat \ {0} /\ MaxPolls \in Nat \ {0}
<1>1. Interval \in Nat \ {0}
  BY MonitorConfig DEF Interval, Larger
<1>2. ASSUME NEW n \in Nat PROVE n \div Interval \in Nat
  BY <1>1, SMTT(30)
<1>3. GraceSeconds \div Interval \in Nat /\ MaxWatchSeconds \div Interval \in Nat
  BY <1>2, MonitorConfig
<1>4. Grace \in Nat \ {0}
  BY <1>3, MonitorConfig DEF Grace, OrOne, Larger
<1>5. MaxPolls \in Nat \ {0}
  BY <1>3 DEF MaxPolls, Larger
<1>6. Needed \in Nat \ {0} /\ MaxUnknown \in Nat \ {0}
  BY MonitorConfig DEF Needed, MaxUnknown, Larger
<1>7. QED
  BY <1>4, <1>5, <1>6

\* Phase 1: a read without playback either waits on, or is the Grace-th one
\* and heals or gives up.
LEMMA SeeNothingStep ==
    ASSUME MonitorTypeOK, SeeNothing
    PROVE  /\ MonitorTypeOK'
           /\ mpc = "starting" /\ idle' = idle + 1 /\ verdict = "none"
           /\ UNCHANGED <<unknown, polls, paused>>
           /\ \/ mpc' = "starting" /\ healed' = healed /\ verdict' = "none"
              \/ mpc' = "healing" /\ idle' = Grace /\ ~healed /\ healed' /\ verdict' = "none"
              \/ mpc' = "done" /\ idle' = Grace /\ healed /\ healed' /\ verdict' = "nostart"
<1> USE LimitsPositive
<1>1. mpc = "starting" /\ idle \in Nat /\ idle < Grace /\ idle' = idle + 1 /\ verdict = "none"
      /\ UNCHANGED <<unknown, polls, paused>>
  BY DEF SeeNothing, MonitorTypeOK
<1>2. CASE ~OutOfPatience(idle')
  <2>1. UNCHANGED <<mpc, healed, verdict>> /\ idle' < Grace
    BY <1>1, <1>2 DEF SeeNothing, OutOfPatience
  <2>2. QED
    BY <1>1, <2>1 DEF MonitorTypeOK
<1>3. CASE OutOfPatience(idle') /\ ~healed
  <2>1. mpc' = "healing" /\ healed' = TRUE /\ verdict' = verdict /\ idle' = Grace
    BY <1>1, <1>3 DEF SeeNothing, OutOfPatience
  <2>2. QED
    BY <1>1, <1>3, <2>1 DEF MonitorTypeOK
<1>4. CASE OutOfPatience(idle') /\ healed
  <2>1. mpc' = "done" /\ verdict' = "nostart" /\ healed' = healed
    BY <1>1, <1>4 DEF SeeNothing, Return
  <2>2. idle' = Grace
    BY <1>1, <1>4 DEF OutOfPatience
  <2>3. MonitorTypeOK'
    BY <1>1, <2>1, <2>2 DEF MonitorTypeOK, SeenVerdicts, UnseenVerdicts
  <2>4. QED
    BY <1>1, <1>4, <2>1, <2>2, <2>3
<1>5. healed \in BOOLEAN
  BY DEF MonitorTypeOK
<1>6. QED
  BY <1>2, <1>3, <1>4, <1>5

\* Phase 1: a read of playback opens phase 2 with fresh counters.
LEMMA SeePlayingStep ==
    ASSUME MonitorTypeOK, SeePlaying
    PROVE  /\ MonitorTypeOK'
           /\ mpc = "starting" /\ mpc' = "watching" /\ verdict' = "none"
           /\ healed' = healed /\ polls' = 0 /\ paused' = 0
  BY LimitsPositive DEF MonitorTypeOK, SeePlaying

\* Phase 2: every read is charged to exactly one of the two ceilings, or is
\* the one that ends the watch; "stopped" is only ever said on an idle read.
LEMMA WatchReadStep ==
    ASSUME MonitorTypeOK, NEW state \in PlaybackStates, WatchRead(state)
    PROVE  /\ MonitorTypeOK'
           /\ mpc = "watching" /\ verdict = "none" /\ healed' = healed
           /\ \/ mpc' = "watching" /\ verdict' = "none" /\ polls' + paused' = polls + paused + 1
              \/ mpc' = "done" /\ verdict' \in SeenVerdicts \ {"aborted"}
           /\ verdict' = "stopped" => state = "idle"
<1> USE LimitsPositive DEF MonitorTypeOK, SeenVerdicts, UnseenVerdicts, ChargePoll, Return
<1>1. mpc = "watching" /\ UNCHANGED healed
  BY DEF WatchRead
<1>2. CASE state = "paused"
  BY <1>1, <1>2 DEF WatchRead, ReadPaused
<1>3. CASE state = "playing"
  BY <1>1, <1>3 DEF WatchRead, ReadPlaying
<1>4. CASE state = "idle"
  BY <1>1, <1>4 DEF WatchRead, ReadIdle
<1>5. CASE state = "unknown"
  BY <1>1, <1>5 DEF WatchRead, ReadUnknown
<1>6. QED
  BY <1>2, <1>3, <1>4, <1>5 DEF PlaybackStates
=============================================================================
