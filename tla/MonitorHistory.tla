--------------------------- MODULE MonitorHistory ---------------------------
(***************************************************************************)
(* The monitor under every possible stream of reads, with the reads it has *)
(* made recorded in history variables, and what its return must say about  *)
(* that history, stated without the monitor's counters.                    *)
(***************************************************************************)
EXTENDS Monitor, Sequences, FiniteSets

VARIABLES
    reads,       \* phase 2: the reads made, oldest first
    stallReads   \* phase 1: reads without playback

vars == <<mpc, idle, unknown, polls, paused, healed, verdict, reads, stallReads>>

Init == MonitorInit /\ reads = <<>> /\ stallReads = 0

Start == Begin /\ UNCHANGED <<reads, stallReads>>

Poll1 == \E playing \in BOOLEAN :
    /\ IsPlayingRead(playing)
    /\ stallReads' = IF playing THEN stallReads ELSE stallReads + 1
    /\ UNCHANGED reads

Heal == HealReturns /\ UNCHANGED <<reads, stallReads>>

Poll2 == \E state \in PlaybackStates :
    /\ WatchRead(state)
    /\ reads' = Append(reads, state)
    /\ UNCHANGED stallReads

Stop == Abort /\ UNCHANGED <<reads, stallReads>>

Finished == mpc = "done" /\ UNCHANGED vars

Next == Start \/ Poll1 \/ Heal \/ Poll2 \/ Stop \/ Finished

Spec == Init /\ [][Next]_vars

-----------------------------------------------------------------------------
(* What a history of reads says, by definition. *)

Count(s, states) == Cardinality({i \in DOMAIN s : s[i] \in states})

LastLive(s) ==
    LET live == {i \in DOMAIN s : s[i] \in {"playing", "paused"}}
    IN  IF live = {} THEN 0 ELSE CHOOSE i \in live : \A j \in live : j <= i

Stopped(s) == Count(SubSeq(s, LastLive(s) + 1, Len(s)), {"idle"}) >= Needed

Unreadable(s) ==
    /\ Len(s) >= MaxUnknown
    /\ \A i \in (Len(s) - MaxUnknown + 1) .. Len(s) : s[i] = "unknown"

\* The first reason counts where one read gives several.
Verdict(s) ==
    IF Stopped(s) THEN "stopped"
    ELSE IF Unreadable(s) THEN "unreadable"
    ELSE IF Count(s, PlaybackStates \ {"paused"}) >= MaxPolls THEN "playCeiling"
    ELSE IF Count(s, {"paused"}) >= MaxPolls THEN "pauseCeiling"
    ELSE "none"

\* Type invariant.
TypeOK == MonitorTypeOK /\ reads \in Seq(PlaybackStates) /\ stallReads \in Nat

\* The watch ends at the first read after which its history decides, and for
\* the reason the history gives: N idle reads with no sign of life between
\* them, a full run of unreadable polls, or one of the two ceilings.  No
\* interleaving of playing, paused, idle and unreadable reads makes
\* _http_watch_until_idle return early (the TV taken back from a playing
\* disc), return late, or return for another reason.
VerdictExact ==
    /\ mpc = "watching" => Verdict(reads) = "none"
    /\ verdict \in SeenVerdicts \ {"aborted"} => Verdict(reads) = verdict

\* Phase 1 gives up only after two whole windows of patience, one before the
\* auto-heal and one after it, and never re-issues the play before the first
\* of them is over.
FullPatience ==
    /\ healed => stallReads >= Grace
    /\ verdict = "nostart" => stallReads = 2 * Grace

\* The loop of phase 2 is over within 2*max_polls - 1 reads, however playing,
\* paused and unreadable reads alternate: the bound the comment in
\* _http_watch_until_idle claims, by one read better.
ReadBudget == Len(reads) <= 2 * MaxPolls - 1
=============================================================================
