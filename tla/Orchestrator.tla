---------------------------- MODULE Orchestrator ----------------------------
(***************************************************************************)
(* orchestrator.run: one playback handoff, from the file Kodi offers to    *)
(* the television's way back, with handoff.play and monitor.watch_playback *)
(* composed as the code calls them and the television switched by the      *)
(* strategy of tvswitch.make_switcher.  The player, the user and the wires *)
(* (OppoPlayer) move between any two steps.                                *)
(***************************************************************************)
EXTENDS Handoff, Monitor, Sequences

CONSTANTS
    TryJobs,      \* the files tried
    TrySettings   \* the configurations tried

\* tv_switch_method; "ir" stands for "ir" and "lirc", which blast a code both ways.
Methods == {"none", "cec", "ir", "ir_remote"}
AllSettings == [target : BOOLEAN, configured : BOOLEAN, method : Methods,
                grab : BOOLEAN, reclaim : BOOLEAN]

ASSUME TriesConfig == TryJobs \subseteq Jobs /\ TrySettings \subseteq AllSettings

\* A cold boot (20-24 s) is over before wake_and_wait (18 x 3 s) gives up.
ASSUME BootWithinWake == BootTicks <= WakeAttempts

VARIABLES
    settings,   \* what the run reads of the configuration and of the file name
    opc,        \* where run is
    accepted,   \* play_accepted
    started,    \* run's result so far
    switches,   \* history: the switches asked for
    ponLost,    \* history: a #PON did not reach the player
    stopLost,   \* history: the give-up STOP did not reach the player
    homeHeard,  \* history: the switch back to Kodi arrived
    misread     \* history: phase 2 took an unparseable status body for a status

runVars == <<settings, opc, accepted, started, switches, ponLost, stopLost, homeHeard, misread>>
vars == <<runVars, playerVars, handoffVars, monitorVars>>

Init ==
    /\ settings \in TrySettings
    /\ opc = "offered"
    /\ accepted = FALSE /\ started = FALSE
    /\ switches = <<>>
    /\ ponLost = FALSE /\ stopLost = FALSE /\ homeHeard = FALSE /\ misread = FALSE
    /\ PlayerInit /\ HandoffInit /\ MonitorInit
    /\ job \in TryJobs

Untouched == UNCHANGED <<settings, accepted, started, switches, ponLost, stopLost, homeHeard, misread>>

-----------------------------------------------------------------------------
(* Taking the file on, and the television over. *)

Taken == settings.target /\ settings.configured

\* Not a disc, or no OPPO configured: left to Kodi, nothing touched.
Decline ==
    /\ opc = "offered" /\ ~Taken
    /\ opc' = "done"
    /\ Untouched
    /\ UNCHANGED <<playerVars, handoffVars, monitorVars>>

\* Bug to catch: the clone is power-cycled like a genuine unit.
Grabs_AnyModel == settings.method = "cec" /\ settings.grab

\* CecSwitcher.to_oppo's gates.
Grabs == settings.method = "cec" /\ settings.grab /\ model # "M9207"

\* switcher.to_oppo(): an IR blast, a power cycle, or nothing at all.  The walk
\* through the television's picker (IrSwitch) may end at another input.
SwitchToOppo ==
    /\ opc = "offered" /\ Taken
    /\ switches' = Append(switches, "to_oppo")
    /\ IF Grabs
       THEN opc' = "grab" /\ UNCHANGED <<playerVars, handoffVars>>
       ELSE /\ opc' = "handoff"
            /\ CallPlay
            /\ \E arrived \in BOOLEAN, to \in {"oppo", "other"} :
                  /\ arrived => settings.method \in {"ir", "ir_remote"}
                  /\ to = "other" => arrived /\ settings.method = "ir_remote"
                  /\ TvSet(arrived, to)
    /\ UNCHANGED <<settings, accepted, started, ponLost, stopLost, homeHeard, misread, monitorVars>>

\* power_cycle: a lost #POF is survived, ...
SendPof ==
    /\ opc = "grab"
    /\ opc' = "pon"
    /\ PowerOff \/ UNCHANGED playerVars
    /\ Untouched
    /\ UNCHANGED <<handoffVars, monitorVars>>

\* ... a lost #PON raises, which grab_oppo turns into "not grabbed".
SendPon ==
    /\ opc = "pon"
    /\ opc' = "handoff"
    /\ \/ PowerOn /\ UNCHANGED ponLost
       \/ UNCHANGED playerVars /\ ponLost' = TRUE
    /\ CallPlay
    /\ UNCHANGED <<settings, accepted, started, switches, stopLost, homeHeard, misread, monitorVars>>

-----------------------------------------------------------------------------
(* Playing and watching. *)

RunsPlay ==
    /\ opc \in {"handoff", "heal"}
    /\ PlaySteps
    /\ UNCHANGED <<runVars, monitorVars>>

\* handoff.play returned (or raised): watch, or straight to the finally block.
PlayReturns ==
    /\ opc = "handoff" /\ PlayReturned
    /\ IF hpc = "accepted"
       THEN accepted' = TRUE /\ opc' = "watch" /\ Begin
       ELSE opc' = "home" /\ UNCHANGED <<accepted, monitorVars>>
    /\ UNCHANGED <<settings, started, switches, ponLost, stopLost, homeHeard, misread>>
    /\ UNCHANGED <<playerVars, handoffVars>>

\* One read of /getglobalinfo by the monitor.
WatchPolls ==
    /\ opc = "watch"
    /\ \E info \in StatusReads :
          /\ IsPlayingRead(IsPlaying(info)) \/ WatchRead(PlaybackState(info))
          /\ misread' = (misread \/ (mpc = "watching" /\ info = "raw"))
    /\ UNCHANGED <<settings, opc, accepted, started, switches, ponLost, stopLost, homeHeard>>
    /\ UNCHANGED <<playerVars, handoffVars>>

\* Bug to catch: the auto-heal power-cycles the player again.
StartHeal_Regrabs ==
    /\ opc = "watch" /\ mpc = "healing"
    /\ opc' = IF Grabs THEN "grab" ELSE "heal"
    /\ IF Grabs THEN UNCHANGED handoffVars ELSE CallPlay
    /\ Untouched
    /\ UNCHANGED <<playerVars, monitorVars>>

\* on_stall: the whole of handoff.play once more.
StartHeal ==
    /\ opc = "watch" /\ mpc = "healing"
    /\ opc' = "heal"
    /\ CallPlay
    /\ Untouched
    /\ UNCHANGED <<playerVars, monitorVars>>

EndHeal ==
    /\ opc = "heal" /\ PlayReturned
    /\ opc' = "watch"
    /\ HealReturns
    /\ Untouched
    /\ UNCHANGED <<playerVars, handoffVars>>

\* Bug to catch: no STOP when the watch gives up.
WatchReturns_NoStop ==
    /\ opc = "watch" /\ mpc = "done"
    /\ started' = Observed /\ opc' = "home"
    /\ Forget
    /\ UNCHANGED <<settings, accepted, switches, ponLost, stopLost, homeHeard, misread>>
    /\ UNCHANGED <<playerVars, handoffVars>>

\* Bug to catch: the STOP is sent after every watch.
WatchReturns_AlwaysStops ==
    /\ opc = "watch" /\ mpc = "done"
    /\ started' = Observed /\ opc' = "stop"
    /\ Forget
    /\ UNCHANGED <<settings, accepted, switches, ponLost, stopLost, homeHeard, misread>>
    /\ UNCHANGED <<playerVars, handoffVars>>

WatchReturns ==
    /\ opc = "watch" /\ mpc = "done"
    /\ started' = Observed
    /\ opc' = IF accepted /\ ~started' THEN "stop" ELSE "home"
    /\ Forget
    /\ UNCHANGED <<settings, accepted, switches, ponLost, stopLost, homeHeard, misread>>
    /\ UNCHANGED <<playerVars, handoffVars>>

-----------------------------------------------------------------------------
(* The finally block. *)

\* The give-up STOP, best effort.
GiveUpStop ==
    /\ opc = "stop"
    /\ opc' = "home"
    /\ \E done \in BOOLEAN, reply \in Replies :
          /\ Exchange(done, reply)
          /\ DeckSet(done, "idle")
          /\ stopLost' = ~done
    /\ UNCHANGED <<settings, accepted, started, switches, ponLost, homeHeard, misread>>
    /\ UNCHANGED <<handoffVars, monitorVars>>

\* Whether to_kodi does anything: an IR code, or Kodi's own CEC reclaim.
Reclaims ==
    \/ settings.method = "ir"
    \/ settings.method \in {"cec", "ir_remote"} /\ settings.reclaim

\* switcher.to_kodi(), and run returns.
SwitchToKodi ==
    /\ opc = "home"
    /\ opc' = "done"
    /\ switches' = Append(switches, "to_kodi")
    /\ \E arrived \in BOOLEAN :
          /\ arrived => Reclaims
          /\ TvSet(arrived, "kodi")
          /\ homeHeard' = arrived
    /\ UNCHANGED <<settings, accepted, started, ponLost, stopLost, misread>>
    /\ UNCHANGED <<handoffVars, monitorVars>>

-----------------------------------------------------------------------------
Bridge ==
    \/ Decline \/ SwitchToOppo \/ SendPof \/ SendPon
    \/ RunsPlay \/ PlayReturns
    \/ WatchPolls \/ StartHeal \/ EndHeal \/ WatchReturns
    \/ GiveUpStop \/ SwitchToKodi

Elsewhere == World /\ UNCHANGED <<runVars, handoffVars, monitorVars>>

Next == Bridge \/ Elsewhere

Spec == Init /\ [][Next]_vars

\* The bridge is one process whose every wait is bounded by a timeout or a
\* sleep, so it keeps taking steps; the player and the user owe it nothing.
FairSpec == Spec /\ WF_vars(Bridge)

-----------------------------------------------------------------------------
(* Properties. *)

RunTypeOK ==
    /\ settings \in TrySettings
    /\ opc \in {"offered", "grab", "pon", "handoff", "watch", "heal", "stop", "home", "done"}
    /\ accepted \in BOOLEAN /\ started \in BOOLEAN
    /\ switches \in Seq({"to_oppo", "to_kodi"})
    /\ ponLost \in BOOLEAN /\ stopLost \in BOOLEAN
    /\ homeHeard \in BOOLEAN /\ misread \in BOOLEAN

\* Type invariant of the run and its parts: the counters of a loop stay below
\* its limit while it runs.
TypeOK == PlayerTypeOK /\ HandoffTypeOK /\ MonitorTypeOK /\ RunTypeOK

\* A play request reaches the wire only while the player really holds the
\* mount: an affirmed mount was really made, whatever was lost or mangled on
\* the way, and a reply that only fails to say no is not taken for one
\* (handoff.play, the corruption-safety comment above the mount loop).
NoPlayIntoBadMount == [][plays' > plays => nfs]_vars

\* A run makes at most two mount requests and two play requests per call of
\* handoff.play, and at most two calls: hammering mounts corrupts the OPPO's
\* NFS client.
RequestBudget ==
    LET calls == IF healed THEN 2 ELSE 1
    IN  mounts <= 2 * calls /\ plays <= 2 * calls

\* A power cycle never leaves the player asleep unless its #PON was lost on
\* the way: a lost #POF does not skip the #PON, and the cycle is not applied to
\* a clone, whose #PON would not wake it (cec.grab_supported).
NeverLeftAsleep ==
    [][opc = "pon" /\ opc' = "handoff" => power' # "standby" \/ ponLost']_vars

\* Once a mappable file has been handed over, the television is not taken
\* back before the player's own One-Touch-Play has fired: after the reclaim
\* arrived nothing but the user moves the television, so it shows Kodi.
TvComesHome ==
    LET mapped == wakes > 0 \/ mounts > 0 \/ hpc = "raised"
    IN  opc = "done" /\ homeHeard /\ mapped
            => power # "booting" /\ (tvBy # "user" => tv = "kodi")

\* When the watch gives up on a play the OPPO had accepted, nothing is left
\* running or about to run on it unless the STOP itself was lost, although
\* the auto-heal may have issued the play again.
GiveUpClears == opc = "done" /\ accepted /\ ~started /\ ~stopLost => deck = "idle"

\* After a watch that saw playback, Kodi takes the television from a disc
\* that still plays or is paused only for an unreadable player or a watch
\* ceiling: a transport blip is never taken for a stop.  Status bodies that
\* do not parse are the exception (see StopsAreConfirmed).
NoReclaimUnderPlayback ==
    opc = "home" /\ started /\ ~misread /\ deck \in {"playing", "paused"}
        => verdict \in {"unreadable", "playCeiling", "pauseCeiling"}

\* From the accepted play to the reclaim the television's input changes only
\* by the user's hand: nothing the run does in between, the auto-heal
\* included, overrides a manual input change.
ManualChangeSticks == [][accepted /\ opc # "home" /\ tv' # tv => tvBy' = "user"]_vars

Handing ==
    INSTANCE Handover WITH
        stage <- CASE opc = "offered" -> "offered"
                   [] opc \in {"grab", "pon", "handoff", "watch", "heal"} -> "engaged"
                   [] opc = "stop" -> "abandoned"
                   [] opc = "home" -> "ending"
                   [] opc = "done" -> "over",
        seen <- started

\* The run implements the contract of Handover.
ImplementsHandover == Handing!Spec

-----------------------------------------------------------------------------
(* What the documentation says and the code does not do. *)

\* orchestrator.py, above the give-up STOP: a run that never saw playback
\* leaves nothing in flight on the OPPO, unless the STOP is lost.
NothingLeftInFlight ==
    opc = "done" /\ ~started /\ ~stopLost /\ plays > 0 => deck \notin {"loading", "playing"}

\* docs/ARCHITECTURE.md, step 9: whether playback succeeded or failed, the
\* reclaim brings the television back to Kodi's input.
TvReturns == opc = "done" /\ homeHeard /\ tvBy # "user" => tv = "kodi"

\* monitor.py, _http_watch_until_idle: only a confirmed-idle read counts
\* toward the idle confirmations, so a disc that still plays is not reclaimed
\* on the verdict that it stopped.
StopsAreConfirmed ==
    opc = "home" /\ verdict = "stopped" => deck \notin {"playing", "paused"}
=============================================================================
