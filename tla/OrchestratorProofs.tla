------------------------- MODULE OrchestratorProofs -------------------------
(***************************************************************************)
(* Theorems about one whole run of the bridge, for every player, every     *)
(* configuration and every file: type correctness and the safety           *)
(* properties of Orchestrator, from one inductive invariant.               *)
(***************************************************************************)
EXTENDS Orchestrator, MonitorLemmas

-----------------------------------------------------------------------------
(* Type correctness.  It is inductive by itself. *)

\* The player keeps its type whatever the bridge, the user or a disc does to it.
LEMMA WorldType ==
    ASSUME PlayerTypeOK, World
    PROVE  PlayerTypeOK'
<1> USE PlayerConfig DEF PlayerTypeOK
<1>1. CASE power = "booting" /\ BootDone
  BY <1>1 DEF BootDone
<1>2. CASE DeckMoves
  BY <1>2 DEF DeckMoves
<1>3. CASE UserSwitchesTv
  BY <1>3 DEF UserSwitchesTv
<1>4. QED
  BY <1>1, <1>2, <1>3 DEF World

\* handoff.play keeps the player's type and its own.
LEMMA PlayStepsType ==
    ASSUME PlayerTypeOK, HandoffTypeOK, PlaySteps
    PROVE  PlayerTypeOK' /\ HandoffTypeOK'
<1> USE PlayerConfig, WakeConfig DEF PlayerTypeOK, HandoffTypeOK, Go
<1>1. CASE MapPath
  BY <1>1 DEF MapPath, playerVars
<1>2. CASE WakeTry
  <2>1. CASE ApiWakes /\ api' /\ Go("init")
    <3>1. api' => power = "on"
      BY <2>1 DEF ApiWakes
    <3>2. PlayerTypeOK'
      BY <2>1, <3>1 DEF ApiWakes
    <3>3. HandoffTypeOK'
      BY <1>2, <2>1 DEF WakeTry
    <3>4. QED
      BY <3>2, <3>3
  <2>2. CASE IntervalPasses /\ wakes' = wakes + 1 /\ UNCHANGED <<job, hpc, attempt, mounts, plays>>
    <3>1. PlayerTypeOK'
      BY <2>2 DEF IntervalPasses, BootDone
    <3>2. HandoffTypeOK'
      BY <1>2, <2>2 DEF WakeTry
    <3>3. QED
      BY <3>1, <3>2
  <2>3. QED
    BY <1>2, <2>1, <2>2 DEF WakeTry
<1>3. CASE WakeLast
  BY <1>3 DEF WakeLast, playerVars
<1>4. CASE InitDance
  BY <1>4 DEF InitDance, playerVars
<1>5. CASE Mount
  <2>1. PICK done \in BOOLEAN, reply \in Replies :
            /\ Exchange(done, reply)
            /\ MountDone(done)
            /\ IF ReplySucceeded(reply) THEN hpc' = PlayStep /\ UNCHANGED attempt ELSE MountFailed
    BY <1>5 DEF Mount
  <2>2. PlayerTypeOK'
    BY <2>1 DEF Exchange, MountDone
  <2>3. job.kind \in Kinds
    BY DEF Jobs
  <2>4. HandoffTypeOK'
    BY <1>5, <2>1, <2>3 DEF Mount, MountFailed, PlayStep, Kinds
  <2>5. QED
    BY <2>2, <2>4
<1>6. CASE MountRaises
  BY <1>6 DEF MountRaises, playerVars
<1>7. ASSUME NEW yes \in {"accepted", "playfile"}, NEW no \in {"playfile", "refused"},
             PlayRequest(yes, no)
      PROVE  PlayerTypeOK' /\ HandoffTypeOK'
  BY <1>7 DEF PlayRequest, Exchange, DeckSet
<1>8. CASE ClearDeck
  BY <1>8 DEF ClearDeck, Exchange, DeckSet
<1>9. QED
  BY <1>1, <1>2, <1>3, <1>4, <1>5, <1>6, <1>7, <1>8 DEF PlaySteps, PlayBdmv, PlayFile

\* The run starts in type.
LEMMA InitType == Init => TypeOK
<1> SUFFICES ASSUME Init PROVE TypeOK
  OBVIOUS
<1>1. PlayerTypeOK
  <2>1. boot \in 0 .. BootTicks /\ (boot > 0 <=> power = "booting")
    BY PlayerConfig DEF Init, PlayerInit
  <2>2. QED
    BY <2>1 DEF Init, PlayerInit, PlayerTypeOK
<1>2. HandoffTypeOK
  BY WakeConfig DEF Init, HandoffInit, HandoffTypeOK
<1>3. MonitorTypeOK
  <2>1. 0 \in 0 .. MaxPolls /\ (verdict # "none" <=> mpc = "done")
    BY LimitsPositive DEF Init, MonitorInit
  <2>2. QED
    BY <2>1, LimitsPositive DEF Init, MonitorInit, MonitorTypeOK, SeenVerdicts, UnseenVerdicts
<1>4. switches \in Seq({"to_oppo", "to_kodi"})
  BY DEF Init
<1>5. QED
  BY <1>1, <1>2, <1>3, <1>4, Zenon DEF Init, TypeOK, RunTypeOK

\* Every step keeps the types.
LEMMA NextType == TypeOK /\ [Next]_vars => TypeOK'
<1> SUFFICES ASSUME TypeOK, [Next]_vars PROVE TypeOK'
  OBVIOUS
<1> USE PlayerConfig, WakeConfig, LimitsPositive
    DEF TypeOK, RunTypeOK, Untouched, vars, runVars
<1>1. PlayerTypeOK' /\ HandoffTypeOK' /\ MonitorTypeOK'
  <2>1. UNCHANGED playerVars => PlayerTypeOK'
    BY DEF playerVars, PlayerTypeOK
  <2>2. UNCHANGED handoffVars => HandoffTypeOK'
    BY DEF handoffVars, HandoffTypeOK
  <2>3. UNCHANGED monitorVars => MonitorTypeOK'
    BY DEF monitorVars, MonitorTypeOK
  <2>4. CallPlay => HandoffTypeOK'
    BY DEF CallPlay, HandoffTypeOK
  <2>5. ASSUME NEW arrived \in BOOLEAN, NEW to \in {"oppo", "kodi", "other"}, TvSet(arrived, to)
        PROVE  PlayerTypeOK'
    BY <2>5 DEF TvSet, PlayerTypeOK
  <2>6. CASE Decline
    BY <2>1, <2>2, <2>3, <2>6 DEF Decline
  <2>7. CASE SwitchToOppo
    BY <2>1, <2>2, <2>3, <2>4, <2>5, <2>7 DEF SwitchToOppo
  <2>8. CASE SendPof
    <3>1. PowerOff => boot' \in 0 .. BootTicks /\ (boot' > 0 <=> power' = "booting")
      BY DEF PowerOff
    <3>2. PowerOff => PlayerTypeOK'
      BY <3>1 DEF PowerOff, PlayerTypeOK
    <3>3. QED
      BY <2>1, <2>2, <2>3, <2>8, <3>2 DEF SendPof
  <2>9. CASE SendPon
    <3>1. PowerOn => PlayerTypeOK'
      BY DEF PowerOn, PlayerTypeOK, playerVars
    <3>2. QED
      BY <2>1, <2>3, <2>4, <2>9, <3>1 DEF SendPon
  <2>10. CASE RunsPlay
    BY <2>3, <2>10, PlayStepsType DEF RunsPlay
  <2>11. CASE PlayReturns
    <3>1. Begin => (verdict' # "none" <=> mpc' = "done")
      BY DEF Begin, MonitorTypeOK
    <3>2. Begin => MonitorTypeOK'
      BY <3>1 DEF Begin, MonitorTypeOK
    <3>3. QED
      BY <2>1, <2>2, <2>3, <2>11, <3>2 DEF PlayReturns
  <2>12. CASE WatchPolls
    <3>1. PICK info \in StatusReads :
              IsPlayingRead(IsPlaying(info)) \/ WatchRead(PlaybackState(info))
      BY <2>12 DEF WatchPolls
    <3>2. PlaybackState(info) \in PlaybackStates
      BY DEF PlaybackState, PlaybackStates
    <3>3. MonitorTypeOK'
      BY <3>1, <3>2, SeePlayingStep, SeeNothingStep, WatchReadStep DEF IsPlayingRead
    <3>4. QED
      BY <2>1, <2>2, <2>12, <3>3 DEF WatchPolls
  <2>13. CASE StartHeal
    BY <2>1, <2>3, <2>4, <2>13 DEF StartHeal
  <2>14. CASE EndHeal
    <3>1. HealReturns => MonitorTypeOK'
      BY DEF HealReturns, MonitorTypeOK
    <3>2. QED
      BY <2>1, <2>2, <2>14, <3>1 DEF EndHeal
  <2>15. CASE WatchReturns
    <3>1. mpc = "done" /\ Forget => MonitorTypeOK'
      BY DEF Forget, MonitorTypeOK
    <3>2. QED
      BY <2>1, <2>2, <2>15, <3>1 DEF WatchReturns
  <2>16. CASE GiveUpStop
    <3>1. ASSUME NEW done \in BOOLEAN, NEW reply \in Replies, Exchange(done, reply),
                 DeckSet(done, "idle")
          PROVE  PlayerTypeOK'
      BY <3>1 DEF DeckSet, PlayerTypeOK
    <3>2. QED
      BY <2>2, <2>3, <2>16, <3>1 DEF GiveUpStop
  <2>17. CASE SwitchToKodi
    BY <2>2, <2>3, <2>5, <2>17 DEF SwitchToKodi
  <2>18. CASE Elsewhere
    BY <2>2, <2>3, <2>18, WorldType DEF Elsewhere
  <2>19. CASE UNCHANGED vars
    BY <2>1, <2>2, <2>3, <2>19
  <2>20. QED
    BY <2>6, <2>7, <2>8, <2>9, <2>10, <2>11, <2>12, <2>13, <2>14, <2>15, <2>16, <2>17, <2>18,
       <2>19 DEF Next, Bridge
<1>2. RunTypeOK'
  <2>1. CASE Decline
    BY <2>1 DEF Decline
  <2>2. CASE SwitchToOppo
    BY <2>2 DEF SwitchToOppo
  <2>3. CASE SendPof \/ SendPon
    BY <2>3 DEF SendPof, SendPon
  <2>4. CASE RunsPlay \/ Elsewhere \/ UNCHANGED vars
    BY <2>4 DEF RunsPlay, Elsewhere
  <2>5. CASE PlayReturns
    BY <2>5 DEF PlayReturns
  <2>6. CASE WatchPolls
    BY <2>6 DEF WatchPolls
  <2>7. CASE StartHeal \/ EndHeal
    BY <2>7 DEF StartHeal, EndHeal
  <2>8. CASE WatchReturns
    BY <2>8 DEF WatchReturns, Observed
  <2>9. CASE GiveUpStop
    BY <2>9 DEF GiveUpStop
  <2>10. CASE SwitchToKodi
    BY <2>10 DEF SwitchToKodi
  <2>11. QED
    BY <2>1, <2>2, <2>3, <2>4, <2>5, <2>6, <2>7, <2>8, <2>9, <2>10 DEF Next, Bridge
<1>3. QED
  BY <1>1, <1>2

-----------------------------------------------------------------------------
(* The inductive invariant. *)

\* How the program counters of run, play and watch_playback go together.
Control ==
    /\ opc \in {"offered", "grab", "pon"} =>
          hpc = "off" /\ mpc = "off" /\ wakes = 0 /\ mounts = 0 /\ plays = 0
    /\ opc \in {"grab", "pon"} => Grabs
    /\ opc \in {"handoff", "heal"} => hpc # "off"
    /\ opc \in {"watch", "stop", "home"} => PlayReturned
    /\ opc = "watch" => mpc \in {"starting", "healing", "watching", "done"}
    /\ opc = "heal" => mpc = "healing"
    /\ opc \in {"handoff", "home", "done"} => mpc \in {"off", "done"}
    /\ opc = "handoff" => mpc = "off"
    /\ opc = "stop" => mpc = "done" /\ verdict \notin SeenVerdicts
    /\ mpc = "off" => ~healed
    /\ mpc = "healing" => healed
    /\ verdict \notin {"aborted", "abortedEarly"}
    /\ accepted => mpc # "off"
    /\ mpc # "off" => accepted
    /\ started => opc \in {"home", "done"} /\ verdict \in SeenVerdicts
    /\ opc \in {"home", "done"} /\ verdict \in SeenVerdicts => started
    /\ homeHeard => opc = "done"

\* The television switches asked for, by the place run is at.
Switching ==
    /\ opc = "offered" => switches = <<>>
    /\ opc \notin {"offered", "done"} => switches = Append(<<>>, "to_oppo")

\* The run starts with its parts outside their functions and no switch asked for.
LEMMA InitControl == Init => Control /\ Switching
  BY DEF Init, MonitorInit, HandoffInit, Control, Switching, SeenVerdicts, PlayReturned

\* A step of play starts inside it and ends inside it or at its return.
LEMMA PlayStepsInside ==
    ASSUME HandoffTypeOK, PlaySteps
    PROVE  hpc # "off" /\ ~PlayReturned /\ hpc' # "off" /\ model' = model
<1> USE DEF PlayReturned, Go, playerVars
<1>1. CASE MapPath \/ WakeLast \/ InitDance \/ MountRaises
  BY <1>1 DEF MapPath, WakeLast, InitDance, MountRaises
<1>2. CASE WakeTry
  BY <1>2 DEF WakeTry, IntervalPasses, BootDone, ApiWakes
<1>3. CASE Mount
  BY <1>3 DEF HandoffTypeOK, Jobs, Kinds, Mount, MountDone, MountFailed, PlayStep
<1>4. CASE PlayBdmv
  BY <1>4 DEF PlayBdmv, PlayRequest, DeckSet
<1>5. CASE ClearDeck
  BY <1>5 DEF ClearDeck, DeckSet
<1>6. CASE PlayFile
  BY <1>6 DEF PlayFile, PlayRequest, DeckSet
<1>7. QED
  BY <1>1, <1>2, <1>3, <1>4, <1>5, <1>6 DEF PlaySteps

\* Every step keeps the callers and the called in agreement.
LEMMA NextControl == TypeOK /\ Control /\ [Next]_vars => Control'
<1> SUFFICES ASSUME TypeOK, Control, [Next]_vars PROVE Control'
  OBVIOUS
<1> USE DEF Control, SeenVerdicts, PlayReturned, Untouched, handoffVars, monitorVars
<1>0. mpc = "off" => verdict = "none"
  BY DEF TypeOK, MonitorTypeOK
<1>1. CASE Decline
  BY <1>0, <1>1 DEF Decline
<1>2. CASE SwitchToOppo
  BY <1>2 DEF SwitchToOppo, CallPlay, Grabs, TvSet, playerVars
<1>3. CASE SendPof
  BY <1>3 DEF SendPof, Grabs, PowerOff, playerVars
<1>4. CASE SendPon
  BY <1>4 DEF SendPon, CallPlay
<1>5. CASE RunsPlay
  BY <1>5, PlayStepsInside DEF RunsPlay, runVars, TypeOK
<1>6. CASE PlayReturns
  BY <1>0, <1>6 DEF PlayReturns, Begin
<1>7. CASE WatchPolls
  <2>1. PICK info \in StatusReads :
            IsPlayingRead(IsPlaying(info)) \/ WatchRead(PlaybackState(info))
    BY <1>7 DEF WatchPolls
  <2>2. PlaybackState(info) \in PlaybackStates /\ MonitorTypeOK
    BY DEF PlaybackState, PlaybackStates, TypeOK
  <2>3. /\ mpc' \in {"starting", "healing", "watching", "done"} /\ mpc # "off"
        /\ verdict' \notin {"aborted", "abortedEarly"}
        /\ mpc' = "healing" => healed'
    BY <2>1, <2>2, SeePlayingStep, SeeNothingStep, WatchReadStep DEF IsPlayingRead
  <2>4. QED
    BY <1>7, <2>3 DEF WatchPolls
<1>8. CASE StartHeal
  BY <1>8 DEF StartHeal, CallPlay
<1>9. CASE EndHeal
  BY <1>9 DEF EndHeal, HealReturns
<1>10. CASE WatchReturns
  BY <1>10 DEF WatchReturns, Forget, Observed
<1>11. CASE GiveUpStop
  BY <1>11 DEF GiveUpStop
<1>12. CASE SwitchToKodi
  BY <1>12 DEF SwitchToKodi
<1>13. CASE Elsewhere
  BY <1>13 DEF Elsewhere, World, BootDone, DeckMoves, UserSwitchesTv, Grabs, runVars
<1>14. CASE UNCHANGED vars
  BY <1>14 DEF vars, runVars, playerVars, Grabs
<1>15. QED
  BY <1>1, <1>2, <1>3, <1>4, <1>5, <1>6, <1>7, <1>8, <1>9, <1>10, <1>11, <1>12, <1>13, <1>14
     DEF Next, Bridge

\* Every step keeps the list of switches in agreement with the place run is at.
LEMMA NextSwitching == TypeOK /\ Switching /\ [Next]_vars => Switching'
<1> SUFFICES ASSUME TypeOK, Switching, [Next]_vars PROVE Switching'
  OBVIOUS
<1> USE DEF Switching, Untouched
<1>1. CASE Decline
  BY <1>1 DEF Decline
<1>2. CASE SwitchToOppo
  BY <1>2 DEF SwitchToOppo
<1>3. CASE SendPof \/ SendPon
  BY <1>3 DEF SendPof, SendPon
<1>4. CASE RunsPlay \/ Elsewhere \/ UNCHANGED vars
  BY <1>4 DEF RunsPlay, Elsewhere, vars, runVars
<1>5. CASE PlayReturns \/ WatchPolls
  BY <1>5 DEF PlayReturns, WatchPolls
<1>6. CASE StartHeal \/ EndHeal
  BY <1>6 DEF StartHeal, EndHeal
<1>7. CASE WatchReturns \/ GiveUpStop
  BY <1>7 DEF WatchReturns, GiveUpStop
<1>8. CASE SwitchToKodi
  BY <1>8 DEF SwitchToKodi
<1>9. QED
  BY <1>1, <1>2, <1>3, <1>4, <1>5, <1>6, <1>7, <1>8 DEF Next, Bridge

-----------------------------------------------------------------------------
(* The requests made, and the mount under every play. *)

\* Two of each kind per call of play that has returned; a call in progress
\* has made as many as the place it is at says.
Base == IF healed /\ ~(opc = "watch" /\ mpc = "healing") THEN 2 ELSE 0

\* How many requests the run has made, by the place handoff.play is at.
Budget ==
    /\ hpc \in {"off", "map", "wake", "init"} => mounts <= Base
    /\ hpc = "mount" => mounts <= Base + attempt
    /\ mounts <= Base + 2
    /\ hpc \notin {"playfile", "accepted", "refused", "raised"} => plays <= Base
    /\ hpc = "playfile" => plays <= Base + 1
    /\ plays <= Base + 2

\* A play step is reached only over a mount the player made.
MountHeld == hpc \in {"bdmv", "stp", "playfile"} => nfs

\* What one step of play adds to the requests made.
LEMMA PlayStepsCost ==
    ASSUME NEW b \in Nat, PlayerTypeOK, HandoffTypeOK, MountHeld, PlaySteps,
           hpc \in {"map", "wake", "init"} => mounts <= b,
           hpc = "mount" => mounts <= b + attempt,
           mounts <= b + 2,
           hpc \notin {"playfile", "accepted", "refused", "raised"} => plays <= b,
           hpc = "playfile" => plays <= b + 1
    PROVE  /\ hpc' \in {"map", "wake", "init"} => mounts' <= b
           /\ hpc' = "mount" => mounts' <= b + attempt'
           /\ mounts' <= b + 2
           /\ hpc' \notin {"playfile", "accepted", "refused", "raised"} => plays' <= b
           /\ hpc' = "playfile" => plays' <= b + 1
           /\ plays' <= b + 2
           /\ MountHeld'
           /\ plays' > plays => nfs
<1> USE DEF HandoffTypeOK, Go, playerVars, MountHeld
<1>1. CASE MapPath \/ WakeLast \/ InitDance \/ MountRaises
  BY <1>1 DEF MapPath, WakeLast, InitDance, MountRaises
<1>2. CASE WakeTry
  BY <1>2 DEF WakeTry, IntervalPasses, BootDone, ApiWakes
<1>3. CASE Mount
  <2>1. PICK done \in BOOLEAN, reply \in Replies :
            /\ Exchange(done, reply)
            /\ MountDone(done)
            /\ IF ReplySucceeded(reply) THEN hpc' = PlayStep /\ UNCHANGED attempt ELSE MountFailed
    BY <1>3 DEF Mount
  <2>2. hpc = "mount" /\ mounts' = mounts + 1 /\ plays' = plays
    BY <1>3 DEF Mount
  <2>3. CASE ReplySucceeded(reply)
    <3>1. done
      BY <2>1, <2>3 DEF Exchange, Replies, ReplySucceeded, ReplyFailed
    <3>2. nfs' = TRUE
      BY <2>1, <3>1 DEF MountDone
    <3>3. hpc' \in {"bdmv", "stp", "playfile"}
      BY <2>1, <2>3 DEF PlayStep, Jobs, Kinds
    <3>4. QED
      BY <2>2, <3>2, <3>3
  <2>4. CASE ~ReplySucceeded(reply)
    BY <2>1, <2>2, <2>4 DEF MountFailed
  <2>5. QED
    BY <2>3, <2>4
<1>4. CASE PlayBdmv
  BY <1>4 DEF PlayBdmv, PlayRequest, DeckSet
<1>5. CASE ClearDeck
  BY <1>5 DEF ClearDeck, DeckSet
<1>6. CASE PlayFile
  BY <1>6 DEF PlayFile, PlayRequest, DeckSet
<1>7. QED
  BY <1>1, <1>2, <1>3, <1>4, <1>5, <1>6 DEF PlaySteps

\* What one read does to the monitor's control state.
LEMMA PollEffect ==
    ASSUME TypeOK, WatchPolls
    PROVE  /\ mpc \in {"starting", "watching"} /\ opc = "watch" /\ opc' = "watch"
           /\ verdict = "none"
           /\ \/ mpc' \in {"starting", "watching", "done"} /\ healed' = healed
              \/ mpc' = "healing" /\ ~healed /\ healed'
<1>1. PICK info \in StatusReads :
          IsPlayingRead(IsPlaying(info)) \/ WatchRead(PlaybackState(info))
  BY DEF WatchPolls
<1>2. PlaybackState(info) \in PlaybackStates /\ MonitorTypeOK
  BY DEF PlaybackState, PlaybackStates, TypeOK
<1>3. verdict = "none" <=> mpc # "done"
  BY <1>2 DEF MonitorTypeOK
<1>4. CASE WatchRead(PlaybackState(info))
  BY <1>2, <1>4, WatchReadStep DEF WatchPolls
<1>5. CASE IsPlayingRead(IsPlaying(info))
  BY <1>2, <1>3, <1>5, SeePlayingStep, SeeNothingStep DEF IsPlayingRead, WatchPolls
<1>6. QED
  BY <1>1, <1>4, <1>5

\* Every step keeps both, and a play request is made only over a mount.
LEMMA NextBudget ==
    TypeOK /\ Control /\ Budget /\ MountHeld /\ [Next]_vars =>
        /\ Budget' /\ MountHeld'
        /\ plays' > plays => nfs
<1> SUFFICES ASSUME TypeOK, Control, Budget, MountHeld, [Next]_vars
             PROVE  /\ Budget' /\ MountHeld'
                    /\ plays' > plays => nfs
  OBVIOUS
<1>0. /\ attempt \in Nat /\ mounts \in Nat /\ plays \in Nat /\ healed \in BOOLEAN
      /\ hpc \in {"map", "wake", "init"} => attempt = 0
      /\ Base \in Nat
  BY DEF TypeOK, HandoffTypeOK, MonitorTypeOK, Base
<1>1. ASSUME UNCHANGED <<hpc, attempt, mounts, plays, nfs>>, Base' = Base
      PROVE  Budget' /\ MountHeld' /\ (plays' > plays => nfs)
  BY <1>0, <1>1 DEF Budget, MountHeld
<1>2. CASE Decline \/ UNCHANGED vars
  BY <1>1, <1>2 DEF Decline, Base, Control, vars, runVars, playerVars, handoffVars, monitorVars
<1>3. ASSUME NEW b \in Nat, CallPlay, Base' = b, mounts <= b, plays <= b
      PROVE  Budget' /\ MountHeld' /\ (plays' > plays => nfs)
  <2>1. hpc' = "map" /\ attempt' = 0 /\ mounts' = mounts /\ plays' = plays
    BY <1>3 DEF CallPlay
  <2>2. MountHeld' /\ ~(plays' > plays)
    BY <1>0, <2>1 DEF MountHeld
  <2>3. mounts' <= b /\ plays' <= b /\ mounts' <= b + 2 /\ plays' <= b + 2
    BY <1>0, <1>3, <2>1
  <2>4. Budget'
    BY <1>3, <2>1, <2>3 DEF Budget
  <2>5. QED
    BY <2>2, <2>4
<1>4. CASE SwitchToOppo
  <2>1. Base' = 0 /\ mounts = 0 /\ plays = 0 /\ hpc = "off"
    BY <1>4 DEF SwitchToOppo, Base, Control, monitorVars
  <2>2. CASE Grabs
    BY <1>0, <1>4, <2>1, <2>2 DEF SwitchToOppo, Budget, MountHeld, handoffVars
  <2>3. CASE ~Grabs
    BY <1>3, <1>4, <2>1, <2>3 DEF SwitchToOppo
  <2>4. QED
    BY <2>2, <2>3
<1>5. CASE SendPof
  <2>1. Base' = 0 /\ mounts' = 0 /\ plays' = 0 /\ hpc' = "off" /\ plays = 0
    BY <1>5 DEF SendPof, Base, Control, monitorVars, handoffVars
  <2>2. QED
    BY <2>1 DEF Budget, MountHeld
<1>6. CASE SendPon
  <2>1. Base' = 0 /\ mounts = 0 /\ plays = 0 /\ CallPlay
    BY <1>6 DEF SendPon, Base, Control, monitorVars
  <2>2. QED
    BY <1>3, <2>1
<1>7. CASE RunsPlay
  <2>1. Base' = Base /\ PlaySteps
    BY <1>7 DEF RunsPlay, Base, runVars, monitorVars
  <2>2. /\ hpc' \in {"map", "wake", "init"} => mounts' <= Base
        /\ hpc' = "mount" => mounts' <= Base + attempt'
        /\ mounts' <= Base + 2
        /\ hpc' \notin {"playfile", "accepted", "refused", "raised"} => plays' <= Base
        /\ hpc' = "playfile" => plays' <= Base + 1
        /\ plays' <= Base + 2
        /\ MountHeld'
        /\ plays' > plays => nfs
    BY <1>0, <2>1, PlayStepsCost DEF TypeOK, Budget
  <2>3. hpc' # "off"
    BY <2>1, PlayStepsInside DEF TypeOK
  <2>4. QED
    BY <2>1, <2>2, <2>3 DEF Budget
<1>8. CASE PlayReturns
  <2>1. ~healed /\ ~healed'
    BY <1>8 DEF PlayReturns, Control, Begin, monitorVars
  <2>2. QED
    BY <1>1, <1>8, <2>1 DEF PlayReturns, Base, playerVars, handoffVars
<1>9. CASE WatchPolls
  <2>1. Base' = Base
    BY <1>9, PollEffect DEF Base
  <2>2. QED
    BY <1>1, <1>9, <2>1 DEF WatchPolls, playerVars, handoffVars
<1>10. CASE StartHeal
  <2>1. Base = 0 /\ Base' = 2 /\ CallPlay
    BY <1>10 DEF StartHeal, Base, Control, monitorVars
  <2>2. mounts <= 2 /\ plays <= 2
    BY <2>1 DEF Budget
  <2>3. QED
    BY <1>3, <2>1, <2>2
<1>11. CASE EndHeal
  <2>1. Base' = Base
    BY <1>11 DEF EndHeal, HealReturns, Base, Control
  <2>2. QED
    BY <1>1, <1>11, <2>1 DEF EndHeal, playerVars, handoffVars
<1>12. CASE WatchReturns
  <2>1. Base' = Base
    BY <1>12 DEF WatchReturns, Forget, Base
  <2>2. QED
    BY <1>1, <1>12, <2>1 DEF WatchReturns, playerVars, handoffVars
<1>13. CASE GiveUpStop
  BY <1>1, <1>13 DEF GiveUpStop, DeckSet, Base, handoffVars, monitorVars
<1>14. CASE SwitchToKodi
  BY <1>1, <1>14 DEF SwitchToKodi, TvSet, Base, handoffVars, monitorVars
<1>15. CASE Elsewhere
  BY <1>1, <1>15 DEF Elsewhere, World, BootDone, DeckMoves, UserSwitchesTv, Base, runVars,
     handoffVars, monitorVars
<1>16. QED
  BY <1>2, <1>4, <1>5, <1>6, <1>7, <1>8, <1>9, <1>10, <1>11, <1>12, <1>13, <1>14, <1>15
     DEF Next, Bridge

-----------------------------------------------------------------------------
(* The boot is over before the player is used, or given up on. *)

\* The rest of a boot is covered by the wake intervals that are left.
BootOver ==
    /\ hpc = "map" => wakes = 0
    /\ hpc = "wake" /\ boot > 0 => boot + wakes <= BootTicks
    /\ hpc \in {"init", "mount", "bdmv", "stp", "playfile", "accepted", "raised"} => boot = 0
    /\ hpc = "refused" /\ wakes > 0 => boot = 0
    /\ mounts > 0 => boot = 0
    /\ mpc # "off" => boot = 0

\* The steps of handoff.play keep that: each sleep lets one interval pass.
LEMMA PlayStepsBoot ==
    ASSUME PlayerTypeOK, HandoffTypeOK, PlaySteps, BootOver, UNCHANGED mpc
    PROVE  BootOver'
<1> USE WakeConfig, BootWithinWake, PlayerConfig DEF HandoffTypeOK, BootOver, Go
<1>0. boot \in 0 .. BootTicks /\ (power = "on" => boot = 0)
  BY DEF PlayerTypeOK
<1>1. CASE MapPath
  BY <1>0, <1>1 DEF MapPath, playerVars
<1>2. CASE WakeTry
  <2>1. CASE ApiWakes /\ api' /\ Go("init")
    <3>1. power = "on"
      BY <2>1 DEF ApiWakes, PlayerTypeOK
    <3>2. boot' = 0
      BY <1>0, <2>1, <3>1 DEF ApiWakes
    <3>3. hpc' = "init"
      BY <2>1
    <3>4. QED
      BY <3>2, <3>3
  <2>2. CASE IntervalPasses /\ wakes' = wakes + 1 /\ UNCHANGED <<job, hpc, attempt, mounts, plays>>
    <3>1. boot' = IF boot > 0 THEN boot - 1 ELSE 0
      BY <1>0, <2>2 DEF IntervalPasses, BootDone
    <3>2. QED
      BY <1>0, <1>2, <2>2, <3>1 DEF WakeTry
  <2>3. QED
    BY <1>2, <2>1, <2>2 DEF WakeTry
<1>3. CASE WakeLast
  <2>1. boot = 0 /\ boot' = boot /\ hpc' \in {"init", "refused"}
    BY <1>0, <1>3 DEF WakeLast, playerVars
  <2>2. QED
    BY <2>1
<1>4. CASE InitDance \/ MountRaises
  BY <1>4 DEF InitDance, MountRaises, playerVars
<1>5. CASE Mount
  <2>1. boot = 0 /\ boot' = boot /\ hpc' # "map" /\ hpc' # "wake"
    BY <1>5 DEF Mount, MountDone, MountFailed, PlayStep, Jobs, Kinds
  <2>2. QED
    BY <2>1
<1>6. CASE PlayBdmv \/ ClearDeck \/ PlayFile
  <2>1. boot = 0 /\ boot' = boot /\ hpc' # "map" /\ hpc' # "wake"
    BY <1>6 DEF PlayBdmv, ClearDeck, PlayFile, PlayRequest, DeckSet
  <2>2. QED
    BY <2>1
<1>7. QED
  BY <1>1, <1>2, <1>3, <1>4, <1>5, <1>6 DEF PlaySteps

\* So does every other step.
LEMMA NextBootOver == TypeOK /\ Control /\ BootOver /\ [Next]_vars => BootOver'
<1> SUFFICES ASSUME TypeOK, Control, BootOver, [Next]_vars PROVE BootOver'
  OBVIOUS
<1>0. boot \in 0 .. BootTicks /\ (power = "booting" <=> boot > 0)
  BY DEF TypeOK, PlayerTypeOK
<1>1. ASSUME UNCHANGED <<hpc, wakes, mounts, boot>>, mpc = "off" => mpc' = "off"
      PROVE  BootOver'
  BY <1>1 DEF BootOver
<1>2. ASSUME CallPlay, boot' \in 0 .. BootTicks, mounts > 0 => boot' = 0, mpc' # "off" => boot' = 0
      PROVE  BootOver'
  BY <1>2 DEF BootOver, CallPlay
<1>3. CASE Decline \/ UNCHANGED vars
  BY <1>1, <1>3 DEF Decline, vars, runVars, playerVars, handoffVars, monitorVars
<1>4. CASE SwitchToOppo
  <2>1. CASE Grabs
    BY <1>1, <1>4, <2>1 DEF SwitchToOppo, playerVars, handoffVars, monitorVars
  <2>2. CASE ~Grabs
    <3>1. CallPlay /\ boot' = boot /\ mounts = 0 /\ mpc' = "off"
      BY <1>4, <2>2 DEF SwitchToOppo, TvSet, Control, monitorVars
    <3>2. QED
      BY <1>0, <1>2, <3>1
  <2>3. QED
    BY <2>1, <2>2
<1>5. CASE SendPof
  BY <1>5 DEF SendPof, PowerOff, playerVars, handoffVars, monitorVars, BootOver, Control
<1>6. CASE SendPon
  <2>1. CallPlay /\ boot' \in {boot, BootTicks} /\ mounts = 0 /\ mpc' = "off"
    BY <1>6 DEF SendPon, PowerOn, playerVars, Control, monitorVars
  <2>2. QED
    BY <1>0, <1>2, <2>1, PlayerConfig
<1>7. CASE RunsPlay
  BY <1>7, PlayStepsBoot DEF RunsPlay, TypeOK, monitorVars
<1>8. CASE PlayReturns
  <2>1. CASE hpc = "accepted"
    BY <1>8, <2>1 DEF PlayReturns, BootOver, playerVars, handoffVars
  <2>2. CASE hpc # "accepted"
    BY <1>1, <1>8, <2>2 DEF PlayReturns, playerVars, handoffVars, monitorVars
  <2>3. QED
    BY <2>1, <2>2
<1>9. CASE WatchPolls
  BY <1>1, <1>9, PollEffect DEF WatchPolls, playerVars, handoffVars
<1>10. CASE StartHeal
  <2>1. CallPlay /\ boot' = 0
    BY <1>10 DEF StartHeal, BootOver, playerVars
  <2>2. QED
    BY <1>2, <2>1, PlayerConfig
<1>11. CASE EndHeal
  BY <1>1, <1>11 DEF EndHeal, HealReturns, playerVars, handoffVars
<1>12. CASE WatchReturns
  BY <1>1, <1>12 DEF WatchReturns, Forget, playerVars, handoffVars
<1>13. CASE GiveUpStop
  BY <1>1, <1>13 DEF GiveUpStop, DeckSet, handoffVars, monitorVars
<1>14. CASE SwitchToKodi
  BY <1>1, <1>14 DEF SwitchToKodi, TvSet, handoffVars, monitorVars
<1>15. CASE Elsewhere
  <2>1. boot' \in {boot, 0} /\ UNCHANGED <<hpc, wakes, mounts, mpc>>
    BY <1>15 DEF Elsewhere, World, BootDone, DeckMoves, UserSwitchesTv, handoffVars, monitorVars
  <2>2. QED
    BY <1>0, <2>1 DEF BootOver
<1>16. QED
  BY <1>3, <1>4, <1>5, <1>6, <1>7, <1>8, <1>9, <1>10, <1>11, <1>12, <1>13, <1>14, <1>15
     DEF Next, Bridge

-----------------------------------------------------------------------------
(* The television after the reclaim, the deck after the STOP and the watch. *)

\* No step after the reclaim brings a One-Touch-Play.
LEMMA NextHome == TypeOK /\ Control /\ BootOver /\ TvComesHome /\ [Next]_vars => TvComesHome'
<1> SUFFICES ASSUME TypeOK, Control, BootOver, TvComesHome, [Next]_vars, opc' = "done", homeHeard'
             PROVE  TvComesHome'
  BY DEF TvComesHome
<1> USE DEF TvComesHome
<1>0. power = "booting" <=> boot > 0
  BY DEF TypeOK, PlayerTypeOK
<1>1. CASE SwitchToKodi
  <2>1. UNCHANGED <<hpc, wakes, mounts, power>> /\ tv' = "kodi"
    BY <1>1 DEF SwitchToKodi, TvSet, handoffVars
  <2>2. (wakes > 0 \/ mounts > 0 \/ hpc = "raised") => boot = 0
    BY <1>1 DEF SwitchToKodi, Control, PlayReturned, BootOver
  <2>3. QED
    BY <1>0, <2>1, <2>2
<1>2. CASE Elsewhere
  <2>1. homeHeard /\ opc = "done" /\ UNCHANGED <<hpc, wakes, mounts>>
    BY <1>2 DEF Elsewhere, runVars, handoffVars
  <2>2. CASE power = "booting" /\ BootDone
    BY <2>1, <2>2 DEF BootDone
  <2>3. CASE DeckMoves
    BY <2>1, <2>3 DEF DeckMoves
  <2>4. CASE UserSwitchesTv
    BY <2>1, <2>4 DEF UserSwitchesTv
  <2>5. QED
    BY <1>2, <2>2, <2>3, <2>4 DEF Elsewhere, World
<1>3. CASE UNCHANGED vars
  BY <1>3 DEF vars, runVars, handoffVars, playerVars
<1>4. CASE Decline
  BY <1>4 DEF Decline, Untouched, Control
<1>5. CASE SwitchToOppo \/ SendPof \/ SendPon \/ PlayReturns
  BY <1>5 DEF SwitchToOppo, SendPof, SendPon, PlayReturns
<1>6. CASE RunsPlay
  BY <1>6 DEF RunsPlay, runVars
<1>7. CASE WatchPolls \/ StartHeal \/ EndHeal \/ WatchReturns \/ GiveUpStop
  BY <1>7 DEF WatchPolls, StartHeal, EndHeal, WatchReturns, GiveUpStop
<1>8. QED
  BY <1>1, <1>2, <1>3, <1>4, <1>5, <1>6, <1>7 DEF Next, Bridge

\* What the STOP and the watch leave on the deck.
DeckLeft ==
    /\ opc \in {"home", "done"} /\ accepted /\ ~started /\ ~stopLost => deck = "idle"
    /\ mpc = "watching" /\ deck = "loading" => showsLoading
    /\ verdict = "stopped" /\ ~misread => deck = "idle"

\* Every step keeps what is known of the deck.
LEMMA NextDeckLeft == TypeOK /\ Control /\ DeckLeft /\ [Next]_vars => DeckLeft'
<1> SUFFICES ASSUME TypeOK, Control, DeckLeft, [Next]_vars PROVE DeckLeft'
  OBVIOUS
<1> USE DEF DeckLeft
<1>0. verdict # "none" <=> mpc = "done"
  BY DEF TypeOK, MonitorTypeOK
<1>1. ASSUME opc' \notin {"home", "done"}, mpc' # "watching", verdict' # "stopped"
      PROVE  DeckLeft'
  BY <1>1
<1>2. CASE Decline
  BY <1>0, <1>2 DEF Decline, Control, Untouched, playerVars, monitorVars
<1>3. CASE SwitchToOppo \/ SendPof \/ SendPon
  BY <1>0, <1>1, <1>3 DEF SwitchToOppo, SendPof, SendPon, Control, monitorVars
<1>4. CASE RunsPlay
  BY <1>0, <1>1, <1>4 DEF RunsPlay, Control, runVars, monitorVars
<1>5. CASE PlayReturns
  <2>1. mpc = "off" /\ verdict' = "none" /\ mpc' # "watching"
    BY <1>0, <1>5 DEF PlayReturns, Control, Begin, monitorVars
  <2>2. ~accepted
    BY <2>1 DEF Control
  <2>3. QED
    BY <1>5, <2>1, <2>2 DEF PlayReturns
<1>6. CASE WatchPolls
  <2>1. PICK info \in StatusReads :
            /\ IsPlayingRead(IsPlaying(info)) \/ WatchRead(PlaybackState(info))
            /\ misread' = (misread \/ (mpc = "watching" /\ info = "raw"))
    BY <1>6 DEF WatchPolls
  <2>2. PlaybackState(info) \in PlaybackStates /\ MonitorTypeOK
    BY DEF PlaybackState, PlaybackStates, TypeOK
  <2>3. UNCHANGED <<deck, showsLoading>> /\ opc' = "watch"
    BY <1>6 DEF WatchPolls, playerVars
  <2>4. info \in {"none", "raw", deck}
    BY <2>1 DEF StatusReads
  <2>5. CASE IsPlaying(info) /\ IsPlayingRead(IsPlaying(info))
    <3>1. verdict' = "none" /\ (deck = "loading" => showsLoading)
      BY <2>2, <2>4, <2>5, SeePlayingStep DEF IsPlayingRead, IsPlaying, InfoIsPlaying
    <3>2. QED
      BY <2>3, <3>1
  <2>6. CASE ~IsPlaying(info) /\ IsPlayingRead(IsPlaying(info))
    <3>1. verdict' # "stopped" /\ mpc' # "watching"
      BY <2>2, <2>6, SeeNothingStep DEF IsPlayingRead
    <3>2. QED
      BY <2>3, <3>1
  <2>7. CASE WatchRead(PlaybackState(info))
    <3>1. mpc = "watching" /\ (verdict' = "stopped" => PlaybackState(info) = "idle")
      BY <2>2, <2>7, WatchReadStep
    <3>2. deck = "loading" => showsLoading
      BY <3>1
    <3>3. PlaybackState(info) = "idle" => info = "raw" \/ deck = "idle"
      BY <2>4, <3>2 DEF PlaybackState, InfoIsPlaying, TypeOK, PlayerTypeOK
    <3>4. info = "raw" => misread'
      BY <2>1, <3>1
    <3>5. QED
      BY <2>3, <3>1, <3>2, <3>3, <3>4
  <2>8. QED
    BY <2>1, <2>5, <2>6, <2>7
<1>7. CASE StartHeal
  BY <1>0, <1>1, <1>7 DEF StartHeal, Control, monitorVars
<1>8. CASE EndHeal
  BY <1>0, <1>1, <1>8 DEF EndHeal, HealReturns
<1>9. CASE WatchReturns
  BY <1>9 DEF WatchReturns, Forget, playerVars
<1>10. CASE GiveUpStop
  BY <1>0, <1>10 DEF GiveUpStop, Control, DeckSet, SeenVerdicts, monitorVars
<1>11. CASE SwitchToKodi
  BY <1>11 DEF SwitchToKodi, TvSet, monitorVars
<1>12. CASE Elsewhere
  BY <1>12 DEF Elsewhere, World, BootDone, DeckMoves, UserSwitchesTv, runVars, monitorVars
<1>13. CASE UNCHANGED vars
  BY <1>13 DEF vars, runVars, playerVars, monitorVars
<1>14. QED
  BY <1>2, <1>3, <1>4, <1>5, <1>6, <1>7, <1>8, <1>9, <1>10, <1>11, <1>12, <1>13 DEF Next, Bridge

-----------------------------------------------------------------------------
(* The theorems. *)

\* The inductive invariant of the run.
RunInv ==
    /\ TypeOK /\ Control /\ Switching
    /\ Budget /\ MountHeld /\ BootOver
    /\ TvComesHome /\ DeckLeft

\* It holds at the start.
LEMMA InitRunInv == Init => RunInv
<1> SUFFICES ASSUME Init PROVE RunInv
  OBVIOUS
<1>1. TypeOK /\ Control /\ Switching
  BY InitType, InitControl
<1>2. Base = 0
  BY DEF Init, MonitorInit, Base
<1>3. Budget /\ MountHeld
  BY <1>2 DEF Init, HandoffInit, Budget, MountHeld
<1>4. BootOver /\ TvComesHome /\ DeckLeft
  BY DEF Init, PlayerInit, HandoffInit, MonitorInit, BootOver, TvComesHome, DeckLeft
<1>5. QED
  BY <1>1, <1>3, <1>4 DEF RunInv

\* Every step keeps it.
LEMMA NextRunInv == RunInv /\ [Next]_vars => RunInv'
  BY NextType, NextControl, NextSwitching, NextBudget, NextBootOver, NextHome, NextDeckLeft
     DEF RunInv

\* It holds in every behaviour of the run.
THEOREM RunInvariance == Spec => []RunInv
  BY InitRunInv, NextRunInv, PTL DEF Spec

\* The type invariant, for every player, file and configuration.
THEOREM RunTypeCorrect == Spec => []TypeOK
<1>1. RunInv => TypeOK
  BY DEF RunInv
<1>2. QED
  BY RunInvariance, <1>1, PTL

\* Neither the auto-heal nor a refused mount makes a run exceed its budget of
\* mount and play requests.
THEOREM RequestsBudgeted == Spec => []RequestBudget
<1>1. RunInv => RequestBudget
  <2>1. Base \in {0, 2} /\ (healed \/ Base = 0)
    BY DEF Base
  <2>2. RunInv => mounts <= Base + 2 /\ plays <= Base + 2 /\ mounts \in Nat /\ plays \in Nat
    BY DEF RunInv, Budget, TypeOK, HandoffTypeOK
  <2>3. QED
    BY <2>1, <2>2 DEF RequestBudget
<1>2. QED
  BY RunInvariance, <1>1, PTL

\* No play request reaches a player without its mount, whatever calls and
\* answers were lost or mangled before it.
THEOREM PlaysIntoGoodMounts == Spec => NoPlayIntoBadMount
<1>1. RunInv /\ [Next]_vars => [plays' > plays => nfs]_vars
  BY NextBudget DEF RunInv
<1>2. QED
  BY RunInvariance, <1>1, PTL DEF Spec, NoPlayIntoBadMount

\* A wake-up that outlasts the boot means no One-Touch-Play after the reclaim:
\* for every boot time and every number of wake attempts that covers it.
THEOREM TelevisionComesHome == Spec => []TvComesHome
<1>1. RunInv => TvComesHome
  BY DEF RunInv
<1>2. QED
  BY RunInvariance, <1>1, PTL

\* The give-up STOP leaves the deck idle.
THEOREM GiveUpLeavesNothing == Spec => []GiveUpClears
<1>1. RunInv => GiveUpClears
  BY DEF RunInv, DeckLeft, GiveUpClears
<1>2. QED
  BY RunInvariance, <1>1, PTL

\* A watch that ended for no ceiling and no unreadable player ended on a deck
\* that was really idle.
THEOREM ReclaimsAfterStop == Spec => []NoReclaimUnderPlayback
<1>1. RunInv => NoReclaimUnderPlayback
  BY DEF RunInv, DeckLeft, Control, NoReclaimUnderPlayback, SeenVerdicts
<1>2. QED
  BY RunInvariance, <1>1, PTL

\* A power cycle ends with the player powered or its #PON lost.
THEOREM WakesWhatItSlept == Spec => NeverLeftAsleep
<1>1. RunInv /\ [Next]_vars => [opc = "pon" /\ opc' = "handoff" => power' # "standby" \/ ponLost']_vars
  <2> SUFFICES ASSUME RunInv, Next, opc = "pon", opc' = "handoff"
               PROVE  power' # "standby" \/ ponLost'
    OBVIOUS
  <2>1. SendPon \/ RunsPlay \/ Elsewhere
    BY DEF Next, Bridge, Decline, SwitchToOppo, SendPof, PlayReturns, WatchPolls, StartHeal,
       EndHeal, WatchReturns, GiveUpStop, SwitchToKodi
  <2>2. SendPon
    BY <2>1 DEF RunsPlay, Elsewhere, runVars
  <2>3. model # "M9207"
    BY DEF RunInv, Control, Grabs
  <2>4. QED
    BY <2>2, <2>3 DEF SendPon, PowerOn, playerVars
<1>2. QED
  BY RunInvariance, <1>1, PTL DEF Spec, NeverLeftAsleep

\* Between an accepted play and the reclaim the bridge leaves the input alone.
THEOREM InputLeftAlone == Spec => ManualChangeSticks
<1>1. RunInv /\ [Next]_vars => [accepted /\ opc # "home" /\ tv' # tv => tvBy' = "user"]_vars
  <2> SUFFICES ASSUME RunInv, Next, accepted, opc # "home", tv' # tv
               PROVE  tvBy' = "user"
    OBVIOUS
  <2>1. boot = 0 /\ power # "booting"
    BY DEF RunInv, Control, BootOver, TypeOK, PlayerTypeOK
  <2>2. opc \notin {"offered", "grab", "pon"}
    BY DEF RunInv, Control
  <2>3. ~RunsPlay
    <3> SUFFICES ASSUME PlaySteps PROVE tv' = tv
      BY DEF RunsPlay
    <3>1. CASE MapPath \/ WakeLast \/ InitDance \/ MountRaises
      BY <3>1 DEF MapPath, WakeLast, InitDance, MountRaises, playerVars
    <3>2. CASE WakeTry
      BY <2>1, <3>2 DEF WakeTry, ApiWakes, IntervalPasses
    <3>3. CASE Mount
      BY <3>3 DEF Mount, MountDone
    <3>4. CASE PlayBdmv \/ ClearDeck \/ PlayFile
      BY <3>4 DEF PlayBdmv, ClearDeck, PlayFile, PlayRequest, DeckSet
    <3>5. QED
      BY <3>1, <3>2, <3>3, <3>4 DEF PlaySteps
  <2>4. CASE Bridge
    BY <2>2, <2>3, <2>4 DEF Bridge, Decline, SwitchToOppo, SendPof, SendPon, PlayReturns,
       WatchPolls, StartHeal, EndHeal, WatchReturns, GiveUpStop, SwitchToKodi, DeckSet, playerVars
  <2>5. CASE Elsewhere
    BY <2>1, <2>5 DEF Elsewhere, World, DeckMoves, UserSwitchesTv
  <2>6. QED
    BY <2>4, <2>5 DEF Next
<1>2. QED
  BY RunInvariance, <1>1, PTL DEF Spec, ManualChangeSticks

\* Every run implements the safety part of the contract of Handover: each of
\* its steps is one of the contract's or leaves the contract's state alone.
THEOREM RunImplementsHandover == Spec => Handing!Safety
<1>1. Init => Handing!Init
  BY DEF Init, Handing!Init
<1>2. RunInv /\ [Next]_vars => [Handing!Next]_(Handing!absVars)
  <2> SUFFICES ASSUME RunInv, [Next]_vars
               PROVE  Handing!Next \/ UNCHANGED Handing!absVars
    BY DEF Handing!absVars
  <2> USE DEF Handing!absVars, Handing!Next, Untouched
  <2>1. CASE Decline
    BY <2>1 DEF Decline, Handing!Decline
  <2>2. CASE SwitchToOppo
    BY <2>2 DEF SwitchToOppo, Handing!Engage
  <2>3. CASE SendPof \/ SendPon
    BY <2>3 DEF SendPof, SendPon
  <2>4. CASE RunsPlay \/ Elsewhere \/ UNCHANGED vars
    BY <2>4 DEF RunsPlay, Elsewhere, runVars, vars
  <2>5. CASE PlayReturns
    BY <2>5 DEF PlayReturns, Handing!Refuse
  <2>6. CASE WatchPolls \/ StartHeal \/ EndHeal
    BY <2>6 DEF WatchPolls, StartHeal, EndHeal
  <2>7. CASE WatchReturns
    <3>1. accepted /\ ~started
      BY <2>7 DEF WatchReturns, RunInv, Control
    <3>2. opc = "watch" /\ switches' = switches
      BY <2>7 DEF WatchReturns
    <3>3. CASE Observed
      <4>1. started' = TRUE /\ opc' = "home"
        BY <2>7, <3>1, <3>3 DEF WatchReturns, Observed
      <4>2. QED
        BY <3>2, <4>1 DEF Handing!Witness
    <3>4. CASE ~Observed
      <4>1. ~started' /\ opc' = "stop"
        BY <2>7, <3>1, <3>4 DEF WatchReturns
      <4>2. started = FALSE /\ started' = FALSE
        <5>1. started \in BOOLEAN /\ started' \in BOOLEAN
          BY <2>7 DEF WatchReturns, Observed, RunInv, TypeOK, RunTypeOK
        <5>2. QED
          BY <3>1, <4>1, <5>1
      <4>3. QED
        BY <3>2, <4>1, <4>2 DEF Handing!Abandon
    <3>5. QED
      BY <3>3, <3>4
  <2>8. CASE GiveUpStop
    BY <2>8 DEF GiveUpStop, Handing!StopOnce
  <2>9. CASE SwitchToKodi
    BY <2>9 DEF SwitchToKodi, Handing!Return
  <2>10. QED
    BY <2>1, <2>2, <2>3, <2>4, <2>5, <2>6, <2>7, <2>8, <2>9 DEF Next, Bridge
<1>3. QED
  BY RunInvariance, <1>1, <1>2, PTL DEF Spec, Handing!Safety
=============================================================================
