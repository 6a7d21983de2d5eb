------------------------------ MODULE Handoff ------------------------------
(***************************************************************************)
(* handoff.play: wake the player, mount the file's folder, start it.  One  *)
(* action per call that can change the player or decide the flow; every    *)
(* call may be lost on the way there or on the way back.                   *)
(***************************************************************************)
EXTENDS OppoPlayer

CONSTANT WakeAttempts   \* wake_and_wait's attempts, one wake interval each

ASSUME WakeConfig == WakeAttempts \in Nat \ {0}

VARIABLES
    job,      \* what is to be played; see Jobs
    hpc,      \* where play is; "off", "accepted", "refused", "raised" outside it
    wakes,    \* wake attempts made by this call
    attempt,  \* mount attempts failed in this call
    mounts,   \* mount requests made by the whole run (history)
    plays     \* play requests made by the whole run (history)

handoffVars == <<job, hpc, wakes, attempt, mounts, plays>>

\* kind: a disc folder, a disc image, or neither once the share prefix is off.
\* maps: the typed path_from maps the file, only Kodi's sources do, none does.
\* asciiServer: FALSE when the NFS server's name cannot stand in a URL.
Kinds == {"disc", "iso", "file"}
Jobs == [kind : Kinds, maps : {"typed", "sources", "no"}, asciiServer : BOOLEAN]

HandoffTypeOK ==
    /\ job \in Jobs
    /\ hpc \in {"off", "map", "wake", "init", "mount", "bdmv", "stp", "playfile",
                "accepted", "refused", "raised"}
    /\ wakes \in 0 .. WakeAttempts
    /\ attempt \in 0 .. 2
    /\ hpc \in {"map", "wake", "init"} => attempt = 0
    /\ hpc = "mount" => attempt < 2
    /\ mounts \in Nat /\ plays \in Nat

HandoffInit ==
    /\ job \in Jobs
    /\ hpc = "off"
    /\ wakes = 0 /\ attempt = 0 /\ mounts = 0 /\ plays = 0

CallPlay ==
    /\ hpc' = "map" /\ wakes' = 0 /\ attempt' = 0
    /\ UNCHANGED <<job, mounts, plays>>

Go(to) == hpc' = to /\ UNCHANGED <<job, wakes, attempt, mounts, plays>>

\* A typed prefix that maps is used as it is; otherwise Kodi's own sources are
\* asked, and the call to Kodi may fail.  No contact with the player yet.
MapPath ==
    /\ hpc = "map"
    /\ \/ job.maps # "no" /\ Go("wake")
       \/ job.maps # "typed" /\ Go("refused")
    /\ UNCHANGED playerVars

\* Bug to catch: the wake loop does not sleep between its attempts.
WakeTry_NoSleep ==
    /\ hpc = "wake" /\ wakes < WakeAttempts
    /\ \/ ApiWakes /\ api' /\ Go("init")
       \/ /\ wakes' = wakes + 1
          /\ UNCHANGED playerVars
          /\ UNCHANGED <<job, hpc, attempt, mounts, plays>>

\* One round of wake_and_wait: notify (UDP, may be lost), then try the port.
WakeTry ==
    /\ hpc = "wake" /\ wakes < WakeAttempts
    /\ \/ /\ ApiWakes /\ api'
          /\ Go("init")
       \/ /\ IntervalPasses     \* nobody answered; sleep
          /\ wakes' = wakes + 1
          /\ UNCHANGED <<job, hpc, attempt, mounts, plays>>

\* The attempts are used up: one last look at the port, without a notify.
WakeLast ==
    /\ hpc = "wake" /\ wakes = WakeAttempts
    /\ \/ api /\ Go("init")
       \/ Go("refused")
    /\ UNCHANGED playerVars

\* firmware .. login .. share list: best effort, whatever they answer.
InitDance ==
    /\ hpc = "init"
    /\ Go("mount")
    /\ UNCHANGED playerVars

PlayStep == CASE job.kind = "disc" -> "bdmv"
              [] job.kind = "iso" -> "stp"
              [] job.kind = "file" -> "playfile"

\* Bug to catch: a third attempt at the mount.
MountFailed_Thrice == attempt' = attempt + 1 /\ hpc' = IF attempt < 2 THEN "mount" ELSE "refused"

\* A fresh login and one more attempt; then abort before any play.
MountFailed == attempt' = attempt + 1 /\ hpc' = IF attempt = 0 THEN "mount" ELSE "refused"

Mount ==
    /\ hpc = "mount" /\ job.asciiServer
    /\ mounts' = mounts + 1
    /\ \E done \in BOOLEAN, reply \in Replies :
          /\ Exchange(done, reply)
          /\ MountDone(done)
          /\ IF ReplySucceeded(reply) THEN hpc' = PlayStep /\ UNCHANGED attempt ELSE MountFailed
    /\ UNCHANGED <<job, wakes, plays>>

\* The server's name goes into the URL unquoted: a non-ASCII one raises
\* UnicodeEncodeError, which _best_effort does not catch.
MountRaises ==
    /\ hpc = "mount" /\ ~job.asciiServer
    /\ Go("raised")
    /\ UNCHANGED playerVars

\* A request that starts the deck if it gets there (and a mount is there).
PlayRequest(yes, no) ==
    /\ plays' = plays + 1
    /\ \E done \in BOOLEAN, reply \in Replies :
          /\ Exchange(done, reply)
          /\ done => nfs
          /\ DeckSet(done, "loading")
          /\ hpc' = IF ReplySucceeded(reply) THEN yes ELSE no
    /\ UNCHANGED <<job, wakes, attempt, mounts>>

\* checkfolderhasBDMV starts a disc folder; failing that, open it as a file.
PlayBdmv == hpc = "bdmv" /\ PlayRequest("accepted", "playfile")

\* client.stop ahead of an image: whatever it answers.
ClearDeck ==
    /\ hpc = "stp"
    /\ \E done \in BOOLEAN, reply \in Replies :
          Exchange(done, reply) /\ DeckSet(done, "idle")
    /\ Go("playfile")

\* No reply, or one that does not affirm, is a refusal.
PlayFile == hpc = "playfile" /\ PlayRequest("accepted", "refused")

PlaySteps ==
    \/ MapPath \/ WakeTry \/ WakeLast \/ InitDance \/ Mount \/ MountRaises
    \/ PlayBdmv \/ ClearDeck \/ PlayFile

PlayReturned == hpc \in {"accepted", "refused", "raised"}
=============================================================================
