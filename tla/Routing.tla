------------------------------ MODULE Routing ------------------------------
(***************************************************************************)
(* The add-on's service inside Kodi (service_cec.main) and the two files   *)
(* it keeps: runtime_config.json, which the external player reads, and     *)
(* playercorefactory.xml (pcf.install, pcf.uninstall), which makes Kodi    *)
(* start that player.  Both are written in place: open truncates, the      *)
(* content arrives at the close, and Kodi or the service may be gone in    *)
(* between.  The user changes settings and puts playercorefactory.xml      *)
(* files of his own; Kodi reads that file only when it starts.             *)
(***************************************************************************)
EXTENDS Naturals

CONSTANTS
    Hosts,       \* what the settings other than handoff_enabled say
    UserFiles,   \* the user's own playercorefactory.xml contents
    Lossy,       \* those that are not UTF-8, or have CR line ends: text mode changes them
    MaxChanges,  \* bound: settings changes
    MaxStops,    \* bound: times Kodi stops or crashes
    MaxFaults    \* bound: exceptions the service swallows

ASSUME RoutingConstants ==
    /\ UserFiles \cap {"absent", "torn", "ours", "mangled"} = {}
    /\ Lossy \subseteq UserFiles
    /\ MaxChanges \in Nat /\ MaxStops \in Nat /\ MaxFaults \in Nat

Settings == [enabled : BOOLEAN, host : Hosts]

\* A config is a tuple so that "no usable file" needs no value of its own:
\* <<>> is Config(), the defaults, which name no player.
Published == {<<s>> : s \in Settings}

\* "torn" was truncated and not written: it is empty, so the marker is not in it;
\* "mangled" is what is left of a lossy file.
Contents == {"absent", "torn", "ours", "mangled"} \union UserFiles

\* What open(..., encoding="utf-8", errors="replace").read() makes of a content.
AsText(c) == IF c \in Lossy THEN "mangled" ELSE c

VARIABLES
    setting,   \* the add-on settings as Kodi holds them
    conf,      \* runtime_config.json: <<s>>, or <<>> while it does not load
    pcf,       \* playercorefactory.xml
    bak,       \* playercorefactory.xml.okbv4-backup
    loaded,    \* Kodi read our rules when it started
    svc,       \* where the service's thread is
    watching,  \* the xbmc.Monitor exists: changes are announced to the service
    due,       \* onSettingsChanged calls waiting for the thread
    snap,      \* _publish_config's cfg
    held,      \* install's existing, uninstall's restored
    got,       \* what the last external player read; empty before the first one
    mine,      \* history: the user files that the user did not replace himself
    over,      \* history: of these, the ones put while another one was in the backup
    stale,     \* history: something changed or failed that nothing announces
    cut,       \* history: the steps at which the service was cut short
    changes, stops, faults

owned == <<mine, over>>
world == <<setting, loaded, got, owned, changes>>
files == <<conf, pcf, bak>>
events == <<watching, due>>
locals == <<snap, held>>
history == <<stale, cut, stops, faults>>
routingVars == <<world, files, events, locals, history, svc>>

Steps == {"publish", "confOpen", "confWrite", "pcf", "install", "bakWrite",
          "pcfOpen", "pcfWrite", "uninstall", "restoreWrite", "bakRemove"}

Init ==
    /\ setting \in Settings /\ snap = setting
    /\ conf = <<>> /\ bak = "absent" /\ held = "absent"
    /\ pcf \in {"absent"} \union UserFiles
    /\ mine = {pcf} \cap UserFiles /\ over = {}
    /\ svc = "down" /\ loaded = FALSE /\ got = {}
    /\ watching = FALSE /\ due = 0
    /\ stale = FALSE /\ cut = {}
    /\ changes = 0 /\ stops = 0 /\ faults = 0

-----------------------------------------------------------------------------
(* The service's thread, one file operation a step. *)

At(step, next) == svc = step /\ svc' = next

\* Bug to catch: the service only sees to the routing when it starts.
KodiStarts_Unpublished ==
    /\ At("down", "pcf")
    /\ loaded' = (pcf = "ours")
    /\ UNCHANGED <<setting, got, owned, changes, files, events, locals, history>>

\* Kodi reads playercorefactory.xml, then starts the service.
KodiStarts ==
    /\ At("down", "publish")
    /\ loaded' = (pcf = "ours")
    /\ UNCHANGED <<setting, got, owned, changes, files, events, locals, history>>

PublishReads ==
    /\ At("publish", "confOpen")
    /\ snap' = setting
    /\ stale' = FALSE
    /\ UNCHANGED <<world, files, events, held, cut, stops, faults>>

PublishOpens ==
    /\ At("confOpen", "confWrite")
    /\ conf' = <<>>
    /\ UNCHANGED <<world, pcf, bak, events, locals, history>>

PublishWrites ==
    /\ At("confWrite", "pcf")
    /\ conf' = <<snap>>
    /\ UNCHANGED <<world, pcf, bak, events, locals, history>>

\* _install_pcf reads the settings once more.
InstallReads ==
    /\ At("pcf", IF setting.enabled THEN "install" ELSE "uninstall")
    /\ UNCHANGED <<world, files, events, locals, history>>

\* Bug to catch: a change announced while the thread is busy is dropped.
Rests_DropsPending == svc' = "idle" /\ watching' = TRUE /\ due' = 0

\* The end of start-up or of a callback: the thread waits for the next event.
Rests == svc' = "idle" /\ watching' = TRUE /\ UNCHANGED due

\* A file without our marker is backed up, unless a backup is already there.
NeedsBackup == pcf \notin {"absent", "ours"} /\ bak = "absent"

Install ==
    /\ At("install", IF NeedsBackup THEN "bakWrite" ELSE "pcfOpen")
    /\ IF NeedsBackup
          THEN held' = AsText(pcf) /\ bak' = "torn"
          ELSE UNCHANGED <<held, bak>>
    /\ UNCHANGED <<world, conf, pcf, events, snap, history>>

BackupWrites ==
    /\ At("bakWrite", "pcfOpen")
    /\ bak' = held
    /\ UNCHANGED <<world, conf, pcf, events, locals, history>>

InstallOpens ==
    /\ At("pcfOpen", "pcfWrite")
    /\ pcf' = "torn"
    /\ UNCHANGED <<world, conf, bak, events, locals, history>>

InstallWrites ==
    /\ svc = "pcfWrite" /\ Rests
    /\ pcf' = "ours"
    /\ UNCHANGED <<world, conf, bak, locals, history>>

\* Bug to catch: the backup is removed before its content is back.
Restore_RemovesFirst ==
    /\ bak # "absent"
    /\ At("uninstall", "restoreWrite")
    /\ held' = AsText(bak) /\ pcf' = "torn" /\ bak' = "absent"
    /\ UNCHANGED <<world, conf, events, snap, history>>

\* uninstall with a backup: its content goes back, then it is removed.
Restore ==
    /\ bak # "absent"
    /\ At("uninstall", "restoreWrite")
    /\ held' = AsText(bak) /\ pcf' = "torn"
    /\ UNCHANGED <<world, conf, bak, events, snap, history>>

RestoreWrites ==
    /\ At("restoreWrite", "bakRemove")
    /\ pcf' = held
    /\ UNCHANGED <<world, conf, bak, events, locals, history>>

\* Bug to catch: the backup outlives its restoration.
BackupRemoved_Kept ==
    /\ svc = "bakRemove" /\ Rests
    /\ UNCHANGED <<world, files, locals, history>>

BackupRemoved ==
    /\ svc = "bakRemove" /\ Rests
    /\ bak' = "absent"
    /\ UNCHANGED <<world, conf, pcf, locals, history>>

\* uninstall without a backup: only a file with our marker is removed.
Remove ==
    /\ svc = "uninstall" /\ bak = "absent" /\ Rests
    /\ pcf' = IF pcf = "ours" THEN "absent" ELSE pcf
    /\ UNCHANGED <<world, conf, bak, locals, history>>

\* Bug to catch: the callback sees to the routing and forgets the config.
SettingsChanged_RoutesOnly ==
    /\ due > 0 /\ At("idle", "pcf")
    /\ due' = due - 1
    /\ UNCHANGED <<world, files, watching, locals, history>>

\* onSettingsChanged.
SettingsChanged ==
    /\ due > 0 /\ At("idle", "publish")
    /\ due' = due - 1
    /\ UNCHANGED <<world, files, watching, locals, history>>

\* An exception: publishing goes on with the routing, the routing is given up.
Fault ==
    /\ svc \in Steps /\ faults < MaxFaults
    /\ \/ /\ svc \in {"publish", "confOpen", "confWrite"} /\ svc' = "pcf"
          /\ UNCHANGED events
       \/ /\ svc \notin {"publish", "confOpen", "confWrite"} /\ Rests
    /\ faults' = faults + 1
    /\ stale' = TRUE
    /\ cut' = cut \union {svc}
    /\ UNCHANGED <<world, files, locals, stops>>

-----------------------------------------------------------------------------
(* Kodi, its user and the external player. *)

\* Kodi stops or dies; on a stop main removes nothing.
KodiStops ==
    /\ svc # "down" /\ stops < MaxStops
    /\ svc' = "down"
    /\ watching' = FALSE /\ due' = 0
    /\ cut' = cut \union ({svc} \cap Steps)
    /\ stops' = stops + 1
    /\ UNCHANGED <<world, files, locals, stale, faults>>

\* Settings are changed inside Kodi; nobody hears of it before the monitor exists.
ChangeSettings ==
    /\ svc # "down" /\ changes < MaxChanges
    /\ setting' \in Settings \ {setting}
    /\ changes' = changes + 1
    /\ IF watching THEN due' = due + 1 /\ UNCHANGED stale
                   ELSE stale' = TRUE /\ UNCHANGED due
    /\ UNCHANGED <<svc, loaded, got, owned, files, watching, locals, cut, stops, faults>>

\* The user writes a playercorefactory.xml of his own, while the service leaves it alone.
PutFile(u) ==
    /\ svc \in {"down", "idle"} /\ u # pcf
    /\ pcf' = u
    /\ mine' = (mine \ {pcf}) \union {u}
    /\ over' = IF bak \in {"absent", u} THEN over \ {u} ELSE over \union {u}
    /\ stale' = TRUE
    /\ UNCHANGED <<svc, setting, loaded, got, changes, conf, bak, events, locals, cut, stops, faults>>

\* A disc is started: pcf_player._load_config falls back to the defaults.
PlayDisc ==
    /\ svc # "down" /\ loaded
    /\ got' = {conf}
    /\ UNCHANGED <<svc, setting, loaded, owned, changes, files, events, locals, history>>

Service ==
    \/ KodiStarts \/ SettingsChanged
    \/ PublishReads \/ PublishOpens \/ PublishWrites
    \/ InstallReads \/ Install \/ BackupWrites \/ InstallOpens \/ InstallWrites
    \/ Restore \/ RestoreWrites \/ BackupRemoved \/ Remove

Next ==
    \/ Service \/ Fault
    \/ KodiStops \/ ChangeSettings \/ PlayDisc
    \/ \E u \in UserFiles : PutFile(u)

Spec == Init /\ [][Next]_routingVars /\ WF_routingVars(Service)

-----------------------------------------------------------------------------
(* Properties. *)

\* Type invariant; a backup never holds our own file.
TypeOK ==
    /\ setting \in Settings /\ snap \in Settings
    /\ conf \in {<<>>} \union Published /\ got \subseteq {<<>>} \union Published
    /\ pcf \in Contents
    /\ {bak, held} \subseteq Contents \ {"ours"}
    /\ loaded \in BOOLEAN /\ watching \in BOOLEAN /\ stale \in BOOLEAN
    /\ svc \in Steps \union {"down", "idle"}
    /\ due \in 0 .. MaxChanges /\ changes \in 0 .. MaxChanges
    /\ stops \in 0 .. MaxStops /\ faults \in 0 .. MaxFaults
    /\ over \subseteq UserFiles /\ mine \subseteq UserFiles /\ cut \subseteq Steps

\* The user files that install and uninstall take care of.  They do not take care
\* of a file put while an earlier one was in the backup: the next install writes
\* over it without a backup, the next uninstall puts the earlier one in its place
\* (pcf.py:75, 96-101).  Nor of a file that text mode changes (pcf.py:76-80).
Cared == mine \ (over \union Lossy)

\* Every user file but those two kinds is in place or in the backup, whenever
\* Kodi stops, whatever fails and whatever file the user puts next, unless a
\* write of the backup or of our own file was cut short (pcf.py:76-83).
UserFileKept ==
    cut \cap {"bakWrite", "pcfWrite"} = {} => Cared \subseteq {pcf, bak}

Settled == svc = "idle" /\ due = 0 /\ ~stale

\* Once the service has handled every announced change, the player's config is
\* the settings and our rules are in place exactly when the handoff is enabled.
SettledInForce ==
    Settled => conf = <<setting>> /\ (pcf = "ours" <=> setting.enabled)

\* Turning the handoff off gives the user the file in the backup back, and leaves
\* no backup behind: a file put from then on is not replaced by an older one
\* (pcf.py:96-102).  One put before that, beside a backup, is: it is not in Cared.
DisabledRestores ==
    Settled /\ ~setting.enabled /\ cut = {} => Cared \subseteq {pcf} /\ bak = "absent"

\* Kodi routes a disc to the player only after a config was published, so a disc
\* runs unconfigured only if it starts while the config is being rewritten, or
\* after the service was cut short (service_cec.py:136-137, 52-59).
DiscPlaysConfigured ==
    [][PlayDisc /\ cut = {} /\ svc # "confWrite" => got' # {<<>>}]_routingVars

\* A settings change reaches the external player while Kodi runs, unless a
\* further change, a fault or the start-up window intervenes.
ChangesLand ==
    \A s \in Settings :
        (due > 0 /\ setting = s) ~> (conf = <<s>> \/ setting # s \/ stale \/ svc = "down")
=============================================================================
