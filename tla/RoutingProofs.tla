--------------------------- MODULE RoutingProofs ---------------------------
(***************************************************************************)
(* Theorems about the service and its files, for any settings, any files   *)
(* of the user and any number of changes, stops and faults.                *)
(***************************************************************************)
EXTENDS Routing, TLAPS

\* Type correctness needs that every waiting callback stands for a change.
DueCounted == due <= changes

\* The types, and what makes them inductive.
TypeInv == TypeOK /\ DueCounted

\* The steps that follow the write of runtime_config.json.
Routes == {"install", "bakWrite", "pcfOpen", "pcfWrite"}
Unroutes == {"uninstall", "restoreWrite", "bakRemove"}
AfterPublish == {"pcf", "idle"} \union Routes \union Unroutes

\* What has been put in force so far, when nothing has changed since the
\* service read the settings.
InForce ==
    ~stale /\ due = 0 =>
        /\ svc \in {"confOpen", "confWrite"} => snap = setting
        /\ svc \in AfterPublish => conf = <<setting>>
        /\ svc \in Routes => setting.enabled
        /\ svc \in Unroutes => ~setting.enabled
        /\ svc = "restoreWrite" => held # "ours"
        /\ svc = "bakRemove" => pcf # "ours"
        /\ svc = "idle" => (pcf = "ours" <=> setting.enabled) /\ (~setting.enabled => bak = "absent")

\* Where the user's files are at every step of install and uninstall.
Whole == cut \cap {"bakWrite", "pcfWrite"} = {}
Saved == ({"mangled"} \union UserFiles) \ Lossy
Kept ==
    Whole =>
        /\ Cared \subseteq {pcf, bak}
        /\ svc = "bakWrite" => held = AsText(pcf) /\ pcf \in {"mangled"} \union UserFiles /\ bak = "torn"
        /\ svc = "bakWrite" => Cared \subseteq {held}
        /\ svc # "bakWrite" /\ (bak # "absent" \/ svc \in {"pcfOpen", "pcfWrite"}) => Cared \subseteq {bak}
        /\ svc # "bakWrite" => bak \in {"absent"} \union Saved
        /\ svc = "restoreWrite" => held = bak /\ bak # "absent"
        /\ svc = "bakRemove" => pcf = bak /\ bak # "absent"
        /\ bak = "absent" /\ svc \notin {"pcfWrite", "restoreWrite"} => pcf # "torn"

\* Whoever can start the player has a config.
Configured ==
    cut = {} /\ svc # "confWrite" /\ (loaded \/ pcf = "ours" \/ svc \in AfterPublish) => conf # <<>>

-----------------------------------------------------------------------------
(* Every step keeps each part. *)

\* The types, with the count of the waiting callbacks.
LEMMA TypeKept ==
    ASSUME TypeInv, [Next]_routingVars
    PROVE  TypeInv'
<1> USE RoutingConstants DEF TypeInv, TypeOK, DueCounted, AsText, Steps, Settings, Published, Contents,
        owned, world, files, events, locals, history
<1>1. CASE KodiStarts
  BY <1>1 DEF KodiStarts, At
<1>2. CASE SettingsChanged
  BY <1>2 DEF SettingsChanged, At
<1>3. CASE PublishReads
  BY <1>3 DEF PublishReads, At
<1>4. CASE PublishOpens
  BY <1>4 DEF PublishOpens, At
<1>5. CASE PublishWrites
  BY <1>5 DEF PublishWrites, At
<1>6. CASE InstallReads
  BY <1>6 DEF InstallReads, At
<1>7. CASE Install
  BY <1>7 DEF Install, At, NeedsBackup
<1>8. CASE BackupWrites
  BY <1>8 DEF BackupWrites, At
<1>9. CASE InstallOpens
  BY <1>9 DEF InstallOpens, At
<1>10. CASE InstallWrites
  BY <1>10 DEF InstallWrites, Rests
<1>11. CASE Restore
  BY <1>11 DEF Restore, At
<1>12. CASE RestoreWrites
  BY <1>12 DEF RestoreWrites, At
<1>13. CASE BackupRemoved
  BY <1>13 DEF BackupRemoved, Rests
<1>14. CASE Remove
  BY <1>14 DEF Remove, Rests
<1>15. CASE Fault
  <2>1. faults' \in 0 .. MaxFaults /\ cut' \subseteq Steps
    BY <1>15 DEF Fault
  <2>2. QED
    BY <1>15, <2>1 DEF Fault, Rests
<1>16. CASE KodiStops
  <2>1. stops' \in 0 .. MaxStops /\ due' \in 0 .. MaxChanges /\ due' <= changes'
    BY <1>16 DEF KodiStops
  <2>2. QED
    BY <1>16, <2>1 DEF KodiStops
<1>17. CASE ChangeSettings
  <2>1. changes' \in 0 .. MaxChanges /\ due' \in 0 .. MaxChanges /\ due' <= changes'
    BY <1>17 DEF ChangeSettings
  <2>2. QED
    BY <1>17, <2>1 DEF ChangeSettings
<1>18. CASE PlayDisc
  BY <1>18 DEF PlayDisc
<1>19. CASE \E u \in UserFiles : PutFile(u)
  BY <1>19 DEF PutFile
<1>20. CASE UNCHANGED routingVars
  BY <1>20 DEF routingVars
<1>21. QED
  BY <1>1, <1>2, <1>3, <1>4, <1>5, <1>6, <1>7, <1>8, <1>9, <1>10, <1>11, <1>12, <1>13, <1>14, <1>15, <1>16, <1>17, <1>18, <1>19, <1>20 DEF Next, Service

\* What has been put in force follows the settings at every step.
LEMMA InForceKept ==
    ASSUME TypeInv, InForce, [Next]_routingVars
    PROVE  InForce'
<1> USE RoutingConstants DEF TypeInv, TypeOK, DueCounted, InForce, Routes, Unroutes, AfterPublish, Steps,
        owned, world, files, events, locals, history
<1>1. CASE KodiStarts
  BY <1>1 DEF KodiStarts, At
<1>2. CASE SettingsChanged
  BY <1>2 DEF SettingsChanged, At
<1>3. CASE PublishReads
  BY <1>3 DEF PublishReads, At
<1>4. CASE PublishOpens
  BY <1>4 DEF PublishOpens, At
<1>5. CASE PublishWrites
  BY <1>5 DEF PublishWrites, At
<1>6. CASE InstallReads
  BY <1>6 DEF InstallReads, At
<1>7. CASE Install
  BY <1>7 DEF Install, At, NeedsBackup
<1>8. CASE BackupWrites
  BY <1>8 DEF BackupWrites, At
<1>9. CASE InstallOpens
  BY <1>9 DEF InstallOpens, At
<1>10. CASE InstallWrites
  BY <1>10 DEF InstallWrites, Rests
<1>11. CASE Restore
  BY <1>11 DEF Restore, At, AsText
<1>12. CASE RestoreWrites
  BY <1>12 DEF RestoreWrites, At
<1>13. CASE BackupRemoved
  BY <1>13 DEF BackupRemoved, Rests
<1>14. CASE Remove
  BY <1>14 DEF Remove, Rests
<1>15. CASE Fault
  BY <1>15 DEF Fault, Rests
<1>16. CASE KodiStops
  BY <1>16 DEF KodiStops
<1>17. CASE ChangeSettings
  BY <1>17 DEF ChangeSettings
<1>18. CASE PlayDisc
  BY <1>18 DEF PlayDisc
<1>19. CASE \E u \in UserFiles : PutFile(u)
  BY <1>19 DEF PutFile
<1>20. CASE UNCHANGED routingVars
  BY <1>20 DEF routingVars
<1>21. QED
  BY <1>1, <1>2, <1>3, <1>4, <1>5, <1>6, <1>7, <1>8, <1>9, <1>10, <1>11, <1>12, <1>13, <1>14, <1>15, <1>16, <1>17, <1>18, <1>19, <1>20 DEF Next, Service

\* The user's files survive every step of install and uninstall.
LEMMA KeptKept ==
    ASSUME TypeInv, Kept, [Next]_routingVars
    PROVE  Kept'
<1> USE RoutingConstants DEF TypeInv, TypeOK, Kept, Whole, Cared, Saved, AsText, Contents, Steps,
        owned, world, files, events, locals, history
<1>1. CASE KodiStarts
  BY <1>1 DEF KodiStarts, At
<1>2. CASE SettingsChanged
  BY <1>2 DEF SettingsChanged, At
<1>3. CASE PublishReads
  BY <1>3 DEF PublishReads, At
<1>4. CASE PublishOpens
  BY <1>4 DEF PublishOpens, At
<1>5. CASE PublishWrites
  BY <1>5 DEF PublishWrites, At
<1>6. CASE InstallReads
  BY <1>6 DEF InstallReads, At
<1>7. CASE Install
  <2>1. CASE NeedsBackup
    <3>1. svc = "install" /\ svc' = "bakWrite" /\ held' = AsText(pcf) /\ bak' = "torn"
      BY <1>7, <2>1 DEF Install, At
    <3>2. UNCHANGED <<world, pcf, cut>>
      BY <1>7 DEF Install
    <3>3. Whole => pcf \in {"mangled"} \union UserFiles
      BY <2>1, <3>1 DEF NeedsBackup
    <3>4. Whole => Cared \subseteq {pcf} /\ (pcf \in Cared => AsText(pcf) = pcf)
      BY <2>1, <3>1 DEF NeedsBackup
    <3>5. QED
      BY <3>1, <3>2, <3>3, <3>4
  <2>2. CASE ~NeedsBackup
    BY <1>7, <2>2 DEF Install, At, NeedsBackup
  <2>3. QED
    BY <2>1, <2>2
<1>8. CASE BackupWrites
  BY <1>8 DEF BackupWrites, At
<1>9. CASE InstallOpens
  BY <1>9 DEF InstallOpens, At
<1>10. CASE InstallWrites
  BY <1>10 DEF InstallWrites, Rests
<1>11. CASE Restore
  <2>1. svc = "uninstall" /\ svc' = "restoreWrite" /\ bak # "absent" /\ held' = AsText(bak)
    BY <1>11 DEF Restore, At
  <2>2. UNCHANGED <<world, bak, cut>>
    BY <1>11 DEF Restore
  <2>3. Whole => bak \in Saved /\ AsText(bak) = bak
    BY <2>1
  <2>4. QED
    BY <2>1, <2>2, <2>3
<1>12. CASE RestoreWrites
  BY <1>12 DEF RestoreWrites, At
<1>13. CASE BackupRemoved
  BY <1>13 DEF BackupRemoved, Rests
<1>14. CASE Remove
  BY <1>14 DEF Remove, Rests
<1>15. CASE Fault
  BY <1>15 DEF Fault, Rests
<1>16. CASE KodiStops
  BY <1>16 DEF KodiStops
<1>17. CASE ChangeSettings
  BY <1>17 DEF ChangeSettings
<1>18. CASE PlayDisc
  BY <1>18 DEF PlayDisc
<1>19. CASE \E u \in UserFiles : PutFile(u)
  BY <1>19 DEF PutFile
<1>20. CASE UNCHANGED routingVars
  BY <1>20 DEF routingVars
<1>21. QED
  BY <1>1, <1>2, <1>3, <1>4, <1>5, <1>6, <1>7, <1>8, <1>9, <1>10, <1>11, <1>12, <1>13, <1>14, <1>15, <1>16, <1>17, <1>18, <1>19, <1>20 DEF Next, Service

\* A config stays published for as long as discs are routed.
LEMMA ConfiguredKept ==
    ASSUME TypeInv, Configured, [Next]_routingVars
    PROVE  Configured'
<1> USE RoutingConstants DEF TypeInv, TypeOK, Configured, Routes, Unroutes, AfterPublish, Steps,
        owned, world, files, events, locals, history
<1>1. CASE KodiStarts
  BY <1>1 DEF KodiStarts, At
<1>2. CASE SettingsChanged
  BY <1>2 DEF SettingsChanged, At
<1>3. CASE PublishReads
  BY <1>3 DEF PublishReads, At
<1>4. CASE PublishOpens
  BY <1>4 DEF PublishOpens, At
<1>5. CASE PublishWrites
  BY <1>5 DEF PublishWrites, At
<1>6. CASE InstallReads
  BY <1>6 DEF InstallReads, At
<1>7. CASE Install
  BY <1>7 DEF Install, At, NeedsBackup
<1>8. CASE BackupWrites
  BY <1>8 DEF BackupWrites, At
<1>9. CASE InstallOpens
  BY <1>9 DEF InstallOpens, At
<1>10. CASE InstallWrites
  BY <1>10 DEF InstallWrites, Rests
<1>11. CASE Restore
  BY <1>11 DEF Restore, At
<1>12. CASE RestoreWrites
  BY <1>12 DEF RestoreWrites, At
<1>13. CASE BackupRemoved
  BY <1>13 DEF BackupRemoved, Rests
<1>14. CASE Remove
  BY <1>14 DEF Remove, Rests
<1>15. CASE Fault
  BY <1>15 DEF Fault, Rests
<1>16. CASE KodiStops
  BY <1>16 DEF KodiStops
<1>17. CASE ChangeSettings
  BY <1>17 DEF ChangeSettings
<1>18. CASE PlayDisc
  BY <1>18 DEF PlayDisc
<1>19. CASE \E u \in UserFiles : PutFile(u)
  BY <1>19 DEF PutFile
<1>20. CASE UNCHANGED routingVars
  BY <1>20 DEF routingVars
<1>21. QED
  BY <1>1, <1>2, <1>3, <1>4, <1>5, <1>6, <1>7, <1>8, <1>9, <1>10, <1>11, <1>12, <1>13, <1>14, <1>15, <1>16, <1>17, <1>18, <1>19, <1>20 DEF Next, Service

-----------------------------------------------------------------------------
(* The theorems. *)

\* Every other invariant rests on the types.
LEMMA TypesHold == Spec => []TypeInv
<1>1. ASSUME Init PROVE TypeInv
  <2>1. setting \in Settings /\ snap \in Settings /\ conf = <<>> /\ got = {}
    BY <1>1 DEF Init
  <2>2. pcf \in Contents /\ {bak, held} \subseteq Contents \ {"ours"}
    BY <1>1 DEF Init, Contents
  <2>3. /\ due \in 0 .. MaxChanges /\ changes \in 0 .. MaxChanges /\ due <= changes
        /\ stops \in 0 .. MaxStops /\ faults \in 0 .. MaxFaults
    BY <1>1, RoutingConstants DEF Init
  <2>4. QED
    BY <1>1, <2>1, <2>2, <2>3 DEF Init, TypeInv, TypeOK, DueCounted
<1>2. TypeInv /\ [Next]_routingVars => TypeInv'
  BY TypeKept
<1>3. QED
  BY <1>1, <1>2, PTL DEF Spec

\* The state stays in type and a backup never holds the add-on's own file,
\* for any settings and user files and any number of changes, stops and faults.
THEOREM RoutingTypeCorrect == Spec => []TypeOK
<1>1. TypeInv => TypeOK
  BY DEF TypeInv
<1>2. QED
  BY <1>1, TypesHold, PTL

\* What has been put in force holds in every behaviour.
LEMMA InForceHolds == Spec => []InForce
<1>1. Init => InForce
  BY DEF Init, InForce, Routes, Unroutes, AfterPublish
<1>2. TypeInv /\ InForce /\ [Next]_routingVars => InForce'
  BY InForceKept
<1>3. QED
  BY <1>1, <1>2, TypesHold, PTL DEF Spec

\* The published config is the settings, and the routing rules are in place
\* exactly when the handoff is enabled, whenever the service has handled every
\* announced change (service_cec.py:145-149).
THEOREM SettingsInForce == Spec => []SettledInForce
<1>1. InForce => SettledInForce
  BY DEF InForce, SettledInForce, Settled, AfterPublish
<1>2. QED
  BY <1>1, InForceHolds, PTL

\* Where the user's files are holds in every behaviour.
LEMMA KeptHolds == Spec => []Kept
<1>1. Init => Kept
  BY RoutingConstants DEF Init, Kept, Whole, Cared, Saved
<1>2. TypeInv /\ Kept /\ [Next]_routingVars => Kept'
  BY KeptKept
<1>3. QED
  BY <1>1, <1>2, TypesHold, PTL DEF Spec

\* However many files the user puts, each one is in place or in the backup wherever
\* Kodi stops, unless it was put while an earlier one was in the backup, or text
\* mode changes it, or a write of the backup or of the add-on's own file was cut
\* short (pcf.py:68-114).
THEOREM UserFilesKept == Spec => []UserFileKept
<1>1. Kept => UserFileKept
  BY DEF Kept, Whole, UserFileKept
<1>2. QED
  BY <1>1, KeptHolds, PTL

\* Turning the handoff off puts the file in the backup back and leaves no backup,
\* so that a file put later is not replaced by an older one (pcf.py:91-114).
THEOREM BackupRestored == Spec => []DisabledRestores
<1>1. ASSUME TypeInv, InForce, Kept
      PROVE  DisabledRestores
  BY <1>1, RoutingConstants
     DEF TypeInv, TypeOK, InForce, Kept, Whole, Cared, DisabledRestores, Settled
<1>2. QED
  BY <1>1, TypesHold, InForceHolds, KeptHolds, PTL

\* A disc that Kodi routes to the player finds a config, unless it starts while
\* the config is being rewritten or after a step was cut short
\* (service_cec.py:136-137, 52-59).
THEOREM DiscsPlayConfigured == Spec => DiscPlaysConfigured
<1>1. Init => Configured
  BY RoutingConstants DEF Init, Configured, AfterPublish, Routes, Unroutes
<1>2. TypeInv /\ Configured /\ [Next]_routingVars => Configured'
  BY ConfiguredKept
<1>3. TypeInv /\ Configured /\ [Next]_routingVars
        => [PlayDisc /\ cut = {} /\ svc # "confWrite" => got' # {<<>>}]_routingVars
  BY DEF Configured, PlayDisc
<1>4. QED
  BY <1>1, <1>2, <1>3, TypesHold, PTL DEF Spec, DiscPlaysConfigured
=============================================================================
