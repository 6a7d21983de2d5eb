------------------------------ MODULE PiSetup -------------------------------
(***************************************************************************)
(* The provisioner of a Raspberry Pi for the LIRC transport: it installs    *)
(* ir-ctl, keeps a copy of config.txt as it found it and appends the kernel *)
(* overlays that are missing, by a temporary file that replaces config.txt  *)
(* in one step.  It is run again and again, with and without the receiver,  *)
(* and may be cut off at every step.  apt is external.                      *)
(***************************************************************************)
EXTENDS Integers, Sequences, Functions

CONSTANTS
    Firsts,     \* what config.txt may hold at first, lines as members of Lines
    MaxSetups   \* bound: runs of the provisioner

\* The overlays of the transmitter and the receiver as the program writes them,
\* and lines of the owner's own, among them an overlay on another pin.
TX_OVERLAY == "tx"
RX_OVERLAY == "rx"
Lines == {TX_OVERLAY, RX_OVERLAY, "own", "other pin"}

ASSUME PiConstants == Firsts \subseteq Seq(Lines) /\ MaxSetups \in Nat

None == <<"none">>
Torn == <<"torn">>

VARIABLES
    spc,        \* where the provisioner is, "off" when it does not run
    receiver,   \* --with-receiver of this run
    libreelec,  \* the system bundles ir-ctl and its config.txt is in /flash, fixed
    irctl,      \* ir-ctl is installed
    config,     \* config.txt, a sequence of lines
    bak,        \* config.txt.okb-bak: lines, None or Torn
    text,       \* apply_overlays: what it read
    litter,     \* temporary files left beside config.txt
    setups,     \* runs so far
    pristine,   \* history: config.txt as the first run that patched it found it
    patched,    \* history: config.txt has been replaced by the program
    tornBak     \* history: the writing of the backup was cut off

files == <<config, bak, litter>>
runState == <<spc, receiver, text, setups>>
pastOf == <<pristine, patched, tornBak>>
piVars == <<runState, libreelec, irctl, files, pastOf>>

-----------------------------------------------------------------------------
(* missing_overlays. *)

Overlays == {TX_OVERLAY, RX_OVERLAY}

\* The lines that are not among those that are gone, in their order.
Without(lines, gone) ==
    LET kept[n \in 0 .. Len(lines)] ==
          IF n = 0 THEN <<>>
          ELSE IF lines[n] \in gone THEN kept[n - 1] ELSE Append(kept[n - 1], lines[n])
    IN  kept[Len(lines)]

WantedOverlays == IF receiver THEN <<TX_OVERLAY, RX_OVERLAY>> ELSE <<TX_OVERLAY>>

\* Bug to catch: every wanted overlay is appended every time.
MissingOverlays_All(content) == WantedOverlays

MissingOverlays(content) == Without(WantedOverlays, Range(content))

PiInit ==
    /\ spc = "off" /\ receiver = FALSE /\ libreelec \in BOOLEAN /\ irctl \in BOOLEAN
    /\ config \in Firsts /\ bak = None /\ text = <<>> /\ litter = 0 /\ setups = 0
    /\ libreelec => irctl
    /\ pristine = config /\ patched = FALSE /\ tornBak = FALSE

-----------------------------------------------------------------------------
(* main --apply; a dry run and --verify-only change nothing. *)

StartSetup ==
    /\ spc = "off" /\ setups < MaxSetups
    /\ setups' = setups + 1 /\ receiver' \in BOOLEAN
    /\ spc' = IF ~irctl /\ ~libreelec THEN "install" ELSE "apply"
    /\ UNCHANGED <<libreelec, irctl, files, text, pastOf>>

\* apt-get update, whose failure is only reported, and apt-get install, whose
\* failure is the end.
Install ==
    /\ spc = "install"
    /\ \/ spc' = "apply" /\ irctl' = TRUE
       \/ spc' = "off" /\ irctl' = irctl
    /\ UNCHANGED <<receiver, text, setups, libreelec, files, pastOf>>

\* Bug to catch: the copy is made again before every patch.
ReadConfig_CopiesAgain ==
    /\ spc = "apply"
    /\ text' = config
    /\ spc' = IF MissingOverlays(config) = <<>> THEN "off" ELSE "open backup"
    /\ pristine' = IF patched \/ bak # None THEN pristine ELSE config
    /\ UNCHANGED <<receiver, setups, libreelec, irctl, files, patched, tornBak>>

\* apply_overlays reads config.txt again, and _backup looks for its copy.
ReadConfig ==
    /\ spc = "apply"
    /\ text' = config
    /\ spc' = CASE MissingOverlays(config) = <<>> -> "off"
                [] MissingOverlays(config) # <<>> /\ bak # None -> "patch"
                [] OTHER -> "open backup"
    /\ pristine' = IF patched \/ bak # None THEN pristine ELSE config
    /\ UNCHANGED <<receiver, setups, libreelec, irctl, files, patched, tornBak>>

\* open(bak, "w") truncates, then the text is written.
OpenBackup ==
    /\ spc = "open backup"
    /\ bak' = Torn /\ spc' = "write backup"
    /\ UNCHANGED <<receiver, text, setups, libreelec, irctl, config, litter, pastOf>>

WriteBackup ==
    /\ spc = "write backup"
    /\ bak' = text /\ spc' = "patch"
    /\ UNCHANGED <<receiver, text, setups, libreelec, irctl, config, litter, pastOf>>

\* _write: mkstemp, write and fsync ...
WriteTemp ==
    /\ spc = "patch"
    /\ litter' = litter + 1 /\ spc' = "replace"
    /\ UNCHANGED <<receiver, text, setups, libreelec, irctl, config, bak, pastOf>>

\* ... then os.replace; it may end in a reboot.
ReplaceConfig ==
    /\ spc = "replace"
    /\ config' = text \o MissingOverlays(text) /\ litter' = litter - 1
    /\ patched' = TRUE /\ spc' = "off"
    /\ UNCHANGED <<receiver, text, setups, libreelec, irctl, bak, pristine, tornBak>>

\* A file operation raises: _write removes its temporary file, the backup stays as it is.
OsError ==
    /\ spc \in {"open backup", "write backup", "patch", "replace"}
    /\ spc' = "off"
    /\ litter' = IF spc = "replace" THEN litter - 1 ELSE litter
    /\ tornBak' = (tornBak \/ spc = "write backup")
    /\ UNCHANGED <<receiver, text, setups, libreelec, irctl, config, bak, pristine, patched>>

\* The power goes, or the run is killed.
CutOff ==
    /\ spc # "off"
    /\ spc' = "off"
    /\ tornBak' = (tornBak \/ spc = "write backup")
    /\ UNCHANGED <<receiver, text, setups, libreelec, irctl, files, pristine, patched>>

\* Between two runs the owner takes overlays out again, or puts the copy back.
OwnerEdits ==
    /\ spc = "off" /\ patched
    /\ \/ config' = Without(config, Overlays)
       \/ bak \notin {None, Torn} /\ config' = bak
    /\ UNCHANGED <<runState, libreelec, irctl, bak, litter, pastOf>>

PiNext ==
    \/ StartSetup \/ Install \/ ReadConfig \/ OpenBackup \/ WriteBackup
    \/ WriteTemp \/ ReplaceConfig \/ OsError \/ CutOff \/ OwnerEdits

PiSpec == PiInit /\ [][PiNext]_piVars

-----------------------------------------------------------------------------
(* Properties. *)

PiTypeOK ==
    /\ spc \in {"off", "install", "apply", "open backup", "write backup", "patch", "replace"}
    /\ {receiver, libreelec, irctl, patched, tornBak} \subseteq BOOLEAN
    /\ {config, text, pristine} \subseteq Seq(Lines)
    /\ bak \in Seq(Lines) \union {None, Torn}
    /\ litter \in 0 .. MaxSetups /\ setups \in 0 .. MaxSetups
    /\ spc = "replace" => litter > 0

\* Once config.txt was patched, the copy is what it held before the first patch,
\* however often and with whatever overlays the program ran since, unless the
\* writing of the copy was itself cut off (setup_rpi4_lirc.py:115-122).
PristineKept == patched /\ ~tornBak => bak = pristine

\* The overlays that are in a config.txt more than once.
Doubled(lines) ==
    {overlay \in Overlays : \E i, j \in DOMAIN lines : i # j /\ lines[i] = overlay /\ lines[j] = overlay}

\* No overlay is in config.txt twice that was not when the program first found it,
\* and every line that is not an overlay is still there, in order.
OverlaysOnce ==
    /\ Doubled(config) \subseteq Doubled(pristine)
    /\ Without(config, Overlays) = Without(pristine, Overlays)
=============================================================================
