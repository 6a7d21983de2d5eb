------------------------------- MODULE Setup -------------------------------
(***************************************************************************)
(* Who writes the player's address and mount: the first-run wizard         *)
(* (wizard.run_wizard, a script of its own inside Kodi), the settings      *)
(* dialog, and the service, whose onSettingsChanged fills in the address   *)
(* of the chosen model and publishes the config.  The three run in         *)
(* different threads and share nothing but the settings.                   *)
(***************************************************************************)
EXTENDS Naturals

CONSTANTS
    Custom,    \* addresses the user may have given his player
    Mounts,    \* mount directories the player may report
    MaxEdits,  \* bound: settings dialogs
    MaxRuns    \* bound: wizards that are started

ASSUME SetupConstants ==
    /\ Custom \cap {"", "10", "228"} = {}
    /\ "nfs1" \in Mounts
    /\ MaxEdits \in Nat /\ MaxRuns \in Nat \ {0}

Models == {"M9205", "M9207"}
DefaultIp == [M9205 |-> "10", M9207 |-> "228"]
Addresses == Custom \union {DefaultIp[m] : m \in Models}

VARIABLES
    model, field, mount,  \* settings oppo_model, oppo_ip, oppo_mount
    done,                 \* setting wizard_done
    conf,                 \* the published config, as far as it is about these
    spc,                  \* where the service's thread is
    due,                  \* an onSettingsChanged waits for it
    prev,                 \* _Monitor._model
    seen,                 \* the model and address the callback read
    wpc,                  \* where the wizard is
    proposal,             \* the address its input box opened with
    player,               \* the address at which the player answers
    typed,                \* history: the last address the user entered
    reached,              \* history: the address the wizard's ping was answered at
    raced,                \* history: a setting was written while a fill was under way
    edits, runs

settings == <<model, field, mount, done>>
service == <<conf, spc, prev, seen>>
wizard == <<wpc, proposal>>
told == <<typed, reached>>
setupVars == <<settings, service, due, wizard, player, told, raced, edits, runs>>

\* Bug to catch: the model always decides.
ResolveOppoIp_Clobbers(m, ip) == DefaultIp[m]

ResolveOppoIp(m, ip) == IF ip \in Custom THEN ip ELSE DefaultIp[m]

\* from_addon, as far as it is about these settings.
FromAddon == [ip |-> ResolveOppoIp(model, field), mount |-> mount]

Init ==
    /\ model \in Models /\ field \in {"", "10"} \union Custom
    /\ mount = "nfs1" /\ done = FALSE
    /\ conf = FromAddon /\ prev = model /\ seen = [model |-> model, ip |-> field]
    /\ spc = "idle" /\ due = FALSE
    /\ wpc = "offer" /\ proposal = ""
    /\ player \in Addresses
    /\ typed = field /\ reached = "" /\ raced = FALSE
    /\ edits = 0 /\ runs = 1

-----------------------------------------------------------------------------
(* The service's thread. *)

\* Bug to catch: without a change of model there is nothing to publish.
Callback_ModelOnly ==
    /\ spc = "idle" /\ due
    /\ due' = FALSE
    /\ seen' = [model |-> model, ip |-> field]
    /\ spc' = IF model = prev THEN "idle" ELSE "fill"
    /\ UNCHANGED <<settings, conf, prev, wizard, player, told, raced, edits, runs>>

\* _autofill_ip_on_model_change, up to its reads.
Callback ==
    /\ spc = "idle" /\ due
    /\ due' = FALSE
    /\ seen' = [model |-> model, ip |-> field]
    /\ spc' = IF model = prev THEN "publish" ELSE "fill"
    /\ UNCHANGED <<settings, conf, prev, wizard, player, told, raced, edits, runs>>

\* Bug to catch: the change is not remembered, and the address written regardless.
Fill_Loops ==
    /\ spc = "fill" /\ spc' = "publish"
    /\ field' = ResolveOppoIp(seen.model, seen.ip) /\ due' = TRUE
    /\ UNCHANGED <<model, mount, done, conf, prev, seen, wizard, player, told, raced, edits, runs>>

\* Its write, which announces a change of its own, and its return.
Fill ==
    /\ spc = "fill" /\ spc' = "publish"
    /\ LET ip == ResolveOppoIp(seen.model, seen.ip) IN
       IF ip # seen.ip THEN field' = ip /\ due' = TRUE ELSE UNCHANGED <<field, due>>
    /\ prev' = seen.model
    /\ UNCHANGED <<model, mount, done, conf, seen, wizard, player, told, raced, edits, runs>>

Publish ==
    /\ spc = "publish" /\ spc' = "idle"
    /\ conf' = FromAddon
    /\ UNCHANGED <<settings, prev, seen, due, wizard, player, told, raced, edits, runs>>

-----------------------------------------------------------------------------
(* The wizard and the settings dialog. *)

\* What every write of a setting by someone else does to the service.
Announce == due' = TRUE /\ raced' = (raced \/ spc = "fill")

Leave == wpc' = "off" /\ UNCHANGED proposal

\* The question whether to run it at all.
Offer ==
    /\ wpc = "offer"
    /\ \/ wpc' = "model" /\ UNCHANGED <<done, due, raced>>
       \/ wpc' = "off" /\ done' = TRUE /\ Announce
    /\ UNCHANGED <<model, field, mount, service, proposal, player, told, edits, runs>>

\* 1. the model; cancelling leaves the wizard undone.
PickModel ==
    /\ wpc = "model"
    /\ \/ Leave /\ UNCHANGED <<model, reached, due, raced>>
       \/ /\ model' \in Models /\ reached' = ""
          /\ Announce
          /\ wpc' = "ip" /\ UNCHANGED proposal
    /\ UNCHANGED <<field, mount, done, service, player, typed, edits, runs>>

\* 2. the input box opens with the address of the settings, or the model's.
AskAddress ==
    /\ wpc = "ip" /\ wpc' = "typing"
    /\ proposal' = IF field = "" THEN DefaultIp[model] ELSE field
    /\ UNCHANGED <<settings, service, due, player, told, raced, edits, runs>>

\* The user accepts it, types another, or cancels.
TypeAddress ==
    /\ wpc = "typing"
    /\ \/ Leave /\ UNCHANGED <<field, typed, due, raced>>
       \/ /\ field' \in {proposal} \union Addresses /\ typed' = field'
          /\ Announce
          /\ wpc' = "ping" /\ UNCHANGED proposal
    /\ UNCHANGED <<model, mount, done, service, player, reached, edits, runs>>

\* Bug to catch: the ping's answer is only reported.
Ping_GoesOn ==
    /\ wpc = "ping" /\ wpc' = "iso"
    /\ reached' = IF FromAddon.ip = player THEN player ELSE ""
    /\ UNCHANGED <<settings, service, due, proposal, player, typed, raced, edits, runs>>

\* The player is pinged at the resolved address; the wizard ends without an answer.
Ping ==
    /\ wpc = "ping"
    /\ \/ wpc' = "iso" /\ FromAddon.ip = player /\ reached' = player
       \/ wpc' = "off" /\ reached' = ""
    /\ UNCHANGED <<settings, service, due, proposal, player, typed, raced, edits, runs>>

\* 5-8. a disc is played on the player, and what it reports may name a mount:
\* it is applied once the operator confirms.
Detect ==
    /\ \/ wpc = "iso" /\ wpc' = "bdmv"
       \/ wpc = "bdmv" /\ wpc' = "finish"
    /\ \/ UNCHANGED <<mount, due, raced>>
       \/ mount' \in Mounts /\ Announce
    /\ UNCHANGED <<model, field, done, service, proposal, player, told, edits, runs>>

\* 9. after the reclaim test the wizard is done.
Finish ==
    /\ wpc = "finish" /\ Leave
    /\ done' = TRUE
    /\ Announce
    /\ UNCHANGED <<model, field, mount, service, player, told, edits, runs>>

\* The button of the settings.
RunAgain ==
    /\ wpc = "off" /\ runs < MaxRuns
    /\ wpc' = "offer" /\ runs' = runs + 1
    /\ UNCHANGED <<settings, service, due, proposal, player, told, raced, edits>>

\* The settings dialog saves all it shows at once.
EditSettings ==
    /\ wpc = "off" /\ edits < MaxEdits
    /\ model' \in Models /\ field' \in {field} \union Addresses
    /\ typed' = IF field' # field THEN field' ELSE typed
    /\ reached' = ""
    /\ Announce
    /\ edits' = edits + 1
    /\ UNCHANGED <<mount, done, service, wizard, player, runs>>

\* Kodi starts anew: the wizard is gone, the service publishes, offers the
\* wizard until it is done, and only then reads the model it compares with.
KodiRestarts ==
    /\ runs < MaxRuns /\ runs' = runs + 1
    /\ conf' = FromAddon /\ prev' = model
    /\ spc' = "idle" /\ due' = FALSE
    /\ wpc' = IF done THEN "off" ELSE "offer"
    /\ UNCHANGED <<settings, seen, proposal, player, told, raced, edits>>

Service == Callback \/ Fill \/ Publish

Wizard == Offer \/ PickModel \/ AskAddress \/ TypeAddress \/ Ping \/ Detect \/ Finish

Next == Service \/ Wizard \/ RunAgain \/ EditSettings \/ KodiRestarts

Spec == Init /\ [][Next]_setupVars /\ WF_setupVars(Service)

-----------------------------------------------------------------------------
(* Properties. *)

TypeOK ==
    /\ model \in Models /\ prev \in Models /\ seen \in [model : Models, ip : {""} \union Addresses]
    /\ {field, typed, proposal, reached} \subseteq {""} \union Addresses
    /\ player \in Addresses /\ mount \in Mounts
    /\ conf \in [ip : Addresses, mount : Mounts]
    /\ spc \in {"idle", "fill", "publish"}
    /\ wpc \in {"off", "offer", "model", "ip", "typing", "ping", "iso", "bdmv", "finish"}
    /\ {done, due, raced} \subseteq BOOLEAN
    /\ edits \in 0 .. MaxEdits /\ runs \in 0 .. MaxRuns

\* A custom address the user entered stays in the settings whatever model is chosen
\* before or after, unless it was entered between the callback's read and its
\* write (service_cec.py:84-99, config.py:113-120).
CustomKept == typed \in Custom /\ ~raced => field = typed

\* The same without the exception: service_cec.py:87, "never clobbered".
NeverClobbered == typed \in Custom => field = typed

Settled == spc = "idle" /\ ~due

\* When the service has nothing left to do, the player will be looked for where
\* the wizard reached it, and the wizard's mount will be used (wizard.py:181-193).
WizardOutcomeHolds ==
    Settled /\ wpc = "off" /\ reached # "" /\ ~raced => conf = [ip |-> player, mount |-> mount]

\* The wizard comes to count as done only when it is declined, or after it has
\* reached the player; and the address it leaves behind is the one it reached,
\* unless a setting was written while a callback was about to fill the address in,
\* which may then put another one there (wizard.py:184-193, service_cec.py:94-98).
DoneMeansReached ==
    [][done' # done => \/ wpc = "offer"
                       \/ reached = player /\ (~raced => FromAddon.ip = player)]_setupVars

\* The address a callback writes announces a change again; that comes to an end
\* (service_cec.py:97, "no loop").
CallbacksEnd == <>[]Settled
=============================================================================
