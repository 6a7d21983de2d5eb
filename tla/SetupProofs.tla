---------------------------- MODULE SetupProofs ----------------------------
(***************************************************************************)
(* Theorems about who writes the player's address, for any custom          *)
(* addresses and mounts and any number of wizards and settings dialogs.    *)
(***************************************************************************)
EXTENDS Setup, TLAPS

\* When nothing waits for the service, the published config is the settings.
Fresh == spc = "idle" /\ ~due => conf = FromAddon

\* A callback writes what it read, unless someone wrote in between.
ReadsHold == spc = "fill" /\ ~raced => seen = [model |-> model, ip |-> field]

\* Where the wizard has got to tells whether it has reached the player, and
\* the address it was reached at is still the one the settings lead to.
Reaching ==
    /\ wpc \in {"ip", "typing", "ping"} => reached = ""
    /\ wpc \in {"iso", "bdmv", "finish"} => reached = player
    /\ reached \in {"", player}
    /\ reached = player /\ ~raced => FromAddon.ip = player

\* The inductive invariant.
SetupInv == TypeOK /\ Fresh /\ ReadsHold /\ CustomKept /\ Reaching

-----------------------------------------------------------------------------
(* The rule for addresses. *)

\* Resolving gives an address, keeps a custom one, and resolving twice for one
\* model changes nothing more (config.py:113-120).
LEMMA ResolveRule ==
    ASSUME NEW m \in Models, NEW ip \in {""} \union Addresses
    PROVE  /\ ResolveOppoIp(m, ip) \in Addresses
           /\ ip \in Custom => ResolveOppoIp(m, ip) = ip
           /\ ResolveOppoIp(m, ResolveOppoIp(m, ip)) = ResolveOppoIp(m, ip)
<1>1. DefaultIp[m] \in Addresses
  BY DEF Addresses
<1>2. /\ "10" \notin Custom
      /\ "228" \notin Custom
  BY SetupConstants
<1>3. DefaultIp[m] \in {"10", "228"}
  <2>1. /\ DefaultIp["M9205"] = "10"
        /\ DefaultIp["M9207"] = "228"
    BY DEF DefaultIp
  <2>2. QED
    BY <2>1 DEF Models
<1>4. DefaultIp[m] \notin Custom
  BY <1>2, <1>3
<1>5. ip \in Custom => ip \in Addresses
  BY DEF Addresses
<1>6. CASE ip \in Custom
  BY <1>5, <1>6 DEF ResolveOppoIp
<1>7. CASE ip \notin Custom
  BY <1>1, <1>4, <1>7 DEF ResolveOppoIp
<1>8. QED
  BY <1>6, <1>7

\* No address is blank.
LEMMA NotBlank == "" \notin Addresses
<1>1. "" \notin Custom
  BY SetupConstants
<1>2. \A m \in Models : DefaultIp[m] # ""
  <2>1. /\ DefaultIp["M9205"] = "10"
        /\ DefaultIp["M9207"] = "228"
    BY DEF DefaultIp
  <2>2. QED
    BY <2>1 DEF Models
<1>3. QED
  BY <1>1, <1>2 DEF Addresses

\* What the type invariant says of the addresses a step may read.
LEMMA Readings ==
    ASSUME TypeOK
    PROVE  /\ FromAddon \in [ip : Addresses, mount : Mounts]
           /\ DefaultIp[model] \in Addresses
           /\ seen.model \in Models
           /\ seen.ip \in {""} \union Addresses
           /\ ResolveOppoIp(seen.model, seen.ip) \in Addresses
<1>1. /\ model \in Models
      /\ field \in {""} \union Addresses
      /\ mount \in Mounts
      /\ seen \in [model : Models, ip : {""} \union Addresses]
  BY DEF TypeOK
<1>2. ResolveOppoIp(model, field) \in Addresses
  BY <1>1, ResolveRule
<1>3. /\ seen.model \in Models
      /\ seen.ip \in {""} \union Addresses
  BY <1>1
<1>4. ResolveOppoIp(seen.model, seen.ip) \in Addresses
  BY <1>3, ResolveRule
<1>5. DefaultIp[model] \in Addresses
  BY <1>1 DEF Addresses
<1>6. QED
  BY <1>1, <1>2, <1>3, <1>4, <1>5 DEF FromAddon

-----------------------------------------------------------------------------
(* Every step keeps each part. *)

\* The bounds of the model hold.
LEMMA CountersKept ==
    ASSUME TypeOK, [Next]_setupVars
    PROVE  runs' \in 0 .. MaxRuns /\ edits' \in 0 .. MaxEdits
<1>1. /\ runs \in 0 .. MaxRuns
      /\ edits \in 0 .. MaxEdits
      /\ MaxRuns \in Nat /\ MaxEdits \in Nat
  BY SetupConstants DEF TypeOK
<1>2. CASE runs' = runs /\ edits' = edits
  BY <1>1, <1>2
<1>3. CASE RunAgain
  BY <1>1, <1>3 DEF RunAgain
<1>4. CASE EditSettings
  <2>1. edits < MaxEdits /\ edits' = edits + 1 /\ runs' = runs
    BY <1>4 DEF EditSettings
  <2>2. QED
    BY <1>1, <2>1
<1>5. CASE KodiRestarts
  BY <1>1, <1>5 DEF KodiRestarts
<1>6. CASE Service \/ Wizard \/ UNCHANGED setupVars
  <2>1. runs' = runs /\ edits' = edits
    BY <1>6 DEF Service, Wizard, Callback, Fill, Publish, Offer, PickModel, AskAddress, TypeAddress,
                Ping, Detect, Finish, setupVars
  <2>2. QED
    BY <1>2, <2>1
<1>7. QED
  BY <1>3, <1>4, <1>5, <1>6 DEF Next

\* The types.
LEMMA TypeKept ==
    ASSUME TypeOK, [Next]_setupVars
    PROVE  TypeOK'
<1>0. /\ FromAddon \in [ip : Addresses, mount : Mounts]
      /\ DefaultIp[model] \in Addresses
      /\ seen.model \in Models
      /\ ResolveOppoIp(seen.model, seen.ip) \in Addresses
  BY Readings
<1> USE <1>0, SetupConstants DEF TypeOK, settings, service, wizard, told
<1>1. CASE Callback
  BY <1>1 DEF Callback
<1>2. CASE Fill
  BY <1>2 DEF Fill
<1>3. CASE Publish
  BY <1>3 DEF Publish
<1>4. CASE Offer
  BY <1>4 DEF Offer, Announce
<1>5. CASE PickModel
  BY <1>5 DEF PickModel, Announce, Leave
<1>6. CASE AskAddress
  BY <1>6 DEF AskAddress
<1>7. CASE TypeAddress
  BY <1>7 DEF TypeAddress, Announce, Leave
<1>8. CASE Ping
  BY <1>8 DEF Ping
<1>9. CASE Detect
  BY <1>9 DEF Detect, Announce
<1>10. CASE Finish
  BY <1>10 DEF Finish, Announce, Leave
<1>11. CASE RunAgain
  <2>1. runs' \in 0 .. MaxRuns
    BY CountersKept
  <2>2. QED
    BY <1>11, <2>1 DEF RunAgain
<1>12. CASE EditSettings
  <2>1. edits' \in 0 .. MaxEdits
    BY CountersKept
  <2>2. typed' \in {""} \union Addresses
    BY <1>12 DEF EditSettings
  <2>3. QED
    BY <1>12, <2>1, <2>2 DEF EditSettings, Announce
<1>13. CASE KodiRestarts
  <2>1. runs' \in 0 .. MaxRuns
    BY CountersKept
  <2>2. QED
    BY <1>13, <2>1 DEF KodiRestarts
<1>14. CASE UNCHANGED setupVars
  BY <1>14 DEF setupVars
<1>15. QED
  BY <1>1, <1>2, <1>3, <1>4, <1>5, <1>6, <1>7, <1>8, <1>9, <1>10, <1>11, <1>12, <1>13, <1>14 DEF Next, Service, Wizard

\* Whatever changes a setting announces it.
LEMMA FreshKept ==
    ASSUME TypeOK, Fresh, [Next]_setupVars
    PROVE  Fresh'
<1> USE DEF TypeOK, Fresh, FromAddon, settings, service, wizard, told
<1>1. CASE Callback
  BY <1>1 DEF Callback
<1>2. CASE Fill
  BY <1>2 DEF Fill
<1>3. CASE Publish
  BY <1>3 DEF Publish
<1>4. CASE Offer
  BY <1>4 DEF Offer, Announce
<1>5. CASE PickModel
  BY <1>5 DEF PickModel, Announce, Leave
<1>6. CASE AskAddress
  BY <1>6 DEF AskAddress
<1>7. CASE TypeAddress
  BY <1>7 DEF TypeAddress, Announce, Leave
<1>8. CASE Ping
  BY <1>8 DEF Ping
<1>9. CASE Detect
  <2>1. /\ wpc = "iso" => wpc' = "bdmv"
        /\ wpc # "iso" => wpc = "bdmv" /\ wpc' = "finish"
        /\ UNCHANGED <<model, field, done, service, proposal, player, told, edits, runs>>
    BY <1>9 DEF Detect
  <2>2. CASE UNCHANGED <<mount, due, raced>>
    BY <2>1, <2>2
  <2>3. CASE Announce
    BY <2>1, <2>3 DEF Announce
  <2>4. QED
    BY <1>9, <2>2, <2>3 DEF Detect
<1>10. CASE Finish
  BY <1>10 DEF Finish, Announce, Leave
<1>11. CASE RunAgain
  BY <1>11 DEF RunAgain
<1>12. CASE EditSettings
  BY <1>12 DEF EditSettings, Announce
<1>13. CASE KodiRestarts
  BY <1>13 DEF KodiRestarts
<1>14. CASE UNCHANGED setupVars
  BY <1>14 DEF setupVars
<1>15. QED
  BY <1>1, <1>2, <1>3, <1>4, <1>5, <1>6, <1>7, <1>8, <1>9, <1>10, <1>11, <1>12, <1>13, <1>14 DEF Next, Service, Wizard

\* A write between the callback's read and its own write counts as a race.
LEMMA ReadsKept ==
    ASSUME TypeOK, ReadsHold, [Next]_setupVars
    PROVE  ReadsHold'
<1> USE DEF TypeOK, ReadsHold, settings, service, wizard, told
<1>1. CASE Callback
  BY <1>1 DEF Callback
<1>2. CASE Fill
  BY <1>2 DEF Fill
<1>3. CASE Publish
  BY <1>3 DEF Publish
<1>4. CASE Offer
  BY <1>4 DEF Offer, Announce
<1>5. CASE PickModel
  BY <1>5 DEF PickModel, Announce, Leave
<1>6. CASE AskAddress
  BY <1>6 DEF AskAddress
<1>7. CASE TypeAddress
  BY <1>7 DEF TypeAddress, Announce, Leave
<1>8. CASE Ping
  BY <1>8 DEF Ping
<1>9. CASE Detect
  <2>1. /\ wpc = "iso" => wpc' = "bdmv"
        /\ wpc # "iso" => wpc = "bdmv" /\ wpc' = "finish"
        /\ UNCHANGED <<model, field, done, service, proposal, player, told, edits, runs>>
    BY <1>9 DEF Detect
  <2>2. CASE UNCHANGED <<mount, due, raced>>
    BY <2>1, <2>2
  <2>3. CASE Announce
    BY <2>1, <2>3 DEF Announce
  <2>4. QED
    BY <1>9, <2>2, <2>3 DEF Detect
<1>10. CASE Finish
  BY <1>10 DEF Finish, Announce, Leave
<1>11. CASE RunAgain
  BY <1>11 DEF RunAgain
<1>12. CASE EditSettings
  BY <1>12 DEF EditSettings, Announce
<1>13. CASE KodiRestarts
  BY <1>13 DEF KodiRestarts
<1>14. CASE UNCHANGED setupVars
  BY <1>14 DEF setupVars
<1>15. QED
  BY <1>1, <1>2, <1>3, <1>4, <1>5, <1>6, <1>7, <1>8, <1>9, <1>10, <1>11, <1>12, <1>13, <1>14 DEF Next, Service, Wizard

\* A fill keeps a custom address, and everyone else who writes the field notes it.
LEMMA CustomKeptKept ==
    ASSUME TypeOK, ReadsHold, CustomKept, [Next]_setupVars
    PROVE  CustomKept'
<1> USE DEF TypeOK, ReadsHold, CustomKept, settings, service, wizard, told
<1>1. CASE Callback
  BY <1>1, ResolveRule DEF Callback
<1>2. CASE Fill
  <2>1. /\ raced' = raced /\ typed' = typed /\ model' = model
        /\ field' \in {field, ResolveOppoIp(seen.model, seen.ip)}
    BY <1>2 DEF Fill
  <2>2. CASE raced
    BY <1>2, <2>1, <2>2 DEF Fill
  <2>3. CASE ~raced
    <3>0. seen = [model |-> model, ip |-> field]
      BY <1>2, <2>3, Zenon DEF Fill, ReadsHold
    <3>1. seen.model = model /\ seen.ip = field
      BY <3>0
    <3>2. /\ model \in Models
          /\ field \in {""} \union Addresses
      OBVIOUS
    <3>3. /\ field \in Custom => ResolveOppoIp(model, field) = field
          /\ ResolveOppoIp(model, ResolveOppoIp(model, field)) = ResolveOppoIp(model, field)
      BY <3>2, ResolveRule
    <3>4. /\ field \in Custom => field' = field
          /\ ResolveOppoIp(model', field') = ResolveOppoIp(model, field)
      BY <2>1, <3>1, <3>3
    <3>5. spc' = "publish"
      BY <1>2 DEF Fill
    <3>6. QED
      BY <1>2, <2>1, <2>3, <3>4, <3>5 DEF Fill
  <2>4. QED
    BY <2>2, <2>3
<1>3. CASE Publish
  BY <1>3, ResolveRule DEF Publish
<1>4. CASE Offer
  BY <1>4, ResolveRule DEF Offer, Announce
<1>5. CASE PickModel
  BY <1>5, ResolveRule DEF PickModel, Announce, Leave
<1>6. CASE AskAddress
  BY <1>6, ResolveRule DEF AskAddress
<1>7. CASE TypeAddress
  BY <1>7, ResolveRule DEF TypeAddress, Announce, Leave
<1>8. CASE Ping
  BY <1>8, ResolveRule DEF Ping
<1>9. CASE Detect
  <2>1. /\ wpc = "iso" => wpc' = "bdmv"
        /\ wpc # "iso" => wpc = "bdmv" /\ wpc' = "finish"
        /\ UNCHANGED <<model, field, done, service, proposal, player, told, edits, runs>>
    BY <1>9 DEF Detect
  <2>2. CASE UNCHANGED <<mount, due, raced>>
    BY <2>1, <2>2
  <2>3. CASE Announce
    BY <2>1, <2>3 DEF Announce
  <2>4. QED
    BY <1>9, <2>2, <2>3 DEF Detect
<1>10. CASE Finish
  BY <1>10, ResolveRule DEF Finish, Announce, Leave
<1>11. CASE RunAgain
  BY <1>11, ResolveRule DEF RunAgain
<1>12. CASE EditSettings
  BY <1>12, ResolveRule DEF EditSettings, Announce
<1>13. CASE KodiRestarts
  BY <1>13, ResolveRule DEF KodiRestarts
<1>14. CASE UNCHANGED setupVars
  BY <1>14 DEF setupVars
<1>15. QED
  BY <1>1, <1>2, <1>3, <1>4, <1>5, <1>6, <1>7, <1>8, <1>9, <1>10, <1>11, <1>12, <1>13, <1>14 DEF Next, Service, Wizard

\* The wizard's place, the ping's answer and the address in the settings agree.
LEMMA ReachingKept ==
    ASSUME TypeOK, ReadsHold, Reaching, [Next]_setupVars
    PROVE  Reaching'
<1> USE NotBlank DEF TypeOK, ReadsHold, Reaching, FromAddon, settings, service, wizard, told
<1>1. CASE Callback
  BY <1>1, ResolveRule DEF Callback
<1>2. CASE Fill
  <2>1. /\ raced' = raced /\ typed' = typed /\ model' = model
        /\ field' \in {field, ResolveOppoIp(seen.model, seen.ip)}
    BY <1>2 DEF Fill
  <2>2. CASE raced
    BY <1>2, <2>1, <2>2 DEF Fill
  <2>3. CASE ~raced
    <3>0. seen = [model |-> model, ip |-> field]
      BY <1>2, <2>3, Zenon DEF Fill, ReadsHold
    <3>1. seen.model = model /\ seen.ip = field
      BY <3>0
    <3>2. /\ model \in Models
          /\ field \in {""} \union Addresses
      OBVIOUS
    <3>3. /\ field \in Custom => ResolveOppoIp(model, field) = field
          /\ ResolveOppoIp(model, ResolveOppoIp(model, field)) = ResolveOppoIp(model, field)
      BY <3>2, ResolveRule
    <3>4. /\ field \in Custom => field' = field
          /\ ResolveOppoIp(model', field') = ResolveOppoIp(model, field)
      BY <2>1, <3>1, <3>3
    <3>5. spc' = "publish"
      BY <1>2 DEF Fill
    <3>6. QED
      BY <1>2, <2>1, <2>3, <3>4, <3>5 DEF Fill
  <2>4. QED
    BY <2>2, <2>3
<1>3. CASE Publish
  BY <1>3, ResolveRule DEF Publish
<1>4. CASE Offer
  BY <1>4, ResolveRule DEF Offer, Announce
<1>5. CASE PickModel
  BY <1>5, ResolveRule DEF PickModel, Announce, Leave
<1>6. CASE AskAddress
  BY <1>6, ResolveRule DEF AskAddress
<1>7. CASE TypeAddress
  BY <1>7, ResolveRule DEF TypeAddress, Announce, Leave
<1>8. CASE Ping
  BY <1>8, ResolveRule DEF Ping
<1>9. CASE Detect
  <2>1. /\ wpc = "iso" => wpc' = "bdmv"
        /\ wpc # "iso" => wpc = "bdmv" /\ wpc' = "finish"
        /\ UNCHANGED <<model, field, done, service, proposal, player, told, edits, runs>>
    BY <1>9 DEF Detect
  <2>2. CASE UNCHANGED <<mount, due, raced>>
    BY <2>1, <2>2
  <2>3. CASE Announce
    BY <2>1, <2>3 DEF Announce
  <2>4. QED
    BY <1>9, <2>2, <2>3 DEF Detect
<1>10. CASE Finish
  BY <1>10, ResolveRule DEF Finish, Announce, Leave
<1>11. CASE RunAgain
  BY <1>11, ResolveRule DEF RunAgain
<1>12. CASE EditSettings
  BY <1>12, ResolveRule DEF EditSettings, Announce
<1>13. CASE KodiRestarts
  BY <1>13, ResolveRule DEF KodiRestarts
<1>14. CASE UNCHANGED setupVars
  BY <1>14 DEF setupVars
<1>15. QED
  BY <1>1, <1>2, <1>3, <1>4, <1>5, <1>6, <1>7, <1>8, <1>9, <1>10, <1>11, <1>12, <1>13, <1>14 DEF Next, Service, Wizard

-----------------------------------------------------------------------------
(* What holds at all times. *)

\* The invariant holds at the start and is kept.
LEMMA SetupInvHolds == Spec => []SetupInv
<1>1. Init => SetupInv
  <2> SUFFICES ASSUME Init PROVE SetupInv
    OBVIOUS
  <2>1. /\ model \in Models
        /\ field \in {""} \union Addresses
        /\ seen = [model |-> model, ip |-> field]
    BY DEF Init, Addresses, Models, DefaultIp
  <2>2. FromAddon \in [ip : Addresses, mount : Mounts]
    BY <2>1, ResolveRule, SetupConstants DEF Init, FromAddon
  <2>3. TypeOK
    <3>1. edits \in 0 .. MaxEdits /\ runs \in 0 .. MaxRuns
      <4>1. MaxEdits \in Nat /\ MaxRuns \in Nat \ {0}
        BY SetupConstants
      <4>2. edits = 0 /\ runs = 1
        BY DEF Init
      <4>3. QED
        BY <4>1, <4>2
    <3>2. mount \in Mounts
      BY SetupConstants DEF Init
    <3>3. {done, due, raced} \subseteq BOOLEAN
      BY DEF Init
    <3>4. seen \in [model : Models, ip : {""} \union Addresses]
      BY <2>1
    <3>5. {field, typed, proposal, reached} \subseteq {""} \union Addresses
      BY <2>1 DEF Init
    <3>6. QED
      BY <2>1, <2>2, <3>1, <3>2, <3>3, <3>4, <3>5 DEF Init, TypeOK
  <2>4. Fresh /\ ReadsHold /\ CustomKept
    BY DEF Init, Fresh, ReadsHold, CustomKept
  <2>5. Reaching
    BY NotBlank DEF Init, Reaching
  <2>6. QED
    BY <2>3, <2>4, <2>5 DEF SetupInv
<1>2. SetupInv /\ [Next]_setupVars => SetupInv'
  BY TypeKept, FreshKept, ReadsKept, CustomKeptKept, ReachingKept DEF SetupInv
<1>3. QED
  BY <1>1, <1>2, PTL DEF Spec

\* Every variable stays in its type.
THEOREM SetupTypeCorrect == Spec => []TypeOK
<1>1. SetupInv => TypeOK
  BY DEF SetupInv
<1>2. QED
  BY <1>1, SetupInvHolds, PTL

\* A custom address the user entered stays in the settings whatever model is
\* chosen, unless it was entered while a fill was under way (service_cec.py:84-99).
THEOREM CustomAddressKept == Spec => []CustomKept
<1>1. SetupInv => CustomKept
  BY DEF SetupInv
<1>2. QED
  BY <1>1, SetupInvHolds, PTL

\* When the service rests after a wizard that reached the player, its config has
\* the player's address and the wizard's mount (wizard.py:181-193).
THEOREM WizardOutcome == Spec => []WizardOutcomeHolds
<1>1. SetupInv => WizardOutcomeHolds
  <2> SUFFICES ASSUME SetupInv, Settled, reached # "", ~raced
               PROVE  conf = [ip |-> player, mount |-> mount]
    BY DEF WizardOutcomeHolds
  <2>1. conf = FromAddon
    BY DEF SetupInv, Fresh, Settled
  <2>2. FromAddon.ip = player
    BY DEF SetupInv, Reaching
  <2>3. QED
    BY <2>1, <2>2 DEF FromAddon
<1>2. QED
  BY <1>1, SetupInvHolds, PTL

\* The wizard comes to count as done only when it is declined, or after it has
\* reached the player at the address it leaves behind, unless a write raced with a
\* fill of the address (wizard.py:184-193, service_cec.py:94-98).
THEOREM DoneOnlyWhenReached == Spec => DoneMeansReached
<1>1. SetupInv /\ [Next]_setupVars
        => [done' # done => \/ wpc = "offer"
                            \/ reached = player /\ (~raced => FromAddon.ip = player)]_setupVars
  <2> SUFFICES ASSUME SetupInv, Next, done' # done
               PROVE  wpc = "offer" \/ (reached = player /\ (~raced => FromAddon.ip = player))
    OBVIOUS
  <2>1. Offer \/ Finish
    BY DEF Next, Service, Wizard, Callback, Fill, Publish, PickModel, AskAddress, TypeAddress, Ping,
           Detect, RunAgain, EditSettings, KodiRestarts, settings
  <2>2. CASE Offer
    BY <2>2 DEF Offer
  <2>3. CASE Finish
    BY <2>3 DEF Finish, SetupInv, Reaching
  <2>4. QED
    BY <2>1, <2>2, <2>3
<1>2. QED
  BY <1>1, SetupInvHolds, PTL DEF Spec, DoneMeansReached
=============================================================================
