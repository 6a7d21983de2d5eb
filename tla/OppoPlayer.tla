----------------------------- MODULE OppoPlayer -----------------------------
(***************************************************************************)
(* What the bridge acts on: the OPPO player, the television and the wires  *)
(* to them (all external, modelled from how oppo_http.py, cec.py and       *)
(* tvswitch.py use them), and how OppoClient classifies the replies.       *)
(***************************************************************************)
EXTENDS Integers

CONSTANTS
    BootTicks,   \* wake intervals (3 s) a cold boot takes, at most
    CanGarble    \* whether a status read may come back as an unparseable 200 body

ASSUME PlayerConfig == BootTicks \in Nat \ {0} /\ CanGarble \in BOOLEAN

VARIABLES
    model,     \* "M9205" (genuine) or "M9207" (clone), fixed
    showsLoading,  \* whether this unit's status reports LOADING, fixed
    power,     \* "on", "standby", "booting"
    boot,      \* wake intervals the boot still takes, at most
    api,       \* the :436 app API answers
    nfs,       \* the OPPO really holds an NFS mount
    deck,      \* "idle", "loading", "playing", "paused"
    tv,        \* the television's input: "kodi", "oppo", "other"
    tvBy       \* who chose it last: "user", "otp" (One-Touch-Play), "bridge"

playerVars == <<model, showsLoading, power, boot, api, nfs, deck, tv, tvBy>>

PlayerTypeOK ==
    /\ model \in {"M9205", "M9207"} /\ showsLoading \in BOOLEAN
    /\ power \in {"on", "standby", "booting"}
    /\ boot \in 0 .. BootTicks
    /\ boot > 0 <=> power = "booting"
    /\ api \in BOOLEAN /\ nfs \in BOOLEAN
    /\ deck \in {"idle", "loading", "playing", "paused"}
    /\ power # "on" => ~api /\ ~nfs /\ deck = "idle"
    /\ tv \in {"kodi", "oppo", "other"} /\ tvBy \in {"user", "otp", "bridge"}

\* The user is in Kodi; the player sleeps, or is on with or without a disc running,
\* or is as an earlier run left it that Kodi killed: with a mount, and with the disc
\* of that run loading or playing.
PlayerInit ==
    /\ model \in {"M9205", "M9207"} /\ showsLoading \in BOOLEAN
    /\ \/ power = "standby" /\ boot = 0 /\ api = FALSE /\ nfs = FALSE /\ deck = "idle"
       \/ /\ power = "on" /\ boot = 0 /\ api \in BOOLEAN
          /\ \/ nfs = FALSE /\ deck \in {"idle", "playing"}
             \/ nfs = TRUE /\ deck \in {"loading", "playing"}
    /\ tv = "kodi" /\ tvBy = "user"

-----------------------------------------------------------------------------
(* The player and the user on their own. *)

\* A boot ends: the player is on, its API asleep, and its One-Touch-Play
\* takes the television.
BootDone ==
    /\ power' = "on" /\ boot' = 0
    /\ tv' = "oppo" /\ tvBy' = "otp"
    /\ UNCHANGED <<model, showsLoading, api, nfs, deck>>

\* One wake interval passes.
IntervalPasses ==
    IF boot = 1 THEN BootDone
    ELSE /\ boot' = IF boot > 0 THEN boot - 1 ELSE 0
         /\ UNCHANGED <<model, showsLoading, power, api, nfs, deck, tv, tvBy>>

DeckMoves ==
    /\ \/ deck = "loading" /\ deck' \in {"playing", "idle"}   \* it starts, or fails to
       \/ deck = "playing" /\ deck' \in {"idle", "paused"}    \* it ends, or is stopped or paused
       \/ deck = "paused" /\ deck' \in {"playing", "idle"}
    /\ UNCHANGED <<model, showsLoading, power, boot, api, nfs, tv, tvBy>>

UserSwitchesTv ==
    /\ tv' = "other" /\ tvBy' = "user"
    /\ UNCHANGED <<model, showsLoading, power, boot, api, nfs, deck>>

World ==
    \/ power = "booting" /\ BootDone
    \/ DeckMoves
    \/ UserSwitchesTv

-----------------------------------------------------------------------------
(* Replies.  "none" is an OppoError (no answer in time, HTTP >= 400);       *)
(* "empty" is {}, "raw" a body that is no JSON object; the others are JSON  *)
(* objects without a success field, with a true one, with a false one.      *)

Replies == {"none", "empty", "raw", "noflag", "truthy", "falsy"}

ReplyFailed(reply) == reply = "falsy"

\* Bug to catch: whatever is not an explicit failure counts as success.
ReplySucceeded_NotFailed(reply) == ~ReplyFailed(reply)

ReplySucceeded(reply) == reply \notin {"none", "empty", "raw"} /\ ~ReplyFailed(reply)

\* One mutating call: whether the player did it, and what came back.  The
\* player never says yes to what it did not do or no to what it did, but the
\* answer, or the call itself, may be lost or mangled on the way.
Exchange(done, reply) ==
    /\ reply \in Replies
    /\ ~api => ~done /\ reply = "none"
    /\ done => reply # "falsy"
    /\ ~done => reply \notin {"noflag", "truthy"}

\* A status read: what the transport is doing, "none", or a garbled body.
StatusReads ==
    {"none"} \union (IF api THEN {deck} ELSE {})
             \union (IF api /\ CanGarble THEN {"raw"} ELSE {})

\* info_is_playing: a garbled body raises no flag; LOADING is a play status.
InfoIsPlaying(info) == info \in {"playing", "paused"} \/ (info = "loading" /\ showsLoading)

\* client.is_playing: a failed read is "not playing".
IsPlaying(info) == info # "none" /\ InfoIsPlaying(info)

\* Bug to catch: an unreadable player counts as idle, as in is_playing.
PlaybackState_Collapsed(info) ==
    IF InfoIsPlaying(info) THEN (IF info = "paused" THEN "paused" ELSE "playing") ELSE "idle"

\* client.playback_state.
PlaybackState(info) ==
    CASE info = "none" -> "unknown"
      [] InfoIsPlaying(info) -> IF info = "paused" THEN "paused" ELSE "playing"
      [] OTHER -> "idle"

-----------------------------------------------------------------------------
(* Effects of the calls. *)

\* #POF reached the player.  On the clone it is a sleep.
PowerOff ==
    /\ power' = "standby" /\ boot' = 0
    /\ api' = FALSE /\ nfs' = FALSE /\ deck' = "idle"
    /\ UNCHANGED <<model, showsLoading, tv, tvBy>>

\* #PON reached the player.  It boots a genuine unit from standby; on the
\* clone it does nothing.
PowerOn ==
    IF power = "standby" /\ model # "M9207"
    THEN /\ power' = "booting" /\ boot' = BootTicks
         /\ UNCHANGED <<model, showsLoading, api, nfs, deck, tv, tvBy>>
    ELSE UNCHANGED playerVars

\* The OREMOTE notify was heard: the app API of a running player comes up.
ApiWakes ==
    /\ api' = (api \/ power = "on")
    /\ UNCHANGED <<model, showsLoading, power, boot, nfs, deck, tv, tvBy>>

MountDone(done) ==
    /\ nfs' = (nfs \/ done)
    /\ UNCHANGED <<model, showsLoading, power, boot, api, deck, tv, tvBy>>

DeckSet(done, to) ==
    /\ deck' = IF done THEN to ELSE deck
    /\ UNCHANGED <<model, showsLoading, power, boot, api, nfs, tv, tvBy>>

\* The bridge's own switch (Kodi's CEC active source, an IR code) arrived or not.
TvSet(arrived, to) ==
    /\ tv' = IF arrived THEN to ELSE tv
    /\ tvBy' = IF arrived THEN "bridge" ELSE tvBy
    /\ UNCHANGED <<model, showsLoading, power, boot, api, nfs, deck>>
=============================================================================
