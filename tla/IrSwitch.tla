------------------------------ MODULE IrSwitch ------------------------------
(***************************************************************************)
(* The infrared switches.  ZjiotSwitcher and LircSwitcher send one stored  *)
(* code for each input.  RemoteBlasterSwitcher runs a program on another   *)
(* host over SSH, which drives the television's input picker key by key:   *)
(* INPUT opens it at the present input, UPs park its highlight at the top, *)
(* DOWNs step to the OPPO's port, OK selects.  The program outlives the    *)
(* SSH call when that is cut off.  The television, its picker and the way  *)
(* to it are external.                                                     *)
(***************************************************************************)
EXTENDS Integers

CONSTANTS
    Configs,    \* the settings tried
    Below,      \* entries of the picker below HDMI4
    MaxRuns     \* bound: SSH calls made

HdmiPorts == 1 .. 4
Codes == {"empty", "garbled", "wide", "valid"}

ASSUME IrConstants ==
    /\ Configs \subseteq [method : {"ir", "lirc", "ir_remote"},
                          port : Int, ups : Int, offset : Int, hosted : BOOLEAN, reclaim : BOOLEAN,
                          oppoCode : Codes, kodiCode : Codes, kodi : HdmiPorts]
    /\ Below \in Nat /\ MaxRuns \in Nat

Calls == 1 .. MaxRuns

VARIABLES
    conf,       \* the settings of the transport and the port Kodi is on, fixed
    pc,         \* the external player: "idle", "ssh" (in to_oppo), "watching"
    told,       \* what to_oppo answered
    call,       \* SSH calls made so far
    stage,      \* of each call's program: "none", "ssh", "keys", "ended", "broken"
    next,       \* ... and the key it presses next
    input,      \* the television's input, as a row of its picker
    inputBy,    \* who chose it last: "user", "bridge"
    menu,       \* the row the picker highlights, 0 when it is closed
    clean,      \* history: the last switch was undisturbed, see Undisturbed
    outlived,   \* history: a program went on after its SSH call was cut off
    home        \* history: Kodi took the television back since the last to_oppo

programs == <<stage, next>>
television == <<input, inputBy, menu>>
irVars == <<conf, pc, told, call, programs, television, clean, outlived, home>>

-----------------------------------------------------------------------------
(* input_sequence. *)

AtLeast(low, n) == IF n < low THEN low ELSE n

Port == IF conf.port > 4 THEN 4 ELSE AtLeast(1, conf.port)
Ups == AtLeast(0, conf.ups)
Offset == AtLeast(0, conf.offset)

\* Bug to catch: the entries above HDMI1 are not stepped over.
Downs_NoOffset == Port - 1

Downs == Port - 1 + Offset

LastKey == 2 + Ups + Downs

Key(k) ==
    CASE k = 1 -> "INPUT"
      [] 1 < k /\ k <= 1 + Ups -> "UP"
      [] 1 + Ups < k /\ k < LastKey -> "DOWN"
      [] k = LastKey -> "OK"

-----------------------------------------------------------------------------
(* The television (external): Offset entries above HDMI1, its list ends at  *)
(* both ends.                                                               *)

Rows == 1 .. Offset + 4 + Below
Row(port) == Offset + port

Init ==
    /\ conf \in Configs /\ conf.kodi # Port
    /\ pc = "idle" /\ told = FALSE /\ call = 0
    /\ stage = [c \in Calls |-> "none"] /\ next = [c \in Calls |-> 0]
    /\ input \in Rows /\ inputBy = "user" /\ menu = 0
    /\ clean = FALSE /\ outlived = FALSE /\ home = FALSE

\* INPUT with the picker already open does what the television likes.
HearInput ==
    /\ IF menu = 0 THEN menu' = input ELSE menu' \in Rows \union {0}
    /\ UNCHANGED <<input, inputBy>>

HearArrow(to) ==
    /\ menu' = IF menu # 0 /\ to \in Rows THEN to ELSE menu
    /\ UNCHANGED <<input, inputBy>>

HearOk ==
    /\ menu' = 0
    /\ input' = IF menu # 0 THEN menu ELSE input
    /\ inputBy' = IF menu # 0 THEN "bridge" ELSE inputBy

Hear(key) ==
    CASE key = "INPUT" -> HearInput
      [] key = "UP" -> HearArrow(menu - 1)
      [] key = "DOWN" -> HearArrow(menu + 1)
      [] key = "OK" -> HearOk

Selected(row) == input' = row /\ inputBy' = "bridge"

\* The user takes another input with the remote control.
UserPicks ==
    /\ input' \in Rows /\ inputBy' = "user" /\ menu' = 0
    /\ clean' = FALSE
    /\ UNCHANGED <<conf, pc, told, call, programs, outlived, home>>

\* An open picker goes away when no key comes for longer than tv_ir_key_delay.
PickerCloses ==
    /\ menu # 0 /\ \A c \in Calls : stage[c] # "keys"
    /\ menu' = 0
    /\ UNCHANGED <<conf, pc, told, call, programs, input, inputBy, clean, outlived, home>>

-----------------------------------------------------------------------------
(* The blaster's host. *)

\* Nothing else is going on, and the anchor reaches the top from the present input.
Undisturbed(c) ==
    /\ menu = 0 /\ input - 1 <= Ups
    /\ \A d \in Calls \ {c} : stage[d] # "keys"

\* python3 has read the program.
ProgramStarts(c) ==
    /\ stage[c] = "ssh"
    /\ stage' = [stage EXCEPT ![c] = "keys"] /\ next' = [next EXCEPT ![c] = 1]
    /\ clean' = IF c = call THEN Undisturbed(c) ELSE clean
    /\ UNCHANGED <<conf, pc, told, call, television, outlived, home>>

\* The host is down, the key is refused, ir-ctl fails (check=True).
ProgramBreaks(c) ==
    /\ stage[c] \in {"ssh", "keys"}
    /\ stage' = [stage EXCEPT ![c] = "broken"]
    /\ UNCHANGED <<conf, pc, told, call, next, television, clean, outlived, home>>

\* Bug to catch: the loop over the keys runs once too often.
LastOf_OffByOne(c) == next[c] > LastKey

LastOf(c) == next[c] = LastKey

\* One key, heard by the television or lost on its way.
Press(c) ==
    /\ stage[c] = "keys"
    /\ next' = [next EXCEPT ![c] = @ + 1]
    /\ stage' = IF LastOf(c) THEN [stage EXCEPT ![c] = "ended"] ELSE stage
    /\ \/ Hear(Key(next[c])) /\ clean' = (clean /\ c = call)
       \/ UNCHANGED television /\ clean' = (clean /\ c # call)
    /\ UNCHANGED <<conf, pc, told, call, outlived, home>>

-----------------------------------------------------------------------------
(* The external player: to_oppo, ... *)

Starts == pc = "idle" /\ home' = FALSE

RemoteDeclines ==
    /\ Starts /\ conf.method = "ir_remote" /\ ~conf.hosted
    /\ pc' = "watching" /\ told' = FALSE /\ clean' = FALSE
    /\ UNCHANGED <<conf, call, programs, television, outlived>>

RemoteCalls ==
    /\ Starts /\ conf.method = "ir_remote" /\ conf.hosted /\ call < MaxRuns
    /\ pc' = "ssh" /\ call' = call + 1
    /\ stage' = [stage EXCEPT ![call'] = "ssh"]
    /\ clean' = FALSE
    /\ UNCHANGED <<conf, told, next, television, outlived>>

\* Bug to catch: the call does not wait for the program.
RemoteReturns_AtOnce ==
    /\ pc = "ssh" /\ pc' = "watching"
    /\ told' = (stage[call] # "broken")
    /\ UNCHANGED <<conf, call, programs, television, clean, outlived, home>>

RemoteReturns ==
    /\ pc = "ssh" /\ pc' = "watching"
    /\ stage[call] \in {"ended", "broken"}
    /\ told' = (stage[call] = "ended")
    /\ UNCHANGED <<conf, call, programs, television, clean, outlived, home>>

Running(c) == stage[c] \in {"ssh", "keys"}

\* ir_blaster_timeout, or the connection drops: the local ssh ends, the program need not.
RemoteCutOff ==
    /\ pc = "ssh" /\ pc' = "watching"
    /\ told' = FALSE
    /\ outlived' = (outlived \/ Running(call))
    /\ UNCHANGED <<conf, call, programs, television, clean, home>>

\* An NEC code: the serial transport refuses one of more than 32 bits, ir-ctl is
\* given any hex number.
Sendable == IF conf.method = "ir" THEN {"valid"} ELSE {"wide", "valid"}

\* _send and send_nec: nothing is sent without a usable code; what is sent may
\* be lost, and a failure may be reported of a code that was heard.
SendCode(code, port) ==
    IF code \in Sendable
    THEN /\ told' \in BOOLEAN
         /\ \/ code = "valid" /\ Selected(Row(port)) /\ clean' = TRUE
            \/ UNCHANGED <<input, inputBy>> /\ clean' = FALSE
         /\ menu' \in {0, menu}
    ELSE told' = FALSE /\ clean' = FALSE /\ UNCHANGED television

CodeToOppo ==
    /\ Starts /\ conf.method \in {"ir", "lirc"}
    /\ pc' = "watching"
    /\ SendCode(conf.oppoCode, Port)
    /\ UNCHANGED <<conf, call, programs, outlived>>

\* ... and to_kodi.
CodeToKodi ==
    /\ pc = "watching" /\ conf.method \in {"ir", "lirc"}
    /\ pc' = "idle"
    /\ SendCode(conf.kodiCode, conf.kodi)
    /\ home' = clean'
    /\ UNCHANGED <<conf, call, programs, outlived>>

\* cec.reclaim_kodi, when it is not turned off; it may not arrive.
Reclaim ==
    /\ pc = "watching" /\ conf.method = "ir_remote"
    /\ pc' = "idle" /\ clean' = FALSE
    /\ \/ conf.reclaim /\ Selected(Row(conf.kodi)) /\ menu' \in {0, menu} /\ home' = TRUE
       \/ UNCHANGED <<television, home>>
    /\ UNCHANGED <<conf, told, call, programs, outlived>>

\* Kodi ends the external player; the ssh it had started goes on.
Killed ==
    /\ pc # "idle" /\ pc' = "idle"
    /\ outlived' = (outlived \/ (pc = "ssh" /\ Running(call)))
    /\ UNCHANGED <<conf, told, call, programs, television, clean, home>>

Player ==
    \/ RemoteDeclines \/ RemoteCalls \/ RemoteReturns \/ RemoteCutOff
    \/ CodeToOppo \/ CodeToKodi \/ Reclaim \/ Killed

Next ==
    \/ Player
    \/ \E c \in Calls : ProgramStarts(c) \/ ProgramBreaks(c) \/ Press(c)
    \/ UserPicks \/ PickerCloses

Spec == Init /\ [][Next]_irVars

-----------------------------------------------------------------------------
(* Properties. *)

TypeOK ==
    /\ conf \in Configs
    /\ pc \in {"idle", "ssh", "watching"} /\ told \in BOOLEAN
    /\ call \in 0 .. MaxRuns /\ (pc = "ssh" => call \in Calls)
    /\ stage \in [Calls -> {"none", "ssh", "keys", "ended", "broken"}]
    /\ next \in [Calls -> 0 .. LastKey + 1]
    /\ \A c \in Calls : stage[c] = "keys" => next[c] \in 1 .. LastKey
    /\ input \in Rows /\ inputBy \in {"user", "bridge"} /\ menu \in Rows \union {0}
    /\ clean \in BOOLEAN /\ outlived \in BOOLEAN /\ home \in BOOLEAN

\* When to_oppo reports the switch, the television shows the OPPO, provided that
\* no key was lost, nobody else touched the picker, and the anchor reaches its top
\* from the input the film was started from (ir_remote.py:50-62: the DOWNs are
\* counted "from a fixed origin").
LandsOnOppo == pc = "watching" /\ told /\ clean => input = Row(Port)

\* Once the stop-side switch has brought Kodi back, nothing but the user or a
\* program that outlived its SSH call takes the television from it: to_oppo does
\* not return while its keys are still being pressed (ir_remote.py:156, 178-183).
ReclaimHolds == home /\ inputBy # "user" /\ ~outlived => input = Row(conf.kodi)
=============================================================================
