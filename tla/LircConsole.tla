----------------------------- MODULE LircConsole ----------------------------
(***************************************************************************)
(* The LIRC bench console on a Raspberry Pi: it asks every /dev/lirc node   *)
(* what it can do, sends on the transmitter, learns and tests itself on the *)
(* receiver, each learn in a thread that runs ir-ctl or ir-keytable until   *)
(* its timeout, since neither ends by itself.  The commands, the nodes and  *)
(* the remote control are external.                                         *)
(***************************************************************************)
EXTENDS Integers

CONSTANTS
    Nodes,      \* the nodes /dev/lirc*
    Senders,    \* those that can send; the others receive
    Threads,    \* learn threads, one for each click
    Keys,       \* keys of the remote control, none of them "sent"
    MaxClicks   \* bound: learns and self-tests

NoNode == "none"
\* What the receiver hears: a key, or the scancode the self-test sends.
Codes == Keys \union {"sent"}

VARIABLES
    devices,    \* what discover found: the nodes whose features are known
    box,        \* the nodes selected in the window, for sending and receiving
    tx, rx,     \* the nodes the controller uses
    thread,     \* the learn threads and what their commands have put out so far
    last,       \* _last_learn: its kind and the codes it holds
    loopback,   \* the verdict of the last self-test
    clicks      \* learns and self-tests begun

selection == <<devices, box, tx, rx>>
lircVars == <<selection, thread, last, loopback, clicks>>

Idle == [pc |-> "off", kind |-> "raw", out |-> {}, latest |-> "none"]

Init ==
    /\ devices = {} /\ box = [send |-> NoNode, receive |-> NoNode] /\ tx = NoNode /\ rx = NoNode
    /\ thread = [t \in Threads |-> Idle]
    /\ last = [kind |-> "none", codes |-> {}] /\ loopback = "none" /\ clicks = 0

-----------------------------------------------------------------------------
(* discover, classify, _refresh and _sync_selection. *)

\* The first capable node, for some order of the nodes.
OneOf(nodes) == IF nodes = {} THEN {NoNode} ELSE nodes

\* A node whose features query fails is listed without capabilities.
Discovered == SUBSET Nodes

Refresh ==
    /\ devices' \in Discovered
    /\ tx' \in OneOf(devices' \cap Senders) /\ rx' \in OneOf(devices' \ Senders)
    /\ box' = [send |-> IF tx' = NoNode THEN box.send ELSE tx',
               receive |-> IF rx' = NoNode THEN box.receive ELSE rx']
    /\ UNCHANGED <<thread, last, loopback, clicks>>

Select(old, selected) == IF selected \in Nodes THEN selected ELSE old

SyncSelection ==
    /\ tx' = Select(tx, box.send) /\ rx' = Select(rx, box.receive)
    /\ UNCHANGED <<devices, box>>

-----------------------------------------------------------------------------
(* Learning. *)

Begin(t, kind, pc) ==
    /\ thread[t].pc = "off" /\ clicks < MaxClicks /\ clicks' = clicks + 1
    /\ thread' = [thread EXCEPT ![t] = [Idle EXCEPT !.pc = pc, !.kind = kind]]
    /\ SyncSelection
    /\ UNCHANGED <<last, loopback>>

\* _learn_raw needs a receiver, _learn_decoded asks for none.
LearnRaw(t) == Begin(t, "raw", IF Select(rx, box.receive) = NoNode THEN "off" ELSE "starts")
LearnDecoded(t) == Begin(t, "nec", "starts")

\* The self-test decodes in a thread of its own and sends half a second later.
SelfTest(t) == Begin(t, "test", "starts")

\* The command is missing or refuses the node ...
CommandFails(t) ==
    /\ thread[t].pc = "starts"
    /\ thread' = [thread EXCEPT ![t] = Idle]
    /\ loopback' = IF thread[t].kind = "test" THEN "capture error" ELSE loopback
    /\ UNCHANGED <<selection, last, clicks>>

\* ... or listens until it is stopped.
CommandListens(t) ==
    /\ thread[t].pc = "starts"
    /\ thread' = [thread EXCEPT ![t].pc = "listens"]
    /\ UNCHANGED <<selection, last, loopback, clicks>>

\* The receiver hears a code: every listening command puts it out.
Hear(code) ==
    thread' = [t \in Threads |->
                  IF thread[t].pc = "listens" THEN [thread[t] EXCEPT !.out = @ \union {code}, !.latest = code]
                  ELSE thread[t]]

PressKey(k) == Hear(k) /\ UNCHANGED <<selection, last, loopback, clicks>>

\* send_nec, of the self-test or of its own button: it may fail, and what is sent
\* the receiver may not hear.
SendNec ==
    /\ SyncSelection
    /\ \/ tx' # NoNode /\ Hear("sent")
       \/ UNCHANGED thread
    /\ UNCHANGED <<last, loopback, clicks>>

\* What _run returns of a command it stopped at its timeout: the text "" when it
\* put nothing out, and otherwise bytes, text=True or not.
OutputOf(t) == IF thread[t].out = {} THEN "text" ELSE "bytes"

\* parse_raw_capture and parse_keytable_scancodes search text; bytes are a TypeError.
Parses(t) == OutputOf(t) = "text"

\* A raw capture is the whole recording, a decoded one the last scancode, if any.
Capture(t) ==
    [kind |-> thread[t].kind,
     codes |-> thread[t].out \cap (IF thread[t].kind = "raw" THEN Codes ELSE {thread[t].latest})]

\* check_loopback.
LoopsBack(t) == "sent" \in thread[t].out

\* The timeout: the command is killed, its output parsed and handed to the window.
Timeout(t) ==
    /\ thread[t].pc = "listens"
    /\ thread' = [thread EXCEPT ![t] = Idle]
    /\ IF thread[t].kind = "test"
       THEN /\ loopback' = IF ~Parses(t) THEN "capture error"
                           ELSE IF LoopsBack(t) THEN "pass" ELSE "fail"
            /\ UNCHANGED last
       ELSE /\ last' = IF Parses(t) THEN Capture(t) ELSE last
            /\ UNCHANGED loopback
    /\ UNCHANGED <<selection, clicks>>

LircNext ==
    \/ \E t \in Threads :
          LearnRaw(t) \/ LearnDecoded(t) \/ SelfTest(t) \/ CommandFails(t) \/ CommandListens(t) \/ Timeout(t)
    \/ \E k \in Keys : PressKey(k)
    \/ Refresh \/ SendNec

Spec == Init /\ [][LircNext]_lircVars

-----------------------------------------------------------------------------
(* Properties. *)

\* A learn that heard the remote control before its timeout leaves what it heard
\* as the last capture: devices.py:49-50 returns 124 with the output so that
\* ctl.py:107 and 124 take it for a capture (README_LIRC_CONSOLE.md:28).
HeardIsLearnt ==
    [][\A t \in Threads :
          (thread[t].pc = "listens" /\ thread[t].kind # "test" /\ thread[t].out # {} /\ thread'[t].pc = "off")
              => last'.codes # {} /\ last'.codes \subseteq thread[t].out]_lircVars
=============================================================================
