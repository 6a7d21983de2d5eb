---------------------------- MODULE MCInfrared -----------------------------
(***************************************************************************)
(* The infrared side for TLC: the television's switches, the serial bench  *)
(* console and the provisioner of the Raspberry Pi.  They share nothing,   *)
(* so one of the three is looked at a time and the others rest.            *)
(***************************************************************************)
EXTENDS IrSwitch, ZjiotConsole, PiSetup

VARIABLE tool   \* the program looked at

Remote(hdmi, ups, offset, reclaim) ==
    [method |-> "ir_remote", port |-> hdmi, ups |-> ups, offset |-> offset,
     hosted |-> TRUE, reclaim |-> reclaim, oppoCode |-> "empty", kodiCode |-> "empty", kodi |-> 2]

Coded(method, oppo, kodi) ==
    [Remote(1, 0, 0, TRUE) EXCEPT !.method = method, !.oppoCode = oppo, !.kodiCode = kodi]

\* Every transport, ports inside and outside the four, pickers with and without
\* entries above HDMI1, anchors that reach the top from every input and not.
AnySwitch == Remote(3, 3, 0, TRUE)

MCConfigs ==
    {AnySwitch, Remote(9, 2, 1, TRUE), Remote(0, 5, 1, FALSE), Remote(1, 0 - 1, 0, TRUE),
     [Remote(1, 2, 0, TRUE) EXCEPT !.hosted = FALSE]}
        \union {Coded(m, c, "valid") : m \in {"ir", "lirc"}, c \in Codes}
        \union {Coded("ir", "valid", "empty")}

\* What config.txt may hold at first: nothing of the program's, one overlay, both,
\* one of them twice.
AnyPi == <<"own">>
MCFirsts == {AnyPi, <<"own", "tx", "other pin">>, <<"rx", "own">>, <<"tx", "own", "rx">>, <<"tx", "tx">>}

InfraredInit ==
    /\ Init /\ ConsoleInit /\ PiInit
    /\ tool \in {"switch", "console", "provisioner"}
    /\ tool # "switch" => conf = AnySwitch /\ input = 1
    /\ tool # "provisioner" => config = AnyPi /\ libreelec

InfraredNext ==
    /\ UNCHANGED tool
    /\ \/ tool = "switch" /\ Next /\ UNCHANGED <<consoleVars, piVars>>
       \/ tool = "console" /\ ConsoleNext /\ UNCHANGED <<irVars, piVars>>
       \/ tool = "provisioner" /\ PiNext /\ UNCHANGED <<irVars, consoleVars>>

\* What each of the three keeps is in type.
InfraredTypeOK == TypeOK /\ ConsoleTypeOK /\ PiTypeOK

InfraredSpec == InfraredInit /\ [][InfraredNext]_<<irVars, consoleVars, piVars, tool>> /\ ConsoleFair
=============================================================================
