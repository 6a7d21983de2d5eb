------------------------------ MODULE Handover ------------------------------
(***************************************************************************)
(* What one run of the bridge promises, whatever the player, the network   *)
(* and the user do: a file is declined without touching anything, or the   *)
(* television is asked over to the OPPO once and asked back once, at the   *)
(* end, and the run comes to that end.  A STOP is sent only when the play  *)
(* was taken and never seen running.                                       *)
(***************************************************************************)
EXTENDS Sequences

VARIABLES
    stage,     \* "offered", "engaged", "abandoned", "ending", "over"
    seen,      \* playback was observed (the run's result)
    switches   \* the television switches asked for, oldest first

absVars == <<stage, seen, switches>>

Init == stage = "offered" /\ seen = FALSE /\ switches = <<>>

Decline ==
    /\ stage = "offered" /\ stage' = "over"
    /\ UNCHANGED <<seen, switches>>

Engage ==
    /\ stage = "offered" /\ stage' = "engaged"
    /\ switches' = Append(switches, "to_oppo")
    /\ UNCHANGED seen

\* The play was not taken: nothing to watch, nothing to stop.
Refuse ==
    /\ stage = "engaged" /\ stage' = "ending"
    /\ UNCHANGED <<seen, switches>>

\* Playback ran and its watch is over.
Witness ==
    /\ stage = "engaged" /\ stage' = "ending"
    /\ seen' = TRUE
    /\ UNCHANGED switches

Abandon ==
    /\ stage = "engaged" /\ stage' = "abandoned"
    /\ UNCHANGED <<seen, switches>>

StopOnce ==
    /\ stage = "abandoned" /\ stage' = "ending"
    /\ UNCHANGED <<seen, switches>>

Return ==
    /\ stage = "ending" /\ stage' = "over"
    /\ switches' = Append(switches, "to_kodi")
    /\ UNCHANGED seen

Next == Decline \/ Engage \/ Refuse \/ Witness \/ Abandon \/ StopOnce \/ Return

Safety == Init /\ [][Next]_absVars

Spec == Safety /\ WF_absVars(Next)
=============================================================================
