--------------------------- MODULE MCPassthrough ---------------------------
(* A small remote: Back and Play/Pause collide on action 92, Up has its     *)
(* action only, Stop raises no action, 999 is mapped nowhere but overridden *)
(* and 5 is not mapped at all.                                              *)
EXTENDS Passthrough

MCKeys == {<<92, 61448>>, <<0, 999>>, <<5, 5>>}
MCOverrides == [b \in {999} |-> "STP"]
MCCodeByButton == [b \in {61448, 61616} |-> IF b = 61448 THEN "PAU" ELSE "RET"]
MCCodeByAction == [a \in {3} |-> "NUP"]
=============================================================================
