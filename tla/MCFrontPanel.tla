---------------------------- MODULE MCFrontPanel ----------------------------
(* A finite instance of FrontPanel. *)
EXTENDS FrontPanel

\* 18:25:09 on a date whose bytes an erased clock gave.
MCTimes == {[hour |-> \h18, minute |-> \h25, second |-> \h09,
             year |-> \h18, month |-> \hFF, day |-> \h30]}
=============================================================================
