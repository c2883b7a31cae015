---------------------------- MODULE MCFullHistory ----------------------------
(* One member, registered in the first day of two hours, for TLC. *)
EXTENDS FullHistory, TLC

OneMember == {1}
HourTwo == 1 :> 2
=============================================================================
