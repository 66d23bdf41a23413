-------------------------- MODULE MCTeamAutoDelivery --------------------------
(* Instances of TeamAutoDelivery for TLC. *)
EXTENDS TeamAutoDelivery

CONSTANTS p1, p2
Passes == {p1, p2}
===============================================================================
