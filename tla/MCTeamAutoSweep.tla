--------------------------- MODULE MCTeamAutoSweep ---------------------------
(* Instances of TeamAutoSweep for TLC. *)
EXTENDS TeamAutoSweep

CONSTANT r1
OneRole == <<r1>>
=============================================================================
