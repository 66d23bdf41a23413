---------------------------- MODULE MCWorkerSession ----------------------------
(* Instances of WorkerSession for TLC. *)
EXTENDS WorkerSession

CONSTANTS i1, i2
Ids == {i1, i2}
SetOrNot == {none, i1}
===============================================================================
