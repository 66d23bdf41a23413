----------------------------- MODULE IntakeLock -----------------------------
(***************************************************************************)
(* What serialising the intake promises, without promises: a fair lock per *)
(* session.  A call that arrives stays behind those of its session that    *)
(* are there, and is let in when all of them have left.                    *)
(***************************************************************************)

CONSTANTS Session, Call, None

VARIABLES
  sess,   \* the session of a call that has arrived
  ahead,  \* while it waits, the calls of its session that were there when it arrived
  phase   \* "out", "waiting", "in", "gone"

lockVars == <<sess, ahead, phase>>

LockInit ==
  /\ sess = [c \in Call |-> None]
  /\ ahead = [c \in Call |-> {}]
  /\ phase = [c \in Call |-> "out"]

Arrive(c, s) ==
  /\ phase[c] = "out"
  /\ sess' = [sess EXCEPT ![c] = s]
  /\ ahead' = [ahead EXCEPT ![c] = {d \in Call : sess[d] = s /\ phase[d] # "gone"}]
  /\ phase' = [phase EXCEPT ![c] = "waiting"]

Grant(c) ==
  /\ phase[c] = "waiting"
  /\ \A d \in ahead[c] : phase[d] = "gone"
  /\ phase' = [phase EXCEPT ![c] = "in"]
  /\ ahead' = [ahead EXCEPT ![c] = {}]
  /\ UNCHANGED sess

Leave(c) ==
  /\ phase[c] = "in"
  /\ phase' = [phase EXCEPT ![c] = "gone"]
  /\ UNCHANGED <<sess, ahead>>

LockNext == \E c \in Call : Grant(c) \/ Leave(c) \/ \E s \in Session : Arrive(c, s)

LockSpec == LockInit /\ [][LockNext]_lockVars
=============================================================================
