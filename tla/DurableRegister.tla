--------------------------- MODULE DurableRegister ---------------------------
(***************************************************************************)
(* What saving the team state promises, without queues, files or awaits.   *)
(* The state is the set of updates it contains.  The file holds the        *)
(* updates of some moment: it may lag behind the state in memory but never *)
(* loses one, and what a save has promised is in it.  The one way to lose  *)
(* updates is a start that cannot read the file.                           *)
(***************************************************************************)
EXTENDS Integers

CONSTANT Update

VARIABLES
  mem,       \* the updates in the state in memory
  disk,      \* the updates in the file
  promised,  \* the updates that completed saves were asked to store
  lost       \* the updates in the file that the last start could not read

registerVars == <<mem, disk, promised, lost>>

RegisterInit ==
  /\ mem = {}
  /\ disk = {}
  /\ promised = {}
  /\ lost = {}

Change(u) ==
  /\ mem' = mem \cup {u}
  /\ UNCHANGED <<disk, promised, lost>>

\* The file takes a state that memory held since, with all the file had before.
Persist ==
  /\ disk \ lost \subseteq disk'
  /\ disk' \subseteq mem
  /\ UNCHANGED <<mem, promised, lost>>

Promise ==
  /\ promised \subseteq promised'
  /\ promised' \subseteq disk
  /\ UNCHANGED <<mem, disk, lost>>

\* The process is gone; so is its memory.
Stop ==
  /\ mem' = {}
  /\ UNCHANGED <<disk, promised, lost>>

\* A start works on with what the file has, and may repair it.
Restore ==
  /\ disk \subseteq mem'
  /\ lost' = {}
  /\ UNCHANGED <<disk, promised>>

\* A start that cannot read the file begins with nothing, and keeps no promise.
Forget ==
  /\ mem' = {}
  /\ promised' = {}
  /\ lost' = disk
  /\ UNCHANGED disk

RegisterNext ==
  \/ \E u \in Update : Change(u)
  \/ Persist \/ Promise \/ Stop \/ Restore \/ Forget

RegisterSpec == RegisterInit /\ [][RegisterNext]_registerVars
=============================================================================
