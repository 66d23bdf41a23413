----------------------------- MODULE StateStore -----------------------------
(***************************************************************************)
(* state.ts and its use by the controller service: the team state in       *)
(* memory, saves of it, the queue of writes to its file, and restarts of   *)
(* the process.                                                            *)
(*                                                                         *)
(* saveTeamState awaits the creation of the directory, then serialises the *)
(* state and appends a write to the chain of promises of the file; the     *)
(* write goes to a temporary file that is renamed.  updateState does not   *)
(* wait for its save.  The state is abstracted to the set of the updates   *)
(* made to it, so a file that loses one is seen.                           *)
(***************************************************************************)
EXTENDS Integers

CONSTANTS
  Update,     \* the calls of updateState
  None,       \* no update: the save that start awaits
  MaxStarts,  \* bound: starts of the process
  Faults      \* which failures a behaviour may contain

ASSUME StoreAssumption ==
  /\ None \notin Update
  /\ MaxStarts \in Nat
  /\ Faults \subseteq {"crash", "write", "read"}

VARIABLES
  up,        \* the controller service: "down", "starting", "up"
  mem,       \* the team state in memory
  made,      \* the updates made so far
  calls,     \* saveTeamState calls awaiting ensureDir
  writes,    \* enqueueAtomicWrite calls whose promise is not settled
  tail,      \* writeQueues.get(filePath), 0 when there is none
  enqueued,  \* number of the last promise made
  exists,    \* there is a file
  disk,      \* the team state in it
  starts,    \* starts so far
  promised,  \* history: updates that fulfilled saves were asked to store
  lost,      \* history: updates in the file that the last start could not read
  failures   \* history: updates whose own save failed

store == <<calls, writes, tail, enqueued>>
vars == <<up, mem, made, store, exists, disk, starts, promised, lost, failures>>

State == SUBSET Update
CallRec == [by : Update \cup {None}, asked : State]
\* A write was asked by one call, holds the serialised state, and follows the
\* write that was last in the queue when it was made.
WriteRec == [n : Nat \ {0}, by : Update \cup {None}, asked : State, data : State,
             prev : Nat, phase : {"queued", "writing", "renamed"}]

StoreTypeOK ==
  /\ up \in {"down", "starting", "up"}
  /\ mem \in State
  /\ made \in State
  /\ calls \subseteq CallRec
  /\ writes \subseteq WriteRec
  /\ tail \in Nat
  /\ enqueued \in Nat
  /\ exists \in BOOLEAN
  /\ disk \in State
  /\ starts \in 0..MaxStarts
  /\ promised \in State
  /\ lost \in State
  /\ failures \in State

Init ==
  /\ up = "down"
  /\ mem = {}
  /\ made = {}
  /\ calls = {} /\ writes = {} /\ tail = 0 /\ enqueued = 0
  /\ exists = FALSE /\ disk = {}
  /\ starts = 0
  /\ promised = {} /\ lost = {} /\ failures = {}

-----------------------------------------------------------------------------
(* The controller service. *)

\* start finds a state file and works on with it.
StartRestored ==
  /\ up = "down" /\ starts < MaxStarts
  /\ exists
  /\ up' = "up"
  /\ mem' = disk
  /\ starts' = starts + 1
  /\ lost' = {}
  /\ UNCHANGED <<made, store, exists, disk, promised, failures>>

\* start finds one and repairs it: tasks and workers of the process before are
\* reset, and the save of that is awaited.
StartRepaired(u) ==
  /\ up = "down" /\ starts < MaxStarts
  /\ exists
  /\ u \notin made
  /\ up' = "starting"
  /\ mem' = disk \cup {u}
  /\ made' = made \cup {u}
  /\ calls' = {[by |-> None, asked |-> disk \cup {u}]}
  /\ starts' = starts + 1
  /\ lost' = {}
  /\ UNCHANGED <<writes, tail, enqueued, exists, disk, promised, failures>>

\* loadTeamState returns null, for a missing file and for any error alike: start
\* makes a fresh team and awaits its save.
StartFresh ==
  /\ up = "down" /\ starts < MaxStarts
  /\ exists => "read" \in Faults
  /\ up' = "starting"
  /\ mem' = {}
  /\ calls' = {[by |-> None, asked |-> {}]}
  /\ starts' = starts + 1
  /\ lost' = disk
  /\ promised' = {}
  /\ UNCHANGED <<made, writes, tail, enqueued, exists, disk, failures>>

\* updateState: the state is changed in place and a save is started.
UpdateState(u) ==
  /\ up = "up"
  /\ u \notin made
  /\ mem' = mem \cup {u}
  /\ made' = made \cup {u}
  /\ calls' = calls \cup {[by |-> u, asked |-> mem \cup {u}]}
  /\ UNCHANGED <<up, writes, tail, enqueued, exists, disk, starts, promised, lost, failures>>

\* The process dies with its memory, its suspended saves and its queue.
Crash ==
  /\ "crash" \in Faults
  /\ up # "down"
  /\ up' = "down"
  /\ mem' = {}
  /\ calls' = {} /\ writes' = {} /\ tail' = 0 /\ enqueued' = 0
  /\ UNCHANGED <<made, exists, disk, starts, promised, lost, failures>>

-----------------------------------------------------------------------------
(* Saves. *)

\* Mutant: the state is serialised when the save is called.
EnqueueAsked(c) ==
  /\ c \in calls
  /\ calls' = calls \ {c}
  /\ enqueued' = enqueued + 1
  /\ tail' = enqueued + 1
  /\ writes' = writes \cup {[n |-> enqueued + 1, by |-> c.by, asked |-> c.asked,
                             data |-> c.asked, prev |-> tail, phase |-> "queued"]}
  /\ UNCHANGED <<up, mem, made, exists, disk, starts, promised, lost, failures>>

\* ensureDir returns; calls may return in any order.
EnqueueWrite(c) ==
  /\ c \in calls
  /\ calls' = calls \ {c}
  /\ enqueued' = enqueued + 1
  /\ tail' = enqueued + 1
  /\ writes' = writes \cup {[n |-> enqueued + 1, by |-> c.by, asked |-> c.asked,
                             data |-> mem, prev |-> tail, phase |-> "queued"]}
  /\ UNCHANGED <<up, mem, made, exists, disk, starts, promised, lost, failures>>

Move(w, phase) == writes' = (writes \ {w}) \cup {[w EXCEPT !.phase = phase]}

\* The write before it in the chain settled, whichever way.
BeginWrite(w) ==
  /\ w \in writes /\ w.phase = "queued"
  /\ ~\E v \in writes : v.n = w.prev
  /\ Move(w, "writing")
  /\ UNCHANGED <<up, mem, made, calls, tail, enqueued, exists, disk, starts, promised, lost,
                 failures>>

\* The temporary file is complete and takes the place of the state file.
Rename(w) ==
  /\ w \in writes /\ w.phase = "writing"
  /\ Move(w, "renamed")
  /\ exists' = TRUE
  /\ disk' = w.data
  /\ UNCHANGED <<up, mem, made, calls, tail, enqueued, starts, promised, lost, failures>>

\* Mutant: the entry of the queue is deleted whoever made it.
settleAlways(w) == writes' = writes \ {w} /\ tail' = 0 /\ UNCHANGED enqueued

\* The promise of w settles, and its entry in writeQueues goes if it is the last.
settle(w) ==
  /\ writes' = writes \ {w}
  /\ tail' = IF tail = w.n THEN 0 ELSE tail
  /\ UNCHANGED enqueued

FulfilSave(w) ==
  /\ w \in writes /\ w.phase = "renamed"
  /\ settle(w)
  /\ promised' = promised \cup w.asked
  /\ up' = IF w.by = None THEN "up" ELSE up
  /\ UNCHANGED <<mem, made, calls, exists, disk, starts, lost, failures>>

\* The save of call or write x is rejected: updateState looks after no save, start throws.
RejectSave(x) ==
  /\ failures' = failures \cup ({x.by} \ {None})
  /\ up' = IF x.by = None THEN "down" ELSE up
  /\ mem' = IF x.by = None THEN {} ELSE mem
  /\ UNCHANGED <<made, exists, disk, starts, promised, lost>>

\* Mutant: a failed write fails those chained on it.
WriteFailsAll(w) ==
  /\ "write" \in Faults
  /\ w \in writes /\ w.phase = "writing"
  /\ writes' = {} /\ tail' = 0 /\ UNCHANGED <<calls, enqueued>>
  /\ RejectSave(w)

WriteFails(w) ==
  /\ "write" \in Faults
  /\ w \in writes /\ w.phase = "writing"
  /\ settle(w) /\ UNCHANGED calls
  /\ RejectSave(w)

\* ensureDir rejects.
MkdirFails(c) ==
  /\ "write" \in Faults
  /\ c \in calls
  /\ calls' = calls \ {c} /\ UNCHANGED <<writes, tail, enqueued>>
  /\ RejectSave(c)

Next ==
  \/ StartRestored \/ StartFresh \/ Crash
  \/ \E u \in Update : UpdateState(u) \/ StartRepaired(u)
  \/ \E c \in calls : EnqueueWrite(c) \/ MkdirFails(c)
  \/ \E w \in writes : BeginWrite(w) \/ Rename(w) \/ FulfilSave(w) \/ WriteFails(w)

Spec == Init /\ [][Next]_vars

\* The file system answers: a suspended mkdir, write or rename ends.
Fairness ==
  /\ WF_vars(\E c \in calls : EnqueueWrite(c))
  /\ WF_vars(\E w \in writes : BeginWrite(w))
  /\ WF_vars(\E w \in writes : Rename(w))
  /\ WF_vars(\E w \in writes : FulfilSave(w))

FairSpec == Spec /\ Fairness

-----------------------------------------------------------------------------
\* A save that is reported done is done: the file contains every update the state
\* had when the save was called, also after later saves, failures and restarts,
\* although directories are made and writes are queued concurrently.
CompletedSavesAreStored == promised \subseteq disk

\* The store keeps what a durable register promises: queued snapshots never take
\* back what the file has.
Register == INSTANCE DurableRegister
ImplementsRegister == Register!RegisterSpec

\* An update reaches the file unless the process dies or its own save fails: the
\* failure of another save, or a queue of them, does not keep it away.
EveryUpdateIsStored ==
  \A u \in Update : u \in mem ~> u \in disk \cup failures \/ u \notin mem
=============================================================================
