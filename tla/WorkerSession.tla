----------------------------- MODULE WorkerSession -----------------------------
(***************************************************************************)
(* The session of a worker with its controller: how the worker gets an     *)
(* identity and registers it, keeps it alive with heartbeats, gives it up  *)
(* after repeated failures and at stop, and finds it again in its file;    *)
(* and the record of the worker at the controller, with the timer that     *)
(* takes it off line and reaps it.                                         *)
(*                                                                         *)
(* The heartbeat timer calls back at every interval, whether or not the    *)
(* callback before has ended, and no request has a timeout: callbacks      *)
(* overlap.  What runs between two awaits is one step.                     *)
(*                                                                         *)
(* Abstractions.  The controller answers, or there is an outage, in which  *)
(* requests are refused or lost, or their replies are.  Time at the        *)
(* controller is whether a worker was heard of since the timer last        *)
(* looked.  A generated id is any id that nobody knows of; it is drawn     *)
(* when the registration arrives.  The restarts of the worker's HTTP       *)
(* server, its tasks, and a stop that overtakes start() are left out.      *)
(***************************************************************************)
EXTENDS Integers, FiniteSets

CONSTANTS
  Id,           \* ids of workers
  none,         \* no id
  Requested,    \* what TEAMCLAW_WORKER_ID may be, none when it is not set
  Tick,         \* heartbeat callbacks at the same time
  main,         \* start() and stop()
  FailureLimit, \* failures in a row after which the identity is given up
  MaxOutages,   \* bound: outages in a behaviour
  MaxFaults     \* bound: crashes, stops and failed saves in a behaviour

Actor == Tick \cup {main}

ASSUME SessionAssumption ==
  /\ none \notin Id /\ Requested \subseteq Id \cup {none} /\ Requested # {}
  /\ IsFiniteSet(Tick) /\ main \notin Tick
  /\ FailureLimit \in Nat \ {0} /\ MaxOutages \in Nat /\ MaxFaults \in Nat

VARIABLES
  phase,     \* of the process
  wanted,    \* TEAMCLAW_WORKER_ID of the process
  identity,  \* IdentityManager.identity
  workerId,  \* of the service; controllerUrl is set and cleared with it
  file,      \* worker-identity.json
  failures,  \* consecutiveHeartbeatFailures
  actor,     \* what the callbacks, start() and stop() wait for
  record,    \* of the ids at the controller
  reachable, \* the controller answers
  outages,   \* so far
  faults,    \* so far
  odd        \* history: what this process has been through

memory == <<wanted, identity, workerId, failures>>
bounds == <<reachable, outages, faults>>
vars == <<phase, memory, file, actor, record, bounds, odd>>

\* heard: on line, with news since the timer last looked.
Record == {"none", "heard", "on", "off"}

Registering == {"read", "remove", "reread", "find", "register", "registered", "save"}
Clearing == {"closing", "delete", "unlink"}
\* id: the identity that the request or the save is about.
Wait == [at : {"idle", "beat"} \cup Registering \cup Clearing, id : Id \cup {none}]
Idle == [at |-> "idle", id |-> none]
At(a, step) == actor[a].at = step

(* Every variable holds what the code can store in it. *)
SessionTypeOK ==
  /\ phase \in {"off", "starting", "up", "stopping", "stopped"}
  /\ wanted \in Requested
  /\ {identity, workerId, file} \subseteq Id \cup {none}
  /\ failures \in Nat
  /\ actor \in [Actor -> Wait]
  /\ record \in [Id -> Record]
  /\ reachable \in BOOLEAN /\ outages \in 0..MaxOutages /\ faults \in 0..MaxFaults
  /\ odd \subseteq {"twice", "crossed", "unsaved"}

Init ==
  /\ phase = "off" /\ wanted \in Requested
  /\ identity = none /\ workerId = none /\ file = none /\ failures = 0
  /\ actor = [a \in Actor |-> Idle]
  /\ record = [i \in Id |-> "none"]
  /\ reachable = TRUE /\ outages = 0 /\ faults = 0
  /\ odd = {}

Fails == faults < MaxFaults /\ faults' = faults + 1

\* Two registrations at the same time, or one and the end of an identity.
noted(new) ==
  LET within(steps) == {a \in Actor : new[a].at \in steps} IN
  odd \cup (IF Cardinality(within(Registering)) > 1 THEN {"twice"} ELSE {})
      \cup (IF within(Registering) # {} /\ within(Clearing) # {} THEN {"crossed"} ELSE {})

goes(a, step, i) == actor' = [actor EXCEPT ![a] = [at |-> step, id |-> i]]

-----------------------------------------------------------------------------
(* IdentityManager.register(), called by start() and by callbacks. *)

\* A callback takes the identity over unless it has one; start() goes on to set the timer.
Returns(a, i) ==
  /\ actor' = [actor EXCEPT ![a] = Idle]
  /\ workerId' = IF i # none /\ (a = main \/ workerId = none) THEN i ELSE workerId
  /\ phase' = IF a = main THEN "up" ELSE phase

\* A file with another id than the requested one is removed, and the file is read again.
Read(a) ==
  /\ At(a, "read") \/ At(a, "reread")
  /\ \/ /\ file = none
        /\ goes(a, IF At(a, "read") THEN "reread" ELSE "find", none)
        /\ UNCHANGED <<phase, identity, workerId>>
     \/ /\ file # none /\ At(a, "read") /\ wanted \notin {none, file}
        /\ goes(a, "remove", none)
        /\ UNCHANGED <<phase, identity, workerId>>
     \/ /\ file # none /\ (At(a, "reread") \/ wanted \in {none, file})
        /\ identity' = file
        /\ Returns(a, file)
  /\ UNCHANGED <<wanted, failures, file, record, bounds, odd>>

Remove(a) ==
  /\ At(a, "remove")
  /\ file' = none
  /\ goes(a, "reread", none)
  /\ UNCHANGED <<phase, memory, record, bounds, odd>>

\* discoverControllerUrl: the configured URL, or one that is found in the network.
Find(a) ==
  /\ At(a, "find")
  /\ \/ goes(a, "register", none) /\ UNCHANGED <<phase, workerId>>
     \/ ~reachable /\ Returns(a, none)
  /\ UNCHANGED <<wanted, identity, failures, file, record, bounds, odd>>

unknown(i) ==
  /\ i \notin {identity, workerId, file} /\ record[i] = "none"
  /\ \A a \in Actor : actor[a].id # i

\* POST /api/v1/workers/register.
RegisterArrives(a, i) ==
  /\ At(a, "register")
  /\ IF wanted = none THEN unknown(i) ELSE i = wanted
  /\ record' = [record EXCEPT ![i] = "heard"]
  /\ goes(a, "registered", i)
  /\ UNCHANGED <<phase, memory, file, bounds, odd>>

Registered(a) ==
  /\ At(a, "registered") /\ reachable
  /\ identity' = actor[a].id
  /\ goes(a, "save", actor[a].id)
  /\ UNCHANGED <<phase, wanted, workerId, failures, file, record, bounds, odd>>

RegisterFails(a) ==
  /\ At(a, "register") \/ At(a, "registered")
  /\ ~reachable
  /\ Returns(a, none)
  /\ UNCHANGED <<wanted, identity, failures, file, record, bounds, odd>>

Saved(a) ==
  /\ At(a, "save")
  /\ file' = actor[a].id
  /\ Returns(a, actor[a].id)
  /\ UNCHANGED <<wanted, identity, failures, record, bounds, odd>>

\* The identity stays, but register() returns null.
SaveFails(a) ==
  /\ At(a, "save") /\ Fails
  /\ Returns(a, none)
  /\ odd' = odd \cup {"unsaved"}
  /\ UNCHANGED <<wanted, identity, failures, file, record, reachable, outages>>

-----------------------------------------------------------------------------
(* The heartbeat callback. *)

\* Mutant: a callback without an identity does nothing.
TickWaits(k) ==
  /\ k \in Tick /\ phase = "up" /\ At(k, "idle")
  /\ identity # none /\ workerId # none /\ goes(k, "beat", identity)
  /\ odd' = noted(actor')
  /\ UNCHANGED <<phase, memory, file, record, bounds>>
TickBegins(k) ==
  /\ k \in Tick /\ phase = "up" /\ At(k, "idle")
  /\ \/ identity = none /\ goes(k, "read", none)
     \/ identity # none /\ workerId # none /\ goes(k, "beat", identity)
  /\ odd' = noted(actor')
  /\ UNCHANGED <<phase, memory, file, record, bounds>>

\* POST /api/v1/workers/:id/heartbeat: a record that is gone is not missed.
heardOf(i) == [record EXCEPT ![i] = IF @ = "none" THEN @ ELSE "heard"]

\* Mutant: a heartbeat that arrives makes up for one failure.
BeatenForgiving(k) ==
  /\ At(k, "beat") /\ reachable
  /\ record' = heardOf(actor[k].id)
  /\ failures' = failures - 1
  /\ goes(k, "idle", none)
  /\ UNCHANGED <<phase, wanted, identity, workerId, file, bounds, odd>>
Beaten(k) ==
  /\ At(k, "beat") /\ reachable
  /\ record' = heardOf(actor[k].id)
  /\ failures' = 0
  /\ goes(k, "idle", none)
  /\ UNCHANGED <<phase, wanted, identity, workerId, file, bounds, odd>>

\* IdentityManager.clear(), up to its first await.
clears(a) == IF identity = none THEN goes(a, "unlink", none) ELSE goes(a, "delete", identity)

BeatFails(k) ==
  /\ At(k, "beat") /\ ~reachable
  /\ record' \in {record, heardOf(actor[k].id)}
  /\ failures' = failures + 1
  /\ IF failures' >= FailureLimit THEN clears(k) ELSE goes(k, "idle", none)
  /\ odd' = noted(actor')
  /\ UNCHANGED <<phase, wanted, identity, workerId, file, bounds>>

\* Mutant: the identity is dropped only when the controller has answered.
DeleteOrKeep(a) ==
  /\ At(a, "delete")
  /\ record' = IF reachable THEN [record EXCEPT ![actor[a].id] = "none"] ELSE record
  /\ identity' = IF reachable THEN none ELSE identity
  /\ goes(a, "unlink", none)
  /\ UNCHANGED <<phase, wanted, workerId, failures, file, bounds, odd>>
\* DELETE /api/v1/workers/:id; whatever comes of it, the identity that the worker has by
\* then is dropped.
Delete(a) ==
  LET gone == [record EXCEPT ![actor[a].id] = "none"] IN
  /\ At(a, "delete")
  /\ record' \in IF reachable THEN {gone} ELSE {record, gone}
  /\ identity' = none
  /\ goes(a, "unlink", none)
  /\ UNCHANGED <<phase, wanted, workerId, failures, file, bounds, odd>>

\* Mutant: the id to report results with is kept.
UnlinkOnly(a) ==
  /\ At(a, "unlink")
  /\ file' = none
  /\ goes(a, "idle", none)
  /\ IF a = main THEN phase' = "stopped" /\ UNCHANGED failures ELSE failures' = 0 /\ UNCHANGED phase
  /\ UNCHANGED <<wanted, identity, workerId, record, bounds, odd>>
Unlink(a) ==
  /\ At(a, "unlink")
  /\ file' = none
  /\ goes(a, "idle", none)
  /\ IF a = main THEN phase' = "stopped" /\ UNCHANGED <<workerId, failures>>
                 ELSE workerId' = none /\ failures' = 0 /\ UNCHANGED phase
  /\ UNCHANGED <<wanted, identity, record, bounds, odd>>

-----------------------------------------------------------------------------
(* The process. *)

Start ==
  /\ phase = "off"
  /\ phase' = "starting"
  /\ wanted' \in Requested
  /\ goes(main, "read", none)
  /\ UNCHANGED <<identity, workerId, failures, file, record, bounds, odd>>

\* stop() ends the timer and waits for the server to close; callbacks go on.
Stop ==
  /\ phase = "up" /\ Fails
  /\ phase' = "stopping"
  /\ goes(main, "closing", none)
  /\ odd' = noted(actor')
  /\ UNCHANGED <<memory, file, record, reachable, outages>>

\* Mutant: stop() does not clear the identity.
ClosedOnly ==
  /\ At(main, "closing")
  /\ phase' = "stopped"
  /\ goes(main, "idle", none)
  /\ UNCHANGED <<memory, file, record, bounds, odd>>
Closed ==
  /\ At(main, "closing")
  /\ clears(main)
  /\ UNCHANGED <<phase, memory, file, record, bounds, odd>>

\* The process is gone, after stop() or by a crash.
Ends ==
  /\ phase # "off"
  /\ IF phase = "stopped" THEN UNCHANGED faults ELSE Fails
  /\ phase' = "off"
  /\ identity' = none /\ workerId' = none /\ failures' = 0
  /\ actor' = [a \in Actor |-> Idle]
  /\ odd' = {}
  /\ UNCHANGED <<wanted, file, record, reachable, outages>>

-----------------------------------------------------------------------------
(* The controller. *)

\* The timer: a worker that was not heard of is taken off line, and reaped after that.
TimerLooks(i) ==
  /\ record[i] # "none"
  /\ record' = [record EXCEPT ![i] = CASE @ = "heard" -> "on" [] @ = "on" -> "off"
                                     [] OTHER -> "none"]
  /\ UNCHANGED <<phase, memory, file, actor, bounds, odd>>

OutageBegins ==
  /\ reachable /\ outages < MaxOutages
  /\ reachable' = FALSE /\ outages' = outages + 1
  /\ UNCHANGED <<phase, memory, file, actor, record, faults, odd>>
OutageEnds ==
  /\ ~reachable
  /\ reachable' = TRUE
  /\ UNCHANGED <<phase, memory, file, actor, record, outages, faults, odd>>

-----------------------------------------------------------------------------
Registers(a) ==
  \/ Read(a) \/ Remove(a) \/ Find(a) \/ Registered(a) \/ RegisterFails(a) \/ Saved(a)
  \/ \E i \in Id : RegisterArrives(a, i)
TickStep(k) == TickBegins(k) \/ Beaten(k) \/ BeatFails(k)

Next ==
  \/ \E a \in Actor : Registers(a) \/ SaveFails(a) \/ Delete(a) \/ Unlink(a)
  \/ \E k \in Tick : TickStep(k)
  \/ Start \/ Stop \/ Closed \/ Ends
  \/ \E i \in Id : TimerLooks(i)
  \/ OutageBegins \/ OutageEnds

Spec == Init /\ [][Next]_vars

\* The intervals go on, requests come to an end, and so do outages.
Fairness ==
  /\ \A a \in Actor : WF_vars(Registers(a) \/ Delete(a) \/ Unlink(a))
  /\ \A k \in Tick : WF_vars(TickStep(k))
  /\ \A i \in Id : WF_vars(TimerLooks(i))
  /\ WF_vars(OutageEnds)
FairSpec == Spec /\ Fairness

-----------------------------------------------------------------------------
Quiet == \A a \in Actor : actor[a].at \in {"idle", "beat"}
Mute == phase = "up" /\ identity # none /\ workerId = none /\ Quiet
Forgotten == identity # none /\ record[identity] = "none"
Listed == identity # none /\ record[identity] \in {"heard", "on"}

(* A worker that has an identity sends heartbeats with it: only when the identity could *)
(* not be saved, or was established while another was given up, may it be silent.       *)
SilenceHasCause == Mute => odd \cap {"unsaved", "crossed"} # {}

(* The id under which results are reported is the one that heartbeats are sent for and  *)
(* tasks are assigned to, unless two registrations, or a registration and the end of an *)
(* identity, were under way at the same time.                                           *)
ReportsAsRegistered ==
  identity # none /\ workerId # none /\ Quiet =>
    identity = workerId \/ odd \cap {"twice", "crossed"} # {}

(* A worker that was stopped leaves no identity behind, which the next would take over, *)
(* unless a registration was under way at the stop.                                     *)
StopLeavesNoIdentity == phase = "stopped" /\ Quiet => file = none \/ "crossed" \in odd

(* After each outage the worker is listed again, in the end, as long as it runs, but for *)
(* the two states that it never leaves: it is silent, or the controller has reaped its   *)
(* record while it held the identity.                                                    *)
WorkerIsListedAgain ==
  []<>Listed \/ []<>(phase # "up") \/ <>[]Mute \/ <>[]Forgotten
===============================================================================
