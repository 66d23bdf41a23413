----------------------------- MODULE Provisioning -----------------------------
(***************************************************************************)
(* On-demand workers: WorkerProvisioningManager launches a process, a      *)
(* container or a pod for a role that needs one, follows it through its    *)
(* record in TeamState.provisioning, and terminates it when it is idle,    *)
(* late, removed or silent.                                                *)
(*                                                                         *)
(* Three activities of the manager interleave at their awaits: the one     *)
(* reconcile pass (`pass`), the startup readiness check (`warm`), and the  *)
(* terminations that HTTP handlers and the timeout timer ask for.  A       *)
(* launchWorker call and a terminateManagedWorker call are state of their  *)
(* own (`call`, `terms`), so that what happens during their awaits is any  *)
(* step of the others.                                                     *)
(*                                                                         *)
(* Abstractions.  One role: a pass treats the roles one after the other,   *)
(* each by its own records.  Time is the age of a record: how many of the  *)
(* limits that apply to its status have passed.  The task router is the    *)
(* action Assign.  Between two awaits the code runs as one step; where the  *)
(* model takes several, nothing is decided in between.                     *)
(***************************************************************************)
EXTENDS Integers, FiniteSets

CONSTANTS
  Worker,     \* ids of provisioned workers
  Task,
  None,
  MinPerRole, \* config.workerProvisioningMinPerRole
  MaxPerRole, \* config.workerProvisioningMaxPerRole
  KnowsChild, \* TRUE: process backend, which knows a child from its spawn on;
              \* FALSE: docker and kubernetes, which know an instance by its record
  Reuse,      \* TRUE: records age out of the retention, and an id may stand for a new
              \* worker once nothing of the old one matters; FALSE: ids are fresh
  MaxFaults,  \* bound: failures in a behaviour
  Faults      \* which failures a behaviour may contain

\* "late": heartbeats may be delayed on their way; "slow": launches and silences.
AllFaults == {"port", "config", "launch", "terminate", "slow", "exit", "delete", "crash", "stop", "late"}

ASSUME ProvisioningAssumption ==
  /\ None \notin Worker \cup Task \cup {"pass", "warm"}
  /\ IsFiniteSet(Worker) /\ IsFiniteSet(Task)
  /\ MinPerRole \in Nat
  /\ MaxPerRole \in Nat
  /\ KnowsChild \in BOOLEAN
  /\ Reuse \in BOOLEAN
  /\ MaxFaults \in Nat
  /\ Faults \subseteq AllFaults

VARIABLES
  rec,     \* TeamState.provisioning.workers
  member,  \* status of the worker in TeamState.workers
  inst,    \* the launched instance itself
  joined,  \* instances whose registration was accepted
  beat,    \* a heartbeat on its way to the controller (bound: one at a time)
  call,    \* launchWorker calls
  terms,   \* terminateManagedWorker calls awaiting backend.terminate
  pass,    \* runReconcileLoop behind reconcilePromise
  queued,  \* reconcileQueued
  warm,    \* runStartupReadinessCheck
  stop,    \* stopped, and the list that stop() works off
  config,  \* baseConfigPromise: the read of the base config is kept, also a failed one
  task,    \* TeamState.tasks, as far as provisioning reads them
  faults,  \* failures so far
  missed,  \* history: instances a termination or a failed launch left behind
  left     \* history: registered records a crash left behind

records == <<rec, member, terms, missed>>     \* what a termination changes
world == <<inst, joined, beat>>               \* the instances
requests == <<pass, queued>>                  \* what a reconcile request changes
others == <<config, task, faults>>
vars == <<records, world, requests, others, call, warm, stop, left>>

RecStatus == {"none", "launching", "registered", "terminating", "terminated", "failed"}
\* inst: instanceId or instanceName is stored.  idle: idleSince is set.
\* age 1: the startup timeout (launching), the idle TTL (idleSince) or the cool-down
\* (failed) has passed; age 2: the retention of a retired record has passed.
Rec == [st : RecStatus, inst : BOOLEAN, idle : BOOLEAN, age : 0..2]
NoRec == [st |-> "none", inst |-> FALSE, idle |-> FALSE, age |-> 0]
Caller == {"pass", "warm"}
Call == [at : {"none", "port", "starting"}, by : Caller \cup {None}]
NoCall == [at |-> "none", by |-> None]
\* kill: the backend found something to stop when it was called.
Term == [w : Worker, final : {"failed", "terminated"}, by : {"pass", "api", "delete", "stop"},
         kill : BOOLEAN]
Beat == [from : Worker \cup {None}, status : {"idle", "busy"}]
NoBeat == [from |-> None, status |-> "idle"]
PassPc == {"off", "begin", "expire", "launch", "retire", "settling"}
Pass == [pc : PassPc, todo : SUBSET Worker, n : Nat]
Idle == [pc |-> "off", todo |-> {}, n |-> 0]
Warm == {"off", "warmup", "warmed", "poll", "retried", "await"}
Stop == [pc : {"no", "stopping", "done"}, todo : SUBSET Worker]
TaskRec == [st : {"new", "pending"}, by : {None}] \cup [st : {"held", "done"}, by : Worker]

(* Every variable holds what the code can store in it. *)
ProvTypeOK ==
  /\ rec \in [Worker -> Rec]
  /\ member \in [Worker -> {"none", "idle", "busy", "offline"}]
  /\ inst \in [Worker -> {"none", "up", "dead"}]
  /\ joined \subseteq Worker
  /\ beat \in Beat
  /\ call \in [Worker -> Call]
  /\ terms \subseteq Term
  /\ pass \in Pass
  /\ queued \in BOOLEAN
  /\ warm \in Warm
  /\ stop \in Stop
  /\ config \in {"unread", "ok", "bad"}
  /\ task \in [Task -> TaskRec]
  /\ faults \in 0..MaxFaults
  /\ missed \subseteq Worker
  /\ left \subseteq Worker

Init ==
  /\ rec = [w \in Worker |-> NoRec]
  /\ member = [w \in Worker |-> "none"]
  /\ inst = [w \in Worker |-> "none"]
  /\ joined = {}
  /\ beat = NoBeat
  /\ call = [w \in Worker |-> NoCall]
  /\ terms = {}
  /\ pass = Idle
  /\ queued = FALSE
  /\ warm = "warmup"
  /\ stop = [pc |-> "no", todo |-> {}]
  /\ config = "unread"
  /\ task = [t \in Task |-> [st |-> "new", by |-> None]]
  /\ faults = 0
  /\ missed = {}
  /\ left = {}

-----------------------------------------------------------------------------
(* What the manager reads. *)

Stopped == stop.pc # "no"
Online(w) == member[w] \in {"idle", "busy"}
Active == {w \in Worker : Online(w)}
Pending == {t \in Task : task[t].st = "pending"}
Plus(a, b) == IF a > b THEN a ELSE b
Less(a, b) == IF a < b THEN a ELSE b

\* Mutant: workers that are being launched do not count.
demandWithoutLaunching(r) ==
  LET idle == Cardinality({w \in Worker : member[w] = "idle"})
      warmShortfall == Plus(0, MinPerRole - Cardinality(Active))
      queueDrivenNeed == Plus(0, Cardinality(Pending) - idle)
  IN Less(Plus(0, MaxPerRole - Cardinality(Active)), Plus(warmShortfall, queueDrivenNeed))
\* Mutant: what the cap leaves may be less than nothing.
demandBelowZero(r) ==
  LET busyOrComing == Cardinality(Active) + Cardinality({w \in Worker : r[w].st = "launching"})
  IN Less(MaxPerRole - busyOrComing, Plus(0, MinPerRole - busyOrComing))
\* Demand for one role: warm workers and pending tasks, within what the cap leaves.
computeRoleDemand(r) ==
  LET launching == Cardinality({w \in Worker : r[w].st = "launching"})
      busyOrComing == Cardinality(Active) + launching
      idle == Cardinality({w \in Worker : member[w] = "idle"})
      warmShortfall == Plus(0, MinPerRole - busyOrComing)
      queueDrivenNeed == Plus(0, Cardinality(Pending) - idle - launching)
  IN Less(Plus(0, MaxPerRole - busyOrComing), Plus(warmShortfall, queueDrivenNeed))

hasRecentProvisioningFailure == \E w \in Worker : rec[w].st = "failed" /\ rec[w].age = 0
hasActiveOrLaunchingWorkerForRole ==
  \E w \in Worker : Online(w) \/ rec[w].st \in {"launching", "registered"}

\* Nothing of the worker that had this id matters any more.
Forgotten(w) == Reuse /\ \/ rec[w].st \in {"failed", "terminated"} /\ rec[w].age > 0
                         \/ rec[w].st \in {"registered", "terminating"} /\ inst[w] # "up"
Fresh(w) == /\ rec[w].st = "none" \/ Forgotten(w)
            /\ Reuse \/ inst[w] = "none"
            /\ member[w] = "none" /\ beat.from # w /\ call[w].at = "none"
            /\ w \notin pass.todo /\ ~ \E x \in terms : x.w = w
OutOfIds == \A w \in Worker : ~Fresh(w)   \* bound: then a launch is left out

\* launchWorker up to its first await, the reservation of the ports.
launchWorker(w, who) ==
  /\ Fresh(w)
  /\ call' = [call EXCEPT ![w] = [at |-> "port", by |-> who]]
  /\ inst' = [inst EXCEPT ![w] = "none"]
  /\ joined' = joined \ {w}
  /\ missed' = missed \ {w}
  /\ UNCHANGED <<rec, member, terms, beat>>

\* requestReconcile, called with the pass and the flag at the time of the call.
Requested(p, q) ==
  IF Stopped THEN [pass |-> p, queued |-> q]
  ELSE IF p.pc # "off" THEN [pass |-> p, queued |-> TRUE]
  ELSE [pass |-> [Idle EXCEPT !.pc = "begin"], queued |-> q]
requestReconcile ==
  LET r == Requested(pass, queued) IN pass' = r.pass /\ queued' = r.queued

\* terminateManagedWorker up to its await, on the records r.
offline(m) == IF m = "none" THEN m ELSE "offline"
Targets(w) == inst[w] = "up" /\ (KnowsChild \/ rec[w].inst)
terminateFrom(r, w, final, by) ==
  IF r[w].st = "none" THEN UNCHANGED records
  ELSE /\ rec' = [r EXCEPT ![w].st = "terminating"]
       /\ member' = [member EXCEPT ![w] = offline(@)]
       /\ terms' = terms \cup {[w |-> w, final |-> final, by |-> by, kill |-> Targets(w)]}
       /\ missed' = IF call[w].at = "none" THEN missed ELSE missed \cup {w}

terminateManagedWorker(w, final, by) == terminateFrom(rec, w, final, by)

Removable(w) == rec[w].st \notin {"none", "terminated", "failed"}

\* Mutant: the worker is marked offline, its record is left alone.
onWorkerUnlisted(w, by, otherwise) ==
  member' = [member EXCEPT ![w] = otherwise] /\ UNCHANGED <<rec, terms, missed>>
\* onWorkerRemoved: a retired worker is not retired again; its caller leaves it listed
\* as `otherwise`.
onWorkerRemoved(w, by, otherwise) ==
  IF Removable(w) THEN terminateManagedWorker(w, "terminated", by)
  ELSE member' = [member EXCEPT ![w] = otherwise] /\ UNCHANGED <<rec, terms, missed>>

MayFail(kind) == kind \in Faults /\ faults < MaxFaults
Fail(kind) == MayFail(kind) /\ faults' = faults + 1

-----------------------------------------------------------------------------
(* The reconcile pass. *)

\* What a record becomes when its worker is seen idle or busy.
seen(r, m) == IF r.st # "registered" THEN r
              ELSE IF m = "busy" THEN [r EXCEPT !.idle = FALSE]
              ELSE IF r.idle THEN r ELSE [r EXCEPT !.idle = TRUE, !.age = 0]
\* Mutant: a heartbeat promotes a record under termination too.
promotedUnlessEnded(r) ==
  IF r.st \in {"launching", "terminating"} THEN [r EXCEPT !.st = "registered", !.age = 0] ELSE r
promoted(r) == IF r.st = "launching" THEN [r EXCEPT !.st = "registered", !.age = 0] ELSE r

\* refreshProvisioningState on the record r of a worker that is listed as m.
refreshed(r, m) ==
  LET online == IF m \in {"idle", "busy"} THEN seen(promoted(r), m) ELSE r
  IN IF r.st \in {"failed", "terminated"} /\ r.age = 2 THEN NoRec ELSE online

\* The demand of the role is computed once, from the records r, and then launched.
Demanded(r) == [Idle EXCEPT !.pc = "launch", !.n = computeRoleDemand(r)]

PassWaits == \E x \in terms : x.by = "pass"

\* Mutant: launches that are late are left alone.
BeginPassPatiently ==
  /\ pass.pc = "begin"
  /\ queued' = FALSE
  /\ rec' = [w \in Worker |-> refreshed(rec[w], member[w])]
  /\ pass' = Demanded(rec')
  /\ left' = left \ {w \in Worker : rec'[w].st = "none"}
  /\ UNCHANGED <<member, terms, missed, world, others, call, warm, stop>>

\* One turn of runReconcileLoop: the flag is cleared, the records are refreshed, and
\* the launches that are late by now are listed.  Up to the first await, the end of the
\* first of them, this is one step.
BeginPass ==
  /\ pass.pc = "begin"
  /\ queued' = FALSE
  /\ LET now == [w \in Worker |-> refreshed(rec[w], member[w])]
         late == {w \in Worker : now[w].st = "launching" /\ now[w].age > 0}
     IN /\ left' = left \ {w \in Worker : now[w].st = "none"}
        /\ \/ /\ late = {} /\ pass' = Demanded(now)
              /\ rec' = now /\ UNCHANGED <<member, terms, missed>>
           \/ \E w \in late : /\ pass' = [Idle EXCEPT !.pc = "expire", !.todo = late \ {w}]
                              /\ terminateFrom(now, w, "failed", "pass")
  /\ UNCHANGED <<world, others, call, warm, stop>>

\* expireStalledLaunches ends the others one after the other, whatever became of them.
ExpireLaunch(w) ==
  /\ pass.pc = "expire" /\ w \in pass.todo /\ ~PassWaits
  /\ terminateManagedWorker(w, "failed", "pass")
  /\ pass' = [pass EXCEPT !.todo = @ \ {w}]
  /\ UNCHANGED <<world, others, call, queued, warm, stop, left>>

ComputeDemand ==
  /\ pass.pc = "expire" /\ pass.todo = {} /\ ~PassWaits
  /\ pass' = Demanded(rec)
  /\ UNCHANGED <<records, world, others, call, queued, warm, stop, left>>

CallsBy(who) == {w \in Worker : call[w].by = who}

PassLaunches(w) ==
  /\ pass.pc = "launch" /\ pass.n > 0 /\ CallsBy("pass") = {}
  /\ ~hasRecentProvisioningFailure
  /\ launchWorker(w, "pass")
  /\ pass' = [pass EXCEPT !.n = @ - 1]
  /\ UNCHANGED <<others, queued, warm, stop, left>>

\* The loop of scaleDownIdleWorkers over the entries `listed`, up to the next await or to
\* the end of the pass.  Only idleSince is read again before a worker is terminated.
\* runReconcileLoop runs again when a request came in; otherwise its promise settles.
scaleDown(listed, active) ==
  LET ripe == {w \in listed : rec[w].idle /\ rec[w].age > 0} IN
  \/ /\ ripe = {} \/ active <= MinPerRole
     /\ pass' = [Idle EXCEPT !.pc = IF queued /\ ~Stopped THEN "begin" ELSE "settling"]
     /\ UNCHANGED records
  \/ /\ active > MinPerRole
     /\ \E w \in ripe : /\ pass' = [pc |-> "retire", todo |-> ripe \ {w}, n |-> active - 1]
                        /\ terminateManagedWorker(w, "terminated", "pass")

\* The idle managed workers are listed, unless tasks are pending.
ListIdle ==
  /\ pass.pc = "launch" /\ CallsBy("pass") = {}
  /\ pass.n = 0 \/ hasRecentProvisioningFailure \/ OutOfIds
  /\ scaleDown(IF Pending # {} THEN {}
               ELSE {w \in Worker : member[w] = "idle" /\ rec[w].st = "registered"},
               Cardinality(Active))
  /\ UNCHANGED <<world, others, call, queued, warm, stop, left>>
RetireNext ==
  /\ pass.pc = "retire" /\ ~PassWaits
  /\ scaleDown(pass.todo, pass.n)
  /\ UNCHANGED <<world, others, call, queued, warm, stop, left>>

\* The finally of the promise.  A request between the end of the loop and this step only sets the
\* flag, which nobody reads before the next request.
ClearPromise ==
  /\ pass.pc = "settling"
  /\ pass' = Idle
  /\ UNCHANGED <<records, world, others, call, queued, warm, stop, left>>

-----------------------------------------------------------------------------
(* A launchWorker call after each of its awaits. *)

\* The ports are reserved: the record is written, and the backend is asked.
PortReserved(w) ==
  /\ call[w].at = "port"
  /\ call' = [call EXCEPT ![w].at = "starting"]
  /\ rec' = [rec EXCEPT ![w] = [NoRec EXCEPT !.st = "launching"]]
  /\ UNCHANGED <<member, terms, missed, world, requests, others, warm, stop, left>>

\* The rejection leaves launchWorker: it ends the pass (a queued request with it), or
\* the readiness check, in its first warm-up as degraded and later without a result.
PortFails(w) ==
  /\ call[w].at = "port" /\ Fail("port")
  /\ call' = [call EXCEPT ![w] = NoCall]
  /\ IF call[w].by = "pass"
       THEN pass' = [Idle EXCEPT !.pc = "settling"] /\ UNCHANGED warm
       ELSE warm' = "off" /\ UNCHANGED pass
  /\ UNCHANGED <<records, world, queued, config, task, stop, left>>

Spawn(w) ==
  /\ call[w].at = "starting" /\ inst[w] = "none" /\ config # "bad"
  /\ config' = "ok"
  /\ inst' = [inst EXCEPT ![w] = "up"]
  /\ UNCHANGED <<records, joined, beat, requests, task, faults, call, warm, stop, left>>

\* Mutant: the record is looked for under "launching" only, and the worker has registered.
LaunchReturnsToLaunching(w) ==
  /\ call[w].at = "starting" /\ inst[w] # "none"
  /\ call' = [call EXCEPT ![w] = NoCall]
  /\ rec' = [rec EXCEPT ![w].inst = ~KnowsChild /\ rec[w].st = "launching"]
  /\ UNCHANGED <<member, terms, missed, world, requests, others, warm, stop, left>>
\* The record, if it is still there, learns the instance whatever its status is now.
LaunchReturns(w) ==
  /\ call[w].at = "starting" /\ inst[w] # "none"
  /\ call' = [call EXCEPT ![w] = NoCall]
  /\ rec' = [rec EXCEPT ![w].inst = ~KnowsChild /\ rec[w].st # "none"]
  /\ UNCHANGED <<member, terms, missed, world, requests, others, warm, stop, left>>

\* Any error of the launch fails the record, whatever its status is now, and stops
\* nothing.  A failed read of the base config fails every launch from then on.
LaunchFails(w) ==
  /\ call[w].at = "starting"
  /\ \/ config = "bad" /\ inst[w] = "none" /\ UNCHANGED <<config, faults>>
     \/ config = "unread" /\ Fail("config") /\ config' = "bad"
     \/ config = "ok" /\ Fail("launch") /\ UNCHANGED config
  /\ call' = [call EXCEPT ![w] = NoCall]
  /\ rec' = [rec EXCEPT ![w] = IF @.st = "none" THEN @
                               ELSE [@ EXCEPT !.st = "failed", !.idle = FALSE, !.age = 0]]
  /\ missed' = IF inst[w] = "up" THEN missed \cup {w} ELSE missed
  /\ UNCHANGED <<member, terms, world, requests, task, warm, stop, left>>

-----------------------------------------------------------------------------
(* The end of a terminateManagedWorker call. *)

requeued(lost) == [t \in Task |-> IF task[t].st = "held" /\ task[t].by \in lost
                                    THEN [st |-> "pending", by |-> None] ELSE task[t]]

\* An error of the backend is only logged: the record is closed all the same.  The
\* delete handler goes on to drop the worker and to requeue its task.
FinishTerminate(x) ==
  /\ x \in terms
  /\ \/ UNCHANGED <<faults, missed>>
        /\ inst' = [inst EXCEPT ![x.w] = IF x.kill THEN "dead" ELSE @]
     \/ Fail("terminate") /\ x.kill /\ UNCHANGED inst /\ missed' = missed \cup {x.w}
  /\ terms' = terms \ {x}
  /\ rec' = [rec EXCEPT ![x.w] = IF @.st = "none" THEN @
                                 ELSE [@ EXCEPT !.st = x.final, !.idle = FALSE, !.age = 0]]
  /\ IF x.by = "delete"
       THEN member' = [member EXCEPT ![x.w] = "none"] /\ task' = requeued({x.w})
       ELSE UNCHANGED <<member, task>>
  /\ joined' = {w \in joined : inst'[w] = "up"}
  /\ UNCHANGED <<beat, requests, config, call, warm, stop, left>>

-----------------------------------------------------------------------------
(* The startup readiness check. *)

WarmWaits == CallsBy("warm") # {}

\* ensureWarmWorkersForRoles, at first and after a poll that found no worker online.
Warms ==
  /\ \/ warm = "warmup" /\ warm' = "warmed"
     \/ warm = "poll" /\ ~Stopped /\ Active = {} /\ warm' = "retried"
  /\ UNCHANGED <<requests, others, stop, left>>
WarmSkips ==
  /\ Warms
  /\ hasActiveOrLaunchingWorkerForRole \/ hasRecentProvisioningFailure \/ OutOfIds
  /\ UNCHANGED <<records, world, call>>
WarmLaunches(w) ==
  /\ Warms
  /\ ~hasActiveOrLaunchingWorkerForRole /\ ~hasRecentProvisioningFailure
  /\ launchWorker(w, "warm")
WarmPolls ==
  /\ warm = "warmed" /\ ~WarmWaits
  /\ warm' = "poll"
  /\ UNCHANGED <<records, world, requests, others, call, stop, left>>
WarmRequests ==
  /\ warm = "retried" /\ ~WarmWaits
  /\ requestReconcile
  /\ warm' = IF Stopped THEN "poll" ELSE "await"
  /\ UNCHANGED <<records, world, others, call, stop, left>>
WarmAwaits ==
  /\ warm = "await" /\ pass.pc = "off"
  /\ warm' = "poll"
  /\ UNCHANGED <<records, world, requests, others, call, stop, left>>
\* The check ends: a worker is online, the deadline has passed, or the manager stopped.
WarmReady ==
  /\ warm = "poll" /\ ~Stopped /\ Active # {}
  /\ warm' = "off"
  /\ UNCHANGED <<records, world, requests, others, call, stop, left>>
WarmGivesUp ==
  /\ warm = "poll"
  /\ warm' = "off"
  /\ UNCHANGED <<records, world, requests, others, call, stop, left>>

-----------------------------------------------------------------------------
(* Instances, their requests, and the timeout timer. *)

\* validateRegistration and onWorkerRegistered: an id without a record registers as an
\* unmanaged worker, and a retired one is refused.
Register(w) ==
  /\ inst[w] = "up" /\ w \notin joined
  /\ rec[w].st \in {"none", "launching", "registered"}
  /\ joined' = joined \cup {w}
  /\ member' = [member EXCEPT ![w] = "idle"]
  /\ rec' = [rec EXCEPT ![w] = IF @.st = "none" THEN @
                               ELSE [@ EXCEPT !.st = "registered", !.idle = TRUE, !.age = 0]]
  /\ left' = left \ {w}
  /\ UNCHANGED <<terms, missed, inst, beat, requests, others, call, warm, stop>>

Executes(w) == \E t \in Task : task[t].st = "held" /\ task[t].by = w
\* A heartbeat may arrive late.  Left out: that of a worker that is not listed, which
\* changes nothing, and in a run without "late" every one.
SendBeat(w) ==
  /\ "late" \in Faults
  /\ inst[w] = "up" /\ w \in joined /\ member[w] # "none" /\ beat = NoBeat
  /\ beat' = [from |-> w, status |-> IF Executes(w) THEN "busy" ELSE "idle"]
  /\ UNCHANGED <<records, inst, joined, requests, others, call, warm, stop, left>>

\* The handler of a heartbeat: it restores an offline worker, also one under termination.
BeatArrives(w) ==
  /\ beat.from = w
  /\ beat' = NoBeat
  /\ member' = [member EXCEPT ![w] = IF @ = "none" THEN @ ELSE beat.status]
  /\ rec' = [rec EXCEPT ![w] = seen(promoted(@), beat.status)]
  /\ IF beat.status = "busy" THEN requestReconcile ELSE UNCHANGED requests
  /\ UNCHANGED <<terms, missed, inst, joined, others, call, warm, stop, left>>

InstanceExits(w) ==
  /\ inst[w] = "up" /\ Fail("exit")
  /\ inst' = [inst EXCEPT ![w] = "dead"]
  /\ joined' = joined \ {w}
  /\ UNCHANGED <<records, beat, requests, config, task, call, warm, stop, left>>

\* The timer finds no heartbeat of w for WORKER_TIMEOUT_MS: its task is requeued and
\* the worker retired.
Silent(w) ==
  /\ Online(w) /\ beat.from # w
  /\ IF inst[w] = "up" THEN Fail("slow") ELSE UNCHANGED faults
  /\ onWorkerRemoved(w, "api", "offline")
  /\ task' = requeued({w})
  /\ requestReconcile
  /\ UNCHANGED <<world, config, call, warm, stop, left>>

\* The timer reaps an offline worker, and asks for a pass each time it fires.
TimerReaps(w) ==
  /\ member[w] = "offline"
  /\ member' = [member EXCEPT ![w] = "none"]
  /\ requestReconcile
  /\ UNCHANGED <<rec, terms, missed, world, others, call, warm, stop, left>>
Tick == /\ ~Stopped
        /\ requestReconcile
        /\ UNCHANGED <<records, world, others, call, warm, stop, left>>

\* Time passes for the record of w.  A launch is late when its instance is gone, and with
\* "slow" any launch may be; that is not counted as a failure.
Age(w) ==
  /\ \/ /\ rec[w].st = "launching" /\ rec[w].age = 0
        /\ \/ "slow" \in Faults
           \/ inst[w] = "dead"
           \/ call[w].at = "none" /\ inst[w] = "none"
     \/ rec[w].st = "registered" /\ rec[w].idle /\ rec[w].age = 0
     \/ rec[w].st = "failed" /\ rec[w].age = 0
     \/ rec[w].st \in {"failed", "terminated"} /\ rec[w].age < 2 /\ Reuse
  /\ rec' = [rec EXCEPT ![w].age = IF rec[w].st = "terminated" THEN 2 ELSE @ + 1]
  /\ UNCHANGED <<member, terms, missed, world, requests, others, call, warm, stop, left>>

-----------------------------------------------------------------------------
(* The rest of the controller, as far as it touches provisioning. *)

CreateTask(t) ==
  /\ task[t].st = "new" /\ ~Stopped
  /\ task' = [task EXCEPT ![t].st = "pending"]
  /\ requestReconcile
  /\ UNCHANGED <<records, world, config, faults, call, warm, stop, left>>

Assign(t, w) ==
  /\ task[t].st = "pending" /\ member[w] = "idle"
  /\ task' = [task EXCEPT ![t] = [st |-> "held", by |-> w]]
  /\ member' = [member EXCEPT ![w] = "busy"]
  /\ UNCHANGED <<rec, terms, missed, world, requests, config, faults, call, warm, stop, left>>

freed(w) == [member EXCEPT ![w] = IF Online(w) THEN "idle" ELSE @]

\* The dispatch to a dead instance fails, and the assignment is reverted.
RevertAssignment(t) ==
  LET w == task[t].by IN
  /\ task[t].st = "held" /\ inst[w] = "dead"
  /\ task' = [task EXCEPT ![t] = [st |-> "pending", by |-> None]]
  /\ member' = freed(w)
  /\ requestReconcile
  /\ UNCHANGED <<rec, terms, missed, world, config, faults, call, warm, stop, left>>

TaskCompletes(t) ==
  LET w == task[t].by IN
  /\ task[t].st = "held" /\ inst[w] = "up"
  /\ task' = [task EXCEPT ![t] = [st |-> "done", by |-> w]]
  /\ member' = freed(w)
  /\ requestReconcile
  /\ UNCHANGED <<rec, terms, missed, world, config, faults, call, warm, stop, left>>

\* A failed task retires its managed worker.
TaskFails(t) ==
  LET w == task[t].by IN
  /\ task[t].st = "held" /\ inst[w] = "up"
  /\ task' = [task EXCEPT ![t] = [st |-> "done", by |-> w]]
  /\ onWorkerRemoved(w, "api", freed(w)[w])
  /\ requestReconcile
  /\ UNCHANGED <<world, config, faults, call, warm, stop, left>>

\* DELETE /workers/:id retires the worker first, and removes it after the await.
DeleteWorker(w) ==
  /\ member[w] # "none" /\ Fail("delete")
  /\ onWorkerRemoved(w, "delete", "none")
  /\ task' = IF Removable(w) THEN task ELSE requeued({w})
  /\ UNCHANGED <<world, requests, config, call, warm, stop, left>>

-----------------------------------------------------------------------------
(* stop(), and the end of the controller's process. *)

StopBegins ==
  /\ ~Stopped /\ "stop" \in Faults
  /\ stop' = [pc |-> "stopping", todo |-> {w \in Worker : rec[w].st \notin {"none", "terminated"}}]
  /\ UNCHANGED <<records, world, requests, others, call, warm, left>>
StopWaits == \E x \in terms : x.by = "stop"
StopTerminates(w) ==
  /\ stop.pc = "stopping" /\ w \in stop.todo /\ ~StopWaits
  /\ terminateManagedWorker(w, "terminated", "stop")
  /\ stop' = [stop EXCEPT !.todo = @ \ {w}]
  /\ UNCHANGED <<world, requests, others, call, warm, left>>
\* backend.stop of the process backend stops every child it still knows.
StopEnds ==
  /\ stop.pc = "stopping" /\ stop.todo = {} /\ ~StopWaits
  /\ stop' = [stop EXCEPT !.pc = "done"]
  /\ inst' = [w \in Worker |-> IF KnowsChild /\ inst[w] = "up" THEN "dead" ELSE inst[w]]
  /\ joined' = {w \in joined : inst'[w] = "up"}
  /\ UNCHANGED <<records, beat, requests, others, call, warm, left>>

\* The process ends and starts again.  Processes die with it; containers and pods
\* stay, also one that was just asked for.  The workers' entries are swept, orphaned
\* tasks are requeued, and the records stay.  When the outage is long, the workers that
\* survive it give up their identity and register again.
Restart ==
  /\ Fail("crash")
  /\ \E late \in SUBSET {w \in Worker : ~KnowsChild /\ call[w].at = "starting" /\ inst[w] = "none"} :
       inst' = [w \in Worker |-> IF KnowsChild /\ inst[w] = "up" THEN "dead"
                                 ELSE IF w \in late THEN "up" ELSE inst[w]]
  /\ rec' = [w \in Worker |-> refreshed(rec[w], "none")]
  /\ member' = [w \in Worker |-> "none"]
  /\ beat' = NoBeat
  /\ call' = [w \in Worker |-> NoCall]
  /\ terms' = {} /\ pass' = Idle /\ queued' = FALSE
  /\ warm' = "warmup"
  /\ stop' = [pc |-> "no", todo |-> {}]
  /\ config' = "unread"
  /\ task' = requeued(Worker)
  /\ left' = {w \in Worker : rec[w].st = "registered"}
  /\ missed' = missed \cup {w \in Worker : inst'[w] = "up"}
  /\ joined' \in {{w \in joined : inst'[w] = "up"}, {}}

-----------------------------------------------------------------------------
PassStep == \/ BeginPass \/ ComputeDemand \/ ListIdle \/ RetireNext \/ ClearPromise
            \/ \E w \in Worker : ExpireLaunch(w) \/ PassLaunches(w)
WarmStep == \/ WarmSkips \/ WarmPolls \/ WarmRequests \/ WarmAwaits \/ WarmReady
            \/ \E w \in Worker : WarmLaunches(w)
LaunchStep(w) == PortReserved(w) \/ Spawn(w) \/ LaunchReturns(w)
StopStep == StopEnds \/ \E w \in Worker : StopTerminates(w)

Next ==
  \/ PassStep \/ WarmStep \/ WarmGivesUp \/ StopStep \/ StopBegins \/ Tick \/ Restart
  \/ \E w \in Worker : \/ LaunchStep(w) \/ PortFails(w) \/ LaunchFails(w) \/ Register(w)
                       \/ SendBeat(w) \/ BeatArrives(w) \/ InstanceExits(w) \/ Silent(w)
                       \/ TimerReaps(w) \/ Age(w) \/ DeleteWorker(w)
  \/ \E t \in Task : \/ CreateTask(t) \/ RevertAssignment(t) \/ TaskCompletes(t) \/ TaskFails(t)
                     \/ \E w \in Worker : Assign(t, w)
  \/ \E x \in terms : FinishTerminate(x)

Spec == Init /\ [][Next]_vars

\* The event loop runs what is ready and the backends answer; the timers fire, time
\* passes for retired records, and a dead worker is noticed.  What an auto-assign loop
\* can assign it assigns at the next registration or idle heartbeat.
Fairness ==
  /\ WF_vars(PassStep) /\ WF_vars(WarmStep) /\ WF_vars(StopStep) /\ WF_vars(Tick)
  /\ \A w \in Worker : /\ WF_vars(LaunchStep(w)) /\ WF_vars(Register(w))
                       /\ WF_vars(LaunchFails(w) /\ faults' = faults)
                       /\ WF_vars(Silent(w) /\ faults' = faults) /\ WF_vars(TimerReaps(w))
                       /\ WF_vars(Age(w)) /\ WF_vars(BeatArrives(w))
                       /\ WF_vars(\E x \in terms : x.w = w /\ FinishTerminate(x))
  /\ \A t \in Task : /\ SF_vars(\E w \in Worker : Assign(t, w))
                     /\ WF_vars(TaskCompletes(t)) /\ WF_vars(RevertAssignment(t))
FairSpec == Spec /\ Fairness

-----------------------------------------------------------------------------
Managed == {w \in Worker : rec[w].st = "launching" \/ (rec[w].st = "registered" /\ Online(w))}

(* At most one worker more than the configured maximum is launched for a role: the     *)
(* reconcile passes keep to it among themselves, and the startup check, which asks only *)
(* whether there is any worker, adds one at a time.                                    *)
WithinMaxPlusOne == Cardinality(Managed) <= MaxPerRole + 1

(* The two books agree: a record that says registered is of a worker listed as online, *)
(* unless it is left from before a crash.                                              *)
RegisteredIsOnline == \A w \in Worker : rec[w].st = "registered" /\ w \notin left => Online(w)

(* An instance that runs while its record is closed: its launch had not returned when  *)
(* the termination began, or its launch or its termination failed, or a crash came.    *)
(* Whatever else interleaves with a termination, it ends with the instance.            *)
LeaksAreMissed ==
  \A w \in Worker : inst[w] = "up" /\ rec[w].st \in {"terminated", "failed"}
                    /\ ~(\E x \in terms : x.w = w) => w \in missed

(* A retired record never admits its worker again, whatever registration, heartbeat or *)
(* return of its launch comes late.                                                    *)
RetiredStaysRetired ==
  [][\A w \in Worker : rec[w].st \in {"terminating", "terminated", "failed"}
                         => rec'[w].st \notin {"launching", "registered"}]_vars

(* A pending task is given to a living worker, however requests, passes and faults     *)
(* interleave, unless the base config cannot be read or the controller is stopped.     *)
DemandIsServed ==
  \A t \in Task : task[t].st = "pending" ~>
    \/ task[t].st = "done"
    \/ task[t].st = "held" /\ inst[task[t].by] = "up"
    \/ config = "bad" \/ Stopped
=============================================================================
