---------------------------- MODULE TaskLifecycle ----------------------------
(***************************************************************************)
(* The life of a TeamClaw task: the controller's in-memory TeamState       *)
(* (tasks, workers, clarifications), the HTTP handlers and timers that     *)
(* change it, the worker processes that execute tasks, and the requests in *)
(* flight between them.                                                    *)
(*                                                                         *)
(* Node runs a handler without interruption up to its next await, so one   *)
(* action is one such stretch.  What a handler does after an await is a    *)
(* record in `dispatch` (an assignment waiting for the worker's reply) or  *)
(* in `cont` (any other suspended handler).  The operators that take a     *)
(* team record `m` are the synchronous helpers that several handlers call. *)
(*                                                                         *)
(* Abstractions.  One role: every worker can take every task, and the      *)
(* choice routeTask makes by keyword score or map order is arbitrary.      *)
(* Workers are external (workerProvisioningType "none"), so the managed    *)
(* worker branches are dead.  Results, errors and prompts carry no text.   *)
(***************************************************************************)
EXTENDS Integers, FiniteSets

CONSTANTS
  Task,        \* task ids; an id is used at most once (generateId)
  Worker,      \* worker ids
  Clar,        \* clarification ids; bounds the clarifications ever asked
  None,        \* stands for `undefined`
  Root,        \* Root[t]: the checkout task t writes (taskWriteRoot), or None
  MaxConcurrentTasks, \* config.maxConcurrentTasks
  MaxResume,   \* MAX_RESUME_ATTEMPTS, 3 in the code
  MaxDispatch, \* bound: assignments awaiting their dispatch at a time
  MaxInFlight, \* bound: attempts of one task on one worker in flight at a time
  MaxCont,     \* bound: handlers suspended at the same time
  MaxNet,      \* bound: worker reports and heartbeats in flight at a time
  Ops,         \* which operator and worker-tool requests a behaviour may contain
  Faults       \* which failures a behaviour may contain

Status == {"pending", "assigned", "in_progress", "review", "blocked", "completed", "failed"}
AllOps == {"clarify", "handoff", "patch", "result", "assign", "delete", "removeWorker"}
AllFaults == {"crash", "lose", "dispatch", "stale", "restart", "reregister"}

ASSUME ConstantsAssumption ==
  /\ None \notin Task \cup Worker \cup Clar
  /\ MaxConcurrentTasks \in Nat
  /\ MaxResume \in Nat
  /\ MaxDispatch \in Nat
  /\ MaxInFlight \in Nat
  /\ MaxCont \in Nat
  /\ MaxNet \in Nat
  /\ Ops \subseteq AllOps
  /\ Faults \subseteq AllFaults

VARIABLES
  task,       \* TeamState.tasks
  worker,     \* TeamState.workers
  clar,       \* TeamState.clarifications
  dispatch,   \* assignTaskToWorker calls awaiting dispatchTaskToWorker
  cont,       \* other handlers suspended at an await
  runs,       \* executions going on in the worker processes
  active,     \* activeTaskId of each worker process
  cancelled,  \* cancelledTaskIds of each worker process
  mail,       \* worker reports on their way to the controller
  beat        \* heartbeats on their way to the controller

vars == <<task, worker, clar, dispatch, cont, runs, active, cancelled, mail, beat>>
teamVars == <<task, worker, dispatch>>
workerVars == <<runs, active, cancelled>>

TaskRec == [status : Status \cup {"unborn", "deleted"}, worker : Worker \cup {None},
            clar : Clar \cup {None}, done : BOOLEAN, resume : 0..MaxResume,
            handed : BOOLEAN]
WorkerRec == [status : {"absent", "idle", "busy", "offline"},
              cur : Task \cup {None}, fresh : BOOLEAN]
ClarRec == [status : {"free", "pending", "answered", "deleted"},
            task : Task \cup {None}, by : Worker \cup {None},
            reason : {"worker", "handoff"}]
Attempt == 1..MaxInFlight   \* tells simultaneous attempts of a pair apart
DispatchRec == [task : Task, worker : Worker, n : Attempt, accepted : BOOLEAN,
                auto : BOOLEAN, tried : SUBSET (Task \X Worker)]
ContRec == [op : {"clarify", "handoff", "answer", "delete", "result"}, task : Task,
            worker : Worker \cup {None}, phase : {"cancelling", "ready"}]
RunRec == [task : Task, worker : Worker, n : Attempt]
\* What a worker reports: the start of a run, and its outcome.  A result is "done"
\* without a contract in its body (the worker submitted it by the tool, or not at
\* all), "inline" with one that does not say blocked, "blocked" with one that does.
Outcome == {"done", "inline", "error", "blocked"}
MailRec == [task : Task, worker : Worker, kind : {"running"} \cup Outcome]
BeatRec == [worker : Worker, cur : Task \cup {None}]

(* Every variable holds what the code can store in it. *)
TypeOK ==
  /\ task \in [Task -> TaskRec]
  /\ worker \in [Worker -> WorkerRec]
  /\ clar \in [Clar -> ClarRec]
  /\ dispatch \subseteq DispatchRec
  /\ cont \subseteq ContRec
  /\ runs \subseteq RunRec
  /\ active \in [Worker -> Task \cup {None}]
  /\ cancelled \in [Worker -> SUBSET Task]
  /\ mail \subseteq MailRec
  /\ beat \subseteq BeatRec

Unborn == [status |-> "unborn", worker |-> None, clar |-> None, done |-> FALSE, resume |-> 0,
           handed |-> FALSE]
Absent == [status |-> "absent", cur |-> None, fresh |-> TRUE]
FreeClar == [status |-> "free", task |-> None, by |-> None, reason |-> "worker"]

\* Room for one more report or heartbeat, and for one more suspended handler.
MaySend == Cardinality(mail) + Cardinality(beat) < MaxNet
MaySuspend == Cardinality(cont) < MaxCont

Init ==
  /\ task = [t \in Task |-> Unborn]
  /\ worker = [w \in Worker |-> Absent]
  /\ clar = [c \in Clar |-> FreeClar]
  /\ dispatch = {}
  /\ cont = {}
  /\ runs = {}
  /\ active = [w \in Worker |-> None]
  /\ cancelled = [w \in Worker |-> {}]
  /\ mail = {}
  /\ beat = {}

-----------------------------------------------------------------------------
(* Synchronous helpers over the team record. *)

Team == [task |-> task, worker |-> worker, dispatch |-> dispatch]
Become(m) ==
  /\ task' = m.task
  /\ worker' = m.worker
  /\ dispatch' = m.dispatch

Exists(ts, t) == t \in Task /\ ts[t].status \in Status
Registered(ws, w) == w # None /\ ws[w].status # "absent"

\* resetTaskForFreshAttempt: completedAt, result and error go; the checkpoint,
\* resumeAttempt and clarificationRequestId stay.
resetTaskForFreshAttempt(k) == [k EXCEPT !.done = FALSE]

unassign(k) == [k EXCEPT !.status = "pending", !.worker = None]

\* The "free the old worker" block every handler repeats.
freeWorker(ws, w) ==
  [v \in Worker |->
    IF v = w /\ Registered(ws, v)
    THEN [ws[v] EXCEPT !.status = IF @ = "offline" THEN "offline" ELSE "idle",
                       !.cur = None]
    ELSE ws[v]]

activeWriteRoots(ts) ==
  {Root[t] : t \in {u \in Task : ts[u].status \in {"assigned", "in_progress"}}} \ {None}

inProgressCount(ts) == Cardinality({t \in Task : ts[t].status = "in_progress"})

\* Numbers an attempt of t on w may get; the code draws a fresh id.
freeAttempts(m, t, w) ==
  Attempt \ {x.n : x \in {y \in m.dispatch : y.task = t /\ y.worker = w}
                     \cup {y \in runs : y.task = t /\ y.worker = w}}

\* The guard of assignTaskToWorker.
canAssign(m, t, w) ==
  /\ m.worker[w].status = "idle"
  /\ \/ m.task[t].status = "pending"
     \/ m.task[t].status = "assigned" /\ m.task[t].worker = w
  /\ Cardinality(m.dispatch) < MaxDispatch /\ freeAttempts(m, t, w) # {}

\* assignTaskToWorker up to the await of dispatchTaskToWorker.
assignTaskToWorker(m, t, w, auto, tried) ==
  [task |-> [m.task EXCEPT ![t] =
              resetTaskForFreshAttempt([@ EXCEPT !.status = "assigned", !.worker = w])],
   worker |-> [m.worker EXCEPT ![w] = [@ EXCEPT !.status = "busy", !.cur = t]],
   dispatch |-> m.dispatch \cup
     {[task |-> t, worker |-> w, n |-> CHOOSE n \in freeAttempts(m, t, w) : TRUE,
       accepted |-> FALSE, auto |-> auto, tried |-> tried]}]

\* Mutant: the filter on tasks that already have a live worker is missing.
candidatesWithOwner(m, tried) ==
  {p \in (Task \X Worker) \ tried :
     /\ m.task[p[1]].status \in {"pending", "assigned"}
     /\ Root[p[1]] \notin activeWriteRoots(m.task) \/ m.task[p[1]].worker = p[2]
     /\ canAssign(m, p[1], p[2])}

\* TaskRouter.autoAssignPendingTasks and the two filters of the caller.  A pair
\* the guard of assignTaskToWorker refuses is skipped without an await, so only
\* the pairs it accepts are kept.
candidateAssignments(m, tried) ==
  {p \in (Task \X Worker) \ tried :
     /\ m.task[p[1]].status \in {"pending", "assigned"}
     /\ ~Registered(m.worker, m.task[p[1]].worker)
     /\ Root[p[1]] \notin activeWriteRoots(m.task)
     /\ canAssign(m, p[1], p[2])}

\* One turn of the loop in autoAssignPendingTasks, up to its await: the set of
\* the team records it may leave.
autoAssignPendingTasks(m, tried) ==
  LET pairs == candidateAssignments(m, tried)
  IN  IF inProgressCount(m.task) >= MaxConcurrentTasks \/ pairs = {}
      THEN {m}
      ELSE {assignTaskToWorker(m, p[1], p[2], TRUE, tried \cup {p}) : p \in pairs}

\* routeTask followed by assignTaskToWorker, as handoff and answer do: an idle
\* worker in `pool` is taken whatever the write roots and the concurrency are.
routeAndAssign(m, t, pool) ==
  LET able == {w \in pool : canAssign(m, t, w)}
  IN  IF able = {} THEN {m}
      ELSE {assignTaskToWorker(m, t, w, FALSE, {}) : w \in able}

\* Mutant: the fence against a second outcome is missing.
acceptAfterOutcome(t, w) ==
  task[t].worker = w /\ task[t].status \in Status \ {"pending", "blocked"}

canAcceptWorkerUpdate(t, w) ==
  /\ task[t].worker = w
  /\ ~task[t].done
  /\ task[t].status \in {"assigned", "in_progress", "review", "completed", "failed"}

\* applyTaskResult before its fire-and-forget calls.
settle(m, t, kind) ==
  [task |-> [m.task EXCEPT ![t] =
     [@ EXCEPT !.status = IF kind = "error" THEN "failed" ELSE "completed", !.done = TRUE]],
   worker |-> freeWorker(m.worker, m.task[t].worker),
   dispatch |-> m.dispatch]

\* applyTaskResult starts autoAssignPendingTasks only when a worker is assigned.
applyTaskResult(m, t, kind) ==
  LET settled == settle(m, t, kind)
  IN  IF m.task[t].worker = None THEN {settled} ELSE autoAssignPendingTasks(settled, {})

\* revertTaskAssignment; the status of the task is not consulted.
revertTaskAssignment(m, t, w) ==
  [task |-> IF Exists(m.task, t) /\ m.task[t].worker = w
            THEN [m.task EXCEPT ![t] = unassign(@)] ELSE m.task,
   worker |-> IF Exists(m.task, t) /\ m.worker[w].cur = t
              THEN freeWorker(m.worker, w) ELSE m.worker,
   dispatch |-> m.dispatch]

-----------------------------------------------------------------------------
(* Tasks and workers come and go. *)

CreateTask(t) ==
  /\ task[t].status = "unborn"
  /\ \E m \in autoAssignPendingTasks([Team EXCEPT !.task = [@ EXCEPT ![t].status = "pending"]], {}) :
       Become(m)
  /\ UNCHANGED <<clar, cont, workerVars, mail, beat>>

\* POST /workers/register overwrites whatever record the id had.
RegisterWorker(w) ==
  /\ worker[w].status = "absent" \/ "reregister" \in Faults
  /\ \E m \in autoAssignPendingTasks(
                [Team EXCEPT !.worker[w] =
                   [status |-> "idle", cur |-> None, fresh |-> TRUE]], {}) :
       Become(m)
  /\ UNCHANGED <<clar, cont, workerVars, mail, beat>>

\* DELETE /workers/:id, sent by a worker that stops or clears its identity.
RemoveWorker(w) ==
  /\ "removeWorker" \in Ops
  /\ worker[w].status # "absent"
  /\ LET orphan(k) == k.worker = w
                      /\ k.status \in {"pending", "assigned", "in_progress", "review"}
     IN  \E m \in autoAssignPendingTasks(
                   [Team EXCEPT
                     !.worker[w] = Absent,
                     !.task = [t \in Task |->
                       IF orphan(task[t]) THEN resetTaskForFreshAttempt(unassign(task[t]))
                       ELSE task[t]]], {}) :
           Become(m)
  /\ UNCHANGED <<clar, cont, workerVars, mail, beat>>

\* The worker's heartbeat timer; at most one heartbeat of a worker is in flight.
SendHeartbeat(w) ==
  /\ ~\E b \in beat : b.worker = w
  /\ MaySend
  /\ beat' = beat \cup {[worker |-> w, cur |-> active[w]]}
  /\ UNCHANGED <<teamVars, clar, cont, workerVars, mail>>

\* POST /workers/:id/heartbeat: the record takes the reported status as it is.
Heartbeat(b) ==
  /\ b \in beat
  /\ beat' = beat \ {b}
  /\ LET reported == IF worker[b.worker].status = "absent" THEN worker
                     ELSE [worker EXCEPT ![b.worker] =
                            [status |-> IF b.cur = None THEN "idle" ELSE "busy",
                             cur |-> b.cur, fresh |-> TRUE]]
         m0 == [Team EXCEPT !.worker = reported]
     IN  \E m \in (IF b.cur = None THEN autoAssignPendingTasks(m0, {}) ELSE {m0}) : Become(m)
  /\ UNCHANGED <<clar, cont, workerVars, mail>>

\* WORKER_TIMEOUT_MS passes without a heartbeat of w.
GoStale(w) ==
  /\ "stale" \in Faults
  /\ worker[w].status # "absent" /\ worker[w].fresh
  /\ worker' = [worker EXCEPT ![w] = [@ EXCEPT !.fresh = FALSE]]
  /\ UNCHANGED <<task, dispatch, clar, cont, workerVars, mail, beat>>

\* One run of the 15 s timeout timer, over all workers.
TimeoutTick ==
  LET stale == {w \in Worker : worker[w].status # "absent" /\ ~worker[w].fresh}
      timedOut == {w \in stale : worker[w].status # "offline"}
      lost(t) == \E w \in timedOut :
                   /\ worker[w].cur = t
                   /\ task[t].worker = w
                   /\ task[t].status \in {"pending", "assigned", "in_progress", "review"}
  IN  /\ stale # {}
      /\ worker' = [w \in Worker |->
           IF w \in timedOut THEN [worker[w] EXCEPT !.status = "offline", !.cur = None]
           ELSE IF w \in stale THEN Absent ELSE worker[w]]
      /\ task' = [t \in Task |->
           IF lost(t) THEN unassign(task[t]) ELSE task[t]]
      /\ UNCHANGED <<dispatch, clar, cont, workerVars, mail, beat>>

-----------------------------------------------------------------------------
(* Dispatch and execution. *)

\* The worker's POST /tasks/assign handler: it never refuses, starts the
\* executor and reports that the run started.
WorkerAccepts(d) ==
  /\ d \in dispatch /\ ~d.accepted
  /\ MaySend
  /\ dispatch' = (dispatch \ {d}) \cup {[d EXCEPT !.accepted = TRUE]}
  /\ runs' = runs \cup {[task |-> d.task, worker |-> d.worker, n |-> d.n]}
  /\ active' = [active EXCEPT ![d.worker] = d.task]
  /\ cancelled' = [cancelled EXCEPT ![d.worker] = @ \ {d.task}]
  /\ mail' = mail \cup {[task |-> d.task, worker |-> d.worker, kind |-> "running"]}
  /\ UNCHANGED <<task, worker, clar, cont, beat>>

\* The dispatch returns; an auto-assign loop takes its next turn.
DispatchSucceeds(d) ==
  /\ d \in dispatch /\ d.accepted
  /\ LET m0 == [Team EXCEPT !.dispatch = @ \ {d}]
     IN  \E m \in (IF d.auto THEN autoAssignPendingTasks(m0, d.tried) ELSE {m0}) : Become(m)
  /\ UNCHANGED <<clar, cont, workerVars, mail, beat>>

\* The dispatch throws, before or after the worker took the task: the assignment
\* is reverted, a new auto-assign loop starts, and the loop that made the
\* assignment takes its next turn.
DispatchFails(d) ==
  /\ "dispatch" \in Faults
  /\ d \in dispatch
  /\ LET reverted == revertTaskAssignment([Team EXCEPT !.dispatch = @ \ {d}], d.task, d.worker)
         again == IF Exists(task, d.task) THEN autoAssignPendingTasks(reverted, {})
                  ELSE {reverted}
     IN  \E m1 \in again :
           \E m \in (IF d.auto THEN autoAssignPendingTasks(m1, d.tried) ELSE {m1}) : Become(m)
  /\ UNCHANGED <<clar, cont, workerVars, mail, beat>>

\* A behaviour without handoffs needs no inline contracts: they change nothing there.
mayReport(kind) ==
  /\ kind = "blocked" => "clarify" \in Ops
  /\ kind = "inline" => "handoff" \in Ops

\* Mutant: the outcome of a run is reported only if the worker still works on it.
RunEndsIfActive(r, kind) ==
  /\ r \in runs
  /\ mayReport(kind)
  /\ MaySend
  /\ runs' = runs \ {r}
  /\ active' = [active EXCEPT ![r.worker] = None]
  /\ mail' = IF active[r.worker] # r.task THEN mail
             ELSE mail \cup {[task |-> r.task, worker |-> r.worker, kind |-> kind]}
  /\ UNCHANGED <<teamVars, clar, cont, cancelled, beat>>

\* The executor of run r returns or throws; a cancelled task is not reported.
RunEnds(r, kind) ==
  /\ r \in runs
  /\ mayReport(kind)
  /\ MaySend
  /\ runs' = runs \ {r}
  /\ active' = [active EXCEPT ![r.worker] = None]
  /\ mail' = IF r.task \in cancelled[r.worker] THEN mail
             ELSE mail \cup {[task |-> r.task, worker |-> r.worker, kind |-> kind]}
  /\ UNCHANGED <<teamVars, clar, cont, cancelled, beat>>

\* POST /tasks/:id/execution with status "running".
ReceiveRunning(x) ==
  /\ x \in mail /\ x.kind = "running"
  /\ mail' = mail \ {x}
  /\ task' = IF canAcceptWorkerUpdate(x.task, x.worker) /\ task[x.task].status = "assigned"
             THEN [task EXCEPT ![x.task] = [@ EXCEPT !.status = "in_progress"]]
             ELSE task
  /\ UNCHANGED <<worker, dispatch, clar, cont, workerVars, beat>>

\* buildEffectiveTaskResultContract: a result whose body has no contract gets one
\* made up, which says "blocked" when the task was ever handed off.
saysBlocked(t, kind) == kind = "blocked" \/ (kind = "done" /\ task[t].handed)

\* Mutant: an outcome that overtakes the report of the start is refused.
ReceiveResultInOrder(x) ==
  /\ x \in mail /\ x.kind \in Outcome /\ ~saysBlocked(x.task, x.kind)
  /\ mail' = mail \ {x}
  /\ \E m \in (IF canAcceptWorkerUpdate(x.task, x.worker) /\ task[x.task].status # "assigned"
               THEN applyTaskResult(Team, x.task, x.kind) ELSE {Team}) : Become(m)
  /\ UNCHANGED <<clar, cont, workerVars, beat>>

\* POST /tasks/:id/result with a workerId.
ReceiveResult(x) ==
  /\ x \in mail /\ x.kind \in Outcome /\ ~saysBlocked(x.task, x.kind)
  /\ mail' = mail \ {x}
  /\ \E m \in (IF canAcceptWorkerUpdate(x.task, x.worker)
               THEN applyTaskResult(Team, x.task, x.kind) ELSE {Team}) : Become(m)
  /\ UNCHANGED <<clar, cont, workerVars, beat>>

LoseMail(x) ==
  /\ "lose" \in Faults
  /\ x \in mail
  /\ mail' = mail \ {x}
  /\ UNCHANGED <<teamVars, clar, cont, workerVars, beat>>

\* The worker process dies and comes back with its saved identity.
WorkerCrash(w) ==
  /\ "crash" \in Faults
  /\ \E r \in runs : r.worker = w
  /\ runs' = {r \in runs : r.worker # w}
  /\ active' = [active EXCEPT ![w] = None]
  /\ cancelled' = [cancelled EXCEPT ![w] = {}]
  /\ UNCHANGED <<teamVars, clar, cont, mail, beat>>

-----------------------------------------------------------------------------
(* Clarifications. *)

AlreadyPending(t) ==
  /\ task[t].clar # None
  /\ clar[task[t].clar].status = "pending"

\* A handler suspended in cancelTaskExecution(t, w), or past it at once when the
\* worker has no record.
Suspend(op, t, w) ==
  [op |-> op, task |-> t, worker |-> w,
   phase |-> IF Registered(worker, w) THEN "cancelling" ELSE "ready"]

\* Mutant: the blocked task keeps its worker.
requestKeepingWorker(t, by, reason) ==
  /\ Exists(task, t)
  /\ ~AlreadyPending(t)
  /\ task[t].status \notin {"completed", "failed"}
  /\ \E c \in Clar :
       /\ clar[c].status = "free"
       /\ clar' = [clar EXCEPT ![c] = [status |-> "pending", task |-> t, by |-> by,
                                      reason |-> reason]]
       /\ task' = [task EXCEPT ![t] = [@ EXCEPT !.status = "blocked", !.clar = c]]
  /\ UNCHANGED <<worker, dispatch, cont>>

\* requestTaskClarification, the branch that creates one.
requestTaskClarification(t, by, reason) ==
  /\ Exists(task, t)
  /\ ~AlreadyPending(t)
  /\ task[t].status \notin {"completed", "failed"}
  /\ MaySuspend
  /\ \E c \in Clar :
       /\ clar[c].status = "free"
       /\ clar' = [clar EXCEPT ![c] = [status |-> "pending", task |-> t, by |-> by,
                                      reason |-> reason]]
       /\ task' = [task EXCEPT ![t] =
                    [@ EXCEPT !.status = "blocked", !.worker = None, !.clar = c]]
  /\ worker' = freeWorker(worker, task[t].worker)
  /\ cont' = IF Registered(worker, task[t].worker)
             THEN cont \cup {Suspend("clarify", t, task[t].worker)} ELSE cont
  /\ UNCHANGED dispatch

\* The teamclaw_request_clarification tool of run r.
RequestClarification(r) ==
  /\ "clarify" \in Ops
  /\ r \in runs
  /\ requestTaskClarification(r.task, r.worker, "worker")
  /\ UNCHANGED <<workerVars, mail, beat>>

\* The rest of POST /tasks/:id/result when the contract says "blocked".  Where the
\* question is already pending or the task settled, an inline contract still
\* leaves the trace of its "running" event.
reportBlocked(t, by, kind) ==
  \/ requestTaskClarification(t, by, IF kind = "blocked" THEN "worker" ELSE "handoff")
  \/ /\ AlreadyPending(t) \/ task[t].status \in {"completed", "failed"}
     /\ task' = IF kind = "blocked" /\ task[t].status \in {"pending", "assigned"}
                THEN [task EXCEPT ![t] = [@ EXCEPT !.status = "in_progress"]] ELSE task
     /\ UNCHANGED <<worker, dispatch, clar, cont>>

ReceiveBlocked(x) ==
  /\ x \in mail /\ saysBlocked(x.task, x.kind)
  /\ mail' = mail \ {x}
  /\ \/ canAcceptWorkerUpdate(x.task, x.worker) /\ reportBlocked(x.task, x.worker, x.kind)
     \/ ~canAcceptWorkerUpdate(x.task, x.worker) /\ UNCHANGED <<teamVars, clar, cont>>
  /\ UNCHANGED <<workerVars, beat>>

\* POST /clarifications/:id/answer up to the delivery of the answer message.
AnswerClarification(c) ==
  /\ clar[c].status = "pending"
  /\ MaySuspend
  /\ clar' = [clar EXCEPT ![c] = [@ EXCEPT !.status = "answered"]]
  /\ LET t == clar[c].task
     IN  IF Exists(task, t)
         THEN /\ task' = [task EXCEPT ![t] = resetTaskForFreshAttempt(
                           [@ EXCEPT !.status = "pending", !.clar = None])]
              /\ cont' = cont \cup {[op |-> "answer", task |-> t, worker |-> clar[c].by,
                                     phase |-> "ready"]}
         ELSE UNCHANGED <<task, cont>>
  /\ UNCHANGED <<worker, dispatch, workerVars, mail, beat>>

\* The rest of it: back to the worker that asked if it is idle, else routeTask.
ResumeAfterAnswer(k) ==
  /\ k \in cont /\ k.op = "answer"
  /\ cont' = cont \ {k}
  /\ LET pool == IF k.worker # None /\ worker[k.worker].status = "idle"
                 THEN {k.worker} ELSE Worker
     IN  \E m \in routeAndAssign(Team, k.task, pool) : Become(m)
  /\ UNCHANGED <<clar, workerVars, mail, beat>>

-----------------------------------------------------------------------------
(* Requests of operators and of the workers' tools. *)

\* POST /tasks/:id/handoff up to the await of cancelTaskExecution.
Handoff(t) ==
  /\ "handoff" \in Ops
  /\ Exists(task, t)
  /\ MaySuspend
  /\ LET prev == task[t].worker
         freed == [task |-> [task EXCEPT ![t] =
                     [resetTaskForFreshAttempt(unassign(task[t])) EXCEPT !.handed = TRUE]],
                   worker |-> freeWorker(worker, prev),
                   dispatch |-> dispatch]
     IN  IF Registered(worker, prev)
         THEN /\ Become(freed)
              /\ cont' = cont \cup {Suspend("handoff", t, prev)}
         ELSE /\ \E m \in routeAndAssign(freed, t, Worker) : Become(m)
              /\ UNCHANGED cont
  /\ UNCHANGED <<clar, workerVars, mail, beat>>

FinishHandoff(k) ==
  /\ k \in cont /\ k.op = "handoff" /\ k.phase = "ready"
  /\ cont' = cont \ {k}
  /\ \E m \in routeAndAssign(Team, k.task, Worker) : Become(m)
  /\ UNCHANGED <<clar, workerVars, mail, beat>>

\* PATCH /tasks/:id by the teamclaw_report_progress tool of run r: the status is
\* stored without asking who owns the task or how it stands.
PatchTask(r, status) ==
  /\ "patch" \in Ops
  /\ r \in runs
  /\ Exists(task, r.task)
  /\ task' = [task EXCEPT ![r.task] = [@ EXCEPT !.status = status]]
  /\ UNCHANGED <<worker, dispatch, clar, cont, workerVars, mail, beat>>

\* POST /tasks/:id/assign: no write root and no concurrency limit is looked at.
ManualAssign(t, w) ==
  /\ "assign" \in Ops
  /\ canAssign(Team, t, w)
  /\ Become(assignTaskToWorker(Team, t, w, FALSE, {}))
  /\ UNCHANGED <<clar, cont, workerVars, mail, beat>>

\* POST /tasks/:id/result without a workerId, then the cancel of the old worker.
ManualResult(t, kind) ==
  /\ "result" \in Ops
  /\ Exists(task, t)
  /\ ~saysBlocked(t, kind)
  /\ MaySuspend
  /\ \E m \in applyTaskResult(Team, t, kind) : Become(m)
  /\ cont' = IF Registered(worker, task[t].worker)
             THEN cont \cup {Suspend("result", t, task[t].worker)} ELSE cont
  /\ UNCHANGED <<clar, workerVars, mail, beat>>

ManualBlocked(t, kind) ==
  /\ "result" \in Ops
  /\ Exists(task, t)
  /\ saysBlocked(t, kind)
  /\ reportBlocked(t, None, kind)
  /\ UNCHANGED <<workerVars, mail, beat>>

\* deleteTaskCascade up to its first await.
DeleteTask(t) ==
  /\ "delete" \in Ops
  /\ Exists(task, t)
  /\ MaySuspend
  /\ cont' = cont \cup {Suspend("delete", t, task[t].worker)}
  /\ UNCHANGED <<teamVars, clar, workerVars, mail, beat>>

\* Mutant: the cascade forgets the clarifications.
FinishDeleteTaskOnly(k) ==
  /\ k \in cont /\ k.op = "delete" /\ k.phase = "ready"
  /\ cont' = cont \ {k}
  /\ task' = [task EXCEPT ![k.task] = [Unborn EXCEPT !.status = "deleted"]]
  /\ UNCHANGED <<clar, worker, dispatch, workerVars, mail, beat>>

\* deleteTaskCascade after the previews stopped; no worker record is freed.
FinishDelete(k) ==
  /\ k \in cont /\ k.op = "delete" /\ k.phase = "ready"
  /\ cont' = cont \ {k}
  /\ task' = [task EXCEPT ![k.task] = [Unborn EXCEPT !.status = "deleted"]]
  /\ clar' = [c \in Clar |-> IF clar[c].task = k.task
                             THEN [FreeClar EXCEPT !.status = "deleted"] ELSE clar[c]]
  /\ UNCHANGED <<worker, dispatch, workerVars, mail, beat>>

\* What a suspended handler becomes when its cancel call returned.
Resumed(k) ==
  (cont \ {k}) \cup (IF k.op \in {"handoff", "delete"} THEN {[k EXCEPT !.phase = "ready"]} ELSE {})

\* The worker's POST /tasks/:id/cancel handler marks the task if it is active.
CancelDelivered(k) ==
  /\ k \in cont /\ k.phase = "cancelling"
  /\ cont' = Resumed(k)
  /\ cancelled' = IF active[k.worker] = k.task
                  THEN [cancelled EXCEPT ![k.worker] = @ \cup {k.task}] ELSE cancelled
  /\ UNCHANGED <<teamVars, clar, runs, active, mail, beat>>

CancelFails(k) ==
  /\ "lose" \in Faults
  /\ k \in cont /\ k.phase = "cancelling"
  /\ cont' = Resumed(k)
  /\ UNCHANGED <<teamVars, clar, workerVars, mail, beat>>

-----------------------------------------------------------------------------
\* Mutant: the resume limit is compared before the attempt is counted.
RestartOnceMore ==
  /\ "restart" \in Faults
  /\ dispatch' = {}
  /\ cont' = {}
  /\ task' = [t \in Task |->
       IF /\ task[t].worker # None
          /\ task[t].status \in {"assigned", "in_progress"}
          /\ worker[task[t].worker].status \in {"absent", "offline"}
          /\ task[t].resume <= MaxResume
       THEN [unassign(task[t]) EXCEPT !.resume = @ + 1]
       ELSE task[t]]
  /\ UNCHANGED <<worker, clar, workerVars, mail, beat>>

\* The controller process stops and starts again: suspended handlers are gone,
\* and tasks held by a missing or offline worker are resumed or failed.
Restart ==
  /\ "restart" \in Faults
  /\ dispatch' = {}
  /\ cont' = {}
  /\ LET orphan(k) == /\ k.worker # None
                      /\ k.status \in {"assigned", "in_progress"}
                      /\ worker[k.worker].status \in {"absent", "offline"}
     IN  task' = [t \in Task |->
           IF ~orphan(task[t]) THEN task[t]
           ELSE IF task[t].resume + 1 > MaxResume THEN [task[t] EXCEPT !.status = "failed"]
           ELSE [unassign(task[t]) EXCEPT !.resume = @ + 1]]
  /\ UNCHANGED <<worker, clar, workerVars, mail, beat>>

Next ==
  \/ \E t \in Task : CreateTask(t) \/ Handoff(t) \/ DeleteTask(t)
  \/ \E t \in Task, kind \in Outcome : ManualResult(t, kind) \/ ManualBlocked(t, kind)
  \/ \E t \in Task, w \in Worker : ManualAssign(t, w)
  \/ \E w \in Worker : RegisterWorker(w) \/ RemoveWorker(w) \/ SendHeartbeat(w)
                       \/ GoStale(w) \/ WorkerCrash(w)
  \/ \E b \in beat : Heartbeat(b)
  \/ \E d \in dispatch : WorkerAccepts(d) \/ DispatchSucceeds(d) \/ DispatchFails(d)
  \/ \E r \in runs : RequestClarification(r)
  \/ \E r \in runs, kind \in Outcome : RunEnds(r, kind)
  \/ \E r \in runs, status \in {"in_progress", "review"} : PatchTask(r, status)
  \/ \E x \in mail : ReceiveRunning(x) \/ ReceiveResult(x) \/ ReceiveBlocked(x) \/ LoseMail(x)
  \/ \E c \in Clar : AnswerClarification(c)
  \/ \E k \in cont : ResumeAfterAnswer(k) \/ FinishHandoff(k) \/ FinishDelete(k)
                     \/ CancelDelivered(k) \/ CancelFails(k)
  \/ TimeoutTick
  \/ Restart

Spec == Init /\ [][Next]_vars

-----------------------------------------------------------------------------
(* Safety. *)

\* A blocked task waits for an answer that can still come: its clarification is
\* recorded, pending and about it, and no worker holds the task meanwhile.
\* requestTaskClarification, the answer handler, handoff, revert and the
\* cascade all write one half of this relation.
BlockedAwaitsAnswer ==
  \A t \in Task : task[t].status = "blocked" =>
    /\ task[t].worker = None
    /\ task[t].clar # None
    /\ clar[task[t].clar].status = "pending"
    /\ clar[task[t].clar].task = t

\* The question shown to the human is the one its task knows: a pending
\* clarification belongs to an existing task whose clarificationRequestId is it.
\* So a task has one open question at most and no answer goes to a deleted task,
\* although handoff and manual results leave clarificationRequestId behind.
PendingClarificationIsCurrent ==
  \A c \in Clar : clar[c].status = "pending" =>
    /\ clar[c].task # None
    /\ Exists(task, clar[c].task)
    /\ task[clar[c].task].clar = c

\* The requests that open a path on which neither write roots nor the concurrency
\* limit are looked at; a manual result can raise a question, and its answer assigns.
BypassOps == {"clarify", "handoff", "patch", "assign", "result"}

\* At most one active write task per repository checkout: the filter of
\* autoAssignPendingTasks is evaluated in the same stretch as the assignment, so
\* concurrent loops, reverts, timeouts and restarts cannot let a second one in.
OneWriterPerRoot ==
  \A t, u \in Task :
    /\ t # u
    /\ Root[t] # None
    /\ {task[t].status, task[u].status} \subseteq {"assigned", "in_progress"}
    => Root[t] # Root[u]

\* No task is lost silently: as long as nothing fails, a task held by a worker
\* is being dispatched to it, executed by it, or reported by it.
AssignedHasCarrier ==
  \A t \in Task : task[t].status \in {"assigned", "in_progress"} =>
    LET carries(x) == x.task = t /\ x.worker = task[t].worker
    IN  \/ \E d \in dispatch : carries(d) /\ ~d.accepted
        \/ \E r \in runs : carries(r)
        \/ \E x \in mail : carries(x) /\ x.kind # "running"

\* While nothing fails and nobody interferes a task is executed by one worker,
\* once, although heartbeats sent before an assignment arrive after it.
ExecutedOnce ==
  \A r1, r2 \in runs : r1.task = r2.task => r1 = r2

\* A recorded outcome is final: without operators, crashes, lost or late reports,
\* timeouts and restarts leave a settled task alone.  The one exception in the
\* code is the revert of a dispatch to that worker whose reply is still awaited.
Settled(t) == task[t].done /\ task[t].status \in {"completed", "failed"}
SettledIsFinal ==
  [][\A t \in Task : Settled(t) /\ task'[t] # task[t] =>
       \E d \in dispatch : d.task = t /\ d.worker = task[t].worker]_vars

-----------------------------------------------------------------------------
(* Liveness. *)

\* A dispatch, an execution and a request in flight come to an end, and the
\* heartbeat timer keeps firing.  Nothing is assumed of operators.
Fairness ==
  /\ \A w \in Worker : WF_vars(SendHeartbeat(w)) /\ WF_vars(RegisterWorker(w))
  /\ WF_vars(\E b \in beat : Heartbeat(b))
  /\ WF_vars(\E d \in dispatch : WorkerAccepts(d))
  /\ WF_vars(\E d \in dispatch : DispatchSucceeds(d))
  /\ WF_vars(\E r \in runs, kind \in {"done", "error"} : RunEnds(r, kind))
  /\ WF_vars(\E x \in mail : ReceiveRunning(x))
  /\ WF_vars(\E x \in mail : ReceiveResult(x))

FairSpec == Spec /\ Fairness

\* Every task that is created is eventually completed or failed, when nothing
\* fails: a worker marked busy by a late heartbeat becomes idle again and takes
\* the tasks that waited for it, for the write root or for the limit.
EveryTaskSettles ==
  \A t \in Task : task[t].status = "pending" ~> task[t].status \in {"completed", "failed"}
=============================================================================
