------------------------ MODULE TaskLifecycle_proofs ------------------------
(***************************************************************************)
(* What TLAPS proves of TaskLifecycle, for every set of tasks, workers and *)
(* clarifications, every assignment of write roots, every limit and every  *)
(* choice of requests and failures that a theorem does not exclude.        *)
(*                                                                         *)
(* The handlers change the team through the same few helpers, so each      *)
(* proof has a lemma per helper and then a step per action.                *)
(***************************************************************************)
EXTENDS TaskLifecycle, TLAPS

-----------------------------------------------------------------------------
(* Types of the helpers over the team record. *)

Pairs == Task \X Worker
TeamRec == [task : [Task -> TaskRec], worker : [Worker -> WorkerRec],
            dispatch : SUBSET DispatchRec]

\* The changes that the handlers make to a task leave a task.
LEMMA StatusChange ==
  ASSUME NEW k \in TaskRec, NEW s \in Status
  PROVE  [k EXCEPT !.status = s] \in TaskRec
  BY DEF TaskRec
LEMMA HolderChange ==
  ASSUME NEW k \in TaskRec, NEW s \in Status, NEW w \in Worker \cup {None}
  PROVE  [k EXCEPT !.status = s, !.worker = w] \in TaskRec
  BY DEF TaskRec
LEMMA OutcomeChange ==
  ASSUME NEW k \in TaskRec, NEW s \in Status
  PROVE  [k EXCEPT !.status = s, !.done = TRUE] \in TaskRec
  BY DEF TaskRec
LEMMA QuestionChange ==
  ASSUME NEW k \in TaskRec, NEW s \in Status, NEW w \in Worker \cup {None},
         NEW c \in Clar \cup {None}
  PROVE  [k EXCEPT !.status = s, !.worker = w, !.clar = c] \in TaskRec
  BY DEF TaskRec
LEMMA Statuses ==
  /\ "pending" \in Status /\ "assigned" \in Status /\ "in_progress" \in Status
  /\ "review" \in Status /\ "blocked" \in Status
  /\ "completed" \in Status /\ "failed" \in Status
  BY DEF Status

\* A fresh attempt of a task is a task.
LEMMA ResetType == ASSUME NEW k \in TaskRec PROVE resetTaskForFreshAttempt(k) \in TaskRec
  BY DEF resetTaskForFreshAttempt, TaskRec

\* So is a task taken from its worker.
LEMMA UnassignType == ASSUME NEW k \in TaskRec PROVE unassign(k) \in TaskRec
  BY DEF unassign, TaskRec, Status

\* Freeing a worker leaves worker records.
LEMMA FreeType ==
  ASSUME NEW ws \in [Worker -> WorkerRec], NEW w
  PROVE  freeWorker(ws, w) \in [Worker -> WorkerRec]
<1>1. ASSUME NEW v \in Worker, NEW s \in {"offline", "idle"}
      PROVE  [ws[v] EXCEPT !.status = s, !.cur = None] \in WorkerRec
  BY DEF WorkerRec
<1> DEFINE g(v) == IF v = w /\ Registered(ws, v)
                   THEN [ws[v] EXCEPT !.status = IF @ = "offline" THEN "offline" ELSE "idle",
                                      !.cur = None]
                   ELSE ws[v]
<1>2. \A v \in Worker : g(v) \in WorkerRec
  BY <1>1
<1>3. freeWorker(ws, w) = [v \in Worker |-> g(v)]
  BY DEF freeWorker
<1> HIDE DEF g
<1> QED
  BY <1>2, <1>3

\* It neither lists a worker nor takes one off the list, nor is it heard of.
LEMMA FreeKeeps ==
  ASSUME NEW ws \in [Worker -> WorkerRec], NEW w, NEW v \in Worker,
         NEW us, us = freeWorker(ws, w)
  PROVE  /\ us[v].fresh = ws[v].fresh
         /\ us[v].status = "offline" => ws[v].status = "offline"
         /\ us[v].status = "absent" => ws[v].status = "absent"
<1>1. ws[v] \in WorkerRec
  OBVIOUS
<1>2. CASE v = w /\ Registered(ws, v)
  <2>1. us[v] = [ws[v] EXCEPT !.status = IF ws[v].status = "offline" THEN "offline" ELSE "idle",
                              !.cur = None]
    BY <1>2 DEF freeWorker
  <2>2. us[v].fresh = ws[v].fresh
        /\ us[v].status = IF ws[v].status = "offline" THEN "offline" ELSE "idle"
    BY <1>1, <2>1 DEF WorkerRec
  <2> QED
    BY <2>2
<1>3. CASE ~(v = w /\ Registered(ws, v))
  BY <1>3 DEF freeWorker
<1> QED
  BY <1>2, <1>3

\* An assignment that has a free attempt number leaves a team.
LEMMA AssignType ==
  ASSUME NEW m \in TeamRec, NEW t \in Task, NEW w \in Worker, NEW auto \in BOOLEAN,
         NEW tried \in SUBSET Pairs, freeAttempts(m, t, w) # {}
  PROVE  assignTaskToWorker(m, t, w, auto, tried) \in TeamRec
<1> DEFINE n == CHOOSE i \in freeAttempts(m, t, w) : TRUE
<1> DEFINE k == [m.task[t] EXCEPT !.status = "assigned", !.worker = w]
<1>1. n \in Attempt
  BY DEF freeAttempts
<1>2. k \in TaskRec
  <2>1. m.task[t] \in TaskRec
    BY DEF TeamRec
  <2>2. w \in Worker \cup {None} /\ "assigned" \in Status
    BY Statuses
  <2> QED
    BY <2>1, <2>2, HolderChange, Zenon
<1>3. resetTaskForFreshAttempt(k) \in TaskRec
  BY <1>2, ResetType
<1>4. [m.task EXCEPT ![t] = resetTaskForFreshAttempt(k)] \in [Task -> TaskRec]
  BY <1>3 DEF TeamRec
<1>5. [m.worker EXCEPT ![w] = [@ EXCEPT !.status = "busy", !.cur = t]] \in [Worker -> WorkerRec]
  BY DEF TeamRec, WorkerRec
<1>6. [task |-> t, worker |-> w, n |-> n, accepted |-> FALSE, auto |-> auto, tried |-> tried]
        \in DispatchRec
  BY <1>1 DEF DispatchRec, Pairs
<1> QED
  BY <1>4, <1>5, <1>6 DEF assignTaskToWorker, TeamRec

\* Whatever an auto-assign turn does, it leaves a team.
LEMMA AutoType ==
  ASSUME NEW m \in TeamRec, NEW tried \in SUBSET Pairs,
         NEW x \in autoAssignPendingTasks(m, tried)
  PROVE  x \in TeamRec
<1>1. ASSUME NEW p \in candidateAssignments(m, tried)
      PROVE  assignTaskToWorker(m, p[1], p[2], TRUE, tried \cup {p}) \in TeamRec
  <2>1. p \in Pairs /\ p[1] \in Task /\ p[2] \in Worker /\ freeAttempts(m, p[1], p[2]) # {}
    BY DEF candidateAssignments, canAssign, Pairs
  <2>2. tried \cup {p} \in SUBSET Pairs
    BY <2>1
  <2> QED
    BY <2>1, <2>2, AssignType
<1> QED
  BY <1>1 DEF autoAssignPendingTasks

\* routeTask followed by an assignment leaves a team.
LEMMA RouteType ==
  ASSUME NEW m \in TeamRec, NEW t \in Task, NEW pool \in SUBSET Worker,
         NEW x \in routeAndAssign(m, t, pool)
  PROVE  x \in TeamRec
<1>1. ASSUME NEW w \in pool, canAssign(m, t, w)
      PROVE  assignTaskToWorker(m, t, w, FALSE, {}) \in TeamRec
  BY <1>1, AssignType DEF canAssign
<1> QED
  BY <1>1 DEF routeAndAssign

\* Recording an outcome leaves a team.
LEMMA SettleType ==
  ASSUME NEW m \in TeamRec, NEW t \in Task, NEW kind
  PROVE  settle(m, t, kind) \in TeamRec
<1>1. freeWorker(m.worker, m.task[t].worker) \in [Worker -> WorkerRec]
  BY FreeType DEF TeamRec
<1> DEFINE s == IF kind = "error" THEN "failed" ELSE "completed"
<1>2. s \in Status
  BY DEF Status
<1> HIDE DEF s
<1>3. [m.task EXCEPT ![t] = [@ EXCEPT !.status = s, !.done = TRUE]] \in [Task -> TaskRec]
  <2>1. m.task \in [Task -> TaskRec] /\ m.task[t] \in TaskRec
    BY DEF TeamRec
  <2>2. [m.task[t] EXCEPT !.status = s, !.done = TRUE] \in TaskRec
    BY <1>2, <2>1, OutcomeChange, Zenon
  <2> QED
    BY <2>1, <2>2
<1> USE DEF s
<1> QED
  BY <1>1, <1>3 DEF settle, TeamRec

\* So does recording it and starting the auto-assign loop.
LEMMA ApplyType ==
  ASSUME NEW m \in TeamRec, NEW t \in Task, NEW kind, NEW x \in applyTaskResult(m, t, kind)
  PROVE  x \in TeamRec
<1>1. settle(m, t, kind) \in TeamRec
  BY SettleType
<1>2. {} \in SUBSET Pairs
  OBVIOUS
<1> QED
  BY <1>1, <1>2, AutoType DEF applyTaskResult

\* Reverting an assignment leaves a team.
LEMMA RevertType ==
  ASSUME NEW m \in TeamRec, NEW t \in Task, NEW w \in Worker
  PROVE  revertTaskAssignment(m, t, w) \in TeamRec
<1>1. freeWorker(m.worker, w) \in [Worker -> WorkerRec]
  BY FreeType DEF TeamRec
<1>2. [m.task EXCEPT ![t] = unassign(@)] \in [Task -> TaskRec]
  BY UnassignType DEF TeamRec
<1> QED
  BY <1>1, <1>2 DEF revertTaskAssignment, TeamRec

\* The typed team is a team record.
LEMMA TeamType == TypeOK => Team \in TeamRec
  BY DEF TypeOK, Team, TeamRec

\* A step that becomes a typed team keeps the type of the three variables.
LEMMA BecomeType ==
  ASSUME NEW m \in TeamRec, Become(m)
  PROVE  task' \in [Task -> TaskRec] /\ worker' \in [Worker -> WorkerRec]
         /\ dispatch' \subseteq DispatchRec
  BY DEF Become, TeamRec

-----------------------------------------------------------------------------
(* Type correctness. *)

\* The record of a task that is not there is one.
LEMMA UnbornType == Unborn \in TaskRec
  BY ConstantsAssumption DEF Unborn, TaskRec

\* The initial state is typed.
LEMMA InitType == Init => TypeOK
  BY UnbornType DEF Init, TypeOK, Absent, FreeClar, WorkerRec, ClarRec

\* Suspending a handler on a task and its worker keeps the type of cont.
LEMMA SuspendType ==
  ASSUME TypeOK, NEW op \in {"clarify", "handoff", "answer", "delete", "result"},
         NEW t \in Task, NEW w \in Worker \cup {None}
  PROVE  Suspend(op, t, w) \in ContRec
  BY DEF Suspend, ContRec

\* Asking for a clarification keeps the types of the team and the clarifications.
LEMMA RequestType ==
  ASSUME TypeOK, NEW t \in Task, NEW by \in Worker \cup {None},
         NEW reason \in {"worker", "handoff"}, requestTaskClarification(t, by, reason)
  PROVE  /\ task' \in [Task -> TaskRec]
         /\ worker' \in [Worker -> WorkerRec]
         /\ clar' \in [Clar -> ClarRec]
         /\ cont' \subseteq ContRec
         /\ dispatch' \subseteq DispatchRec
<1>1. PICK c \in Clar :
        /\ clar' = [clar EXCEPT ![c] = [status |-> "pending", task |-> t, by |-> by,
                                      reason |-> reason]]
        /\ task' = [task EXCEPT ![t] =
                     [@ EXCEPT !.status = "blocked", !.worker = None, !.clar = c]]
  BY DEF requestTaskClarification
<1>2. task' \in [Task -> TaskRec]
  <2>1. task \in [Task -> TaskRec]
    BY DEF TypeOK
  <2>2. task[t] \in TaskRec /\ None \in Worker \cup {None} /\ c \in Clar \cup {None}
    BY <2>1
  <2>3. [task[t] EXCEPT !.status = "blocked", !.worker = None, !.clar = c] \in TaskRec
    BY <2>2, Statuses, QuestionChange, Zenon
  <2> QED
    BY <1>1, <2>1, <2>3
<1>3. clar' \in [Clar -> ClarRec]
  BY <1>1 DEF TypeOK, ClarRec
<1>4. worker' \in [Worker -> WorkerRec]
  BY FreeType DEF TypeOK, requestTaskClarification
<1>5. task[t].worker \in Worker \cup {None}
  BY DEF TypeOK, TaskRec
<1>6. cont' \subseteq ContRec
  BY <1>5, SuspendType DEF TypeOK, requestTaskClarification
<1> QED
  BY <1>2, <1>3, <1>4, <1>6 DEF TypeOK, requestTaskClarification

\* So does handling a result that says blocked.
LEMMA ReportType ==
  ASSUME TypeOK, NEW t \in Task, NEW by \in Worker \cup {None}, NEW kind,
         reportBlocked(t, by, kind)
  PROVE  /\ task' \in [Task -> TaskRec]
         /\ worker' \in [Worker -> WorkerRec]
         /\ clar' \in [Clar -> ClarRec]
         /\ cont' \subseteq ContRec
         /\ dispatch' \subseteq DispatchRec
<1> DEFINE reason == IF kind = "blocked" THEN "worker" ELSE "handoff"
<1>1. CASE requestTaskClarification(t, by, reason)
  BY <1>1, RequestType
<1>2. CASE ~requestTaskClarification(t, by, reason)
  <2>1. [task EXCEPT ![t] = [@ EXCEPT !.status = "in_progress"]] \in [Task -> TaskRec]
    BY DEF TypeOK, TaskRec, Status
  <2> QED
    BY <2>1, <1>2 DEF reportBlocked, TypeOK
<1> QED
  BY <1>1, <1>2

\* A task that becomes pending leaves the team records in their types.
LEMMA PendingType ==
  ASSUME Team \in TeamRec, NEW t \in Task
  PROVE  [Team EXCEPT !.task = [@ EXCEPT ![t].status = "pending"]] \in TeamRec
<1>1. [Team.task[t] EXCEPT !.status = "pending"] \in TaskRec
  BY DEF TeamRec, TaskRec, Status
<1> QED
  BY <1>1, SMTT(30) DEF TeamRec

\* Every step keeps the types.
LEMMA NextType == TypeOK /\ [Next]_vars => TypeOK'
<1> SUFFICES ASSUME TypeOK, [Next]_vars PROVE TypeOK'
  OBVIOUS
<1> USE DEF teamVars, workerVars
<1>0. Team \in TeamRec /\ {} \in SUBSET Pairs
  BY TeamType
<1>create. ASSUME NEW t \in Task, CreateTask(t) PROVE TypeOK'
  <2> DEFINE m0 == [Team EXCEPT !.task = [@ EXCEPT ![t].status = "pending"]]
  <2>1. m0 \in TeamRec
    BY <1>0, PendingType
  <2> QED
    BY <2>1, <1>0, <1>create, AutoType, BecomeType DEF CreateTask, TypeOK
<1>register. ASSUME NEW w \in Worker, RegisterWorker(w) PROVE TypeOK'
  <2> DEFINE m0 == [Team EXCEPT !.worker[w] = [status |-> "idle", cur |-> None, fresh |-> TRUE]]
  <2>1. m0 \in TeamRec
    BY <1>0 DEF TeamRec, WorkerRec
  <2> QED
    BY <2>1, <1>0, <1>register, AutoType, BecomeType DEF RegisterWorker, TypeOK
<1>remove. ASSUME NEW w \in Worker, RemoveWorker(w) PROVE TypeOK'
  <2> DEFINE orphan(k) == k.worker = w
                          /\ k.status \in {"pending", "assigned", "in_progress", "review"}
             ts == [t \in Task |->
                     IF orphan(task[t]) THEN resetTaskForFreshAttempt(unassign(task[t]))
                     ELSE task[t]]
             m0 == [Team EXCEPT !.worker[w] = Absent, !.task = ts]
  <2>1. ts \in [Task -> TaskRec]
    BY UnassignType, ResetType DEF TypeOK
  <2>2. Absent \in WorkerRec
    BY DEF Absent, WorkerRec
  <2>3. m0 \in TeamRec
    BY <1>0, <2>1, <2>2 DEF TeamRec
  <2> QED
    BY <2>3, <1>0, <1>remove, AutoType, BecomeType DEF RemoveWorker, TypeOK
<1>send. ASSUME NEW w \in Worker, SendHeartbeat(w) PROVE TypeOK'
  BY <1>send DEF SendHeartbeat, TypeOK, BeatRec
<1>beat. ASSUME NEW b \in beat, Heartbeat(b) PROVE TypeOK'
  <2> DEFINE ws == IF worker[b.worker].status = "absent" THEN worker
                   ELSE [worker EXCEPT ![b.worker] =
                          [status |-> IF b.cur = None THEN "idle" ELSE "busy",
                           cur |-> b.cur, fresh |-> TRUE]]
             m0 == [Team EXCEPT !.worker = ws]
  <2>1. b.worker \in Worker /\ b.cur \in Task \cup {None}
    BY DEF TypeOK, BeatRec
  <2>2. ws \in [Worker -> WorkerRec]
    BY <2>1 DEF TypeOK, WorkerRec
  <2>3. m0 \in TeamRec
    BY <1>0, <2>2 DEF TeamRec
  <2>4. beat' \subseteq BeatRec
    BY <1>beat DEF Heartbeat, TypeOK
  <2>5. \A x \in (IF b.cur = None THEN autoAssignPendingTasks(m0, {}) ELSE {m0}) : x \in TeamRec
    BY <2>3, <1>0, AutoType
  <2> QED
    BY <2>4, <2>5, <1>beat, BecomeType DEF Heartbeat, TypeOK
<1>stale. ASSUME NEW w \in Worker, GoStale(w) PROVE TypeOK'
  BY <1>stale DEF GoStale, TypeOK, WorkerRec
<1>timeout. ASSUME TimeoutTick PROVE TypeOK'
  <2>1. task' \in [Task -> TaskRec]
    BY <1>timeout, UnassignType DEF TimeoutTick, TypeOK
  <2>2. \A w \in Worker : [worker[w] EXCEPT !.status = "offline", !.cur = None] \in WorkerRec
    BY DEF TypeOK, WorkerRec
  <2>3. Absent \in WorkerRec
    BY DEF Absent, WorkerRec
  <2>4. worker' \in [Worker -> WorkerRec]
    BY <1>timeout, <2>2, <2>3 DEF TimeoutTick, TypeOK
  <2> QED
    BY <2>1, <2>4, <1>timeout DEF TimeoutTick, TypeOK
<1>accept. ASSUME NEW d \in dispatch, WorkerAccepts(d) PROVE TypeOK'
  <2>1. d \in DispatchRec
    BY DEF TypeOK
  <2>2. d.task \in Task /\ d.worker \in Worker /\ d.n \in Attempt
        /\ [d EXCEPT !.accepted = TRUE] \in DispatchRec
    BY <2>1 DEF DispatchRec
  <2>3. dispatch' \subseteq DispatchRec
    BY <2>2, <1>accept DEF WorkerAccepts, TypeOK
  <2>4. runs' \subseteq RunRec /\ mail' \subseteq MailRec
    BY <2>2, <1>accept DEF WorkerAccepts, TypeOK, RunRec, MailRec
  <2>5. active' \in [Worker -> Task \cup {None}] /\ cancelled' \in [Worker -> SUBSET Task]
    BY <2>2, <1>accept DEF WorkerAccepts, TypeOK
  <2> QED
    BY <2>3, <2>4, <2>5, <1>accept DEF WorkerAccepts, TypeOK
<1>done. ASSUME NEW d \in dispatch, DispatchSucceeds(d) PROVE TypeOK'
  <2> DEFINE m0 == [Team EXCEPT !.dispatch = @ \ {d}]
  <2>1. d.tried \in SUBSET Pairs
    BY DEF TypeOK, DispatchRec, Pairs
  <2>2. m0 \in TeamRec
    BY <1>0 DEF TeamRec
  <2>3. \A x \in (IF d.auto THEN autoAssignPendingTasks(m0, d.tried) ELSE {m0}) : x \in TeamRec
    BY <2>1, <2>2, AutoType
  <2> QED
    BY <2>3, <1>done, BecomeType DEF DispatchSucceeds, TypeOK
<1>fail. ASSUME NEW d \in dispatch, DispatchFails(d) PROVE TypeOK'
  <2> DEFINE m0 == [Team EXCEPT !.dispatch = @ \ {d}]
             reverted == revertTaskAssignment(m0, d.task, d.worker)
             again == IF Exists(task, d.task) THEN autoAssignPendingTasks(reverted, {})
                      ELSE {reverted}
  <2>1. d.tried \in SUBSET Pairs /\ d.task \in Task /\ d.worker \in Worker
    BY DEF TypeOK, DispatchRec, Pairs
  <2>2. m0 \in TeamRec
    BY <1>0 DEF TeamRec
  <2>3. reverted \in TeamRec
    BY <2>1, <2>2, RevertType
  <2> HIDE DEF reverted, m0
  <2>4. \A x \in again : x \in TeamRec
    BY <2>3, <1>0, AutoType
  <2>5. \A x \in again :
          \A y \in (IF d.auto THEN autoAssignPendingTasks(x, d.tried) ELSE {x}) : y \in TeamRec
    BY <2>1, <2>4, AutoType
  <2>6. PICK m1 \in again :
          \E m \in (IF d.auto THEN autoAssignPendingTasks(m1, d.tried) ELSE {m1}) : Become(m)
    BY <1>fail DEF DispatchFails, reverted, m0
  <2> QED
    BY <2>5, <2>6, <1>fail, BecomeType DEF DispatchFails, TypeOK
<1>ends. ASSUME NEW r \in runs, NEW kind \in Outcome, RunEnds(r, kind)
         PROVE TypeOK'
  <2>1. r.task \in Task /\ r.worker \in Worker
    BY DEF TypeOK, RunRec
  <2> QED
    BY <2>1, <1>ends DEF RunEnds, TypeOK, MailRec, Outcome
<1>running. ASSUME NEW x \in mail, ReceiveRunning(x) PROVE TypeOK'
  <2>1. [task EXCEPT ![x.task] = [@ EXCEPT !.status = "in_progress"]] \in [Task -> TaskRec]
    <3>1. task \in [Task -> TaskRec] /\ task[x.task] \in TaskRec
      BY DEF TypeOK, MailRec
    <3>2. [task[x.task] EXCEPT !.status = "in_progress"] \in TaskRec
      BY <3>1, Statuses, StatusChange, Zenon
    <3> QED
      BY <3>1, <3>2
  <2> QED
    BY <2>1, <1>running DEF ReceiveRunning, TypeOK
<1>result. ASSUME NEW x \in mail, ReceiveResult(x) PROVE TypeOK'
  <2>1. x.task \in Task
    BY DEF TypeOK, MailRec
  <2>2. \A y \in (IF canAcceptWorkerUpdate(x.task, x.worker)
                  THEN applyTaskResult(Team, x.task, x.kind) ELSE {Team}) : y \in TeamRec
    BY <2>1, <1>0, ApplyType
  <2> QED
    BY <2>2, <1>result, BecomeType DEF ReceiveResult, TypeOK
<1>lose. ASSUME NEW x \in mail, LoseMail(x) PROVE TypeOK'
  BY <1>lose DEF LoseMail, TypeOK
<1>crash. ASSUME NEW w \in Worker, WorkerCrash(w) PROVE TypeOK'
  BY <1>crash DEF WorkerCrash, TypeOK
<1>request. ASSUME NEW r \in runs, RequestClarification(r) PROVE TypeOK'
  <2>1. r.task \in Task /\ r.worker \in Worker
    BY DEF TypeOK, RunRec
  <2> QED
    BY <2>1, <1>request, RequestType DEF RequestClarification, TypeOK
<1>blocked. ASSUME NEW x \in mail, ReceiveBlocked(x) PROVE TypeOK'
  <2>1. x.task \in Task /\ x.worker \in Worker
    BY DEF TypeOK, MailRec
  <2>2. CASE reportBlocked(x.task, x.worker, x.kind)
    BY <2>1, <2>2, <1>blocked, ReportType DEF ReceiveBlocked, TypeOK
  <2>3. CASE UNCHANGED <<teamVars, clar, cont>>
    BY <2>3, <1>blocked DEF ReceiveBlocked, TypeOK
  <2> QED
    BY <2>2, <2>3, <1>blocked DEF ReceiveBlocked
<1>typed. ASSUME NEW t \in Task, NEW kind \in Outcome, ManualBlocked(t, kind) PROVE TypeOK'
  BY <1>typed, ReportType DEF ManualBlocked, TypeOK
<1>answer. ASSUME NEW c \in Clar, AnswerClarification(c) PROVE TypeOK'
  <2>1. clar' \in [Clar -> ClarRec]
    BY <1>answer DEF AnswerClarification, TypeOK, ClarRec
  <2>2. CASE Exists(task, clar[c].task)
    <3> DEFINE t == clar[c].task
               k == [task[t] EXCEPT !.status = "pending", !.clar = None]
    <3>1. t \in Task \cup {None} /\ clar[c].by \in Worker \cup {None}
      BY DEF TypeOK, ClarRec
    <3>2. t \in Task => k \in TaskRec
      <4>1. t \in Task => task[t] \in TaskRec
        BY DEF TypeOK
      <4> QED
        BY <4>1 DEF TaskRec, Status
    <3>3. task' \in [Task -> TaskRec]
      BY <2>2, <3>2, ResetType, <1>answer DEF AnswerClarification, TypeOK
    <3>4. t \in Task
      BY <2>2 DEF Exists
    <3>5. cont' \subseteq ContRec
      BY <2>2, <3>1, <3>4, <1>answer DEF AnswerClarification, TypeOK, ContRec
    <3> QED
      BY <2>1, <3>3, <3>5, <1>answer DEF AnswerClarification, TypeOK
  <2>3. CASE ~Exists(task, clar[c].task)
    BY <2>1, <2>3, <1>answer DEF AnswerClarification, TypeOK
  <2> QED
    BY <2>2, <2>3
<1>resume. ASSUME NEW k \in cont, ResumeAfterAnswer(k) PROVE TypeOK'
  <2> DEFINE pool == IF k.worker # None /\ worker[k.worker].status = "idle"
                     THEN {k.worker} ELSE Worker
  <2>1. k.task \in Task /\ k.worker \in Worker \cup {None}
    BY DEF TypeOK, ContRec
  <2>2. pool \in SUBSET Worker
    BY <2>1
  <2> HIDE DEF pool
  <2>3. \A x \in routeAndAssign(Team, k.task, pool) : x \in TeamRec
    BY <2>1, <2>2, <1>0, RouteType
  <2>4. \E m \in routeAndAssign(Team, k.task, pool) : Become(m)
    BY <1>resume DEF ResumeAfterAnswer, pool
  <2> QED
    BY <2>3, <2>4, <1>resume, BecomeType DEF ResumeAfterAnswer, TypeOK
<1>handoff. ASSUME NEW t \in Task, Handoff(t) PROVE TypeOK'
  <2> DEFINE prev == task[t].worker
             freed == [task |-> [task EXCEPT ![t] =
                         [resetTaskForFreshAttempt(unassign(task[t])) EXCEPT !.handed = TRUE]],
                       worker |-> freeWorker(worker, prev),
                       dispatch |-> dispatch]
  <2>1. prev \in Worker \cup {None}
    BY DEF TypeOK, TaskRec
  <2>2. freed \in TeamRec
    <3>1. resetTaskForFreshAttempt(unassign(task[t])) \in TaskRec
      BY UnassignType, ResetType DEF TypeOK
    <3>2. [resetTaskForFreshAttempt(unassign(task[t])) EXCEPT !.handed = TRUE] \in TaskRec
      BY <3>1 DEF TaskRec
    <3> QED
      BY <3>2, FreeType DEF TypeOK, TeamRec
  <2> HIDE DEF freed
  <2>3. Suspend("handoff", t, prev) \in ContRec
    BY <2>1, SuspendType
  <2>4. CASE Registered(worker, prev)
    <3>1. Become(freed) /\ cont' = cont \cup {Suspend("handoff", t, prev)}
      BY <2>4, <1>handoff DEF Handoff, freed
    <3> QED
      BY <3>1, <2>2, <2>3, <1>handoff, BecomeType DEF Handoff, TypeOK
  <2>5. CASE ~Registered(worker, prev)
    <3>1. PICK m \in routeAndAssign(freed, t, Worker) : Become(m) /\ cont' = cont
      BY <2>5, <1>handoff DEF Handoff, freed
    <3>2. m \in TeamRec
      BY <2>2, RouteType
    <3> QED
      BY <3>1, <3>2, <1>handoff, BecomeType DEF Handoff, TypeOK
  <2> QED
    BY <2>4, <2>5
<1>finish. ASSUME NEW k \in cont, FinishHandoff(k) PROVE TypeOK'
  <2>1. k.task \in Task
    BY DEF TypeOK, ContRec
  <2>2. \A x \in routeAndAssign(Team, k.task, Worker) : x \in TeamRec
    BY <2>1, <1>0, RouteType
  <2> QED
    BY <2>2, <1>finish, BecomeType DEF FinishHandoff, TypeOK
<1>patch. ASSUME NEW r \in runs, NEW status \in {"in_progress", "review"}, PatchTask(r, status)
          PROVE TypeOK'
  <2>1. task' \in [Task -> TaskRec]
    <3>1. task \in [Task -> TaskRec] /\ task[r.task] \in TaskRec /\ status \in Status
      BY Statuses DEF TypeOK, RunRec
    <3>2. [task[r.task] EXCEPT !.status = status] \in TaskRec
      BY <3>1, StatusChange, Zenon
    <3> QED
      BY <1>patch, <3>1, <3>2 DEF PatchTask
  <2> QED
    BY <2>1, <1>patch DEF PatchTask, TypeOK
<1>assign. ASSUME NEW t \in Task, NEW w \in Worker, ManualAssign(t, w) PROVE TypeOK'
  <2>1. assignTaskToWorker(Team, t, w, FALSE, {}) \in TeamRec
    BY <1>0, <1>assign, AssignType DEF ManualAssign, canAssign
  <2> QED
    BY <2>1, <1>assign, BecomeType DEF ManualAssign, TypeOK
<1>manual. ASSUME NEW t \in Task, NEW kind \in Outcome, ManualResult(t, kind)
           PROVE TypeOK'
  <2>1. \A x \in applyTaskResult(Team, t, kind) : x \in TeamRec
    BY <1>0, ApplyType
  <2>2. task[t].worker \in Worker \cup {None}
    BY DEF TypeOK, TaskRec
  <2>3. cont' \subseteq ContRec
    BY <2>2, <1>manual, SuspendType DEF ManualResult, TypeOK
  <2> QED
    BY <2>1, <2>3, <1>manual, BecomeType DEF ManualResult, TypeOK
<1>delete. ASSUME NEW t \in Task, DeleteTask(t) PROVE TypeOK'
  <2>1. task[t].worker \in Worker \cup {None}
    BY DEF TypeOK, TaskRec
  <2>2. cont' \subseteq ContRec
    BY <2>1, <1>delete, SuspendType DEF DeleteTask, TypeOK
  <2> QED
    BY <2>2, <1>delete DEF DeleteTask, TypeOK
<1>deleted. ASSUME NEW k \in cont, FinishDelete(k) PROVE TypeOK'
  <2>1. [Unborn EXCEPT !.status = "deleted"] \in TaskRec
    BY UnbornType DEF TaskRec
  <2>2. [FreeClar EXCEPT !.status = "deleted"] \in ClarRec
    BY DEF FreeClar, ClarRec
  <2> QED
    BY <2>1, <2>2, <1>deleted DEF FinishDelete, TypeOK
<1>cancel. ASSUME NEW k \in cont, CancelDelivered(k) \/ CancelFails(k) PROVE TypeOK'
  <2>1. k \in ContRec /\ k.task \in Task /\ [k EXCEPT !.phase = "ready"] \in ContRec
    BY DEF TypeOK, ContRec
  <2>2. cont' \subseteq ContRec
    BY <2>1, <1>cancel DEF CancelDelivered, CancelFails, Resumed, TypeOK
  <2>3. cancelled' \in [Worker -> SUBSET Task]
    BY <2>1, <1>cancel DEF CancelDelivered, CancelFails, TypeOK
  <2> QED
    BY <2>2, <2>3, <1>cancel DEF CancelDelivered, CancelFails, TypeOK
<1>restart. ASSUME Restart PROVE TypeOK'
  <2>1. \A t \in Task : [task[t] EXCEPT !.status = "failed"] \in TaskRec
    BY DEF TypeOK, TaskRec, Status
  <2>2. ASSUME NEW t \in Task, ~(task[t].resume + 1 > MaxResume)
        PROVE  [unassign(task[t]) EXCEPT !.resume = @ + 1] \in TaskRec
    <3>1. task[t] \in TaskRec
      BY DEF TypeOK
    <3>2. unassign(task[t]) \in TaskRec /\ unassign(task[t]).resume = task[t].resume
      BY <3>1, UnassignType DEF unassign, TaskRec
    <3>3. task[t].resume + 1 \in 0..MaxResume
      BY <2>2, <3>1, ConstantsAssumption DEF TaskRec
    <3> QED
      BY <3>2, <3>3 DEF TaskRec
  <2>3. task' \in [Task -> TaskRec]
    BY <2>1, <2>2, <1>restart DEF Restart, TypeOK
  <2> QED
    BY <2>3, <1>restart DEF Restart, TypeOK
<1>stutter. ASSUME UNCHANGED vars PROVE TypeOK'
  BY <1>stutter DEF vars, TypeOK
<1> QED
  BY <1>create, <1>register, <1>remove, <1>send, <1>beat, <1>stale, <1>timeout, <1>accept,
     <1>done, <1>fail, <1>ends, <1>running, <1>result, <1>lose, <1>crash, <1>request,
     <1>blocked, <1>answer, <1>resume, <1>handoff, <1>finish, <1>patch, <1>assign,
     <1>manual, <1>typed, <1>delete, <1>deleted, <1>cancel, <1>restart, <1>stutter DEF Next

\* Type correctness: whatever requests, reports, failures and timers interleave,
\* the controller and the workers only ever store values of the declared types;
\* in particular a task is resumed at most MaxResume times.
THEOREM TypeCorrect == Spec => []TypeOK
  BY InitType, NextType, PTL DEF Spec

-----------------------------------------------------------------------------
(* Blocked tasks and their questions.  Both halves of the relation between a  *)
(* task and its clarification are needed together: the one says that the     *)
(* answer a blocked task waits for can come, the other that answering the     *)
(* question of one task cannot take the question of another task away.        *)

ClarInv == BlockedAwaitsAnswer /\ PendingClarificationIsCurrent

\* What every handler that leaves the clarifications alone does to the tasks.
KeepsClar(ts, us) ==
  \A t \in Task :
    /\ us[t].clar = ts[t].clar
    /\ Exists(ts, t) => Exists(us, t)
    /\ us[t].status = "blocked" => ts[t].status = "blocked" /\ us[t].worker = ts[t].worker

\* Steps that keep the clarifications in this sense keep the invariant.
LEMMA KeepsClarInv ==
  ASSUME TypeOK, ClarInv, KeepsClar(task, task'), clar' = clar
  PROVE  ClarInv'
<1>1. BlockedAwaitsAnswer'
  BY DEF ClarInv, BlockedAwaitsAnswer, KeepsClar
<1>2. PendingClarificationIsCurrent'
  <2> SUFFICES ASSUME NEW c \in Clar, clar[c].status = "pending"
               PROVE  /\ clar[c].task # None
                      /\ Exists(task', clar[c].task)
                      /\ task'[clar[c].task].clar = c
    BY DEF PendingClarificationIsCurrent
  <2>1. clar[c].task # None /\ Exists(task, clar[c].task) /\ task[clar[c].task].clar = c
    BY DEF ClarInv, PendingClarificationIsCurrent
  <2>2. clar[c].task \in Task
    BY <2>1 DEF Exists
  <2> QED
    BY <2>1, <2>2 DEF KeepsClar
<1> QED
  BY <1>1, <1>2 DEF ClarInv

\* Keeping composes.
LEMMA KeepsTrans ==
  ASSUME NEW ts, NEW us, NEW vs, KeepsClar(ts, us), KeepsClar(us, vs)
  PROVE  KeepsClar(ts, vs)
  BY DEF KeepsClar

\* A task that is not changed, or loses its worker without being blocked, keeps.
LEMMA AssignKeeps ==
  ASSUME NEW m \in TeamRec, NEW t \in Task, NEW w \in Worker, NEW auto, NEW tried
  PROVE  KeepsClar(m.task, assignTaskToWorker(m, t, w, auto, tried).task)
  BY DEF assignTaskToWorker, resetTaskForFreshAttempt, KeepsClar, TeamRec, TaskRec, Exists, Status

\* An auto-assign turn keeps.
LEMMA AutoKeeps ==
  ASSUME NEW m \in TeamRec, NEW tried \in SUBSET Pairs,
         NEW x \in autoAssignPendingTasks(m, tried)
  PROVE  KeepsClar(m.task, x.task)
<1>1. KeepsClar(m.task, m.task)
  BY DEF KeepsClar
<1>2. ASSUME NEW p \in candidateAssignments(m, tried)
      PROVE  KeepsClar(m.task, assignTaskToWorker(m, p[1], p[2], TRUE, tried \cup {p}).task)
  <2>1. p[1] \in Task /\ p[2] \in Worker
    BY DEF candidateAssignments
  <2> QED
    BY <2>1, AssignKeeps
<1> QED
  BY <1>1, <1>2 DEF autoAssignPendingTasks

\* Routing a task keeps.
LEMMA RouteKeeps ==
  ASSUME NEW m \in TeamRec, NEW t \in Task, NEW pool \in SUBSET Worker,
         NEW x \in routeAndAssign(m, t, pool)
  PROVE  KeepsClar(m.task, x.task)
<1>1. KeepsClar(m.task, m.task)
  BY DEF KeepsClar
<1>2. ASSUME NEW w \in pool
      PROVE  KeepsClar(m.task, assignTaskToWorker(m, t, w, FALSE, {}).task)
  BY AssignKeeps
<1> QED
  BY <1>1, <1>2 DEF routeAndAssign

\* Recording an outcome, with or without the auto-assign turn, keeps.
LEMMA ApplyKeeps ==
  ASSUME NEW m \in TeamRec, NEW t \in Task, NEW kind, NEW x \in applyTaskResult(m, t, kind)
  PROVE  KeepsClar(m.task, x.task)
<1> DEFINE s == IF kind = "error" THEN "failed" ELSE "completed"
           ts == [m.task EXCEPT ![t] = [@ EXCEPT !.status = s, !.done = TRUE]]
<1>1. s \in Status /\ s # "blocked"
  BY DEF Status
<1>2. settle(m, t, kind).task = ts
  BY DEF settle
<1> HIDE DEF s
<1>3. KeepsClar(m.task, ts)
  BY <1>1 DEF KeepsClar, TeamRec, TaskRec, Exists
<1>4. settle(m, t, kind) \in TeamRec
  BY SettleType
<1>5. x = settle(m, t, kind) \/ x \in autoAssignPendingTasks(settle(m, t, kind), {})
  BY DEF applyTaskResult
<1>6. CASE x = settle(m, t, kind)
  BY <1>2, <1>3, <1>6
<1>7. CASE x \in autoAssignPendingTasks(settle(m, t, kind), {})
  <2>1. {} \in SUBSET Pairs
    OBVIOUS
  <2>2. KeepsClar(settle(m, t, kind).task, x.task)
    BY <1>4, <1>7, <2>1, AutoKeeps
  <2> QED
    BY <1>2, <1>3, <2>2, KeepsTrans
<1> QED
  BY <1>5, <1>6, <1>7

\* Tasks taken from their worker stay the tasks of their questions.
LEMMA UnassignClar ==
  ASSUME NEW k \in TaskRec
  PROVE  /\ unassign(k).clar = k.clar
         /\ unassign(k).status = "pending"
         /\ resetTaskForFreshAttempt(unassign(k)).clar = k.clar
         /\ resetTaskForFreshAttempt(unassign(k)).status = "pending"
         /\ unassign(k).handed = k.handed
         /\ resetTaskForFreshAttempt(unassign(k)).handed = k.handed
  BY DEF unassign, resetTaskForFreshAttempt, TaskRec

\* Tasks that change otherwise than by a question keep.
LEMMA MovesKeep ==
  ASSUME NEW ts, NEW us,
         \A t \in Task : \/ us[t] = ts[t]
                         \/ /\ us[t].status \in Status \ {"blocked"}
                            /\ us[t].clar = ts[t].clar
  PROVE  KeepsClar(ts, us)
<1> SUFFICES ASSUME NEW t \in Task
             PROVE  /\ us[t].clar = ts[t].clar
                    /\ Exists(ts, t) => Exists(us, t)
                    /\ us[t].status = "blocked" =>
                         ts[t].status = "blocked" /\ us[t].worker = ts[t].worker
  BY DEF KeepsClar
<1>1. CASE us[t] = ts[t]
  BY <1>1 DEF Exists
<1>2. CASE us[t].status \in Status \ {"blocked"} /\ us[t].clar = ts[t].clar
  BY <1>2 DEF Exists
<1> QED
  BY <1>1, <1>2

-----------------------------------------------------------------------------
\* The initial state satisfies the invariant: no task and no question exists.
LEMMA InitClar == Init => ClarInv
  BY DEF Init, ClarInv, BlockedAwaitsAnswer, PendingClarificationIsCurrent, Unborn, FreeClar

\* Asking a question keeps the invariant: the task had no other open question.
LEMMA RequestClar ==
  ASSUME TypeOK, ClarInv, NEW t \in Task, NEW by \in Worker \cup {None},
         NEW reason \in {"worker", "handoff"}, requestTaskClarification(t, by, reason)
  PROVE  ClarInv'
<1>1. PICK c \in Clar :
        /\ clar[c].status = "free"
        /\ clar' = [clar EXCEPT ![c] = [status |-> "pending", task |-> t, by |-> by,
                                      reason |-> reason]]
        /\ task' = [task EXCEPT ![t] =
                     [@ EXCEPT !.status = "blocked", !.worker = None, !.clar = c]]
  BY DEF requestTaskClarification
<1>2. /\ task'[t].status = "blocked" /\ task'[t].worker = None /\ task'[t].clar = c
      /\ \A u \in Task \ {t} : task'[u] = task[u]
  BY <1>1 DEF TypeOK, TaskRec
<1>3. /\ clar'[c].status = "pending" /\ clar'[c].task = t
      /\ \A b \in Clar \ {c} : clar'[b] = clar[b]
  BY <1>1 DEF TypeOK, ClarRec
<1>4. ~AlreadyPending(t)
  BY DEF requestTaskClarification
<1>5. t # None /\ c # None
  BY ConstantsAssumption
<1>6. BlockedAwaitsAnswer'
  <2> SUFFICES ASSUME NEW u \in Task, task'[u].status = "blocked"
               PROVE  /\ task'[u].worker = None
                      /\ task'[u].clar # None
                      /\ clar'[task'[u].clar].status = "pending"
                      /\ clar'[task'[u].clar].task = u
    BY DEF BlockedAwaitsAnswer
  <2>1. CASE u = t
    BY <2>1, <1>2, <1>3, <1>5
  <2>2. CASE u # t
    <3>1. /\ task[u].worker = None /\ task[u].clar # None
          /\ clar[task[u].clar].status = "pending" /\ clar[task[u].clar].task = u
      BY <2>2, <1>2 DEF ClarInv, BlockedAwaitsAnswer
    <3>2. task[u].clar \in Clar \ {c}
      BY <3>1, <1>1 DEF TypeOK, TaskRec
    <3> QED
      BY <2>2, <3>1, <3>2, <1>2, <1>3
  <2> QED
    BY <2>1, <2>2
<1>7. PendingClarificationIsCurrent'
  <2> SUFFICES ASSUME NEW b \in Clar, clar'[b].status = "pending"
               PROVE  /\ clar'[b].task # None
                      /\ Exists(task', clar'[b].task)
                      /\ task'[clar'[b].task].clar = b
    BY DEF PendingClarificationIsCurrent
  <2>1. CASE b = c
    BY <2>1, <1>2, <1>3, <1>5 DEF Exists, Status
  <2>2. CASE b # c
    <3>1. clar[b].status = "pending" /\ clar[b].task # None /\ Exists(task, clar[b].task)
          /\ task[clar[b].task].clar = b
      BY <2>2, <1>3 DEF ClarInv, PendingClarificationIsCurrent
    <3>2. clar[b].task # t
      BY <3>1, <1>4, ConstantsAssumption DEF AlreadyPending
    <3>3. clar[b].task \in Task \ {t}
      BY <3>1, <3>2 DEF Exists
    <3> QED
      BY <2>2, <3>1, <3>3, <1>2, <1>3 DEF Exists
  <2> QED
    BY <2>1, <2>2
<1> QED
  BY <1>6, <1>7 DEF ClarInv

\* Handling a result that says blocked keeps it: it asks, or moves a waiting task on.
LEMMA ReportClar ==
  ASSUME TypeOK, ClarInv, NEW t \in Task, NEW by \in Worker \cup {None}, NEW kind,
         reportBlocked(t, by, kind)
  PROVE  ClarInv'
<1> DEFINE reason == IF kind = "blocked" THEN "worker" ELSE "handoff"
<1>1. CASE requestTaskClarification(t, by, reason)
  BY <1>1, RequestClar
<1>2. CASE ~requestTaskClarification(t, by, reason)
  <2>1. \A u \in Task : \/ task'[u] = task[u]
                        \/ task'[u].status = "in_progress" /\ task'[u].clar = task[u].clar
    BY <1>2 DEF reportBlocked, TypeOK, TaskRec
  <2>2. KeepsClar(task, task') /\ clar' = clar
    BY <2>1, <1>2, MovesKeep DEF reportBlocked, Status
  <2> QED
    BY <2>2, KeepsClarInv
<1> QED
  BY <1>1, <1>2

\* Answering keeps it: only the task the question is about stops waiting.
LEMMA AnswerClar ==
  ASSUME TypeOK, ClarInv, NEW c \in Clar, AnswerClarification(c)
  PROVE  ClarInv'
<1> DEFINE t == clar[c].task
<1>1. clar[c].status = "pending" /\ Exists(task, t) /\ task[t].clar = c /\ t \in Task
  BY DEF AnswerClarification, ClarInv, PendingClarificationIsCurrent, Exists
<1>2. /\ clar'[c].status = "answered"
      /\ \A b \in Clar \ {c} : clar'[b] = clar[b]
  BY DEF AnswerClarification, TypeOK, ClarRec
<1>3. task' = [task EXCEPT ![t] = resetTaskForFreshAttempt(
                [@ EXCEPT !.status = "pending", !.clar = None])]
  BY <1>1 DEF AnswerClarification
<1>4. task'[t].status = "pending" /\ \A u \in Task \ {t} : task'[u] = task[u]
  BY <1>1, <1>3 DEF TypeOK, TaskRec, resetTaskForFreshAttempt
<1>5. BlockedAwaitsAnswer'
  <2> SUFFICES ASSUME NEW u \in Task, task'[u].status = "blocked"
               PROVE  /\ task'[u].worker = None
                      /\ task'[u].clar # None
                      /\ clar'[task'[u].clar].status = "pending"
                      /\ clar'[task'[u].clar].task = u
    BY DEF BlockedAwaitsAnswer
  <2>1. u # t /\ task'[u] = task[u]
    BY <1>4
  <2>2. /\ task[u].worker = None /\ task[u].clar # None
        /\ clar[task[u].clar].status = "pending" /\ clar[task[u].clar].task = u
    BY <2>1 DEF ClarInv, BlockedAwaitsAnswer
  <2>3. task[u].clar \in Clar \ {c}
    BY <2>1, <2>2 DEF TypeOK, TaskRec
  <2> QED
    BY <2>1, <2>2, <2>3, <1>2
<1>6. PendingClarificationIsCurrent'
  <2> SUFFICES ASSUME NEW b \in Clar, clar'[b].status = "pending"
               PROVE  /\ clar'[b].task # None
                      /\ Exists(task', clar'[b].task)
                      /\ task'[clar'[b].task].clar = b
    BY DEF PendingClarificationIsCurrent
  <2>1. b # c /\ clar'[b] = clar[b]
    BY <1>2
  <2>2. clar[b].task # None /\ Exists(task, clar[b].task) /\ task[clar[b].task].clar = b
    BY <2>1 DEF ClarInv, PendingClarificationIsCurrent
  <2>3. clar[b].task \in Task \ {t}
    BY <2>1, <2>2, <1>1 DEF Exists
  <2> QED
    BY <2>1, <2>2, <2>3, <1>4 DEF Exists
<1> QED
  BY <1>5, <1>6 DEF ClarInv

\* Deleting a task keeps it: the questions about the task go with the task.
LEMMA DeleteClar ==
  ASSUME TypeOK, ClarInv, NEW k \in cont, FinishDelete(k)
  PROVE  ClarInv'
<1>1. k.task \in Task
  BY DEF TypeOK, ContRec
<1>2. /\ task'[k.task].status = "deleted"
      /\ \A u \in Task \ {k.task} : task'[u] = task[u]
  BY <1>1 DEF FinishDelete, TypeOK, Unborn
<1>3. \A c \in Clar : IF clar[c].task = k.task THEN clar'[c].status = "deleted"
                      ELSE clar'[c] = clar[c]
  BY DEF FinishDelete, FreeClar
<1>4. BlockedAwaitsAnswer'
  <2> SUFFICES ASSUME NEW u \in Task, task'[u].status = "blocked"
               PROVE  /\ task'[u].worker = None
                      /\ task'[u].clar # None
                      /\ clar'[task'[u].clar].status = "pending"
                      /\ clar'[task'[u].clar].task = u
    BY DEF BlockedAwaitsAnswer
  <2>1. u # k.task /\ task'[u] = task[u]
    BY <1>2
  <2>2. /\ task[u].worker = None /\ task[u].clar # None
        /\ clar[task[u].clar].status = "pending" /\ clar[task[u].clar].task = u
    BY <2>1 DEF ClarInv, BlockedAwaitsAnswer
  <2>3. task[u].clar \in Clar
    BY <2>2 DEF TypeOK, TaskRec
  <2> QED
    BY <2>1, <2>2, <2>3, <1>3
<1>5. PendingClarificationIsCurrent'
  <2> SUFFICES ASSUME NEW b \in Clar, clar'[b].status = "pending"
               PROVE  /\ clar'[b].task # None
                      /\ Exists(task', clar'[b].task)
                      /\ task'[clar'[b].task].clar = b
    BY DEF PendingClarificationIsCurrent
  <2>1. clar[b].task # k.task /\ clar'[b] = clar[b]
    BY <1>3
  <2>2. clar[b].task # None /\ Exists(task, clar[b].task) /\ task[clar[b].task].clar = b
    BY <2>1 DEF ClarInv, PendingClarificationIsCurrent
  <2>3. task'[clar[b].task] = task[clar[b].task]
    BY <2>1, <2>2, <1>2 DEF Exists
  <2> QED
    BY <2>1, <2>2, <2>3 DEF Exists
<1> QED
  BY <1>4, <1>5 DEF ClarInv

\* A step that becomes a team whose tasks keep, and touches no clarification.
LEMMA BecomeClar ==
  ASSUME TypeOK, ClarInv, NEW m, Become(m), KeepsClar(task, m.task), clar' = clar
  PROVE  ClarInv'
  BY KeepsClarInv DEF Become

\* Every step keeps the invariant.
LEMMA NextClar == TypeOK /\ ClarInv /\ [Next]_vars => ClarInv'
<1> SUFFICES ASSUME TypeOK, ClarInv, [Next]_vars PROVE ClarInv'
  OBVIOUS
<1> USE DEF teamVars, workerVars
<1>0. Team \in TeamRec /\ {} \in SUBSET Pairs /\ Team.task = task
  BY TeamType DEF Team
<1>same. ASSUME task' = task, clar' = clar PROVE ClarInv'
  <2>1. KeepsClar(task, task')
    BY <1>same DEF KeepsClar
  <2> QED
    BY <2>1, <1>same, KeepsClarInv
<1>create. ASSUME NEW t \in Task, CreateTask(t) PROVE ClarInv'
  <2> DEFINE m0 == [Team EXCEPT !.task = [@ EXCEPT ![t].status = "pending"]]
  <2>1. m0 \in TeamRec
    BY <1>0, PendingType
  <2>2. KeepsClar(task, m0.task)
    <3>1. \A u \in Task : \/ m0.task[u] = task[u]
                          \/ m0.task[u].status = "pending" /\ m0.task[u].clar = task[u].clar
      BY <1>0 DEF TeamRec, TaskRec
    <3> HIDE DEF m0
    <3> QED
      BY <3>1, MovesKeep DEF Status
  <2>3. PICK m \in autoAssignPendingTasks(m0, {}) : Become(m)
    BY <1>create DEF CreateTask
  <2>4. KeepsClar(m0.task, m.task)
    BY <2>1, <1>0, AutoKeeps
  <2> QED
    BY <2>2, <2>3, <2>4, <1>create, KeepsTrans, BecomeClar DEF CreateTask
<1>register. ASSUME NEW w \in Worker, RegisterWorker(w) PROVE ClarInv'
  <2> DEFINE m0 == [Team EXCEPT !.worker[w] = [status |-> "idle", cur |-> None, fresh |-> TRUE]]
  <2>1. m0 \in TeamRec /\ m0.task = task
    BY <1>0 DEF TeamRec, WorkerRec
  <2>2. PICK m \in autoAssignPendingTasks(m0, {}) : Become(m)
    BY <1>register DEF RegisterWorker
  <2>3. KeepsClar(task, m.task)
    BY <2>1, <1>0, AutoKeeps
  <2> QED
    BY <2>2, <2>3, <1>register, BecomeClar DEF RegisterWorker
<1>remove. ASSUME NEW w \in Worker, RemoveWorker(w) PROVE ClarInv'
  <2> DEFINE orphan(k) == k.worker = w
                          /\ k.status \in {"pending", "assigned", "in_progress", "review"}
             ts == [t \in Task |->
                     IF orphan(task[t]) THEN resetTaskForFreshAttempt(unassign(task[t]))
                     ELSE task[t]]
             m0 == [Team EXCEPT !.worker[w] = Absent, !.task = ts]
  <2>1. ts \in [Task -> TaskRec]
    BY UnassignType, ResetType DEF TypeOK
  <2>2. Absent \in WorkerRec
    BY DEF Absent, WorkerRec
  <2>3. m0 \in TeamRec /\ m0.task = ts
    BY <1>0, <2>1, <2>2 DEF TeamRec
  <2>4. KeepsClar(task, ts)
    <3>1. \A t \in Task : task[t] \in TaskRec
      BY DEF TypeOK
    <3>2. \A t \in Task : ts[t] = task[t] \/ ts[t] = resetTaskForFreshAttempt(unassign(task[t]))
      OBVIOUS
    <3> HIDE DEF ts
    <3> QED
      BY <3>1, <3>2, UnassignClar, MovesKeep DEF Status
  <2> HIDE DEF ts
  <2>5. PICK m \in autoAssignPendingTasks(m0, {}) : Become(m)
    BY <1>remove DEF RemoveWorker, ts
  <2>6. KeepsClar(ts, m.task)
    BY <2>3, <1>0, AutoKeeps
  <2> QED
    BY <2>4, <2>5, <2>6, <1>remove, KeepsTrans, BecomeClar DEF RemoveWorker
<1>beat. ASSUME NEW b \in beat, Heartbeat(b) PROVE ClarInv'
  <2> DEFINE ws == IF worker[b.worker].status = "absent" THEN worker
                   ELSE [worker EXCEPT ![b.worker] =
                          [status |-> IF b.cur = None THEN "idle" ELSE "busy",
                           cur |-> b.cur, fresh |-> TRUE]]
             m0 == [Team EXCEPT !.worker = ws]
  <2>1. b.worker \in Worker /\ b.cur \in Task \cup {None}
    BY DEF TypeOK, BeatRec
  <2>2. ws \in [Worker -> WorkerRec]
    BY <2>1 DEF TypeOK, WorkerRec
  <2>3. m0 \in TeamRec /\ m0.task = task
    BY <1>0, <2>2 DEF TeamRec
  <2>4. PICK m \in (IF b.cur = None THEN autoAssignPendingTasks(m0, {}) ELSE {m0}) : Become(m)
    BY <1>beat DEF Heartbeat
  <2>5. KeepsClar(task, task)
    BY DEF KeepsClar
  <2>6. KeepsClar(task, m.task)
    BY <2>3, <2>4, <2>5, <1>0, AutoKeeps
  <2> QED
    BY <2>4, <2>6, <1>beat, BecomeClar DEF Heartbeat
<1>timeout. ASSUME TimeoutTick PROVE ClarInv'
  <2>1. \A t \in Task : task'[t] = task[t] \/ task'[t] = unassign(task[t])
    BY <1>timeout DEF TimeoutTick
  <2>2. \A t \in Task : task[t] \in TaskRec
    BY DEF TypeOK
  <2>3. KeepsClar(task, task')
    BY <2>1, <2>2, UnassignClar, MovesKeep DEF Status
  <2> QED
    BY <2>3, <1>timeout, KeepsClarInv DEF TimeoutTick
<1>accept. ASSUME NEW d \in dispatch, WorkerAccepts(d) PROVE ClarInv'
  BY <1>accept, <1>same DEF WorkerAccepts
<1>done. ASSUME NEW d \in dispatch, DispatchSucceeds(d) PROVE ClarInv'
  <2> DEFINE m0 == [Team EXCEPT !.dispatch = @ \ {d}]
  <2>1. d.tried \in SUBSET Pairs
    BY DEF TypeOK, DispatchRec, Pairs
  <2>2. m0 \in TeamRec /\ m0.task = task
    BY <1>0 DEF TeamRec
  <2>3. PICK m \in (IF d.auto THEN autoAssignPendingTasks(m0, d.tried) ELSE {m0}) : Become(m)
    BY <1>done DEF DispatchSucceeds
  <2>4. KeepsClar(task, task)
    BY DEF KeepsClar
  <2>5. KeepsClar(task, m.task)
    BY <2>1, <2>2, <2>3, <2>4, AutoKeeps
  <2> QED
    BY <2>3, <2>5, <1>done, BecomeClar DEF DispatchSucceeds
<1>fail. ASSUME NEW d \in dispatch, DispatchFails(d) PROVE ClarInv'
  <2> DEFINE m0 == [Team EXCEPT !.dispatch = @ \ {d}]
             reverted == revertTaskAssignment(m0, d.task, d.worker)
             again == IF Exists(task, d.task) THEN autoAssignPendingTasks(reverted, {})
                      ELSE {reverted}
  <2>1. d.tried \in SUBSET Pairs /\ d.task \in Task /\ d.worker \in Worker
    BY DEF TypeOK, DispatchRec, Pairs
  <2>2. m0 \in TeamRec /\ m0.task = task
    BY <1>0 DEF TeamRec
  <2>3. reverted \in TeamRec
    BY <2>1, <2>2, RevertType
  <2>4. KeepsClar(task, reverted.task)
    <3>1. \A t \in Task : reverted.task[t] = task[t] \/ reverted.task[t] = unassign(task[t])
      BY <2>1, <2>2 DEF revertTaskAssignment, TypeOK
    <3>2. \A t \in Task : task[t] \in TaskRec
      BY DEF TypeOK
    <3> HIDE DEF reverted
    <3> QED
      BY <3>1, <3>2, UnassignClar, MovesKeep DEF Status
  <2> HIDE DEF reverted, m0
  <2>5. PICK m1 \in again :
          \E m \in (IF d.auto THEN autoAssignPendingTasks(m1, d.tried) ELSE {m1}) : Become(m)
    BY <1>fail DEF DispatchFails, reverted, m0
  <2>6. m1 \in TeamRec
    BY <2>3, <2>5, <1>0, AutoType
  <2>7. KeepsClar(task, m1.task)
    BY <2>3, <2>4, <2>5, <1>0, AutoKeeps, KeepsTrans
  <2>8. PICK m \in (IF d.auto THEN autoAssignPendingTasks(m1, d.tried) ELSE {m1}) : Become(m)
    BY <2>5
  <2>9. KeepsClar(task, m.task)
    BY <2>1, <2>6, <2>7, <2>8, AutoKeeps, KeepsTrans
  <2> QED
    BY <2>8, <2>9, <1>fail, BecomeClar DEF DispatchFails
<1>running. ASSUME NEW x \in mail, ReceiveRunning(x) PROVE ClarInv'
  <2>1. \A t \in Task : \/ task'[t] = task[t]
                        \/ task'[t].status = "in_progress" /\ task'[t].clar = task[t].clar
    BY <1>running DEF ReceiveRunning, TypeOK, TaskRec
  <2>2. KeepsClar(task, task')
    BY <2>1, MovesKeep DEF Status
  <2> QED
    BY <2>2, <1>running, KeepsClarInv DEF ReceiveRunning
<1>result. ASSUME NEW x \in mail, ReceiveResult(x) PROVE ClarInv'
  <2>1. x.task \in Task
    BY DEF TypeOK, MailRec
  <2>2. PICK m \in (IF canAcceptWorkerUpdate(x.task, x.worker)
                    THEN applyTaskResult(Team, x.task, x.kind) ELSE {Team}) : Become(m)
    BY <1>result DEF ReceiveResult
  <2>3. KeepsClar(task, task)
    BY DEF KeepsClar
  <2>4. KeepsClar(task, m.task)
    BY <2>1, <2>2, <2>3, <1>0, ApplyKeeps
  <2> QED
    BY <2>2, <2>4, <1>result, BecomeClar DEF ReceiveResult
<1>request. ASSUME NEW r \in runs, RequestClarification(r) PROVE ClarInv'
  <2>1. r.task \in Task /\ r.worker \in Worker
    BY DEF TypeOK, RunRec
  <2> QED
    BY <2>1, <1>request, RequestClar DEF RequestClarification
<1>blocked. ASSUME NEW x \in mail, ReceiveBlocked(x) PROVE ClarInv'
  <2>1. x.task \in Task /\ x.worker \in Worker
    BY DEF TypeOK, MailRec
  <2>2. CASE reportBlocked(x.task, x.worker, x.kind)
    BY <2>1, <2>2, ReportClar
  <2>3. CASE UNCHANGED <<teamVars, clar, cont>>
    BY <2>3, <1>same
  <2> QED
    BY <2>2, <2>3, <1>blocked DEF ReceiveBlocked
<1>typed. ASSUME NEW t \in Task, NEW kind \in Outcome, ManualBlocked(t, kind) PROVE ClarInv'
  BY <1>typed, ReportClar DEF ManualBlocked
<1>resume. ASSUME NEW k \in cont, ResumeAfterAnswer(k) PROVE ClarInv'
  <2> DEFINE pool == IF k.worker # None /\ worker[k.worker].status = "idle"
                     THEN {k.worker} ELSE Worker
  <2>1. k.task \in Task /\ k.worker \in Worker \cup {None}
    BY DEF TypeOK, ContRec
  <2>2. pool \in SUBSET Worker
    BY <2>1
  <2> HIDE DEF pool
  <2>3. PICK m \in routeAndAssign(Team, k.task, pool) : Become(m)
    BY <1>resume DEF ResumeAfterAnswer, pool
  <2>4. KeepsClar(task, m.task)
    BY <2>1, <2>2, <2>3, <1>0, RouteKeeps
  <2> QED
    BY <2>3, <2>4, <1>resume, BecomeClar DEF ResumeAfterAnswer
<1>handoff. ASSUME NEW t \in Task, Handoff(t) PROVE ClarInv'
  <2> DEFINE prev == task[t].worker
             freed == [task |-> [task EXCEPT ![t] =
                         [resetTaskForFreshAttempt(unassign(task[t])) EXCEPT !.handed = TRUE]],
                       worker |-> freeWorker(worker, prev),
                       dispatch |-> dispatch]
             new == [resetTaskForFreshAttempt(unassign(task[t])) EXCEPT !.handed = TRUE]
  <2>0. resetTaskForFreshAttempt(unassign(task[t])) \in TaskRec
    BY UnassignType, ResetType DEF TypeOK
  <2>1. freed \in TeamRec
    <3>1. new \in TaskRec
      BY <2>0 DEF TaskRec
    <3> QED
      BY <3>1, FreeType DEF TypeOK, TeamRec
  <2>2. KeepsClar(task, freed.task)
    <3>1. \A u \in Task : freed.task[u] = task[u] \/ (u = t /\ freed.task[u] = new)
      BY DEF TypeOK
    <3>2. new.status = "pending" /\ new.clar = task[t].clar
      <4>1. task[t] \in TaskRec
        BY DEF TypeOK
      <4> QED
        BY <2>0, <4>1, UnassignClar DEF TaskRec
    <3> HIDE DEF freed, new
    <3> QED
      BY <3>1, <3>2, MovesKeep DEF Status
  <2> HIDE DEF freed
  <2>3. PICK m \in {freed} \cup routeAndAssign(freed, t, Worker) : Become(m)
    BY <1>handoff DEF Handoff, freed
  <2>4. KeepsClar(task, m.task)
    BY <2>1, <2>2, <2>3, RouteKeeps, KeepsTrans
  <2> QED
    BY <2>3, <2>4, <1>handoff, BecomeClar DEF Handoff
<1>finish. ASSUME NEW k \in cont, FinishHandoff(k) PROVE ClarInv'
  <2>1. k.task \in Task
    BY DEF TypeOK, ContRec
  <2>2. PICK m \in routeAndAssign(Team, k.task, Worker) : Become(m)
    BY <1>finish DEF FinishHandoff
  <2>3. KeepsClar(task, m.task)
    BY <2>1, <2>2, <1>0, RouteKeeps
  <2> QED
    BY <2>2, <2>3, <1>finish, BecomeClar DEF FinishHandoff
<1>patch. ASSUME NEW r \in runs, NEW status \in {"in_progress", "review"}, PatchTask(r, status)
          PROVE ClarInv'
  <2>1. \A t \in Task : \/ task'[t] = task[t]
                        \/ task'[t].status = status /\ task'[t].clar = task[t].clar
    BY <1>patch DEF PatchTask, TypeOK, TaskRec
  <2>2. KeepsClar(task, task')
    BY <2>1, MovesKeep DEF Status
  <2> QED
    BY <2>2, <1>patch, KeepsClarInv DEF PatchTask
<1>assign. ASSUME NEW t \in Task, NEW w \in Worker, ManualAssign(t, w) PROVE ClarInv'
  <2> DEFINE m == assignTaskToWorker(Team, t, w, FALSE, {})
  <2>1. KeepsClar(task, m.task)
    BY <1>0, AssignKeeps
  <2>2. Become(m)
    BY <1>assign DEF ManualAssign
  <2> HIDE DEF m
  <2> QED
    BY <2>1, <2>2, <1>assign, BecomeClar DEF ManualAssign
<1>manual. ASSUME NEW t \in Task, NEW kind \in Outcome, ManualResult(t, kind)
           PROVE ClarInv'
  <2>1. PICK m \in applyTaskResult(Team, t, kind) : Become(m)
    BY <1>manual DEF ManualResult
  <2>2. KeepsClar(task, m.task)
    BY <2>1, <1>0, ApplyKeeps
  <2> QED
    BY <2>1, <2>2, <1>manual, BecomeClar DEF ManualResult
<1>restart. ASSUME Restart PROVE ClarInv'
  <2>1. \A t \in Task : task[t] \in TaskRec
    BY DEF TypeOK
  <2>2. ASSUME NEW t \in Task
        PROVE  \/ task'[t] = task[t]
               \/ task'[t] = [task[t] EXCEPT !.status = "failed"]
               \/ task'[t] = [unassign(task[t]) EXCEPT !.resume = @ + 1]
    BY <1>restart DEF Restart
  <2>3. ASSUME NEW t \in Task
        PROVE  \/ task'[t] = task[t]
               \/ task'[t].status \in {"failed", "pending"} /\ task'[t].clar = task[t].clar
    <3>1. ASSUME NEW x \in TaskRec
          PROVE  LET y == [x EXCEPT !.status = "failed"]
                     z == [unassign(x) EXCEPT !.resume = @ + 1]
                 IN  y.status = "failed" /\ y.clar = x.clar /\ z.status = "pending" /\ z.clar = x.clar
      BY DEF unassign, TaskRec
    <3> DEFINE y == [task[t] EXCEPT !.status = "failed"]
               z == [unassign(task[t]) EXCEPT !.resume = @ + 1]
    <3>2. y.status = "failed" /\ y.clar = task[t].clar /\ z.status = "pending" /\ z.clar = task[t].clar
      BY <2>1, <3>1
    <3>3. task'[t] \in {task[t], y, z}
      BY <2>2
    <3> HIDE DEF y, z
    <3> QED
      BY <3>2, <3>3
  <2>4. KeepsClar(task, task')
    BY <2>3, MovesKeep DEF Status
  <2> QED
    BY <2>4, <1>restart, KeepsClarInv DEF Restart
<1>quiet. ASSUME \/ \E w \in Worker : SendHeartbeat(w) \/ GoStale(w) \/ WorkerCrash(w)
                 \/ \E x \in mail : LoseMail(x)
                 \/ \E t \in Task : DeleteTask(t)
                 \/ \E r \in runs, kind \in Outcome : RunEnds(r, kind)
                 \/ \E k \in cont : CancelDelivered(k) \/ CancelFails(k)
                 \/ UNCHANGED vars
          PROVE ClarInv'
  BY <1>quiet, <1>same
     DEF SendHeartbeat, GoStale, WorkerCrash, LoseMail, DeleteTask, RunEnds, CancelDelivered,
         CancelFails, vars
<1> QED
  BY <1>create, <1>register, <1>remove, <1>beat, <1>timeout, <1>accept, <1>done, <1>fail,
     <1>running, <1>result, <1>request, <1>blocked, AnswerClar, <1>resume, <1>handoff,
     <1>finish, <1>patch, <1>assign, <1>manual, <1>typed, DeleteClar, <1>restart, <1>quiet DEF Next

\* A blocked task always has the open question it waits for, and no worker.
THEOREM BlockedTasksAwaitAnAnswer == Spec => []BlockedAwaitsAnswer
<1>1. TypeOK /\ ClarInv => BlockedAwaitsAnswer
  BY DEF ClarInv
<1> QED
  BY <1>1, InitType, NextType, InitClar, NextClar, PTL DEF Spec

\* An open question always is the current question of a task that exists.
THEOREM QuestionsAreCurrent == Spec => []PendingClarificationIsCurrent
<1>1. TypeOK /\ ClarInv => PendingClarificationIsCurrent
  BY DEF ClarInv
<1> QED
  BY <1>1, InitType, NextType, InitClar, NextClar, PTL DEF Spec

-----------------------------------------------------------------------------
(* One writer per repository.  Without the paths that bypass the filter of the *)
(* auto-assign loop, the filter and the assignment it guards happen in one     *)
(* stretch, so no interleaving of loops, reverts, timeouts and restarts can    *)
(* bring a second writer in.                                                   *)

Active(ts, t) == ts[t].status \in {"assigned", "in_progress"}

\* Active writers have different roots, and no task was handed off: the result of one
\* that was can raise a question.
Serial(ts) ==
  /\ \A t, u \in Task :
       t # u /\ Root[t] # None /\ Active(ts, t) /\ Active(ts, u) => Root[t] # Root[u]
  /\ \A t \in Task : ~ts[t].handed

\* The bypassing paths are not under way.
NoBypass ==
  /\ \A c \in Clar : clar[c].status # "pending"
  /\ \A x \in mail : x.kind # "blocked"
  /\ \A k \in cont : k.op \notin {"answer", "handoff"}

\* The property checked by TLC says that active writers are apart.
LEMMA SerialIsOneWriter == Serial(task) => OneWriterPerRoot
  BY DEF Serial, Active, OneWriterPerRoot

\* Stopping writers keeps the others apart.
LEMMA FewerActive ==
  ASSUME NEW ts, NEW us, Serial(ts),
         \A t \in Task : (Active(us, t) => Active(ts, t)) /\ us[t].handed = ts[t].handed
  PROVE  Serial(us)
  BY DEF Serial

\* A new writer whose root no other writer holds is apart from them.
LEMMA OneMoreActive ==
  ASSUME NEW ts, NEW us, NEW t \in Task, Serial(ts),
         \A u \in Task \ {t} : us[u] = ts[u], us[t].handed = ts[t].handed,
         \A u \in Task : Root[u] # None /\ Active(ts, u) => Root[u] # Root[t]
  PROVE  Serial(us)
<1> SUFFICES ASSUME NEW a \in Task, NEW b \in Task, a # b, Root[a] # None,
                    Active(us, a), Active(us, b)
             PROVE  Root[a] # Root[b]
  BY DEF Serial
<1>1. CASE a # t /\ b # t
  BY <1>1 DEF Serial, Active
<1>2. CASE a = t \/ b = t
  BY <1>2 DEF Active
<1> QED
  BY <1>1, <1>2

\* The filter of the auto-assign loop keeps the writers apart.
LEMMA AutoApart ==
  ASSUME NEW m \in TeamRec, Serial(m.task), NEW tried \in SUBSET Pairs,
         NEW x \in autoAssignPendingTasks(m, tried)
  PROVE  Serial(x.task)
<1>1. ASSUME NEW p \in candidateAssignments(m, tried)
      PROVE  Serial(assignTaskToWorker(m, p[1], p[2], TRUE, tried \cup {p}).task)
  <2> DEFINE us == assignTaskToWorker(m, p[1], p[2], TRUE, tried \cup {p}).task
  <2>1. p[1] \in Task /\ Root[p[1]] \notin activeWriteRoots(m.task)
    BY DEF candidateAssignments
  <2>2. /\ \A u \in Task \ {p[1]} : us[u] = m.task[u]
        /\ us[p[1]].handed = m.task[p[1]].handed
    BY <2>1 DEF assignTaskToWorker, resetTaskForFreshAttempt, TeamRec, TaskRec
  <2>3. ASSUME NEW u \in Task, Root[u] # None, Active(m.task, u) PROVE Root[u] # Root[p[1]]
    <3>1. Root[u] \in activeWriteRoots(m.task)
      BY <2>3 DEF activeWriteRoots, Active
    <3> QED
      BY <2>1, <3>1
  <2> HIDE DEF us
  <2>4. Serial(us)
    BY <2>1, <2>2, <2>3, OneMoreActive
  <2> QED
    BY <2>4 DEF us
<1> QED
  BY <1>1 DEF autoAssignPendingTasks

\* Recording an outcome keeps them apart.
LEMMA ApplyApart ==
  ASSUME NEW m \in TeamRec, Serial(m.task), NEW t \in Task, NEW kind,
         NEW x \in applyTaskResult(m, t, kind)
  PROVE  Serial(x.task)
<1> DEFINE s == IF kind = "error" THEN "failed" ELSE "completed"
           ts == [m.task EXCEPT ![t] = [@ EXCEPT !.status = s, !.done = TRUE]]
<1>1. s \in {"failed", "completed"}
  OBVIOUS
<1>2. settle(m, t, kind).task = ts
  BY DEF settle
<1> HIDE DEF s
<1>3. \A u \in Task : (Active(ts, u) => Active(m.task, u)) /\ ts[u].handed = m.task[u].handed
  BY <1>1 DEF Active, TeamRec, TaskRec
<1> HIDE DEF ts
<1>4. Serial(settle(m, t, kind).task)
  BY <1>2, <1>3, FewerActive
<1>5. settle(m, t, kind) \in TeamRec /\ {} \in SUBSET Pairs
  BY SettleType
<1> QED
  BY <1>4, <1>5, AutoApart DEF applyTaskResult

\* Every step without a bypassing request keeps the writers apart.
LEMMA NextWriters ==
  ASSUME Ops \cap BypassOps = {}
  PROVE  TypeOK /\ NoBypass /\ Serial(task) /\ [Next]_vars
         => (NoBypass /\ Serial(task))'
<1> SUFFICES ASSUME TypeOK, NoBypass, Serial(task), [Next]_vars
             PROVE  NoBypass' /\ Serial(task')
  OBVIOUS
<1> USE DEF teamVars, workerVars
<1>0. /\ Team \in TeamRec /\ {} \in SUBSET Pairs /\ Team.task = task
      /\ "clarify" \notin Ops /\ "handoff" \notin Ops /\ "patch" \notin Ops
      /\ "assign" \notin Ops /\ "result" \notin Ops
  BY TeamType DEF Team, BypassOps
<1>1. ASSUME clar' = clar, cont' = cont, mail' \subseteq mail PROVE NoBypass'
  BY <1>1 DEF NoBypass
<1>2. ASSUME NEW m, Become(m), Serial(m.task) PROVE Serial(task')
  BY <1>2 DEF Become
<1>create. ASSUME NEW t \in Task, CreateTask(t) PROVE NoBypass' /\ Serial(task')
  <2> DEFINE m0 == [Team EXCEPT !.task = [@ EXCEPT ![t].status = "pending"]]
  <2>1. m0 \in TeamRec
    BY <1>0, PendingType
  <2>2. \A u \in Task : (Active(m0.task, u) => Active(task, u)) /\ m0.task[u].handed = task[u].handed
    BY <1>0 DEF TeamRec, TaskRec, Active
  <2>3. Serial(m0.task)
    BY <2>2, FewerActive
  <2> HIDE DEF m0
  <2>4. \A m \in autoAssignPendingTasks(m0, {}) : Serial(m.task)
    BY <2>1, <2>3, <1>0, AutoApart
  <2> QED
    BY <2>4, <1>1, <1>2, <1>create DEF CreateTask, m0
<1>register. ASSUME NEW w \in Worker, RegisterWorker(w) PROVE NoBypass' /\ Serial(task')
  <2> DEFINE m0 == [Team EXCEPT !.worker[w] = [status |-> "idle", cur |-> None, fresh |-> TRUE]]
  <2>1. m0 \in TeamRec /\ m0.task = task
    BY <1>0 DEF TeamRec, WorkerRec
  <2> HIDE DEF m0
  <2>2. \A m \in autoAssignPendingTasks(m0, {}) : Serial(m.task)
    BY <2>1, <1>0, AutoApart
  <2> QED
    BY <2>2, <1>1, <1>2, <1>register DEF RegisterWorker, m0
<1>remove. ASSUME NEW w \in Worker, RemoveWorker(w) PROVE NoBypass' /\ Serial(task')
  <2> DEFINE orphan(k) == k.worker = w
                          /\ k.status \in {"pending", "assigned", "in_progress", "review"}
             ts == [t \in Task |->
                     IF orphan(task[t]) THEN resetTaskForFreshAttempt(unassign(task[t]))
                     ELSE task[t]]
             m0 == [Team EXCEPT !.worker[w] = Absent, !.task = ts]
  <2>1. ts \in [Task -> TaskRec]
    BY UnassignType, ResetType DEF TypeOK
  <2>2. Absent \in WorkerRec
    BY DEF Absent, WorkerRec
  <2>3. m0 \in TeamRec /\ m0.task = ts
    BY <1>0, <2>1, <2>2 DEF TeamRec
  <2>4. Serial(ts)
    <3>1. \A t \in Task : \/ ts[t] = task[t]
                          \/ ts[t].status = "pending" /\ ts[t].handed = task[t].handed
      BY UnassignClar DEF TypeOK
    <3> QED
      BY <3>1, FewerActive DEF Active
  <2> HIDE DEF m0, ts
  <2>5. \A m \in autoAssignPendingTasks(m0, {}) : Serial(m.task)
    BY <2>3, <2>4, <1>0, AutoApart
  <2> QED
    BY <2>5, <1>1, <1>2, <1>remove DEF RemoveWorker, m0, ts
<1>beat. ASSUME NEW b \in beat, Heartbeat(b) PROVE NoBypass' /\ Serial(task')
  <2> DEFINE ws == IF worker[b.worker].status = "absent" THEN worker
                   ELSE [worker EXCEPT ![b.worker] =
                          [status |-> IF b.cur = None THEN "idle" ELSE "busy",
                           cur |-> b.cur, fresh |-> TRUE]]
             m0 == [Team EXCEPT !.worker = ws]
  <2>1. b.worker \in Worker /\ b.cur \in Task \cup {None}
    BY DEF TypeOK, BeatRec
  <2>2. ws \in [Worker -> WorkerRec]
    BY <2>1 DEF TypeOK, WorkerRec
  <2>3. m0 \in TeamRec /\ m0.task = task
    BY <1>0, <2>2 DEF TeamRec
  <2> HIDE DEF m0
  <2>4. \A m \in (IF b.cur = None THEN autoAssignPendingTasks(m0, {}) ELSE {m0}) :
          Serial(m.task)
    BY <2>3, <1>0, AutoApart
  <2> QED
    BY <2>4, <1>1, <1>2, <1>beat DEF Heartbeat, m0
<1>timeout. ASSUME TimeoutTick PROVE NoBypass' /\ Serial(task')
  <2>1. \A t \in Task : \/ task'[t] = task[t]
                        \/ task'[t].status = "pending" /\ task'[t].handed = task[t].handed
    BY <1>timeout, UnassignClar DEF TimeoutTick, TypeOK
  <2>2. Serial(task')
    BY <2>1, FewerActive DEF Active
  <2> QED
    BY <2>2, <1>1, <1>timeout DEF TimeoutTick
<1>accept. ASSUME NEW d \in dispatch, WorkerAccepts(d) PROVE NoBypass' /\ Serial(task')
  BY <1>accept DEF WorkerAccepts, NoBypass
<1>done. ASSUME NEW d \in dispatch, DispatchSucceeds(d) PROVE NoBypass' /\ Serial(task')
  <2> DEFINE m0 == [Team EXCEPT !.dispatch = @ \ {d}]
  <2>1. d.tried \in SUBSET Pairs
    BY DEF TypeOK, DispatchRec, Pairs
  <2>2. m0 \in TeamRec /\ m0.task = task
    BY <1>0 DEF TeamRec
  <2> HIDE DEF m0
  <2>3. \A m \in (IF d.auto THEN autoAssignPendingTasks(m0, d.tried) ELSE {m0}) :
          Serial(m.task)
    BY <2>1, <2>2, AutoApart
  <2> QED
    BY <2>3, <1>1, <1>2, <1>done DEF DispatchSucceeds, m0
<1>fail. ASSUME NEW d \in dispatch, DispatchFails(d) PROVE NoBypass' /\ Serial(task')
  <2> DEFINE m0 == [Team EXCEPT !.dispatch = @ \ {d}]
             reverted == revertTaskAssignment(m0, d.task, d.worker)
             again == IF Exists(task, d.task) THEN autoAssignPendingTasks(reverted, {})
                      ELSE {reverted}
  <2>1. d.tried \in SUBSET Pairs /\ d.task \in Task /\ d.worker \in Worker
    BY DEF TypeOK, DispatchRec, Pairs
  <2>2. m0 \in TeamRec /\ m0.task = task
    BY <1>0 DEF TeamRec
  <2>3. reverted \in TeamRec
    BY <2>1, <2>2, RevertType
  <2>4. Serial(reverted.task)
    <3>1. \A t \in Task : reverted.task[t] = task[t] \/ reverted.task[t] = unassign(task[t])
      BY <2>1, <2>2 DEF revertTaskAssignment, TypeOK
    <3> HIDE DEF reverted
    <3>2. \A t \in Task : task[t] \in TaskRec
      BY DEF TypeOK
    <3>3. \A t \in Task : \/ reverted.task[t] = task[t]
                          \/ /\ reverted.task[t].status = "pending"
                             /\ reverted.task[t].handed = task[t].handed
      BY <3>1, <3>2, UnassignClar
    <3> QED
      BY <3>3, FewerActive DEF Active
  <2> HIDE DEF reverted, m0
  <2>5. \A m1 \in again : m1 \in TeamRec /\ Serial(m1.task)
    BY <2>3, <2>4, <1>0, AutoType, AutoApart
  <2>6. PICK m1 \in again :
          \E m \in (IF d.auto THEN autoAssignPendingTasks(m1, d.tried) ELSE {m1}) : Become(m)
    BY <1>fail DEF DispatchFails, reverted, m0
  <2>7. \A m \in (IF d.auto THEN autoAssignPendingTasks(m1, d.tried) ELSE {m1}) :
          Serial(m.task)
    BY <2>1, <2>5, AutoApart
  <2> QED
    BY <2>6, <2>7, <1>1, <1>2, <1>fail DEF DispatchFails
<1>ends. ASSUME NEW r \in runs, NEW kind \in Outcome, RunEnds(r, kind)
         PROVE NoBypass' /\ Serial(task')
  <2>1. kind # "blocked"
    BY <1>ends, <1>0 DEF RunEnds, mayReport
  <2> QED
    BY <2>1, <1>ends DEF RunEnds, NoBypass
<1>running. ASSUME NEW x \in mail, ReceiveRunning(x) PROVE NoBypass' /\ Serial(task')
  <2>1. \A t \in Task : (Active(task', t) => Active(task, t)) /\ task'[t].handed = task[t].handed
    BY <1>running DEF ReceiveRunning, Active, TypeOK, TaskRec, MailRec
  <2>2. Serial(task')
    BY <2>1, FewerActive
  <2> QED
    BY <2>2, <1>1, <1>running DEF ReceiveRunning
<1>result. ASSUME NEW x \in mail, ReceiveResult(x) PROVE NoBypass' /\ Serial(task')
  <2>1. x.task \in Task
    BY DEF TypeOK, MailRec
  <2>2. \A m \in (IF canAcceptWorkerUpdate(x.task, x.worker)
                  THEN applyTaskResult(Team, x.task, x.kind) ELSE {Team}) : Serial(m.task)
    BY <2>1, <1>0, ApplyApart
  <2> QED
    BY <2>2, <1>1, <1>2, <1>result DEF ReceiveResult
<1>delete. ASSUME NEW t \in Task, DeleteTask(t) PROVE NoBypass' /\ Serial(task')
  BY <1>delete DEF DeleteTask, Suspend, NoBypass
<1>deleted. ASSUME NEW k \in cont, FinishDelete(k) PROVE NoBypass' /\ Serial(task')
  <2>1. \A t \in Task : \/ task'[t] = task[t]
                        \/ task'[t].status = "deleted" /\ ~task'[t].handed
    BY <1>deleted DEF FinishDelete, TypeOK, ContRec, Unborn
  <2>2. Serial(task')
    BY <2>1, FewerActive DEF Active, Serial
  <2>3. \A c \in Clar : clar'[c].status # "pending"
    BY <1>deleted DEF FinishDelete, NoBypass, FreeClar
  <2> QED
    BY <2>2, <2>3, <1>deleted DEF FinishDelete, NoBypass
<1>cancel. ASSUME NEW k \in cont, CancelDelivered(k) \/ CancelFails(k)
           PROVE NoBypass' /\ Serial(task')
  <2>1. [k EXCEPT !.phase = "ready"].op = k.op
    BY DEF TypeOK, ContRec
  <2>2. \A j \in cont' : j.op \notin {"answer", "handoff"}
    BY <2>1, <1>cancel DEF CancelDelivered, CancelFails, Resumed, NoBypass
  <2> QED
    BY <2>2, <1>cancel DEF CancelDelivered, CancelFails, NoBypass
<1>restart. ASSUME Restart PROVE NoBypass' /\ Serial(task')
  <2>1. \A t \in Task : task[t] \in TaskRec
    BY DEF TypeOK
  <2>2. ASSUME NEW t \in Task
        PROVE  \/ task'[t] = task[t]
               \/ task'[t] = [task[t] EXCEPT !.status = "failed"]
               \/ task'[t] = [unassign(task[t]) EXCEPT !.resume = @ + 1]
    BY <1>restart DEF Restart
  <2>3. ASSUME NEW t \in Task
        PROVE  \/ task'[t] = task[t]
               \/ /\ task'[t].status \in {"failed", "pending"}
                  /\ task'[t].handed = task[t].handed
    <3> DEFINE back == unassign(task[t])
    <3>1. task[t] \in TaskRec
      BY <2>1
    <3>2. back \in TaskRec /\ back.status = "pending" /\ back.handed = task[t].handed
      BY <3>1, UnassignType, UnassignClar
    <3>3. \/ task'[t] = task[t]
          \/ task'[t] = [task[t] EXCEPT !.status = "failed"]
          \/ task'[t] = [back EXCEPT !.resume = @ + 1]
      BY <2>2
    <3> HIDE DEF back
    <3> QED
      BY <3>1, <3>2, <3>3 DEF TaskRec
  <2>4. Serial(task')
    BY <2>3, FewerActive DEF Active
  <2> QED
    BY <2>4, <1>restart DEF Restart, NoBypass
<1>barred. ASSUME \/ \E r \in runs : RequestClarification(r)
                  \/ \E x \in mail : ReceiveBlocked(x)
                  \/ \E c \in Clar : AnswerClarification(c)
                  \/ \E k \in cont : ResumeAfterAnswer(k) \/ FinishHandoff(k)
                  \/ \E t \in Task : Handoff(t)
                  \/ \E r \in runs, status \in {"in_progress", "review"} : PatchTask(r, status)
                  \/ \E t \in Task, w \in Worker : ManualAssign(t, w)
                  \/ \E t \in Task, kind \in Outcome : ManualResult(t, kind) \/ ManualBlocked(t, kind)
           PROVE FALSE
  <2>1. \A x \in mail : ~saysBlocked(x.task, x.kind)
    BY DEF saysBlocked, NoBypass, Serial, TypeOK, MailRec
  <2> QED
    BY <1>barred, <1>0, <2>1
       DEF RequestClarification, ReceiveBlocked, AnswerClarification, ResumeAfterAnswer,
           FinishHandoff, Handoff, PatchTask, ManualAssign, ManualResult, ManualBlocked, NoBypass
<1>quiet. ASSUME \/ \E w \in Worker : SendHeartbeat(w) \/ GoStale(w) \/ WorkerCrash(w)
                 \/ \E x \in mail : LoseMail(x)
                 \/ UNCHANGED vars
          PROVE NoBypass' /\ Serial(task')
  BY <1>quiet, <1>1 DEF SendHeartbeat, GoStale, WorkerCrash, LoseMail, vars
<1> QED
  BY <1>create, <1>register, <1>remove, <1>beat, <1>timeout, <1>accept, <1>done, <1>fail,
     <1>ends, <1>running, <1>result, <1>delete, <1>deleted, <1>cancel, <1>restart,
     <1>barred, <1>quiet DEF Next

\* At most one active write task per checkout, as long as no request takes one of
\* the paths that ask no write root: whatever else fails or interleaves.
THEOREM OneWriterWithoutBypass ==
  ASSUME Ops \cap BypassOps = {}
  PROVE  Spec => []OneWriterPerRoot
<1>1. Init => NoBypass /\ Serial(task)
  BY DEF Init, NoBypass, Serial, Active, Unborn, FreeClar
<1>2. TypeOK /\ NoBypass /\ Serial(task) /\ [Next]_vars => (NoBypass /\ Serial(task))'
  BY NextWriters
<1> QED
  BY <1>1, <1>2, InitType, NextType, SerialIsOneWriter, PTL DEF Spec

-----------------------------------------------------------------------------
(* Recorded outcomes.  Where nobody asks questions, hands off, deletes or     *)
(* reports by hand, no handler is ever suspended, and the guard of each       *)
(* handler, evaluated in the stretch that changes the task, spares the tasks  *)
(* that have an outcome, but for the revert of an assignment.                 *)

\* The requests that leave a handler suspended, or a question or handoff behind.
SuspendOps == {"clarify", "handoff", "result", "delete"}

\* Nothing of what they leave behind exists.
Undisturbed ==
  /\ cont = {}
  /\ \A c \in Clar : clar[c].status # "pending"
  /\ \A x \in mail : x.kind # "blocked"
  /\ \A t \in Task : ~task[t].handed

Over(k) == k.done /\ k.status \in {"completed", "failed"}

\* What a handler does to the tasks, those of T aside.
Spares(ts, us, T) ==
  \A t \in Task : /\ us[t].handed = ts[t].handed
                  /\ Over(ts[t]) /\ t \notin T => us[t] = ts[t]

\* The tasks whose assignment may be reverted, and those of a tool that stores any status.
Exempt ==
  {t \in Task : "patch" \in Ops \/ \E d \in dispatch : d.task = t /\ d.worker = task[t].worker}

\* Sparing composes.
LEMMA SparesTrans ==
  ASSUME NEW ts, NEW us, NEW vs, NEW T, Spares(ts, us, T), Spares(us, vs, {})
  PROVE  Spares(ts, vs, T)
  BY DEF Spares

\* Tasks that change without an outcome are no exception.
LEMMA MovesSpare ==
  ASSUME NEW ts, NEW us, NEW T,
         \A t \in Task : us[t] = ts[t] \/ (us[t].handed = ts[t].handed /\ ~Over(ts[t]))
  PROVE  Spares(ts, us, T)
  BY DEF Spares

\* An auto-assign turn assigns tasks that wait for a worker.
LEMMA AutoSpares ==
  ASSUME NEW m \in TeamRec, NEW tried \in SUBSET Pairs,
         NEW x \in autoAssignPendingTasks(m, tried)
  PROVE  Spares(m.task, x.task, {})
<1>1. ASSUME NEW p \in candidateAssignments(m, tried)
      PROVE  Spares(m.task, assignTaskToWorker(m, p[1], p[2], TRUE, tried \cup {p}).task, {})
  <2>1. p[1] \in Task /\ m.task[p[1]].status \in {"pending", "assigned"}
    BY DEF candidateAssignments
  <2> QED
    BY <2>1 DEF assignTaskToWorker, resetTaskForFreshAttempt, Spares, Over, TeamRec, TaskRec
<1> QED
  BY <1>1 DEF autoAssignPendingTasks, Spares

\* An outcome is recorded of a task that has none.
LEMMA ApplySpares ==
  ASSUME NEW m \in TeamRec, NEW t \in Task, ~m.task[t].done, NEW kind,
         NEW x \in applyTaskResult(m, t, kind)
  PROVE  Spares(m.task, x.task, {})
<1> DEFINE s == IF kind = "error" THEN "failed" ELSE "completed"
           ts == [m.task EXCEPT ![t] = [@ EXCEPT !.status = s, !.done = TRUE]]
<1>1. settle(m, t, kind).task = ts
  BY DEF settle
<1> HIDE DEF s
<1>2. Spares(m.task, ts, {})
  BY DEF Spares, Over, TeamRec, TaskRec
<1> HIDE DEF ts
<1>3. settle(m, t, kind) \in TeamRec /\ {} \in SUBSET Pairs
  BY SettleType
<1>4. x = settle(m, t, kind) \/ x \in autoAssignPendingTasks(settle(m, t, kind), {})
  BY DEF applyTaskResult
<1>5. Spares(settle(m, t, kind).task, x.task, {})
  BY <1>3, <1>4, AutoSpares DEF Spares
<1> QED
  BY <1>1, <1>2, <1>5, SparesTrans

\* Every step without such a request spares the outcomes and leaves no handler behind.
LEMMA NextSpares ==
  ASSUME Ops \cap SuspendOps = {}
  PROVE  TypeOK /\ Undisturbed /\ [Next]_vars => Undisturbed' /\ Spares(task, task', Exempt)
<1> DEFINE Good == Undisturbed' /\ Spares(task, task', Exempt)
<1> SUFFICES ASSUME TypeOK, Undisturbed, [Next]_vars PROVE Good
  OBVIOUS
<1> USE DEF teamVars, workerVars
<1>0. /\ Team \in TeamRec /\ {} \in SUBSET Pairs /\ Team.task = task
      /\ "clarify" \notin Ops /\ "handoff" \notin Ops /\ "result" \notin Ops /\ "delete" \notin Ops
  BY TeamType DEF Team, SuspendOps
<1>1. ASSUME clar' = clar, cont' = cont, \A x \in mail' : x \in mail \/ x.kind # "blocked",
             Spares(task, task', Exempt)
      PROVE  Good
  BY <1>1 DEF Undisturbed, Spares
<1>2. Spares(task, task, Exempt)
  BY DEF Spares
\* A handler changes the tasks to those of m0 and starts an auto-assign loop.
<1>3. ASSUME NEW m0 \in TeamRec, Spares(task, m0.task, Exempt), NEW tried \in SUBSET Pairs,
             NEW m \in autoAssignPendingTasks(m0, tried) \cup {m0}, Become(m)
      PROVE  Spares(task, task', Exempt)
  <2>1. Spares(m0.task, m.task, {})
    BY <1>3, AutoSpares DEF Spares
  <2> QED
    BY <1>3, <2>1, SparesTrans DEF Become
<1>create. ASSUME NEW t \in Task, CreateTask(t) PROVE Good
  <2> DEFINE m0 == [Team EXCEPT !.task = [@ EXCEPT ![t].status = "pending"]]
  <2>1. m0 \in TeamRec
    BY <1>0, PendingType
  <2>2. Spares(task, m0.task, Exempt)
    BY <1>0, <1>create DEF CreateTask, TypeOK, TeamRec, TaskRec, Spares, Over
  <2> HIDE DEF m0
  <2>3. PICK m \in autoAssignPendingTasks(m0, {}) : Become(m)
    BY <1>create DEF CreateTask, m0
  <2> QED
    BY <2>1, <2>2, <2>3, <1>0, <1>1, <1>3, <1>create DEF CreateTask
<1>register. ASSUME NEW w \in Worker, RegisterWorker(w) PROVE Good
  <2> DEFINE m0 == [Team EXCEPT !.worker[w] = [status |-> "idle", cur |-> None, fresh |-> TRUE]]
  <2>1. m0 \in TeamRec /\ m0.task = task
    BY <1>0 DEF TeamRec, WorkerRec
  <2> HIDE DEF m0
  <2>2. PICK m \in autoAssignPendingTasks(m0, {}) : Become(m)
    BY <1>register DEF RegisterWorker, m0
  <2> QED
    BY <2>1, <2>2, <1>0, <1>1, <1>2, <1>3, <1>register DEF RegisterWorker
<1>remove. ASSUME NEW w \in Worker, RemoveWorker(w) PROVE Good
  <2> DEFINE orphan(k) == k.worker = w
                          /\ k.status \in {"pending", "assigned", "in_progress", "review"}
             ts == [t \in Task |->
                     IF orphan(task[t]) THEN resetTaskForFreshAttempt(unassign(task[t]))
                     ELSE task[t]]
             m0 == [Team EXCEPT !.worker[w] = Absent, !.task = ts]
  <2>1. ts \in [Task -> TaskRec]
    BY UnassignType, ResetType DEF TypeOK
  <2>2. Absent \in WorkerRec
    BY DEF Absent, WorkerRec
  <2>3. m0 \in TeamRec /\ m0.task = ts
    BY <1>0, <2>1, <2>2 DEF TeamRec
  <2>4. Spares(task, ts, Exempt)
    <3>1. \A t \in Task : \/ ts[t] = task[t]
                          \/ ts[t].handed = task[t].handed /\ ~Over(task[t])
      BY UnassignClar DEF TypeOK, Over
    <3> QED
      BY <3>1, MovesSpare
  <2> HIDE DEF m0, ts
  <2>5. PICK m \in autoAssignPendingTasks(m0, {}) : Become(m)
    BY <1>remove DEF RemoveWorker, m0, ts
  <2> QED
    BY <2>3, <2>4, <2>5, <1>0, <1>1, <1>3, <1>remove DEF RemoveWorker
<1>beat. ASSUME NEW b \in beat, Heartbeat(b) PROVE Good
  <2> DEFINE ws == IF worker[b.worker].status = "absent" THEN worker
                   ELSE [worker EXCEPT ![b.worker] =
                          [status |-> IF b.cur = None THEN "idle" ELSE "busy",
                           cur |-> b.cur, fresh |-> TRUE]]
             m0 == [Team EXCEPT !.worker = ws]
  <2>1. b.worker \in Worker /\ b.cur \in Task \cup {None}
    BY DEF TypeOK, BeatRec
  <2>2. ws \in [Worker -> WorkerRec]
    BY <2>1 DEF TypeOK, WorkerRec
  <2>3. m0 \in TeamRec /\ m0.task = task
    BY <1>0, <2>2 DEF TeamRec
  <2> HIDE DEF m0
  <2>4. PICK m \in autoAssignPendingTasks(m0, {}) \cup {m0} : Become(m)
    BY <1>beat DEF Heartbeat, m0
  <2> QED
    BY <2>3, <2>4, <1>0, <1>1, <1>2, <1>3, <1>beat DEF Heartbeat
<1>timeout. ASSUME TimeoutTick PROVE Good
  <2>1. \A t \in Task : \/ task'[t] = task[t]
                        \/ task'[t].handed = task[t].handed /\ ~Over(task[t])
    BY <1>timeout, UnassignClar DEF TimeoutTick, TypeOK, Over
  <2>2. Spares(task, task', Exempt)
    BY <2>1, MovesSpare
  <2> QED
    BY <2>2, <1>1, <1>timeout DEF TimeoutTick
<1>accept. ASSUME NEW d \in dispatch, WorkerAccepts(d) PROVE Good
  BY <1>accept, <1>1, <1>2 DEF WorkerAccepts
<1>done. ASSUME NEW d \in dispatch, DispatchSucceeds(d) PROVE Good
  <2> DEFINE m0 == [Team EXCEPT !.dispatch = @ \ {d}]
  <2>1. d.tried \in SUBSET Pairs
    BY DEF TypeOK, DispatchRec, Pairs
  <2>2. m0 \in TeamRec /\ m0.task = task
    BY <1>0 DEF TeamRec
  <2> HIDE DEF m0
  <2>3. PICK m \in autoAssignPendingTasks(m0, d.tried) \cup {m0} : Become(m)
    BY <1>done DEF DispatchSucceeds, m0
  <2> QED
    BY <2>1, <2>2, <2>3, <1>1, <1>2, <1>3, <1>done DEF DispatchSucceeds
<1>fail. ASSUME NEW d \in dispatch, DispatchFails(d) PROVE Good
  <2> DEFINE m0 == [Team EXCEPT !.dispatch = @ \ {d}]
             reverted == revertTaskAssignment(m0, d.task, d.worker)
             again == IF Exists(task, d.task) THEN autoAssignPendingTasks(reverted, {})
                      ELSE {reverted}
  <2>1. d.tried \in SUBSET Pairs /\ d.task \in Task /\ d.worker \in Worker
    BY DEF TypeOK, DispatchRec, Pairs
  <2>2. m0 \in TeamRec /\ m0.task = task
    BY <1>0 DEF TeamRec
  <2>3. reverted \in TeamRec
    BY <2>1, <2>2, RevertType
  <2>4. Spares(task, reverted.task, Exempt)
    <3>1. \A t \in Task : \/ reverted.task[t] = task[t]
                          \/ t \in Exempt /\ reverted.task[t] = unassign(task[t])
      BY <2>1, <2>2 DEF revertTaskAssignment, TypeOK, Exempt
    <3> HIDE DEF reverted
    <3> QED
      BY <3>1, UnassignClar DEF TypeOK, Spares
  <2> HIDE DEF reverted, m0
  <2>5. PICK m1 \in again :
          \E m \in autoAssignPendingTasks(m1, d.tried) \cup {m1} : Become(m)
    BY <1>fail DEF DispatchFails, reverted, m0
  <2>6. m1 \in TeamRec /\ Spares(reverted.task, m1.task, {})
    BY <2>3, <1>0, AutoType, AutoSpares DEF Spares
  <2>7. Spares(task, m1.task, Exempt)
    BY <2>4, <2>6, SparesTrans
  <2> QED
    BY <2>1, <2>5, <2>6, <2>7, <1>1, <1>3, <1>fail DEF DispatchFails
<1>ends. ASSUME NEW r \in runs, NEW kind \in Outcome, RunEnds(r, kind) PROVE Good
  <2>1. kind # "blocked"
    BY <1>ends, <1>0 DEF RunEnds, mayReport
  <2> QED
    BY <2>1, <1>1, <1>2, <1>ends DEF RunEnds
<1>patch. ASSUME NEW r \in runs, NEW status \in {"in_progress", "review"}, PatchTask(r, status)
          PROVE Good
  <2>1. r.task \in Task
    BY DEF TypeOK, RunRec
  <2>2. Exempt = Task
    BY <1>patch DEF PatchTask, Exempt
  <2>3. Spares(task, task', Exempt)
    BY <2>1, <2>2, <1>patch DEF PatchTask, Spares, TypeOK, TaskRec
  <2> QED
    BY <2>3, <1>1, <1>patch DEF PatchTask
<1>assign. ASSUME NEW t \in Task, NEW w \in Worker, ManualAssign(t, w) PROVE Good
  <2>1. task[t].status \in {"pending", "assigned"}
    BY <1>assign DEF ManualAssign, canAssign, Team
  <2>2. Spares(task, task', Exempt)
    BY <2>1, <1>0, <1>assign
       DEF ManualAssign, Become, assignTaskToWorker, resetTaskForFreshAttempt, Spares, Over,
           TypeOK, TaskRec
  <2> QED
    BY <2>2, <1>1, <1>assign DEF ManualAssign
<1>running. ASSUME NEW x \in mail, ReceiveRunning(x) PROVE Good
  <2>1. \A t \in Task : \/ task'[t] = task[t]
                        \/ task'[t].handed = task[t].handed /\ ~Over(task[t])
    BY <1>running DEF ReceiveRunning, TypeOK, TaskRec, MailRec, Over
  <2>2. Spares(task, task', Exempt)
    BY <2>1, MovesSpare
  <2> QED
    BY <2>2, <1>1, <1>running DEF ReceiveRunning
<1>result. ASSUME NEW x \in mail, ReceiveResult(x) PROVE Good
  <2>1. x.task \in Task
    BY DEF TypeOK, MailRec
  <2>2. \A m \in (IF canAcceptWorkerUpdate(x.task, x.worker)
                  THEN applyTaskResult(Team, x.task, x.kind) ELSE {Team}) :
          Spares(task, m.task, {})
    BY <2>1, <1>0, ApplySpares DEF canAcceptWorkerUpdate, Spares
  <2>3. Spares(task, task', {})
    BY <2>2, <1>result DEF ReceiveResult, Become
  <2>4. Spares(task, task', Exempt)
    BY <2>3 DEF Spares
  <2> QED
    BY <2>4, <1>1, <1>result DEF ReceiveResult
<1>restart. ASSUME Restart PROVE Good
  <2>1. \A t \in Task : task[t] \in TaskRec
    BY DEF TypeOK
  <2>2. ASSUME NEW t \in Task
        PROVE  \/ task'[t] = task[t]
               \/ task[t].status \in {"assigned", "in_progress"}
                  /\ (\/ task'[t] = [task[t] EXCEPT !.status = "failed"]
                      \/ task'[t] = [unassign(task[t]) EXCEPT !.resume = @ + 1])
    BY <1>restart DEF Restart
  <2>3. ASSUME NEW t \in Task
        PROVE  task'[t] = task[t] \/ (task'[t].handed = task[t].handed /\ ~Over(task[t]))
    <3> DEFINE back == unassign(task[t])
    <3>1. task[t] \in TaskRec
      BY <2>1
    <3>2. back \in TaskRec /\ back.handed = task[t].handed
      BY <3>1, UnassignType, UnassignClar
    <3>3. \/ task'[t] = task[t]
          \/ task[t].status \in {"assigned", "in_progress"}
             /\ (\/ task'[t] = [task[t] EXCEPT !.status = "failed"]
                 \/ task'[t] = [back EXCEPT !.resume = @ + 1])
      BY <2>2
    <3> HIDE DEF back
    <3> QED
      BY <3>1, <3>2, <3>3 DEF TaskRec, Over
  <2>4. Spares(task, task', Exempt)
    BY <2>3, MovesSpare
  <2> QED
    BY <2>4, <1>restart DEF Restart, Undisturbed, Spares
<1>barred. ASSUME \/ \E r \in runs : RequestClarification(r)
                  \/ \E x \in mail : ReceiveBlocked(x)
                  \/ \E c \in Clar : AnswerClarification(c)
                  \/ \E k \in cont : ResumeAfterAnswer(k) \/ FinishHandoff(k) \/ FinishDelete(k)
                                     \/ CancelDelivered(k) \/ CancelFails(k)
                  \/ \E t \in Task : Handoff(t) \/ DeleteTask(t)
                  \/ \E t \in Task, kind \in Outcome : ManualResult(t, kind) \/ ManualBlocked(t, kind)
           PROVE FALSE
  <2>1. \A x \in mail : ~saysBlocked(x.task, x.kind)
    BY DEF saysBlocked, Undisturbed, TypeOK, MailRec
  <2> QED
    BY <1>barred, <1>0, <2>1
       DEF RequestClarification, ReceiveBlocked, AnswerClarification, Handoff, DeleteTask,
           ManualResult, ManualBlocked, Undisturbed
<1>quiet. ASSUME \/ \E w \in Worker : SendHeartbeat(w) \/ GoStale(w) \/ WorkerCrash(w)
                 \/ \E x \in mail : LoseMail(x)
                 \/ UNCHANGED vars
          PROVE Good
  BY <1>quiet, <1>1, <1>2 DEF SendHeartbeat, GoStale, WorkerCrash, LoseMail, vars
<1> HIDE DEF Good
<1> QED
  BY <1>create, <1>register, <1>remove, <1>beat, <1>timeout, <1>accept, <1>done, <1>fail,
     <1>ends, <1>patch, <1>assign, <1>running, <1>result, <1>restart, <1>barred, <1>quiet DEF Next

\* In the beginning nothing is disturbed.
LEMMA InitUndisturbed == Init => Undisturbed
  BY DEF Init, Undisturbed, Unborn, FreeClar

\* A recorded outcome is final: crashes, lost and late reports, timeouts, removals of
\* workers, restarts and assignments by hand leave a settled task alone; the revert of a
\* dispatch whose reply is still awaited is the one exception (canAcceptWorkerUpdate,
\* revertTaskAssignment).
THEOREM OutcomesAreFinal ==
  ASSUME Ops \cap (SuspendOps \cup {"patch"}) = {}
  PROVE  Spec => SettledIsFinal
<1>1. TypeOK /\ Undisturbed /\ [Next]_vars => Undisturbed'
  BY NextSpares
<1>2. TypeOK /\ Undisturbed /\ [Next]_vars =>
        [\A t \in Task : Settled(t) /\ task'[t] # task[t] =>
           \E d \in dispatch : d.task = t /\ d.worker = task[t].worker]_vars
  BY NextSpares DEF Spares, Exempt, Over, Settled
<1> QED
  BY <1>1, <1>2, InitType, NextType, InitUndisturbed, PTL DEF Spec, SettledIsFinal

-----------------------------------------------------------------------------
(* At most one execution.  A task that waits for a worker has no assignment,  *)
(* execution or result anywhere; one that is held has at most one of them,    *)
(* at the worker that holds it; and a worker that holds a task stays listed,  *)
(* so that the filter of the auto-assign loop leaves the task alone.          *)

Held == {"assigned", "in_progress", "review"}

\* How a task stands says who holds it and whether it has an outcome.
TasksStand(ts, ws) ==
  \A t \in Task :
    /\ ts[t].status \in {"unborn", "pending", "completed", "failed"} \cup Held
    /\ ts[t].status \in {"unborn", "pending"} => ts[t].worker = None
    /\ ts[t].status \in Held =>
         ts[t].worker # None /\ ws[ts[t].worker].status # "absent" /\ ~ts[t].done

\* No worker is timed out.
WorkersFresh(ws) == \A w \in Worker : ws[w].fresh /\ ws[w].status # "offline"

DispatchedOnce(ts, ds) ==
  /\ \A d \in ds : /\ ts[d.task].status \in Held \cup {"completed", "failed"}
                   /\ d.worker = ts[d.task].worker
                   /\ ~d.accepted => ts[d.task].status \in Held
  /\ \A d, e \in ds : d.task = e.task => d = e

RunOnce(ts, rs) ==
  /\ \A r \in rs : ts[r.task].status \in Held /\ r.worker = ts[r.task].worker
  /\ \A r, q \in rs : r.task = q.task => r = q

Results(ml) == {x \in ml : x.kind # "running"}
ReportedOnce(ts, ml) ==
  /\ \A x \in Results(ml) : ts[x.task].status \in Held /\ x.worker = ts[x.task].worker
  /\ \A x, y \in Results(ml) : x.task = y.task => x = y

\* A task is waiting to be run, or is run, or was run.
InTurn(ds, rs, ml) ==
  /\ \A d \in ds : ~d.accepted => /\ \A r \in rs : r.task # d.task
                                  /\ \A x \in Results(ml) : x.task # d.task
  /\ \A r \in rs, x \in Results(ml) : x.task # r.task

Once(ts, ws, ds, rs, ml) ==
  /\ TasksStand(ts, ws) /\ WorkersFresh(ws)
  /\ DispatchedOnce(ts, ds) /\ RunOnce(ts, rs) /\ ReportedOnce(ts, ml) /\ InTurn(ds, rs, ml)

\* Nothing of a held task gets lost.
Carried(ts, ds, rs, ml) ==
  \A t \in Task : ts[t].status \in Held =>
    \/ \E d \in ds : d.task = t /\ ~d.accepted
    \/ \E r \in rs : r.task = t
    \/ \E x \in Results(ml) : x.task = t

\* An assignment of a waiting task to a listed worker.
LEMMA AssignOnce ==
  ASSUME NEW m \in TeamRec, NEW rs \in SUBSET RunRec, NEW ml \in SUBSET MailRec,
         Once(m.task, m.worker, m.dispatch, rs, ml),
         NEW t \in Task, NEW w \in Worker, NEW auto, NEW tried, m.task[t].status = "pending"
  PROVE  LET x == assignTaskToWorker(m, t, w, auto, tried)
         IN  /\ Once(x.task, x.worker, x.dispatch, rs, ml)
             /\ Carried(m.task, m.dispatch, rs, ml) => Carried(x.task, x.dispatch, rs, ml)
<1> DEFINE x == assignTaskToWorker(m, t, w, auto, tried)
           d == [task |-> t, worker |-> w, n |-> CHOOSE n \in freeAttempts(m, t, w) : TRUE,
                 accepted |-> FALSE, auto |-> auto, tried |-> tried]
<1>1. /\ x.dispatch = m.dispatch \cup {d}
      /\ d.task = t /\ d.worker = w /\ ~d.accepted
  BY DEF assignTaskToWorker
<1>2. /\ \A u \in Task \ {t} : x.task[u] = m.task[u]
      /\ x.task[t].status = "assigned" /\ x.task[t].worker = w /\ ~x.task[t].done
      /\ \A v \in Worker : /\ x.worker[v].fresh = m.worker[v].fresh
                           /\ v # w => x.worker[v] = m.worker[v]
      /\ x.worker[w].status = "busy"
  BY DEF assignTaskToWorker, resetTaskForFreshAttempt, TeamRec, TaskRec, WorkerRec
<1>3. /\ \A e \in m.dispatch : e.task \in Task /\ e.task # t
      /\ \A r \in rs : r.task \in Task /\ r.task # t
      /\ \A y \in Results(ml) : y.task \in Task /\ y.task # t
  BY DEF Once, DispatchedOnce, RunOnce, ReportedOnce, Held, TeamRec, DispatchRec, RunRec, MailRec,
         Results
<1>4. \A u \in Task : m.task[u].worker \in Worker \cup {None}
  BY DEF TeamRec, TaskRec
<1> HIDE DEF x, d
<1>5. TasksStand(x.task, x.worker)
  BY <1>2, <1>4, ConstantsAssumption DEF Once, TasksStand, Held
<1>6. WorkersFresh(x.worker)
  BY <1>2 DEF Once, WorkersFresh
<1>7. DispatchedOnce(x.task, x.dispatch)
  BY <1>1, <1>2, <1>3 DEF Once, DispatchedOnce, Held
<1>8. RunOnce(x.task, rs) /\ ReportedOnce(x.task, ml)
  BY <1>2, <1>3 DEF Once, RunOnce, ReportedOnce
<1>9. InTurn(x.dispatch, rs, ml)
  BY <1>1, <1>3 DEF Once, InTurn
<1>10. ASSUME Carried(m.task, m.dispatch, rs, ml) PROVE Carried(x.task, x.dispatch, rs, ml)
  BY <1>1, <1>2, <1>10 DEF Carried
<1> QED
  BY <1>5, <1>6, <1>7, <1>8, <1>9, <1>10 DEF Once, x

\* The filter on tasks that have a live worker leaves only waiting tasks to the loop.
LEMMA AutoOnce ==
  ASSUME NEW m \in TeamRec, NEW rs \in SUBSET RunRec, NEW ml \in SUBSET MailRec,
         Once(m.task, m.worker, m.dispatch, rs, ml),
         NEW tried \in SUBSET Pairs, NEW x \in autoAssignPendingTasks(m, tried) \cup {m}
  PROVE  /\ Once(x.task, x.worker, x.dispatch, rs, ml)
         /\ Carried(m.task, m.dispatch, rs, ml) => Carried(x.task, x.dispatch, rs, ml)
<1>1. ASSUME NEW p \in candidateAssignments(m, tried)
      PROVE  p[1] \in Task /\ p[2] \in Worker /\ m.task[p[1]].status = "pending"
  <2>1. /\ p[1] \in Task /\ p[2] \in Worker
        /\ m.task[p[1]].status \in {"pending", "assigned"}
        /\ ~Registered(m.worker, m.task[p[1]].worker)
    BY DEF candidateAssignments
  <2> QED
    BY <2>1 DEF Once, TasksStand, Registered, Held
<1>2. CASE x = m
  BY <1>2
<1>3. CASE \E p \in candidateAssignments(m, tried) :
             x = assignTaskToWorker(m, p[1], p[2], TRUE, tried \cup {p})
  BY <1>1, <1>3, AssignOnce
<1> QED
  BY <1>2, <1>3 DEF autoAssignPendingTasks

\* The result of a held task is recorded, and gone from the mail.
LEMMA ApplyOnce ==
  ASSUME NEW m \in TeamRec, NEW rs \in SUBSET RunRec, NEW ml \in SUBSET MailRec,
         Once(m.task, m.worker, m.dispatch, rs, ml),
         NEW y \in Results(ml), NEW x \in applyTaskResult(m, y.task, y.kind)
  PROVE  /\ Once(x.task, x.worker, x.dispatch, rs, ml \ {y})
         /\ Carried(m.task, m.dispatch, rs, ml) => Carried(x.task, x.dispatch, rs, ml \ {y})
<1> DEFINE t == y.task
           s == IF y.kind = "error" THEN "failed" ELSE "completed"
           m1 == settle(m, t, y.kind)
<1>1. t \in Task /\ s \in {"failed", "completed"} /\ Results(ml \ {y}) = Results(ml) \ {y}
  BY DEF Results, MailRec
<1>2. m1 \in TeamRec
  BY <1>1, SettleType
<1>3. m1.dispatch = m.dispatch
  BY DEF settle
<1>4. /\ m1.task = [m.task EXCEPT ![t] = [@ EXCEPT !.status = s, !.done = TRUE]]
      /\ m1.worker = freeWorker(m.worker, m.task[t].worker)
  BY DEF settle
<1> HIDE DEF s, m1
<1>5. /\ \A u \in Task \ {t} : m1.task[u] = m.task[u]
      /\ m1.task[t].status = s /\ m1.task[t].done /\ m1.task[t].worker = m.task[t].worker
  BY <1>1, <1>4 DEF TeamRec, TaskRec
<1>6. \A w \in Worker : /\ m1.worker[w].fresh = m.worker[w].fresh
                        /\ m1.worker[w].status = "offline" => m.worker[w].status = "offline"
                        /\ m1.worker[w].status = "absent" => m.worker[w].status = "absent"
  <2>1. m.worker \in [Worker -> WorkerRec]
    BY DEF TeamRec
  <2> QED
    BY <1>4, <2>1, FreeKeeps
<1>7. /\ \A d \in m.dispatch : d.task \in Task /\ (d.task = t => d.accepted)
      /\ \A r \in rs : r.task \in Task /\ r.task # t
      /\ \A z \in Results(ml) \ {y} : z.task \in Task /\ z.task # t
  BY DEF Once, InTurn, ReportedOnce, TeamRec, DispatchRec, RunRec, MailRec, Results
<1>8. \A u \in Task : m.task[u].worker \in Worker \cup {None}
  BY DEF TeamRec, TaskRec
<1> HIDE DEF t
<1>9. TasksStand(m1.task, m1.worker)
  BY <1>1, <1>5, <1>6, <1>8 DEF Once, TasksStand, Held
<1>10. WorkersFresh(m1.worker)
  BY <1>6 DEF Once, WorkersFresh
<1>11. DispatchedOnce(m1.task, m1.dispatch)
  BY <1>1, <1>3, <1>5, <1>7 DEF Once, DispatchedOnce, Held
<1>12. RunOnce(m1.task, rs) /\ ReportedOnce(m1.task, ml \ {y})
  BY <1>1, <1>5, <1>7 DEF Once, RunOnce, ReportedOnce
<1>13. InTurn(m1.dispatch, rs, ml \ {y})
  BY <1>1, <1>3 DEF Once, InTurn
<1>14. Once(m1.task, m1.worker, m1.dispatch, rs, ml \ {y})
  BY <1>9, <1>10, <1>11, <1>12, <1>13 DEF Once
<1>15. ASSUME Carried(m.task, m.dispatch, rs, ml) PROVE Carried(m1.task, m1.dispatch, rs, ml \ {y})
  <2> SUFFICES ASSUME NEW u \in Task, m1.task[u].status \in Held
               PROVE  \/ \E d \in m.dispatch : d.task = u /\ ~d.accepted
                      \/ \E r \in rs : r.task = u
                      \/ \E z \in Results(ml) \ {y} : z.task = u
    BY <1>1, <1>3 DEF Carried
  <2>1. u # t /\ m.task[u].status \in Held
    BY <1>1, <1>5 DEF Held
  <2> QED
    BY <1>15, <2>1 DEF Carried, t
<1>16. x \in autoAssignPendingTasks(m1, {}) \cup {m1} /\ {} \in SUBSET Pairs
  BY DEF applyTaskResult, m1, t
<1>17. ml \ {y} \in SUBSET MailRec
  OBVIOUS
<1> QED
  BY <1>2, <1>14, <1>15, <1>16, <1>17, AutoOnce

\* The failures that turn an assignment into a second one: a dispatch that fails
\* after the worker took the task, and a worker given up while it works.
DoubleFaults == {"dispatch", "stale"}
DoubleOps == SuspendOps \cup {"assign", "removeWorker"}

OnceInv == Once(task, worker, dispatch, runs, mail)
CarriedInv == Carried(task, dispatch, runs, mail) /\ \A w \in Worker : cancelled[w] = {}

\* Every step without them keeps a task from running twice, and where no process
\* stops and nothing is lost, from being forgotten.
LEMMA NextOnce ==
  ASSUME Ops \cap DoubleOps = {}, Faults \cap DoubleFaults = {}
  PROVE  TypeOK /\ Undisturbed /\ OnceInv /\ [Next]_vars =>
           /\ OnceInv'
           /\ CarriedInv /\ Faults \subseteq {"reregister"} => CarriedInv'
<1> DEFINE Good == /\ OnceInv'
                   /\ CarriedInv /\ Faults \subseteq {"reregister"} => CarriedInv'
<1> SUFFICES ASSUME TypeOK, Undisturbed, OnceInv, [Next]_vars PROVE Good
  OBVIOUS
<1> USE DEF teamVars, workerVars
<1>0. /\ Team \in TeamRec /\ {} \in SUBSET Pairs
      /\ Team.task = task /\ Team.worker = worker /\ Team.dispatch = dispatch
      /\ "clarify" \notin Ops /\ "handoff" \notin Ops /\ "result" \notin Ops /\ "delete" \notin Ops
      /\ "assign" \notin Ops /\ "removeWorker" \notin Ops
      /\ "dispatch" \notin Faults /\ "stale" \notin Faults
      /\ runs \in SUBSET RunRec /\ mail \in SUBSET MailRec
  BY TeamType DEF Team, DoubleOps, SuspendOps, DoubleFaults, TypeOK
\* A handler changes the team to m0 and starts an auto-assign loop.
<1>1. ASSUME NEW m0 \in TeamRec,
             Once(m0.task, m0.worker, m0.dispatch, runs, mail),
             CarriedInv => Carried(m0.task, m0.dispatch, runs, mail),
             NEW tried \in SUBSET Pairs,
             NEW m \in autoAssignPendingTasks(m0, tried) \cup {m0}, Become(m),
             runs' = runs, mail' = mail, cancelled' = cancelled
      PROVE  Good
  <2>1. /\ Once(m.task, m.worker, m.dispatch, runs, mail)
        /\ Carried(m0.task, m0.dispatch, runs, mail) => Carried(m.task, m.dispatch, runs, mail)
    BY <1>0, <1>1, AutoOnce
  <2> QED
    BY <1>1, <2>1 DEF Become, OnceInv, CarriedInv
<1>create. ASSUME NEW t \in Task, CreateTask(t) PROVE Good
  <2> DEFINE m0 == [Team EXCEPT !.task = [@ EXCEPT ![t].status = "pending"]]
  <2>1. m0 \in TeamRec
    BY <1>0, PendingType
  <2>2. task[t].status = "unborn"
    BY <1>create DEF CreateTask
  <2>3. /\ m0.worker = worker /\ m0.dispatch = dispatch
        /\ \A u \in Task \ {t} : m0.task[u] = task[u]
        /\ m0.task[t] = [task[t] EXCEPT !.status = "pending"]
    BY <1>0 DEF TeamRec
  <2>4. /\ m0.task[t].status = "pending" /\ m0.task[t].worker = task[t].worker
        /\ task[t] \in TaskRec
    <3>1. task[t] \in TaskRec
      BY DEF TypeOK
    <3> QED
      BY <2>3, <3>1 DEF TaskRec
  <2>5. /\ \A d \in dispatch : d.task \in Task /\ d.task # t
        /\ \A r \in runs : r.task \in Task /\ r.task # t
        /\ \A x \in Results(mail) : x.task \in Task /\ x.task # t
    BY <2>2 DEF OnceInv, Once, DispatchedOnce, RunOnce, ReportedOnce, TypeOK, DispatchRec, RunRec,
                MailRec, Results, Held
  <2> HIDE DEF m0
  <2>6. TasksStand(m0.task, m0.worker)
    BY <2>2, <2>3, <2>4 DEF OnceInv, Once, TasksStand, Held
  <2>7. DispatchedOnce(m0.task, m0.dispatch)
    BY <2>3, <2>4, <2>5 DEF OnceInv, Once, DispatchedOnce
  <2>8. RunOnce(m0.task, runs) /\ ReportedOnce(m0.task, mail)
    BY <2>3, <2>4, <2>5 DEF OnceInv, Once, RunOnce, ReportedOnce
  <2>9. Once(m0.task, m0.worker, m0.dispatch, runs, mail)
    BY <2>3, <2>6, <2>7, <2>8 DEF OnceInv, Once
  <2>10. CarriedInv => Carried(m0.task, m0.dispatch, runs, mail)
    BY <2>3, <2>4 DEF CarriedInv, Carried, Held
  <2>11. PICK m \in autoAssignPendingTasks(m0, {}) : Become(m)
    BY <1>create DEF CreateTask, m0
  <2> QED
    BY <2>1, <2>9, <2>10, <2>11, <1>0, <1>1, <1>create DEF CreateTask
\* Only the worker records change, and none of them disappears or times out.
<1>2. ASSUME NEW ws \in [Worker -> WorkerRec],
             \A w \in Worker : \/ ws[w] = worker[w]
                               \/ ws[w].fresh /\ ws[w].status \notin {"absent", "offline"}
      PROVE  Once(task, ws, dispatch, runs, mail)
  <2>1. \A u \in Task : task[u].worker \in Worker \cup {None}
    BY DEF TypeOK, TaskRec
  <2>2. TasksStand(task, ws)
    BY <1>2, <2>1 DEF OnceInv, Once, TasksStand
  <2>3. WorkersFresh(ws)
    BY <1>2 DEF OnceInv, Once, WorkersFresh
  <2> QED
    BY <2>2, <2>3 DEF OnceInv, Once
<1>register. ASSUME NEW w \in Worker, RegisterWorker(w) PROVE Good
  <2> DEFINE ws == [worker EXCEPT ![w] = [status |-> "idle", cur |-> None, fresh |-> TRUE]]
             m0 == [Team EXCEPT !.worker[w] = [status |-> "idle", cur |-> None, fresh |-> TRUE]]
  <2>1. ws \in [Worker -> WorkerRec]
    BY DEF TypeOK, WorkerRec
  <2>2. m0 \in TeamRec /\ m0.task = task /\ m0.worker = ws /\ m0.dispatch = dispatch
    BY <1>0, <2>1 DEF TeamRec
  <2>3. Once(task, ws, dispatch, runs, mail)
    BY <1>2, <2>1 DEF TypeOK
  <2>4. CarriedInv => Carried(task, dispatch, runs, mail)
    BY DEF CarriedInv
  <2> HIDE DEF m0, ws
  <2>5. PICK m \in autoAssignPendingTasks(m0, {}) : Become(m)
    BY <1>register DEF RegisterWorker, m0
  <2> QED
    BY <2>2, <2>3, <2>4, <2>5, <1>0, <1>1, <1>register DEF RegisterWorker
<1>beat. ASSUME NEW b \in beat, Heartbeat(b) PROVE Good
  <2> DEFINE ws == IF worker[b.worker].status = "absent" THEN worker
                   ELSE [worker EXCEPT ![b.worker] =
                          [status |-> IF b.cur = None THEN "idle" ELSE "busy",
                           cur |-> b.cur, fresh |-> TRUE]]
             m0 == [Team EXCEPT !.worker = ws]
  <2>1. b.worker \in Worker /\ b.cur \in Task \cup {None}
    BY DEF TypeOK, BeatRec
  <2>2. ws \in [Worker -> WorkerRec]
    BY <2>1 DEF TypeOK, WorkerRec
  <2>3. m0 \in TeamRec /\ m0.task = task /\ m0.worker = ws /\ m0.dispatch = dispatch
    BY <1>0, <2>2 DEF TeamRec
  <2>4. Once(task, ws, dispatch, runs, mail)
    BY <1>2, <2>1, <2>2 DEF TypeOK
  <2>5. CarriedInv => Carried(task, dispatch, runs, mail)
    BY DEF CarriedInv
  <2> HIDE DEF m0
  <2>6. PICK m \in autoAssignPendingTasks(m0, {}) \cup {m0} : Become(m)
    BY <1>beat DEF Heartbeat, m0
  <2> HIDE DEF ws
  <2> QED
    BY <2>3, <2>4, <2>5, <2>6, <1>0, <1>1, <1>beat DEF Heartbeat
<1>accept. ASSUME NEW d \in dispatch, WorkerAccepts(d) PROVE Good
  <2> DEFINE e == [d EXCEPT !.accepted = TRUE]
             r == [task |-> d.task, worker |-> d.worker, n |-> d.n]
             y == [task |-> d.task, worker |-> d.worker, kind |-> "running"]
  <2>1. /\ ~d.accepted /\ dispatch' = (dispatch \ {d}) \cup {e}
        /\ runs' = runs \cup {r} /\ mail' = mail \cup {y}
        /\ task' = task /\ worker' = worker
        /\ cancelled' = [cancelled EXCEPT ![d.worker] = @ \ {d.task}]
    BY <1>accept DEF WorkerAccepts
  <2>2. e.accepted /\ e.task = d.task /\ e.worker = d.worker
    BY DEF TypeOK, DispatchRec
  <2>3. Results(mail') = Results(mail) /\ r.task = d.task /\ r.worker = d.worker
    BY <2>1 DEF Results
  <2>4. task[d.task].status \in Held /\ d.worker = task[d.task].worker
    BY <2>1 DEF OnceInv, Once, DispatchedOnce
  <2> HIDE DEF e, r, y
  <2>5. DispatchedOnce(task, dispatch')
    BY <2>1, <2>2, <2>4 DEF OnceInv, Once, DispatchedOnce
  <2>6. RunOnce(task, runs')
    BY <2>1, <2>3, <2>4 DEF OnceInv, Once, RunOnce, InTurn
  <2>7. ReportedOnce(task, mail')
    BY <2>3 DEF OnceInv, Once, ReportedOnce
  <2>8. InTurn(dispatch', runs', mail')
    <3>1. \A b \in dispatch' : ~b.accepted => b \in dispatch /\ b.task # d.task
      BY <2>1, <2>2 DEF OnceInv, Once, DispatchedOnce
    <3>2. \A x \in Results(mail) : x.task # d.task
      BY <2>1 DEF OnceInv, Once, InTurn
    <3> QED
      BY <2>1, <2>3, <3>1, <3>2 DEF OnceInv, Once, InTurn
  <2>9. OnceInv'
    BY <2>1, <2>5, <2>6, <2>7, <2>8 DEF OnceInv, Once
  <2>10. ASSUME CarriedInv PROVE CarriedInv'
    <3>1. \A w \in Worker : cancelled'[w] = {}
      BY <2>1, <2>10 DEF CarriedInv, TypeOK
    <3>2. ASSUME NEW b \in dispatch, ~b.accepted
          PROVE  b \in dispatch' \/ \E q \in runs' : q.task = b.task
      BY <2>1, <2>3
    <3>3. runs \subseteq runs'
      BY <2>1
    <3>4. Carried(task, dispatch', runs', mail')
      BY <2>3, <2>10, <3>2, <3>3 DEF CarriedInv, Carried
    <3> QED
      BY <2>1, <3>1, <3>4 DEF CarriedInv
  <2> QED
    BY <2>9, <2>10
<1>done. ASSUME NEW d \in dispatch, DispatchSucceeds(d) PROVE Good
  <2> DEFINE m0 == [Team EXCEPT !.dispatch = @ \ {d}]
  <2>1. d.tried \in SUBSET Pairs
    BY DEF TypeOK, DispatchRec, Pairs
  <2>2. /\ m0 \in TeamRec /\ m0.task = task /\ m0.worker = worker
        /\ m0.dispatch = dispatch \ {d} /\ d.accepted
    BY <1>0, <1>done DEF TeamRec, DispatchSucceeds
  <2>3. Once(task, worker, dispatch \ {d}, runs, mail)
    BY DEF OnceInv, Once, DispatchedOnce, InTurn
  <2>4. CarriedInv => Carried(task, dispatch \ {d}, runs, mail)
    BY <2>2 DEF CarriedInv, Carried
  <2> HIDE DEF m0
  <2>5. PICK m \in autoAssignPendingTasks(m0, d.tried) \cup {m0} : Become(m)
    BY <1>done DEF DispatchSucceeds, m0
  <2> QED
    BY <2>1, <2>2, <2>3, <2>4, <2>5, <1>1, <1>done DEF DispatchSucceeds
<1>ends. ASSUME NEW r \in runs, NEW kind \in Outcome, RunEnds(r, kind) PROVE Good
  <2> DEFINE y == [task |-> r.task, worker |-> r.worker, kind |-> kind]
  <2>1. /\ runs' = runs \ {r} /\ mail' \in {mail, mail \cup {y}}
        /\ task' = task /\ worker' = worker /\ dispatch' = dispatch
    BY <1>ends DEF RunEnds
  <2>2. y.kind # "running"
    BY DEF Outcome
  <2>3. \A x \in Results(mail') : x \in Results(mail) \/ x = y
    BY <2>1 DEF Results
  <2>4. task[r.task].status \in Held /\ r.worker = task[r.task].worker
    BY DEF OnceInv, Once, RunOnce
  <2>5. /\ \A d \in dispatch : ~d.accepted => d.task # r.task
        /\ \A x \in Results(mail) : x.task # r.task
        /\ \A q \in runs : q.task = r.task => q = r
    BY DEF OnceInv, Once, InTurn, RunOnce
  <2>6. y.task = r.task /\ y.worker = r.worker
    OBVIOUS
  <2> HIDE DEF y
  <2>7. RunOnce(task, runs')
    BY <2>1 DEF OnceInv, Once, RunOnce
  <2>8. ReportedOnce(task, mail')
    BY <2>3, <2>4, <2>5, <2>6 DEF OnceInv, Once, ReportedOnce
  <2>9. InTurn(dispatch, runs', mail')
    BY <2>1, <2>3, <2>5, <2>6 DEF OnceInv, Once, InTurn
  <2>10. OnceInv'
    BY <2>1, <2>7, <2>8, <2>9 DEF OnceInv, Once
  <2>11. ASSUME CarriedInv PROVE CarriedInv'
    <3>1. cancelled[r.worker] = {} /\ cancelled' = cancelled
      BY <2>11, <1>ends DEF CarriedInv, RunEnds, TypeOK, RunRec
    <3>2. mail' = mail \cup {y}
      BY <3>1, <1>ends DEF RunEnds, y
    <3>3. Results(mail') = Results(mail) \cup {y}
      BY <2>2, <3>2 DEF Results
    <3>4. Carried(task, dispatch, runs', mail')
      BY <2>1, <2>6, <2>11, <3>3 DEF CarriedInv, Carried
    <3> QED
      BY <2>1, <2>11, <3>1, <3>4 DEF CarriedInv
  <2> QED
    BY <2>10, <2>11
\* A held task stays held by its worker.
<1>3. ASSUME NEW t \in Task, task[t].status \in Held, NEW s \in Held,
             task' = [task EXCEPT ![t] = [@ EXCEPT !.status = s]],
             worker' = worker, dispatch' = dispatch, runs' = runs, cancelled' = cancelled,
             Results(mail') = Results(mail)
      PROVE  Good
  <2>1. /\ \A u \in Task \ {t} : task'[u] = task[u]
        /\ task'[t].status = s /\ task'[t].worker = task[t].worker
        /\ task'[t].done = task[t].done
    BY <1>3 DEF TypeOK, TaskRec
  <2>2. /\ \A d \in dispatch : d.task \in Task
        /\ \A r \in runs : r.task \in Task
        /\ \A x \in Results(mail) : x.task \in Task
    BY DEF TypeOK, DispatchRec, RunRec, MailRec, Results
  <2>3. TasksStand(task', worker)
    BY <1>3, <2>1 DEF OnceInv, Once, TasksStand, Held
  <2>4. DispatchedOnce(task', dispatch)
    BY <1>3, <2>1, <2>2 DEF OnceInv, Once, DispatchedOnce
  <2>5. RunOnce(task', runs) /\ ReportedOnce(task', mail')
    BY <1>3, <2>1, <2>2 DEF OnceInv, Once, RunOnce, ReportedOnce
  <2>6. InTurn(dispatch, runs, mail')
    BY <1>3 DEF OnceInv, Once, InTurn
  <2>7. OnceInv'
    BY <1>3, <2>3, <2>4, <2>5, <2>6 DEF OnceInv, Once
  <2>8. CarriedInv => CarriedInv'
    BY <1>3, <2>1 DEF CarriedInv, Carried
  <2> QED
    BY <2>7, <2>8
<1>patch. ASSUME NEW r \in runs, NEW status \in {"in_progress", "review"}, PatchTask(r, status)
          PROVE Good
  <2>1. r.task \in Task /\ task[r.task].status \in Held /\ status \in Held
    BY DEF TypeOK, RunRec, OnceInv, Once, RunOnce, Held
  <2> QED
    BY <2>1, <1>3, <1>patch DEF PatchTask
\* Mail of another kind than a result goes.
<1>4. ASSUME UNCHANGED <<task, worker, dispatch, runs, cancelled>>,
             Results(mail') = Results(mail)
      PROVE  Good
  BY <1>4 DEF OnceInv, Once, ReportedOnce, InTurn, CarriedInv, Carried
<1>running. ASSUME NEW x \in mail, ReceiveRunning(x) PROVE Good
  <2>1. x.task \in Task /\ Results(mail') = Results(mail)
    BY <1>running DEF ReceiveRunning, Results, TypeOK, MailRec
  <2>2. CASE canAcceptWorkerUpdate(x.task, x.worker) /\ task[x.task].status = "assigned"
    BY <2>1, <2>2, <1>3, <1>running DEF ReceiveRunning, Held
  <2>3. CASE ~(canAcceptWorkerUpdate(x.task, x.worker) /\ task[x.task].status = "assigned")
    BY <2>1, <2>3, <1>4, <1>running DEF ReceiveRunning
  <2> QED
    BY <2>2, <2>3
<1>result. ASSUME NEW x \in mail, ReceiveResult(x) PROVE Good
  <2>1. x \in Results(mail)
    BY <1>result DEF ReceiveResult, Results, Outcome
  <2>2. x.task \in Task /\ task[x.task].status \in Held /\ x.worker = task[x.task].worker
    BY <2>1 DEF OnceInv, Once, ReportedOnce, TypeOK, MailRec, Results
  <2>3. canAcceptWorkerUpdate(x.task, x.worker)
    BY <2>2 DEF canAcceptWorkerUpdate, OnceInv, Once, TasksStand, Held
  <2>4. PICK m \in applyTaskResult(Team, x.task, x.kind) : Become(m)
    BY <2>3, <1>result DEF ReceiveResult
  <2>5. /\ Once(m.task, m.worker, m.dispatch, runs, mail \ {x})
        /\ Carried(task, dispatch, runs, mail) => Carried(m.task, m.dispatch, runs, mail \ {x})
    BY <2>1, <2>4, <1>0, ApplyOnce DEF OnceInv
  <2>6. mail' = mail \ {x} /\ runs' = runs /\ cancelled' = cancelled
    BY <1>result DEF ReceiveResult
  <2> QED
    BY <2>4, <2>5, <2>6 DEF Become, OnceInv, CarriedInv
\* What a stopped process or a lost report takes away does not run again.
<1>5. ASSUME UNCHANGED <<task, worker>>, dispatch' \subseteq dispatch, runs' \subseteq runs,
             mail' \subseteq mail, ~(Faults \subseteq {"reregister"})
      PROVE  Good
  <2>1. Results(mail') \subseteq Results(mail)
    BY <1>5 DEF Results
  <2>2. DispatchedOnce(task, dispatch') /\ RunOnce(task, runs') /\ ReportedOnce(task, mail')
    BY <2>1, <1>5 DEF OnceInv, Once, DispatchedOnce, RunOnce, ReportedOnce
  <2>3. InTurn(dispatch', runs', mail')
    BY <2>1, <1>5 DEF OnceInv, Once, InTurn
  <2> QED
    BY <2>2, <2>3, <1>5 DEF OnceInv, Once
<1>crash. ASSUME NEW w \in Worker, WorkerCrash(w) PROVE Good
  BY <1>crash, <1>5 DEF WorkerCrash
<1>lose. ASSUME NEW x \in mail, LoseMail(x) PROVE Good
  BY <1>lose, <1>5 DEF LoseMail
<1>restart. ASSUME Restart PROVE Good
  <2>1. \A t \in Task : task[t] \in TaskRec
    BY DEF TypeOK
  <2>2. ASSUME NEW t \in Task, task[t].worker # None, task[t].status \in {"assigned", "in_progress"}
        PROVE  worker[task[t].worker].status \notin {"absent", "offline"}
    <3>1. task[t].worker \in Worker
      BY <2>1, <2>2 DEF TaskRec
    <3> QED
      BY <2>2, <3>1 DEF OnceInv, Once, TasksStand, WorkersFresh, Held
  <2>3. task' = [t \in Task |-> task[t]]
    BY <2>2, <1>restart DEF Restart
  <2>4. task' = task
    BY <2>3 DEF TypeOK
  <2> QED
    BY <2>4, <1>restart, <1>5 DEF Restart
<1>barred. ASSUME \/ \E r \in runs : RequestClarification(r)
                  \/ \E x \in mail : ReceiveBlocked(x)
                  \/ \E c \in Clar : AnswerClarification(c)
                  \/ \E k \in cont : ResumeAfterAnswer(k) \/ FinishHandoff(k) \/ FinishDelete(k)
                                     \/ CancelDelivered(k) \/ CancelFails(k)
                  \/ \E t \in Task : Handoff(t) \/ DeleteTask(t)
                  \/ \E t \in Task, kind \in Outcome : ManualResult(t, kind) \/ ManualBlocked(t, kind)
                  \/ \E t \in Task, w \in Worker : ManualAssign(t, w)
                  \/ \E w \in Worker : RemoveWorker(w) \/ GoStale(w)
                  \/ \E d \in dispatch : DispatchFails(d)
                  \/ TimeoutTick
           PROVE FALSE
  <2>1. \A x \in mail : ~saysBlocked(x.task, x.kind)
    BY DEF saysBlocked, Undisturbed, TypeOK, MailRec
  <2>2. ~TimeoutTick
    BY DEF TimeoutTick, OnceInv, Once, WorkersFresh
  <2> QED
    BY <1>barred, <1>0, <2>1, <2>2
       DEF RequestClarification, ReceiveBlocked, AnswerClarification, Handoff, DeleteTask,
           ManualResult, ManualBlocked, ManualAssign, RemoveWorker, GoStale, DispatchFails,
           Undisturbed
<1>quiet. ASSUME \/ \E w \in Worker : SendHeartbeat(w)
                 \/ UNCHANGED vars
          PROVE Good
  BY <1>quiet, <1>4 DEF SendHeartbeat, vars
<1> HIDE DEF Good
<1> QED
  BY <1>create, <1>register, <1>beat, <1>accept, <1>done, <1>ends, <1>patch, <1>running,
     <1>result, <1>crash, <1>lose, <1>restart, <1>barred, <1>quiet DEF Next

\* In the beginning there is nothing to run twice or to lose.
LEMMA InitOnce == Init => OnceInv /\ CarriedInv
  BY DEF Init, OnceInv, CarriedInv, Once, Carried, TasksStand, WorkersFresh, DispatchedOnce, RunOnce,
         ReportedOnce, InTurn, Results, Held, Unborn, Absent

\* While nobody interferes, no dispatch fails and no worker is given up, a task is
\* executed once at a time, at the worker that holds it: the filter of the auto-assign
\* loop, heartbeats that arrive late, crashes, restarts and lost reports cannot start a
\* second run (autoAssignPendingTasks, restoreControllerTasks, the heartbeat handler).
THEOREM NoSecondRun ==
  ASSUME Ops \cap DoubleOps = {}, Faults \cap DoubleFaults = {}
  PROVE  Spec => []ExecutedOnce
<1>1. TypeOK /\ Undisturbed /\ [Next]_vars => Undisturbed'
  BY NextSpares DEF DoubleOps
<1>2. TypeOK /\ Undisturbed /\ OnceInv /\ [Next]_vars => OnceInv'
  BY NextOnce
<1>3. OnceInv => ExecutedOnce
  BY DEF OnceInv, Once, RunOnce, ExecutedOnce
<1>4. Init => OnceInv
  BY InitOnce
<1> QED
  BY <1>1, <1>2, <1>3, <1>4, InitType, NextType, InitUndisturbed, PTL DEF Spec

\* A task held by a worker is on its way to it, executed by it or reported by it, as
\* long as no process stops and nothing is lost; workers may register again at any time
\* (assignTaskToWorker, the worker's POST /tasks/assign, POST /tasks/:id/result).
THEOREM NoTaskIsForgotten ==
  ASSUME Ops \cap DoubleOps = {}, Faults \subseteq {"reregister"}
  PROVE  Spec => []AssignedHasCarrier
<1>1. Faults \cap DoubleFaults = {} /\ Ops \cap SuspendOps = {}
  BY DEF DoubleFaults, DoubleOps
<1>2. TypeOK /\ Undisturbed /\ [Next]_vars => Undisturbed'
  BY <1>1, NextSpares
<1>3. TypeOK /\ Undisturbed /\ OnceInv /\ CarriedInv /\ [Next]_vars => OnceInv' /\ CarriedInv'
  BY <1>1, NextOnce
<1>4. OnceInv /\ CarriedInv => AssignedHasCarrier
  <2> SUFFICES ASSUME OnceInv, CarriedInv, NEW t \in Task, task[t].status \in Held
               PROVE  \/ \E d \in dispatch :
                           (d.task = t /\ d.worker = task[t].worker) /\ ~d.accepted
                      \/ \E r \in runs : r.task = t /\ r.worker = task[t].worker
                      \/ \E x \in mail :
                           (x.task = t /\ x.worker = task[t].worker) /\ x.kind # "running"
    BY DEF AssignedHasCarrier, Held
  <2> QED
    BY DEF OnceInv, CarriedInv, Carried, Once, DispatchedOnce, RunOnce, ReportedOnce, Results
<1>5. Init => OnceInv /\ CarriedInv
  BY InitOnce
<1> QED
  BY <1>2, <1>3, <1>4, <1>5, InitType, NextType, InitUndisturbed, PTL DEF Spec
=============================================================================
