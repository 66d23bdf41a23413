------------------------------- MODULE Intake -------------------------------
(***************************************************************************)
(* The intake of the controller (http-server.ts): calls of                 *)
(* runControllerIntake queue up per session on a chain of promises, run an *)
(* agent with retries, and bind the tasks it creates to a controller run;  *)
(* runs are deleted by the user, and pruned when they look abandoned.      *)
(*                                                                         *)
(* One action is one stretch of a call between two awaits.  Texts are left *)
(* out: a manifest names a task to bind, asks the human, or does neither.  *)
(***************************************************************************)
EXTENDS Integers, Sequences, FiniteSets

CONSTANTS
  Session,     \* session keys
  MaxCalls,    \* bound: calls of runControllerIntake, numbered as they arrive
  Task,        \* ids of tasks
  None,
  MaxRetries,  \* CONTROLLER_INTAKE_MAX_RETRIES
  MaxRuns,     \* MAX_CONTROLLER_RUNS
  MaxFailures, \* bound: failures in a behaviour
  Ops,         \* what happens besides: "probe", "delete", "deleteLive", "bind", "ask"
  Faults       \* what fails: a request while "starting", "running" or "reading",
               \* the agent ("error"), a "cleanup"; and "hang"

Call == 1..MaxCalls
RunId == Call \X (0..MaxRetries)

ASSUME IntakeAssumption ==
  /\ MaxCalls \in Nat
  /\ None \notin Session \cup Call \cup Task \cup RunId
  /\ MaxRetries \in Nat
  /\ MaxRuns \in Nat \ {0}
  /\ MaxFailures \in Nat
  /\ Ops \subseteq {"probe", "delete", "deleteLive", "bind", "ask"}
  /\ Faults \subseteq {"starting", "running", "reading", "error", "cleanup", "hang"}

VARIABLES
  queue,     \* controllerIntakeQueue: the call whose promise a session's entry is
  prev,      \* the call whose promise a call awaits
  sess,      \* the session of a call
  ahead,     \* history: while a call is queued, the calls of its session it found there
  pc,        \* what a call awaits
  body,      \* the local variables of the attempt of a call
  runs,      \* state.controllerRuns, by updatedAt
  task,      \* state.tasks
  agents,    \* the runs whose agent is at work
  jobs,      \* the deletions of runs under way
  asked,     \* the runs with a pending question
  failures   \* bound: failures so far

chain == <<queue, prev, sess, ahead>>
team == <<runs, task, agents, jobs, asked>>
vars == <<chain, pc, body, team, failures>>

Manifest == Task \cup {"asks", "plain"}
RunRec == [id : RunId, session : Session, created : SUBSET Task,
           status : {"pending", "running", "completed", "failed"}]
TaskRec == [status : {"none", "open", "settled", "deleted"},
            session : Session \cup {None}, run : RunId \cup {None}]
\* taskIdsBeforeRun and createdTaskIds; the manifest of the run, then recordedManifest.
BodyRec == [attempt : 0..MaxRetries, before : SUBSET Task, found : SUBSET Task,
            manifest : Manifest \cup {None}]
\* A deletion works on the tasks of one run; a prune has more runs to delete.
JobRec == [by : Call \cup {None}, run : RunId, tasks : SUBSET Task, rest : Seq(RunId)]

Ended == {"done", "failed"}
Inside == {"starting", "running", "reading", "filling", "kickoff", "retrying", "pruning"}

\* The attempts of a call and the runs that are kept are bounded, too.
IntakeTypeOK ==
  /\ queue \in [Session -> Call \cup {None}]
  /\ prev \in [Call -> Call \cup {None}]
  /\ sess \in [Call -> Session \cup {None}]
  /\ ahead \in [Call -> SUBSET Call]
  /\ pc \in [Call -> {"idle", "queued"} \cup Inside \cup Ended]
  /\ body \in [Call -> BodyRec]
  /\ runs \in Seq(RunRec) /\ Len(runs) <= MaxRuns
  /\ task \in [Task -> TaskRec]
  /\ agents \subseteq RunId /\ asked \subseteq RunId
  /\ \A j \in jobs : j \in JobRec
  /\ failures \in 0..MaxFailures

noBody(a) == [attempt |-> a, before |-> {}, found |-> {}, manifest |-> None]

Init ==
  /\ queue = [s \in Session |-> None]
  /\ prev = [c \in Call |-> None]
  /\ sess = [c \in Call |-> None]
  /\ ahead = [c \in Call |-> {}]
  /\ pc = [c \in Call |-> "idle"]
  /\ body = [c \in Call |-> noBody(0)]
  /\ runs = <<>>
  /\ task = [t \in Task |-> [status |-> "none", session |-> None, run |-> None]]
  /\ agents = {} /\ jobs = {} /\ asked = {} /\ failures = 0

-----------------------------------------------------------------------------
(* Runs and tasks. *)

runOf(c) == <<c, body[c].attempt>>
exists(t) == task[t].status \in {"open", "settled"}
\* A call works on the attempt of run r.
atWork(r) ==
  r = runOf(r[1]) /\ pc[r[1]] \in {"starting", "running", "reading", "filling", "kickoff"}
active(x) == x.status \in {"pending", "running"}
known(r) == \E i \in DOMAIN runs : runs[i].id = r

\* The entries of s at the positions I, in their order.
pick(s, I) ==
  [k \in 1..Cardinality(I) |-> s[CHOOSE i \in I : Cardinality({j \in I : j <= i}) = k]]
without(r) == pick(runs, {i \in DOMAIN runs : runs[i].id # r})
theRun(r) == runs[CHOOSE i \in DOMAIN runs : runs[i].id = r]

\* Mutant: one run too many stays.
trimAllButOne(rs) ==
  IF Len(rs) <= MaxRuns THEN rs ELSE SubSeq(rs, Len(rs) - MaxRuns, Len(rs))

\* Only the last MAX_CONTROLLER_RUNS stay, whether or not they are active.
trimControllerRuns(rs) ==
  IF Len(rs) <= MaxRuns THEN rs ELSE SubSeq(rs, Len(rs) - MaxRuns + 1, Len(rs))

\* A run that is gone is not brought back.
updateControllerRun(r, x) ==
  IF known(r) THEN trimControllerRuns(Append(without(r), x)) ELSE runs

\* appendControllerRunEvent: an event sets the status it carries.
record(r, status) == updateControllerRun(r, [theRun(r) EXCEPT !.status = status])

last(I) == CHOOSE i \in I : \A j \in I : j <= i

\* Mutant: whether a run is active does not matter.
latestTouchedRun(s) ==
  LET mine == {i \in DOMAIN runs : runs[i].session = s}
  IN IF mine = {} THEN None ELSE runs[last(mine)].id

\* findLatestControllerRunIdForSession with preferActive.
latestRun(s) ==
  LET mine == {i \in DOMAIN runs : runs[i].session = s}
      live == {i \in mine : active(runs[i])}
  IN IF mine = {} THEN None ELSE runs[last(IF live # {} THEN live ELSE mine)].id

\* The tasks that are new since the attempt began, whatever their session, get its run.
newTasks(c) == {t \in Task : exists(t) /\ t \notin body[c].before}
tagControllerCreatedTasks(c) ==
  task' = [t \in Task |-> IF t \in newTasks(c) THEN [task[t] EXCEPT !.run = runOf(c)] ELSE task[t]]
createdTaskIds(c) == {t \in newTasks(c) : task[t].session = sess[c]}

-----------------------------------------------------------------------------
(* The queue of a session, and retries. *)

Arrive(c, s) ==
  /\ pc[c] = "idle" /\ \A d \in Call : d < c => pc[d] # "idle"
  /\ pc' = [pc EXCEPT ![c] = "queued"]
  /\ sess' = [sess EXCEPT ![c] = s]
  /\ prev' = [prev EXCEPT ![c] = queue[s]]
  /\ queue' = [queue EXCEPT ![s] = c]
  /\ ahead' = [ahead EXCEPT ![c] = {d \in Call : sess[d] = s /\ pc[d] \notin Ended}]

\* A request or a finished task starts an intake.
RequestIntake(c, s) == Arrive(c, s) /\ UNCHANGED <<body, team, failures>>

\* So does the answer of a question.
AnswerQuestion(r, c) ==
  /\ r \in asked
  /\ asked' = asked \ {r}
  /\ Arrive(c, sess[r[1]])
  /\ UNCHANGED <<body, runs, task, agents, jobs, failures>>

\* The beginning of runControllerIntakeUnlocked.
begin(c, a) ==
  /\ pc' = [pc EXCEPT ![c] = "starting"]
  /\ body' = [body EXCEPT ![c] = [noBody(a) EXCEPT !.before = {t \in Task : exists(t)}]]
  /\ runs' = trimControllerRuns(Append(runs,
       [id |-> <<c, a>>, session |-> sess[c], created |-> {}, status |-> "pending"]))
  /\ UNCHANGED <<queue, sess, task, agents, jobs, asked, failures>>

\* Mutant: only a call that succeeds resolves its promise.
releasedIfDone(c) == pc[c] = "done"

\* releaseCurrent was called: in the finally, after success and failure alike.
released(c) == pc[c] \in Ended

Enter(c) ==
  /\ pc[c] = "queued"
  /\ prev[c] # None => released(prev[c])
  /\ begin(c, 0)
  /\ prev' = [prev EXCEPT ![c] = None]
  /\ ahead' = [ahead EXCEPT ![c] = {}]

Retry(c) ==
  /\ pc[c] = "retrying"
  /\ begin(c, body[c].attempt + 1)
  /\ UNCHANGED <<prev, ahead>>

\* Mutant: the entry of the session is deleted whoever made it.
leaveAlways(c, how) ==
  /\ pc' = [pc EXCEPT ![c] = how]
  /\ body' = [body EXCEPT ![c] = noBody(0)]
  /\ queue' = [queue EXCEPT ![sess[c]] = None]
  /\ UNCHANGED <<prev, sess, ahead>>

\* The finally of withSerializedControllerIntake.
leave(c, how) ==
  /\ pc' = [pc EXCEPT ![c] = how]
  /\ body' = [body EXCEPT ![c] = noBody(0)]
  /\ queue' = [queue EXCEPT ![sess[c]] = IF @ = c THEN None ELSE @]
  /\ UNCHANGED <<prev, sess, ahead>>

fault(what) ==
  /\ what \in Faults
  /\ failures < MaxFailures
  /\ failures' = failures + 1

\* The attempt throws; an error that looks transient is retried.
fail(c) ==
  \/ leave(c, "failed")
  \/ /\ body[c].attempt < MaxRetries
     /\ pc' = [pc EXCEPT ![c] = "retrying"]
     /\ body' = [body EXCEPT ![c] = noBody(@.attempt)]
     /\ UNCHANGED chain

-----------------------------------------------------------------------------
(* One attempt: runControllerIntakeUnlocked. *)

AgentStarts(c) ==
  /\ pc[c] = "starting"
  /\ pc' = [pc EXCEPT ![c] = "running"]
  /\ runs' = record(runOf(c), "running")
  /\ agents' = agents \cup {runOf(c)}
  /\ UNCHANGED <<chain, body, task, jobs, asked, failures>>

\* What is asked of the runtime rejects: the start of the agent, a wait or a probe, or
\* the reading of the reply.  Run and tasks stay as they are.
RequestFails(c) ==
  /\ pc[c] \in {"starting", "running", "reading"}
  /\ fault(pc[c])
  /\ fail(c)
  /\ UNCHANGED team

\* The loop of waits sees the end of the agent, or a probe tells it that the work is
\* complete while the agent may go on.
RunSucceeds(c) ==
  /\ pc[c] = "running"
  /\ runOf(c) \in agents => "probe" \in Ops
  /\ pc' = [pc EXCEPT ![c] = "reading"]
  /\ tagControllerCreatedTasks(c)
  /\ body' = [body EXCEPT ![c].found = createdTaskIds(c)]
  /\ UNCHANGED <<chain, runs, agents, jobs, asked, failures>>

runFailed(c) ==
  updateControllerRun(runOf(c),
    [theRun(runOf(c)) EXCEPT !.status = "failed", !.created = createdTaskIds(c)])

\* Mutant: the tasks of a failed attempt are not bound to its run.
RunFailsUntagged(c) ==
  /\ fault("error")
  /\ pc[c] = "running" /\ runOf(c) \notin agents
  /\ fail(c)
  /\ runs' = record(runOf(c), "failed")
  /\ UNCHANGED <<task, agents, jobs, asked>>

RunFails(c) ==
  /\ fault("error")
  /\ pc[c] = "running" /\ runOf(c) \notin agents
  /\ fail(c)
  /\ tagControllerCreatedTasks(c)
  /\ runs' = runFailed(c)
  /\ UNCHANGED <<agents, jobs, asked>>

\* ensureControllerManifest writes a missing manifest from the tasks found.
Backfilled(c) ==
  IF body[c].found # {} THEN body[c].found
  ELSE {"plain"} \cup IF "ask" \in Ops THEN {"asks"} ELSE {}

ReadReply(c) ==
  /\ pc[c] = "reading"
  /\ pc' = [pc EXCEPT ![c] = "filling"]
  /\ IF known(runOf(c)) /\ body[c].manifest # None
     THEN UNCHANGED <<body, runs>>
     ELSE /\ \E m \in Backfilled(c) : body' = [body EXCEPT ![c].manifest = m]
          /\ runs' = record(runOf(c), "running")
  /\ UNCHANGED <<chain, task, agents, jobs, asked, failures>>

\* A request that yielded no task, or a question the team can settle itself, becomes
\* a task: maybeBackfillExecutionReadyTask, maybeConvertControllerClarification...
BackfillTask(c, t) ==
  /\ pc[c] = "filling"
  /\ body[c].manifest \in {"asks", "plain"}
  /\ task[t].status = "none"
  /\ task' = [task EXCEPT ![t] = [status |-> "open", session |-> sess[c], run |-> runOf(c)]]
  /\ body' = [body EXCEPT ![c].found = @ \cup {t}, ![c].manifest = t]
  /\ runs' = record(runOf(c), "running")
  /\ UNCHANGED <<chain, pc, agents, jobs, asked, failures>>

\* syncControllerRunClarifications and reconcileControllerManifestTaskBindings: a
\* task the manifest names changes to this run and session, whosever it was.
Bind(c) ==
  LET m == body[c].manifest
  IN /\ pc[c] = "filling"
     /\ pc' = [pc EXCEPT ![c] = "kickoff"]
     /\ asked' = IF m = "asks" THEN asked \cup {runOf(c)} ELSE asked \ {runOf(c)}
     /\ IF m \in Task /\ exists(m)
        THEN /\ task' = [task EXCEPT ![m].run = runOf(c), ![m].session = sess[c]]
             /\ body' = [body EXCEPT ![c].found = @ \cup {m}]
        ELSE UNCHANGED <<task, body>>
     /\ UNCHANGED <<chain, runs, agents, jobs, failures>>

-----------------------------------------------------------------------------
(* The end of an attempt, and the deletion of runs. *)

\* The run may have had no event for two task timeouts.  The loop of waits records
\* its probes, so the run has no call at work, or one that hangs elsewhere.
maySilent(r) ==
  atWork(r) => "hang" \in Faults /\ pc[r[1]] # "running"

\* Mutant: the tasks of the run are not looked at.
autoDeletableWithTasks(x) == active(x) /\ maySilent(x.id) /\ x.id \notin asked

canAutoDeleteStaleControllerRun(x) ==
  /\ active(x)
  /\ maySilent(x.id)
  /\ ~\E t \in Task : task[t].status = "open" /\ task[t].run = x.id
  /\ x.id \notin asked

\* deleteControllerRunCascade first collects the tasks of the run.
cascadeOf(by, r, rest) ==
  [by |-> by, run |-> r, rest |-> rest,
   tasks |-> theRun(r).created \cup {t \in Task : exists(t) /\ task[t].run = r}]

runCompleted(c) ==
  updateControllerRun(runOf(c),
    [theRun(runOf(c)) EXCEPT !.status = "completed", !.created = body[c].found])

staleRunIds(old) ==
  LET found == pick(runs, {i \in DOMAIN runs : /\ runs[i].id \in old
                                              /\ canAutoDeleteStaleControllerRun(runs[i])})
  IN [k \in DOMAIN found |-> found[k].id]

\* The run is completed; then old ones that look abandoned are pruned.  Which of
\* them are old is not in the state, so old is any set of other runs.
Complete(c) ==
  /\ pc[c] = "kickoff"
  /\ runs' = runCompleted(c)
  /\ \E old \in SUBSET ({runs[i].id : i \in DOMAIN runs} \ {runOf(c)}) :
       LET ids == staleRunIds(old)
       IN IF ids = <<>>
          THEN leave(c, "done") /\ UNCHANGED jobs
          ELSE /\ pc' = [pc EXCEPT ![c] = "pruning"]
               /\ jobs' = jobs \cup {cascadeOf(c, Head(ids), Tail(ids))}
               /\ UNCHANGED <<chain, body>>
  /\ UNCHANGED <<task, agents, asked, failures>>

\* DELETE /controller/runs/:id, one request at a time.
DeleteRunRequest(r) ==
  /\ "delete" \in Ops
  /\ known(r)
  /\ atWork(r) => "deleteLive" \in Ops
  /\ ~\E j \in jobs : j.by = None
  /\ jobs' = jobs \cup {cascadeOf(None, r, <<>>)}
  /\ UNCHANGED <<chain, pc, body, runs, task, agents, asked, failures>>

\* deleteTaskCascade after its awaits; the runs that list the task are updated.
removeTask(t) ==
  LET listing == {i \in DOMAIN runs : t \in runs[i].created}
      listed == pick(runs, listing)
  IN /\ task' = [task EXCEPT ![t].status = "deleted"]
     /\ runs' = pick(runs, DOMAIN runs \ listing)
                \o [k \in DOMAIN listed |-> [listed[k] EXCEPT !.created = @ \ {t}]]

DeleteTask(j, t) ==
  /\ t \in j.tasks
  /\ jobs' = (jobs \ {j}) \cup {[j EXCEPT !.tasks = @ \ {t}]}
  /\ IF exists(t) THEN removeTask(t) ELSE UNCHANGED <<task, runs>>
  /\ UNCHANGED <<chain, pc, body, agents, asked, failures>>

endCascade(j, how) == IF j.by = None THEN UNCHANGED <<chain, pc, body>> ELSE leave(j.by, how)

\* The directory of the task cannot be removed: the request, or the intake whose
\* work is done, fails.
CleanupFails(j, t) ==
  /\ fault("cleanup")
  /\ t \in j.tasks /\ exists(t)
  /\ removeTask(t)
  /\ jobs' = jobs \ {j}
  /\ endCascade(j, "failed")
  /\ UNCHANGED <<agents, asked>>

stillKnown(ids) == pick(ids, {i \in DOMAIN ids : known(ids[i])})

\* The record goes; a prune goes on with the next of its runs that still exists.
DeleteRun(j) ==
  LET left == stillKnown(j.rest)
  IN /\ j.tasks = {}
     /\ runs' = without(j.run)
     /\ asked' = asked \ {j.run}
     /\ IF left # <<>>
        THEN /\ jobs' = (jobs \ {j}) \cup {cascadeOf(j.by, Head(left), Tail(left))}
             /\ UNCHANGED <<chain, pc, body>>
        ELSE /\ jobs' = jobs \ {j}
             /\ endCascade(j, "done")
     /\ UNCHANGED <<task, agents, failures>>

-----------------------------------------------------------------------------
(* The agents of the controller, tasks, and time. *)

\* teamclaw_create_task of the agent that runs for r.
CreateTask(r, t) ==
  /\ r \in agents
  /\ task[t].status = "none"
  /\ task' = [task EXCEPT ![t] = [status |-> "open", session |-> sess[r[1]], run |-> None]]
  /\ UNCHANGED <<chain, pc, body, runs, agents, jobs, asked, failures>>

\* POST /controller/manifest goes to the latest run of the session.
SubmitManifest(r, m) ==
  /\ r \in agents
  /\ m \in Task => "bind" \in Ops /\ exists(m)
  /\ m = "asks" => "ask" \in Ops
  /\ latestRun(sess[r[1]]) # None
  /\ LET to == latestRun(sess[r[1]])
     IN /\ runs' = record(to, "running")
        /\ body' = IF to = runOf(to[1]) /\ pc[to[1]] \in {"running", "reading"}
                   THEN [body EXCEPT ![to[1]].manifest = m] ELSE body
  /\ UNCHANGED <<chain, pc, task, agents, jobs, asked, failures>>

AgentEnds(r) ==
  /\ r \in agents
  /\ agents' = agents \ {r}
  /\ UNCHANGED <<chain, pc, body, runs, task, jobs, asked, failures>>

TaskSettles(t) ==
  /\ task[t].status = "open"
  /\ task' = [task EXCEPT ![t].status = "settled"]
  /\ UNCHANGED <<chain, pc, body, runs, agents, jobs, asked, failures>>

Next ==
  \/ \E c \in Call :
       \/ \E s \in Session : RequestIntake(c, s)
       \/ \E r \in asked : AnswerQuestion(r, c)
       \/ Enter(c) \/ Retry(c) \/ AgentStarts(c) \/ RequestFails(c)
       \/ RunSucceeds(c) \/ RunFails(c) \/ ReadReply(c)
       \/ \E t \in Task : BackfillTask(c, t)
       \/ Bind(c) \/ Complete(c)
  \/ \E r \in RunId : DeleteRunRequest(r)
  \/ \E j \in jobs : DeleteRun(j) \/ (\E t \in j.tasks : DeleteTask(j, t) \/ CleanupFails(j, t))
  \/ \E r \in agents :
       \/ \E t \in Task : CreateTask(r, t)
       \/ \E m \in Manifest : SubmitManifest(r, m)
       \/ AgentEnds(r)
  \/ \E t \in Task : TaskSettles(t)

Spec == Init /\ [][Next]_vars

\* What is awaited ends: agents, requests to the runtime, timers, deletions.
Proceed ==
  \/ \E c \in Call : \/ Enter(c) \/ Retry(c) \/ AgentStarts(c) \/ RunSucceeds(c)
                     \/ ReadReply(c) \/ Bind(c) \/ Complete(c)
  \/ \E r \in agents : AgentEnds(r)
  \/ \E j \in jobs : DeleteRun(j) \/ (\E t \in j.tasks : DeleteTask(j, t))

Fairness == WF_vars(Proceed)

FairSpec == Spec /\ Fairness

-----------------------------------------------------------------------------
\* The chain of promises is a fair lock of each session: calls run one at a time,
\* in the order of their arrival, also when calls before them fail.
Lock == INSTANCE IntakeLock WITH
  phase <- [c \in Call |-> IF pc[c] = "idle" THEN "out"
                           ELSE IF pc[c] = "queued" THEN "waiting"
                           ELSE IF pc[c] \in Inside THEN "in" ELSE "gone"]
ImplementsLock == Lock!LockSpec

\* A queued call ends, whatever becomes of those before it.
EveryCallEnds == \A c \in Call : pc[c] = "queued" ~> pc[c] \in Ended

\* A manifest goes to the run whose agent sends it, although runs that never
\* ended, or failed attempts of the same call, are around.
ManifestsReachTheirRun == \A r \in agents : known(r) => latestRun(sess[r[1]]) = r

\* A task that an agent created belongs to some run, so deleting runs can find it,
\* unless a call of its session still waits for its agent; also the tasks of attempts
\* that failed.
TasksAreClaimed ==
  \A t \in Task :
    \/ ~exists(t)
    \/ task[t].run # None
    \/ \E c \in Call : sess[c] = task[t].session /\ pc[c] = "running"

\* Pruning abandoned runs, which nobody asked for, deletes no task that is open.
PruneSparesOpenTasks ==
  [][\A t \in Task : task[t].status = "open" /\ task'[t].status = "deleted" =>
       \E j \in jobs : j.by = None /\ t \in j.tasks]_vars
=============================================================================
