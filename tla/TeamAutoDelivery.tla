--------------------------- MODULE TeamAutoDelivery ---------------------------
(***************************************************************************)
(* TeamAuto, the writing half: the result of an autonomous task is posted  *)
(* to GitHub.  The result of a write task is the work in a git worktree of *)
(* its own, which is pushed and opened as a pull request first; the        *)
(* sections of a full review share an umbrella issue.                      *)
(*                                                                         *)
(* reconcileWritebacks runs every 20 seconds, whether or not the run       *)
(* before has ended, so that its passes overlap: each works off the list   *)
(* it made at its begin, and awaits every git command and every request.   *)
(* The check of a worktree and its removal are two steps, between which    *)
(* a task that failed may be tried again.                                  *)
(*                                                                         *)
(* Abstractions.  One repository, one review cycle.  What the git commands *)
(* of a check or of a push do is one step.  A task is tried again by the   *)
(* PATCH of its status.  The 500 entries that the store keeps are never    *)
(* reached.                                                                *)
(***************************************************************************)
EXTENDS Integers, FiniteSets

CONSTANTS
  Comment,     \* tasks whose result becomes a comment
  Write,       \* write tasks; their result becomes a comment, too
  Section,     \* the sections of a full review (createIssue)
  Pass,        \* runs of reconcileWritebacks at the same time
  boot,        \* the collection of worktrees at start
  MaxRetries,  \* bound: further attempts of tasks in a behaviour
  MaxFaults    \* bound: failures in a behaviour

Task == Comment \cup Write \cup Section
Actor == Pass \cup {boot}

ASSUME DeliveryAssumption ==
  /\ Task # {}
  /\ Comment \cap Write = {} /\ Comment \cap Section = {} /\ Write \cap Section = {}
  /\ IsFiniteSet(Pass) /\ boot \notin Pass
  /\ MaxRetries \in Nat /\ MaxFaults \in Nat

VARIABLES
  task,       \* status and result of a task
  entry,      \* TeamAutoStore.writebacks
  file,       \* the write-backs as they were last written
  tree,       \* the directory of a write task
  dispatched, \* write tasks that were dispatched, and whose projectDir names their worktree
  pushed,     \* write tasks whose work is on the remote
  pr,         \* write tasks with a pull request
  issues,     \* how many umbrella issues there are
  actor,      \* the passes and the collection
  retries,    \* further attempts so far
  faults,     \* failures so far
  worked,     \* history: write tasks whose worker has changed something
  posted,     \* history: how often the result of a task is on GitHub
  snatched    \* history: work done between the check of a worktree and its removal

github == <<pushed, pr, issues, posted>>
vars == <<task, entry, file, tree, dispatched, github, actor, retries, faults, worked, snatched>>

\* failed: without a result.  fruitless: failed with one, or completed without one.
Status == {"none", "active", "completed", "fruitless", "failed", "deleted"}
Terminal == {"completed", "fruitless", "failed"}

\* issue: targetId of a section, 0 before it has one.
Entry == [st : {"none", "pending", "done"}, error : BOOLEAN, issue : Nat]
NoEntry == [st |-> "none", error |-> FALSE, issue |-> 0]
NewEntry == [NoEntry EXCEPT !.st = "pending"]

\* work: with changes or commits of its own.  plain: not a worktree, with changes.
Tree == {"none", "clean", "work", "empty", "plain"}

\* todo: what the pass has listed.  cur: the task it is at.  saw: the worktree when it was
\* checked.  target: the issue of the section, 0 for a new one.
Step == {"off", "clean", "next", "push", "pr", "post", "answer"}
Run == [at : Step, removing : BOOLEAN, todo : SUBSET Task, cur : Task, saw : Tree, target : Nat]
Idle == [at |-> "off", removing |-> FALSE, todo |-> {}, cur |-> CHOOSE t \in Task : TRUE,
         saw |-> "none", target |-> 0]

(* Every variable holds what the code can store in it. *)
DeliveryTypeOK ==
  /\ task \in [Task -> Status]
  /\ entry \in [Task -> Entry] /\ file \in [Task -> Entry]
  /\ tree \in [Write -> Tree]
  /\ dispatched \subseteq Write /\ pushed \subseteq Write /\ pr \subseteq pushed
  /\ issues \in Nat
  /\ actor \in [Actor -> Run]
  /\ retries \in 0..MaxRetries /\ faults \in 0..MaxFaults
  /\ worked \subseteq Write /\ snatched \subseteq worked
  /\ posted \in [Task -> Nat]

Init ==
  /\ task = [t \in Task |-> "none"]
  /\ entry = [t \in Task |-> NoEntry] /\ file = entry
  /\ tree = [t \in Write |-> "none"]
  /\ dispatched = {} /\ pushed = {} /\ pr = {} /\ issues = 0
  /\ actor = [a \in Actor |-> Idle]
  /\ retries = 0 /\ faults = 0
  /\ worked = {} /\ snatched = {}
  /\ posted = [t \in Task |-> 0]

Fails == faults < MaxFaults /\ faults' = faults + 1

-----------------------------------------------------------------------------
(* The tasks. *)

\* enqueueCandidate and registerWriteback.
Create(t) ==
  /\ task[t] = "none"
  /\ task' = [task EXCEPT ![t] = "active"]
  /\ entry' = [entry EXCEPT ![t] = NewEntry]
  /\ UNCHANGED <<file, tree, dispatched, github, actor, retries, faults, worked, snatched>>

\* dispatchTaskToWorker: the worktree is made for the first attempt only, later ones find
\* its name in projectDir, and make sure that there is a directory.
Dispatch(t) ==
  /\ t \in Write /\ task[t] = "active"
  /\ t \in dispatched => tree[t] = "none"
  /\ tree' = [tree EXCEPT ![t] = IF t \in dispatched THEN "empty" ELSE "clean"]
  /\ dispatched' = dispatched \cup {t}
  /\ UNCHANGED <<task, entry, file, github, actor, retries, faults, worked, snatched>>

Work(t) ==
  /\ t \in dispatched /\ task[t] = "active" /\ tree[t] \in {"clean", "empty"}
  /\ tree' = [tree EXCEPT ![t] = IF @ = "clean" THEN "work" ELSE "plain"]
  /\ worked' = worked \cup {t}
  /\ UNCHANGED <<task, entry, file, dispatched, github, actor, retries, faults, snatched>>

End(t) ==
  /\ task[t] = "active"
  /\ \E s \in Terminal : task' = [task EXCEPT ![t] = s]
  /\ UNCHANGED <<entry, file, tree, dispatched, github, actor, retries, faults, worked, snatched>>

Retry(t) ==
  /\ task[t] \in {"fruitless", "failed"} /\ retries < MaxRetries
  /\ retries' = retries + 1
  /\ task' = [task EXCEPT ![t] = "active"]
  /\ UNCHANGED <<entry, file, tree, dispatched, github, actor, faults, worked, snatched>>

Delete(t) ==
  /\ task[t] \in {"active"} \cup Terminal
  /\ task' = [task EXCEPT ![t] = "deleted"]
  /\ UNCHANGED <<entry, file, tree, dispatched, github, actor, retries, faults, worked, snatched>>

-----------------------------------------------------------------------------
(* The worktrees. *)

\* Mutant: a worktree without commits of its own is not checked for changes.
RemovableIfUnpushed(t) == tree[t] \in {"clean", "work"}
\* safeRemoveTaskWorktree: its work is on the remote, or there is none.
Removable(t) == tree[t] = "clean" \/ (tree[t] = "work" /\ t \in pushed)

\* removeTaskWorktree takes whatever is there by now.
RemoveTree(a) ==
  LET t == actor[a].cur IN
  /\ actor[a].removing
  /\ actor' = [actor EXCEPT ![a].removing = FALSE, ![a].saw = "none"]
  /\ tree' = [tree EXCEPT ![t] = "none"]
  /\ snatched' = IF tree[t] \in {"work", "plain"} /\ tree[t] # actor[a].saw /\ t \notin pushed
                 THEN snatched \cup {t} ELSE snatched
  /\ UNCHANGED <<task, entry, file, dispatched, github, retries, faults, worked>>

struck(r, t) == [r EXCEPT !.todo = @ \ {t}]
checked(r, t) ==
  IF Removable(t) THEN [r EXCEPT !.cur = t, !.saw = tree[t], !.removing = TRUE] ELSE r

-----------------------------------------------------------------------------
(* A pass of reconcileWritebacks. *)

Ready(a, at) == actor[a].at = at /\ ~actor[a].removing
toNext(p) == actor' = [actor EXCEPT ![p] = [Idle EXCEPT !.at = "next", !.todo = actor[p].todo]]

\* Entries whose task is gone, or failed without a result, are dropped first.
PassBegins(p) ==
  LET dead == {t \in Task : entry[t].st = "pending" /\ task[t] \in {"deleted", "failed"}} IN
  /\ Ready(p, "off")
  /\ entry' = [t \in Task |-> IF t \in dead THEN NoEntry ELSE entry[t]]
  /\ file' = IF dead = {} THEN file ELSE entry'
  /\ actor' = [actor EXCEPT ![p] = [Idle EXCEPT !.at = "clean", !.todo =
                                      {t \in dead \cap dispatched : task[t] # "deleted"}]]
  /\ UNCHANGED <<task, tree, dispatched, github, retries, faults, worked, snatched>>

\* The worktrees of what was dropped.
PassCleans(p, t) ==
  /\ p \in Pass /\ Ready(p, "clean") /\ t \in actor[p].todo
  /\ actor' = [actor EXCEPT ![p] = struck(checked(@, t), t)]
  /\ UNCHANGED <<task, entry, file, tree, dispatched, github, retries, faults, worked, snatched>>

\* Mutant: an error ends the delivery.
healedNever == entry
\* An error is forgotten once the task has completed with a result.
healed == [t \in Task |-> IF entry[t].st = "pending" /\ task[t] = "completed"
                          THEN [entry[t] EXCEPT !.error = FALSE] ELSE entry[t]]

\* What is pending is listed once, for the whole pass.
PassLists(p) ==
  LET pending == {t \in Task : entry'[t].st = "pending" /\ ~entry'[t].error} IN
  /\ p \in Pass /\ Ready(p, "clean") /\ actor[p].todo = {}
  /\ entry' = healed
  /\ actor' = [actor EXCEPT ![p] = IF pending = {} THEN Idle
                                   ELSE [Idle EXCEPT !.at = "next", !.todo = pending]]
  /\ UNCHANGED <<task, file, tree, dispatched, github, retries, faults, worked, snatched>>

\* An entry that another pass has dropped or filtered out is changed without effect.
erred(t) == [entry EXCEPT ![t].error = @ \/ entry[t].st # "none"]

PassSkips(p, t) ==
  /\ Ready(p, "next") /\ t \in actor[p].todo
  /\ task[t] \notin Terminal
  /\ actor' = [actor EXCEPT ![p] = struck(@, t)]
  /\ UNCHANGED <<task, entry, file, tree, dispatched, github, retries, faults, worked, snatched>>

PassGivesUp(p, t) ==
  /\ Ready(p, "next") /\ t \in actor[p].todo
  /\ task[t] \in {"fruitless", "failed"}
  /\ entry' = erred(t)
  /\ actor' = [actor EXCEPT ![p] = struck(IF t \in dispatched THEN checked(@, t) ELSE @, t)]
  /\ UNCHANGED <<task, file, tree, dispatched, github, retries, faults, worked, snatched>>

\* The issue that a section of the cycle has gone to, as far as the store still knows it.
umbrella(t) ==
  LET peers == {u \in Section \ {t} : entry[u].st = "done" /\ entry[u].issue # 0}
  IN IF t \in Section /\ peers # {} THEN entry[CHOOSE u \in peers : TRUE].issue ELSE 0

PassTakes(p, t) ==
  /\ Ready(p, "next") /\ t \in actor[p].todo
  /\ task[t] = "completed"
  /\ actor' = [actor EXCEPT ![p].todo = @ \ {t}, ![p].cur = t, ![p].target = umbrella(t),
                            ![p].at = IF t \in dispatched THEN "push" ELSE "post"]
  /\ UNCHANGED <<task, entry, file, tree, dispatched, github, retries, faults, worked, snatched>>

-----------------------------------------------------------------------------
(* The delivery of a write task: whatever fails in it, the reply is posted. *)

deliveryFails(p, t) ==
  /\ entry' = erred(t)
  /\ actor' = [actor EXCEPT ![p].at = "post"]

\* Mutant: a pull request is opened for a branch without commits, too.
PushUnchecked(p) ==
  LET t == actor[p].cur IN
  /\ Ready(p, "push") /\ tree[t] # "plain"
  /\ tree' = [tree EXCEPT ![t] = IF @ = "work" THEN "work" ELSE "clean"]
  /\ pushed' = IF tree[t] = "work" THEN pushed \cup {t} ELSE pushed
  /\ actor' = [actor EXCEPT ![p].at = "pr"]
  /\ UNCHANGED <<task, entry, file, dispatched, pr, issues, posted, retries, faults, worked, snatched>>
\* ensureTaskWorktree makes a worktree where there is none, but not in place of files.
Push(p) ==
  LET t == actor[p].cur IN
  /\ Ready(p, "push") /\ tree[t] # "plain"
  /\ tree' = [tree EXCEPT ![t] = IF @ = "work" THEN "work" ELSE "clean"]
  /\ pushed' = IF tree[t] = "work" THEN pushed \cup {t} ELSE pushed
  /\ actor' = [actor EXCEPT ![p].at = IF tree[t] = "work" THEN "pr" ELSE "post",
                            ![p].removing = tree[t] # "work", ![p].saw = IF tree[t] = "work" THEN "none" ELSE "clean"]
  /\ UNCHANGED <<task, entry, file, dispatched, pr, issues, posted, retries, faults, worked, snatched>>
PushFails(p) ==
  LET t == actor[p].cur IN
  /\ Ready(p, "push")
  /\ Fails \/ (tree[t] = "plain" /\ UNCHANGED faults)
  /\ deliveryFails(p, t)
  /\ UNCHANGED <<task, file, tree, dispatched, github, retries, worked, snatched>>

OpenPR(p) ==
  LET t == actor[p].cur IN
  /\ Ready(p, "pr") /\ t \notin pr
  /\ pr' = pr \cup {t}
  /\ actor' = [actor EXCEPT ![p].at = "post", ![p].removing = TRUE, ![p].saw = "work"]
  /\ UNCHANGED <<task, entry, file, tree, dispatched, pushed, issues, posted, retries, faults, worked, snatched>>
\* GitHub refuses a second pull request for the branch.
PRFails(p) ==
  LET t == actor[p].cur IN
  /\ Ready(p, "pr")
  /\ Fails \/ (t \in pr /\ UNCHANGED faults)
  /\ deliveryFails(p, t)
  /\ UNCHANGED <<task, file, tree, dispatched, github, retries, worked, snatched>>

-----------------------------------------------------------------------------
(* The reply. *)

Post(p) ==
  LET t == actor[p].cur
      new == t \in Section /\ actor[p].target = 0 IN
  /\ Ready(p, "post")
  /\ posted' = [posted EXCEPT ![t] = @ + 1]
  /\ issues' = IF new THEN issues + 1 ELSE issues
  /\ actor' = [actor EXCEPT ![p].at = "answer", ![p].target = IF new THEN issues + 1 ELSE @]
  /\ UNCHANGED <<task, entry, file, tree, dispatched, pushed, pr, retries, faults, worked, snatched>>
PostFails(p) ==
  LET t == actor[p].cur IN
  /\ Ready(p, "post") /\ Fails
  /\ entry' = erred(t)
  /\ toNext(p)
  /\ UNCHANGED <<task, file, tree, dispatched, github, retries, worked, snatched>>

\* Mutant: what was posted is not noted.
AnsweredUnnoted(p) ==
  /\ Ready(p, "answer")
  /\ toNext(p)
  /\ UNCHANGED <<task, entry, file, tree, dispatched, github, retries, faults, worked, snatched>>
Answered(p) ==
  LET t == actor[p].cur IN
  /\ Ready(p, "answer")
  /\ entry' = [entry EXCEPT ![t] = IF @.st = "none" THEN @
                                   ELSE [@ EXCEPT !.st = "done", !.issue = actor[p].target]]
  /\ toNext(p)
  /\ UNCHANGED <<task, file, tree, dispatched, github, retries, faults, worked, snatched>>
\* The reply of GitHub is lost, or late.
AnswerLost(p) ==
  LET t == actor[p].cur IN
  /\ Ready(p, "answer") /\ Fails
  /\ entry' = erred(t)
  /\ toNext(p)
  /\ UNCHANGED <<task, file, tree, dispatched, github, retries, worked, snatched>>

\* What is done is forgotten.
PassEnds(p) ==
  /\ Ready(p, "next") /\ actor[p].todo = {}
  /\ entry' = [t \in Task |-> IF entry[t].st = "done" THEN NoEntry ELSE entry[t]]
  /\ file' = entry'
  /\ actor' = [actor EXCEPT ![p] = Idle]
  /\ UNCHANGED <<task, tree, dispatched, github, retries, faults, worked, snatched>>

-----------------------------------------------------------------------------
(* The store and the process. *)

\* registerWriteback, sweeps and changes of repositories write the store, too.
StoreSaved ==
  /\ file # entry /\ file' = entry
  /\ UNCHANGED <<task, entry, tree, dispatched, github, actor, retries, faults, worked, snatched>>

\* The process ends and starts again, with the collection of the worktrees.
Restart ==
  /\ Fails
  /\ entry' = file
  /\ actor' = [a \in Actor |-> IF a = boot
                 THEN [Idle EXCEPT !.at = "clean", !.todo = {t \in Write : tree[t] # "none"}] ELSE Idle]
  /\ UNCHANGED <<task, file, tree, dispatched, github, retries, worked, snatched>>

\* gcTaskWorktrees spares active tasks, and those with an entry that is not done.
Collect(t) ==
  /\ Ready(boot, "clean") /\ t \in actor[boot].todo
  /\ actor' = [actor EXCEPT ![boot] =
       struck(IF task[t] # "active" /\ entry[t].st # "pending" THEN checked(@, t) ELSE @, t)]
  /\ UNCHANGED <<task, entry, file, tree, dispatched, github, retries, faults, worked, snatched>>
Collected ==
  /\ Ready(boot, "clean") /\ actor[boot].todo = {}
  /\ actor' = [actor EXCEPT ![boot] = Idle]
  /\ UNCHANGED <<task, entry, file, tree, dispatched, github, retries, faults, worked, snatched>>

-----------------------------------------------------------------------------
PassStep(p) ==
  \/ PassBegins(p) \/ PassLists(p) \/ Push(p) \/ OpenPR(p) \/ Post(p) \/ Answered(p) \/ PassEnds(p)
  \/ \E t \in Task : PassCleans(p, t) \/ PassSkips(p, t) \/ PassGivesUp(p, t) \/ PassTakes(p, t)
PassFails(p) == PushFails(p) \/ PRFails(p) \/ PostFails(p) \/ AnswerLost(p)

Next ==
  \/ \E t \in Task : Create(t) \/ Dispatch(t) \/ Work(t) \/ End(t) \/ Retry(t) \/ Delete(t)
  \/ \E p \in Pass : PassStep(p) \/ PassFails(p)
  \/ \E a \in Actor : RemoveTree(a)
  \/ StoreSaved \/ Restart \/ Collected
  \/ \E t \in Write : Collect(t)

Spec == Init /\ [][Next]_vars

\* The interval goes on, and GitHub and git answer.
Fairness == /\ \A p \in Pass : WF_vars(PassStep(p) \/ PRFails(p) \/ PushFails(p))
            /\ \A a \in Actor : WF_vars(RemoveTree(a))
FairSpec == Spec /\ Fairness

-----------------------------------------------------------------------------
(* Work of a task is never destroyed before it is on the remote, whichever passes,      *)
(* collections, retries and restarts interleave; the one exception is work that began   *)
(* between the check of a worktree and its removal.                                     *)
WorkIsKept ==
  \A t \in worked : tree[t] \in {"work", "plain"} \/ t \in pushed \/ t \in snatched

(* A result is posted at most once by each of the passes that overlap, and again by them *)
(* after each lost answer and each restart.                                             *)
RepliesAreBounded ==
  \A t \in Task : posted[t] <= Cardinality(Pass) * (1 + faults)

(* A result is posted in the end, whatever failed on the way, unless the entry of the   *)
(* task was lost with the store.                                                        *)
EveryResultIsPosted ==
  \A t \in Task : task[t] = "completed" /\ entry[t].st = "pending"
                    ~> posted[t] > 0 \/ entry[t].st = "none" \/ task[t] = "deleted"
===============================================================================
