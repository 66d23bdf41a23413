---------------------------- MODULE TeamAutoSweep ----------------------------
(***************************************************************************)
(* TeamAuto, the reading half: a bound GitHub repository is swept by a     *)
(* timer, by hand and again after failures; what changed in it becomes     *)
(* tasks, within a cap per sweep, a budget per day and a limit of failed   *)
(* attempts per object.                                                    *)
(*                                                                         *)
(* A sweep awaits the list of issues, the list of pull requests and the    *)
(* save of the store; everything in between runs as one step.  The store   *)
(* is one object in memory, and `file` what a restart finds of it.         *)
(*                                                                         *)
(* Abstractions.  One repository: sweeps of several share only the budget, *)
(* which is taken in one step.  Time is the order of the updates of the    *)
(* objects.  An object stands for one kind of work on it, and every object *)
(* passes the label, keyword, assignee and marker filters.  A repository   *)
(* that was removed is not bound again.                                    *)
(***************************************************************************)
EXTENDS Integers, Sequences, FiniteSets

CONSTANTS
  Issue, Pull,       \* GitHub objects
  Roles,             \* JOINT_REVIEW_ROLES: each has its section of the periodic full review
  MaxPerSweep,       \* policy.maxTasksPerSweep
  MaxPerDay,         \* budget.maxTasksPerDay
  HardLimit,         \* TEAMAUTO_DEAD_LETTER_ATTEMPTS
  TotalLimit,        \* TEAMAUTO_DEAD_LETTER_TRANSIENT_ATTEMPTS
  FirstSweepDryRun,  \* budget.firstSweepDryRun
  MaxTime,           \* bound: updates of objects in a behaviour
  MaxFaults,         \* bound: failures in a behaviour
  Faults             \* which failures a behaviour may contain

Object == Issue \cup Pull
Section == {Roles[i] : i \in DOMAIN Roles}
Key == Object \cup Section
AllFaults == {"fetch", "write", "crash", "read"}

ASSUME SweepAssumption ==
  /\ IsFiniteSet(Key)
  /\ Issue \cap Pull = {} /\ Object \cap Section = {}
  /\ {MaxPerSweep, MaxPerDay, HardLimit, TotalLimit, MaxTime, MaxFaults} \subseteq Nat
  /\ FirstSweepDryRun \in BOOLEAN
  /\ Faults \subseteq AllFaults

VARIABLES
  ver,       \* GitHub: when an object was last updated, 0 before it exists
  repo,      \* TeamAutoRepo
  cursors,   \* TeamAutoCursors
  budget,    \* TeamAutoStore.budget: what is used of it today, whichever day the stamp says
  file,      \* repo, cursors and budget as they were last written
  task,      \* the tasks of a key: is one active, and how many failed
  sweep,     \* runSweep
  armed,     \* timers has a timer for the repository
  faults,    \* failures so far
  created,   \* history: tasks created today out of the budget
  forgotten, \* history: what of today's budget a restart forgot
  hidden,    \* history: objects that a 304 kept from a sweep although they were not seen
  stuck      \* history: the provisioning, or the timer, that nothing starts any more

store == <<repo, cursors, budget>>
history == <<created, forgotten, hidden, stuck>>
vars == <<ver, store, file, task, sweep, armed, faults, history>>

Time == 0..MaxTime
Page == SUBSET (Object \X Time)
Repo == [bound : BOOLEAN, enabled : BOOLEAN, pause : {"none", "user", "auto"}, due : BOOLEAN,
         observed : BOOLEAN, prov : {"none", "provisioning", "ready", "failed", "removed"}]
\* observed: dryRunDone.  due: the backoff after a failed sweep has passed.
NoRepo == [bound |-> FALSE, enabled |-> FALSE, pause |-> "none", due |-> FALSE,
           observed |-> FALSE, prov |-> "none"]
Removed == [NoRepo EXCEPT !.prov = "removed"]
\* since: lastIssueSince, which is part of the URL.  issues, pulls: the pages behind the
\* ETags kept for the present URLs.  review: lastFullReviewAt is an interval ago.
Cursors == [seen : [Object -> Time], since : Time, review : BOOLEAN, issues : Page, pulls : Page]
NoCursors == [seen |-> [o \in Object |-> 0], since |-> 0, review |-> TRUE,
              issues |-> {}, pulls |-> {}]
Budget == 0..MaxPerDay
TaskLog == [active : BOOLEAN, hard : Nat, soft : Nat]
NoTask == [active |-> FALSE, hard |-> 0, soft |-> 0]
Sweep == [at : {"off", "issues", "pulls", "saving"}, by : {"timer", "hand"}, issues : Page]
NoSweep == [at |-> "off", by |-> "hand", issues |-> {}]

(* Every variable holds what the code can store in it. *)
SweepTypeOK ==
  /\ ver \in [Object -> Time]
  /\ repo \in Repo
  /\ cursors \in Cursors
  /\ budget \in Budget
  /\ file \in [repo : Repo, cursors : Cursors, budget : Budget]
  /\ task \in [Key -> TaskLog]
  /\ sweep \in Sweep
  /\ armed \in BOOLEAN
  /\ faults \in 0..MaxFaults
  /\ created \in Nat /\ forgotten \in Int
  /\ hidden \subseteq Object
  /\ stuck \subseteq {"provisioning", "timer"}

Init ==
  /\ ver = [o \in Object |-> 0]
  /\ repo = NoRepo /\ cursors = NoCursors /\ budget = 0
  /\ file = [repo |-> NoRepo, cursors |-> NoCursors, budget |-> 0]
  /\ task = [k \in Key |-> NoTask]
  /\ sweep = NoSweep
  /\ armed = FALSE
  /\ faults = 0
  /\ created = 0 /\ forgotten = 0 /\ hidden = {} /\ stuck = {}

-----------------------------------------------------------------------------
MaxOf(S) == CHOOSE x \in S : \A y \in S : y <= x
Now == MaxOf({ver[o] : o \in Object} \cup {0})

MayFail(kind) == kind \in Faults /\ faults < MaxFaults
Fail(kind) == MayFail(kind) /\ faults' = faults + 1

\* saveTeamAutoStore writes the store as it is when its turn comes, or rejects.
Stored == file' = [repo |-> repo', cursors |-> cursors', budget |-> budget']
Written == Stored /\ UNCHANGED faults
NotWritten == Fail("write") /\ UNCHANGED file

Sweepable == repo.bound /\ repo.prov = "ready"
TickInProgress == sweep.at # "off" /\ sweep.by = "timer"

-----------------------------------------------------------------------------
(* Binding and changing the repository. *)

\* When the save fails, the repository stays bound in memory, but neither its timer nor
\* its provisioning is started.
addRepo ==
  /\ repo = NoRepo
  /\ repo' = [bound |-> TRUE, enabled |-> TRUE, pause |-> "none", due |-> FALSE,
              observed |-> ~FirstSweepDryRun, prov |-> "provisioning"]
  /\ cursors' = NoCursors
  /\ UNCHANGED <<ver, budget, task, sweep, created, forgotten, hidden>>
  /\ \/ Written /\ armed' = TRUE /\ UNCHANGED stuck
     \/ NotWritten /\ stuck' = {"provisioning", "timer"} /\ UNCHANGED armed

\* The clone and the norms take a while, and may fail; so does a save that fails at the end.
provisionRepoInBackground ==
  /\ repo.bound /\ repo.prov = "provisioning" /\ "provisioning" \notin stuck
  /\ UNCHANGED <<ver, cursors, budget, task, sweep, armed, history>>
  /\ \/ repo' = [repo EXCEPT !.prov = "ready"] /\ Written
     \/ repo' = [repo EXCEPT !.prov = "failed"] /\ (Written \/ NotWritten)

\* A sweep of the repository goes on, on an object that the store has no more.
removeRepo ==
  /\ repo.bound
  /\ IF sweep.at = "off" THEN repo' = Removed /\ cursors' = NoCursors /\ hidden' = {} /\ stuck' = {}
     ELSE repo' = [repo EXCEPT !.bound = FALSE] /\ UNCHANGED <<cursors, hidden, stuck>>
  /\ UNCHANGED <<ver, budget, task, sweep, created, forgotten>>
  /\ \/ Written /\ armed' = FALSE
     \/ NotWritten /\ UNCHANGED armed

\* Mutant: enabling leaves the timer to the chain that has ended.
enableWithoutTimer ==
  /\ repo.bound
  /\ repo' = [repo EXCEPT !.enabled = TRUE, !.pause = "none", !.due = FALSE]
  /\ UNCHANGED <<ver, cursors, budget, task, sweep, armed, history>>
  /\ Written \/ NotWritten
\* A timer that has fired for a disabled repository is not set again, so enabling it sets
\* one, unless the save before that fails.
enableRepo ==
  /\ repo.bound
  /\ repo' = [repo EXCEPT !.enabled = TRUE, !.pause = "none", !.due = FALSE]
  /\ UNCHANGED <<ver, cursors, budget, task, sweep, created, forgotten, hidden>>
  /\ \/ Written /\ armed' = TRUE /\ stuck' = stuck \ {"timer"}
     \/ /\ NotWritten /\ UNCHANGED armed
        /\ stuck' = IF armed \/ TickInProgress THEN stuck ELSE stuck \cup {"timer"}
disableRepo ==
  /\ repo.bound /\ repo.enabled
  /\ repo' = [repo EXCEPT !.enabled = FALSE, !.pause = IF @ = "none" THEN "user" ELSE @]
  /\ UNCHANGED <<ver, cursors, budget, task, sweep, armed, history>>
  /\ Written \/ NotWritten

updateRepo ==
  /\ repo.bound
  /\ armed' = repo.enabled
  /\ stuck' = stuck \ {"timer"}
  /\ UNCHANGED <<repo, cursors, budget>> /\ Written
  /\ UNCHANGED <<ver, task, sweep, created, forgotten, hidden>>

-----------------------------------------------------------------------------
(* The timer of the repository. *)

retryDue == repo.pause = "auto" /\ repo.due
MaySweep == repo.enabled /\ (repo.pause = "none" \/ retryDue)

begin(by) == sweep' = [at |-> "issues", by |-> by, issues |-> {}]

\* Mutant: the retry of a sweep that failed waits for a sweep that succeeded.
TimerFiresUnlessPaused ==
  /\ armed
  /\ IF repo.bound /\ repo.enabled /\ repo.pause = "none" /\ Sweepable /\ sweep.at = "off"
       THEN begin("timer") /\ armed' = FALSE
       ELSE armed' = (repo.bound /\ repo.enabled) /\ UNCHANGED sweep
  /\ UNCHANGED <<ver, store, file, task, faults, history>>
\* The tick sweeps when it may, and sets the next timer afterwards, or at once when there is
\* nothing to wait for.  For a repository that is gone or disabled the chain ends.
TimerFires ==
  /\ armed
  /\ IF repo.bound /\ MaySweep /\ Sweepable /\ sweep.at = "off"
       THEN begin("timer") /\ armed' = FALSE
       ELSE armed' = (repo.bound /\ repo.enabled) /\ UNCHANGED sweep
  /\ UNCHANGED <<ver, store, file, task, faults, history>>

\* By hand a paused or a disabled repository is swept, too.
runSweepNow ==
  /\ Sweepable /\ sweep.at = "off"
  /\ begin("hand")
  /\ UNCHANGED <<ver, store, file, task, armed, faults, history>>

\* sweepRetryDueAt: time passes, on disk as in memory.
BackoffPasses ==
  /\ repo.pause = "auto" /\ ~repo.due
  /\ repo' = [repo EXCEPT !.due = TRUE]
  /\ file' = [file EXCEPT !.repo.due = @ \/ file.repo.pause = "auto"]
  /\ UNCHANGED <<ver, cursors, budget, task, sweep, armed, faults, history>>

-----------------------------------------------------------------------------
(* A sweep. *)

unseen(page) == {x[1] : x \in {y \in page : cursors.seen[y[1]] < y[2]}}

\* listIssues: what was updated since the newest issue seen.  GitHub answers 304 when the
\* ETag that was kept for the same URL is of the same page.
issuePage == {<<o, ver[o]>> : o \in {i \in Issue : ver[i] > 0 /\ ver[i] >= cursors.since}}
listIssues ==
  LET unchanged == cursors.since > 0 /\ cursors.issues = issuePage
  IN /\ sweep.at = "issues"
     /\ sweep' = [sweep EXCEPT !.at = "pulls", !.issues = IF unchanged THEN {} ELSE issuePage]
     /\ cursors' = [cursors EXCEPT !.issues = IF cursors.since > 0 THEN issuePage ELSE {}]
     /\ hidden' = IF unchanged THEN hidden \cup unseen(issuePage) ELSE hidden
     /\ UNCHANGED <<ver, repo, budget, file, task, armed, faults, created, forgotten, stuck>>

\* listPulls has one URL.
pullPage == {<<o, ver[o]>> : o \in {p \in Pull : ver[p] > 0}}

\* The order in which sweepRepo lists candidates: issues, pull requests (the newest first),
\* and the sections of a full review.
IndexOf(k) == CHOOSE i \in DOMAIN Roles : Roles[i] = k
Before(a, b) ==
  \/ a \in Issue /\ b \in Pull
  \/ a \in Object /\ b \in Section
  \/ {a, b} \subseteq Issue /\ ver[a] > ver[b]
  \/ {a, b} \subseteq Pull /\ ver[a] > ver[b]
  \/ {a, b} \subseteq Section /\ IndexOf(a) < IndexOf(b)
First(n, S) == {k \in S : Cardinality({j \in S : Before(j, k)}) < n}

\* sweepRepo keeps twice the cap, and runSweep the cap, from which sections are exempt.
candidates(issues, pulls) ==
  First(2 * MaxPerSweep, unseen(issues) \cup unseen(pulls)
                         \cup (IF cursors.review THEN Section ELSE {}))
capped(found) ==
  LET sections == found \cap Section
      rest == MaxPerSweep - Cardinality(sections)
  IN sections \cup First(IF rest > 0 THEN rest ELSE 0, found \ sections)

advanceCursors(issues, pulls) ==
  LET page == issues \cup pulls
      newest(o) == MaxOf({x[2] : x \in {y \in page : y[1] = o}})
      since == MaxOf({x[2] : x \in issues} \cup {cursors.since})
  IN [cursors EXCEPT !.seen = [o \in Object |-> IF \E x \in page : x[1] = o THEN newest(o) ELSE @[o]],
                     !.since = since, !.issues = IF since = cursors.since THEN @ ELSE {}]

\* Mutant: what is used is compared without what is asked for.
AffordableUpTo(n) == budget <= MaxPerDay
Affordable(n) == budget + n <= MaxPerDay
\* Mutant: what cannot be afforded is counted, too.
consumeAnyway(n) == budget + n
consumeDailyBudget(n) == IF Affordable(n) THEN budget + n ELSE budget

\* Mutant: only hard failures end the attempts.
deadOnHardFailures(k) == task[k].hard >= HardLimit
DeadLettered(k) == task[k].hard >= HardLimit \/ task[k].hard + task[k].soft >= TotalLimit

\* enqueueCandidate: no second active task, and no further one after too many failures.
Enqueued(keys) == {k \in keys : ~task[k].active /\ ~DeadLettered(k)}

\* What the sweep does with what it listed, up to its save.  The first sweep only reports.
reports == ~repo.observed /\ FirstSweepDryRun
recovered == [repo EXCEPT !.pause = IF @ = "auto" THEN "none" ELSE @, !.due = FALSE]
report ==
  /\ repo' = [recovered EXCEPT !.observed = TRUE]
  /\ cursors' = [cursors EXCEPT !.pulls = pullPage]
  /\ UNCHANGED <<budget, task, created>>
act(issues, pulls) ==
  LET todo == capped(candidates(issues, pulls))
      new == IF Affordable(Cardinality(todo)) THEN Enqueued(todo) ELSE {}
  IN /\ repo' = recovered
     /\ cursors' = [advanceCursors(issues, pulls) EXCEPT !.pulls = pullPage,
          !.review = @ /\ ~(Affordable(Cardinality(todo)) /\ todo \cap Section # {})]
     /\ budget' = consumeDailyBudget(Cardinality(todo))
     /\ task' = [k \in Key |-> IF k \in new THEN [task[k] EXCEPT !.active = TRUE] ELSE task[k]]
     /\ created' = created + Cardinality(new)

listPulls ==
  LET unchanged == cursors.pulls = pullPage /\ pullPage # {} IN
  /\ sweep.at = "pulls"
  /\ IF reports THEN report ELSE act(sweep.issues, IF unchanged THEN {} ELSE pullPage)
  /\ hidden' = {o \in hidden \cup (IF unchanged THEN unseen(pullPage) ELSE {}) :
                 cursors'.seen[o] < ver[o]}
  /\ sweep' = [sweep EXCEPT !.at = "saving", !.issues = {}]
  /\ UNCHANGED <<ver, file, armed, faults, forgotten, stuck>>

\* The end of runSweep, and of the tick that waited for it: the repository is r now.
endsWith(r) ==
  /\ sweep' = NoSweep
  /\ armed' = (armed \/ (sweep.by = "timer" /\ repo.enabled))
  /\ UNCHANGED budget
  /\ IF repo.bound THEN repo' = r /\ UNCHANGED <<cursors, hidden, stuck>>
     ELSE repo' = Removed /\ cursors' = NoCursors /\ hidden' = {} /\ stuck' = {}

\* Any error pauses the repository, whoever had paused it before, and is saved if possible.
fails ==
  /\ endsWith([repo EXCEPT !.pause = "auto", !.due = FALSE])
  /\ Stored \/ UNCHANGED file
FetchFails ==
  /\ sweep.at \in {"issues", "pulls"} /\ Fail("fetch")
  /\ fails
  /\ UNCHANGED <<ver, task, created, forgotten>>
SaveFails ==
  /\ sweep.at = "saving" /\ Fail("write")
  /\ fails
  /\ UNCHANGED <<ver, task, created, forgotten>>
SweepEnds ==
  /\ sweep.at = "saving"
  /\ endsWith(repo) /\ Written
  /\ UNCHANGED <<ver, task, created, forgotten>>

-----------------------------------------------------------------------------
(* The rest of the world. *)

\* What happens after the removal of the repository is of no interest.
Update(o) ==
  /\ Now < MaxTime /\ repo # Removed
  /\ ver' = [ver EXCEPT ![o] = Now + 1]
  /\ UNCHANGED <<store, file, task, sweep, armed, faults, history>>

\* reconcileWritebacks posts the result, and marks the object as seen up to then: also
\* what was updated since the sweep that created the task.
TaskEnds(o) ==
  /\ task[o].active /\ repo # Removed
  /\ UNCHANGED <<ver, repo, budget, file, sweep, armed, faults, history>>
  /\ \/ /\ task' = [task EXCEPT ![o].active = FALSE]
        /\ \/ UNCHANGED cursors
           \/ repo.bound /\ cursors' = [cursors EXCEPT !.seen[o] = ver[o]]
     \/ /\ \/ task' = [task EXCEPT ![o].active = FALSE, ![o].hard = @ + 1]
           \/ task' = [task EXCEPT ![o].active = FALSE, ![o].soft = @ + 1]
        /\ UNCHANGED cursors

\* consumeDailyBudget resets the budget when it finds an older stamp; that is here.
NewDay ==
  /\ repo # Removed
  /\ budget > 0 \/ created > 0
  /\ budget' = 0
  /\ file' = [file EXCEPT !.budget = 0]
  /\ created' = 0 /\ forgotten' = 0
  /\ UNCHANGED <<ver, repo, cursors, task, sweep, armed, faults, hidden, stuck>>

\* The interval of the full review has passed, and the sections of the last one are done:
\* the next cycle has keys of its own.
ReviewFallsDue ==
  /\ ~cursors.review /\ repo # Removed
  /\ cursors' = [cursors EXCEPT !.review = TRUE]
  /\ file' = [file EXCEPT !.cursors.review = TRUE]
  /\ task' = [k \in Key |-> IF k \in Section THEN NoTask ELSE task[k]]
  /\ UNCHANGED <<ver, repo, budget, sweep, armed, faults, history>>

\* The process ends and starts again: loadTeamAutoStore, which takes a file that it cannot
\* read for an empty one, and start.  A provisioning is not taken up again.
Restart ==
  LET empty == [repo |-> NoRepo, cursors |-> NoCursors, budget |-> 0]
      found == IF file.repo.bound \/ file.repo = NoRepo THEN file
               ELSE [empty EXCEPT !.budget = file.budget, !.repo = Removed]
  IN
  /\ Fail("crash")
  /\ \E s \in {found} \cup (IF "read" \in Faults THEN {empty} ELSE {}) :
       /\ repo' = s.repo /\ cursors' = s.cursors /\ budget' = s.budget
       /\ armed' = s.repo.enabled
       /\ stuck' = IF s.repo.prov = "provisioning" THEN {"provisioning"} ELSE {}
       /\ forgotten' = forgotten + budget - s.budget
  /\ sweep' = NoSweep
  /\ hidden' = {}
  /\ UNCHANGED <<ver, file, task, created>>

-----------------------------------------------------------------------------
Next ==
  \/ addRepo \/ provisionRepoInBackground \/ removeRepo \/ enableRepo \/ disableRepo \/ updateRepo
  \/ TimerFires \/ runSweepNow \/ BackoffPasses
  \/ listIssues \/ listPulls \/ FetchFails \/ SaveFails \/ SweepEnds
  \/ NewDay \/ ReviewFallsDue \/ Restart
  \/ \E o \in Object : Update(o) \/ TaskEnds(o)

Spec == Init /\ [][Next]_vars

\* GitHub answers, saves are made, and timers fire.
Fairness == /\ WF_vars(listIssues) /\ WF_vars(listPulls) /\ WF_vars(SweepEnds)
            /\ WF_vars(TimerFires) /\ WF_vars(BackoffPasses)
FairSpec == Spec /\ Fairness

-----------------------------------------------------------------------------
(* However failures, retries, restarts and updates interleave, no object gets a task   *)
(* after its attempts have failed too often: the log of the attempts is the task list,  *)
(* which outlives a restart that the cursors and the budget do not.                     *)
AttemptsAreBounded ==
  \A k \in Key : /\ task[k].hard <= HardLimit
                 /\ task[k].hard + task[k].soft <= TotalLimit

(* No more tasks are created in a day than the budget has, but for what a restart      *)
(* forgot of it because the store was not saved.                                       *)
CreatedWithinBudget == created <= MaxPerDay + forgotten

(* An enabled and provisioned repository is swept again and again, whatever failed     *)
(* before, unless nothing sets its timer.                                              *)
SweepsGoOn ==
  []<>(~Sweepable \/ ~repo.enabled \/ stuck # {} \/ sweep.at = "saving")

(* Every update of an object is looked at by a sweep that acts, or covered by the reply *)
(* to an earlier version, unless GitHub was told by the ETag of a sweep that did not act *)
(* that the page is known.                                                              *)
EveryUpdateIsSeen ==
  []<>(\/ \A o \in Object : cursors.seen[o] >= ver[o] \/ o \in hidden
       \/ ~Sweepable \/ ~repo.enabled \/ stuck # {})
=============================================================================
