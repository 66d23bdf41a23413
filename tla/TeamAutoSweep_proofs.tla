------------------------ MODULE TeamAutoSweep_proofs ------------------------
(***************************************************************************)
(* What TLAPS proves of TeamAutoSweep: the two limits on what autonomous   *)
(* work may create, and the types of all variables, hold for every set of  *)
(* objects and roles, every limit and every number and kind of failures.   *)
(***************************************************************************)
EXTENDS TeamAutoSweep, FiniteSetTheorems, WellFoundedInduction, TLAPS

-----------------------------------------------------------------------------
(* The log of the attempts. *)

\* Only an object that is not dead-lettered has an active task, so that the one more
\* failure it may end with stays within the limits.
WithinLimits(t) ==
  /\ t.hard <= HardLimit /\ t.hard + t.soft <= TotalLimit
  /\ t.active => t.hard < HardLimit /\ t.hard + t.soft < TotalLimit

AttemptInv ==
  /\ task \in [Key -> TaskLog]
  /\ \A k \in Key : WithinLimits(task[k])

LEMMA NoTaskWithin == NoTask \in TaskLog /\ WithinLimits(NoTask)
  BY SweepAssumption DEF NoTask, TaskLog, WithinLimits

\* A task that is created.
LEMMA StartWithin ==
  ASSUME NEW t \in TaskLog, WithinLimits(t),
         ~(t.hard >= HardLimit \/ t.hard + t.soft >= TotalLimit)
  PROVE  /\ [t EXCEPT !.active = TRUE] \in TaskLog
         /\ WithinLimits([t EXCEPT !.active = TRUE])
<1> DEFINE u == [t EXCEPT !.active = TRUE]
<1>1. u \in TaskLog /\ u.hard = t.hard /\ u.soft = t.soft
  BY DEF TaskLog
<1>2. t.hard \in Nat /\ t.soft \in Nat
  BY DEF TaskLog
<1>3. u.hard < HardLimit /\ u.hard + u.soft < TotalLimit
  BY <1>1, <1>2, SweepAssumption
<1> HIDE DEF u
<1>4. WithinLimits(u)
  BY <1>1, <1>2, <1>3, SweepAssumption DEF WithinLimits
<1> QED
  BY <1>1, <1>4 DEF u

\* A task that ends.
LEMMA EndWithin ==
  ASSUME NEW t \in TaskLog, WithinLimits(t), t.active,
         NEW u \in {[t EXCEPT !.active = FALSE],
                    [t EXCEPT !.active = FALSE, !.hard = @ + 1],
                    [t EXCEPT !.active = FALSE, !.soft = @ + 1]}
  PROVE  u \in TaskLog /\ WithinLimits(u)
<1>1. /\ t.hard \in Nat /\ t.soft \in Nat
      /\ t.hard < HardLimit /\ t.hard + t.soft < TotalLimit
  BY DEF TaskLog, WithinLimits
<1>2. u \in TaskLog /\ u.active = FALSE
  <2>1. CASE u = [t EXCEPT !.active = FALSE]
    BY <2>1 DEF TaskLog
  <2>2. CASE u = [t EXCEPT !.active = FALSE, !.hard = @ + 1]
    <3>1. u = [active |-> FALSE, hard |-> t.hard + 1, soft |-> t.soft]
      BY <2>2, Zenon DEF TaskLog
    <3> QED
      BY <1>1, <3>1 DEF TaskLog
  <2>3. CASE u = [t EXCEPT !.active = FALSE, !.soft = @ + 1]
    <3>1. u = [active |-> FALSE, hard |-> t.hard, soft |-> t.soft + 1]
      BY <2>3, Zenon DEF TaskLog
    <3> QED
      BY <1>1, <3>1 DEF TaskLog
  <2> QED
    BY <2>1, <2>2, <2>3
<1>3. \/ u.hard = t.hard /\ u.soft = t.soft
      \/ u.hard = t.hard + 1 /\ u.soft = t.soft
      \/ u.hard = t.hard /\ u.soft = t.soft + 1
  BY DEF TaskLog
<1>4. u.hard <= HardLimit /\ u.hard + u.soft <= TotalLimit
  BY <1>1, <1>3, SweepAssumption
<1> QED
  BY <1>2, <1>4 DEF WithinLimits

LEMMA AttemptStep == AttemptInv /\ [Next]_vars => AttemptInv'
<1> SUFFICES ASSUME AttemptInv, [Next]_vars PROVE AttemptInv'
  OBVIOUS
<1>1. ASSUME task' = task PROVE AttemptInv'
  BY <1>1 DEF AttemptInv, WithinLimits
<1>2. ASSUME NEW S \in SUBSET Key, \A k \in S : ~task[k].active /\ ~DeadLettered(k),
             task' = [k \in Key |-> IF k \in S THEN [task[k] EXCEPT !.active = TRUE] ELSE task[k]]
      PROVE  AttemptInv'
  <2> SUFFICES ASSUME NEW k \in Key PROVE task'[k] \in TaskLog /\ WithinLimits(task'[k])
    BY <1>2 DEF AttemptInv, WithinLimits
  <2>1. task[k] \in TaskLog /\ WithinLimits(task[k])
    BY DEF AttemptInv
  <2>2. CASE k \in S
    <3>1. ~(task[k].hard >= HardLimit \/ task[k].hard + task[k].soft >= TotalLimit)
      BY <1>2, <2>2 DEF DeadLettered
    <3>2. task'[k] = [task[k] EXCEPT !.active = TRUE]
      BY <1>2, <2>2
    <3> QED
      BY <2>1, <3>1, <3>2, StartWithin
  <2>3. CASE k \notin S
    BY <1>2, <2>1, <2>3
  <2> QED
    BY <2>2, <2>3
<1>3. CASE listPulls
  <2>1. CASE reports
    BY <1>1, <1>3, <2>1 DEF listPulls, report
  <2>2. CASE ~reports
    <3> PICK P : act(sweep.issues, P)
      BY <1>3, <2>2 DEF listPulls
    <3> DEFINE todo == capped(candidates(sweep.issues, P))
               new == IF Affordable(Cardinality(todo)) THEN Enqueued(todo) ELSE {}
               started == new \cap Key
    <3>1. task' = [k \in Key |-> IF k \in new THEN [task[k] EXCEPT !.active = TRUE] ELSE task[k]]
      BY DEF act
    <3>2. \A k \in new : ~task[k].active /\ ~DeadLettered(k)
      BY DEF Enqueued
    <3> HIDE DEF new, todo
    <3>3. task' = [k \in Key |-> IF k \in started THEN [task[k] EXCEPT !.active = TRUE] ELSE task[k]]
      BY <3>1
    <3>4. started \in SUBSET Key /\ \A k \in started : ~task[k].active /\ ~DeadLettered(k)
      BY <3>2
    <3> HIDE DEF started
    <3> QED
      BY <1>2, <3>3, <3>4
  <2> QED
    BY <2>1, <2>2
<1>4. ASSUME NEW k \in Object, TaskEnds(k) PROVE AttemptInv'
  <2> k \in Key
    BY DEF Key
  <2>1. PICK u \in {[task[k] EXCEPT !.active = FALSE],
                    [task[k] EXCEPT !.active = FALSE, !.hard = @ + 1],
                    [task[k] EXCEPT !.active = FALSE, !.soft = @ + 1]} :
          task' = [task EXCEPT ![k] = u]
    BY <1>4 DEF TaskEnds
  <2>2. task[k] \in TaskLog /\ WithinLimits(task[k]) /\ task[k].active
    BY <1>4 DEF TaskEnds, AttemptInv
  <2>3. u \in TaskLog /\ WithinLimits(u)
    BY <2>2, EndWithin, Zenon
  <2> QED
    BY <2>1, <2>3 DEF AttemptInv, WithinLimits
<1>5. CASE ReviewFallsDue
  BY <1>5, NoTaskWithin DEF ReviewFallsDue, AttemptInv, WithinLimits
<1>6. CASE addRepo \/ provisionRepoInBackground \/ removeRepo \/ enableRepo
  BY <1>1, <1>6 DEF addRepo, provisionRepoInBackground, removeRepo, enableRepo
<1>7. CASE disableRepo \/ updateRepo \/ TimerFires \/ runSweepNow \/ BackoffPasses \/ listIssues
  BY <1>1, <1>7 DEF disableRepo, updateRepo, TimerFires, runSweepNow, BackoffPasses, listIssues
<1>8. CASE FetchFails \/ SaveFails \/ SweepEnds \/ NewDay \/ Restart
  BY <1>1, <1>8 DEF FetchFails, SaveFails, SweepEnds, NewDay, Restart
<1>9. ASSUME NEW o \in Object, Update(o) PROVE AttemptInv'
  BY <1>1, <1>9 DEF Update
<1>10. CASE UNCHANGED vars
  BY <1>1, <1>10 DEF vars
<1> QED
  BY <1>3, <1>4, <1>5, <1>6, <1>7, <1>8, <1>9, <1>10 DEF Next

(* Whatever fails, restarts and is updated, no object is worked on after its attempts   *)
(* have failed too often (enqueueCandidate's dead-letter caps).                         *)
THEOREM AttemptsBounded == Spec => []AttemptsAreBounded
<1>1. Init => AttemptInv
  BY NoTaskWithin DEF Init, AttemptInv
<1>2. AttemptInv => AttemptsAreBounded
  BY DEF AttemptInv, WithinLimits, AttemptsAreBounded
<1> QED
  BY <1>1, <1>2, AttemptStep, PTL DEF Spec

-----------------------------------------------------------------------------
(* The budget of the day. *)

BudgetInv ==
  /\ budget \in Budget /\ file.budget \in Budget
  /\ created \in Nat /\ forgotten \in Int
  /\ created <= budget + forgotten

OfObjects(page) == \A x \in page : x[1] \in Object

\* What a sweep acts on is part of the keys, so that it can be counted.
LEMMA TodoIsKeys ==
  ASSUME NEW page1, NEW page2, OfObjects(page1), OfObjects(page2)
  PROVE  capped(candidates(page1, page2)) \subseteq Key
<1>1. unseen(page1) \subseteq Object /\ unseen(page2) \subseteq Object
  BY DEF unseen, OfObjects
<1>2. candidates(page1, page2) \subseteq Key
  BY <1>1 DEF candidates, First, Key
<1> QED
  BY <1>2 DEF capped, First

\* What it takes from the budget covers the tasks that it creates.
LEMMA ActWithinBudget ==
  ASSUME BudgetInv, NEW page1, NEW page2, OfObjects(page1), OfObjects(page2),
         act(page1, page2)
  PROVE  /\ budget' \in Budget /\ budget <= budget'
         /\ created' \in Nat /\ created' <= budget' + forgotten
<1> DEFINE todo == capped(candidates(page1, page2))
           new == IF Affordable(Cardinality(todo)) THEN Enqueued(todo) ELSE {}
<1>1. IsFiniteSet(todo) /\ Cardinality(todo) \in Nat
  BY TodoIsKeys, SweepAssumption, FS_Subset, FS_CardinalityType
<1>2. Enqueued(todo) \subseteq todo
  BY DEF Enqueued
<1>3. Cardinality(Enqueued(todo)) \in Nat /\ Cardinality(Enqueued(todo)) <= Cardinality(todo)
  BY <1>1, <1>2, FS_Subset, FS_CardinalityType
<1>4. budget' = consumeDailyBudget(Cardinality(todo)) /\ created' = created + Cardinality(new)
  BY DEF act
<1>5. budget \in Nat /\ budget <= MaxPerDay /\ MaxPerDay \in Nat
  BY SweepAssumption DEF BudgetInv, Budget
<1>6. created \in Nat /\ forgotten \in Int /\ created <= budget + forgotten
  BY DEF BudgetInv
<1>7. CASE Affordable(Cardinality(todo))
  <2>1. budget' = budget + Cardinality(todo) /\ budget' <= MaxPerDay
    BY <1>4, <1>7 DEF consumeDailyBudget, Affordable
  <2>2. created' = created + Cardinality(Enqueued(todo))
    BY <1>4, <1>7
  <2> HIDE DEF todo
  <2> QED
    BY <1>1, <1>3, <1>5, <1>6, <2>1, <2>2 DEF Budget
<1>8. CASE ~Affordable(Cardinality(todo))
  <2>1. budget' = budget /\ created' = created + 0
    BY <1>4, <1>8, FS_EmptySet DEF consumeDailyBudget
  <2> QED
    BY <1>5, <1>6, <2>1 DEF Budget
<1> QED
  BY <1>7, <1>8

\* The budget, and that the page which a sweep holds across an await is of known objects.
Inv == BudgetInv /\ OfObjects(sweep.issues)

\* What is written of the budget is a budget.
LEMMA StoredBudget ==
  ASSUME BudgetInv, budget' = budget, UNCHANGED <<created, forgotten>>,
         file' = file \/ Stored \/ file'.budget = file.budget
  PROVE  BudgetInv'
<1>1. file'.budget \in {file.budget, budget'}
  BY DEF Stored
<1>2. budget \in Nat
  BY SweepAssumption DEF BudgetInv, Budget
<1> QED
  BY <1>1, <1>2 DEF BudgetInv, Budget

LEMMA InvStep == Inv /\ [Next]_vars => Inv'
<1> SUFFICES ASSUME Inv, [Next]_vars PROVE Inv'
  OBVIOUS
<1> USE DEF Inv
<1>1. OfObjects({}) /\ OfObjects(issuePage) /\ OfObjects(pullPage)
  BY DEF OfObjects, issuePage, pullPage, Object
<1>2. ASSUME budget' = budget, UNCHANGED <<created, forgotten>>,
             file' = file \/ Stored \/ file'.budget = file.budget,
             sweep' = sweep \/ sweep'.issues = {}
      PROVE  Inv'
  BY <1>1, <1>2, StoredBudget DEF OfObjects
<1>3. CASE addRepo \/ provisionRepoInBackground \/ removeRepo \/ enableRepo
  BY <1>2, <1>3 DEF addRepo, provisionRepoInBackground, removeRepo, enableRepo, Written, NotWritten,
                    store, history
<1>4. CASE disableRepo \/ updateRepo
  BY <1>2, <1>4 DEF disableRepo, updateRepo, Written, NotWritten, store, history
<1>5. CASE TimerFires \/ runSweepNow
  BY <1>2, <1>5 DEF TimerFires, runSweepNow, begin, store, history
<1>6. CASE BackoffPasses
  <2>1. file'.budget = file.budget
    BY <1>6 DEF BackoffPasses
  <2> QED
    BY <1>2, <1>6, <2>1 DEF BackoffPasses, history
<1>7. CASE listIssues
  <2>1. UNCHANGED <<budget, file, created, forgotten>>
    BY <1>7 DEF listIssues
  <2>2. sweep'.issues \in {{}, issuePage}
    BY <1>7 DEF listIssues
  <2> QED
    BY <1>1, <2>1, <2>2 DEF BudgetInv, OfObjects
<1>8. CASE listPulls
  <2>1. sweep'.issues = {} /\ UNCHANGED <<file, forgotten>>
    BY <1>8 DEF listPulls
  <2>2. CASE reports
    BY <1>2, <1>8, <2>1, <2>2 DEF listPulls, report
  <2>3. CASE ~reports
    <3>1. PICK page \in {{}, pullPage} : act(sweep.issues, page)
      BY <1>8, <2>3 DEF listPulls
    <3>2. OfObjects(page)
      BY <1>1
    <3>3. /\ budget' \in Budget /\ budget <= budget'
          /\ created' \in Nat /\ created' <= budget' + forgotten
      BY <3>1, <3>2, ActWithinBudget
    <3>4. budget' \in Nat /\ budget \in Nat /\ file.budget \in Nat
      BY <3>3, SweepAssumption DEF BudgetInv, Budget
    <3> QED
      BY <1>1, <2>1, <3>3, <3>4 DEF BudgetInv, OfObjects
  <2> QED
    BY <2>2, <2>3
<1>9. CASE FetchFails \/ SaveFails \/ SweepEnds
  <2>1. sweep' = NoSweep /\ UNCHANGED <<budget, created, forgotten>> /\ (Stored \/ file' = file)
    BY <1>9 DEF FetchFails, SaveFails, SweepEnds, fails, endsWith, Written
  <2> QED
    BY <1>2, <2>1 DEF NoSweep
<1>10. CASE NewDay
  <2>1. file'.budget \in {0, file.budget} /\ budget' = 0 /\ created' = 0 /\ forgotten' = 0
    BY <1>10 DEF NewDay
  <2> QED
    BY <1>10, <2>1, SweepAssumption DEF NewDay, BudgetInv, Budget, OfObjects
<1>11. CASE ReviewFallsDue
  <2>1. file'.budget = file.budget
    BY <1>11 DEF ReviewFallsDue
  <2> QED
    BY <1>2, <1>11, <2>1 DEF ReviewFallsDue, history
<1>12. CASE Restart
  <2>1. \E b \in {0, file.budget} : budget' = b /\ forgotten' = forgotten + budget - b
    <3> DEFINE empty == [repo |-> NoRepo, cursors |-> NoCursors, budget |-> 0]
               found == IF file.repo.bound \/ file.repo = NoRepo THEN file
                        ELSE [empty EXCEPT !.budget = file.budget, !.repo = Removed]
    <3>1. empty.budget = 0 /\ found.budget = file.budget
      OBVIOUS
    <3>2. \E r \in {found, empty} : budget' = r.budget /\ forgotten' = forgotten + budget - r.budget
      BY <1>12 DEF Restart
    <3> HIDE DEF empty, found
    <3> QED
      BY <3>1, <3>2
  <2> PICK b \in {0, file.budget} : budget' = b /\ forgotten' = forgotten + budget - b
    BY <2>1
  <2>2. UNCHANGED <<file, created>> /\ sweep'.issues = {}
    BY <1>12 DEF Restart, NoSweep
  <2>3. budget \in Nat /\ file.budget \in Nat /\ b \in Budget
    BY SweepAssumption DEF BudgetInv, Budget
  <2> QED
    BY <1>1, <2>2, <2>3 DEF BudgetInv
<1>13. ASSUME NEW o \in Object, Update(o) PROVE Inv'
  BY <1>2, <1>13 DEF Update, store, history
<1>14. ASSUME NEW o \in Object, TaskEnds(o) PROVE Inv'
  BY <1>2, <1>14 DEF TaskEnds, history
<1>15. CASE UNCHANGED vars
  BY <1>2, <1>15 DEF vars, store, history
<1> QED
  BY <1>3, <1>4, <1>5, <1>6, <1>7, <1>8, <1>9, <1>10, <1>11, <1>12, <1>13, <1>14, <1>15 DEF Next

(* No day has more tasks than its budget, but for what a restart forgot of it           *)
(* (consumeDailyBudget, saveTeamAutoStore).                                             *)
THEOREM BudgetHolds == Spec => []CreatedWithinBudget
<1>1. Init => Inv
  BY SweepAssumption DEF Init, Inv, BudgetInv, Budget, OfObjects, NoSweep
<1>2. Inv => CreatedWithinBudget
  BY SweepAssumption DEF Inv, BudgetInv, Budget, CreatedWithinBudget
<1> QED
  BY <1>1, <1>2, InvStep, PTL DEF Spec

-----------------------------------------------------------------------------
(* What the variables can hold. *)

LEMMA Largest ==
  ASSUME NEW A \in SUBSET Time, A # {}
  PROVE  MaxOf(A) \in A /\ \A y \in A : y <= MaxOf(A)
<1> DEFINE R == {ss \in Nat \X Nat : ss[1] < ss[2]}
           T == {MaxTime - i : i \in A}
<1>0. MaxTime \in Nat /\ \A i \in A : i \in 0..MaxTime /\ MaxTime - i \in Nat
  <2>1. MaxTime \in Nat
    BY SweepAssumption
  <2>2. \A i \in A : i \in 0..MaxTime
    BY DEF Time
  <2> QED
    BY <2>1, <2>2
<1>1. T \subseteq Nat /\ T # {}
  BY <1>0
<1>2. IsWellFoundedOn(R, Nat)
  BY NatLessThanWellFounded DEF OpToRel
<1>3. PICK x \in T : \A y \in T : ~(<<y, x>> \in R)
  <2> HIDE DEF R, T
  <2> QED BY <1>1, <1>2, WFMin
<1>4. PICK i \in A : x = MaxTime - i
  BY <1>3
<1>5. \A j \in A : ~(MaxTime - j < MaxTime - i)
  BY <1>0, <1>3, <1>4
<1>6. \A y \in A : y <= i
  BY <1>0, <1>5
<1> QED
  BY <1>6 DEF MaxOf

LEMMA Constants ==
  /\ NoRepo \in Repo /\ Removed \in Repo
  /\ NoCursors \in Cursors
  /\ NoSweep \in Sweep
  /\ 0 \in Budget /\ 0 \in Time
<1>1. 0 \in Budget /\ 0 \in Time
  BY SweepAssumption DEF Budget, Time
<1>2. NoRepo \in Repo /\ Removed \in Repo
  BY DEF Repo, NoRepo, Removed
<1>3. {} \in Page
  BY DEF Page
<1>4. NoCursors \in Cursors
  BY <1>1, <1>3 DEF Cursors, NoCursors
<1>5. NoSweep \in Sweep
  BY <1>3 DEF Sweep, NoSweep
<1> QED
  BY <1>1, <1>2, <1>4, <1>5

\* The pages that GitHub answers with.
LEMMA PageTypes ==
  ASSUME ver \in [Object -> Time]
  PROVE  issuePage \in Page /\ pullPage \in Page
  BY DEF issuePage, pullPage, Page, Object

LEMMA UnseenType ==
  ASSUME NEW page \in Page
  PROVE  unseen(page) \subseteq Object
  BY DEF Page, unseen

\* The cursors after a sweep are of times that some object had.
LEMMA AdvanceType ==
  ASSUME cursors \in Cursors, NEW issues \in Page, NEW pulls \in Page
  PROVE  advanceCursors(issues, pulls) \in Cursors
<1> DEFINE page == issues \cup pulls
           timesOf(o) == {x[2] : x \in {y \in page : y[1] = o}}
           seen == [o \in Object |-> IF \E x \in page : x[1] = o THEN MaxOf(timesOf(o))
                                     ELSE cursors.seen[o]]
           times == {x[2] : x \in issues} \cup {cursors.since}
           since == MaxOf(times)
           kept == IF since = cursors.since THEN cursors.issues ELSE {}
<1>1. /\ cursors.seen \in [Object -> Time] /\ cursors.since \in Time
      /\ cursors.issues \in Page
  BY DEF Cursors
<1>2. seen \in [Object -> Time]
  <2> SUFFICES ASSUME NEW o \in Object, \E x \in page : x[1] = o
               PROVE  MaxOf(timesOf(o)) \in Time
    BY <1>1
  <2>1. timesOf(o) \in SUBSET Time /\ timesOf(o) # {}
    BY DEF Page
  <2> HIDE DEF timesOf
  <2> QED
    BY <2>1, Largest
<1>3. since \in Time
  <2>1. times \in SUBSET Time /\ times # {}
    BY <1>1 DEF Page
  <2> HIDE DEF times
  <2> QED
    BY <2>1, Largest
<1>4. kept \in Page
  BY <1>1 DEF Page
<1>5. advanceCursors(issues, pulls)
        = [cursors EXCEPT !.seen = seen, !.since = since, !.issues = kept]
  BY <1>1, Zenon DEF advanceCursors, Cursors
<1> HIDE DEF seen, since, kept
<1> QED
  BY <1>2, <1>3, <1>4, <1>5 DEF Cursors

\* A failure is counted within its bound.
LEMMA FailType ==
  ASSUME faults \in 0..MaxFaults, NEW kind, Fail(kind)
  PROVE  faults' \in 0..MaxFaults
  BY SweepAssumption DEF Fail, MayFail

File == [repo : Repo, cursors : Cursors, budget : Budget]

LEMMA StoredType ==
  ASSUME Stored, repo' \in Repo, cursors' \in Cursors, budget' \in Budget
  PROVE  file' \in File
  BY DEF Stored, File

\* What a save leaves behind, whether it is made or not.
LEMMA SaveType ==
  ASSUME SweepTypeOK, Written \/ NotWritten,
         repo' \in Repo, cursors' \in Cursors, budget' \in Budget
  PROVE  file' \in File /\ faults' \in 0..MaxFaults
<1>1. file \in File /\ faults \in 0..MaxFaults
  BY DEF SweepTypeOK, File
<1>2. CASE Written
  BY <1>1, <1>2, StoredType DEF Written
<1>3. CASE NotWritten
  BY <1>1, <1>3, FailType DEF NotWritten
<1> QED
  BY <1>2, <1>3

\* The end of a sweep, however it ends.
LEMMA EndType ==
  ASSUME SweepTypeOK, NEW r \in Repo, endsWith(r)
  PROVE  /\ repo' \in Repo /\ cursors' \in Cursors /\ budget' \in Budget
         /\ sweep' \in Sweep /\ armed' \in BOOLEAN
         /\ hidden' \subseteq Object /\ stuck' \subseteq {"provisioning", "timer"}
<1>1. sweep' = NoSweep /\ armed' \in BOOLEAN /\ budget' = budget
  BY DEF endsWith, SweepTypeOK
<1>2. CASE repo.bound
  BY <1>1, <1>2, Constants DEF endsWith, SweepTypeOK
<1>3. CASE ~repo.bound
  BY <1>1, <1>3, Constants DEF endsWith, SweepTypeOK
<1> QED
  BY <1>2, <1>3

\* A step leaves what a save left, or what there was.
LEMMA SweepTypeStep ==
  SweepTypeOK /\ AttemptInv' /\ Inv' /\ [Next]_vars => SweepTypeOK'
<1> SUFFICES ASSUME SweepTypeOK, AttemptInv', Inv', [Next]_vars PROVE SweepTypeOK'
  OBVIOUS
<1>1. task' \in [Key -> TaskLog] /\ budget' \in Budget /\ created' \in Nat /\ forgotten' \in Int
  BY DEF AttemptInv, Inv, BudgetInv
<1>2. ASSUME ver' \in [Object -> Time], repo' \in Repo, cursors' \in Cursors, file' \in File,
             sweep' \in Sweep, armed' \in BOOLEAN, faults' \in 0..MaxFaults,
             hidden' \subseteq Object, stuck' \subseteq {"provisioning", "timer"}
      PROVE  SweepTypeOK'
  BY <1>1, <1>2 DEF SweepTypeOK, File
<1>3. /\ ver \in [Object -> Time] /\ repo \in Repo /\ cursors \in Cursors /\ file \in File
      /\ sweep \in Sweep /\ armed \in BOOLEAN /\ faults \in 0..MaxFaults
      /\ hidden \subseteq Object /\ stuck \subseteq {"provisioning", "timer"}
  BY DEF SweepTypeOK, File
<1>4. CASE addRepo
  <2>1. repo' \in Repo /\ cursors' \in Cursors
    BY <1>4, Constants, SweepAssumption DEF addRepo, Repo
  <2>2. file' \in File /\ faults' \in 0..MaxFaults
    BY <1>1, <1>4, <2>1, SaveType DEF addRepo
  <2> QED
    BY <1>2, <1>3, <1>4, <2>1, <2>2 DEF addRepo
<1>5. CASE provisionRepoInBackground
  <2>1. repo' \in Repo /\ cursors' \in Cursors
    BY <1>3, <1>5 DEF provisionRepoInBackground, Repo
  <2>2. file' \in File /\ faults' \in 0..MaxFaults
    BY <1>1, <1>5, <2>1, SaveType DEF provisionRepoInBackground
  <2> QED
    BY <1>2, <1>3, <1>5, <2>1, <2>2 DEF provisionRepoInBackground, history
<1>6. CASE removeRepo
  <2>1. repo' \in Repo /\ cursors' \in Cursors /\ hidden' \subseteq Object
        /\ stuck' \subseteq {"provisioning", "timer"}
    <3>1. CASE sweep.at = "off"
      BY <1>3, <1>6, <3>1, Constants DEF removeRepo
    <3>2. CASE sweep.at # "off"
      BY <1>3, <1>6, <3>2 DEF removeRepo, Repo
    <3> QED
      BY <3>1, <3>2
  <2>2. file' \in File /\ faults' \in 0..MaxFaults
    BY <1>1, <1>6, <2>1, SaveType DEF removeRepo
  <2> QED
    BY <1>2, <1>3, <1>6, <2>1, <2>2 DEF removeRepo
<1>7. CASE enableRepo
  <2>1. repo' \in Repo /\ cursors' \in Cursors
    BY <1>3, <1>7 DEF enableRepo, Repo
  <2>2. file' \in File /\ faults' \in 0..MaxFaults
    BY <1>1, <1>7, <2>1, SaveType DEF enableRepo
  <2>3. armed' \in BOOLEAN /\ stuck' \subseteq {"provisioning", "timer"}
    BY <1>3, <1>7 DEF enableRepo
  <2> QED
    BY <1>2, <1>3, <1>7, <2>1, <2>2, <2>3 DEF enableRepo
<1>8. CASE disableRepo
  <2>1. repo' \in Repo /\ cursors' \in Cursors
    BY <1>3, <1>8 DEF disableRepo, Repo
  <2>2. file' \in File /\ faults' \in 0..MaxFaults
    BY <1>1, <1>8, <2>1, SaveType DEF disableRepo
  <2> QED
    BY <1>2, <1>3, <1>8, <2>1, <2>2 DEF disableRepo, history
<1>9. CASE updateRepo
  <2>1. repo' = repo /\ cursors' = cursors /\ armed' = repo.enabled
    BY <1>9 DEF updateRepo
  <2>2. file' \in File /\ faults' \in 0..MaxFaults
    BY <1>1, <1>3, <1>9, <2>1, SaveType DEF updateRepo
  <2>3. armed' \in BOOLEAN
    BY <1>3, <2>1 DEF Repo
  <2> QED
    BY <1>2, <1>3, <1>9, <2>1, <2>2, <2>3 DEF updateRepo
<1>10. CASE TimerFires \/ runSweepNow
  <2>1. \A by \in {"timer", "hand"} : begin(by) => sweep' \in Sweep
    BY DEF begin, Sweep, Page
  <2>2. sweep' \in Sweep /\ armed' \in BOOLEAN
    <3>1. CASE TimerFires
      <4>1. begin("timer") \/ sweep' = sweep
        BY <3>1 DEF TimerFires
      <4>2. armed' = FALSE \/ armed' = (repo.bound /\ repo.enabled)
        BY <3>1 DEF TimerFires
      <4> QED
        BY <1>3, <2>1, <4>1, <4>2
    <3>2. CASE runSweepNow
      BY <1>3, <2>1, <3>2 DEF runSweepNow
    <3> QED
      BY <1>10, <3>1, <3>2
  <2> QED
    BY <1>2, <1>3, <1>10, <2>2 DEF TimerFires, runSweepNow, store, history
<1>11. CASE BackoffPasses
  <2>1. repo' \in Repo
    BY <1>3, <1>11 DEF BackoffPasses, Repo
  <2>2. file' \in File
    <3>1. file' = [file EXCEPT !.repo = [file.repo EXCEPT !.due = (file.repo.due \/ file.repo.pause = "auto")]]
      BY <1>3, <1>11 DEF BackoffPasses, File
    <3>2. file.repo \in Repo
      BY <1>3 DEF File
    <3>3. [file.repo EXCEPT !.due = (file.repo.due \/ file.repo.pause = "auto")] \in Repo
      BY <3>2 DEF Repo
    <3> QED
      BY <1>3, <3>1, <3>3 DEF File
  <2> QED
    BY <1>2, <1>3, <1>11, <2>1, <2>2 DEF BackoffPasses, history
<1>12. CASE listIssues
  <2>1. issuePage \in Page /\ {} \in Page
    BY <1>3, PageTypes DEF Page
  <2>2. PICK p \in {{}, issuePage} : sweep' = [sweep EXCEPT !.at = "pulls", !.issues = p]
    BY <1>12 DEF listIssues
  <2>3. PICK q \in {{}, issuePage} : cursors' = [cursors EXCEPT !.issues = q]
    BY <1>12 DEF listIssues
  <2>4. sweep' \in Sweep
    BY <1>3, <2>1, <2>2 DEF Sweep
  <2>5. cursors' \in Cursors
    BY <1>3, <2>1, <2>3 DEF Cursors
  <2>6. hidden' \subseteq Object
    BY <1>3, <1>12, <2>1, UnseenType DEF listIssues
  <2> QED
    BY <1>2, <1>3, <1>12, <2>4, <2>5, <2>6 DEF listIssues
<1>13. CASE listPulls
  <2>1. pullPage \in Page /\ {} \in Page
    BY <1>3, PageTypes DEF Page
  <2>2. recovered \in Repo
    BY <1>3 DEF recovered, Repo
  <2>3. repo' \in Repo /\ cursors' \in Cursors
    <3>1. CASE reports
      <4>1. report
        BY <1>13, <3>1 DEF listPulls
      <4> QED
        BY <1>3, <2>1, <2>2, <4>1 DEF report, Repo, Cursors
    <3>2. CASE ~reports
      <4>1. PICK page \in {{}, pullPage} : act(sweep.issues, page)
        BY <1>13, <3>2 DEF listPulls
      <4> DEFINE advanced == advanceCursors(sweep.issues, page)
      <4>2. advanced \in Cursors
        BY <1>3, <2>1, AdvanceType DEF Sweep
      <4>3. PICK b \in BOOLEAN : cursors' = [advanced EXCEPT !.pulls = pullPage, !.review = b]
        <5> DEFINE todo == capped(candidates(sweep.issues, page))
                   done == advanced.review /\ ~(Affordable(Cardinality(todo)) /\ todo \cap Section # {})
        <5>1. cursors' = [advanced EXCEPT !.pulls = pullPage, !.review = done]
          BY <4>1, <4>2, Zenon DEF act, Cursors
        <5>2. done \in BOOLEAN
          OBVIOUS
        <5> HIDE DEF done
        <5> QED
          BY <5>1, <5>2
      <4> HIDE DEF advanced
      <4>4. cursors' \in Cursors
        BY <2>1, <4>2, <4>3 DEF Cursors
      <4> QED
        BY <2>2, <4>1, <4>4 DEF act
    <3> QED
      BY <3>1, <3>2
  <2>4. sweep' \in Sweep
    BY <1>3, <1>13, <2>1 DEF listPulls, Sweep
  <2>5. hidden' \subseteq Object
    BY <1>3, <1>13, <2>1, UnseenType DEF listPulls
  <2> QED
    BY <1>2, <1>3, <1>13, <2>3, <2>4, <2>5 DEF listPulls
<1>14. CASE FetchFails \/ SaveFails
  <2>1. fails /\ (Fail("fetch") \/ Fail("write")) /\ ver' = ver
    BY <1>14 DEF FetchFails, SaveFails
  <2>2. [repo EXCEPT !.pause = "auto", !.due = FALSE] \in Repo
    BY <1>3 DEF Repo
  <2>3. /\ repo' \in Repo /\ cursors' \in Cursors /\ budget' \in Budget
        /\ sweep' \in Sweep /\ armed' \in BOOLEAN
        /\ hidden' \subseteq Object /\ stuck' \subseteq {"provisioning", "timer"}
    BY <2>1, <2>2, EndType DEF fails
  <2>4. file' \in File
    BY <1>3, <2>1, <2>3, StoredType DEF fails
  <2>5. faults' \in 0..MaxFaults
    BY <1>3, <2>1, FailType
  <2> QED
    BY <1>2, <1>3, <2>1, <2>3, <2>4, <2>5
<1>15. CASE SweepEnds
  <2>1. endsWith(repo) /\ Written /\ ver' = ver
    BY <1>15 DEF SweepEnds
  <2>2. /\ repo' \in Repo /\ cursors' \in Cursors /\ budget' \in Budget
        /\ sweep' \in Sweep /\ armed' \in BOOLEAN
        /\ hidden' \subseteq Object /\ stuck' \subseteq {"provisioning", "timer"}
    BY <1>3, <2>1, EndType
  <2>3. file' \in File /\ faults' \in 0..MaxFaults
    BY <2>1, <2>2, SaveType
  <2> QED
    BY <1>2, <1>3, <2>1, <2>2, <2>3
<1>16. CASE NewDay
  <2>1. file' \in File
    BY <1>3, <1>16, Constants DEF NewDay, File
  <2> QED
    BY <1>2, <1>3, <1>16, <2>1 DEF NewDay
<1>17. CASE ReviewFallsDue
  <2>1. cursors' \in Cursors
    BY <1>3, <1>17 DEF ReviewFallsDue, Cursors
  <2>2. file' \in File
    <3>1. file' = [file EXCEPT !.cursors = [file.cursors EXCEPT !.review = TRUE]]
      BY <1>3, <1>17 DEF ReviewFallsDue, File
    <3>2. [file.cursors EXCEPT !.review = TRUE] \in Cursors
      BY <1>3 DEF File, Cursors
    <3> QED
      BY <1>3, <3>1, <3>2 DEF File
  <2> QED
    BY <1>2, <1>3, <1>17, <2>1, <2>2 DEF ReviewFallsDue, history
<1>18. CASE Restart
  <2> DEFINE empty == [repo |-> NoRepo, cursors |-> NoCursors, budget |-> 0]
             found == IF file.repo.bound \/ file.repo = NoRepo THEN file
                      ELSE [empty EXCEPT !.budget = file.budget, !.repo = Removed]
  <2>1. empty \in File /\ found \in File
    BY <1>3, Constants DEF File
  <2>2. \E s \in {found, empty} :
           /\ repo' = s.repo /\ cursors' = s.cursors /\ armed' = s.repo.enabled
           /\ stuck' = IF s.repo.prov = "provisioning" THEN {"provisioning"} ELSE {}
    BY <1>18 DEF Restart
  <2>3. Fail("crash") /\ sweep' = NoSweep /\ hidden' = {} /\ UNCHANGED <<ver, file>>
    BY <1>18 DEF Restart
  <2> HIDE DEF empty, found
  <2> PICK s \in {found, empty} :
           /\ repo' = s.repo /\ cursors' = s.cursors /\ armed' = s.repo.enabled
           /\ stuck' = IF s.repo.prov = "provisioning" THEN {"provisioning"} ELSE {}
    BY <2>2
  <2>4. s.repo \in Repo /\ s.cursors \in Cursors
    BY <2>1 DEF File
  <2>5. s.repo.enabled \in BOOLEAN
    BY <2>4 DEF Repo
  <2>6. faults' \in 0..MaxFaults
    BY <1>3, <2>3, FailType
  <2>7. stuck' \subseteq {"provisioning", "timer"}
    OBVIOUS
  <2> QED
    BY <1>2, <1>3, <2>3, <2>4, <2>5, <2>6, <2>7, Constants
<1>19. ASSUME NEW o \in Object, Update(o) PROVE SweepTypeOK'
  <2> DEFINE times == {ver[i] : i \in Object} \cup {0}
  <2>1. times \in SUBSET Time /\ times # {}
    BY <1>3, Constants
  <2>2. Now \in Time
    <3> HIDE DEF times
    <3>1. MaxOf(times) \in Time
      BY <2>1, Largest
    <3> QED
      BY <3>1 DEF Now, times
  <2>3. Now < MaxTime /\ MaxTime \in Nat
    BY <1>19, SweepAssumption DEF Update
  <2>4. Now + 1 \in Time
    BY <2>2, <2>3 DEF Time
  <2>5. ver' \in [Object -> Time]
    BY <1>3, <1>19, <2>4 DEF Update
  <2> QED
    BY <1>2, <1>3, <1>19, <2>5 DEF Update, store, history
<1>20. ASSUME NEW o \in Object, TaskEnds(o) PROVE SweepTypeOK'
  <2>1. cursors' = cursors \/ cursors' = [cursors EXCEPT !.seen[o] = ver[o]]
    BY <1>20 DEF TaskEnds
  <2>2. cursors' \in Cursors
    <3>1. [cursors.seen EXCEPT ![o] = ver[o]] \in [Object -> Time]
      BY <1>3 DEF Cursors
    <3>2. [cursors EXCEPT !.seen[o] = ver[o]] = [cursors EXCEPT !.seen = [cursors.seen EXCEPT ![o] = ver[o]]]
      BY <1>3 DEF Cursors
    <3>3. [cursors EXCEPT !.seen = [cursors.seen EXCEPT ![o] = ver[o]]] \in Cursors
      BY <1>3, <3>1 DEF Cursors
    <3> QED
      BY <1>3, <2>1, <3>2, <3>3
  <2> QED
    BY <1>2, <1>3, <1>20, <2>2 DEF TaskEnds, history
<1>21. CASE UNCHANGED vars
  BY <1>2, <1>3, <1>21 DEF vars, store, history
<1> QED
  BY <1>4, <1>5, <1>6, <1>7, <1>8, <1>9, <1>10, <1>11, <1>12, <1>13, <1>14, <1>15, <1>16, <1>17,
     <1>18, <1>19, <1>20, <1>21 DEF Next

(* Every variable holds what the code can store in it: the cursors a sweep ends with    *)
(* are of times at which the objects were updated, whatever page it acted on.           *)
THEOREM SweepTypeCorrect == Spec => []SweepTypeOK
<1>1. Init => SweepTypeOK
  <2> SUFFICES ASSUME Init PROVE SweepTypeOK
    OBVIOUS
  <2>1. file \in File
    BY Constants DEF Init, File
  <2>2. faults \in 0..MaxFaults /\ created \in Nat /\ forgotten \in Int
    <3>1. MaxFaults \in Nat
      BY SweepAssumption
    <3> QED
      BY <3>1 DEF Init
  <2>3. /\ ver \in [Object -> Time] /\ repo \in Repo /\ cursors \in Cursors /\ budget \in Budget
        /\ sweep \in Sweep
    BY Constants DEF Init
  <2>4. task \in [Key -> TaskLog] /\ armed \in BOOLEAN
        /\ hidden \subseteq Object /\ stuck \subseteq {"provisioning", "timer"}
    BY NoTaskWithin DEF Init
  <2> QED
    BY <2>1, <2>2, <2>3, <2>4 DEF SweepTypeOK, File
<1>2. Init => AttemptInv
  BY NoTaskWithin DEF Init, AttemptInv
<1>3. Init => Inv
  BY SweepAssumption DEF Init, Inv, BudgetInv, Budget, OfObjects, NoSweep
<1> QED
  BY <1>1, <1>2, <1>3, AttemptStep, InvStep, SweepTypeStep, PTL DEF Spec
=============================================================================
