----------------------- MODULE TeamAutoDelivery_proofs -----------------------
(***************************************************************************)
(* What TLAPS proves of TeamAutoDelivery, for every set of tasks, every    *)
(* number of passes that overlap, and every number of retries and failures.*)
(***************************************************************************)
EXTENDS TeamAutoDelivery, FiniteSetTheorems, TLAPS

-----------------------------------------------------------------------------
(* The inductive invariant. *)

\* An actor that is about to remove a worktree found it without work, or its work on the
\* remote; one that is about to open a pull request has pushed.
Careful(r) ==
  /\ r.removing => /\ r.cur \in dispatched
                   /\ r.saw = "clean" \/ (r.saw = "work" /\ r.cur \in pushed)
  /\ r.at = "push" => r.cur \in dispatched
  /\ r.at = "pr" => r.cur \in pushed
  /\ r.at = "clean" => r.todo \subseteq dispatched

TreeInv ==
  /\ worked \subseteq dispatched
  /\ \A t \in Write : tree[t] \in {"work", "plain"} => t \in worked
  /\ \A t \in Write : tree[t] # "none" => t \in dispatched
  /\ pushed \subseteq dispatched

ActorInv == \A a \in Actor : Careful(actor[a])

Inv == DeliveryTypeOK /\ TreeInv /\ ActorInv /\ WorkIsKept

-----------------------------------------------------------------------------
LEMMA IdleType == Idle \in Run /\ Careful(Idle)
  BY DeliveryAssumption DEF Idle, Run, Step, Tree, Careful

LEMMA EntryType == NoEntry \in Entry /\ NewEntry \in Entry
  BY DEF Entry, NoEntry, NewEntry

\* A step that leaves GitHub and the worktrees alone, and one actor a careful one.
LEMMA QuietStep ==
  ASSUME Inv, task' \in [Task -> Status], entry' \in [Task -> Entry], file' \in [Task -> Entry],
         actor' \in [Actor -> Run], retries' \in 0..MaxRetries, faults' \in 0..MaxFaults,
         \A a \in Actor : actor'[a] = actor[a] \/ Careful(actor'[a]),
         UNCHANGED <<tree, dispatched, github, worked, snatched>>
  PROVE  Inv'
<1>1. DeliveryTypeOK'
  BY DEF Inv, DeliveryTypeOK, github
<1>2. TreeInv' /\ WorkIsKept'
  BY DEF Inv, TreeInv, WorkIsKept, github
<1>3. ActorInv'
  BY DEF Inv, ActorInv, Careful, github
<1> QED
  BY <1>1, <1>2, <1>3 DEF Inv

\* The check of a worktree makes a careful actor of a careful one.
LEMMA CheckedCareful ==
  ASSUME Inv, NEW r \in Run, Careful(r), r.at \in {"clean", "next"}, NEW t \in dispatched
  PROVE  /\ checked(r, t) \in Run /\ Careful(checked(r, t))
         /\ checked(r, t).at = r.at /\ checked(r, t).todo = r.todo
<1>1. t \in Task /\ tree[t] \in Tree
  BY DEF Inv, DeliveryTypeOK, Task
<1> QED
  BY <1>1 DEF checked, Removable, Run, Careful, Step

\* An actor with a part of its list left.
LEMMA ShorterList ==
  ASSUME NEW r \in Run, Careful(r), NEW t
  PROVE  struck(r, t) \in Run /\ Careful(struck(r, t))
BY DEF struck, Run, Careful

\* A pass that goes to its next entry.
LEMMA NextType ==
  ASSUME DeliveryTypeOK, NEW p \in Pass
  PROVE  LET r == [Idle EXCEPT !.at = "next", !.todo = actor[p].todo]
         IN r \in Run /\ Careful(r)
<1>1. actor[p] \in Run
  BY DEF DeliveryTypeOK, Actor
<1> QED
  BY <1>1, IdleType DEF Idle, Run, Step, Careful

LEMMA ErredType ==
  ASSUME DeliveryTypeOK, NEW t \in Task
  PROVE  erred(t) \in [Task -> Entry]
<1> DEFINE x == [entry[t] EXCEPT !.error = @ \/ entry[t].st # "none"]
<1>1. entry \in [Task -> Entry] /\ entry[t] \in Entry
  BY DEF DeliveryTypeOK
<1>2. x \in Entry
  BY <1>1 DEF Entry
<1>3. erred(t) = [entry EXCEPT ![t] = x]
  BY <1>1 DEF erred
<1> HIDE DEF x, Entry
<1> QED
  BY <1>1, <1>2, <1>3

-----------------------------------------------------------------------------
(* The steps. *)

LEMMA TaskSteps ==
  ASSUME Inv, NEW t \in Task, Create(t) \/ End(t) \/ Retry(t) \/ Delete(t)
  PROVE  Inv'
<1>1. /\ task' \in [Task -> Status] /\ entry' \in [Task -> Entry] /\ retries' \in 0..MaxRetries
  <2> USE DeliveryAssumption DEF Inv, DeliveryTypeOK
  <2>1. CASE Create(t)
    BY <2>1, EntryType DEF Create, Status
  <2>2. CASE End(t)
    BY <2>2 DEF End, Status, Terminal
  <2>3. CASE Retry(t)
    BY <2>3 DEF Retry, Status
  <2>4. CASE Delete(t)
    BY <2>4 DEF Delete, Status
  <2> QED
    BY <2>1, <2>2, <2>3, <2>4
<1>2. UNCHANGED <<file, actor, faults, tree, dispatched, github, worked, snatched>>
  BY DEF Create, End, Retry, Delete
<1> QED
  BY <1>1, <1>2, QuietStep DEF Inv, DeliveryTypeOK

LEMMA WorkerSteps ==
  ASSUME Inv, NEW t \in Task, Dispatch(t) \/ Work(t)
  PROVE  Inv'
<1> USE DEF Inv, DeliveryTypeOK
<1>0. t \in Write
  BY DEF Dispatch, Work
<1>1. DeliveryTypeOK'
  BY <1>0 DEF Dispatch, Work, github, Tree
<1>2. TreeInv'
  BY <1>0 DEF Dispatch, Work, github, TreeInv
<1>3. WorkIsKept'
  BY <1>0 DEF Dispatch, Work, github, TreeInv, WorkIsKept
<1>4. ActorInv'
  BY DEF Dispatch, Work, github, ActorInv, Careful
<1> QED
  BY <1>1, <1>2, <1>3, <1>4

LEMMA RemoveStep ==
  ASSUME Inv, NEW a \in Actor, RemoveTree(a)
  PROVE  Inv'
<1> USE DEF Inv, DeliveryTypeOK, RemoveTree, github
<1> DEFINE t == actor[a].cur
<1>0. /\ actor[a] \in Run /\ Careful(actor[a])
      /\ t \in Write /\ actor[a].removing
  BY DEF ActorInv, Careful
<1>1. snatched' \subseteq worked
  BY <1>0 DEF TreeInv
<1>2. DeliveryTypeOK'
  BY <1>0, <1>1 DEF Run, Tree
<1>3. TreeInv'
  BY <1>0 DEF TreeInv
<1>4. ActorInv'
  BY <1>0 DEF ActorInv, Careful, Run
<1>5. WorkIsKept'
  <2>1. SUFFICES ASSUME NEW u \in worked
                 PROVE  tree'[u] \in {"work", "plain"} \/ u \in pushed \/ u \in snatched'
    BY DEF WorkIsKept
  <2>2. CASE u # t
    BY <2>2, <1>0 DEF WorkIsKept
  <2>3. CASE u = t
    BY <2>3, <1>0 DEF WorkIsKept, Careful
  <2> QED
    BY <2>2, <2>3
<1> QED
  BY <1>2, <1>3, <1>4, <1>5


\* A step in which one actor becomes a careful r, and nothing else but entries change.
LEMMA ListStep ==
  ASSUME Inv, NEW p \in Actor, NEW r \in Run, Careful(r),
         actor' = [actor EXCEPT ![p] = r],
         entry' \in [Task -> Entry], file' \in [Task -> Entry], faults' \in 0..MaxFaults,
         UNCHANGED <<task, tree, dispatched, github, retries, worked, snatched>>
  PROVE  Inv'
<1>1. /\ actor' \in [Actor -> Run] /\ \A a \in Actor : actor'[a] = actor[a] \/ Careful(actor'[a])
  BY DEF Inv, DeliveryTypeOK
<1> QED
  BY <1>1, QuietStep DEF Inv, DeliveryTypeOK

\* An actor that keeps its place, with a part of its list, perhaps about to remove a worktree.
LEMMA ListShrinks ==
  ASSUME Inv, NEW a \in Actor, NEW t \in Task, actor[a].at \in {"clean", "next"},
         \/ actor' = [actor EXCEPT ![a] = struck(@, t)]
         \/ t \in dispatched /\ actor' = [actor EXCEPT ![a] = struck(checked(@, t), t)],
         entry' \in [Task -> Entry],
         UNCHANGED <<task, file, tree, dispatched, github, retries, faults, worked, snatched>>
  PROVE  Inv'
<1>1. /\ actor[a] \in Run /\ Careful(actor[a]) /\ actor \in [Actor -> Run]
      /\ file' \in [Task -> Entry] /\ faults' \in 0..MaxFaults
  BY DEF Inv, DeliveryTypeOK, ActorInv
<1>2. CASE actor' = [actor EXCEPT ![a] = struck(@, t)]
  <2> DEFINE r == struck(actor[a], t)
  <2>1. r \in Run /\ Careful(r) /\ actor' = [actor EXCEPT ![a] = r]
    BY <1>1, <1>2, ShorterList
  <2> HIDE DEF r
  <2> QED
    BY <1>1, <2>1, ListStep
<1>3. CASE t \in dispatched /\ actor' = [actor EXCEPT ![a] = struck(checked(@, t), t)]
  <2> DEFINE c == checked(actor[a], t)
             r == struck(c, t)
  <2>1. c \in Run /\ Careful(c)
    BY <1>1, <1>3, CheckedCareful
  <2>2. r \in Run /\ Careful(r)
    BY <2>1, ShorterList
  <2>3. actor' = [actor EXCEPT ![a] = r]
    BY <1>1, <1>3
  <2> HIDE DEF r
  <2> QED
    BY <1>1, <2>2, <2>3, ListStep
<1> QED
  BY <1>2, <1>3

LEMMA PassListSteps ==
  ASSUME Inv, NEW p \in Pass, NEW t \in Task, PassCleans(p, t) \/ PassSkips(p, t) \/ PassGivesUp(p, t)
  PROVE  Inv'
<1>0. p \in Actor /\ actor[p] \in Run /\ Careful(actor[p]) /\ entry \in [Task -> Entry]
  BY DEF Inv, DeliveryTypeOK, Actor, ActorInv
<1>1. CASE PassCleans(p, t)
  <2>1. /\ actor[p].at = "clean" /\ t \in dispatched
        /\ actor' = [actor EXCEPT ![p] = struck(checked(@, t), t)]
    BY <1>0, <1>1 DEF PassCleans, Ready, Careful
  <2> QED
    BY <1>0, <1>1, <2>1, ListShrinks DEF PassCleans
<1>2. CASE PassSkips(p, t)
  <2>1. actor[p].at = "next" /\ actor' = [actor EXCEPT ![p] = struck(@, t)]
    BY <1>0, <1>2 DEF PassSkips, Ready, Inv, DeliveryTypeOK
  <2> QED
    BY <1>0, <1>2, <2>1, ListShrinks DEF PassSkips
<1>3. CASE PassGivesUp(p, t)
  <2>1. entry' \in [Task -> Entry] /\ actor[p].at = "next"
    BY <1>3, ErredType DEF PassGivesUp, Ready, Inv
  <2>2. \/ actor' = [actor EXCEPT ![p] = struck(@, t)]
        \/ t \in dispatched /\ actor' = [actor EXCEPT ![p] = struck(checked(@, t), t)]
    BY <1>0, <1>3 DEF PassGivesUp, Inv, DeliveryTypeOK
  <2> QED
    BY <1>0, <1>3, <2>1, <2>2, ListShrinks DEF PassGivesUp
<1> QED
  BY <1>1, <1>2, <1>3

LEMMA CollectSteps ==
  ASSUME Inv, (\E t \in Write : Collect(t)) \/ Collected
  PROVE  Inv'
<1>0. boot \in Actor /\ actor[boot] \in Run /\ Careful(actor[boot]) /\ entry \in [Task -> Entry] /\ actor \in [Actor -> Run]
  BY DEF Inv, DeliveryTypeOK, Actor, ActorInv
<1>1. ASSUME NEW t \in Write, Collect(t) PROVE Inv'
  <2>1. t \in Task /\ t \in dispatched /\ actor[boot].at = "clean"
    BY <1>0, <1>1 DEF Collect, Ready, Careful, Task
  <2>2. \/ actor' = [actor EXCEPT ![boot] = struck(@, t)]
        \/ actor' = [actor EXCEPT ![boot] = struck(checked(@, t), t)]
    BY <1>0, <1>1 DEF Collect
  <2> QED
    BY <1>0, <1>1, <2>1, <2>2, ListShrinks DEF Collect
<1>2. CASE Collected
  BY <1>0, <1>2, IdleType, ListStep DEF Collected, Inv, DeliveryTypeOK
<1> QED
  BY <1>1, <1>2


\* The list of a pass: its begin, its second list, an entry taken, its end.
LEMMA PassPlanSteps ==
  ASSUME Inv, NEW p \in Pass,
         PassBegins(p) \/ PassLists(p) \/ PassEnds(p) \/ \E t \in Task : PassTakes(p, t)
  PROVE  Inv'
<1>0. /\ p \in Actor /\ actor[p] \in Run /\ Careful(actor[p])
      /\ entry \in [Task -> Entry] /\ file \in [Task -> Entry]
      /\ actor \in [Actor -> Run] /\ faults \in 0..MaxFaults
  BY DEF Inv, DeliveryTypeOK, Actor, ActorInv
<1>1. CASE PassBegins(p)
  <2> DEFINE dead == {t \in Task : entry[t].st = "pending" /\ task[t] \in {"deleted", "failed"}}
             r == [Idle EXCEPT !.at = "clean", !.todo = {t \in dead \cap dispatched : task[t] # "deleted"}]
  <2>1. r \in Run /\ Careful(r)
    BY IdleType DEF Run, Step, Careful, Idle
  <2>2. entry' \in [Task -> Entry] /\ file' \in [Task -> Entry] /\ actor' = [actor EXCEPT ![p] = r]
    BY <1>0, <1>1, EntryType DEF PassBegins
  <2> HIDE DEF r
  <2> QED
    BY <1>0, <1>1, <2>1, <2>2, ListStep DEF PassBegins
<1>2. CASE PassLists(p)
  <2> DEFINE pending == {t \in Task : entry'[t].st = "pending" /\ ~entry'[t].error}
             r == IF pending = {} THEN Idle ELSE [Idle EXCEPT !.at = "next", !.todo = pending]
  <2>1. r \in Run /\ Careful(r)
    BY IdleType DEF Run, Step, Careful, Idle
  <2>2. entry' \in [Task -> Entry] /\ actor' = [actor EXCEPT ![p] = r]
    BY <1>0, <1>2 DEF PassLists, healed, Entry
  <2> HIDE DEF r
  <2> QED
    BY <1>0, <1>2, <2>1, <2>2, ListStep DEF PassLists
<1>3. CASE PassEnds(p)
  <2>1. entry' \in [Task -> Entry] /\ file' \in [Task -> Entry]
    BY <1>0, <1>3, EntryType DEF PassEnds
  <2> QED
    BY <1>0, <1>3, <2>1, IdleType, ListStep DEF PassEnds
<1>4. ASSUME NEW t \in Task, PassTakes(p, t) PROVE Inv'
  <2> DEFINE r == [actor[p] EXCEPT !.todo = @ \ {t}, !.cur = t, !.target = umbrella(t),
                                   !.at = IF t \in dispatched THEN "push" ELSE "post"]
  <2>1. umbrella(t) \in Nat
    BY <1>0 DEF umbrella, Entry, Task
  <2>2. r \in Run /\ Careful(r)
    <3> DEFINE at == IF t \in dispatched THEN "push" ELSE "post"
    <3>1. at \in Step /\ (at = "push" => t \in dispatched) /\ at \notin {"pr", "clean"}
      BY DEF Step
    <3>2. ~actor[p].removing
      BY <1>4 DEF PassTakes, Ready
    <3>5. r \in Run /\ r.removing = actor[p].removing /\ r.cur = t /\ r.at = at
      <4>1. actor[p] \in Run /\ t \in Task
        BY <1>0
      <4>2. r = [actor[p] EXCEPT !.todo = @ \ {t}, !.cur = t, !.target = umbrella(t), !.at = at]
        OBVIOUS
      <4> DEFINE goal == umbrella(t)
      <4>3. goal \in Nat
        BY <2>1
      <4>4. r = [actor[p] EXCEPT !.todo = @ \ {t}, !.cur = t, !.target = goal, !.at = at]
        BY <4>2
      <4> HIDE DEF r, at, Step, goal
      <4> QED
        BY <3>1, <4>1, <4>3, <4>4 DEF Run
    <3> HIDE DEF r
    <3> QED
      BY <3>1, <3>2, <3>5 DEF Careful
  <2>3. actor' = [actor EXCEPT ![p] = r]
    BY <1>0, <1>4 DEF PassTakes
  <2> HIDE DEF r
  <2> QED
    BY <1>0, <1>4, <2>2, <2>3, ListStep DEF PassTakes
<1> QED
  BY <1>1, <1>2, <1>3, <1>4

LEMMA PushStep ==
  ASSUME Inv, NEW p \in Pass, Push(p)
  PROVE  Inv'
<1> USE DEF Inv, Push, github
<1> DEFINE t == actor[p].cur
<1>0. /\ p \in Actor /\ actor[p] \in Run /\ Careful(actor[p])
      /\ t \in dispatched /\ t \in Write /\ tree[t] \in Tree
  BY DEF DeliveryTypeOK, Actor, ActorInv, Careful, Ready
<1>1. actor' \in [Actor -> Run] /\ tree' \in [Write -> Tree] /\ pushed \subseteq pushed'
  BY <1>0 DEF DeliveryTypeOK, Run, Step, Tree
<1>2. DeliveryTypeOK'
  BY <1>0, <1>1 DEF DeliveryTypeOK
<1>3. TreeInv'
  BY <1>0 DEF TreeInv, DeliveryTypeOK
<1>4. ActorInv'
  <2>1. ASSUME NEW a \in Actor, a # p PROVE Careful(actor[a])'
    BY <2>1, <1>1 DEF ActorInv, Careful, DeliveryTypeOK
  <2>2. Careful(actor[p])'
    BY <1>0 DEF Careful, DeliveryTypeOK, Run, Ready
  <2> QED
    BY <2>1, <2>2 DEF ActorInv
<1>5. WorkIsKept'
  BY <1>0, <1>1 DEF WorkIsKept, DeliveryTypeOK
<1> QED
  BY <1>2, <1>3, <1>4, <1>5

LEMMA OpenPRStep ==
  ASSUME Inv, NEW p \in Pass, OpenPR(p)
  PROVE  Inv'
<1> USE DEF Inv, OpenPR, github
<1>0. /\ p \in Actor /\ actor[p] \in Run /\ Careful(actor[p]) /\ actor[p].cur \in pushed
  BY DEF DeliveryTypeOK, Actor, ActorInv, Careful, Ready
<1>1. DeliveryTypeOK'
  BY <1>0 DEF DeliveryTypeOK, Run, Step, Tree
<1>2. TreeInv' /\ WorkIsKept'
  BY DEF TreeInv, WorkIsKept
<1>3. ActorInv'
  <2>1. ASSUME NEW a \in Actor, a # p PROVE Careful(actor[a])'
    BY <2>1 DEF ActorInv, Careful, DeliveryTypeOK
  <2>2. Careful(actor[p])'
    BY <1>0 DEF Careful, DeliveryTypeOK, Run, TreeInv
  <2> QED
    BY <2>1, <2>2 DEF ActorInv
<1> QED
  BY <1>1, <1>2, <1>3

LEMMA PostStep ==
  ASSUME Inv, NEW p \in Pass, Post(p)
  PROVE  Inv'
<1> USE DEF Inv, Post, github
<1>0. /\ p \in Actor /\ actor[p] \in Run /\ Careful(actor[p])
  BY DEF DeliveryTypeOK, Actor, ActorInv
<1>1. DeliveryTypeOK'
  <2>1. issues' \in Nat /\ posted' \in [Task -> Nat]
    BY <1>0 DEF DeliveryTypeOK, Run
  <2>2. actor' \in [Actor -> Run]
    BY <1>0, <2>1 DEF DeliveryTypeOK, Run, Step
  <2> QED
    BY <2>1, <2>2 DEF DeliveryTypeOK
<1>2. TreeInv' /\ WorkIsKept'
  BY DEF TreeInv, WorkIsKept
<1>3. ActorInv'
  <2>1. ASSUME NEW a \in Actor, a # p PROVE Careful(actor[a])'
    BY <2>1 DEF ActorInv, Careful, DeliveryTypeOK
  <2>2. Careful(actor[p])'
    BY <1>0 DEF Careful, DeliveryTypeOK, Run, Ready
  <2> QED
    BY <2>1, <2>2 DEF ActorInv
<1> QED
  BY <1>1, <1>2, <1>3

\* What fails before the reply leads to the reply, and after it to the next entry.
LEMMA FailSteps ==
  ASSUME Inv, NEW p \in Pass, PassFails(p) \/ Answered(p)
  PROVE  Inv'
<1>0. /\ p \in Actor /\ actor[p] \in Run /\ Careful(actor[p]) /\ actor[p].cur \in Task
      /\ entry \in [Task -> Entry] /\ file \in [Task -> Entry]
      /\ actor \in [Actor -> Run] /\ faults \in 0..MaxFaults
  BY DEF Inv, DeliveryTypeOK, Actor, ActorInv, Run
<1>1. faults' \in 0..MaxFaults /\ file' = file
  BY <1>0, DeliveryAssumption DEF PassFails, PushFails, PRFails, PostFails, AnswerLost, Answered, Fails
<1>2. entry' \in [Task -> Entry]
  <2>1. erred(actor[p].cur) \in [Task -> Entry]
    BY <1>0, ErredType DEF Inv
  <2>2. CASE Answered(p)
    <3> DEFINE e == entry[actor[p].cur]
    <3>1. e \in Entry /\ actor[p].target \in Nat
      BY <1>0 DEF Run
    <3>2. [e EXCEPT !.st = "done", !.issue = actor[p].target] \in Entry
      BY <3>1 DEF Entry
    <3>3. entry' = [entry EXCEPT ![actor[p].cur] =
                      IF e.st = "none" THEN e ELSE [e EXCEPT !.st = "done", !.issue = actor[p].target]]
      BY <2>2, <1>0 DEF Answered
    <3> HIDE DEF e
    <3> QED
      BY <1>0, <3>1, <3>2, <3>3
  <2> QED
    BY <2>1, <2>2 DEF PassFails, PushFails, PRFails, PostFails, AnswerLost, deliveryFails
<1>3. UNCHANGED <<task, tree, dispatched, github, retries, worked, snatched>>
  BY DEF PassFails, PushFails, PRFails, PostFails, AnswerLost, Answered
<1>4. CASE PushFails(p) \/ PRFails(p)
  <2> DEFINE r == [actor[p] EXCEPT !.at = "post"]
  <2>1. r \in Run /\ Careful(r)
    BY <1>0 DEF Run, Step, Careful
  <2>2. actor' = [actor EXCEPT ![p] = r]
    BY <1>0, <1>4 DEF PushFails, PRFails, deliveryFails
  <2> HIDE DEF r
  <2> QED
    BY <1>0, <1>1, <1>2, <1>3, <2>1, <2>2, ListStep
<1>5. CASE PostFails(p) \/ AnswerLost(p) \/ Answered(p)
  <2> DEFINE r == [Idle EXCEPT !.at = "next", !.todo = actor[p].todo]
  <2>1. r \in Run /\ Careful(r)
    BY NextType DEF Inv
  <2>2. actor' = [actor EXCEPT ![p] = r]
    BY <1>5 DEF PostFails, AnswerLost, Answered, toNext
  <2> HIDE DEF r
  <2> QED
    BY <1>0, <1>1, <1>2, <1>3, <2>1, <2>2, ListStep
<1> QED
  BY <1>4, <1>5 DEF PassFails

LEMMA StoreSteps ==
  ASSUME Inv, StoreSaved \/ Restart
  PROVE  Inv'
<1>1. CASE StoreSaved
  BY <1>1, QuietStep DEF StoreSaved, Inv, DeliveryTypeOK
<1>2. CASE Restart
  <2> DEFINE r == [Idle EXCEPT !.at = "clean", !.todo = {t \in Write : tree[t] # "none"}]
  <2>1. r \in Run /\ Careful(r)
    BY IdleType DEF Run, Step, Careful, Idle, Inv, TreeInv, Task
  <2>2. actor' = [a \in Actor |-> IF a = boot THEN r ELSE Idle]
    BY <1>2 DEF Restart
  <2> HIDE DEF r
  <2>3. actor' \in [Actor -> Run]
    BY <2>1, <2>2, IdleType
  <2>4. \A a \in Actor : Careful(actor'[a])
    <3> TAKE a \in Actor
    <3>1. CASE a = boot
      BY <3>1, <2>1, <2>2
    <3>2. CASE a # boot
      <4>1. actor'[a] = Idle
        BY <3>2, <2>2
      <4> QED
        BY <4>1, IdleType
    <3> QED
      BY <3>1, <3>2
  <2>5. faults' \in 0..MaxFaults
    <3>1. faults < MaxFaults /\ faults' = faults + 1
      BY <1>2, Zenon DEF Restart, Fails
    <3> QED
      BY <3>1, DeliveryAssumption DEF Inv, DeliveryTypeOK
  <2>6. /\ task' \in [Task -> Status] /\ entry' \in [Task -> Entry] /\ file' \in [Task -> Entry]
        /\ retries' \in 0..MaxRetries
    BY <1>2 DEF Restart, Inv, DeliveryTypeOK
  <2>7. UNCHANGED <<tree, dispatched, github, worked, snatched>>
    BY <1>2 DEF Restart
  <2> QED
    BY <2>3, <2>4, <2>5, <2>6, <2>7, QuietStep
<1> QED
  BY <1>1, <1>2

-----------------------------------------------------------------------------
LEMMA InitInv == Init => Inv
<1> SUFFICES ASSUME Init PROVE Inv
  OBVIOUS
<1>1. DeliveryTypeOK
  BY DeliveryAssumption, IdleType, EntryType DEF Init, DeliveryTypeOK, Status, Tree
<1>2. TreeInv /\ WorkIsKept
  BY DEF Init, TreeInv, WorkIsKept
<1>3. ActorInv
  BY IdleType DEF Init, ActorInv
<1> QED
  BY <1>1, <1>2, <1>3 DEF Inv

LEMMA NextInv == Inv /\ [Next]_vars => Inv'
<1> SUFFICES ASSUME Inv, [Next]_vars PROVE Inv'
  OBVIOUS
<1>1. ASSUME NEW t \in Task,
             Create(t) \/ Dispatch(t) \/ Work(t) \/ End(t) \/ Retry(t) \/ Delete(t)
      PROVE  Inv'
  BY <1>1, TaskSteps, WorkerSteps
<1>2. ASSUME NEW p \in Pass, PassStep(p) PROVE Inv'
  BY <1>2, PassPlanSteps, PassListSteps, PushStep, OpenPRStep, PostStep, FailSteps DEF PassStep
<1>3. ASSUME NEW p \in Pass, PassFails(p) PROVE Inv'
  BY <1>3, FailSteps
<1>4. ASSUME NEW a \in Actor, RemoveTree(a) PROVE Inv'
  BY <1>4, RemoveStep
<1>5. CASE StoreSaved \/ Restart
  BY <1>5, StoreSteps
<1>6. CASE Collected \/ \E t \in Write : Collect(t)
  BY <1>6, CollectSteps
<1>7. CASE UNCHANGED vars
  BY <1>7, QuietStep DEF vars, Inv, DeliveryTypeOK
<1> QED
  BY <1>1, <1>2, <1>3, <1>4, <1>5, <1>6, <1>7 DEF Next

\* Every variable of reconcileWritebacks and of the worktrees holds what the code can store.
THEOREM TypeCorrect == Spec => []DeliveryTypeOK
<1>1. Inv => DeliveryTypeOK
  BY DEF Inv
<1> QED
  BY <1>1, InitInv, NextInv, PTL DEF Spec

\* Whatever the number of overlapping passes, retries and failures, the work of a write
\* task is in its worktree or on the remote until it is deleted with a worktree that was
\* empty of it when it was checked.
THEOREM WorkKept == Spec => []WorkIsKept
<1>1. Inv => WorkIsKept
  BY DEF Inv
<1> QED
  BY <1>1, InitInv, NextInv, PTL DEF Spec

-----------------------------------------------------------------------------
(* How often a result is posted.  Until the next failure a pass posts a     *)
(* result once: afterwards its answer is noted, and no pass lists it again. *)

Writing == {"push", "pr", "post", "answer"}
Holds(r, t) == \/ r.at \in Writing \cup {"next"} /\ t \in r.todo
               \/ r.at \in Writing \ {"answer"} /\ r.cur = t
Open(t) == entry[t].st = "pending" \/ task[t] = "none"
\* The passes that may post the result of t before the next failure.
May(p, t) == \/ Holds(actor[p], t)
             \/ Open(t) /\ ~(actor[p].at = "answer" /\ actor[p].cur = t)
Can(t) == {p \in Pass : May(p, t)}

Sound(r) == r.at \in Writing => task[r.cur] # "none" /\ r.cur \notin r.todo
SoundInv == \A p \in Pass : Sound(actor[p])
Bounded == \A t \in Task : posted[t] + Cardinality(Can(t)) <= Cardinality(Pass) * (1 + faults)
PostInv == SoundInv /\ Bounded

LEMMA CanCount ==
  ASSUME NEW S \in SUBSET Pass, NEW T \in SUBSET S
  PROVE  /\ Cardinality(S) \in Nat /\ Cardinality(Pass) \in Nat
         /\ Cardinality(T) \in Nat /\ Cardinality(T) <= Cardinality(S)
         /\ Cardinality(S) <= Cardinality(Pass)
<1>1. IsFiniteSet(Pass) /\ IsFiniteSet(S)
  BY DeliveryAssumption, FS_Subset
<1>2. IsFiniteSet(T) /\ Cardinality(T) <= Cardinality(S) /\ Cardinality(S) <= Cardinality(Pass)
  BY <1>1, FS_Subset
<1> QED
  BY <1>1, <1>2, FS_CardinalityType

\* What each failure adds.
LEMMA OneFault ==
  ASSUME NEW k \in Nat, NEW f \in Nat
  PROVE  k * (1 + (f + 1)) = k * (1 + f) + k /\ k * (1 + f) \in Nat
OBVIOUS

\* A step after which no pass may post what it could not post before.
LEMMA FewerCan ==
  ASSUME Inv, Bounded, posted' = posted, faults' = faults,
         \A t \in Task, q \in Pass : May(q, t)' => May(q, t)
  PROVE  Bounded'
<1> SUFFICES ASSUME NEW t \in Task
             PROVE  posted[t] + Cardinality(Can(t)') <= Cardinality(Pass) * (1 + faults)
  BY DEF Bounded
<1>1. Can(t) \in SUBSET Pass /\ Can(t)' \in SUBSET Can(t)
  BY DEF Can
<1>2. /\ Cardinality(Can(t)) \in Nat /\ Cardinality(Can(t)') \in Nat
      /\ Cardinality(Can(t)') <= Cardinality(Can(t)) /\ Cardinality(Pass) \in Nat
  BY <1>1, CanCount
<1>3. posted[t] \in Nat /\ faults \in Nat
  BY DeliveryAssumption DEF Inv, DeliveryTypeOK
<1>4. Cardinality(Pass) * (1 + faults) \in Nat
  BY <1>2, <1>3, OneFault
<1>5. posted[t] + Cardinality(Can(t)) <= Cardinality(Pass) * (1 + faults)
  BY DEF Bounded
<1> QED
  BY <1>2, <1>3, <1>4, <1>5

\* A failure lets every pass post once more.
LEMMA FaultBounded ==
  ASSUME Inv, Bounded, posted' = posted, faults' = faults + 1
  PROVE  Bounded'
<1> SUFFICES ASSUME NEW t \in Task
             PROVE  posted[t] + Cardinality(Can(t)') <= Cardinality(Pass) * (1 + (faults + 1))
  BY DEF Bounded
<1>1. Can(t) \in SUBSET Pass /\ Can(t)' \in SUBSET Pass /\ {} \in SUBSET Can(t)
  BY DEF Can
<1>2. /\ Cardinality(Can(t)) \in Nat /\ Cardinality(Can(t)') \in Nat
      /\ Cardinality(Can(t)') <= Cardinality(Pass) /\ Cardinality(Pass) \in Nat
  BY <1>1, CanCount
<1>3. posted[t] \in Nat /\ faults \in Nat
  BY DeliveryAssumption DEF Inv, DeliveryTypeOK
<1>4. /\ Cardinality(Pass) * (1 + faults) \in Nat
      /\ Cardinality(Pass) * (1 + (faults + 1)) = Cardinality(Pass) * (1 + faults) + Cardinality(Pass)
  BY <1>2, <1>3, OneFault
<1>5. posted[t] + Cardinality(Can(t)) <= Cardinality(Pass) * (1 + faults)
  BY DEF Bounded
<1> QED
  BY <1>2, <1>3, <1>4, <1>5

\* One pass moves.
LEMMA OneMoves ==
  ASSUME Inv, PostInv, NEW p \in Pass, NEW r \in Run, actor' = [actor EXCEPT ![p] = r],
         task' = task, posted' = posted, faults' = faults,
         \A t \in Task : entry'[t].st = "pending" => entry[t].st = "pending",
         Sound(r),
         \A t \in Task : \/ Holds(r, t)
                         \/ Open(t)' /\ ~(r.at = "answer" /\ r.cur = t)
                         => May(p, t)
  PROVE  PostInv'
<1>1. p \in Actor /\ actor'[p] = r /\ \A q \in Pass : q # p => actor'[q] = actor[q]
  BY DEF Inv, DeliveryTypeOK, Actor
<1>2. SoundInv'
  BY <1>1 DEF PostInv, SoundInv, Sound
<1>3. ASSUME NEW t \in Task, NEW q \in Pass, May(q, t)' PROVE May(q, t)
  <2>1. CASE q = p
    BY <1>1, <1>3, <2>1 DEF May
  <2>2. CASE q # p
    BY <1>1, <1>3, <2>2 DEF May, Open
  <2> QED
    BY <2>1, <2>2
<1> QED
  BY <1>2, <1>3, FewerCan DEF PostInv

\* The tasks, the worktrees, the collection and the store change no pass.
LEMMA PassesStay ==
  ASSUME Inv, PostInv, UNCHANGED <<posted, faults>>,
         \A p \in Pass : /\ actor'[p].at = actor[p].at /\ actor'[p].cur = actor[p].cur
                         /\ actor'[p].todo = actor[p].todo,
         \A t \in Task : /\ task[t] # "none" => task'[t] # "none"
                         /\ entry'[t].st = "pending" => Open(t)
  PROVE  PostInv'
<1>1. ASSUME NEW p \in Pass PROVE Sound(actor[p])'
  <2>1. actor[p].cur \in Task /\ Sound(actor[p])
    BY DEF Inv, DeliveryTypeOK, Run, PostInv, SoundInv, Actor
  <2> QED
    BY <2>1 DEF Sound
<1>2. ASSUME NEW t \in Task, NEW q \in Pass, May(q, t)' PROVE May(q, t)
  BY <1>2 DEF May, Holds, Open
<1> QED
  BY <1>1, <1>2, FewerCan DEF PostInv, SoundInv

LEMMA PostFailure ==
  ASSUME Inv, PostInv, posted' = posted, faults' = faults + 1, task' = task,
         \A p \in Pass : Sound(actor'[p])
  PROVE  PostInv'
<1>1. SoundInv'
  BY DEF SoundInv, Sound
<1> QED
  BY <1>1, FaultBounded DEF PostInv

-----------------------------------------------------------------------------
(* The steps of a pass. *)

LEMMA PostsPlan ==
  ASSUME Inv, PostInv, NEW p \in Pass, PassBegins(p) \/ PassLists(p) \/ PassEnds(p)
  PROVE  PostInv'
<1>0. /\ p \in Actor /\ actor[p] \in Run /\ actor \in [Actor -> Run]
      /\ entry \in [Task -> Entry] /\ UNCHANGED <<task, posted, faults>>
  BY DEF Inv, DeliveryTypeOK, Actor, PassBegins, PassLists, PassEnds, github
<1>1. CASE PassBegins(p)
  <2> DEFINE dead == {t \in Task : entry[t].st = "pending" /\ task[t] \in {"deleted", "failed"}}
             r == [Idle EXCEPT !.at = "clean", !.todo = {t \in dead \cap dispatched : task[t] # "deleted"}]
  <2>1. r \in Run /\ r.at = "clean"
    BY IdleType DEF Run, Step, Idle
  <2>2. actor' = [actor EXCEPT ![p] = r] /\ actor[p].at = "off"
        /\ \A t \in Task : entry'[t] = IF t \in dead THEN NoEntry ELSE entry[t]
    BY <1>0, <1>1 DEF PassBegins, Ready
  <2> HIDE DEF r, dead
  <2>3. \A t \in Task : entry'[t].st = "pending" => entry[t].st = "pending"
    BY <2>2 DEF NoEntry
  <2>4. \A t \in Task : Open(t)' => May(p, t)
    BY <1>0, <2>2, <2>3 DEF Open, May
  <2> QED
    BY <1>0, <2>1, <2>2, <2>3, <2>4, OneMoves DEF Sound, Holds, Writing
<1>2. CASE PassLists(p)
  <2> DEFINE pending == {t \in Task : entry'[t].st = "pending" /\ ~entry'[t].error}
             r == IF pending = {} THEN Idle ELSE [Idle EXCEPT !.at = "next", !.todo = pending]
  <2>1. r \in Run /\ r.at \in {"off", "next"} /\ r.todo \subseteq pending
    BY IdleType DEF Run, Step, Idle
  <2>2. actor' = [actor EXCEPT ![p] = r] /\ actor[p].at = "clean" /\ entry' = healed
    BY <1>2 DEF PassLists, Ready
  <2>3. \A t \in Task : entry'[t].st = entry[t].st
    BY <1>0, <2>2 DEF healed, Entry
  <2>4. \A t \in Task : t \in pending => Open(t)
    BY <2>3 DEF Open
  <2> HIDE DEF r, pending
  <2>5. \A t \in Task : Open(t)' \/ Holds(r, t) => May(p, t)
    BY <1>0, <2>1, <2>2, <2>3, <2>4 DEF Open, May, Holds, Writing
  <2> QED
    BY <1>0, <2>1, <2>2, <2>3, <2>5, OneMoves DEF Sound, Writing
<1>3. CASE PassEnds(p)
  <2>1. actor' = [actor EXCEPT ![p] = Idle] /\ actor[p].at = "next"
        /\ \A t \in Task : entry'[t].st = "pending" => entry[t].st = "pending"
    BY <1>3 DEF PassEnds, Ready, NoEntry
  <2>2. Idle \in Run /\ Idle.at = "off"
    BY IdleType DEF Idle
  <2>3. \A t \in Task : Open(t)' => May(p, t)
    BY <1>0, <2>1 DEF Open, May
  <2> QED
    BY <1>0, <2>1, <2>2, <2>3, OneMoves DEF Sound, Holds, Writing
<1> QED
  BY <1>1, <1>2, <1>3

LEMMA CheckedPlace ==
  ASSUME NEW r \in Run, NEW t
  PROVE  /\ checked(r, t).at = r.at /\ checked(r, t).todo = r.todo
         /\ struck(r, t).at = r.at /\ struck(r, t).todo \subseteq r.todo
         /\ struck(checked(r, t), t).at = r.at /\ struck(checked(r, t), t).todo \subseteq r.todo
  BY DEF checked, struck, Run

LEMMA PostsList ==
  ASSUME Inv, PostInv, NEW p \in Pass, NEW t \in Task,
         PassCleans(p, t) \/ PassSkips(p, t) \/ PassGivesUp(p, t)
  PROVE  PostInv'
<1>0. /\ p \in Actor /\ actor[p] \in Run /\ actor \in [Actor -> Run] /\ Careful(actor[p])
      /\ entry \in [Task -> Entry] /\ UNCHANGED <<task, posted, faults>>
      /\ actor[p].at \in {"clean", "next"}
  BY DEF Inv, ActorInv, DeliveryTypeOK, Actor, PassCleans, PassSkips, PassGivesUp, Ready, github
<1>1. \A u \in Task : entry'[u].st = entry[u].st
  BY <1>0 DEF PassCleans, PassSkips, PassGivesUp, erred, Entry
<1>2. ASSUME NEW r \in Run, actor' = [actor EXCEPT ![p] = r], r.at = actor[p].at, r.todo \subseteq actor[p].todo
      PROVE  PostInv'
  <2>1. \A u \in Task : Open(u)' \/ Holds(r, u) => May(p, u)
    BY <1>0, <1>1, <1>2 DEF Open, May, Holds, Writing
  <2> QED
    BY <1>0, <1>1, <1>2, <2>1, OneMoves DEF Sound, Writing
<1>3. \/ actor' = [actor EXCEPT ![p] = struck(actor[p], t)]
      \/ actor' = [actor EXCEPT ![p] = struck(checked(actor[p], t), t)] /\ t \in dispatched
  BY <1>0 DEF PassCleans, PassSkips, PassGivesUp, Careful, Ready
<1>4. CASE actor' = [actor EXCEPT ![p] = struck(actor[p], t)]
  BY <1>0, <1>2, <1>4, ShorterList, CheckedPlace
<1>5. CASE actor' = [actor EXCEPT ![p] = struck(checked(actor[p], t), t)] /\ t \in dispatched
  <2> DEFINE c == checked(actor[p], t)
  <2>1. c \in Run /\ Careful(c)
    BY <1>0, <1>5, CheckedCareful
  <2>2. struck(c, t) \in Run
    BY <2>1, ShorterList
  <2> QED
    BY <1>0, <1>2, <1>5, <2>2, CheckedPlace
<1> QED
  BY <1>3, <1>4, <1>5

LEMMA PostsTakes ==
  ASSUME Inv, PostInv, NEW p \in Pass, NEW t \in Task, PassTakes(p, t)
  PROVE  PostInv'
<1> DEFINE r == [actor[p] EXCEPT !.todo = @ \ {t}, !.cur = t, !.target = umbrella(t),
                                 !.at = IF t \in dispatched THEN "push" ELSE "post"]
<1>0. /\ p \in Actor /\ actor[p] \in Run /\ actor \in [Actor -> Run]
      /\ UNCHANGED <<task, entry, posted, faults>>
      /\ actor[p].at = "next" /\ t \in actor[p].todo /\ task[t] = "completed"
      /\ actor' = [actor EXCEPT ![p] = r]
  BY DEF Inv, DeliveryTypeOK, Actor, PassTakes, Ready, github
<1>1. r \in Run
  <2>1. actor'[p] = r /\ actor' \in [Actor -> Run]
    BY <1>0, PassPlanSteps DEF Inv, DeliveryTypeOK
  <2> QED
    BY <1>0, <2>1
<1>2. r.at \in {"push", "post"} /\ r.cur = t /\ r.todo = actor[p].todo \ {t}
  BY <1>0 DEF Run
<1> HIDE DEF r
<1>3. \A u \in Task : Open(u)' \/ Holds(r, u) => May(p, u)
  BY <1>0, <1>2 DEF Open, May, Holds, Writing
<1> QED
  BY <1>0, <1>1, <1>2, <1>3, OneMoves DEF Sound, Writing

\* From the worktree to the reply.
LEMMA PostsWrites ==
  ASSUME Inv, PostInv, NEW p \in Pass, Push(p) \/ OpenPR(p) \/ PushFails(p) \/ PRFails(p)
  PROVE  PostInv'
<1>0. /\ p \in Actor /\ actor[p] \in Run /\ actor \in [Actor -> Run] /\ Sound(actor[p])
      /\ entry \in [Task -> Entry] /\ UNCHANGED <<task, posted>>
      /\ actor[p].at \in {"push", "pr"}
  BY DEF Inv, DeliveryTypeOK, Actor, Push, OpenPR, PushFails, PRFails, Ready, github, PostInv, SoundInv
<1>1. PICK r \in Run : /\ actor' = [actor EXCEPT ![p] = r]
                       /\ r.at \in {"pr", "post"} /\ r.cur = actor[p].cur /\ r.todo = actor[p].todo
  <2>1. actor' \in [Actor -> Run]
    BY PushStep, OpenPRStep, FailSteps DEF PassFails, Inv, DeliveryTypeOK
  <2>2. CASE Push(p)
    <3>1. actor'[p].at \in {"pr", "post"} /\ actor'[p].cur = actor[p].cur /\ actor'[p].todo = actor[p].todo
          /\ actor' = [actor EXCEPT ![p] = actor'[p]]
      BY <1>0, <2>2 DEF Push, Run
    <3> QED
      BY <1>0, <2>1, <3>1
  <2>3. CASE OpenPR(p)
    <3>1. actor'[p].at \in {"pr", "post"} /\ actor'[p].cur = actor[p].cur /\ actor'[p].todo = actor[p].todo
          /\ actor' = [actor EXCEPT ![p] = actor'[p]]
      BY <1>0, <2>3 DEF OpenPR, Run
    <3> QED
      BY <1>0, <2>1, <3>1
  <2>4. CASE PushFails(p) \/ PRFails(p)
    <3>1. actor'[p].at \in {"pr", "post"} /\ actor'[p].cur = actor[p].cur /\ actor'[p].todo = actor[p].todo
          /\ actor' = [actor EXCEPT ![p] = actor'[p]]
      BY <1>0, <2>4 DEF PushFails, PRFails, deliveryFails, Run
    <3> QED
      BY <1>0, <2>1, <3>1
  <2> QED
    BY <2>2, <2>3, <2>4
<1>2. Sound(r)
  BY <1>0, <1>1 DEF Sound, Writing
<1>3. CASE faults' = faults + 1
  <2>1. \A q \in Pass : actor'[q] = r \/ actor'[q] = actor[q]
    BY <1>0, <1>1 DEF Actor
  <2> QED
    BY <1>0, <1>2, <1>3, <2>1, PostFailure DEF PostInv, SoundInv
<1>4. CASE faults' = faults
  <2>1. \A u \in Task : entry'[u].st = entry[u].st
    BY <1>0 DEF Push, OpenPR, PushFails, PRFails, deliveryFails, erred, Entry
  <2>2. \A u \in Task : Open(u)' \/ Holds(r, u) => May(p, u)
    BY <1>0, <1>1, <2>1 DEF Open, May, Holds, Writing
  <2> QED
    BY <1>0, <1>1, <1>2, <1>4, <2>1, <2>2, OneMoves
<1> QED
  BY <1>3, <1>4 DEF Push, OpenPR, PushFails, PRFails, Fails, github

\* A reply: the pass that posts it is one that could, and cannot until the next failure.
LEMMA PostsPost ==
  ASSUME Inv, PostInv, NEW p \in Pass, Post(p)
  PROVE  PostInv'
<1> DEFINE t == actor[p].cur
<1>0. /\ p \in Actor /\ actor[p] \in Run /\ actor \in [Actor -> Run] /\ Sound(actor[p])
      /\ UNCHANGED <<task, entry, faults>> /\ t \in Task /\ actor[p].at = "post"
      /\ posted \in [Task -> Nat] /\ posted' = [posted EXCEPT ![t] = @ + 1]
  BY DEF Inv, DeliveryTypeOK, Actor, Run, Post, Ready, github, PostInv, SoundInv
<1>1. /\ actor'[p].at = "answer" /\ actor'[p].cur = t /\ actor'[p].todo = actor[p].todo
      /\ \A q \in Pass : q # p => actor'[q] = actor[q]
  <2>1. actor'[p].cur = t /\ actor'[p].todo = actor[p].todo /\ actor'[p].at = "answer"
    BY <1>0 DEF Post, Run
  <2>2. \A q \in Pass : q # p => actor'[q] = actor[q]
    BY <1>0 DEF Post, Actor
  <2> QED
    BY <2>1, <2>2
<1> HIDE DEF t
<1>2. SoundInv'
  BY <1>0, <1>1 DEF PostInv, SoundInv, Sound, Writing, t
<1>3. ASSUME NEW u \in Task, NEW q \in Pass, May(q, u)'
      PROVE  May(q, u) /\ ~(q = p /\ u = t)
  <2>1. CASE q = p
    BY <1>0, <1>1, <1>3, <2>1 DEF May, Holds, Open, Sound, Writing, t
  <2>2. CASE q # p
    BY <1>0, <1>1, <1>3, <2>2 DEF May, Open
  <2> QED
    BY <2>1, <2>2
<1>4. May(p, t)
  BY <1>0 DEF May, Holds, Writing, t
<1>5. ASSUME NEW u \in Task
      PROVE  posted'[u] + Cardinality(Can(u)') <= Cardinality(Pass) * (1 + faults')
  <2>1. Can(u) \in SUBSET Pass /\ Can(u)' \in SUBSET Can(u)
    BY <1>3 DEF Can
  <2>2. /\ Cardinality(Can(u)) \in Nat /\ Cardinality(Can(u)') \in Nat
        /\ Cardinality(Can(u)') <= Cardinality(Can(u)) /\ Cardinality(Pass) \in Nat
    BY <2>1, CanCount
  <2>3. /\ posted[u] \in Nat /\ faults \in Nat /\ Cardinality(Pass) * (1 + faults) \in Nat
        /\ posted[u] + Cardinality(Can(u)) <= Cardinality(Pass) * (1 + faults)
    BY <1>0, <2>2, OneFault, DeliveryAssumption DEF Inv, DeliveryTypeOK, PostInv, Bounded
  <2>4. CASE u = t
    <3>1. p \in Can(u) /\ Can(u)' \in SUBSET (Can(u) \ {p})
      BY <1>3, <1>4, <2>1, <2>4 DEF Can
    <3>2. IsFiniteSet(Can(u))
      BY <2>1, DeliveryAssumption, FS_Subset
    <3>3. Cardinality(Can(u) \ {p}) = Cardinality(Can(u)) - 1
      BY <3>1, <3>2, FS_RemoveElement
    <3>4. Cardinality(Can(u)') <= Cardinality(Can(u) \ {p})
      <4>1. Can(u) \ {p} \in SUBSET Pass
        BY <2>1
      <4> QED
        BY <3>1, <4>1, CanCount
    <3>5. posted'[u] = posted[u] + 1 /\ faults' = faults
      BY <1>0, <2>4
    <3> QED
      BY <2>2, <2>3, <3>3, <3>4, <3>5
  <2>5. CASE u # t
    <3>1. posted'[u] = posted[u] /\ faults' = faults
      BY <1>0, <2>5
    <3> QED
      BY <2>2, <2>3, <3>1
  <2> QED
    BY <2>4, <2>5
<1> QED
  BY <1>2, <1>5 DEF PostInv, Bounded

\* The answer: what was posted is not pending any more.
LEMMA PostsAnswer ==
  ASSUME Inv, PostInv, NEW p \in Pass, Answered(p) \/ PostFails(p) \/ AnswerLost(p)
  PROVE  PostInv'
<1> DEFINE r == [Idle EXCEPT !.at = "next", !.todo = actor[p].todo]
<1>0. /\ p \in Actor /\ actor[p] \in Run /\ actor \in [Actor -> Run] /\ Sound(actor[p])
      /\ entry \in [Task -> Entry] /\ UNCHANGED <<task, posted>>
      /\ actor' = [actor EXCEPT ![p] = r]
  BY DEF Inv, DeliveryTypeOK, Actor, Answered, PostFails, AnswerLost, toNext, github, PostInv, SoundInv
<1>1. r \in Run /\ r.at = "next" /\ r.todo = actor[p].todo
  BY NextType DEF Idle, Inv
<1> HIDE DEF r
<1>2. Sound(r)
  BY <1>1 DEF Sound, Writing
<1>3. CASE PostFails(p) \/ AnswerLost(p)
  <2>1. faults' = faults + 1
    BY <1>3 DEF PostFails, AnswerLost, Fails
  <2>2. \A q \in Pass : actor'[q] = r \/ actor'[q] = actor[q]
    BY <1>0 DEF Actor
  <2> QED
    BY <1>0, <1>2, <2>1, <2>2, PostFailure DEF PostInv, SoundInv
<1>4. CASE Answered(p)
  <2> DEFINE t == actor[p].cur
  <2>1. actor[p].at = "answer" /\ faults' = faults /\ t \in Task /\ task[t] # "none" /\ t \notin actor[p].todo
    BY <1>0, <1>4 DEF Answered, Ready, Sound, Writing, Run
  <2> HIDE DEF t
  <2>2. /\ entry'[t].st # "pending"
        /\ \A u \in Task : entry'[u].st = "pending" => entry[u].st = "pending"
    <3>1. entry' = [entry EXCEPT ![t] = IF @.st = "none" THEN @
                                        ELSE [@ EXCEPT !.st = "done", !.issue = actor[p].target]]
      BY <1>4 DEF Answered, t
    <3>2. entry'[t].st \in {"none", "done"}
      BY <1>0, <2>1, <3>1 DEF Entry
    <3>3. \A u \in Task : u # t => entry'[u] = entry[u]
      BY <1>0, <2>1, <3>1
    <3> QED
      BY <3>2, <3>3
  <2>3. \A u \in Task : Open(u)' \/ Holds(r, u) => May(p, u)
    <3> SUFFICES ASSUME NEW u \in Task, Open(u)' \/ Holds(r, u) PROVE May(p, u)
      OBVIOUS
    <3>1. u # t
      BY <1>0, <1>1, <2>1, <2>2 DEF Open, Holds, Writing
    <3>2. Open(u) \/ u \in actor[p].todo
      BY <1>0, <1>1, <2>2 DEF Open, Holds, Writing
    <3> QED
      BY <2>1, <3>1, <3>2 DEF May, Holds, Writing, t
  <2> QED
    BY <1>0, <1>1, <1>2, <2>1, <2>2, <2>3, OneMoves
<1> QED
  BY <1>3, <1>4

-----------------------------------------------------------------------------
LEMMA PostsOthers ==
  ASSUME Inv, PostInv,
         \/ \E t \in Task : Create(t) \/ Dispatch(t) \/ Work(t) \/ End(t) \/ Retry(t) \/ Delete(t)
         \/ \E a \in Actor : RemoveTree(a)
         \/ StoreSaved \/ Collected \/ \E t \in Write : Collect(t)
         \/ UNCHANGED vars
  PROVE  PostInv'
<1>0. /\ actor \in [Actor -> Run] /\ task \in [Task -> Status] /\ entry \in [Task -> Entry]
      /\ UNCHANGED <<posted, faults>> /\ boot \notin Pass /\ Pass \subseteq Actor
  BY DeliveryAssumption DEF Inv, DeliveryTypeOK, Actor, Create, Dispatch, Work, End, Retry, Delete,
     RemoveTree, StoreSaved, Collected, Collect, vars, github
<1>1. \A p \in Pass : /\ actor'[p].at = actor[p].at /\ actor'[p].cur = actor[p].cur
                      /\ actor'[p].todo = actor[p].todo
  <2>1. ASSUME NEW a \in Actor, RemoveTree(a), NEW p \in Pass
        PROVE  /\ actor'[p].at = actor[p].at /\ actor'[p].cur = actor[p].cur
               /\ actor'[p].todo = actor[p].todo
    <3>1. actor' = [actor EXCEPT ![a].removing = FALSE, ![a].saw = "none"] /\ actor[p] \in Run /\ p \in Actor
      BY <1>0, <2>1 DEF RemoveTree
    <3> QED
      BY <1>0, <3>1 DEF Run
  <2>2. CASE Collected \/ \E t \in Write : Collect(t)
    <3>1. \A p \in Pass : actor'[p] = actor[p]
      BY <1>0, <2>2 DEF Collected, Collect
    <3> QED
      BY <3>1
  <2>3. CASE \/ \E t \in Task : Create(t) \/ Dispatch(t) \/ Work(t) \/ End(t) \/ Retry(t) \/ Delete(t)
             \/ StoreSaved \/ UNCHANGED vars
    BY <2>3 DEF Create, Dispatch, Work, End, Retry, Delete, StoreSaved, vars
  <2> QED
    BY <2>1, <2>2, <2>3
<1>2. \A t \in Task : /\ task[t] # "none" => task'[t] # "none"
                      /\ entry'[t].st = "pending" => Open(t)
  <2>1. ASSUME NEW u \in Task, Create(u) \/ End(u) \/ Retry(u) \/ Delete(u)
        PROVE  \A t \in Task : /\ task[t] # "none" => task'[t] # "none"
                               /\ entry'[t].st = "pending" => Open(t)
    BY <1>0, <2>1 DEF Create, End, Retry, Delete, Open, Terminal
  <2>2. CASE UNCHANGED <<task, entry>>
    BY <2>2 DEF Open
  <2> QED
    BY <2>1, <2>2 DEF Dispatch, Work, RemoveTree, StoreSaved, Collected, Collect, vars
<1> QED
  BY <1>0, <1>1, <1>2, PassesStay

LEMMA PostsRestart ==
  ASSUME Inv, PostInv, Restart
  PROVE  PostInv'
<1>1. posted' = posted /\ faults' = faults + 1 /\ task' = task
  BY DEF Restart, Fails, github
<1>2. \A p \in Pass : actor'[p] = Idle
  BY DeliveryAssumption DEF Restart, Actor
<1>3. Sound(Idle)
  BY DEF Sound, Idle, Writing
<1> QED
  BY <1>1, <1>2, <1>3, PostFailure

LEMMA NextPosts == Inv /\ PostInv /\ [Next]_vars => PostInv'
<1> SUFFICES ASSUME Inv, PostInv, [Next]_vars PROVE PostInv'
  OBVIOUS
<1>1. ASSUME NEW p \in Pass, PassStep(p) \/ PassFails(p) PROVE PostInv'
  BY <1>1, PostsPlan, PostsList, PostsTakes, PostsWrites, PostsPost, PostsAnswer DEF PassStep, PassFails
<1>2. CASE Restart
  BY <1>2, PostsRestart
<1> QED
  BY <1>1, <1>2, PostsOthers DEF Next

(* However passes overlap, entries are dropped, tasks are tried again and answers are lost, *)
(* the result of a task is posted at most once by each pass between two failures.           *)
THEOREM PostsAreBounded == Spec => []RepliesAreBounded
<1>1. Init => PostInv
  <2> SUFFICES ASSUME Init PROVE PostInv
    OBVIOUS
  <2>1. SoundInv
    BY DEF Init, SoundInv, Sound, Idle, Writing, Actor
  <2>2. ASSUME NEW t \in Task PROVE posted[t] + Cardinality(Can(t)) <= Cardinality(Pass) * (1 + faults)
    <3>1. Can(t) \in SUBSET Pass /\ {} \in SUBSET Can(t)
      BY DEF Can
    <3>2. /\ Cardinality(Can(t)) \in Nat /\ Cardinality(Can(t)) <= Cardinality(Pass)
          /\ Cardinality(Pass) \in Nat
      BY <3>1, CanCount
    <3>3. posted[t] = 0 /\ faults = 0
      BY DEF Init
    <3> QED
      BY <3>2, <3>3
  <2> QED
    BY <2>1, <2>2 DEF PostInv, Bounded
<1>2. Inv /\ PostInv => RepliesAreBounded
  <2> SUFFICES ASSUME Inv, PostInv, NEW t \in Task
               PROVE  posted[t] <= Cardinality(Pass) * (1 + faults)
    BY DEF RepliesAreBounded
  <2>1. Can(t) \in SUBSET Pass /\ {} \in SUBSET Can(t)
    BY DEF Can
  <2>2. /\ Cardinality(Can(t)) \in Nat /\ Cardinality(Pass) \in Nat
        /\ posted[t] \in Nat /\ faults \in Nat
    BY <2>1, CanCount, DeliveryAssumption DEF Inv, DeliveryTypeOK
  <2>3. Cardinality(Pass) * (1 + faults) \in Nat
    BY <2>2, OneFault
  <2> QED
    BY <2>2, <2>3 DEF PostInv, Bounded
<1> QED
  BY <1>1, <1>2, InitInv, NextInv, NextPosts, PTL DEF Spec
=============================================================================
