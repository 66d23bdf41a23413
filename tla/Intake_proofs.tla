---------------------------- MODULE Intake_proofs ----------------------------
(***************************************************************************)
(* The intake, for any number of sessions, calls, runs and failures:       *)
(*  - the chain of promises is a fair lock.  An entry of the map is        *)
(*    deleted by the call that made it only, so whoever is ahead of a call *)
(*    is reached along its promise: the call it awaits, or a call that one *)
(*    has to wait for itself;                                              *)
(*  - everything has its type, and no more runs are kept than allowed;     *)
(*  - what an agent creates is bound to a run, since an agent works only   *)
(*    while its call awaits it, and what it creates is new to that call;   *)
(*  - manifests are filed right and prunes spare open tasks, since the run *)
(*    of a call at work is the last active one of its session, and a run   *)
(*    that is over gets no more tasks.                                     *)
(***************************************************************************)
EXTENDS Intake, TLAPS, FiniteSetTheorems, SequenceTheorems

USE IntakeAssumption DEF IntakeAssumption

PC == {"idle", "queued"} \cup Inside \cup Ended
gone(c) == pc[c] \in Ended

ChainTypeOK ==
  /\ queue \in [Session -> Call \cup {None}]
  /\ prev \in [Call -> Call \cup {None}]
  /\ sess \in [Call -> Session \cup {None}]
  /\ ahead \in [Call -> SUBSET Call]
  /\ pc \in [Call -> PC]
  /\ \A c \in Call : IF pc[c] = "idle" THEN sess[c] = None ELSE sess[c] \in Session

\* Whom a queued call found there is gone, or awaited, or ahead of the one awaited.
Awaited ==
  \A c \in Call : pc[c] = "queued" =>
    \A d \in ahead[c] :
      \/ gone(d)
      \/ prev[c] # None /\ (d = prev[c] \/ (pc[prev[c]] = "queued" /\ d \in ahead[prev[c]]))

\* The entry of a session stands for all calls of the session that are not gone.
Entries ==
  \A s \in Session, d \in Call : sess[d] = s =>
    \/ gone(d)
    \/ queue[s] # None /\ (d = queue[s] \/ (pc[queue[s]] = "queued" /\ d \in ahead[queue[s]]))

\* A prune has one call, which awaits it.
Jobs ==
  /\ \A j \in jobs : j.by = None \/ (j.by \in Call /\ pc[j.by] = "pruning")
  /\ \A j, k \in jobs : j.by # None /\ j.by = k.by => j = k

Questions == \A r \in asked : r[1] \in Call /\ sess[r[1]] \in Session

ChainInv == ChainTypeOK /\ Awaited /\ Entries
IInv == ChainInv /\ Jobs /\ Questions

-----------------------------------------------------------------------------
(* What the steps do to the chain. *)

Enters(c) ==
  /\ pc[c] = "queued"
  /\ prev[c] # None => gone(prev[c])
  /\ pc' = [pc EXCEPT ![c] = "starting"]
  /\ prev' = [prev EXCEPT ![c] = None]
  /\ ahead' = [ahead EXCEPT ![c] = {}]
  /\ UNCHANGED <<queue, sess>>

GoesOn(c, to) ==
  /\ pc[c] \in Inside /\ to \in Inside
  /\ pc' = [pc EXCEPT ![c] = to]
  /\ UNCHANGED chain

Leaves(c) ==
  /\ pc[c] \in Inside
  /\ \E how \in Ended : pc' = [pc EXCEPT ![c] = how]
  /\ queue' = [queue EXCEPT ![sess[c]] = IF @ = c THEN None ELSE @]
  /\ UNCHANGED <<prev, sess, ahead>>

ChainStep ==
  \/ \E c \in Call, s \in Session : Arrive(c, s)
  \/ \E c \in Call : Enters(c)
  \/ \E c \in Call, to \in Inside : GoesOn(c, to)
  \/ \E c \in Call : Leaves(c)
  \/ UNCHANGED <<chain, pc>>

LEMMA InitInv == Init => IInv
BY DEF Init, IInv, ChainInv, ChainTypeOK, PC, Awaited, Entries, Jobs, Questions

LEMMA ArriveKeeps ==
  ASSUME ChainInv, NEW c \in Call, NEW s \in Session, Arrive(c, s)
  PROVE  ChainInv'
<1> USE DEF ChainInv, ChainTypeOK, PC, Inside, Ended, gone, Arrive
<1>1. ChainTypeOK'
  OBVIOUS
<1>2. Awaited'
  <2> SUFFICES ASSUME NEW b \in Call, pc'[b] = "queued", NEW d \in ahead'[b], ~gone(d)'
               PROVE  prev'[b] # None /\ (d = prev'[b]
                        \/ (pc'[prev'[b]] = "queued" /\ d \in ahead'[prev'[b]]))
    BY DEF Awaited
  <2>1. CASE b = c
    <3>1. d \in Call /\ sess[d] = s /\ pc[d] \notin Ended
      BY <2>1
    <3>2. queue[s] # None /\ (d = queue[s] \/ (pc[queue[s]] = "queued" /\ d \in ahead[queue[s]]))
      BY <3>1 DEF Entries
    <3> QED
      BY <2>1, <3>1, <3>2
  <2>2. CASE b # c
    <3>1. pc[b] = "queued" /\ d \in ahead[b] /\ ~gone(d) /\ prev'[b] = prev[b]
      BY <2>2
    <3>2. prev[b] # None /\ (d = prev[b] \/ (pc[prev[b]] = "queued" /\ d \in ahead[prev[b]]))
      BY <3>1 DEF Awaited
    <3> QED
      BY <3>1, <3>2
  <2> QED
    BY <2>1, <2>2
<1>3. Entries'
  <2> SUFFICES ASSUME NEW t \in Session, NEW d \in Call, sess'[d] = t, ~gone(d)'
               PROVE  queue'[t] # None /\ (d = queue'[t]
                        \/ (pc'[queue'[t]] = "queued" /\ d \in ahead'[queue'[t]]))
    BY DEF Entries
  <2>1. CASE t = s
    BY <2>1
  <2>2. CASE t # s
    <3>1. d # c /\ sess[d] = t /\ ~gone(d) /\ queue'[t] = queue[t]
      BY <2>2
    <3>2. queue[t] # None /\ (d = queue[t] \/ (pc[queue[t]] = "queued" /\ d \in ahead[queue[t]]))
      BY <3>1 DEF Entries
    <3> QED
      BY <3>1, <3>2
  <2> QED
    BY <2>1, <2>2
<1> QED
  BY <1>1, <1>2, <1>3

\* A call is let in when everyone it found is gone.
LEMMA NobodyAhead ==
  ASSUME ChainInv, NEW c \in Call, Enters(c)
  PROVE  \A d \in ahead[c] : gone(d)
BY DEF ChainInv, ChainTypeOK, Awaited, Enters, gone, Ended

LEMMA EntersKeeps ==
  ASSUME ChainInv, NEW c \in Call, Enters(c)
  PROVE  ChainInv'
<1> USE DEF ChainInv, ChainTypeOK, PC, Inside, Ended, gone, Enters
<1>0. \A d \in ahead[c] : gone(d)
  BY NobodyAhead
<1>1. ChainTypeOK'
  OBVIOUS
<1>2. Awaited'
  BY <1>0 DEF Awaited
<1>3. Entries'
  BY <1>0 DEF Entries
<1> QED
  BY <1>1, <1>2, <1>3

LEMMA GoesOnKeeps ==
  ASSUME ChainInv, NEW c \in Call, NEW to \in Inside, GoesOn(c, to)
  PROVE  ChainInv'
<1> USE DEF ChainInv, ChainTypeOK, PC, Inside, Ended, gone, GoesOn, chain
<1>1. ChainTypeOK'
  OBVIOUS
<1>2. Awaited'
  BY DEF Awaited
<1>3. Entries'
  BY DEF Entries
<1> QED
  BY <1>1, <1>2, <1>3

LEMMA LeavesKeeps ==
  ASSUME ChainInv, NEW c \in Call, Leaves(c)
  PROVE  ChainInv'
<1> USE DEF ChainInv, ChainTypeOK, PC, Inside, Ended, gone, Leaves
<1>0. sess[c] \in Session /\ gone(c)'
  OBVIOUS
<1>1. ChainTypeOK'
  BY <1>0
<1>2. Awaited'
  BY DEF Awaited
<1>3. Entries'
  <2> SUFFICES ASSUME NEW t \in Session, NEW d \in Call, sess'[d] = t, ~gone(d)'
               PROVE  queue'[t] # None /\ (d = queue'[t]
                        \/ (pc'[queue'[t]] = "queued" /\ d \in ahead'[queue'[t]]))
    BY DEF Entries
  <2>1. d # c /\ sess[d] = t /\ ~gone(d)
    OBVIOUS
  <2>2. queue[t] # None /\ (d = queue[t] \/ (pc[queue[t]] = "queued" /\ d \in ahead[queue[t]]))
    BY <2>1 DEF Entries
  <2>3. queue[t] # c
    BY <2>1, <2>2
  <2> QED
    BY <2>1, <2>2, <2>3, <1>0
<1> QED
  BY <1>1, <1>2, <1>3

LEMMA ChainStepKeeps == ChainInv /\ ChainStep => ChainInv'
<1> SUFFICES ASSUME ChainInv, ChainStep PROVE ChainInv'
  OBVIOUS
<1>1. CASE UNCHANGED <<chain, pc>>
  BY <1>1 DEF chain, ChainInv, ChainTypeOK, Awaited, Entries, gone
<1> QED
  BY <1>1, ArriveKeeps, EntersKeeps, GoesOnKeeps, LeavesKeeps DEF ChainStep

LEMMA ChainStepRefines == ChainInv /\ ChainStep => [Lock!LockNext]_(Lock!lockVars)
<1> DEFINE phase == [c \in Call |-> IF pc[c] = "idle" THEN "out"
                                    ELSE IF pc[c] = "queued" THEN "waiting"
                                    ELSE IF pc[c] \in Inside THEN "in" ELSE "gone"]
<1> SUFFICES ASSUME ChainInv, ChainStep PROVE Lock!LockNext \/ UNCHANGED <<sess, ahead, phase>>
  BY DEF Lock!lockVars
<1> USE DEF ChainInv, ChainTypeOK, PC, Inside, Ended, gone
<1>1. ASSUME NEW c \in Call, NEW s \in Session, Arrive(c, s) PROVE Lock!LockNext
  <2>1. phase[c] = "out"
    BY <1>1 DEF Arrive
  <2>2. {d \in Call : sess[d] = s /\ phase[d] # "gone"} = {d \in Call : sess[d] = s /\ pc[d] \notin Ended}
    OBVIOUS
  <2>3. phase' = [phase EXCEPT ![c] = "waiting"]
    BY <1>1 DEF Arrive
  <2>4. sess' = [sess EXCEPT ![c] = s]
        /\ ahead' = [ahead EXCEPT ![c] = {d \in Call : sess[d] = s /\ phase[d] # "gone"}]
    BY <1>1, <2>2 DEF Arrive
  <2>5. Lock!Arrive(c, s)
    BY <2>1, <2>3, <2>4, Zenon DEF Lock!Arrive
  <2> QED
    BY <2>5 DEF Lock!LockNext
<1>2. ASSUME NEW c \in Call, Enters(c) PROVE Lock!LockNext
  <2>1. \A d \in ahead[c] : gone(d)
    BY <1>2, NobodyAhead
  <2>2. \A d \in ahead[c] : phase[d] = "gone"
    BY <2>1
  <2>3. phase[c] = "waiting" /\ phase' = [phase EXCEPT ![c] = "in"]
    BY <1>2 DEF Enters
  <2>4. Lock!Grant(c)
    BY <1>2, <2>2, <2>3 DEF Enters, Lock!Grant
  <2> QED
    BY <2>4 DEF Lock!LockNext
<1>3. ASSUME NEW c \in Call, NEW to \in Inside, GoesOn(c, to) PROVE UNCHANGED <<sess, ahead, phase>>
  BY <1>3 DEF GoesOn, chain
<1>4. ASSUME NEW c \in Call, Leaves(c) PROVE Lock!LockNext
  <2>1. phase[c] = "in" /\ phase' = [phase EXCEPT ![c] = "gone"]
    <3>1. pc[c] \in Inside /\ pc \in [Call -> PC]
      BY <1>4 DEF Leaves
    <3>2. PICK how \in Ended : pc' = [pc EXCEPT ![c] = how]
      BY <1>4 DEF Leaves
    <3>3. how \notin Inside \cup {"idle", "queued"} /\ pc[c] \notin {"idle", "queued"}
      BY <3>1
    <3>0. Inside' = Inside
      OBVIOUS
    <3> HIDE DEF Inside, Ended, PC
    <3>4. pc'[c] = how /\ \A d \in Call \ {c} : pc'[d] = pc[d]
      BY <3>1, <3>2
    <3>5. phase[c] = "in"
      BY <3>1, <3>3
    <3>6. ASSUME NEW d \in Call PROVE phase'[d] = IF d = c THEN "gone" ELSE phase[d]
      <4>1. CASE d = c
        BY <3>0, <3>3, <3>4, <4>1
      <4>2. CASE d # c
        BY <3>0, <3>4, <4>2
      <4> QED
        BY <4>1, <4>2
    <3>7. /\ phase = [d \in Call |-> phase[d]] /\ DOMAIN phase = Call
          /\ phase' = [d \in Call |-> phase'[d]]
      OBVIOUS
    <3> HIDE DEF phase
    <3> QED
      BY <3>5, <3>6, <3>7
  <2>2. Lock!Leave(c)
    BY <1>4, <2>1 DEF Leaves, Lock!Leave
  <2> QED
    BY <2>2 DEF Lock!LockNext
<1>5. CASE UNCHANGED <<chain, pc>>
  BY <1>5 DEF chain
<1> QED
  BY <1>1, <1>2, <1>3, <1>4, <1>5 DEF ChainStep

-----------------------------------------------------------------------------
(* Every action is a step of the chain. *)

LEMMA NextInv == IInv /\ [Next]_vars => IInv' /\ ChainStep
<1> SUFFICES ASSUME IInv, [Next]_vars PROVE ChainStep /\ Jobs' /\ Questions'
  BY ChainStepKeeps DEF IInv
<1> USE DEF IInv, ChainInv, ChainTypeOK, PC, Inside, Ended, gone
<1> DEFINE Good == ChainStep /\ Jobs' /\ Questions'
\* Nothing of the chain, the jobs or the questions changes.
<1>a. ASSUME UNCHANGED <<chain, pc, jobs, asked>> PROVE Good
  BY <1>a DEF ChainStep, chain, Jobs, Questions
\* A call goes on, other than to or from a prune.
<1>b. ASSUME NEW c \in Call, NEW to \in Inside, GoesOn(c, to), pc[c] # "pruning",
             UNCHANGED <<jobs, asked>>
      PROVE  Good
  BY <1>b DEF ChainStep, GoesOn, chain, Jobs, Questions
<1>c. ASSUME NEW c \in Call, Leaves(c), pc[c] # "pruning", UNCHANGED <<jobs, asked>>
      PROVE  Good
  BY <1>c DEF ChainStep, Leaves, Jobs, Questions
\* An attempt fails.
<1>d. ASSUME NEW c \in Call, fail(c), pc[c] \in Inside \ {"pruning"}, UNCHANGED <<jobs, asked>>
      PROVE  Good
  <2>1. Leaves(c) \/ GoesOn(c, "retrying")
    BY <1>d DEF fail, leave, Leaves, GoesOn
  <2> QED
    BY <1>b, <1>c, <1>d, <2>1
<1>e. ASSUME NEW c \in Call, NEW s \in Session, Arrive(c, s), jobs' = jobs, asked' \subseteq asked
      PROVE  Good
  <2>1. ChainStep
    BY <1>e DEF ChainStep
  <2>2. /\ pc' = [pc EXCEPT ![c] = "queued"] /\ pc[c] = "idle"
        /\ sess' = [sess EXCEPT ![c] = s]
    BY <1>e DEF Arrive
  <2>3. Jobs'
    BY <1>e, <2>2 DEF Jobs
  <2>4. Questions'
    BY <1>e, <2>2 DEF Questions
  <2> QED
    BY <2>1, <2>3, <2>4
\* A deletion ends, with the call that awaits it if it is a prune.
<1>f. ASSUME NEW j \in jobs, NEW how \in Ended, endCascade(j, how), jobs' = jobs \ {j},
             asked' \subseteq asked
      PROVE  Good
  <2>1. CASE j.by = None
    BY <1>f, <2>1 DEF endCascade, ChainStep, chain, Jobs, Questions
  <2>2. CASE j.by # None
    <3>1. j.by \in Call /\ pc[j.by] = "pruning"
      BY <2>2 DEF Jobs
    <3>2. Leaves(j.by) /\ pc' = [pc EXCEPT ![j.by] = how]
      BY <1>f, <2>2, <3>1 DEF endCascade, leave, Leaves
    <3>3. \A k \in jobs' : k.by # j.by
      BY <1>f, <2>2 DEF Jobs
    <3> QED
      BY <1>f, <3>1, <3>2, <3>3 DEF ChainStep, Leaves, Jobs, Questions
  <2> QED
    BY <2>1, <2>2
\* A deletion goes on with a job of the same caller.
<1>g. ASSUME NEW j \in jobs, NEW k, k.by = j.by, jobs' = (jobs \ {j}) \cup {k},
             UNCHANGED <<chain, pc>>, asked' \subseteq asked
      PROVE  Good
  BY <1>g DEF ChainStep, chain, Jobs, Questions
<1>1. CASE UNCHANGED vars
  BY <1>1, <1>a DEF vars, team
<1>2. ASSUME NEW c \in Call, NEW s \in Session, RequestIntake(c, s) PROVE Good
  BY <1>2, <1>e DEF RequestIntake, team
<1>3. ASSUME NEW c \in Call, NEW r \in asked, AnswerQuestion(r, c) PROVE Good
  BY <1>3, <1>e DEF AnswerQuestion, Questions
<1>4. ASSUME NEW c \in Call, Enter(c) PROVE Good
  <2>1. Enters(c) /\ UNCHANGED <<jobs, asked>>
    BY <1>4 DEF Enter, begin, released, Enters
  <2> QED
    BY <2>1 DEF Enters, ChainStep, Jobs, Questions
<1>5. ASSUME NEW c \in Call, Retry(c) PROVE Good
  <2>1. GoesOn(c, "starting") /\ pc[c] # "pruning" /\ UNCHANGED <<jobs, asked>>
    BY <1>5 DEF Retry, begin, GoesOn, chain
  <2> QED
    BY <1>b, <2>1
<1>6. ASSUME NEW c \in Call, AgentStarts(c) PROVE Good
  <2>1. GoesOn(c, "running") /\ pc[c] # "pruning" /\ UNCHANGED <<jobs, asked>>
    BY <1>6 DEF AgentStarts, GoesOn
  <2> QED
    BY <1>b, <2>1
<1>7. ASSUME NEW c \in Call, RequestFails(c) PROVE Good
  BY <1>7, <1>d DEF RequestFails, team
<1>8. ASSUME NEW c \in Call, RunSucceeds(c) PROVE Good
  <2>1. GoesOn(c, "reading") /\ pc[c] # "pruning" /\ UNCHANGED <<jobs, asked>>
    BY <1>8 DEF RunSucceeds, GoesOn
  <2> QED
    BY <1>b, <2>1
<1>9. ASSUME NEW c \in Call, RunFails(c) PROVE Good
  BY <1>9, <1>d DEF RunFails
<1>10. ASSUME NEW c \in Call, ReadReply(c) PROVE Good
  <2>1. GoesOn(c, "filling") /\ pc[c] # "pruning" /\ UNCHANGED <<jobs, asked>>
    BY <1>10 DEF ReadReply, GoesOn
  <2> QED
    BY <1>b, <2>1
<1>11. ASSUME NEW c \in Call, NEW t \in Task, BackfillTask(c, t) PROVE Good
  BY <1>11, <1>a DEF BackfillTask
<1>12. ASSUME NEW c \in Call, Bind(c) PROVE Good
  <2>1. GoesOn(c, "kickoff") /\ jobs' = jobs /\ pc[c] = "filling"
    BY <1>12 DEF Bind, GoesOn
  <2>2. asked' \subseteq asked \cup {runOf(c)}
    BY <1>12 DEF Bind
  <2>3. runOf(c)[1] = c
    BY DEF runOf
  <2> QED
    BY <2>1, <2>2, <2>3 DEF ChainStep, GoesOn, chain, Jobs, Questions
<1>13. ASSUME NEW c \in Call, Complete(c) PROVE Good
  <2>1. CASE leave(c, "done") /\ UNCHANGED jobs
    <3>1. Leaves(c) /\ pc[c] # "pruning" /\ UNCHANGED <<jobs, asked>>
      BY <1>13, <2>1 DEF Complete, leave, Leaves
    <3> QED
      BY <1>c, <3>1
  <2>2. CASE pc' = [pc EXCEPT ![c] = "pruning"] /\ UNCHANGED chain
    <3>1. PICK ids : jobs' = jobs \cup {cascadeOf(c, Head(ids), Tail(ids))}
      BY <1>13, <2>2 DEF Complete, leave
    <3>2. cascadeOf(c, Head(ids), Tail(ids)).by = c
      BY DEF cascadeOf
    <3>3. GoesOn(c, "pruning") /\ pc[c] = "kickoff" /\ asked' = asked
      BY <1>13, <2>2 DEF Complete, GoesOn
    <3>4. \A j \in jobs : j.by # c
      BY <3>3 DEF Jobs
    <3>5. ChainStep /\ Questions'
      BY <3>3 DEF ChainStep, GoesOn, chain, Questions
    <3>6. Jobs'
      BY <3>1, <3>2, <3>3, <3>4 DEF GoesOn, Jobs
    <3> QED
      BY <3>5, <3>6
  <2> QED
    BY <1>13, <2>1, <2>2 DEF Complete
<1>14. ASSUME NEW r \in RunId, DeleteRunRequest(r) PROVE Good
  <2>1. cascadeOf(None, r, <<>>).by = None
    BY DEF cascadeOf
  <2> QED
    BY <1>14, <2>1 DEF DeleteRunRequest, ChainStep, chain, Jobs, Questions
<1>15. ASSUME NEW j \in jobs, DeleteRun(j) PROVE Good
  <2> DEFINE left == stillKnown(j.rest)
  <2>1. asked' \subseteq asked
    BY <1>15 DEF DeleteRun
  <2>2. CASE left # <<>>
    <3>1. cascadeOf(j.by, Head(left), Tail(left)).by = j.by
      BY DEF cascadeOf
    <3>2. jobs' = (jobs \ {j}) \cup {cascadeOf(j.by, Head(left), Tail(left))} /\ UNCHANGED <<chain, pc>>
      BY <1>15, <2>2 DEF DeleteRun
    <3> QED
      BY <1>g, <2>1, <3>1, <3>2
  <2>3. CASE left = <<>>
    <3>1. jobs' = jobs \ {j} /\ endCascade(j, "done")
      BY <1>15, <2>3 DEF DeleteRun
    <3> QED
      BY <1>f, <2>1, <3>1
  <2> QED
    BY <2>2, <2>3
<1>16. ASSUME NEW j \in jobs, NEW t \in j.tasks, DeleteTask(j, t) PROVE Good
  <2> DEFINE k == [j EXCEPT !.tasks = @ \ {t}]
  <2>1. k.by = j.by
    OBVIOUS
  <2>2. jobs' = (jobs \ {j}) \cup {k} /\ UNCHANGED <<chain, pc, asked>>
    BY <1>16 DEF DeleteTask
  <2> QED
    BY <1>g, <2>1, <2>2
<1>17. ASSUME NEW j \in jobs, NEW t \in j.tasks, CleanupFails(j, t) PROVE Good
  BY <1>17, <1>f DEF CleanupFails
<1>18. ASSUME NEW r \in agents, NEW t \in Task, CreateTask(r, t) PROVE Good
  BY <1>18, <1>a DEF CreateTask
<1>19. ASSUME NEW r \in agents, NEW m \in Manifest, SubmitManifest(r, m) PROVE Good
  BY <1>19, <1>a DEF SubmitManifest
<1>20. ASSUME NEW r \in agents, AgentEnds(r) PROVE Good
  BY <1>20, <1>a DEF AgentEnds
<1>21. ASSUME NEW t \in Task, TaskSettles(t) PROVE Good
  BY <1>21, <1>a DEF TaskSettles
<1> HIDE DEF Good
<1>22. ASSUME Next PROVE Good
  BY <1>1, <1>2, <1>3, <1>4, <1>5, <1>6, <1>7, <1>8, <1>9, <1>10, <1>11, <1>12, <1>13,
     <1>14, <1>15, <1>16, <1>17, <1>18, <1>19, <1>20, <1>21, <1>22, Zenon DEF Next
<1> QED
  BY <1>1, <1>22 DEF Good

\* The promises of withSerializedControllerIntake are a fair lock of each session: its
\* calls run one at a time, in the order of their arrival, also when a call before
\* them fails.
THEOREM IntakeImplementsLock == Spec => ImplementsLock
<1>1. Init => Lock!LockInit
  BY DEF Init, Lock!LockInit
<1>2. IInv /\ [Next]_vars => [Lock!LockNext]_(Lock!lockVars)
  BY NextInv, ChainStepRefines DEF IInv
<1> QED
  BY <1>1, <1>2, InitInv, NextInv, PTL DEF Spec, ImplementsLock, Lock!LockSpec

HIDE IntakeAssumption DEF IntakeAssumption

-----------------------------------------------------------------------------
(* Sequences of which entries are picked by their positions.               *)

\* The entries of a sequence have positions from 1 on.
LEMMA Positions ==
  ASSUME NEW S, NEW s \in Seq(S)
  PROVE  DOMAIN s = 1..Len(s) /\ Len(s) \in Nat /\ \A i \in DOMAIN s : s[i] \in S
BY LenProperties, ElementOfSeq

\* The number of positions in I up to i.
rank(I, i) == Cardinality({j \in I : j <= i})
nth(I, k) == CHOOSE i \in I : rank(I, i) = k

\* There are n numbers from 1 to n.
LEMMA FirstNumbers ==
  ASSUME NEW n \in Nat
  PROVE  IsFiniteSet(1..n) /\ Cardinality(1..n) = n
  BY FS_Interval

\* Ranks number the positions of I, from 1, in their order.
LEMMA RankNumbers ==
  ASSUME NEW n \in Nat, NEW I \in SUBSET (1..n)
  PROVE  /\ Cardinality(I) \in 0..n
         /\ \A i \in I : rank(I, i) \in 1..Cardinality(I)
         /\ \A i, j \in I : i < j => rank(I, i) < rank(I, j)
         /\ \A k \in 1..Cardinality(I) : \E i \in I : rank(I, i) = k
<1> DEFINE upTo(i) == {j \in I : j <= i}
<1>1. IsFiniteSet(1..n) /\ Cardinality(1..n) = n
  BY FS_Interval
<1>2. IsFiniteSet(I) /\ Cardinality(I) \in Nat /\ Cardinality(I) <= n
  BY <1>1, FS_Subset, FS_CardinalityType
<1>0. \A i \in I : i \in Int
  OBVIOUS
<1>3. ASSUME NEW i \in I
      PROVE  IsFiniteSet(upTo(i)) /\ rank(I, i) \in Int /\ rank(I, i) \in 1..Cardinality(I)
  <2>1. upTo(i) \in SUBSET I /\ upTo(i) # {}
    OBVIOUS
  <2>2. IsFiniteSet(upTo(i)) /\ Cardinality(upTo(i)) <= Cardinality(I)
    BY <1>2, <2>1, FS_Subset
  <2>3. Cardinality(upTo(i)) \in Nat /\ Cardinality(upTo(i)) # 0
    BY <2>1, <2>2, FS_CardinalityType, FS_EmptySet
  <2> QED
    BY <1>2, <2>2, <2>3 DEF rank
<1>4. ASSUME NEW i \in I, NEW j \in I, i < j PROVE rank(I, i) < rank(I, j)
  <2>1. upTo(i) \in SUBSET upTo(j) /\ j \in upTo(j) /\ j \notin upTo(i)
    <3>1. \A x \in I : x <= i => x <= j
      BY <1>4, <1>0
    <3>2. j <= j /\ ~(j <= i)
      BY <1>4, <1>0
    <3> QED
      BY <3>1, <3>2
  <2> HIDE DEF upTo
  <2>2. IsFiniteSet(upTo(j)) /\ upTo(i) # upTo(j)
    BY <2>1, <1>3
  <2>3. Cardinality(upTo(i)) <= Cardinality(upTo(j)) /\ Cardinality(upTo(j)) # Cardinality(upTo(i))
    BY <2>1, <2>2, FS_Subset
  <2>4. rank(I, i) = Cardinality(upTo(i)) /\ rank(I, j) = Cardinality(upTo(j))
    BY DEF rank, upTo
  <2>5. rank(I, i) \in Int /\ rank(I, j) \in Int
    BY <1>2, <1>3
  <2> QED
    BY <2>3, <2>4, <2>5
<1> DEFINE f == [i \in I |-> rank(I, i)]
           N == 1..Cardinality(I)
<1>5. f \in Injection(I, N)
  <2>1. f \in [I -> N]
    BY <1>3
  <2>2. \A i, j \in I : f[i] = f[j] => i = j
    <3> SUFFICES ASSUME NEW i \in I, NEW j \in I, i # j PROVE f[i] # f[j]
      OBVIOUS
    <3>1. f[i] = rank(I, i) /\ f[j] = rank(I, j) /\ (i < j \/ j < i)
      BY <1>0
    <3>2. rank(I, i) \in Int /\ rank(I, j) \in Int
      BY <1>3
    <3> HIDE DEF f
    <3> QED
      BY <3>1, <3>2, <1>4
  <2> QED
    BY <2>1, <2>2 DEF Injection, IsInjective
<1>6. IsFiniteSet(N) /\ Cardinality(N) = Cardinality(I)
  BY <1>2, FS_Interval
<1>7. f \in Surjection(I, N)
  BY <1>5, <1>6, FS_Injection
<1>8. ASSUME NEW k \in N PROVE \E i \in I : rank(I, i) = k
  <2>1. \A i \in I : f[i] = rank(I, i)
    OBVIOUS
  <2> HIDE DEF f
  <2> QED
    BY <2>1, <1>7, <1>8 DEF Surjection
<1>9. Cardinality(I) \in 0..n
  BY <1>2
<1> HIDE DEF f, upTo
<1> QED
  BY <1>3, <1>4, <1>8, <1>9

\* What is picked are the entries at the positions of I, in their order.
LEMMA PickedInOrder ==
  ASSUME NEW S, NEW s \in Seq(S), NEW I \in SUBSET (DOMAIN s)
  PROVE  /\ pick(s, I) \in Seq(S)
         /\ Len(pick(s, I)) = Cardinality(I) /\ Cardinality(I) \in 0..Len(s)
         /\ \A k \in 1..Cardinality(I) : nth(I, k) \in I /\ pick(s, I)[k] = s[nth(I, k)]
         /\ \A k, l \in 1..Cardinality(I) : k < l <=> nth(I, k) < nth(I, l)
         /\ \A i \in I : \E k \in 1..Cardinality(I) : nth(I, k) = i
<1> DEFINE n == Len(s)
           N == 1..Cardinality(I)
<1>1. n \in Nat /\ DOMAIN s = 1..n /\ I \in SUBSET (1..n) /\ \A i \in 1..n : s[i] \in S
  BY LenProperties, ElementOfSeq
<1>2. /\ Cardinality(I) \in 0..n
      /\ \A i \in I : rank(I, i) \in N
      /\ \A i, j \in I : i < j => rank(I, i) < rank(I, j)
      /\ \A k \in N : \E i \in I : rank(I, i) = k
  BY <1>1, RankNumbers
<1>3. \A k \in N : nth(I, k) \in I /\ rank(I, nth(I, k)) = k
  BY <1>2 DEF nth
<1>4. pick(s, I) = [k \in N |-> s[nth(I, k)]]
  BY DEF pick, nth, rank
<1>5. ASSUME NEW k \in N, NEW l \in N PROVE k < l <=> nth(I, k) < nth(I, l)
  <2>1. nth(I, k) \in I /\ nth(I, l) \in I /\ rank(I, nth(I, k)) = k /\ rank(I, nth(I, l)) = l
    BY <1>3
  <2>2. nth(I, k) \in Int /\ nth(I, l) \in Int /\ k \in Int /\ l \in Int
    BY <1>1, <1>2, <2>1
  <2> HIDE DEF N
  <2> QED
    BY <2>1, <2>2, <1>2
<1>6. ASSUME NEW i \in I PROVE \E k \in N : nth(I, k) = i
  <2>1. rank(I, i) \in N /\ nth(I, rank(I, i)) \in I /\ rank(I, nth(I, rank(I, i))) = rank(I, i)
    BY <1>2, <1>3
  <2>2. nth(I, rank(I, i)) = i
    <3> DEFINE j == nth(I, rank(I, i))
    <3>1. i \in Int /\ j \in Int /\ j \in I /\ rank(I, j) = rank(I, i) /\ rank(I, i) \in Int
      BY <1>1, <1>2, <2>1
    <3> HIDE DEF j
    <3>2. ~(i < j) /\ ~(j < i)
      BY <3>1, <1>2
    <3> QED
      BY <3>1, <3>2 DEF j
  <2> QED
    BY <2>1, <2>2
<1>7. pick(s, I) \in [N -> S]
  BY <1>1, <1>3, <1>4
<1>8. pick(s, I) \in Seq(S) /\ Len(pick(s, I)) = Cardinality(I)
  BY <1>2, <1>7
<1> QED
  BY <1>1, <1>2, <1>3, <1>4, <1>5, <1>6, <1>8

\* What is picked are entries of the sequence, one for each position.
LEMMA PickedFrom ==
  ASSUME NEW S, NEW s \in Seq(S), NEW I \in SUBSET (DOMAIN s), NEW p, p = pick(s, I)
  PROVE  /\ p \in Seq(S) /\ Len(p) = Cardinality(I) /\ Len(p) \in Nat /\ Len(p) <= Len(s)
         /\ DOMAIN p = 1..Len(p)
         /\ \A k \in DOMAIN p : p[k] \in S /\ \E i \in I : p[k] = s[i]
<1>1. /\ p \in Seq(S)
      /\ Len(p) = Cardinality(I) /\ Cardinality(I) \in 0..Len(s)
      /\ \A k \in 1..Cardinality(I) : nth(I, k) \in I /\ p[k] = s[nth(I, k)]
  BY PickedInOrder
<1>2. DOMAIN p = 1..Len(p) /\ \A k \in DOMAIN p : p[k] \in S
  BY <1>1, Positions
<1>3. Len(s) \in Nat
  BY Positions
<1>4. \A k \in DOMAIN p : nth(I, k) \in I /\ p[k] = s[nth(I, k)]
  BY <1>1, <1>2
<1> QED
  BY <1>1, <1>2, <1>3, <1>4

-----------------------------------------------------------------------------
(* Types of runs, tasks, bodies and deletions.                             *)

RunsOK(rs) == rs \in Seq(RunRec) /\ Len(rs) <= MaxRuns

\* A call that will retry has attempts left.
Retries == \A c \in Call : pc[c] = "retrying" => body[c].attempt < MaxRetries

BodiesOK == body \in [Call -> BodyRec] /\ Retries
TasksOK == task \in [Task -> TaskRec]
JobsOK == \A j \in jobs : j \in JobRec
IdsOK == agents \subseteq RunId /\ asked \subseteq RunId
DataInv == BodiesOK /\ RunsOK(runs) /\ TasksOK /\ JobsOK /\ IdsOK /\ failures \in 0..MaxFailures
TInv == IInv /\ DataInv

LEMMA TInvIsType == TInv => IntakeTypeOK
BY DEF TInv, IInv, ChainInv, ChainTypeOK, PC, DataInv, BodiesOK, RunsOK, TasksOK, JobsOK, IdsOK,
       IntakeTypeOK

\* A run that is known has a record.
LEMMA KnownRun ==
  ASSUME RunsOK(runs), NEW r, known(r)
  PROVE  theRun(r) \in RunRec /\ theRun(r).id = r /\ r \in RunId
<1> DEFINE i == CHOOSE k \in DOMAIN runs : runs[k].id = r
<1>1. i \in DOMAIN runs /\ runs[i].id = r
  BY DEF known
<1>2. runs[i] \in RunRec
  BY <1>1, Positions DEF RunsOK
<1> QED
  BY <1>1, <1>2 DEF theRun, RunRec

\* The list out is rs without its first entries, of which none is cut off needlessly.
Cut(rs, out) ==
  \E n \in 0..Len(rs) : /\ n = 0 <=> Len(rs) <= MaxRuns
                        /\ n < Len(rs) \/ Len(rs) = 0
                        /\ Len(out) = Len(rs) - n
                        /\ \A i \in 1..Len(out) : out[i] = rs[i + n]

\* Trimming keeps the last of the runs.
LEMMA TrimProperties ==
  ASSUME NEW rs \in Seq(RunRec), NEW out, out = trimControllerRuns(rs)
  PROVE  RunsOK(out) /\ Cut(rs, out)
<1>1. /\ DOMAIN rs = 1..Len(rs) /\ Len(rs) \in Nat /\ \A i \in DOMAIN rs : rs[i] \in RunRec
      /\ MaxRuns \in Nat /\ MaxRuns > 0
  BY Positions, IntakeAssumption DEF IntakeAssumption
<1>2. CASE Len(rs) <= MaxRuns
  <2>1. out = rs
    BY <1>2 DEF trimControllerRuns
  <2>2. \A i \in 1..Len(out) : out[i] = rs[i + 0]
    BY <1>1, <2>1
  <2>3. 0 \in 0..Len(rs) /\ (0 < Len(rs) \/ Len(rs) = 0) /\ Len(rs) = Len(rs) - 0
    BY <1>1
  <2> QED
    BY <1>2, <2>1, <2>2, <2>3 DEF RunsOK, Cut
<1>3. CASE Len(rs) > MaxRuns
  <2> DEFINE n == Len(rs) - MaxRuns
             a == n + 1
             b == Len(rs)
  <2>1. out = SubSeq(rs, a, b)
    BY <1>1, <1>3 DEF trimControllerRuns
  <2>2. /\ n \in Int /\ n >= 1 /\ n < Len(rs) /\ Len(rs) - n = MaxRuns
        /\ a \in Int /\ b \in Int /\ a <= b /\ b - a + 1 = MaxRuns /\ a = n + 1
    BY <1>1, <1>3
  <2>3. \A i \in a..b : rs[i] \in RunRec
    BY <1>1, <2>2
  <2> HIDE DEF n, a, b
  <2>9. /\ SubSeq(rs, a, b) \in Seq(RunRec)
        /\ Len(SubSeq(rs, a, b)) = IF a <= b THEN b - a + 1 ELSE 0
        /\ \A i \in 1 .. b - a + 1 : SubSeq(rs, a, b)[i] = rs[a + i - 1]
    BY <2>2, <2>3, SubSeqProperties
  <2>4. /\ out \in Seq(RunRec) /\ Len(out) = MaxRuns
        /\ \A i \in 1..MaxRuns : out[i] = rs[(n + 1) + i - 1]
    BY <2>1, <2>2, <2>9
  <2>5. \A i \in 1..MaxRuns : (n + 1) + i - 1 = i + n
    BY <1>1, <2>2
  <2>6. \A i \in 1..Len(out) : out[i] = rs[i + n]
    BY <2>4, <2>5
  <2>7. RunsOK(out)
    BY <1>1, <2>4 DEF RunsOK
  <2>8. n \in 0..Len(rs) /\ n # 0 /\ ~(Len(rs) <= MaxRuns)
    BY <1>1, <1>3, <2>2
  <2>10. Len(out) = Len(rs) - n
    BY <2>2, <2>4
  <2> QED
    BY <2>2, <2>6, <2>7, <2>8, <2>10 DEF Cut
<1>4. Len(rs) <= MaxRuns \/ Len(rs) > MaxRuns
  BY <1>1
<1> QED
  BY <1>2, <1>3, <1>4

\* Runs stay runs when one is updated.
LEMMA UpdateType ==
  ASSUME RunsOK(runs), NEW r, NEW x, known(r) => x \in RunRec
  PROVE  RunsOK(updateControllerRun(r, x))
<1>1. CASE ~known(r)
  BY <1>1 DEF updateControllerRun
<1>2. CASE known(r)
  <2>1. without(r) \in Seq(RunRec)
    BY PickedInOrder DEF without, RunsOK
  <2>2. Append(without(r), x) \in Seq(RunRec)
    BY <1>2, <2>1, AppendProperties
  <2> QED
    BY <1>2, <2>2, TrimProperties DEF updateControllerRun
<1> QED
  BY <1>1, <1>2

\* Recording an event keeps the type of a run.
LEMMA RecordType ==
  ASSUME RunsOK(runs), NEW r, NEW status \in {"pending", "running", "completed", "failed"}
  PROVE  RunsOK(record(r, status))
<1>1. ASSUME known(r) PROVE [theRun(r) EXCEPT !.status = status] \in RunRec
  <2>1. theRun(r) \in RunRec
    BY <1>1, KnownRun
  <2> QED
    BY <2>1 DEF RunRec
<1> QED
  BY <1>1, UpdateType DEF record

\* So does recording an end with the tasks of the attempt.
LEMMA EndType ==
  ASSUME RunsOK(runs), NEW r, NEW status \in {"pending", "running", "completed", "failed"},
         NEW T \in SUBSET Task
  PROVE  RunsOK(updateControllerRun(r, [theRun(r) EXCEPT !.status = status, !.created = T]))
<1>1. ASSUME known(r) PROVE [theRun(r) EXCEPT !.status = status, !.created = T] \in RunRec
  <2>1. theRun(r) \in RunRec
    BY <1>1, KnownRun
  <2> QED
    BY <2>1 DEF RunRec
<1> QED
  BY <1>1, UpdateType

\* Deleting a task leaves as many runs as there were.
LEMMA RemoveType ==
  ASSUME RunsOK(runs), TasksOK, NEW t \in Task, removeTask(t)
  PROVE  RunsOK(runs') /\ task' \in [Task -> TaskRec]
<1> DEFINE listing == {i \in DOMAIN runs : t \in runs[i].created}
           listed == pick(runs, listing)
           spared == pick(runs, DOMAIN runs \ listing)
           moved == [k \in DOMAIN listed |-> [listed[k] EXCEPT !.created = @ \ {t}]]
<1>1. runs' = spared \o moved
  BY DEF removeTask
<1>2. runs \in Seq(RunRec) /\ listing \in SUBSET (DOMAIN runs)
      /\ DOMAIN runs = 1..Len(runs) /\ Len(runs) \in Nat
  BY Positions DEF RunsOK
<1>3. Cardinality(DOMAIN runs \ listing) + Cardinality(listing) = Len(runs)
  <2>1. IsFiniteSet(DOMAIN runs) /\ Cardinality(DOMAIN runs) = Len(runs)
    BY <1>2, FirstNumbers
  <2>2. DOMAIN runs \cap listing = listing
    BY <1>2
  <2>3. IsFiniteSet(listing) /\ Cardinality(listing) \in Nat
    BY <1>2, <2>1, FS_Subset, FS_CardinalityType
  <2>4. Cardinality(DOMAIN runs \ listing)
          = Cardinality(DOMAIN runs) - Cardinality(DOMAIN runs \cap listing)
    BY <2>1, FS_Difference, Zenon
  <2>5. Cardinality(DOMAIN runs \ listing) = Len(runs) - Cardinality(listing)
    BY <2>1, <2>2, <2>4, Zenon
  <2> QED
    BY <1>2, <2>3, <2>5
<1>4. spared \in Seq(RunRec) /\ Len(spared) = Cardinality(DOMAIN runs \ listing)
  BY <1>2, PickedInOrder
<1>5. listed \in Seq(RunRec) /\ Len(listed) = Cardinality(listing)
  BY <1>2, PickedInOrder
<1> HIDE DEF listed, spared
<1>6. moved \in Seq(RunRec) /\ Len(moved) = Len(listed)
  <2>1. DOMAIN listed = 1..Len(listed) /\ Len(listed) \in Nat
        /\ \A k \in DOMAIN listed : listed[k] \in RunRec
    BY <1>5, Positions
  <2>2. ASSUME NEW x \in RunRec PROVE [x EXCEPT !.created = @ \ {t}] \in RunRec
    BY DEF RunRec
  <2>3. moved \in [1..Len(listed) -> RunRec]
    BY <2>1, <2>2
  <2> QED
    BY <2>1, <2>3
<1> HIDE DEF moved
<1>7. runs' \in Seq(RunRec) /\ Len(runs') = Len(spared) + Len(moved)
  BY <1>1, <1>4, <1>6, ConcatProperties
<1>8. task' \in [Task -> TaskRec]
  BY DEF removeTask, TasksOK, TaskRec
<1> QED
  BY <1>3, <1>4, <1>5, <1>6, <1>7, <1>8 DEF RunsOK

\* A deletion starts with the tasks of a run that is known.
LEMMA CascadeType ==
  ASSUME RunsOK(runs), NEW by \in Call \cup {None}, NEW r, known(r), NEW rest \in Seq(RunId)
  PROVE  cascadeOf(by, r, rest) \in JobRec
<1>1. theRun(r).created \in SUBSET Task /\ r \in RunId
  BY KnownRun DEF RunRec
<1> QED
  BY <1>1 DEF cascadeOf, JobRec

\* The stale runs are known.
LEMMA StaleKnown ==
  ASSUME RunsOK(runs), NEW old, staleRunIds(old) # <<>>
  PROVE  /\ staleRunIds(old) \in Seq(RunId)
         /\ known(Head(staleRunIds(old))) /\ Tail(staleRunIds(old)) \in Seq(RunId)
         /\ \A k \in DOMAIN staleRunIds(old) :
              \E i \in DOMAIN runs : /\ staleRunIds(old)[k] = runs[i].id
                                     /\ runs[i].id \in old
                                     /\ canAutoDeleteStaleControllerRun(runs[i])
<1> DEFINE I == {i \in DOMAIN runs : /\ runs[i].id \in old
                                     /\ canAutoDeleteStaleControllerRun(runs[i])}
           found == pick(runs, I)
           ids == [k \in DOMAIN found |-> found[k].id]
<1>1. I \in SUBSET (DOMAIN runs) /\ runs \in Seq(RunRec)
  BY DEF RunsOK
<1>2. /\ DOMAIN found = 1..Len(found) /\ Len(found) \in Nat
      /\ \A k \in DOMAIN found : found[k] \in RunRec /\ \E i \in I : found[k] = runs[i]
  <2> HIDE DEF I
  <2> QED
    BY <1>1, PickedFrom
<1>3. ids = staleRunIds(old)
  BY DEF staleRunIds
<1> HIDE DEF found
<1>6. ids \in [1..Len(found) -> RunId]
  BY <1>2 DEF RunRec
<1>7. ids \in Seq(RunId) /\ DOMAIN ids = DOMAIN found
  BY <1>2, <1>6
<1>8. \A k \in DOMAIN ids : \E i \in I : ids[k] = runs[i].id
  BY <1>2
<1> HIDE DEF ids
<1>9. ids # <<>> /\ 1 \in DOMAIN ids /\ Head(ids) = ids[1] /\ Tail(ids) \in Seq(RunId)
  <2>1. ids # <<>>
    BY <1>3
  <2>2. Len(ids) \in Nat \ {0} /\ DOMAIN ids = 1..Len(ids)
    BY <1>7, <2>1, EmptySeq, LenProperties
  <2>3. Tail(ids) \in Seq(RunId)
    BY <1>7, <2>1, HeadTailProperties
  <2>4. Head(ids) = ids[1]
    BY <1>7, <2>1
  <2> QED
    BY <2>1, <2>2, <2>3, <2>4
<1>10. known(Head(ids))
  BY <1>8, <1>9 DEF known
<1>11. \A k \in DOMAIN ids : \E i \in DOMAIN runs :
         ids[k] = runs[i].id /\ runs[i].id \in old /\ canAutoDeleteStaleControllerRun(runs[i])
  BY <1>8
<1> QED
  BY <1>3, <1>7, <1>9, <1>10, <1>11

\* So are the runs a prune goes on with, and they are among those it had left.
LEMMA StillKnownType ==
  ASSUME NEW ids \in Seq(RunId), stillKnown(ids) # <<>>
  PROVE  /\ stillKnown(ids) \in Seq(RunId)
         /\ known(Head(stillKnown(ids))) /\ Tail(stillKnown(ids)) \in Seq(RunId)
         /\ \A k \in DOMAIN stillKnown(ids) :
              \E i \in DOMAIN ids : stillKnown(ids)[k] = ids[i] /\ known(ids[i])
<1> DEFINE I == {i \in DOMAIN ids : known(ids[i])}
           left == stillKnown(ids)
<1>1. left = pick(ids, I) /\ I \in SUBSET (DOMAIN ids)
  BY DEF stillKnown
<1> HIDE DEF left
<1>2. left \in Seq(RunId) /\ \A k \in DOMAIN left : \E i \in I : left[k] = ids[i]
  <2> HIDE DEF I
  <2> QED
    BY <1>1, PickedFrom
<1>4. 1 \in DOMAIN left /\ Head(left) = left[1] /\ Tail(left) \in Seq(RunId)
  <2>1. left # <<>>
    BY DEF left
  <2>2. Len(left) \in Nat \ {0} /\ DOMAIN left = 1..Len(left)
    BY <1>2, <2>1, EmptySeq, LenProperties
  <2>3. Tail(left) \in Seq(RunId)
    BY <1>2, <2>1, HeadTailProperties
  <2>4. Head(left) = left[1]
    BY <1>2, <2>1
  <2> QED
    BY <2>2, <2>3, <2>4
<1>5. \A k \in DOMAIN left : \E i \in DOMAIN ids : left[k] = ids[i] /\ known(ids[i])
  BY <1>2
<1> QED
  BY <1>2, <1>4, <1>5 DEF left

\* The local variables of an attempt that begins, or of a call that has none.
LEMMA NoBodyType ==
  ASSUME NEW a \in 0..MaxRetries
  PROVE  noBody(a) \in BodyRec /\ noBody(a).attempt = a
BY DEF noBody, BodyRec

\* Leaving, failing and ending a deletion keep the types of the bodies.
LEMMA LeaveBodies ==
  ASSUME ChainTypeOK, BodiesOK, NEW c \in Call, NEW how \in Ended, leave(c, how)
  PROVE  BodiesOK'
<1>1. noBody(0) \in BodyRec
  BY NoBodyType, IntakeAssumption DEF IntakeAssumption
<1>2. body' = [body EXCEPT ![c] = noBody(0)] /\ pc' = [pc EXCEPT ![c] = how]
  BY DEF leave
<1>3. body' \in [Call -> BodyRec]
  BY <1>1, <1>2 DEF BodiesOK
<1>4. \A d \in Call : pc'[d] = "retrying" => pc[d] = "retrying" /\ body'[d] = body[d]
  BY <1>2 DEF ChainTypeOK, BodiesOK, Ended
<1> QED
  BY <1>3, <1>4 DEF BodiesOK, Retries

LEMMA FailBodies ==
  ASSUME ChainTypeOK, BodiesOK, NEW c \in Call, fail(c)
  PROVE  BodiesOK'
<1>1. CASE leave(c, "failed")
  BY <1>1, LeaveBodies DEF Ended
<1>2. CASE /\ body[c].attempt < MaxRetries
           /\ pc' = [pc EXCEPT ![c] = "retrying"]
           /\ body' = [body EXCEPT ![c] = noBody(@.attempt)]
  <2>1. body[c].attempt \in 0..MaxRetries
    BY DEF BodiesOK, BodyRec
  <2>2. noBody(body[c].attempt) \in BodyRec /\ noBody(body[c].attempt).attempt = body[c].attempt
    BY <2>1, NoBodyType
  <2>3. body' \in [Call -> BodyRec]
    BY <1>2, <2>2 DEF BodiesOK
  <2>4. Retries'
    BY <1>2, <2>2 DEF BodiesOK, Retries, ChainTypeOK
  <2> QED
    BY <2>3, <2>4 DEF BodiesOK
<1> QED
  BY <1>1, <1>2 DEF fail

\* So does changing what the attempt of a call found or was told.
LEMMA ChangeBodies ==
  ASSUME ChainTypeOK, BodiesOK, NEW c \in Call, NEW b \in BodyRec, b.attempt = body[c].attempt,
         body' = [body EXCEPT ![c] = b],
         \A d \in Call : pc'[d] = "retrying" => pc[d] = "retrying"
  PROVE  BodiesOK'
<1>1. \A d \in Call : body'[d].attempt = body[d].attempt
  BY DEF BodiesOK
<1>2. body' \in [Call -> BodyRec]
  BY DEF BodiesOK
<1> QED
  BY <1>1, <1>2 DEF BodiesOK, Retries

LEMMA SameBodies ==
  ASSUME BodiesOK, body' = body, \A d \in Call : pc'[d] = "retrying" => pc[d] = "retrying"
  PROVE  BodiesOK'
BY DEF BodiesOK, Retries

\* An attempt begins with a run of its own.
LEMMA BeginType ==
  ASSUME TInv, NEW c \in Call, NEW a \in 0..MaxRetries, begin(c, a), pc[c] # "idle"
  PROVE  /\ BodiesOK' /\ RunsOK(runs')
         /\ \E x \in RunRec : /\ x = [id |-> <<c, a>>, session |-> sess[c], created |-> {},
                                      status |-> "pending"]
                              /\ runs' = trimControllerRuns(Append(runs, x))
         /\ body'[c].attempt = a /\ \A d \in Call \ {c} : body'[d] = body[d]
         /\ body'[c].before = {t \in Task : exists(t)}
<1> USE DEF TInv, IInv, ChainInv, DataInv
<1> DEFINE x == [id |-> <<c, a>>, session |-> sess[c], created |-> {}, status |-> "pending"]
           b == [noBody(a) EXCEPT !.before = {t \in Task : exists(t)}]
<1>1. x \in RunRec
  BY DEF ChainTypeOK, RunRec, RunId
<1>2. runs' = trimControllerRuns(Append(runs, x))
  BY DEF begin
<1>3. Append(runs, x) \in Seq(RunRec)
  BY <1>1, AppendProperties DEF RunsOK
<1>4. RunsOK(runs')
  BY <1>2, <1>3, TrimProperties
<1>5. b \in BodyRec /\ b.attempt = a /\ b.before = {t \in Task : exists(t)}
  BY NoBodyType DEF BodyRec, noBody
<1>6. body' = [body EXCEPT ![c] = b] /\ pc' = [pc EXCEPT ![c] = "starting"]
  BY DEF begin
<1> HIDE DEF b, x
<1>7. body' \in [Call -> BodyRec] /\ body'[c] = b /\ \A d \in Call \ {c} : body'[d] = body[d]
  BY <1>5, <1>6 DEF BodiesOK
<1>8. \A d \in Call : pc'[d] = "retrying" => d # c /\ pc[d] = "retrying"
  BY <1>6 DEF ChainTypeOK
<1>9. BodiesOK'
  BY <1>7, <1>8 DEF BodiesOK, Retries
<1> QED
  BY <1>1, <1>2, <1>4, <1>5, <1>7, <1>9 DEF x

\* The run of a call is an id, and what an attempt created are tasks.
LEMMA RunOfType ==
  ASSUME BodiesOK, NEW c \in Call
  PROVE  /\ runOf(c) \in RunId /\ runOf(c)[1] = c
         /\ newTasks(c) \in SUBSET Task /\ createdTaskIds(c) \in SUBSET Task
         /\ body[c] \in BodyRec
BY DEF BodiesOK, BodyRec, RunId, runOf, newTasks, createdTaskIds

\* Tagging binds tasks to the run.
LEMMA TagType ==
  ASSUME BodiesOK, TasksOK, NEW c \in Call, tagControllerCreatedTasks(c)
  PROVE  /\ TasksOK'
         /\ \A t \in Task : IF t \in newTasks(c) THEN task'[t] = [task[t] EXCEPT !.run = runOf(c)]
                            ELSE task'[t] = task[t]
<1>1. runOf(c) \in RunId
  BY RunOfType
<1> QED
  BY <1>1 DEF tagControllerCreatedTasks, TasksOK, TaskRec

\* Every step keeps the types.
LEMMA NextData == TInv /\ [Next]_vars => DataInv'
<1> SUFFICES ASSUME TInv, [Next]_vars PROVE DataInv'
  OBVIOUS
<1> USE DEF TInv, IInv, ChainInv, DataInv
<1>0. failures \in 0..MaxFailures /\ MaxFailures \in Nat /\ MaxRetries \in Nat
  BY IntakeAssumption DEF IntakeAssumption
<1>f. ASSUME NEW what, fault(what) PROVE failures' \in 0..MaxFailures
  BY <1>f, <1>0 DEF fault
<1>arrive. ASSUME NEW c \in Call, NEW s, Arrive(c, s)
           PROVE  \A d \in Call : pc'[d] = "retrying" => pc[d] = "retrying"
  BY <1>arrive DEF Arrive, ChainTypeOK
<1>go. ASSUME NEW c \in Call, NEW to, to # "retrying", pc' = [pc EXCEPT ![c] = to]
       PROVE  \A d \in Call : pc'[d] = "retrying" => pc[d] = "retrying"
  BY <1>go DEF ChainTypeOK
<1>1. CASE UNCHANGED vars
  BY <1>1 DEF vars, team, BodiesOK, Retries, TasksOK, JobsOK, IdsOK
<1>2. ASSUME NEW c \in Call, NEW s \in Session, RequestIntake(c, s) PROVE DataInv'
  <2>1. Arrive(c, s) /\ UNCHANGED <<body, runs, task, agents, jobs, asked, failures>>
    BY <1>2 DEF RequestIntake, team
  <2> QED
    BY <2>1, <1>arrive, SameBodies DEF TasksOK, JobsOK, IdsOK
<1>3. ASSUME NEW c \in Call, NEW r \in asked, AnswerQuestion(r, c) PROVE DataInv'
  <2>1. Arrive(c, sess[r[1]]) /\ UNCHANGED <<body, runs, task, agents, jobs, failures>>
        /\ asked' \subseteq asked
    BY <1>3 DEF AnswerQuestion
  <2> QED
    BY <2>1, <1>arrive, SameBodies DEF TasksOK, JobsOK, IdsOK
<1>4. ASSUME NEW c \in Call, Enter(c) PROVE DataInv'
  <2>1. begin(c, 0) /\ pc[c] # "idle" /\ 0 \in 0..MaxRetries
        /\ UNCHANGED <<task, agents, jobs, asked, failures>>
    BY <1>4, <1>0 DEF Enter, begin
  <2>2. BodiesOK' /\ RunsOK(runs')
    BY <2>1, BeginType
  <2> QED
    BY <2>1, <2>2 DEF TasksOK, JobsOK, IdsOK
<1>5. ASSUME NEW c \in Call, Retry(c) PROVE DataInv'
  <2>1. body[c].attempt + 1 \in 0..MaxRetries
    BY <1>5, <1>0, RunOfType DEF Retry, BodiesOK, Retries, BodyRec
  <2>2. begin(c, body[c].attempt + 1) /\ pc[c] # "idle"
        /\ UNCHANGED <<task, agents, jobs, asked, failures>>
    BY <1>5 DEF Retry, begin
  <2>3. BodiesOK' /\ RunsOK(runs')
    BY <2>1, <2>2, BeginType
  <2> QED
    BY <2>2, <2>3 DEF TasksOK, JobsOK, IdsOK
<1>6. ASSUME NEW c \in Call, AgentStarts(c) PROVE DataInv'
  <2>1. /\ pc' = [pc EXCEPT ![c] = "running"] /\ runs' = record(runOf(c), "running")
        /\ agents' = agents \cup {runOf(c)} /\ UNCHANGED <<body, task, jobs, asked, failures>>
    BY <1>6 DEF AgentStarts
  <2> QED
    BY <2>1, <1>go, SameBodies, RecordType, RunOfType DEF TasksOK, JobsOK, IdsOK
<1>7. ASSUME NEW c \in Call, RequestFails(c) PROVE DataInv'
  <2>1. fault(pc[c]) /\ fail(c) /\ UNCHANGED <<runs, task, agents, jobs, asked>>
    BY <1>7 DEF RequestFails, team
  <2> QED
    BY <2>1, <1>f, FailBodies DEF TasksOK, JobsOK, IdsOK
<1>8. ASSUME NEW c \in Call, RunSucceeds(c) PROVE DataInv'
  <2> DEFINE b == [body[c] EXCEPT !.found = createdTaskIds(c)]
  <2>1. /\ tagControllerCreatedTasks(c) /\ pc' = [pc EXCEPT ![c] = "reading"]
        /\ body' = [body EXCEPT ![c] = b] /\ UNCHANGED <<runs, agents, jobs, asked, failures>>
    BY <1>8 DEF RunSucceeds
  <2>2. b \in BodyRec /\ b.attempt = body[c].attempt
    BY RunOfType DEF BodyRec
  <2> HIDE DEF b
  <2>3. BodiesOK'
    BY <2>1, <2>2, <1>go, ChangeBodies
  <2> QED
    BY <2>1, <2>3, TagType DEF JobsOK, IdsOK
<1>9. ASSUME NEW c \in Call, RunFails(c) PROVE DataInv'
  <2>1. /\ fault("error") /\ fail(c) /\ tagControllerCreatedTasks(c) /\ runs' = runFailed(c)
        /\ UNCHANGED <<agents, jobs, asked>>
    BY <1>9 DEF RunFails
  <2>2. RunsOK(runs')
    BY <2>1, RunOfType, EndType DEF runFailed
  <2> QED
    BY <2>1, <2>2, <1>f, FailBodies, TagType DEF JobsOK, IdsOK
<1>10. ASSUME NEW c \in Call, ReadReply(c) PROVE DataInv'
  <2>1. pc' = [pc EXCEPT ![c] = "filling"] /\ UNCHANGED <<task, agents, jobs, asked, failures>>
    BY <1>10 DEF ReadReply
  <2>2. CASE UNCHANGED <<body, runs>>
    BY <2>1, <2>2, <1>go, SameBodies DEF TasksOK, JobsOK, IdsOK
  <2>3. CASE /\ \E m \in Backfilled(c) : body' = [body EXCEPT ![c].manifest = m]
             /\ runs' = record(runOf(c), "running")
    <3>1. PICK m \in Backfilled(c) : body' = [body EXCEPT ![c].manifest = m]
      BY <2>3
    <3> DEFINE b == [body[c] EXCEPT !.manifest = m]
    <3>2. m \in Manifest
      BY RunOfType DEF Backfilled, Manifest, BodyRec
    <3>3. b \in BodyRec /\ b.attempt = body[c].attempt /\ body' = [body EXCEPT ![c] = b]
      BY <3>1, <3>2, RunOfType DEF BodyRec
    <3> HIDE DEF b
    <3>4. BodiesOK'
      BY <2>1, <3>3, <1>go, ChangeBodies
    <3> QED
      BY <2>1, <2>3, <3>4, RecordType DEF TasksOK, JobsOK, IdsOK
  <2> QED
    BY <1>10, <2>2, <2>3 DEF ReadReply
<1>11. ASSUME NEW c \in Call, NEW t \in Task, BackfillTask(c, t) PROVE DataInv'
  <2> DEFINE b == [body[c] EXCEPT !.found = @ \cup {t}, !.manifest = t]
  <2>1. /\ body' = [body EXCEPT ![c] = b] /\ UNCHANGED <<pc, agents, jobs, asked, failures>>
        /\ runs' = record(runOf(c), "running")
        /\ task' = [task EXCEPT ![t] = [status |-> "open", session |-> sess[c], run |-> runOf(c)]]
    BY <1>11 DEF BackfillTask, BodiesOK
  <2>2. b \in BodyRec /\ b.attempt = body[c].attempt
    <3>1. body[c] \in BodyRec /\ t \in Manifest
      BY RunOfType DEF Manifest
    <3>2. \A x \in BodyRec, m \in Manifest :
            LET y == [x EXCEPT !.found = @ \cup {t}, !.manifest = m]
            IN  y \in BodyRec /\ y.attempt = x.attempt
      BY DEF BodyRec
    <3> HIDE DEF BodyRec, Manifest
    <3> QED
      BY <3>1, <3>2
  <2> HIDE DEF b
  <2>3. BodiesOK'
    BY <2>1, <2>2, ChangeBodies
  <2>4. TasksOK'
    BY <2>1, RunOfType DEF TasksOK, TaskRec, ChainTypeOK
  <2> QED
    BY <2>1, <2>3, <2>4, RecordType DEF JobsOK, IdsOK
<1>12. ASSUME NEW c \in Call, Bind(c) PROVE DataInv'
  <2> DEFINE m == body[c].manifest
             b == [body[c] EXCEPT !.found = @ \cup {m}]
  <2>1. /\ pc' = [pc EXCEPT ![c] = "kickoff"] /\ UNCHANGED <<runs, agents, jobs, failures>>
        /\ asked' \subseteq asked \cup {runOf(c)}
    BY <1>12 DEF Bind
  <2>2. IdsOK'
    BY <2>1, RunOfType DEF IdsOK
  <2>3. CASE m \in Task
    <3>1. b \in BodyRec /\ b.attempt = body[c].attempt
      BY <2>3, RunOfType DEF BodyRec
    <3>2. \/ UNCHANGED <<task, body>>
          \/ /\ task' = [task EXCEPT ![m].run = runOf(c), ![m].session = sess[c]]
             /\ body' = [body EXCEPT ![c] = b]
      BY <1>12 DEF Bind
    <3> HIDE DEF b, m
    <3>3. BodiesOK'
      BY <2>1, <3>1, <3>2, <1>go, SameBodies, ChangeBodies
    <3>4. TasksOK'
      <4>1. task[m] \in TaskRec /\ runOf(c) \in RunId /\ sess[c] \in Session \cup {None}
        BY <2>3, RunOfType DEF TasksOK, ChainTypeOK
      <4>2. [task[m] EXCEPT !.run = runOf(c), !.session = sess[c]] \in TaskRec
        BY <4>1 DEF TaskRec
      <4> HIDE DEF TaskRec, runOf
      <4> QED
        BY <2>3, <3>2, <4>2 DEF TasksOK
    <3> QED
      BY <2>1, <2>2, <3>3, <3>4 DEF JobsOK
  <2>4. CASE m \notin Task
    <3>1. UNCHANGED <<task, body>>
      BY <1>12, <2>4 DEF Bind
    <3> QED
      BY <2>1, <2>2, <3>1, <1>go, SameBodies DEF TasksOK, JobsOK
  <2> QED
    BY <2>3, <2>4
<1>13. ASSUME NEW c \in Call, Complete(c) PROVE DataInv'
  <2>1. runs' = runCompleted(c) /\ UNCHANGED <<task, agents, asked, failures>>
    BY <1>13 DEF Complete
  <2>2. RunsOK(runs')
    BY <2>1, RunOfType, EndType DEF runCompleted, BodyRec
  <2>3. PICK old : LET ids == staleRunIds(old)
                   IN IF ids = <<>>
                      THEN leave(c, "done") /\ UNCHANGED jobs
                      ELSE /\ pc' = [pc EXCEPT ![c] = "pruning"]
                           /\ jobs' = jobs \cup {cascadeOf(c, Head(ids), Tail(ids))}
                           /\ UNCHANGED <<chain, body>>
    BY <1>13 DEF Complete
  <2> DEFINE ids == staleRunIds(old)
  <2>4. CASE ids = <<>>
    BY <2>1, <2>2, <2>3, <2>4, LeaveBodies DEF Ended, TasksOK, JobsOK, IdsOK
  <2>5. CASE ids # <<>>
    <3>1. known(Head(ids)) /\ Tail(ids) \in Seq(RunId)
      BY <2>5, StaleKnown
    <3>2. cascadeOf(c, Head(ids), Tail(ids)) \in JobRec
      BY <3>1, CascadeType
    <3>3. jobs' = jobs \cup {cascadeOf(c, Head(ids), Tail(ids))} /\ body' = body
          /\ pc' = [pc EXCEPT ![c] = "pruning"]
      BY <2>3, <2>5
    <3> QED
      BY <2>1, <2>2, <3>2, <3>3, <1>go, SameBodies DEF TasksOK, JobsOK, IdsOK
  <2> QED
    BY <2>4, <2>5
<1>14. ASSUME NEW r \in RunId, DeleteRunRequest(r) PROVE DataInv'
  <2>1. known(r) /\ jobs' = jobs \cup {cascadeOf(None, r, <<>>)}
        /\ UNCHANGED <<pc, body, runs, task, agents, asked, failures>>
    BY <1>14 DEF DeleteRunRequest
  <2>2. <<>> \in Seq(RunId)
    BY EmptySeq
  <2>3. cascadeOf(None, r, <<>>) \in JobRec
    BY <2>1, <2>2, CascadeType
  <2> QED
    BY <2>1, <2>3, SameBodies DEF TasksOK, JobsOK, IdsOK
<1>end. ASSUME NEW j \in jobs, NEW how \in Ended, endCascade(j, how) PROVE BodiesOK'
  BY <1>end, LeaveBodies, SameBodies DEF endCascade, Jobs
<1>15. ASSUME NEW j \in jobs, DeleteRun(j) PROVE DataInv'
  <2> DEFINE left == stillKnown(j.rest)
  <2>1. j \in JobRec /\ j.rest \in Seq(RunId) /\ j.by \in Call \cup {None}
    BY DEF JobsOK, JobRec
  <2>2. runs' = without(j.run) /\ asked' \subseteq asked /\ UNCHANGED <<task, agents, failures>>
    BY <1>15 DEF DeleteRun
  <2>3. RunsOK(runs')
    <3> DEFINE I == {i \in DOMAIN runs : runs[i].id # j.run}
    <3>1. I \in SUBSET (DOMAIN runs) /\ runs' = pick(runs, I) /\ runs \in Seq(RunRec)
      BY <2>2 DEF without, RunsOK
    <3> HIDE DEF I
    <3>2. runs' \in Seq(RunRec) /\ Len(runs') \in Nat /\ Len(runs') <= Len(runs) /\ Len(runs) \in Nat
      BY <3>1, PickedFrom, Positions
    <3> QED
      BY <3>2, IntakeAssumption DEF RunsOK, IntakeAssumption
  <2>4. CASE left # <<>>
    <3>1. known(Head(left)) /\ Tail(left) \in Seq(RunId)
      BY <2>1, <2>4, StillKnownType
    <3>2. cascadeOf(j.by, Head(left), Tail(left)) \in JobRec
      BY <2>1, <3>1, CascadeType
    <3>3. jobs' = (jobs \ {j}) \cup {cascadeOf(j.by, Head(left), Tail(left))}
          /\ UNCHANGED <<pc, body>>
      BY <1>15, <2>4 DEF DeleteRun
    <3> QED
      BY <2>2, <2>3, <3>2, <3>3, SameBodies DEF TasksOK, JobsOK, IdsOK
  <2>5. CASE left = <<>>
    <3>1. jobs' = jobs \ {j} /\ endCascade(j, "done")
      BY <1>15, <2>5 DEF DeleteRun
    <3> QED
      BY <2>2, <2>3, <3>1, <1>end DEF TasksOK, JobsOK, IdsOK, Ended
  <2> QED
    BY <2>4, <2>5
<1>16. ASSUME NEW j \in jobs, NEW t \in j.tasks, DeleteTask(j, t) PROVE DataInv'
  <2> DEFINE k == [j EXCEPT !.tasks = @ \ {t}]
  <2>1. j \in JobRec /\ t \in Task
    BY DEF JobsOK, JobRec
  <2>2. k \in JobRec
    BY <2>1 DEF JobRec
  <2>3. jobs' = (jobs \ {j}) \cup {k} /\ UNCHANGED <<pc, body, agents, asked, failures>>
    BY <1>16 DEF DeleteTask
  <2>4. RunsOK(runs') /\ TasksOK'
    BY <1>16, <2>1, RemoveType DEF DeleteTask, TasksOK
  <2> QED
    BY <2>2, <2>3, <2>4, SameBodies DEF JobsOK, IdsOK
<1>17. ASSUME NEW j \in jobs, NEW t \in j.tasks, CleanupFails(j, t) PROVE DataInv'
  <2>1. t \in Task
    BY DEF JobsOK, JobRec
  <2>2. fault("cleanup") /\ removeTask(t) /\ jobs' = jobs \ {j} /\ endCascade(j, "failed")
        /\ UNCHANGED <<agents, asked>>
    BY <1>17 DEF CleanupFails
  <2>3. RunsOK(runs') /\ TasksOK'
    BY <2>1, <2>2, RemoveType DEF TasksOK
  <2> QED
    BY <2>2, <2>3, <1>f, <1>end DEF JobsOK, IdsOK, Ended
<1>18. ASSUME NEW r \in agents, NEW t \in Task, CreateTask(r, t) PROVE DataInv'
  <2>1. r[1] \in Call
    BY DEF IdsOK, RunId
  <2>2. /\ task' = [task EXCEPT ![t] = [status |-> "open", session |-> sess[r[1]], run |-> None]]
        /\ UNCHANGED <<pc, body, runs, agents, jobs, asked, failures>>
    BY <1>18 DEF CreateTask
  <2>3. TasksOK'
    BY <2>1, <2>2 DEF TasksOK, TaskRec, ChainTypeOK
  <2> QED
    BY <2>2, <2>3, SameBodies DEF JobsOK, IdsOK
<1>19. ASSUME NEW r \in agents, NEW m \in Manifest, SubmitManifest(r, m) PROVE DataInv'
  <2> DEFINE to == latestRun(sess[r[1]])
             b == [body[to[1]] EXCEPT !.manifest = m]
  <2>1. runs' = record(to, "running") /\ UNCHANGED <<pc, task, agents, jobs, asked, failures>>
    BY <1>19 DEF SubmitManifest
  <2>2. body' = body \/ (to[1] \in Call /\ body' = [body EXCEPT ![to[1]] = b])
    BY <1>19 DEF SubmitManifest, BodiesOK
  <2>3. ASSUME to[1] \in Call PROVE b \in BodyRec /\ b.attempt = body[to[1]].attempt
    BY <2>3, RunOfType DEF BodyRec
  <2> HIDE DEF b, to
  <2>4. BodiesOK'
    BY <2>1, <2>2, <2>3, SameBodies, ChangeBodies
  <2> QED
    BY <2>1, <2>4, RecordType DEF TasksOK, JobsOK, IdsOK
<1>20. ASSUME NEW r \in agents, AgentEnds(r) PROVE DataInv'
  <2>1. agents' \subseteq agents /\ UNCHANGED <<pc, body, runs, task, jobs, asked, failures>>
    BY <1>20 DEF AgentEnds
  <2> QED
    BY <2>1, SameBodies DEF TasksOK, JobsOK, IdsOK
<1>21. ASSUME NEW t \in Task, TaskSettles(t) PROVE DataInv'
  <2>1. /\ task' = [task EXCEPT ![t].status = "settled"]
        /\ UNCHANGED <<pc, body, runs, agents, jobs, asked, failures>>
    BY <1>21 DEF TaskSettles
  <2>2. TasksOK'
    BY <2>1 DEF TasksOK, TaskRec
  <2> QED
    BY <2>1, <2>2, SameBodies DEF JobsOK, IdsOK
<1> HIDE DEF TInv, IInv, ChainInv, DataInv
<1>22. ASSUME Next PROVE DataInv'
  BY <1>2, <1>3, <1>4, <1>5, <1>6, <1>7, <1>8, <1>9, <1>10, <1>11, <1>12, <1>13,
     <1>14, <1>15, <1>16, <1>17, <1>18, <1>19, <1>20, <1>21, <1>22, Zenon DEF Next
<1> QED
  BY <1>1, <1>22

\* In the beginning there are no runs and no tasks.
LEMMA InitData == Init => DataInv
<1> SUFFICES ASSUME Init PROVE DataInv
  OBVIOUS
<1>1. MaxRetries \in Nat /\ MaxRuns \in Nat /\ MaxFailures \in Nat
  BY IntakeAssumption DEF IntakeAssumption
<1>2. noBody(0) \in BodyRec
  BY <1>1, NoBodyType
<1>3. BodiesOK
  BY <1>2 DEF Init, BodiesOK, Retries
<1>4. RunsOK(runs)
  BY <1>1, EmptySeq DEF Init, RunsOK
<1> QED
  BY <1>1, <1>3, <1>4 DEF Init, DataInv, TasksOK, TaskRec, JobsOK, IdsOK

\* Runs, tasks, bodies and deletions have their types, an attempt is one that is allowed,
\* and no more runs are kept than MAX_CONTROLLER_RUNS (trimControllerRuns).
THEOREM IntakeTypeCorrect == Spec => []IntakeTypeOK
<1>1. Init => TInv
  BY InitInv, InitData DEF TInv
<1>2. TInv /\ [Next]_vars => TInv'
  BY NextInv, NextData DEF TInv
<1> QED
  BY <1>1, <1>2, TInvIsType, PTL DEF Spec

-----------------------------------------------------------------------------
(* Tasks and the runs they belong to.  Where no probe gives a run up and no  *)
(* wait for an agent rejects, an agent works only while its call awaits it,  *)
(* and what it created is new to that call when the tasks are tagged.        *)

AgentsAwaited == \A r \in agents : pc[r[1]] = "running" /\ r = runOf(r[1])
SeenTasksExisted == \A c \in Call : \A t \in body[c].before : task[t].status # "none"
NewTasksAwaited ==
  \A t \in Task : exists(t) /\ task[t].run = None =>
    \E c \in Call : sess[c] = task[t].session /\ pc[c] = "running" /\ t \notin body[c].before
ClaimInv == AgentsAwaited /\ SeenTasksExisted /\ NewTasksAwaited

\* What a call does to the body of another one, and to its own when it fails.
LEMMA FailFrame ==
  ASSUME ChainTypeOK, BodiesOK, NEW c \in Call, fail(c)
  PROVE  /\ \A d \in Call \ {c} : body'[d] = body[d] /\ pc'[d] = pc[d]
         /\ body'[c].before = {} /\ pc'[c] \in {"failed", "retrying"} /\ sess' = sess
BY DEF fail, leave, noBody, BodiesOK, ChainTypeOK, chain

LEMMA LeaveFrame ==
  ASSUME ChainTypeOK, BodiesOK, NEW c \in Call, NEW how, leave(c, how)
  PROVE  /\ \A d \in Call \ {c} : body'[d] = body[d] /\ pc'[d] = pc[d]
         /\ body'[c].before = {} /\ pc'[c] = how /\ sess' = sess
BY DEF leave, noBody, BodiesOK, ChainTypeOK

\* The tasks an attempt leaves behind are bound to its run.
LEMMA TagClaims ==
  ASSUME TInv, ClaimInv, NEW c \in Call, pc[c] = "running", runOf(c) \notin agents,
         tagControllerCreatedTasks(c), UNCHANGED <<sess, agents>>, pc'[c] # "running",
         \A d \in Call \ {c} : pc'[d] = pc[d] /\ body'[d] = body[d],
         body'[c].before \subseteq body[c].before
  PROVE  ClaimInv'
<1> USE DEF TInv, IInv, ChainInv, DataInv, ClaimInv
<1>1. \A t \in Task : /\ task'[t].status = task[t].status /\ task'[t].session = task[t].session
                      /\ t \notin newTasks(c) => task'[t] = task[t]
                      /\ t \in newTasks(c) => task'[t].run = runOf(c)
  <2>1. \A t \in Task : /\ task[t] \in TaskRec
                        /\ task'[t] = IF t \in newTasks(c) THEN [task[t] EXCEPT !.run = runOf(c)]
                                      ELSE task[t]
    BY TagType DEF TasksOK
  <2>2. ASSUME NEW x \in TaskRec, NEW q
        PROVE  LET y == [x EXCEPT !.run = q]
               IN  y.status = x.status /\ y.session = x.session /\ y.run = q
    BY DEF TaskRec
  <2> SUFFICES ASSUME NEW t \in Task
               PROVE  /\ task'[t].status = task[t].status /\ task'[t].session = task[t].session
                      /\ t \notin newTasks(c) => task'[t] = task[t]
                      /\ t \in newTasks(c) => task'[t].run = runOf(c)
    OBVIOUS
  <2> DEFINE y == [task[t] EXCEPT !.run = runOf(c)]
  <2>3. y.status = task[t].status /\ y.session = task[t].session /\ y.run = runOf(c)
    BY <2>1, <2>2
  <2>4. task'[t] = IF t \in newTasks(c) THEN y ELSE task[t]
    BY <2>1
  <2> HIDE DEF y, newTasks, runOf
  <2> QED
    BY <2>3, <2>4
<1>2. \A r \in agents : r[1] \in Call /\ r[1] # c
  BY DEF AgentsAwaited, IdsOK, RunId
<1>3. AgentsAwaited'
  BY <1>2 DEF AgentsAwaited, runOf
<1>4. \A d \in Call : body'[d].before \subseteq body[d].before /\ body[d].before \subseteq Task
  BY DEF BodiesOK, BodyRec
<1>5. SeenTasksExisted'
  BY <1>1, <1>4 DEF SeenTasksExisted
<1>6. runOf(c) # None
  BY RunOfType, IntakeAssumption DEF IntakeAssumption
<1>7. NewTasksAwaited'
  <2> SUFFICES ASSUME NEW t \in Task, exists(t)', task'[t].run = None
               PROVE  \E d \in Call : /\ sess'[d] = task'[t].session /\ pc'[d] = "running"
                                      /\ t \notin body'[d].before
    BY DEF NewTasksAwaited
  <2>1. exists(t) /\ t \notin newTasks(c) /\ task[t].run = None
    BY <1>1, <1>6 DEF exists
  <2>2. PICK d \in Call : sess[d] = task[t].session /\ pc[d] = "running" /\ t \notin body[d].before
    BY <2>1 DEF NewTasksAwaited
  <2>3. d # c
    BY <2>1, <2>2 DEF newTasks
  <2> QED
    BY <1>1, <2>2, <2>3
<1> QED
  BY <1>3, <1>5, <1>7

LEMMA NextClaims ==
  ASSUME "probe" \notin Ops, "running" \notin Faults
  PROVE  TInv /\ ClaimInv /\ [Next]_vars => ClaimInv'
<1> SUFFICES ASSUME TInv, ClaimInv, [Next]_vars PROVE ClaimInv'
  OBVIOUS
<1> USE DEF TInv, IInv, ChainInv, DataInv, ClaimInv
<1>0. /\ \A c \in Call : body[c] \in BodyRec /\ body[c].before \subseteq Task
      /\ \A t \in Task : task[t] \in TaskRec
      /\ \A r \in agents : r[1] \in Call
  BY RunOfType DEF TasksOK, BodyRec, IdsOK, RunId
\* Nothing is created, and the calls that await an agent go on awaiting it.
<1>a. ASSUME agents' \subseteq agents,
             \A d \in Call : pc[d] = "running" =>
               /\ pc'[d] = "running" /\ sess'[d] = sess[d]
               /\ body'[d].before = body[d].before /\ body'[d].attempt = body[d].attempt,
             \A d \in Call : \A t \in body'[d].before : t \in body[d].before \/ (t \in Task /\ exists(t)),
             \A t \in Task : \/ task'[t] = task[t]
                             \/ task'[t].status = "deleted"
                             \/ task'[t].status # "none" /\ task'[t].run # None
                             \/ /\ task'[t].run = task[t].run /\ task'[t].session = task[t].session
                                /\ exists(t) /\ exists(t)'
      PROVE  ClaimInv'
  <2>1. AgentsAwaited'
    BY <1>a, <1>0 DEF AgentsAwaited, runOf
  <2>2. SeenTasksExisted'
    BY <1>a, <1>0 DEF SeenTasksExisted, exists
  <2>3. NewTasksAwaited'
    <3> SUFFICES ASSUME NEW t \in Task, exists(t)', task'[t].run = None
                 PROVE  \E d \in Call : /\ sess'[d] = task'[t].session /\ pc'[d] = "running"
                                        /\ t \notin body'[d].before
      BY DEF NewTasksAwaited
    <3>1. exists(t) /\ task[t].run = None /\ task'[t].session = task[t].session
      BY <1>a DEF exists
    <3>2. PICK d \in Call : sess[d] = task[t].session /\ pc[d] = "running" /\ t \notin body[d].before
      BY <3>1 DEF NewTasksAwaited
    <3> QED
      BY <1>a, <3>1, <3>2
  <2> QED
    BY <2>1, <2>2, <2>3
\* Bodies and tasks stay as they are.
<1>b. ASSUME agents' \subseteq agents, UNCHANGED <<body, task>>,
             \A d \in Call : pc[d] = "running" => pc'[d] = "running" /\ sess'[d] = sess[d]
      PROVE  ClaimInv'
  BY <1>a, <1>b
<1>arrive. ASSUME NEW c \in Call, NEW s, Arrive(c, s)
           PROVE  \A d \in Call : pc[d] = "running" => pc'[d] = "running" /\ sess'[d] = sess[d]
  BY <1>arrive DEF Arrive, ChainTypeOK
<1>go. ASSUME NEW c \in Call, pc[c] # "running", NEW to, pc' = [pc EXCEPT ![c] = to]
       PROVE  \A d \in Call : pc[d] = "running" => pc'[d] = "running"
  BY <1>go DEF ChainTypeOK
<1>1. CASE UNCHANGED vars
  BY <1>1, <1>b DEF vars, team, chain
<1>2. ASSUME NEW c \in Call, NEW s \in Session, RequestIntake(c, s) PROVE ClaimInv'
  BY <1>2, <1>b, <1>arrive DEF RequestIntake, team
<1>3. ASSUME NEW c \in Call, NEW r \in asked, AnswerQuestion(r, c) PROVE ClaimInv'
  BY <1>3, <1>b, <1>arrive DEF AnswerQuestion
<1>begin. ASSUME NEW c \in Call, NEW a \in 0..MaxRetries, begin(c, a), pc[c] \notin {"idle", "running"}
          PROVE  ClaimInv'
  <2>1. /\ \A d \in Call \ {c} : body'[d] = body[d]
        /\ body'[c].before = {t \in Task : exists(t)}
    BY <1>begin, BeginType
  <2>2. pc' = [pc EXCEPT ![c] = "starting"] /\ UNCHANGED <<sess, agents, task>>
    BY <1>begin DEF begin
  <2> QED
    BY <1>a, <1>go, <1>begin, <2>1, <2>2
<1>4. ASSUME NEW c \in Call, Enter(c) PROVE ClaimInv'
  <2>1. 0 \in 0..MaxRetries
    BY IntakeAssumption DEF IntakeAssumption
  <2> QED
    BY <1>4, <2>1, <1>begin DEF Enter
<1>5. ASSUME NEW c \in Call, Retry(c) PROVE ClaimInv'
  <2>1. body[c].attempt + 1 \in 0..MaxRetries
    BY <1>5, <1>0, IntakeAssumption DEF Retry, BodiesOK, Retries, BodyRec, IntakeAssumption
  <2> QED
    BY <1>5, <2>1, <1>begin DEF Retry
<1>6. ASSUME NEW c \in Call, AgentStarts(c) PROVE ClaimInv'
  <2>1. /\ pc[c] = "starting" /\ pc' = [pc EXCEPT ![c] = "running"]
        /\ agents' = agents \cup {runOf(c)} /\ UNCHANGED <<sess, body, task>>
    BY <1>6 DEF AgentStarts, chain
  <2>2. \A d \in Call : pc'[d] = IF d = c THEN "running" ELSE pc[d]
    BY <2>1 DEF ChainTypeOK
  <2>3. AgentsAwaited'
    BY <2>1, <2>2, <1>0, RunOfType DEF AgentsAwaited, runOf
  <2>4. SeenTasksExisted' /\ NewTasksAwaited'
    BY <2>1, <2>2 DEF SeenTasksExisted, NewTasksAwaited, exists
  <2> QED
    BY <2>3, <2>4
\* An attempt that awaits no agent fails.
<1>fails. ASSUME NEW c \in Call, fail(c), pc[c] # "running", UNCHANGED <<agents, task>>
          PROVE  ClaimInv'
  BY <1>fails, <1>a, FailFrame
<1>7. ASSUME NEW c \in Call, RequestFails(c) PROVE ClaimInv'
  BY <1>7, <1>fails DEF RequestFails, team, fault
<1>8. ASSUME NEW c \in Call, RunSucceeds(c) PROVE ClaimInv'
  <2>1. /\ pc[c] = "running" /\ runOf(c) \notin agents /\ tagControllerCreatedTasks(c)
        /\ pc' = [pc EXCEPT ![c] = "reading"] /\ UNCHANGED <<sess, agents>>
        /\ body' = [body EXCEPT ![c].found = createdTaskIds(c)]
    BY <1>8 DEF RunSucceeds, chain
  <2>2. pc'[c] # "running" /\ \A d \in Call \ {c} : pc'[d] = pc[d] /\ body'[d] = body[d]
    BY <2>1 DEF ChainTypeOK, BodiesOK
  <2>3. body'[c].before = body[c].before
    BY <2>1, <1>0 DEF BodiesOK, BodyRec
  <2> QED
    BY <2>1, <2>2, <2>3, TagClaims
<1>9. ASSUME NEW c \in Call, RunFails(c) PROVE ClaimInv'
  <2>1. /\ pc[c] = "running" /\ runOf(c) \notin agents /\ tagControllerCreatedTasks(c)
        /\ fail(c) /\ UNCHANGED agents
    BY <1>9 DEF RunFails
  <2> QED
    BY <2>1, FailFrame, TagClaims
<1>10. ASSUME NEW c \in Call, ReadReply(c) PROVE ClaimInv'
  <2>1. pc[c] = "reading" /\ pc' = [pc EXCEPT ![c] = "filling"] /\ UNCHANGED <<sess, task, agents>>
    BY <1>10 DEF ReadReply, chain
  <2>2. \A d \in Call : body'[d].before = body[d].before /\ (d # c => body'[d] = body[d])
    BY <1>10, <1>0 DEF ReadReply, BodiesOK, BodyRec
  <2> QED
    BY <2>1, <2>2, <1>a, <1>go
<1>11. ASSUME NEW c \in Call, NEW t \in Task, BackfillTask(c, t) PROVE ClaimInv'
  <2>1. /\ UNCHANGED <<sess, pc, agents>>
        /\ task' = [task EXCEPT ![t] = [status |-> "open", session |-> sess[c], run |-> runOf(c)]]
    BY <1>11 DEF BackfillTask, chain
  <2>2. \A d \in Call : body'[d].before = body[d].before /\ body'[d].attempt = body[d].attempt
    BY <1>11, <1>0 DEF BackfillTask, BodiesOK, BodyRec
  <2>3. runOf(c) # None
    BY RunOfType, IntakeAssumption DEF IntakeAssumption
  <2>4. task'[t].status # "none" /\ task'[t].run # None /\ \A u \in Task \ {t} : task'[u] = task[u]
    BY <2>1, <2>3 DEF TasksOK
  <2> QED
    BY <2>1, <2>2, <2>4, <1>a
<1>12. ASSUME NEW c \in Call, Bind(c) PROVE ClaimInv'
  <2>1. /\ pc[c] = "filling" /\ pc' = [pc EXCEPT ![c] = "kickoff"] /\ UNCHANGED <<sess, agents>>
    BY <1>12 DEF Bind, chain
  <2>2. \A d \in Call : body'[d].before = body[d].before /\ body'[d].attempt = body[d].attempt
    <3>1. \/ body' = body
          \/ \E m : body' = [body EXCEPT ![c].found = @ \cup {m}]
      BY <1>12 DEF Bind
    <3> QED
      BY <3>1, <1>0 DEF BodiesOK, BodyRec
  <2>3. runOf(c) # None
    BY RunOfType, IntakeAssumption DEF IntakeAssumption
  <2>4. \A t \in Task : task'[t] = task[t] \/ (task'[t].status # "none" /\ task'[t].run # None)
    <3> DEFINE m == body[c].manifest
    <3>1. CASE m \in Task /\ exists(m)
      <4>1. task' = [task EXCEPT ![m].run = runOf(c), ![m].session = sess[c]]
        BY <1>12, <3>1 DEF Bind
      <4>2. \A t \in Task \ {m} : task'[t] = task[t]
        BY <4>1, <3>1 DEF TasksOK
      <4>3. task'[m].status = task[m].status /\ task'[m].run = runOf(c)
        BY <4>1, <3>1, <1>0 DEF TasksOK, TaskRec
      <4> QED
        BY <4>2, <4>3, <2>3, <3>1 DEF exists
    <3>2. CASE ~(m \in Task /\ exists(m))
      BY <1>12, <3>2 DEF Bind
    <3> QED
      BY <3>1, <3>2
  <2> QED
    BY <2>1, <2>2, <2>4, <1>a, <1>go
<1>13. ASSUME NEW c \in Call, Complete(c) PROVE ClaimInv'
  <2>1. pc[c] = "kickoff" /\ UNCHANGED <<task, agents>>
    BY <1>13 DEF Complete
  <2>2. \/ leave(c, "done")
        \/ pc' = [pc EXCEPT ![c] = "pruning"] /\ UNCHANGED <<chain, body>>
    BY <1>13 DEF Complete
  <2>3. CASE leave(c, "done")
    BY <2>1, <2>3, <1>a, LeaveFrame
  <2>4. CASE pc' = [pc EXCEPT ![c] = "pruning"] /\ UNCHANGED <<chain, body>>
    BY <2>1, <2>4, <1>b, <1>go DEF chain
  <2> QED
    BY <2>2, <2>3, <2>4
<1>14. ASSUME NEW r \in RunId, DeleteRunRequest(r) PROVE ClaimInv'
  BY <1>14, <1>b DEF DeleteRunRequest, chain
\* A deletion ends, after it may have deleted a task.
<1>end. ASSUME NEW j \in jobs, NEW how, endCascade(j, how), UNCHANGED agents,
               \A t \in Task : task'[t] = task[t] \/ task'[t].status = "deleted"
        PROVE  ClaimInv'
  <2>1. CASE j.by = None
    <3>1. UNCHANGED <<sess, pc, body>>
      BY <1>end, <2>1 DEF endCascade, chain
    <3> QED
      BY <1>end, <3>1, <1>a
  <2>2. CASE j.by # None
    <3>1. j.by \in Call /\ pc[j.by] = "pruning" /\ leave(j.by, how)
      BY <1>end, <2>2 DEF endCascade, Jobs
    <3>2. /\ \A d \in Call \ {j.by} : body'[d] = body[d] /\ pc'[d] = pc[d]
          /\ body'[j.by].before = {} /\ sess' = sess
      BY <3>1, LeaveFrame
    <3>3. \A d \in Call : pc[d] = "running" => d # j.by
      BY <3>1
    <3> QED
      BY <1>end, <3>2, <3>3, <1>a
  <2> QED
    BY <2>1, <2>2
<1>15. ASSUME NEW j \in jobs, DeleteRun(j) PROVE ClaimInv'
  <2>1. UNCHANGED <<task, agents>>
    BY <1>15 DEF DeleteRun
  <2>2. UNCHANGED <<chain, pc, body>> \/ endCascade(j, "done")
    BY <1>15 DEF DeleteRun
  <2> QED
    BY <2>1, <2>2, <1>b, <1>end DEF chain
<1>removed. ASSUME NEW t \in Task, removeTask(t)
            PROVE  \A u \in Task : task'[u] = task[u] \/ task'[u].status = "deleted"
  BY <1>removed, <1>0 DEF removeTask, TasksOK, TaskRec
<1>16. ASSUME NEW j \in jobs, NEW t \in j.tasks, DeleteTask(j, t) PROVE ClaimInv'
  <2>1. t \in Task
    BY DEF JobsOK, JobRec
  <2>2. \A u \in Task : task'[u] = task[u] \/ task'[u].status = "deleted"
    BY <1>16, <2>1, <1>removed DEF DeleteTask
  <2>3. UNCHANGED <<sess, pc, body, agents>>
    BY <1>16 DEF DeleteTask, chain
  <2> QED
    BY <2>2, <2>3, <1>a
<1>17. ASSUME NEW j \in jobs, NEW t \in j.tasks, CleanupFails(j, t) PROVE ClaimInv'
  <2>1. t \in Task
    BY DEF JobsOK, JobRec
  <2> QED
    BY <1>17, <2>1, <1>end, <1>removed DEF CleanupFails
<1>18. ASSUME NEW r \in agents, NEW t \in Task, CreateTask(r, t) PROVE ClaimInv'
  <2>1. /\ task[t].status = "none" /\ UNCHANGED <<sess, pc, body, agents>>
        /\ task' = [task EXCEPT ![t] = [status |-> "open", session |-> sess[r[1]], run |-> None]]
    BY <1>18 DEF CreateTask, chain
  <2>2. /\ \A u \in Task \ {t} : task'[u] = task[u]
        /\ task'[t].status = "open" /\ task'[t].session = sess[r[1]]
    BY <2>1 DEF TasksOK
  <2>3. r[1] \in Call /\ pc[r[1]] = "running" /\ t \notin body[r[1]].before
    BY <2>1, <1>0 DEF AgentsAwaited, SeenTasksExisted
  <2>4. AgentsAwaited'
    BY <2>1 DEF AgentsAwaited, runOf
  <2>5. SeenTasksExisted'
    BY <2>1, <2>2, <1>0 DEF SeenTasksExisted
  <2>6. NewTasksAwaited'
    BY <2>1, <2>2, <2>3 DEF NewTasksAwaited, exists
  <2> QED
    BY <2>4, <2>5, <2>6
<1>19. ASSUME NEW r \in agents, NEW m \in Manifest, SubmitManifest(r, m) PROVE ClaimInv'
  <2>1. UNCHANGED <<sess, pc, task, agents>>
    BY <1>19 DEF SubmitManifest, chain
  <2>2. \A d \in Call : body'[d].before = body[d].before /\ body'[d].attempt = body[d].attempt
    BY <1>19, <1>0 DEF SubmitManifest, BodiesOK, BodyRec
  <2> QED
    BY <2>1, <2>2, <1>a
<1>20. ASSUME NEW r \in agents, AgentEnds(r) PROVE ClaimInv'
  BY <1>20, <1>b DEF AgentEnds, chain
<1>21. ASSUME NEW t \in Task, TaskSettles(t) PROVE ClaimInv'
  <2>1. task[t].status = "open" /\ task' = [task EXCEPT ![t].status = "settled"]
        /\ UNCHANGED <<sess, pc, body, agents>>
    BY <1>21 DEF TaskSettles, chain
  <2>2. /\ \A u \in Task \ {t} : task'[u] = task[u]
        /\ task'[t].run = task[t].run /\ task'[t].session = task[t].session
        /\ exists(t) /\ exists(t)'
    BY <2>1, <1>0 DEF TasksOK, TaskRec, exists
  <2> QED
    BY <2>1, <2>2, <1>a
<1> HIDE DEF TInv, IInv, ChainInv, DataInv, ClaimInv
<1>22. ASSUME Next PROVE ClaimInv'
  BY <1>2, <1>3, <1>4, <1>5, <1>6, <1>7, <1>8, <1>9, <1>10, <1>11, <1>12, <1>13,
     <1>14, <1>15, <1>16, <1>17, <1>18, <1>19, <1>20, <1>21, <1>22, Zenon DEF Next
<1> QED
  BY <1>1, <1>22

\* In the beginning there is no task and no agent.
LEMMA InitClaims == Init => ClaimInv
BY DEF Init, ClaimInv, AgentsAwaited, SeenTasksExisted, NewTasksAwaited, exists, noBody

\* A task that an agent created belongs to a run, unless the call that awaits the agent is
\* still there to bind it; failed attempts and retries, deletions, prunes and a full list
\* of runs change nothing about it (tagControllerCreatedTasks).  The two hypotheses are
\* the ways in which the code leaves an agent that may still create tasks.
THEOREM CreatedTasksAreClaimed ==
  ASSUME "probe" \notin Ops, "running" \notin Faults
  PROVE  Spec => []TasksAreClaimed
<1>1. Init => TInv /\ ClaimInv
  BY InitInv, InitData, InitClaims DEF TInv
<1>2. TInv /\ ClaimInv /\ [Next]_vars => TInv' /\ ClaimInv'
  BY NextInv, NextData, NextClaims DEF TInv
<1>3. ClaimInv => TasksAreClaimed
  BY DEF ClaimInv, NewTasksAwaited, TasksAreClaimed
<1> QED
  BY <1>1, <1>2, <1>3, PTL DEF Spec

-----------------------------------------------------------------------------
(* Calls of one session never work at the same time, so the runs of a        *)
(* session are recorded one after the other.                                 *)

OneInside == \A c, d \in Call : pc[c] \in Inside /\ pc[d] \in Inside /\ sess[c] = sess[d] => c = d
\* Of two calls of a session one has found the other, if it still waits.
InLine ==
  \A c, d \in Call : pc[c] = "queued" /\ c # d /\ sess[d] = sess[c] /\ ~gone(d) =>
    d \in ahead[c] \/ (pc[d] = "queued" /\ c \in ahead[d])
Alone == OneInside /\ InLine

Working == {"starting", "running", "reading", "filling", "kickoff"}
Begun(r) ==
  pc[r[1]] \in Ended \/ (pc[r[1]] \in Inside /\ r[2] <= body[r[1]].attempt)
Over(r) == Begun(r) /\ ~atWork(r)

\* The run of a call at work is the latest active one of its session, and lists no task yet.
Stands(c) ==
  \E i \in DOMAIN runs :
    /\ runs[i].id = runOf(c) /\ runs[i].session = sess[c]
    /\ active(runs[i]) /\ runs[i].created = {}
    /\ \A k \in DOMAIN runs : runs[k].session = sess[c] /\ active(runs[k]) => k <= i

RunsBegun == \A i \in DOMAIN runs : Begun(runs[i].id)
RunsDiffer == \A i, k \in DOMAIN runs : runs[i].id = runs[k].id => i = k
ActiveListNone == \A i \in DOMAIN runs : active(runs[i]) => runs[i].created = {}
WorkersStand == \A c \in Call : pc[c] \in Working => Stands(c)
\* A run that is deleted is over.
JobOver(j) == Over(j.run) /\ \A k \in DOMAIN j.rest : Over(j.rest[k])
JobsAreOver == \A j \in jobs : JobOver(j)
OrderInv == RunsBegun /\ RunsDiffer /\ ActiveListNone /\ WorkersStand /\ JobsAreOver

\* No task that is open belongs to run r, or is listed by it.
Bare(r) ==
  /\ \A t \in Task : task[t].status = "open" => task[t].run # r
  /\ \A i \in DOMAIN runs : runs[i].id = r => runs[i].created = {}
SparesOpen(j) ==
  j.by # None =>
    /\ Bare(j.run) /\ \A k \in DOMAIN j.rest : Bare(j.rest[k])
    /\ \A t \in j.tasks : task[t].status \in {"settled", "deleted"}
PrunesSpare == \A j \in jobs : SparesOpen(j)

\* No run is dropped to make room for another while its call works on it.
RunsAtWorkKept == \A c \in Call : pc[c] \in Working => known(runOf(c))
\* This is so while the list is not full, or if there is one session, whose runs are
\* begun one after the other.
Room == Len(runs) < MaxRuns \/ \A s, u \in Session : s = u

\* The chain lets the calls of a session in one after the other.
LEMMA ChainStepAlone == ChainInv /\ Alone /\ ChainStep => Alone'
<1> SUFFICES ASSUME ChainInv, Alone, ChainStep PROVE Alone'
  OBVIOUS
<1> USE DEF ChainInv, ChainTypeOK, PC, Inside, Ended, gone, Alone
<1>1. ASSUME NEW c \in Call, NEW s \in Session, Arrive(c, s) PROVE Alone'
  <2>1. /\ pc[c] = "idle" /\ pc' = [pc EXCEPT ![c] = "queued"] /\ sess' = [sess EXCEPT ![c] = s]
        /\ ahead' = [ahead EXCEPT ![c] = {d \in Call : sess[d] = s /\ pc[d] \notin Ended}]
    BY <1>1 DEF Arrive
  <2>2. OneInside'
    BY <2>1 DEF OneInside
  <2>3. InLine'
    BY <2>1 DEF InLine
  <2> QED
    BY <2>2, <2>3
<1>2. ASSUME NEW c \in Call, Enters(c) PROVE Alone'
  <2>1. \A d \in ahead[c] : gone(d)
    BY <1>2, NobodyAhead
  <2>2. /\ pc[c] = "queued" /\ pc' = [pc EXCEPT ![c] = "starting"] /\ sess' = sess
        /\ ahead' = [ahead EXCEPT ![c] = {}]
    BY <1>2 DEF Enters
  <2>3. \A d \in Call \ {c} : sess[d] = sess[c] /\ ~gone(d) => pc[d] = "queued" /\ c \in ahead[d]
    BY <2>1, <2>2 DEF InLine
  <2>4. OneInside'
    BY <2>2, <2>3 DEF OneInside
  <2>5. InLine'
    BY <2>2, <2>3 DEF InLine
  <2> QED
    BY <2>4, <2>5
<1>3. ASSUME NEW c \in Call, NEW to \in Inside, GoesOn(c, to) PROVE Alone'
  BY <1>3 DEF GoesOn, chain, OneInside, InLine
<1>4. ASSUME NEW c \in Call, Leaves(c) PROVE Alone'
  <2>1. PICK how \in Ended : pc' = [pc EXCEPT ![c] = how]
    BY <1>4 DEF Leaves
  <2>2. pc[c] \in Inside /\ UNCHANGED <<sess, ahead>>
    BY <1>4 DEF Leaves
  <2>3. OneInside'
    BY <2>1, <2>2 DEF OneInside
  <2>4. InLine'
    BY <2>1, <2>2 DEF InLine
  <2> QED
    BY <2>3, <2>4
<1>5. CASE UNCHANGED <<chain, pc>>
  BY <1>5 DEF chain, OneInside, InLine
<1> QED
  BY <1>1, <1>2, <1>3, <1>4, <1>5 DEF ChainStep

\* What the steps do to the attempts of a call.
Still(c) == pc'[c] = pc[c] /\ body'[c].attempt = body[c].attempt
Advances(c) ==
  \/ Still(c)
  \/ /\ pc[c] \in Inside /\ pc'[c] \in Inside /\ body'[c].attempt = body[c].attempt
     /\ pc'[c] \in Working => pc[c] \in Working
  \/ pc[c] \in Inside /\ pc'[c] \in Ended
  \/ pc[c] = "idle" /\ pc'[c] = "queued"
  \/ pc[c] = "queued" /\ pc'[c] = "starting"
  \/ pc[c] = "retrying" /\ pc'[c] = "starting" /\ body'[c].attempt = body[c].attempt + 1

\* A run that has begun remains so, and what is over does not begin again.
LEMMA RunsAdvance ==
  ASSUME BodiesOK, \A c \in Call : Advances(c), NEW r \in RunId
  PROVE  (Begun(r) => Begun(r)') /\ (Over(r) => Over(r)')
<1>1. PICK c \in Call, a \in 0..MaxRetries : r = <<c, a>>
  BY DEF RunId
<1>2. body[c].attempt \in Int /\ a \in Int
  BY IntakeAssumption DEF BodiesOK, BodyRec, IntakeAssumption
<1>3. Advances(c)
  OBVIOUS
<1>4. /\ Begun(r) <=> (pc[c] \in Ended \/ (pc[c] \in Inside /\ a <= body[c].attempt))
      /\ Begun(r)' <=> (pc'[c] \in Ended \/ (pc'[c] \in Inside /\ a <= body'[c].attempt))
      /\ atWork(r) <=> a = body[c].attempt /\ pc[c] \in Working
      /\ atWork(r)' <=> a = body'[c].attempt /\ pc'[c] \in Working
  BY <1>1 DEF Begun, atWork, runOf, Working
<1>5. Begun(r) => Begun(r)'
  BY <1>2, <1>3, <1>4 DEF Advances, Still, Inside, Ended
<1>6. Begun(r) /\ ~atWork(r) => ~atWork(r)'
  BY <1>2, <1>3, <1>4 DEF Advances, Still, Inside, Ended, Working
<1> QED
  BY <1>5, <1>6 DEF Over

LEMMA NextAdvances ==
  TInv /\ [Next]_vars =>
    /\ \A c \in Call : Advances(c)
    /\ \A c \in Call : pc[c] # "idle" => sess'[c] = sess[c]
<1> SUFFICES ASSUME TInv, [Next]_vars
             PROVE  /\ \A c \in Call : Advances(c)
                    /\ \A c \in Call : pc[c] # "idle" => sess'[c] = sess[c]
  OBVIOUS
<1> USE DEF TInv, IInv, ChainInv, DataInv
<1>0. \A c \in Call : pc[c] # "idle" => sess'[c] = sess[c]
  BY NextInv DEF ChainStep, Arrive, Enters, GoesOn, Leaves, chain, ChainTypeOK
<1> DEFINE Good == \A c \in Call : Advances(c)
<1>a. ASSUME NEW c \in Call, \A d \in Call \ {c} : Still(d), Advances(c) PROVE Good
  BY <1>a DEF Advances
<1>b. ASSUME NEW c \in Call, NEW to, pc' = [pc EXCEPT ![c] = to],
             \A d \in Call : body'[d].attempt = body[d].attempt,
             pc[c] \in Inside, to \in Inside, to \in Working => pc[c] \in Working
      PROVE  Good
  BY <1>b, <1>a DEF Advances, Still, ChainTypeOK
<1>c. ASSUME NEW c \in Call, NEW how \in Ended, pc[c] \in Inside, leave(c, how) PROVE Good
  BY <1>c, <1>a, LeaveFrame DEF Advances, Still
<1>d. ASSUME NEW c \in Call, pc[c] \in Inside, fail(c) PROVE Good
  <2>1. CASE leave(c, "failed")
    BY <1>d, <2>1, <1>c DEF Ended
  <2>2. CASE /\ pc' = [pc EXCEPT ![c] = "retrying"] /\ body' = [body EXCEPT ![c] = noBody(@.attempt)]
    <3>1. \A d \in Call : body'[d].attempt = body[d].attempt
      BY <2>2 DEF noBody, BodiesOK
    <3> QED
      BY <1>d, <2>2, <3>1, <1>b DEF Inside, Working
  <2> QED
    BY <1>d, <2>1, <2>2 DEF fail
<1>e. ASSUME UNCHANGED pc, \A d \in Call : body'[d].attempt = body[d].attempt PROVE Good
  BY <1>e DEF Advances, Still
<1>f. ASSUME NEW c \in Call, NEW s, Arrive(c, s), UNCHANGED body PROVE Good
  <2>1. pc[c] = "idle" /\ pc' = [pc EXCEPT ![c] = "queued"]
    BY <1>f DEF Arrive
  <2>2. Advances(c)
    BY <2>1 DEF Advances, ChainTypeOK
  <2>3. \A d \in Call \ {c} : Still(d)
    BY <1>f, <2>1 DEF Still, ChainTypeOK
  <2> QED
    BY <2>2, <2>3, <1>a
<1>1. ASSUME UNCHANGED vars PROVE Good
  BY <1>1, <1>e DEF vars
<1>2. ASSUME NEW c \in Call, NEW s \in Session, RequestIntake(c, s) PROVE Good
  BY <1>2, <1>f DEF RequestIntake
<1>3. ASSUME NEW c \in Call, NEW r \in asked, AnswerQuestion(r, c) PROVE Good
  BY <1>3, <1>f DEF AnswerQuestion
<1>4. ASSUME NEW c \in Call, Enter(c) PROVE Good
  <2>1. begin(c, 0) /\ pc[c] = "queued" /\ 0 \in 0..MaxRetries
    BY <1>4, IntakeAssumption DEF Enter, IntakeAssumption
  <2>2. pc' = [pc EXCEPT ![c] = "starting"] /\ \A d \in Call \ {c} : body'[d] = body[d]
    BY <2>1, BeginType DEF begin
  <2> QED
    BY <2>1, <2>2, <1>a DEF Advances, Still, ChainTypeOK
<1>5. ASSUME NEW c \in Call, Retry(c) PROVE Good
  <2>1. body[c].attempt + 1 \in 0..MaxRetries
    BY <1>5, IntakeAssumption, RunOfType DEF Retry, BodiesOK, Retries, BodyRec, IntakeAssumption
  <2>2. begin(c, body[c].attempt + 1) /\ pc[c] = "retrying"
    BY <1>5 DEF Retry
  <2>3. /\ pc' = [pc EXCEPT ![c] = "starting"] /\ body'[c].attempt = body[c].attempt + 1
        /\ \A d \in Call \ {c} : body'[d] = body[d]
    BY <2>1, <2>2, BeginType DEF begin
  <2>4. Advances(c)
    BY <2>2, <2>3 DEF Advances, ChainTypeOK
  <2>5. \A d \in Call \ {c} : Still(d)
    BY <2>3 DEF Still, ChainTypeOK
  <2> QED
    BY <2>4, <2>5, <1>a
<1>6. ASSUME NEW c \in Call, AgentStarts(c) PROVE Good
  BY <1>6, <1>b DEF AgentStarts, Inside, Working
<1>7. ASSUME NEW c \in Call, RequestFails(c) PROVE Good
  BY <1>7, <1>d DEF RequestFails, Inside
<1>8. ASSUME NEW c \in Call, RunSucceeds(c) PROVE Good
  <2>1. \A d \in Call : body'[d].attempt = body[d].attempt
    BY <1>8, RunOfType DEF RunSucceeds, BodiesOK, BodyRec
  <2> QED
    BY <1>8, <2>1, <1>b DEF RunSucceeds, Inside, Working
<1>9. ASSUME NEW c \in Call, RunFails(c) PROVE Good
  BY <1>9, <1>d DEF RunFails, Inside
<1>10. ASSUME NEW c \in Call, ReadReply(c) PROVE Good
  <2>1. \A d \in Call : body'[d].attempt = body[d].attempt
    BY <1>10, RunOfType DEF ReadReply, BodiesOK, BodyRec
  <2> QED
    BY <1>10, <2>1, <1>b DEF ReadReply, Inside, Working
<1>11. ASSUME NEW c \in Call, NEW t \in Task, BackfillTask(c, t) PROVE Good
  <2>1. \A d \in Call : body'[d].attempt = body[d].attempt
    BY <1>11, RunOfType DEF BackfillTask, BodiesOK, BodyRec
  <2> QED
    BY <1>11, <2>1, <1>e DEF BackfillTask
<1>12. ASSUME NEW c \in Call, Bind(c) PROVE Good
  <2>1. \/ body' = body
        \/ \E m : body' = [body EXCEPT ![c].found = @ \cup {m}]
    BY <1>12 DEF Bind
  <2>2. \A d \in Call : body'[d].attempt = body[d].attempt
    BY <2>1, RunOfType DEF BodiesOK, BodyRec
  <2>3. pc[c] = "filling" /\ pc' = [pc EXCEPT ![c] = "kickoff"]
    BY <1>12 DEF Bind
  <2> QED
    BY <2>2, <2>3, <1>b DEF Inside, Working
<1>13. ASSUME NEW c \in Call, Complete(c) PROVE Good
  <2>1. pc[c] = "kickoff" /\ (\/ leave(c, "done")
                              \/ pc' = [pc EXCEPT ![c] = "pruning"] /\ UNCHANGED body)
    BY <1>13 DEF Complete
  <2>2. CASE leave(c, "done")
    BY <2>1, <2>2, <1>c DEF Inside, Ended
  <2>3. CASE pc' = [pc EXCEPT ![c] = "pruning"] /\ UNCHANGED body
    BY <2>1, <2>3, <1>b DEF Inside, Working
  <2> QED
    BY <2>1, <2>2, <2>3
<1>14. ASSUME NEW r \in RunId, DeleteRunRequest(r) PROVE Good
  BY <1>14, <1>e DEF DeleteRunRequest
<1>end. ASSUME NEW j \in jobs, NEW how \in Ended, endCascade(j, how) PROVE Good
  <2>1. CASE j.by = None
    BY <1>end, <2>1, <1>e DEF endCascade
  <2>2. CASE j.by # None
    BY <1>end, <2>2, <1>c DEF endCascade, Jobs, Inside
  <2> QED
    BY <2>1, <2>2
<1>15. ASSUME NEW j \in jobs, DeleteRun(j) PROVE Good
  <2>1. UNCHANGED <<pc, body>> \/ endCascade(j, "done")
    BY <1>15 DEF DeleteRun
  <2> QED
    BY <2>1, <1>e, <1>end DEF Ended
<1>16. ASSUME NEW j \in jobs, NEW t \in j.tasks, DeleteTask(j, t) PROVE Good
  BY <1>16, <1>e DEF DeleteTask
<1>17. ASSUME NEW j \in jobs, NEW t \in j.tasks, CleanupFails(j, t) PROVE Good
  BY <1>17, <1>end DEF CleanupFails, Ended
<1>18. ASSUME NEW r \in agents, NEW t \in Task, CreateTask(r, t) PROVE Good
  BY <1>18, <1>e DEF CreateTask
<1>19. ASSUME NEW r \in agents, NEW m \in Manifest, SubmitManifest(r, m) PROVE Good
  <2>1. pc' = pc
    BY <1>19 DEF SubmitManifest
  <2>2. body' = body \/ \E d : body' = [body EXCEPT ![d].manifest = m]
    BY <1>19 DEF SubmitManifest
  <2>3. \A d \in Call : body'[d].attempt = body[d].attempt
    BY <2>2, RunOfType DEF BodiesOK, BodyRec
  <2> QED
    BY <2>1, <2>3, <1>e
<1>20. ASSUME NEW r \in agents, AgentEnds(r) PROVE Good
  BY <1>20, <1>e DEF AgentEnds
<1>21. ASSUME NEW t \in Task, TaskSettles(t) PROVE Good
  BY <1>21, <1>e DEF TaskSettles
<1> HIDE DEF TInv, IInv, ChainInv, DataInv, Good
<1>22. ASSUME Next PROVE Good
  BY <1>2, <1>3, <1>4, <1>5, <1>6, <1>7, <1>8, <1>9, <1>10, <1>11, <1>12, <1>13,
     <1>14, <1>15, <1>16, <1>17, <1>18, <1>19, <1>20, <1>21, <1>22, Zenon DEF Next
<1>23. Good
  BY <1>1, <1>22
<1> QED
  BY <1>0, <1>23 DEF Good

-----------------------------------------------------------------------------
(* Where the runs are found after the list has changed.                      *)

\* The entry k of the list rs was the entry f[k] of runs; the first n are unchanged and in order.
Moved(rs, n, f) ==
  /\ n \in 0..Len(rs)
  /\ f \in [1..Len(rs) -> DOMAIN runs]
  /\ \A k \in 1..Len(rs) : rs[k].id = runs[f[k]].id
  /\ \A k, l \in 1..Len(rs) : f[k] = f[l] => k = l
  /\ \A k \in 1..n : rs[k] = runs[f[k]]
  /\ \A k, l \in 1..n : k < l => f[k] < f[l]

\* p holds the runs at the indices I, each once and in their order.
Picks(p, I) ==
  /\ p \in Seq(RunRec) /\ Len(p) = Cardinality(I) /\ Len(p) \in Nat
  /\ \E f \in [1..Len(p) -> I] :
       /\ \A k \in 1..Len(p) : p[k] = runs[f[k]]
       /\ \A k, l \in 1..Len(p) : k < l => f[k] < f[l]
       /\ \A k, l \in 1..Len(p) : f[k] = f[l] => k = l
       /\ \A i \in I : \E k \in 1..Len(p) : f[k] = i

LEMMA PickMoves ==
  ASSUME RunsOK(runs), NEW I \in SUBSET (DOMAIN runs), NEW p, p = pick(runs, I)
  PROVE  Picks(p, I)
<1> DEFINE f == [k \in 1..Cardinality(I) |-> nth(I, k)]
<1>1. /\ p \in Seq(RunRec) /\ Len(p) = Cardinality(I) /\ Cardinality(I) \in 0..Len(runs)
      /\ \A k \in 1..Cardinality(I) : nth(I, k) \in I /\ p[k] = runs[nth(I, k)]
      /\ \A k, l \in 1..Cardinality(I) : k < l <=> nth(I, k) < nth(I, l)
      /\ \A i \in I : \E k \in 1..Cardinality(I) : nth(I, k) = i
  <2>1. runs \in Seq(RunRec)
    BY DEF RunsOK
  <2> QED
    BY <2>1, PickedInOrder
<1>2. Cardinality(I) \in Nat /\ DOMAIN runs = 1..Len(runs) /\ Len(runs) \in Nat
  BY <1>1, Positions DEF RunsOK
<1>3. f \in [1..Len(p) -> I] /\ \A k \in 1..Len(p) : f[k] = nth(I, k)
  BY <1>1
<1> HIDE DEF f
<1>4. \A k, l \in 1..Len(p) : f[k] = f[l] => k = l
  <2> SUFFICES ASSUME NEW k \in 1..Len(p), NEW l \in 1..Len(p), f[k] = f[l] PROVE k = l
    OBVIOUS
  <2>1. ~(f[k] < f[l]) /\ ~(f[l] < f[k])
    BY <1>2, <1>3
  <2>2. ~(k < l) /\ ~(l < k)
    BY <1>1, <1>3, <2>1
  <2> QED
    BY <1>1, <1>2, <2>2
<1>5. \A k, l \in 1..Len(p) : k < l => f[k] < f[l]
  BY <1>1, <1>3
<1>6. (\A k \in 1..Len(p) : p[k] = runs[f[k]]) /\ (\A i \in I : \E k \in 1..Len(p) : f[k] = i)
  BY <1>1, <1>3
<1> QED
  BY <1>1, <1>2, <1>3, <1>4, <1>5, <1>6 DEF Picks

\* A run that is deleted leaves the others in their order.
LEMMA DropMoves ==
  ASSUME RunsOK(runs), NEW r, NEW rs, rs = without(r)
  PROVE  /\ rs \in Seq(RunRec) /\ Len(rs) \in Nat
         /\ \E f : /\ Moved(rs, Len(rs), f)
                   /\ \A i \in DOMAIN runs : runs[i].id # r => \E k \in 1..Len(rs) : f[k] = i
                   /\ \A k \in 1..Len(rs) : rs[k].id # r
<1> DEFINE I == {i \in DOMAIN runs : runs[i].id # r}
<1>1. rs = pick(runs, I) /\ I \in SUBSET (DOMAIN runs)
  BY DEF without
<1> HIDE DEF I
<1>0. Picks(rs, I)
  BY <1>1, PickMoves
<1>2. rs \in Seq(RunRec) /\ Len(rs) \in Nat
  BY <1>0 DEF Picks
<1>3. PICK f \in [1..Len(rs) -> I] :
              /\ \A k \in 1..Len(rs) : rs[k] = runs[f[k]]
              /\ \A k, l \in 1..Len(rs) : k < l => f[k] < f[l]
              /\ \A k, l \in 1..Len(rs) : f[k] = f[l] => k = l
              /\ \A i \in I : \E k \in 1..Len(rs) : f[k] = i
  BY <1>0 DEF Picks
<1>4. f \in [1..Len(rs) -> DOMAIN runs] /\ \A k \in 1..Len(rs) : rs[k].id = runs[f[k]].id
  BY <1>1, <1>3
<1>5. Len(rs) \in 0..Len(rs)
  BY <1>2
<1>6. Moved(rs, Len(rs), f)
  BY <1>3, <1>4, <1>5 DEF Moved
<1> QED
  BY <1>2, <1>3, <1>6 DEF I

\* A run that is updated goes to the end of the list.
LEMMA UpdateMoves ==
  ASSUME RunsOK(runs), RunsDiffer, NEW r, known(r), NEW x \in RunRec, x.id = r,
         NEW rs, rs = updateControllerRun(r, x)
  PROVE  /\ Len(rs) = Len(runs) /\ Len(rs) \in Nat \ {0} /\ DOMAIN rs = 1..Len(rs)
         /\ rs[Len(rs)] = x
         /\ \E f : /\ Moved(rs, Len(rs) - 1, f)
                   /\ \A i \in DOMAIN runs : runs[i].id # r => \E k \in 1..(Len(rs) - 1) : f[k] = i
                   /\ \A k \in 1..(Len(rs) - 1) : rs[k].id # r
<1> DEFINE w == without(r)
           I == {i \in DOMAIN runs : runs[i].id # r}
<1>1. PICK m \in DOMAIN runs : runs[m].id = r
  BY DEF known
<1>2. DOMAIN runs = 1..Len(runs) /\ Len(runs) \in Nat /\ runs \in Seq(RunRec) /\ Len(runs) <= MaxRuns
  BY Positions DEF RunsOK
<1>3. Cardinality(I) = Len(runs) - 1 /\ I \in SUBSET (DOMAIN runs)
  <2>1. I = (DOMAIN runs) \ {m}
    BY <1>1 DEF RunsDiffer
  <2>2. Len(runs) \in Nat
    BY <1>2
  <2>3. IsFiniteSet(DOMAIN runs) /\ Cardinality(DOMAIN runs) = Len(runs)
    BY <1>2, <2>2, FirstNumbers
  <2>4. Cardinality(I) = Cardinality(DOMAIN runs) - 1
    BY <1>1, <2>1, <2>3, FS_RemoveElement
  <2> QED
    BY <2>1, <2>3, <2>4
<1>4. w = pick(runs, I)
  BY DEF without
<1> HIDE DEF w, I
<1>0. Picks(w, I)
  BY <1>3, <1>4, PickMoves
<1>5. w \in Seq(RunRec) /\ Len(w) = Len(runs) - 1 /\ Len(w) \in Nat
  BY <1>0, <1>3 DEF Picks
<1>6. PICK f \in [1..Len(w) -> I] :
              /\ \A k \in 1..Len(w) : w[k] = runs[f[k]]
              /\ \A k, l \in 1..Len(w) : k < l => f[k] < f[l]
              /\ \A k, l \in 1..Len(w) : f[k] = f[l] => k = l
              /\ \A i \in I : \E k \in 1..Len(w) : f[k] = i
  BY <1>0 DEF Picks
<1> DEFINE a == Append(w, x)
           n == Len(w)
           g == [k \in 1..n+1 |-> IF k = n + 1 THEN m ELSE f[k]]
<1>7. a \in Seq(RunRec) /\ Len(a) = n + 1 /\ a[n + 1] = x /\ \A k \in 1..n : a[k] = w[k]
  BY <1>5, AppendProperties
<1>8. rs = a /\ Len(rs) = Len(runs)
  <2>1. rs = trimControllerRuns(a)
    BY DEF updateControllerRun, w
  <2>2. Len(a) = Len(runs)
    BY <1>2, <1>5, <1>7
  <2> QED
    BY <1>2, <2>1, <2>2 DEF trimControllerRuns
<1>9. n \in Nat /\ n = Len(rs) - 1 /\ n \in 0..Len(rs) /\ Len(rs) = n + 1
  BY <1>5, <1>7, <1>8
<1> HIDE DEF a, n
<1>10. /\ \A k \in 1..n : f[k] \in I /\ f[k] \in DOMAIN runs /\ runs[f[k]].id # r
       /\ \A i \in DOMAIN runs : runs[i].id # r => i \in I
  BY <1>6 DEF I, n
<1>11. /\ g \in [1..n+1 -> DOMAIN runs] /\ g[n + 1] = m
       /\ \A k \in 1..n : k \in 1..n+1 /\ k # n + 1 /\ g[k] = f[k]
  <2>1. \A k \in 1..n+1 : k = n + 1 \/ k \in 1..n
    BY <1>9
  <2> QED
    BY <1>1, <1>9, <1>10, <2>1
<1>12. \A k \in 1..n+1 : k = n + 1 \/ k \in 1..n
  BY <1>9
<1> HIDE DEF g
<1>13. Moved(rs, n, g)
  <2>1. \A k \in 1..n : rs[k] = runs[g[k]]
    <3> SUFFICES ASSUME NEW k \in 1..n PROVE rs[k] = runs[g[k]]
      OBVIOUS
    <3>1. w[k] = runs[f[k]]
      BY <1>6 DEF n
    <3>2. rs[k] = w[k] /\ g[k] = f[k]
      BY <1>7, <1>8, <1>11
    <3> QED
      BY <3>1, <3>2
  <2>2. \A k \in 1..n+1 : rs[k].id = runs[g[k]].id
    BY <1>1, <1>7, <1>8, <1>11, <1>12, <2>1
  <2>3. \A k, l \in 1..n+1 : g[k] = g[l] => k = l
    <3> SUFFICES ASSUME NEW k \in 1..n+1, NEW l \in 1..n+1, g[k] = g[l] PROVE k = l
      OBVIOUS
    <3>1. \A j \in 1..n : g[j] # m
      BY <1>1, <1>10, <1>11
    <3> QED
      BY <1>6, <1>11, <1>12, <3>1 DEF n
  <2>4. \A k, l \in 1..n : k < l => g[k] < g[l]
    BY <1>6, <1>11 DEF n
  <2> QED
    BY <1>9, <1>11, <2>1, <2>2, <2>3, <2>4 DEF Moved
<1>14. \A i \in DOMAIN runs : runs[i].id # r => \E k \in 1..n : g[k] = i
  BY <1>6, <1>10, <1>11 DEF n
<1>15. \A k \in 1..n : rs[k].id # r
  BY <1>6, <1>7, <1>8, <1>10 DEF n
<1>16. Len(rs) \in Nat \ {0} /\ DOMAIN rs = 1..Len(rs) /\ rs[Len(rs)] = x
  BY <1>7, <1>8, <1>9, Positions
<1> QED
  BY <1>8, <1>9, <1>13, <1>14, <1>15, <1>16

\* A task that is deleted is taken from the runs that list it, which go to the end of the list.
LEMMA RemoveMoves ==
  ASSUME RunsOK(runs), NEW t, removeTask(t)
  PROVE  /\ DOMAIN runs' = 1..Len(runs') /\ Len(runs') \in Nat
         /\ \E n, f :
              /\ Moved(runs', n, f)
              /\ \A i \in DOMAIN runs : t \notin runs[i].created => \E k \in 1..n : f[k] = i
              /\ \A k \in 1..Len(runs') : k > n =>
                   /\ runs[f[k]].created # {}
                   /\ runs'[k] = [runs[f[k]] EXCEPT !.created = @ \ {t}]
<1> DEFINE L == {i \in DOMAIN runs : t \in runs[i].created}
           R == DOMAIN runs \ L
           listed == pick(runs, L)
           spared == pick(runs, R)
           moved == [k \in DOMAIN listed |-> [listed[k] EXCEPT !.created = @ \ {t}]]
           n == Len(spared)
           m == Len(listed)
<1>1. runs' = spared \o moved
  BY DEF removeTask
<1>2. /\ L \in SUBSET (DOMAIN runs) /\ R \in SUBSET (DOMAIN runs)
      /\ runs \in Seq(RunRec) /\ \A i \in DOMAIN runs : runs[i] \in RunRec
  BY Positions DEF RunsOK
<1>3. /\ \A i \in L : t \in runs[i].created
      /\ \A i \in R : i \notin L
      /\ \A i \in DOMAIN runs : t \notin runs[i].created => i \in R
  OBVIOUS
<1> HIDE DEF L, R
<1>a. Picks(spared, R) /\ Picks(listed, L)
  BY <1>2, PickMoves
<1> HIDE DEF listed, spared
<1>4. /\ spared \in Seq(RunRec) /\ n \in Nat
      /\ \E f \in [1..n -> R] :
              /\ \A k \in 1..n : spared[k] = runs[f[k]]
              /\ \A k, l \in 1..n : k < l => f[k] < f[l]
              /\ \A k, l \in 1..n : f[k] = f[l] => k = l
              /\ \A i \in R : \E k \in 1..n : f[k] = i
  BY <1>a DEF Picks
<1>5. PICK f \in [1..n -> R] :
              /\ \A k \in 1..n : spared[k] = runs[f[k]]
              /\ \A k, l \in 1..n : k < l => f[k] < f[l]
              /\ \A k, l \in 1..n : f[k] = f[l] => k = l
              /\ \A i \in R : \E k \in 1..n : f[k] = i
  BY <1>4
<1>6. /\ listed \in Seq(RunRec) /\ m \in Nat
      /\ \E g \in [1..m -> L] :
              /\ \A k \in 1..m : listed[k] = runs[g[k]]
              /\ \A k, l \in 1..m : g[k] = g[l] => k = l
  BY <1>a DEF Picks
<1>7. PICK g \in [1..m -> L] :
              /\ \A k \in 1..m : listed[k] = runs[g[k]]
              /\ \A k, l \in 1..m : g[k] = g[l] => k = l
  BY <1>6
<1>8. DOMAIN listed = 1..m
  BY <1>6, Positions
<1>9. moved \in [1..m -> RunRec] /\ \A k \in 1..m : moved[k] = [runs[g[k]] EXCEPT !.created = @ \ {t}]
  <2>1. \A k \in 1..m : runs[g[k]] \in RunRec
    BY <1>2, <1>7
  <2>2. ASSUME NEW x \in RunRec PROVE [x EXCEPT !.created = @ \ {t}] \in RunRec
    BY DEF RunRec
  <2> QED
    BY <1>7, <1>8, <2>1, <2>2
<1>0. n = Len(spared) /\ n \in Nat /\ m \in Nat
  BY <1>4, <1>6
<1> HIDE DEF moved, n, m
<1>10. moved \in Seq(RunRec) /\ Len(moved) = m
  <2>1. moved \in [1..m -> RunRec] /\ m \in Nat
    BY <1>0, <1>9
  <2> HIDE DEF RunRec
  <2> QED
    BY <2>1
<1>11. /\ runs' \in Seq(RunRec) /\ Len(runs') = n + m
       /\ \A k \in 1..n+m : runs'[k] = IF k <= n THEN spared[k] ELSE moved[k - n]
  <2>1. /\ spared \o moved \in Seq(RunRec) /\ Len(spared \o moved) = Len(spared) + Len(moved)
        /\ \A k \in 1..Len(spared) + Len(moved) :
             (spared \o moved)[k] = IF k <= Len(spared) THEN spared[k] ELSE moved[k - Len(spared)]
    BY <1>4, <1>10, ConcatProperties
  <2>2. Len(spared) + Len(moved) = n + m /\ Len(spared) = n
    BY <1>10, <1>0
  <2> QED
    BY <1>1, <2>1, <2>2
<1> DEFINE h == [k \in 1..n+m |-> IF k <= n THEN f[k] ELSE g[k - n]]
<1>12. \A k \in 1..n+m : (k <= n /\ k \in 1..n) \/ (k > n /\ ~(k <= n) /\ k - n \in 1..m)
  BY <1>4, <1>6
<1>13. \A k \in 1..n : k \in 1..n+m /\ k <= n
  BY <1>4, <1>6
<1>14. /\ \A k \in 1..n : h[k] = f[k] /\ h[k] \in R /\ runs'[k] = runs[h[k]]
       /\ \A k \in 1..n+m : k > n => /\ h[k] = g[k - n] /\ h[k] \in L
                                     /\ runs'[k] = [runs[h[k]] EXCEPT !.created = @ \ {t}]
  <2>1. ASSUME NEW k \in 1..n PROVE h[k] = f[k] /\ h[k] \in R /\ runs'[k] = runs[h[k]]
    <3>1. h[k] = f[k] /\ runs'[k] = spared[k]
      BY <1>11, <1>13
    <3> HIDE DEF h
    <3> QED
      BY <1>5, <3>1
  <2>2. ASSUME NEW k \in 1..n+m, k > n
        PROVE  /\ h[k] = g[k - n] /\ h[k] \in L
               /\ runs'[k] = [runs[h[k]] EXCEPT !.created = @ \ {t}]
    <3>1. ~(k <= n) /\ k - n \in 1..m
      BY <2>2, <1>4, <1>6, <1>12
    <3>2. h[k] = g[k - n] /\ runs'[k] = moved[k - n]
      BY <1>11, <3>1
    <3> HIDE DEF h
    <3> QED
      BY <1>7, <1>9, <3>1, <3>2
  <2> HIDE DEF h
  <2> QED
    BY <2>1, <2>2
<1>15. h \in [1..n+m -> DOMAIN runs]
  BY <1>2, <1>12, <1>14
<1> HIDE DEF h
<1>16. \A k, l \in 1..n+m : h[k] = h[l] => k = l
  <2> SUFFICES ASSUME NEW k \in 1..n+m, NEW l \in 1..n+m, h[k] = h[l] PROVE k = l
    OBVIOUS
  <2>1. CASE k <= n /\ l <= n
    BY <1>5, <1>12, <1>14, <2>1
  <2>2. CASE k > n /\ l > n
    <3>0. h[k] = g[k - n] /\ h[l] = g[l - n]
      BY <1>14, <2>2
    <3>1. k - n \in 1..m /\ l - n \in 1..m
      BY <1>12, <1>0, <2>2
    <3>3. g[k - n] = g[l - n]
      BY <3>0
    <3>2. k - n = l - n
      BY <1>7, <3>1, <3>3
    <3> QED
      BY <1>0, <3>2
  <2>3. ~(k <= n /\ l > n) /\ ~(k > n /\ l <= n)
    BY <1>3, <1>12, <1>14
  <2> QED
    BY <1>4, <1>6, <2>1, <2>2, <2>3
<1>17. \A k \in 1..n+m : runs'[k].id = runs[h[k]].id
  <2>1. ASSUME NEW x \in RunRec PROVE [x EXCEPT !.created = @ \ {t}].id = x.id
    BY DEF RunRec
  <2> QED
    BY <1>2, <1>12, <1>14, <1>15, <2>1
<1>18. n \in 0..Len(runs') /\ \A k, l \in 1..n : k < l => h[k] < h[l]
  <2>1. n \in 0..Len(runs')
    BY <1>4, <1>6, <1>11
  <2>2. \A k \in 1..n : h[k] = f[k]
    BY <1>14
  <2> QED
    BY <1>5, <2>1, <2>2
<1>19. Moved(runs', n, h)
  BY <1>11, <1>14, <1>15, <1>16, <1>17, <1>18 DEF Moved
<1>20. \A i \in DOMAIN runs : t \notin runs[i].created => \E k \in 1..n : h[k] = i
  BY <1>3, <1>5, <1>14
<1>21. \A k \in 1..n+m : k > n => runs[h[k]].created # {}
  BY <1>3, <1>14
<1>22. DOMAIN runs' = 1..Len(runs') /\ Len(runs') \in Nat
  BY <1>11, Positions
<1>23. \A k \in 1..Len(runs') : k > n =>
         runs[h[k]].created # {} /\ runs'[k] = [runs[h[k]] EXCEPT !.created = @ \ {t}]
  BY <1>11, <1>14, <1>21
<1> DEFINE P(a, b) ==
             /\ Moved(runs', a, b)
             /\ \A i \in DOMAIN runs : t \notin runs[i].created => \E k \in 1..a : b[k] = i
             /\ \A k \in 1..Len(runs') : k > a =>
                  /\ runs[b[k]].created # {}
                  /\ runs'[k] = [runs[b[k]] EXCEPT !.created = @ \ {t}]
<1>24. P(n, h)
  BY <1>19, <1>20, <1>23
<1> HIDE DEF P
<1>25. \E a, b : P(a, b)
  BY <1>24
<1> QED
  BY <1>22, <1>25 DEF P

-----------------------------------------------------------------------------
(* What the steps do to the order of the runs.                               *)

RunsOrdered == RunsBegun /\ RunsDiffer /\ ActiveListNone /\ WorkersStand
NoneGained(r) ==
  \A k \in DOMAIN runs' : runs'[k].id = r =>
    \E i \in DOMAIN runs : runs[i].id = r /\ runs'[k].created \subseteq runs[i].created

\* A call works on, or does not work.
KeepsWorking(c) ==
  pc'[c] \in Working =>
    pc[c] \in Working /\ body'[c].attempt = body[c].attempt /\ sess'[c] = sess[c]

LEMMA RunIds ==
  ASSUME RunsOK(runs)
  PROVE  \A i \in DOMAIN runs : runs[i] \in RunRec /\ runs[i].id \in RunId
<1>1. \A i \in DOMAIN runs : runs[i] \in RunRec
  BY Positions DEF RunsOK
<1> QED
  BY <1>1 DEF RunRec

LEMMA TheRunIs ==
  ASSUME RunsDiffer, NEW i \in DOMAIN runs
  PROVE  theRun(runs[i].id) = runs[i] /\ known(runs[i].id)
BY DEF theRun, known, RunsDiffer

LEMMA MovedKeeps ==
  ASSUME BodiesOK, RunsOK(runs), RunsBegun, RunsDiffer, ActiveListNone,
         \A c \in Call : Advances(c),
         NEW n, NEW f, Moved(runs', n, f), DOMAIN runs' = 1..Len(runs'), Len(runs') \in Nat,
         \A k \in 1..Len(runs') : k > n /\ active(runs'[k]) => runs'[k].created = {}
  PROVE  RunsBegun' /\ RunsDiffer' /\ ActiveListNone'
<1>1. \A k \in DOMAIN runs' : f[k] \in DOMAIN runs /\ runs'[k].id = runs[f[k]].id
  BY DEF Moved
<1>2. \A i \in DOMAIN runs : runs[i].id \in RunId
  BY RunIds
<1>3. RunsBegun'
  BY <1>1, <1>2, RunsAdvance DEF RunsBegun
<1>4. RunsDiffer'
  BY <1>1 DEF RunsDiffer, Moved
<1>5. ActiveListNone'
  <2> SUFFICES ASSUME NEW k \in DOMAIN runs', active(runs'[k]) PROVE runs'[k].created = {}
    BY DEF ActiveListNone, active
  <2>1. CASE k > n
    BY <2>1
  <2>2. CASE ~(k > n)
    <3>1. k \in 1..n
      BY <2>2 DEF Moved
    <3>2. runs'[k] = runs[f[k]]
      BY <3>1 DEF Moved
    <3> QED
      BY <1>1, <3>2 DEF ActiveListNone
  <2> QED
    BY <2>1, <2>2
<1> QED
  BY <1>3, <1>4, <1>5

\* The run of c, while it has no tasks, is still among the first n runs; none of the
\* later ones is an active run of its session.
KeptBefore(c, n, f) ==
  \A i \in DOMAIN runs : runs[i].id = runOf(c) /\ runs[i].created = {} => \E k \in 1..n : f[k] = i
QuietAfter(c, n) ==
  \A k \in 1..Len(runs') : k > n => ~(runs'[k].session = sess[c] /\ active(runs'[k]))

LEMMA StandsStill ==
  ASSUME NEW c \in Call, Stands(c), RunsOK(runs),
         body'[c].attempt = body[c].attempt, sess'[c] = sess[c],
         NEW n, NEW f, Moved(runs', n, f), DOMAIN runs' = 1..Len(runs'), Len(runs') \in Nat,
         KeptBefore(c, n, f), QuietAfter(c, n)
  PROVE  Stands(c)'
<1> USE DEF KeptBefore, QuietAfter
<1>1. PICK i \in DOMAIN runs :
        /\ runs[i].id = runOf(c) /\ runs[i].session = sess[c]
        /\ active(runs[i]) /\ runs[i].created = {}
        /\ \A k \in DOMAIN runs : runs[k].session = sess[c] /\ active(runs[k]) => k <= i
  BY DEF Stands
<1>2. PICK k \in 1..n : f[k] = i
  BY <1>1
<1>3. n \in 0..Len(runs')
  BY DEF Moved
<1>4. k \in DOMAIN runs' /\ runs'[k] = runs[i]
  BY <1>2, <1>3 DEF Moved
<1>5. ASSUME NEW l \in DOMAIN runs', runs'[l].session = sess[c], active(runs'[l]) PROVE l <= k
  <2>1. l \in 1..n
    BY <1>3, <1>5
  <2>2. f[l] \in DOMAIN runs /\ runs'[l] = runs[f[l]]
    BY <1>5, <2>1 DEF Moved
  <2>3. f[l] <= i
    BY <1>1, <1>5, <2>2
  <2>4. k < l => f[k] < f[l]
    BY <1>2, <2>1 DEF Moved
  <2>5. f[l] \in Int /\ i \in Int /\ k \in Int /\ l \in Int
    BY <1>1, <1>2, <1>3, <2>1, <2>2, Positions DEF RunsOK
  <2> QED
    BY <1>2, <2>3, <2>4, <2>5
<1>6. runOf(c)' = runOf(c)
  BY DEF runOf
<1> QED
  BY <1>1, <1>4, <1>5, <1>6 DEF Stands, active

\* The call at work records an event of its run.
LEMMA UpdateOrder ==
  ASSUME TInv, OneInside, RunsOrdered, NEW c \in Call, pc[c] \in Working, NEW x \in RunRec,
         x.id = runOf(c), x.session = sess[c], active(x) => x.created = {},
         runs' = updateControllerRun(runOf(c), x),
         \A d \in Call : Advances(d) /\ KeepsWorking(d),
         pc'[c] \in Working => active(x)
  PROVE  RunsOrdered' /\ \A r \in RunId : r # runOf(c) => NoneGained(r)
<1> USE DEF RunsOrdered
<1>0. RunsOK(runs) /\ BodiesOK
  BY DEF TInv, DataInv
<1>1. known(runOf(c))
  BY DEF WorkersStand, Stands, known
<1>2. /\ Len(runs') = Len(runs) /\ Len(runs') \in Nat \ {0} /\ DOMAIN runs' = 1..Len(runs')
      /\ runs'[Len(runs')] = x
      /\ \E f : /\ Moved(runs', Len(runs') - 1, f)
                /\ \A i \in DOMAIN runs : runs[i].id # runOf(c) => \E k \in 1..(Len(runs') - 1) : f[k] = i
                /\ \A k \in 1..(Len(runs') - 1) : runs'[k].id # runOf(c)
  BY <1>0, <1>1, UpdateMoves
<1> DEFINE n == Len(runs') - 1
<1>3. PICK f : /\ Moved(runs', n, f)
               /\ \A i \in DOMAIN runs : runs[i].id # runOf(c) => \E k \in 1..n : f[k] = i
               /\ \A k \in 1..n : runs'[k].id # runOf(c)
  BY <1>2
<1>8. n \in Nat /\ Len(runs') = n + 1 /\ Len(runs') \in Nat /\ DOMAIN runs' = 1..Len(runs')
  BY <1>2
<1> HIDE DEF n
<1>4. \A k \in 1..Len(runs') : k > n => k = n + 1
  BY <1>8
<1>5. RunsBegun' /\ RunsDiffer' /\ ActiveListNone'
  <2>1. \A k \in 1..Len(runs') : k > n /\ active(runs'[k]) => runs'[k].created = {}
    BY <1>2, <1>4, <1>8
  <2> QED
    BY <1>0, <1>3, <1>8, <2>1, MovedKeeps
<1>6. ASSUME NEW d \in Call, pc'[d] \in Working PROVE Stands(d)'
  <2>1. pc[d] \in Working /\ body'[d].attempt = body[d].attempt /\ sess'[d] = sess[d] /\ Stands(d)
    BY <1>6 DEF KeepsWorking, WorkersStand
  <2>2. CASE d = c
    <3>1. Len(runs') \in DOMAIN runs' /\ \A k \in DOMAIN runs' : k <= Len(runs')
      BY <1>2
    <3>2. runOf(c)' = runOf(c)
      BY <2>1, <2>2 DEF runOf
    <3> QED
      BY <1>2, <1>6, <2>1, <2>2, <3>1, <3>2 DEF Stands, active
  <2>3. CASE d # c
    <3>1. sess[d] # sess[c]
      BY <2>1, <2>3 DEF OneInside, Inside, Working
    <3>2. runOf(d) # runOf(c)
      BY <2>3 DEF runOf
    <3>3. QuietAfter(d, n)
      BY <1>2, <1>4, <1>8, <3>1 DEF QuietAfter
    <3>4. KeptBefore(d, n, f)
      BY <1>3, <3>2 DEF KeptBefore
    <3>5. Moved(runs', n, f) /\ body'[d].attempt = body[d].attempt /\ sess'[d] = sess[d] /\ Stands(d)
      BY <1>3, <2>1
    <3>6. RunsOK(runs)
      BY <1>0
    <3>7. DOMAIN runs' = 1..Len(runs') /\ Len(runs') \in Nat
      BY <1>8
    <3> HIDE DEF RunsOK, RunsOrdered, Moved, Stands, Working, active, runOf
    <3> QED
      BY <3>3, <3>4, <3>5, <3>6, <3>7, StandsStill
  <2> QED
    BY <2>2, <2>3
<1>7. ASSUME NEW r \in RunId, r # runOf(c) PROVE NoneGained(r)
  <2>1. \A k \in DOMAIN runs' : runs'[k].id = r => k \in 1..n
    BY <1>2, <1>4, <1>7, <1>8
  <2>2. \A k \in 1..n : k \in 1..Len(runs') /\ runs'[k] = runs[f[k]] /\ f[k] \in DOMAIN runs
    BY <1>3, <1>8 DEF Moved
  <2> QED
    BY <2>1, <2>2 DEF NoneGained
<1> QED
  BY <1>5, <1>6, <1>7 DEF WorkersStand

\* A run that is over is deleted.
LEMMA DropOrder ==
  ASSUME TInv, RunsOrdered, NEW r, Over(r), runs' = without(r),
         \A d \in Call : Advances(d) /\ KeepsWorking(d)
  PROVE  RunsOrdered' /\ \A q \in RunId : NoneGained(q)
<1> USE DEF RunsOrdered
<1>0. RunsOK(runs) /\ BodiesOK
  BY DEF TInv, DataInv
<1>1. /\ runs' \in Seq(RunRec) /\ Len(runs') \in Nat
      /\ \E f : /\ Moved(runs', Len(runs'), f)
                /\ \A i \in DOMAIN runs : runs[i].id # r => \E k \in 1..Len(runs') : f[k] = i
                /\ \A k \in 1..Len(runs') : runs'[k].id # r
  BY <1>0, DropMoves
<1> DEFINE n == Len(runs')
<1>2. PICK f : /\ Moved(runs', n, f)
               /\ \A i \in DOMAIN runs : runs[i].id # r => \E k \in 1..n : f[k] = i
  BY <1>1
<1>3. DOMAIN runs' = 1..n /\ n \in Nat /\ \A k \in 1..n : ~(k > n)
  BY <1>1, Positions
<1>5. RunsBegun' /\ RunsDiffer' /\ ActiveListNone'
  BY <1>0, <1>2, <1>3, MovedKeeps
<1>6. ASSUME NEW d \in Call, pc'[d] \in Working PROVE Stands(d)'
  <2>1. pc[d] \in Working /\ body'[d].attempt = body[d].attempt /\ sess'[d] = sess[d] /\ Stands(d)
    BY <1>6 DEF KeepsWorking, WorkersStand
  <2>2. runOf(d) # r
    BY <2>1 DEF Over, atWork, runOf, Working
  <2>3. KeptBefore(d, n, f) /\ QuietAfter(d, n)
    BY <1>2, <1>3, <2>2 DEF KeptBefore, QuietAfter
  <2>4. Moved(runs', n, f) /\ RunsOK(runs) /\ DOMAIN runs' = 1..Len(runs') /\ Len(runs') \in Nat
    BY <1>0, <1>2, <1>3
  <2> HIDE DEF RunsOK, RunsOrdered, Moved, Stands, Working, active, runOf
  <2> QED
    BY <2>1, <2>3, <2>4, StandsStill
<1>7. ASSUME NEW q \in RunId PROVE NoneGained(q)
  <2>1. \A k \in 1..n : runs'[k] = runs[f[k]] /\ f[k] \in DOMAIN runs
    BY <1>2 DEF Moved
  <2> QED
    BY <1>3, <2>1 DEF NoneGained
<1> QED
  BY <1>5, <1>6, <1>7 DEF WorkersStand

\* A task is deleted.
LEMMA RemoveOrder ==
  ASSUME TInv, RunsOrdered, NEW t, removeTask(t), \A d \in Call : Advances(d) /\ KeepsWorking(d)
  PROVE  RunsOrdered' /\ \A q \in RunId : NoneGained(q)
<1> USE DEF RunsOrdered
<1>0. RunsOK(runs) /\ BodiesOK
  BY DEF TInv, DataInv
<1>1. DOMAIN runs' = 1..Len(runs') /\ Len(runs') \in Nat
  BY <1>0, RemoveMoves
<1>2. PICK n, f :
        /\ Moved(runs', n, f)
        /\ \A i \in DOMAIN runs : t \notin runs[i].created => \E k \in 1..n : f[k] = i
        /\ \A k \in 1..Len(runs') : k > n =>
             /\ runs[f[k]].created # {}
             /\ runs'[k] = [runs[f[k]] EXCEPT !.created = @ \ {t}]
  BY <1>0, RemoveMoves
<1>3. \A k \in 1..Len(runs') : f[k] \in DOMAIN runs /\ runs[f[k]] \in RunRec
  BY <1>0, <1>2, Positions DEF Moved, RunsOK
<1>4. \A x \in RunRec : LET y == [x EXCEPT !.created = @ \ {t}]
                        IN y.status = x.status /\ y.created \subseteq x.created
  BY DEF RunRec
\* The runs that are moved are not active.
<1>5. \A k \in 1..Len(runs') : k > n => ~active(runs'[k]) /\ runs'[k].created \subseteq runs[f[k]].created
  <2> SUFFICES ASSUME NEW k \in 1..Len(runs'), k > n
               PROVE  ~active(runs'[k]) /\ runs'[k].created \subseteq runs[f[k]].created
    OBVIOUS
  <2>1. runs'[k].status = runs[f[k]].status /\ runs'[k].created \subseteq runs[f[k]].created
    BY <1>2, <1>3, <1>4
  <2>2. ~active(runs[f[k]])
    BY <1>2, <1>3 DEF ActiveListNone
  <2> QED
    BY <2>1, <2>2 DEF active
<1>6. RunsBegun' /\ RunsDiffer' /\ ActiveListNone'
  BY <1>0, <1>1, <1>2, <1>5, MovedKeeps
<1>7. ASSUME NEW d \in Call, pc'[d] \in Working PROVE Stands(d)'
  <2>1. pc[d] \in Working /\ body'[d].attempt = body[d].attempt /\ sess'[d] = sess[d] /\ Stands(d)
    BY <1>7 DEF KeepsWorking, WorkersStand
  <2>2. KeptBefore(d, n, f)
    BY <1>2 DEF KeptBefore
  <2>3. QuietAfter(d, n)
    BY <1>5 DEF QuietAfter
  <2>4. Moved(runs', n, f) /\ RunsOK(runs) /\ DOMAIN runs' = 1..Len(runs') /\ Len(runs') \in Nat
    BY <1>0, <1>1, <1>2
  <2> HIDE DEF RunsOK, RunsOrdered, Moved, Stands, Working, active, runOf
  <2> QED
    BY <2>1, <2>2, <2>3, <2>4, StandsStill
<1>8. ASSUME NEW q \in RunId PROVE NoneGained(q)
  <2>1. ASSUME NEW k \in 1..Len(runs')
        PROVE  runs'[k].created \subseteq runs[f[k]].created /\ runs'[k].id = runs[f[k]].id
    <3>1. runs'[k].id = runs[f[k]].id
      BY <1>2 DEF Moved
    <3>2. n \in Int /\ k \in Int
      BY <1>1, <1>2 DEF Moved
    <3>3. k \in 1..n => runs'[k] = runs[f[k]]
      BY <1>2 DEF Moved
    <3> QED
      BY <1>5, <3>1, <3>2, <3>3
  <2> QED
    BY <1>1, <1>3, <2>1 DEF NoneGained
<1> QED
  BY <1>6, <1>7, <1>8 DEF WorkersStand

\* The runs do not change.
LEMMA SameOrder ==
  ASSUME TInv, RunsOrdered, UNCHANGED runs, \A d \in Call : Advances(d) /\ KeepsWorking(d)
  PROVE  RunsOrdered' /\ \A q \in RunId : NoneGained(q)
<1>1. \A i \in DOMAIN runs : runs[i].id \in RunId
  BY RunIds DEF TInv, DataInv
<1>2. RunsBegun'
  BY <1>1, RunsAdvance DEF RunsBegun, RunsOrdered, TInv, DataInv
<1>3. RunsDiffer' /\ ActiveListNone'
  BY DEF RunsDiffer, ActiveListNone, RunsOrdered, active
<1>4. WorkersStand'
  <2> SUFFICES ASSUME NEW c \in Call, pc'[c] \in Working PROVE Stands(c)'
    BY DEF WorkersStand
  <2>1. pc[c] \in Working /\ body'[c].attempt = body[c].attempt /\ sess'[c] = sess[c]
    BY DEF KeepsWorking
  <2>2. Stands(c) /\ runOf(c)' = runOf(c)
    BY <2>1 DEF RunsOrdered, WorkersStand, runOf
  <2> QED
    BY <2>1, <2>2 DEF Stands, active
<1> QED
  BY <1>2, <1>3, <1>4 DEF RunsOrdered, NoneGained

\* A call begins an attempt, and drops the oldest run if the list is full.
LEMMA BeginOrder ==
  ASSUME TInv, OneInside', RunsOrdered, Room \/ RunsAtWorkKept', NEW c \in Call, NEW a \in 0..MaxRetries, begin(c, a),
         pc[c] = "queued" \/ (pc[c] = "retrying" /\ a = body[c].attempt + 1),
         \A d \in Call : Advances(d), \A d \in Call \ {c} : KeepsWorking(d)
  PROVE  RunsOrdered' /\ \A q \in RunId : q # <<c, a>> => NoneGained(q)
<1> USE DEF RunsOrdered
<1>0. RunsOK(runs) /\ BodiesOK /\ ChainTypeOK
  BY DEF TInv, DataInv, IInv, ChainInv
<1>1. pc[c] # "idle" /\ pc' = [pc EXCEPT ![c] = "starting"] /\ sess' = sess
  BY DEF begin
<1>2. /\ \E x \in RunRec : /\ x = [id |-> <<c, a>>, session |-> sess[c], created |-> {},
                                   status |-> "pending"]
                           /\ runs' = trimControllerRuns(Append(runs, x))
      /\ body'[c].attempt = a
  BY <1>1, BeginType
<1>3. PICK x \in RunRec : /\ x = [id |-> <<c, a>>, session |-> sess[c], created |-> {},
                                  status |-> "pending"]
                          /\ runs' = trimControllerRuns(Append(runs, x))
  BY <1>2
<1>4. x.id = <<c, a>> /\ x.session = sess[c] /\ x.created = {} /\ active(x)
  BY <1>3 DEF active
<1> DEFINE m == Len(runs)
           rs == Append(runs, x)
<1>5. /\ DOMAIN runs = 1..m /\ m \in Nat /\ rs \in Seq(RunRec) /\ Len(rs) = m + 1
      /\ rs[m + 1] = x /\ \A k \in 1..m : rs[k] = runs[k]
  BY <1>0, Positions, AppendProperties DEF RunsOK
<1> HIDE DEF m, rs
<1>6. /\ RunsOK(runs')
      /\ \E n \in 0..Len(rs) : /\ n = 0 <=> Len(rs) <= MaxRuns
                               /\ n < Len(rs) \/ Len(rs) = 0
                               /\ Len(runs') = Len(rs) - n
                               /\ \A i \in 1..Len(runs') : runs'[i] = rs[i + n]
  <2>1. runs' = trimControllerRuns(rs)
    BY <1>3 DEF rs
  <2>2. rs \in Seq(RunRec)
    BY <1>5
  <2>3. PICK out : out = runs'
    OBVIOUS
  <2>4. out = trimControllerRuns(rs)
    BY <2>1, <2>3
  <2>5. RunsOK(out) /\ Cut(rs, out)
    BY <2>2, <2>4, TrimProperties
  <2> QED
    BY <2>3, <2>5 DEF Cut
<1>7. PICK n \in 0..m+1 : /\ n = 0 <=> m + 1 <= MaxRuns
                          /\ n < m + 1
                          /\ Len(runs') = m + 1 - n
                          /\ \A i \in 1..Len(runs') : runs'[i] = rs[i + n]
  BY <1>5, <1>6
<1> DEFINE z == m + 1 - n
<1>8. n \in Nat /\ m \in Nat /\ n <= m /\ z \in Nat /\ z >= 1 /\ z + n = m + 1
  BY <1>5, <1>7
<1>9. DOMAIN runs' = 1..z
  BY <1>6, <1>7, Positions DEF RunsOK
<1>10. \A i \in 1..z : /\ i + n \in 1..m+1
                       /\ i = z => runs'[i] = x
                       /\ i # z => i + n \in DOMAIN runs /\ runs'[i] = runs[i + n]
  <2> SUFFICES ASSUME NEW i \in 1..z
               PROVE  /\ i + n \in 1..m+1
                      /\ i = z => runs'[i] = x
                      /\ i # z => i + n \in DOMAIN runs /\ runs'[i] = runs[i + n]
    OBVIOUS
  <2>1. runs'[i] = rs[i + n] /\ i + n \in 1..m+1
    BY <1>7, <1>8
  <2>2. CASE i = z
    BY <1>5, <1>8, <2>1, <2>2
  <2>3. CASE i # z
    <3>1. i + n \in 1..m
      BY <1>8, <2>3
    <3> QED
      BY <1>5, <2>1, <2>3, <3>1
  <2> QED
    BY <2>1, <2>2, <2>3
<1> HIDE DEF z
\* Its run is new.
<1>11. \A i \in DOMAIN runs : runs[i].id # <<c, a>>
  <2> SUFFICES ASSUME NEW i \in DOMAIN runs, runs[i].id = <<c, a>> PROVE FALSE
    OBVIOUS
  <2>1. pc[c] \in Ended \/ (pc[c] \in Inside /\ a <= body[c].attempt)
    BY DEF RunsBegun, Begun
  <2>2. body[c].attempt \in Int /\ a \in Int
    BY <1>0, IntakeAssumption DEF BodiesOK, BodyRec, IntakeAssumption
  <2> QED
    BY <2>1, <2>2 DEF Ended, Inside
<1>12. RunsBegun'
  <2> SUFFICES ASSUME NEW i \in 1..z, NEW r, r = runs'[i].id PROVE Begun(r)'
    BY <1>9, Zenon DEF RunsBegun
  <2>1. CASE i = z
    <3>1. r = <<c, a>> /\ pc'[c] = "starting" /\ body'[c].attempt = a
      BY <1>0, <1>1, <1>2, <1>4, <1>10, <2>1 DEF ChainTypeOK
    <3>2. a <= a
      BY IntakeAssumption DEF IntakeAssumption
    <3> QED
      BY <3>1, <3>2 DEF Begun, Inside
  <2>2. CASE i # z
    <3>1. i + n \in DOMAIN runs /\ r = runs[i + n].id
      BY <1>10, <2>2
    <3>2. Begun(r) /\ r \in RunId
      BY <1>0, <3>1, RunIds DEF RunsBegun
    <3> QED
      BY <1>0, <3>2, RunsAdvance
  <2> QED
    BY <2>1, <2>2
<1>13. RunsDiffer'
  <2> SUFFICES ASSUME NEW i \in 1..z, NEW k \in 1..z, runs'[i].id = runs'[k].id PROVE i = k
    BY <1>9 DEF RunsDiffer
  <2>1. i = z => k = z
    BY <1>4, <1>10, <1>11
  <2>2. k = z => i = z
    BY <1>4, <1>10, <1>11
  <2>3. CASE i # z /\ k # z
    <3>1. i + n = k + n
      BY <1>10, <2>3 DEF RunsDiffer
    <3> QED
      BY <1>8, <3>1
  <2> QED
    BY <2>1, <2>2, <2>3
<1>14. ActiveListNone'
  <2> SUFFICES ASSUME NEW i \in 1..z, active(runs'[i]) PROVE runs'[i].created = {}
    BY <1>9 DEF ActiveListNone, active
  <2> QED
    BY <1>4, <1>10 DEF ActiveListNone
<1>15. Stands(c)'
  <2>1. z \in DOMAIN runs' /\ runs'[z] = x /\ \A k \in DOMAIN runs' : k <= z
    BY <1>8, <1>9, <1>10
  <2>2. runOf(c)' = <<c, a>> /\ sess'[c] = sess[c]
    BY <1>1, <1>2 DEF runOf
  <2> QED
    BY <1>4, <2>1, <2>2 DEF Stands, active
<1>16. ASSUME NEW d \in Call \ {c}, pc'[d] \in Working PROVE Stands(d)'
  <2>1. pc[d] \in Working /\ body'[d].attempt = body[d].attempt /\ sess'[d] = sess[d] /\ Stands(d)
    BY <1>16 DEF KeepsWorking, WorkersStand
  <2>2. sess[d] # sess[c]
    <3>1. pc'[c] = "starting" /\ sess'[c] = sess[c]
      BY <1>0, <1>1 DEF ChainTypeOK
    <3> QED
      BY <1>16, <2>1, <3>1 DEF OneInside, Inside, Working
  <2>3. runOf(d)' = runOf(d) /\ runOf(d) # <<c, a>>
    BY <2>1 DEF runOf
  <2>4. PICK i \in DOMAIN runs :
        /\ runs[i].id = runOf(d) /\ runs[i].session = sess[d]
        /\ active(runs[i]) /\ runs[i].created = {}
        /\ \A k \in DOMAIN runs : runs[k].session = sess[d] /\ active(runs[k]) => k <= i
    BY <2>1 DEF Stands
  <2>5. \E k \in 1..z : k # z /\ k + n = i
    <3>1. CASE Room
      <4>1. sess[c] \in Session /\ sess[d] \in Session
        BY <1>0, <1>1, <2>1 DEF ChainTypeOK, Working
      <4>2. m < MaxRuns
        BY <2>2, <3>1, <4>1 DEF Room, m
      <4>3. n = 0
        BY <1>5, <1>7, <4>2, IntakeAssumption DEF IntakeAssumption
      <4>4. i \in 1..m
        BY <1>5, <2>4
      <4> QED
        BY <1>8, <4>3, <4>4
    <3>2. CASE RunsAtWorkKept'
      <4>1. PICK k \in 1..z : runs'[k].id = runOf(d)
        BY <1>9, <1>16, <2>3, <3>2 DEF RunsAtWorkKept, known
      <4>2. k # z
        BY <1>4, <1>10, <2>3, <4>1
      <4>3. k + n \in DOMAIN runs /\ runs[k + n].id = runOf(d)
        BY <1>10, <4>1, <4>2
      <4> QED
        BY <2>4, <4>2, <4>3 DEF RunsDiffer
    <3> QED
      BY <3>1, <3>2
  <2>6. PICK k \in 1..z : k # z /\ k + n = i
    BY <2>5
  <2>7. k \in DOMAIN runs' /\ runs'[k] = runs[i]
    BY <1>9, <1>10, <2>6
  <2>8. ASSUME NEW l \in DOMAIN runs', runs'[l].session = sess[d], active(runs'[l]) PROVE l <= k
    <3>1. l # z /\ l \in 1..z
      BY <1>4, <1>9, <1>10, <2>2, <2>8
    <3>2. l + n \in DOMAIN runs /\ runs'[l] = runs[l + n]
      BY <1>10, <3>1
    <3>3. l + n <= i
      BY <2>4, <2>8, <3>2
    <3> QED
      BY <1>8, <2>6, <3>1, <3>3
  <2> QED
    BY <2>1, <2>3, <2>4, <2>7, <2>8 DEF Stands, active
<1>17. ASSUME NEW q \in RunId, q # <<c, a>> PROVE NoneGained(q)
  <2> SUFFICES ASSUME NEW k \in 1..z, runs'[k].id = q
               PROVE  \E i \in DOMAIN runs : runs[i].id = q /\ runs'[k].created \subseteq runs[i].created
    BY <1>9 DEF NoneGained
  <2>1. k # z
    BY <1>4, <1>10, <1>17
  <2> QED
    BY <1>10, <2>1
<1> QED
  BY <1>12, <1>13, <1>14, <1>15, <1>16, <1>17 DEF WorkersStand

\* The run of a call at work, and where a manifest for its session goes.
LEMMA WorkRun ==
  ASSUME RunsOK(runs), RunsOrdered, NEW c \in Call, pc[c] \in Working
  PROVE  /\ theRun(runOf(c)) \in RunRec /\ theRun(runOf(c)).id = runOf(c)
         /\ theRun(runOf(c)).session = sess[c] /\ theRun(runOf(c)).created = {}
         /\ active(theRun(runOf(c))) /\ known(runOf(c))
<1>1. PICK i \in DOMAIN runs :
        runs[i].id = runOf(c) /\ runs[i].session = sess[c] /\ active(runs[i]) /\ runs[i].created = {}
  BY DEF RunsOrdered, WorkersStand, Stands
<1>2. theRun(runOf(c)) = runs[i] /\ known(runOf(c)) /\ runs[i] \in RunRec
  BY <1>1, TheRunIs, RunIds DEF RunsOrdered
<1> QED
  BY <1>1, <1>2

LEMMA LatestIs ==
  ASSUME RunsOK(runs), NEW c \in Call, Stands(c)
  PROVE  latestRun(sess[c]) = runOf(c)
<1>1. PICK i \in DOMAIN runs :
        /\ runs[i].id = runOf(c) /\ runs[i].session = sess[c] /\ active(runs[i])
        /\ \A k \in DOMAIN runs : runs[k].session = sess[c] /\ active(runs[k]) => k <= i
  BY DEF Stands
<1> DEFINE mine == {k \in DOMAIN runs : runs[k].session = sess[c]}
           live == {k \in mine : active(runs[k])}
<1>2. i \in live /\ \A k \in live : k <= i /\ k \in Int /\ i \in Int
  <2>1. DOMAIN runs = 1..Len(runs) /\ Len(runs) \in Nat
    BY Positions DEF RunsOK
  <2> QED
    BY <1>1, <2>1
<1>3. mine # {} /\ live # {}
  BY <1>2
<1>4. latestRun(sess[c]) = runs[last(live)].id
  BY <1>3 DEF latestRun
<1> HIDE DEF live
<1>5. last(live) = i
  <2>1. last(live) \in live /\ \A k \in live : k <= last(live)
    BY <1>2 DEF last
  <2> QED
    BY <1>2, <2>1
<1> QED
  BY <1>1, <1>4, <1>5

\* A task that is settled or deleted remains so, and no open task gets a run that is over.
TasksCalm ==
  \A t \in Task :
    /\ task[t].status \in {"settled", "deleted"} => task'[t].status \in {"settled", "deleted"}
    /\ \A r \in RunId : task'[t].status = "open" /\ task'[t].run = r /\ Over(r) =>
         task[t].status = "open" /\ task[t].run = r

LEMMA JobsStay ==
  ASSUME TInv, \A c \in Call : Advances(c), TasksCalm,
         \A r \in RunId : Over(r) => NoneGained(r),
         \A j \in jobs' : j \in JobRec /\ JobOver(j) /\ SparesOpen(j)
  PROVE  JobsAreOver' /\ PrunesSpare'
<1>1. \A r \in RunId : Over(r) => Over(r)'
  BY RunsAdvance DEF TInv, DataInv
<1>2. ASSUME NEW r \in RunId, Over(r), Bare(r) PROVE Bare(r)'
  <2>1. \A t \in Task : task'[t].status = "open" => task'[t].run # r
    BY <1>2 DEF TasksCalm, Bare
  <2>2. \A k \in DOMAIN runs' : runs'[k].id = r => runs'[k].created = {}
    BY <1>2 DEF NoneGained, Bare
  <2> QED
    BY <2>1, <2>2 DEF Bare
<1>3. ASSUME NEW j \in JobRec PROVE j.run \in RunId /\ (\A k \in DOMAIN j.rest : j.rest[k] \in RunId)
                                    /\ j.tasks \subseteq Task
  <2>1. j.run \in RunId /\ j.rest \in Seq(RunId) /\ j.tasks \subseteq Task
    BY DEF JobRec
  <2> QED
    BY <2>1, Positions
<1>4. ASSUME NEW j \in JobRec, JobOver(j) PROVE JobOver(j)'
  BY <1>1, <1>3, <1>4 DEF JobOver
<1>5. ASSUME NEW j \in JobRec, JobOver(j), SparesOpen(j) PROVE SparesOpen(j)'
  BY <1>2, <1>3, <1>5 DEF JobOver, SparesOpen, TasksCalm
<1>6. \A j \in jobs' : JobOver(j)' /\ SparesOpen(j)'
  BY <1>4, <1>5
<1> QED
  BY <1>6 DEF JobsAreOver, PrunesSpare

LEMMA HeadAndTail ==
  ASSUME NEW S, NEW s \in Seq(S), s # <<>>
  PROVE  /\ 1 \in DOMAIN s /\ Head(s) = s[1]
         /\ \A k \in DOMAIN Tail(s) : k + 1 \in DOMAIN s /\ Tail(s)[k] = s[k + 1]
<1>1. DOMAIN s = 1..Len(s) /\ Len(s) \in Nat \ {0}
  BY Positions, EmptySeq
<1>2. Tail(s) \in Seq(S) /\ Len(Tail(s)) = Len(s) - 1 /\ \A k \in 1..Len(Tail(s)) : Tail(s)[k] = s[k + 1]
  BY HeadTailProperties
<1>3. DOMAIN Tail(s) = 1..Len(Tail(s))
  BY <1>2, Positions
<1> QED
  BY <1>1, <1>2, <1>3

\* Every step keeps the runs of a session in order, and prunes away from open tasks.
LEMMA NextOrder ==
  ASSUME "probe" \notin Ops, "deleteLive" \notin Ops, "running" \notin Faults, "hang" \notin Faults
  PROVE  TInv /\ ClaimInv /\ Alone /\ OrderInv /\ PrunesSpare /\ (Room \/ RunsAtWorkKept') /\ [Next]_vars =>
           OrderInv' /\ PrunesSpare'
<1> SUFFICES ASSUME TInv, ClaimInv, Alone, OrderInv, PrunesSpare, Room \/ RunsAtWorkKept', [Next]_vars
             PROVE  OrderInv' /\ PrunesSpare'
  OBVIOUS
<1> DEFINE Good == OrderInv' /\ PrunesSpare'
<1> USE DEF TInv, IInv, ChainInv, DataInv
<1>0. /\ \A c \in Call : Advances(c)
      /\ \A c \in Call : pc[c] # "idle" => sess'[c] = sess[c]
      /\ Alone'
  BY NextAdvances, NextInv, ChainStepAlone
<1>1. /\ RunsOrdered /\ OneInside /\ AgentsAwaited
      /\ \A i \in DOMAIN runs : runs[i] \in RunRec /\ runs[i].id \in RunId
      /\ \A t \in Task : task[t] \in TaskRec
      /\ \A j \in jobs : j \in JobRec /\ JobOver(j) /\ SparesOpen(j)
  BY RunIds DEF OrderInv, RunsOrdered, Alone, ClaimInv, JobsOK, JobsAreOver, PrunesSpare, TasksOK
<1>2. ASSUME NEW c \in Call, pc[c] \in Working
      PROVE  ~Over(runOf(c)) /\ runOf(c) \in RunId /\ runOf(c) # None
  BY <1>2, RunOfType, IntakeAssumption DEF Over, atWork, Working, runOf, IntakeAssumption
<1>3. ASSUME NEW c \in Call, pc'[c] = "starting" => pc[c] = "starting" PROVE KeepsWorking(c)
  <2>1. Advances(c) /\ (pc[c] # "idle" => sess'[c] = sess[c])
    BY <1>0
  <2> QED
    BY <1>3, <2>1 DEF KeepsWorking, Advances, Still, Working, Inside, Ended
\* Steps that change the runs, by what they do to them.
<1> DEFINE NobodyBegins == \A d \in Call : pc'[d] = "starting" => pc[d] = "starting"
           JobsFine == \A j \in jobs' : j \in JobRec /\ JobOver(j) /\ SparesOpen(j)
<1>go. ASSUME NEW c \in Call, NEW to, to # "starting", pc' = [pc EXCEPT ![c] = to]
       PROVE  NobodyBegins
  BY <1>go DEF ChainTypeOK
<1>fails. ASSUME NEW c \in Call, fail(c) PROVE NobodyBegins
  BY <1>fails, FailFrame
<1>leaves. ASSUME NEW c \in Call, NEW how \in Ended, leave(c, how) PROVE NobodyBegins
  BY <1>leaves, LeaveFrame DEF Ended
<1>old. ASSUME jobs' \subseteq jobs PROVE JobsFine
  BY <1>old, <1>1
<1>calm. ASSUME UNCHANGED task PROVE TasksCalm
  BY <1>calm DEF TasksCalm
<1>good. ASSUME RunsOrdered', TasksCalm, JobsFine, \A r \in RunId : Over(r) => NoneGained(r)
         PROVE  Good
  <2>1. JobsAreOver' /\ PrunesSpare'
    BY <1>good, <1>0, JobsStay
  <2> QED
    BY <1>good, <2>1 DEF OrderInv, RunsOrdered
<1>same. ASSUME UNCHANGED runs, NobodyBegins, TasksCalm, JobsFine PROVE Good
  <2>1. RunsOrdered' /\ \A q \in RunId : NoneGained(q)
    BY <1>same, <1>0, <1>1, <1>3, SameOrder
  <2> QED
    BY <1>same, <2>1, <1>good
<1>update. ASSUME NEW c \in Call, pc[c] \in Working, NEW x \in RunRec,
                  x.id = runOf(c), x.session = sess[c], active(x) => x.created = {},
                  runs' = updateControllerRun(runOf(c), x), pc'[c] \in Working => active(x),
                  NobodyBegins, TasksCalm, JobsFine
           PROVE  Good
  <2>1. RunsOrdered' /\ \A r \in RunId : r # runOf(c) => NoneGained(r)
    BY <1>update, <1>0, <1>1, <1>3, UpdateOrder
  <2>2. \A r \in RunId : Over(r) => NoneGained(r)
    BY <1>update, <1>2, <2>1
  <2> QED
    BY <1>update, <2>1, <2>2, <1>good
\* The run of a call at work is recorded as running.
<1>running. ASSUME NEW c \in Call, pc[c] \in Working, runs' = record(runOf(c), "running"),
                   NobodyBegins, TasksCalm, JobsFine
            PROVE  Good
  <2> DEFINE x == [theRun(runOf(c)) EXCEPT !.status = "running"]
  <2>1. /\ theRun(runOf(c)) \in RunRec /\ theRun(runOf(c)).id = runOf(c)
        /\ theRun(runOf(c)).session = sess[c] /\ theRun(runOf(c)).created = {}
    BY <1>running, <1>1, WorkRun
  <2>2. x \in RunRec /\ x.id = runOf(c) /\ x.session = sess[c] /\ x.created = {} /\ active(x)
    BY <2>1 DEF RunRec, active
  <2>3. runs' = updateControllerRun(runOf(c), x)
    BY <1>running DEF record
  <2> HIDE DEF x, NobodyBegins, JobsFine, Good
  <2> QED
    BY <1>running, <2>2, <2>3, <1>update
\* It ends.
<1>ends. ASSUME NEW c \in Call, pc[c] \in Working, NEW T \in SUBSET Task,
                NEW status \in {"completed", "failed"}, pc'[c] \notin Working,
                runs' = updateControllerRun(runOf(c),
                          [theRun(runOf(c)) EXCEPT !.status = status, !.created = T]),
                NobodyBegins, TasksCalm, JobsFine
         PROVE  Good
  <2> DEFINE x == [theRun(runOf(c)) EXCEPT !.status = status, !.created = T]
  <2>1. /\ theRun(runOf(c)) \in RunRec /\ theRun(runOf(c)).id = runOf(c)
        /\ theRun(runOf(c)).session = sess[c]
    BY <1>ends, <1>1, WorkRun
  <2>2. x \in RunRec /\ x.id = runOf(c) /\ x.session = sess[c] /\ ~active(x)
    BY <2>1 DEF RunRec, active
  <2>3. runs' = updateControllerRun(runOf(c), x)
    BY <1>ends
  <2> HIDE DEF x, NobodyBegins, JobsFine, Good
  <2> QED
    BY <1>ends, <2>2, <2>3, <1>update
<1>begins. ASSUME NEW c \in Call, NEW a \in 0..MaxRetries, begin(c, a),
                  pc[c] = "queued" \/ (pc[c] = "retrying" /\ a = body[c].attempt + 1)
           PROVE  Good
  <2>1. pc' = [pc EXCEPT ![c] = "starting"] /\ UNCHANGED <<task, jobs>>
    BY <1>begins DEF begin
  <2>2. \A d \in Call \ {c} : KeepsWorking(d)
    BY <2>1, <1>3 DEF ChainTypeOK
  <2>3. RunsOrdered' /\ \A q \in RunId : q # <<c, a>> => NoneGained(q)
    BY <1>begins, <1>0, <1>1, <2>2, BeginOrder DEF Alone
  <2>4. ~Over(<<c, a>>)
    <3>1. body[c].attempt \in Int /\ a \in Int
      BY RunOfType, IntakeAssumption DEF BodyRec, IntakeAssumption
    <3> QED
      BY <1>begins, <3>1 DEF Over, Begun, Ended, Inside
  <2> QED
    BY <2>1, <2>3, <2>4, <1>good, <1>calm, <1>old
\* Tasks.
<1>tagged. ASSUME NEW c \in Call, pc[c] \in Working, tagControllerCreatedTasks(c) PROVE TasksCalm
  <2>1. \A t \in Task : /\ task'[t].status = task[t].status
                        /\ task'[t].run = task[t].run \/ task'[t].run = runOf(c)
    <3>1. \A t \in Task : IF t \in newTasks(c) THEN task'[t] = [task[t] EXCEPT !.run = runOf(c)]
                         ELSE task'[t] = task[t]
      BY <1>tagged, TagType
    <3>2. \A y \in TaskRec : /\ [y EXCEPT !.run = runOf(c)].status = y.status
                            /\ [y EXCEPT !.run = runOf(c)].run = runOf(c)
      BY DEF TaskRec
    <3> QED
      BY <1>1, <3>1, <3>2
  <2> QED
    BY <1>tagged, <1>2, <2>1 DEF TasksCalm
<1>removed. ASSUME NEW t \in Task, removeTask(t) PROVE TasksCalm
  <2>1. \A u \in Task : task'[u] = task[u] \/ task'[u].status = "deleted"
    BY <1>removed, <1>1 DEF removeTask, TasksOK, TaskRec
  <2> QED
    BY <2>1 DEF TasksCalm
<1>deleted. ASSUME NEW t \in Task, removeTask(t), NobodyBegins, JobsFine PROVE Good
  <2>1. RunsOrdered' /\ \A q \in RunId : NoneGained(q)
    BY <1>deleted, <1>0, <1>1, <1>3, RemoveOrder
  <2> QED
    BY <1>deleted, <1>removed, <2>1, <1>good
<1> HIDE DEF Good, NobodyBegins, JobsFine
<1>still. ASSUME UNCHANGED pc PROVE NobodyBegins
  BY <1>still DEF NobodyBegins
<1>none. CASE UNCHANGED vars
  BY <1>none, <1>same, <1>still, <1>calm, <1>old DEF vars, team, Good
<1>arrive. ASSUME NEW c \in Call, NEW s, Arrive(c, s), UNCHANGED <<runs, task, jobs>> PROVE Good
  BY <1>arrive, <1>go, <1>same, <1>calm, <1>old DEF Arrive
<1>4. ASSUME NEW c \in Call, NEW s \in Session, RequestIntake(c, s) PROVE Good
  BY <1>4, <1>arrive DEF RequestIntake, team
<1>5. ASSUME NEW c \in Call, NEW r \in asked, AnswerQuestion(r, c) PROVE Good
  BY <1>5, <1>arrive DEF AnswerQuestion
<1>6. ASSUME NEW c \in Call, Enter(c) PROVE Good
  <2>1. 0 \in 0..MaxRetries
    BY IntakeAssumption DEF IntakeAssumption
  <2> QED
    BY <1>6, <2>1, <1>begins DEF Enter
<1>7. ASSUME NEW c \in Call, Retry(c) PROVE Good
  <2>1. body[c].attempt + 1 \in 0..MaxRetries
    BY <1>7, IntakeAssumption, RunOfType DEF Retry, BodiesOK, Retries, BodyRec, IntakeAssumption
  <2> QED
    BY <1>7, <2>1, <1>begins DEF Retry
<1>8. ASSUME NEW c \in Call, AgentStarts(c) PROVE Good
  <2>1. /\ pc[c] = "starting" /\ pc' = [pc EXCEPT ![c] = "running"]
        /\ runs' = record(runOf(c), "running") /\ UNCHANGED <<task, jobs>>
    BY <1>8 DEF AgentStarts
  <2> QED
    BY <2>1, <1>go, <1>running, <1>calm, <1>old DEF Working
<1>9. ASSUME NEW c \in Call, RequestFails(c) PROVE Good
  <2>1. fail(c) /\ UNCHANGED <<runs, task, jobs>>
    BY <1>9 DEF RequestFails, team
  <2> QED
    BY <2>1, <1>fails, <1>same, <1>calm, <1>old
<1>10. ASSUME NEW c \in Call, RunSucceeds(c) PROVE Good
  <2>1. /\ pc[c] = "running" /\ pc' = [pc EXCEPT ![c] = "reading"]
        /\ tagControllerCreatedTasks(c) /\ UNCHANGED <<runs, jobs>>
    BY <1>10 DEF RunSucceeds
  <2> QED
    BY <2>1, <1>go, <1>same, <1>tagged, <1>old DEF Working
<1>11. ASSUME NEW c \in Call, RunFails(c) PROVE Good
  <2>1. /\ pc[c] = "running" /\ fail(c) /\ tagControllerCreatedTasks(c) /\ UNCHANGED jobs
        /\ runs' = updateControllerRun(runOf(c),
                     [theRun(runOf(c)) EXCEPT !.status = "failed", !.created = createdTaskIds(c)])
    BY <1>11 DEF RunFails, runFailed
  <2>2. pc'[c] \notin Working /\ createdTaskIds(c) \in SUBSET Task
    BY <2>1, FailFrame, RunOfType DEF Working
  <2> QED
    BY <2>1, <2>2, <1>fails, <1>ends, <1>tagged, <1>old DEF Working
<1>12. ASSUME NEW c \in Call, ReadReply(c) PROVE Good
  <2>1. /\ pc[c] = "reading" /\ pc' = [pc EXCEPT ![c] = "filling"] /\ UNCHANGED <<task, jobs>>
        /\ runs' = runs \/ runs' = record(runOf(c), "running")
    BY <1>12 DEF ReadReply
  <2> QED
    BY <2>1, <1>go, <1>same, <1>running, <1>calm, <1>old DEF Working
<1>13. ASSUME NEW c \in Call, NEW t \in Task, BackfillTask(c, t) PROVE Good
  <2>1. /\ pc[c] = "filling" /\ task[t].status = "none" /\ UNCHANGED <<pc, jobs>>
        /\ task' = [task EXCEPT ![t] = [status |-> "open", session |-> sess[c], run |-> runOf(c)]]
        /\ runs' = record(runOf(c), "running")
    BY <1>13 DEF BackfillTask
  <2>2. task'[t].run = runOf(c) /\ \A u \in Task \ {t} : task'[u] = task[u]
    BY <2>1 DEF TasksOK
  <2>3. TasksCalm
    BY <2>1, <2>2, <1>2 DEF TasksCalm, Working
  <2> QED
    BY <2>1, <2>3, <1>still, <1>running, <1>old DEF Working
<1>14. ASSUME NEW c \in Call, Bind(c) PROVE Good
  <2>1. pc[c] = "filling" /\ pc' = [pc EXCEPT ![c] = "kickoff"] /\ UNCHANGED <<runs, jobs>>
    BY <1>14 DEF Bind
  <2>2. \A t \in Task : /\ task'[t].status = task[t].status
                        /\ task'[t].run = task[t].run \/ task'[t].run = runOf(c)
    <3> DEFINE m == body[c].manifest
    <3>1. CASE m \in Task /\ exists(m)
      <4>1. task' = [task EXCEPT ![m].run = runOf(c), ![m].session = sess[c]]
        BY <1>14, <3>1 DEF Bind
      <4> HIDE DEF m
      <4>2. \A t \in Task \ {m} : task'[t] = task[t]
        BY <4>1, <3>1 DEF TasksOK
      <4>3. task'[m].status = task[m].status /\ task'[m].run = runOf(c)
        BY <4>1, <3>1, <1>1 DEF TasksOK, TaskRec
      <4> QED
        BY <4>2, <4>3
    <3>2. CASE ~(m \in Task /\ exists(m))
      BY <1>14, <3>2 DEF Bind
    <3> QED
      BY <3>1, <3>2
  <2>3. TasksCalm
    BY <2>1, <2>2, <1>2 DEF TasksCalm, Working
  <2> QED
    BY <2>1, <2>3, <1>go, <1>same, <1>old
<1>stale. ASSUME NEW i \in DOMAIN runs, canAutoDeleteStaleControllerRun(runs[i])
          PROVE  Over(runs[i].id) /\ Bare(runs[i].id)
  <2>1. /\ active(runs[i]) /\ ~atWork(runs[i].id)
        /\ \A t \in Task : ~(task[t].status = "open" /\ task[t].run = runs[i].id)
    BY <1>stale DEF canAutoDeleteStaleControllerRun, maySilent
  <2>2. Begun(runs[i].id) /\ runs[i].created = {}
    BY <2>1, <1>1 DEF RunsOrdered, RunsBegun, ActiveListNone
  <2>3. \A k \in DOMAIN runs : runs[k].id = runs[i].id => runs[k].created = {}
    BY <2>2, <1>1 DEF RunsOrdered, RunsDiffer
  <2> QED
    BY <2>1, <2>2, <2>3 DEF Over, Bare
\* A deletion that a prune starts with.
<1>cascade. ASSUME NEW by \in Call \cup {None}, NEW r, known(r), Over(r), NEW rest \in Seq(RunId),
                   \A k \in DOMAIN rest : Over(rest[k]),
                   by # None => Bare(r) /\ \A k \in DOMAIN rest : Bare(rest[k])
            PROVE  LET j == cascadeOf(by, r, rest) IN j \in JobRec /\ JobOver(j) /\ SparesOpen(j)
  <2> DEFINE j == cascadeOf(by, r, rest)
  <2>1. j \in JobRec
    BY <1>cascade, CascadeType
  <2>2. /\ j.by = by /\ j.run = r /\ j.rest = rest
        /\ j.tasks = theRun(r).created \cup {t \in Task : exists(t) /\ task[t].run = r}
    BY DEF cascadeOf
  <2> HIDE DEF j
  <2>3. JobOver(j)
    BY <1>cascade, <2>2 DEF JobOver
  <2>4. SparesOpen(j)
    <3> SUFFICES ASSUME by # None PROVE \A t \in j.tasks : task[t].status \in {"settled", "deleted"}
      BY <1>cascade, <2>2 DEF SparesOpen
    <3>1. theRun(r).created = {}
      BY <1>cascade, <1>1, TheRunIs DEF known, Bare, RunsOrdered
    <3> QED
      BY <1>cascade, <2>2, <3>1 DEF Bare, exists
  <2> QED
    BY <2>1, <2>3, <2>4 DEF j
<1>15. ASSUME NEW c \in Call, Complete(c) PROVE Good
  <2>1. /\ pc[c] = "kickoff" /\ UNCHANGED task
        /\ runs' = updateControllerRun(runOf(c),
                     [theRun(runOf(c)) EXCEPT !.status = "completed", !.created = body[c].found])
    BY <1>15 DEF Complete, runCompleted
  <2>2. PICK old : LET ids == staleRunIds(old)
                   IN IF ids = <<>>
                      THEN leave(c, "done") /\ UNCHANGED jobs
                      ELSE /\ pc' = [pc EXCEPT ![c] = "pruning"]
                           /\ jobs' = jobs \cup {cascadeOf(c, Head(ids), Tail(ids))}
                           /\ UNCHANGED <<chain, body>>
    BY <1>15 DEF Complete
  <2> DEFINE ids == staleRunIds(old)
  <2>3. body[c].found \in SUBSET Task
    BY RunOfType DEF BodyRec
  <2>4. NobodyBegins /\ pc'[c] \notin Working /\ JobsFine
    <3>1. CASE ids = <<>>
      <4>1. leave(c, "done") /\ UNCHANGED jobs
        BY <2>2, <3>1
      <4> QED
        BY <4>1, <1>leaves, <1>old, LeaveFrame DEF Ended, Working
    <3>2. CASE ids # <<>>
      <4>1. pc' = [pc EXCEPT ![c] = "pruning"] /\ jobs' = jobs \cup {cascadeOf(c, Head(ids), Tail(ids))}
        BY <2>2, <3>2
      <4>2. /\ ids \in Seq(RunId) /\ known(Head(ids)) /\ Tail(ids) \in Seq(RunId)
            /\ \A k \in DOMAIN ids : \E i \in DOMAIN runs :
                 ids[k] = runs[i].id /\ canAutoDeleteStaleControllerRun(runs[i])
        BY <3>2, StaleKnown
      <4> HIDE DEF ids
      <4>3. \A k \in DOMAIN ids : Over(ids[k]) /\ Bare(ids[k])
        BY <4>2, <1>stale
      <4>4. /\ 1 \in DOMAIN ids /\ Head(ids) = ids[1]
            /\ \A k \in DOMAIN Tail(ids) : k + 1 \in DOMAIN ids /\ Tail(ids)[k] = ids[k + 1]
        BY <4>2, <3>2, HeadAndTail
      <4>5. LET j == cascadeOf(c, Head(ids), Tail(ids)) IN j \in JobRec /\ JobOver(j) /\ SparesOpen(j)
        BY <4>2, <4>3, <4>4, <1>cascade
      <4> QED
        BY <4>1, <4>5, <1>1, <1>go DEF JobsFine, Working, ChainTypeOK
    <3> QED
      BY <3>1, <3>2
  <2> HIDE DEF ids
  <2> QED
    BY <2>1, <2>3, <2>4, <1>ends, <1>calm DEF Working
<1>16. ASSUME NEW r \in RunId, DeleteRunRequest(r) PROVE Good
  <2>1. /\ known(r) /\ ~atWork(r) /\ jobs' = jobs \cup {cascadeOf(None, r, <<>>)}
        /\ UNCHANGED <<pc, runs, task>>
    BY <1>16 DEF DeleteRunRequest
  <2>2. Over(r)
    BY <2>1, <1>1 DEF Over, known, RunsOrdered, RunsBegun
  <2>3. <<>> \in Seq(RunId) /\ DOMAIN <<>> = {}
    BY EmptySeq, Positions
  <2>4. LET j == cascadeOf(None, r, <<>>) IN j \in JobRec /\ JobOver(j) /\ SparesOpen(j)
    BY <2>1, <2>2, <2>3, <1>cascade
  <2>5. JobsFine
    BY <2>1, <2>4, <1>1 DEF JobsFine
  <2> QED
    BY <2>1, <2>5, <1>still, <1>same, <1>calm
<1>end. ASSUME NEW j \in jobs, NEW how \in Ended, endCascade(j, how) PROVE NobodyBegins
  BY <1>end, <1>still, <1>leaves DEF endCascade, Jobs
<1>17. ASSUME NEW j \in jobs, DeleteRun(j) PROVE Good
  <2> DEFINE left == stillKnown(j.rest)
  <2>1. /\ j \in JobRec /\ JobOver(j) /\ SparesOpen(j) /\ j.rest \in Seq(RunId)
        /\ j.by \in Call \cup {None}
    BY <1>1 DEF JobRec
  <2>2. runs' = without(j.run) /\ UNCHANGED task
    BY <1>17 DEF DeleteRun
  <2>3. NobodyBegins /\ JobsFine
    <3>1. CASE left = <<>>
      <4>1. jobs' = jobs \ {j} /\ endCascade(j, "done")
        BY <1>17, <3>1 DEF DeleteRun
      <4> QED
        BY <4>1, <1>old, <1>end DEF Ended
    <3>2. CASE left # <<>>
      <4>1. jobs' = (jobs \ {j}) \cup {cascadeOf(j.by, Head(left), Tail(left))} /\ UNCHANGED pc
        BY <1>17, <3>2 DEF DeleteRun
      <4>2. /\ left \in Seq(RunId) /\ known(Head(left)) /\ Tail(left) \in Seq(RunId)
            /\ \A k \in DOMAIN left : \E i \in DOMAIN j.rest : left[k] = j.rest[i]
        BY <2>1, <3>2, StillKnownType
      <4> HIDE DEF left
      <4>3. \A k \in DOMAIN left : Over(left[k]) /\ (j.by # None => Bare(left[k]))
        BY <2>1, <4>2 DEF JobOver, SparesOpen
      <4>4. /\ 1 \in DOMAIN left /\ Head(left) = left[1]
            /\ \A k \in DOMAIN Tail(left) : k + 1 \in DOMAIN left /\ Tail(left)[k] = left[k + 1]
        BY <4>2, <3>2, HeadAndTail
      <4>5. LET k == cascadeOf(j.by, Head(left), Tail(left))
            IN k \in JobRec /\ JobOver(k) /\ SparesOpen(k)
        BY <2>1, <4>2, <4>3, <4>4, <1>cascade
      <4> QED
        BY <4>1, <4>5, <1>1, <1>still DEF JobsFine
    <3> QED
      BY <3>1, <3>2
  <2>4. RunsOrdered' /\ \A q \in RunId : NoneGained(q)
    BY <2>1, <2>2, <2>3, <1>0, <1>1, <1>3, DropOrder DEF JobOver, NobodyBegins
  <2> QED
    BY <2>2, <2>3, <2>4, <1>good, <1>calm
<1>18. ASSUME NEW j \in jobs, NEW t \in j.tasks, DeleteTask(j, t) PROVE Good
  <2> DEFINE k == [j EXCEPT !.tasks = @ \ {t}]
  <2>1. j \in JobRec /\ JobOver(j) /\ SparesOpen(j) /\ t \in Task
    BY <1>1 DEF JobRec
  <2>2. k \in JobRec /\ k.by = j.by /\ k.run = j.run /\ k.rest = j.rest /\ k.tasks \subseteq j.tasks
    BY <2>1 DEF JobRec
  <2>3. /\ jobs' = (jobs \ {j}) \cup {k} /\ UNCHANGED pc
        /\ removeTask(t) \/ UNCHANGED <<task, runs>>
    BY <1>18 DEF DeleteTask
  <2> HIDE DEF k
  <2>4. JobOver(k) /\ SparesOpen(k)
    BY <2>1, <2>2 DEF JobOver, SparesOpen
  <2>5. JobsFine
    BY <2>2, <2>3, <2>4, <1>1 DEF JobsFine
  <2> QED
    BY <2>1, <2>3, <2>5, <1>still, <1>deleted, <1>same, <1>calm
<1>19. ASSUME NEW j \in jobs, NEW t \in j.tasks, CleanupFails(j, t) PROVE Good
  <2>1. t \in Task
    BY <1>1 DEF JobRec
  <2>2. removeTask(t) /\ jobs' = jobs \ {j} /\ endCascade(j, "failed")
    BY <1>19 DEF CleanupFails
  <2> QED
    BY <2>1, <2>2, <1>end, <1>deleted, <1>old DEF Ended
<1>20. ASSUME NEW r \in agents, NEW t \in Task, CreateTask(r, t) PROVE Good
  <2>1. /\ task[t].status = "none" /\ UNCHANGED <<pc, runs, jobs>>
        /\ task' = [task EXCEPT ![t] = [status |-> "open", session |-> sess[r[1]], run |-> None]]
    BY <1>20 DEF CreateTask
  <2>2. task'[t].run = None /\ \A u \in Task \ {t} : task'[u] = task[u]
    BY <2>1 DEF TasksOK
  <2>3. TasksCalm
    BY <2>1, <2>2, IntakeAssumption DEF TasksCalm, IntakeAssumption
  <2> QED
    BY <2>1, <2>3, <1>still, <1>same, <1>old
<1>21. ASSUME NEW r \in agents, NEW m \in Manifest, SubmitManifest(r, m) PROVE Good
  <2>1. /\ runs' = record(latestRun(sess[r[1]]), "running") /\ UNCHANGED <<pc, task, jobs>>
    BY <1>21 DEF SubmitManifest
  <2>2. r[1] \in Call /\ pc[r[1]] = "running" /\ r = runOf(r[1])
    BY <1>1 DEF AgentsAwaited, IdsOK, RunId
  <2>3. latestRun(sess[r[1]]) = runOf(r[1])
    BY <2>2, <1>1, LatestIs DEF RunsOrdered, WorkersStand, Working
  <2> QED
    BY <2>1, <2>2, <2>3, <1>still, <1>running, <1>calm, <1>old DEF Working
<1>22. ASSUME NEW r \in agents, AgentEnds(r) PROVE Good
  BY <1>22, <1>still, <1>same, <1>calm, <1>old DEF AgentEnds
<1>23. ASSUME NEW t \in Task, TaskSettles(t) PROVE Good
  <2>1. /\ task[t].status = "open" /\ UNCHANGED <<pc, runs, jobs>>
        /\ task' = [task EXCEPT ![t].status = "settled"]
    BY <1>23 DEF TaskSettles
  <2>2. task'[t].status = "settled" /\ \A u \in Task \ {t} : task'[u] = task[u]
    BY <2>1, <1>1 DEF TasksOK, TaskRec
  <2>3. TasksCalm
    BY <2>2 DEF TasksCalm
  <2> QED
    BY <2>1, <2>3, <1>still, <1>same, <1>old
<1> HIDE DEF TInv, IInv, ChainInv, DataInv
<1>24. ASSUME Next PROVE Good
  BY <1>4, <1>5, <1>6, <1>7, <1>8, <1>9, <1>10, <1>11, <1>12, <1>13,
     <1>14, <1>15, <1>16, <1>17, <1>18, <1>19, <1>20, <1>21, <1>22, <1>23, <1>24, Zenon DEF Next
<1> QED
  BY <1>none, <1>24 DEF Good

\* What is open is not deleted by a prune.
LEMMA NextSpares ==
  TInv /\ PrunesSpare /\ [Next]_vars =>
    \A t \in Task : task[t].status = "open" /\ task'[t].status = "deleted" =>
      \E j \in jobs : j.by = None /\ t \in j.tasks
<1> SUFFICES ASSUME TInv, PrunesSpare, [Next]_vars, NEW t \in Task,
                    task[t].status = "open", task'[t].status = "deleted"
             PROVE  \E j \in jobs : j.by = None /\ t \in j.tasks
  OBVIOUS
<1> USE DEF TInv, DataInv
<1>0. \A u \in Task : task[u] \in TaskRec
  BY DEF TasksOK
<1>a. ASSUME NEW c \in Call, tagControllerCreatedTasks(c) PROVE FALSE
  BY <1>a, <1>0, TagType DEF TaskRec
<1>b. ASSUME NEW j \in jobs, NEW u \in j.tasks, removeTask(u)
      PROVE  \E k \in jobs : k.by = None /\ t \in k.tasks
  <2>1. \A v \in Task \ {u} : task'[v] = task[v]
    BY <1>b DEF removeTask, TasksOK
  <2>2. t = u
    BY <2>1
  <2> QED
    BY <1>b, <2>2 DEF PrunesSpare, SparesOpen
<1>1. UNCHANGED task => FALSE
  OBVIOUS
<1> HIDE DEF TInv, DataInv
<1>2. ASSUME NEW c \in Call, NEW u \in Task, BackfillTask(c, u) PROVE FALSE
  BY <1>2, <1>0 DEF BackfillTask, TasksOK, TInv, DataInv
<1>3. ASSUME NEW c \in Call, Bind(c) PROVE FALSE
  <2> DEFINE m == body[c].manifest
  <2>1. m \in Task /\ task' = [task EXCEPT ![m].run = runOf(c), ![m].session = sess[c]]
    BY <1>3 DEF Bind
  <2> HIDE DEF m
  <2>2. \A u \in Task \ {m} : task'[u] = task[u]
    BY <2>1 DEF TasksOK, TInv, DataInv
  <2>3. task'[m].status = task[m].status
    BY <2>1, <1>0 DEF TasksOK, TaskRec, TInv, DataInv
  <2> QED
    BY <2>2, <2>3
<1>4. ASSUME NEW r \in agents, NEW u \in Task, CreateTask(r, u) PROVE FALSE
  BY <1>4 DEF CreateTask, TasksOK, TInv, DataInv
<1>5. ASSUME NEW u \in Task, TaskSettles(u) PROVE FALSE
  BY <1>5, <1>0 DEF TaskSettles, TasksOK, TaskRec, TInv, DataInv
<1>6. CASE UNCHANGED vars
  BY <1>6, <1>1 DEF vars, team
<1>7. CASE Next
  <2>1. ASSUME NEW c \in Call,
               \/ \E s \in Session : RequestIntake(c, s)
               \/ \E r \in asked : AnswerQuestion(r, c)
               \/ Enter(c) \/ Retry(c) \/ AgentStarts(c) \/ RequestFails(c)
               \/ ReadReply(c) \/ Complete(c)
        PROVE  FALSE
    BY <2>1, <1>1 DEF RequestIntake, AnswerQuestion, Enter, Retry, begin, AgentStarts, RequestFails,
                      ReadReply, Complete, team
  <2>2. ASSUME NEW c \in Call, RunSucceeds(c) \/ RunFails(c) PROVE FALSE
    BY <2>2, <1>a DEF RunSucceeds, RunFails
  <2>3. ASSUME NEW r \in RunId, DeleteRunRequest(r) PROVE FALSE
    BY <2>3, <1>1 DEF DeleteRunRequest
  <2>4. ASSUME NEW j \in jobs, DeleteRun(j) PROVE FALSE
    BY <2>4, <1>1 DEF DeleteRun
  <2>5. ASSUME NEW j \in jobs, NEW u \in j.tasks, DeleteTask(j, u) \/ CleanupFails(j, u)
        PROVE  \E k \in jobs : k.by = None /\ t \in k.tasks
    BY <2>5, <1>1, <1>b DEF DeleteTask, CleanupFails
  <2>6. ASSUME NEW r \in agents, AgentEnds(r) \/ \E m \in Manifest : SubmitManifest(r, m) PROVE FALSE
    BY <2>6, <1>1 DEF AgentEnds, SubmitManifest
  <2> QED
    BY <1>7, <1>2, <1>3, <1>4, <1>5, <2>1, <2>2, <2>3, <2>4, <2>5, <2>6, Zenon DEF Next
<1> QED
  BY <1>6, <1>7

\* In the beginning there are no calls and no runs.
LEMMA InitOrder == Init => Alone /\ OrderInv /\ PrunesSpare
<1> SUFFICES ASSUME Init PROVE Alone /\ OrderInv /\ PrunesSpare
  OBVIOUS
<1>1. Alone
  BY DEF Init, Alone, OneInside, InLine, Inside
<1>2. DOMAIN runs = {}
  BY DEF Init
<1>3. RunsBegun /\ RunsDiffer /\ ActiveListNone
  BY <1>2 DEF RunsBegun, RunsDiffer, ActiveListNone
<1>4. WorkersStand /\ JobsAreOver /\ PrunesSpare
  BY DEF Init, WorkersStand, Working, JobsAreOver, PrunesSpare
<1> QED
  BY <1>1, <1>3, <1>4 DEF OrderInv

\* At most one call of a session is at work, whatever fails (withSerializedControllerIntake).
THEOREM OneCallAtATime == Spec => []OneInside
<1>1. Init => IInv /\ Alone
  BY InitInv, InitOrder
<1>2. IInv /\ Alone /\ [Next]_vars => IInv' /\ Alone'
  BY NextInv, ChainStepAlone DEF IInv
<1>3. Alone => OneInside
  BY DEF Alone
<1> QED
  BY <1>1, <1>2, <1>3, PTL DEF Spec

AllInv == TInv /\ ClaimInv /\ Alone /\ OrderInv /\ PrunesSpare

LEMMA NextAll ==
  ASSUME "probe" \notin Ops, "deleteLive" \notin Ops, "running" \notin Faults, "hang" \notin Faults
  PROVE  AllInv /\ (Room \/ RunsAtWorkKept') /\ [Next]_vars => AllInv'
<1>1. TInv /\ Alone /\ [Next]_vars => TInv' /\ Alone'
  BY NextInv, NextData, ChainStepAlone DEF TInv, IInv
<1>2. TInv /\ ClaimInv /\ [Next]_vars => ClaimInv'
  BY NextClaims
<1>3. TInv /\ ClaimInv /\ Alone /\ OrderInv /\ PrunesSpare /\ (Room \/ RunsAtWorkKept') /\ [Next]_vars =>
        OrderInv' /\ PrunesSpare'
  BY NextOrder
<1> QED
  BY <1>1, <1>2, <1>3 DEF AllInv

\* The run of a call at work stays in the list, although only the last MAX_CONTROLLER_RUNS
\* are kept, while there is room or if there is one session, whatever is deleted or pruned
\* meanwhile (trimControllerRuns).
THEOREM RunsAtWorkStay ==
  ASSUME "probe" \notin Ops, "deleteLive" \notin Ops, "running" \notin Faults, "hang" \notin Faults
  PROVE  Spec /\ []Room => []RunsAtWorkKept
<1>1. Init => AllInv
  BY InitInv, InitData, InitClaims, InitOrder DEF AllInv, TInv
<1>2. AllInv /\ Room /\ [Next]_vars => AllInv'
  BY NextAll
<1>3. AllInv => RunsAtWorkKept
  BY DEF AllInv, OrderInv, WorkersStand, Stands, RunsAtWorkKept, known
<1> QED
  BY <1>1, <1>2, <1>3, PTL DEF Spec

\* A manifest that an agent submits is filed with the run of that agent, although it is
\* filed with the latest active run of the session, and runs of failed attempts stay
\* active (findLatestControllerRunIdForSession): as long as no run is dropped or deleted
\* while a call works on it, and no call gives its agent up.
THEOREM ManifestsAreFiledRight ==
  ASSUME "probe" \notin Ops, "deleteLive" \notin Ops, "running" \notin Faults, "hang" \notin Faults
  PROVE  Spec /\ []RunsAtWorkKept => []ManifestsReachTheirRun
<1>1. Init => AllInv
  BY InitInv, InitData, InitClaims, InitOrder DEF AllInv, TInv
<1>2. AllInv /\ RunsAtWorkKept' /\ [Next]_vars => AllInv'
  BY NextAll
<1>3. AllInv => ManifestsReachTheirRun
  <2> SUFFICES ASSUME AllInv, NEW r \in agents PROVE latestRun(sess[r[1]]) = r
    BY DEF ManifestsReachTheirRun
  <2>1. r[1] \in Call /\ pc[r[1]] = "running" /\ r = runOf(r[1])
    BY DEF AllInv, TInv, DataInv, ClaimInv, AgentsAwaited, IdsOK, RunId
  <2>2. Stands(r[1]) /\ RunsOK(runs)
    BY <2>1 DEF AllInv, OrderInv, WorkersStand, Working, TInv, DataInv
  <2> QED
    BY <2>1, <2>2, LatestIs
<1> QED
  BY <1>1, <1>2, <1>3, PTL DEF Spec

\* Pruning deletes no open task, also while other calls bind tasks to their runs between
\* its awaits, under the same conditions (canAutoDeleteStaleControllerRun).
THEOREM PruningSparesOpenTasks ==
  ASSUME "probe" \notin Ops, "deleteLive" \notin Ops, "running" \notin Faults, "hang" \notin Faults
  PROVE  Spec /\ []RunsAtWorkKept => PruneSparesOpenTasks
<1>1. Init => AllInv
  BY InitInv, InitData, InitClaims, InitOrder DEF AllInv, TInv
<1>2. AllInv /\ RunsAtWorkKept' /\ [Next]_vars => AllInv'
  BY NextAll
<1>3. AllInv /\ [Next]_vars =>
        [\A t \in Task : task[t].status = "open" /\ task'[t].status = "deleted" =>
           \E j \in jobs : j.by = None /\ t \in j.tasks]_vars
  BY NextSpares DEF AllInv
<1> QED
  BY <1>1, <1>2, <1>3, PTL DEF Spec, PruneSparesOpenTasks

\* With one session nothing has to be assumed of the runs that are kept: manifests reach
\* their run and prunes spare open tasks however short the list is.
THEOREM OneSessionIsSafe ==
  ASSUME "probe" \notin Ops, "deleteLive" \notin Ops, "running" \notin Faults, "hang" \notin Faults,
         \A s, u \in Session : s = u
  PROVE  Spec => []ManifestsReachTheirRun /\ PruneSparesOpenTasks
<1>1. Room
  BY DEF Room
<1>2. Spec /\ []Room => []RunsAtWorkKept
  BY RunsAtWorkStay
<1>3. Spec /\ []RunsAtWorkKept => []ManifestsReachTheirRun
  BY ManifestsAreFiledRight
<1>4. Spec /\ []RunsAtWorkKept => PruneSparesOpenTasks
  BY PruningSparesOpenTasks
<1> QED
  BY <1>1, <1>2, <1>3, <1>4, PTL
=============================================================================
