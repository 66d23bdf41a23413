------------------------ MODULE Provisioning_proofs ------------------------
(***************************************************************************)
(* What TLAPS proves of Provisioning, for every number of workers and of   *)
(* tasks, every minimum and maximum, both kinds of backends and every      *)
(* choice of failures that a theorem does not exclude by an assumption.    *)
(***************************************************************************)
EXTENDS Provisioning, FiniteSetTheorems, TLAPS

USE DEF RecStatus, Rec, NoRec, Caller, Call, NoCall, Term, Beat, NoBeat

-----------------------------------------------------------------------------
(* Types of the helpers. *)

\* What a pass wants to launch is a number.
LEMMA DemandType ==
  ASSUME NEW r, task \in [Task -> TaskRec]
  PROVE  computeRoleDemand(r) \in Nat
<1>1. \A S \in SUBSET Worker : Cardinality(S) \in Nat
  BY ProvisioningAssumption, FS_Subset, FS_CardinalityType
<1>2. Cardinality(Pending) \in Nat
  BY ProvisioningAssumption, FS_Subset, FS_CardinalityType DEF Pending
<1>3. /\ Cardinality(Active) \in Nat
      /\ Cardinality({w \in Worker : r[w].st = "launching"}) \in Nat
      /\ Cardinality({w \in Worker : member[w] = "idle"}) \in Nat
  BY <1>1 DEF Active
<1> QED
  BY <1>2, <1>3, ProvisioningAssumption DEF computeRoleDemand, Plus, Less

\* The number of active workers is one, too.
LEMMA ActiveType == Cardinality(Active) \in Nat
  BY ProvisioningAssumption, FS_Subset, FS_CardinalityType DEF Active

LEMMA ZeroAge == 0 \in 0..2
  OBVIOUS

\* The records that the steps make of a record are records.
LEMMA StatusType ==
  ASSUME NEW r \in Rec, NEW x \in RecStatus, NEW k \in 0..2
  PROVE  /\ [r EXCEPT !.st = x] \in Rec
         /\ [r EXCEPT !.age = k] \in Rec
         /\ [r EXCEPT !.st = x, !.age = k] \in Rec
  OBVIOUS
LEMMA IdleType ==
  ASSUME NEW r \in Rec, NEW k \in 0..2
  PROVE  /\ [r EXCEPT !.idle = FALSE] \in Rec
         /\ [r EXCEPT !.idle = TRUE, !.age = k] \in Rec
  OBVIOUS
LEMMA InstType ==
  ASSUME NEW r \in Rec, NEW i \in BOOLEAN
  PROVE  [r EXCEPT !.inst = i] \in Rec
  OBVIOUS
LEMMA ClosedType ==
  ASSUME NEW r \in Rec, NEW x \in RecStatus, NEW k \in 0..2
  PROVE  [r EXCEPT !.st = x, !.idle = FALSE, !.age = k] \in Rec
  OBVIOUS

\* A heartbeat and a refresh leave a record.
LEMMA PromotedType ==
  ASSUME NEW r \in Rec
  PROVE  promoted(r) \in Rec
<1>1. "registered" \in RecStatus /\ 0 \in 0..2
  OBVIOUS
<1> HIDE DEF RecStatus, Rec
<1>2. [r EXCEPT !.st = "registered", !.age = 0] \in Rec
  BY <1>1, StatusType, Zenon
<1> QED
  BY <1>2 DEF promoted
LEMMA SeenType ==
  ASSUME NEW r \in Rec, NEW m
  PROVE  seen(r, m) \in Rec
  BY IdleType, ZeroAge DEF seen
LEMMA RefreshedType ==
  ASSUME NEW r \in Rec, NEW m
  PROVE  refreshed(r, m) \in Rec
<1>1. seen(promoted(r), m) \in Rec
  BY PromotedType, SeenType
<1>2. NoRec \in Rec
  OBVIOUS
<1> QED
  BY <1>1, <1>2 DEF refreshed

\* What a termination changes keeps its type.
RecordsOK == /\ rec \in [Worker -> Rec]
             /\ member \in [Worker -> {"none", "idle", "busy", "offline"}]
             /\ terms \subseteq Term
             /\ missed \subseteq Worker

LEMMA TerminateType ==
  ASSUME RecordsOK, NEW r \in [Worker -> Rec], NEW w \in Worker,
         NEW final \in {"failed", "terminated"}, NEW by \in {"pass", "api", "delete", "stop"},
         terminateFrom(r, w, final, by)
  PROVE  RecordsOK'
<1>1. CASE r[w].st = "none"
  BY <1>1 DEF terminateFrom, records, RecordsOK
<1>2. CASE r[w].st # "none"
  <2>1. Targets(w) \in BOOLEAN
    BY DEF Targets
  <2>2. [w |-> w, final |-> final, by |-> by, kill |-> Targets(w)] \in Term
    BY <2>1
  <2>3. rec' \in [Worker -> Rec]
    BY <1>2 DEF terminateFrom
  <2>4. member' \in [Worker -> {"none", "idle", "busy", "offline"}]
    BY <1>2 DEF terminateFrom, offline, RecordsOK
  <2> QED
    BY <1>2, <2>2, <2>3, <2>4 DEF terminateFrom, RecordsOK
<1> QED
  BY <1>1, <1>2

\* So does the removal of a worker.
LEMMA RemovedType ==
  ASSUME RecordsOK, NEW w \in Worker, NEW by \in {"pass", "api", "delete", "stop"},
         NEW x \in {"none", "idle", "busy", "offline"},
         onWorkerRemoved(w, by, x)
  PROVE  RecordsOK'
<1>1. CASE Removable(w)
  BY <1>1, TerminateType DEF onWorkerRemoved, terminateManagedWorker, RecordsOK
<1>2. CASE ~Removable(w)
  BY <1>2 DEF onWorkerRemoved, RecordsOK
<1> QED
  BY <1>1, <1>2

\* A request leaves a pass and a flag.
LEMMA RequestType ==
  ASSUME pass \in Pass, queued \in BOOLEAN, requestReconcile
  PROVE  pass' \in Pass /\ queued' \in BOOLEAN
<1>1. [Idle EXCEPT !.pc = "begin"] \in Pass
  BY DEF Idle, Pass, PassPc
<1> QED
  BY <1>1 DEF requestReconcile, Requested

\* A launch changes its call and forgets what was known of the worker's id.
LEMMA LaunchType ==
  ASSUME ProvTypeOK, NEW w \in Worker, NEW who \in Caller, launchWorker(w, who)
  PROVE  /\ RecordsOK'
         /\ call' \in [Worker -> Call]
         /\ inst' \in [Worker -> {"none", "up", "dead"}]
         /\ joined' \subseteq Worker
         /\ beat' \in Beat
  BY DEF launchWorker, ProvTypeOK, RecordsOK

\* Requeued tasks are tasks.
LEMMA RequeuedType ==
  ASSUME task \in [Task -> TaskRec], NEW lost
  PROVE  requeued(lost) \in [Task -> TaskRec]
  BY DEF requeued, TaskRec

\* What a pass does next is a pass.
LEMMA PassType ==
  ASSUME ProvTypeOK
  PROVE  /\ \A r : Demanded(r) \in Pass
         /\ \A pc \in PassPc : [Idle EXCEPT !.pc = pc] \in Pass
         /\ \A pc \in PassPc, S \in SUBSET Worker : [Idle EXCEPT !.pc = pc, !.todo = S] \in Pass
         /\ Idle \in Pass
<1>1. task \in [Task -> TaskRec]
  BY DEF ProvTypeOK
<1>2. \A r : computeRoleDemand(r) \in Nat
  BY <1>1, DemandType
<1>3. ASSUME NEW k \in Nat
      PROVE  [Idle EXCEPT !.pc = "launch", !.n = k] \in Pass
  BY DEF Idle, Pass, PassPc
<1>4. \A r : Demanded(r) \in Pass
  BY <1>2, <1>3 DEF Demanded
<1>5. \A pc \in PassPc : [Idle EXCEPT !.pc = pc] = [pc |-> pc, todo |-> {}, n |-> 0]
  BY DEF Idle
<1>6. ASSUME NEW pc \in PassPc, NEW S \in SUBSET Worker
      PROVE  [Idle EXCEPT !.pc = pc, !.todo = S] \in Pass
  <2>1. [Idle EXCEPT !.pc = pc] \in Pass
    BY DEF Idle, Pass
  <2>2. \A p \in Pass : [p EXCEPT !.todo = S] \in Pass
    BY DEF Pass
  <2> QED
    BY <2>1, <2>2
<1>7. Idle \in Pass
  BY DEF Idle, Pass, PassPc
<1> QED
  BY <1>4, <1>5, <1>6, <1>7 DEF Pass

\* A turn of the scale-down loop leaves a pass and records.
LEMMA ScaleType ==
  ASSUME ProvTypeOK, NEW listed \in SUBSET Worker, NEW active \in Nat, scaleDown(listed, active)
  PROVE  RecordsOK' /\ pass' \in Pass
<1> DEFINE ripe == {w \in listed : rec[w].idle /\ rec[w].age > 0}
<1>1. CASE /\ pass' = [Idle EXCEPT !.pc = IF queued /\ ~Stopped THEN "begin" ELSE "settling"]
           /\ UNCHANGED records
  BY <1>1, PassType DEF ProvTypeOK, RecordsOK, records, PassPc
<1>2. CASE /\ active > MinPerRole
           /\ \E w \in ripe : /\ pass' = [pc |-> "retire", todo |-> ripe \ {w}, n |-> active - 1]
                              /\ terminateManagedWorker(w, "terminated", "pass")
  <2>1. PICK w \in ripe : /\ pass' = [pc |-> "retire", todo |-> ripe \ {w}, n |-> active - 1]
                          /\ terminateManagedWorker(w, "terminated", "pass")
    BY <1>2
  <2>2. active - 1 \in Nat
    BY <1>2, ProvisioningAssumption
  <2>3. RecordsOK'
    BY <2>1, TerminateType DEF terminateManagedWorker, ProvTypeOK, RecordsOK
  <2> QED
    BY <2>1, <2>2, <2>3 DEF Pass, PassPc
<1> QED
  BY <1>1, <1>2 DEF scaleDown

-----------------------------------------------------------------------------
(* The type invariant. *)

LEMMA InitType == Init => ProvTypeOK
<1> SUFFICES ASSUME Init PROVE ProvTypeOK
  OBVIOUS
<1>1. NoRec \in Rec /\ NoCall \in Call /\ NoBeat \in Beat
  OBVIOUS
<1>2. Idle \in Pass
  BY DEF Idle, Pass, PassPc
<1>3. rec \in [Worker -> Rec] /\ call \in [Worker -> Call]
  BY <1>1 DEF Init
<1>4. task \in [Task -> TaskRec] /\ stop \in Stop /\ warm \in Warm
  BY DEF Init, TaskRec, Stop, Warm
<1>5. faults \in 0..MaxFaults
  BY ProvisioningAssumption DEF Init
<1> QED
  BY <1>1, <1>2, <1>3, <1>4, <1>5 DEF Init, ProvTypeOK

\* The other variables of the type invariant.
RestOK == /\ inst \in [Worker -> {"none", "up", "dead"}]
          /\ joined \subseteq Worker
          /\ beat \in Beat
          /\ call \in [Worker -> Call]
          /\ pass \in Pass
          /\ queued \in BOOLEAN
          /\ warm \in Warm
          /\ stop \in Stop
          /\ config \in {"unread", "ok", "bad"}
          /\ task \in [Task -> TaskRec]
          /\ faults \in 0..MaxFaults
          /\ left \subseteq Worker

TypesOK == RecordsOK /\ RestOK

LEMMA FailType ==
  ASSUME ProvTypeOK, NEW kind, Fail(kind)
  PROVE  faults' \in 0..MaxFaults
  BY ProvisioningAssumption DEF ProvTypeOK, Fail, MayFail

LEMMA NextType == ProvTypeOK /\ [Next]_vars => ProvTypeOK'
<1> SUFFICES ASSUME ProvTypeOK, [Next]_vars
             PROVE  TypesOK'
  BY DEF TypesOK, RecordsOK, RestOK, ProvTypeOK
<1>a. RecordsOK /\ RestOK
  BY DEF TypesOK, RecordsOK, RestOK, ProvTypeOK
<1>b. pass \in Pass /\ queued \in BOOLEAN
  BY DEF ProvTypeOK
<1> USE DEF TypesOK, records, world, requests, others
<1>1. CASE BeginPass
  <2> DEFINE now == [w \in Worker |-> refreshed(rec[w], member[w])]
             late == {w \in Worker : now[w].st = "launching" /\ now[w].age > 0}
  <2>1. now \in [Worker -> Rec]
    BY RefreshedType DEF ProvTypeOK
  <2> HIDE DEF now
  <2>2. CASE pass' = Demanded(now) /\ rec' = now /\ UNCHANGED <<member, terms, missed>>
    BY <1>1, <1>a, <2>1, <2>2, PassType DEF BeginPass, RecordsOK, RestOK
  <2>3. CASE \E w \in late : /\ pass' = [Idle EXCEPT !.pc = "expire", !.todo = late \ {w}]
                             /\ terminateFrom(now, w, "failed", "pass")
    <3>1. PICK w \in late : /\ pass' = [Idle EXCEPT !.pc = "expire", !.todo = late \ {w}]
                            /\ terminateFrom(now, w, "failed", "pass")
      BY <2>3
    <3>2. RecordsOK'
      BY <1>a, <2>1, <3>1, TerminateType
    <3>3. pass' \in Pass
      <4>1. "expire" \in PassPc /\ late \ {w} \in SUBSET Worker
        BY DEF PassPc
      <4> QED
        BY <3>1, <4>1, PassType
    <3> QED
      BY <1>1, <1>a, <3>2, <3>3 DEF BeginPass, RestOK
  <2> QED
    BY <1>1, <2>2, <2>3 DEF BeginPass, now
<1>2. ASSUME NEW w \in Worker, ExpireLaunch(w) PROVE TypesOK'
  <2>1. RecordsOK'
    BY <1>2, <1>a, TerminateType DEF ExpireLaunch, terminateManagedWorker, RecordsOK
  <2>2. pass' \in Pass
    BY <1>2, <1>b DEF ExpireLaunch, Pass
  <2> QED
    BY <1>2, <1>a, <2>1, <2>2 DEF ExpireLaunch, RestOK
<1>3. CASE ComputeDemand
  BY <1>3, <1>a, PassType DEF ComputeDemand, RecordsOK, RestOK
<1>4. ASSUME NEW w \in Worker, PassLaunches(w) PROVE TypesOK'
  <2>1. pass' \in Pass
    <3>1. pass.n \in Nat /\ pass.n > 0
      BY <1>4, <1>b DEF PassLaunches, Pass
    <3>2. pass.n - 1 \in Nat
      BY <3>1
    <3> QED
      BY <1>4, <1>b, <3>2 DEF PassLaunches, Pass
  <2> QED
    BY <1>4, <1>a, <2>1, LaunchType DEF PassLaunches, RestOK
<1>5. CASE ListIdle
  <2> DEFINE listed == IF Pending # {} THEN {}
                       ELSE {w \in Worker : member[w] = "idle" /\ rec[w].st = "registered"}
  <2>1. listed \in SUBSET Worker
    OBVIOUS
  <2>2. scaleDown(listed, Cardinality(Active))
    BY <1>5 DEF ListIdle
  <2> HIDE DEF listed
  <2>3. RecordsOK' /\ pass' \in Pass
    BY <2>1, <2>2, ActiveType, ScaleType
  <2> QED
    BY <1>5, <1>a, <2>3 DEF ListIdle, RestOK
<1>6. CASE RetireNext
  <2>1. pass.todo \in SUBSET Worker /\ pass.n \in Nat
    BY <1>b DEF Pass
  <2>2. RecordsOK' /\ pass' \in Pass
    BY <1>6, <2>1, ScaleType DEF RetireNext
  <2> QED
    BY <1>6, <1>a, <2>2 DEF RetireNext, RestOK
<1>7. CASE ClearPromise
  BY <1>7, <1>a, PassType DEF ClearPromise, RecordsOK, RestOK
<1>8. ASSUME NEW w \in Worker, PortReserved(w) PROVE TypesOK'
  <2>1. [NoRec EXCEPT !.st = "launching"] \in Rec
    <3>1. NoRec \in Rec /\ "launching" \in RecStatus
      OBVIOUS
    <3> HIDE DEF Rec, RecStatus, NoRec
    <3> QED
      BY <3>1, ZeroAge, StatusType, Zenon
  <2>2. rec' \in [Worker -> Rec] /\ call' \in [Worker -> Call]
    BY <1>8, <2>1 DEF PortReserved, ProvTypeOK
  <2> QED
    BY <1>8, <1>a, <2>2 DEF PortReserved, RecordsOK, RestOK
<1>9. ASSUME NEW w \in Worker, PortFails(w) PROVE TypesOK'
  <2>1. call' \in [Worker -> Call] /\ warm' \in Warm
    BY <1>9 DEF PortFails, ProvTypeOK, Warm
  <2>2. pass' \in Pass
    BY <1>9, <1>b, PassType DEF PortFails, PassPc
  <2> QED
    BY <1>9, <1>a, <2>1, <2>2, FailType DEF PortFails, RecordsOK, RestOK
<1>10. ASSUME NEW w \in Worker, Spawn(w) PROVE TypesOK'
  BY <1>10, <1>a DEF Spawn, RecordsOK, RestOK
<1>11. ASSUME NEW w \in Worker, LaunchReturns(w) PROVE TypesOK'
  <2>1. rec' \in [Worker -> Rec] /\ call' \in [Worker -> Call]
    <3> DEFINE known == ~KnowsChild /\ rec[w].st # "none"
    <3>1. known \in BOOLEAN /\ rec[w] \in Rec
      BY DEF ProvTypeOK
    <3>2. rec' = [rec EXCEPT ![w] = [rec[w] EXCEPT !.inst = known]]
      BY <1>11 DEF LaunchReturns, ProvTypeOK
    <3> HIDE DEF known
    <3>3. [rec[w] EXCEPT !.inst = known] \in Rec
      BY <3>1, InstType
    <3>4. rec \in [Worker -> Rec] /\ call \in [Worker -> Call] /\ NoCall \in Call
      BY DEF ProvTypeOK
    <3>5. call' = [call EXCEPT ![w] = NoCall]
      BY <1>11 DEF LaunchReturns
    <3> HIDE DEF Rec, RecStatus, Call, NoCall
    <3> QED
      BY <3>2, <3>3, <3>4, <3>5
  <2> QED
    BY <1>11, <1>a, <2>1 DEF LaunchReturns, RecordsOK, RestOK
<1>12. ASSUME NEW w \in Worker, LaunchFails(w) PROVE TypesOK'
  <2>1. "failed" \in RecStatus
    OBVIOUS
  <2>2. rec' \in [Worker -> Rec]
    <3> DEFINE r == [rec[w] EXCEPT !.st = "failed", !.idle = FALSE, !.age = 0]
    <3>0. rec[w] \in Rec
      BY DEF ProvTypeOK
    <3>1. r \in Rec
      <4> HIDE DEF Rec, RecStatus
      <4> QED
        BY <2>1, <3>0, ClosedType, ZeroAge, Zenon
    <3>2. rec' = [rec EXCEPT ![w] = IF @.st = "none" THEN @ ELSE r]
      BY <1>12 DEF LaunchFails
    <3> QED
      BY <3>1, <3>2 DEF ProvTypeOK
  <2>3. call' \in [Worker -> Call] /\ missed' \subseteq Worker
    BY <1>12 DEF LaunchFails, ProvTypeOK
  <2>4. faults' \in 0..MaxFaults /\ config' \in {"unread", "ok", "bad"}
    BY <1>12, <1>a, FailType DEF LaunchFails, RestOK
  <2> QED
    BY <1>12, <1>a, <2>2, <2>3, <2>4 DEF LaunchFails, RecordsOK, RestOK
<1>13. ASSUME NEW x \in terms, FinishTerminate(x) PROVE TypesOK'
  <2>1. x \in Term
    BY DEF ProvTypeOK
  <2>2. x.w \in Worker /\ x.final \in RecStatus
    BY <2>1
  <2>3. rec' \in [Worker -> Rec]
    <3> DEFINE r == [rec[x.w] EXCEPT !.st = x.final, !.idle = FALSE, !.age = 0]
    <3>0. rec[x.w] \in Rec
      BY <2>2 DEF ProvTypeOK
    <3>1. r \in Rec
      <4> HIDE DEF Rec, RecStatus
      <4> QED
        BY <2>2, <3>0, ClosedType, ZeroAge, Zenon
    <3>2. rec' = [rec EXCEPT ![x.w] = IF @.st = "none" THEN @ ELSE r]
      BY <1>13 DEF FinishTerminate
    <3> QED
      BY <3>1, <3>2 DEF ProvTypeOK
  <2>4. terms' \subseteq Term /\ missed' \subseteq Worker
    BY <1>13, <2>2 DEF FinishTerminate, ProvTypeOK
  <2>5. /\ inst' \in [Worker -> {"none", "up", "dead"}]
        /\ joined' \subseteq Worker
        /\ member' \in [Worker -> {"none", "idle", "busy", "offline"}]
    <3>1. inst' \in [Worker -> {"none", "up", "dead"}]
      <4>1. inst \in [Worker -> {"none", "up", "dead"}]
        BY DEF ProvTypeOK
      <4>2. inst' = inst \/ inst' = [inst EXCEPT ![x.w] = IF x.kill THEN "dead" ELSE @]
        BY <1>13 DEF FinishTerminate
      <4> QED
        BY <2>2, <4>1, <4>2
    <3>2. joined' \subseteq joined
      BY <1>13 DEF FinishTerminate
    <3>3. \/ member' = [member EXCEPT ![x.w] = "none"]
          \/ member' = member
      BY <1>13 DEF FinishTerminate
    <3> QED
      BY <3>1, <3>2, <3>3, <2>2 DEF ProvTypeOK
  <2>6. task' \in [Task -> TaskRec]
    BY <1>13, <1>a, RequeuedType DEF FinishTerminate, RestOK
  <2>7. faults' \in 0..MaxFaults
    BY <1>13, <1>a, FailType DEF FinishTerminate, RestOK
  <2> QED
    BY <1>13, <1>a, <2>3, <2>4, <2>5, <2>6, <2>7 DEF FinishTerminate, RecordsOK, RestOK
<1>14. CASE WarmSkips \/ WarmPolls \/ WarmRequests \/ WarmAwaits \/ WarmReady \/ WarmGivesUp
  <2>1. pass' \in Pass /\ queued' \in BOOLEAN
    BY <1>14, <1>b, RequestType
       DEF WarmSkips, WarmPolls, WarmRequests, WarmAwaits, WarmReady, WarmGivesUp, Warms
  <2> QED
    BY <1>14, <1>a, <2>1
       DEF WarmSkips, WarmPolls, WarmRequests, WarmAwaits, WarmReady, WarmGivesUp, Warms,
           RecordsOK, RestOK, Warm
<1>15. ASSUME NEW w \in Worker, WarmLaunches(w) PROVE TypesOK'
  BY <1>15, <1>a, LaunchType DEF WarmLaunches, Warms, RestOK, Warm
<1>16. ASSUME NEW w \in Worker, Register(w) PROVE TypesOK'
  <2>1. \A r \in Rec : [r EXCEPT !.st = "registered", !.idle = TRUE, !.age = 0] \in Rec
    <3>1. \A r \in Rec, k \in 0..2 : [r EXCEPT !.st = "registered", !.idle = TRUE, !.age = k] \in Rec
      OBVIOUS
    <3> QED
      BY <3>1, ZeroAge
  <2>2. rec' \in [Worker -> Rec]
    <3> HIDE DEF RecStatus, Rec
    <3>1. rec \in [Worker -> Rec]
      BY DEF ProvTypeOK
    <3>2. [rec[w] EXCEPT !.st = "registered", !.idle = TRUE, !.age = 0] \in Rec
      BY <2>1, <3>1
    <3>3. rec' = rec \/ rec' = [rec EXCEPT ![w] = [rec[w] EXCEPT !.st = "registered", !.idle = TRUE, !.age = 0]]
      BY <1>16, <3>1 DEF Register
    <3> QED
      BY <3>1, <3>2, <3>3
  <2>3. member' \in [Worker -> {"none", "idle", "busy", "offline"}]
    BY <1>16 DEF Register, ProvTypeOK
  <2> QED
    BY <1>16, <1>a, <2>2, <2>3 DEF Register, RecordsOK, RestOK
<1>17. ASSUME NEW w \in Worker, SendBeat(w) PROVE TypesOK'
  BY <1>17, <1>a DEF SendBeat, RecordsOK, RestOK
<1>18. ASSUME NEW w \in Worker, BeatArrives(w) PROVE TypesOK'
  <2>1. rec' \in [Worker -> Rec]
    BY <1>18, PromotedType, SeenType DEF BeatArrives, ProvTypeOK
  <2>2. member' \in [Worker -> {"none", "idle", "busy", "offline"}] /\ beat' \in Beat
    BY <1>18 DEF BeatArrives, ProvTypeOK
  <2>3. pass' \in Pass /\ queued' \in BOOLEAN
    BY <1>18, <1>b, RequestType DEF BeatArrives
  <2> QED
    BY <1>18, <1>a, <2>1, <2>2, <2>3 DEF BeatArrives, RecordsOK, RestOK
<1>19. ASSUME NEW w \in Worker, InstanceExits(w) PROVE TypesOK'
  BY <1>19, <1>a, FailType DEF InstanceExits, RecordsOK, RestOK
<1>20. ASSUME NEW w \in Worker, Silent(w) PROVE TypesOK'
  <2>1. RecordsOK'
    BY <1>20, <1>a, RemovedType DEF Silent
  <2>2. task' \in [Task -> TaskRec] /\ pass' \in Pass /\ queued' \in BOOLEAN
    BY <1>20, <1>a, <1>b, RequeuedType, RequestType DEF Silent, RestOK
  <2>3. faults' \in 0..MaxFaults
    BY <1>20, <1>a, FailType DEF Silent, RestOK
  <2> QED
    BY <1>20, <1>a, <2>1, <2>2, <2>3 DEF Silent, RestOK
<1>21. ASSUME NEW w \in Worker, TimerReaps(w) PROVE TypesOK'
  BY <1>21, <1>a, <1>b, RequestType DEF TimerReaps, RecordsOK, RestOK
<1>22. CASE Tick
  BY <1>22, <1>a, <1>b, RequestType DEF Tick, RecordsOK, RestOK
<1>23. ASSUME NEW w \in Worker, Age(w) PROVE TypesOK'
  <2>1. rec[w] \in Rec /\ rec[w].age \in 0..2
    BY DEF ProvTypeOK
  <2>2. (rec[w].st # "terminated" => rec[w].age < 2) /\ 2 \in 0..2
    BY <1>23 DEF Age
  <2>3. (IF rec[w].st = "terminated" THEN 2 ELSE rec[w].age + 1) \in 0..2
    BY <2>1, <2>2
  <2>4. rec' \in [Worker -> Rec]
    BY <1>23, <2>1, <2>3 DEF Age, ProvTypeOK
  <2> QED
    BY <1>23, <1>a, <2>4 DEF Age, RecordsOK, RestOK
<1>24. ASSUME NEW t \in Task, NEW w \in Worker, Assign(t, w) PROVE TypesOK'
  <2>1. task' = [task EXCEPT ![t] = [st |-> "held", by |-> w]]
        /\ member' = [member EXCEPT ![w] = "busy"]
    BY <1>24 DEF Assign
  <2>2. [st |-> "held", by |-> w] \in TaskRec
    BY DEF TaskRec
  <2>3. member' \in [Worker -> {"none", "idle", "busy", "offline"}]
    BY <1>a, <2>1 DEF RecordsOK
  <2>4. task' \in [Task -> TaskRec]
    BY <1>a, <2>1, <2>2 DEF RestOK
  <2> QED
    BY <1>24, <1>a, <2>3, <2>4 DEF Assign, RecordsOK, RestOK
<1>25. ASSUME NEW t \in Task, CreateTask(t) PROVE TypesOK'
  BY <1>25, <1>a, <1>b, RequestType DEF CreateTask, RecordsOK, RestOK, TaskRec
<1>26. ASSUME NEW t \in Task, RevertAssignment(t) \/ TaskCompletes(t) PROVE TypesOK'
  <2> DEFINE w == task[t].by
  <2>1. w \in Worker
    BY <1>26 DEF RevertAssignment, TaskCompletes, ProvTypeOK, TaskRec
  <2>2. freed(w) \in [Worker -> {"none", "idle", "busy", "offline"}]
    BY DEF freed, ProvTypeOK
  <2>3. pass' \in Pass /\ queued' \in BOOLEAN
    BY <1>26, <1>b, RequestType DEF RevertAssignment, TaskCompletes
  <2>4. task' \in [Task -> TaskRec]
    <3>1. [st |-> "pending", by |-> None] \in TaskRec /\ [st |-> "done", by |-> w] \in TaskRec
      BY <2>1 DEF TaskRec
    <3>2. PICK k \in TaskRec : task' = [task EXCEPT ![t] = k]
      BY <1>26, <3>1 DEF RevertAssignment, TaskCompletes
    <3> QED
      BY <3>2 DEF ProvTypeOK
  <2> QED
    BY <1>26, <1>a, <2>2, <2>3, <2>4
       DEF RevertAssignment, TaskCompletes, RecordsOK, RestOK
<1>27. ASSUME NEW t \in Task, TaskFails(t) PROVE TypesOK'
  <2> DEFINE w == task[t].by
  <2>1. w \in Worker
    BY <1>27 DEF TaskFails, ProvTypeOK, TaskRec
  <2>2. freed(w)[w] \in {"none", "idle", "busy", "offline"}
    BY <2>1 DEF freed, ProvTypeOK
  <2>3. RecordsOK'
    BY <1>27, <1>a, <2>1, <2>2, RemovedType DEF TaskFails
  <2>4. pass' \in Pass /\ queued' \in BOOLEAN
    BY <1>27, <1>b, RequestType DEF TaskFails
  <2>5. task' \in [Task -> TaskRec]
    BY <1>27, <2>1 DEF TaskFails, ProvTypeOK, TaskRec
  <2> QED
    BY <1>27, <1>a, <2>3, <2>4, <2>5 DEF TaskFails, RestOK
<1>28. ASSUME NEW w \in Worker, DeleteWorker(w) PROVE TypesOK'
  <2>1. RecordsOK'
    BY <1>28, <1>a, RemovedType DEF DeleteWorker
  <2>2. task' \in [Task -> TaskRec] /\ faults' \in 0..MaxFaults
    BY <1>28, <1>a, RequeuedType, FailType DEF DeleteWorker, RestOK
  <2> QED
    BY <1>28, <1>a, <2>1, <2>2 DEF DeleteWorker, RestOK
<1>29. CASE StopBegins
  BY <1>29, <1>a DEF StopBegins, RecordsOK, RestOK, Stop
<1>30. ASSUME NEW w \in Worker, StopTerminates(w) PROVE TypesOK'
  <2>1. RecordsOK'
    BY <1>30, <1>a, TerminateType DEF StopTerminates, terminateManagedWorker, RecordsOK
  <2> QED
    BY <1>30, <1>a, <2>1 DEF StopTerminates, RestOK, Stop
<1>31. CASE StopEnds
  BY <1>31, <1>a DEF StopEnds, RecordsOK, RestOK, Stop
<1>32. CASE Restart
  <2>1. rec' \in [Worker -> Rec]
    BY <1>32, RefreshedType DEF Restart, ProvTypeOK
  <2>2. inst' \in [Worker -> {"none", "up", "dead"}]
    BY <1>32 DEF Restart, ProvTypeOK
  <2>3. task' \in [Task -> TaskRec] /\ faults' \in 0..MaxFaults
    BY <1>32, <1>a, RequeuedType, FailType DEF Restart, RestOK
  <2>4. pass' \in Pass
    BY <1>32, PassType DEF Restart
  <2>5. member' \in [Worker -> {"none", "idle", "busy", "offline"}] /\ terms' \subseteq Term
    BY <1>32 DEF Restart
  <2>6. missed' \subseteq Worker /\ left' \subseteq Worker /\ joined' \subseteq Worker
    BY <1>32, <1>a DEF Restart, RecordsOK, RestOK
  <2>7. /\ beat' \in Beat /\ call' \in [Worker -> Call] /\ queued' \in BOOLEAN
        /\ warm' \in Warm /\ stop' \in Stop /\ config' \in {"unread", "ok", "bad"}
    BY <1>32 DEF Restart, Warm, Stop
  <2> QED
    BY <2>1, <2>2, <2>3, <2>4, <2>5, <2>6, <2>7 DEF RecordsOK, RestOK
<1>33. CASE UNCHANGED vars
  BY <1>33 DEF vars, ProvTypeOK, RecordsOK, RestOK
<1> QED
  BY <1>1, <1>2, <1>3, <1>4, <1>5, <1>6, <1>7, <1>8, <1>9, <1>10, <1>11, <1>12, <1>13, <1>14,
     <1>15, <1>16, <1>17, <1>18, <1>19, <1>20, <1>21, <1>22, <1>23, <1>24, <1>25, <1>26, <1>27,
     <1>28, <1>29, <1>30, <1>31, <1>32, <1>33
     DEF Next, PassStep, WarmStep, LaunchStep, StopStep

(* Every variable holds what the code can store in it: records, the demand that is  *)
(* left of a pass, the calls and the lists that passes and stop work off.           *)
THEOREM TypeCorrect == Spec => []ProvTypeOK
<1>1. Init => ProvTypeOK
  BY InitType
<1>2. ProvTypeOK /\ [Next]_vars => ProvTypeOK'
  BY NextType
<1> QED
  BY <1>1, <1>2, PTL DEF Spec

-----------------------------------------------------------------------------
(* The books: what the records, the list of workers, the instances and the  *)
(* calls that are under way say of each other, worker by worker.            *)

Retired == {"terminating", "terminated", "failed"}
Terminating(w) == \E x \in terms : x.w = w
NotHere(w) == w \notin joined /\ beat.from # w

\* While the ports of a launch are reserved, its id stands for nobody.
AtPort(w) ==
  call[w].at = "port" =>
    /\ inst[w] = "none" /\ NotHere(w)
    /\ \A x \in terms : x.w = w => ~x.kill
\* A record that says launching was not seen yet.
Unseen(w) == rec[w].st = "launching" => NotHere(w)
Listed(w) == rec[w].st = "registered" /\ w \notin left => Online(w)
\* An instance that is not missed can be found, and when its record is retired a
\* termination that will stop it is under way.
Tracked(w) ==
  inst[w] = "up" /\ w \notin missed =>
    /\ rec[w].st # "none" => KnowsChild \/ rec[w].inst \/ call[w].at = "starting"
    /\ rec[w].st \in Retired => Terminating(w)
    /\ \A x \in terms : x.w = w => x.kill
\* A termination that overtakes a launch misses its instance.
Overtaken(w) ==
  call[w].at # "none" /\ (Terminating(w) \/ (call[w].at = "starting" /\ rec[w].st \in Retired))
    => w \in missed
BookOf(w) == AtPort(w) /\ Unseen(w) /\ Listed(w) /\ Tracked(w) /\ Overtaken(w)
Books == \A w \in Worker : BookOf(w)

\* What the record b, made of the record a of a worker listed as m, has in common with it.
Follows(a, b, m) ==
  /\ b.st # "none" => a.st # "none" /\ b.inst = a.inst
  /\ b.st \in Retired => a.st \in Retired
  /\ b.st = "launching" => a.st = "launching"
  /\ b.st = "registered" => \/ a.st = "registered"
                            \/ a.st = "launching" /\ m \in {"idle", "busy"}

LEMMA RefreshedFollows ==
  ASSUME NEW r \in Rec, NEW m
  PROVE  Follows(r, refreshed(r, m), m)
  BY DEF Follows, refreshed, promoted, seen, Retired

LEMMA SameFollows ==
  ASSUME NEW r, NEW m
  PROVE  Follows(r, r, m)
  BY DEF Follows

\* A termination keeps the books, also of the other workers.
LEMMA TerminateBooks ==
  ASSUME ProvTypeOK, NEW v \in Worker, BookOf(v), NEW w \in Worker,
         NEW final \in {"failed", "terminated"}, NEW by \in {"pass", "api", "delete", "stop"},
         NEW r \in [Worker -> Rec], Follows(rec[v], r[v], member[v]),
         terminateFrom(r, w, final, by),
         UNCHANGED <<inst, joined, beat, call>>,
         v \in left => v \in left' \/ rec'[v].st # "registered"
  PROVE  BookOf(v)'
<1> USE DEF BookOf, NotHere, Terminating, Retired, Follows
<1>1. CASE r[w].st = "none"
  BY <1>1 DEF terminateFrom, records, AtPort, Unseen, Listed, Tracked, Overtaken, Online
<1>2. CASE r[w].st # "none"
  <2> DEFINE x == [w |-> w, final |-> final, by |-> by, kill |-> Targets(w)]
  <2>1. /\ rec' = [r EXCEPT ![w].st = "terminating"]
        /\ member' = [member EXCEPT ![w] = offline(@)]
        /\ terms' = terms \cup {x}
        /\ missed' = IF call[w].at = "none" THEN missed ELSE missed \cup {w}
    BY <1>2 DEF terminateFrom
  <2>2. x.w = w /\ x.kill = Targets(w)
    OBVIOUS
  <2> HIDE DEF x
  <2>3. CASE v = w
    <3>1. rec'[v].st = "terminating" /\ rec'[v].inst = rec[v].inst /\ rec[v].st # "none"
      BY <1>2, <2>1, <2>3
    <3>2. x \in terms' /\ x.w = v
      BY <2>1, <2>2, <2>3
    <3>3. inst[v] = "up" /\ v \notin missed' => x.kill
      BY <2>1, <2>2, <2>3, <1>2 DEF Tracked, Targets
    <3>4. inst[v] = "none" => ~x.kill
      BY <2>2, <2>3 DEF Targets
    <3> QED
      BY <2>1, <2>2, <2>3, <3>1, <3>2, <3>3, <3>4 DEF AtPort, Unseen, Listed, Tracked, Overtaken
  <2>4. CASE v # w
    <3>1. rec'[v] = r[v] /\ member'[v] = member[v]
      BY <2>1, <2>4 DEF ProvTypeOK
    <3>2. x.w # v /\ (v \in missed' <=> v \in missed)
      BY <2>1, <2>2, <2>4
    <3> QED
      BY <2>1, <2>4, <3>1, <3>2 DEF AtPort, Unseen, Listed, Tracked, Overtaken, Online
  <2> QED
    BY <2>3, <2>4
<1> QED
  BY <1>1, <1>2

\* So does the removal of a worker that is then listed as x.
LEMMA RemovedBooks ==
  ASSUME ProvTypeOK, NEW v \in Worker, BookOf(v), NEW w \in Worker,
         NEW by \in {"pass", "api", "delete", "stop"}, NEW x,
         onWorkerRemoved(w, by, x),
         UNCHANGED <<inst, joined, beat, call, left>>
  PROVE  BookOf(v)'
<1>1. CASE Removable(w)
  BY <1>1, SameFollows, TerminateBooks DEF onWorkerRemoved, terminateManagedWorker, ProvTypeOK
<1>2. CASE ~Removable(w)
  BY <1>2 DEF onWorkerRemoved, Removable, ProvTypeOK, BookOf, NotHere, Terminating, Retired,
              AtPort, Unseen, Listed, Tracked, Overtaken, Online
<1> QED
  BY <1>1, <1>2

\* So does the start of a launch.
LEMMA LaunchBooks ==
  ASSUME ProvTypeOK, NEW v \in Worker, BookOf(v), NEW w \in Worker, NEW who,
         launchWorker(w, who), left' = left
  PROVE  BookOf(v)'
<1>1. CASE v = w
  BY <1>1 DEF launchWorker, Fresh, Forgotten, ProvTypeOK, BookOf, NotHere, Terminating, Retired,
              AtPort, Unseen, Listed, Tracked, Overtaken, Online
<1>2. CASE v # w
  BY <1>2 DEF launchWorker, ProvTypeOK, BookOf, NotHere, Terminating, Retired,
              AtPort, Unseen, Listed, Tracked, Overtaken, Online
<1> QED
  BY <1>1, <1>2

\* So does a turn of the scale-down loop.
LEMMA ScaleBooks ==
  ASSUME ProvTypeOK, NEW v \in Worker, BookOf(v), NEW listed \in SUBSET Worker, NEW active,
         scaleDown(listed, active), UNCHANGED <<inst, joined, beat, call, left>>
  PROVE  BookOf(v)'
<1>1. CASE UNCHANGED records
  BY <1>1 DEF records, BookOf, NotHere, Terminating, Retired,
              AtPort, Unseen, Listed, Tracked, Overtaken, Online
<1>2. ASSUME NEW w \in Worker, terminateManagedWorker(w, "terminated", "pass")
      PROVE  BookOf(v)'
  BY <1>2, SameFollows, TerminateBooks DEF terminateManagedWorker, ProvTypeOK
<1> QED
  BY <1>1, <1>2 DEF scaleDown

LEMMA InitBooks == Init => Books
  BY ProvisioningAssumption
     DEF Init, Books, BookOf, NotHere, Terminating, Retired, AtPort, Unseen, Listed, Tracked, Overtaken

LEMMA NextBooks == ProvTypeOK /\ Books /\ [Next]_vars => Books'
<1> SUFFICES ASSUME ProvTypeOK, [Next]_vars, NEW v \in Worker, BookOf(v)
             PROVE  BookOf(v)'
  BY DEF Books
<1> USE DEF records, world, requests, others, NotHere, Terminating, Retired, Online
<1> DEFINE Same == UNCHANGED <<records, world, call, left>>
<1>0. CASE Same
  BY <1>0 DEF BookOf, AtPort, Unseen, Listed, Tracked, Overtaken
<1>1. CASE BeginPass
  <2> DEFINE now == [w \in Worker |-> refreshed(rec[w], member[w])]
             late == {w \in Worker : now[w].st = "launching" /\ now[w].age > 0}
  <2>1. now \in [Worker -> Rec] /\ Follows(rec[v], now[v], member[v])
    BY RefreshedType, RefreshedFollows DEF ProvTypeOK
  <2>2. /\ left' = left \ {w \in Worker : now[w].st = "none"}
        /\ UNCHANGED <<inst, joined, beat, call>>
    BY <1>1 DEF BeginPass
  <2>3. \/ rec' = now /\ UNCHANGED <<member, terms, missed>>
        \/ \E w \in late : terminateFrom(now, w, "failed", "pass")
    BY <1>1 DEF BeginPass
  <2> HIDE DEF now
  <2>4. CASE rec' = now /\ UNCHANGED <<member, terms, missed>>
    BY <2>1, <2>2, <2>4
       DEF Follows, BookOf, AtPort, Unseen, Listed, Tracked, Overtaken, ProvTypeOK
  <2>5. CASE \E w \in late : terminateFrom(now, w, "failed", "pass")
    <3>1. PICK w \in late : terminateFrom(now, w, "failed", "pass")
      BY <2>5
    <3>2. rec' = [now EXCEPT ![w].st = "terminating"]
      BY <3>1 DEF terminateFrom
    <3>3. v \in left => v \in left' \/ rec'[v].st # "registered"
      BY <2>1, <2>2, <3>2
    <3> QED
      BY <2>1, <2>2, <3>1, <3>3, TerminateBooks
  <2> QED
    BY <2>3, <2>4, <2>5
<1>2. ASSUME NEW w \in Worker, ExpireLaunch(w) PROVE BookOf(v)'
  BY <1>2, SameFollows, TerminateBooks DEF ExpireLaunch, terminateManagedWorker, ProvTypeOK
<1>3. CASE ComputeDemand \/ ClearPromise
  BY <1>0, <1>3 DEF ComputeDemand, ClearPromise
<1>4. ASSUME NEW w \in Worker, PassLaunches(w) \/ WarmLaunches(w) PROVE BookOf(v)'
  BY <1>4, LaunchBooks DEF PassLaunches, WarmLaunches, Warms
<1>5. CASE ListIdle
  <2>1. PICK S \in SUBSET Worker : scaleDown(S, Cardinality(Active))
    BY <1>5 DEF ListIdle
  <2> QED
    BY <1>5, <2>1, ScaleBooks DEF ListIdle
<1>6. CASE RetireNext
  <2>1. pass.todo \in SUBSET Worker
    BY DEF ProvTypeOK, Pass
  <2> QED
    BY <1>6, <2>1, ScaleBooks DEF RetireNext
<1>7. ASSUME NEW w \in Worker, PortReserved(w) PROVE BookOf(v)'
  BY <1>7 DEF PortReserved, ProvTypeOK, BookOf, AtPort, Unseen, Listed, Tracked, Overtaken
<1>8. ASSUME NEW w \in Worker, PortFails(w) PROVE BookOf(v)'
  BY <1>8 DEF PortFails, ProvTypeOK, BookOf, AtPort, Unseen, Listed, Tracked, Overtaken
<1>9. ASSUME NEW w \in Worker, Spawn(w) PROVE BookOf(v)'
  BY <1>9 DEF Spawn, ProvTypeOK, BookOf, AtPort, Unseen, Listed, Tracked, Overtaken
<1>10. ASSUME NEW w \in Worker, LaunchReturns(w) PROVE BookOf(v)'
  <2> DEFINE known == ~KnowsChild /\ rec[w].st # "none"
  <2>a. rec' = [rec EXCEPT ![w] = [rec[w] EXCEPT !.inst = known]]
    BY <1>10 DEF LaunchReturns, ProvTypeOK
  <2>b. rec[w].st # "none" => KnowsChild \/ known
    OBVIOUS
  <2> HIDE DEF known
  <2>1. rec'[v].st = rec[v].st /\ (v # w => rec'[v] = rec[v] /\ call'[v] = call[v])
    BY <1>10, <2>a DEF LaunchReturns, ProvTypeOK
  <2>2. v = w => /\ call'[v].at = "none"
                 /\ rec[v].st # "none" => KnowsChild \/ rec'[v].inst
    BY <1>10, <2>a, <2>b DEF LaunchReturns, ProvTypeOK
  <2>3. UNCHANGED <<member, terms, missed, world, left>>
    BY <1>10 DEF LaunchReturns
  <2> QED
    BY <2>1, <2>2, <2>3 DEF BookOf, AtPort, Unseen, Listed, Tracked, Overtaken
<1>11. ASSUME NEW w \in Worker, LaunchFails(w) PROVE BookOf(v)'
  <2>1. CASE v = w
    <3>1. /\ rec'[v].st \in {"none", "failed"} /\ call'[v].at = "none"
          /\ rec'[v].st = "none" => rec[v].st = "none"
          /\ inst[v] = "up" => v \in missed'
      BY <1>11, <2>1 DEF LaunchFails, ProvTypeOK
    <3> QED
      BY <1>11, <3>1 DEF LaunchFails, BookOf, AtPort, Unseen, Listed, Tracked, Overtaken
  <2>2. CASE v # w
    <3>1. rec'[v] = rec[v] /\ call'[v] = call[v] /\ (v \in missed' <=> v \in missed)
      BY <1>11, <2>2 DEF LaunchFails, ProvTypeOK
    <3> QED
      BY <1>11, <3>1 DEF LaunchFails, BookOf, AtPort, Unseen, Listed, Tracked, Overtaken
  <2> QED
    BY <2>1, <2>2
<1>12. ASSUME NEW x \in terms, FinishTerminate(x) PROVE BookOf(v)'
  <2>0. x.w \in Worker /\ x.final \in {"failed", "terminated"}
    BY DEF ProvTypeOK
  <2>1. joined' \subseteq joined /\ missed \subseteq missed' /\ UNCHANGED <<beat, call, left>>
    BY <1>12 DEF FinishTerminate
  <2>2. CASE v = x.w
    <3>1. /\ rec'[v].st \in {"none", "failed", "terminated"}
          /\ rec'[v].st = "none" <=> rec[v].st = "none"
          /\ rec'[v].inst = rec[v].inst
      BY <1>12, <2>0, <2>2 DEF FinishTerminate, ProvTypeOK
    <3>2. inst'[v] = "up" => inst[v] = "up" /\ (v \in missed' \/ ~x.kill)
      BY <1>12, <2>0, <2>2 DEF FinishTerminate, ProvTypeOK
    <3>3. inst'[v] = "up" => v \in missed'
      BY <2>1, <2>2, <3>2 DEF BookOf, Tracked
    <3>4. terms' \subseteq terms
      BY <1>12 DEF FinishTerminate
    <3>5. call[v].at # "none" => v \in missed'
      BY <2>1, <2>2 DEF BookOf, Overtaken
    <3>6. call[v].at = "port" => inst'[v] = "none"
      BY <1>12, <2>0, <2>2 DEF FinishTerminate, ProvTypeOK, BookOf, AtPort
    <3> QED
      BY <2>1, <3>1, <3>3, <3>4, <3>5, <3>6 DEF BookOf, AtPort, Unseen, Listed, Tracked, Overtaken
  <2>3. CASE v # x.w
    <3>1. rec'[v] = rec[v] /\ member'[v] = member[v] /\ inst'[v] = inst[v]
      BY <1>12, <2>0, <2>3 DEF FinishTerminate, ProvTypeOK
    <3>2. \A y : y.w = v => (y \in terms' <=> y \in terms)
      BY <1>12, <2>3 DEF FinishTerminate
    <3>3. v \in missed' <=> v \in missed
      BY <1>12, <2>3 DEF FinishTerminate
    <3> QED
      BY <2>1, <3>1, <3>2, <3>3 DEF BookOf, AtPort, Unseen, Listed, Tracked, Overtaken
  <2> QED
    BY <2>2, <2>3
<1>13. CASE WarmSkips \/ WarmPolls \/ WarmRequests \/ WarmAwaits \/ WarmReady \/ WarmGivesUp
  BY <1>0, <1>13
     DEF WarmSkips, WarmPolls, WarmRequests, WarmAwaits, WarmReady, WarmGivesUp, Warms
<1>14. ASSUME NEW w \in Worker, Register(w) PROVE BookOf(v)'
  BY <1>14 DEF Register, ProvTypeOK, BookOf, AtPort, Unseen, Listed, Tracked, Overtaken
<1>15. ASSUME NEW w \in Worker, SendBeat(w) PROVE BookOf(v)'
  BY <1>15 DEF SendBeat, ProvTypeOK, BookOf, AtPort, Unseen, Listed, Tracked, Overtaken
<1>16. ASSUME NEW w \in Worker, BeatArrives(w) PROVE BookOf(v)'
  BY <1>16, ProvisioningAssumption DEF BeatArrives, seen, promoted, ProvTypeOK, BookOf, AtPort,
     Unseen, Listed, Tracked, Overtaken
<1>17. ASSUME NEW w \in Worker, InstanceExits(w) PROVE BookOf(v)'
  BY <1>17 DEF InstanceExits, ProvTypeOK, BookOf, AtPort, Unseen, Listed, Tracked, Overtaken
<1>18. ASSUME NEW w \in Worker, Silent(w) \/ DeleteWorker(w) PROVE BookOf(v)'
  BY <1>18, RemovedBooks DEF Silent, DeleteWorker
<1>19. ASSUME NEW w \in Worker, TimerReaps(w) PROVE BookOf(v)'
  BY <1>19 DEF TimerReaps, ProvTypeOK, BookOf, AtPort, Unseen, Listed, Tracked, Overtaken
<1>20. CASE Tick
  BY <1>0, <1>20 DEF Tick
<1>21. ASSUME NEW w \in Worker, Age(w) PROVE BookOf(v)'
  BY <1>21 DEF Age, ProvTypeOK, BookOf, AtPort, Unseen, Listed, Tracked, Overtaken
<1>22. ASSUME NEW t \in Task, NEW w \in Worker, Assign(t, w) PROVE BookOf(v)'
  BY <1>22 DEF Assign, ProvTypeOK, BookOf, AtPort, Unseen, Listed, Tracked, Overtaken
<1>23. ASSUME NEW t \in Task, CreateTask(t) PROVE BookOf(v)'
  BY <1>0, <1>23 DEF CreateTask
<1>24. ASSUME NEW t \in Task, RevertAssignment(t) \/ TaskCompletes(t) PROVE BookOf(v)'
  BY <1>24 DEF RevertAssignment, TaskCompletes, freed, ProvTypeOK, BookOf, AtPort, Unseen,
     Listed, Tracked, Overtaken
<1>25. ASSUME NEW t \in Task, TaskFails(t) PROVE BookOf(v)'
  <2>1. task[t].by \in Worker
    BY <1>25 DEF TaskFails, ProvTypeOK, TaskRec
  <2> QED
    BY <1>25, <2>1, RemovedBooks DEF TaskFails
<1>26. CASE StopBegins
  BY <1>0, <1>26 DEF StopBegins
<1>27. ASSUME NEW w \in Worker, StopTerminates(w) PROVE BookOf(v)'
  BY <1>27, SameFollows, TerminateBooks DEF StopTerminates, terminateManagedWorker, ProvTypeOK
<1>28. CASE StopEnds
  BY <1>28 DEF StopEnds, ProvTypeOK, BookOf, AtPort, Unseen, Listed, Tracked, Overtaken
<1>29. CASE Restart
  <2>1. Follows(rec[v], refreshed(rec[v], "none"), "none")
    BY RefreshedFollows DEF ProvTypeOK
  <2>2. /\ rec'[v] = refreshed(rec[v], "none")
        /\ call'[v].at = "none" /\ terms' = {} /\ beat'.from = None /\ joined' \subseteq joined
        /\ v \in left' <=> rec[v].st = "registered"
        /\ inst'[v] = "up" => v \in missed'
    BY <1>29 DEF Restart
  <2> QED
    BY <2>1, <2>2, ProvisioningAssumption
       DEF Follows, BookOf, AtPort, Unseen, Listed, Tracked, Overtaken
<1>30. CASE UNCHANGED vars
  BY <1>0, <1>30 DEF vars
<1> QED
  BY <1>1, <1>2, <1>3, <1>4, <1>5, <1>6, <1>7, <1>8, <1>9, <1>10, <1>11, <1>12, <1>13, <1>14,
     <1>15, <1>16, <1>17, <1>18, <1>19, <1>20, <1>21, <1>22, <1>23, <1>24, <1>25, <1>26, <1>27,
     <1>28, <1>29, <1>30
     DEF Next, PassStep, WarmStep, LaunchStep, StopStep

LEMMA BooksInvariant == Spec => [](ProvTypeOK /\ Books)
<1>1. Init => ProvTypeOK /\ Books
  BY InitType, InitBooks
<1>2. ProvTypeOK /\ Books /\ [Next]_vars => (ProvTypeOK /\ Books)'
  BY NextType, NextBooks
<1> QED
  BY <1>1, <1>2, PTL DEF Spec

(* A record says registered only of a worker that is listed as online, unless a crash *)
(* left it behind, whatever terminations, removals and late heartbeats interleave.    *)
THEOREM RegisteredAreOnline == Spec => []RegisteredIsOnline
<1>1. Books => RegisteredIsOnline
  BY DEF Books, BookOf, Listed, RegisteredIsOnline
<1> QED
  BY <1>1, BooksInvariant, PTL

(* An instance that runs on while its record is closed was missed: its termination    *)
(* overtook its launch or failed, its launch failed, or a crash came.                 *)
THEOREM ClosedMeansStopped == Spec => []LeaksAreMissed
<1>1. ProvTypeOK /\ Books => LeaksAreMissed
  BY DEF Books, BookOf, Tracked, Terminating, Retired, LeaksAreMissed
<1> QED
  BY <1>1, BooksInvariant, PTL

-----------------------------------------------------------------------------
(* Retired records.  An id that stands for one worker only has no record    *)
(* before its launch has reserved the ports.                                *)

PortFirst(w) == call[w].at = "port" => rec[w].st = "none"
Stays(w) == rec[w].st \in Retired => rec'[w].st \notin {"launching", "registered"}

LEMMA TerminateStays ==
  ASSUME ProvTypeOK, NEW v \in Worker, PortFirst(v), NEW w \in Worker, NEW final, NEW by,
         NEW r \in [Worker -> Rec], Follows(rec[v], r[v], member[v]),
         terminateFrom(r, w, final, by), call' = call
  PROVE  PortFirst(v)' /\ Stays(v)
<1>1. CASE r[w].st = "none"
  BY <1>1 DEF terminateFrom, records, PortFirst, Stays, Retired
<1>2. CASE r[w].st # "none"
  <2>1. rec' = [r EXCEPT ![w].st = "terminating"]
    BY <1>2 DEF terminateFrom
  <2> QED
    BY <1>2, <2>1 DEF PortFirst, Stays, Retired, Follows
<1> QED
  BY <1>1, <1>2

LEMMA RemovedStays ==
  ASSUME ProvTypeOK, NEW v \in Worker, PortFirst(v), NEW w \in Worker, NEW by, NEW x,
         onWorkerRemoved(w, by, x), call' = call
  PROVE  PortFirst(v)' /\ Stays(v)
<1>1. CASE Removable(w)
  BY <1>1, SameFollows, TerminateStays DEF onWorkerRemoved, terminateManagedWorker, ProvTypeOK
<1>2. CASE ~Removable(w)
  BY <1>2 DEF onWorkerRemoved, PortFirst, Stays, Retired
<1> QED
  BY <1>1, <1>2

LEMMA ScaleStays ==
  ASSUME ProvTypeOK, NEW v \in Worker, PortFirst(v), NEW listed \in SUBSET Worker, NEW active,
         scaleDown(listed, active), call' = call
  PROVE  PortFirst(v)' /\ Stays(v)
<1>1. CASE UNCHANGED records
  BY <1>1 DEF records, PortFirst, Stays, Retired
<1>2. ASSUME NEW w \in Worker, terminateManagedWorker(w, "terminated", "pass")
      PROVE  PortFirst(v)' /\ Stays(v)
  BY <1>2, SameFollows, TerminateStays DEF terminateManagedWorker, ProvTypeOK
<1> QED
  BY <1>1, <1>2 DEF scaleDown

LEMMA NextStays ==
  ASSUME ProvTypeOK, Reuse = FALSE, [Next]_vars, NEW v \in Worker, PortFirst(v)
  PROVE  PortFirst(v)' /\ Stays(v)
<1> USE DEF records, world, requests, others, Retired
<1> DEFINE Good == PortFirst(v)' /\ Stays(v)
<1>0. CASE UNCHANGED <<rec, call>>
  BY <1>0 DEF PortFirst, Stays
<1>1. CASE BeginPass
  <2> DEFINE now == [w \in Worker |-> refreshed(rec[w], member[w])]
             late == {w \in Worker : now[w].st = "launching" /\ now[w].age > 0}
  <2>1. now \in [Worker -> Rec] /\ Follows(rec[v], now[v], member[v])
    BY RefreshedType, RefreshedFollows DEF ProvTypeOK
  <2>2. call' = call
    BY <1>1 DEF BeginPass
  <2>3. \/ rec' = now
        \/ \E w \in late : terminateFrom(now, w, "failed", "pass")
    BY <1>1 DEF BeginPass
  <2> HIDE DEF now
  <2>4. CASE rec' = now
    BY <2>1, <2>2, <2>4 DEF Follows, PortFirst, Stays
  <2>5. ASSUME NEW w \in late, terminateFrom(now, w, "failed", "pass") PROVE Good
    BY <2>1, <2>2, <2>5, TerminateStays
  <2> QED
    BY <2>3, <2>4, <2>5
<1>2. ASSUME NEW w \in Worker, ExpireLaunch(w) PROVE Good
  BY <1>2, SameFollows, TerminateStays DEF ExpireLaunch, terminateManagedWorker, ProvTypeOK
<1>3. CASE ComputeDemand \/ ClearPromise
  BY <1>0, <1>3 DEF ComputeDemand, ClearPromise
<1>4. ASSUME NEW w \in Worker, PassLaunches(w) \/ WarmLaunches(w) PROVE Good
  <2>1. \E who : launchWorker(w, who)
    BY <1>4 DEF PassLaunches, WarmLaunches
  <2> QED
    BY <2>1 DEF launchWorker, Fresh, Forgotten, ProvTypeOK, PortFirst, Stays
<1>5. CASE ListIdle
  <2>1. PICK S \in SUBSET Worker : scaleDown(S, Cardinality(Active))
    BY <1>5 DEF ListIdle
  <2> QED
    BY <1>5, <2>1, ScaleStays DEF ListIdle
<1>6. CASE RetireNext
  <2>1. pass.todo \in SUBSET Worker
    BY DEF ProvTypeOK, Pass
  <2> QED
    BY <1>6, <2>1, ScaleStays DEF RetireNext
<1>7. ASSUME NEW w \in Worker, LaunchStep(w) \/ PortFails(w) \/ LaunchFails(w) PROVE Good
  <2>1. CASE PortReserved(w)
    BY <2>1 DEF PortReserved, ProvTypeOK, PortFirst, Stays
  <2>2. CASE PortFails(w) \/ Spawn(w)
    BY <2>2 DEF PortFails, Spawn, ProvTypeOK, PortFirst, Stays
  <2>3. CASE LaunchReturns(w)
    <3>1. rec'[v].st = rec[v].st
      BY <2>3 DEF LaunchReturns, ProvTypeOK
    <3>2. call'[v].at = "port" => call[v].at = "port"
      BY <2>3 DEF LaunchReturns, ProvTypeOK
    <3> QED
      BY <3>1, <3>2 DEF PortFirst, Stays
  <2>4. CASE LaunchFails(w)
    <3>1. rec'[v].st \in {rec[v].st, "failed"} /\ (rec'[v].st = "failed" => rec[v].st # "none")
      BY <2>4 DEF LaunchFails, ProvTypeOK
    <3>2. call'[v].at = "port" => call[v].at = "port"
      BY <2>4 DEF LaunchFails, ProvTypeOK
    <3> QED
      BY <3>1, <3>2 DEF PortFirst, Stays
  <2> QED
    BY <1>7, <2>1, <2>2, <2>3, <2>4 DEF LaunchStep
<1>8. ASSUME NEW x \in terms, FinishTerminate(x) PROVE Good
  <2>1. x.w \in Worker /\ x.final \in {"failed", "terminated"}
    BY DEF ProvTypeOK
  <2> QED
    BY <1>8, <2>1 DEF FinishTerminate, ProvTypeOK, PortFirst, Stays
<1>9. CASE WarmSkips \/ WarmPolls \/ WarmRequests \/ WarmAwaits \/ WarmReady \/ WarmGivesUp
  BY <1>0, <1>9
     DEF WarmSkips, WarmPolls, WarmRequests, WarmAwaits, WarmReady, WarmGivesUp, Warms
<1>10. ASSUME NEW w \in Worker, Register(w) \/ BeatArrives(w) PROVE Good
  <2>1. rec \in [Worker -> Rec] /\ rec[w] \in Rec /\ call' = call
    BY <1>10 DEF Register, BeatArrives, ProvTypeOK
  <2>2. ASSUME Register(w)
        PROVE  rec'[w].st = rec[w].st \/ rec[w].st \in {"launching", "registered"}
    BY <2>1, <2>2 DEF Register
  <2>3. ASSUME BeatArrives(w)
        PROVE  rec'[w].st = rec[w].st \/ rec[w].st \in {"launching", "registered"}
    <3>1. rec'[w] = seen(promoted(rec[w]), beat.status)
      BY <2>1, <2>3 DEF BeatArrives
    <3>2. \A m : rec[w].st \notin {"launching", "registered"} => seen(promoted(rec[w]), m) = rec[w]
      BY DEF seen, promoted
    <3> QED
      BY <3>1, <3>2
  <2>4. \A u \in Worker \ {w} : rec'[u] = rec[u]
    BY <1>10, <2>1 DEF Register, BeatArrives
  <2>5. rec'[v].st = rec[v].st \/ rec[v].st \in {"launching", "registered"}
    BY <1>10, <2>2, <2>3, <2>4
  <2> QED
    BY <2>1, <2>5 DEF PortFirst, Stays, Retired
<1>11. ASSUME NEW w \in Worker, SendBeat(w) \/ InstanceExits(w) \/ TimerReaps(w) PROVE Good
  BY <1>0, <1>11 DEF SendBeat, InstanceExits, TimerReaps
<1>12. ASSUME NEW w \in Worker, Silent(w) \/ DeleteWorker(w) PROVE Good
  BY <1>12, RemovedStays DEF Silent, DeleteWorker
<1>13. ASSUME NEW w \in Worker, Age(w) PROVE Good
  BY <1>13 DEF Age, ProvTypeOK, PortFirst, Stays
<1>14. CASE Tick \/ StopBegins \/ StopEnds
  BY <1>0, <1>14 DEF Tick, StopBegins, StopEnds
<1>15. ASSUME NEW t \in Task,
              \/ CreateTask(t) \/ RevertAssignment(t) \/ TaskCompletes(t)
              \/ \E w \in Worker : Assign(t, w)
       PROVE  Good
  BY <1>0, <1>15 DEF CreateTask, RevertAssignment, TaskCompletes, Assign
<1>16. ASSUME NEW t \in Task, TaskFails(t) PROVE Good
  <2>1. task[t].by \in Worker
    BY <1>16 DEF TaskFails, ProvTypeOK, TaskRec
  <2> QED
    BY <1>16, <2>1, RemovedStays DEF TaskFails
<1>17. ASSUME NEW w \in Worker, StopTerminates(w) PROVE Good
  BY <1>17, SameFollows, TerminateStays DEF StopTerminates, terminateManagedWorker, ProvTypeOK
<1>18. CASE Restart
  <2>1. Follows(rec[v], refreshed(rec[v], "none"), "none")
    BY RefreshedFollows DEF ProvTypeOK
  <2>2. rec'[v] = refreshed(rec[v], "none") /\ call'[v].at = "none"
    BY <1>18 DEF Restart
  <2> QED
    BY <2>1, <2>2 DEF Follows, PortFirst, Stays
<1>19. CASE UNCHANGED vars
  BY <1>0, <1>19 DEF vars
<1> QED
  BY <1>1, <1>2, <1>3, <1>4, <1>5, <1>6, <1>7, <1>8, <1>9, <1>10, <1>11, <1>12, <1>13, <1>14,
     <1>15, <1>16, <1>17, <1>18, <1>19
     DEF Next, PassStep, WarmStep, LaunchStep, StopStep

(* A record that is being retired or is retired never admits its worker again, as long *)
(* as no id is given twice.                                                             *)
THEOREM RetiredForGood ==
  ASSUME Reuse = FALSE
  PROVE  Spec => RetiredStaysRetired
<1> DEFINE Inv == ProvTypeOK /\ \A w \in Worker : PortFirst(w)
           Step == \A w \in Worker : rec[w].st \in {"terminating", "terminated", "failed"}
                     => rec'[w].st \notin {"launching", "registered"}
<1>1. Init => Inv
  BY InitType DEF Init, PortFirst
<1>2. Inv /\ [Next]_vars => Inv' /\ Step
  BY NextType, NextStays DEF Stays, Retired
<1> QED
  BY <1>1, <1>2, PTL DEF Spec, RetiredStaysRetired
-----------------------------------------------------------------------------
(* The limit of a role.  What a launch claims, from the reservation of its  *)
(* ports to the end of its worker, is counted against the maximum; a pass  *)
(* that launches has kept room for what it still wants.                    *)

Claims(w) == rec[w].st \in {"launching", "registered"} \/ call[w].at = "port"
Claimed == {w \in Worker : Claims(w)}
PassCalls == CallsBy("pass")
WarmCalls == CallsBy("warm")
One(S) == \A v, w \in S : v = w

\* Each of the two activities has one launch under way at most, and only where it waits.
CallsOK == /\ One(PassCalls) /\ One(WarmCalls)
           /\ \A w \in Worker : call[w].at # "none" => call[w].by \in Caller
           /\ PassCalls # {} => pass.pc = "launch"
           /\ WarmCalls # {} => warm \in {"warmed", "retried"}
\* Each crash leaves as many workers behind as there can be, and a new process counts
\* none of them before it registers again.
Spare == IF "crash" \in Faults THEN (MaxPerRole + 1) * faults ELSE 0
Most == MaxPerRole + 1 + Spare
RoomKept == /\ Cardinality(Claimed) <= Most
            /\ pass.pc = "launch" => /\ pass.n <= MaxPerRole
                                     /\ PassCalls # {} => pass.n < MaxPerRole
                                     /\ pass.n > 0 => Cardinality(Claimed) + pass.n <= Most
Budget == Cardinality(left) <= Spare /\ CallsOK /\ RoomKept

LEMMA TimesOneMore ==
  ASSUME NEW m \in Nat, NEW k \in Nat
  PROVE  m * k \in Nat /\ m * (k + 1) = m * k + m
<1>1. m * k \in Nat
  OBVIOUS
<1>2. m * (k + 1) = m * k + m
  OBVIOUS
<1> QED
  BY <1>1, <1>2

\* Failures are counted one by one.
LEMMA SpareGrows ==
  ASSUME faults \in Nat, faults' \in {faults, faults + 1}
  PROVE  /\ Spare \in Nat /\ Spare' \in Nat /\ Spare <= Spare'
         /\ Most = MaxPerRole + 1 + Spare /\ Most' = MaxPerRole + 1 + Spare'
         /\ "crash" \in Faults /\ faults' = faults + 1 => Spare' = Most
<1> DEFINE m == MaxPerRole + 1
<1>1. m \in Nat /\ MaxPerRole \in Nat
  BY ProvisioningAssumption
<1>2. Most = MaxPerRole + 1 + Spare /\ Most' = MaxPerRole + 1 + Spare'
  BY DEF Most
<1>3. /\ Spare = (IF "crash" \in Faults THEN m * faults ELSE 0)
      /\ Spare' = (IF "crash" \in Faults THEN m * faults' ELSE 0)
  BY DEF Spare
<1>4. Most = m + Spare
  BY <1>2
<1> HIDE DEF m
<1>5. PICK k \in Nat, l \in Nat : k = faults /\ l = faults'
  OBVIOUS
<1>6. m * k \in Nat /\ m * (k + 1) = m + m * k
  <2>1. m * k \in Nat /\ m * (k + 1) = m * k + m
    BY <1>1, TimesOneMore, Zenon
  <2> QED
    BY <1>1, <2>1
<1>7. m * l \in Nat /\ (l = k \/ l = k + 1)
  <2>1. m * l \in Nat
    BY <1>1, TimesOneMore, Zenon
  <2> QED
    BY <1>5, <2>1
<1>8. m * l = m * k \/ (l = k + 1 /\ m * l = m + m * k)
  BY <1>6, <1>7
<1>9. PICK x \in Nat, y \in Nat : x = m * k /\ y = m * l
  BY <1>6, <1>7
<1>10. /\ Spare = (IF "crash" \in Faults THEN x ELSE 0) /\ Spare' = (IF "crash" \in Faults THEN y ELSE 0)
       /\ (y = x \/ y = m + x) /\ (l = k + 1 => y = m + x)
  <2>1. l = k + 1 => m * l = m + m * k
    BY <1>6
  <2> QED
    BY <1>3, <1>5, <1>8, <1>9, <2>1
<1>11. Spare \in Nat /\ Spare' \in Nat /\ Spare <= Spare'
  BY <1>1, <1>10
<1>12. "crash" \in Faults /\ faults' = faults + 1 => Spare' = Most
  BY <1>4, <1>5, <1>10
<1> QED
  BY <1>2, <1>11, <1>12

\* A set of workers has a number of elements, and so have its parts.
LEMMA WorkersCount ==
  ASSUME NEW S \in SUBSET Worker, NEW T \in SUBSET S
  PROVE  /\ IsFiniteSet(S) /\ Cardinality(S) \in Nat
         /\ Cardinality(T) \in Nat /\ Cardinality(T) <= Cardinality(S)
<1>1. IsFiniteSet(Worker)
  BY ProvisioningAssumption
<1>2. IsFiniteSet(S)
  BY <1>1, FS_Subset
<1>3. IsFiniteSet(T) /\ Cardinality(T) <= Cardinality(S)
  BY <1>2, FS_Subset
<1> QED
  BY <1>2, <1>3, FS_CardinalityType

LEMMA OneMore ==
  ASSUME NEW S \in SUBSET Worker, NEW T \in SUBSET Worker, One(T)
  PROVE  /\ Cardinality(S \cup T) \in Nat
         /\ Cardinality(S \cup T) <= Cardinality(S) + 1
<1>1. IsFiniteSet(S) /\ Cardinality(S) \in Nat /\ Cardinality(S \cup T) \in Nat
  BY WorkersCount
<1>2. CASE T = {}
  <2>1. Cardinality(S \cup T) = Cardinality(S)
    <3>1. S \cup T = S
      BY <1>2
    <3> QED
      BY <3>1
  <2> QED
    BY <1>1, <2>1
<1>3. CASE T # {}
  <2>1. PICK x \in T : T = {x}
    BY <1>3 DEF One
  <2>2. Cardinality(S \cup {x}) \in {Cardinality(S), Cardinality(S) + 1}
    BY <1>1, FS_AddElement
  <2> QED
    BY <1>1, <2>1, <2>2
<1> QED
  BY <1>2, <1>3

LEMMA ClaimedCount == Claimed \in SUBSET Worker /\ Cardinality(Claimed) \in Nat
<1>1. Claimed \in SUBSET Worker
  BY DEF Claimed
<1> QED
  BY <1>1, WorkersCount

\* One more worker is one more claim at most.
LEMMA ClaimedOneMore ==
  ASSUME NEW w \in Worker, Claimed' \subseteq Claimed \cup {w}
  PROVE  Cardinality(Claimed') \in Nat /\ Cardinality(Claimed') <= Cardinality(Claimed) + 1
<1>1. Claimed \in SUBSET Worker /\ Cardinality(Claimed) \in Nat
  BY ClaimedCount
<1>2. Claimed \cup {w} \in SUBSET Worker /\ {w} \in SUBSET Worker /\ One({w})
      /\ Claimed' \in SUBSET (Claimed \cup {w})
  BY <1>1 DEF One
<1>3. Cardinality(Claimed') \in Nat /\ Cardinality(Claimed') <= Cardinality(Claimed \cup {w})
  BY <1>2, WorkersCount
<1>4. Cardinality(Claimed \cup {w}) \in Nat
      /\ Cardinality(Claimed \cup {w}) <= Cardinality(Claimed) + 1
  BY <1>1, <1>2, OneMore
<1> QED
  BY <1>1, <1>3, <1>4

\* A demand leaves room: for what is online, what is coming, and itself.
LEMMA DemandWithin ==
  ASSUME NEW r, task \in [Task -> TaskRec]
  PROVE  /\ computeRoleDemand(r) \in Nat /\ computeRoleDemand(r) <= MaxPerRole
         /\ computeRoleDemand(r) > 0 =>
              Cardinality(Active) + Cardinality({w \in Worker : r[w].st = "launching"})
                + computeRoleDemand(r) <= MaxPerRole
<1>1. \A S \in SUBSET Worker : Cardinality(S) \in Nat
  BY WorkersCount
<1>2. /\ Cardinality(Active) \in Nat
      /\ Cardinality({w \in Worker : r[w].st = "launching"}) \in Nat
  BY <1>1 DEF Active
<1>3. computeRoleDemand(r) \in Nat
  BY DemandType
<1>4. \E x : computeRoleDemand(r) = Less(Plus(0, MaxPerRole - (Cardinality(Active)
               + Cardinality({w \in Worker : r[w].st = "launching"}))), x)
  BY DEF computeRoleDemand
<1>5. PICK x : computeRoleDemand(r) = Less(Plus(0, MaxPerRole - (Cardinality(Active)
               + Cardinality({w \in Worker : r[w].st = "launching"}))), x)
  BY <1>4
<1> QED
  BY <1>2, <1>3, <1>5, ProvisioningAssumption DEF Less, Plus

\* When every registered worker is online or left behind, so do the claims of one more launch.
LEMMA DemandKeepsRoom ==
  ASSUME ProvTypeOK, NEW r, NEW O \in SUBSET Worker, NEW k \in Nat, Cardinality(O) <= k,
         \A w \in Worker : r[w].st = "registered" => Online(w) \/ w \in O,
         NEW C \in SUBSET Worker, NEW T \in SUBSET Worker, One(T),
         \A w \in C : r[w].st \in {"launching", "registered"} \/ w \in T
  PROVE  /\ computeRoleDemand(r) \in Nat /\ computeRoleDemand(r) <= MaxPerRole
         /\ computeRoleDemand(r) > 0 => Cardinality(C) + computeRoleDemand(r) <= MaxPerRole + 1 + k
<1> DEFINE L == {w \in Worker : r[w].st = "launching"}
           n == computeRoleDemand(r)
<1>1. /\ n \in Nat /\ n <= MaxPerRole
      /\ n > 0 => Cardinality(Active) + Cardinality(L) + n <= MaxPerRole
  BY DemandWithin DEF ProvTypeOK
<1>2. Active \in SUBSET Worker /\ L \in SUBSET Worker
  BY DEF Active
<1>3. C \subseteq ((Active \cup L) \cup O) \cup T
  BY DEF Active
<1> HIDE DEF L, n
<1>4. Cardinality(Active \cup L) <= Cardinality(Active) + Cardinality(L)
      /\ Cardinality(Active \cup L) \in Nat
      /\ Cardinality(Active) \in Nat /\ Cardinality(L) \in Nat
  <2>1. IsFiniteSet(Active) /\ IsFiniteSet(L) /\ Cardinality(Active \cup L) \in Nat
        /\ Cardinality(Active) \in Nat /\ Cardinality(L) \in Nat /\ Cardinality(Active \cap L) \in Nat
    BY <1>2, WorkersCount
  <2>2. Cardinality(Active \cup L) = Cardinality(Active) + Cardinality(L) - Cardinality(Active \cap L)
    BY <2>1, FS_Union
  <2> QED
    BY <2>1, <2>2
<1>5. /\ Cardinality((Active \cup L) \cup O) <= Cardinality(Active \cup L) + Cardinality(O)
      /\ Cardinality((Active \cup L) \cup O) \in Nat /\ Cardinality(O) \in Nat
  <2> DEFINE A == Active \cup L
  <2>1. A \in SUBSET Worker
    BY <1>2
  <2> HIDE DEF A
  <2>2. IsFiniteSet(A) /\ IsFiniteSet(O) /\ Cardinality(A \cup O) \in Nat
        /\ Cardinality(A) \in Nat /\ Cardinality(O) \in Nat /\ Cardinality(A \cap O) \in Nat
    BY <2>1, WorkersCount
  <2>3. Cardinality(A \cup O) = Cardinality(A) + Cardinality(O) - Cardinality(A \cap O)
    BY <2>2, FS_Union
  <2> QED
    BY <2>2, <2>3 DEF A
<1>6. Cardinality(((Active \cup L) \cup O) \cup T) <= Cardinality((Active \cup L) \cup O) + 1
      /\ Cardinality(((Active \cup L) \cup O) \cup T) \in Nat
  <2> DEFINE A == (Active \cup L) \cup O
  <2>1. A \in SUBSET Worker
    BY <1>2
  <2> HIDE DEF A
  <2>2. Cardinality(A \cup T) <= Cardinality(A) + 1 /\ Cardinality(A \cup T) \in Nat
    BY <2>1, OneMore
  <2> QED
    BY <2>2 DEF A
<1>7. Cardinality(C) <= Cardinality(((Active \cup L) \cup O) \cup T) /\ Cardinality(C) \in Nat
  BY <1>2, <1>3, WorkersCount
<1>8. n > 0 => Cardinality(C) + n <= MaxPerRole + 1 + k
  BY <1>1, <1>4, <1>5, <1>6, <1>7, ProvisioningAssumption
<1> QED
  BY <1>1, <1>8 DEF n

\* No step but a crash leaves records behind.
Later == left' \subseteq left /\ faults' \in {faults, faults + 1}

LEMMA LeftFewer ==
  ASSUME ProvTypeOK, Budget, Later
  PROVE  /\ Cardinality(left') <= Spare' /\ Spare \in Nat /\ Spare' \in Nat /\ Spare <= Spare'
         /\ Most = MaxPerRole + 1 + Spare /\ Most' = MaxPerRole + 1 + Spare'
<1>1. faults \in Nat /\ left \in SUBSET Worker /\ left' \in SUBSET left
  BY ProvisioningAssumption DEF ProvTypeOK, Later
<1>2. /\ Spare \in Nat /\ Spare' \in Nat /\ Spare <= Spare'
      /\ Most = MaxPerRole + 1 + Spare /\ Most' = MaxPerRole + 1 + Spare'
  BY <1>1, SpareGrows DEF Later
<1>3. Cardinality(left') <= Cardinality(left) /\ Cardinality(left') \in Nat /\ Cardinality(left) \in Nat
  BY <1>1, WorkersCount
<1> QED
  BY <1>2, <1>3 DEF Budget

\* Steps that claim nothing.
Quiet == /\ Later /\ Claimed' \subseteq Claimed
         /\ \A w \in Worker : call'[w].at # "none" => call'[w].by \in Caller
         /\ PassCalls' \subseteq PassCalls /\ WarmCalls' \subseteq WarmCalls
         /\ WarmCalls' # {} => warm' = warm
         /\ pass' = pass \/ (pass'.pc # "launch" /\ PassCalls' = {})

LEMMA QuietKeeps ==
  ASSUME ProvTypeOK, Budget, Quiet
  PROVE  Budget'
<1>1. Claimed \in SUBSET Worker
  BY DEF Claimed
<1>2. Claimed' \in SUBSET Claimed
  BY DEF Quiet
<1>3. Cardinality(Claimed') \in Nat /\ Cardinality(Claimed) \in Nat
      /\ Cardinality(Claimed') <= Cardinality(Claimed)
  BY <1>1, <1>2, WorkersCount
<1>4. CallsOK'
  BY DEF Quiet, Budget, CallsOK, One
<1>5. pass.n \in Nat
  BY DEF ProvTypeOK, Pass
<1>6. Cardinality(left') <= Spare' /\ Most <= Most' /\ Most \in Nat /\ Most' \in Nat
  BY LeftFewer, ProvisioningAssumption DEF Quiet
<1>7. RoomKept'
  <2>1. Cardinality(Claimed') <= Most'
    BY <1>3, <1>6 DEF Budget, RoomKept
  <2> QED
    BY <1>3, <1>5, <1>6, <2>1 DEF Quiet, Budget, RoomKept
<1> QED
  BY <1>4, <1>6, <1>7 DEF Quiet, Budget

\* A pass computes what it wants.
LEMMA DemandedKeeps ==
  ASSUME ProvTypeOK, Budget, pass.pc # "launch", Later, call' = call, warm' = warm,
         rec' \in [Worker -> Rec], pass' = Demanded(rec'), Claimed' \subseteq Claimed,
         \A w \in Worker : rec'[w].st = "registered" => Online(w) \/ w \in left'
  PROVE  Budget'
<1> USE DEF PassCalls, WarmCalls, CallsBy
<1>1. PassCalls = {} /\ PassCalls' = {} /\ WarmCalls' = WarmCalls /\ WarmCalls \in SUBSET Worker
  BY DEF Budget, CallsOK
<1>2. One(WarmCalls)
  BY DEF Budget, CallsOK
<1>3. \A w \in Worker : call[w].at = "port" => w \in WarmCalls
  <2>1. \A w \in Worker : call[w].by # "pass"
    BY <1>1
  <2>2. \A w \in Worker : call[w].at # "none" => call[w].by \in {"pass", "warm"}
    BY DEF Budget, CallsOK
  <2> QED
    BY <2>1, <2>2
<1>4. PICK r : r = rec'
  OBVIOUS
<1>5. PICK C \in SUBSET Worker : C = Claimed'
  BY DEF Claimed
<1>6. \A w \in C : r[w].st \in {"launching", "registered"} \/ w \in WarmCalls
  BY <1>3, <1>4, <1>5 DEF Claimed, Claims
<1>7. PICK O \in SUBSET Worker, k \in Nat : O = left' /\ k = Spare'
  BY LeftFewer DEF Later, ProvTypeOK
<1>0. /\ \A w \in Worker : r[w].st = "registered" => Online(w) \/ w \in O
      /\ Cardinality(O) <= k /\ Most' = MaxPerRole + 1 + k
  BY <1>4, <1>7, LeftFewer
<1> DEFINE n == computeRoleDemand(r)
<1>8. /\ n \in Nat /\ n <= MaxPerRole
      /\ n > 0 => Cardinality(C) + n <= MaxPerRole + 1 + k
  BY <1>0, <1>1, <1>2, <1>6, DemandKeepsRoom
<1>9. pass' = [Idle EXCEPT !.pc = "launch", !.n = n]
  BY <1>4 DEF Demanded
<1> HIDE DEF n
<1>10. pass'.pc = "launch" /\ pass'.n = n
  BY <1>9 DEF Idle
<1>11. CallsOK'
  BY <1>1 DEF Budget, CallsOK, One
<1>12. Cardinality(Claimed') <= Most'
  <2>1. Claimed \in SUBSET Worker /\ Claimed' \in SUBSET Claimed
    BY DEF Claimed
  <2>2. Cardinality(Claimed') <= Cardinality(Claimed) /\ Cardinality(Claimed') \in Nat
        /\ Cardinality(Claimed) \in Nat /\ Cardinality(Claimed) <= Most
    BY <2>1, WorkersCount DEF Budget, RoomKept
  <2> QED
    BY <2>2, LeftFewer, ProvisioningAssumption
<1>13. RoomKept'
  BY <1>0, <1>1, <1>5, <1>8, <1>10, <1>12 DEF RoomKept
<1> QED
  BY <1>11, <1>13, LeftFewer DEF Budget

\* What a launch claims is what it takes from the room that was kept.
LEMMA PassLaunchKeeps ==
  ASSUME ProvTypeOK, Budget, Later, NEW w \in Worker, PassLaunches(w)
  PROVE  Budget'
<1> USE DEF PassCalls, WarmCalls, CallsBy
<1>1. /\ pass.pc = "launch" /\ pass.n > 0 /\ pass.n \in Nat /\ PassCalls = {}
      /\ pass'.pc = "launch" /\ pass'.n = pass.n - 1 /\ rec' = rec
      /\ warm' = warm
      /\ call' = [call EXCEPT ![w] = [at |-> "port", by |-> "pass"]]
  BY DEF PassLaunches, launchWorker, ProvTypeOK, Pass
<1>2. PassCalls' = {w} /\ WarmCalls' \subseteq WarmCalls
  BY <1>1 DEF ProvTypeOK
<1>3. Claimed' \subseteq Claimed \cup {w}
  BY <1>1 DEF Claimed, Claims, ProvTypeOK
<1>4. CallsOK'
  <2>1. \A v \in Worker : call'[v].at # "none" => call'[v].by \in Caller
    BY <1>1 DEF Budget, CallsOK, ProvTypeOK
  <2> QED
    BY <1>1, <1>2, <2>1 DEF Budget, CallsOK, One
<1>5. Cardinality(Claimed') \in Nat /\ Cardinality(Claimed') <= Cardinality(Claimed) + 1
  BY <1>3, ClaimedOneMore
<1>6. Most \in Nat /\ Most' \in Nat /\ Most <= Most' /\ Cardinality(left') <= Spare'
  BY LeftFewer, ProvisioningAssumption
<1>7. RoomKept'
  <2>1. /\ Cardinality(Claimed) \in Nat /\ Cardinality(Claimed) + pass.n <= Most
        /\ pass.n <= MaxPerRole
    BY <1>1, ClaimedCount DEF Budget, RoomKept
  <2>2. /\ Cardinality(Claimed') <= Most' /\ Cardinality(Claimed') + (pass.n - 1) <= Most'
        /\ pass.n - 1 < MaxPerRole /\ pass.n - 1 <= MaxPerRole
    BY <1>1, <1>5, <1>6, <2>1, ProvisioningAssumption
  <2> QED
    BY <1>1, <2>2 DEF RoomKept
<1> QED
  BY <1>4, <1>6, <1>7 DEF Budget

\* The startup check launches when nothing is there; a pass may be about to.
LEMMA WarmLaunchKeeps ==
  ASSUME ProvTypeOK, Budget, Later, NEW w \in Worker, WarmLaunches(w)
  PROVE  Budget'
<1> USE DEF PassCalls, WarmCalls, CallsBy
<1>1. /\ WarmCalls = {} /\ warm' \in {"warmed", "retried"}
      /\ \A v \in Worker : rec[v].st \notin {"launching", "registered"}
      /\ pass' = pass /\ rec' = rec
      /\ call' = [call EXCEPT ![w] = [at |-> "port", by |-> "warm"]]
  BY DEF WarmLaunches, Warms, launchWorker, requests, Budget, CallsOK,
         hasActiveOrLaunchingWorkerForRole
<1>2. WarmCalls' = {w} /\ PassCalls' \subseteq PassCalls
  BY <1>1 DEF ProvTypeOK
<1>3. Claimed' \subseteq PassCalls \cup {w}
  <2>1. \A v \in Worker : call[v].at # "none" => call[v].by = "pass"
    BY <1>1 DEF Budget, CallsOK
  <2> QED
    BY <1>1, <2>1 DEF Claimed, Claims, ProvTypeOK
<1>4. CallsOK'
  <2>1. \A v \in Worker : call'[v].at # "none" => call'[v].by \in Caller
    BY <1>1 DEF Budget, CallsOK, ProvTypeOK
  <2> QED
    BY <1>1, <1>2, <2>1 DEF Budget, CallsOK, One
<1>5. /\ Cardinality(Claimed') \in Nat /\ Cardinality(Claimed') <= 2
      /\ PassCalls = {} => Cardinality(Claimed') <= 1
  <2>1. PassCalls \in SUBSET Worker /\ {w} \in SUBSET Worker /\ One({w}) /\ One(PassCalls)
    BY DEF One, Budget, CallsOK
  <2>2. PassCalls \cup {w} \in SUBSET Worker
    OBVIOUS
  <2>3. Cardinality({}) = 0
    BY FS_EmptySet
  <2>4. Cardinality(PassCalls) <= 1 /\ Cardinality(PassCalls) \in Nat
        /\ (PassCalls = {} => Cardinality(PassCalls) = 0)
    <3>1. {} \cup PassCalls = PassCalls /\ {} \in SUBSET Worker
      OBVIOUS
    <3> HIDE DEF PassCalls
    <3> QED
      BY <2>1, <2>3, <3>1, OneMore
  <2>5. Claimed' \in SUBSET (PassCalls \cup {w})
    BY <1>3
  <2> HIDE DEF PassCalls
  <2>6. Cardinality(Claimed') \in Nat /\ Cardinality(Claimed') <= Cardinality(PassCalls \cup {w})
    BY <2>2, <2>5, WorkersCount
  <2>7. Cardinality(PassCalls \cup {w}) \in Nat
        /\ Cardinality(PassCalls \cup {w}) <= Cardinality(PassCalls) + 1
    BY <2>1, OneMore
  <2> QED
    BY <2>4, <2>6, <2>7
<1>6. RoomKept'
  <2>1. pass.n \in Nat
    BY DEF ProvTypeOK, Pass
  <2>2. PassCalls' # {} => PassCalls # {}
    BY <1>2
  <2>3. PassCalls # {} => pass.pc = "launch" /\ pass.n < MaxPerRole
    BY DEF Budget, CallsOK, RoomKept
  <2>a. Most' \in Nat /\ MaxPerRole + 1 <= Most'
    BY LeftFewer, ProvisioningAssumption
  <2> HIDE DEF PassCalls
  <2>4. Cardinality(Claimed') <= Most'
    BY <1>5, <2>1, <2>3, <2>a, ProvisioningAssumption
  <2>5. pass.pc = "launch" => pass.n <= MaxPerRole
    BY DEF Budget, RoomKept
  <2>6. pass.pc = "launch" => Cardinality(Claimed') + pass.n <= Most'
    BY <1>5, <2>1, <2>3, <2>5, <2>a, ProvisioningAssumption
  <2> QED
    BY <1>1, <2>2, <2>3, <2>4, <2>5, <2>6 DEF RoomKept
<1> QED
  BY <1>4, <1>6, LeftFewer DEF Budget

\* A termination and a removal claim nothing.
LEMMA TerminateClaims ==
  ASSUME ProvTypeOK, NEW v \in Worker, NEW w \in Worker, NEW final, NEW by,
         NEW r \in [Worker -> Rec], r[v].st \in {"launching", "registered"} => Claims(v),
         terminateFrom(r, w, final, by), call' = call
  PROVE  Claims(v)' => Claims(v)
<1>1. CASE r[w].st = "none"
  BY <1>1 DEF terminateFrom, records, Claims
<1>2. CASE r[w].st # "none"
  <2>1. rec' = [r EXCEPT ![w].st = "terminating"]
    BY <1>2 DEF terminateFrom
  <2>2. rec'[v].st \in {r[v].st, "terminating"}
    BY <2>1
  <2> QED
    BY <2>2 DEF Claims
<1> QED
  BY <1>1, <1>2

LEMMA TerminateNowClaims ==
  ASSUME ProvTypeOK, NEW w \in Worker, NEW final, NEW by,
         terminateManagedWorker(w, final, by), call' = call
  PROVE  Claimed' \subseteq Claimed
<1>1. rec \in [Worker -> Rec] /\ \A v \in Worker : rec[v].st \in {"launching", "registered"} => Claims(v)
  BY DEF ProvTypeOK, Claims
<1>2. ASSUME NEW v \in Worker PROVE Claims(v)' => Claims(v)
  BY <1>1, TerminateClaims DEF terminateManagedWorker
<1> QED
  BY <1>2 DEF Claimed

LEMMA RemovedClaims ==
  ASSUME ProvTypeOK, NEW w \in Worker, NEW by, NEW x, onWorkerRemoved(w, by, x), call' = call
  PROVE  Claimed' \subseteq Claimed
<1>1. CASE Removable(w)
  BY <1>1, TerminateNowClaims DEF onWorkerRemoved
<1>2. CASE ~Removable(w)
  BY <1>2 DEF onWorkerRemoved, Claimed, Claims
<1> QED
  BY <1>1, <1>2

LEMMA ScaleClaims ==
  ASSUME ProvTypeOK, NEW listed \in SUBSET Worker, NEW active, scaleDown(listed, active), call' = call
  PROVE  Claimed' \subseteq Claimed /\ pass'.pc # "launch"
<1>1. CASE UNCHANGED records /\ pass' = [Idle EXCEPT !.pc = IF queued /\ ~Stopped THEN "begin" ELSE "settling"]
  BY <1>1 DEF records, Claimed, Claims, Idle
<1>2. ASSUME NEW w \in Worker, terminateManagedWorker(w, "terminated", "pass"), pass'.pc = "retire"
      PROVE  Claimed' \subseteq Claimed /\ pass'.pc # "launch"
  BY <1>2, TerminateNowClaims
<1> QED
  BY <1>1, <1>2 DEF scaleDown

\* A request that comes while a pass is at work waits for its end.
LEMMA RequestQuiet ==
  ASSUME Budget, requestReconcile, PassCalls' \subseteq PassCalls
  PROVE  pass' = pass \/ (pass'.pc # "launch" /\ PassCalls' = {})
<1>1. CASE pass.pc = "off"
  <2>1. pass' \in {pass, [Idle EXCEPT !.pc = "begin"]} /\ PassCalls = {}
    BY <1>1 DEF requestReconcile, Requested, Budget, CallsOK
  <2>2. [Idle EXCEPT !.pc = "begin"].pc # "launch"
    BY DEF Idle
  <2> QED
    BY <2>1, <2>2
<1>2. CASE pass.pc # "off"
  BY <1>2 DEF requestReconcile, Requested
<1> QED
  BY <1>1, <1>2

LEMMA FaultsGrow ==
  ASSUME [Next]_vars
  PROVE  faults' \in {faults, faults + 1}
<1> USE DEF records, world, requests, others, Fail
<1>1. ASSUME PassStep \/ WarmStep \/ WarmGivesUp \/ StopStep \/ StopBegins \/ Tick \/ Restart
      PROVE  faults' \in {faults, faults + 1}
  BY <1>1 DEF PassStep, BeginPass, ComputeDemand, ListIdle, RetireNext, ClearPromise, ExpireLaunch,
       PassLaunches, WarmStep, WarmSkips, WarmPolls, WarmRequests, WarmAwaits, WarmReady, WarmLaunches,
       WarmGivesUp, StopStep, StopTerminates, StopEnds, StopBegins, Tick, Restart, Warms, MayFail
<1>2. ASSUME NEW w \in Worker,
             LaunchStep(w) \/ PortFails(w) \/ LaunchFails(w) \/ Register(w) \/ SendBeat(w)
      PROVE  faults' \in {faults, faults + 1}
  BY <1>2 DEF LaunchStep, PortReserved, Spawn, LaunchReturns, PortFails, LaunchFails, Register, SendBeat
<1>3. ASSUME NEW w \in Worker,
             BeatArrives(w) \/ InstanceExits(w) \/ Silent(w) \/ TimerReaps(w) \/ Age(w) \/ DeleteWorker(w)
      PROVE  faults' \in {faults, faults + 1}
  BY <1>3 DEF BeatArrives, InstanceExits, Silent, TimerReaps, Age, DeleteWorker
<1>4. ASSUME NEW t \in Task,
             CreateTask(t) \/ RevertAssignment(t) \/ TaskCompletes(t) \/ TaskFails(t)
               \/ \E w \in Worker : Assign(t, w)
      PROVE  faults' \in {faults, faults + 1}
  BY <1>4 DEF CreateTask, RevertAssignment, TaskCompletes, TaskFails, Assign
<1>5. ASSUME NEW x \in terms, FinishTerminate(x)
      PROVE  faults' \in {faults, faults + 1}
  BY <1>5 DEF FinishTerminate
<1>6. CASE UNCHANGED vars
  BY <1>6 DEF vars
<1> QED
  BY <1>1, <1>2, <1>3, <1>4, <1>5, <1>6 DEF Next

\* What a crash leaves behind was claimed, and nothing else is claimed after it.
LEMMA RestartKeeps ==
  ASSUME ProvTypeOK, Budget, Restart
  PROVE  Budget'
<1> USE DEF PassCalls, WarmCalls, CallsBy
<1>1. /\ "crash" \in Faults /\ faults' = faults + 1 /\ faults \in Nat
      /\ call' = [w \in Worker |-> NoCall] /\ pass' = Idle
      /\ left' = {w \in Worker : rec[w].st = "registered"}
      /\ rec' = [w \in Worker |-> refreshed(rec[w], "none")]
  BY ProvisioningAssumption DEF Restart, Fail, MayFail, ProvTypeOK
<1>2. Spare' = Most /\ Most' = MaxPerRole + 1 + Spare' /\ Spare' \in Nat
  BY <1>1, SpareGrows
<1>3. PassCalls' = {} /\ WarmCalls' = {}
  BY <1>1, ProvisioningAssumption
<1>4. CallsOK'
  BY <1>1, <1>3 DEF CallsOK, One
<1>5. Claimed \in SUBSET Worker /\ left' \in SUBSET Claimed /\ Claimed' \in SUBSET Claimed
  <2>1. \A w \in Worker : rec'[w].st \in {"launching", "registered"} => rec'[w].st = rec[w].st
    BY <1>1 DEF refreshed
  <2>2. \A w \in Worker : call'[w].at # "port"
    BY <1>1
  <2> QED
    BY <1>1, <2>1, <2>2 DEF Claimed, Claims
<1>6. /\ Cardinality(left') \in Nat /\ Cardinality(left') <= Cardinality(Claimed)
      /\ Cardinality(Claimed') \in Nat /\ Cardinality(Claimed') <= Cardinality(Claimed)
      /\ Cardinality(Claimed) \in Nat /\ Cardinality(Claimed) <= Most
  BY <1>5, WorkersCount DEF Budget, RoomKept
<1>7. Cardinality(left') <= Spare' /\ Cardinality(Claimed') <= Most'
  BY <1>2, <1>6, ProvisioningAssumption
<1>8. pass'.pc # "launch"
  BY <1>1 DEF Idle
<1> QED
  BY <1>4, <1>7, <1>8 DEF Budget, RoomKept

LEMMA NextBudget ==
  ASSUME ProvTypeOK, RegisteredIsOnline, [Next]_vars, Budget
  PROVE  Budget'
<1> USE DEF records, world, requests, others
<1>a. \A w \in Worker : call[w].at # "none" => call[w].by \in Caller
  BY DEF Budget, CallsOK
<1>b. \A w \in Worker : rec[w].st = "registered" => Online(w) \/ w \in left
  BY DEF RegisteredIsOnline
<1>g. left' \subseteq left => Later
  BY FaultsGrow DEF Later
<1>c. pass.pc # "launch" => PassCalls = {}
  BY DEF Budget, CallsOK
<1>d. call' = call => PassCalls' = PassCalls /\ WarmCalls' = WarmCalls
  BY DEF PassCalls, WarmCalls, CallsBy
<1>e. call' = call /\ rec' = rec => Claimed' = Claimed
  BY DEF Claimed, Claims
<1>f. ASSUME call' = call, left' \subseteq left, Claimed' \subseteq Claimed,
             warm' = warm \/ WarmCalls = {},
             pass' = pass \/ (pass'.pc # "launch" /\ pass.pc # "launch") \/ requestReconcile
      PROVE  Budget'
  <2>1. pass' = pass \/ (pass'.pc # "launch" /\ PassCalls' = {})
    BY <1>c, <1>d, <1>f, RequestQuiet
  <2> QED
    BY <1>a, <1>d, <1>f, <1>g, <2>1, QuietKeeps DEF Quiet
<1>1. CASE BeginPass
  <2> DEFINE now == [w \in Worker |-> refreshed(rec[w], member[w])]
             late == {w \in Worker : now[w].st = "launching" /\ now[w].age > 0}
  <2>1. now \in [Worker -> Rec]
    BY RefreshedType DEF ProvTypeOK
  <2>2. \A w \in Worker : now[w].st \in {"launching", "registered"} => Claims(w)
    BY DEF refreshed, seen, promoted, Claims, ProvTypeOK
  <2>3. \A w \in Worker : now[w].st = "registered" => Online(w) \/ w \in left
    BY <1>b DEF refreshed, seen, promoted, Online, ProvTypeOK
  <2>4. pass.pc = "begin" /\ call' = call /\ warm' = warm /\ left' \subseteq left
        /\ left' = left \ {w \in Worker : now[w].st = "none"}
    BY <1>1 DEF BeginPass
  <2>5. \/ rec' = now /\ pass' = Demanded(now)
        \/ \E w \in late : pass'.pc = "expire" /\ terminateFrom(now, w, "failed", "pass")
    BY <1>1 DEF BeginPass, Idle
  <2> HIDE DEF now
  <2>6. CASE rec' = now /\ pass' = Demanded(now)
    <3>1. Claimed' \subseteq Claimed
      BY <2>2, <2>4, <2>6 DEF Claimed, Claims
    <3>2. rec' \in [Worker -> Rec] /\ pass' = Demanded(rec')
          /\ \A w \in Worker : rec'[w].st = "registered" => Online(w) \/ w \in left'
      BY <2>1, <2>3, <2>4, <2>6
    <3> QED
      BY <1>g, <2>4, <3>1, <3>2, DemandedKeeps
  <2>7. ASSUME NEW w \in late, pass'.pc = "expire", terminateFrom(now, w, "failed", "pass")
        PROVE  Budget'
    <3>1. ASSUME NEW v \in Worker PROVE Claims(v)' => Claims(v)
      BY <2>1, <2>2, <2>4, <2>7, TerminateClaims
    <3>2. Claimed' \subseteq Claimed
      BY <3>1 DEF Claimed
    <3> QED
      BY <1>f, <2>4, <2>7, <3>2
  <2> QED
    BY <2>5, <2>6, <2>7
<1>2. ASSUME NEW w \in Worker, ExpireLaunch(w) PROVE Budget'
  <2>1. /\ pass.pc = "expire" /\ pass'.pc = "expire" /\ call' = call /\ warm' = warm /\ left' \subseteq left
        /\ terminateManagedWorker(w, "failed", "pass")
    BY <1>2, <1>a DEF ExpireLaunch, ProvTypeOK, Pass
  <2> QED
    BY <1>f, <2>1, TerminateNowClaims
<1>3. CASE ComputeDemand
  <2>1. /\ pass.pc # "launch" /\ call' = call /\ warm' = warm /\ left' = left
        /\ rec' = rec /\ pass' = Demanded(rec)
    BY <1>3, <1>a DEF ComputeDemand
  <2>2. rec' \in [Worker -> Rec] /\ pass' = Demanded(rec') /\ Claimed' \subseteq Claimed
        /\ \A w \in Worker : rec'[w].st = "registered" => Online(w) \/ w \in left'
    BY <1>b, <1>e, <2>1 DEF ProvTypeOK
  <2> QED
    BY <1>g, <2>1, <2>2, DemandedKeeps
<1>4. ASSUME NEW w \in Worker, PassLaunches(w) PROVE Budget'
  <2>1. left' \subseteq left
    BY <1>4 DEF PassLaunches
  <2> QED
    BY <1>4, <1>g, <2>1, PassLaunchKeeps
<1>5. CASE ListIdle
  <2>1. PICK S \in SUBSET Worker : scaleDown(S, Cardinality(Active))
    BY <1>5 DEF ListIdle
  <2>2. call' = call /\ warm' = warm /\ left' \subseteq left /\ PassCalls = {}
    BY <1>5, <1>a DEF ListIdle, PassCalls
  <2> QED
    BY <1>g, <1>a, <1>d, <2>1, <2>2, ScaleClaims, QuietKeeps DEF Quiet
<1>6. CASE RetireNext
  <2>1. pass.todo \in SUBSET Worker
    BY DEF ProvTypeOK, Pass
  <2>2. call' = call /\ warm' = warm /\ left' \subseteq left /\ pass.pc = "retire"
        /\ scaleDown(pass.todo, pass.n)
    BY <1>6, <1>a DEF RetireNext
  <2> QED
    BY <1>f, <2>1, <2>2, ScaleClaims
<1>7. CASE ClearPromise
  <2>1. pass.pc # "launch" /\ pass'.pc # "launch" /\ call' = call /\ warm' = warm /\ left' \subseteq left /\ rec' = rec
    BY <1>7, <1>a DEF ClearPromise, Idle
  <2> QED
    BY <1>e, <1>f, <2>1
<1>8. ASSUME NEW w \in Worker, LaunchStep(w) PROVE Budget'
  <2>1. /\ \A v \in Worker : call'[v].by = call[v].by \/ (call'[v].at = "none" /\ call'[v].by = None)
        /\ \A v \in Worker : call'[v].at # "none" => call[v].at # "none"
    <3>1. CASE PortReserved(w)
      BY <3>1 DEF PortReserved, ProvTypeOK
    <3>2. CASE Spawn(w)
      BY <3>2 DEF Spawn
    <3>3. CASE LaunchReturns(w)
      <4>1. call' = [call EXCEPT ![w] = NoCall] /\ call \in [Worker -> Call]
        BY <3>3 DEF LaunchReturns, ProvTypeOK
      <4> QED
        BY <4>1
    <3> QED
      BY <1>8, <3>1, <3>2, <3>3 DEF LaunchStep
  <2>2. Claimed' \subseteq Claimed
    <3>1. ASSUME NEW v \in Worker PROVE Claims(v)' => Claims(v)
      <4>1. CASE PortReserved(w)
        BY <4>1 DEF PortReserved, ProvTypeOK, Claims
      <4>2. CASE Spawn(w)
        BY <4>2 DEF Spawn, Claims
      <4>3. CASE LaunchReturns(w)
        <5>1. rec'[v].st = rec[v].st
          BY <4>3 DEF LaunchReturns, ProvTypeOK
        <5>2. call'[v].at = "port" => call[v].at = "port"
          BY <4>3 DEF LaunchReturns, ProvTypeOK
        <5> QED
          BY <5>1, <5>2 DEF Claims
      <4> QED
        BY <1>8, <4>1, <4>2, <4>3 DEF LaunchStep
    <3> QED
      BY <3>1 DEF Claimed
  <2>3. pass' = pass /\ warm' = warm /\ left' \subseteq left
    BY <1>8, <1>a DEF LaunchStep, PortReserved, Spawn, LaunchReturns
  <2>4. PassCalls' \subseteq PassCalls /\ WarmCalls' \subseteq WarmCalls
    BY <2>1, ProvisioningAssumption DEF PassCalls, WarmCalls, CallsBy
  <2>5. \A v \in Worker : call'[v].at # "none" => call'[v].by \in Caller
    BY <1>a, <2>1
  <2> QED
    BY <1>g, <2>2, <2>3, <2>4, <2>5, QuietKeeps DEF Quiet
<1>9. ASSUME NEW w \in Worker, PortFails(w) PROVE Budget'
  <2>1. call' = [call EXCEPT ![w] = NoCall] /\ rec' = rec /\ left' \subseteq left /\ call[w].at = "port"
    BY <1>9, <1>a DEF PortFails
  <2>2. Claimed' \subseteq Claimed
    BY <2>1 DEF Claimed, Claims, ProvTypeOK
  <2>3. PassCalls' \subseteq PassCalls \ {w} /\ WarmCalls' \subseteq WarmCalls \ {w}
    BY <2>1, ProvisioningAssumption DEF PassCalls, WarmCalls, CallsBy, ProvTypeOK
  <2>4. \A v \in Worker : call'[v].at # "none" => call'[v].by \in Caller
    BY <1>a, <2>1 DEF ProvTypeOK
  <2>5. CASE call[w].by = "pass"
    <3>1. PassCalls' = {}
      BY <2>3, <2>5 DEF Budget, CallsOK, One, PassCalls, CallsBy
    <3>2. pass'.pc # "launch" /\ warm' = warm
      BY <1>9, <2>5 DEF PortFails, Idle
    <3> QED
      BY <1>g, <2>1, <2>2, <2>3, <2>4, <3>1, <3>2, QuietKeeps DEF Quiet
  <2>6. CASE call[w].by # "pass"
    <3>1. call[w].by = "warm"
      BY <1>a, <2>1, <2>6
    <3>2. WarmCalls' = {}
      BY <2>3, <3>1 DEF Budget, CallsOK, One, WarmCalls, CallsBy
    <3>3. pass' = pass
      BY <1>9, <2>6 DEF PortFails
    <3> QED
      BY <1>g, <2>1, <2>2, <2>3, <2>4, <3>2, <3>3, QuietKeeps DEF Quiet
  <2> QED
    BY <2>5, <2>6
<1>10. ASSUME NEW w \in Worker, LaunchFails(w) PROVE Budget'
  <2>1. /\ call' = [call EXCEPT ![w] = NoCall] /\ left' \subseteq left /\ pass' = pass /\ warm' = warm
        /\ rec' = [rec EXCEPT ![w] = IF @.st = "none" THEN @
                                     ELSE [@ EXCEPT !.st = "failed", !.idle = FALSE, !.age = 0]]
    BY <1>10, <1>a DEF LaunchFails
  <2>2. ASSUME NEW v \in Worker PROVE Claims(v)' => Claims(v)
    <3>1. rec'[v].st \in {rec[v].st, "failed"}
      BY <2>1 DEF ProvTypeOK
    <3>2. call'[v].at = "port" => call[v].at = "port"
      BY <2>1 DEF ProvTypeOK
    <3> QED
      BY <3>1, <3>2 DEF Claims
  <2>3. PassCalls' \subseteq PassCalls /\ WarmCalls' \subseteq WarmCalls
    BY <2>1, ProvisioningAssumption DEF PassCalls, WarmCalls, CallsBy, ProvTypeOK
  <2>4. \A v \in Worker : call'[v].at # "none" => call'[v].by \in Caller
    BY <1>a, <2>1 DEF ProvTypeOK
  <2> QED
    BY <1>g, <2>1, <2>2, <2>3, <2>4, QuietKeeps DEF Quiet, Claimed
<1>11. ASSUME NEW x \in terms, FinishTerminate(x) PROVE Budget'
  <2>1. x.w \in Worker /\ x.final \in {"failed", "terminated"}
    BY DEF ProvTypeOK
  <2>2. /\ call' = call /\ left' \subseteq left /\ pass' = pass /\ warm' = warm
        /\ rec' = [rec EXCEPT ![x.w] = IF @.st = "none" THEN @
                                       ELSE [@ EXCEPT !.st = x.final, !.idle = FALSE, !.age = 0]]
    BY <1>11, <1>a DEF FinishTerminate
  <2>3. ASSUME NEW v \in Worker PROVE Claims(v)' => Claims(v)
    <3>1. rec'[v].st \in {rec[v].st, "failed", "terminated"}
      BY <2>1, <2>2 DEF ProvTypeOK
    <3> QED
      BY <2>2, <3>1 DEF Claims
  <2> QED
    BY <1>f, <2>2, <2>3 DEF Claimed
<1>12. CASE WarmSkips \/ WarmPolls \/ WarmAwaits \/ WarmReady \/ WarmGivesUp
  <2>1. WarmCalls = {}
    BY <1>12 DEF WarmSkips, WarmPolls, WarmAwaits, WarmReady, WarmGivesUp, Warms, WarmWaits, WarmCalls,
                 Budget, CallsOK
  <2>2. call' = call /\ rec' = rec /\ left' \subseteq left /\ pass' = pass
    BY <1>12, <1>a DEF WarmSkips, WarmPolls, WarmAwaits, WarmReady, WarmGivesUp, Warms
  <2> QED
    BY <1>e, <1>f, <2>1, <2>2
<1>13. CASE WarmRequests
  <2>1. call' = call /\ rec' = rec /\ left' \subseteq left /\ WarmCalls = {} /\ requestReconcile
    BY <1>13 DEF WarmRequests, WarmWaits, WarmCalls
  <2> QED
    BY <1>e, <1>f, <2>1
<1>14. ASSUME NEW w \in Worker, WarmLaunches(w) PROVE Budget'
  <2>1. left' \subseteq left
    BY <1>14 DEF WarmLaunches, Warms
  <2> QED
    BY <1>14, <1>g, <2>1, WarmLaunchKeeps
<1>15. ASSUME NEW w \in Worker, Register(w) PROVE Budget'
  <2>1. /\ call' = call /\ pass' = pass /\ warm' = warm /\ left' \subseteq left
        /\ rec[w].st \in {"none", "launching", "registered"}
    BY <1>15, <1>a DEF Register
  <2>2. Claimed' \subseteq Claimed
    BY <1>15, <2>1 DEF Register, ProvTypeOK, Claimed, Claims
  <2> QED
    BY <1>f, <2>1, <2>2
<1>16. ASSUME NEW w \in Worker, BeatArrives(w) PROVE Budget'
  <2>1. call' = call /\ warm' = warm /\ left' \subseteq left /\ (pass' = pass \/ requestReconcile)
    BY <1>16, <1>a DEF BeatArrives
  <2>2. Claimed' \subseteq Claimed
    BY <1>16, <2>1 DEF BeatArrives, seen, promoted, ProvTypeOK, Claimed, Claims
  <2> QED
    BY <1>f, <2>1, <2>2
<1>17. ASSUME NEW w \in Worker, SendBeat(w) \/ InstanceExits(w) \/ TimerReaps(w) PROVE Budget'
  BY <1>17, <1>a, <1>e, <1>f DEF SendBeat, InstanceExits, TimerReaps
<1>18. ASSUME NEW w \in Worker, Silent(w) \/ DeleteWorker(w) PROVE Budget'
  <2>1. call' = call /\ warm' = warm /\ left' \subseteq left /\ (pass' = pass \/ requestReconcile)
    BY <1>18, <1>a DEF Silent, DeleteWorker
  <2>2. Claimed' \subseteq Claimed
    BY <1>18, <2>1, RemovedClaims DEF Silent, DeleteWorker
  <2> QED
    BY <1>f, <2>1, <2>2
<1>19. ASSUME NEW w \in Worker, Age(w) PROVE Budget'
  <2>1. call' = call /\ warm' = warm /\ left' \subseteq left /\ pass' = pass
    BY <1>19, <1>a DEF Age
  <2>2. Claimed' \subseteq Claimed
    BY <1>19, <2>1 DEF Age, ProvTypeOK, Claimed, Claims
  <2> QED
    BY <1>f, <2>1, <2>2
<1>20. CASE Tick
  BY <1>20, <1>a, <1>e, <1>f DEF Tick
<1>21. CASE StopBegins \/ StopEnds
  BY <1>21, <1>a, <1>e, <1>f DEF StopBegins, StopEnds
<1>22. ASSUME NEW w \in Worker, StopTerminates(w) PROVE Budget'
  BY <1>22, <1>a, <1>f, TerminateNowClaims DEF StopTerminates
<1>23. ASSUME NEW t \in Task,
              CreateTask(t) \/ RevertAssignment(t) \/ TaskCompletes(t) \/ \E w \in Worker : Assign(t, w)
       PROVE  Budget'
  BY <1>23, <1>a, <1>e, <1>f DEF CreateTask, RevertAssignment, TaskCompletes, Assign
<1>24. ASSUME NEW t \in Task, TaskFails(t) PROVE Budget'
  <2>1. task[t].by \in Worker
    BY <1>24 DEF TaskFails, ProvTypeOK, TaskRec
  <2>2. call' = call /\ warm' = warm /\ left' \subseteq left /\ requestReconcile
        /\ \E x : onWorkerRemoved(task[t].by, "api", x)
    BY <1>24, <1>a DEF TaskFails
  <2> QED
    BY <1>f, <2>1, <2>2, RemovedClaims
<1>25. CASE Restart
  BY <1>25, RestartKeeps
<1>26. CASE UNCHANGED vars
  BY <1>26, <1>a, <1>e, <1>f DEF vars
<1> QED
  BY <1>1, <1>2, <1>3, <1>4, <1>5, <1>6, <1>7, <1>8, <1>9, <1>10, <1>11, <1>12, <1>13, <1>14,
     <1>15, <1>16, <1>17, <1>18, <1>19, <1>20, <1>21, <1>22, <1>23, <1>24, <1>25, <1>26
     DEF Next, PassStep, WarmStep, StopStep

LEMMA BudgetHolds == Spec => []Budget
<1>1. Init => Budget
  <2> SUFFICES ASSUME Init PROVE Budget
    OBVIOUS
  <2>1. Claimed = {} /\ PassCalls = {} /\ WarmCalls = {}
    BY ProvisioningAssumption DEF Init, Claimed, Claims, PassCalls, WarmCalls, CallsBy
  <2>2. CallsOK
    BY <2>1 DEF Init, CallsOK, One
  <2>3. Cardinality(Claimed) = 0 /\ Cardinality(left) = 0
    BY <2>1, FS_EmptySet DEF Init
  <2>4. Spare = 0
    BY ProvisioningAssumption DEF Init, Spare
  <2>5. RoomKept
    BY <2>3, <2>4, ProvisioningAssumption DEF Init, RoomKept, Idle, Most
  <2> QED
    BY <2>2, <2>3, <2>4, <2>5 DEF Budget
<1>2. ProvTypeOK /\ RegisteredIsOnline /\ Budget /\ [Next]_vars => Budget'
  BY NextBudget
<1> QED
  BY <1>1, <1>2, TypeCorrect, RegisteredAreOnline, PTL DEF Spec

LEMMA ManagedCounted ==
  ASSUME Budget, ProvTypeOK
  PROVE  Cardinality(Managed) \in Nat /\ Cardinality(Managed) <= Most
<1>1. Claimed \in SUBSET Worker /\ Managed \in SUBSET Claimed
  BY DEF Managed, Claimed, Claims
<1>2. Cardinality(Managed) \in Nat /\ Cardinality(Managed) <= Cardinality(Claimed)
      /\ Cardinality(Claimed) \in Nat
  BY <1>1, WorkersCount
<1>3. Cardinality(Claimed) <= Most
  BY DEF Budget, RoomKept
<1>4. Most \in Nat
  <2>1. faults \in Nat /\ MaxPerRole + 1 \in Nat
    BY ProvisioningAssumption DEF ProvTypeOK
  <2>2. (MaxPerRole + 1) * faults \in Nat
    BY <2>1, TimesOneMore, Zenon
  <2>3. Spare \in Nat
    BY <2>2 DEF Spare
  <2> QED
    BY <2>1, <2>3 DEF Most
<1> QED
  BY <1>2, <1>3, <1>4

(* However often the controller crashes, a role outgrows its maximum by one worker and *)
(* by as many again for each crash: a new process counts none of the workers that      *)
(* survived until they register again.  faults counts at least the crashes.            *)
THEOREM OneMaximumPerCrash ==
  Spec => [](Cardinality(Managed) <= (MaxPerRole + 1) * (faults + 1))
<1>1. ASSUME Budget, ProvTypeOK PROVE Cardinality(Managed) <= (MaxPerRole + 1) * (faults + 1)
  <2>1. faults \in Nat /\ MaxPerRole \in Nat
    BY <1>1, ProvisioningAssumption DEF ProvTypeOK
  <2>2. Cardinality(Managed) \in Nat /\ Cardinality(Managed) <= MaxPerRole + 1 + Spare
    BY <1>1, ManagedCounted DEF Most
  <2> DEFINE m == MaxPerRole + 1
  <2>3. m \in Nat
    BY <2>1
  <2>4. (Spare = m * faults \/ Spare = 0) /\ Cardinality(Managed) <= m + Spare
    BY <2>2 DEF Spare
  <2> HIDE DEF m
  <2>5. m * faults \in Nat /\ m * (faults + 1) = m * faults + m
    BY <2>1, <2>3, TimesOneMore, Zenon
  <2>6. Cardinality(Managed) <= m * (faults + 1)
    BY <2>2, <2>3, <2>4, <2>5
  <2> QED
    BY <2>6 DEF m
<1> QED
  BY <1>1, BudgetHolds, TypeCorrect, PTL

(* A role outgrows its maximum by one worker at most, however passes, the startup    *)
(* check, terminations and late heartbeats interleave, as long as no process crashes. *)
THEOREM OneBeyondTheMaximum ==
  ASSUME "crash" \notin Faults
  PROVE  Spec => []WithinMaxPlusOne
<1>1. Spare = 0
  BY DEF Spare
<1>2. Budget /\ ProvTypeOK => WithinMaxPlusOne
  BY <1>1, ManagedCounted, ProvisioningAssumption DEF Most, WithinMaxPlusOne
<1> QED
  BY <1>2, BudgetHolds, TypeCorrect, PTL
=============================================================================
