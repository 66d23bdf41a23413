-------------------------- MODULE WorkerSession_proofs --------------------------
(* Type correctness of WorkerSession, and its three invariants. *)
EXTENDS WorkerSession, FiniteSetTheorems, TLAPS

registers(a) == actor[a].at \in Registering
ends(a) == actor[a].at \in Clearing
crossed == "crossed" \in odd

\* Who is at work in which phase.
PhaseInv ==
  /\ phase = "off" => odd = {} /\ identity = none /\ workerId = none /\ \A a \in Actor : actor[a] = Idle
  /\ phase = "starting" => odd = {} /\ workerId = none /\ registers(main) /\ \A k \in Tick : actor[k] = Idle
  /\ phase \in {"up", "stopped"} => ~registers(main) /\ ~ends(main)
  /\ phase = "stopping" => ends(main)
  /\ \A a \in Actor : At(a, "registered") \/ At(a, "save") => actor[a].id \in Id

\* What the history records.
OddInv ==
  /\ \A a, b \in Actor : registers(a) /\ ends(b) => crossed
  /\ \A a, b \in Actor : registers(a) /\ registers(b) /\ a # b => "twice" \in odd
  /\ \A a \in Actor : phase \in {"stopping", "stopped"} /\ registers(a) => crossed

\* How identity, workerId and the file stand to each other.
AgreeInv ==
  \/ crossed
  \/ /\ \A a \in Actor : At(a, "unlink") => identity = none
     /\ \A a \in Actor : At(a, "save") => identity # none
     /\ phase = "stopped" => file = none
     /\ phase = "up" /\ identity = none /\ workerId # none => \E k \in Tick : At(k, "unlink")
     /\ \/ "unsaved" \in odd
        \/ phase \in {"starting", "up"} /\ identity # none /\ workerId = none =>
             \E a \in Actor : At(a, "save")
     /\ \/ "twice" \in odd
        \/ /\ identity # none /\ workerId # none => identity = workerId
           /\ \A a \in Actor : registers(a) =>
                workerId = none /\ identity = IF At(a, "save") THEN actor[a].id ELSE none

-----------------------------------------------------------------------------
(* Type correctness. *)

LEMMA TypeInit == Init => SessionTypeOK
  BY SessionAssumption DEF SessionAssumption, Init, SessionTypeOK, Wait, Idle, Record, Actor

LEMMA IdleIsWait == Idle \in Wait
  BY DEF Idle, Wait

LEMMA GoesType ==
  ASSUME SessionTypeOK, NEW a \in Actor, NEW step \in {"idle", "beat"} \cup Registering \cup Clearing,
         NEW i \in Id \cup {none}, goes(a, step, i)
  PROVE  actor' \in [Actor -> Wait]
<1>1. [at |-> step, id |-> i] \in Wait
  BY DEF Wait
<1>2. QED
  BY <1>1 DEF goes, SessionTypeOK

LEMMA ReturnsType ==
  ASSUME SessionTypeOK, NEW a \in Actor, NEW i \in Id \cup {none}, Returns(a, i)
  PROVE  /\ actor' \in [Actor -> Wait]
         /\ workerId' \in Id \cup {none}
         /\ phase' \in {"off", "starting", "up", "stopping", "stopped"}
  BY IdleIsWait DEF Returns, SessionTypeOK

LEMMA HeardType == ASSUME SessionTypeOK, NEW i PROVE heardOf(i) \in [Id -> Record]
  BY DEF SessionTypeOK, Record, heardOf

LEMMA NotedType == ASSUME SessionTypeOK, NEW new PROVE noted(new) \subseteq {"twice", "crossed", "unsaved"}
  BY DEF SessionTypeOK, noted

LEMMA RegisterType ==
  ASSUME SessionTypeOK, NEW a \in Actor, Registers(a) \/ SaveFails(a)
  PROVE  SessionTypeOK'
<1> USE GoesType, ReturnsType DEF Registering
<1>1. CASE Read(a)
  <2>1. file \in Id \cup {none} /\ none \in Id \cup {none}
    BY DEF SessionTypeOK
  <2>2. actor' \in [Actor -> Wait] /\ {identity', workerId'} \subseteq Id \cup {none}
        /\ phase' \in {"off", "starting", "up", "stopping", "stopped"}
    <3>1. CASE goes(a, IF At(a, "read") THEN "reread" ELSE "find", none) /\ UNCHANGED <<phase, identity, workerId>>
      BY <2>1, <3>1 DEF SessionTypeOK
    <3>2. CASE goes(a, "remove", none) /\ UNCHANGED <<phase, identity, workerId>>
      BY <2>1, <3>2 DEF SessionTypeOK
    <3>3. CASE identity' = file /\ Returns(a, file)
      BY <2>1, <3>3 DEF SessionTypeOK
    <3>4. QED
      BY <1>1, <3>1, <3>2, <3>3 DEF Read
  <2>3. QED
    BY <1>1, <2>2 DEF Read, SessionTypeOK, bounds
<1>2. CASE Remove(a)
  BY <1>2 DEF Remove, SessionTypeOK, memory, bounds
<1>3. CASE Find(a)
  BY <1>3 DEF Find, SessionTypeOK, memory, bounds
<1>4. CASE \E i \in Id : RegisterArrives(a, i)
  BY <1>4 DEF RegisterArrives, SessionTypeOK, memory, bounds, Record
<1>5. CASE Registered(a)
  <2>1. actor[a].id \in Id \cup {none}
    BY DEF SessionTypeOK, Wait
  <2>2. QED
    BY <1>5, <2>1 DEF Registered, SessionTypeOK, bounds
<1>6. CASE RegisterFails(a)
  BY <1>6 DEF RegisterFails, SessionTypeOK, bounds
<1>7. CASE Saved(a)
  <2>1. actor[a].id \in Id \cup {none}
    BY DEF SessionTypeOK, Wait
  <2>2. QED
    BY <1>7, <2>1 DEF Saved, SessionTypeOK, bounds
<1>8. CASE SaveFails(a)
  BY <1>8, SessionAssumption DEF SessionAssumption, SaveFails, SessionTypeOK, Fails
<1>9. QED
  BY <1>1, <1>2, <1>3, <1>4, <1>5, <1>6, <1>7, <1>8 DEF Registers

LEMMA ClearsType ==
  ASSUME SessionTypeOK, NEW a \in Actor, clears(a)
  PROVE  actor' \in [Actor -> Wait]
  BY GoesType DEF clears, SessionTypeOK, Clearing

LEMMA StepType ==
  ASSUME SessionTypeOK, [Next]_vars
  PROVE  SessionTypeOK'
<1> USE GoesType, ClearsType, HeardType, NotedType DEF Clearing
<1>1. ASSUME NEW a \in Actor, Registers(a) \/ SaveFails(a) PROVE SessionTypeOK'
  BY <1>1, RegisterType
<1>2. ASSUME NEW a \in Actor, Delete(a) PROVE SessionTypeOK'
  BY <1>2 DEF Delete, SessionTypeOK, bounds, Record
<1>3. ASSUME NEW a \in Actor, Unlink(a) PROVE SessionTypeOK'
  BY <1>3 DEF Unlink, SessionTypeOK, bounds
<1>4. ASSUME NEW k \in Tick, TickBegins(k) PROVE SessionTypeOK'
  <2>1. actor' \in [Actor -> Wait]
    <3>1. CASE goes(k, "read", none)
      BY <3>1 DEF Actor, Registering
    <3>2. CASE goes(k, "beat", identity)
      BY <3>2 DEF Actor, SessionTypeOK
    <3>3. QED
      BY <1>4, <3>1, <3>2 DEF TickBegins
  <2>2. odd' \subseteq {"twice", "crossed", "unsaved"}
    <3>1. odd' = noted(actor')
      BY <1>4 DEF TickBegins
    <3>2. QED
      BY <3>1, NotedType
  <2>3. QED
    BY <1>4, <2>1, <2>2 DEF TickBegins, SessionTypeOK, bounds, memory
<1>5. ASSUME NEW k \in Tick, Beaten(k) PROVE SessionTypeOK'
  BY <1>5 DEF Beaten, SessionTypeOK, bounds, Actor
<1>6. ASSUME NEW k \in Tick, BeatFails(k) PROVE SessionTypeOK'
  BY <1>6 DEF BeatFails, SessionTypeOK, bounds, Actor
<1>7. CASE Start
  BY <1>7 DEF Start, SessionTypeOK, bounds, Actor, Registering
<1>8. CASE Stop
  BY <1>8, SessionAssumption DEF SessionAssumption, Stop, SessionTypeOK, memory, Fails, Actor
<1>9. CASE Closed
  BY <1>9 DEF Closed, SessionTypeOK, bounds, memory, Actor
<1>10. CASE Ends
  BY <1>10, IdleIsWait, SessionAssumption DEF SessionAssumption, Ends, SessionTypeOK, Fails
<1>11. ASSUME NEW i \in Id, TimerLooks(i) PROVE SessionTypeOK'
  BY <1>11 DEF TimerLooks, SessionTypeOK, bounds, memory, Record
<1>12. CASE OutageBegins
  <2>1. outages' \in 0..MaxOutages
    BY <1>12, SessionAssumption DEF SessionAssumption, OutageBegins, SessionTypeOK
  <2>2. reachable' \in BOOLEAN
    BY <1>12 DEF OutageBegins
  <2>3. QED
    BY <1>12, <2>1, <2>2 DEF OutageBegins, SessionTypeOK, memory
<1>13. CASE OutageEnds
  BY <1>13 DEF OutageEnds, SessionTypeOK, memory
<1>14. CASE UNCHANGED vars
  BY <1>14 DEF vars, SessionTypeOK, bounds, memory
<1>15. QED
  BY <1>1, <1>2, <1>3, <1>4, <1>5, <1>6, <1>7, <1>8, <1>9, <1>10, <1>11, <1>12, <1>13, <1>14
     DEF Next, TickStep

(* Every variable of the session holds what the code can store in it: an id, or none, in  *)
(* IdentityManager, in the service and in the file.                                      *)
THEOREM TypeCorrect == Spec => []SessionTypeOK
<1>1. Init => SessionTypeOK
  BY TypeInit
<1>2. SessionTypeOK /\ [Next]_vars => SessionTypeOK'
  BY StepType
<1>3. QED
  BY <1>1, <1>2, PTL DEF Spec
-----------------------------------------------------------------------------
(* The invariant. *)

LEMMA TwoRegister ==
  ASSUME SessionTypeOK, NEW new, NEW a \in Actor, NEW b \in Actor, a # b,
         new[a].at \in Registering, new[b].at \in Registering
  PROVE  "twice" \in noted(new)
<1> DEFINE R == {c \in Actor : new[c].at \in Registering}
<1>1. IsFiniteSet(R)
  <2>1. IsFiniteSet(Actor)
    BY SessionAssumption, FS_AddElement DEF SessionAssumption, Actor
  <2>2. QED
    BY <2>1, FS_Subset
<1>2. Cardinality({a, b}) = 2
  <2>1. IsFiniteSet({b}) /\ Cardinality({b}) = 1
    BY FS_Singleton
  <2>2. Cardinality({b} \cup {a}) = Cardinality({b}) + 1
    <3>1. a \notin {b}
      OBVIOUS
    <3>2. QED
      BY <2>1, <3>1, FS_AddElement
  <2>3. {b} \cup {a} = {a, b}
    OBVIOUS
  <2>4. QED
    BY <2>1, <2>2, <2>3
<1>3. Cardinality(R) \in Nat /\ Cardinality({a, b}) <= Cardinality(R)
  BY <1>1, FS_Subset, FS_CardinalityType
<1>4. QED
  BY <1>2, <1>3 DEF noted

LEMMA InvInit == Init => PhaseInv /\ OddInv /\ AgreeInv
  BY SessionAssumption DEF SessionAssumption, Init, PhaseInv, OddInv, AgreeInv, registers, ends, Registering,
     Clearing, Idle, Actor, At

LEMMA PhaseStep ==
  ASSUME SessionTypeOK, PhaseInv, [Next]_vars
  PROVE  PhaseInv'
<1> USE SessionAssumption DEF SessionAssumption, SessionTypeOK, Actor, Idle, Registering,
        Clearing, registers, ends, crossed, PhaseInv
<1>1. ASSUME NEW a \in Actor, Read(a) PROVE PhaseInv'
  BY <1>1 DEF Read, Returns, goes, At
<1>2. ASSUME NEW a \in Actor, Remove(a) PROVE PhaseInv'
  BY <1>2 DEF Remove, goes, At, memory
<1>3. ASSUME NEW a \in Actor, Find(a) PROVE PhaseInv'
  BY <1>3 DEF Find, Returns, goes, At, memory
<1>4. ASSUME NEW a \in Actor, NEW i \in Id, RegisterArrives(a, i) PROVE PhaseInv'
  BY <1>4 DEF RegisterArrives, goes, At, memory
<1>5. ASSUME NEW a \in Actor, Registered(a) PROVE PhaseInv'
  BY <1>5 DEF Registered, goes, At
<1>6. ASSUME NEW a \in Actor, RegisterFails(a) PROVE PhaseInv'
  BY <1>6 DEF RegisterFails, Returns, At
<1>7. ASSUME NEW a \in Actor, Saved(a) PROVE PhaseInv'
  BY <1>7 DEF Saved, Returns, At
<1>8. ASSUME NEW a \in Actor, SaveFails(a) PROVE PhaseInv'
  BY <1>8 DEF SaveFails, Returns, At
<1>9. ASSUME NEW a \in Actor, Delete(a) PROVE PhaseInv'
  BY <1>9 DEF Delete, goes, At
<1>10. ASSUME NEW a \in Actor, Unlink(a) PROVE PhaseInv'
  BY <1>10 DEF Unlink, goes, At
<1>11. ASSUME NEW k \in Tick, TickBegins(k) PROVE PhaseInv'
  BY <1>11 DEF TickBegins, goes, noted, At, memory
<1>12. ASSUME NEW k \in Tick, Beaten(k) PROVE PhaseInv'
  BY <1>12 DEF Beaten, goes, At
<1>13. ASSUME NEW k \in Tick, BeatFails(k) PROVE PhaseInv'
  BY <1>13 DEF BeatFails, clears, goes, noted, At
<1>14. CASE Start
  BY <1>14 DEF Start, goes, At
<1>15. CASE Stop
  BY <1>15 DEF Stop, goes, noted, At, memory
<1>16. CASE Closed
  BY <1>16 DEF Closed, clears, goes, At, memory
<1>17. CASE Ends
  BY <1>17 DEF Ends, At
<1>18. ASSUME NEW i \in Id, TimerLooks(i) PROVE PhaseInv'
  BY <1>18 DEF TimerLooks, memory, At
<1>19. CASE OutageBegins
  BY <1>19 DEF OutageBegins, memory, At
<1>20. CASE OutageEnds
  BY <1>20 DEF OutageEnds, memory, At
<1>21. CASE UNCHANGED vars
  BY <1>21 DEF vars, memory, At
<1>22. QED
  BY <1>1, <1>2, <1>3, <1>4, <1>5, <1>6, <1>7, <1>8, <1>9, <1>10, <1>11,
     <1>12, <1>13, <1>14, <1>15, <1>16, <1>17, <1>18, <1>19, <1>20, <1>21
     DEF Next, Registers, TickStep

LEMMA OddStep ==
  ASSUME SessionTypeOK, PhaseInv, OddInv, [Next]_vars
  PROVE  OddInv'
<1> USE SessionAssumption DEF SessionAssumption, SessionTypeOK, Actor, Idle, Registering,
        Clearing, registers, ends, crossed, PhaseInv, OddInv
<1>1. ASSUME NEW a \in Actor, Read(a) PROVE OddInv'
  BY <1>1 DEF Read, Returns, goes, At
<1>2. ASSUME NEW a \in Actor, Remove(a) PROVE OddInv'
  BY <1>2 DEF Remove, goes, At, memory
<1>3. ASSUME NEW a \in Actor, Find(a) PROVE OddInv'
  BY <1>3 DEF Find, Returns, goes, At, memory
<1>4. ASSUME NEW a \in Actor, NEW i \in Id, RegisterArrives(a, i) PROVE OddInv'
  BY <1>4 DEF RegisterArrives, goes, At, memory
<1>5. ASSUME NEW a \in Actor, Registered(a) PROVE OddInv'
  BY <1>5 DEF Registered, goes, At
<1>6. ASSUME NEW a \in Actor, RegisterFails(a) PROVE OddInv'
  BY <1>6 DEF RegisterFails, Returns, At
<1>7. ASSUME NEW a \in Actor, Saved(a) PROVE OddInv'
  BY <1>7 DEF Saved, Returns, At
<1>8. ASSUME NEW a \in Actor, SaveFails(a) PROVE OddInv'
  BY <1>8 DEF SaveFails, Returns, At
<1>9. ASSUME NEW a \in Actor, Delete(a) PROVE OddInv'
  BY <1>9 DEF Delete, goes, At
<1>10. ASSUME NEW a \in Actor, Unlink(a) PROVE OddInv'
  BY <1>10 DEF Unlink, goes, At
<1>11. ASSUME NEW k \in Tick, TickBegins(k) PROVE OddInv'
  <2>1. CASE goes(k, "beat", identity)
    BY <1>11, <2>1 DEF TickBegins, goes, noted, At, memory
  <2>2. CASE goes(k, "read", none)
    <3>1. odd' = noted(actor') /\ UNCHANGED phase /\ phase = "up" /\ odd \subseteq odd'
      BY <1>11 DEF TickBegins, noted
    <3>2. ASSUME NEW a \in Actor, NEW b \in Actor, registers(a)', ends(b)' PROVE crossed'
      BY <3>1, <3>2 DEF noted
    <3>3. ASSUME NEW a \in Actor, NEW b \in Actor, a # b, registers(a)', registers(b)' PROVE "twice" \in odd'
      BY <3>1, <3>3, TwoRegister
    <3>4. QED
      BY <3>1, <3>2, <3>3
  <2>3. QED
    BY <1>11, <2>1, <2>2 DEF TickBegins
<1>12. ASSUME NEW k \in Tick, Beaten(k) PROVE OddInv'
  BY <1>12 DEF Beaten, goes, At
<1>13. ASSUME NEW k \in Tick, BeatFails(k) PROVE OddInv'
  BY <1>13 DEF BeatFails, clears, goes, noted, At
<1>14. CASE Start
  BY <1>14 DEF Start, goes, At
<1>15. CASE Stop
  BY <1>15 DEF Stop, goes, noted, At, memory
<1>16. CASE Closed
  BY <1>16 DEF Closed, clears, goes, At, memory
<1>17. CASE Ends
  BY <1>17 DEF Ends, At
<1>18. ASSUME NEW i \in Id, TimerLooks(i) PROVE OddInv'
  BY <1>18 DEF TimerLooks, memory, At
<1>19. CASE OutageBegins
  BY <1>19 DEF OutageBegins, memory, At
<1>20. CASE OutageEnds
  BY <1>20 DEF OutageEnds, memory, At
<1>21. CASE UNCHANGED vars
  BY <1>21 DEF vars, memory, At
<1>22. QED
  BY <1>1, <1>2, <1>3, <1>4, <1>5, <1>6, <1>7, <1>8, <1>9, <1>10, <1>11,
     <1>12, <1>13, <1>14, <1>15, <1>16, <1>17, <1>18, <1>19, <1>20, <1>21
     DEF Next, Registers, TickStep

LEMMA AgreeStep ==
  ASSUME SessionTypeOK, PhaseInv, OddInv, AgreeInv, [Next]_vars
  PROVE  AgreeInv'
<1> USE SessionAssumption DEF SessionAssumption, SessionTypeOK, Actor, Idle, Registering,
        Clearing, registers, ends, crossed, PhaseInv, OddInv, AgreeInv
<1>1. ASSUME NEW a \in Actor, Read(a) PROVE AgreeInv'
  BY <1>1 DEF Read, Returns, goes, At
<1>2. ASSUME NEW a \in Actor, Remove(a) PROVE AgreeInv'
  BY <1>2 DEF Remove, goes, At, memory
<1>3. ASSUME NEW a \in Actor, Find(a) PROVE AgreeInv'
  BY <1>3 DEF Find, Returns, goes, At, memory
<1>4. ASSUME NEW a \in Actor, NEW i \in Id, RegisterArrives(a, i) PROVE AgreeInv'
  BY <1>4 DEF RegisterArrives, goes, At, memory
<1>5. ASSUME NEW a \in Actor, Registered(a) PROVE AgreeInv'
  <2>1. CASE crossed
    BY <1>5, <2>1 DEF Registered
  <2> SUFFICES ASSUME ~crossed PROVE AgreeInv'
    BY <2>1
  <2>2. registers(a) /\ phase \notin {"stopping", "stopped"} /\ \A b \in Actor : ~At(b, "unlink")
    BY <1>5 DEF Registered, At
  <2>3. At(a, "save")' /\ actor'[a].id = identity' /\ identity' \in Id /\ UNCHANGED <<odd, phase, file, workerId>>
    BY <1>5 DEF Registered, goes, At
  <2>4. \A b \in Actor : b # a => actor'[b] = actor[b]
    BY <1>5 DEF Registered, goes
  <2>5. \A b \in Actor : ~At(b, "unlink")'
    BY <2>2, <2>3, <2>4 DEF At
  <2>6. ASSUME "twice" \notin odd PROVE workerId = none /\ \A b \in Actor \ {a} : ~registers(b)'
    BY <2>2, <2>4, <2>6
  <2>7. QED
    BY <2>2, <2>3, <2>5, <2>6 DEF At
<1>6. ASSUME NEW a \in Actor, RegisterFails(a) PROVE AgreeInv'
  BY <1>6 DEF RegisterFails, Returns, At
<1>7. ASSUME NEW a \in Actor, Saved(a) PROVE AgreeInv'
  <2>1. CASE crossed
    BY <1>7, <2>1 DEF Saved
  <2> SUFFICES ASSUME ~crossed PROVE AgreeInv'
    BY <2>1
  <2>2. registers(a) /\ phase \notin {"stopping", "stopped"} /\ actor[a].id # none /\ \A b \in Actor : ~At(b, "unlink")
    BY <1>7 DEF Saved, At
  <2>3. UNCHANGED <<odd, identity>> /\ phase' \in {phase, "up"}
        /\ workerId' = (IF a = main \/ workerId = none THEN actor[a].id ELSE workerId)
    BY <1>7, <2>2 DEF Saved, Returns
  <2>4. workerId' # none
    BY <2>2, <2>3
  <2>5. \A b \in Actor : actor'[b] = IF b = a THEN Idle ELSE actor[b]
    BY <1>7 DEF Saved, Returns
  <2>6. \A b \in Actor : ~At(b, "unlink")'
    BY <2>2, <2>5 DEF At
  <2>7. identity # none /\ ("twice" \notin odd => workerId' = identity /\ \A b \in Actor \ {a} : ~registers(b))
    BY <1>7, <2>2, <2>3 DEF Saved, At
  <2>8. QED
    BY <2>2, <2>3, <2>4, <2>5, <2>6, <2>7 DEF At
<1>8. ASSUME NEW a \in Actor, SaveFails(a) PROVE AgreeInv'
  BY <1>8 DEF SaveFails, Returns, At
<1>9. ASSUME NEW a \in Actor, Delete(a) PROVE AgreeInv'
  BY <1>9 DEF Delete, goes, At
<1>10. ASSUME NEW a \in Actor, Unlink(a) PROVE AgreeInv'
  BY <1>10 DEF Unlink, goes, At
<1>11. ASSUME NEW k \in Tick, TickBegins(k) PROVE AgreeInv'
  BY <1>11 DEF TickBegins, goes, noted, At, memory
<1>12. ASSUME NEW k \in Tick, Beaten(k) PROVE AgreeInv'
  BY <1>12 DEF Beaten, goes, At
<1>13. ASSUME NEW k \in Tick, BeatFails(k) PROVE AgreeInv'
  BY <1>13 DEF BeatFails, clears, goes, noted, At
<1>14. CASE Start
  BY <1>14 DEF Start, goes, At
<1>15. CASE Stop
  BY <1>15 DEF Stop, goes, noted, At, memory
<1>16. CASE Closed
  BY <1>16 DEF Closed, clears, goes, At, memory
<1>17. CASE Ends
  BY <1>17 DEF Ends, At
<1>18. ASSUME NEW i \in Id, TimerLooks(i) PROVE AgreeInv'
  BY <1>18 DEF TimerLooks, memory, At
<1>19. CASE OutageBegins
  BY <1>19 DEF OutageBegins, memory, At
<1>20. CASE OutageEnds
  BY <1>20 DEF OutageEnds, memory, At
<1>21. CASE UNCHANGED vars
  BY <1>21 DEF vars, memory, At
<1>22. QED
  BY <1>1, <1>2, <1>3, <1>4, <1>5, <1>6, <1>7, <1>8, <1>9, <1>10, <1>11,
     <1>12, <1>13, <1>14, <1>15, <1>16, <1>17, <1>18, <1>19, <1>20, <1>21
     DEF Next, Registers, TickStep

LEMMA InvHolds == Spec => [](SessionTypeOK /\ PhaseInv /\ OddInv /\ AgreeInv)
<1>1. Init => SessionTypeOK /\ PhaseInv /\ OddInv /\ AgreeInv
  BY TypeInit, InvInit
<1>2. SessionTypeOK /\ PhaseInv /\ OddInv /\ AgreeInv /\ [Next]_vars
        => (SessionTypeOK /\ PhaseInv /\ OddInv /\ AgreeInv)'
  BY StepType, PhaseStep, OddStep, AgreeStep
<1>3. QED
  BY <1>1, <1>2, PTL DEF Spec

LEMMA QuietMeans == \A a \in Actor : Quiet => ~At(a, "save") /\ ~At(a, "unlink")
  BY DEF Quiet, At

(* However callbacks, failures, crashes and restarts interleave, a worker that has an     *)
(* identity is silent only if that could not be saved, or was established while another   *)
(* was given up.                                                                          *)
THEOREM SilentForAReason == Spec => []SilenceHasCause
<1>1. PhaseInv /\ OddInv /\ AgreeInv => SilenceHasCause
  BY QuietMeans DEF AgreeInv, SilenceHasCause, Mute, crossed
<1>2. QED
  BY <1>1, InvHolds, PTL

(* Results are reported under the id that the heartbeats keep alive at the controller,   *)
(* unless registrations overlapped.                                                      *)
THEOREM ReportsUnderItsId == Spec => []ReportsAsRegistered
<1>1. PhaseInv /\ OddInv /\ AgreeInv => ReportsAsRegistered
  BY DEF AgreeInv, ReportsAsRegistered, crossed
<1>2. QED
  BY <1>1, InvHolds, PTL

(* What stop() leaves behind is no identity, unless a registration was under way.        *)
THEOREM StopIsClean == Spec => []StopLeavesNoIdentity
<1>1. PhaseInv /\ OddInv /\ AgreeInv => StopLeavesNoIdentity
  BY DEF AgreeInv, StopLeavesNoIdentity, crossed
<1>2. QED
  BY <1>1, InvHolds, PTL
===============================================================================
