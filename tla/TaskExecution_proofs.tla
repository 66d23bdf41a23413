-------------------------- MODULE TaskExecution_proofs --------------------------
(* Type correctness of TaskExecution, the cause of every result, and that no message is skipped. *)
EXTENDS TaskExecution, WellFoundedInduction, TLAPS

\* Where each activity can be, and what it has then.
StepInv ==
  /\ \A a \in Actor : sync[a].n <= Len(transcript)
  /\ \A a \in Actor : sync[a].at = "reporting" => sync[a].next <= sync[a].n
  /\ sync["main"].at # "no" <=> main.at \in {"sync", "end"}
  /\ sync["poll"].at # "no" <=> poll = "sync"
  /\ main.at \notin {"start", "failed"} => run # "none"
  /\ main.at = "probe" => Len(probe) < MaxProbes
  /\ main.at \in {"probe", "probeWait", "sync", "judge"} => main.why \in Reason
  /\ main.at = "probeWait" => probe # <<>>
  /\ main.at \in {"probe", "probeWait"} => main.saw = "going"

TypeInv == ExecutionTypeOK /\ StepInv

-----------------------------------------------------------------------------
(* Facts about the data. *)

LEMMA Largest ==
  ASSUME NEW n \in Nat, NEW A \in SUBSET (0..n), A # {}
  PROVE  \E i \in A : \A j \in A : j <= i
<1> DEFINE R == {ss \in Nat \X Nat : ss[1] < ss[2]}
           T == {n - i : i \in A}
<1>0. \A i \in A : i \in 0..n /\ n - i \in Nat
  OBVIOUS
<1>1. T \subseteq Nat /\ T # {}
  BY <1>0
<1>2. IsWellFoundedOn(R, Nat)
  BY NatLessThanWellFounded DEF OpToRel
<1>3. PICK x \in T : \A y \in T : ~(<<y, x>> \in R)
  <2> HIDE DEF R, T
  <2> QED BY <1>1, <1>2, WFMin
<1>4. PICK i \in A : x = n - i
  BY <1>3
<1>5. \A j \in A : ~(n - j < n - i)
  BY <1>0, <1>3, <1>4
<1>6. QED
  BY <1>0, <1>4, <1>5

LEMMA OverlapType ==
  ASSUME NEW p \in Nat, NEW c \in Nat
  PROVE  overlap(p, c) \in 0..p /\ overlap(p, c) <= c
<1> DEFINE fits(k) == \A i \in 1..k : transcript[p - k + i] = transcript[i]
           A == {k \in 0..p : k <= c /\ fits(k)}
<1>1. A \in SUBSET (0..p) /\ 0 \in A
  OBVIOUS
<1>2. \E k \in A : \A j \in A : j <= k
  <2> HIDE DEF A
  <2> QED BY <1>1, Largest
<1>3. \E k \in 0..p : k <= c /\ fits(k) /\ \A j \in 0..p : j <= c /\ fits(j) => j <= k
  BY <1>2
<1>4. QED
  <2> HIDE DEF fits
  <2>1. LET k == CHOOSE k \in 0..p : k <= c /\ fits(k) /\ \A j \in 0..p : j <= c /\ fits(j) => j <= k
        IN  k \in 0..p /\ k <= c
    BY <1>3
  <2>2. QED
    BY <2>1 DEF overlap, fits

LEMMA LastTurnIs ==
  ASSUME NEW n \in Nat, Assistant(n) # {}
  PROVE  \E i \in Assistant(n) : lastTurn(n) = transcript[i] /\ \A j \in Assistant(n) : j <= i
<1>1. Assistant(n) \in SUBSET (0..n)
  BY DEF Assistant
<1>2. \E i \in Assistant(n) : \A j \in Assistant(n) : j <= i
  BY <1>1, Largest
<1>3. QED
  BY <1>2 DEF lastTurn

LEMMA LastTurnType ==
  ASSUME NEW n \in Nat
  PROVE  lastTurn(n) \in Turn
<1>1. CASE Assistant(n) = {}
  BY <1>1 DEF lastTurn, Turn
<1>2. CASE Assistant(n) # {}
  BY <1>2, LastTurnIs DEF Assistant
<1>3. QED
  BY <1>1, <1>2

LEMMA ExtractedType ==
  ASSUME ExecutionTypeOK
  PROVE  extracted \in latest..Len(transcript) /\ latest \in Nat
BY DEF ExecutionTypeOK, extracted

-----------------------------------------------------------------------------
(* Type correctness. *)

LEMMA TypeInit == Init => TypeInv
<1> SUFFICES ASSUME Init PROVE TypeInv
  OBVIOUS
<1>1. sync \in [Actor -> Sync] /\ \A a \in Actor : sync[a] = NoSync
  BY DEF Init, Sync, NoSync
<1>2. main \in Main
  BY DEF Init, Main, Step, Status
<1>3. ExecutionTypeOK
  <2>1. MaxNotes \in Nat /\ MaxProbes \in Nat /\ MaxFaults \in Nat
    BY ExecutionAssumption DEF ExecutionAssumption
  <2>2. transcript \in Seq(Message) /\ Len(transcript) = 0 /\ probe \in Seq(Status) /\ Len(probe) = 0
    BY DEF Init
  <2>3. {latest, prints} \subseteq 0..Len(transcript) /\ seen \subseteq 1..Len(transcript)
    BY <2>2 DEF Init
  <2>4. notes \in 0..MaxNotes /\ faults \in 0..MaxFaults /\ Len(probe) <= MaxProbes
    BY <2>1, <2>2 DEF Init
  <2>5. poll \in {"off", "sync", "delay"} /\ polling \in BOOLEAN /\ limit \in BOOLEAN
        /\ odd \subseteq {"deaf", "crossed", "beside"} /\ run \in {"none"} \cup Status /\ result \in {"none"} \cup Turn
    BY DEF Init
  <2>6. QED
    BY <1>1, <1>2, <2>2, <2>3, <2>4, <2>5 DEF ExecutionTypeOK
<1>4. StepInv
  BY <1>1 DEF Init, StepInv, NoSync, Actor
<1>5. QED
  BY <1>3, <1>4 DEF TypeInv

LEMMA AskedType ==
  ASSUME ExecutionTypeOK
  PROVE  Asked \in Sync /\ Asked.at = "asked" /\ Asked.n = Len(transcript)
<1>1. Len(transcript) \in Nat
  BY DEF ExecutionTypeOK
<1>2. Asked = [at |-> "asked", n |-> Len(transcript), next |-> 1]
  BY DEF Asked
<1>3. QED
  BY <1>1, <1>2 DEF Sync

LEMMA NoSyncType == NoSync \in Sync /\ NoSync.at = "no" /\ NoSync.n = 0
  BY DEF NoSync, Sync

LEMMA GoesType ==
  ASSUME ExecutionTypeOK, NEW s \in Step, goes(s)
  PROVE  main' \in Main /\ main'.at = s /\ main'.why = main.why /\ main'.saw = main.saw
  BY DEF ExecutionTypeOK, goes, Main

LEMMA LeavesType ==
  ASSUME ExecutionTypeOK, NEW why \in Reason \cup {"run"}, NEW saw \in Status \cup {"rejected"}, Leaves(why, saw)
  PROVE  /\ main' \in Main /\ main'.at = "join" /\ main'.why = why /\ main'.saw = saw
         /\ polling' = FALSE
  BY DEF ExecutionTypeOK, Leaves, Main, Step


\* What a step of the executor that leaves sessions and readings alone has to keep.
LEMMA TypeMoves ==
  ASSUME TypeInv, UNCHANGED <<transcript, run, probe, notes, sync, latest, prints, seen, poll, result, odd>>,
         main' \in Main, faults' \in 0..MaxFaults, polling' \in BOOLEAN, limit' \in BOOLEAN,
         main.at \notin {"sync", "end", "start", "failed"}, main'.at \notin {"sync", "end", "judge"},
         main'.at = "probe" => Len(probe) < MaxProbes /\ main'.why \in Reason /\ main'.saw = "going",
         main'.at # "probeWait"
  PROVE  TypeInv'
<1>1. ExecutionTypeOK'
  BY DEF TypeInv, ExecutionTypeOK
<1>2. StepInv'
  BY DEF TypeInv, StepInv
<1>3. QED
  BY <1>1, <1>2 DEF TypeInv

LEMMA ProbesType ==
  ASSUME ExecutionTypeOK, NEW why \in Reason, Probes(why)
  PROVE  main' \in Main /\ main'.at = "probe" /\ main'.why = why /\ main'.saw = "going" /\ Len(probe) < MaxProbes
  BY DEF Probes, Main, Step, Status

LEMMA FaultType ==
  ASSUME ExecutionTypeOK, Fault
  PROVE  faults' \in 0..MaxFaults
  BY ExecutionAssumption DEF ExecutionTypeOK, ExecutionAssumption, Fault

LEMMA TypeExecutor ==
  ASSUME TypeInv, LimitProbe \/ QuietProbe \/ DelayEnds \/ Waits \/ WaitTimesOut \/ WaitEnds \/ Rejects
  PROVE  TypeInv'
<1> USE DEF agent, progress, poller
<1>0. ExecutionTypeOK /\ polling \in BOOLEAN /\ limit \in BOOLEAN /\ faults \in 0..MaxFaults
  BY DEF TypeInv, ExecutionTypeOK
<1>1. CASE LimitProbe
  <2>1. main.at = "loop" /\ Probes("limit")
    BY <1>1 DEF LimitProbe
  <2>2. QED
    BY <1>0, <1>1, <2>1, ProbesType, TypeMoves DEF LimitProbe, Reason
<1>2. CASE QuietProbe
  <2>1. main.at \in {"loop", "quietCheck"} /\ Probes("quiet")
    BY <1>2 DEF QuietProbe
  <2>2. QED
    BY <1>0, <1>2, <2>1, ProbesType, TypeMoves DEF QuietProbe, Reason
<1>3. CASE DelayEnds
  <2>1. main.at = "delay" /\ Probes("background")
    BY <1>3 DEF DelayEnds
  <2>2. QED
    BY <1>0, <1>3, <2>1, ProbesType, TypeMoves DEF DelayEnds, Reason
<1>4. CASE Waits
  <2>1. main' \in Main /\ main'.at = "wait"
    BY <1>0, <1>4, GoesType DEF Waits, Step
  <2>2. QED
    BY <1>0, <1>4, <2>1, TypeMoves DEF Waits
<1>5. CASE WaitTimesOut
  <2>1. main' \in Main /\ main'.at = "loop"
    BY <1>0, <1>5, GoesType DEF WaitTimesOut, Step
  <2>2. QED
    BY <1>0, <1>5, <2>1, TypeMoves DEF WaitTimesOut
<1>6. CASE WaitEnds
  <2>1. run \in Status
    BY <1>0, <1>6 DEF ExecutionTypeOK, TypeInv, StepInv, WaitEnds
  <2>2. main' \in Main /\ main'.at \in {"loop", "join"} /\ polling' \in BOOLEAN /\ limit' \in BOOLEAN
    <3>1. CASE run = "limited"
      BY <1>0, <1>6, <3>1, GoesType DEF WaitEnds, Step
    <3>2. CASE run # "limited"
      BY <1>0, <1>6, <2>1, <3>2, LeavesType DEF WaitEnds
    <3>3. QED
      BY <3>1, <3>2
  <2>3. QED
    BY <1>0, <1>6, <2>2, TypeMoves DEF WaitEnds
<1>7. CASE Rejects
  <2>1. main' \in Main /\ main'.at \in {"failed", "join"} /\ polling' \in BOOLEAN
    <3>1. CASE main.why = "background"
      BY <1>0, <1>7, <3>1, GoesType DEF Rejects, Step
    <3>2. CASE main.why # "background"
      BY <1>0, <1>7, <3>2, LeavesType DEF Rejects
    <3>3. QED
      BY <3>1, <3>2
  <2>2. faults' \in 0..MaxFaults
    BY <1>0, <1>7, FaultType DEF Rejects
  <2>3. QED
    BY <1>0, <1>7, <2>1, <2>2, TypeMoves DEF Rejects
<1>8. QED
  BY <1>1, <1>2, <1>3, <1>4, <1>5, <1>6, <1>7

LEMMA AppendType ==
  ASSUME NEW t \in Seq(Message), NEW m \in Message
  PROVE  Append(t, m) \in Seq(Message) /\ Len(Append(t, m)) = Len(t) + 1 /\ Len(t) \in Nat
  OBVIOUS

\* Starting a probe makes it the last one.
LEMMA LastProbe ==
  ASSUME NEW q \in Seq(Status), NEW s \in Status
  PROVE  /\ Len(Append(q, s)) = Len(q) + 1 /\ Len(q) \in Nat
         /\ Append(q, s)[Len(q) + 1] = s /\ Append(q, s) # <<>>
  OBVIOUS

\* A message of the agent: what was read stays within the transcript.
LEMMA TypeAgent ==
  ASSUME TypeInv, UNCHANGED <<sync, latest, prints, seen, poll, polling, limit, main, result, faults>>,
         \/ UNCHANGED transcript
         \/ \E m \in Message : transcript' = Append(transcript, m),
         run' \in {"none"} \cup Status, run # "none" => run' # "none", probe' \in Seq(Status), Len(probe') = Len(probe),
         notes' \in 0..MaxNotes, odd' \subseteq {"deaf", "crossed", "beside"}
  PROVE  TypeInv'
<1>1. transcript' \in Seq(Message) /\ Len(transcript) \in Nat /\ Len(transcript') \in Nat /\ Len(transcript') >= Len(transcript)
  <2>1. transcript \in Seq(Message) /\ Len(transcript) \in Nat
    BY DEF TypeInv, ExecutionTypeOK
  <2>2. CASE UNCHANGED transcript
    BY <2>1, <2>2
  <2>3. CASE \E m \in Message : transcript' = Append(transcript, m)
    BY <2>1, <2>3, AppendType
  <2>4. QED
    BY <2>2, <2>3
<1>2. ExecutionTypeOK'
  <2>1. {latest, prints} \subseteq 0..Len(transcript') /\ seen \subseteq 1..Len(transcript')
    BY <1>1 DEF TypeInv, ExecutionTypeOK
  <2>2. Len(probe') <= MaxProbes
    BY DEF TypeInv, ExecutionTypeOK
  <2>3. QED
    BY <1>1, <2>1, <2>2 DEF TypeInv, ExecutionTypeOK
<1>3. StepInv'
  <2>1. \A a \in Actor : sync[a].n <= Len(transcript')
    BY <1>1 DEF TypeInv, StepInv, ExecutionTypeOK, Sync
  <2>2. probe # <<>> => probe' # <<>>
    BY DEF TypeInv, ExecutionTypeOK
  <2>3. QED
    BY <2>1, <2>2 DEF TypeInv, StepInv
<1>4. QED
  BY <1>2, <1>3 DEF TypeInv

LEMMA TypeRun ==
  ASSUME TypeInv, RunWrites \/ RunEnds
  PROVE  TypeInv'
<1> USE DEF agent, progress, poller
<1>1. CASE RunWrites
  <2>1. \E m \in Message : transcript' = Append(transcript, m)
    BY <1>1 DEF RunWrites, Message, Turn
  <2>2. run' \in Status /\ probe' \in Seq(Status) /\ Len(probe') = Len(probe)
    BY <1>1 DEF RunWrites, TypeInv, ExecutionTypeOK, Status
  <2>3. notes' \in 0..MaxNotes /\ odd' \subseteq {"deaf", "crossed", "beside"}
    BY <1>1, ExecutionAssumption DEF RunWrites, TypeInv, ExecutionTypeOK, ExecutionAssumption
  <2>4. QED
    BY <1>1, <2>1, <2>2, <2>3, TypeAgent DEF RunWrites
<1>2. CASE RunEnds
  <2>1. UNCHANGED transcript \/ \E m \in Message : transcript' = Append(transcript, m)
    BY <1>2 DEF RunEnds, Message, Turn
  <2>2. run' \in Status /\ probe' \in Seq(Status) /\ Len(probe') = Len(probe)
    BY <1>2 DEF RunEnds, TypeInv, ExecutionTypeOK, Status
  <2>3. notes' \in 0..MaxNotes /\ odd' \subseteq {"deaf", "crossed", "beside"}
    BY <1>2 DEF RunEnds, TypeInv, ExecutionTypeOK
  <2>4. QED
    BY <1>2, <2>1, <2>2, <2>3, TypeAgent DEF RunEnds
<1>3. QED
  BY <1>1, <1>2

LEMMA TypeProbeEnds ==
  ASSUME TypeInv, NEW i \in DOMAIN probe, ProbeEnds(i)
  PROVE  TypeInv'
<1> USE DEF agent, progress, poller
<1>1. UNCHANGED transcript \/ \E m \in Message : transcript' = Append(transcript, m)
  BY DEF ProbeEnds, Message, Turn
<1>2. probe' \in Seq(Status) /\ Len(probe') = Len(probe)
  <2>1. probe \in Seq(Status) /\ i \in 1..Len(probe)
    BY DEF TypeInv, ExecutionTypeOK
  <2>2. \E s \in Status : probe' = [probe EXCEPT ![i] = s]
    BY DEF ProbeEnds, Status
  <2>3. QED
    BY <2>1, <2>2
<1>3. run \in {"none"} \cup Status /\ notes \in 0..MaxNotes /\ odd \subseteq {"deaf", "crossed", "beside"}
  BY DEF TypeInv, ExecutionTypeOK
<1>4. QED
  BY <1>1, <1>2, <1>3, TypeAgent DEF ProbeEnds

\* The end of a synchronisation.
LEMMA AfterType ==
  ASSUME TypeInv, NEW a \in Actor, sync[a].at # "no", After(a)
  PROVE  /\ sync' = [sync EXCEPT ![a] = NoSync] /\ sync' \in [Actor -> Sync]
         /\ main' \in Main /\ main'.why = main.why /\ main'.saw = main.saw
         /\ poll' \in {"off", "sync", "delay"}
         /\ a = "poll" => main' = main /\ poll' # "sync"
         /\ a = "main" => /\ poll' = poll /\ main.at \in {"sync", "end"}
                          /\ main'.at = IF main.at = "end" THEN "extract" ELSE "judge"
<1>1. sync' = [sync EXCEPT ![a] = NoSync] /\ sync' \in [Actor -> Sync]
  BY NoSyncType DEF After, TypeInv, ExecutionTypeOK
<1>2. main \in Main /\ poll \in {"off", "sync", "delay"} /\ a \in {"main", "poll"}
  BY DEF TypeInv, ExecutionTypeOK, Actor
<1>3. CASE a = "poll"
  BY <1>1, <1>2, <1>3 DEF After
<1>4. CASE a = "main"
  <2>1. main.at \in {"sync", "end"}
    BY <1>4 DEF TypeInv, StepInv
  <2>2. main' = [main EXCEPT !.at = IF @ = "end" THEN "extract" ELSE "judge"] /\ poll' = poll
    BY <1>4 DEF After
  <2>3. QED
    BY <1>1, <1>2, <1>4, <2>1, <2>2 DEF Main, Step
<1>5. QED
  BY <1>2, <1>3, <1>4

\* A step of a synchronisation: what the other activity has stays as it is.
LEMMA TypeSyncing ==
  ASSUME TypeInv, NEW a \in Actor, sync[a].at # "no", UNCHANGED <<transcript, run, probe, notes, polling, result>>,
         {latest', prints'} \subseteq 0..Len(transcript), seen' \subseteq 1..Len(transcript),
         limit' \in BOOLEAN, faults' \in 0..MaxFaults, odd' \subseteq {"deaf", "crossed", "beside"},
         \/ After(a)
         \/ /\ UNCHANGED <<main, poll>>
            /\ \E s \in Sync : /\ sync' = [sync EXCEPT ![a] = s]
                               /\ s.at = "reporting" /\ s.n <= Len(transcript) /\ s.next <= s.n
  PROVE  TypeInv'
<1>1. CASE After(a)
  <2>1. ExecutionTypeOK'
    BY <1>1, AfterType DEF TypeInv, ExecutionTypeOK
  <2>2. a \in {"main", "poll"} /\ Actor = {"main", "poll"} /\ sync \in [Actor -> Sync]
    BY DEF Actor, TypeInv, ExecutionTypeOK
  <2>3. /\ \A b \in Actor : sync'[b] = IF b = a THEN NoSync ELSE sync[b]
        /\ \A b \in Actor : sync'[b].n <= Len(transcript)
        /\ \A b \in Actor : sync'[b].at = "reporting" => sync'[b].next <= sync'[b].n
    <3>1. Len(transcript) \in Nat
      BY DEF TypeInv, ExecutionTypeOK
    <3>2. QED
      BY <1>1, <2>2, <3>1, AfterType, NoSyncType DEF TypeInv, StepInv
  <2>4. StepInv'
    BY <1>1, <2>2, <2>3, AfterType, NoSyncType DEF TypeInv, StepInv
  <2>5. QED
    BY <2>1, <2>4 DEF TypeInv
<1>2. CASE UNCHANGED <<main, poll>> /\ ~After(a)
  <2>1. PICK s \in Sync : /\ sync' = [sync EXCEPT ![a] = s]
                          /\ s.at = "reporting" /\ s.n <= Len(transcript) /\ s.next <= s.n
    BY <1>2
  <2>2. sync \in [Actor -> Sync]
    BY DEF TypeInv, ExecutionTypeOK
  <2>3. ExecutionTypeOK'
    BY <1>2, <2>1 DEF TypeInv, ExecutionTypeOK
  <2>4. StepInv'
    BY <1>2, <2>1, <2>2 DEF TypeInv, StepInv, Actor
  <2>5. QED
    BY <2>3, <2>4 DEF TypeInv
<1>3. QED
  BY <1>1, <1>2

LEMMA EndsType ==
  ASSUME TypeInv, NEW a \in Actor, NEW heard \in BOOLEAN, Ends(a, heard)
  PROVE  After(a) /\ limit' \in BOOLEAN /\ faults' \in 0..MaxFaults
  BY FaultType DEF Ends, TypeInv, ExecutionTypeOK

LEMMA TypeTakes ==
  ASSUME TypeInv, NEW a \in Actor, Takes(a)
  PROVE  TypeInv'
<1> USE DEF agent
<1>1. sync[a].at = "asked" /\ sync[a] \in Sync /\ prints \in Nat /\ Len(transcript) \in Nat /\ sync[a].n \in Nat
  BY DEF Takes, TypeInv, ExecutionTypeOK, Sync
<1>2. PICK n \in sync[a].n..Len(transcript) :
        LET old == overlap(prints, n) IN
        /\ latest' = n /\ prints' = n
        /\ IF old < n
           THEN /\ sync' = [sync EXCEPT ![a] = [at |-> "reporting", n |-> n, next |-> old + 1]]
                /\ UNCHANGED <<main, poll, limit, faults>>
           ELSE Ends(a, limit)
        /\ odd' = IF n < latest THEN odd \cup {"crossed"} ELSE odd
  BY DEF Takes
<1>3. n \in Nat /\ n <= Len(transcript) /\ overlap(prints, n) \in Nat
  <2>1. n \in Nat /\ n <= Len(transcript)
    BY <1>1
  <2>2. overlap(prints, n) \in 0..prints
    BY <1>1, <2>1, OverlapType
  <2>3. QED
    BY <1>1, <2>1, <2>2
<1>4. /\ {latest', prints'} \subseteq 0..Len(transcript) /\ seen' \subseteq 1..Len(transcript)
      /\ odd' \subseteq {"deaf", "crossed", "beside"}
  BY <1>2, <1>3 DEF Takes, TypeInv, ExecutionTypeOK
<1>5. UNCHANGED <<transcript, run, probe, notes, polling, result>>
  BY DEF Takes
<1>6. limit \in BOOLEAN /\ faults \in 0..MaxFaults
  BY DEF TypeInv, ExecutionTypeOK
<1>7. CASE overlap(prints, n) < n
  <2> DEFINE s == [at |-> "reporting", n |-> n, next |-> overlap(prints, n) + 1]
  <2>1. s \in Sync /\ s.at = "reporting" /\ s.n <= Len(transcript) /\ s.next <= s.n
    BY <1>3, <1>7 DEF Sync
  <2>2. sync' = [sync EXCEPT ![a] = s] /\ UNCHANGED <<main, poll, limit, faults>>
    BY <1>2, <1>7
  <2> HIDE DEF s
  <2>3. QED
    BY <1>1, <1>4, <1>5, <1>6, <2>1, <2>2, TypeSyncing
<1>8. CASE ~(overlap(prints, n) < n)
  <2>1. Ends(a, limit)
    BY <1>2, <1>8
  <2>2. After(a) /\ limit' \in BOOLEAN /\ faults' \in 0..MaxFaults
    BY <1>6, <2>1, EndsType
  <2>3. QED
    BY <1>1, <1>4, <1>5, <2>2, TypeSyncing
<1>9. QED
  BY <1>7, <1>8

LEMMA TypeReports ==
  ASSUME TypeInv, NEW a \in Actor, Reports(a)
  PROVE  TypeInv'
<1> USE DEF agent
<1> DEFINE i == sync[a].next
           m == transcript[i]
           heard == IF m \in {"limit", "askLimit"} THEN TRUE ELSE limit /\ m \in {"waiting", "ask"}
<1>1. /\ sync[a].at = "reporting" /\ sync[a] \in Sync /\ sync[a].n \in Nat /\ sync[a].next \in Nat \ {0}
      /\ sync[a].n <= Len(transcript) /\ sync[a].next <= sync[a].n /\ Len(transcript) \in Nat
  BY DEF Reports, TypeInv, ExecutionTypeOK, StepInv, Sync
<1>2. {latest', prints'} \subseteq 0..Len(transcript) /\ odd' \subseteq {"deaf", "crossed", "beside"}
  BY DEF Reports, TypeInv, ExecutionTypeOK
<1>3. seen' \subseteq 1..Len(transcript)
  BY <1>1 DEF Reports, TypeInv, ExecutionTypeOK
<1>4. UNCHANGED <<transcript, run, probe, notes, polling, result>>
  BY DEF Reports
<1>5. limit \in BOOLEAN /\ faults \in 0..MaxFaults /\ heard \in BOOLEAN
  BY DEF TypeInv, ExecutionTypeOK
<1>6. CASE i < sync[a].n
  <2> DEFINE s == [sync[a] EXCEPT !.next = i + 1]
  <2>1. s \in Sync /\ s.at = "reporting" /\ s.n <= Len(transcript) /\ s.next <= s.n
    BY <1>1, <1>6 DEF Sync
  <2>2. sync' = [sync EXCEPT ![a] = s] /\ limit' = heard /\ UNCHANGED <<main, poll, faults>>
    BY <1>6 DEF Reports
  <2> HIDE DEF s, heard
  <2>3. QED
    BY <1>1, <1>2, <1>3, <1>4, <1>5, <2>1, <2>2, TypeSyncing
<1>7. CASE ~(i < sync[a].n)
  <2>1. Ends(a, heard)
    BY <1>7 DEF Reports
  <2> HIDE DEF heard
  <2>2. After(a) /\ limit' \in BOOLEAN /\ faults' \in 0..MaxFaults
    BY <1>5, <2>1, EndsType
  <2>3. QED
    BY <1>1, <1>2, <1>3, <1>4, <2>2, TypeSyncing
<1>8. QED
  BY <1>6, <1>7

LEMMA TypeSyncFails ==
  ASSUME TypeInv, NEW a \in Actor, SyncFails(a)
  PROVE  TypeInv'
<1> USE DEF agent
<1>1. sync[a].at # "no" /\ After(a) /\ Fault /\ UNCHANGED <<transcript, run, probe, notes, polling, result, limit>>
  BY DEF SyncFails
<1>2. faults' \in 0..MaxFaults
  BY <1>1, FaultType DEF TypeInv
<1>3. /\ {latest', prints'} \subseteq 0..Len(transcript) /\ seen' \subseteq 1..Len(transcript)
      /\ limit' \in BOOLEAN /\ odd' \subseteq {"deaf", "crossed", "beside"}
  BY DEF SyncFails, TypeInv, ExecutionTypeOK
<1>4. QED
  BY <1>1, <1>2, <1>3, TypeSyncing

\* A step that asks for the session, or decides without waiting for more.
LEMMA TypeDecides ==
  ASSUME TypeInv, Polls \/ StartRun \/ ProbeOver \/ Joins
  PROVE  TypeInv'
<1> USE DEF agent, progress, poller
<1>0. /\ ExecutionTypeOK /\ StepInv /\ sync \in [Actor -> Sync] /\ Len(transcript) \in Nat /\ main \in Main
      /\ Actor = {"main", "poll"} /\ limit \in BOOLEAN
  BY DEF TypeInv, ExecutionTypeOK, Actor
<1>1. ASSUME NEW b \in Actor, sync' = [sync EXCEPT ![b] = Asked], UNCHANGED transcript
      PROVE  /\ sync' \in [Actor -> Sync]
             /\ \A c \in Actor : sync'[c] = IF c = b THEN Asked ELSE sync[c]
             /\ \A c \in Actor : sync'[c].n <= Len(transcript)
             /\ \A c \in Actor : sync'[c].at = "reporting" => sync'[c].next <= sync'[c].n
  BY <1>0, <1>1, AskedType DEF StepInv
<1>2. CASE Polls
  <2>1. CASE polling
    <3>1. poll' = "sync" /\ sync' = [sync EXCEPT !["poll"] = Asked] /\ "poll" \in Actor
      BY <1>0, <1>2, <2>1 DEF Polls
    <3>2. ExecutionTypeOK'
      BY <1>0, <1>1, <1>2, <3>1 DEF Polls, ExecutionTypeOK
    <3>3. StepInv'
      BY <1>0, <1>1, <1>2, <3>1, AskedType DEF Polls, StepInv
    <3>4. QED
      BY <3>2, <3>3 DEF TypeInv
  <2>2. CASE ~polling
    BY <1>0, <1>2, <2>2 DEF Polls, TypeInv, ExecutionTypeOK, StepInv
  <2>3. QED
    BY <1>0, <2>1, <2>2 DEF ExecutionTypeOK
<1>3. CASE StartRun
  <2>1. CASE goes("loop")
    <3>1. /\ poll' = "sync" /\ polling' = TRUE /\ sync' = [sync EXCEPT !["poll"] = Asked] /\ "poll" \in Actor
          /\ run' = "going" /\ UNCHANGED faults /\ main.at = "start"
      BY <1>0, <1>3, <2>1, GoesType DEF StartRun, Step
    <3>2. main' \in Main /\ main'.at = "loop"
      BY <1>0, <2>1, GoesType DEF Step
    <3>3. ExecutionTypeOK'
      BY <1>0, <1>1, <1>3, <3>1, <3>2 DEF StartRun, ExecutionTypeOK, Status
    <3>4. StepInv'
      BY <1>0, <1>1, <1>3, <3>1, <3>2, AskedType DEF StartRun, StepInv
    <3>5. QED
      BY <3>3, <3>4 DEF TypeInv
  <2>2. CASE ~goes("loop")
    <3>1. Fault /\ goes("failed") /\ UNCHANGED <<run, poll, polling, sync>> /\ main.at = "start"
      BY <1>3, <2>2 DEF StartRun
    <3>2. main' \in Main /\ main'.at = "failed" /\ faults' \in 0..MaxFaults
      BY <1>0, <3>1, GoesType, FaultType DEF Step
    <3>3. ExecutionTypeOK'
      BY <1>0, <1>3, <3>1, <3>2 DEF StartRun, ExecutionTypeOK
    <3>4. StepInv'
      BY <1>0, <1>3, <3>1, <3>2 DEF StartRun, StepInv
    <3>5. QED
      BY <3>3, <3>4 DEF TypeInv
  <2>3. QED
    BY <2>1, <2>2
<1>4. CASE ProbeOver
  <2>1. /\ main' = [main EXCEPT !.at = "sync", !.saw = probe[Len(probe)]] /\ main.at = "probeWait"
        /\ sync' = [sync EXCEPT !["main"] = Asked] /\ "main" \in Actor
    BY <1>0, <1>4 DEF ProbeOver
  <2>2. probe[Len(probe)] \in Status
    BY <1>0, <2>1 DEF StepInv, ExecutionTypeOK
  <2>3. main' \in Main /\ main'.at = "sync" /\ main'.why = main.why
    BY <1>0, <2>1, <2>2 DEF Main, Step
  <2>4. ExecutionTypeOK'
    BY <1>0, <1>1, <1>4, <2>1, <2>3 DEF ProbeOver, ExecutionTypeOK
  <2>5. StepInv'
    BY <1>0, <1>1, <1>4, <2>1, <2>3, AskedType DEF ProbeOver, StepInv
  <2>6. QED
    BY <2>4, <2>5 DEF TypeInv
<1>5. CASE Joins
  <2>1. CASE main.saw = "rejected"
    <3>1. main' \in Main /\ main'.at = "failed" /\ main.at = "join" /\ UNCHANGED sync
      BY <1>0, <1>5, <2>1, GoesType DEF Joins, Step
    <3>2. ExecutionTypeOK'
      BY <1>0, <1>5, <3>1 DEF Joins, ExecutionTypeOK
    <3>3. StepInv'
      BY <1>0, <1>5, <3>1 DEF Joins, StepInv
    <3>4. QED
      BY <3>2, <3>3 DEF TypeInv
  <2>2. CASE main.saw # "rejected"
    <3>1. goes("end") /\ main.at = "join" /\ sync' = [sync EXCEPT !["main"] = Asked] /\ "main" \in Actor
      BY <1>0, <1>5, <2>2 DEF Joins
    <3>2. main' \in Main /\ main'.at = "end"
      BY <1>0, <3>1, GoesType DEF Step
    <3>3. ExecutionTypeOK'
      BY <1>0, <1>1, <1>5, <3>1, <3>2 DEF Joins, ExecutionTypeOK
    <3>4. StepInv'
      BY <1>0, <1>1, <1>5, <3>1, <3>2, AskedType DEF Joins, StepInv
    <3>5. QED
      BY <3>3, <3>4 DEF TypeInv
  <2>3. QED
    BY <2>1, <2>2
<1>6. QED
  BY <1>2, <1>3, <1>4, <1>5

LEMMA TypeProbeStarts ==
  ASSUME TypeInv, ProbeStarts
  PROVE  TypeInv'
<1> USE DEF agent, progress, poller
<1>0. /\ transcript \in Seq(Message) /\ probe \in Seq(Status) /\ Len(transcript) \in Nat /\ Len(probe) \in Nat
      /\ main.at = "probe" /\ Len(probe) < MaxProbes /\ MaxProbes \in Nat /\ main.why \in Reason /\ main.saw = "going"
  BY ExecutionAssumption DEF TypeInv, ExecutionTypeOK, StepInv, ProbeStarts, ExecutionAssumption
<1>1. transcript' \in Seq(Message) /\ Len(transcript') = Len(transcript) + 1
  <2>1. \E m \in Message : transcript' = Append(transcript, m)
    BY DEF ProbeStarts, Message
  <2>2. QED
    BY <1>0, <2>1, AppendType
<1>2. probe' \in Seq(Status) /\ Len(probe') = Len(probe) + 1 /\ probe' # <<>>
  BY <1>0 DEF ProbeStarts, Status
<1>3. main' \in Main /\ main'.at = "probeWait" /\ main'.why = main.why /\ main'.saw = main.saw
  BY GoesType DEF ProbeStarts, Step, TypeInv
<1>4. ExecutionTypeOK'
  <2>1. {latest, prints} \subseteq 0..Len(transcript') /\ seen \subseteq 1..Len(transcript')
    BY <1>0, <1>1 DEF TypeInv, ExecutionTypeOK
  <2>2. QED
    BY <1>0, <1>1, <1>2, <1>3, <2>1 DEF ProbeStarts, TypeInv, ExecutionTypeOK
<1>5. StepInv'
  <2>1. \A a \in Actor : sync[a].n <= Len(transcript')
    BY <1>0, <1>1 DEF TypeInv, StepInv, ExecutionTypeOK, Sync
  <2>2. QED
    BY <1>0, <1>2, <1>3, <2>1 DEF ProbeStarts, TypeInv, StepInv
<1>6. QED
  BY <1>4, <1>5 DEF TypeInv

LEMMA AcceptsType ==
  ASSUME ExecutionTypeOK, NEW text \in Turn, Accepts(text)
  PROVE  /\ main' \in Main /\ main'.why = main.why /\ main'.saw = main.saw
         /\ \/ main'.at = "delay" /\ result' = result /\ text \in {"pending", "waiting"}
            \/ main'.at = "done" /\ result' = text /\ text \notin {"pending", "waiting"}
  BY GoesType DEF Accepts, Rests, Returns, Step

LEMMA TypeJudge ==
  ASSUME TypeInv, Judge
  PROVE  TypeInv'
<1> USE DEF agent
<1> DEFINE turn == lastTurn(extracted)
           answered == main.saw = "ok" /\ turn \notin {"pending", "waiting", "limit"}
<1>1. ExecutionTypeOK /\ StepInv /\ main.at = "judge" /\ main.why \in Reason
  BY DEF TypeInv, StepInv, Judge
<1>2. extracted \in 0..Len(transcript) /\ latest \in 0..Len(transcript) /\ turn \in Turn
  <2>1. extracted \in latest..Len(transcript) /\ latest \in Nat /\ latest \in 0..Len(transcript)
    BY <1>1, ExtractedType DEF ExecutionTypeOK
  <2>2. Len(transcript) \in Nat
    BY <1>1 DEF ExecutionTypeOK
  <2>3. QED
    BY <2>1, <2>2, LastTurnType
<1> HIDE DEF turn
<1>3. latest' \in 0..Len(transcript)
  BY <1>2 DEF Judge
<1>4. /\ main' \in Main /\ main'.at \in {"delay", "done", "join", "quietCheck", "wait"}
      /\ result' \in {"none"} \cup Turn /\ polling' \in BOOLEAN
  <2>1. CASE main.why = "background"
    <3>1. Accepts(turn) /\ UNCHANGED polling
      BY <2>1 DEF Judge, turn
    <3>2. QED
      BY <1>1, <1>2, <3>1, AcceptsType DEF ExecutionTypeOK
  <2>2. CASE main.why # "background" /\ answered
    <3>1. result' = turn /\ Leaves(main.why, "ok")
      BY <2>2 DEF Judge, turn
    <3>2. QED
      BY <1>1, <1>2, <3>1, LeavesType DEF Status
  <2>3. CASE main.why # "background" /\ ~answered
    <3>1. goes(IF main.why = "limit" THEN "quietCheck" ELSE "wait") /\ UNCHANGED <<polling, result>>
      BY <2>3 DEF Judge, turn
    <3>2. QED
      BY <1>1, <3>1, GoesType DEF Step, ExecutionTypeOK
  <2>4. QED
    BY <2>1, <2>2, <2>3
<1>5. limit' \in BOOLEAN /\ UNCHANGED <<transcript, run, probe, notes, sync, prints, seen, poll, faults, odd>>
  BY DEF Judge
<1>6. ExecutionTypeOK'
  BY <1>1, <1>3, <1>4, <1>5 DEF ExecutionTypeOK
<1>7. StepInv'
  BY <1>1, <1>4, <1>5 DEF StepInv
<1>8. QED
  BY <1>6, <1>7 DEF TypeInv

LEMMA TypeExtracts ==
  ASSUME TypeInv, Extracts
  PROVE  TypeInv'
<1> USE DEF agent
<1>1. ExecutionTypeOK /\ StepInv /\ main.at = "extract"
  BY DEF TypeInv, Extracts
<1>2. extracted \in 0..Len(transcript) /\ latest \in 0..Len(transcript) /\ lastTurn(extracted) \in Turn
  <2>1. extracted \in latest..Len(transcript) /\ latest \in Nat /\ latest \in 0..Len(transcript)
    BY <1>1, ExtractedType DEF ExecutionTypeOK
  <2>2. Len(transcript) \in Nat
    BY <1>1 DEF ExecutionTypeOK
  <2>3. QED
    BY <2>1, <2>2, LastTurnType
<1>3. /\ main' \in Main /\ main'.at \in {"delay", "done", "failed"}
      /\ result' \in {"none"} \cup Turn /\ latest' \in 0..Len(transcript)
  <2>1. CASE main.saw = "error"
    BY <1>1, <1>2, <2>1, GoesType DEF Extracts, Step, ExecutionTypeOK
  <2>2. CASE main.saw = "ok" /\ main.why # "run"
    BY <1>1, <1>2, <2>2, GoesType DEF Extracts, Step, ExecutionTypeOK
  <2>3. CASE main.saw # "error" /\ ~(main.saw = "ok" /\ main.why # "run")
    <3>1. latest' = extracted /\ Accepts(lastTurn(extracted))
      BY <2>3 DEF Extracts
    <3>2. QED
      BY <1>1, <1>2, <3>1, AcceptsType DEF ExecutionTypeOK
  <2>4. QED
    BY <2>1, <2>2, <2>3
<1>4. UNCHANGED <<transcript, run, probe, notes, sync, prints, seen, poll, polling, limit, faults, odd>>
  BY DEF Extracts, poller
<1>5. ExecutionTypeOK'
  BY <1>1, <1>3, <1>4 DEF ExecutionTypeOK
<1>6. StepInv'
  BY <1>1, <1>3, <1>4 DEF StepInv
<1>7. QED
  BY <1>5, <1>6 DEF TypeInv

LEMMA TypeNext == TypeInv /\ [Next]_vars => TypeInv'
<1> SUFFICES ASSUME TypeInv, [Next]_vars PROVE TypeInv'
  OBVIOUS
<1>1. CASE Agent
  BY <1>1, TypeRun, TypeProbeEnds DEF Agent
<1>2. CASE \E a \in Actor : Syncing(a) \/ SyncFails(a)
  BY <1>2, TypeTakes, TypeReports, TypeSyncFails DEF Syncing
<1>3. CASE Polls \/ Executor \/ Rejects
  BY <1>3, TypeDecides, TypeExecutor, TypeProbeStarts, TypeJudge, TypeExtracts DEF Executor
<1>4. CASE UNCHANGED vars
  BY <1>4 DEF vars, agent, progress, poller, TypeInv, ExecutionTypeOK, StepInv
<1>5. QED
  BY <1>1, <1>2, <1>3, <1>4 DEF Next

(* Whatever the agent, the poller and the executor do and in whatever order their readings *)
(* arrive, every variable holds what the code can store in it.                             *)
THEOREM TypeCorrect == Spec => []ExecutionTypeOK
<1>1. TypeInv => ExecutionTypeOK
  BY DEF TypeInv
<1>2. QED
  BY <1>1, TypeInit, TypeNext, PTL DEF Spec

-----------------------------------------------------------------------------
(* The cause of a result. *)

\* Among the first n messages of t is a turn that no message in bad follows.
Clean(t, bad, n) == \E e \in 1..n : t[e] \in Turn /\ \A j \in e..Len(t) : t[j] \notin bad

\* What cannot be the last turn of a run, or of a probe, that has ended.
Bad == IF probe = <<>> THEN {"note", "limit"} ELSE {"note"}
Read == IF sync["main"].at = "asked" THEN sync["main"].n ELSE latest

\* The executor is about to return what it reads.
Relies ==
  \/ main.why = "background" /\ main.at \in {"sync", "judge"}
  \/ main.why = "run" /\ main.saw = "ok" /\ main.at \in {"end", "extract"}
  \/ Early /\ main.saw = "ok" /\ main.at \in {"sync", "judge"} /\ {"crossed", "beside"} \cap odd = {}

RunInv ==
  /\ run = "ok" => Clean(transcript, Bad, Len(transcript))
  /\ main.why = "background" \/ main.at = "delay" => run = "ok"
  /\ main.at \in {"start", "loop", "quietCheck", "wait", "join", "end", "extract"} => main.why # "background"
  /\ main.at \in {"join", "end", "extract"} => /\ main.saw \in {"ok", "error", "rejected"}
                                               /\ main.saw = "ok" /\ main.why = "run" => run = "ok"
                                               /\ Early => main.saw = "ok"
                                               /\ main.at # "join" => main.saw # "rejected"

AloneInv ==
  \/ main.at \in {"end", "extract", "delay"}
  \/ main.why = "background" /\ main.at \in {"probe", "probeWait", "sync", "judge"}
  => poll = "off"

ReadInv ==
  /\ main.at = "probeWait" /\ probe[Len(probe)] = "ok" /\ "beside" \notin odd => Clean(transcript, Bad, Len(transcript))
  /\ Relies /\ "deaf" \notin odd => Clean(transcript, Bad, Read)

EarlyInv ==
  Early /\ main.at \in {"join", "end", "extract"} => result = "final" \/ odd # {}

CauseInv == RunInv /\ AloneInv /\ ReadInv /\ EarlyInv /\ ResultHasCause

LEMMA CleanGrows ==
  ASSUME NEW t, NEW bad, NEW n \in Nat, NEW k \in Nat, n <= k, Clean(t, bad, n)
  PROVE  Clean(t, bad, k)
  BY DEF Clean

LEMMA CleanLess ==
  ASSUME NEW t, NEW bad, NEW less \in SUBSET bad, NEW n \in Nat, Clean(t, bad, n)
  PROVE  Clean(t, less, n)
  BY DEF Clean

LEMMA CleanAppend ==
  ASSUME NEW t \in Seq(Message), NEW bad, NEW m \in Message, m \notin bad,
         NEW n \in Nat, n <= Len(t), Clean(t, bad, n)
  PROVE  Clean(Append(t, m), bad, n) /\ Clean(Append(t, m), bad, Len(Append(t, m)))
<1>1. PICK e \in 1..n : t[e] \in Turn /\ \A j \in e..Len(t) : t[j] \notin bad
  BY DEF Clean
<1>2. /\ Len(Append(t, m)) = Len(t) + 1 /\ Len(t) \in Nat
      /\ \A j \in 1..Len(t) + 1 : Append(t, m)[j] = IF j = Len(t) + 1 THEN m ELSE t[j]
  OBVIOUS
<1>3. Append(t, m)[e] \in Turn /\ \A j \in e..Len(Append(t, m)) : Append(t, m)[j] \notin bad
  BY <1>1, <1>2
<1>4. e \in 1..n /\ e \in 1..Len(Append(t, m))
  BY <1>1, <1>2
<1> DEFINE u == Append(t, m)
<1>5. u[e] \in Turn /\ \A j \in e..Len(u) : u[j] \notin bad
  BY <1>3
<1> HIDE DEF u, Turn
<1>6. Clean(u, bad, n) /\ Clean(u, bad, Len(u))
  BY <1>4, <1>5 DEF Clean, u
<1> QED
  BY <1>6 DEF u

LEMMA CleanNew ==
  ASSUME NEW t \in Seq(Message), NEW bad, NEW m \in Turn, m \notin bad
  PROVE  Clean(Append(t, m), bad, Len(Append(t, m)))
<1>1. Len(Append(t, m)) = Len(t) + 1 /\ Len(t) \in Nat /\ Append(t, m)[Len(t) + 1] = m
  BY DEF Message
<1>2. QED
  BY <1>1 DEF Clean

LEMMA LastTurnClean ==
  ASSUME TypeInv, NEW bad, NEW n \in 0..Len(transcript), Clean(transcript, bad, n)
  PROVE  Assistant(n) # {} /\ lastTurn(n) \in Turn \ bad
<1>0. n \in Nat /\ Len(transcript) \in Nat
  BY DEF TypeInv, ExecutionTypeOK
<1>1. PICK e \in 1..n : transcript[e] \in Turn /\ \A j \in e..Len(transcript) : transcript[j] \notin bad
  BY DEF Clean
<1>2. e \in Assistant(n)
  BY <1>1 DEF Assistant
<1>3. PICK i \in Assistant(n) : lastTurn(n) = transcript[i] /\ \A j \in Assistant(n) : j <= i
  BY <1>0, <1>2, LastTurnIs
<1>4. i \in 1..n /\ transcript[i] \in Turn /\ e <= i
  BY <1>2, <1>3 DEF Assistant
<1>5. QED
  BY <1>0, <1>1, <1>2, <1>3, <1>4

LEMMA ReadType ==
  ASSUME TypeInv
  PROVE  Read \in 0..Len(transcript) /\ latest \in 0..Len(transcript) /\ Len(transcript) \in Nat
  BY DEF TypeInv, StepInv, ExecutionTypeOK, Read, Actor, Sync

LEMMA CauseInit == Init => CauseInv
  BY DEF Init, CauseInv, RunInv, AloneInv, ReadInv, EarlyInv, ResultHasCause, Relies, Early, NoSync, Actor

\* Steps that leave the session and the readings of the executor alone, and end nothing.
LEMMA CauseKept ==
  ASSUME TypeInv, CauseInv, UNCHANGED <<transcript, run, probe, sync, latest, poll, odd, result>>,
         \/ main'.at \in {"loop", "quietCheck", "wait", "failed"} /\ main'.why # "background"
         \/ main'.at = "failed" /\ main'.why = main.why
         \/ /\ main'.at = "probe" /\ main'.why # "background"
         \/ /\ main.at = "delay" /\ main'.at = "probe"
         \/ /\ main'.at = "join" /\ main'.why = "run" /\ main'.saw \in {"ok", "error", "rejected"}
            /\ main'.saw = "ok" => run = "ok"
  PROVE  CauseInv'
<1>1. Bad' = Bad
  BY DEF Bad
<1>2. RunInv'
  BY <1>1 DEF CauseInv, RunInv, Early
<1>3. AloneInv'
  BY DEF CauseInv, AloneInv
<1>4. ReadInv'
  BY <1>1 DEF CauseInv, ReadInv, Relies, Early
<1>5. EarlyInv' /\ ResultHasCause'
  BY DEF EarlyInv, ResultHasCause, Early
<1>6. QED
  BY <1>2, <1>3, <1>4, <1>5 DEF CauseInv

LEMMA CauseExecutor ==
  ASSUME TypeInv, CauseInv,
         LimitProbe \/ QuietProbe \/ DelayEnds \/ Waits \/ WaitTimesOut \/ WaitEnds \/ Rejects \/ StartRun
  PROVE  CauseInv'
<1> USE DEF agent, progress, poller
<1>0. ExecutionTypeOK
  BY DEF TypeInv
<1>a. main.at \in {"loop", "quietCheck", "wait"} => main.why # "background"
  BY DEF CauseInv, RunInv
<1>1. CASE LimitProbe
  BY <1>0, <1>1, ProbesType, CauseKept DEF LimitProbe, Reason
<1>2. CASE QuietProbe
  BY <1>0, <1>2, ProbesType, CauseKept DEF QuietProbe, Reason
<1>3. CASE DelayEnds
  BY <1>0, <1>3, ProbesType, CauseKept DEF DelayEnds, Reason
<1>4. CASE Waits
  BY <1>0, <1>4, <1>a, GoesType, CauseKept DEF Waits, Step
<1>5. CASE WaitTimesOut
  BY <1>0, <1>5, <1>a, GoesType, CauseKept DEF WaitTimesOut, Step
<1>6. CASE WaitEnds
  <2>1. CASE run = "limited"
    BY <1>0, <1>6, <1>a, <2>1, GoesType, CauseKept DEF WaitEnds, Step
  <2>2. CASE run # "limited"
    <3>1. run \in {"ok", "error"}
      BY <1>0, <1>6, <2>2 DEF ExecutionTypeOK, TypeInv, StepInv, WaitEnds, Status
    <3>2. QED
      BY <1>0, <1>6, <2>2, <3>1, LeavesType, CauseKept DEF WaitEnds, Status
  <2>3. QED
    BY <2>1, <2>2
<1>7. CASE Rejects
  <2>1. CASE main.why = "background"
    BY <1>0, <1>7, <2>1, GoesType, CauseKept DEF Rejects, Step
  <2>2. CASE main.why # "background"
    <3>1. Leaves("run", "rejected") /\ UNCHANGED <<transcript, run, probe, sync, latest, poll, odd, result>>
      BY <1>7, <2>2 DEF Rejects
    <3>2. main'.at = "join" /\ main'.why = "run" /\ main'.saw = "rejected"
      BY <1>0, <3>1, LeavesType
    <3>3. QED
      BY <3>1, <3>2, CauseKept
  <2>3. QED
    BY <2>1, <2>2
<1>8. CASE StartRun
  <2>1. main.at = "start" /\ main.why # "background" /\ main'.at \in {"loop", "failed"} /\ main'.why = main.why
    BY <1>0, <1>8, GoesType DEF StartRun, Step, CauseInv, RunInv
  <2>2. run' = "going" \/ UNCHANGED run
    BY <1>8 DEF StartRun
  <2>3. UNCHANGED <<transcript, probe, latest, result, odd>>
    BY <1>8 DEF StartRun
  <2>4. Bad' = Bad
    BY <2>3 DEF Bad
  <2>5. QED
    BY <2>1, <2>2, <2>3, <2>4 DEF CauseInv, RunInv, AloneInv, ReadInv, EarlyInv, ResultHasCause, Relies, Early
<1>9. QED
  BY <1>1, <1>2, <1>3, <1>4, <1>5, <1>6, <1>7, <1>8

\* The agent writes.
LEMMA CauseAgent ==
  ASSUME TypeInv, CauseInv, Agent
  PROVE  CauseInv'
<1> USE DEF agent, progress, poller
<1>0. /\ transcript \in Seq(Message) /\ Len(transcript) \in Nat /\ probe \in Seq(Status) /\ odd \subseteq odd'
      /\ UNCHANGED <<sync, latest, poll, main, result>> /\ Read' = Read /\ Read \in Nat /\ Read <= Len(transcript)
      /\ main.at # "done"
  BY ReadType DEF TypeInv, ExecutionTypeOK, Agent, RunWrites, RunEnds, ProbeEnds, Read, Over
<1>1. Bad' = Bad /\ Bad \in {{"note"}, {"note", "limit"}}
  <2>1. probe' = <<>> <=> probe = <<>>
    BY <1>0 DEF Agent, RunWrites, RunEnds, ProbeEnds
  <2>2. QED
    BY <2>1 DEF Bad
<1>2. ASSUME \/ UNCHANGED transcript
             \/ \E m \in Turn \ Bad : transcript' = Append(transcript, m)
      PROVE  /\ Clean(transcript, Bad, Len(transcript)) => Clean(transcript', Bad, Len(transcript'))
             /\ Clean(transcript, Bad, Read) => Clean(transcript', Bad, Read)
  BY <1>0, <1>2, CleanAppend, CleanNew DEF Message
<1>3. CASE RunWrites
  <2>1. /\ run = "going" /\ UNCHANGED <<run, probe>>
        /\ odd' = IF main.at \in {"probeWait", "sync", "judge"} THEN odd \cup {"beside"} ELSE odd
    BY <1>3 DEF RunWrites
  <2>2. "beside" \in odd' \/ main.at \notin {"probeWait", "sync", "judge"}
    BY <2>1
  <2>3. RunInv' /\ AloneInv'
    BY <1>0, <1>1, <2>1 DEF CauseInv, RunInv, AloneInv, Early
  <2>4. ReadInv'
    BY <1>0, <1>1, <2>1, <2>2 DEF CauseInv, ReadInv, RunInv, Relies, Early
  <2>5. QED
    BY <1>0, <2>3, <2>4 DEF CauseInv, EarlyInv, ResultHasCause, Early
<1>4. CASE RunEnds
  <2>1. run = "going" /\ run' \in {"ok", "error", "limited"} /\ UNCHANGED <<probe, odd>>
    BY <1>4 DEF RunEnds
  <2>2. \/ UNCHANGED transcript /\ run' # "ok"
        \/ \E m \in Turn \ Bad : transcript' = Append(transcript, m)
    BY <1>1, <1>4 DEF RunEnds, Turn
  <2>3. /\ Clean(transcript, Bad, Len(transcript)) => Clean(transcript', Bad, Len(transcript'))
        /\ Clean(transcript, Bad, Read) => Clean(transcript', Bad, Read)
    BY <1>2, <2>2
  <2>4. run' = "ok" => Clean(transcript', Bad, Len(transcript'))
    BY <1>0, <2>2, CleanNew
  <2>5. RunInv' /\ AloneInv'
    BY <1>0, <1>1, <2>1, <2>4 DEF CauseInv, RunInv, AloneInv, Early
  <2>6. ReadInv'
    BY <1>0, <1>1, <2>1, <2>3 DEF CauseInv, ReadInv, RunInv, Relies, Early
  <2>7. QED
    BY <1>0, <2>1, <2>5, <2>6 DEF CauseInv, EarlyInv, ResultHasCause, Early
<1>5. CASE \E i \in DOMAIN probe : ProbeEnds(i)
  <2>1. PICK i \in DOMAIN probe : ProbeEnds(i)
    BY <1>5
  <2>2. UNCHANGED <<run, odd>> /\ probe[i] = "going" /\ Bad = {"note"} /\ i \in 1..Len(probe) /\ Len(probe) \in Nat
    BY <1>0, <2>1 DEF ProbeEnds, Bad
  <2>3. \/ UNCHANGED transcript /\ probe' = [probe EXCEPT ![i] = "limited"]
        \/ \E m \in Turn \ Bad : transcript' = Append(transcript, m)
    BY <2>1, <2>2 DEF ProbeEnds, Turn
  <2>4. /\ Clean(transcript, Bad, Len(transcript)) => Clean(transcript', Bad, Len(transcript'))
        /\ Clean(transcript, Bad, Read) => Clean(transcript', Bad, Read)
    BY <1>2, <2>3
  <2>5. probe'[Len(probe')] = "ok" => probe[Len(probe)] = "ok" \/ Clean(transcript', Bad, Len(transcript'))
    <3>1. CASE UNCHANGED transcript /\ probe' = [probe EXCEPT ![i] = "limited"]
      BY <1>0, <2>2, <3>1
    <3>2. CASE \E m \in Turn \ Bad : transcript' = Append(transcript, m)
      BY <1>0, <3>2, CleanNew
    <3>3. QED
      BY <2>3, <3>1, <3>2
  <2>6. RunInv' /\ AloneInv'
    BY <1>0, <1>1, <2>2, <2>4 DEF CauseInv, RunInv, AloneInv, Early
  <2>7. ReadInv'
    BY <1>0, <1>1, <2>2, <2>4, <2>5 DEF CauseInv, ReadInv, Relies, Early
  <2>8. QED
    BY <1>0, <2>2, <2>6, <2>7 DEF CauseInv, EarlyInv, ResultHasCause, Early
<1>6. QED
  BY <1>3, <1>4, <1>5 DEF Agent

\* A synchronisation goes on or ends; what the executor relies on is not read backwards.
LEMMA CauseSyncing ==
  ASSUME TypeInv, CauseInv, NEW a \in Actor, sync[a].at # "no", UNCHANGED <<transcript, run, probe, result>>,
         odd \subseteq odd', After(a) \/ UNCHANGED <<main, poll>>,
         Relies' /\ "deaf" \notin odd' => Read' \in Nat /\ Read <= Read'
  PROVE  CauseInv'
<1>1. /\ main'.why = main.why /\ main'.saw = main.saw /\ Bad' = Bad
      /\ \/ main'.at = main.at
         \/ main.at = "end" /\ main'.at = "extract"
         \/ main.at = "sync" /\ main'.at = "judge"
  BY AfterType DEF Bad, Actor
<1>2. Relies' => Relies
  BY <1>1 DEF Relies, Early
<1>3. poll' = poll \/ (poll = "sync" /\ main' = main)
  <2>1. CASE UNCHANGED <<main, poll>>
    BY <2>1
  <2>2. CASE After(a) /\ a = "poll"
    BY <2>2, AfterType DEF TypeInv, StepInv
  <2>3. CASE After(a) /\ a = "main"
    <3>1. poll' = poll
      BY <2>3 DEF After
    <3>2. QED
      BY <3>1
  <2>4. QED
    BY <2>1, <2>2, <2>3 DEF Actor
<1>4. RunInv'
  BY <1>1 DEF CauseInv, RunInv, Early
<1>5. AloneInv'
  BY <1>1, <1>3 DEF CauseInv, AloneInv
<1>6. ReadInv'
  <2>1. Relies' /\ "deaf" \notin odd' => Clean(transcript, Bad, Read')
    BY <1>2, ReadType, CleanGrows DEF CauseInv, ReadInv
  <2>2. QED
    BY <1>1, <2>1 DEF CauseInv, ReadInv
<1>7. EarlyInv' /\ ResultHasCause'
  BY <1>1 DEF CauseInv, EarlyInv, ResultHasCause, Early
<1>8. QED
  BY <1>4, <1>5, <1>6, <1>7 DEF CauseInv

LEMMA CauseTakes ==
  ASSUME TypeInv, CauseInv, NEW a \in Actor, Takes(a)
  PROVE  CauseInv'
<1> USE DEF agent
<1>1. PICK n \in sync[a].n..Len(transcript) :
        LET old == overlap(prints, n) IN
        /\ latest' = n /\ prints' = n
        /\ IF old < n
           THEN /\ sync' = [sync EXCEPT ![a] = [at |-> "reporting", n |-> n, next |-> old + 1]]
                /\ UNCHANGED <<main, poll, limit, faults>>
           ELSE Ends(a, limit)
        /\ odd' = IF n < latest THEN odd \cup {"crossed"} ELSE odd
  BY DEF Takes
<1>2. /\ sync[a].at = "asked" /\ sync[a].n \in Nat /\ Len(transcript) \in Nat /\ n \in Nat /\ n >= sync[a].n
      /\ sync \in [Actor -> Sync] /\ Actor = {"main", "poll"} /\ a \in {"main", "poll"}
      /\ UNCHANGED <<transcript, run, probe, result>> /\ odd \subseteq odd'
  BY <1>1 DEF Takes, TypeInv, ExecutionTypeOK, Sync, Actor
<1>3. \E s : s.at # "asked" /\ sync' = [sync EXCEPT ![a] = s]
  <2>1. CASE overlap(prints, n) < n
    BY <1>1, <2>1
  <2>2. CASE ~(overlap(prints, n) < n)
    BY <1>1, <2>2, NoSyncType DEF Ends, After
  <2>3. QED
    BY <2>1, <2>2
<1>4. After(a) \/ UNCHANGED <<main, poll>>
  BY <1>1 DEF Ends
<1>5. ASSUME Relies', "deaf" \notin odd'
      PROVE  Read' \in Nat /\ Read <= Read'
  <2>1. CASE a = "main"
    BY <1>1, <1>2, <1>3, <2>1 DEF Read
  <2>2. CASE a = "poll"
    <3>1. sync'["main"] = sync["main"] /\ main' = main /\ poll = "sync" /\ main.why \in Reason \cup {"run"}
      BY <1>2, <1>3, <1>4, <2>2, AfterType DEF TypeInv, StepInv, ExecutionTypeOK, Main
    <3>2. n >= latest
      <4>1. Early /\ "crossed" \notin odd'
        BY <1>5, <3>1 DEF Relies, Early, CauseInv, AloneInv
      <4>2. QED
        BY <1>1, <1>2, <4>1, ReadType
    <3>3. QED
      BY <1>1, <1>2, <3>1, <3>2, ReadType DEF Read
  <2>3. QED
    BY <1>2, <2>1, <2>2
<1>6. QED
  BY <1>2, <1>4, <1>5, CauseSyncing

LEMMA CauseReports ==
  ASSUME TypeInv, CauseInv, NEW a \in Actor, Reports(a) \/ SyncFails(a)
  PROVE  CauseInv'
<1> USE DEF agent
<1>1. /\ sync[a].at # "no" /\ UNCHANGED <<transcript, run, probe, result, latest>> /\ odd \subseteq odd'
      /\ sync \in [Actor -> Sync] /\ Actor = {"main", "poll"} /\ a \in {"main", "poll"}
  BY DEF Reports, SyncFails, Actor, TypeInv, ExecutionTypeOK
<1>2. After(a) \/ UNCHANGED <<main, poll>>
  BY DEF Reports, SyncFails, Ends
<1>3. ASSUME "deaf" \notin odd'
      PROVE  Read' = Read
  <2>1. CASE Reports(a)
    <3>1. sync[a].at = "reporting" /\ \E s : s.at # "asked" /\ sync' = [sync EXCEPT ![a] = s]
      <4>1. CASE sync[a].next < sync[a].n
        <5>1. sync' = [sync EXCEPT ![a] = [sync[a] EXCEPT !.next = sync[a].next + 1]] /\ sync[a].at = "reporting"
          BY <2>1, <4>1 DEF Reports
        <5>2. [sync[a] EXCEPT !.next = sync[a].next + 1].at = "reporting"
          BY <1>1, <5>1 DEF Sync
        <5>3. QED
          BY <5>1, <5>2
      <4>2. CASE ~(sync[a].next < sync[a].n)
        BY <2>1, <4>2, NoSyncType DEF Reports, Ends, After
      <4>3. QED
        BY <4>1, <4>2
    <3>2. QED
      BY <1>1, <3>1 DEF Read
  <2>2. CASE SyncFails(a)
    <3>1. a = "poll" /\ sync' = [sync EXCEPT !["poll"] = NoSync]
      BY <1>1, <1>3, <2>2 DEF SyncFails, After
    <3>2. QED
      BY <1>1, <3>1 DEF Read
  <2>3. QED
    BY <2>1, <2>2
<1>4. QED
  BY <1>1, <1>2, <1>3, ReadType, CauseSyncing

LEMMA CausePolls ==
  ASSUME TypeInv, CauseInv, Polls
  PROVE  CauseInv'
<1> USE DEF agent
<1>1. /\ poll = "delay" /\ UNCHANGED <<transcript, run, probe, latest, main, result, odd>> /\ Bad' = Bad
      /\ sync'["main"] = sync["main"]
  BY DEF Polls, Bad, TypeInv, ExecutionTypeOK, Actor
<1>2. Read' = Read
  BY <1>1 DEF Read
<1>3. RunInv' /\ AloneInv'
  BY <1>1 DEF CauseInv, RunInv, AloneInv, Early
<1>4. ReadInv' /\ EarlyInv' /\ ResultHasCause'
  BY <1>1, <1>2 DEF CauseInv, ReadInv, Relies, EarlyInv, ResultHasCause, Early
<1>5. QED
  BY <1>3, <1>4 DEF CauseInv

LEMMA CauseProbes ==
  ASSUME TypeInv, CauseInv, ProbeStarts \/ ProbeOver
  PROVE  CauseInv'
<1> USE DEF agent, progress, poller
<1>0. /\ ExecutionTypeOK /\ Len(transcript) \in Nat /\ transcript \in Seq(Message) /\ probe \in Seq(Status)
      /\ main \in Main /\ sync \in [Actor -> Sync] /\ "main" \in Actor
  BY DEF TypeInv, ExecutionTypeOK, Actor
<1>1. CASE ProbeStarts
  <2>1. /\ main.at = "probe" /\ main'.at = "probeWait" /\ main'.why = main.why /\ main.why \in Reason
        /\ UNCHANGED <<run, sync, latest, poll, result, odd>>
    BY <1>0, <1>1, GoesType DEF ProbeStarts, Step, TypeInv, StepInv
  <2>2. probe' # <<>> /\ probe'[Len(probe')] = "going" /\ Bad' = {"note"} /\ Bad' \subseteq Bad
    <3>1. probe' = Append(probe, "going") /\ "going" \in Status
      BY <1>1 DEF ProbeStarts, Status
    <3>2. /\ Len(probe') = Len(probe) + 1 /\ Len(probe) \in Nat
          /\ probe'[Len(probe) + 1] = "going" /\ probe' # <<>>
      BY <1>0, <3>1, LastProbe
    <3> QED
      BY <3>2 DEF Bad
  <2>3. run = "ok" => Clean(transcript', Bad', Len(transcript'))
    <3>1. \E m \in Message : transcript' = Append(transcript, m) /\ m \notin Bad
      BY <1>1 DEF ProbeStarts, Message, Bad
    <3>2. QED
      BY <1>0, <2>2, <3>1, CleanAppend, CleanLess, AppendType DEF CauseInv, RunInv
  <2>4. RunInv' /\ AloneInv'
    BY <2>1, <2>3 DEF CauseInv, RunInv, AloneInv
  <2>5. ReadInv' /\ EarlyInv' /\ ResultHasCause'
    BY <2>1, <2>2 DEF ReadInv, Relies, EarlyInv, ResultHasCause, Early
  <2>6. QED
    BY <2>4, <2>5 DEF CauseInv
<1>2. CASE ProbeOver
  <2>1. /\ main' = [main EXCEPT !.at = "sync", !.saw = probe[Len(probe)]] /\ main.at = "probeWait"
        /\ UNCHANGED <<transcript, run, probe, latest, poll, result, odd>> /\ Bad' = Bad
        /\ sync' = [sync EXCEPT !["main"] = Asked]
    BY <1>2 DEF ProbeOver, Bad
  <2>2. main'.at = "sync" /\ main'.why = main.why /\ main'.saw = probe[Len(probe)]
    BY <1>0, <2>1 DEF Main
  <2>3. Read' = Len(transcript)
    BY <1>0, <2>1, AskedType DEF Read
  <2>4. RunInv' /\ AloneInv'
    BY <2>1, <2>2 DEF CauseInv, RunInv, AloneInv
  <2>5. ReadInv'
    BY <2>1, <2>2, <2>3 DEF CauseInv, RunInv, ReadInv, Relies, Early
  <2>6. EarlyInv' /\ ResultHasCause'
    BY <2>2 DEF EarlyInv, ResultHasCause
  <2>7. QED
    BY <2>4, <2>5, <2>6 DEF CauseInv
<1>3. QED
  BY <1>1, <1>2

LEMMA CauseJoins ==
  ASSUME TypeInv, CauseInv, Joins
  PROVE  CauseInv'
<1> USE DEF agent, progress, poller
<1>0. /\ ExecutionTypeOK /\ Len(transcript) \in Nat /\ main.at = "join" /\ poll = "off" /\ Bad' = Bad
      /\ UNCHANGED <<transcript, run, probe, latest, poll, result, odd>>
      /\ main.why # "background" /\ main.saw \in {"ok", "error", "rejected"} /\ main.why \in Reason \cup {"run"}
  BY DEF TypeInv, ExecutionTypeOK, Joins, Bad, CauseInv, RunInv, Main
<1>1. CASE main.saw = "rejected"
  <2>1. main'.at = "failed" /\ main'.why = main.why
    BY <1>0, <1>1, GoesType DEF Joins, Step
  <2>2. QED
    BY <1>0, <2>1 DEF CauseInv, RunInv, AloneInv, ReadInv, Relies, EarlyInv, ResultHasCause, Early
<1>2. CASE main.saw # "rejected"
  <2>1. /\ main'.at = "end" /\ main'.why = main.why /\ main'.saw = main.saw /\ sync' = [sync EXCEPT !["main"] = Asked]
    BY <1>0, <1>2, GoesType DEF Joins, Step
  <2>2. Read' = Len(transcript)
    BY <2>1, AskedType DEF Read, TypeInv, ExecutionTypeOK, Actor
  <2>3. RunInv' /\ AloneInv'
    BY <1>0, <1>2, <2>1 DEF CauseInv, RunInv, AloneInv, Early
  <2>4. ReadInv'
    BY <1>0, <2>1, <2>2 DEF CauseInv, RunInv, ReadInv, Relies, Early
  <2>5. EarlyInv' /\ ResultHasCause'
    BY <1>0, <2>1 DEF CauseInv, EarlyInv, ResultHasCause, Early
  <2>6. QED
    BY <2>3, <2>4, <2>5 DEF CauseInv
<1>3. QED
  BY <1>1, <1>2

\* What the executor reads when it relies on it.
LEMMA ReliableTurn ==
  ASSUME TypeInv, CauseInv, main.at \in {"judge", "extract"}, Relies, "deaf" \notin odd
  PROVE  extracted = latest /\ lastTurn(extracted) \in Turn \ Bad
<1>1. Read = latest
  BY DEF TypeInv, StepInv, Read
<1>2. Clean(transcript, Bad, latest) /\ latest \in 0..Len(transcript)
  BY <1>1, ReadType DEF CauseInv, ReadInv
<1>3. Assistant(latest) # {} /\ lastTurn(latest) \in Turn \ Bad
  BY <1>2, LastTurnClean
<1>4. QED
  BY <1>3 DEF extracted

LEMMA CauseJudge ==
  ASSUME TypeInv, CauseInv, Judge
  PROVE  CauseInv'
<1> USE DEF agent
<1> DEFINE turn == lastTurn(extracted)
           answered == main.saw = "ok" /\ turn \notin {"pending", "waiting", "limit"}
<1>1. /\ ExecutionTypeOK /\ main.at = "judge" /\ main.why \in Reason /\ Bad' = Bad
      /\ UNCHANGED <<transcript, run, probe, sync, poll, odd>> /\ odd \subseteq {"deaf", "crossed", "beside"}
  BY DEF TypeInv, StepInv, ExecutionTypeOK, Judge, Bad
<1>2. turn \in Turn
  <2>1. extracted \in latest..Len(transcript) /\ latest \in Nat /\ Len(transcript) \in Nat
    BY <1>1, ExtractedType DEF ExecutionTypeOK
  <2>2. QED
    BY <2>1, LastTurnType
<1>3. Relies /\ "deaf" \notin odd => turn \notin Bad
  BY <1>1, ReliableTurn
<1>4. turn \notin Bad /\ turn = "limit" => probe # <<>>
  BY DEF Bad
<1>5. turn \notin Bad => turn # "note"
  BY DEF Bad
<1> HIDE DEF turn
<1>6. CASE main.why = "background"
  <2>1. Accepts(turn)
    BY <1>6 DEF Judge, turn
  <2>2. /\ main'.why = main.why
        /\ \/ main'.at = "delay" /\ result' = result
           \/ main'.at = "done" /\ result' = turn /\ turn \notin {"pending", "waiting"}
    BY <1>1, <1>2, <2>1, AcceptsType
  <2>3. run = "ok" /\ poll = "off"
    BY <1>1, <1>6 DEF CauseInv, RunInv, AloneInv
  <2>4. RunInv' /\ AloneInv'
    BY <1>1, <1>6, <2>2, <2>3 DEF CauseInv, RunInv, AloneInv
  <2>5. ReadInv' /\ EarlyInv'
    BY <1>6, <2>2 DEF ReadInv, Relies, EarlyInv, Early
  <2>6. main'.at = "done" => turn = "final" \/ (turn = "limit" /\ probe # <<>>) \/ "deaf" \in odd
    <3>1. SUFFICES ASSUME main'.at = "done", "deaf" \notin odd
                   PROVE  turn = "final" \/ (turn = "limit" /\ probe # <<>>)
      OBVIOUS
    <3>2. turn \notin Bad /\ turn \notin {"pending", "waiting"}
      BY <1>1, <1>3, <1>6, <2>2, <3>1 DEF Relies
    <3>3. QED
      BY <1>2, <1>4, <1>5, <3>2 DEF Turn
  <2>7. ResultHasCause'
    BY <1>1, <2>2, <2>6 DEF ResultHasCause
  <2>8. QED
    BY <2>4, <2>5, <2>7 DEF CauseInv
<1>7. CASE main.why # "background" /\ answered
  <2>1. result' = turn /\ Leaves(main.why, "ok")
    BY <1>7 DEF Judge, turn
  <2>2. main'.at = "join" /\ main'.why = main.why /\ main'.saw = "ok"
    BY <1>1, <2>1, LeavesType DEF Status
  <2>3. turn = "final" \/ odd # {}
    BY <1>1, <1>2, <1>3, <1>5, <1>7 DEF Relies, Early, Turn, Reason
  <2>4. RunInv' /\ AloneInv'
    BY <1>1, <1>7, <2>2 DEF CauseInv, RunInv, AloneInv, Reason
  <2>5. ReadInv' /\ EarlyInv' /\ ResultHasCause'
    BY <1>1, <2>1, <2>2, <2>3 DEF ReadInv, Relies, EarlyInv, ResultHasCause
  <2>6. QED
    BY <2>4, <2>5 DEF CauseInv
<1>8. CASE main.why # "background" /\ ~answered
  <2>1. goes(IF main.why = "limit" THEN "quietCheck" ELSE "wait")
    BY <1>8 DEF Judge, turn
  <2>2. main'.at \in {"quietCheck", "wait"} /\ main'.why = main.why
    BY <1>1, <2>1, GoesType DEF Step
  <2>3. RunInv' /\ AloneInv'
    BY <1>1, <1>8, <2>2 DEF CauseInv, RunInv, AloneInv
  <2>4. ReadInv' /\ EarlyInv' /\ ResultHasCause'
    BY <1>8, <2>2 DEF ReadInv, Relies, EarlyInv, ResultHasCause
  <2>5. QED
    BY <2>3, <2>4 DEF CauseInv
<1>9. QED
  BY <1>6, <1>7, <1>8

LEMMA CauseExtracts ==
  ASSUME TypeInv, CauseInv, Extracts
  PROVE  CauseInv'
<1> USE DEF agent, poller
<1>1. /\ ExecutionTypeOK /\ main.at = "extract" /\ main.why \in Reason \cup {"run"} /\ main.why # "background" /\ Bad' = Bad
      /\ UNCHANGED <<transcript, run, probe, sync, poll, odd>> /\ odd \subseteq {"deaf", "crossed", "beside"}
      /\ main.saw \in {"ok", "error"} /\ poll = "off"
  BY DEF TypeInv, ExecutionTypeOK, Extracts, Bad, CauseInv, RunInv, AloneInv, Main
<1>2. CASE main.saw = "error"
  <2>1. main'.at = "failed" /\ main'.why = main.why
    BY <1>1, <1>2, GoesType DEF Extracts, Step
  <2>2. QED
    BY <1>1, <2>1 DEF CauseInv, RunInv, AloneInv, ReadInv, Relies, EarlyInv, ResultHasCause, Early
<1>3. CASE main.saw = "ok" /\ main.why # "run"
  <2>1. main'.at = "done" /\ main'.why = main.why /\ UNCHANGED result
    BY <1>1, <1>3, GoesType DEF Extracts, Step
  <2>2. Early
    BY <1>1, <1>3 DEF Early, Reason
  <2>3. ResultHasCause'
    BY <1>1, <2>1, <2>2 DEF CauseInv, EarlyInv, ResultHasCause, Early
  <2>4. QED
    BY <1>1, <2>1, <2>3 DEF CauseInv, RunInv, AloneInv, ReadInv, Relies, EarlyInv, Early
<1>4. CASE main.saw = "ok" /\ main.why = "run"
  <2> DEFINE turn == lastTurn(extracted)
  <2>1. turn \in Turn
    <3>1. extracted \in latest..Len(transcript) /\ latest \in Nat /\ Len(transcript) \in Nat
      BY <1>1, ExtractedType DEF ExecutionTypeOK
    <3>2. QED
      BY <3>1, LastTurnType
  <2>2. "deaf" \notin odd => turn \notin Bad
    BY <1>1, <1>4, ReliableTurn DEF Relies
  <2>3. turn \notin Bad => turn # "note" /\ (turn = "limit" => probe # <<>>)
    BY DEF Bad
  <2> HIDE DEF turn
  <2>4. Accepts(turn)
    BY <1>4 DEF Extracts, turn
  <2>5. /\ main'.why = main.why
        /\ \/ main'.at = "delay" /\ result' = result
           \/ main'.at = "done" /\ result' = turn /\ turn \notin {"pending", "waiting"}
    BY <1>1, <2>1, <2>4, AcceptsType
  <2>6. run = "ok"
    BY <1>1, <1>4 DEF CauseInv, RunInv
  <2>7. RunInv' /\ AloneInv'
    BY <1>1, <1>4, <2>5, <2>6 DEF CauseInv, RunInv, AloneInv
  <2>8. ReadInv' /\ EarlyInv'
    BY <1>4, <2>5 DEF ReadInv, Relies, EarlyInv, Early
  <2>9. main'.at = "done" => turn = "final" \/ (turn = "limit" /\ probe # <<>>) \/ "deaf" \in odd
    <3>1. SUFFICES ASSUME main'.at = "done", "deaf" \notin odd
                   PROVE  turn = "final" \/ (turn = "limit" /\ probe # <<>>)
      OBVIOUS
    <3>2. turn \notin Bad /\ turn \notin {"pending", "waiting"}
      BY <2>2, <2>5, <3>1
    <3>3. QED
      BY <2>1, <2>3, <3>2 DEF Turn
  <2>10. ResultHasCause'
    BY <1>1, <2>5, <2>9 DEF ResultHasCause
  <2>11. QED
    BY <2>7, <2>8, <2>10 DEF CauseInv
<1>5. QED
  BY <1>1, <1>2, <1>3, <1>4

LEMMA CauseNext == TypeInv /\ CauseInv /\ [Next]_vars => CauseInv'
<1> SUFFICES ASSUME TypeInv, CauseInv, [Next]_vars PROVE CauseInv'
  OBVIOUS
<1>1. CASE Agent
  BY <1>1, CauseAgent
<1>2. CASE \E a \in Actor : Syncing(a) \/ SyncFails(a)
  BY <1>2, CauseTakes, CauseReports DEF Syncing
<1>3. CASE Polls \/ Executor \/ Rejects
  BY <1>3, CausePolls, CauseExecutor, CauseProbes, CauseJoins, CauseJudge, CauseExtracts DEF Executor
<1>4. CASE UNCHANGED vars
  <2>1. UNCHANGED <<transcript, run, probe, sync, latest, poll, main, result, odd>>
    BY <1>4 DEF vars, agent, progress, poller
  <2>2. QED
    BY <2>1 DEF CauseInv, RunInv, AloneInv, ReadInv, EarlyInv, ResultHasCause, Relies, Early, Bad, Read
<1>5. QED
  BY <1>1, <1>2, <1>3, <1>4 DEF Next

(* The text a task gets as its result says that the work is done.  Only the named         *)
(* disturbances, an answer about a rate limit, a failed reading, a run that writes beside *)
(* the probe that ends the execution, an older reading of the poller, make it another.    *)
THEOREM ResultsHaveACause == Spec => []ResultHasCause
<1>1. TypeInv /\ CauseInv => ResultHasCause
  BY DEF CauseInv
<1>2. QED
  BY <1>1, TypeInit, TypeNext, CauseInit, CauseNext, PTL DEF Spec

-----------------------------------------------------------------------------
(* No message is skipped. *)

\* Of the messages that the readings are compared with, each was handled or is about to be.
Covered(j) == \/ j \in seen
              \/ \E a \in Actor : sync[a].at = "reporting" /\ sync[a].next <= j /\ j <= sync[a].n
\* The executor is past its last reading, and says nothing about messages it did not compare.
LastRead == \/ main.at \in {"extract", "delay", "done"}
            \/ main.at = "end" /\ sync["main"].at = "reporting"
            \/ main.why = "background" /\ main.at \in {"probe", "probeWait", "sync", "judge"}
SeenInv ==
  /\ \A j \in 1..prints : Covered(j)
  /\ main.at \in {"start", "done"} => poll = "off"
  /\ LastRead /\ "deaf" \notin odd => latest <= prints

LEMMA SeenInit == Init => SeenInv
  BY DEF Init, SeenInv, LastRead

\* A step that takes no reading covers what was covered.
LEMMA CoverKept ==
  ASSUME SeenInv, UNCHANGED prints, seen \subseteq seen',
         \A a \in Actor : sync'[a] = sync[a] \/ sync[a].at # "reporting"
  PROVE  (\A j \in 1..prints : Covered(j))'
  BY DEF SeenInv, Covered

\* The end of a synchronisation starts and ends no execution.
LEMMA AfterRuns ==
  ASSUME TypeInv, SeenInv, NEW a \in Actor, sync[a].at # "no", After(a)
  PROVE  main'.at \notin {"start", "done"}
<1>1. CASE a = "poll"
  <2>1. poll = "sync" /\ main' = main
    BY <1>1, AfterType DEF TypeInv, StepInv, Actor
  <2> QED
    BY <2>1 DEF SeenInv
<1>2. CASE a = "main"
  <2>1. main'.at \in {"extract", "judge"}
    BY <1>2, AfterType
  <2> QED
    BY <2>1
<1> QED
  BY <1>1, <1>2 DEF Actor

\* It follows a reading that was taken.
LEMMA AfterLast ==
  ASSUME TypeInv, NEW a \in Actor, sync[a].at = "reporting", After(a), LastRead'
  PROVE  LastRead
<1>1. CASE a = "poll"
  <2>1. main' = main /\ sync'["main"] = sync["main"]
    BY <1>1, AfterType DEF Actor
  <2> QED
    BY <2>1 DEF LastRead
<1>2. CASE a = "main"
  <2>1. main.at \in {"sync", "end"} /\ main'.why = main.why
        /\ main'.at = IF main.at = "end" THEN "extract" ELSE "judge"
    BY <1>2, AfterType
  <2> QED
    BY <1>2, <2>1 DEF LastRead
<1> QED
  BY <1>1, <1>2 DEF Actor

LEMMA SeenTakes ==
  ASSUME TypeInv, CauseInv, SeenInv, NEW a \in Actor, Takes(a)
  PROVE  SeenInv'
<1> USE DEF agent
<1> DEFINE old(n) == overlap(prints, n)
<1>1. PICK n \in sync[a].n..Len(transcript) :
        /\ latest' = n /\ prints' = n
        /\ IF old(n) < n
           THEN /\ sync' = [sync EXCEPT ![a] = [at |-> "reporting", n |-> n, next |-> old(n) + 1]]
                /\ UNCHANGED <<main, poll, limit, faults>>
           ELSE Ends(a, limit)
        /\ odd' = IF n < latest THEN odd \cup {"crossed"} ELSE odd
  BY DEF Takes
<1>2. /\ sync[a].at = "asked" /\ seen' = seen /\ prints \in Nat /\ n \in Nat
      /\ sync \in [Actor -> Sync]
  BY <1>1 DEF Takes, TypeInv, ExecutionTypeOK, Sync
<1>3. old(n) \in 0..prints /\ old(n) <= n
  BY <1>2, OverlapType
<1> HIDE DEF old
<1>4. \A j \in 1..n : Covered(j)'
  <2>1. ASSUME NEW j \in 1..n, j <= old(n) PROVE Covered(j)'
    <3>1. Covered(j)
      BY <1>2, <1>3, <2>1 DEF SeenInv
    <3>2. \A b \in Actor : sync[b].at = "reporting" => sync'[b] = sync[b]
      BY <1>1, <1>2 DEF Ends, After
    <3> QED
      BY <1>2, <3>1, <3>2 DEF Covered
  <2>2. ASSUME NEW j \in 1..n, ~(j <= old(n)) PROVE Covered(j)'
    <3>1. sync'[a] = [at |-> "reporting", n |-> n, next |-> old(n) + 1]
      BY <1>1, <1>2, <1>3, <2>2
    <3>2. old(n) + 1 <= j
      BY <1>2, <1>3, <2>2
    <3> QED
      BY <3>1, <3>2 DEF Covered
  <2> QED
    BY <2>1, <2>2
<1>5. main'.at \in {"start", "done"} => poll' = "off"
  <2>1. CASE UNCHANGED <<main, poll>>
    BY <2>1 DEF SeenInv
  <2>2. CASE After(a)
    BY <1>2, <2>2, AfterRuns
  <2> QED
    BY <1>1, <2>1, <2>2 DEF Ends
<1> QED
  BY <1>1, <1>2, <1>4, <1>5 DEF SeenInv

LEMMA SeenReports ==
  ASSUME TypeInv, SeenInv, NEW a \in Actor, Reports(a)
  PROVE  SeenInv'
<1> USE DEF agent
<1>1. /\ sync[a].at = "reporting" /\ sync[a].next \in Nat /\ sync[a].n \in Nat
      /\ seen' = seen \cup {sync[a].next} /\ UNCHANGED <<latest, prints, odd>>
      /\ sync \in [Actor -> Sync] /\ prints \in Nat
  BY DEF Reports, TypeInv, ExecutionTypeOK, Sync
<1>2. CASE sync[a].next < sync[a].n
  <2>1. sync' = [sync EXCEPT ![a].next = sync[a].next + 1] /\ UNCHANGED <<main, poll>>
    BY <1>2 DEF Reports
  <2>2. /\ sync'[a].at = "reporting" /\ sync'[a].next = sync[a].next + 1 /\ sync'[a].n = sync[a].n
        /\ \A b \in Actor : b # a => sync'[b] = sync[b]
    BY <1>1, <2>1 DEF Sync
  <2>3. ASSUME NEW j \in 1..prints PROVE Covered(j)'
    <3>1. Covered(j) /\ j \in Nat
      BY <1>1, <2>3 DEF SeenInv
    <3>2. CASE sync[a].next <= j /\ j <= sync[a].n
      <4>1. j = sync[a].next \/ sync[a].next + 1 <= j
        BY <1>1, <3>1, <3>2
      <4> QED
        BY <1>1, <2>2, <3>2, <4>1 DEF Covered
    <3>3. CASE ~(sync[a].next <= j /\ j <= sync[a].n)
      BY <1>1, <2>2, <3>1, <3>3 DEF Covered
    <3> QED
      BY <3>2, <3>3
  <2>5. LastRead' => LastRead
    <3>1. sync["main"].at = sync'["main"].at
      BY <1>1, <2>2 DEF Actor
    <3> QED
      BY <2>1, <3>1 DEF LastRead
  <2> QED
    BY <1>1, <2>1, <2>3, <2>5 DEF SeenInv
<1>3. CASE ~(sync[a].next < sync[a].n)
  <2>1. After(a)
    BY <1>3 DEF Reports, Ends
  <2>2. sync' = [sync EXCEPT ![a] = NoSync]
    BY <2>1 DEF After
  <2>3. ASSUME NEW j \in 1..prints PROVE Covered(j)'
    <3>1. Covered(j) /\ j \in Nat
      BY <1>1, <2>3 DEF SeenInv
    <3>2. CASE sync[a].next <= j /\ j <= sync[a].n
      <4>1. j = sync[a].next
        BY <1>1, <1>3, <3>1, <3>2
      <4> QED
        BY <1>1, <4>1 DEF Covered
    <3>3. CASE ~(sync[a].next <= j /\ j <= sync[a].n)
      BY <1>1, <2>2, <3>1, <3>3 DEF Covered
    <3> QED
      BY <3>2, <3>3
  <2>4. main'.at \notin {"start", "done"}
    BY <1>1, <2>1, AfterRuns
  <2>5. LastRead' => LastRead
    BY <1>1, <2>1, AfterLast
  <2> QED
    BY <1>1, <2>3, <2>4, <2>5 DEF SeenInv
<1> QED
  BY <1>2, <1>3

LEMMA SeenFails ==
  ASSUME TypeInv, SeenInv, NEW a \in Actor, SyncFails(a)
  PROVE  SeenInv'
<1>1. sync[a].at = "asked" /\ After(a) /\ UNCHANGED <<seen, latest, prints>> /\ sync \in [Actor -> Sync]
  BY DEF SyncFails, TypeInv, ExecutionTypeOK
<1>2. (\A j \in 1..prints : Covered(j))'
  <2>1. \A b \in Actor : sync'[b] = sync[b] \/ sync[b].at # "reporting"
    BY <1>1 DEF After
  <2> QED
    BY <1>1, <2>1, CoverKept
<1>3. main'.at \notin {"start", "done"}
  BY <1>1, AfterRuns
<1>4. LastRead' /\ "deaf" \notin odd' => LastRead /\ "deaf" \notin odd
  <2>1. CASE a = "main"
    BY <2>1 DEF SyncFails
  <2>2. CASE a = "poll"
    <3>1. main' = main /\ sync'["main"] = sync["main"] /\ odd' = odd
      BY <1>1, <2>2, AfterType DEF SyncFails, Actor
    <3> QED
      BY <3>1 DEF LastRead
  <2> QED
    BY <2>1, <2>2 DEF Actor
<1> QED
  BY <1>1, <1>2, <1>3, <1>4 DEF SeenInv

\* The other steps take and report no reading.
LEMMA SeenOthers ==
  ASSUME SeenInv, UNCHANGED <<seen, prints, odd>>,
         \A a \in Actor : sync'[a] = sync[a] \/ sync[a].at # "reporting",
         main'.at \in {"start", "done"} => poll' = "off",
         LastRead' /\ "deaf" \notin odd => latest' = latest /\ LastRead
  PROVE  SeenInv'
<1>1. (\A j \in 1..prints : Covered(j))'
  BY CoverKept
<1> QED
  BY <1>1 DEF SeenInv

LEMMA SeenAgent ==
  ASSUME SeenInv, Agent \/ UNCHANGED vars
  PROVE  SeenInv'
<1>1. /\ UNCHANGED <<seen, prints, latest, sync, main, poll>>
      /\ odd \subseteq odd'
  BY DEF Agent, RunWrites, RunEnds, ProbeEnds, vars, progress, poller, agent
<1>2. LastRead' => LastRead
  BY <1>1 DEF LastRead
<1> QED
  BY <1>1, <1>2 DEF SeenInv, Covered

LEMMA SeenPolls ==
  ASSUME TypeInv, SeenInv, Polls
  PROVE  SeenInv'
<1>1. poll = "delay" /\ UNCHANGED <<seen, prints, latest, odd, main>> /\ sync \in [Actor -> Sync]
  BY DEF Polls, TypeInv, ExecutionTypeOK
<1>2. sync["poll"].at = "no" /\ sync'["main"] = sync["main"]
      /\ \A a \in Actor : sync'[a] = sync[a] \/ a = "poll"
  BY <1>1 DEF Polls, TypeInv, StepInv, Actor
<1>3. LastRead' => LastRead
  BY <1>1, <1>2 DEF LastRead
<1>4. main'.at \notin {"start", "done"}
  BY <1>1 DEF SeenInv
<1> QED
  BY <1>1, <1>2, <1>3, <1>4, SeenOthers

\* Steps that move the executor alone.
LEMMA SeenMoves ==
  ASSUME SeenInv, UNCHANGED <<seen, prints, odd, sync, latest, poll>>,
         main'.at \notin {"start", "extract", "delay", "done", "end"},
         main'.why = "background" =>
           \/ main'.at \notin {"probe", "probeWait", "sync", "judge"}
           \/ LastRead
  PROVE  SeenInv'
<1>1. LastRead' => LastRead
  BY DEF LastRead
<1> QED
  BY <1>1, SeenOthers

LEMMA SeenExecutor ==
  ASSUME TypeInv, CauseInv, SeenInv,
         \/ StartRun \/ LimitProbe \/ QuietProbe \/ Waits \/ WaitEnds \/ WaitTimesOut
         \/ ProbeStarts \/ DelayEnds \/ Rejects
  PROVE  SeenInv'
<1> USE DEF agent, progress, poller
<1>0. /\ ExecutionTypeOK /\ main \in Main /\ sync \in [Actor -> Sync]
      /\ main.at \in {"start", "loop", "quietCheck", "wait"} => main.why # "background"
      /\ main.at = "start" => poll = "off"
  BY DEF TypeInv, ExecutionTypeOK, CauseInv, RunInv, SeenInv
<1>1. CASE StartRun
  <2>1. main'.at \in {"loop", "failed"} /\ UNCHANGED <<seen, prints, latest, odd>>
    BY <1>0, <1>1, GoesType DEF StartRun, Step
  <2>2. main'.why = main.why /\ main.why # "background"
    BY <1>0, <1>1, GoesType DEF StartRun, Step
  <2>3. sync["poll"].at = "no" /\ \A a \in Actor : sync'[a] = sync[a] \/ a = "poll"
    BY <1>0, <1>1 DEF StartRun, TypeInv, StepInv, Actor
  <2>4. ~LastRead'
    BY <2>1, <2>2 DEF LastRead
  <2> QED
    BY <2>1, <2>3, <2>4, SeenOthers
<1>2. CASE LimitProbe \/ QuietProbe
  <2>1. main'.at = "probe" /\ main'.why # "background" /\ UNCHANGED <<seen, prints, odd, sync, latest, poll>>
    BY <1>2 DEF LimitProbe, QuietProbe, Probes
  <2> QED
    BY <2>1, SeenMoves
<1>3. CASE Waits \/ WaitTimesOut
  <2>1. main'.at \in {"wait", "loop"} /\ UNCHANGED <<seen, prints, odd, sync, latest, poll>>
    BY <1>0, <1>3, GoesType DEF Waits, WaitTimesOut, Step
  <2> QED
    BY <2>1, SeenMoves
<1>4. CASE WaitEnds
  <2>1. main'.at \in {"loop", "join"} /\ UNCHANGED <<seen, prints, odd, sync, latest, poll>>
    BY <1>0, <1>4, GoesType DEF WaitEnds, Leaves, Step
  <2> QED
    BY <2>1, SeenMoves
<1>5. CASE Rejects
  <2>1. main'.at \in {"failed", "join"} /\ UNCHANGED <<seen, prints, odd, sync, latest, poll>>
    BY <1>0, <1>5, GoesType DEF Rejects, Leaves, Step
  <2> QED
    BY <2>1, SeenMoves
<1>6. CASE ProbeStarts
  <2>1. main.at = "probe" /\ main'.at = "probeWait" /\ main'.why = main.why
        /\ UNCHANGED <<seen, prints, odd, sync, latest, poll>>
    BY <1>0, <1>6, GoesType DEF ProbeStarts, Step
  <2> QED
    BY <2>1, SeenMoves DEF LastRead
<1>7. CASE DelayEnds
  <2>1. main.at = "delay" /\ main'.at = "probe" /\ UNCHANGED <<seen, prints, odd, sync, latest, poll>>
    BY <1>7 DEF DelayEnds, Probes
  <2> QED
    BY <2>1, SeenMoves DEF LastRead
<1> QED
  BY <1>1, <1>2, <1>3, <1>4, <1>5, <1>6, <1>7

\* The executor asks for a reading.
LEMMA SeenAsks ==
  ASSUME TypeInv, SeenInv, ProbeOver \/ Joins
  PROVE  SeenInv'
<1> USE DEF agent, progress, poller
<1>0. /\ ExecutionTypeOK /\ main \in Main /\ sync \in [Actor -> Sync] /\ sync["main"].at = "no"
      /\ UNCHANGED <<seen, prints, odd, latest, poll>>
  BY DEF TypeInv, StepInv, ExecutionTypeOK, ProbeOver, Joins
<1>1. \A a \in Actor : sync'[a] = sync[a] \/ sync[a].at # "reporting"
  BY <1>0 DEF ProbeOver, Joins, Actor
<1>2. CASE ProbeOver
  <2>1. main.at = "probeWait" /\ main'.at = "sync" /\ main'.why = main.why
    BY <1>0, <1>2 DEF ProbeOver, Main
  <2> QED
    BY <1>0, <1>1, <2>1, SeenOthers DEF LastRead
<1>3. CASE Joins
  <2>1. main'.at = "failed" \/ (main'.at = "end" /\ sync'["main"] = Asked)
    BY <1>0, <1>3, GoesType DEF Joins, Step, Actor
  <2>2. main.at = "join" /\ main'.at \in {"failed", "end"}
    BY <1>3, <2>1 DEF Joins
  <2>3. ~LastRead'
    BY <2>1 DEF LastRead, Asked
  <2> QED
    BY <1>0, <1>1, <2>2, <2>3, SeenOthers
<1> QED
  BY <1>2, <1>3

LEMMA SeenJudge ==
  ASSUME TypeInv, CauseInv, SeenInv, Judge
  PROVE  SeenInv'
<1> USE DEF agent
<1> DEFINE turn == lastTurn(extracted)
<1>0. /\ ExecutionTypeOK /\ main \in Main /\ main.at = "judge" /\ main.why \in Reason
      /\ UNCHANGED <<seen, prints, sync, poll, odd>>
  BY DEF TypeInv, StepInv, ExecutionTypeOK, Judge
<1>1. turn \in Turn
  <2>1. extracted \in latest..Len(transcript) /\ latest \in Nat /\ Len(transcript) \in Nat
    BY ExtractedType DEF TypeInv, ExecutionTypeOK
  <2> QED
    BY <2>1, LastTurnType
<1> HIDE DEF turn
<1>2. CASE main.why = "background"
  <2>1. Accepts(turn) /\ latest' = extracted
    BY <1>2 DEF Judge, turn
  <2>2. main'.at \in {"delay", "done"}
    BY <1>0, <1>1, <2>1, AcceptsType
  <2>3. poll = "off" /\ LastRead
    BY <1>0, <1>2 DEF CauseInv, AloneInv, LastRead
  <2>4. "deaf" \notin odd => latest' = latest
    BY <1>0, <1>2, <2>1, ReliableTurn DEF Relies
  <2> QED
    BY <1>0, <2>2, <2>3, <2>4, SeenOthers
<1>3. CASE main.why # "background"
  <2>1. \/ main'.at = "join"
        \/ main'.at \in {"quietCheck", "wait"}
    BY <1>0, <1>3, GoesType DEF Judge, Leaves, Step
  <2>2. ~LastRead'
    BY <2>1 DEF LastRead
  <2> QED
    BY <1>0, <2>1, <2>2, SeenOthers
<1> QED
  BY <1>2, <1>3

LEMMA SeenExtracts ==
  ASSUME TypeInv, CauseInv, SeenInv, Extracts
  PROVE  SeenInv'
<1> USE DEF agent, poller
<1>0. /\ ExecutionTypeOK /\ main \in Main /\ main.at = "extract" /\ poll = "off" /\ LastRead
      /\ UNCHANGED <<seen, prints, sync, poll, odd>> /\ main.saw \in {"ok", "error"}
  BY DEF TypeInv, ExecutionTypeOK, Extracts, CauseInv, AloneInv, RunInv, LastRead
<1>1. "deaf" \notin odd => latest' = latest
  <2>1. CASE main.saw = "ok" /\ main.why = "run"
    <3>1. latest' = extracted
      BY <2>1 DEF Extracts
    <3> QED
      BY <1>0, <2>1, <3>1, ReliableTurn DEF Relies
  <2>2. CASE ~(main.saw = "ok" /\ main.why = "run")
    BY <1>0, <2>2 DEF Extracts
  <2> QED
    BY <2>1, <2>2
<1> QED
  BY <1>0, <1>1, SeenOthers

LEMMA SeenNext == TypeInv /\ CauseInv /\ SeenInv /\ [Next]_vars => SeenInv'
<1> SUFFICES ASSUME TypeInv, CauseInv, SeenInv, [Next]_vars PROVE SeenInv'
  OBVIOUS
<1>1. CASE Agent \/ UNCHANGED vars
  BY <1>1, SeenAgent
<1>2. CASE \E a \in Actor : Syncing(a) \/ SyncFails(a)
  BY <1>2, SeenTakes, SeenReports, SeenFails DEF Syncing
<1>3. CASE Polls \/ Executor \/ Rejects
  BY <1>3, SeenPolls, SeenExecutor, SeenAsks, SeenJudge, SeenExtracts DEF Executor
<1> QED
  BY <1>1, <1>2, <1>3 DEF Next

(* When an execution is done, each message of the session that the executor has read was *)
(* handled, whichever activity read it first and however their readings crossed, unless   *)
(* a reading of the executor failed.                                                      *)
THEOREM NoMessageIsSkipped == Spec => []NothingSkipped
<1>1. TypeInv /\ SeenInv => NothingSkipped
  <2> SUFFICES ASSUME TypeInv, SeenInv, main.at = "done", "deaf" \notin odd
               PROVE  1..latest \subseteq seen
    BY DEF NothingSkipped
  <2>1. poll = "off" /\ latest <= prints /\ latest \in Nat /\ prints \in Nat
    BY DEF SeenInv, LastRead, TypeInv, ExecutionTypeOK
  <2>2. \A a \in Actor : sync[a].at # "reporting"
    BY <2>1 DEF TypeInv, StepInv, Actor
  <2>3. \A j \in 1..prints : j \in seen
    BY <2>2 DEF SeenInv, Covered
  <2> QED
    BY <2>1, <2>3
<1> QED
  BY <1>1, TypeInit, TypeNext, CauseInit, CauseNext, SeenInit, SeenNext, PTL DEF Spec

=============================================================================
