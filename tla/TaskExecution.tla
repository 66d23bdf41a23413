----------------------------- MODULE TaskExecution -----------------------------
(***************************************************************************)
(* One execution of a task by a worker: createRoleTaskExecutor starts a    *)
(* run of the agent, waits for it, and returns the text that the task      *)
(* gets as its result.                                                     *)
(*                                                                         *)
(* Two activities share the progress of the session: a poller reads the    *)
(* transcript every second, and the executor waits for the run, asks the   *)
(* agent again ("probes") when the model is rate limited, when nothing     *)
(* moves, or when background work is left, and reads the transcript after  *)
(* every probe and at the end.  A reply may be older than what the other   *)
(* activity has read meanwhile.                                            *)
(*                                                                         *)
(* Abstractions.  A message is its kind, and messages of one kind read the *)
(* same.  Time is whether a limit has passed.  The transcript is shorter   *)
(* than the 200 messages that are read.  The rate limits of child sessions *)
(* are found, or not, at the end of a synchronisation.  The second reading *)
(* of a transcript without a turn is one step.  Which text is a result     *)
(* contract, a request for an approval or a plain result is left out.      *)
(***************************************************************************)
EXTENDS Integers, Sequences, FiniteSets

CONSTANTS
  MaxNotes,   \* bound: messages of the run before its last
  MaxProbes,  \* bound: probes in a behaviour
  MaxFaults   \* bound: rejected requests and limited children in a behaviour

ASSUME ExecutionAssumption == {MaxNotes, MaxProbes, MaxFaults} \subseteq Nat

VARIABLES
  transcript, \* the session of the agent
  run,        \* the run of the task
  probe,      \* the runs of the probes
  main,       \* the executor
  polling,    \* keepPolling
  poll,       \* pollSessionProgress
  sync,       \* syncSessionProgress, as both call it
  latest,     \* progressSnapshot.latestMessages: how many
  prints,     \* progressSnapshot.fingerprints: how many
  limit,      \* rateLimitState.active
  result,     \* the text that is returned
  notes, faults,
  seen,       \* history: the messages whose entries were handled
  odd         \* history: what disturbed the readings of the executor

agent == <<transcript, run, probe, notes>>
progress == <<sync, latest, prints, seen>>
poller == <<poll, polling>>
vars == <<agent, progress, poller, limit, main, result, faults, odd>>

\* note: a turn of the run on its way.  limit: a text about a rate limit.  pending: a turn
\* that leaves background work.  waiting: TEAMCLAW_STILL_WAITING.  ask, askLimit: the user
\* messages of the probes, the last of which speaks of a rate limit itself.
Turn == {"note", "limit", "pending", "waiting", "final"}
Message == Turn \cup {"ask", "askLimit"}
Reason == {"limit", "quiet", "background"}
Status == {"going", "ok", "error", "limited"}
Actor == {"main", "poll"}

\* end: the last synchronisation.  saw: the status that waitForRun gave.
Step == {"start", "loop", "quietCheck", "wait", "probe", "probeWait", "sync", "judge",
         "join", "end", "extract", "delay", "done", "failed"}
Main == [at : Step, why : Reason \cup {"run"}, saw : Status \cup {"rejected"}]
Sync == [at : {"no", "asked", "reporting"}, n : Nat, next : Nat \ {0}]
NoSync == [at |-> "no", n |-> 0, next |-> 1]
Asked == [at |-> "asked", n |-> Len(transcript), next |-> 1]

(* Every variable holds what the code can store in it. *)
ExecutionTypeOK ==
  /\ transcript \in Seq(Message)
  /\ run \in {"none"} \cup Status
  /\ probe \in Seq(Status) /\ Len(probe) <= MaxProbes
  /\ main \in Main
  /\ polling \in BOOLEAN
  /\ poll \in {"off", "sync", "delay"}
  /\ sync \in [Actor -> Sync]
  /\ {latest, prints} \subseteq 0..Len(transcript)
  /\ limit \in BOOLEAN
  /\ result \in {"none"} \cup Turn
  /\ notes \in 0..MaxNotes /\ faults \in 0..MaxFaults
  /\ seen \subseteq 1..Len(transcript)
  /\ odd \subseteq {"deaf", "crossed", "beside"}

Init ==
  /\ transcript = <<>> /\ run = "none" /\ probe = <<>> /\ notes = 0
  /\ main = [at |-> "start", why |-> "run", saw |-> "going"]
  /\ polling = FALSE /\ poll = "off"
  /\ sync = [a \in Actor |-> NoSync]
  /\ latest = 0 /\ prints = 0 /\ seen = {}
  /\ limit = FALSE
  /\ result = "none" /\ faults = 0 /\ odd = {}

Fault == faults < MaxFaults /\ faults' = faults + 1

-----------------------------------------------------------------------------
(* The agent.  What it does after the execution is over concerns nobody here. *)

Over == main.at \in {"done", "failed"}

RunWrites ==
  /\ ~Over /\ run = "going" /\ notes < MaxNotes /\ notes' = notes + 1
  /\ \E m \in {"note", "limit"} : transcript' = Append(transcript, m)
  /\ odd' = IF main.at \in {"probeWait", "sync", "judge"} THEN odd \cup {"beside"} ELSE odd
  /\ UNCHANGED <<run, probe, progress, poller, limit, main, result, faults>>

RunEnds ==
  /\ ~Over /\ run = "going"
  /\ \/ /\ run' = "ok"
        /\ \E m \in {"final", "pending"} : transcript' = Append(transcript, m)
     \/ run' \in {"error", "limited"} /\ UNCHANGED transcript
  /\ UNCHANGED <<probe, notes, progress, poller, limit, main, result, faults, odd>>

\* A probe may answer after the executor has stopped waiting for it.  One that fails for
\* another reason than a limit is like one that never answers.
ProbeEnds(i) ==
  /\ ~Over /\ probe[i] = "going"
  /\ \/ /\ probe' = [probe EXCEPT ![i] = "ok"]
        /\ \E m \in {"final", "waiting", "limit"} : transcript' = Append(transcript, m)
     \/ /\ probe' = [probe EXCEPT ![i] = "limited"]
        /\ UNCHANGED transcript
  /\ UNCHANGED <<run, notes, progress, poller, limit, main, result, faults, odd>>

-----------------------------------------------------------------------------
(* syncSessionProgress(), called by both activities. *)

\* getNewSessionProgressEntries: the longest end of the p messages read before that the c
\* messages read now begin with.
overlap(p, c) ==
  LET fits(k) == \A i \in 1..k : transcript[p - k + i] = transcript[i] IN
  CHOOSE k \in 0..p : /\ k <= c /\ fits(k)
                      /\ \A j \in 0..p : j <= c /\ fits(j) => j <= k

After(a) ==   \* syncSessionProgress() has returned, or thrown
  /\ sync' = [sync EXCEPT ![a] = NoSync]
  /\ IF a = "poll"
     THEN poll' = (IF polling THEN "delay" ELSE "off") /\ UNCHANGED main
     ELSE /\ main' = [main EXCEPT !.at = IF @ = "end" THEN "extract" ELSE "judge"]
          /\ UNCHANGED poll

\* The entries are handled; then the child sessions are read, one of which may be limited.
Ends(a, heard) ==
  /\ After(a)
  /\ \/ limit' = heard /\ UNCHANGED faults
     \/ limit' = TRUE /\ Fault

\* The reply tells what the transcript was at some time since it was asked for.
Takes(a) ==
  /\ sync[a].at = "asked"
  /\ \E n \in sync[a].n..Len(transcript) :
       LET old == overlap(prints, n) IN
       /\ latest' = n /\ prints' = n
       /\ IF old < n
          THEN /\ sync' = [sync EXCEPT ![a] = [at |-> "reporting", n |-> n, next |-> old + 1]]
               /\ UNCHANGED <<main, poll, limit, faults>>
          ELSE Ends(a, limit)
       /\ odd' = IF n < latest THEN odd \cup {"crossed"} ELSE odd
  /\ UNCHANGED <<agent, seen, polling, result>>

\* Mutant: a text about a rate limit ends the loop over the entries.
ReportsUntilLimit(a) ==
  LET i == sync[a].next  m == transcript[i] IN
  /\ sync[a].at = "reporting"
  /\ seen' = seen \cup {i}
  /\ IF i < sync[a].n /\ m # "limit"
     THEN /\ sync' = [sync EXCEPT ![a].next = i + 1]
          /\ limit' = (limit /\ m \in {"waiting", "ask"})
          /\ UNCHANGED <<main, poll, faults>>
     ELSE Ends(a, m = "limit")
  /\ UNCHANGED <<agent, latest, prints, polling, result, odd>>

\* One entry; the report of it is awaited.
Reports(a) ==
  LET i == sync[a].next  m == transcript[i]
      heard == IF m \in {"limit", "askLimit"} THEN TRUE
               ELSE limit /\ m \in {"waiting", "ask"} IN
  /\ sync[a].at = "reporting"
  /\ seen' = seen \cup {i}
  /\ IF i < sync[a].n
     THEN sync' = [sync EXCEPT ![a].next = i + 1] /\ limit' = heard /\ UNCHANGED <<main, poll, faults>>
     ELSE Ends(a, heard)
  /\ UNCHANGED <<agent, latest, prints, polling, result, odd>>

SyncFails(a) ==
  /\ sync[a].at = "asked"
  /\ Fault /\ After(a)
  /\ odd' = IF a = "main" THEN odd \cup {"deaf"} ELSE odd
  /\ UNCHANGED <<agent, latest, prints, seen, polling, limit, result>>

Polls ==
  /\ poll = "delay"
  /\ IF polling THEN poll' = "sync" /\ sync' = [sync EXCEPT !["poll"] = Asked]
     ELSE poll' = "off" /\ UNCHANGED sync
  /\ UNCHANGED <<agent, latest, prints, seen, polling, limit, main, result, faults, odd>>

-----------------------------------------------------------------------------
(* The executor. *)

goes(s) == main' = [main EXCEPT !.at = s]
Leaves(why, saw) ==   \* the loop, for the finally that waits for the poller
  main' = [at |-> "join", why |-> why, saw |-> saw] /\ polling' = FALSE

StartRun ==
  /\ main.at = "start"
  /\ \/ /\ run' = "going" /\ goes("loop")
        /\ polling' = TRUE /\ poll' = "sync" /\ sync' = [sync EXCEPT !["poll"] = Asked]
        /\ UNCHANGED faults
     \/ /\ Fault /\ goes("failed")
        /\ UNCHANGED <<run, poller, sync>>
  /\ UNCHANGED <<transcript, probe, notes, latest, prints, seen, limit, result, odd>>

Probes(why) ==
  Len(probe) < MaxProbes /\ main' = [at |-> "probe", why |-> why, saw |-> "going"]

\* The head of the loop.  Whether five minutes of a limit, or taskTimeoutMs without a new
\* message, have passed is arbitrary.
LimitProbe ==
  /\ main.at = "loop" /\ limit /\ Probes("limit")
  /\ UNCHANGED <<agent, progress, poller, limit, result, faults, odd>>

QuietProbe ==
  /\ main.at \in {"loop", "quietCheck"} /\ ~limit /\ Probes("quiet")
  /\ UNCHANGED <<agent, progress, poller, limit, result, faults, odd>>

Waits ==
  /\ main.at \in {"loop", "quietCheck"} /\ goes("wait")
  /\ UNCHANGED <<agent, progress, poller, limit, result, faults, odd>>

\* Mutant: every failure of the run is taken for a limit, and none is noted.
WaitEndsNever ==
  /\ main.at = "wait" /\ run # "going"
  /\ IF run # "ok" THEN goes("loop") /\ UNCHANGED polling ELSE Leaves("run", run)
  /\ UNCHANGED <<agent, progress, poll, limit, result, faults, odd>>

WaitEnds ==
  /\ main.at = "wait" /\ run # "going"
  /\ IF run = "limited" THEN limit' = TRUE /\ goes("loop") /\ UNCHANGED polling
     ELSE Leaves("run", run) /\ UNCHANGED limit
  /\ UNCHANGED <<agent, progress, poll, result, faults, odd>>

WaitTimesOut ==
  /\ main.at = "wait" /\ run = "going" /\ goes("loop")
  /\ UNCHANGED <<agent, progress, poller, limit, result, faults, odd>>

Rejects ==   \* a rejected run() or waitForRun() ends the execution
  /\ main.at \in {"wait", "probe", "probeWait"} /\ Fault
  /\ IF main.why = "background" THEN goes("failed") /\ UNCHANGED polling
     ELSE Leaves("run", "rejected")
  /\ UNCHANGED <<agent, progress, poll, limit, result, odd>>

ProbeStarts ==
  /\ main.at = "probe"
  /\ probe' = Append(probe, "going") /\ goes("probeWait")
  /\ transcript' = Append(transcript, IF main.why = "limit" THEN "askLimit" ELSE "ask")
  /\ UNCHANGED <<run, notes, progress, poller, limit, result, faults, odd>>

\* waitForRun of the probe answers, also when its minute has passed.
ProbeOver ==
  /\ main.at = "probeWait"
  /\ main' = [main EXCEPT !.at = "sync", !.saw = probe[Len(probe)]]
  /\ sync' = [sync EXCEPT !["main"] = Asked]
  /\ UNCHANGED <<agent, latest, prints, seen, poller, limit, result, faults, odd>>

Assistant(n) == {i \in 1..n : transcript[i] \in Turn}
\* Mutant: the last message, whoever wrote it.
lastMessage(n) == IF n = 0 THEN "waiting" ELSE transcript[n]

lastTurn(n) == IF Assistant(n) = {} THEN "waiting"
               ELSE transcript[CHOOSE i \in Assistant(n) : \A j \in Assistant(n) : j <= i]

\* extractSessionAssistantTurn reads once more when there is no turn yet.
extracted == IF Assistant(latest) = {} THEN Len(transcript) ELSE latest

Returns(text) == result' = text /\ goes("done")
Rests == goes("delay") /\ UNCHANGED result
Accepts(text) == IF text \in {"pending", "waiting"} THEN Rests ELSE Returns(text)

Judge ==
  LET turn == lastTurn(extracted)
      answered == main.saw = "ok" /\ turn \notin {"pending", "waiting", "limit"}
      limited == main.saw = "limited" /\ main.why # "limit" IN
  /\ main.at = "judge"
  /\ latest' = IF main.saw = "ok" \/ main.why = "background" THEN extracted ELSE latest
  /\ CASE main.why = "background" -> /\ Accepts(turn)
                                     /\ UNCHANGED polling
       [] main.why # "background" /\ answered -> /\ result' = turn
                                                 /\ Leaves(main.why, "ok")
       [] OTHER -> /\ goes(IF main.why = "limit" THEN "quietCheck" ELSE "wait")
                   /\ UNCHANGED <<polling, result>>
  /\ limit' = (limited \/ (limit /\ ~(answered /\ main.why # "background")))
  /\ UNCHANGED <<agent, sync, prints, seen, poll, faults, odd>>

\* Mutant: the poller is not awaited.
JoinsAtOnce ==
  /\ main.at = "join"
  /\ IF main.saw = "rejected" THEN goes("failed") /\ UNCHANGED sync
     ELSE goes("end") /\ sync' = [sync EXCEPT !["main"] = Asked]
  /\ UNCHANGED <<agent, latest, prints, seen, poller, limit, result, faults, odd>>

\* The poller has ended; a rejection goes on, and everything else is read once more.
Joins ==
  /\ main.at = "join" /\ poll = "off"
  /\ IF main.saw = "rejected" THEN goes("failed") /\ UNCHANGED sync
     ELSE goes("end") /\ sync' = [sync EXCEPT !["main"] = Asked]
  /\ UNCHANGED <<agent, latest, prints, seen, poller, limit, result, faults, odd>>

Extracts ==
  /\ main.at = "extract"
  /\ CASE main.saw = "error" -> goes("failed") /\ UNCHANGED <<latest, result>>
       [] main.saw = "ok" /\ main.why # "run" -> goes("done") /\ UNCHANGED <<latest, result>>
       [] OTHER -> latest' = extracted /\ Accepts(lastTurn(extracted))
  /\ UNCHANGED <<agent, sync, prints, seen, poller, limit, faults, odd>>

DelayEnds ==
  /\ main.at = "delay" /\ Probes("background")
  /\ UNCHANGED <<agent, progress, poller, limit, result, faults, odd>>

-----------------------------------------------------------------------------
Agent == RunWrites \/ RunEnds \/ \E i \in DOMAIN probe : ProbeEnds(i)
Syncing(a) == Takes(a) \/ Reports(a)
Executor == StartRun \/ LimitProbe \/ QuietProbe \/ Waits \/ WaitEnds \/ WaitTimesOut \/ ProbeStarts \/ ProbeOver
            \/ Judge \/ Joins \/ Extracts \/ DelayEnds

Next ==
  \/ Agent
  \/ \E a \in Actor : Syncing(a) \/ SyncFails(a)
  \/ Polls \/ Executor \/ Rejects

Spec == Init /\ [][Next]_vars

\* Requests are answered, delays and the limits of time end, and so does the run.
FairSpec ==
  /\ Spec
  /\ WF_vars(Executor) /\ WF_vars(Polls) /\ SF_vars(LimitProbe) /\ WF_vars(RunEnds)
  /\ \A a \in Actor : WF_vars(Syncing(a))

-----------------------------------------------------------------------------
Early == main.why \in {"limit", "quiet"}   \* a probe ended the execution, not the run

(* The text that a task gets as its result is an answer that says the work is done.  It is *)
(* another text only if a probe was answered with one about a rate limit, if the           *)
(* executor could not read the session, or if a probe ended the execution while the run    *)
(* was writing beside it, or while the poller stored an older reading.                     *)
ResultHasCause ==
  main.at = "done" =>
    \/ result = "final"
    \/ result = "limit" /\ probe # <<>>
    \/ "deaf" \in odd
    \/ Early /\ {"crossed", "beside"} \cap odd # {}

(* Every message of the session was handled, and reported as progress unless it belongs to *)
(* the wait for the model, however the readings of both activities cross.                  *)
NothingSkipped == main.at = "done" /\ "deaf" \notin odd => 1..latest \subseteq seen

(* Every execution ends when its run does; only what needs another probe than a behaviour  *)
(* has may still be waiting for it.                                                        *)
ExecutionEnds ==
  <>(Over \/ (Len(probe) = MaxProbes /\ (main.at = "delay" \/ run = "limited")))
=============================================================================
