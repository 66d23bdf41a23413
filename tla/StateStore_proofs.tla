-------------------------- MODULE StateStore_proofs --------------------------
(***************************************************************************)
(* What the store guarantees for any number of updates, saves and starts.  *)
(* The inductive invariant has two parts.  Chain: the pending writes form  *)
(* one queue in the order of their numbers, and only its head is under     *)
(* way.  Content: snapshots grow along the queue, from the file to memory. *)
(***************************************************************************)
EXTENDS StateStore, TLAPS

USE StoreAssumption DEF StoreAssumption

\* The write numbered n is among the unsettled writes ws.
Pending(ws, n) == \E v \in ws : v.n = n

Chain ==
  /\ tail # 0 => Pending(writes, tail)
  /\ \A w \in writes : w.n <= tail /\ w.n <= enqueued
  /\ \A v, w \in writes : v.n = w.n => v = w
  /\ \A v, w \in writes : v.n < w.n => Pending(writes, w.prev) /\ v.n <= w.prev
  /\ \A w \in writes : w.prev < w.n
  /\ \A v, w \in writes : w.phase # "queued" => w.n <= v.n

Content ==
  /\ disk \ lost \subseteq mem \/ up = "down"
  /\ \A c \in calls : c.asked \subseteq mem
  /\ \A w \in writes : /\ w.asked \subseteq w.data
                       /\ w.data \subseteq mem
                       /\ disk \ lost \subseteq w.data
                       /\ w.phase = "renamed" => w.data = disk
  /\ \A v, w \in writes : v.n < w.n => v.data \subseteq w.data
  /\ promised \subseteq disk
  /\ promised \cap lost = {} /\ mem \cap lost = {}
  /\ mem \cup disk \cup lost \subseteq made

\* What a start awaits is the only save there is, and nothing is when the process
\* is down.
Phases ==
  /\ up = "down" => calls = {} /\ writes = {} /\ mem = {} /\ tail = 0
  /\ up = "starting" => /\ \A c, d \in calls : c = d
                        /\ \A v, w \in writes : v = w
                        /\ calls = {} \/ writes = {}
  /\ up = "up" => (\A c \in calls : c.by # None) /\ (\A w \in writes : w.by # None)

IInv == StoreTypeOK /\ Chain /\ Content /\ Phases

-----------------------------------------------------------------------------
(* Type correctness. *)

LEMMA InitInv == Init => IInv
<1> SUFFICES ASSUME Init PROVE IInv
  OBVIOUS
<1>1. StoreTypeOK
  <2>1. starts \in 0..MaxStarts
    BY DEF Init
  <2>2. exists \in BOOLEAN
    BY DEF Init
  <2> QED
    BY <2>1, <2>2 DEF Init, StoreTypeOK, State
<1>2. Chain
  BY DEF Init, Chain
<1>3. Content
  BY DEF Init, Content
<1>4. Phases
  BY DEF Init, Phases
<1> QED
  BY <1>1, <1>2, <1>3, <1>4 DEF IInv

\* The writes of a settled queue are some of those before.
LEMMA SettleType ==
  ASSUME StoreTypeOK, NEW w \in writes, settle(w)
  PROVE  writes' \subseteq WriteRec /\ tail' \in Nat /\ enqueued' \in Nat
  BY DEF settle, StoreTypeOK

\* A write that moves on is still a write.
LEMMA MoveType ==
  ASSUME StoreTypeOK, NEW w \in writes, NEW p \in {"queued", "writing", "renamed"}, Move(w, p)
  PROVE  writes' \subseteq WriteRec
  BY DEF Move, StoreTypeOK, WriteRec

LEMMA NextType == StoreTypeOK /\ [Next]_vars => StoreTypeOK'
<1> SUFFICES ASSUME StoreTypeOK, [Next]_vars PROVE StoreTypeOK'
  OBVIOUS
<1> USE DEF store
<1>1. CASE StartRestored
  BY <1>1 DEF StartRestored, StoreTypeOK, State
<1>2. CASE StartFresh
  BY <1>2 DEF StartFresh, StoreTypeOK, State, CallRec
<1>3. ASSUME NEW u \in Update, StartRepaired(u) PROVE StoreTypeOK'
  BY <1>3 DEF StartRepaired, StoreTypeOK, State, CallRec
<1>4. ASSUME NEW u \in Update, UpdateState(u) PROVE StoreTypeOK'
  BY <1>4 DEF UpdateState, StoreTypeOK, State, CallRec
<1>5. CASE Crash
  BY <1>5 DEF Crash, StoreTypeOK, State
<1>6. ASSUME NEW c \in calls, EnqueueWrite(c) PROVE StoreTypeOK'
  BY <1>6 DEF EnqueueWrite, StoreTypeOK, State, CallRec, WriteRec
<1>7. ASSUME NEW c \in calls, MkdirFails(c) PROVE StoreTypeOK'
  BY <1>7 DEF MkdirFails, RejectSave, StoreTypeOK, State, CallRec
<1>8. ASSUME NEW w \in writes, BeginWrite(w) PROVE StoreTypeOK'
  BY <1>8, MoveType DEF BeginWrite, StoreTypeOK
<1>9. ASSUME NEW w \in writes, Rename(w) PROVE StoreTypeOK'
  <2>1. writes' \subseteq WriteRec
    BY <1>9, MoveType DEF Rename
  <2>2. w.data \in State
    BY DEF StoreTypeOK, WriteRec
  <2> QED
    BY <1>9, <2>1, <2>2 DEF Rename, StoreTypeOK
<1>10. ASSUME NEW w \in writes, FulfilSave(w) PROVE StoreTypeOK'
  <2>1. w.asked \in State
    BY DEF StoreTypeOK, WriteRec
  <2> QED
    BY <1>10, <2>1, SettleType DEF FulfilSave, StoreTypeOK, State
<1>11. ASSUME NEW w \in writes, WriteFails(w) PROVE StoreTypeOK'
  <2>1. w.by \in Update \cup {None}
    BY DEF StoreTypeOK, WriteRec
  <2> QED
    BY <1>11, <2>1, SettleType DEF WriteFails, RejectSave, StoreTypeOK, State
<1>12. CASE UNCHANGED vars
  BY <1>12 DEF vars, StoreTypeOK
<1> QED
  BY <1>1, <1>2, <1>3, <1>4, <1>5, <1>6, <1>7, <1>8, <1>9, <1>10, <1>11, <1>12 DEF Next

\* Type correctness of the store.
THEOREM StoreTypeCorrect == Spec => []StoreTypeOK
<1>1. Init => StoreTypeOK
  BY InitInv DEF IInv
<1> QED
  BY <1>1, NextType, PTL DEF Spec

-----------------------------------------------------------------------------
(* The queue. *)

\* Numbers of pending writes are positive integers.
LEMMA Numbers ==
  ASSUME StoreTypeOK
  PROVE  /\ \A w \in writes : w.n \in Nat /\ w.n # 0 /\ w.prev \in Nat
         /\ tail \in Nat /\ enqueued \in Nat
<1>1. ASSUME NEW w \in writes PROVE w.n \in Nat /\ w.n # 0 /\ w.prev \in Nat
  <2>1. w \in WriteRec
    BY DEF StoreTypeOK
  <2> QED
    BY <2>1 DEF WriteRec
<1> QED
  BY <1>1 DEF StoreTypeOK

\* A write whose predecessor settled is the first of the queue.
LEMMA HeadBegins ==
  ASSUME StoreTypeOK, Chain, NEW w \in writes, ~Pending(writes, w.prev)
  PROVE  \A v \in writes : w.n <= v.n
<1>1. ASSUME NEW v \in writes, v.n < w.n PROVE FALSE
  BY <1>1 DEF Chain
<1> QED
  BY <1>1, Numbers

\* Appending a write keeps the queue in order.
LEMMA EnqueueChain ==
  ASSUME StoreTypeOK, Chain, NEW x, x.n = enqueued + 1, x.prev = tail, x.phase = "queued",
         writes' = writes \cup {x}, tail' = enqueued + 1, enqueued' = enqueued + 1
  PROVE  Chain'
<1> USE Numbers
<1>1. \A v \in writes : v.n < x.n /\ v.n <= enqueued' /\ v.n <= tail'
  BY DEF Chain
<1>2. tail <= enqueued
  BY DEF Chain, Pending
<1>3. ASSUME NEW n, Pending(writes, n) PROVE Pending(writes', n)
  BY <1>3 DEF Pending
<1>4. Pending(writes', tail')
  BY DEF Pending
<1>5. \A v \in writes : Pending(writes', x.prev) /\ v.n <= x.prev
  <2> SUFFICES ASSUME NEW v \in writes PROVE Pending(writes', x.prev) /\ v.n <= x.prev
    OBVIOUS
  <2>1. v.n <= tail /\ tail # 0
    BY DEF Chain
  <2> QED
    BY <2>1, <1>3 DEF Chain
<1>6. \A v, w \in writes' : v.n = w.n => v = w
  BY <1>1 DEF Chain
<1>7. \A v, w \in writes' : v.n < w.n => Pending(writes', w.prev) /\ v.n <= w.prev
  <2> SUFFICES ASSUME NEW v \in writes', NEW w \in writes', v.n < w.n
               PROVE  Pending(writes', w.prev) /\ v.n <= w.prev
    OBVIOUS
  <2>1. CASE w = x
    BY <2>1, <1>5
  <2>2. CASE w # x
    <3>1. w \in writes
      BY <2>2
    <3>2. v \in writes
      BY <3>1, <1>1
    <3>3. Pending(writes, w.prev) /\ v.n <= w.prev
      BY <3>1, <3>2 DEF Chain
    <3> QED
      BY <3>3, <1>3
  <2> QED
    BY <2>1, <2>2
<1>8. \A w \in writes' : w.prev < w.n /\ w.n <= tail' /\ w.n <= enqueued'
  BY <1>1, <1>2 DEF Chain
<1>9. \A v, w \in writes' : w.phase # "queued" => w.n <= v.n
  BY <1>1 DEF Chain
<1> QED
  BY <1>4, <1>6, <1>7, <1>8, <1>9 DEF Chain

\* Settling the head keeps the queue in order, and the entry of the queue names
\* its last write again.
LEMMA SettleChain ==
  ASSUME StoreTypeOK, Chain, NEW w \in writes, w.phase # "queued", settle(w)
  PROVE  Chain'
<1> USE Numbers
<1>1. writes' = writes \ {w} /\ tail' = (IF tail = w.n THEN 0 ELSE tail) /\ enqueued' = enqueued
  BY DEF settle
<1>2. \A v \in writes' : w.n < v.n
  BY <1>1 DEF Chain
<1>3. ASSUME NEW n, Pending(writes, n), n # w.n PROVE Pending(writes', n)
  BY <1>1, <1>3 DEF Pending
<1>4. tail' # 0 => Pending(writes', tail')
  BY <1>1, <1>3 DEF Chain
<1>5. \A v \in writes' : v.n <= tail' /\ v.n <= enqueued'
  <2>1. \A v \in writes' : v.n <= tail /\ v.n <= enqueued /\ w.n < v.n
    BY <1>1, <1>2 DEF Chain
  <2> QED
    BY <1>1, <2>1
<1>6. \A u, v \in writes' : u.n < v.n => Pending(writes', v.prev) /\ u.n <= v.prev
  <2> SUFFICES ASSUME NEW u \in writes', NEW v \in writes', u.n < v.n
               PROVE  Pending(writes', v.prev) /\ u.n <= v.prev
    OBVIOUS
  <2>1. Pending(writes, v.prev) /\ u.n <= v.prev
    BY <1>1 DEF Chain
  <2>2. v.prev # w.n
    BY <2>1, <1>1, <1>2
  <2> QED
    BY <2>1, <2>2, <1>3
<1> QED
  BY <1>1, <1>4, <1>5, <1>6 DEF Chain

\* Moving the head on keeps the queue in order.
LEMMA MoveChain ==
  ASSUME StoreTypeOK, Chain, NEW w \in writes, NEW p, Move(w, p),
         \A v \in writes : w.n <= v.n, tail' = tail, enqueued' = enqueued
  PROVE  Chain'
<1> USE Numbers
<1> DEFINE x == [w EXCEPT !.phase = p]
<1>1. x.n = w.n /\ x.prev = w.prev /\ x.phase = p
  BY DEF StoreTypeOK, WriteRec
<1>2. writes' = (writes \ {w}) \cup {x}
  BY DEF Move
<1> HIDE DEF x
<1>3. ASSUME NEW v \in writes'
      PROVE  \E u \in writes : /\ u.n = v.n /\ u.prev = v.prev
                               /\ v # x => u = v
                               /\ v = x => u = w
  BY <1>1, <1>2
<1>4. ASSUME NEW n, Pending(writes, n) PROVE Pending(writes', n)
  BY <1>1, <1>2, <1>4 DEF Pending
<1>5. tail' # 0 => Pending(writes', tail')
  BY <1>4 DEF Chain
<1>6. \A v \in writes' : v.n <= tail' /\ v.n <= enqueued' /\ v.prev < v.n
  BY <1>3 DEF Chain
<1>7. \A u, v \in writes' : u.n = v.n => u = v
  BY <1>1, <1>2 DEF Chain
<1>8. \A u, v \in writes' : u.n < v.n => Pending(writes', v.prev) /\ u.n <= v.prev
  <2> SUFFICES ASSUME NEW u \in writes', NEW v \in writes', u.n < v.n
               PROVE  Pending(writes', v.prev) /\ u.n <= v.prev
    OBVIOUS
  <2>1. PICK u0 \in writes : u0.n = u.n
    BY <1>3
  <2>2. PICK v0 \in writes : v0.n = v.n /\ v0.prev = v.prev
    BY <1>3
  <2> QED
    BY <2>1, <2>2, <1>4 DEF Chain
<1>9. \A u, v \in writes' : v.phase # "queued" => v.n <= u.n
  <2> SUFFICES ASSUME NEW u \in writes', NEW v \in writes', v.phase # "queued"
               PROVE  v.n <= u.n
    OBVIOUS
  <2>1. PICK u0 \in writes : u0.n = u.n
    BY <1>3
  <2>2. CASE v = x
    BY <2>1, <2>2, <1>1
  <2>3. CASE v # x
    BY <2>1, <2>3, <1>2 DEF Chain
  <2> QED
    BY <2>2, <2>3
<1> QED
  BY <1>5, <1>6, <1>7, <1>8, <1>9 DEF Chain

-----------------------------------------------------------------------------
(* The contents. *)

\* A write that begins changes no content.
LEMMA MoveContent ==
  ASSUME StoreTypeOK, Content, NEW w \in writes, Move(w, "writing"),
         UNCHANGED <<up, mem, made, calls, disk, promised, lost>>
  PROVE  Content'
<1> DEFINE x == [w EXCEPT !.phase = "writing"]
<1>1. /\ x.n = w.n /\ x.asked = w.asked /\ x.data = w.data /\ x.phase = "writing"
      /\ writes' = (writes \ {w}) \cup {x}
  BY DEF StoreTypeOK, WriteRec, Move
<1> HIDE DEF x
<1>2. \A v \in writes' : \E u \in writes : /\ u.n = v.n /\ u.asked = v.asked /\ u.data = v.data
                                           /\ v.phase = "renamed" => u = v
  BY <1>1
<1>3. \A v \in writes' : /\ v.asked \subseteq v.data
                         /\ v.data \subseteq mem
                         /\ disk \ lost \subseteq v.data
                         /\ v.phase = "renamed" => v.data = disk
  BY <1>2 DEF Content
<1>4. \A u, v \in writes' : u.n < v.n => u.data \subseteq v.data
  <2> SUFFICES ASSUME NEW u \in writes', NEW v \in writes', u.n < v.n
               PROVE  u.data \subseteq v.data
    OBVIOUS
  <2>1. PICK u0 \in writes : u0.n = u.n /\ u0.data = u.data
    BY <1>2
  <2>2. PICK v0 \in writes : v0.n = v.n /\ v0.data = v.data
    BY <1>2
  <2> QED
    BY <2>1, <2>2 DEF Content
<1> QED
  BY <1>3, <1>4 DEF Content

\* The head of the queue brings a state between the file and the snapshots behind it.
LEMMA RenameContent ==
  ASSUME StoreTypeOK, Chain, Content, Phases, NEW w \in writes, Move(w, "renamed"),
         \A v \in writes : w.n <= v.n, w.phase # "queued",
         disk' = w.data, UNCHANGED <<up, mem, made, calls, promised, lost>>
  PROVE  Content'
<1> DEFINE x == [w EXCEPT !.phase = "renamed"]
<1>1. /\ x.n = w.n /\ x.asked = w.asked /\ x.data = w.data /\ x.phase = "renamed"
      /\ writes' = (writes \ {w}) \cup {x}
  BY DEF StoreTypeOK, WriteRec, Move
<1> HIDE DEF x
<1>2. \A v \in writes' : \E u \in writes : /\ u.n = v.n /\ u.asked = v.asked /\ u.data = v.data
                                           /\ v # x => u = v
  BY <1>1
<1>3. \A v \in writes : w.data \subseteq v.data
  <2> SUFFICES ASSUME NEW v \in writes, v # w PROVE w.data \subseteq v.data
    OBVIOUS
  <2>1. w.n < v.n
    BY Numbers DEF Chain
  <2> QED
    BY <2>1 DEF Content
<1>4. ASSUME NEW v \in writes', v.phase = "renamed" PROVE v.data = w.data
  <2>1. CASE v = x
    BY <2>1, <1>1
  <2>2. CASE v # x
    <3>1. v \in writes /\ v.phase # "queued"
      BY <2>2, <1>1, <1>4
    <3>2. v.n = w.n
      BY <3>1, Numbers DEF Chain
    <3> QED
      BY <3>1, <3>2 DEF Chain
  <2> QED
    BY <2>1, <2>2
<1>5. \A v \in writes' : /\ v.asked \subseteq v.data
                         /\ v.data \subseteq mem
                         /\ w.data \subseteq v.data
  BY <1>2, <1>3 DEF Content
<1>6. \A u, v \in writes' : u.n < v.n => u.data \subseteq v.data
  <2> SUFFICES ASSUME NEW u \in writes', NEW v \in writes', u.n < v.n
               PROVE  u.data \subseteq v.data
    OBVIOUS
  <2>1. PICK u0 \in writes : u0.n = u.n /\ u0.data = u.data
    BY <1>2
  <2>2. PICK v0 \in writes : v0.n = v.n /\ v0.data = v.data
    BY <1>2
  <2> QED
    BY <2>1, <2>2 DEF Content
<1>7. /\ w.data \subseteq mem /\ promised \subseteq w.data /\ mem \subseteq made
      /\ lost \subseteq made
  BY DEF Content
<1> QED
  BY <1>4, <1>5, <1>6, <1>7 DEF Content

\* Moving a write on keeps who asked for it.
LEMMA MovePhases ==
  ASSUME StoreTypeOK, Phases, NEW w \in writes, NEW p, Move(w, p),
         UNCHANGED <<up, mem, calls, tail>>
  PROVE  Phases'
<1> DEFINE x == [w EXCEPT !.phase = p]
<1>1. x.by = w.by /\ writes' = (writes \ {w}) \cup {x}
  BY DEF StoreTypeOK, WriteRec, Move
<1> HIDE DEF x
<1>2. up # "down"
  BY DEF Phases
<1> QED
  BY <1>1, <1>2 DEF Phases

-----------------------------------------------------------------------------
(* The steps. *)

LEMMA NextInv == IInv /\ [Next]_vars => IInv'
<1> SUFFICES ASSUME IInv, [Next]_vars PROVE IInv'
  OBVIOUS
<1> USE DEF store
<1>0. StoreTypeOK /\ Chain /\ Content /\ Phases /\ StoreTypeOK'
  BY NextType DEF IInv
<1> SUFFICES Chain' /\ Content' /\ Phases'
  BY <1>0 DEF IInv
<1>1. CASE StartRestored
  <2>1. calls' = {} /\ writes' = {} /\ tail' = 0
    BY <1>0, <1>1 DEF StartRestored, Phases
  <2>2. mem' = disk /\ disk' = disk /\ lost' = {} /\ promised' = promised /\ made' = made
    BY <1>1 DEF StartRestored
  <2>3. Content'
    BY <1>0, <2>1, <2>2 DEF Content
  <2> QED
    BY <1>1, <2>1, <2>3 DEF StartRestored, Chain, Phases
<1>2. CASE StartFresh
  <2>1. /\ calls' = {[by |-> None, asked |-> {}]} /\ writes' = {} /\ tail' = 0
        /\ \A c \in calls' : c.asked = {}
    BY <1>0, <1>2 DEF StartFresh, Phases
  <2>2. Content'
    BY <1>0, <1>2, <2>1 DEF StartFresh, Content
  <2> QED
    BY <1>2, <2>1, <2>2 DEF StartFresh, Chain, Phases
<1>3. ASSUME NEW u \in Update, StartRepaired(u) PROVE Chain' /\ Content' /\ Phases'
  <2>1. /\ calls' = {[by |-> None, asked |-> disk \cup {u}]} /\ writes' = {} /\ tail' = 0
        /\ \A c \in calls' : c.asked = disk \cup {u}
    BY <1>0, <1>3 DEF StartRepaired, Phases
  <2>2. /\ mem' = disk \cup {u} /\ made' = made \cup {u} /\ lost' = {}
        /\ disk' = disk /\ promised' = promised
    BY <1>3 DEF StartRepaired
  <2>3. Content'
    BY <1>0, <2>1, <2>2 DEF Content
  <2> QED
    BY <1>3, <2>1, <2>3 DEF StartRepaired, Chain, Phases
<1>4. ASSUME NEW u \in Update, UpdateState(u) PROVE Chain' /\ Content' /\ Phases'
  <2>1. Chain'
    BY <1>0, <1>4 DEF UpdateState, Chain
  <2>2. /\ mem' = mem \cup {u} /\ made' = made \cup {u} /\ u \notin made
        /\ calls' = calls \cup {[by |-> u, asked |-> mem \cup {u}]}
        /\ UNCHANGED <<up, writes, disk, promised, lost>> /\ up = "up"
    BY <1>4 DEF UpdateState
  <2>3. \A c \in calls' : c.asked \subseteq mem'
    BY <1>0, <2>2 DEF Content
  <2>4. Content'
    BY <1>0, <2>2, <2>3 DEF Content
  <2>5. Phases'
    BY <1>0, <2>2 DEF Phases
  <2> QED
    BY <2>1, <2>4, <2>5
<1>5. CASE Crash
  BY <1>0, <1>5 DEF Crash, Chain, Content, Phases
<1>6. ASSUME NEW c \in calls, EnqueueWrite(c) PROVE Chain' /\ Content' /\ Phases'
  <2> DEFINE x == [n |-> enqueued + 1, by |-> c.by, asked |-> c.asked, data |-> mem,
                   prev |-> tail, phase |-> "queued"]
  <2>1. /\ writes' = writes \cup {x} /\ tail' = enqueued + 1 /\ enqueued' = enqueued + 1
        /\ calls' = calls \ {c} /\ UNCHANGED <<up, mem, made, disk, promised, lost>>
    BY <1>6 DEF EnqueueWrite
  <2>2. /\ x.n = enqueued + 1 /\ x.prev = tail /\ x.phase = "queued" /\ x.by = c.by
        /\ x.data = mem /\ x.asked = c.asked
    OBVIOUS
  <2> HIDE DEF x
  <2>3. Chain'
    BY <1>0, <2>1, <2>2, EnqueueChain
  <2>4. up # "down"
    BY <1>0 DEF Phases
  <2>5. \A v \in writes : v.n < x.n
    BY <1>0, <2>2, Numbers DEF Chain
  <2>6. \A v, w \in writes' : v.n < w.n => v.data \subseteq w.data
    <3> SUFFICES ASSUME NEW v \in writes', NEW w \in writes', v.n < w.n
                 PROVE  v.data \subseteq w.data
      OBVIOUS
    <3>1. CASE w = x
      BY <1>0, <2>1, <2>2, <3>1 DEF Content
    <3>2. CASE w # x
      <4>1. w \in writes /\ v \in writes
        BY <1>0, <2>1, <2>2, <2>5, <3>2, Numbers
      <4> QED
        BY <1>0, <4>1 DEF Content
    <3> QED
      BY <3>1, <3>2
  <2>7. Content'
    BY <1>0, <2>1, <2>2, <2>4, <2>6 DEF Content
  <2>8. Phases'
    <3>1. up = "starting" => writes = {} /\ calls' = {}
      BY <1>0, <2>1 DEF Phases
    <3> QED
      BY <1>0, <2>1, <2>2, <2>4, <3>1 DEF Phases
  <2> QED
    BY <2>3, <2>7, <2>8
<1>7. ASSUME NEW c \in calls, MkdirFails(c) PROVE Chain' /\ Content' /\ Phases'
  <2>1. Chain'
    BY <1>0, <1>7 DEF MkdirFails, Chain
  <2>2. /\ calls' = calls \ {c} /\ UNCHANGED <<writes, tail, disk, promised, lost, made>>
        /\ up' = (IF c.by = None THEN "down" ELSE up)
        /\ mem' = (IF c.by = None THEN {} ELSE mem)
    BY <1>7 DEF MkdirFails, RejectSave
  <2>3. c.by = None => calls' = {} /\ writes' = {}
    BY <1>0, <2>2 DEF Phases, StoreTypeOK
  <2>4. writes = {} => tail = 0
    BY <1>0 DEF Chain, Pending
  <2>5. Content'
    BY <1>0, <2>2, <2>3 DEF Content
  <2>6. Phases'
    BY <1>0, <2>2, <2>3, <2>4 DEF Phases
  <2> QED
    BY <2>1, <2>5, <2>6
<1>8. ASSUME NEW w \in writes, BeginWrite(w) PROVE Chain' /\ Content' /\ Phases'
  <2>1. \A v \in writes : w.n <= v.n
    BY <1>0, <1>8, HeadBegins DEF BeginWrite, Pending
  <2>2. Chain'
    BY <1>0, <1>8, <2>1, MoveChain DEF BeginWrite
  <2>3. Content'
    BY <1>0, <1>8, MoveContent DEF BeginWrite
  <2>4. Phases'
    BY <1>0, <1>8, MovePhases DEF BeginWrite
  <2> QED
    BY <2>2, <2>3, <2>4
<1>9. ASSUME NEW w \in writes, Rename(w) PROVE Chain' /\ Content' /\ Phases'
  <2>1. \A v \in writes : w.n <= v.n
    BY <1>0, <1>9 DEF Rename, Chain
  <2>2. Chain'
    BY <1>0, <1>9, <2>1, MoveChain DEF Rename
  <2>3. Content'
    BY <1>0, <1>9, <2>1, RenameContent DEF Rename
  <2>4. Phases'
    BY <1>0, <1>9, MovePhases DEF Rename
  <2> QED
    BY <2>2, <2>3, <2>4
<1>10. ASSUME NEW w \in writes, FulfilSave(w) PROVE Chain' /\ Content' /\ Phases'
  <2>1. Chain'
    BY <1>0, <1>10, SettleChain DEF FulfilSave
  <2>2. /\ writes' = writes \ {w} /\ promised' = promised \cup w.asked
        /\ UNCHANGED <<mem, made, calls, disk, lost>>
        /\ up' = IF w.by = None THEN "up" ELSE up
    BY <1>10 DEF FulfilSave, settle
  <2>3. w.asked \subseteq disk /\ w.asked \subseteq mem
    BY <1>0, <1>10 DEF FulfilSave, Content
  <2>4. up # "down"
    BY <1>0 DEF Phases
  <2>5. Content'
    BY <1>0, <2>2, <2>3, <2>4 DEF Content
  <2>6. w.by = None => calls' = {} /\ writes' = {}
    BY <1>0, <2>2, <2>4 DEF Phases, StoreTypeOK
  <2>7. Phases'
    BY <1>0, <2>2, <2>4, <2>6 DEF Phases
  <2> QED
    BY <2>1, <2>5, <2>7
<1>11. ASSUME NEW w \in writes, WriteFails(w) PROVE Chain' /\ Content' /\ Phases'
  <2>1. Chain'
    BY <1>0, <1>11, SettleChain DEF WriteFails
  <2>2. /\ writes' = writes \ {w}
        /\ UNCHANGED <<calls, disk, promised, lost, made>>
        /\ up' = (IF w.by = None THEN "down" ELSE up)
        /\ mem' = (IF w.by = None THEN {} ELSE mem)
    BY <1>11 DEF WriteFails, RejectSave, settle
  <2>3. up # "down"
    BY <1>0 DEF Phases
  <2>4. w.by = None => calls' = {} /\ writes' = {}
    BY <1>0, <2>2, <2>3 DEF Phases, StoreTypeOK
  <2>5. writes' = {} => tail' = 0
    BY <2>1 DEF Chain, Pending
  <2>6. Content'
    BY <1>0, <2>2, <2>3, <2>4 DEF Content
  <2>7. Phases'
    BY <1>0, <2>2, <2>3, <2>4, <2>5 DEF Phases
  <2> QED
    BY <2>1, <2>6, <2>7
<1>12. CASE UNCHANGED vars
  BY <1>0, <1>12 DEF vars, Chain, Content, Phases
<1> QED
  BY <1>1, <1>2, <1>3, <1>4, <1>5, <1>6, <1>7, <1>8, <1>9, <1>10, <1>11, <1>12 DEF Next

\* Every update that a completed save was asked to store is in the file.
THEOREM CompletedSavesStayStored == Spec => []CompletedSavesAreStored
<1>1. IInv => CompletedSavesAreStored
  BY DEF IInv, Content, CompletedSavesAreStored
<1> QED
  BY <1>1, InitInv, NextInv, PTL DEF Spec

-----------------------------------------------------------------------------
(* The store implements the register. *)

LEMMA StepRefines == IInv /\ [Next]_vars => [Register!RegisterNext]_(Register!registerVars)
<1> SUFFICES ASSUME IInv, [Next]_vars
             PROVE  Register!RegisterNext \/ UNCHANGED <<mem, disk, promised, lost>>
  BY DEF Register!registerVars
<1>0. Content /\ Phases /\ Chain /\ StoreTypeOK
  BY DEF IInv
<1>1. CASE StartRestored
  <2>1. Register!Restore
    BY <1>1 DEF StartRestored, Register!Restore
  <2> QED
    BY <2>1 DEF Register!RegisterNext
<1>2. CASE StartFresh
  <2>1. Register!Forget
    BY <1>2 DEF StartFresh, Register!Forget
  <2> QED
    BY <2>1 DEF Register!RegisterNext
<1>3. ASSUME NEW u \in Update, StartRepaired(u) PROVE Register!RegisterNext
  <2>1. Register!Restore
    BY <1>3 DEF StartRepaired, Register!Restore
  <2> QED
    BY <2>1 DEF Register!RegisterNext
<1>4. ASSUME NEW u \in Update, UpdateState(u) PROVE Register!RegisterNext
  <2>1. Register!Change(u)
    BY <1>4 DEF UpdateState, Register!Change
  <2> QED
    BY <2>1 DEF Register!RegisterNext
<1>5. CASE Crash
  <2>1. Register!Stop
    BY <1>5 DEF Crash, Register!Stop
  <2> QED
    BY <2>1 DEF Register!RegisterNext
<1>6. ASSUME NEW c \in calls, EnqueueWrite(c) PROVE UNCHANGED <<mem, disk, promised, lost>>
  BY <1>6 DEF EnqueueWrite
<1>7. ASSUME NEW x, RejectSave(x)
      PROVE  Register!RegisterNext \/ UNCHANGED <<mem, disk, promised, lost>>
  <2>1. Register!Stop \/ UNCHANGED <<mem, disk, promised, lost>>
    BY <1>7 DEF RejectSave, Register!Stop
  <2> QED
    BY <2>1 DEF Register!RegisterNext
<1>8. ASSUME NEW w \in writes, BeginWrite(w) PROVE UNCHANGED <<mem, disk, promised, lost>>
  BY <1>8 DEF BeginWrite
<1>9. ASSUME NEW w \in writes, Rename(w) PROVE Register!RegisterNext
  <2>1. Register!Persist
    BY <1>0, <1>9 DEF Rename, Register!Persist, Content
  <2> QED
    BY <2>1 DEF Register!RegisterNext
<1>10. ASSUME NEW w \in writes, FulfilSave(w) PROVE Register!RegisterNext
  <2>1. w.asked \subseteq disk /\ promised \subseteq disk
    BY <1>0, <1>10 DEF FulfilSave, Content
  <2>2. Register!Promise
    BY <1>10, <2>1 DEF FulfilSave, Register!Promise
  <2> QED
    BY <2>2 DEF Register!RegisterNext
<1>11. CASE UNCHANGED vars
  BY <1>11 DEF vars
<1> QED
  BY <1>1, <1>2, <1>3, <1>4, <1>5, <1>6, <1>7, <1>8, <1>9, <1>10, <1>11
     DEF Next, MkdirFails, WriteFails

\* The queue of writes, the awaits and the restarts together behave as a register
\* that never takes back what it stored.
THEOREM StoreImplementsRegister == Spec => ImplementsRegister
<1>1. Init => Register!RegisterInit
  BY DEF Init, Register!RegisterInit
<1> QED
  BY <1>1, InitInv, NextInv, StepRefines, PTL
     DEF Spec, ImplementsRegister, Register!RegisterSpec
=============================================================================
