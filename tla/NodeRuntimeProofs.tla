-------------------------- MODULE NodeRuntimeProofs --------------------------
(***************************************************************************)
(* Proofs about the threads of a node, for any number of workers, clients, *)
(* tasks and timers.                                                       *)
(*                                                                         *)
(* The pool first, with any callers: every task runs at most once and none *)
(* is lost, no wakeup is lost, Stop drains the queue, and the pool takes   *)
(* only steps of a TaskExecutor.  The inductive invariant PoolInv adds to  *)
(* these where threads can be: a worker is gone only after stop_ and with  *)
(* the queue empty, a notifying worker is inside a task, and Stop returns  *)
(* only when all are gone.                                                 *)
(*                                                                         *)
(* Then the timers, again with any callers, and last the node: each of its *)
(* steps is a step of the pool and of the scheduler or changes nothing of  *)
(* them (ComponentSteps), so both invariants hold in it.                   *)
(*                                                                         *)
(* At the end what RaftNode makes of the scheduler (NodeTimers): a node    *)
(* can always cancel what it has armed, never loses the timer its role     *)
(* needs, and arms nothing after Stop has cancelled.  The operators that   *)
(* arm and cancel work on a record of gen, timer and pending, so the       *)
(* lemmas do too: WF says which records are well formed, and each lemma    *)
(* says what an operator does to a well-formed record.  That a number      *)
(* nothing refers to can always be found is a fact about Number: three     *)
(* timers and a callback refer to three numbers at most.                   *)
(***************************************************************************)
EXTENDS NodeRuntime, NodeTimers, TLAPS

\* Where the threads of the pool can be.
Places ==
  /\ stop <=> stopping # "no"
  /\ \A w \in Worker : worker[w] = "gone" => stop /\ queue = <<>>
  /\ \A w \in Worker : worker[w] = "running" <=> hold[w] # None
  /\ \A w \in Worker : w \in notifying => worker[w] = "running"
  /\ stopping = "returned" => \A w \in Worker : worker[w] = "gone"

\* The inductive invariant.
PoolInv == TypeOK /\ Places /\ ExactlyOnce /\ NoLostWakeup /\ DrainedByStop

\* Appending a new task: it is queued after the others, once.
LEMMA AppendQueue ==
  ASSUME NEW S, NEW q \in Seq(S), NEW t \in S, NEW r, r = Append(q, t)
  PROVE  /\ r \in Seq(S) /\ r # <<>>
         /\ {r[i] : i \in DOMAIN r} = {q[i] : i \in DOMAIN q} \cup {t}
         /\ t \notin {q[i] : i \in DOMAIN q} /\ (\A i, j \in DOMAIN q : q[i] = q[j] => i = j)
            => \A i, j \in DOMAIN r : r[i] = r[j] => i = j
<1>1. /\ r \in Seq(S) /\ Len(r) = Len(q) + 1 /\ r[Len(q) + 1] = t
      /\ \A i \in 1 .. Len(q) : r[i] = q[i]
      /\ DOMAIN q = 1 .. Len(q) /\ DOMAIN r = 1 .. Len(r) /\ Len(q) \in Nat
  OBVIOUS
<1>2. \A i \in DOMAIN r : i \in DOMAIN q \/ i = Len(q) + 1
  BY <1>1
<1>3. {r[i] : i \in DOMAIN r} = {q[i] : i \in DOMAIN q} \cup {t}
  BY <1>1, <1>2
<1>4. t \notin {q[i] : i \in DOMAIN q} /\ (\A i, j \in DOMAIN q : q[i] = q[j] => i = j)
      => \A i, j \in DOMAIN r : r[i] = r[j] => i = j
  BY <1>1, <1>2
<1> QED BY <1>1, <1>3, <1>4

\* Taking the head: it leaves the queue, the rest stays.
LEMMA TailQueue ==
  ASSUME NEW S, NEW q \in Seq(S), q # <<>>,
         \A i, j \in DOMAIN q : q[i] = q[j] => i = j
  PROVE  /\ Tail(q) \in Seq(S) /\ Head(q) \in S
         /\ {Tail(q)[i] : i \in DOMAIN Tail(q)} = {q[i] : i \in DOMAIN q} \ {Head(q)}
         /\ Head(q) \in {q[i] : i \in DOMAIN q}
         /\ \A i, j \in DOMAIN Tail(q) : Tail(q)[i] = Tail(q)[j] => i = j
<1> DEFINE r == Tail(q)
<1>1. /\ r \in Seq(S) /\ Len(r) = Len(q) - 1 /\ Len(q) \in Nat /\ Len(q) # 0
      /\ \A i \in 1 .. Len(r) : r[i] = q[i + 1]
      /\ DOMAIN q = 1 .. Len(q) /\ DOMAIN r = 1 .. Len(r) /\ Head(q) = q[1] /\ Head(q) \in S
  OBVIOUS
<1> HIDE DEF r
<1>2. \A i \in DOMAIN q : i # 1 => i - 1 \in DOMAIN r /\ r[i - 1] = q[i]
  BY <1>1
<1>3. \A i \in DOMAIN r : i + 1 \in DOMAIN q /\ i + 1 # 1 /\ r[i] = q[i + 1]
  BY <1>1
<1>4. 1 \in DOMAIN q
  BY <1>1
<1>5. {r[i] : i \in DOMAIN r} = {q[i] : i \in DOMAIN q} \ {Head(q)}
  <2>1. \A i \in DOMAIN r : \E j \in DOMAIN q : j # 1 /\ r[i] = q[j]
    BY <1>3
  <2>2. \A i \in DOMAIN q : i # 1 => \E j \in DOMAIN r : r[j] = q[i]
    BY <1>2
  <2>3. \A i \in DOMAIN q : i # 1 <=> q[i] # Head(q)
    BY <1>1, <1>4
  <2>4. ASSUME NEW x \in {r[i] : i \in DOMAIN r}
        PROVE  x \in {q[i] : i \in DOMAIN q} /\ x # Head(q)
    <3>1. PICK i \in DOMAIN r : x = r[i]
      OBVIOUS
    <3>2. PICK j \in DOMAIN q : j # 1 /\ r[i] = q[j]
      BY <2>1
    <3> QED BY <3>1, <3>2, <2>3
  <2>5. ASSUME NEW x \in {q[i] : i \in DOMAIN q}, x # Head(q)
        PROVE  x \in {r[i] : i \in DOMAIN r}
    <3>1. PICK i \in DOMAIN q : x = q[i]
      OBVIOUS
    <3>2. PICK j \in DOMAIN r : r[j] = q[i]
      BY <3>1, <2>2, <2>3, <2>5
    <3> QED BY <3>1, <3>2
  <2> QED BY <2>4, <2>5
<1>6. \A i, j \in DOMAIN r : r[i] = r[j] => i = j
  BY <1>1, <1>3
<1> QED BY <1>1, <1>4, <1>5, <1>6 DEF r

LEMMA PoolInit == Init => PoolInv
<1> SUFFICES ASSUME Init PROVE PoolInv
  OBVIOUS
<1>1. TypeOK
  <2>0. stop \in BOOLEAN
    BY Zenon DEF Init
  <2>1. queue \in Seq(Task) /\ stopping \in {"no", "notify", "join", "returned"}
    BY DEF Init
  <2>2. worker \in [Worker -> {"ready", "asleep", "running", "gone"}]
        /\ hold \in [Worker -> Task \cup {None}]
    BY DEF Init
  <2> QED BY <2>0, <2>1, <2>2 DEF Init, TypeOK
<1>0. Places
  BY DEF Init, Places
<1>2. Queued = {} /\ Running = {}
  BY DEF Init, Queued, Running
<1>3. ExactlyOnce
  BY <1>2 DEF Init, ExactlyOnce, Held
<1>4. NoLostWakeup /\ DrainedByStop
  BY DEF Init, NoLostWakeup, DrainedByStop, Asleep
<1> QED BY <1>0, <1>1, <1>3, <1>4 DEF PoolInv

\* Where the tasks are does not change when the queue, the tasks held, the
\* workers running and the histories do not.
LEMMA SameTasks ==
  ASSUME ExactlyOnce, queue' = queue, hold' = hold, Running' = Running,
         UNCHANGED <<accepted, dropped, done>>
  PROVE  ExactlyOnce'
BY DEF ExactlyOnce, Queued, Held

\* Threads that only wake, sleep or leave do not change who runs.
LEMMA SameRunning ==
  ASSUME TypeOK, TypeOK', \A w \in Worker : worker[w] = "running" <=> worker'[w] = "running"
  PROVE  Running' = Running
BY DEF Running

LEMMA StartInv == PoolInv /\ Start => PoolInv'
<1> SUFFICES ASSUME PoolInv, Start PROVE PoolInv'
  OBVIOUS
<1>1. TypeOK'
  BY DEF PoolInv, TypeOK, Start
<1>2. \A w \in Worker : worker[w] = "gone" /\ hold[w] = None
  BY DEF PoolInv, TypeOK, Places, Start
<1>3. Places'
  BY <1>2, PoolAssumption DEF PoolInv, TypeOK, Places, Start
<1>4. Running' = Running
  BY <1>2 DEF Running, Start
<1>5. ExactlyOnce'
  BY <1>4, SameTasks DEF PoolInv, Start
<1>6. queue = <<>>
  BY DEF PoolInv, DrainedByStop, Start
<1>7. NoLostWakeup' /\ DrainedByStop'
  BY <1>6 DEF Start, NoLostWakeup, DrainedByStop, Asleep
<1> QED BY <1>1, <1>3, <1>5, <1>7 DEF PoolInv

LEMMA StopInv == PoolInv /\ Stop => PoolInv'
<1> SUFFICES ASSUME PoolInv, Stop PROVE PoolInv'
  OBVIOUS
<1>1. TypeOK' /\ Places'
  BY DEF PoolInv, TypeOK, Places, Stop
<1>2. ExactlyOnce'
  BY SameTasks DEF PoolInv, Stop, Running
<1>3. NoLostWakeup' /\ DrainedByStop'
  BY DEF PoolInv, Stop, NoLostWakeup, DrainedByStop, Asleep
<1> QED BY <1>1, <1>2, <1>3 DEF PoolInv

LEMMA NotifyAllInv == PoolInv /\ NotifyAll => PoolInv'
<1> SUFFICES ASSUME PoolInv, NotifyAll PROVE PoolInv'
  OBVIOUS
<1>1. TypeOK'
  BY DEF PoolInv, TypeOK, NotifyAll
<1>2. Places'
  BY DEF PoolInv, TypeOK, Places, NotifyAll, Asleep
<1>3. Running' = Running
  BY DEF PoolInv, TypeOK, NotifyAll, Running, Asleep
<1>4. ExactlyOnce'
  BY <1>3, SameTasks DEF PoolInv, NotifyAll
<1>5. Asleep' = {}
  BY DEF PoolInv, TypeOK, NotifyAll, Asleep
<1>6. NoLostWakeup'
  BY <1>2, <1>5, PoolAssumption DEF NoLostWakeup, Places, Asleep
<1>7. DrainedByStop'
  BY DEF NotifyAll, DrainedByStop
<1> QED BY <1>1, <1>2, <1>4, <1>6, <1>7 DEF PoolInv

LEMMA JoinedInv == PoolInv /\ Joined => PoolInv'
<1> SUFFICES ASSUME PoolInv, Joined PROVE PoolInv'
  OBVIOUS
<1>1. TypeOK' /\ Places'
  BY DEF PoolInv, TypeOK, Places, Joined
<1>2. ExactlyOnce'
  BY SameTasks DEF PoolInv, Joined, Running
<1>3. NoLostWakeup'
  BY DEF PoolInv, NoLostWakeup, Joined, Asleep
<1>4. queue = <<>> /\ Running = {}
  BY PoolAssumption DEF PoolInv, Places, Joined, Running
<1>5. DrainedByStop'
  BY <1>4 DEF PoolInv, ExactlyOnce, DrainedByStop, Joined, Held, Queued
<1> QED BY <1>1, <1>2, <1>3, <1>5 DEF PoolInv

LEMMA NotifyOneInv ==
  ASSUME PoolInv, NEW c \in Client \cup Worker, NotifyOne(c) PROVE PoolInv'
<1>1. TypeOK'
  BY DEF PoolInv, TypeOK, NotifyOne, Asleep
<1>2. \A w \in Worker : worker'[w] # worker[w] => worker[w] = "asleep" /\ worker'[w] = "ready"
  BY DEF PoolInv, TypeOK, NotifyOne, Asleep
<1>3. Places'
  BY <1>2 DEF PoolInv, TypeOK, Places, NotifyOne
<1>4. Running' = Running
  BY <1>2 DEF Running
<1>5. ExactlyOnce'
  BY <1>4, SameTasks DEF PoolInv, NotifyOne
<1>6. NoLostWakeup'
  <2>1. CASE Asleep = {} /\ UNCHANGED worker
    BY <2>1, PoolAssumption DEF PoolInv, Places, NoLostWakeup, NotifyOne, Asleep
  <2>2. ASSUME NEW w \in Asleep, worker' = [worker EXCEPT ![w] = "ready"] PROVE NoLostWakeup'
    <3>1. w \in Worker /\ worker'[w] = "ready"
      BY <2>2 DEF Asleep, PoolInv, TypeOK
    <3>2. stopping' \notin {"join", "returned"}
      BY <2>2 DEF PoolInv, NoLostWakeup, NotifyOne
    <3> QED BY <3>1, <3>2 DEF NoLostWakeup
  <2> QED BY <2>1, <2>2 DEF NotifyOne
<1>7. DrainedByStop'
  BY DEF PoolInv, DrainedByStop, NotifyOne
<1> QED BY <1>1, <1>3, <1>5, <1>6, <1>7 DEF PoolInv

LEMMA SubmitInv ==
  ASSUME PoolInv, NEW c \in Client \cup Worker, NEW t \in Task, Submit(c, t) PROVE PoolInv'
<1>1. CASE stop
  <2>1. dropped' = dropped \cup {t} /\ t \notin accepted
        /\ UNCHANGED <<queue, notifying, accepted, stop, worker, hold, stopping, done>>
    BY <1>1 DEF Submit
  <2>2. TypeOK' /\ Places'
    BY <2>1 DEF PoolInv, TypeOK, Places
  <2>3. ExactlyOnce'
    BY <2>1 DEF PoolInv, ExactlyOnce, Queued, Held, Running
  <2>4. NoLostWakeup' /\ DrainedByStop'
    BY <2>1 DEF PoolInv, NoLostWakeup, DrainedByStop, Asleep
  <2> QED BY <2>2, <2>3, <2>4 DEF PoolInv
<1>2. CASE ~stop
  <2>1. /\ queue' = Append(queue, t) /\ notifying' = notifying \cup {c}
        /\ accepted' = accepted \cup {t} /\ t \notin accepted /\ t \notin dropped
        /\ UNCHANGED <<dropped, stop, worker, hold, stopping, done>>
    BY <1>2 DEF Submit
  <2>2. c \in Worker => worker[c] = "running"
    BY DEF Submit, MayCall
  <2>3. queue \in Seq(Task)
    BY DEF PoolInv, TypeOK
  <2>4. /\ queue' \in Seq(Task) /\ queue' # <<>>
        /\ Queued' = Queued \cup {t}
        /\ t \notin Queued /\ (\A i, j \in DOMAIN queue : queue[i] = queue[j] => i = j)
           => \A i, j \in DOMAIN queue' : queue'[i] = queue'[j] => i = j
    BY <2>1, <2>3, AppendQueue DEF Queued
  <2>5. TypeOK'
    BY <2>1, <2>4 DEF PoolInv, TypeOK
  <2>6. Places'
    BY <1>2, <2>1, <2>2 DEF PoolInv, TypeOK, Places
  <2>7. Held' = Held /\ Running' = Running
    BY <2>1 DEF Held, Running
  <2>8. ExactlyOnce'
    BY <2>1, <2>4, <2>7 DEF PoolInv, ExactlyOnce
  <2>9. NoLostWakeup' /\ DrainedByStop'
    BY <1>2, <2>1 DEF PoolInv, Places, NoLostWakeup, DrainedByStop, Asleep
  <2> QED BY <2>5, <2>6, <2>8, <2>9 DEF PoolInv
<1> QED BY <1>1, <1>2

LEMMA TakeInv == ASSUME PoolInv, NEW w \in Worker, Take(w) PROVE PoolInv'
<1>1. /\ worker[w] = "ready" /\ queue # <<>>
      /\ worker' = [worker EXCEPT ![w] = "running"]
      /\ hold' = [hold EXCEPT ![w] = Head(queue)] /\ queue' = Tail(queue)
      /\ UNCHANGED <<stop, notifying, stopping, accepted, dropped, done>>
  BY DEF Take
<1>2. queue \in Seq(Task) /\ \A i, j \in DOMAIN queue : queue[i] = queue[j] => i = j
  BY DEF PoolInv, TypeOK, ExactlyOnce
<1>3. /\ queue' \in Seq(Task) /\ Head(queue) \in Task
      /\ Queued' = Queued \ {Head(queue)} /\ Head(queue) \in Queued
      /\ \A i, j \in DOMAIN queue' : queue'[i] = queue'[j] => i = j
  <2>1. /\ Tail(queue) \in Seq(Task) /\ Head(queue) \in Task
        /\ {Tail(queue)[i] : i \in DOMAIN Tail(queue)}
           = {queue[i] : i \in DOMAIN queue} \ {Head(queue)}
        /\ Head(queue) \in {queue[i] : i \in DOMAIN queue}
        /\ \A i, j \in DOMAIN Tail(queue) : Tail(queue)[i] = Tail(queue)[j] => i = j
    BY <1>1, <1>2, TailQueue, Zenon
  <2> QED BY <1>1, <2>1, Zenon DEF Queued
<1>4. /\ worker'[w] = "running" /\ hold'[w] = Head(queue)
      /\ \A u \in Worker \ {w} : worker'[u] = worker[u] /\ hold'[u] = hold[u]
  BY <1>1 DEF PoolInv, TypeOK
<1>5. TypeOK'
  BY <1>1, <1>3 DEF PoolInv, TypeOK
<1>6. Head(queue) # None
  BY <1>3, PoolAssumption
<1>7. \A u \in Worker : worker[u] # "gone"
  BY <1>1 DEF PoolInv, Places
<1>8. Places'
  BY <1>1, <1>4, <1>6, <1>7, PoolAssumption DEF PoolInv, Places
<1>9. Running' = Running \cup {w} /\ w \notin Running
  BY <1>1, <1>4 DEF Running
<1>10. Held' = Held \cup {Head(queue)}
  BY <1>4, <1>9 DEF Held, Running
<1>11. \A u, v \in Running' : hold'[u] = hold'[v] => u = v
  <2>1. \A u \in Running : hold[u] \in Held
    BY DEF Held
  <2> QED BY <1>3, <1>4, <1>9, <2>1 DEF PoolInv, ExactlyOnce, Running
<1>12. ExactlyOnce'
  BY <1>1, <1>3, <1>10, <1>11 DEF PoolInv, ExactlyOnce
<1>13. NoLostWakeup'
  BY <1>1, <1>4 DEF PoolInv, NoLostWakeup, Asleep
<1>14. DrainedByStop'
  BY <1>1 DEF PoolInv, DrainedByStop
<1> QED BY <1>5, <1>8, <1>12, <1>13, <1>14 DEF PoolInv

\* A step that only moves one idle worker between ready, asleep and gone.
LEMMA IdleInv ==
  ASSUME PoolInv, NEW w \in Worker, NEW place \in {"ready", "asleep", "gone"},
         worker[w] \in {"ready", "asleep"}, worker' = [worker EXCEPT ![w] = place],
         place = "gone" => stop /\ queue = <<>>,
         place # "ready" => queue = <<>>,
         place = "asleep" => ~stop,
         UNCHANGED <<stop, queue, hold, notifying, stopping, accepted, dropped, done>>
  PROVE  PoolInv'
<1>1. TypeOK'
  BY DEF PoolInv, TypeOK
<1>2. worker'[w] = place /\ \A u \in Worker \ {w} : worker'[u] = worker[u]
  BY DEF PoolInv, TypeOK
<1>3. w \notin notifying /\ hold[w] = None /\ stopping # "returned"
  BY DEF PoolInv, Places
<1>4. Places'
  BY <1>2, <1>3 DEF PoolInv, Places
<1>5. Running' = Running
  BY <1>2 DEF Running
<1>6. ExactlyOnce'
  BY <1>5, SameTasks DEF PoolInv
<1>7. NoLostWakeup'
  BY <1>2 DEF PoolInv, Places, NoLostWakeup, Asleep
<1>8. DrainedByStop'
  BY DEF PoolInv, DrainedByStop
<1> QED BY <1>1, <1>4, <1>6, <1>7, <1>8 DEF PoolInv

LEMMA FinishInv == ASSUME PoolInv, NEW w \in Worker, Finish(w) PROVE PoolInv'
<1>1. /\ worker[w] = "running" /\ w \notin notifying
      /\ worker' = [worker EXCEPT ![w] = "ready"] /\ hold' = [hold EXCEPT ![w] = None]
      /\ done' = done \cup {hold[w]}
      /\ UNCHANGED <<stop, queue, notifying, stopping, accepted, dropped>>
  BY DEF Finish
<1>2. hold[w] \in Task
  BY <1>1 DEF PoolInv, TypeOK, Places
<1>3. TypeOK'
  BY <1>1, <1>2 DEF PoolInv, TypeOK
<1>4. /\ worker'[w] = "ready" /\ hold'[w] = None
      /\ \A u \in Worker \ {w} : worker'[u] = worker[u] /\ hold'[u] = hold[u]
  BY <1>1 DEF PoolInv, TypeOK
<1>5. stopping # "returned"
  BY <1>1 DEF PoolInv, Places
<1>6. Places'
  BY <1>1, <1>4, <1>5 DEF PoolInv, Places
<1>7. Running' = Running \ {w} /\ w \in Running
  BY <1>1, <1>4 DEF Running
<1>8. Held' = Held \ {hold[w]} /\ hold[w] \in Held
  BY <1>4, <1>7 DEF Held, Running, PoolInv, ExactlyOnce
<1>9. \A u, v \in Running' : hold'[u] = hold'[v] => u = v
  BY <1>4, <1>7 DEF PoolInv, ExactlyOnce, Running
<1>10. Queued' = Queued
  BY <1>1 DEF Queued
<1>11. ExactlyOnce'
  BY <1>1, <1>8, <1>9, <1>10 DEF PoolInv, ExactlyOnce
<1>12. NoLostWakeup'
  BY <1>1, <1>4 DEF PoolInv, NoLostWakeup, Asleep
<1>13. DrainedByStop'
  BY <1>1, <1>5 DEF DrainedByStop
<1> QED BY <1>3, <1>6, <1>11, <1>12, <1>13 DEF PoolInv

LEMMA StutterInv == PoolInv /\ UNCHANGED vars => PoolInv'
<1> SUFFICES ASSUME PoolInv, UNCHANGED vars PROVE PoolInv'
  OBVIOUS
<1>1. TypeOK' /\ Places'
  BY DEF PoolInv, TypeOK, Places, vars
<1>2. ExactlyOnce'
  BY SameTasks DEF PoolInv, Running, vars
<1>3. NoLostWakeup' /\ DrainedByStop'
  BY DEF PoolInv, NoLostWakeup, DrainedByStop, Asleep, vars
<1> QED BY <1>1, <1>2, <1>3 DEF PoolInv

LEMMA PoolNext == PoolInv /\ [Next]_vars => PoolInv'
<1> SUFFICES ASSUME PoolInv, [Next]_vars PROVE PoolInv'
  OBVIOUS
<1>1. CASE Start \/ Stop \/ NotifyAll \/ Joined
  BY <1>1, StartInv, StopInv, NotifyAllInv, JoinedInv
<1>2. ASSUME NEW c \in Client \cup Worker, NotifyOne(c) PROVE PoolInv'
  BY <1>2, NotifyOneInv
<1>3. ASSUME NEW c \in Client \cup Worker, NEW t \in Task, Submit(c, t) PROVE PoolInv'
  BY <1>3, SubmitInv
<1>4. ASSUME NEW w \in Worker, Sleep(w) \/ Exit(w) \/ SpuriousWakeup(w) PROVE PoolInv'
  <2>1. CASE Sleep(w)
    BY <2>1, IdleInv DEF Sleep
  <2>2. CASE Exit(w)
    BY <2>2, IdleInv DEF Exit
  <2>3. CASE SpuriousWakeup(w)
    BY <2>3, IdleInv DEF SpuriousWakeup
  <2> QED BY <1>4, <2>1, <2>2, <2>3
<1>5. ASSUME NEW w \in Worker, Take(w) \/ Finish(w) PROVE PoolInv'
  BY <1>5, TakeInv, FinishInv
<1>6. CASE UNCHANGED vars
  BY <1>6, StutterInv
<1> QED BY <1>1, <1>2, <1>3, <1>4, <1>5, <1>6 DEF Next, WorkerStep

LEMMA PoolInvariant == Spec => []PoolInv
BY PoolInit, PoolNext, PTL DEF Spec

\* Submit and WorkerLoop never lose a task and never run one twice.
THEOREM PoolExactlyOnce == Spec => []ExactlyOnce
<1>1. PoolInv => ExactlyOnce
  BY DEF PoolInv
<1> QED BY <1>1, PoolInvariant, PTL

\* Submit and Stop notify outside the lock, and still no wakeup is lost.
THEOREM PoolNoLostWakeup == Spec => []NoLostWakeup
<1>1. PoolInv => NoLostWakeup
  BY DEF PoolInv
<1> QED BY <1>1, PoolInvariant, PTL

\* When Stop returns, everything that was accepted has run.
THEOREM PoolDrained == Spec => []DrainedByStop
<1>1. PoolInv => DrainedByStop
  BY DEF PoolInv
<1> QED BY <1>1, PoolInvariant, PTL

\* A step of the pool is a step of the executor or changes nothing it shows.
LEMMA ExecutorStep == PoolInv /\ [Next]_vars => [Executor!Next]_(Executor!vars)
<1> SUFFICES ASSUME PoolInv, [Next]_vars PROVE Executor!Next \/ UNCHANGED Executor!vars
  OBVIOUS
<1> USE DEF Executor!vars, Phase
<1>1. CASE Start
  BY <1>1 DEF Start, Executor!Next, Executor!Reopen
<1>2. CASE Stop
  BY <1>2 DEF Stop, Executor!Next, Executor!Close
<1>3. CASE NotifyAll
  BY <1>3 DEF NotifyAll
<1>4. CASE Joined
  <2>1. PoolInv'
    BY PoolNext
  <2>2. accepted = done
    BY <1>4, <2>1 DEF PoolInv, DrainedByStop, Joined
  <2> QED BY <1>4, <2>2 DEF Joined, Executor!Next, Executor!Closed
<1>5. ASSUME NEW c \in Client \cup Worker, NotifyOne(c) PROVE UNCHANGED Executor!vars
  BY <1>5 DEF NotifyOne
<1>6. ASSUME NEW c \in Client \cup Worker, NEW t \in Task, Submit(c, t)
      PROVE  Executor!Next \/ UNCHANGED Executor!vars
  <2>1. CASE stop
    BY <1>6, <2>1 DEF Submit
  <2>2. CASE ~stop
    <3>1. Phase = "open"
      BY <2>2 DEF PoolInv, Places
    <3>2. Executor!Accept(t)
      BY <1>6, <2>2, <3>1 DEF Submit, Executor!Accept
    <3> QED BY <3>2 DEF Executor!Next
  <2> QED BY <2>1, <2>2
<1>7. ASSUME NEW w \in Worker, Take(w) \/ Sleep(w) \/ Exit(w) \/ SpuriousWakeup(w)
      PROVE  UNCHANGED Executor!vars
  BY <1>7 DEF Take, Sleep, Exit, SpuriousWakeup
<1>8. ASSUME NEW w \in Worker, Finish(w) PROVE Executor!Next
  <2>1. w \in Running /\ stopping # "returned"
    BY <1>8 DEF Finish, Running, PoolInv, Places
  <2>2. hold[w] \in accepted \ done /\ hold[w] \in Task
    BY <2>1 DEF PoolInv, ExactlyOnce, Held, TypeOK
  <2>3. Executor!Execute(hold[w])
    BY <1>8, <2>1, <2>2 DEF Finish, Executor!Execute
  <2> QED BY <2>2, <2>3 DEF Executor!Next
<1>9. CASE UNCHANGED vars
  BY <1>9 DEF vars
<1> QED BY <1>1, <1>2, <1>3, <1>4, <1>5, <1>6, <1>7, <1>8, <1>9 DEF Next, WorkerStep

\* The safety part of IsExecutor: to its users the pool behaves like an executor
\* that runs each accepted task once and closes only when all have run.
THEOREM PoolImplementsExecutor == Spec => Executor!Init /\ [][Executor!Next]_(Executor!vars)
<1>1. Init => Executor!Init
  BY DEF Init, Executor!Init, Phase
<1>2. PoolInv /\ [Next]_vars => [Executor!Next]_(Executor!vars)
  BY ExecutorStep
<1> QED BY <1>1, <1>2, PoolInvariant, PTL DEF Spec

----------------------------------------------------------------------------
(* The scheduler *)

\* What an id can be (pending, called or cancelled, never two of them: ids are
\* not given twice, and Fire and Cancel take the id out of tasks_ under the
\* lock), and what is left when Stop has returned.
TimerInv ==
  /\ nextId \in Nat
  /\ \A id \in timers \cup fired \cup cancelled : id \in Nat /\ id < nextId
  /\ timers \cap fired = {} /\ timers \cap cancelled = {} /\ fired \cap cancelled = {}
  /\ timerStop <=> timerStopping # "no"
  /\ timerStopping = "returned" => timers = {} /\ thread.at = "gone"

\* What a step may do to the callbacks.
CancelWinsStep ==
  /\ fired \cap cancelled = {} /\ fired \cap timers = {}
  /\ fired' # fired => fired' \ fired \subseteq timers \ cancelled
  /\ timerStopping = "returned" => fired' = fired /\ timers = {}

LEMMA TimerInit == Timer!Init => TimerInv
BY DEF Timer!Init, TimerInv

LEMMA TimerNext == TimerInv /\ [Timer!Next]_(Timer!vars) => TimerInv' /\ CancelWinsStep
<1> SUFFICES ASSUME TimerInv, [Timer!Next]_(Timer!vars) PROVE TimerInv' /\ CancelWinsStep
  OBVIOUS
<1> USE DEF TimerInv, CancelWinsStep
<1>1. CASE Timer!Tick \/ Timer!NotifyOne \/ Timer!Leave \/ Timer!Wait \/ Timer!Return \/ Timer!WakeUp
  BY <1>1 DEF Timer!Tick, Timer!NotifyOne, Timer!Leave, Timer!Wait, Timer!Return, Timer!WakeUp,
              Timer!Woken, Timer!Looping
<1>2. ASSUME NEW d \in Delay, Timer!ScheduleAfter(d) PROVE TimerInv' /\ CancelWinsStep
  <2>1. CASE timerStop
    BY <1>2, <2>1 DEF Timer!ScheduleAfter
  <2>2. CASE ~timerStop
    <3>1. timers' = timers \cup {nextId} /\ nextId' = nextId + 1
          /\ UNCHANGED <<fired, cancelled, timerStop, timerStopping>>
      BY <1>2, <2>2 DEF Timer!ScheduleAfter
    <3>2. nextId \notin timers \cup fired \cup cancelled
      OBVIOUS
    <3> QED BY <2>2, <3>1, <3>2
  <2> QED BY <2>1, <2>2
<1>3. ASSUME NEW id \in timers, Timer!Cancel(id) PROVE TimerInv' /\ CancelWinsStep
  BY <1>3 DEF Timer!Cancel, Timer!Woken
<1>4. CASE Timer!Fire
  <2>1. PICK e \in Timer!Live : timers' = timers \ {e.id} /\ fired' = fired \cup {e.id}
    BY <1>4 DEF Timer!Fire
  <2>2. e.id \in timers /\ ~timerStop /\ UNCHANGED <<nextId, cancelled, timerStop, timerStopping>>
    BY <1>4 DEF Timer!Fire, Timer!Live
  <2> QED BY <2>1, <2>2
<1>5. CASE Timer!Stop \/ Timer!NotifyAll \/ Timer!Joined \/ Timer!Start
  BY <1>5 DEF Timer!Stop, Timer!NotifyAll, Timer!Joined, Timer!Start, Timer!Woken, Timer!Looping
<1>6. CASE UNCHANGED Timer!vars
  BY <1>6 DEF Timer!vars
<1> QED BY <1>1, <1>2, <1>3, <1>4, <1>5, <1>6 DEF Timer!Next, Timer!Turn

\* NoOversleep with the types it needs: it is inductive then.
WaitInv ==
  /\ now \in Nat /\ timerNotifying \in Nat
  /\ \A e \in heap : e.deadline \in Nat
  /\ NoOversleep

LEMMA WaitInit == Timer!Init => WaitInv
BY DEF Timer!Init, WaitInv, NoOversleep, Timer!NoOversleep, Timer!Looping

LEMMA WaitNext == WaitInv /\ [Timer!Next]_(Timer!vars) => WaitInv'
<1> SUFFICES ASSUME WaitInv, [Timer!Next]_(Timer!vars) PROVE WaitInv'
  OBVIOUS
<1> USE DEF WaitInv, NoOversleep, Timer!NoOversleep, Timer!Live
<1>1. CASE Timer!Tick
  BY <1>1, TimerAssumption DEF Timer!Tick
<1>2. CASE Timer!NotifyOne
  BY <1>2 DEF Timer!NotifyOne, Timer!Woken, Timer!Looping
<1>3. CASE Timer!Leave \/ Timer!Return \/ Timer!WakeUp
  BY <1>3 DEF Timer!Leave, Timer!Return, Timer!WakeUp, Timer!Looping
<1>4. CASE Timer!Wait
  <2>1. /\ heap' = Timer!Kept /\ heap' \subseteq heap
        /\ UNCHANGED <<now, timerStop, timers, timerNotifying>>
    BY <1>4 DEF Timer!Wait, Timer!Kept
  <2>2. CASE Timer!Live = {}
    BY <2>1, <2>2
  <2>3. ASSUME NEW e \in Timer!Live, Timer!IsTop(e),
               thread' = [at |-> "wait", until |-> e.deadline, id |-> 0]
        PROVE  WaitInv'
    <3>1. thread'.until = e.deadline
      BY <2>3
    <3>2. ASSUME NEW f \in heap', f.id \in timers' PROVE e.deadline <= f.deadline
      BY <2>1, <2>3, <3>2 DEF Timer!IsTop, Timer!Before
    <3> QED BY <2>1, <3>1, <3>2
  <2> QED BY <1>4, <2>2, <2>3 DEF Timer!Wait
<1>5. CASE Timer!Fire
  <2>1. heap' \subseteq heap /\ thread'.at = "fn" /\ UNCHANGED <<now, timerNotifying>>
    BY <1>5 DEF Timer!Fire, Timer!Kept
  <2> QED BY <2>1
<1>6. ASSUME NEW d \in Delay, Timer!ScheduleAfter(d) PROVE WaitInv'
  BY <1>6, TimerAssumption DEF Timer!ScheduleAfter
<1>7. ASSUME NEW id \in timers, Timer!Cancel(id) PROVE WaitInv'
  BY <1>7 DEF Timer!Cancel, Timer!Woken, Timer!Looping
<1>8. CASE Timer!Stop
  BY <1>8 DEF Timer!Stop
<1>9. CASE Timer!NotifyAll \/ Timer!Joined \/ Timer!Start
  BY <1>9 DEF Timer!NotifyAll, Timer!Joined, Timer!Start, Timer!Woken, Timer!Looping
<1>10. CASE UNCHANGED Timer!vars
  BY <1>10 DEF Timer!vars
<1> QED BY <1>1, <1>2, <1>3, <1>4, <1>5, <1>6, <1>7, <1>8, <1>9, <1>10 DEF Timer!Next, Timer!Turn

----------------------------------------------------------------------------
(* The node *)

\* Every step of the node is a step of each component, or leaves it alone.
LEMMA ComponentSteps ==
  [NodeNext]_<<vars, timerVars>> => [Next]_vars /\ [Timer!Next]_(Timer!vars)
<1> SUFFICES ASSUME [NodeNext]_<<vars, timerVars>>
             PROVE  [Next]_vars /\ [Timer!Next]_(Timer!vars)
  OBVIOUS
<1>0. UNCHANGED timerVars => UNCHANGED Timer!vars
  BY DEF timerVars, Timer!vars
<1>1. CASE CallbackSubmits \/ TaskSubmits
  BY <1>0, <1>1 DEF CallbackSubmits, TaskSubmits, Next
<1>2. CASE CallbackReturns
  BY <1>2 DEF CallbackReturns, Timer!Next, Timer!Turn
<1>3. CASE PoolStep
  BY <1>0, <1>3 DEF PoolStep, Next
<1>4. CASE TimerStep
  BY <1>4 DEF TimerStep, Timer!Next, Timer!Turn
<1>5. CASE StopTimers
  BY <1>5 DEF StopTimers, Timer!Next
<1>6. CASE StopPool
  BY <1>0, <1>6 DEF StopPool, Next
<1>7. CASE StartBoth
  BY <1>7 DEF StartBoth, Next, Timer!Next
<1>8. CASE UNCHANGED <<vars, timerVars>>
  BY <1>0, <1>8
<1> QED BY <1>1, <1>2, <1>3, <1>4, <1>5, <1>6, <1>7, <1>8 DEF NodeNext

\* What the two have to do with each other: the pool is stopped only when the
\* scheduler's Stop has returned, and then its thread is gone.
NodeInv == PoolInv /\ TimerInv /\ WaitInv /\ (stop => timerStopping = "returned")

LEMMA NodeInitInv == NodeInit => NodeInv
<1> SUFFICES ASSUME NodeInit PROVE NodeInv
  OBVIOUS
<1>1. PoolInv /\ TimerInv /\ WaitInv
  BY PoolInit, TimerInit, WaitInit DEF NodeInit
<1> QED BY <1>1 DEF NodeInv, NodeInit, Init

LEMMA NodeNextInv == NodeInv /\ [NodeNext]_<<vars, timerVars>> => NodeInv'
<1> SUFFICES ASSUME NodeInv, [NodeNext]_<<vars, timerVars>> PROVE NodeInv'
  OBVIOUS
<1>1. PoolInv' /\ TimerInv' /\ WaitInv'
  BY ComponentSteps, PoolNext, TimerNext, WaitNext DEF NodeInv
<1>2. (stop => timerStopping = "returned")'
  <2>1. CASE CallbackSubmits \/ TaskSubmits \/ PoolStep
    BY <2>1 DEF NodeInv, CallbackSubmits, TaskSubmits, PoolStep, Submit, NotifyOne, WorkerStep,
                Take, Sleep, Exit, Finish, SpuriousWakeup, NotifyAll, Joined, timerVars
  <2>2. CASE CallbackReturns \/ TimerStep
    <3>1. timerStopping = "returned" => timerStopping' = "returned"
      BY <2>2 DEF CallbackReturns, TimerStep, Timer!Return, Timer!Tick, Timer!NotifyOne,
                  Timer!WakeUp, Timer!Leave, Timer!Wait, Timer!Fire, Timer!ScheduleAfter,
                  Timer!Cancel, Timer!NotifyAll, Timer!Joined
    <3> QED BY <2>2, <3>1 DEF NodeInv, CallbackReturns, TimerStep, vars
  <2>3. CASE StopTimers
    BY <2>3 DEF StopTimers, NodeInv, PoolInv, Places, vars
  <2>4. CASE StopPool
    BY <2>4 DEF StopPool, timerVars
  <2>5. CASE StartBoth
    BY <2>5 DEF StartBoth, Start
  <2>6. CASE UNCHANGED <<vars, timerVars>>
    BY <2>6 DEF NodeInv, vars, timerVars
  <2> QED BY <2>1, <2>2, <2>3, <2>4, <2>5, <2>6 DEF NodeNext
<1> QED BY <1>1, <1>2 DEF NodeInv

LEMMA NodeInvariant == NodeSpec => []NodeInv
BY NodeInitInv, NodeNextInv, PTL DEF NodeSpec

\* RaftNode's threads: a task handed to the pool by a callback or by another
\* task is in one place only (queue, worker or done), so it runs once.
THEOREM NodeTasksRun == NodeSpec => []ExactlyOnce
<1>1. NodeInv => ExactlyOnce
  BY DEF NodeInv, PoolInv
<1> QED BY <1>1, NodeInvariant, PTL

\* The notify_one of Submit and the notify_all of Stop reach the workers, also
\* when the task comes from a timer callback or from another task: while work
\* is queued a worker is up or a notification on its way.
THEOREM NodeNoLostWakeup == NodeSpec => []NoLostWakeup
<1>1. NodeInv => NoLostWakeup
  BY DEF NodeInv, PoolInv
<1> QED BY <1>1, NodeInvariant, PTL

\* The order of the calls in RaftNode::Stop: no timer callback meets a stopped
\* pool.
THEOREM NodeCallbacksServed == NodeSpec => []CallbacksServed
<1>1. NodeInv => CallbacksServed
  BY DEF NodeInv, TimerInv, CallbacksServed
<1> QED BY <1>1, NodeInvariant, PTL

\* TimerScheduler::Run never waits past the deadline of a pending timer
\* without a notification on its way, also if it comes from the pool.
THEOREM NodeNoOversleep == NodeSpec => []NoOversleep
<1>1. NodeInv => NoOversleep
  BY DEF NodeInv, WaitInv
<1> QED BY <1>1, NodeInvariant, PTL

\* Run, Cancel and Stop: a cancelled callback is never called, one that was called
\* is not pending any more, and none is called after Stop has returned.
THEOREM CancelledNeverRuns == NodeSpec => CancelWins
<1>1. NodeInv /\ [NodeNext]_<<vars, timerVars>> =>
        [/\ fired \cap cancelled = {} /\ fired \cap timers = {}
         /\ fired' # fired => fired' \ fired \subseteq timers \ cancelled
         /\ timerStopping = "returned" => fired' = fired /\ timers = {}]_(Timer!vars)
  BY ComponentSteps, TimerNext DEF NodeInv, CancelWinsStep
<1> QED BY <1>1, NodeInvariant, PTL DEF NodeSpec, CancelWins, Timer!CancelWins

\* The safety part of IsExecutor in the node: to callbacks and tasks the pool
\* is an executor that runs each accepted task once and closes only when all
\* have run.
THEOREM NodeImplementsExecutor ==
  NodeSpec => Executor!Init /\ [][Executor!Next]_(Executor!vars)
<1>1. NodeInit => Executor!Init
  BY DEF NodeInit, Init, Executor!Init, Phase
<1>2. NodeInv /\ [NodeNext]_<<vars, timerVars>> => [Executor!Next]_(Executor!vars)
  BY ComponentSteps, ExecutorStep DEF NodeInv
<1> QED BY <1>1, <1>2, NodeInvariant, PTL DEF NodeSpec

----------------------------------------------------------------------------
(* The timers of the node *)

TaskOf == [kind : Kind, id : Number, gen : Number \cup {0}]

TimersOf == [gen : Number, timer : [Kind -> Number \cup {0}], pending : SUBSET TaskOf]

\* Every pending task is the one its id names, ids are not shared, and only
\* election timers carry a generation, the current one.
WF(t) ==
  /\ t \in TimersOf
  /\ \A j, k \in Kind : t.timer[j] = t.timer[k] /\ t.timer[j] # 0 => j = k
  /\ \A p \in t.pending : /\ p.id = t.timer[p.kind]
                          /\ p.gen = IF p.kind = "election" THEN t.gen ELSE 0

Has(t, k) == \E p \in t.pending : p.kind = k

CallbackOf ==
  [kind : Kind \cup {"none"}, gen : Number \cup {0}, at : {"idle", "called", "start", "rearm"}]

TypeInv ==
  /\ life \in {"new", "starting", "up", "stopping", "cancelled", "joining", "stopped", "failed"}
  /\ running <=> life \in {"starting", "up"}
  /\ role \in {"Follower", "Candidate", "Leader"}
  /\ life = "new" => role = "Follower"
  /\ callback \in CallbackOf
  /\ callback.kind = "election" => callback.at \in {"called", "start"}

\* The inductive invariant.  A leader has its heartbeat timer from the start of
\* the node on, also before Start has come to arm the other timers.  A callback
\* that carries the current generation is the one of the last timer armed.
TimersInv ==
  /\ TypeInv /\ WF(Timers)
  /\ Has(Timers, "election") => role # "Leader"
  /\ Has(Timers, "heartbeat") => role = "Leader"
  /\ NeverStranded /\ QuietAfterStop
  /\ life = "starting" /\ role = "Leader" => Has(Timers, "heartbeat") \/ callback.kind = "heartbeat"
  /\ In("election", "called") /\ callback.gen = gen => ~Has(Timers, "election")

----------------------------------------------------------------------------
(* Numbers *)

LEMMA Three ==
  ASSUME NEW a, NEW b, NEW c PROVE \E i \in Number : i \notin {a, b, c}
<1>1. PICK x \in Number : TRUE
  BY NumberAssumption
<1> DEFINE Seen(y) == IF y \in Number THEN y ELSE x
<1>2. Seen(a) \in Number /\ Seen(b) \in Number /\ Seen(c) \in Number
  OBVIOUS
<1>3. PICK i \in Number : i \notin {Seen(a), Seen(b), Seen(c)}
  BY <1>2, NumberAssumption
<1> QED BY <1>3

LEMMA FreshIdIs ==
  ASSUME NEW t, WF(t)
  PROVE  /\ FreshId(t) \in Number
         /\ \A k \in Kind : FreshId(t) # t.timer[k]
<1> DEFINE U == {p.id : p \in t.pending} \cup {t.timer[k] : k \in Kind}
<1>1. \A x \in U : x \in {t.timer["election"], t.timer["heartbeat"], t.timer["snapshot"]}
  BY DEF WF, TimersOf, TaskOf, Kind
<1>2. \E i \in Number : i \notin U
  BY <1>1, Three
<1>3. FreshId(t) \in Number /\ FreshId(t) \notin U
  BY <1>2 DEF FreshId
<1> QED BY <1>3

LEMMA FreshGenIs ==
  ASSUME NEW t, WF(t)
  PROVE  FreshGen(t) \in Number /\ FreshGen(t) # t.gen /\ FreshGen(t) # callback.gen
<1> DEFINE U == {p.gen : p \in t.pending} \cup {t.gen, callback.gen}
<1>1. \A x \in U : x \in {0, t.gen, callback.gen}
  BY DEF WF
<1>2. \E i \in Number : i \notin U
  BY <1>1, Three
<1>3. FreshGen(t) \in Number /\ FreshGen(t) \notin U
  BY <1>2 DEF FreshGen
<1> QED BY <1>3

----------------------------------------------------------------------------
(* Arming and cancelling *)

LEMMA CancelIs ==
  ASSUME NEW t, WF(t), NEW k \in Kind
  PROVE  /\ WF(CancelTimer(t, k))
         /\ CancelTimer(t, k).gen = t.gen
         /\ CancelTimer(t, k).pending = {p \in t.pending : p.kind # k}
<1> DEFINE c == CancelTimer(t, k)
<1>1. t \in TimersOf
  BY DEF WF
<1>2. \A p \in t.pending : p \in TaskOf /\ p.id = t.timer[p.kind] /\ p.id # 0
  BY <1>1, NumberAssumption DEF WF, TimersOf, TaskOf
<1>3. /\ c.gen = t.gen /\ c.timer = [t.timer EXCEPT ![k] = 0]
      /\ c.pending = {p \in t.pending : p.id # t.timer[k]}
      /\ c = [gen |-> c.gen, timer |-> c.timer, pending |-> c.pending]
  BY DEF CancelTimer
<1>4. \A p \in t.pending : p.id # t.timer[k] <=> p.kind # k
  BY <1>1, <1>2 DEF WF, TaskOf
<1>5. c.pending = {p \in t.pending : p.kind # k}
  BY <1>3, <1>4
<1>6. c \in TimersOf
  <2>1. c.timer \in [Kind -> Number \cup {0}]
    BY <1>1, <1>3 DEF TimersOf
  <2>2. c.pending \in SUBSET TaskOf /\ c.gen \in Number
    BY <1>1, <1>2, <1>3 DEF TimersOf
  <2> QED BY <1>3, <2>1, <2>2 DEF TimersOf
<1>7. \A j \in Kind : c.timer[j] = IF j = k THEN 0 ELSE t.timer[j]
  BY <1>1, <1>3 DEF TimersOf
<1>8. WF(c)
  <2>1. \A j, i \in Kind : c.timer[j] = c.timer[i] /\ c.timer[j] # 0 => j = i
    BY <1>7 DEF WF
  <2>2. \A p \in c.pending : p.kind \in Kind /\ p.kind # k /\ p \in t.pending
    BY <1>2, <1>5 DEF TaskOf
  <2>3. \A p \in c.pending : /\ p.id = c.timer[p.kind]
                             /\ p.gen = IF p.kind = "election" THEN c.gen ELSE 0
    BY <1>3, <1>7, <2>2 DEF WF
  <2> QED BY <1>6, <2>1, <2>3 DEF WF
<1> HIDE DEF c
<1> QED BY <1>3, <1>5, <1>8 DEF c

LEMMA ArmIs ==
  ASSUME NEW t, WF(t), NEW k \in Kind, ~Has(t, k)
  PROVE  /\ WF(Arm(t, k))
         /\ Arm(t, k).gen = t.gen
         /\ \E n : n.kind = k /\ Arm(t, k).pending = t.pending \cup {n}
<1> DEFINE id == FreshId(t)
           n == [kind |-> k, id |-> id, gen |-> IF k = "election" THEN t.gen ELSE 0]
           c == Arm(t, k)
<1>1. t \in TimersOf
  BY DEF WF
<1>2. id \in Number /\ \A j \in Kind : id # t.timer[j]
  BY FreshIdIs
<1>3. /\ c.gen = t.gen /\ c.timer = [t.timer EXCEPT ![k] = id]
      /\ c.pending = t.pending \cup {n}
      /\ c = [gen |-> c.gen, timer |-> c.timer, pending |-> c.pending]
  BY DEF Arm
<1>4. n \in TaskOf /\ n.kind = k /\ n.id = id /\ n.gen = IF k = "election" THEN t.gen ELSE 0
  BY <1>1, <1>2 DEF TaskOf, TimersOf
<1> HIDE DEF n, id, c
<1>5. \A j \in Kind : c.timer[j] = IF j = k THEN id ELSE t.timer[j]
  BY <1>1, <1>3 DEF TimersOf
<1>6. c \in TimersOf
  <2>1. c.timer \in [Kind -> Number \cup {0}]
    BY <1>1, <1>2, <1>3 DEF TimersOf
  <2>2. c.pending \in SUBSET TaskOf /\ c.gen \in Number
    BY <1>1, <1>3, <1>4 DEF TimersOf
  <2> QED BY <1>3, <2>1, <2>2 DEF TimersOf
<1>7. \A j, i \in Kind : c.timer[j] = c.timer[i] /\ c.timer[j] # 0 => j = i
  BY <1>2, <1>5 DEF WF
<1>8. \A p \in t.pending : p.kind \in Kind /\ p.kind # k
  BY <1>1 DEF Has, TimersOf, TaskOf
<1>9. \A p \in c.pending : /\ p.id = c.timer[p.kind]
                           /\ p.gen = IF p.kind = "election" THEN c.gen ELSE 0
  BY <1>3, <1>4, <1>5, <1>8 DEF WF
<1>10. WF(c)
  BY <1>6, <1>7, <1>9 DEF WF
<1> QED BY <1>3, <1>4, <1>10 DEF c

LEMMA CancelElectionIs ==
  ASSUME NEW t, WF(t)
  PROVE  LET c == CancelElectionTimer(t) IN
         /\ WF(c) /\ c.gen # callback.gen
         /\ c.pending = {p \in t.pending : p.kind # "election"}
<1> DEFINE g == FreshGen(t)
           s == [gen |-> g, timer |-> t.timer,
                 pending |-> {p \in t.pending : p.kind # "election"}]
           c == CancelElectionTimer(t)
<1>0. t \in TimersOf
  BY DEF WF
<1>1. g \in Number /\ g # callback.gen
  BY FreshGenIs
<1>2. \A p \in t.pending : p \in TaskOf /\ p.id = t.timer[p.kind] /\ p.id # 0
  BY <1>0, NumberAssumption DEF WF, TimersOf, TaskOf
<1>3. [t EXCEPT !.gen = g] = [gen |-> g, timer |-> t.timer, pending |-> t.pending]
  <2> HIDE DEF g
  <2> QED BY <1>0 DEF TimersOf
<1> HIDE DEF g
<1>4. WF(s)
  <2>1. s \in TimersOf
    BY <1>0, <1>1 DEF TimersOf
  <2> QED BY <2>1 DEF WF
<1>5. \A p \in t.pending : p.id # t.timer["election"] <=> p.kind # "election"
  BY <1>0, <1>2 DEF WF, TaskOf, Kind
<1>6. c = CancelTimer(s, "election")
  <2>1. {p \in t.pending : p.id # t.timer["election"]}
        = {p \in {q \in t.pending : q.kind # "election"} : p.id # t.timer["election"]}
    BY <1>5
  <2>2. c = CancelTimer([gen |-> g, timer |-> t.timer, pending |-> t.pending], "election")
    BY <1>3 DEF CancelElectionTimer, g
  <2>3. c = [gen |-> g, timer |-> [t.timer EXCEPT !["election"] = 0],
             pending |-> {p \in t.pending : p.id # t.timer["election"]}]
    BY <2>2 DEF CancelTimer
  <2>4. CancelTimer(s, "election")
        = [gen |-> g, timer |-> [t.timer EXCEPT !["election"] = 0],
           pending |-> {p \in {q \in t.pending : q.kind # "election"} : p.id # t.timer["election"]}]
    BY DEF CancelTimer
  <2> QED BY <2>1, <2>3, <2>4
<1>7. /\ WF(CancelTimer(s, "election"))
      /\ CancelTimer(s, "election").gen = s.gen
      /\ CancelTimer(s, "election").pending = {p \in s.pending : p.kind # "election"}
  BY <1>4, CancelIs DEF Kind
<1> HIDE DEF c
<1>8. c.gen = g /\ c.pending = {p \in t.pending : p.kind # "election"} /\ WF(c)
  BY <1>6, <1>7
<1> QED BY <1>1, <1>8 DEF c

\* What the critical sections do, in terms of which timers are armed.
LEMMA ResetElectionIs ==
  ASSUME NEW t, WF(t), NEW r
  PROVE  LET c == ResetElectionTimer(t, r) IN
         /\ WF(c) /\ c.gen # callback.gen
         /\ \A k \in Kind : Has(c, k) <=> IF k = "election" THEN running /\ r # "Leader" ELSE Has(t, k)
<1> DEFINE e == CancelElectionTimer(t)
           c == ResetElectionTimer(t, r)
<1>1. WF(e) /\ e.gen # callback.gen /\ e.pending = {p \in t.pending : p.kind # "election"}
  BY CancelElectionIs
<1>2. \A k \in Kind : Has(e, k) <=> k # "election" /\ Has(t, k)
  BY <1>1 DEF Has
<1> HIDE DEF e
<1>3. CASE ~running \/ r = "Leader"
  <2>1. c = e
    BY <1>3 DEF ResetElectionTimer, e
  <2> QED BY <1>1, <1>2, <1>3, <2>1
<1>4. CASE ~(~running \/ r = "Leader")
  <2>1. c = Arm(e, "election")
    BY <1>4 DEF ResetElectionTimer, e
  <2>2. WF(c) /\ c.gen = e.gen /\ \E n : n.kind = "election" /\ c.pending = e.pending \cup {n}
    BY <1>1, <1>2, <2>1, ArmIs DEF Kind
  <2>3. \A k \in Kind : Has(c, k) <=> k = "election" \/ Has(e, k)
    BY <2>2 DEF Has
  <2> QED BY <1>1, <1>2, <1>4, <2>2, <2>3
<1> QED BY <1>3, <1>4

LEMMA CancelTimerIs ==
  ASSUME NEW t, WF(t), NEW k \in Kind
  PROVE  /\ WF(CancelTimer(t, k)) /\ CancelTimer(t, k).gen = t.gen
         /\ \A j \in Kind : Has(CancelTimer(t, k), j) <=> j # k /\ Has(t, j)
<1> DEFINE c == CancelTimer(t, k)
<1>1. WF(c) /\ c.gen = t.gen /\ c.pending = {p \in t.pending : p.kind # k}
  BY CancelIs
<1> HIDE DEF c
<1>2. \A j \in Kind : Has(c, j) <=> j # k /\ Has(t, j)
  BY <1>1 DEF Has
<1> QED BY <1>1, <1>2 DEF c

\* ResetHeartbeatTimerLocked of a leader, and ResetSnapshotTimerLocked when
\* snapshots are enabled.
LEMMA RearmIs ==
  ASSUME NEW t, WF(t), NEW k \in Kind
  PROVE  LET c == Arm(CancelTimer(t, k), k) IN
         WF(c) /\ c.gen = t.gen /\ \A j \in Kind : Has(c, j) <=> j = k \/ Has(t, j)
<1> DEFINE e == CancelTimer(t, k)
           c == Arm(e, k)
<1>1. WF(e) /\ e.gen = t.gen /\ \A j \in Kind : Has(e, j) <=> j # k /\ Has(t, j)
  BY CancelTimerIs
<1> HIDE DEF e
<1>2. WF(c) /\ c.gen = e.gen /\ \E n : n.kind = k /\ c.pending = e.pending \cup {n}
  BY <1>1, ArmIs
<1> HIDE DEF c
<1>3. \A j \in Kind : Has(c, j) <=> j = k \/ Has(e, j)
  BY <1>2 DEF Has
<1> QED BY <1>1, <1>2, <1>3 DEF c, e

LEMMA ResetSnapshotIs ==
  ASSUME NEW t, WF(t)
  PROVE  LET c == ResetSnapshotTimer(t) IN
         /\ WF(c) /\ c.gen = t.gen
         /\ \A j \in Kind : Has(c, j) <=> IF j = "snapshot" THEN Snapshotting ELSE Has(t, j)
<1>1. CASE Snapshotting
  BY <1>1, RearmIs DEF ResetSnapshotTimer, Kind
<1>2. CASE ~Snapshotting
  BY <1>2, CancelTimerIs DEF ResetSnapshotTimer, Kind
<1> QED BY <1>1, <1>2

LEMMA CancelElectionHas ==
  ASSUME NEW t, WF(t)
  PROVE  LET c == CancelElectionTimer(t) IN
         WF(c) /\ \A k \in Kind : Has(c, k) <=> k # "election" /\ Has(t, k)
<1> DEFINE c == CancelElectionTimer(t)
<1>1. WF(c) /\ c.pending = {p \in t.pending : p.kind # "election"}
  BY CancelElectionIs
<1> HIDE DEF c
<1> QED BY <1>1 DEF c, Has

LEMMA SetTimersIs ==
  ASSUME NEW c, WF(c), SetTimers(c)
  PROVE  Timers' = c
BY DEF SetTimers, Timers, WF, TimersOf

----------------------------------------------------------------------------
(* The invariant *)

\* TimersInv in terms of which timers are armed.
HasInv ==
  /\ TypeInv /\ WF(Timers)
  /\ Has(Timers, "election") => role # "Leader"
  /\ Has(Timers, "heartbeat") => role = "Leader"
  /\ life = "up" /\ role # "Leader" =>
       \/ Has(Timers, "election") \/ In("election", "start")
       \/ In("election", "called") /\ callback.gen = gen
  /\ life \in {"starting", "up"} /\ role = "Leader" =>
       Has(Timers, "heartbeat") \/ callback.kind = "heartbeat"
  /\ life = "up" /\ Snapshotting => Has(Timers, "snapshot") \/ callback.kind = "snapshot"
  /\ life \in {"cancelled", "joining", "stopped"} => \A k \in Kind : ~Has(Timers, k)
  /\ In("election", "called") /\ callback.gen = gen => ~Has(Timers, "election")

LEMMA HasInvIs == HasInv <=> TimersInv
<1>1. \A k : Armed(k) <=> Has(Timers, k)
  BY DEF Armed, Has, Timers
<1>2. WF(Timers) => (pending = {} <=> \A k \in Kind : ~Has(Timers, k))
  BY DEF WF, TimersOf, TaskOf, Timers, Has
<1> QED BY <1>1, <1>2 DEF HasInv, TimersInv, NeverStranded, QuietAfterStop, In

LEMMA InitInv == TimersInit => HasInv
<1> SUFFICES ASSUME TimersInit PROVE HasInv
  OBVIOUS
<1>1. gen \in Number
  BY Three DEF TimersInit
<1>2. Timers \in TimersOf /\ WF(Timers)
  BY <1>1 DEF TimersInit, WF, TimersOf, Timers
<1>3. \A k : ~Has(Timers, k)
  BY DEF TimersInit, Timers, Has
<1>4. TypeInv
  BY DEF TimersInit, TypeInv, CallbackOf, NoCallback
<1> QED BY <1>2, <1>3, <1>4 DEF HasInv, TimersInit

\* Steps that leave the timers alone.
LEMMA LifeInv ==
  ASSUME HasInv,
         StartNode \/ StartFails \/ StopNode \/ StopScheduler \/ SchedulerStopped
           \/ SendHeartbeats \/ UNCHANGED nodeTimerVars
  PROVE  HasInv'
<1>1. CASE SchedulerStopped
  <2>1. pending = {}
    BY <1>1, HasInvIs DEF SchedulerStopped, TimersInv, QuietAfterStop
  <2>2. Timers' = Timers
    BY <1>1, <2>1 DEF SchedulerStopped, Timers
  <2> QED BY <1>1, <2>2 DEF HasInv, TypeInv, SchedulerStopped, In
<1>2. CASE SendHeartbeats
  <2>1. Timers' = Timers
    BY <1>2 DEF SendHeartbeats, Timers
  <2>2. /\ callback' = [callback EXCEPT !.at = "rearm"] /\ callback \in CallbackOf
        /\ callback.kind = "heartbeat"
    BY <1>2 DEF SendHeartbeats, In, HasInv, TypeInv
  <2>3. callback' \in CallbackOf /\ callback'.kind = "heartbeat"
    BY <2>2 DEF CallbackOf
  <2> QED BY <1>2, <2>1, <2>2, <2>3 DEF HasInv, TypeInv, SendHeartbeats, In
<1>3. CASE StartNode \/ StartFails \/ StopNode \/ StopScheduler \/ UNCHANGED nodeTimerVars
  <2>1. Timers' = Timers
    BY <1>3 DEF StartNode, StartFails, StopNode, StopScheduler, nodeTimerVars, Timers
  <2>2. TypeInv'
    BY <1>3 DEF HasInv, TypeInv, StartNode, StartFails, StopNode, StopScheduler, nodeTimerVars
  <2>3. StartNode => role = "Follower"
    BY DEF HasInv, TypeInv, StartNode
  <2> QED BY <1>3, <2>1, <2>2, <2>3 DEF HasInv, StartNode, StartFails, StopNode, StopScheduler, nodeTimerVars, In
<1> QED BY <1>1, <1>2, <1>3

\* Steps that arm or cancel.
LEMMA HandlerInv ==
  ASSUME HasInv,
         StartTimers \/ CancelTimers \/ Heard \/ BecomeFollower \/ BecomeLeader
  PROVE  HasInv'
<1>0. WF(Timers) /\ TypeInv
  BY DEF HasInv
<1>1. CASE StartTimers
  <2> DEFINE c == ResetElectionTimer(Timers, role)
             d == ResetSnapshotTimer(c)
  <2>1. /\ WF(c) /\ c.gen # callback.gen
        /\ \A k \in Kind : Has(c, k) <=> IF k = "election" THEN running /\ role # "Leader"
                                                          ELSE Has(Timers, k)
    BY <1>0, ResetElectionIs
  <2> HIDE DEF c
  <2>2. /\ WF(d) /\ d.gen = c.gen
        /\ \A k \in Kind : Has(d, k) <=> IF k = "snapshot" THEN Snapshotting ELSE Has(c, k)
    BY <2>1, ResetSnapshotIs
  <2> HIDE DEF d
  <2>3. Timers' = d /\ gen' = d.gen
    BY <1>1, <2>2, SetTimersIs DEF StartTimers, SetTimers, c, d
  <2>4. TypeInv'
    BY <1>0, <1>1 DEF TypeInv, StartTimers
  <2> QED BY <1>0, <1>1, <2>1, <2>2, <2>3, <2>4 DEF HasInv, TypeInv, StartTimers, Kind, In
<1>2. CASE CancelTimers
  <2> DEFINE a == CancelElectionTimer(Timers)
             b == CancelTimer(a, "heartbeat")
             c == CancelTimer(b, "snapshot")
  <2>1. WF(a) /\ \A k \in Kind : Has(a, k) <=> k # "election" /\ Has(Timers, k)
    BY <1>0, CancelElectionHas
  <2> HIDE DEF a
  <2>2. WF(b) /\ \A k \in Kind : Has(b, k) <=> k # "heartbeat" /\ Has(a, k)
    BY <2>1, CancelTimerIs DEF Kind
  <2> HIDE DEF b
  <2>3. WF(c) /\ \A k \in Kind : Has(c, k) <=> k # "snapshot" /\ Has(b, k)
    BY <2>2, CancelTimerIs DEF Kind
  <2> HIDE DEF c
  <2>4. Timers' = c
    BY <1>2, <2>3, SetTimersIs DEF CancelTimers, a, b, c
  <2>5. TypeInv'
    BY <1>0, <1>2 DEF TypeInv, CancelTimers
  <2> QED BY <1>2, <2>1, <2>2, <2>3, <2>4, <2>5 DEF HasInv, CancelTimers, Kind, In
<1>3. CASE Heard
  <2> DEFINE c == ResetElectionTimer(Timers, role)
  <2>1. /\ WF(c) /\ c.gen # callback.gen
        /\ \A k \in Kind : Has(c, k) <=> IF k = "election" THEN running /\ role # "Leader"
                                                          ELSE Has(Timers, k)
    BY <1>0, ResetElectionIs
  <2> HIDE DEF c
  <2>2. Timers' = c /\ gen' = c.gen
    BY <1>3, <2>1, SetTimersIs DEF Heard, SetTimers, c
  <2>3. TypeInv'
    BY <1>0, <1>3 DEF TypeInv, Heard
  <2> QED BY <1>0, <1>3, <2>1, <2>2, <2>3 DEF HasInv, TypeInv, Heard, Kind, In
<1>4. CASE BecomeFollower
  <2> DEFINE b == CancelTimer(Timers, "heartbeat")
             c == ResetElectionTimer(b, "Follower")
  <2>1. WF(b) /\ \A k \in Kind : Has(b, k) <=> k # "heartbeat" /\ Has(Timers, k)
    BY <1>0, CancelTimerIs DEF Kind
  <2> HIDE DEF b
  <2>2. /\ WF(c) /\ c.gen # callback.gen
        /\ \A k \in Kind : Has(c, k) <=> IF k = "election" THEN running ELSE Has(b, k)
    BY <2>1, ResetElectionIs
  <2> HIDE DEF c
  <2>3. Timers' = c /\ gen' = c.gen
    BY <1>4, <2>2, SetTimersIs DEF BecomeFollower, SetTimers, b, c
  <2>4. TypeInv'
    BY <1>0, <1>4 DEF TypeInv, BecomeFollower
  <2> QED BY <1>0, <1>4, <2>1, <2>2, <2>3, <2>4 DEF HasInv, TypeInv, BecomeFollower, Kind, In
<1>5. CASE BecomeLeader
  <2> DEFINE b == CancelElectionTimer(Timers)
             c == ResetHeartbeatTimer(b, "Leader")
  <2>1. WF(b) /\ \A k \in Kind : Has(b, k) <=> k # "election" /\ Has(Timers, k)
    BY <1>0, CancelElectionHas
  <2> HIDE DEF b
  <2>2. WF(c) /\ \A k \in Kind : Has(c, k) <=> k = "heartbeat" \/ Has(b, k)
    BY <2>1, RearmIs DEF ResetHeartbeatTimer, Kind
  <2> HIDE DEF c
  <2>3. Timers' = c /\ gen' = c.gen
    BY <1>5, <2>2, SetTimersIs DEF BecomeLeader, SetTimers, b, c
  <2>4. TypeInv'
    BY <1>0, <1>5 DEF TypeInv, BecomeLeader
  <2> QED BY <1>0, <1>5, <2>1, <2>2, <2>3, <2>4 DEF HasInv, TypeInv, BecomeLeader, Kind, In
<1> QED BY <1>1, <1>2, <1>3, <1>4, <1>5

\* The scheduler thread takes a task.
LEMMA DequeueInv ==
  ASSUME HasInv, NEW k \in Kind, Dequeue(k)
  PROVE  HasInv'
<1>0. WF(Timers) /\ TypeInv /\ TimersInv
  BY HasInvIs DEF HasInv
<1>1. PICK p \in pending : /\ p.kind = k /\ pending' = pending \ {p}
                           /\ callback' = [kind |-> k, gen |-> p.gen, at |-> "called"]
  BY DEF Dequeue
<1>2. /\ callback = NoCallback /\ life \in {"starting", "up", "stopping", "cancelled"}
      /\ UNCHANGED <<life, running, role, gen, timer>>
  BY DEF Dequeue
<1>3. /\ \A q \in pending : q \in TaskOf /\ q.id = timer[q.kind]
      /\ \A q \in pending : q.gen = IF q.kind = "election" THEN gen ELSE 0
      /\ gen \in Number /\ Timers \in TimersOf
  BY <1>0 DEF WF, TimersOf, Timers
<1>4. \A q \in pending : q.kind = k => q = p
  BY <1>1, <1>3 DEF TaskOf
<1>5. WF(Timers')
  <2>1. Timers' \in TimersOf
    BY <1>1, <1>2, <1>3 DEF Timers, TimersOf
  <2> QED BY <1>0, <1>1, <1>2, <2>1 DEF WF, Timers
<1>6. \A j \in Kind : Has(Timers, j)' <=> j # k /\ Has(Timers, j)
  BY <1>1, <1>4 DEF Has, Timers
<1>7. /\ callback' \in CallbackOf /\ callback'.kind = k /\ callback'.at = "called"
      /\ k = "election" => callback'.gen = gen
  BY <1>1, <1>3 DEF CallbackOf, TaskOf
<1>8. TypeInv'
  BY <1>0, <1>2, <1>7 DEF TypeInv
<1>9. callback.kind = "none"
  BY <1>2 DEF NoCallback
<1> QED BY <1>0, <1>2, <1>5, <1>6, <1>7, <1>8, <1>9 DEF HasInv, In, Kind

\* The callbacks that arm or cancel.
LEMMA CallbackInv ==
  ASSUME HasInv, OnElectionTimeout \/ StartElection \/ RearmHeartbeat \/ OnSnapshotTimer
  PROVE  HasInv'
<1>0. WF(Timers) /\ TypeInv
  BY DEF HasInv
<1>n. NoCallback \in CallbackOf /\ NoCallback.kind = "none"
  BY DEF NoCallback, CallbackOf
<1>1. CASE OnElectionTimeout
  <2>1. CASE running /\ callback.gen = gen /\ role # "Leader"
    <3>1. /\ timer' = [timer EXCEPT !["election"] = 0] /\ callback' = [callback EXCEPT !.at = "start"]
          /\ UNCHANGED <<life, running, role, gen, pending>> /\ In("election", "called")
      BY <1>1, <2>1 DEF OnElectionTimeout
    <3>2. callback' \in CallbackOf /\ callback'.kind = "election" /\ callback'.at = "start"
      BY <1>0, <3>1 DEF TypeInv, CallbackOf, In
    <3>3. ~Has(Timers, "election")
      BY <2>1, <3>1 DEF HasInv
    <3>4. \A p \in pending : p.kind \in Kind /\ p.kind # "election"
      BY <1>0, <3>3 DEF Has, Timers, WF, TimersOf, TaskOf
    <3>5. WF(Timers')
      <4>1. timer' \in [Kind -> Number \cup {0}]
        BY <1>0, <3>1 DEF WF, TimersOf, Timers
      <4>2. Timers' \in TimersOf
        BY <1>0, <3>1, <4>1 DEF WF, TimersOf, Timers
      <4>3. \A k \in Kind : timer'[k] = IF k = "election" THEN 0 ELSE timer[k]
        BY <1>0, <3>1 DEF WF, TimersOf, Timers
      <4> QED BY <1>0, <3>1, <3>4, <4>2, <4>3 DEF WF, Timers
    <3>6. \A k : Has(Timers, k)' <=> Has(Timers, k)
      BY <3>1 DEF Has, Timers
    <3> QED BY <1>0, <2>1, <3>1, <3>2, <3>5, <3>6 DEF HasInv, TypeInv, In
  <2>2. CASE ~(running /\ callback.gen = gen /\ role # "Leader")
    <3>1. Timers' = Timers /\ callback' = NoCallback /\ UNCHANGED <<life, running, role, gen>>
      BY <1>1, <2>2 DEF OnElectionTimeout, Timers
    <3> QED BY <1>0, <1>1, <1>n, <2>2, <3>1 DEF HasInv, TypeInv, In, OnElectionTimeout
  <2> QED BY <2>1, <2>2
<1>2. CASE StartElection
  <2>1. CASE (~running \/ role = "Leader") /\ UNCHANGED <<role, gen, timer, pending>>
    <3>1. Timers' = Timers
      BY <2>1 DEF Timers
    <3> QED BY <1>0, <1>2, <1>n, <2>1, <3>1 DEF HasInv, TypeInv, In, StartElection
  <2>2. CASE /\ running /\ role # "Leader" /\ role' \in {"Candidate", role}
             /\ SetTimers(ResetElectionTimer(Timers, role'))
    <3> DEFINE c == ResetElectionTimer(Timers, role')
    <3>1. WF(c) /\ \A k \in Kind : Has(c, k) <=> IF k = "election" THEN running /\ role' # "Leader"
                                                                  ELSE Has(Timers, k)
      BY <1>0, ResetElectionIs
    <3> HIDE DEF c
    <3>2. Timers' = c
      BY <2>2, <3>1, SetTimersIs DEF c
    <3>3. role' # "Leader" /\ TypeInv'
      BY <1>0, <1>2, <1>n, <2>2 DEF TypeInv, StartElection
    <3> QED BY <1>0, <1>2, <1>n, <2>2, <3>1, <3>2, <3>3 DEF HasInv, TypeInv, In, StartElection, Kind
  <2> QED BY <1>2, <2>1, <2>2 DEF StartElection
<1>3. CASE RearmHeartbeat
  <2>1. CASE running /\ role = "Leader"
    <3> DEFINE c == ResetHeartbeatTimer(Timers, role)
    <3>1. WF(c) /\ \A k \in Kind : Has(c, k) <=> k = "heartbeat" \/ Has(Timers, k)
      BY <1>0, <2>1, RearmIs DEF ResetHeartbeatTimer, Kind
    <3> HIDE DEF c
    <3>2. Timers' = c
      BY <1>3, <2>1, <3>1, SetTimersIs DEF RearmHeartbeat, c
    <3> QED BY <1>0, <1>3, <1>n, <2>1, <3>1, <3>2 DEF HasInv, TypeInv, In, RearmHeartbeat, Kind
  <2>2. CASE ~(running /\ role = "Leader")
    <3>1. Timers' = Timers
      BY <1>3, <2>2 DEF RearmHeartbeat, Timers
    <3> QED BY <1>0, <1>3, <1>n, <2>2, <3>1 DEF HasInv, TypeInv, In, RearmHeartbeat
  <2> QED BY <2>1, <2>2
<1>4. CASE OnSnapshotTimer
  <2>1. CASE running
    <3> DEFINE c == ResetSnapshotTimer(Timers)
    <3>1. /\ WF(c)
          /\ \A k \in Kind : Has(c, k) <=> IF k = "snapshot" THEN Snapshotting ELSE Has(Timers, k)
      BY <1>0, ResetSnapshotIs
    <3> HIDE DEF c
    <3>2. Timers' = c
      BY <1>4, <2>1, <3>1, SetTimersIs DEF OnSnapshotTimer, c
    <3> QED BY <1>0, <1>4, <1>n, <2>1, <3>1, <3>2 DEF HasInv, TypeInv, In, OnSnapshotTimer, Kind
  <2>2. CASE ~running
    <3>1. Timers' = Timers
      BY <1>4, <2>2 DEF OnSnapshotTimer, Timers
    <3> QED BY <1>0, <1>4, <1>n, <2>2, <3>1 DEF HasInv, TypeInv, In, OnSnapshotTimer
  <2> QED BY <2>1, <2>2
<1> QED BY <1>1, <1>2, <1>3, <1>4

LEMMA NextInv == HasInv /\ [TimersNext]_nodeTimerVars => HasInv'
BY LifeInv, HandlerInv, DequeueInv, CallbackInv DEF TimersNext, Callback

LEMMA TimersInvariant == TimersSpec => []HasInv
<1>1. TimersInit => HasInv
  BY InitInv
<1>2. HasInv /\ [TimersNext]_nodeTimerVars => HasInv'
  BY NextInv
<1> QED BY <1>1, <1>2, PTL DEF TimersSpec

----------------------------------------------------------------------------
(* Theorems *)

\* Whatever handlers, callbacks and Stop do in between, each task in the
\* scheduler is the one its id names, so CancelElectionTimerLocked and the other
\* cancellations reach it; an election timer carries the current generation, and
\* only leaders beat.
THEOREM EveryTimerOwned == TimersSpec => []TimersOwned
<1>1. HasInv => TimersOwned
  <2> SUFFICES ASSUME HasInv, NEW p \in pending
               PROVE  /\ p.id = timer[p.kind] /\ \A q \in pending : q.kind = p.kind => q = p
                      /\ p.kind = "election" => p.gen = gen /\ role # "Leader"
                      /\ p.kind = "heartbeat" => role = "Leader"
    BY DEF TimersOwned
  <2>1. \A q \in pending : /\ q \in TaskOf /\ q.id = timer[q.kind]
                           /\ q.gen = IF q.kind = "election" THEN gen ELSE 0
    BY DEF HasInv, WF, TimersOf, Timers
  <2>2. \A q \in pending : q.kind = p.kind => q = p
    BY <2>1 DEF TaskOf
  <2>3. Has(Timers, p.kind)
    BY DEF Has, Timers
  <2> QED BY <2>1, <2>2, <2>3 DEF HasInv
<1> QED BY <1>1, TimersInvariant, PTL

\* No order of handlers, role changes and callbacks leaves a node that is up
\* without the timer its role lives on (ResetElectionTimerLocked, the heartbeat
\* callback, OnSnapshotTimer).
THEOREM NodeNeverStranded == TimersSpec => []NeverStranded
<1>1. HasInv => NeverStranded
  BY HasInvIs DEF TimersInv
<1> QED BY <1>1, TimersInvariant, PTL

\* Once Stop has cancelled the timers, nothing is armed again.
THEOREM StopIsQuiet == TimersSpec => []QuietAfterStop
<1>1. HasInv => QuietAfterStop
  BY HasInvIs DEF TimersInv
<1> QED BY <1>1, TimersInvariant, PTL
=============================================================================
