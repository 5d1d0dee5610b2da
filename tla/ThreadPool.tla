----------------------------- MODULE ThreadPool -----------------------------
(***************************************************************************)
(* ThreadPool (src/modules/raft/runtime/thread_pool.cpp), the pool that    *)
(* runs a node's vote requests and heartbeats.                             *)
(*                                                                         *)
(* One action is one critical section of ThreadPool::mu_, or one call on   *)
(* the condition variable made outside it: Submit and Stop notify after    *)
(* they have released the lock.  A worker is "ready" when it is about to   *)
(* take the lock, "asleep" inside cv_.wait, "running" a task, "gone" once  *)
(* WorkerLoop has returned.                                                *)
(*                                                                         *)
(* Tasks are abstract.  Each is submitted once, by another thread or by a  *)
(* task that runs on the pool (OnElectionWon submits heartbeats).  Start   *)
(* and Stop are called by RaftNode::Start and Stop, which the CAS on       *)
(* running_ and their caller keep apart.                                   *)
(***************************************************************************)
EXTENDS Naturals, Sequences

CONSTANTS
  Worker,  \* the pool's threads
  Client,  \* other threads that call Submit
  Task,    \* the tasks they submit
  None     \* "no task"

ASSUME PoolAssumption ==
  Worker # {} /\ Worker \cap Client = {} /\ None \notin Task

VARIABLES
  stop,       \* stop_
  queue,      \* tasks_
  worker,     \* worker[w]: where thread w of workers_ is
  hold,       \* hold[w]: the task w is running
  notifying,  \* threads in Submit between the unlock and notify_one
  stopping,   \* Stop: "no" call, about to "notify", in "join", or "returned"
  accepted,   \* history: tasks pushed by Submit
  dropped,    \* history: tasks Submit ignored
  done        \* history: tasks that have run

vars == <<stop, queue, worker, hold, notifying, stopping, accepted, dropped, done>>

Init ==
  /\ stop = FALSE /\ queue = <<>>
  /\ worker = [w \in Worker |-> "ready"]
  /\ hold = [w \in Worker |-> None]
  /\ notifying = {} /\ stopping = "no"
  /\ accepted = {} /\ dropped = {} /\ done = {}

\* RaftNode::Start on a pool that RaftNode::Stop has stopped.
Start ==
  /\ stopping = "returned"
  /\ stop' = FALSE /\ stopping' = "no"
  /\ worker' = [w \in Worker |-> "ready"]
  /\ UNCHANGED <<queue, hold, notifying, accepted, dropped, done>>

\* A thread may call Submit: a client, or a task that runs on the pool.
MayCall(c) == c \notin notifying /\ (c \in Worker => worker[c] = "running")

\* Fault variant: nobody is notified.
SubmitSilently(c, t) ==
  /\ MayCall(c) /\ t \notin accepted \cup dropped
  /\ ~stop /\ queue' = Append(queue, t) /\ accepted' = accepted \cup {t}
  /\ UNCHANGED <<stop, worker, hold, notifying, stopping, dropped, done>>

\* Submit under the lock.
Submit(c, t) ==
  /\ MayCall(c) /\ t \notin accepted \cup dropped
  /\ \/ /\ stop
        /\ dropped' = dropped \cup {t}
        /\ UNCHANGED <<queue, notifying, accepted>>
     \/ /\ ~stop
        /\ queue' = Append(queue, t) /\ notifying' = notifying \cup {c}
        /\ accepted' = accepted \cup {t}
        /\ UNCHANGED dropped
  /\ UNCHANGED <<stop, worker, hold, stopping, done>>

Asleep == {w \in Worker : worker[w] = "asleep"}

\* The notify_one of Submit: it wakes one sleeper, if there is one.
NotifyOne(c) ==
  /\ c \in notifying
  /\ notifying' = notifying \ {c}
  /\ \/ Asleep = {} /\ UNCHANGED worker
     \/ \E w \in Asleep : worker' = [worker EXCEPT ![w] = "ready"]
  /\ UNCHANGED <<stop, queue, hold, stopping, accepted, dropped, done>>

\* Fault variant: the task is not popped.
TakeCopy(w) ==
  /\ worker[w] = "ready" /\ queue # <<>>
  /\ worker' = [worker EXCEPT ![w] = "running"]
  /\ hold' = [hold EXCEPT ![w] = Head(queue)]
  /\ UNCHANGED <<stop, queue, notifying, stopping, accepted, dropped, done>>

\* WorkerLoop: the wait's predicate holds and a task is taken.
Take(w) ==
  /\ worker[w] = "ready" /\ queue # <<>>
  /\ worker' = [worker EXCEPT ![w] = "running"]
  /\ hold' = [hold EXCEPT ![w] = Head(queue)]
  /\ queue' = Tail(queue)
  /\ UNCHANGED <<stop, notifying, stopping, accepted, dropped, done>>

\* WorkerLoop: nothing to do, cv_.wait releases the lock.
Sleep(w) ==
  /\ worker[w] = "ready" /\ queue = <<>> /\ ~stop
  /\ worker' = [worker EXCEPT ![w] = "asleep"]
  /\ UNCHANGED <<stop, queue, hold, notifying, stopping, accepted, dropped, done>>

\* Fault variant: a worker leaves as soon as the pool is stopped.
ExitAtOnce(w) ==
  /\ worker[w] = "ready" /\ stop
  /\ worker' = [worker EXCEPT ![w] = "gone"]
  /\ UNCHANGED <<stop, queue, hold, notifying, stopping, accepted, dropped, done>>

\* WorkerLoop returns.
Exit(w) ==
  /\ worker[w] = "ready" /\ queue = <<>> /\ stop
  /\ worker' = [worker EXCEPT ![w] = "gone"]
  /\ UNCHANGED <<stop, queue, hold, notifying, stopping, accepted, dropped, done>>

\* The task returns; one inside Submit does not.
Finish(w) ==
  /\ worker[w] = "running" /\ w \notin notifying
  /\ worker' = [worker EXCEPT ![w] = "ready"]
  /\ hold' = [hold EXCEPT ![w] = None]
  /\ done' = done \cup {hold[w]}
  /\ UNCHANGED <<stop, queue, notifying, stopping, accepted, dropped>>

\* A condition variable may wake without being notified.
SpuriousWakeup(w) ==
  /\ worker[w] = "asleep"
  /\ worker' = [worker EXCEPT ![w] = "ready"]
  /\ UNCHANGED <<stop, queue, hold, notifying, stopping, accepted, dropped, done>>

----------------------------------------------------------------------------
(* Stop *)

\* stop_ is set under the lock ...
Stop ==
  /\ stopping = "no"
  /\ stop' = TRUE /\ stopping' = "notify"
  /\ UNCHANGED <<queue, worker, hold, notifying, accepted, dropped, done>>

\* Fault variant: only one worker is woken.
StopNotifiesOne ==
  /\ stopping = "notify" /\ stopping' = "join"
  /\ \/ Asleep = {} /\ UNCHANGED worker
     \/ \E w \in Asleep : worker' = [worker EXCEPT ![w] = "ready"]
  /\ UNCHANGED <<stop, queue, hold, notifying, accepted, dropped, done>>

\* ... then all sleepers are woken ...
NotifyAll ==
  /\ stopping = "notify" /\ stopping' = "join"
  /\ worker' = [w \in Worker |-> IF w \in Asleep THEN "ready" ELSE worker[w]]
  /\ UNCHANGED <<stop, queue, hold, notifying, accepted, dropped, done>>

\* ... and joined.
Joined ==
  /\ stopping = "join" /\ \A w \in Worker : worker[w] = "gone"
  /\ stopping' = "returned"
  /\ UNCHANGED <<stop, queue, worker, hold, notifying, accepted, dropped, done>>

----------------------------------------------------------------------------

WorkerStep(w) == Take(w) \/ Sleep(w) \/ Exit(w) \/ Finish(w)

Next ==
  \/ Start \/ Stop \/ NotifyAll \/ Joined
  \/ \E c \in Client \cup Worker : NotifyOne(c) \/ \E t \in Task : Submit(c, t)
  \/ \E w \in Worker : WorkerStep(w) \/ SpuriousWakeup(w)

\* A thread that can move does: every worker runs its loop and every task ends
\* (the RPCs of a task have deadlines, ReplicateLogEntryToMajority has one), a
\* Submit or a Stop that has begun goes on.  Nobody has to call them.
Fairness ==
  /\ \A w \in Worker : WF_vars(WorkerStep(w))
  /\ \A c \in Client \cup Worker : WF_vars(NotifyOne(c))
  /\ WF_vars(NotifyAll) /\ WF_vars(Joined)

Spec == Init /\ [][Next]_vars /\ Fairness

----------------------------------------------------------------------------
(* Properties *)

Queued == {queue[i] : i \in DOMAIN queue}
Running == {w \in Worker : worker[w] = "running"}
Held == {hold[w] : w \in Running}

\* The types of the members of ThreadPool and of the positions of its threads.
TypeOK ==
  /\ stop \in BOOLEAN /\ queue \in Seq(Task)
  /\ worker \in [Worker -> {"ready", "asleep", "running", "gone"}]
  /\ hold \in [Worker -> Task \cup {None}]
  /\ notifying \subseteq Client \cup Worker
  /\ stopping \in {"no", "notify", "join", "returned"}
  /\ accepted \subseteq Task /\ dropped \subseteq Task /\ done \subseteq Task

\* A task that Submit pushed is in one place: once in the queue, with one worker,
\* or done; what Submit ignored is in none (Submit, WorkerLoop).
ExactlyOnce ==
  /\ accepted = Queued \cup Held \cup done
  /\ Queued \cap Held = {} /\ Queued \cap done = {} /\ Held \cap done = {}
  /\ \A i, j \in DOMAIN queue : queue[i] = queue[j] => i = j
  /\ \A u, w \in Running : hold[u] = hold[w] => u = w
  /\ accepted \cap dropped = {}

\* No wakeup is lost: when work is queued and nobody is up, a notify_one is on
\* its way, and once Stop has notified nobody sleeps (both notify without mu_).
NoLostWakeup ==
  /\ queue # <<>> /\ (\A w \in Worker : worker[w] \in {"asleep", "gone"}) => notifying # {}
  /\ stopping \in {"join", "returned"} => Asleep = {}

\* When Stop returns, everything that was accepted has run ("Queued tasks finish
\* before stop returns", tests/test_thread_pool.cpp; Stop, WorkerLoop).
DrainedByStop == stopping = "returned" => accepted = done /\ queue = <<>>

\* What a user sees of Stop: not called, called, returned.
Phase ==
  IF stopping = "no" THEN "open" ELSE IF stopping = "returned" THEN "closed" ELSE "closing"

Executor == INSTANCE TaskExecutor WITH phase <- Phase

\* The pool is an executor: seen through what it accepted and has run it takes
\* only the steps of TaskExecutor, and all those it owes.
IsExecutor == Executor!Spec
============================================================================
