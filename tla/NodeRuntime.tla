----------------------------- MODULE NodeRuntime -----------------------------
(***************************************************************************)
(* The threads of a RaftNode (src/modules/raft/node/raft_node.cpp): its    *)
(* TimerScheduler and its ThreadPool together.                             *)
(*                                                                         *)
(* The scheduler thread is the only thread outside the pool that submits   *)
(* tasks: StartElection and SendHeartbeats run in timer callbacks, and     *)
(* OnElectionWon calls SendHeartbeats from a task.  Handlers, callbacks    *)
(* and tasks schedule and cancel timers.  RaftNode::Stop stops the         *)
(* scheduler and, once its thread has been joined, the pool.  Start starts *)
(* both; until the scheduler runs nobody submits a task, so that is one    *)
(* step.                                                                   *)
(***************************************************************************)
EXTENDS ThreadPool

CONSTANTS MaxTasks, MaxTime, Delay

VARIABLES
  now, heap, nextId, thread, fired, cancelled,  \* as in TimerScheduler
  timerStop,       \* stop_ of the scheduler
  timers,          \* tasks_ of the scheduler
  timerNotifying,  \* calls of ScheduleAfter about to notify
  timerStopping    \* where Stop of the scheduler is

timerVars ==
  <<now, heap, nextId, thread, fired, cancelled, timerStop, timers, timerNotifying, timerStopping>>

Timer == INSTANCE TimerScheduler WITH
  stop <- timerStop, tasks <- timers, notifying <- timerNotifying, stopping <- timerStopping

ASSUME TimerAssumption == MaxTasks \in Nat /\ MaxTime \in Nat /\ Delay \subseteq Nat

NodeInit == Init /\ Timer!Init

\* A timer callback submits a task; it does so only while it runs.
CallbackSubmits ==
  /\ thread.at = "fn"
  /\ \E c \in Client, t \in Task : Submit(c, t)
  /\ UNCHANGED timerVars

\* A task submits another one.
TaskSubmits ==
  /\ \E w \in Worker, t \in Task : Submit(w, t)
  /\ UNCHANGED timerVars

\* A callback that is inside Submit has not returned.
CallbackReturns ==
  /\ Client \cap notifying = {} /\ Timer!Return
  /\ UNCHANGED vars

PoolStep ==
  /\ \/ \E c \in Client \cup Worker : NotifyOne(c)
     \/ \E w \in Worker : WorkerStep(w) \/ SpuriousWakeup(w)
     \/ NotifyAll \/ Joined
  /\ UNCHANGED timerVars

TimerStep ==
  /\ \/ Timer!Tick \/ Timer!NotifyOne \/ Timer!WakeUp
     \/ Timer!Leave \/ Timer!Wait \/ Timer!Fire
     \/ \E d \in Delay : Timer!ScheduleAfter(d)
     \/ \E id \in timers : Timer!Cancel(id)
     \/ Timer!NotifyAll \/ Timer!Joined
  /\ UNCHANGED vars

\* RaftNode::Stop: scheduler_.Stop is called ...
StopTimers ==
  /\ stopping = "no" /\ Timer!Stop
  /\ UNCHANGED vars

\* Fault variant: rpc_pool_.Stop is called while the scheduler's thread ends.
StopPoolEarly ==
  /\ timerStopping # "no" /\ Stop
  /\ UNCHANGED timerVars

\* ... and when it has returned, rpc_pool_.Stop.
StopPool ==
  /\ timerStopping = "returned" /\ Stop
  /\ UNCHANGED timerVars

StartBoth == Start /\ Timer!Start

NodeNext ==
  \/ CallbackSubmits \/ TaskSubmits \/ CallbackReturns
  \/ PoolStep \/ TimerStep
  \/ StopTimers \/ StopPool \/ StartBoth

\* As in the two modules; a Stop of the node that has begun goes on.
NodeSpec ==
  /\ NodeInit /\ [][NodeNext]_<<vars, timerVars>>
  /\ Fairness /\ Timer!Fairness /\ WF_<<vars, timerVars>>(StopPool)

----------------------------------------------------------------------------
(* Properties *)

\* The scheduler thread never sleeps past a deadline (TimerScheduler::Run).
NoOversleep == Timer!NoOversleep

\* A timer whose Cancel returned true never fires, also when callbacks and tasks
\* of the pool cancel and schedule at once (TimerScheduler::Cancel, Run).
CancelWins == Timer!CancelWins

\* Every timer fires, is cancelled, or is dropped by Stop, whatever the callbacks
\* before it submit to the pool (TimerScheduler::Run).
EveryTaskFires == Timer!EveryTaskFires

\* No timer callback finds the pool stopped: an election or a round of heartbeats
\* that has begun is handed to the pool as a whole (the order of the calls in
\* RaftNode::Stop, the join in TimerScheduler::Stop).
CallbacksServed == thread.at = "fn" => ~stop

\* A Stop of the node that has begun returns, whatever the scheduler waits for and
\* whichever callbacks and tasks are running (RaftNode::Stop).
NodeStopReturns == timerStopping = "notify" ~> stopping = "returned"
=============================================================================
