----------------------------- MODULE NodeTimers -----------------------------
(***************************************************************************)
(* The timers of one RaftNode (src/modules/raft/node/raft_node.cpp): the   *)
(* election, heartbeat and snapshot timers, the callbacks the scheduler    *)
(* thread runs for them, the handlers and pool tasks that re-arm or cancel *)
(* them, and Start and Stop.                                               *)
(*                                                                         *)
(* One action is one critical section of RaftNode::mu_, or one step of the *)
(* scheduler thread.  The scheduler is used as TimerScheduler describes    *)
(* it: a pending task is dequeued, and after that Cancel no longer reaches *)
(* it; callbacks run one at a time.  Terms, logs and messages are left     *)
(* out: a handler is known by what it does to the role and to the timers.  *)
(*                                                                         *)
(* Task ids and election_timer_generation_ only serve to be compared, so a *)
(* number nothing refers to any more is given again.  That keeps the model *)
(* finite without a bound on the number of timers.                         *)
(***************************************************************************)
EXTENDS Naturals

CONSTANTS
  Number,       \* the numbers that ids and generations are taken from
  Snapshotting  \* snapshots are enabled, with a positive interval

\* Three numbers never use up Number.
ASSUME NumberAssumption ==
  /\ Number \subseteq Nat \ {0} /\ Number # {}
  /\ \A a, b, c \in Number : \E i \in Number : i \notin {a, b, c}
  /\ Snapshotting \in BOOLEAN

VARIABLES
  life,      \* "new", "starting", "up", "stopping", "cancelled", "joining", "stopped", "failed"
  running,   \* running_
  role,      \* role_
  gen,       \* election_timer_generation_
  timer,     \* timer[k]: election_timer_id_, heartbeat_timer_id_, snapshot_timer_id_; 0: none
  pending,   \* the tasks in the scheduler
  callback   \* the callback the scheduler thread is in

nodeTimerVars == <<life, running, role, gen, timer, pending, callback>>

Kind == {"election", "heartbeat", "snapshot"}

NoCallback == [kind |-> "none", gen |-> 0, at |-> "idle"]

TimersInit ==
  /\ life = "new" /\ running = FALSE /\ role = "Follower"
  /\ gen = CHOOSE g \in Number : TRUE
  /\ timer = [k \in Kind |-> 0] /\ pending = {} /\ callback = NoCallback

----------------------------------------------------------------------------
(* Arming and cancelling.  These operators work on t = [gen, timer, pending], *)
(* so that a critical section can do several of them.                        *)

Timers == [gen |-> gen, timer |-> timer, pending |-> pending]

SetTimers(t) == gen' = t.gen /\ timer' = t.timer /\ pending' = t.pending

FreshId(t) == CHOOSE i \in Number : i \notin {p.id : p \in t.pending} \cup {t.timer[k] : k \in Kind}

FreshGen(t) == CHOOSE g \in Number : g \notin {p.gen : p \in t.pending} \cup {t.gen, callback.gen}

\* scheduler_.Cancel misses a task that has been dequeued.
CancelTimer(t, k) ==
  [gen |-> t.gen, timer |-> [t.timer EXCEPT ![k] = 0],
   pending |-> {p \in t.pending : p.id # t.timer[k]}]

Arm(t, k) ==
  LET id == FreshId(t)
  IN  [gen |-> t.gen, timer |-> [t.timer EXCEPT ![k] = id],
       pending |-> t.pending \cup {[kind |-> k, id |-> id,
                                    gen |-> IF k = "election" THEN t.gen ELSE 0]}]

CancelElectionTimer(t) == CancelTimer([t EXCEPT !.gen = FreshGen(t)], "election")

ResetElectionTimer(t, newRole) ==
  LET c == CancelElectionTimer(t)
  IN  IF ~running \/ newRole = "Leader" THEN c ELSE Arm(c, "election")

\* Fault variant: a leader that has the id of a timer keeps it.
ResetHeartbeatTimerOnce(t, newRole) ==
  IF newRole # "Leader" \/ t.timer["heartbeat"] # 0 THEN t ELSE Arm(t, "heartbeat")

ResetHeartbeatTimer(t, newRole) ==
  LET c == CancelTimer(t, "heartbeat")
  IN  IF newRole = "Leader" THEN Arm(c, "heartbeat") ELSE c

ResetSnapshotTimer(t) ==
  LET c == CancelTimer(t, "snapshot")
  IN  IF Snapshotting THEN Arm(c, "snapshot") ELSE c

----------------------------------------------------------------------------
(* Start and Stop *)

\* Start up to InitServer: from now on handlers run.
StartNode ==
  /\ life = "new" /\ life' = "starting" /\ running' = TRUE
  /\ UNCHANGED <<role, gen, timer, pending, callback>>

\* InitServer cannot bind its port: Start throws.
StartFails ==
  /\ life = "new" /\ life' = "failed"
  /\ UNCHANGED <<running, role, gen, timer, pending, callback>>

StartTimers ==
  /\ life = "starting" /\ life' = "up"
  /\ SetTimers(ResetSnapshotTimer(ResetElectionTimer(Timers, role)))
  /\ UNCHANGED <<running, role, callback>>

\* running_ is cleared without the lock ...
StopNode ==
  /\ life = "up" /\ life' = "stopping" /\ running' = FALSE
  /\ UNCHANGED <<role, gen, timer, pending, callback>>

\* Fault variant: the heartbeat timer is left to die out.
CancelTwoTimers ==
  /\ life = "stopping" /\ life' = "cancelled"
  /\ SetTimers(CancelTimer(CancelElectionTimer(Timers), "snapshot"))
  /\ UNCHANGED <<running, role, callback>>

\* ... the timers are cancelled under it ...
CancelTimers ==
  /\ life = "stopping" /\ life' = "cancelled"
  /\ SetTimers(CancelTimer(CancelTimer(CancelElectionTimer(Timers), "heartbeat"), "snapshot"))
  /\ UNCHANGED <<running, role, callback>>

\* ... the server is shut down and scheduler_.Stop waits for the callback.
StopScheduler ==
  /\ life = "cancelled" /\ life' = "joining"
  /\ UNCHANGED <<running, role, gen, timer, pending, callback>>

SchedulerStopped ==
  /\ life = "joining" /\ callback = NoCallback
  /\ life' = "stopped" /\ pending' = {}
  /\ UNCHANGED <<running, role, gen, timer, callback>>

----------------------------------------------------------------------------
(* Handlers and pool tasks *)

\* Handlers and pool tasks run; the pool is stopped after the scheduler.
Serving == life \in {"starting", "up", "stopping", "cancelled", "joining"}

\* A follower hears from its leader, or grants a vote.
Heard ==
  /\ Serving /\ role = "Follower"
  /\ SetTimers(ResetElectionTimer(Timers, role))
  /\ UNCHANGED <<life, running, role, callback>>

\* Fault variant: the heartbeat timer goes on.
BecomeFollowerBeating ==
  /\ Serving /\ role' = "Follower"
  /\ SetTimers(ResetElectionTimer(Timers, "Follower"))
  /\ UNCHANGED <<life, running, callback>>

\* BecomeFollowerLocked: a higher term, or the leader of the candidate's term.
BecomeFollower ==
  /\ Serving /\ role' = "Follower"
  /\ SetTimers(ResetElectionTimer(CancelTimer(Timers, "heartbeat"), "Follower"))
  /\ UNCHANGED <<life, running, callback>>

\* OnElectionWon and BecomeLeaderLocked.
BecomeLeader ==
  /\ Serving /\ running /\ role = "Candidate" /\ role' = "Leader"
  /\ SetTimers(ResetHeartbeatTimer(CancelElectionTimer(Timers), "Leader"))
  /\ UNCHANGED <<life, running, callback>>

----------------------------------------------------------------------------
(* The scheduler thread *)

Dequeue(k) ==
  /\ life \in {"starting", "up", "stopping", "cancelled"} /\ callback = NoCallback
  /\ \E p \in pending : /\ p.kind = k
                         /\ pending' = pending \ {p}
                         /\ callback' = [kind |-> k, gen |-> p.gen, at |-> "called"]
  /\ UNCHANGED <<life, running, role, gen, timer>>

In(k, at) == callback.kind = k /\ callback.at = at

\* OnElectionTimeout checks the generation and leaves the lock ...
OnElectionTimeout ==
  /\ In("election", "called")
  /\ IF running /\ callback.gen = gen /\ role # "Leader"
     THEN timer' = [timer EXCEPT !["election"] = 0] /\ callback' = [callback EXCEPT !.at = "start"]
     ELSE UNCHANGED timer /\ callback' = NoCallback
  /\ UNCHANGED <<life, running, role, gen, pending>>

\* Fault variant: an election that cannot be saved is dropped.
StartElectionOnce ==
  /\ In("election", "start") /\ callback' = NoCallback
  /\ \/ UNCHANGED <<role, gen, timer, pending>>
     \/ /\ running /\ role # "Leader" /\ role' = "Candidate"
        /\ SetTimers(ResetElectionTimer(Timers, "Candidate"))
  /\ UNCHANGED <<life, running>>

\* ... and StartElection looks at the role again, not at the generation.  If the
\* new term cannot be saved the role is as before.
StartElection ==
  /\ In("election", "start") /\ callback' = NoCallback
  /\ \/ /\ ~running \/ role = "Leader"
        /\ UNCHANGED <<role, gen, timer, pending>>
     \/ /\ running /\ role # "Leader" /\ role' \in {"Candidate", role}
        /\ SetTimers(ResetElectionTimer(Timers, role'))
  /\ UNCHANGED <<life, running>>

\* The heartbeat callback: SendHeartbeats ...
SendHeartbeats ==
  /\ In("heartbeat", "called") /\ callback' = [callback EXCEPT !.at = "rearm"]
  /\ UNCHANGED <<life, running, role, gen, timer, pending>>

\* ... and the lock again to arm the next one.
RearmHeartbeat ==
  /\ In("heartbeat", "rearm") /\ callback' = NoCallback
  /\ IF running /\ role = "Leader" THEN SetTimers(ResetHeartbeatTimer(Timers, role))
     ELSE UNCHANGED <<gen, timer, pending>>
  /\ UNCHANGED <<life, running, role>>

OnSnapshotTimer ==
  /\ In("snapshot", "called") /\ callback' = NoCallback
  /\ IF running THEN SetTimers(ResetSnapshotTimer(Timers)) ELSE UNCHANGED <<gen, timer, pending>>
  /\ UNCHANGED <<life, running, role>>

----------------------------------------------------------------------------

Callback ==
  OnElectionTimeout \/ StartElection \/ SendHeartbeats \/ RearmHeartbeat \/ OnSnapshotTimer

TimersNext ==
  \/ StartNode \/ StartFails \/ StartTimers
  \/ StopNode \/ CancelTimers \/ StopScheduler \/ SchedulerStopped
  \/ Heard \/ BecomeFollower \/ BecomeLeader
  \/ \E k \in Kind : Dequeue(k)
  \/ Callback

\* The scheduler thread runs its callbacks, a Start or Stop that has begun goes
\* on, and a timer fires: the scheduler takes tasks in the order of their
\* deadlines, so one that stays armed is taken in the end.  An election timer
\* that messages keep putting off need not fire.
TimersFairness ==
  /\ WF_nodeTimerVars(Callback)
  /\ WF_nodeTimerVars(StartTimers) /\ WF_nodeTimerVars(CancelTimers)
  /\ WF_nodeTimerVars(StopScheduler) /\ WF_nodeTimerVars(SchedulerStopped)
  /\ SF_nodeTimerVars(Dequeue("heartbeat")) /\ SF_nodeTimerVars(Dequeue("snapshot"))
  /\ []<><<Heard \/ BecomeFollower>>_nodeTimerVars \/ SF_nodeTimerVars(Dequeue("election"))

TimersSpec == TimersInit /\ [][TimersNext]_nodeTimerVars /\ TimersFairness

----------------------------------------------------------------------------
(* Properties *)

Armed(k) == \E p \in pending : p.kind = k

\* The node can cancel what is armed: every task in the scheduler is the one its
\* id names, an election timer carries the current generation, and only a leader
\* has a heartbeat timer (CancelElectionTimerLocked, BecomeFollowerLocked).
TimersOwned ==
  \A p \in pending :
    /\ p.id = timer[p.kind] /\ \A q \in pending : q.kind = p.kind => q = p
    /\ p.kind = "election" => p.gen = gen /\ role # "Leader"
    /\ p.kind = "heartbeat" => role = "Leader"

\* A node that is up is never stranded: one that does not lead waits for an
\* election timer or is in its callback, one that leads for a heartbeat timer,
\* and one that takes snapshots for the snapshot timer,
\* whatever role changes fall between the steps of a callback that was already
\* dequeued (ResetElectionTimerLocked, the heartbeat callback, OnSnapshotTimer).
NeverStranded ==
  life = "up" =>
    /\ role # "Leader" => \/ Armed("election") \/ In("election", "start")
                          \/ In("election", "called") /\ callback.gen = gen
    /\ role = "Leader" => Armed("heartbeat") \/ callback.kind = "heartbeat"
    /\ Snapshotting => Armed("snapshot") \/ callback.kind = "snapshot"

\* Once Stop has cancelled the timers nothing arms one again, neither a handler
\* nor a callback that was already running (the running_ checks).
QuietAfterStop == life \in {"cancelled", "joining", "stopped"} => pending = {}

\* A node that is up, does not lead and hears from nobody keeps starting
\* elections, also after elections it could not save (StartElection).
KeepsCampaigning ==
  <>[](life = "up" /\ role # "Leader") /\ <>[][~(Heard \/ BecomeFollower)]_nodeTimerVars
    => []<><<StartElection>>_nodeTimerVars

\* A leader keeps sending heartbeats (the heartbeat callback).
KeepsBeating == <>[](life = "up" /\ role = "Leader") => []<><<SendHeartbeats>>_nodeTimerVars
=============================================================================
