--------------------------- MODULE TimerScheduler ---------------------------
(***************************************************************************)
(* TimerScheduler (src/modules/raft/runtime/min_heap_timer.cpp): one       *)
(* thread that runs callbacks at their deadlines, and callers that         *)
(* schedule and cancel them.                                               *)
(*                                                                         *)
(* One action is one critical section of TimerScheduler::mu_, or the       *)
(* notify_one that ScheduleAfter sends after it has released the lock.     *)
(* The thread is at "loop" when it is about to take the lock, in "wait"    *)
(* until a time, in "fn" while it runs a callback without the lock, and    *)
(* "gone" when Run has returned.  Time is a counter that may pass at any   *)
(* moment.  Callbacks are abstract: they may call ScheduleAfter and Cancel *)
(* like any other thread.                                                  *)
(***************************************************************************)
EXTENDS Naturals, FiniteSets

CONSTANTS
  MaxTasks,  \* bound on the calls of ScheduleAfter
  MaxTime,   \* bound on the clock, and so on deadlines
  Delay      \* the delays callers ask for

VARIABLES
  now,        \* Clock::now()
  stop,       \* stop_
  heap,       \* heap_: the tasks pushed and not popped, cancelled ones included
  tasks,      \* the keys of tasks_
  nextId,     \* next_id_
  thread,     \* where the thread is; until: the time it waits for; id: its task
  notifying,  \* calls of ScheduleAfter between the unlock and notify_one
  stopping,   \* Stop: "no" call, about to "notify", in "join", or "returned"
  fired,      \* history: tasks whose callback was called
  cancelled   \* history: tasks for which Cancel returned true

vars == <<now, stop, heap, tasks, nextId, thread, notifying, stopping, fired, cancelled>>

Forever == MaxTime + 1

Looping == [at |-> "loop", until |-> 0, id |-> 0]

Init ==
  /\ now = 0 /\ stop = FALSE /\ heap = {} /\ tasks = {} /\ nextId = 1
  /\ thread = Looping /\ notifying = 0 /\ stopping = "no"
  /\ fired = {} /\ cancelled = {}

Tick ==
  /\ now < MaxTime /\ now' = now + 1
  /\ UNCHANGED <<stop, heap, tasks, nextId, thread, notifying, stopping, fired, cancelled>>

----------------------------------------------------------------------------
(* Callers *)

\* Fault variant: the thread is not told of the new task.
ScheduleSilently(delay) ==
  /\ nextId <= MaxTasks /\ now + delay <= MaxTime /\ ~stop
  /\ nextId' = nextId + 1
  /\ heap' = heap \cup {[id |-> nextId, deadline |-> now + delay]}
  /\ tasks' = tasks \cup {nextId}
  /\ UNCHANGED <<now, stop, thread, notifying, stopping, fired, cancelled>>

\* The clock is read, and the id taken, before the lock: the deadline may have
\* passed when the task is pushed.  (Callers hold RaftNode::mu_, so ids are pushed
\* in order.)  A stopped scheduler takes nothing and answers 0; the id is used up.
ScheduleAfter(delay) ==
  /\ nextId <= MaxTasks /\ now + delay <= MaxTime
  /\ nextId' = nextId + 1
  /\ IF stop THEN UNCHANGED <<heap, tasks, notifying>>
     ELSE /\ \E read \in 0 .. now :
               heap' = heap \cup {[id |-> nextId, deadline |-> read + delay]}
          /\ tasks' = tasks \cup {nextId}
          /\ notifying' = notifying + 1
  /\ UNCHANGED <<now, stop, thread, stopping, fired, cancelled>>

Woken(t) == IF t.at = "wait" THEN Looping ELSE t

NotifyOne ==
  /\ notifying > 0 /\ notifying' = notifying - 1
  /\ thread' = Woken(thread)
  /\ UNCHANGED <<now, stop, heap, tasks, nextId, stopping, fired, cancelled>>

\* Cancel of an id that is not in tasks_ answers false and changes nothing.  The
\* entry stays in the heap.
Cancel(id) ==
  /\ id \in tasks
  /\ tasks' = tasks \ {id} /\ cancelled' = cancelled \cup {id}
  /\ thread' = Woken(thread)
  /\ UNCHANGED <<now, stop, heap, nextId, notifying, stopping, fired>>

----------------------------------------------------------------------------
(* The thread: one turn of Run from taking the lock to releasing it *)

Before(a, b) == a.deadline < b.deadline \/ (a.deadline = b.deadline /\ a.id <= b.id)

\* Cancelled entries are popped when they reach the top.
Live == {e \in heap : e.id \in tasks}
Kept == {e \in heap : \E l \in Live : Before(l, e)}
IsTop(e) == e \in Live /\ \A f \in Live : Before(e, f)

Leave ==
  /\ thread.at = "loop" /\ stop
  /\ thread' = [Looping EXCEPT !.at = "gone"]
  /\ UNCHANGED <<now, stop, heap, tasks, nextId, notifying, stopping, fired, cancelled>>

\* Fault variant: the thread sleeps until it is notified.
WaitForNotice ==
  /\ thread.at = "loop" /\ ~stop
  /\ \A e \in Live : e.deadline > now
  /\ heap' = Kept /\ thread' = [at |-> "wait", until |-> Forever, id |-> 0]
  /\ UNCHANGED <<now, stop, tasks, nextId, notifying, stopping, fired, cancelled>>

Wait ==
  /\ thread.at = "loop" /\ ~stop /\ heap' = Kept
  /\ \/ Live = {} /\ thread' = [at |-> "wait", until |-> Forever, id |-> 0]
     \/ \E e \in Live : /\ IsTop(e) /\ e.deadline > now
                        /\ thread' = [at |-> "wait", until |-> e.deadline, id |-> 0]
  /\ UNCHANGED <<now, stop, tasks, nextId, notifying, stopping, fired, cancelled>>

\* The wait ends when its time has come, or for no reason.
WakeUp ==
  /\ thread.at = "wait" /\ thread' = Looping
  /\ UNCHANGED <<now, stop, heap, tasks, nextId, notifying, stopping, fired, cancelled>>

\* Fault variant: a task being run can still be cancelled.
FireKeepingTask ==
  /\ thread.at = "loop" /\ ~stop
  /\ \E e \in Live : /\ IsTop(e) /\ e.deadline <= now
                     /\ thread' = [at |-> "fn", until |-> 0, id |-> e.id]
                     /\ heap' = Kept \ {e} /\ fired' = fired \cup {e.id}
  /\ UNCHANGED <<now, stop, tasks, nextId, notifying, stopping, cancelled>>

Fire ==
  /\ thread.at = "loop" /\ ~stop
  /\ \E e \in Live : /\ IsTop(e) /\ e.deadline <= now
                     /\ thread' = [at |-> "fn", until |-> 0, id |-> e.id]
                     /\ heap' = Kept \ {e} /\ tasks' = tasks \ {e.id}
                     /\ fired' = fired \cup {e.id}
  /\ UNCHANGED <<now, stop, nextId, notifying, stopping, cancelled>>

\* The callback returns.
Return ==
  /\ thread.at = "fn" /\ thread' = Looping
  /\ UNCHANGED <<now, stop, heap, tasks, nextId, notifying, stopping, fired, cancelled>>

----------------------------------------------------------------------------
(* Start and Stop, called by the owner of the scheduler *)

Stop ==
  /\ stopping = "no" /\ stopping' = "notify" /\ stop' = TRUE
  /\ UNCHANGED <<now, heap, tasks, nextId, thread, notifying, fired, cancelled>>

NotifyAll ==
  /\ stopping = "notify" /\ stopping' = "join" /\ thread' = Woken(thread)
  /\ UNCHANGED <<now, stop, heap, tasks, nextId, notifying, fired, cancelled>>

\* The thread has ended: what is pending is dropped.
Joined ==
  /\ stopping = "join" /\ thread.at = "gone" /\ stopping' = "returned"
  /\ heap' = {} /\ tasks' = {}
  /\ UNCHANGED <<now, stop, nextId, thread, notifying, fired, cancelled>>

Start ==
  /\ stopping = "returned" /\ stopping' = "no" /\ stop' = FALSE /\ thread' = Looping
  /\ UNCHANGED <<now, heap, tasks, nextId, notifying, fired, cancelled>>

----------------------------------------------------------------------------

Turn == Leave \/ Wait \/ Fire \/ Return

Next ==
  \/ Tick \/ NotifyOne \/ Turn \/ WakeUp
  \/ \E d \in Delay : ScheduleAfter(d)
  \/ \E id \in tasks : Cancel(id)
  \/ Stop \/ NotifyAll \/ Joined \/ Start

\* Time passes, a wait ends at its time, and the thread and a call that has
\* begun go on; callbacks return.
Fairness ==
  /\ WF_vars(Tick) /\ WF_vars(Turn) /\ WF_vars(WakeUp /\ now >= thread.until)
  /\ WF_vars(NotifyOne) /\ WF_vars(NotifyAll) /\ WF_vars(Joined)

Spec == Init /\ [][Next]_vars /\ Fairness

----------------------------------------------------------------------------
(* Properties *)

\* The thread never sleeps past a deadline: if a pending task is due before the
\* time it waits for, a notification is on its way (ScheduleAfter notifies after
\* it has released the lock; Run waits for the task it saw on top).
NoOversleep ==
  thread.at = "wait" => notifying > 0 \/ stop \/ \A e \in Live : thread.until <= e.deadline

\* A callback whose Cancel returned true is never called; one that was called is
\* not pending any more, so that no id is called twice; and none is called after
\* Stop has returned, also if the scheduler is started again ("Stop clears
\* pending tasks", tests/test_min_heap_timer.cpp; Run, Cancel, Stop).
CancelWins ==
  [][/\ fired \cap cancelled = {} /\ fired \cap tasks = {}
     /\ fired' # fired => fired' \ fired \subseteq tasks \ cancelled
     /\ stopping = "returned" => fired' = fired /\ tasks = {}]_vars

\* A pending callback is called, cancelled, or dropped by Stop (Run's waits).
EveryTaskFires ==
  \A id \in 1 .. MaxTasks : id \in tasks ~> id \in fired \cup cancelled \/ stop
=============================================================================
