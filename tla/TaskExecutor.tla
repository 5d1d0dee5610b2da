---------------------------- MODULE TaskExecutor ----------------------------
(***************************************************************************)
(* What ThreadPool (src/modules/raft/runtime/thread_pool.h) promises its   *)
(* users: a task accepted while the pool is open is executed, once; Stop   *)
(* lets everything accepted finish and then returns; a task offered to a   *)
(* stopped pool is not executed.                                           *)
(***************************************************************************)
CONSTANT Task

VARIABLES
  phase,     \* "open", "closing" (inside Stop) or "closed" (after it)
  accepted,  \* tasks taken by Submit
  done       \* tasks executed

vars == <<phase, accepted, done>>

Init == phase = "open" /\ accepted = {} /\ done = {}

Accept(t) ==
  /\ phase = "open" /\ t \notin accepted
  /\ accepted' = accepted \cup {t}
  /\ UNCHANGED <<phase, done>>

Execute(t) ==
  /\ phase # "closed" /\ t \in accepted \ done
  /\ done' = done \cup {t}
  /\ UNCHANGED <<phase, accepted>>

Close == phase = "open" /\ phase' = "closing" /\ UNCHANGED <<accepted, done>>

Closed == phase = "closing" /\ accepted = done /\ phase' = "closed" /\ UNCHANGED <<accepted, done>>

Reopen == phase = "closed" /\ phase' = "open" /\ UNCHANGED <<accepted, done>>

Next == (\E t \in Task : Accept(t) \/ Execute(t)) \/ Close \/ Closed \/ Reopen

Spec == Init /\ [][Next]_vars /\ (\A t \in Task : WF_vars(Execute(t))) /\ WF_vars(Closed)
=============================================================================
