---------------------------- MODULE MCNodeRuntime ----------------------------
(***************************************************************************)
(* NodeRuntime with a few threads, tasks and timers.  Workers and tasks    *)
(* are interchangeable, but the liveness properties rule symmetry out.     *)
(***************************************************************************)
EXTENDS NodeRuntime
=============================================================================
