---------------------------- MODULE MCRaftCommit ----------------------------
(***************************************************************************)
(* RaftCluster with five nodes: what a follower's commit index covers when *)
(* it takes over the leader's.                                             *)
(*                                                                         *)
(* n1 leads term 1 and has two entries, the first of which n2 holds too.   *)
(* n2 leads term 2 with the votes of n3 and n4 and commits its own entry   *)
(* at index 2.  n5 is reachable from both leaders.  One save of n5 may     *)
(* fail and n5 may restart once.  A request carries one entry.             *)
(***************************************************************************)
EXTENDS RaftCluster, TLC

CONSTANTS n1, n2, n3, n4, n5, v1

TwoLeaders == [n \in Node |-> CASE n = n1 -> {1} [] n = n2 -> {2} [] OTHER -> {}]

Links == {{n1, n2}, {n1, n3}, {n1, n5}, {n2, n3}, {n2, n4}, {n2, n5}}

AskN1 == [n \in Node |-> IF n = n1 THEN {v1} ELSE {}]

NoneApplied == [n \in Node |-> 0]

\* A bound on the order of events: n1 has both entries and n2 the first before
\* term 2 starts, n3 gets its log from n2, n5 is first heard of once term 2 has
\* committed, restarts only after the save that failed, and has no entry before
\* it restarts.
InOrder ==
  /\ node[n1].term <= 1
  /\ node[n2].term = 2 => Len(node[n1].log) = 2 /\ node[n2].log # <<>>
  /\ node[n3].log # <<>> => node[n2].term = 2
  /\ \A m \in rpcs : m.kind = "append" /\ m.from = n1 =>
       m.to = n5 \/ (m.to = n2 /\ node[n2].log = <<>>)
  /\ Len(chosen) < 2 => node[n5] = FreshNode
  /\ crashes <= faults
  /\ faults > crashes => node[n5].log = <<>>
============================================================================
