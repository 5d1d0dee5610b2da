---------------------------- MODULE RaftProgress ----------------------------
(***************************************************************************)
(* What a cluster that keeps its leader owes its followers.  RaftCluster   *)
(* with fairness: threads that can go on do, every Replicator tries again  *)
(* (heartbeats come back to ReplicateOnce for each peer), and the network  *)
(* between connected nodes is good in the end: calls may be lost and       *)
(* abandoned, but not for ever.  Saves fail and nodes restart within the   *)
(* bounds of RaftCluster, and elections need never happen.                 *)
(***************************************************************************)
EXTENDS RaftCluster

\* A handler of p takes a request of n; the Replicator of n for p an answer.
Received(n, p, Step(_, _)) == \E m \in rpcs : m.from = n /\ m.to = p /\ Step(p, m)
Answered(n, p, Step(_, _)) == \E m \in rpcs : m.from = n /\ m.to = p /\ Step(n, m)

\* An InstallSnapshot whose snapshot file could be written, or was there, and
\* could be loaded.
InstallTaken(p, m) ==
  /\ OnInstallSnapshot(p, m) \/ FinishInstallSnapshot(p, m)
  /\ \A r \in rpcs' \ rpcs : r.kind = "installing" \/ r.success

LinkFairness(n, p) ==
  /\ WF_vars(ReplicateOnce(n, p))
  /\ WF_vars(Received(n, p, OnAppendEntries)) /\ WF_vars(Answered(n, p, OnAppendReply))
  /\ WF_vars(Received(n, p, OnInstallSnapshot)) /\ WF_vars(Received(n, p, FinishInstallSnapshot))
  /\ WF_vars(Answered(n, p, OnInstallReply))

NodeFairness(n) == WF_vars(ProposeNoOpEntry(n)) /\ WF_vars(CompactAfterSnapshot(n))

\* Taking an answer that changes nothing looks the same as abandoning the call.
Abandoned(m) == RpcTimeout(m) /\ ~OnAppendReply(m.from, m) /\ ~OnInstallReply(m.from, m)

\* From some time on no call is abandoned and snapshot files can be written and
\* loaded.
GoodInTheEnd ==
  <>[][/\ \A m \in rpcs : ~Abandoned(m)
       /\ \A p \in Node : \A m \in rpcs :
            OnInstallSnapshot(p, m) \/ FinishInstallSnapshot(p, m) => InstallTaken(p, m)]_vars

Fairness ==
  /\ \A n \in Node : NodeFairness(n)
  /\ \A n \in Node : \A p \in Reachable(n) : LinkFairness(n, p)
  /\ GoodInTheEnd

SameLog(a, b) ==
  /\ LastLogIndex(a) = LastLogIndex(b)
  /\ \A i \in Larger(a.snapIndex, b.snapIndex) + 1 .. LastLogIndex(a) : EntryAt(a, i) = EntryAt(b, i)

\* next_index_ of p is past the end of the log of n, which has compacted it: n
\* offers p the snapshot again and again, though p has installed it.
Overshot(n, p) ==
  /\ node[n].snapIndex > 0 /\ node[n].next[p] > LastLogIndex(node[n]) + 1
  /\ node[p].snapIndex = node[n].snapIndex

\* "it catches up through log replay or snapshot handoff"
\* (specs/004-raft-industrialization/spec.md:58): a follower of a leader that
\* stays leader ends up with the leader's log, all of it committed, whatever
\* conflicting entries it held and whichever calls were lost on the way.  The
\* code has one exception.  When an InstallSnapshot is refused once, next_index_
\* is set behind the last entry of the follower (raft_node.cpp:1266), which may
\* be past the end of the leader's log; the install that succeeds afterwards
\* keeps the maximum (1277).  Then the follower has the snapshot, and what comes
\* after it only when the leader's log has grown.
FollowersCatchUp ==
  \A n \in Node : <>[](node[n].role = "Leader") =>
    \A p \in Reachable(n) :
      \/ <>[](SameLog(node[n], node[p]) /\ node[p].commit = LastLogIndex(node[n]))
      \/ <>[]Overshot(n, p)
============================================================================
