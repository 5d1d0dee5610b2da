------------------------ MODULE RaftSnapshotProofs -------------------------
(***************************************************************************)
(* The snapshots of a node cover what its log no longer has, for every     *)
(* number of crashes, failed saves, snapshots and installs.                *)
(*                                                                         *)
(* SnapshotCoversLog speaks of the disk.  A save copies the marker from    *)
(* memory, the marker in memory comes from the job of the snapshot worker  *)
(* or from an install that is running, and a restart takes it from the     *)
(* disk: the invariant says of all of them that a published snapshot       *)
(* reaches as far.  With it go the two boundaries the marker pushes:       *)
(* the marker is applied and what is applied is committed.                 *)
(***************************************************************************)
EXTENDS RaftTypeProofs

\* The marker of s is under the snapshot f, so is the snapshot its worker has
\* published, and the marker is applied and what is applied is committed.
Covered(s, f) ==
  /\ s.snapIndex <= f.index /\ s.job.index <= f.index
  /\ s.snapIndex <= s.applied /\ s.applied <= s.commit

SnapshotInv ==
  /\ TypeOK
  /\ \A n \in Node : Covered(node[n], snapFile[n]) /\ disk[n].snapIndex <= snapFile[n].index
  /\ \A m \in rpcs : m.kind = "installing" => m.index <= snapFile[m.to].index

\* A save of s at n, done or failed, after which the marker on disk is still covered.
DiskCovered(n) ==
  disk' = disk \/ \E d : d.snapIndex <= snapFile'[n].index /\ disk' = [disk EXCEPT ![n] = d]

\* Fields the snapshot files depend on are left alone; the commit index may grow.
SameMarker(a, b) ==
  b.snapIndex = a.snapIndex /\ b.job = a.job /\ b.applied = a.applied /\ b.commit >= a.commit

NoNewInstalling == \A m \in rpcs' : m.kind = "installing" => m \in rpcs

----------------------------------------------------------------------------

\* The general step: one node moves to a covered state, its snapshots only grow.
LEMMA CoveredStep ==
  ASSUME SnapshotInv, TypeOK', NEW n \in Node, NEW x, node' = [node EXCEPT ![n] = x],
         NEW f \in Snapshot, f.index >= snapFile[n].index, snapFile' = [snapFile EXCEPT ![n] = f],
         Covered(x, f), DiskCovered(n),
         \A m \in rpcs' : m.kind = "installing" =>
           m \in rpcs \/ m.index <= snapFile'[m.to].index
  PROVE  SnapshotInv'
<1>1. /\ node \in [Node -> NodeState] /\ disk \in [Node -> DiskState]
      /\ snapFile \in [Node -> Snapshot]
  BY DEF SnapshotInv, TypeOK
<1>2. /\ \A p \in Node : snapFile[p].index \in Nat /\ disk[p].snapIndex \in Nat
      /\ f.index \in Nat
  BY <1>1 DEF Snapshot, DiskState
<1>3. /\ snapFile'[n] = f /\ node'[n] = x
      /\ \A p \in Node \ {n} : snapFile'[p] = snapFile[p] /\ node'[p] = node[p]
  BY <1>1
<1>4. \A p \in Node : Covered(node'[p], snapFile'[p])
  BY <1>3 DEF SnapshotInv
<1>5. \A p \in Node : snapFile[p].index <= snapFile'[p].index
  BY <1>2, <1>3
<1>6. \A p \in Node : disk'[p].snapIndex <= snapFile'[p].index
  <2>1. CASE disk' = disk
    BY <1>1, <1>2, <1>3, <2>1 DEF SnapshotInv
  <2>2. ASSUME NEW d, d.snapIndex <= snapFile'[n].index, disk' = [disk EXCEPT ![n] = d]
        PROVE  \A p \in Node : disk'[p].snapIndex <= snapFile'[p].index
    <3>1. disk'[n] = d /\ \A p \in Node \ {n} : disk'[p] = disk[p]
      BY <1>1, <2>2
    <3> QED
      BY <1>3, <2>2, <3>1 DEF SnapshotInv
  <2> QED
    BY <2>1, <2>2 DEF DiskCovered
<1>7. ASSUME NEW m \in rpcs', m.kind = "installing"
      PROVE  m.index <= snapFile'[m.to].index
  <2>1. m \in RunningInstalls
    BY <1>7, RpcKinds DEF TypeOK
  <2>2. m.to \in Node /\ m.index \in Nat
    BY <2>1 DEF RunningInstalls
  <2>3. CASE m \in rpcs
    <3>1. m.index <= snapFile[m.to].index
      BY <1>7, <2>3 DEF SnapshotInv
    <3>2. snapFile[m.to].index \in Nat /\ snapFile'[m.to].index \in Nat
      BY <1>2, <1>3, <2>2
    <3> QED
      BY <1>5, <2>2, <3>1, <3>2
  <2> QED
    BY <1>7, <2>3
<1> QED
  BY <1>4, <1>6, <1>7, ClusterAssumption DEF SnapshotInv

\* A step of a node that leaves its marker alone and publishes nothing.
LEMMA SameMarkerStep ==
  ASSUME SnapshotInv, TypeOK', NEW n \in Node, NEW x \in NodeState,
         node' = [node EXCEPT ![n] = x],
         SameMarker(node[n], x), UNCHANGED snapFile, NoNewInstalling, DiskCovered(n)
  PROVE  SnapshotInv'
<1>1. snapFile \in [Node -> Snapshot] /\ node[n] \in NodeState
  BY DEF SnapshotInv, TypeOK
<1>2. snapFile[n] \in Snapshot /\ snapFile' = [snapFile EXCEPT ![n] = snapFile[n]]
  BY <1>1
<1>3. snapFile[n].index >= snapFile[n].index
  BY <1>2 DEF Snapshot
<1>4. Covered(x, snapFile[n])
  <2>1. Covered(node[n], snapFile[n])
    BY DEF SnapshotInv
  <2>2. /\ node[n].applied \in Nat /\ node[n].commit \in Nat /\ x.commit \in Nat
    BY <1>1, NodeFields
  <2> QED
    BY <2>1, <2>2 DEF Covered, SameMarker
<1> QED
  BY <1>2, <1>3, <1>4, CoveredStep DEF NoNewInstalling

\* A save keeps the marker on disk covered if the state saved is.
LEMMA SaveCovered ==
  ASSUME SnapshotInv, NEW n \in Node, NEW s, NEW b,
         s.snapIndex <= snapFile'[n].index,
         b = disk[n] \/ b.snapIndex <= snapFile'[n].index,
         Saved(n, s) \/ NotSaved \/ SaveFails(n, b, s)
  PROVE  DiskCovered(n)
<1>1. HardState(s).snapIndex = s.snapIndex
  BY DEF HardState
<1>2. CASE Saved(n, s)
  BY <1>1, <1>2 DEF Saved, DiskCovered
<1>3. CASE NotSaved
  BY <1>3 DEF NotSaved, DiskCovered
<1>4. CASE SaveFails(n, b, s)
  <2>1. PICK d \in {b, HardState(s)} : disk' = [disk EXCEPT ![n] = d]
    BY <1>4 DEF SaveFails
  <2>2. disk \in [Node -> DiskState]
    BY DEF SnapshotInv, TypeOK
  <2>3. CASE d = disk[n]
    BY <2>1, <2>2, <2>3 DEF DiskCovered
  <2>4. CASE d # disk[n]
    BY <1>1, <2>1, <2>4 DEF DiskCovered
  <2> QED
    BY <2>3, <2>4
<1> QED
  BY <1>2, <1>3, <1>4

\* The same for a state with the marker the node has.
LEMMA SaveSameMarker ==
  ASSUME SnapshotInv, NEW n \in Node, NEW s, NEW b, s.snapIndex = node[n].snapIndex,
         b = disk[n] \/ b.snapIndex = node[n].snapIndex, UNCHANGED snapFile,
         Saved(n, s) \/ NotSaved \/ SaveFails(n, b, s)
  PROVE  DiskCovered(n)
<1>1. node[n].snapIndex <= snapFile'[n].index
  BY DEF SnapshotInv, Covered
<1> QED
  BY <1>1, SaveCovered

----------------------------------------------------------------------------
(* Operators that leave the marker alone *)

\* Elections, roles and votes.
LEMMA RolesSameMarker ==
  ASSUME NEW s \in NodeState, NEW n
  PROVE  /\ SameMarker(s, s)
         /\ \A term, leader : SameMarker(s, BecomeFollower(s, term, leader))
         /\ SameMarker(s, Candidacy(n, s)) /\ SameMarker(s, AfterVotes(n, s))
         /\ \A m : SameMarker(s, FollowSender(s, m))
<1>1. SameMarker(s, s)
  BY NodeFields DEF SameMarker
<1>2. \A term, leader : SameMarker(s, BecomeFollower(s, term, leader))
  BY DEF SameMarker, BecomeFollower, NodeState
<1>3. SameMarker(s, Candidacy(n, s))
  BY DEF SameMarker, Candidacy, NodeState
<1>4. SameMarker(s, BecomeLeader(n, s))
  BY DEF SameMarker, BecomeLeader, NodeState
<1>5. SameMarker(s, AfterVotes(n, s))
  BY <1>1, <1>4 DEF AfterVotes
<1>6. \A m : SameMarker(s, FollowSender(s, m))
  BY <1>1, <1>2 DEF FollowSender
<1> QED
  BY <1>1, <1>2, <1>3, <1>5, <1>6

\* One such change after another.
LEMMA SameMarkerTwice ==
  ASSUME NEW a \in NodeState, NEW b \in NodeState, NEW c \in NodeState,
         SameMarker(a, b), SameMarker(b, c)
  PROVE  SameMarker(a, c)
BY NodeFields DEF SameMarker

\* AdvanceCommitIndexUnlocked only moves the commit index, forward.
LEMMA AdvanceCommitSameMarker ==
  ASSUME SetFacts, NEW s \in NodeState, NEW n \in Node
  PROVE  SameMarker(s, AdvanceCommitIndex(n, s))
<1> DEFINE C == Committable(n, s)
<1>1. LastLogIndex(s) \in Nat /\ s.commit \in Nat /\ s.applied \in Nat
  BY LastLogIndexType, NodeFields
<1>2. C \in SUBSET (0 .. LastLogIndex(s)) /\ \A i \in C : i \in Nat /\ i > s.commit
  BY <1>1 DEF Committable
<1>3. CASE s.role = "Leader" /\ C # {}
  <2> HIDE DEF C
  <2>1. Max(C) \in C
    BY <1>1, <1>2, <1>3, MaxIsMember
  <2>2. Max(C) \in Nat /\ Max(C) > s.commit
    BY <1>2, <2>1
  <2>3. AdvanceCommitIndex(n, s) = [s EXCEPT !.commit = Max(C)]
    BY <1>3 DEF AdvanceCommitIndex, C
  <2>4. SameMarker(s, [s EXCEPT !.commit = Max(C)])
    BY <1>1, <2>2 DEF SameMarker, NodeState
  <2> QED
    BY <2>3, <2>4
<1>4. CASE ~(s.role = "Leader" /\ C # {})
  BY <1>4, RolesSameMarker DEF AdvanceCommitIndex
<1> QED
  BY <1>3, <1>4

----------------------------------------------------------------------------
(* Steps that leave the marker alone *)

\* No RPC becomes an install that is running.
LEMMA ReplyNoInstalling ==
  ASSUME NEW m, NEW r, Reply(m, r), r.kind # "installing"
  PROVE  NoNewInstalling
BY DEF Reply, NoNewInstalling

\* Nothing happens to the nodes, the disks and the snapshots.
LEMMA IdleMarker ==
  ASSUME SnapshotInv, TypeOK', UNCHANGED <<node, disk, snapFile>>, NoNewInstalling
  PROVE  SnapshotInv'
BY DEF SnapshotInv, NoNewInstalling, Covered

\* Stepping down on a reply with a higher term.
LEMMA StepDownMarker ==
  ASSUME SnapshotInv, TypeOK', NEW n \in Node, NEW term \in Term, StepDownOnHigherTerm(n, term),
         UNCHANGED snapFile, NoNewInstalling
  PROVE  SnapshotInv'
<1> DEFINE s == BecomeFollower(node[n], term, Nil)
<1>1. node[n] \in NodeState
  BY DEF SnapshotInv, TypeOK
<1>2. s \in NodeState /\ SameMarker(node[n], s)
  BY <1>1, BecomeFollowerType, RolesSameMarker
<1>3. node' = [node EXCEPT ![n] = s] /\ (Saved(n, s) \/ SaveFails(n, disk[n], s))
  BY DEF StepDownOnHigherTerm
<1> HIDE DEF s
<1>4. s.snapIndex = node[n].snapIndex
  BY <1>2 DEF SameMarker
<1>5. DiskCovered(n)
  BY <1>3, <1>4, SaveSameMarker
<1> QED
  BY <1>2, <1>3, <1>5, SameMarkerStep

\* StartElection.
LEMMA StartElectionMarker ==
  ASSUME SnapshotInv, TypeOK', NEW n \in Node, StartElection(n)
  PROVE  SnapshotInv'
<1> DEFINE s == Candidacy(n, node[n])
           c == AfterVotes(n, s)
<1>1. node[n] \in NodeState /\ node[n].term < MaxTerm /\ MaxTerm \in Nat
  BY ClusterAssumption DEF SnapshotInv, TypeOK, StartElection
<1>2. s \in NodeState /\ SameMarker(node[n], s)
  BY <1>1, CandidacyType, RolesSameMarker
<1>3. /\ UNCHANGED snapFile
      /\ \/ UNCHANGED <<node, rpcs>> /\ SaveFails(n, disk[n], s)
         \/ node' = [node EXCEPT ![n] = c] /\ Saved(n, s)
  BY DEF StartElection
<1>4. NoNewInstalling
  BY DEF StartElection, NoNewInstalling
<1> HIDE DEF s
<1>5. c \in NodeState /\ SameMarker(s, c)
  BY <1>2, AfterVotesType, RolesSameMarker
<1> HIDE DEF c
<1>6. SameMarker(node[n], c) /\ SameMarker(node[n], node[n])
  BY <1>1, <1>2, <1>5, SameMarkerTwice, RolesSameMarker
<1>7. s.snapIndex = node[n].snapIndex
  BY <1>2 DEF SameMarker
<1>8. DiskCovered(n)
  BY <1>3, <1>7, SaveSameMarker
<1>9. node = [node EXCEPT ![n] = node[n]]
  BY DEF SnapshotInv, TypeOK
<1> QED
  BY <1>1, <1>3, <1>4, <1>5, <1>6, <1>8, <1>9, SameMarkerStep

\* OnRequestVote.
LEMMA OnRequestVoteMarker ==
  ASSUME SnapshotInv, TypeOK', NEW n \in Node, NEW m \in rpcs, OnRequestVote(n, m)
  PROVE  SnapshotInv'
<1> DEFINE s == node[n]
           newTerm == m.term > s.term
           s1 == IF newTerm THEN BecomeFollower(s, m.term, Nil) ELSE s
           base == IF newTerm THEN HardState(s1) ELSE disk[n]
           s2 == [s1 EXCEPT !.vote = m.from]
           X == {s, s1, s2}
           B == {disk[n], base}
<1>1. m \in VoteRequests
  BY RpcKinds DEF SnapshotInv, TypeOK, OnRequestVote
<1>2. m.term \in Term /\ m.from \in Node /\ s \in NodeState
  BY <1>1 DEF VoteRequests, SnapshotInv, TypeOK
<1> HIDE DEF s
<1>3. s1 \in NodeState /\ SameMarker(s, s1) /\ SameMarker(s, s)
  BY <1>2, BecomeFollowerType, RolesSameMarker
<1> HIDE DEF s1
<1>4. s2 \in NodeState /\ SameMarker(s1, s2)
  <2>1. s2 \in NodeState
    BY <1>2, <1>3 DEF NodeState
  <2>2. s1.commit \in Nat
    BY <1>3 DEF NodeState
  <2>3. /\ s2.snapIndex = s1.snapIndex /\ s2.job = s1.job
        /\ s2.applied = s1.applied /\ s2.commit = s1.commit
    BY <1>3 DEF NodeState
  <2> QED
    BY <2>1, <2>2, <2>3 DEF SameMarker
<1> HIDE DEF s2
<1>5. SameMarker(s, s2)
  BY <1>2, <1>3, <1>4, SameMarkerTwice
<1>6. \A x \in X : x \in NodeState /\ SameMarker(s, x) /\ x.snapIndex = s.snapIndex
  BY <1>2, <1>3, <1>4, <1>5 DEF SameMarker
<1>7. \A b \in B : b = disk[n] \/ b.snapIndex = s.snapIndex
  BY <1>6 DEF HardState
<1>8. /\ \E x \in X : node' = [node EXCEPT ![n] = x]
      /\ NotSaved \/ (\E x \in X : Saved(n, x)) \/ (\E x \in X, b \in B : SaveFails(n, b, x))
      /\ UNCHANGED snapFile
  <2>1. node = [node EXCEPT ![n] = s]
    BY DEF SnapshotInv, TypeOK, s
  <2> QED
    BY <2>1 DEF OnRequestVote, s, s1, s2
<1>9. NoNewInstalling
  <2>1. \A t, g : VoteReply(m, t, g).kind = "voteReply"
    BY DEF VoteReply
  <2>2. \E t, g : ReplyVote(m, t, g)
    BY DEF OnRequestVote
  <2> QED
    BY <2>1, <2>2, ReplyNoInstalling DEF ReplyVote, NoNewInstalling
<1> HIDE DEF X, B
<1>10. DiskCovered(n)
  <2>1. s \in X
    BY DEF X
  <2> QED
    BY <1>6, <1>7, <1>8, <2>1, SaveSameMarker DEF s
<1> QED
  BY <1>6, <1>8, <1>9, <1>10, SameMarkerStep DEF s

\* The pool task of StartElection.
LEMMA OnVoteReplyMarker ==
  ASSUME SnapshotInv, TypeOK', NEW n \in Node, NEW m \in rpcs, OnVoteReply(n, m)
  PROVE  SnapshotInv'
<1> DEFINE s == node[n]
           v == [s EXCEPT !.votes = @ \cup {m.to}]
           c == AfterVotes(n, v)
<1>1. m \in VoteReplies
  BY RpcKinds DEF SnapshotInv, TypeOK, OnVoteReply
<1>2. m.term \in Term /\ m.to \in Node /\ s \in NodeState
  BY <1>1 DEF VoteReplies, SnapshotInv, TypeOK
<1>3. NoNewInstalling /\ UNCHANGED snapFile
  BY DEF OnVoteReply, NoNewInstalling
<1> HIDE DEF s
<1>4. v \in NodeState /\ SameMarker(s, v)
  <2>1. v \in NodeState
    BY <1>2 DEF NodeState
  <2>2. s.commit \in Nat
    BY <1>2 DEF NodeState
  <2>3. /\ v.snapIndex = s.snapIndex /\ v.job = s.job
        /\ v.applied = s.applied /\ v.commit = s.commit
    BY <1>2 DEF NodeState
  <2> QED
    BY <2>1, <2>2, <2>3 DEF SameMarker
<1> HIDE DEF v
<1>5. c \in NodeState /\ SameMarker(v, c)
  BY <1>4, AfterVotesType, RolesSameMarker
<1> HIDE DEF c
<1>6. SameMarker(s, c)
  BY <1>2, <1>4, <1>5, SameMarkerTwice
<1>7. \/ StepDownOnHigherTerm(n, m.term)
      \/ NotSaved /\ (UNCHANGED node \/ node' = [node EXCEPT ![n] = c])
  BY DEF OnVoteReply, s, v, c
<1>8. CASE StepDownOnHigherTerm(n, m.term)
  BY <1>2, <1>3, <1>8, StepDownMarker
<1>9. CASE NotSaved /\ UNCHANGED node
  BY <1>3, <1>9, IdleMarker DEF NotSaved
<1>10. CASE NotSaved /\ node' = [node EXCEPT ![n] = c]
  <2>1. DiskCovered(n)
    BY <1>10 DEF NotSaved, DiskCovered
  <2> QED
    BY <1>3, <1>5, <1>6, <1>10, <2>1, SameMarkerStep DEF s
<1> QED
  BY <1>7, <1>8, <1>9, <1>10

\* AppendLocalLogUnlocked, from a state with the node's marker.
LEMMA AppendLocalMarker ==
  ASSUME SnapshotInv, TypeOK', NEW n \in Node, NEW s \in NodeState, SameMarker(node[n], s),
         NEW cmd \in Command, AppendLocalLog(n, s, cmd), UNCHANGED <<snapFile, rpcs>>
  PROVE  SnapshotInv'
<1> DEFINE e == WithEntry(s, cmd)
           X == {s, e}
<1>1. e \in NodeState
  <2>1. [term |-> s.term, cmd |-> cmd] \in Entry
    BY DEF Entry, NodeState
  <2>2. Append(s.log, [term |-> s.term, cmd |-> cmd]) \in Seq(Entry)
    BY <2>1 DEF NodeState
  <2> QED
    BY <2>2 DEF WithEntry, NodeState
<1>2. /\ e.snapIndex = s.snapIndex /\ e.job = s.job
      /\ e.applied = s.applied /\ e.commit = s.commit
  BY DEF WithEntry, NodeState
<1>3. SameMarker(node[n], e)
  BY <1>2 DEF SameMarker
<1>4. /\ Saved(n, e) \/ SaveFails(n, disk[n], e)
      /\ \E x \in X : node' = [node EXCEPT ![n] = x]
  BY DEF AppendLocalLog
<1> HIDE DEF e
<1>5. DiskCovered(n)
  BY <1>3, <1>4, SaveSameMarker DEF SameMarker
<1>6. NoNewInstalling
  BY DEF NoNewInstalling
<1>7. \A x \in X : x \in NodeState /\ SameMarker(node[n], x)
  BY <1>1, <1>3
<1> HIDE DEF X
<1> QED
  BY <1>4, <1>5, <1>6, <1>7, SameMarkerStep

\* The no-op of a new leader and a client's command.
LEMMA ProposeMarker ==
  ASSUME SnapshotInv, TypeOK', NEW n \in Node,
         ProposeNoOpEntry(n) \/ \E v \in Submitted[n] : Propose(n, v)
  PROVE  SnapshotInv'
<1>1. node[n] \in NodeState /\ SameMarker(node[n], node[n])
  BY RolesSameMarker DEF SnapshotInv, TypeOK
<1>2. CASE ProposeNoOpEntry(n)
  <2> DEFINE s == [node[n] EXCEPT !.noops = @ - 1]
  <2>1. s \in NodeState
    <3>1. node[n].noops - 1 \in Nat
      BY <1>1, <1>2 DEF ProposeNoOpEntry, NodeState
    <3> QED
      BY <1>1, <3>1 DEF NodeState
  <2>2. /\ s.snapIndex = node[n].snapIndex /\ s.job = node[n].job
        /\ s.applied = node[n].applied /\ s.commit = node[n].commit
    BY <1>1 DEF NodeState
  <2>3. SameMarker(node[n], s)
    BY <1>1, <2>2 DEF SameMarker
  <2>4. /\ UNCHANGED <<snapFile, rpcs>>
        /\ \/ node' = [node EXCEPT ![n] = s] /\ NotSaved
           \/ AppendLocalLog(n, s, NoOp)
    BY <1>2 DEF ProposeNoOpEntry
  <2> HIDE DEF s
  <2>5. CASE AppendLocalLog(n, s, NoOp)
    BY <2>1, <2>3, <2>4, <2>5, AppendLocalMarker DEF Command
  <2>6. CASE node' = [node EXCEPT ![n] = s] /\ NotSaved
    <3>1. DiskCovered(n) /\ NoNewInstalling
      BY <2>4, <2>6 DEF NotSaved, DiskCovered, NoNewInstalling
    <3> QED
      BY <2>1, <2>3, <2>4, <2>6, <3>1, SameMarkerStep
  <2> QED
    BY <2>4, <2>5, <2>6
<1>3. ASSUME NEW v \in Submitted[n], Propose(n, v)
      PROVE  SnapshotInv'
  <2>1. v \in Command
    BY ClusterAssumption DEF Command
  <2> QED
    BY <1>1, <1>3, <2>1, AppendLocalMarker DEF Propose
<1> QED
  BY <1>2, <1>3

\* A commit index that moves and is stored, or not.
LEMMA StoreCommitMarker ==
  ASSUME SnapshotInv, TypeOK', NEW n \in Node, NEW s \in NodeState, SameMarker(node[n], s),
         StoreCommit(n, s), node' = [node EXCEPT ![n] = s], UNCHANGED snapFile, NoNewInstalling
  PROVE  SnapshotInv'
<1>1. DiskCovered(n)
  BY SaveSameMarker DEF StoreCommit, SameMarker
<1> QED
  BY <1>1, SameMarkerStep

\* ReplicateLogEntryToMajority once the entry is replicated.
LEMMA ProposeReplicatedMarker ==
  ASSUME SetFacts, SnapshotInv, TypeOK', NEW n \in Node, NEW c, ProposeReplicated(n, c)
  PROVE  SnapshotInv'
<1> DEFINE s == AdvanceCommitIndex(n, node[n])
<1>1. s \in NodeState /\ SameMarker(node[n], s)
  BY AdvanceCommitType, AdvanceCommitSameMarker DEF SnapshotInv, TypeOK
<1>2. node' = [node EXCEPT ![n] = s] /\ StoreCommit(n, s) /\ UNCHANGED <<snapFile, rpcs>>
  BY DEF ProposeReplicated
<1> HIDE DEF s
<1>3. NoNewInstalling
  BY <1>2 DEF NoNewInstalling
<1> QED
  BY <1>1, <1>2, <1>3, StoreCommitMarker

\* The step of ApplyCommittedEntries stays below the commit index.
LEMMA ApplyMarker ==
  ASSUME SnapshotInv, TypeOK', NEW n \in Node, ApplyCommittedEntries(n)
  PROVE  SnapshotInv'
<1> DEFINE s == [node[n] EXCEPT !.applied = @ + 1]
<1>1. node[n] \in NodeState /\ snapFile \in [Node -> Snapshot] /\ snapFile[n] \in Snapshot
  BY DEF SnapshotInv, TypeOK
<1>2. /\ s.snapIndex = node[n].snapIndex /\ s.job = node[n].job
      /\ s.applied = node[n].applied + 1 /\ s.commit = node[n].commit
  BY <1>1 DEF NodeState
<1>3. /\ node' = [node EXCEPT ![n] = s] /\ (Saved(n, s) \/ SaveFails(n, disk[n], s))
      /\ node[n].applied < node[n].commit /\ UNCHANGED <<snapFile, rpcs>>
  BY DEF ApplyCommittedEntries
<1> HIDE DEF s
<1>4. Covered(s, snapFile[n])
  <2>1. Covered(node[n], snapFile[n])
    BY DEF SnapshotInv
  <2>2. node[n].applied \in Nat /\ node[n].commit \in Nat /\ node[n].snapIndex \in Nat
    BY <1>1, NodeFields
  <2>3. /\ s.snapIndex <= snapFile[n].index /\ s.job.index <= snapFile[n].index
    BY <1>2, <2>1 DEF Covered
  <2>4. s.snapIndex <= s.applied
    BY <1>2, <2>1, <2>2 DEF Covered
  <2>5. s.applied <= s.commit
    BY <1>2, <1>3, <2>2
  <2> QED
    BY <2>3, <2>4, <2>5 DEF Covered
<1>5. DiskCovered(n)
  BY <1>2, <1>3, SaveSameMarker
<1>6. /\ snapFile' = [snapFile EXCEPT ![n] = snapFile[n]]
      /\ snapFile[n].index >= snapFile[n].index
  BY <1>1, <1>3 DEF Snapshot
<1> QED
  BY <1>1, <1>3, <1>4, <1>5, <1>6, CoveredStep

\* Requests sent, given up and answers to clients.
LEMMA ReplicatorMarker ==
  ASSUME SnapshotInv, TypeOK',
         \/ \E n, p \in Node : ReplicateOnce(n, p)
         \/ \E m \in rpcs : RpcTimeout(m)
         \/ \E n \in Node, c \in calls : ProposeDone(n, c)
  PROVE  SnapshotInv'
<1>1. ASSUME NEW n \in Node, NEW p \in Node, ReplicateOnce(n, p)
      PROVE  SnapshotInv'
  <2>1. InstallRequest(n, p, node[n]).kind = "install" /\ AppendRequest(n, p, node[n]).kind = "append"
    BY DEF InstallRequest, AppendRequest
  <2>2. NoNewInstalling /\ UNCHANGED <<node, disk, snapFile>>
    BY <1>1, <2>1 DEF ReplicateOnce, NoNewInstalling
  <2> QED
    BY <2>2, IdleMarker
<1>2. ASSUME NEW m \in rpcs, RpcTimeout(m)
      PROVE  SnapshotInv'
  <2>1. m \in Rpc /\ UNCHANGED <<node, disk, snapFile>>
    BY <1>2 DEF RpcTimeout, SnapshotInv, TypeOK
  <2> DEFINE r == [m EXCEPT !.live = FALSE]
  <2>2. r.kind = "installing" => m.kind = "installing" /\ r.index = m.index /\ r.to = m.to
    <3>1. r.kind = m.kind
      BY <2>1 DEF Rpc, VoteRequests, VoteReplies, AppendRequests, AppendReplies, InstallRequests,
                  RunningInstalls, InstallReplies
    <3>2. m \in RunningInstalls => r.index = m.index /\ r.to = m.to
      BY DEF RunningInstalls
    <3> HIDE DEF r
    <3> QED
      BY <2>1, <3>1, <3>2, RpcKinds
  <2>3. \A q \in rpcs' : q \in rpcs \/ q = r
    BY <1>2 DEF RpcTimeout
  <2> HIDE DEF r
  <2> QED
    BY <2>1, <2>2, <2>3 DEF SnapshotInv, Covered
<1>3. ASSUME NEW n \in Node, NEW c \in calls, ProposeDone(n, c)
      PROVE  SnapshotInv'
  BY <1>3, IdleMarker DEF ProposeDone, NoNewInstalling
<1> QED
  BY <1>1, <1>2, <1>3

\* OnAppendEntries may cut the log but not its marker.
LEMMA OnAppendEntriesMarker ==
  ASSUME SnapshotInv, TypeOK', NEW n \in Node, NEW m \in rpcs, OnAppendEntries(n, m)
  PROVE  SnapshotInv'
<1> DEFINE s == node[n]
           s1 == FollowSender(s, m)
           s2 == [s1 EXCEPT !.log = LogAfterAppend(s1, m.prevIndex, m.entries)]
           s3 == WithLeaderCommit(s2, m)
           newTerm == m.term > s.term
           newLog == s2.log # s1.log
           newCommit == s3.commit # s2.commit
           base1 == IF newTerm THEN HardState(s1) ELSE disk[n]
           base2 == IF newTerm \/ newLog THEN HardState(s2) ELSE disk[n]
<1>1. m \in AppendRequests
  BY RpcKinds DEF SnapshotInv, TypeOK, OnAppendEntries
<1>2. /\ m.term \in Term /\ m.from \in Node /\ m.prevIndex \in Nat /\ m.commit \in Nat
      /\ m.entries \in Seq(Entry) /\ s \in NodeState
  BY <1>1 DEF AppendRequests, SnapshotInv, TypeOK
<1> HIDE DEF s
<1>3. s1 \in NodeState /\ SameMarker(s, s1) /\ SameMarker(s, s)
  BY <1>2, FollowSenderType, RolesSameMarker
<1> HIDE DEF s1
<1>4. /\ s2.snapIndex = s1.snapIndex /\ s2.job = s1.job
      /\ s2.applied = s1.applied /\ s2.commit = s1.commit
  BY <1>3 DEF NodeState
<1>5. ASSUME PrevMatches(s1, m)
      PROVE  /\ s2 \in NodeState /\ SameMarker(s1, s2)
             /\ s3 \in NodeState /\ SameMarker(s1, s3)
  <2>1. s2 \in NodeState
    <3>1. LogAfterAppend(s1, m.prevIndex, m.entries) \in Seq(Entry)
      BY <1>2, <1>3, <1>5, LogAfterAppendType DEF PrevMatches, HasLogAtIndex
    <3> QED
      BY <1>3, <3>1 DEF NodeState
  <2>2. s1.commit \in Nat /\ s2.commit \in Nat /\ LastLogIndex(s2) \in Nat
    BY <1>3, <2>1, NodeFields, LastLogIndexType
  <2> HIDE DEF s2
  <2>3. Larger(s2.commit, Smaller(m.commit, LastLogIndex(s2))) \in Nat
    BY <1>2, <2>2 DEF Larger, Smaller
  <2>4. /\ s3 \in NodeState /\ s3.snapIndex = s2.snapIndex /\ s3.job = s2.job
        /\ s3.applied = s2.applied
        /\ s3.commit = Larger(s2.commit, Smaller(m.commit, LastLogIndex(s2)))
    BY <2>1, <2>3 DEF WithLeaderCommit, NodeState
  <2> HIDE DEF s3
  <2>5. s3.commit >= s2.commit
    <3> DEFINE c == Smaller(m.commit, LastLogIndex(s2))
    <3>1. c \in Nat
      BY <1>2, <2>2 DEF Smaller
    <3> HIDE DEF c
    <3>2. Larger(s2.commit, c) >= s2.commit
      BY <2>2, <3>1 DEF Larger
    <3> QED
      BY <2>4, <3>2 DEF c
  <2>6. SameMarker(s2, s3)
    BY <2>4, <2>5 DEF SameMarker
  <2>7. SameMarker(s1, s2)
    BY <1>4, <2>2 DEF SameMarker
  <2> QED
    BY <1>3, <2>1, <2>4, <2>6, <2>7, SameMarkerTwice
<1>6. s2.snapIndex = s.snapIndex /\ s1.snapIndex = s.snapIndex
  BY <1>3, <1>4 DEF SameMarker
<1> DEFINE X == {x \in {s, s1, s2, s3} : x \in NodeState /\ SameMarker(s, x)}
           B == {disk[n], base1, base2}
<1>7. s \in X /\ s1 \in X
  BY <1>2, <1>3
<1>8. PrevMatches(s1, m) => s2 \in X /\ s3 \in X
  <2> HIDE DEF s2, s3
  <2> QED
    BY <1>2, <1>3, <1>5, SameMarkerTwice
<1>9. \A x \in X : x \in NodeState /\ SameMarker(s, x) /\ x.snapIndex = s.snapIndex
  BY DEF SameMarker
<1>10. \A b \in B : b = disk[n] \/ b.snapIndex = s.snapIndex
  <2> HIDE DEF s1, s2, s3
  <2>1. HardState(s1).snapIndex = s.snapIndex /\ HardState(s2).snapIndex = s.snapIndex
    BY <1>6 DEF HardState
  <2> QED
    BY <2>1
<1> HIDE DEF s2, s3, X, B
<1>11. /\ \E x \in X : node' = [node EXCEPT ![n] = x]
       /\ NotSaved \/ (\E x \in X : Saved(n, x)) \/ (\E x \in X, b \in B : SaveFails(n, b, x))
       /\ \E x, ok, i, h : Reply(m, AppendReply(m, x, ok, i, h))
       /\ UNCHANGED snapFile
  <2>1. node = [node EXCEPT ![n] = s]
    BY DEF SnapshotInv, TypeOK, s
  <2>2. /\ \E x \in X : node' = [node EXCEPT ![n] = x]
        /\ \E x, ok, i, h : Reply(m, AppendReply(m, x, ok, i, h))
        /\ UNCHANGED snapFile
    BY <1>7, <1>8, <2>1 DEF OnAppendEntries, s, s1, s2, s3
  <2>3. NotSaved \/ (\E x \in X : Saved(n, x)) \/ (\E x \in X, b \in B : SaveFails(n, b, x))
    BY <1>7, <1>8 DEF OnAppendEntries, s, s1, s2, s3, B
  <2> QED
    BY <2>2, <2>3
<1>12. DiskCovered(n)
  BY <1>7, <1>9, <1>10, <1>11, SaveSameMarker DEF s
<1>13. NoNewInstalling
  <2>1. \A x, ok, i, h : AppendReply(m, x, ok, i, h).kind = "appendReply"
    BY DEF AppendReply
  <2> QED
    BY <1>11, <2>1, ReplyNoInstalling
<1> QED
  BY <1>9, <1>11, <1>12, <1>13, SameMarkerStep DEF s

\* A change of next and match indexes.
LEMMA ProgressSameMarker ==
  ASSUME NEW s \in NodeState, NEW next, NEW match
  PROVE  /\ SameMarker(s, [s EXCEPT !.next = next])
         /\ SameMarker(s, [s EXCEPT !.match = match, !.next = next])
BY DEF NodeState, SameMarker

\* HandleAppendEntriesResponse.
LEMMA OnAppendReplyMarker ==
  ASSUME SetFacts, SnapshotInv, TypeOK', NEW n \in Node, NEW m \in rpcs, OnAppendReply(n, m)
  PROVE  SnapshotInv'
<1> DEFINE s == node[n]
           matched == [s EXCEPT !.match[m.to] = Larger(@, m.match),
                                !.next[m.to] = Larger(@, m.match + 1)]
           ok == AdvanceCommitIndex(n, matched)
           back == [s EXCEPT !.next[m.to] = HintedNext(s, @, m.last, m.hint)]
<1>1. m \in AppendReplies
  BY RpcKinds DEF SnapshotInv, TypeOK, OnAppendReply
<1>2. /\ m.term \in Term /\ m.to \in Node /\ m.match \in Nat /\ m.last \in Nat
      /\ m.hint \in Snapshot /\ s \in NodeState
  BY <1>1 DEF AppendReplies, SnapshotInv, TypeOK
<1> HIDE DEF s
<1>3. s.match \in [Node -> Nat] /\ s.next \in [Node -> Nat]
  BY <1>2 DEF NodeState
<1>4. matched \in NodeState /\ SameMarker(s, matched)
  <2>1. /\ [s.match EXCEPT ![m.to] = Larger(s.match[m.to], m.match)] \in [Node -> Nat]
        /\ [s.next EXCEPT ![m.to] = Larger(s.next[m.to], m.match + 1)] \in [Node -> Nat]
    BY <1>2, <1>3 DEF Larger
  <2>2. matched \in NodeState
    BY <1>2, <2>1 DEF NodeState
  <2> QED
    BY <1>2, <2>2, ProgressSameMarker
<1> HIDE DEF matched
<1>5. SameMarker(matched, ok) /\ ok \in NodeState
  BY <1>4, AdvanceCommitSameMarker, AdvanceCommitType
<1> HIDE DEF ok
<1>6. SameMarker(s, ok)
  BY <1>2, <1>4, <1>5, SameMarkerTwice
<1>7. back \in NodeState /\ SameMarker(s, back)
  <2>1. [s.next EXCEPT ![m.to] = HintedNext(s, s.next[m.to], m.last, m.hint)] \in [Node -> Nat]
    BY <1>2, <1>3, HintedNextType
  <2>2. back \in NodeState
    BY <1>2, <2>1 DEF NodeState
  <2> QED
    BY <1>2, <2>2, ProgressSameMarker
<1> HIDE DEF back
<1>8. UNCHANGED snapFile /\ NoNewInstalling
  BY DEF OnAppendReply, NoNewInstalling
<1>9. \/ StepDownOnHigherTerm(n, m.term)
      \/ NotSaved /\ UNCHANGED node
      \/ node' = [node EXCEPT ![n] = ok] /\ StoreCommit(n, ok)
      \/ node' = [node EXCEPT ![n] = back] /\ NotSaved
  BY DEF OnAppendReply, s, matched, ok, back
<1>10. CASE StepDownOnHigherTerm(n, m.term)
  BY <1>2, <1>8, <1>10, StepDownMarker
<1>11. CASE NotSaved /\ UNCHANGED node
  BY <1>8, <1>11, IdleMarker DEF NotSaved
<1>12. CASE node' = [node EXCEPT ![n] = ok] /\ StoreCommit(n, ok)
  BY <1>5, <1>6, <1>8, <1>12, StoreCommitMarker DEF s
<1>13. CASE node' = [node EXCEPT ![n] = back] /\ NotSaved
  <2>1. DiskCovered(n)
    BY <1>13 DEF NotSaved, DiskCovered
  <2> QED
    BY <1>7, <1>8, <1>13, <2>1, SameMarkerStep DEF s
<1> QED
  BY <1>9, <1>10, <1>11, <1>12, <1>13

\* The end of SendInstallSnapshotToPeer.
LEMMA OnInstallReplyMarker ==
  ASSUME SnapshotInv, TypeOK', NEW n \in Node, NEW m \in rpcs, OnInstallReply(n, m)
  PROVE  SnapshotInv'
<1> DEFINE s == node[n]
           done == [s EXCEPT !.match[m.to] = Larger(@, m.index),
                             !.next[m.to] = Larger(@, m.index + 1)]
           back == [s EXCEPT !.next[m.to] = m.last + 1]
           X == {s, done, back}
<1>1. m \in InstallReplies
  BY RpcKinds DEF SnapshotInv, TypeOK, OnInstallReply
<1>2. m.term \in Term /\ s \in NodeState
  BY <1>1 DEF InstallReplies, SnapshotInv, TypeOK
<1>3. node = [node EXCEPT ![n] = s]
  BY DEF SnapshotInv, TypeOK
<1>4. UNCHANGED snapFile /\ NoNewInstalling
  BY DEF OnInstallReply, NoNewInstalling
<1> HIDE DEF s
<1>5. \A x \in X : SameMarker(s, x)
  <2>1. SameMarker(s, done) /\ SameMarker(s, back)
    BY <1>2 DEF NodeState, SameMarker
  <2>2. SameMarker(s, s)
    BY <1>2, RolesSameMarker
  <2> QED
    BY <2>1, <2>2
<1>6. \/ StepDownOnHigherTerm(n, m.term)
      \/ NotSaved /\ \E x \in X : node' = [node EXCEPT ![n] = x]
  BY <1>3 DEF OnInstallReply, s
<1>7. CASE StepDownOnHigherTerm(n, m.term)
  BY <1>2, <1>4, <1>7, StepDownMarker
<1> HIDE DEF X
<1>8. ASSUME NotSaved, NEW x \in X, node' = [node EXCEPT ![n] = x]
      PROVE  SnapshotInv'
  <2>1. DiskCovered(n)
    BY <1>8 DEF NotSaved, DiskCovered
  <2>2. x \in NodeState
    <3>1. node'[n] \in NodeState /\ node'[n] = x
      BY <1>8 DEF SnapshotInv, TypeOK
    <3> QED
      BY <3>1
  <2> QED
    BY <1>4, <1>5, <1>8, <2>1, <2>2, SameMarkerStep DEF s
<1> QED
  BY <1>6, <1>7, <1>8

----------------------------------------------------------------------------
(* Steps that publish a snapshot or move the marker *)

\* A published snapshot covers its own index, and what was covered before.
LEMMA NewerCovers ==
  ASSUME NEW f \in Snapshot, NEW index \in Nat, NEW term \in Term
  PROVE  /\ Newer(f, index, term) \in Snapshot
         /\ Newer(f, index, term).index >= f.index /\ Newer(f, index, term).index >= index
BY DEF Newer, Snapshot

\* RestoreLogAfterSnapshotLocked moves the marker to the snapshot it is given,
\* and the two indexes with it.
LEMMA RestoreMarker ==
  ASSUME NEW s \in NodeState, NEW index \in Nat, NEW term \in Term
  PROVE  LET r == RestoreLogAfterSnapshot(s, index, term) IN
         /\ r \in NodeState /\ r.job = s.job
         /\ r.snapIndex = Larger(s.snapIndex, index)
         /\ index > s.snapIndex => /\ r.applied = Larger(s.applied, index)
                                   /\ r.commit = Larger(s.commit, index)
         /\ index <= s.snapIndex => r = s
<1> DEFINE r == RestoreLogAfterSnapshot(s, index, term)
<1>1. r \in NodeState /\ s.snapIndex \in Nat
  BY RestoreLogType, NodeFields
<1>2. CASE index <= s.snapIndex
  BY <1>1, <1>2 DEF RestoreLogAfterSnapshot, Larger
<1>3. CASE index > s.snapIndex
  <2>1. /\ r.job = s.job /\ r.snapIndex = index
        /\ r.applied = Larger(s.applied, index) /\ r.commit = Larger(s.commit, index)
    BY <1>1, <1>3 DEF RestoreLogAfterSnapshot, NodeState
  <2> HIDE DEF r
  <2> QED
    BY <1>1, <1>3, <2>1 DEF Larger, r
<1> QED
  BY <1>1, <1>2, <1>3

\* A node whose log is cut at a snapshot that is on its disk stays covered.
LEMMA RestoreCovered ==
  ASSUME NEW s \in NodeState, NEW f \in Snapshot, Covered(s, f),
         NEW index \in Nat, NEW term \in Term, index <= f.index
  PROVE  /\ Covered(RestoreLogAfterSnapshot(s, index, term), f)
         /\ RestoreLogAfterSnapshot(s, index, term) \in NodeState
         /\ RestoreLogAfterSnapshot(s, index, term).snapIndex <= f.index
<1> DEFINE r == RestoreLogAfterSnapshot(s, index, term)
<1>1. /\ r \in NodeState /\ r.job = s.job
      /\ r.snapIndex = Larger(s.snapIndex, index)
      /\ index > s.snapIndex => /\ r.applied = Larger(s.applied, index)
                                /\ r.commit = Larger(s.commit, index)
      /\ index <= s.snapIndex => r = s
  BY RestoreMarker
<1>2. s.snapIndex \in Nat /\ s.applied \in Nat /\ s.commit \in Nat /\ f.index \in Nat
  BY NodeFields DEF Snapshot
<1> HIDE DEF r
<1>3. CASE index <= s.snapIndex
  BY <1>1, <1>3 DEF Covered, r
<1>4. CASE index > s.snapIndex
  <2>1. r.snapIndex = index
    BY <1>1, <1>2, <1>4 DEF Larger
  <2>2. index <= Larger(s.applied, index) /\ Larger(s.applied, index) <= Larger(s.commit, index)
    BY <1>2 DEF Covered, Larger
  <2> QED
    BY <1>1, <1>4, <2>1, <2>2 DEF Covered, r
<1> QED
  BY <1>2, <1>3, <1>4

\* SnapshotWorkerLoop publishes the directory before anything else.
LEMMA SaveSnapshotMarker ==
  ASSUME SnapshotInv, TypeOK', NEW n \in Node, SaveSnapshot(n)
  PROVE  SnapshotInv'
<1> DEFINE job == SnapshotPoint(node[n])
           x == [node[n] EXCEPT !.job = job]
           f == Newer(snapFile[n], job.index, job.term)
<1>1. node[n] \in NodeState /\ snapFile[n] \in Snapshot
  BY DEF SnapshotInv, TypeOK
<1>2. job.index = node[n].applied /\ job.term = TermAtIndex(node[n], node[n].applied)
  BY DEF SnapshotPoint
<1>3. job.index \in Nat /\ job.term \in Term
  <2>1. node[n].applied \in Nat
    BY <1>1, NodeFields
  <2>2. TermAtIndex(node[n], node[n].applied) \in Term
    BY <1>1, <2>1, TermAtIndexType, ClusterAssumption
  <2> QED
    BY <1>2, <2>1, <2>2
<1>4. /\ node' = [node EXCEPT ![n] = x] /\ snapFile' = [snapFile EXCEPT ![n] = f]
      /\ UNCHANGED <<disk, rpcs>>
  BY DEF SaveSnapshot
<1> HIDE DEF job
<1>5. /\ x.snapIndex = node[n].snapIndex /\ x.job = job
      /\ x.applied = node[n].applied /\ x.commit = node[n].commit
  BY <1>1 DEF NodeState
<1>6. f \in Snapshot /\ f.index >= snapFile[n].index /\ f.index >= job.index
  BY <1>1, <1>3, NewerCovers
<1> HIDE DEF x, f
<1>7. Covered(x, f)
  <2>1. Covered(node[n], snapFile[n])
    BY DEF SnapshotInv
  <2>2. node[n].snapIndex \in Nat /\ f.index \in Nat /\ snapFile[n].index \in Nat
    BY <1>1, <1>6, NodeFields DEF Snapshot
  <2> QED
    BY <1>3, <1>5, <1>6, <2>1, <2>2 DEF Covered
<1>8. DiskCovered(n)
  BY <1>4 DEF DiskCovered
<1> QED
  BY <1>4, <1>6, <1>7, <1>8, CoveredStep

\* The snapshot worker then cuts the log at the snapshot it has published.
LEMMA CompactMarker ==
  ASSUME SnapshotInv, TypeOK', NEW n \in Node, CompactAfterSnapshot(n)
  PROVE  SnapshotInv'
<1> DEFINE job == node[n].job
           s == [node[n] EXCEPT !.job = NoSnapshot]
           s1 == RestoreLogAfterSnapshot(s, job.index, job.term)
<1>1. node[n] \in NodeState /\ snapFile \in [Node -> Snapshot] /\ snapFile[n] \in Snapshot
  BY DEF SnapshotInv, TypeOK
<1>2. NoSnapshot \in Snapshot /\ NoSnapshot.index = 0
  BY ClusterAssumption DEF NoSnapshot, Snapshot, Term
<1>3. /\ s \in NodeState /\ s.snapIndex = node[n].snapIndex /\ s.job = NoSnapshot
      /\ s.applied = node[n].applied /\ s.commit = node[n].commit
  BY <1>1, <1>2 DEF NodeState
<1>4. Covered(node[n], snapFile[n]) /\ snapFile[n].index \in Nat
  BY <1>1 DEF SnapshotInv, Snapshot
<1>5. job.index \in Nat /\ job.term \in Term /\ job.index <= snapFile[n].index
  BY <1>1, <1>4, NodeFields DEF Snapshot, Covered
<1>6. /\ node' = [node EXCEPT ![n] = s1]
      /\ Saved(n, s1) \/ SaveFails(n, disk[n], s1) \/ NotSaved
      /\ UNCHANGED <<snapFile, rpcs>>
  BY DEF CompactAfterSnapshot
<1> HIDE DEF s, job
<1>7. Covered(s, snapFile[n])
  BY <1>2, <1>3, <1>4 DEF Covered
<1>8. Covered(s1, snapFile[n]) /\ s1.snapIndex <= snapFile[n].index
  BY <1>1, <1>3, <1>5, <1>7, RestoreCovered
<1> HIDE DEF s1
<1>9. DiskCovered(n)
  BY <1>6, <1>8, SaveCovered
<1>10. /\ snapFile' = [snapFile EXCEPT ![n] = snapFile[n]]
       /\ snapFile[n].index >= snapFile[n].index
  BY <1>1, <1>4, <1>6
<1> QED
  BY <1>1, <1>6, <1>8, <1>9, <1>10, CoveredStep

\* The first half of OnInstallSnapshot: the file is published, the log not yet cut.
LEMMA OnInstallSnapshotMarker ==
  ASSUME SnapshotInv, TypeOK', NEW n \in Node, NEW m \in rpcs, OnInstallSnapshot(n, m)
  PROVE  SnapshotInv'
<1> DEFINE s == node[n]
           s1 == FollowSender(s, m)
           X == {s, s1}
           f == Newer(snapFile[n], m.index, m.snapTerm)
           run == [kind |-> "installing", from |-> m.from, to |-> n, term |-> m.term,
                   live |-> m.live, index |-> m.index, snapTerm |-> m.snapTerm,
                   last |-> LastLogIndex(s)]
<1>1. m \in InstallRequests
  BY RpcKinds DEF SnapshotInv, TypeOK, OnInstallSnapshot
<1>2. /\ m.term \in Term /\ m.from \in Node /\ m.index \in Nat /\ m.snapTerm \in Term
      /\ s \in NodeState /\ snapFile \in [Node -> Snapshot] /\ snapFile[n] \in Snapshot
  BY <1>1 DEF InstallRequests, SnapshotInv, TypeOK
<1>3. node = [node EXCEPT ![n] = s]
  BY DEF SnapshotInv, TypeOK
<1> HIDE DEF s
<1>4. s1 \in NodeState /\ SameMarker(s, s1) /\ SameMarker(s, s)
  BY <1>2, FollowSenderType, RolesSameMarker
<1> HIDE DEF s1
<1>5. \A x \in X : x \in NodeState /\ SameMarker(s, x) /\ x.snapIndex = s.snapIndex
  BY <1>2, <1>4 DEF SameMarker
<1>6. /\ \E x \in X : node' = [node EXCEPT ![n] = x]
      /\ NotSaved \/ (\E x \in X : Saved(n, x)) \/ (\E x \in X : SaveFails(n, disk[n], x))
      /\ \/ UNCHANGED snapFile /\ \E t, ok, i : Reply(m, InstallReply(m, t, ok, i))
         \/ snapFile' = [snapFile EXCEPT ![n] = f] /\ rpcs' = (rpcs \ {m}) \cup {run}
  BY <1>3 DEF OnInstallSnapshot, s, s1
<1>7. s \in X
  OBVIOUS
<1> HIDE DEF X
<1>8. CASE UNCHANGED snapFile /\ \E t, ok, i : Reply(m, InstallReply(m, t, ok, i))
  <2>1. \A t, ok, i : InstallReply(m, t, ok, i).kind = "installReply"
    BY DEF InstallReply
  <2>2. NoNewInstalling
    BY <1>8, <2>1, ReplyNoInstalling
  <2>3. DiskCovered(n)
    BY <1>5, <1>6, <1>7, <1>8, SaveSameMarker DEF s
  <2> QED
    BY <1>5, <1>6, <1>8, <2>2, <2>3, SameMarkerStep DEF s
<1>9. CASE snapFile' = [snapFile EXCEPT ![n] = f] /\ rpcs' = (rpcs \ {m}) \cup {run}
  <2>1. f \in Snapshot /\ f.index >= snapFile[n].index /\ f.index >= m.index
    BY <1>2, NewerCovers
  <2>2. run.index = m.index /\ run.to = n
    OBVIOUS
  <2> HIDE DEF f, run
  <2>3. snapFile'[n] = f
    BY <1>2, <1>9
  <2>4. /\ Covered(s, snapFile[n]) /\ f.index \in Nat /\ snapFile[n].index \in Nat
        /\ s.snapIndex \in Nat /\ s.job.index \in Nat /\ s.applied \in Nat /\ s.commit \in Nat
    BY <1>2, <2>1, NodeFields DEF SnapshotInv, Snapshot, s
  <2>5. \A x \in X : Covered(x, f)
    <3> SUFFICES ASSUME NEW x \in X PROVE Covered(x, f)
      OBVIOUS
    <3>1. x.commit \in Nat /\ SameMarker(s, x)
      BY <1>5, NodeFields
    <3> QED
      BY <2>1, <2>4, <3>1 DEF Covered, SameMarker
  <2>6. s.snapIndex <= snapFile'[n].index
    BY <1>7, <2>3, <2>5 DEF Covered
  <2>7. DiskCovered(n)
    BY <1>5, <1>6, <1>7, <2>6, SaveCovered
  <2>8. \A q \in rpcs' : q \in rpcs \/ q.index <= snapFile'[q.to].index
    BY <1>2, <1>9, <2>1, <2>2, <2>3, <2>4
  <2> QED
    BY <1>6, <1>9, <2>1, <2>5, <2>7, <2>8, CoveredStep
<1> QED
  BY <1>6, <1>8, <1>9

\* The second half: the log is cut at a snapshot that is on disk.
LEMMA FinishInstallMarker ==
  ASSUME SnapshotInv, TypeOK', NEW n \in Node, NEW m \in rpcs, FinishInstallSnapshot(n, m)
  PROVE  SnapshotInv'
<1> DEFINE s == node[n]
           s1 == RestoreLogAfterSnapshot(s, m.index, m.snapTerm)
<1>1. m \in RunningInstalls /\ m.to = n /\ m.kind = "installing"
  BY RpcKinds DEF SnapshotInv, TypeOK, FinishInstallSnapshot
<1>2. /\ m.index \in Nat /\ m.snapTerm \in Term /\ s \in NodeState
      /\ snapFile \in [Node -> Snapshot] /\ snapFile[n] \in Snapshot
  BY <1>1 DEF RunningInstalls, SnapshotInv, TypeOK
<1>3. Covered(s, snapFile[n]) /\ m.index <= snapFile[n].index
  BY <1>1 DEF SnapshotInv
<1> HIDE DEF s
<1>4. Covered(s1, snapFile[n]) /\ s1.snapIndex <= snapFile[n].index
  BY <1>2, <1>3, RestoreCovered
<1>5. /\ UNCHANGED snapFile
      /\ \E t, ok, i : Reply(m, InstallReply(m, t, ok, i))
      /\ \/ UNCHANGED node /\ NotSaved
         \/ node' = [node EXCEPT ![n] = s1] /\ (Saved(n, s1) \/ SaveFails(n, disk[n], s1))
  BY DEF FinishInstallSnapshot, s
<1> HIDE DEF s1
<1>6. NoNewInstalling
  <2>1. \A t, ok, i : InstallReply(m, t, ok, i).kind = "installReply"
    BY DEF InstallReply
  <2> QED
    BY <1>5, <2>1, ReplyNoInstalling
<1>7. CASE UNCHANGED node /\ NotSaved
  BY <1>5, <1>6, <1>7, IdleMarker DEF NotSaved
<1>8. CASE node' = [node EXCEPT ![n] = s1] /\ (Saved(n, s1) \/ SaveFails(n, disk[n], s1))
  <2>1. DiskCovered(n)
    BY <1>4, <1>5, <1>8, SaveCovered
  <2>2. /\ snapFile' = [snapFile EXCEPT ![n] = snapFile[n]]
        /\ snapFile[n].index >= snapFile[n].index
    BY <1>2, <1>5 DEF Snapshot
  <2> QED
    BY <1>2, <1>4, <1>6, <1>8, <2>1, <2>2, CoveredStep DEF NoNewInstalling
<1> QED
  BY <1>5, <1>7, <1>8

\* The constructor restores the newest snapshot: the marker is under it and applied.
LEMMA RecoveredCovered ==
  ASSUME NEW d \in DiskState, NEW f \in Snapshot, d.snapIndex <= f.index
  PROVE  Covered(Recovered(d, f), f)
<1> DEFINE s == [FreshNode EXCEPT !.term = d.term, !.vote = d.vote, !.log = d.log,
                                  !.snapIndex = d.snapIndex, !.snapTerm = d.snapTerm]
           s1 == [s EXCEPT !.commit = Smaller(Larger(d.commit, d.applied), LastLogIndex(s))]
           s2 == RestoreLogAfterSnapshot(s1, f.index, f.term)
           commit == Larger(s2.commit, f.index)
           r == [s2 EXCEPT !.commit = commit, !.applied = commit]
<1>1. s \in NodeState /\ s.snapIndex = d.snapIndex /\ s.job = NoSnapshot
  <2>1. FreshNode \in NodeState /\ FreshNode.job = NoSnapshot
    BY ClusterAssumption, FreshNodeType DEF FreshNode
  <2> QED
    BY <2>1 DEF NodeState, DiskState
<1>2. Smaller(Larger(d.commit, d.applied), LastLogIndex(s)) \in Nat
  <2>1. LastLogIndex(s) \in Nat
    BY <1>1, LastLogIndexType
  <2> HIDE DEF s
  <2> QED
    BY <2>1 DEF Smaller, Larger, DiskState
<1> HIDE DEF s
<1>3. s1 \in NodeState /\ s1.snapIndex = d.snapIndex /\ s1.job = NoSnapshot
  BY <1>1, <1>2 DEF NodeState
<1> HIDE DEF s1
<1>4. f.index \in Nat /\ f.term \in Term /\ d.snapIndex \in Nat
  BY DEF Snapshot, DiskState
<1>5. s2 \in NodeState /\ s2.job = NoSnapshot /\ s2.snapIndex = Larger(d.snapIndex, f.index)
  BY <1>3, <1>4, RestoreMarker
<1>6. s2.snapIndex = f.index /\ s2.commit \in Nat
  BY <1>4, <1>5, NodeFields DEF Larger
<1> HIDE DEF s2
<1>7. commit \in Nat /\ commit >= f.index
  BY <1>4, <1>6 DEF Larger
<1> HIDE DEF commit
<1>8. r.snapIndex = f.index /\ r.job = NoSnapshot /\ r.applied = commit /\ r.commit = commit
  BY <1>5, <1>6, <1>7 DEF NodeState
<1>9. Recovered(d, f) = r
  BY DEF Recovered, s, s1, s2, commit
<1> HIDE DEF r
<1>10. NoSnapshot.index = 0
  BY DEF NoSnapshot
<1>11. Covered(r, f)
  BY <1>4, <1>7, <1>8, <1>10 DEF Covered
<1> QED
  BY <1>8, <1>9, <1>11

\* A restart.
LEMMA CrashRestartMarker ==
  ASSUME SnapshotInv, TypeOK', NEW n \in Node, CrashRestart(n)
  PROVE  SnapshotInv'
<1> DEFINE s == Recovered(disk[n], snapFile[n])
<1>1. disk[n] \in DiskState /\ snapFile \in [Node -> Snapshot] /\ snapFile[n] \in Snapshot
  BY DEF SnapshotInv, TypeOK
<1>2. Covered(s, snapFile[n])
  BY <1>1, RecoveredCovered DEF SnapshotInv
<1>3. /\ node' = [node EXCEPT ![n] = s] /\ disk' = [disk EXCEPT ![n] = HardState(s)]
      /\ UNCHANGED snapFile
  BY DEF CrashRestart
<1> HIDE DEF s
<1>4. DiskCovered(n)
  BY <1>2, <1>3 DEF DiskCovered, Covered, HardState
<1>5. ASSUME NEW q \in rpcs', q.kind = "installing"
      PROVE  q.index <= snapFile'[q.to].index
  <2>1. PICK m \in rpcs : q = IF m.from = n THEN [m EXCEPT !.live = FALSE] ELSE m
    BY DEF CrashRestart
  <2>2. m \in Rpc
    BY DEF SnapshotInv, TypeOK
  <2>3. q.kind = m.kind
    BY <2>1, <2>2 DEF Rpc, VoteRequests, VoteReplies, AppendRequests, AppendReplies,
                  InstallRequests, RunningInstalls, InstallReplies
  <2>4. m \in RunningInstalls
    BY <1>5, <2>2, <2>3, RpcKinds
  <2>5. q.index = m.index /\ q.to = m.to
    BY <2>1, <2>4 DEF RunningInstalls
  <2>6. m.index <= snapFile[m.to].index
    BY <1>5, <2>3 DEF SnapshotInv
  <2> QED
    BY <1>3, <2>5, <2>6
<1>6. /\ snapFile' = [snapFile EXCEPT ![n] = snapFile[n]]
      /\ snapFile[n].index >= snapFile[n].index
  BY <1>1, <1>3 DEF Snapshot
<1> QED
  BY <1>1, <1>2, <1>3, <1>4, <1>5, <1>6, CoveredStep

----------------------------------------------------------------------------
(* The theorems *)

\* A fresh cluster.
LEMMA InitSnapshot == Init => SnapshotInv
<1> SUFFICES ASSUME Init PROVE SnapshotInv
  OBVIOUS
<1>1. TypeOK
  BY InitType
<1>2. /\ NoSnapshot.index = 0
      /\ FreshNode.snapIndex = 0 /\ FreshNode.applied = 0 /\ FreshNode.commit = 0
      /\ FreshNode.job = NoSnapshot
  BY DEF FreshNode, NoSnapshot
<1>3. HardState(FreshNode).snapIndex = 0
  BY <1>2 DEF HardState
<1>4. Covered(FreshNode, NoSnapshot)
  BY <1>2 DEF Covered
<1>5. \A n \in Node : node[n] = FreshNode /\ snapFile[n] = NoSnapshot
                     /\ disk[n] = HardState(FreshNode)
  BY DEF Init
<1>6. \A n \in Node : Covered(node[n], snapFile[n]) /\ disk[n].snapIndex <= snapFile[n].index
  BY <1>2, <1>3, <1>4, <1>5
<1> QED
  BY <1>1, <1>6 DEF SnapshotInv, Init

\* Every critical section keeps the log's marker covered.
LEMMA NextSnapshot ==
  ASSUME SetFacts
  PROVE  SnapshotInv /\ [Next]_vars => SnapshotInv'
<1> SUFFICES ASSUME SnapshotInv, [Next]_vars PROVE SnapshotInv'
  OBVIOUS
<1>1. TypeOK'
  BY NextType DEF SnapshotInv
<1>2. CASE UNCHANGED vars
  BY <1>1, <1>2, IdleMarker DEF vars, NoNewInstalling
<1>3. CASE Next
  BY <1>1, <1>3, StartElectionMarker, OnRequestVoteMarker, OnVoteReplyMarker, ProposeMarker,
     ProposeReplicatedMarker, ApplyMarker, ReplicatorMarker, OnAppendEntriesMarker,
     OnAppendReplyMarker, OnInstallReplyMarker, SaveSnapshotMarker, CompactMarker,
     OnInstallSnapshotMarker, FinishInstallMarker, CrashRestartMarker DEF Next
<1> QED
  BY <1>2, <1>3

============================================================================
