------------------------ MODULE RaftElectionProofs -------------------------
(***************************************************************************)
(* At most one leader per term, for every cluster size and every number of *)
(* crashes, failed saves and lost or late RPCs.                            *)
(*                                                                         *)
(* ElectionSafety alone is not inductive.  The invariant adds that a vote  *)
(* given is remembered in memory and on disk (PromiseKept), and that every *)
(* vote counted anywhere is a ballot that was cast (VotesBacked).  Two     *)
(* majorities share a voter, who has one ballot per term.                  *)
(*                                                                         *)
(* Most steps give no vote, count none and only move terms forward: these  *)
(* are the Quiet steps, and one lemma treats them all.                     *)
(*                                                                         *)
(* The last section shows from the same invariant that the cluster         *)
(* implements Election.                                                    *)
(***************************************************************************)
EXTENDS RaftTypeProofs

ElectionInv == TypeOK /\ PromiseKept /\ VotesBacked

\* b remembers every vote that a remembers.
Follows(a, b) == b.term > a.term \/ (b.term = a.term /\ a.vote \in {Nil, b.vote})

\* b is a candidate only if a is, with the same votes.
SameBid(a, b) == b.role = "Candidate" => a.role = "Candidate" /\ a.term = b.term /\ a.votes = b.votes

Quiet ==
  /\ UNCHANGED <<ballots, leaders>>
  /\ \A p \in Node : Follows(node[p], node'[p]) \/ Follows(disk[p], node'[p])
  /\ \A p \in Node : Follows(node[p], disk'[p]) \/ Follows(disk[p], disk'[p])
  /\ \A p \in Node : SameBid(node[p], node'[p])
  /\ \A m \in rpcs' : m.kind = "voteReply" => m \in rpcs

\* d, the memory or the disk of p, remembers every ballot p cast.
Keeps(p, d) ==
  \A t \in Term : ballots[p][t] # Nil => d.term > t \/ (d.term = t /\ d.vote = ballots[p][t])

----------------------------------------------------------------------------
(* Remembering *)

\* PromiseKept is what the memory and the disk of every node keep.
LEMMA PromiseIsKeeping ==
  ASSUME TypeOK
  PROVE  PromiseKept <=> \A p \in Node : Keeps(p, node[p]) /\ Keeps(p, disk[p])
<1>1. \A p \in Node : HardState(node[p]).term = node[p].term /\ HardState(node[p]).vote = node[p].vote
  BY DEF HardState
<1> QED
  BY <1>1 DEF PromiseKept, Keeps

\* What follows a state that remembers p's votes remembers them too.
LEMMA FollowsKeeps ==
  ASSUME NEW p \in Node, NEW a, NEW b, a.term \in Term, b.term \in Term,
         Keeps(p, a), Follows(a, b)
  PROVE  Keeps(p, b)
<1>1. \A t \in Term : t \in Int
  BY ClusterAssumption DEF Term
<1> QED
  BY <1>1 DEF Keeps, Follows

\* A step that gives no vote and counts none preserves the invariant.
LEMMA QuietStep ==
  ASSUME ElectionInv, TypeOK', Quiet
  PROVE  ElectionInv'
<1>1. \A p \in Node : node[p].term \in Term /\ disk[p].term \in Term
                      /\ node'[p].term \in Term /\ disk'[p].term \in Term
  BY DEF ElectionInv, TypeOK, NodeState, DiskState
<1>2. \A p \in Node : Keeps(p, node[p]) /\ Keeps(p, disk[p])
  BY PromiseIsKeeping DEF ElectionInv
<1>3. ASSUME NEW p \in Node
      PROVE  Keeps(p, node'[p]) /\ Keeps(p, disk'[p])
  <2>1. Keeps(p, node'[p])
    BY <1>1, <1>2, FollowsKeeps DEF Quiet
  <2>2. Keeps(p, disk'[p])
    BY <1>1, <1>2, FollowsKeeps DEF Quiet
  <2> QED
    BY <2>1, <2>2
<1>4. PromiseKept'
  <2>1. \A p \in Node : HardState(node'[p]).term = node'[p].term
                        /\ HardState(node'[p]).vote = node'[p].vote
    BY DEF HardState
  <2> QED
    BY <1>3, <2>1 DEF PromiseKept, Keeps, Quiet
<1>5. VotesBacked'
  <2>1. \A m \in rpcs' : m.kind = "voteReply" /\ m.granted => ballots'[m.to][m.reqTerm] = m.from
    BY DEF ElectionInv, VotesBacked, Quiet
  <2>2. \A n \in Node : node'[n].role = "Candidate" =>
          \A v \in node'[n].votes : ballots'[v][node'[n].term] = n
    BY DEF ElectionInv, VotesBacked, Quiet, SameBid
  <2>3. \A t \in Term : \A n \in leaders'[t] : IsQuorum({v \in Node : ballots'[v][t] = n})
    BY DEF ElectionInv, VotesBacked, Quiet
  <2> QED
    BY <2>1, <2>2, <2>3 DEF VotesBacked, IsQuorum
<1> QED
  BY <1>4, <1>5 DEF ElectionInv

----------------------------------------------------------------------------
(* Quiet steps *)

\* Nothing n could save next to x forgets a vote.
DiskFollows(n) ==
  disk' = disk \/ \E d : (d = disk[n] \/ Follows(node[n], d)) /\ disk' = [disk EXCEPT ![n] = d]

\* A save, done or failed, of a state that remembers the votes of n.
LEMMA SaveFollows ==
  ASSUME NEW n \in Node, NEW s, Follows(node[n], s), NEW b, b = disk[n] \/ Follows(node[n], b),
         Saved(n, s) \/ NotSaved \/ SaveFails(n, b, s)
  PROVE  DiskFollows(n)
<1>1. Follows(node[n], HardState(s))
  BY DEF Follows, HardState
<1> QED
  BY <1>1 DEF DiskFollows, Saved, NotSaved, SaveFails

\* A step of one node that only moves its term forward.
LEMMA LocalQuiet ==
  ASSUME TypeOK, NEW n \in Node, NEW x, node' = [node EXCEPT ![n] = x],
         Follows(node[n], x), SameBid(node[n], x), DiskFollows(n),
         UNCHANGED <<ballots, leaders>>,
         \A m \in rpcs' : m.kind = "voteReply" => m \in rpcs
  PROVE  Quiet
<1>1. \A p \in Node : node'[p] = IF p = n THEN x ELSE node[p]
  BY DEF TypeOK
<1>2. \A p \in Node : Follows(disk[p], disk[p]) /\ Follows(node[p], node[p]) /\ SameBid(node[p], node[p])
  BY DEF Follows, SameBid
<1>3. \A p \in Node : Follows(node[p], disk'[p]) \/ Follows(disk[p], disk'[p])
  <2>1. CASE disk' = disk
    BY <1>2, <2>1
  <2>2. ASSUME NEW d, d = disk[n] \/ Follows(node[n], d), disk' = [disk EXCEPT ![n] = d]
        PROVE  \A p \in Node : Follows(node[p], disk'[p]) \/ Follows(disk[p], disk'[p])
    <3>1. \A p \in Node : disk'[p] = IF p = n THEN d ELSE disk[p]
      BY <2>2 DEF TypeOK
    <3> QED
      BY <1>2, <2>2, <3>1
  <2> QED
    BY <2>1, <2>2 DEF DiskFollows
<1> QED
  BY <1>1, <1>2, <1>3 DEF Quiet

\* A step that touches neither the nodes nor their disks.
LEMMA IdleQuiet ==
  ASSUME UNCHANGED <<node, disk, ballots, leaders>>,
         \A m \in rpcs' : m.kind = "voteReply" => m \in rpcs
  PROVE  Quiet
BY DEF Quiet, Follows, SameBid

\* BecomeFollowerLocked forgets a vote only when the term moves.
LEMMA BecomeFollowerFollows ==
  ASSUME NEW s \in NodeState, NEW term \in Term, NEW leader
  PROVE  Follows(s, BecomeFollower(s, term, leader)) /\ SameBid(s, BecomeFollower(s, term, leader))
<1>1. s.term \in Int /\ term \in Int
  BY ClusterAssumption DEF NodeState, Term
<1>2. /\ BecomeFollower(s, term, leader).term = Larger(term, s.term)
      /\ BecomeFollower(s, term, leader).vote = IF term > s.term THEN Nil ELSE s.vote
      /\ BecomeFollower(s, term, leader).role = "Follower"
  BY DEF BecomeFollower, NodeState
<1> QED
  BY <1>1, <1>2 DEF Follows, SameBid, Larger

\* b differs from a in its log, indexes or bookkeeping only.
SameVote(a, b) == b.term = a.term /\ b.vote = a.vote /\ b.role = a.role /\ b.votes = a.votes

\* Remembering carries over to a state that differs in its log or indexes only.
LEMMA SameVoteFollows ==
  ASSUME NEW a, NEW b, NEW c, Follows(a, b), SameBid(a, b), SameVote(b, c)
  PROVE  Follows(a, c) /\ SameBid(a, c)
BY DEF Follows, SameBid, SameVote

\* A state remembers its own votes.
LEMMA SelfFollows ==
  ASSUME NEW a, NEW b, SameVote(a, b)
  PROVE  Follows(a, b) /\ SameBid(a, b)
BY DEF Follows, SameBid, SameVote

\* Restoring, compacting and committing leave term, vote and role alone.
LEMMA LogStepsSameVote ==
  ASSUME NEW s \in NodeState, NEW n
  PROVE  /\ SameVote(s, AdvanceCommitIndex(n, s))
         /\ \A index, term : SameVote(s, RestoreLogAfterSnapshot(s, index, term))
BY DEF SameVote, AdvanceCommitIndex, RestoreLogAfterSnapshot, NodeState

\* The sender of a request becomes the leader: the vote of the term stays.
LEMMA FollowSenderFollows ==
  ASSUME NEW s \in NodeState, NEW m, m.term \in Term
  PROVE  Follows(s, FollowSender(s, m)) /\ SameBid(s, FollowSender(s, m))
<1>1. Follows(s, s) /\ SameBid(s, s)
  BY DEF Follows, SameBid
<1> QED
  BY <1>1, BecomeFollowerFollows DEF FollowSender

\* Stepping down on a reply with a higher term is quiet.
LEMMA StepDownQuiet ==
  ASSUME TypeOK, NEW n \in Node, NEW term \in Term, StepDownOnHigherTerm(n, term),
         UNCHANGED <<ballots, leaders>>,
         \A m \in rpcs' : m.kind = "voteReply" => m \in rpcs
  PROVE  Quiet
<1> DEFINE s == BecomeFollower(node[n], term, Nil)
<1>1. Follows(node[n], s) /\ SameBid(node[n], s)
  BY BecomeFollowerFollows DEF TypeOK
<1>2. node' = [node EXCEPT ![n] = s] /\ (Saved(n, s) \/ SaveFails(n, disk[n], s))
  BY DEF StepDownOnHigherTerm
<1> HIDE DEF s
<1>3. DiskFollows(n)
  BY <1>1, <1>2, SaveFollows
<1> QED
  BY <1>1, <1>2, <1>3, LocalQuiet

\* An answer that is not a vote reply leaves the vote replies alone.
LEMMA ReplyQuiet ==
  ASSUME NEW m, NEW r, Reply(m, r), r.kind # "voteReply"
  PROVE  \A q \in rpcs' : q.kind = "voteReply" => q \in rpcs
BY DEF Reply

\* A local append gives no vote.
LEMMA AppendLocalLogQuiet ==
  ASSUME TypeOK, NEW n \in Node, NEW s \in NodeState, SameVote(node[n], s), NEW cmd,
         AppendLocalLog(n, s, cmd), UNCHANGED <<rpcs, ballots, leaders>>
  PROVE  Quiet
<1> DEFINE e == WithEntry(s, cmd)
<1>1. SameVote(node[n], e)
  BY DEF SameVote, WithEntry, NodeState
<1>2. /\ Follows(node[n], s) /\ SameBid(node[n], s)
      /\ Follows(node[n], e) /\ SameBid(node[n], e)
  BY <1>1, SelfFollows
<1>3. /\ Saved(n, e) \/ SaveFails(n, disk[n], e)
      /\ node' = [node EXCEPT ![n] = e] \/ node' = [node EXCEPT ![n] = s]
  BY DEF AppendLocalLog
<1> HIDE DEF e
<1>4. DiskFollows(n)
  BY <1>2, <1>3, SaveFollows
<1> QED
  BY <1>2, <1>3, <1>4, LocalQuiet

\* The no-op of a new leader gives no vote.
LEMMA ProposeNoOpEntryQuiet ==
  ASSUME TypeOK, NEW n \in Node, ProposeNoOpEntry(n)
  PROVE  Quiet
<1> DEFINE s == [node[n] EXCEPT !.noops = @ - 1]
<1>1. s \in NodeState
  <2>1. node[n] \in NodeState /\ node[n].noops > 0
    BY DEF TypeOK, ProposeNoOpEntry
  <2>2. node[n].noops - 1 \in Nat
    BY <2>1 DEF NodeState
  <2> QED
    BY <2>1, <2>2 DEF NodeState
<1>2. SameVote(node[n], s)
  BY DEF SameVote, TypeOK, NodeState
<1> HIDE DEF s
<1>3. UNCHANGED <<rpcs, ballots, leaders>>
  BY DEF ProposeNoOpEntry
<1>4. CASE node' = [node EXCEPT ![n] = s] /\ NotSaved
  <2>1. DiskFollows(n)
    BY <1>4 DEF NotSaved, DiskFollows
  <2> QED
    BY <1>2, <1>3, <1>4, <2>1, SelfFollows, LocalQuiet
<1>5. CASE AppendLocalLog(n, s, NoOp)
  BY <1>1, <1>2, <1>3, <1>5, AppendLocalLogQuiet
<1> QED
  BY <1>4, <1>5 DEF ProposeNoOpEntry, s

\* A client's command gives no vote.
LEMMA ProposeQuiet ==
  ASSUME TypeOK, NEW n \in Node, NEW v, Propose(n, v)
  PROVE  Quiet
<1>1. node[n] \in NodeState /\ SameVote(node[n], node[n])
  BY DEF TypeOK, SameVote
<1> QED
  BY <1>1, AppendLocalLogQuiet DEF Propose

\* Advancing the commit index gives no vote, saved or not.
LEMMA StoreCommitQuiet ==
  ASSUME TypeOK, NEW n \in Node, NEW s \in NodeState, SameVote(node[n], s), StoreCommit(n, s),
         node' = [node EXCEPT ![n] = s], UNCHANGED <<ballots, leaders>>,
         \A m \in rpcs' : m.kind = "voteReply" => m \in rpcs
  PROVE  Quiet
<1>1. Follows(node[n], s) /\ SameBid(node[n], s)
  BY SelfFollows
<1>2. DiskFollows(n)
  BY <1>1, SaveFollows DEF StoreCommit
<1> QED
  BY <1>1, <1>2, LocalQuiet

\* ReplicateLogEntryToMajority gives no vote.
LEMMA ProposeReplicatedQuiet ==
  ASSUME SetFacts, TypeOK, NEW n \in Node, NEW c, ProposeReplicated(n, c)
  PROVE  Quiet
<1> DEFINE s == AdvanceCommitIndex(n, node[n])
<1>1. s \in NodeState /\ SameVote(node[n], s)
  BY AdvanceCommitType, LogStepsSameVote DEF TypeOK
<1> HIDE DEF s
<1>2. /\ node' = [node EXCEPT ![n] = s] /\ StoreCommit(n, s)
      /\ UNCHANGED <<rpcs, ballots, leaders>>
  BY DEF ProposeReplicated, s
<1> QED
  BY <1>1, <1>2, StoreCommitQuiet

\* ApplyCommittedEntries gives no vote.
LEMMA ApplyCommittedEntriesQuiet ==
  ASSUME TypeOK, NEW n \in Node, ApplyCommittedEntries(n)
  PROVE  Quiet
<1> DEFINE s == [node[n] EXCEPT !.applied = @ + 1]
<1>1. SameVote(node[n], s)
  BY DEF SameVote, TypeOK, NodeState
<1> HIDE DEF s
<1>2. Follows(node[n], s) /\ SameBid(node[n], s)
  BY <1>1, SelfFollows
<1>3. /\ node' = [node EXCEPT ![n] = s] /\ (Saved(n, s) \/ SaveFails(n, disk[n], s))
      /\ UNCHANGED <<rpcs, ballots, leaders>>
  BY DEF ApplyCommittedEntries, s
<1>4. DiskFollows(n)
  BY <1>2, <1>3, SaveFollows
<1> QED
  BY <1>2, <1>3, <1>4, LocalQuiet

\* A Replicator's request and its timeout give no vote.
LEMMA ReplicatorQuiet ==
  /\ \A n, p \in Node : ReplicateOnce(n, p) => Quiet
  /\ \A m \in rpcs : TypeOK /\ RpcTimeout(m) => Quiet
  /\ \A n \in Node, c \in calls : ProposeDone(n, c) => Quiet
<1>1. ASSUME NEW n \in Node, NEW p \in Node, ReplicateOnce(n, p)
      PROVE  Quiet
  <2>1. InstallRequest(n, p, node[n]).kind = "install" /\ AppendRequest(n, p, node[n]).kind = "append"
    BY DEF InstallRequest, AppendRequest
  <2> QED
    BY <1>1, <2>1, IdleQuiet DEF ReplicateOnce
<1>2. ASSUME NEW m \in rpcs, TypeOK, RpcTimeout(m)
      PROVE  Quiet
  <2>1. m.kind # "voteReply" /\ m \in Rpc
    BY <1>2 DEF RpcTimeout, IsReplication, TypeOK
  <2>2. [m EXCEPT !.live = FALSE].kind = m.kind
    BY <2>1 DEF Rpc, VoteRequests, VoteReplies, AppendRequests, AppendReplies, InstallRequests,
                RunningInstalls, InstallReplies
  <2> QED
    BY <1>2, <2>1, <2>2, IdleQuiet DEF RpcTimeout
<1>3. ASSUME NEW n \in Node, NEW c \in calls, ProposeDone(n, c)
      PROVE  Quiet
  BY <1>3, IdleQuiet DEF ProposeDone
<1> QED
  BY <1>1, <1>2, <1>3

\* OnAppendEntries gives no vote and never forgets one of its term.
LEMMA OnAppendEntriesQuiet ==
  ASSUME TypeOK, NEW n \in Node, NEW m \in rpcs, OnAppendEntries(n, m)
  PROVE  Quiet
<1> DEFINE s == node[n]
           s1 == FollowSender(s, m)
           s2 == [s1 EXCEPT !.log = LogAfterAppend(s1, m.prevIndex, m.entries)]
           s3 == WithLeaderCommit(s2, m)
           newTerm == m.term > s.term
           newLog == s2.log # s1.log
           newCommit == s3.commit # s2.commit
           base1 == IF newTerm THEN HardState(s1) ELSE disk[n]
           base2 == IF newTerm \/ newLog THEN HardState(s2) ELSE disk[n]
<1>1. m \in AppendRequests
  BY RpcKinds DEF TypeOK, OnAppendEntries
<1>2. m.term \in Term /\ m.from \in Node /\ s \in NodeState
  BY <1>1 DEF AppendRequests, TypeOK
<1>3. Follows(s, s) /\ SameBid(s, s)
  BY DEF Follows, SameBid
<1> HIDE DEF s
<1>4. Follows(s, s1) /\ SameBid(s, s1) /\ s1 \in NodeState
  BY <1>2, FollowSenderFollows, FollowSenderType
<1> HIDE DEF s1
<1>5. SameVote(s1, s2) /\ SameVote(s1, s3)
  BY <1>4 DEF SameVote, NodeState, WithLeaderCommit
<1>6. Follows(s, s2) /\ SameBid(s, s2) /\ Follows(s, s3) /\ SameBid(s, s3)
  BY <1>4, <1>5, SameVoteFollows
<1> HIDE DEF s2, s3
<1> DEFINE X == {s, s1, s2, s3}
           B == {disk[n], base1, base2}
<1>7. \A x \in X : Follows(s, x) /\ SameBid(s, x)
  BY <1>3, <1>4, <1>6
<1>8. \A b \in B : b = disk[n] \/ Follows(s, b)
  <2>1. Follows(s, HardState(s1)) /\ Follows(s, HardState(s2))
    BY <1>4, <1>6 DEF Follows, HardState
  <2> QED
    BY <2>1
<1>9. /\ \E x \in X : node' = [node EXCEPT ![n] = x]
      /\ NotSaved \/ (\E x \in X : Saved(n, x)) \/ (\E x \in X, b \in B : SaveFails(n, b, x))
      /\ \E x, ok, i, h : Reply(m, AppendReply(m, x, ok, i, h))
      /\ UNCHANGED <<ballots, leaders>>
  <2>1. node = [node EXCEPT ![n] = s]
    BY DEF TypeOK, s
  <2>2. /\ \E x \in X : node' = [node EXCEPT ![n] = x]
        /\ \E x, ok, i, h : Reply(m, AppendReply(m, x, ok, i, h))
        /\ UNCHANGED <<ballots, leaders>>
    BY <2>1 DEF OnAppendEntries, s, s1, s2, s3
  <2>3. NotSaved \/ (\E x \in X : Saved(n, x)) \/ (\E x \in X, b \in B : SaveFails(n, b, x))
    BY DEF OnAppendEntries, s, s1, s2, s3
  <2> QED
    BY <2>2, <2>3
<1> HIDE DEF X, B
<1>10. DiskFollows(n)
  BY <1>3, <1>7, <1>8, <1>9, SaveFollows DEF s
<1>11. \A q \in rpcs' : q.kind = "voteReply" => q \in rpcs
  <2>1. \A x, ok, i, h : AppendReply(m, x, ok, i, h).kind = "appendReply"
    BY DEF AppendReply
  <2> QED
    BY <1>9, <2>1, ReplyQuiet
<1> QED
  BY <1>7, <1>9, <1>10, <1>11, LocalQuiet DEF s

\* HandleAppendEntriesResponse gives no vote.
LEMMA OnAppendReplyQuiet ==
  ASSUME SetFacts, TypeOK, NEW n \in Node, NEW m \in rpcs, OnAppendReply(n, m)
  PROVE  Quiet
<1> DEFINE s == node[n]
           matched == [s EXCEPT !.match[m.to] = Larger(@, m.match),
                                !.next[m.to] = Larger(@, m.match + 1)]
           ok == AdvanceCommitIndex(n, matched)
           back == [s EXCEPT !.next[m.to] = HintedNext(s, @, m.last, m.hint)]
<1>1. m \in AppendReplies
  BY RpcKinds DEF TypeOK, OnAppendReply
<1>2. m.term \in Term /\ m.to \in Node /\ m.match \in Nat /\ s \in NodeState
  BY <1>1 DEF AppendReplies, TypeOK
<1> HIDE DEF s
<1>3. matched \in NodeState /\ SameVote(s, matched)
  <2>1. s.match \in [Node -> Nat] /\ s.next \in [Node -> Nat]
    BY <1>2 DEF NodeState
  <2>2. /\ [s.match EXCEPT ![m.to] = Larger(s.match[m.to], m.match)] \in [Node -> Nat]
        /\ [s.next EXCEPT ![m.to] = Larger(s.next[m.to], m.match + 1)] \in [Node -> Nat]
    BY <1>2, <2>1 DEF Larger
  <2> QED
    BY <1>2, <2>2 DEF NodeState, SameVote
<1> HIDE DEF matched
<1>4. SameVote(matched, ok) /\ ok \in NodeState
  BY <1>3, LogStepsSameVote, AdvanceCommitType
<1> HIDE DEF ok
<1>5. SameVote(s, ok)
  BY <1>3, <1>4 DEF SameVote
<1>6. SameVote(s, back)
  BY <1>2 DEF SameVote, NodeState
<1> HIDE DEF back
<1>7. /\ UNCHANGED <<ballots, leaders>>
      /\ \A q \in rpcs' : q.kind = "voteReply" => q \in rpcs
  BY DEF OnAppendReply
<1>8. \/ StepDownOnHigherTerm(n, m.term)
      \/ NotSaved /\ UNCHANGED node
      \/ node' = [node EXCEPT ![n] = ok] /\ StoreCommit(n, ok)
      \/ node' = [node EXCEPT ![n] = back] /\ NotSaved
  BY DEF OnAppendReply, s, matched, ok, back
<1>9. CASE StepDownOnHigherTerm(n, m.term)
  BY <1>2, <1>7, <1>9, StepDownQuiet
<1>10. CASE NotSaved /\ UNCHANGED node
  BY <1>7, <1>10, IdleQuiet DEF NotSaved
<1>11. CASE node' = [node EXCEPT ![n] = ok] /\ StoreCommit(n, ok)
  BY <1>4, <1>5, <1>7, <1>11, StoreCommitQuiet DEF s
<1>12. CASE node' = [node EXCEPT ![n] = back] /\ NotSaved
  <2>1. DiskFollows(n)
    BY <1>12 DEF NotSaved, DiskFollows
  <2>2. Follows(s, back) /\ SameBid(s, back)
    BY <1>6, SelfFollows
  <2> QED
    BY <1>7, <1>12, <2>1, <2>2, LocalQuiet DEF s
<1> QED
  BY <1>8, <1>9, <1>10, <1>11, <1>12

\* The snapshot worker gives no vote.
LEMMA SnapshotWorkerQuiet ==
  ASSUME TypeOK, NEW n \in Node, SaveSnapshot(n) \/ CompactAfterSnapshot(n)
  PROVE  Quiet
<1>1. node[n] \in NodeState /\ NoSnapshot \in Snapshot
  BY ClusterAssumption DEF TypeOK, NoSnapshot, Snapshot, Term
<1>2. CASE SaveSnapshot(n)
  <2> DEFINE x == [node[n] EXCEPT !.job = SnapshotPoint(node[n])]
  <2>1. SameVote(node[n], x)
    BY <1>1 DEF SameVote, NodeState
  <2>2. node' = [node EXCEPT ![n] = x] /\ UNCHANGED <<disk, rpcs, ballots, leaders>>
    BY <1>2 DEF SaveSnapshot
  <2> HIDE DEF x
  <2>3. DiskFollows(n)
    BY <2>2 DEF DiskFollows
  <2> QED
    BY <2>1, <2>2, <2>3, SelfFollows, LocalQuiet
<1>3. CASE CompactAfterSnapshot(n)
  <2> DEFINE job == node[n].job
             s == [node[n] EXCEPT !.job = NoSnapshot]
             s1 == RestoreLogAfterSnapshot(s, job.index, job.term)
  <2>1. s \in NodeState /\ SameVote(node[n], s)
    BY <1>1 DEF SameVote, NodeState
  <2> HIDE DEF s, job
  <2>2. SameVote(s, s1)
    BY <2>1, LogStepsSameVote
  <2> HIDE DEF s1
  <2>3. Follows(node[n], s1) /\ SameBid(node[n], s1)
    BY <2>1, <2>2, SelfFollows, SameVoteFollows
  <2>4. /\ node' = [node EXCEPT ![n] = s1]
        /\ Saved(n, s1) \/ SaveFails(n, disk[n], s1) \/ NotSaved
        /\ UNCHANGED <<rpcs, ballots, leaders>>
    BY <1>3 DEF CompactAfterSnapshot, s, s1, job
  <2>5. DiskFollows(n)
    BY <2>3, <2>4, SaveFollows
  <2> QED
    BY <2>3, <2>4, <2>5, LocalQuiet
<1> QED
  BY <1>2, <1>3

\* OnInstallSnapshot, before and after the snapshot file is written, gives no vote.
LEMMA OnInstallSnapshotQuiet ==
  ASSUME TypeOK, NEW n \in Node, NEW m \in rpcs,
         OnInstallSnapshot(n, m) \/ FinishInstallSnapshot(n, m)
  PROVE  Quiet
<1> DEFINE s == node[n]
           s1 == FollowSender(s, m)
           r1 == RestoreLogAfterSnapshot(s, m.index, m.snapTerm)
           X == {s, s1, r1}
<1>1. m \in InstallRequests \cup RunningInstalls
  BY RpcKinds DEF TypeOK, OnInstallSnapshot, FinishInstallSnapshot
<1>2. m.term \in Term /\ s \in NodeState
  BY <1>1 DEF InstallRequests, RunningInstalls, TypeOK
<1>3. Follows(s, s) /\ SameBid(s, s)
  BY DEF Follows, SameBid
<1> HIDE DEF s
<1>4. Follows(s, s1) /\ SameBid(s, s1) /\ Follows(s, r1) /\ SameBid(s, r1)
  BY <1>2, FollowSenderFollows, LogStepsSameVote, SelfFollows
<1> HIDE DEF s1, r1
<1>5. \A x \in X : Follows(s, x) /\ SameBid(s, x)
  BY <1>3, <1>4
<1>6. /\ \E x \in X : node' = [node EXCEPT ![n] = x]
      /\ NotSaved \/ (\E x \in X : Saved(n, x)) \/ (\E x \in X : SaveFails(n, disk[n], x))
      /\ UNCHANGED <<ballots, leaders>>
  <2>1. node = [node EXCEPT ![n] = s]
    BY DEF TypeOK, s
  <2>2. CASE OnInstallSnapshot(n, m)
    BY <2>1, <2>2 DEF OnInstallSnapshot, s, s1
  <2>3. CASE FinishInstallSnapshot(n, m)
    BY <2>1, <2>3 DEF FinishInstallSnapshot, s, r1
  <2> QED
    BY <2>2, <2>3
<1>7. DiskFollows(n)
  <2> HIDE DEF X
  <2> QED
    BY <1>3, <1>5, <1>6, SaveFollows DEF s
<1>8. \A q \in rpcs' : q.kind = "voteReply" => q \in rpcs
  <2>1. \A t, ok, i : InstallReply(m, t, ok, i).kind = "installReply"
    BY DEF InstallReply
  <2>2. CASE \E t, ok, i : Reply(m, InstallReply(m, t, ok, i))
    BY <2>1, <2>2, ReplyQuiet
  <2>3. CASE \E r : r.kind = "installing" /\ rpcs' = (rpcs \ {m}) \cup {r}
    BY <2>3
  <2>4. \/ \E t, ok, i : Reply(m, InstallReply(m, t, ok, i))
        \/ \E r : r.kind = "installing" /\ rpcs' = (rpcs \ {m}) \cup {r}
    <3>1. CASE FinishInstallSnapshot(n, m)
      BY <3>1 DEF FinishInstallSnapshot
    <3>2. CASE OnInstallSnapshot(n, m)
      <4>1. \/ \E t, ok, i : Reply(m, InstallReply(m, t, ok, i))
            \/ rpcs' = (rpcs \ {m}) \cup
                 {[kind |-> "installing", from |-> m.from, to |-> n, term |-> m.term,
                   live |-> m.live, index |-> m.index, snapTerm |-> m.snapTerm,
                   last |-> LastLogIndex(s)]}
        BY <3>2 DEF OnInstallSnapshot, s
      <4>2. [kind |-> "installing", from |-> m.from, to |-> n, term |-> m.term,
             live |-> m.live, index |-> m.index, snapTerm |-> m.snapTerm,
             last |-> LastLogIndex(s)].kind = "installing"
        OBVIOUS
      <4> QED
        BY <4>1, <4>2
    <3> QED
      BY <3>1, <3>2
  <2> QED
    BY <2>2, <2>3, <2>4
<1> HIDE DEF X
<1> QED
  BY <1>5, <1>6, <1>7, <1>8, LocalQuiet DEF s

\* The end of SendInstallSnapshotToPeer gives no vote.
LEMMA OnInstallReplyQuiet ==
  ASSUME TypeOK, NEW n \in Node, NEW m \in rpcs, OnInstallReply(n, m)
  PROVE  Quiet
<1> DEFINE s == node[n]
           done == [s EXCEPT !.match[m.to] = Larger(@, m.index),
                             !.next[m.to] = Larger(@, m.index + 1)]
           back == [s EXCEPT !.next[m.to] = m.last + 1]
<1>1. m \in InstallReplies
  BY RpcKinds DEF TypeOK, OnInstallReply
<1>2. m.term \in Term /\ s \in NodeState
  BY <1>1 DEF InstallReplies, TypeOK
<1> HIDE DEF s
<1>3. SameVote(s, done) /\ SameVote(s, back)
  BY <1>2 DEF SameVote, NodeState
<1> HIDE DEF done, back
<1>4. /\ UNCHANGED <<ballots, leaders>>
      /\ \A q \in rpcs' : q.kind = "voteReply" => q \in rpcs
  BY DEF OnInstallReply
<1>5. \/ StepDownOnHigherTerm(n, m.term)
      \/ NotSaved /\ (node' = node \/ \E x \in {done, back} : node' = [node EXCEPT ![n] = x])
  BY DEF OnInstallReply, s, done, back
<1>6. CASE StepDownOnHigherTerm(n, m.term)
  BY <1>2, <1>4, <1>6, StepDownQuiet
<1>7. CASE NotSaved /\ node' = node
  BY <1>4, <1>7, IdleQuiet DEF NotSaved
<1>8. CASE NotSaved /\ \E x \in {done, back} : node' = [node EXCEPT ![n] = x]
  <2>1. DiskFollows(n)
    BY <1>8 DEF NotSaved, DiskFollows
  <2>2. \A x \in {done, back} : Follows(s, x) /\ SameBid(s, x)
    BY <1>3, SelfFollows
  <2> QED
    BY <1>4, <1>8, <2>1, <2>2, LocalQuiet DEF s
<1> QED
  BY <1>5, <1>6, <1>7, <1>8

\* The constructor takes the term and the vote from the disk.
LEMMA RecoveredVote ==
  ASSUME NEW d \in DiskState, NEW f \in Snapshot
  PROVE  LET r == Recovered(d, f) IN r.term = d.term /\ r.vote = d.vote /\ r.role = "Follower"
<1> DEFINE s == [FreshNode EXCEPT !.term = d.term, !.vote = d.vote, !.log = d.log,
                                  !.snapIndex = d.snapIndex, !.snapTerm = d.snapTerm]
           s1 == [s EXCEPT !.commit = Smaller(Larger(d.commit, d.applied), LastLogIndex(s))]
           s2 == RestoreLogAfterSnapshot(s1, f.index, f.term)
           commit == Larger(s2.commit, f.index)
<1>1. s \in NodeState /\ s.term = d.term /\ s.vote = d.vote /\ s.role = "Follower"
  <2>1. FreshNode \in NodeState /\ FreshNode.role = "Follower"
    BY ClusterAssumption, FreshNodeType DEF FreshNode
  <2> QED
    BY <2>1 DEF NodeState, DiskState
<1>2. Smaller(Larger(d.commit, d.applied), LastLogIndex(s)) \in Nat
  <2>1. LastLogIndex(s) \in Nat
    BY <1>1, LastLogIndexType
  <2> HIDE DEF s
  <2> QED
    BY <2>1 DEF Smaller, Larger, DiskState
<1> HIDE DEF s
<1>3. s1 \in NodeState /\ SameVote(s, s1)
  BY <1>1, <1>2 DEF NodeState, SameVote
<1> HIDE DEF s1
<1>4. s2 \in NodeState /\ SameVote(s1, s2)
  BY <1>3, LogStepsSameVote, RestoreLogType DEF Snapshot
<1> HIDE DEF s2
<1>5. SameVote(s2, [s2 EXCEPT !.commit = commit, !.applied = commit])
  BY <1>4 DEF SameVote, NodeState
<1>6. Recovered(d, f) = [s2 EXCEPT !.commit = commit, !.applied = commit]
  BY DEF Recovered, s, s1, s2
<1> HIDE DEF commit
<1> QED
  BY <1>1, <1>3, <1>4, <1>5, <1>6 DEF SameVote

\* A restarted node has the term and the vote its disk had.
LEMMA CrashRestartQuiet ==
  ASSUME TypeOK, NEW n \in Node, CrashRestart(n)
  PROVE  Quiet
<1> DEFINE s == Recovered(disk[n], snapFile[n])
<1>1. disk[n] \in DiskState /\ snapFile[n] \in Snapshot
  BY DEF TypeOK
<1>2. s.term = disk[n].term /\ s.vote = disk[n].vote /\ s.role = "Follower"
  BY <1>1, RecoveredVote
<1>3. /\ node' = [node EXCEPT ![n] = s] /\ disk' = [disk EXCEPT ![n] = HardState(s)]
      /\ UNCHANGED <<ballots, leaders>>
  BY DEF CrashRestart
<1> HIDE DEF s
<1>4. Follows(disk[n], s) /\ Follows(disk[n], HardState(s)) /\ SameBid(node[n], s)
  BY <1>2 DEF Follows, SameBid, HardState
<1>5. \A p \in Node : /\ node'[p] = (IF p = n THEN s ELSE node[p])
                      /\ disk'[p] = (IF p = n THEN HardState(s) ELSE disk[p])
  BY <1>3 DEF TypeOK
<1>6. \A p \in Node : Follows(disk[p], disk[p]) /\ Follows(node[p], node[p]) /\ SameBid(node[p], node[p])
  BY DEF Follows, SameBid
<1>7. \A q \in rpcs' : q.kind = "voteReply" => q \in rpcs
  <2>1. SUFFICES ASSUME NEW q \in rpcs', q.kind = "voteReply"
                 PROVE  q \in rpcs
    OBVIOUS
  <2>2. PICK m \in rpcs : /\ ~(m.from = n /\ ~IsRequest(m))
                          /\ q = IF m.from = n THEN [m EXCEPT !.live = FALSE] ELSE m
    BY DEF CrashRestart
  <2>3. CASE m.from # n
    BY <2>2, <2>3
  <2>4. CASE m.from = n
    <3>1. m \in Rpc /\ m.kind # "voteReply"
      BY <2>2, <2>4 DEF IsRequest, TypeOK
    <3>2. [m EXCEPT !.live = FALSE].kind = m.kind
      BY <3>1 DEF Rpc, VoteRequests, VoteReplies, AppendRequests, AppendReplies,
                  InstallRequests, RunningInstalls, InstallReplies
    <3> QED
      BY <2>1, <2>2, <2>4, <3>1, <3>2
  <2> QED
    BY <2>3, <2>4
<1> QED
  BY <1>3, <1>4, <1>5, <1>6, <1>7 DEF Quiet

----------------------------------------------------------------------------
(* Steps that give or count a vote *)

\* No ballot is changed once cast.
BallotsGrow == \A v \in Node : \A t \in Term : ballots[v][t] # Nil => ballots'[v][t] = ballots[v][t]

\* Behind a leader of an earlier state there still are the ballots of a majority.
LEMMA BackingGrows ==
  ASSUME SetFacts, BallotsGrow, NEW t \in Term, NEW n \in Node, IsQuorum({v \in Node : ballots[v][t] = n})
  PROVE  IsQuorum({v \in Node : ballots'[v][t] = n})
<1>1. n # Nil
  BY ClusterAssumption
<1>2. {v \in Node : ballots[v][t] = n} \subseteq {v \in Node : ballots'[v][t] = n}
  BY <1>1 DEF BallotsGrow
<1> QED
  BY <1>2 DEF SetFacts

\* A vote n casts in the term x says, for the candidate x names, in the term
\* that n's memory and disk have not voted in for anyone else.
LEMMA CastBallot ==
  ASSUME ElectionInv, TypeOK', NEW n \in Node, NEW x \in NodeState, NEW c \in Node, x.vote = c,
         x.term > node[n].term \/ (x.term = node[n].term /\ node[n].vote \in {Nil, c}),
         Saved(n, x),
         node'[n].term = x.term, node'[n].vote = c,
         \A p \in Node \ {n} : node'[p] = node[p],
         ballots' = [ballots EXCEPT ![n][x.term] = c]
  PROVE  PromiseKept' /\ BallotsGrow /\ ballots'[n][x.term] = c
<1>1. /\ x.term \in Term /\ node[n].term \in Term /\ \A t \in Term : t \in Int
      /\ ballots \in [Node -> [Term -> Node \cup {Nil}]] /\ disk \in [Node -> DiskState]
  <2>1. /\ ballots \in [Node -> [Term -> Node \cup {Nil}]] /\ disk \in [Node -> DiskState]
        /\ node[n] \in NodeState
    BY DEF ElectionInv, TypeOK
  <2>2. x.term \in Term /\ node[n].term \in Term
    BY <2>1 DEF NodeState
  <2>3. \A t \in Term : t \in Int
    BY ClusterAssumption DEF Term
  <2> QED
    BY <2>1, <2>2, <2>3
<1>2. \A p \in Node : Keeps(p, node[p]) /\ Keeps(p, disk[p])
  BY PromiseIsKeeping DEF ElectionInv
<1>3. ballots[n][x.term] \in {Nil, c}
  BY <1>1, <1>2 DEF Keeps
<1>4. \A v \in Node : \A t \in Term :
        ballots'[v][t] = IF v = n /\ t = x.term THEN c ELSE ballots[v][t]
  BY <1>1
<1>5. BallotsGrow
  BY <1>3, <1>4 DEF BallotsGrow
<1>6. \A p \in Node : disk'[p] = IF p = n THEN HardState(x) ELSE disk[p]
  BY <1>1 DEF Saved
<1>7. HardState(x).term = x.term /\ HardState(x).vote = c
  BY DEF HardState
<1>8. ASSUME NEW p \in Node, NEW t \in Term, ballots'[p][t] # Nil
      PROVE  /\ node'[p].term > t \/ (node'[p].term = t /\ node'[p].vote = ballots'[p][t])
             /\ disk'[p].term > t \/ (disk'[p].term = t /\ disk'[p].vote = ballots'[p][t])
  <2>1. CASE p # n
    BY <1>2, <1>4, <1>6, <1>8, <2>1 DEF Keeps
  <2>2. CASE p = n /\ t = x.term
    BY <1>4, <1>6, <1>7, <2>2
  <2>3. CASE p = n /\ t # x.term
    <3>1. node[n].term > t \/ node[n].term = t
      BY <1>2, <1>4, <1>8, <2>3 DEF Keeps
    <3>2. x.term > t
      BY <1>1, <2>3, <3>1
    <3> QED
      BY <1>6, <1>7, <2>3, <3>2
  <2> QED
    BY <2>1, <2>2, <2>3
<1>9. \A p \in Node : HardState(node'[p]).term = node'[p].term
                      /\ HardState(node'[p]).vote = node'[p].vote
  BY DEF HardState
<1>10. PromiseKept'
  BY <1>8, <1>9 DEF PromiseKept
<1> QED
  BY <1>1, <1>4, <1>5, <1>10

\* What AfterVotes changes and what it does not.
LEMMA AfterVotesVote ==
  ASSUME NEW s \in NodeState, NEW n \in Node, s.role = "Candidate"
  PROVE  LET c == AfterVotes(n, s) IN
         /\ c.term = s.term /\ c.vote = s.vote /\ c.votes = s.votes
         /\ c.role = "Leader" => IsQuorum(s.votes)
BY DEF AfterVotes, BecomeLeader, NodeState

\* A candidate that counts votes backed by ballots, and becomes leader only
\* with a majority of them, keeps votes backed.
LEMMA CountedBacked ==
  ASSUME SetFacts, ElectionInv, NEW n \in Node, NEW s \in NodeState, s.role = "Candidate",
         TypeOK', BallotsGrow, \A v \in s.votes : ballots'[v][s.term] = n,
         node' = [node EXCEPT ![n] = AfterVotes(n, s)], RecordLeader(n, AfterVotes(n, s)),
         \A m \in rpcs' : m.kind = "voteReply" => m \in rpcs
  PROVE  VotesBacked'
<1> DEFINE c == AfterVotes(n, s)
<1>1. /\ c.term = s.term /\ c.votes = s.votes
      /\ c.role = "Leader" => IsQuorum(s.votes)
  BY AfterVotesVote
<1>2. s.term \in Term /\ s.votes \in SUBSET Node /\ Nil \notin Node
  BY ClusterAssumption DEF NodeState
<1>3. /\ node' = [node EXCEPT ![n] = c]
      /\ leaders' = IF c.role = "Leader" THEN [leaders EXCEPT ![c.term] = @ \cup {n}] ELSE leaders
  BY DEF RecordLeader
<1> HIDE DEF c
<1>4. /\ node \in [Node -> NodeState] /\ leaders \in [Term -> SUBSET Node] /\ rpcs \subseteq Rpc
      /\ ballots \in [Node -> [Term -> Node \cup {Nil}]] /\ VotesBacked
  BY DEF ElectionInv, TypeOK
<1>5. ASSUME NEW m \in rpcs', m.kind = "voteReply", m.granted
      PROVE  ballots'[m.to][m.reqTerm] = m.from
  <2>1. m \in rpcs /\ m \in VoteReplies
    BY <1>4, <1>5, RpcKinds
  <2>2. m.to \in Node /\ m.reqTerm \in Term /\ m.from \in Node
    BY <2>1 DEF VoteReplies
  <2>3. ballots[m.to][m.reqTerm] = m.from
    BY <1>4, <1>5, <2>1 DEF VotesBacked
  <2> QED
    BY <1>2, <2>2, <2>3 DEF BallotsGrow
<1>6. ASSUME NEW p \in Node, node'[p].role = "Candidate", NEW v \in node'[p].votes
      PROVE  ballots'[v][node'[p].term] = p
  <2>1. CASE p = n
    BY <1>1, <1>3, <1>4, <1>6, <2>1
  <2>2. CASE p # n
    <3>1. node'[p] = node[p] /\ node[p].votes \in SUBSET Node /\ node[p].term \in Term
      BY <1>3, <1>4, <2>2 DEF NodeState
    <3>2. ballots[v][node[p].term] = p
      BY <1>4, <1>6, <3>1 DEF VotesBacked
    <3> QED
      BY <1>2, <1>6, <3>1, <3>2 DEF BallotsGrow
  <2> QED
    BY <2>1, <2>2
<1>7. ASSUME NEW t \in Term, NEW p \in leaders'[t]
      PROVE  IsQuorum({v \in Node : ballots'[v][t] = p})
  <2>1. CASE p \in leaders[t]
    <3>1. IsQuorum({v \in Node : ballots[v][t] = p}) /\ p \in Node
      BY <1>4, <2>1 DEF VotesBacked
    <3> QED
      BY <3>1, BackingGrows
  <2>2. CASE p \notin leaders[t]
    <3>1. c.role = "Leader" /\ t = s.term /\ p = n
      BY <1>1, <1>2, <1>3, <1>4, <1>7, <2>2
    <3>2. s.votes \subseteq {v \in Node : ballots'[v][t] = p}
      BY <1>2, <3>1
    <3> QED
      BY <1>1, <1>2, <3>1, <3>2 DEF SetFacts
  <2> QED
    BY <2>1, <2>2
<1> QED
  BY <1>5, <1>6, <1>7 DEF VotesBacked, IsQuorum

\* StartElection: the candidate's own vote is on disk before it is counted.
LEMMA StartElectionInv ==
  ASSUME SetFacts, ElectionInv, NEW n \in Node, StartElection(n), TypeOK'
  PROVE  ElectionInv'
<1> DEFINE s == Candidacy(n, node[n])
           c == AfterVotes(n, s)
<1>1. node[n] \in NodeState /\ node[n].term < MaxTerm /\ MaxTerm \in Nat /\ TypeOK
  BY ClusterAssumption DEF ElectionInv, TypeOK, StartElection
<1>2. s \in NodeState
  BY <1>1, CandidacyType
<1>3. /\ s.term = node[n].term + 1 /\ s.vote = n /\ s.votes = {n} /\ s.role = "Candidate"
  BY <1>1 DEF Candidacy, NodeState
<1>4. s.term > node[n].term /\ Follows(node[n], s)
  BY <1>1, <1>3 DEF NodeState, Term, Follows
<1> HIDE DEF s
<1>5. CASE /\ Saved(n, s)
           /\ node' = [node EXCEPT ![n] = c]
           /\ ballots' = [ballots EXCEPT ![n][s.term] = n]
           /\ RecordLeader(n, c)
           /\ \E P : rpcs' = rpcs \cup
                {[kind |-> "vote", from |-> n, to |-> p, term |-> s.term, live |-> TRUE,
                  lastIndex |-> LastLogIndex(s), lastTerm |-> LastLogTerm(s)] : p \in P}
  <2>1. c.term = s.term /\ c.vote = n
    BY <1>2, <1>3, AfterVotesVote
  <2> HIDE DEF c
  <2>2. node'[n] = c /\ \A p \in Node \ {n} : node'[p] = node[p]
    BY <1>1, <1>5 DEF TypeOK
  <2>3. PromiseKept' /\ BallotsGrow /\ ballots'[n][s.term] = n
    <3>1. /\ s.vote = n /\ node'[n].term = s.term /\ node'[n].vote = n /\ Saved(n, s)
          /\ ballots' = [ballots EXCEPT ![n][s.term] = n]
          /\ s.term > node[n].term \/ (s.term = node[n].term /\ node[n].vote \in {Nil, n})
      BY <1>3, <1>4, <1>5, <2>1, <2>2
    <3> QED
      BY <1>2, <2>2, <3>1, CastBallot, Zenon
  <2>4. \A m \in rpcs' : m.kind = "voteReply" => m \in rpcs
    BY <1>5
  <2>5. VotesBacked'
    BY <1>2, <1>3, <1>5, <2>3, <2>4, CountedBacked DEF c
  <2> QED
    BY <2>3, <2>5 DEF ElectionInv
<1>6. CASE SaveFails(n, disk[n], s) /\ UNCHANGED <<node, ballots, leaders, rpcs>>
  <2>1. DiskFollows(n)
    BY <1>4, <1>6, SaveFollows
  <2>2. node' = [node EXCEPT ![n] = node[n]] /\ Follows(node[n], node[n]) /\ SameBid(node[n], node[n])
    BY <1>1, <1>6 DEF TypeOK, Follows, SameBid
  <2>3. Quiet
    BY <1>1, <1>6, <2>1, <2>2, LocalQuiet
  <2> QED
    BY <2>3, QuietStep
<1> QED
  BY <1>5, <1>6 DEF StartElection, s, c

\* A vote reply other than a grant changes nothing the invariant speaks of.
LEMMA RefusalReply ==
  ASSUME NEW m, NEW term, ReplyVote(m, term, FALSE), NEW q \in rpcs', q.kind = "voteReply", q.granted
  PROVE  q \in rpcs
BY DEF ReplyVote, Reply, VoteReply

\* Steps that change no ballot and add no grant, as Quiet but for refusals.
LEMMA RefusalStep ==
  ASSUME ElectionInv, TypeOK', NEW n \in Node, NEW x, node' = [node EXCEPT ![n] = x],
         Follows(node[n], x), SameBid(node[n], x), DiskFollows(n),
         UNCHANGED <<ballots, leaders>>,
         \A m \in rpcs' : m.kind = "voteReply" /\ m.granted => m \in rpcs
  PROVE  ElectionInv'
<1>1. \A p \in Node : node'[p] = IF p = n THEN x ELSE node[p]
  BY DEF ElectionInv, TypeOK
<1>2. \A p \in Node : /\ node[p].term \in Term /\ disk[p].term \in Term
                      /\ node'[p].term \in Term /\ disk'[p].term \in Term
  BY DEF ElectionInv, TypeOK, NodeState, DiskState
<1>3. \A p \in Node : Keeps(p, node[p]) /\ Keeps(p, disk[p])
  BY PromiseIsKeeping DEF ElectionInv
<1>4. \A p \in Node : Keeps(p, node'[p])
  BY <1>1, <1>2, <1>3, FollowsKeeps
<1>5. \A p \in Node : Keeps(p, disk'[p])
  <2>1. CASE disk' = disk
    BY <1>3, <2>1
  <2>2. ASSUME NEW d, d = disk[n] \/ Follows(node[n], d), disk' = [disk EXCEPT ![n] = d]
        PROVE  \A p \in Node : Keeps(p, disk'[p])
    <3>1. \A p \in Node : disk'[p] = IF p = n THEN d ELSE disk[p]
      BY <2>2 DEF ElectionInv, TypeOK
    <3>2. d = disk[n] \/ Keeps(n, d)
      BY <1>2, <1>3, <2>2, <3>1, FollowsKeeps
    <3> QED
      BY <1>3, <3>1, <3>2
  <2> QED
    BY <2>1, <2>2 DEF DiskFollows
<1>6. PromiseKept'
  <2>1. \A p \in Node : HardState(node'[p]).term = node'[p].term
                        /\ HardState(node'[p]).vote = node'[p].vote
    BY DEF HardState
  <2> QED
    BY <1>4, <1>5, <2>1 DEF PromiseKept, Keeps
<1>7. VotesBacked'
  <2>1. \A m \in rpcs' : m.kind = "voteReply" /\ m.granted => ballots'[m.to][m.reqTerm] = m.from
    BY DEF ElectionInv, VotesBacked
  <2>2. \A p \in Node : node'[p].role = "Candidate" =>
          \A v \in node'[p].votes : ballots'[v][node'[p].term] = p
    BY <1>1 DEF ElectionInv, VotesBacked, SameBid
  <2>3. \A t \in Term : \A p \in leaders'[t] : IsQuorum({v \in Node : ballots'[v][t] = p})
    BY DEF ElectionInv, VotesBacked
  <2> QED
    BY <2>1, <2>2, <2>3 DEF VotesBacked, IsQuorum
<1> QED
  BY <1>6, <1>7 DEF ElectionInv

\* OnRequestVote: one vote per term, on disk before the reply leaves.
LEMMA OnRequestVoteInv ==
  ASSUME SetFacts, ElectionInv, NEW n \in Node, NEW m \in rpcs, OnRequestVote(n, m), TypeOK'
  PROVE  ElectionInv'
<1> DEFINE s == node[n]
           newTerm == m.term > s.term
           s1 == IF newTerm THEN BecomeFollower(s, m.term, Nil) ELSE s
           base == IF newTerm THEN HardState(s1) ELSE disk[n]
           grant == MayGrant(s1, m)
           s2 == [s1 EXCEPT !.vote = m.from]
<1>1. m \in VoteRequests /\ TypeOK
  BY RpcKinds DEF ElectionInv, TypeOK, OnRequestVote
<1>2. m.term \in Term /\ m.from \in Node /\ m.to = n
  BY <1>1 DEF VoteRequests, OnRequestVote
<1>3. s \in NodeState /\ s.term \in Term /\ \A t \in Term : t \in Int
  <2>1. s \in NodeState
    BY <1>1 DEF TypeOK
  <2>2. s.term \in Term
    BY <2>1 DEF NodeState
  <2>3. \A t \in Term : t \in Int
    BY ClusterAssumption DEF Term
  <2> QED
    BY <2>1, <2>2, <2>3
<1>4. s1 \in NodeState
  BY <1>2, <1>3, BecomeFollowerType
<1>5. Follows(s, s) /\ SameBid(s, s)
  BY DEF Follows, SameBid
<1>6. Follows(s, s1) /\ SameBid(s, s1)
  BY <1>2, <1>3, <1>5, BecomeFollowerFollows
<1>7. m.term >= s.term => s1.term = m.term
  <2>1. BecomeFollower(s, m.term, Nil).term = Larger(m.term, s.term)
    <3> HIDE DEF s
    <3> QED
      BY <1>3 DEF BecomeFollower, NodeState
  <2>2. newTerm => s1.term = m.term
    BY <1>2, <1>3, <2>1 DEF Larger
  <2> QED
    BY <1>2, <1>3, <2>2
<1>8. base = disk[n] \/ Follows(s, base)
  <2> HIDE DEF s, s1
  <2> QED
    BY <1>6 DEF Follows, HardState
<1>9. node = [node EXCEPT ![n] = s]
  BY <1>1 DEF TypeOK
<1> HIDE DEF s1
<1>10. s2 \in NodeState /\ s2.term = s1.term /\ s2.vote = m.from /\ s2.votes = s1.votes
       /\ s2.role = s1.role
  BY <1>2, <1>4 DEF NodeState
<1> HIDE DEF s2, base
<1>11. UNCHANGED leaders
  BY DEF OnRequestVote
<1>12. CASE \* no vote is given
            /\ UNCHANGED ballots
            /\ \E x \in {s, s1} : node' = [node EXCEPT ![n] = x]
            /\ \E t : ReplyVote(m, t, FALSE)
            /\ DiskFollows(n)
  <2>1. \A q \in rpcs' : q.kind = "voteReply" /\ q.granted => q \in rpcs
    BY <1>12, RefusalReply
  <2>2. \A x \in {s, s1} : Follows(node[n], x) /\ SameBid(node[n], x)
    BY <1>5, <1>6
  <2> QED
    BY <1>11, <1>12, <2>1, <2>2, RefusalStep
<1>13. CASE \* the vote is given
            /\ m.term >= s.term /\ grant
            /\ Saved(n, s2)
            /\ node' = [node EXCEPT ![n] = s2]
            /\ ReplyVote(m, s2.term, TRUE)
            /\ ballots' = [ballots EXCEPT ![n][m.term] = m.from]
  <2>1. s2.term = m.term /\ s1.vote \in {Nil, m.from}
    BY <1>7, <1>10, <1>13 DEF MayGrant
  <2>2. s2.term > s.term \/ (s2.term = s.term /\ s.vote \in {Nil, m.from})
    BY <1>2, <1>3, <1>13, <2>1 DEF s1
  <2>3. node'[n] = s2 /\ \A p \in Node \ {n} : node'[p] = node[p]
    BY <1>1, <1>13 DEF TypeOK
  <2>4. ballots' = [ballots EXCEPT ![n][s2.term] = m.from]
    BY <1>13, <2>1
  <2>5. PromiseKept' /\ BallotsGrow /\ ballots'[n][s2.term] = m.from
    <3>1. s2.vote = m.from /\ node'[n].term = s2.term /\ node'[n].vote = m.from /\ Saved(n, s2)
      BY <1>10, <1>13, <2>3
    <3>2. s2.term > node[n].term \/ (s2.term = node[n].term /\ node[n].vote \in {Nil, m.from})
      BY <2>2
    <3> QED
      BY <1>2, <1>10, <2>3, <2>4, <3>1, <3>2, CastBallot, Zenon
  <2>6. /\ node \in [Node -> NodeState] /\ leaders \in [Term -> SUBSET Node] /\ rpcs \subseteq Rpc
        /\ VotesBacked /\ Nil \notin Node
    BY ClusterAssumption DEF ElectionInv, TypeOK
  <2>7. ASSUME NEW q \in rpcs', q.kind = "voteReply", q.granted
        PROVE  ballots'[q.to][q.reqTerm] = q.from
    <3>1. CASE q \in rpcs
      <4>1. q \in VoteReplies
        BY <2>6, <2>7, <3>1, RpcKinds
      <4>2. q.to \in Node /\ q.reqTerm \in Term /\ q.from \in Node
        BY <4>1 DEF VoteReplies
      <4>3. ballots[q.to][q.reqTerm] = q.from
        BY <2>6, <2>7, <3>1 DEF VotesBacked
      <4> QED
        BY <2>5, <2>6, <4>2, <4>3 DEF BallotsGrow
    <3>2. CASE q \notin rpcs
      <4>1. q = VoteReply(m, s2.term, TRUE)
        BY <1>13, <2>7, <3>2 DEF ReplyVote, Reply
      <4> QED
        BY <1>2, <2>1, <2>5, <4>1 DEF VoteReply
    <3> QED
      BY <3>1, <3>2
  <2>8. ASSUME NEW p \in Node, node'[p].role = "Candidate", NEW v \in node'[p].votes
        PROVE  ballots'[v][node'[p].term] = p
    <3>1. node[p].role = "Candidate" /\ node[p].term = node'[p].term /\ node[p].votes = node'[p].votes
      <4>1. CASE p = n
        BY <1>6, <1>10, <2>3, <2>8, <4>1 DEF SameBid
      <4>2. CASE p # n
        BY <2>3, <2>8, <4>2
      <4> QED
        BY <4>1, <4>2
    <3>2. node[p].votes \in SUBSET Node /\ node[p].term \in Term
      BY <2>6 DEF NodeState
    <3>3. ballots[v][node[p].term] = p
      BY <2>6, <2>8, <3>1 DEF VotesBacked
    <3> QED
      BY <2>5, <2>6, <2>8, <3>1, <3>2, <3>3 DEF BallotsGrow
  <2>9. ASSUME NEW t \in Term, NEW p \in leaders'[t]
        PROVE  IsQuorum({v \in Node : ballots'[v][t] = p})
    <3>1. p \in leaders[t] /\ p \in Node
      BY <1>11, <2>6, <2>9
    <3>2. IsQuorum({v \in Node : ballots[v][t] = p})
      BY <2>6, <3>1 DEF VotesBacked
    <3> QED
      BY <2>5, <3>1, <3>2, BackingGrows
  <2>10. VotesBacked'
    BY <2>7, <2>8, <2>9 DEF VotesBacked, IsQuorum
  <2> QED
    BY <2>5, <2>10 DEF ElectionInv
<1>14. \/ /\ m.term < s.term
          /\ ReplyVote(m, s.term, FALSE)
          /\ NotSaved /\ UNCHANGED <<node, ballots>>
       \/ /\ SaveFails(n, disk[n], s1)
          /\ node' = [node EXCEPT ![n] = s1]
          /\ ReplyVote(m, s1.term, FALSE)
          /\ UNCHANGED ballots
       \/ /\ Saved(n, s1) \/ NotSaved
          /\ node' = [node EXCEPT ![n] = s1]
          /\ ReplyVote(m, s1.term, FALSE)
          /\ UNCHANGED ballots
       \/ /\ m.term >= s.term /\ grant
          /\ Saved(n, s2)
          /\ node' = [node EXCEPT ![n] = s2]
          /\ ReplyVote(m, s2.term, TRUE)
          /\ ballots' = [ballots EXCEPT ![n][m.term] = m.from]
       \/ /\ m.term >= s.term /\ grant
          /\ SaveFails(n, base, s2)
          /\ node' = [node EXCEPT ![n] = s1]
          /\ ReplyVote(m, s1.term, FALSE)
          /\ UNCHANGED ballots
  BY DEF OnRequestVote, s1, s2, base
<1>15. NotSaved \/ Saved(n, s1) \/ SaveFails(n, disk[n], s1) => DiskFollows(n)
  BY <1>6, SaveFollows
<1>16. ASSUME m.term >= s.term, grant, SaveFails(n, base, s2), UNCHANGED ballots,
              node' = [node EXCEPT ![n] = s1], ReplyVote(m, s1.term, FALSE)
       PROVE  ElectionInv'
  <2>1. s1.vote \in {Nil, m.from} /\ s1.term = m.term
    BY <1>7, <1>16 DEF MayGrant
  <2>2. Follows(s, s2)
    BY <1>2, <1>3, <1>6, <1>10, <1>16, <2>1 DEF Follows, s1
  <2>3. DiskFollows(n)
    BY <1>8, <1>16, <2>2, SaveFollows
  <2> QED
    BY <1>12, <1>16, <2>3
<1> HIDE DEF s
<1> QED
  BY <1>9, <1>12, <1>13, <1>14, <1>15, <1>16

\* The reply of a vote: a candidate counts it only in the term it asked in.
LEMMA OnVoteReplyInv ==
  ASSUME SetFacts, ElectionInv, NEW n \in Node, NEW m \in rpcs, OnVoteReply(n, m), TypeOK'
  PROVE  ElectionInv'
<1> DEFINE s == node[n]
           v == [s EXCEPT !.votes = @ \cup {m.to}]
           c == AfterVotes(n, v)
<1>1. m \in VoteReplies /\ TypeOK /\ s \in NodeState
  BY RpcKinds DEF ElectionInv, TypeOK, OnVoteReply
<1>2. m.term \in Term /\ m.to \in Node /\ m.from = n
  BY <1>1 DEF VoteReplies, OnVoteReply
<1>3. rpcs' \subseteq rpcs /\ UNCHANGED ballots
  BY DEF OnVoteReply
<1>4. CASE StepDownOnHigherTerm(n, m.term) /\ UNCHANGED leaders
  <2>1. Quiet
    BY <1>1, <1>2, <1>3, <1>4, StepDownQuiet
  <2> QED
    BY <2>1, QuietStep
<1>5. CASE UNCHANGED <<node, leaders>> /\ NotSaved
  <2>1. Quiet
    BY <1>3, <1>5, IdleQuiet DEF NotSaved
  <2> QED
    BY <2>1, QuietStep
<1>6. CASE /\ s.role = "Candidate" /\ s.term = m.reqTerm /\ m.granted
           /\ node' = [node EXCEPT ![n] = c] /\ RecordLeader(n, c) /\ NotSaved
  <2>1. v \in NodeState /\ v.role = "Candidate" /\ v.term = s.term /\ v.vote = s.vote
        /\ v.votes = s.votes \cup {m.to}
    <3>1. s.votes \cup {m.to} \in SUBSET Node
      BY <1>1, <1>2 DEF NodeState
    <3> QED
      BY <1>1, <1>6, <3>1 DEF NodeState
  <2>2. ballots[m.to][s.term] = n /\ \A u \in s.votes : ballots[u][s.term] = n
    BY <1>2, <1>6 DEF ElectionInv, VotesBacked, OnVoteReply
  <2> HIDE DEF v
  <2>3. c.term = s.term /\ c.vote = s.vote
    BY <2>1, AfterVotesVote
  <2>4. \A u \in v.votes : ballots'[u][v.term] = n
    BY <1>3, <2>1, <2>2
  <2>5. BallotsGrow /\ \A q \in rpcs' : q.kind = "voteReply" => q \in rpcs
    BY <1>3 DEF BallotsGrow
  <2>6. VotesBacked'
    BY <1>6, <2>1, <2>4, <2>5, CountedBacked
  <2> HIDE DEF c
  <2>7. PromiseKept'
    <3>1. \A p \in Node : /\ HardState(node'[p]).term = HardState(node[p]).term
                          /\ HardState(node'[p]).vote = HardState(node[p]).vote
      BY <1>1, <1>6, <2>3 DEF HardState, TypeOK
    <3>2. disk' = disk /\ ballots' = ballots /\ PromiseKept
      BY <1>3, <1>6 DEF NotSaved, ElectionInv
    <3> SUFFICES ASSUME NEW p \in Node, NEW t \in Term, ballots[p][t] # Nil,
                        NEW d \in {HardState(node'[p]), disk[p]}
                 PROVE  d.term > t \/ (d.term = t /\ d.vote = ballots[p][t])
      BY <3>2 DEF PromiseKept
    <3>3. \A e \in {HardState(node[p]), disk[p]} :
            e.term > t \/ (e.term = t /\ e.vote = ballots[p][t])
      BY <3>2 DEF PromiseKept
    <3> QED
      BY <3>1, <3>3
  <2> QED
    BY <2>6, <2>7 DEF ElectionInv
<1> HIDE DEF s, v, c
<1> QED
  BY <1>4, <1>5, <1>6 DEF OnVoteReply, s, v, c

----------------------------------------------------------------------------

\* A fresh cluster has cast no ballot.
LEMMA InitElection == Init => ElectionInv
<1> SUFFICES ASSUME Init PROVE ElectionInv
  OBVIOUS
<1>1. TypeOK
  BY InitType
<1>2. \A n \in Node : \A t \in Term : ballots[n][t] = Nil
  BY DEF Init
<1>3. PromiseKept
  BY <1>2 DEF PromiseKept
<1>4. VotesBacked
  <2>1. \A n \in Node : node[n].role = "Follower"
    BY DEF Init, FreshNode
  <2>2. rpcs = {} /\ \A t \in Term : leaders[t] = {}
    BY DEF Init
  <2> QED
    BY <2>1, <2>2 DEF VotesBacked
<1> QED
  BY <1>1, <1>3, <1>4 DEF ElectionInv

\* Every critical section keeps votes remembered and counted votes backed.
LEMMA NextElection ==
  ASSUME SetFacts
  PROVE  ElectionInv /\ [Next]_vars => ElectionInv'
<1> SUFFICES ASSUME ElectionInv, [Next]_vars PROVE ElectionInv'
  OBVIOUS
<1>1. TypeOK
  BY DEF ElectionInv
<1>2. TypeOK'
  BY <1>1, NextType
<1>3. CASE Quiet
  BY <1>2, <1>3, QuietStep
<1>4. CASE UNCHANGED vars
  <2>1. Quiet
    BY <1>4, IdleQuiet DEF vars
  <2> QED
    BY <1>3, <2>1
<1>5. ASSUME NEW n \in Node,
             StartElection(n) \/ \E m \in rpcs : OnRequestVote(n, m) \/ OnVoteReply(n, m)
      PROVE  ElectionInv'
  BY <1>2, <1>5, StartElectionInv, OnRequestVoteInv, OnVoteReplyInv
<1> QED
  BY <1>1, <1>3, <1>4, <1>5, ProposeNoOpEntryQuiet, ProposeQuiet, ProposeReplicatedQuiet,
     ApplyCommittedEntriesQuiet, ReplicatorQuiet, OnAppendEntriesQuiet, OnAppendReplyQuiet,
     SnapshotWorkerQuiet, OnInstallSnapshotQuiet, OnInstallReplyQuiet, CrashRestartQuiet
     DEF Next

\* Ballots of a majority behind every leader leave room for one leader per term.
LEMMA BackedLeadersAgree ==
  ASSUME SetFacts
  PROVE  ElectionInv => ElectionSafety
<1> SUFFICES ASSUME ElectionInv, NEW t \in Term PROVE Cardinality(leaders[t]) <= 1
  BY DEF ElectionSafety
<1>1. leaders[t] \in SUBSET Node
  BY DEF ElectionInv, TypeOK
<1>2. \A a, b \in leaders[t] : a = b
  <2> SUFFICES ASSUME NEW a \in leaders[t], NEW b \in leaders[t] PROVE a = b
    OBVIOUS
  <2> DEFINE A == {v \in Node : ballots[v][t] = a}
             B == {v \in Node : ballots[v][t] = b}
  <2>1. IsQuorum(A) /\ IsQuorum(B)
    BY DEF ElectionInv, VotesBacked
  <2>2. A \in SUBSET Node /\ B \in SUBSET Node
    OBVIOUS
  <2>3. A \cap B # {}
    <3> HIDE DEF A, B
    <3> QED
      BY <2>1, <2>2 DEF SetFacts
  <2> QED
    BY <2>3
<1>3. CASE leaders[t] = {}
  BY <1>3 DEF SetFacts
<1>4. CASE leaders[t] # {}
  <2>1. PICK a \in leaders[t] : TRUE
    BY <1>4
  <2>2. leaders[t] = {a}
    BY <1>2, <2>1
  <2> QED
    BY <1>1, <2>1, <2>2 DEF SetFacts
<1> QED
  BY <1>3, <1>4

----------------------------------------------------------------------------
(* Refinement of Election.  The mapping is the identity on ballots and     *)
(* leaders.  Quiet steps leave both alone.  A step that casts a ballot     *)
(* casts it in the node's new term, and PromiseKept says that a node in a  *)
(* term has no ballot above it and none other than its vote in it.  The    *)
(* majority behind a new leader is VotesBacked of the state the step leads *)
(* to.                                                                     *)

\* At most the ballot of n in term t is new, and it is one n may still cast.
LEMMA BallotIsVote ==
  ASSUME ElectionInv, NEW n \in Node, NEW t \in Term, NEW c \in Node,
         t > node[n].term \/ (t = node[n].term /\ node[n].vote \in {Nil, c}),
         ballots' = [ballots EXCEPT ![n][t] = c]
  PROVE  UNCHANGED ballots \/ Record!Vote(n, t, c)
<1>1. ballots \in [Node -> [Term -> Node \cup {Nil}]] /\ node[n].term \in Term
  BY DEF ElectionInv, TypeOK, NodeState
<1>2. \A u \in Term : u \in Int
  BY ClusterAssumption DEF Term
<1>3. Keeps(n, node[n])
  BY PromiseIsKeeping DEF ElectionInv
<1>4. \A u \in Term : u > t => ballots[n][u] = Nil
  BY <1>1, <1>2, <1>3 DEF Keeps
<1>5. ballots[n][t] \in {Nil, c}
  BY <1>1, <1>2, <1>3 DEF Keeps
<1>6. CASE ballots[n][t] = Nil
  <2>1. \A u \in Term : u >= t => ballots[n][u] = Nil
    BY <1>2, <1>4, <1>6
  <2> QED
    BY <2>1 DEF Record!Vote
<1>7. CASE ballots[n][t] = c
  BY <1>1, <1>7
<1> QED
  BY <1>5, <1>6, <1>7

\* A node recorded as leader has a majority of the ballots of its term.
LEMMA LeaderIsElected ==
  ASSUME SetFacts, ElectionInv', NEW n \in Node, NEW t \in Term, leaders \in [Term -> SUBSET Node],
         leaders' = [leaders EXCEPT ![t] = @ \cup {n}]
  PROVE  Record!Elect(n, t)
<1>1. n \in leaders'[t] /\ leaders[t] \subseteq leaders'[t]
  OBVIOUS
<1>2. \A a, b \in leaders'[t] : a = b
  <2> SUFFICES ASSUME NEW a \in leaders'[t], NEW b \in leaders'[t] PROVE a = b
    OBVIOUS
  <2> DEFINE A == {v \in Node : ballots'[v][t] = a}
             B == {v \in Node : ballots'[v][t] = b}
  <2>1. IsQuorum(A) /\ IsQuorum(B)
    BY DEF ElectionInv, VotesBacked, IsQuorum
  <2>2. A \in SUBSET Node /\ B \in SUBSET Node
    OBVIOUS
  <2>3. A \cap B # {}
    <3> HIDE DEF A, B
    <3> QED
      BY <2>1, <2>2 DEF SetFacts
  <2> QED
    BY <2>3
<1>3. leaders[t] \subseteq {n} /\ leaders' = [leaders EXCEPT ![t] = {n}]
  <2>1. leaders[t] \cup {n} = {n}
    BY <1>1, <1>2
  <2> QED
    BY <2>1
<1>4. Record!Majority({v \in Node : ballots'[v][t] = n})
  <2> DEFINE Q == {v \in Node : ballots'[v][t] = n}
  <2>1. IsQuorum(Q)
    BY <1>1 DEF ElectionInv, VotesBacked, IsQuorum
  <2>2. Q \in SUBSET Node /\ Node \in SUBSET Node
    OBVIOUS
  <2> HIDE DEF Q
  <2>3. Cardinality(Q) \in Nat /\ Cardinality(Node) \in Nat
    BY <2>2 DEF SetFacts
  <2>4. 2 * Cardinality(Q) > Cardinality(Node)
    BY <2>1, <2>3 DEF IsQuorum
  <2> QED
    BY <2>4 DEF Record!Majority, Record!Cardinality, Cardinality, Q
<1> QED
  BY <1>3, <1>4 DEF Record!Elect

\* RecordLeader writes down an election or nothing.
LEMMA RecordedIsElected ==
  ASSUME SetFacts, ElectionInv, ElectionInv', NEW n \in Node, NEW x, x.term \in Term, RecordLeader(n, x)
  PROVE  UNCHANGED leaders \/ \E c \in Node, t \in Term : Record!Elect(c, t)
<1>1. leaders \in [Term -> SUBSET Node]
  BY DEF ElectionInv, TypeOK
<1>2. CASE x.role = "Leader"
  <2>1. leaders' = [leaders EXCEPT ![x.term] = @ \cup {n}]
    BY <1>2 DEF RecordLeader
  <2>2. Record!Elect(n, x.term)
    BY <1>1, <2>1, LeaderIsElected
  <2> QED
    BY <2>2
<1>3. CASE x.role # "Leader"
  BY <1>3 DEF RecordLeader
<1> QED
  BY <1>2, <1>3

\* StartElection votes for itself in a new term, and may win at once.
LEMMA StartElectionRecorded ==
  ASSUME SetFacts, ElectionInv, ElectionInv', NEW n \in Node, StartElection(n)
  PROVE  Record!Next \/ UNCHANGED <<ballots, leaders>>
<1> DEFINE s == Candidacy(n, node[n])
           c == AfterVotes(n, s)
<1>1. node[n] \in NodeState /\ node[n].term \in Term /\ node[n].term < MaxTerm /\ MaxTerm \in Nat
  BY ClusterAssumption DEF ElectionInv, TypeOK, StartElection, NodeState
<1>2. s \in NodeState
  BY <1>1, CandidacyType
<1>3. s.term = node[n].term + 1 /\ s.role = "Candidate"
  BY <1>1 DEF Candidacy, NodeState
<1>4. s.term \in Term /\ s.term > node[n].term
  BY <1>1, <1>3 DEF Term
<1> HIDE DEF s
<1>5. c.term = s.term
  BY <1>2, <1>3, AfterVotesVote
<1>6. CASE ballots' = [ballots EXCEPT ![n][s.term] = n] /\ RecordLeader(n, c)
  <2>1. UNCHANGED ballots \/ Record!Vote(n, s.term, n)
    BY <1>4, <1>6, BallotIsVote
  <2>2. UNCHANGED leaders \/ \E d \in Node, t \in Term : Record!Elect(d, t)
    BY <1>4, <1>5, <1>6, RecordedIsElected
  <2> QED
    BY <1>4, <2>1, <2>2 DEF Record!Next
<1>7. CASE UNCHANGED <<ballots, leaders>>
  BY <1>7
<1> QED
  BY <1>6, <1>7 DEF StartElection, s, c

\* OnRequestVote gives the one vote its node has in the term, or none.
LEMMA OnRequestVoteRecorded ==
  ASSUME ElectionInv, NEW n \in Node, NEW m \in rpcs, OnRequestVote(n, m)
  PROVE  Record!Next \/ UNCHANGED <<ballots, leaders>>
<1> DEFINE s == node[n]
           s1 == IF m.term > s.term THEN BecomeFollower(s, m.term, Nil) ELSE s
<1>1. m \in VoteRequests /\ s \in NodeState
  BY RpcKinds DEF ElectionInv, TypeOK, OnRequestVote
<1>2. m.term \in Term /\ m.from \in Node /\ s.term \in Term
  BY <1>1 DEF VoteRequests, NodeState
<1>3. \A t \in Term : t \in Int
  BY ClusterAssumption DEF Term
<1>4. UNCHANGED leaders
  BY DEF OnRequestVote
<1>5. CASE UNCHANGED ballots
  BY <1>4, <1>5
<1>6. CASE /\ m.term >= s.term /\ MayGrant(s1, m)
           /\ ballots' = [ballots EXCEPT ![n][m.term] = m.from]
  <2>1. m.term > s.term \/ (m.term = s.term /\ s.vote \in {Nil, m.from})
    BY <1>2, <1>3, <1>6 DEF MayGrant
  <2>2. UNCHANGED ballots \/ Record!Vote(n, m.term, m.from)
    BY <1>2, <1>6, <2>1, BallotIsVote
  <2> QED
    BY <1>2, <1>4, <2>2 DEF Record!Next
<1> QED
  BY <1>5, <1>6 DEF OnRequestVote

\* OnVoteReply may complete a majority; it casts no ballot.
LEMMA OnVoteReplyRecorded ==
  ASSUME SetFacts, ElectionInv, ElectionInv', NEW n \in Node, NEW m \in rpcs, OnVoteReply(n, m)
  PROVE  Record!Next \/ UNCHANGED <<ballots, leaders>>
<1> DEFINE s == node[n]
           v == [s EXCEPT !.votes = @ \cup {m.to}]
           c == AfterVotes(n, v)
<1>1. m \in VoteReplies /\ s \in NodeState
  BY RpcKinds DEF ElectionInv, TypeOK, OnVoteReply
<1>2. v \in NodeState /\ v.role = s.role /\ v.term \in Term
  BY <1>1 DEF VoteReplies, NodeState
<1>3. UNCHANGED ballots
  BY DEF OnVoteReply
<1>4. CASE s.role = "Candidate" /\ RecordLeader(n, c)
  <2> HIDE DEF v
  <2>1. c.term \in Term
    BY <1>2, <1>4, AfterVotesVote
  <2>2. UNCHANGED leaders \/ \E d \in Node, t \in Term : Record!Elect(d, t)
    BY <1>4, <2>1, RecordedIsElected
  <2> QED
    BY <1>3, <2>2 DEF Record!Next
<1>5. CASE UNCHANGED leaders
  BY <1>3, <1>5
<1> QED
  BY <1>4, <1>5 DEF OnVoteReply

\* Every step of the cluster is a step of the election record, or none.
LEMMA NextRecorded ==
  ASSUME SetFacts, ElectionInv, ElectionInv', [Next]_vars
  PROVE  Record!Next \/ UNCHANGED <<ballots, leaders>>
<1>1. TypeOK
  BY DEF ElectionInv
<1>2. CASE Quiet
  BY <1>2 DEF Quiet
<1>3. CASE UNCHANGED vars
  BY <1>3 DEF vars
<1>4. ASSUME NEW n \in Node,
             StartElection(n) \/ \E m \in rpcs : OnRequestVote(n, m) \/ OnVoteReply(n, m)
      PROVE  Record!Next \/ UNCHANGED <<ballots, leaders>>
  BY <1>4, StartElectionRecorded, OnRequestVoteRecorded, OnVoteReplyRecorded
<1> QED
  BY <1>1, <1>2, <1>3, <1>4, ProposeNoOpEntryQuiet, ProposeQuiet, ProposeReplicatedQuiet,
     ApplyCommittedEntriesQuiet, ReplicatorQuiet, OnAppendEntriesQuiet, OnAppendReplyQuiet,
     SnapshotWorkerQuiet, OnInstallSnapshotQuiet, OnInstallReplyQuiet, CrashRestartQuiet
     DEF Next

============================================================================
