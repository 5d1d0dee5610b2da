---------------------------- MODULE RaftCluster ----------------------------
(***************************************************************************)
(* A cluster of RaftNode objects (src/modules/raft/node/raft_node.cpp) and *)
(* their Replicators (src/modules/raft/replication/replicator.cpp) talking *)
(* over gRPC, each with its own storage.                                   *)
(*                                                                         *)
(* One action is one critical section of RaftNode::mu_: the code between   *)
(* two unlocks runs without interference, so it is one step.  A call that  *)
(* leaves the lock (an RPC, the no-op proposal after an election, a        *)
(* snapshot being written) continues in a later action.                    *)
(*                                                                         *)
(* Network: an RPC record sits in rpcs until its handler or its caller     *)
(* takes it.  A call that never moves again is a lost one; RpcTimeout ends *)
(* the caller's wait while the callee may still run the request later.     *)
(*                                                                         *)
(* Storage: disk[n] is what RaftNode(n)'s constructor would load.  A save  *)
(* that reports failure may have reached the disk or not (the last step of *)
(* FileRaftStorage::Save that can fail is the directory sync after the     *)
(* rename).  Crash windows inside one Save are the subject of RaftStorage. *)
(***************************************************************************)
EXTENDS RaftLog

CONSTANTS
  Node,          \* node ids
  Value,         \* client commands
  NoOp,          \* kInternalNoOpCommand
  Nil,           \* -1, "no node"
  Link,          \* the pairs {n, p} the network connects; other requests are lost
  Submitted,     \* Submitted[n]: the commands clients send to n (bound)
  Electable,     \* Electable[n]: the terms n's election timer may start (bound)
  MaxTerm,       \* bound on terms
  MaxLog,        \* bound on log indexes
  MaxApplied,    \* MaxApplied[n]: bound on last_applied_ outside restarts and installs
  Faulty,        \* nodes that may crash and whose saves may fail (bound)
  MaxBatch,      \* kMaxAppendEntriesPerRpc
  MaxRpcs,       \* bound on the replication RPCs whose callers wait
  MaxLate,       \* bound on abandoned requests that may still be handled
  MaxFaults,     \* bound on failed saves
  MaxCrashes,    \* bound on crashes
  MaxSnapshots   \* bound on snapshots taken by snapshot workers

ASSUME ClusterAssumption ==
  /\ IsFiniteSet(Node) /\ Node # {}
  /\ Nil \notin Node /\ NoOp \notin Value
  /\ Link \subseteq SUBSET Node /\ Submitted \in [Node -> SUBSET Value]
  /\ Electable \in [Node -> SUBSET Nat] /\ MaxApplied \in [Node -> Nat]
  /\ Faulty \subseteq Node
  /\ MaxTerm \in Nat /\ MaxLog \in Nat /\ MaxRpcs \in Nat /\ MaxLate \in Nat
  /\ MaxFaults \in Nat /\ MaxCrashes \in Nat /\ MaxSnapshots \in Nat
  /\ MaxBatch \in Nat \ {0}

VARIABLES
  node,      \* node[n]: the members of RaftNode n guarded by mu_
  disk,      \* disk[n]: the state storage_->Load would return
  snapFile,  \* snapFile[n]: newest snapshot in n's snapshot directory
  rpcs,      \* the RPCs in progress
  calls,     \* Propose calls that wait for replication
  acks,      \* Propose calls answered kOk
  faults, crashes, snapshots, \* how much of the bounds is used
  ballots,   \* history: ballots[n][t] is the candidate n voted for in term t
  leaders,   \* history: leaders[t] are the nodes that became leader in term t
  chosen     \* history: the entries committed by leaders, with the committing term

vars == <<node, disk, snapFile, rpcs, calls, acks, faults, crashes, snapshots,
          ballots, leaders, chosen>>

Term == 0 .. MaxTerm
Command == Value \cup {NoOp}
Entry == [term : Term, cmd : Command]
NoSnapshot == [index |-> 0, term |-> 0]

Reachable(n) == {p \in Node \ {n} : {n, p} \in Link}

\* Fault variant: half of the nodes is enough.
IsHalf(Q) == Cardinality(Q) >= Cardinality(Node) \div 2

\* A vote or replication count reaches (peers + 1) / 2 + 1.
IsQuorum(Q) == Cardinality(Q) >= Cardinality(Node) \div 2 + 1

\* What PersistStateLocked hands to storage_->Save.
HardState(s) ==
  [term |-> s.term, vote |-> s.vote, commit |-> s.commit, applied |-> s.applied,
   log |-> s.log, snapIndex |-> s.snapIndex, snapTerm |-> s.snapTerm]

FreshNode ==
  [term |-> 0, vote |-> Nil, role |-> "Follower", leader |-> Nil,
   log |-> <<>>, snapIndex |-> 0, snapTerm |-> 0, commit |-> 0, applied |-> 0,
   next |-> [p \in Node |-> 0], match |-> [p \in Node |-> 0],
   votes |-> {}, noops |-> 0, job |-> NoSnapshot]

Init ==
  /\ node = [n \in Node |-> FreshNode]
  /\ disk = [n \in Node |-> HardState(FreshNode)]
  /\ snapFile = [n \in Node |-> NoSnapshot]
  /\ rpcs = {} /\ calls = {} /\ acks = {}
  /\ faults = 0 /\ crashes = 0 /\ snapshots = 0
  /\ ballots = [n \in Node |-> [t \in Term |-> Nil]]
  /\ leaders = [t \in Term |-> {}]
  /\ chosen = <<>>

----------------------------------------------------------------------------
(* Saving *)

Saved(n, s) == disk' = [disk EXCEPT ![n] = HardState(s)] /\ UNCHANGED faults

NotSaved == UNCHANGED <<disk, faults>>

\* Save(s) returned false; base is what the disk held before this save.
SaveFails(n, base, s) ==
  /\ n \in Faulty /\ faults < MaxFaults
  /\ faults' = faults + 1
  /\ \E d \in {base, HardState(s)} : disk' = [disk EXCEPT ![n] = d]

\* The caller of a request that has timed out discards the reply.
Reply(m, r) == rpcs' = (rpcs \ {m}) \cup (IF m.live THEN {r} ELSE {})

----------------------------------------------------------------------------
(* Roles *)

\* Fault variant: the vote is forgotten in the same term too.
BecomeFollowerForgetful(s, term, leader) ==
  [s EXCEPT !.term = Larger(term, s.term), !.vote = Nil, !.role = "Follower", !.leader = leader]

\* The new term stays in memory even if saving it fails.
BecomeFollower(s, term, leader) ==
  [s EXCEPT !.term = Larger(term, s.term),
            !.vote = IF term > s.term THEN Nil ELSE s.vote,
            !.role = "Follower",
            !.leader = leader]

\* next_index_ and match_index_ of the node itself are never read.  The no-op
\* is proposed after the lock is released (noops counts the waiting threads).
BecomeLeader(n, s) ==
  [s EXCEPT !.role = "Leader",
            !.leader = n,
            !.next = [p \in Node |-> LastLogIndex(s) + 1],
            !.match = [p \in Node |-> 0],
            !.noops = @ + 1]

\* OnElectionWon once the vote counter has reached the quorum.
AfterVotes(n, s) == IF IsQuorum(s.votes) THEN BecomeLeader(n, s) ELSE s

RecordLeader(n, s) ==
  leaders' = IF s.role = "Leader" THEN [leaders EXCEPT ![s.term] = @ \cup {n}] ELSE leaders

\* An RPC answered with a higher term: step down, whether or not the save succeeds.
StepDownOnHigherTerm(n, term) ==
  LET s == BecomeFollower(node[n], term, Nil)
  IN  /\ node' = [node EXCEPT ![n] = s]
      /\ Saved(n, s) \/ SaveFails(n, disk[n], s)

----------------------------------------------------------------------------
(* Elections *)

Candidacy(n, s) ==
  [s EXCEPT !.role = "Candidate", !.term = @ + 1, !.vote = n, !.leader = Nil, !.votes = {n}]

\* Timers may fire at any time; OnElectionTimeout's generation check only
\* drops firings, and StartElection re-reads the role under the lock.
StartElection(n) ==
  /\ node[n].role # "Leader" /\ node[n].term < MaxTerm /\ node[n].term + 1 \in Electable[n]
  /\ LET s == Candidacy(n, node[n])
         c == AfterVotes(n, s)
     IN  \/ /\ Saved(n, s)
            /\ node' = [node EXCEPT ![n] = c]
            /\ ballots' = [ballots EXCEPT ![n][s.term] = n]
            /\ RecordLeader(n, c)
            /\ rpcs' = rpcs \cup
                 {[kind |-> "vote", from |-> n, to |-> p, term |-> s.term, live |-> TRUE,
                   lastIndex |-> LastLogIndex(s), lastTerm |-> LastLogTerm(s)] :
                  p \in Reachable(n)}
         \/ /\ SaveFails(n, disk[n], s)
            /\ UNCHANGED <<node, ballots, leaders, rpcs>>
  /\ UNCHANGED <<snapFile, calls, acks, crashes, snapshots, chosen>>

VoteReply(m, term, granted) ==
  [kind |-> "voteReply", from |-> m.from, to |-> m.to, reqTerm |-> m.term, live |-> TRUE,
   term |-> term, granted |-> granted]

\* A refusal in the request's own term can change nothing in its caller.
ReplyVote(m, term, granted) ==
  IF granted \/ term > m.term THEN Reply(m, VoteReply(m, term, granted)) ELSE rpcs' = rpcs \ {m}

\* Fault variant: the vote already given is not looked at.
MayGrantAgain(s, m) == IsCandidateLogUpToDate(s, m.lastIndex, m.lastTerm)

MayGrant(s, m) ==
  s.vote \in {Nil, m.from} /\ IsCandidateLogUpToDate(s, m.lastIndex, m.lastTerm)

OnRequestVote(n, m) ==
  /\ m.kind = "vote" /\ m.to = n
  /\ LET s == node[n]
         newTerm == m.term > s.term
         s1 == IF newTerm THEN BecomeFollower(s, m.term, Nil) ELSE s
         base == IF newTerm THEN HardState(s1) ELSE disk[n]
         grant == MayGrant(s1, m)
         s2 == [s1 EXCEPT !.vote = m.from]
     IN  \/ /\ m.term < s.term
            /\ ReplyVote(m, s.term, FALSE)
            /\ NotSaved /\ UNCHANGED <<node, ballots>>
         \/ /\ newTerm                         \* saving the new term fails
            /\ SaveFails(n, disk[n], s1)
            /\ node' = [node EXCEPT ![n] = s1]
            /\ ReplyVote(m, s1.term, FALSE)
            /\ UNCHANGED ballots
         \/ /\ m.term >= s.term /\ ~grant
            /\ IF newTerm THEN Saved(n, s1) ELSE NotSaved
            /\ node' = [node EXCEPT ![n] = s1]
            /\ ReplyVote(m, s1.term, FALSE)
            /\ UNCHANGED ballots
         \/ /\ m.term >= s.term /\ grant       \* the vote is saved before it is given
            /\ Saved(n, s2)
            /\ node' = [node EXCEPT ![n] = s2]
            /\ ReplyVote(m, s2.term, TRUE)
            /\ ballots' = [ballots EXCEPT ![n][m.term] = m.from]
         \/ /\ m.term >= s.term /\ grant       \* saving the vote fails: taken back
            /\ SaveFails(n, base, s2)
            /\ node' = [node EXCEPT ![n] = s1]
            /\ ReplyVote(m, s1.term, FALSE)
            /\ UNCHANGED ballots
  /\ UNCHANGED <<snapFile, calls, acks, crashes, snapshots, leaders, chosen>>

\* The pool task of StartElection after RequestVoteRpc returned.
OnVoteReply(n, m) ==
  /\ m.kind = "voteReply" /\ m.from = n
  /\ rpcs' = rpcs \ {m}
  /\ LET s == node[n]
         c == AfterVotes(n, [s EXCEPT !.votes = @ \cup {m.to}])
     IN  \/ m.term > s.term /\ StepDownOnHigherTerm(n, m.term) /\ UNCHANGED leaders
         \/ /\ m.term <= s.term
            /\ IF s.role = "Candidate" /\ s.term = m.reqTerm /\ m.granted
               THEN node' = [node EXCEPT ![n] = c] /\ RecordLeader(n, c)
               ELSE UNCHANGED <<node, leaders>>
            /\ NotSaved
  /\ UNCHANGED <<snapFile, calls, acks, crashes, snapshots, ballots, chosen>>

----------------------------------------------------------------------------
(* Local appends and client calls *)

WithEntry(s, cmd) == [s EXCEPT !.log = Append(@, [term |-> s.term, cmd |-> cmd])]

\* AppendLocalLogUnlocked: the entry is taken back if it cannot be saved.
AppendLocalLog(n, s, cmd) ==
  \/ /\ Saved(n, WithEntry(s, cmd))
     /\ node' = [node EXCEPT ![n] = WithEntry(s, cmd)]
  \/ /\ SaveFails(n, disk[n], WithEntry(s, cmd))
     /\ node' = [node EXCEPT ![n] = s]

\* An entry that was appended is waited for in ReplicateLogEntryToMajority.  A
\* call it gives up (kLostLeadership, kTimeout) only answers the client: it is
\* one that stays in calls.
AwaitReplication(n, cmd) ==
  calls' = IF node'[n].log = node[n].log THEN calls
           ELSE calls \cup {[node |-> n, index |-> LastLogIndex(node'[n]), cmd |-> cmd,
                             term |-> node[n].term, at |-> 0]}

\* The thread that won an election comes back for the lock.  It checks the
\* role but not the term it was elected in.
ProposeNoOpEntry(n) ==
  /\ node[n].noops > 0
  /\ LET s == [node[n] EXCEPT !.noops = @ - 1]
     IN  \/ /\ s.role # "Leader"
            /\ node' = [node EXCEPT ![n] = s]
            /\ NotSaved /\ UNCHANGED calls
         \/ /\ s.role = "Leader" /\ LastLogIndex(s) < MaxLog
            /\ AppendLocalLog(n, s, NoOp) /\ AwaitReplication(n, NoOp)
  /\ UNCHANGED <<snapFile, rpcs, acks, crashes, snapshots, ballots, leaders, chosen>>

\* Propose up to the point where it leaves the lock to replicate.  A command
\* is submitted once.
Propose(n, v) ==
  /\ node[n].role = "Leader" /\ LastLogIndex(node[n]) < MaxLog
  /\ \A c \in calls \cup acks : c.cmd # v
  /\ AppendLocalLog(n, node[n], v) /\ AwaitReplication(n, v)
  /\ UNCHANGED <<snapFile, rpcs, acks, crashes, snapshots, ballots, leaders, chosen>>

----------------------------------------------------------------------------
(* Commit and apply *)

\* Fault variant: entries of earlier terms are committed by counting.
CommittableAnyTerm(n, s) ==
  {i \in s.commit + 1 .. LastLogIndex(s) :
     IsQuorum({n} \cup {p \in Node \ {n} : s.match[p] >= i})}

\* The largest index of the current term held by a majority.
Committable(n, s) ==
  {i \in s.commit + 1 .. LastLogIndex(s) :
     TermAtIndex(s, i) = s.term /\ IsQuorum({n} \cup {p \in Node \ {n} : s.match[p] >= i})}

AdvanceCommitIndex(n, s) ==
  IF s.role = "Leader" /\ Committable(n, s) # {}
  THEN [s EXCEPT !.commit = Max(Committable(n, s))] ELSE s

RecordChosen(s) ==
  chosen' = IF s.commit <= Len(chosen) THEN chosen
            ELSE chosen \o [i \in 1 .. s.commit - Len(chosen) |->
                              [entry |-> EntryAt(s, Len(chosen) + i), at |-> s.term]]

\* A failed save of the commit index is only logged.
StoreCommit(n, s) ==
  IF s.commit = node[n].commit THEN NotSaved
  ELSE Saved(n, s) \/ SaveFails(n, disk[n], s)

\* One round of the loop of ApplyCommittedEntries, which leaves the lock between
\* entries.  last_applied_ moves even if it cannot be saved.
ApplyCommittedEntries(n) ==
  /\ node[n].applied < node[n].commit /\ node[n].applied < MaxApplied[n]
  /\ LET s == [node[n] EXCEPT !.applied = @ + 1]
     IN  /\ node' = [node EXCEPT ![n] = s]
         /\ Saved(n, s) \/ SaveFails(n, disk[n], s)
  /\ UNCHANGED <<snapFile, rpcs, calls, acks, crashes, snapshots, ballots, leaders, chosen>>

\* ReplicateLogEntryToMajority answers kReplicated: it looks at the role and
\* at match_index_, never at the term of the entry.
IsReplicated(n, s, i) ==
  IF HasLogAtIndex(s, i) THEN IsQuorum({n} \cup {p \in Node \ {n} : s.match[p] >= i})
  ELSE i <= s.snapIndex

ProposeReplicated(n, c) ==
  /\ c.node = n /\ c.at = 0
  /\ node[n].role = "Leader" /\ IsReplicated(n, node[n], c.index)
  /\ LET s == AdvanceCommitIndex(n, node[n])
     IN  node' = [node EXCEPT ![n] = s] /\ StoreCommit(n, s) /\ RecordChosen(s)
  /\ calls' = (calls \ {c}) \cup (IF c.cmd = NoOp THEN {} ELSE {[c EXCEPT !.at = node[n].term]})
  /\ UNCHANGED <<snapFile, rpcs, acks, crashes, snapshots, ballots, leaders>>

\* After ApplyCommittedEntries: the client gets kOk if last_applied_ reached the
\* entry's index, kApplyFailed otherwise.
ProposeDone(n, c) ==
  /\ c.node = n /\ c.at # 0 /\ node[n].applied >= node[n].commit
  /\ calls' = calls \ {c}
  /\ acks' = IF node[n].applied >= c.index THEN acks \cup {c} ELSE acks
  /\ UNCHANGED <<node, disk, snapFile, rpcs, faults, crashes, snapshots, ballots, leaders, chosen>>

----------------------------------------------------------------------------
(* Replication: one Replicator per peer, one RPC in flight per Replicator *)

IsReplication(m) == m.kind \notin {"vote", "voteReply"}

InFlight(n, p) == \E m \in rpcs : IsReplication(m) /\ m.from = n /\ m.to = p /\ m.live

NextIndex(s, p) == IF s.next[p] = 0 THEN LastLogIndex(s) + 1 ELSE s.next[p]

NeedsSnapshot(s, next) ==
  next <= s.snapIndex \/ (next # 1 /\ TermAtIndex(s, next - 1) = 0)

AppendRequest(n, p, s) ==
  LET next == NextIndex(s, p)
  IN  [kind |-> "append", from |-> n, to |-> p, term |-> s.term, live |-> TRUE,
       prevIndex |-> next - 1, prevTerm |-> TermAtIndex(s, next - 1),
       entries |-> EntriesFrom(s, next, MaxBatch), commit |-> s.commit]

\* SendInstallSnapshotToPeer picks the snapshot whose index and term are those
\* of the log's marker.
InstallRequest(n, p, s) ==
  [kind |-> "install", from |-> n, to |-> p, term |-> s.term, live |-> TRUE,
   index |-> s.snapIndex, snapTerm |-> s.snapTerm]

\* ReplicateOnce up to the RPC: heartbeats and proposals both come here.
ReplicateOnce(n, p) ==
  /\ node[n].role = "Leader" /\ p \in Reachable(n) /\ ~InFlight(n, p)
  /\ Cardinality({m \in rpcs : IsReplication(m) /\ m.live}) < MaxRpcs
  /\ IF NeedsSnapshot(node[n], NextIndex(node[n], p))
     THEN node[n].snapIndex # 0 /\ rpcs' = rpcs \cup {InstallRequest(n, p, node[n])}
     ELSE rpcs' = rpcs \cup {AppendRequest(n, p, node[n])}
  /\ UNCHANGED <<node, disk, snapFile, calls, acks, faults, crashes, snapshots,
                 ballots, leaders, chosen>>

IsRequest(m) == m.kind \in {"vote", "append", "install", "installing"}

\* A Replicator's deadline passes: it forgets the call.  The request is lost, or
\* still reaches its handler later; the reply is discarded.  (A vote request
\* that fails changes nothing in its caller: one that stays in rpcs is a lost one.)
RpcTimeout(m) ==
  /\ IsReplication(m) /\ m.live
  /\ \/ m.kind # "installing" /\ rpcs' = rpcs \ {m}
     \/ /\ IsRequest(m) /\ Cardinality({r \in rpcs : ~r.live}) < MaxLate
        /\ rpcs' = (rpcs \ {m}) \cup {[m EXCEPT !.live = FALSE]}
  /\ UNCHANGED <<node, disk, snapFile, calls, acks, faults, crashes, snapshots,
                 ballots, leaders, chosen>>

AppendReply(m, s, success, match, hint) ==
  [kind |-> "appendReply", from |-> m.from, to |-> m.to, reqTerm |-> m.term, live |-> TRUE,
   term |-> s.term, success |-> success, match |-> match, last |-> LastLogIndex(s), hint |-> hint]

NoHint == [index |-> 0, term |-> 0]

\* The caller becomes our leader (common to AppendEntries and InstallSnapshot).
FollowSender(s, m) ==
  IF m.term > s.term \/ s.role # "Follower" \/ s.leader # m.from
  THEN BecomeFollower(s, m.term, m.from) ELSE s

\* Fault variant: the term of the previous entry is not compared.
PrevPresent(s, m) == m.prevIndex >= s.snapIndex /\ HasLogAtIndex(s, m.prevIndex)

PrevMatches(s, m) ==
  /\ m.prevIndex >= s.snapIndex /\ HasLogAtIndex(s, m.prevIndex)
  /\ TermAtIndex(s, m.prevIndex) = m.prevTerm

\* The commit index is capped by the end of the log, not by the last entry
\* this request matched.
WithLeaderCommit(s, m) ==
  [s EXCEPT !.commit = Larger(s.commit, Smaller(m.commit, LastLogIndex(s)))]

\* Fault variants: one too many; one too few.
MatchedBeyond(s, m) == m.prevIndex + Len(m.entries) + 1
MatchedBefore(s, m) == m.prevIndex + Len(m.entries) - 1

\* The last index this request has shown the follower to share with the leader.
MatchedUpTo(s, m) == m.prevIndex + Len(m.entries)

OnAppendEntries(n, m) ==
  /\ m.kind = "append" /\ m.to = n
  /\ LET s == node[n]
         newTerm == m.term > s.term
         s1 == FollowSender(s, m)
         s2 == [s1 EXCEPT !.log = LogAfterAppend(s1, m.prevIndex, m.entries)]
         s3 == WithLeaderCommit(s2, m)
         accept == m.term >= s.term /\ PrevMatches(s1, m)
         newLog == s2.log # s1.log
         newCommit == s3.commit # s2.commit
         match == MatchedUpTo(s2, m)
         base1 == IF newTerm THEN HardState(s1) ELSE disk[n]
         base2 == IF newTerm \/ newLog THEN HardState(s2) ELSE disk[n]
     IN  \/ /\ m.term < s.term
            /\ Reply(m, AppendReply(m, s, FALSE, s.snapIndex, NoHint))
            /\ NotSaved /\ UNCHANGED node
         \/ /\ newTerm /\ SaveFails(n, disk[n], s1)
            /\ node' = [node EXCEPT ![n] = s1]
            /\ Reply(m, AppendReply(m, s1, FALSE, s1.snapIndex, NoHint))
         \/ /\ m.term >= s.term /\ ~PrevMatches(s1, m)
            /\ IF newTerm THEN Saved(n, s1) ELSE NotSaved
            /\ node' = [node EXCEPT ![n] = s1]
            /\ Reply(m, AppendReply(m, s1, FALSE, s1.snapIndex, ConflictHint(s1, m.prevIndex)))
         \/ /\ accept /\ newLog /\ SaveFails(n, base1, s2)
            /\ node' = [node EXCEPT ![n] = s1]
            /\ Reply(m, AppendReply(m, s1, FALSE, match, NoHint))
         \/ /\ accept /\ newCommit /\ SaveFails(n, base2, s3)
            /\ node' = [node EXCEPT ![n] = s2]
            /\ Reply(m, AppendReply(m, s2, FALSE, match, NoHint))
         \/ /\ accept
            /\ IF newTerm \/ newLog \/ newCommit THEN Saved(n, s3) ELSE NotSaved
            /\ node' = [node EXCEPT ![n] = s3]
            /\ Reply(m, AppendReply(m, s3, TRUE, match, NoHint))
  /\ UNCHANGED <<snapFile, calls, acks, crashes, snapshots, ballots, leaders, chosen>>

\* HandleAppendEntriesResponse.
OnAppendReply(n, m) ==
  /\ m.kind = "appendReply" /\ m.from = n
  /\ rpcs' = rpcs \ {m}
  /\ LET s == node[n]
         current == s.role = "Leader" /\ s.term = m.reqTerm
         matched == [s EXCEPT !.match[m.to] = Larger(@, m.match),
                              !.next[m.to] = Larger(@, m.match + 1)]
         ok == AdvanceCommitIndex(n, matched)
         back == [s EXCEPT !.next[m.to] = HintedNext(s, @, m.last, m.hint)]
     IN  \/ m.term > s.term /\ StepDownOnHigherTerm(n, m.term) /\ UNCHANGED chosen
         \/ /\ m.term <= s.term /\ ~current
            /\ NotSaved /\ UNCHANGED <<node, chosen>>
         \/ /\ m.term <= s.term /\ current /\ m.success
            /\ node' = [node EXCEPT ![n] = ok]
            /\ StoreCommit(n, ok) /\ RecordChosen(ok)
         \/ /\ m.term <= s.term /\ current /\ ~m.success
            /\ node' = [node EXCEPT ![n] = back]
            /\ NotSaved /\ UNCHANGED chosen
  /\ UNCHANGED <<snapFile, calls, acks, crashes, snapshots, ballots, leaders>>

----------------------------------------------------------------------------
(* Snapshots *)

\* Fault variant: the first entry is never worth a snapshot file.
NewerByTwo(f, index, term) == IF index > f.index + 1 THEN [index |-> index, term |-> term] ELSE f

\* SaveSnapshotFile: a snapshot directory is published under its index; an
\* older one never hides a newer one.
Newer(f, index, term) == IF index > f.index THEN [index |-> index, term |-> term] ELSE f

\* Fault variant: the snapshot claims the whole log.
SnapshotOfLog(s) == [index |-> LastLogIndex(s), term |-> LastLogTerm(s)]

SnapshotPoint(s) == [index |-> s.applied, term |-> TermAtIndex(s, s.applied)]

\* SnapshotWorkerLoop: the state machine is written under apply_mu_ and the
\* directory published ...
SaveSnapshot(n) ==
  /\ snapshots < MaxSnapshots /\ node[n].job = NoSnapshot
  /\ node[n].applied > node[n].snapIndex
  /\ LET job == SnapshotPoint(node[n])
     IN  /\ node' = [node EXCEPT ![n].job = job]
         /\ snapFile' = [snapFile EXCEPT ![n] = Newer(@, job.index, job.term)]
  /\ snapshots' = snapshots + 1
  /\ UNCHANGED <<disk, rpcs, calls, acks, faults, crashes, ballots, leaders, chosen>>

\* ... and later the log is compacted, unless an install got there first.  A
\* failed save is only logged: memory stays compacted.
CompactAfterSnapshot(n) ==
  /\ node[n].job # NoSnapshot
  /\ LET job == node[n].job
         s == [node[n] EXCEPT !.job = NoSnapshot]
         s1 == RestoreLogAfterSnapshot(s, job.index, job.term)
     IN  /\ node' = [node EXCEPT ![n] = s1]
         /\ IF job.index > s.snapIndex THEN Saved(n, s1) \/ SaveFails(n, disk[n], s1)
            ELSE NotSaved
  /\ UNCHANGED <<snapFile, rpcs, calls, acks, crashes, snapshots, ballots, leaders, chosen>>

InstallReply(m, term, success, last) ==
  [kind |-> "installReply", from |-> m.from, to |-> m.to, reqTerm |-> m.term, live |-> TRUE,
   term |-> term, success |-> success, index |-> m.index, last |-> last]

\* The first critical section of OnInstallSnapshot and SaveSnapshotFile.
OnInstallSnapshot(n, m) ==
  /\ m.kind = "install" /\ m.to = n
  /\ LET s == node[n]
         newTerm == m.term > s.term
         s1 == FollowSender(s, m)
         last == LastLogIndex(s)
     IN  \/ /\ m.term < s.term
            /\ Reply(m, InstallReply(m, s.term, FALSE, last))
            /\ NotSaved /\ UNCHANGED <<node, snapFile>>
         \/ /\ newTerm /\ SaveFails(n, disk[n], s1)
            /\ node' = [node EXCEPT ![n] = s1]
            /\ Reply(m, InstallReply(m, s1.term, FALSE, last))
            /\ UNCHANGED snapFile
         \/ /\ m.term >= s.term /\ m.index <= s.snapIndex
            /\ IF newTerm THEN Saved(n, s1) ELSE NotSaved
            /\ node' = [node EXCEPT ![n] = s1]
            /\ Reply(m, InstallReply(m, s1.term, TRUE, last))
            /\ UNCHANGED snapFile
         \/ /\ m.term >= s.term /\ m.index > s.snapIndex
            /\ IF newTerm THEN Saved(n, s1) ELSE NotSaved
            /\ node' = [node EXCEPT ![n] = s1]
            /\ \/ /\ snapFile' = [snapFile EXCEPT ![n] = Newer(@, m.index, m.snapTerm)]
                  /\ rpcs' = (rpcs \ {m}) \cup
                       {[kind |-> "installing", from |-> m.from, to |-> n, term |-> m.term,
                         live |-> m.live, index |-> m.index, snapTerm |-> m.snapTerm,
                         last |-> last]}
               \/ /\ UNCHANGED snapFile          \* SaveSnapshotFile failed
                  /\ Reply(m, InstallReply(m, s.term, FALSE, last))
  /\ UNCHANGED <<calls, acks, crashes, snapshots, ballots, leaders, chosen>>

\* The second one, after LoadSnapshot; when that fails the answer still has a
\* term of the first section, none above the leader's.  A failed save leaves
\* memory compacted.
FinishInstallSnapshot(n, m) ==
  /\ m.kind = "installing" /\ m.to = n
  /\ LET s == node[n]
         s1 == RestoreLogAfterSnapshot(s, m.index, m.snapTerm)
     IN  \/ /\ Reply(m, InstallReply(m, m.term, FALSE, m.last))       \* LoadSnapshot failed
            /\ NotSaved /\ UNCHANGED node
         \/ /\ m.term < s.term
            /\ Reply(m, InstallReply(m, s.term, FALSE, m.last))
            /\ NotSaved /\ UNCHANGED node
         \/ /\ m.term >= s.term
            /\ node' = [node EXCEPT ![n] = s1]
            /\ \/ Saved(n, s1) /\ Reply(m, InstallReply(m, s1.term, TRUE, LastLogIndex(s1)))
               \/ /\ SaveFails(n, disk[n], s1)
                  /\ Reply(m, InstallReply(m, s1.term, FALSE, LastLogIndex(s1)))
  /\ UNCHANGED <<snapFile, calls, acks, crashes, snapshots, ballots, leaders, chosen>>

\* The end of SendInstallSnapshotToPeer: a failure moves next_index_ without a
\* cap, a success does not look at the commit index.
OnInstallReply(n, m) ==
  /\ m.kind = "installReply" /\ m.from = n
  /\ rpcs' = rpcs \ {m}
  /\ LET s == node[n]
         done == [s EXCEPT !.match[m.to] = Larger(@, m.index),
                           !.next[m.to] = Larger(@, m.index + 1)]
         back == [s EXCEPT !.next[m.to] = m.last + 1]
     IN  \/ m.term > s.term /\ StepDownOnHigherTerm(n, m.term)
         \/ /\ m.term <= s.term
            /\ node' = IF s.role # "Leader" \/ s.term # m.reqTerm THEN node
                       ELSE [node EXCEPT ![n] = IF m.success THEN done ELSE back]
            /\ NotSaved
  /\ UNCHANGED <<snapFile, calls, acks, crashes, snapshots, ballots, leaders, chosen>>

----------------------------------------------------------------------------
(* Crash and restart *)

\* What the constructor makes of the disk: load the hard state, restore the
\* newest snapshot, replay the committed entries, saving as it goes.
Recovered(d, f) ==
  LET s == [FreshNode EXCEPT !.term = d.term, !.vote = d.vote, !.log = d.log,
                             !.snapIndex = d.snapIndex, !.snapTerm = d.snapTerm]
      s1 == [s EXCEPT !.commit = Smaller(Larger(d.commit, d.applied), LastLogIndex(s))]
      s2 == RestoreLogAfterSnapshot(s1, f.index, f.term)
      commit == Larger(s2.commit, f.index)
  IN  [s2 EXCEPT !.commit = commit, !.applied = commit]

\* A crash ends n's calls and the handlers running in it; requests it sent may
\* still be delivered.
CrashRestart(n) ==
  /\ n \in Faulty /\ crashes < MaxCrashes
  /\ crashes' = crashes + 1
  /\ LET s == Recovered(disk[n], snapFile[n])
     IN  node' = [node EXCEPT ![n] = s] /\ disk' = [disk EXCEPT ![n] = HardState(s)]
  /\ calls' = {c \in calls : c.node # n}
  /\ LET Ended(m) == \/ m.from = n /\ ~IsRequest(m)
                     \/ m.to = n /\ m.kind = "installing"
     IN  rpcs' = {IF m.from = n THEN [m EXCEPT !.live = FALSE] ELSE m :
                  m \in {r \in rpcs : ~Ended(r)}}
  /\ UNCHANGED <<snapFile, acks, faults, snapshots, ballots, leaders, chosen>>

----------------------------------------------------------------------------

Next ==
  \/ \E n \in Node :
       \/ StartElection(n)
       \/ ProposeNoOpEntry(n)
       \/ \E v \in Submitted[n] : Propose(n, v)
       \/ \E c \in calls : ProposeReplicated(n, c) \/ ProposeDone(n, c)
       \/ ApplyCommittedEntries(n)
       \/ \E p \in Node : ReplicateOnce(n, p)
       \/ SaveSnapshot(n)
       \/ CompactAfterSnapshot(n)
       \/ CrashRestart(n)
       \/ \E m \in rpcs :
            \/ OnRequestVote(n, m) \/ OnVoteReply(n, m)
            \/ OnAppendEntries(n, m) \/ OnAppendReply(n, m)
            \/ OnInstallSnapshot(n, m) \/ FinishInstallSnapshot(n, m) \/ OnInstallReply(n, m)
  \/ \E m \in rpcs : RpcTimeout(m)

Spec == Init /\ [][Next]_vars

----------------------------------------------------------------------------
(* Properties *)

Snapshot == [index : Nat, term : Term]

NodeState ==
  [term : Term, vote : Node \cup {Nil}, role : {"Follower", "Candidate", "Leader"},
   leader : Node \cup {Nil}, log : Seq(Entry), snapIndex : Nat, snapTerm : Term,
   commit : Nat, applied : Nat, next : [Node -> Nat], match : [Node -> Nat],
   votes : SUBSET Node, noops : Nat, job : Snapshot]

DiskState ==
  [term : Term, vote : Node \cup {Nil}, commit : Nat, applied : Nat, log : Seq(Entry),
   snapIndex : Nat, snapTerm : Term]

VoteRequests ==
  [kind : {"vote"}, from : Node, to : Node, term : Term, live : BOOLEAN,
   lastIndex : Nat, lastTerm : Term]
VoteReplies ==
  [kind : {"voteReply"}, from : Node, to : Node, reqTerm : Term, live : BOOLEAN,
   term : Term, granted : BOOLEAN]
AppendRequests ==
  [kind : {"append"}, from : Node, to : Node, term : Term, live : BOOLEAN,
   prevIndex : Nat, prevTerm : Term, entries : Seq(Entry), commit : Nat]
AppendReplies ==
  [kind : {"appendReply"}, from : Node, to : Node, reqTerm : Term, live : BOOLEAN,
   term : Term, success : BOOLEAN, match : Nat, last : Nat, hint : Snapshot]
InstallRequests ==
  [kind : {"install"}, from : Node, to : Node, term : Term, live : BOOLEAN,
   index : Nat, snapTerm : Term]
RunningInstalls ==
  [kind : {"installing"}, from : Node, to : Node, term : Term, live : BOOLEAN,
   index : Nat, snapTerm : Term, last : Nat]
InstallReplies ==
  [kind : {"installReply"}, from : Node, to : Node, reqTerm : Term, live : BOOLEAN,
   term : Term, success : BOOLEAN, index : Nat, last : Nat]

Rpc == VoteRequests \cup VoteReplies \cup AppendRequests \cup AppendReplies
       \cup InstallRequests \cup RunningInstalls \cup InstallReplies

\* The types of the members of RaftNode, of PersistentRaftState and of the RPCs.
TypeOK ==
  /\ node \in [Node -> NodeState]
  /\ disk \in [Node -> DiskState]
  /\ snapFile \in [Node -> Snapshot]
  /\ rpcs \subseteq Rpc
  /\ ballots \in [Node -> [Term -> Node \cup {Nil}]]
  /\ leaders \in [Term -> SUBSET Node]

\* The marker of the log is applied, what is applied is committed, what is
\* committed is in the log: no truncation in OnAppendEntries cuts a committed
\* entry and no snapshot outruns commit_index_ (also after a restart).
IndexOrder ==
  \A n \in Node : LET s == node[n] IN
    s.snapIndex <= s.applied /\ s.applied <= s.commit /\ s.commit <= LastLogIndex(s)

\* At most one node becomes leader in a term, whatever is lost, late, unsaved or
\* restarted (StartElection, OnRequestVote, BecomeLeaderLocked).
ElectionSafety == \A t \in Term : Cardinality(leaders[t]) <= 1

\* Two logs that agree on the term of an index agree on everything before it
\* that neither has compacted (the consistency check of OnAppendEntries).
LogMatching ==
  \A a, b \in Node :
    \A i \in node[a].snapIndex + 1 .. LastLogIndex(node[a]) :
      /\ HasLogAtIndex(node[b], i) /\ i > node[b].snapIndex
      /\ EntryAt(node[a], i).term = EntryAt(node[b], i).term
      => \A j \in Larger(node[a].snapIndex, node[b].snapIndex) + 1 .. i :
           EntryAt(node[a], j) = EntryAt(node[b], j)

\* What a node may apply is what a leader committed at that index, and the
\* marker of a compacted or installed log is a committed entry
\* (commit_index_ in OnAppendEntries, OnInstallSnapshot, the constructor).
StateMachineSafety ==
  \A n \in Node : LET s == node[n] IN
    /\ s.commit <= Len(chosen)
    /\ \A i \in s.snapIndex + 1 .. s.commit : EntryAt(s, i) = chosen[i].entry
    /\ s.snapIndex # 0 => s.snapTerm = chosen[s.snapIndex].entry.term

\* A leader of a later term than the one an entry was committed in has it
\* (IsCandidateLogUpToDateLocked, AdvanceCommitIndexUnlocked's term check).
LeaderCompleteness ==
  \A n \in Node : \A i \in DOMAIN chosen :
    node[n].role = "Leader" /\ node[n].term >= chosen[i].at =>
      \/ i <= node[n].snapIndex
      \/ i <= LastLogIndex(node[n]) /\ EntryAt(node[n], i) = chosen[i].entry

Stored(d, f, i) ==
  \/ i <= f.index
  \/ /\ d.snapIndex < i /\ i <= d.snapIndex + Len(d.log)
     /\ d.log[i - d.snapIndex] = chosen[i].entry

\* A committed entry is on the disks of a majority, in the log or under a
\* snapshot: no crash can lose it (every PersistStateLocked before a reply).
CommittedDurable ==
  \A i \in DOMAIN chosen : IsQuorum({n \in Node : Stored(disk[n], snapFile[n], i)})

\* A vote is never forgotten: as long as a node is in a term it voted in, its
\* memory and its disk name the candidate (vote saved before it is given).
PromiseKept ==
  \A n \in Node : \A t \in Term :
    ballots[n][t] # Nil =>
      \A d \in {HardState(node[n]), disk[n]} :
        d.term > t \/ (d.term = t /\ d.vote = ballots[n][t])

\* Votes counted are votes cast: a granted reply on its way and a vote a
\* candidate has counted stand for the one ballot of that voter in that term,
\* and behind every leader stand the ballots of a majority.
VotesBacked ==
  /\ \A m \in rpcs : m.kind = "voteReply" /\ m.granted => ballots[m.to][m.reqTerm] = m.from
  /\ \A n \in Node : node[n].role = "Candidate" =>
       \A v \in node[n].votes : ballots[v][node[n].term] = n
  /\ \A t \in Term : \A n \in leaders[t] : IsQuorum({v \in Node : ballots[v][t] = n})

\* While a leader leads, a follower in its term holds everything that
\* match_index_ says it holds (AppendEntries and InstallSnapshot replies).
MatchIndexTruth ==
  \A n, p \in Node :
    LET s == node[n] IN
    s.role = "Leader" /\ p # n /\ s.match[p] > 0 =>
      /\ s.match[p] <= LastLogIndex(s)
      /\ s.match[p] <= LastLogIndex(node[p]) \/ node[p].term > s.term
      /\ node[p].term = s.term =>
           \A i \in Larger(s.snapIndex, node[p].snapIndex) + 1 .. s.match[p] :
             EntryAt(s, i) = EntryAt(node[p], i)

\* The snapshot directory always covers what the log on disk no longer has
\* (a snapshot is published before the log is compacted).
SnapshotCoversLog == \A n \in Node : disk[n].snapIndex <= snapFile[n].index

\* A client told kOk by the term that took its command finds the command
\* committed at the index it was told (Propose).
AckSafety ==
  \A c \in acks : c.at = c.term =>
    c.index <= Len(chosen) /\ chosen[c.index].entry = [term |-> c.term, cmd |-> c.cmd]

\* "command committed and applied" (raft_node.cpp:1902): every kOk is about the
\* client's own command.
AckedImpliesChosen ==
  \A c \in acks : c.index <= Len(chosen) /\ chosen[c.index].entry.cmd = c.cmd

\* "new committed state is applied consistently across the surviving cluster"
\* (specs/004-raft-industrialization/spec.md:62): two nodes never have different
\* entries at an index both have committed.
AppliedConsistently ==
  \A a, b \in Node :
    \A i \in Larger(node[a].snapIndex, node[b].snapIndex) + 1
             .. Smaller(node[a].commit, node[b].commit) :
      EntryAt(node[a], i) = EntryAt(node[b], i)

Record == INSTANCE Election

\* The ballots and the leaders of the cluster are those of an Election: no node
\* votes twice in a term or in a term behind its last vote, before or after a
\* restart, and a term's only leader has a majority (OnRequestVote,
\* StartElection, OnElectionWon).
ImplementsElection == Record!Spec
============================================================================
