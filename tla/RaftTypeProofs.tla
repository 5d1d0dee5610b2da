-------------------------- MODULE RaftTypeProofs ---------------------------
(***************************************************************************)
(* Type correctness of RaftCluster, for every cluster size and every value *)
(* of the bounds.  One lemma per operator on the state of a node, then one *)
(* step per action.                                                        *)
(***************************************************************************)
EXTENDS RaftCluster, TLAPS

(* Facts about finite sets and natural numbers that the proofs rest on: two  *)
(* majorities share a node, a set with a majority in it is one, a set of     *)
(* naturals has a least member.  RaftProofs derives them from the library of *)
(* theorems.  Here they are a hypothesis, which keeps that library out of    *)
(* the long proofs.                                                          *)
SetFacts ==
  /\ \A P, Q \in SUBSET Node : IsQuorum(P) /\ IsQuorum(Q) => P \cap Q # {}
  /\ \A P, Q \in SUBSET Node : IsQuorum(P) /\ P \subseteq Q => IsQuorum(Q)
  /\ \A Q \in SUBSET Node : Cardinality(Q) \in Nat
  /\ Cardinality({}) = 0
  /\ \A n \in Node : Cardinality({n}) = 1
  /\ \A S \in SUBSET Nat : S # {} => \E x \in S : \A y \in S : x <= y

----------------------------------------------------------------------------
(* Types *)

\* A nonempty set of naturals has a minimum, and Min is it
\* (FirstIndexOfTermLocked scans from the front).
LEMMA MinIsMember ==
  ASSUME SetFacts, NEW S \in SUBSET Nat, S # {}
  PROVE  Min(S) \in S /\ \A y \in S : Min(S) <= y
<1>1. \E x \in S : \A y \in S : x <= y
  BY DEF SetFacts
<1> QED
  BY <1>1 DEF Min

\* A nonempty bounded set of naturals has a maximum, and Max is it
\* (AdvanceCommitIndexUnlocked scans from the end of the log).
LEMMA MaxIsMember ==
  ASSUME SetFacts, NEW b \in Nat, NEW S \in SUBSET (0 .. b), S # {}
  PROVE  Max(S) \in S /\ \A y \in S : Max(S) >= y
<1> DEFINE D == {b - x : x \in S}
<1>1. D \in SUBSET Nat /\ D # {}
  <2>1. \A x \in S : b - x \in Nat
    OBVIOUS
  <2> QED
    BY <2>1, Zenon
<1>2. PICK d \in D : \A y \in D : d <= y
  <2>1. Min(D) \in D /\ \A y \in D : Min(D) <= y
    BY <1>1, MinIsMember
  <2> QED
    BY <2>1
<1>3. \E x \in S : \A y \in S : x >= y
  <2>1. PICK x \in S : d = b - x
    OBVIOUS
  <2>2. \A y \in S : b - x <= b - y
    BY <1>2, <2>1
  <2> QED
    BY <2>2
<1> QED
  BY <1>3 DEF Max

----------------------------------------------------------------------------
(* The operators of RaftLog *)

\* The types of the fields of a node.
LEMMA NodeFields ==
  ASSUME NEW s \in NodeState
  PROVE  /\ s.term \in Term /\ s.vote \in Node \cup {Nil} /\ s.leader \in Node \cup {Nil}
         /\ s.role \in {"Follower", "Candidate", "Leader"}
         /\ s.log \in Seq(Entry) /\ s.snapIndex \in Nat /\ s.snapTerm \in Term
         /\ s.commit \in Nat /\ s.applied \in Nat
         /\ s.next \in [Node -> Nat] /\ s.match \in [Node -> Nat] /\ s.votes \in SUBSET Node
         /\ s.noops \in Nat /\ s.job \in Snapshot
BY DEF NodeState

\* LastLogIndexLocked and LastLogTermLocked return an index and a term.
LEMMA LastLogIndexType ==
  ASSUME NEW s \in NodeState
  PROVE  LastLogIndex(s) \in Nat /\ LastLogTerm(s) \in Term
<1>1. s.log \in Seq(Entry) /\ s.snapIndex \in Nat /\ s.snapTerm \in Term
  BY DEF NodeState
<1>2. LastLogIndex(s) \in Nat
  BY <1>1 DEF LastLogIndex
<1>3. CASE s.log = <<>>
  BY <1>1, <1>2, <1>3 DEF LastLogTerm
<1>4. CASE s.log # <<>>
  <2>1. s.log[Len(s.log)] \in Entry
    BY <1>1, <1>4
  <2> QED
    BY <1>2, <1>4, <2>1 DEF LastLogTerm, Entry
<1> QED
  BY <1>3, <1>4

\* An index of the log other than the marker's holds an entry.
LEMMA EntryAtType ==
  ASSUME NEW s \in NodeState, NEW i \in Int, HasLogAtIndex(s, i), i # s.snapIndex
  PROVE  EntryAt(s, i) \in Entry
<1>1. s.log \in Seq(Entry) /\ s.snapIndex \in Nat
  BY DEF NodeState
<1>2. i - s.snapIndex \in 1 .. Len(s.log)
  BY <1>1 DEF HasLogAtIndex, LastLogIndex
<1> QED
  BY <1>1, <1>2 DEF EntryAt

\* GetLogTermAtIndexLocked returns a term.
LEMMA TermAtIndexType ==
  ASSUME NEW s \in NodeState, NEW i \in Int, MaxTerm \in Nat
  PROVE  TermAtIndex(s, i) \in Term
<1>1. s.snapTerm \in Term
  BY DEF NodeState
<1>2. CASE HasLogAtIndex(s, i) /\ i # s.snapIndex
  BY <1>2, EntryAtType DEF TermAtIndex, Entry
<1>3. CASE ~(HasLogAtIndex(s, i) /\ i # s.snapIndex)
  BY <1>1, <1>3 DEF TermAtIndex, Term
<1> QED
  BY <1>2, <1>3

\* The first and last index of a term are log indexes.
LEMMA IndexOfTermType ==
  ASSUME SetFacts, NEW s \in NodeState, NEW t
  PROVE  FirstIndexOfTerm(s, t) \in Nat /\ LastIndexOfTerm(s, t) \in Nat
<1> DEFINE I == IndexesOfTerm(s, t)
<1>1. s.snapIndex \in Nat /\ LastLogIndex(s) \in Nat
  BY LastLogIndexType DEF NodeState
<1>2. I \subseteq 0 .. LastLogIndex(s)
  BY <1>1 DEF IndexesOfTerm
<1>3. CASE I = {}
  BY <1>3 DEF FirstIndexOfTerm, LastIndexOfTerm
<1>4. CASE I # {}
  <2>1. I \in SUBSET Nat /\ I \in SUBSET (0 .. LastLogIndex(s))
    BY <1>2
  <2> HIDE DEF I
  <2>2. Min(I) \in Nat
    BY <1>4, <2>1, MinIsMember
  <2>3. Max(I) \in Nat
    BY <1>1, <1>4, <2>1, MaxIsMember
  <2> QED
    BY <1>4, <2>2, <2>3 DEF I, FirstIndexOfTerm, LastIndexOfTerm
<1> QED
  BY <1>3, <1>4

\* SetAppendEntriesConflictHintLocked reports a term and a log index.
LEMMA ConflictHintType ==
  ASSUME SetFacts, NEW s \in NodeState, NEW probe \in Nat, MaxTerm \in Nat
  PROVE  ConflictHint(s, probe) \in Snapshot
<1>1. s.snapIndex \in Nat /\ LastLogIndex(s) \in Nat /\ 0 \in Term
  BY LastLogIndexType, NodeFields DEF Term
<1>2. TermAtIndex(s, probe) \in Term
  BY TermAtIndexType
<1>3. FirstIndexOfTerm(s, TermAtIndex(s, probe)) \in Nat
  BY IndexOfTermType
<1> QED
  BY <1>1, <1>2, <1>3 DEF ConflictHint, Snapshot

\* The next_index_ the leader takes from a conflict hint is a natural number.
LEMMA HintedNextType ==
  ASSUME SetFacts, NEW s \in NodeState, NEW next \in Nat, NEW last \in Nat, NEW hint \in Snapshot
  PROVE  HintedNext(s, next, last, hint) \in Nat
<1>1. LastLogIndex(s) \in Nat /\ hint.index \in Nat
  BY LastLogIndexType DEF Snapshot
<1>2. LastIndexOfTerm(s, hint.term) \in Nat
  BY IndexOfTermType
<1> QED
  BY <1>1, <1>2 DEF HintedNext, Larger, Smaller

\* RestoreLogAfterSnapshotLocked makes a node state.
LEMMA RestoreLogType ==
  ASSUME NEW s \in NodeState, NEW index \in Nat, NEW term \in Term
  PROVE  RestoreLogAfterSnapshot(s, index, term) \in NodeState
<1> DEFINE keep == HasLogAtIndex(s, index) /\ TermAtIndex(s, index) = term
           log == IF keep THEN SubSeq(s.log, index - s.snapIndex + 1, Len(s.log)) ELSE <<>>
<1>1. s.log \in Seq(Entry) /\ s.snapIndex \in Nat /\ s.commit \in Nat /\ s.applied \in Nat
  BY DEF NodeState
<1>2. CASE index <= s.snapIndex
  BY <1>2 DEF RestoreLogAfterSnapshot
<1>3. CASE index > s.snapIndex
  <2>1. log \in Seq(Entry)
    BY <1>1, <1>3
  <2>2. Larger(s.commit, index) \in Nat /\ Larger(s.applied, index) \in Nat
    BY <1>1 DEF Larger
  <2>3. RestoreLogAfterSnapshot(s, index, term) =
          [s EXCEPT !.log = log, !.snapIndex = index, !.snapTerm = term,
                    !.commit = Larger(s.commit, index), !.applied = Larger(s.applied, index)]
    BY <1>1, <1>3 DEF RestoreLogAfterSnapshot
  <2> HIDE DEF log
  <2> QED
    BY <2>1, <2>2, <2>3, ZenonT(60) DEF NodeState
<1> QED
  BY <1>1, <1>2, <1>3

\* OnAppendEntries turns a log and the entries of a request into a log.
LEMMA LogAfterAppendType ==
  ASSUME NEW s \in NodeState, NEW prev \in Nat, NEW entries \in Seq(Entry),
         s.snapIndex <= prev, prev <= LastLogIndex(s)
  PROVE  LogAfterAppend(s, prev, entries) \in Seq(Entry)
<1> DEFINE off == prev - s.snapIndex
           Present(k) == off + k <= Len(s.log) /\ s.log[off + k].term = entries[k].term
           new == [i \in 1 .. off + Len(entries) |->
                     IF \A k \in 1 .. i - off : Present(k) THEN s.log[i] ELSE entries[i - off]]
<1>1. s.log \in Seq(Entry) /\ s.snapIndex \in Nat
  BY DEF NodeState
<1>2. off \in 0 .. Len(s.log) /\ Len(entries) \in Nat
  BY <1>1 DEF LastLogIndex
<1>3. ASSUME NEW i \in 1 .. off + Len(entries)
      PROVE  new[i] \in Entry
  <2>1. CASE i <= off
    <3>1. \A k \in 1 .. i - off : Present(k)
      BY <1>2, <2>1
    <3>2. new[i] = s.log[i]
      BY <3>1
    <3> QED
      BY <1>1, <1>2, <2>1, <3>2, SMTT(60)
  <2>2. CASE i > off /\ \A k \in 1 .. i - off : Present(k)
    <3>1. i - off \in 1 .. i - off
      BY <1>2, <2>2
    <3>2. Present(i - off)
      BY <2>2, <3>1
    <3>3. off + (i - off) <= Len(s.log)
      BY <3>2
    <3>4. i <= Len(s.log)
      <4>1. off \in Int /\ i \in Int /\ Len(s.log) \in Int
        BY <1>1, <1>2
      <4> HIDE DEF off
      <4> QED
        BY <3>3, <4>1
    <3> QED
      BY <1>1, <2>2, <3>4
  <2>3. CASE i > off /\ ~\A k \in 1 .. i - off : Present(k)
    <3>1. new[i] = entries[i - off]
      BY <2>3
    <3>2. i - off \in 1 .. Len(entries)
      BY <1>2, <2>3
    <3> QED
      BY <3>1, <3>2, SMTT(60)
  <2>4. i <= off \/ i > off
    BY <1>2
  <2> QED
    BY <2>1, <2>2, <2>3, <2>4, Zenon
<1>4. new \in Seq(Entry)
  <2>1. off + Len(entries) \in Nat
    BY <1>2
  <2>2. new \in [1 .. off + Len(entries) -> Entry]
    BY <1>3
  <2> HIDE DEF new, off
  <2> QED
    BY <2>1, <2>2
<1> QED
  BY <1>1, <1>4 DEF LogAfterAppend

\* BuildAppendEntriesRequest sends a batch of log entries.
LEMMA EntriesFromType ==
  ASSUME NEW s \in NodeState, NEW next \in Nat, s.snapIndex < next, MaxBatch \in Nat
  PROVE  EntriesFrom(s, next, MaxBatch) \in Seq(Entry)
<1>1. s.log \in Seq(Entry) /\ s.snapIndex \in Nat
  BY DEF NodeState
<1> QED
  BY <1>1 DEF EntriesFrom, Smaller

----------------------------------------------------------------------------
(* The operators of RaftCluster on one node *)

\* What PersistStateLocked writes for a node is a disk state.
LEMMA HardStateType ==
  ASSUME NEW s \in NodeState
  PROVE  HardState(s) \in DiskState
BY DEF NodeState, DiskState, HardState

\* BecomeFollowerLocked makes a node state.
LEMMA BecomeFollowerType ==
  ASSUME NEW s \in NodeState, NEW term \in Term, NEW leader \in Node \cup {Nil}
  PROVE  BecomeFollower(s, term, leader) \in NodeState
<1>1. Larger(term, s.term) \in Term
  BY DEF NodeState, Larger
<1>2. (IF term > s.term THEN Nil ELSE s.vote) \in Node \cup {Nil}
  BY DEF NodeState
<1> QED
  BY <1>1, <1>2 DEF BecomeFollower, NodeState

\* Counting a vote, and BecomeLeaderLocked when it is the last one needed, makes a node state.
LEMMA AfterVotesType ==
  ASSUME NEW s \in NodeState, NEW n \in Node
  PROVE  AfterVotes(n, s) \in NodeState
<1>1. LastLogIndex(s) \in Nat
  BY LastLogIndexType
<1>2. s.noops + 1 \in Nat
  BY DEF NodeState
<1>3. BecomeLeader(n, s) \in NodeState
  <2>1. [p \in Node |-> LastLogIndex(s) + 1] \in [Node -> Nat] /\ [p \in Node |-> 0] \in [Node -> Nat]
    BY <1>1
  <2> QED
    BY <1>2, <2>1 DEF BecomeLeader, NodeState
<1> QED
  BY <1>3 DEF AfterVotes

\* The candidate StartElection makes is a node state.
LEMMA CandidacyType ==
  ASSUME NEW s \in NodeState, NEW n \in Node, MaxTerm \in Nat, s.term < MaxTerm
  PROVE  Candidacy(n, s) \in NodeState
<1>1. s.term + 1 \in Term
  BY NodeFields DEF Term
<1> QED
  BY <1>1 DEF Candidacy, NodeState

\* AdvanceCommitIndexUnlocked makes a node state.
LEMMA AdvanceCommitType ==
  ASSUME SetFacts, NEW s \in NodeState, NEW n \in Node
  PROVE  AdvanceCommitIndex(n, s) \in NodeState
<1> DEFINE C == Committable(n, s)
<1>1. LastLogIndex(s) \in Nat /\ s.commit \in Nat
  BY LastLogIndexType DEF NodeState
<1>2. C \in SUBSET (0 .. LastLogIndex(s))
  BY <1>1 DEF Committable
<1>3. CASE s.role = "Leader" /\ C # {}
  <2> HIDE DEF C
  <2>1. Max(C) \in Nat
    <3>1. C # {} /\ LastLogIndex(s) \in Nat
      BY <1>1, <1>3
    <3>2. Max(C) \in C
      BY <1>2, <3>1, MaxIsMember
    <3>3. Max(C) \in 0 .. LastLogIndex(s)
      BY <1>2, <3>2, Zenon
    <3> QED
      BY <3>1, <3>3
  <2>2. [s EXCEPT !.commit = Max(C)] \in NodeState
    BY <2>1 DEF NodeState
  <2> QED
    BY <1>3, <2>2 DEF AdvanceCommitIndex, C
<1>4. CASE ~(s.role = "Leader" /\ C # {})
  BY <1>4 DEF AdvanceCommitIndex
<1> QED
  BY <1>3, <1>4

\* A node without persisted state is a node state.
LEMMA FreshNodeType ==
  ASSUME MaxTerm \in Nat
  PROVE  FreshNode \in NodeState
<1>1. 0 \in Term
  BY DEF Term
<1> QED
  BY <1>1 DEF FreshNode, NodeState, NoSnapshot, Snapshot

\* The constructor makes a node state of what storage and snapshots hold.
LEMMA RecoveredType ==
  ASSUME NEW d \in DiskState, NEW f \in Snapshot, MaxTerm \in Nat
  PROVE  Recovered(d, f) \in NodeState
<1> DEFINE s == [FreshNode EXCEPT !.term = d.term, !.vote = d.vote, !.log = d.log,
                                  !.snapIndex = d.snapIndex, !.snapTerm = d.snapTerm]
           s1 == [s EXCEPT !.commit = Smaller(Larger(d.commit, d.applied), LastLogIndex(s))]
           s2 == RestoreLogAfterSnapshot(s1, f.index, f.term)
           commit == Larger(s2.commit, f.index)
<1>1. s \in NodeState
  BY FreshNodeType DEF NodeState, DiskState
<1>2. LastLogIndex(s) \in Nat
  BY <1>1, LastLogIndexType
<1>3. Smaller(Larger(d.commit, d.applied), LastLogIndex(s)) \in Nat
  <2> HIDE DEF s
  <2> QED
    BY <1>2 DEF Smaller, Larger, DiskState
<1>4. s1 \in NodeState
  <2> HIDE DEF s
  <2> QED
    BY <1>1, <1>3 DEF NodeState
<1>5. s2 \in NodeState
  <2> HIDE DEF s1
  <2> QED
    BY <1>4, RestoreLogType DEF Snapshot
<1>6. commit \in Nat
  <2> HIDE DEF s2
  <2> QED
    BY <1>5 DEF NodeState, Snapshot, Larger
<1>7. [s2 EXCEPT !.commit = commit, !.applied = commit] \in NodeState
  <2> HIDE DEF s2, commit
  <2> QED
    BY <1>5, <1>6 DEF NodeState
<1> QED
  BY <1>7 DEF Recovered

----------------------------------------------------------------------------
(* Saves and RPCs *)

\* A save keeps the types, whether it succeeds, fails, or is not called.
LEMMA SaveType ==
  ASSUME TypeOK, NEW n \in Node, NEW s \in NodeState
  PROVE  /\ Saved(n, s) => disk' \in [Node -> DiskState]
         /\ NotSaved => disk' \in [Node -> DiskState]
         /\ \A base \in DiskState : SaveFails(n, base, s) => disk' \in [Node -> DiskState]
<1>1. HardState(s) \in DiskState
  BY HardStateType
<1>2. disk \in [Node -> DiskState]
  BY DEF TypeOK
<1> QED
  BY <1>1, <1>2 DEF Saved, NotSaved, SaveFails

\* The kind of an RPC decides the record it is.
LEMMA RpcKinds ==
  ASSUME NEW m \in Rpc
  PROVE  /\ m.kind = "vote" => m \in VoteRequests
         /\ m.kind = "voteReply" => m \in VoteReplies
         /\ m.kind = "append" => m \in AppendRequests
         /\ m.kind = "appendReply" => m \in AppendReplies
         /\ m.kind = "install" => m \in InstallRequests
         /\ m.kind = "installing" => m \in RunningInstalls
         /\ m.kind = "installReply" => m \in InstallReplies
BY DEF Rpc, VoteRequests, VoteReplies, AppendRequests, AppendReplies, InstallRequests,
       RunningInstalls, InstallReplies

\* A request its caller has given up is still an RPC.
LEMMA AbandonedType ==
  ASSUME NEW m \in Rpc
  PROVE  [m EXCEPT !.live = FALSE] \in Rpc
<1>1. m \in VoteRequests => [m EXCEPT !.live = FALSE] \in VoteRequests
  BY DEF VoteRequests
<1>2. m \in VoteReplies => [m EXCEPT !.live = FALSE] \in VoteReplies
  BY DEF VoteReplies
<1>3. m \in AppendRequests => [m EXCEPT !.live = FALSE] \in AppendRequests
  BY DEF AppendRequests
<1>4. m \in AppendReplies => [m EXCEPT !.live = FALSE] \in AppendReplies
  BY DEF AppendReplies
<1>5. m \in InstallRequests => [m EXCEPT !.live = FALSE] \in InstallRequests
  BY DEF InstallRequests
<1>6. m \in RunningInstalls => [m EXCEPT !.live = FALSE] \in RunningInstalls
  BY DEF RunningInstalls
<1>7. m \in InstallReplies => [m EXCEPT !.live = FALSE] \in InstallReplies
  BY DEF InstallReplies
<1> QED
  BY <1>1, <1>2, <1>3, <1>4, <1>5, <1>6, <1>7 DEF Rpc

\* Answering a request replaces it by a typed reply.
LEMMA ReplyType ==
  ASSUME TypeOK, NEW m, NEW r \in Rpc, Reply(m, r)
  PROVE  rpcs' \subseteq Rpc
BY DEF TypeOK, Reply

\* RequestVote is answered with a vote reply.
LEMMA VoteReplyType ==
  ASSUME TypeOK, NEW m \in VoteRequests, NEW term \in Term, NEW granted \in BOOLEAN,
         ReplyVote(m, term, granted)
  PROVE  rpcs' \subseteq Rpc
<1>1. VoteReply(m, term, granted) \in Rpc
  BY DEF VoteReply, VoteReplies, VoteRequests, Rpc
<1>2. CASE Reply(m, VoteReply(m, term, granted))
  BY <1>1, <1>2, ReplyType
<1>3. CASE rpcs' = rpcs \ {m}
  BY <1>3 DEF TypeOK
<1> QED
  BY <1>2, <1>3 DEF ReplyVote

\* AppendEntries is answered with an append reply.
LEMMA AppendReplyType ==
  ASSUME NEW m \in AppendRequests, NEW s \in NodeState, NEW success \in BOOLEAN,
         NEW match \in Nat, NEW hint \in Snapshot
  PROVE  AppendReply(m, s, success, match, hint) \in Rpc
<1>1. LastLogIndex(s) \in Nat /\ s.term \in Term
  BY LastLogIndexType DEF NodeState
<1> QED
  BY <1>1 DEF AppendReply, AppendRequests, AppendReplies, Rpc

\* InstallSnapshot is answered with an install reply.
LEMMA InstallReplyType ==
  ASSUME NEW m \in InstallRequests \cup RunningInstalls, NEW term \in Term,
         NEW success \in BOOLEAN, NEW last \in Nat
  PROVE  InstallReply(m, term, success, last) \in Rpc
BY DEF InstallReply, InstallRequests, RunningInstalls, InstallReplies, Rpc

----------------------------------------------------------------------------
(* One lemma per action *)

\* Stepping down on a reply of a higher term keeps the types.
LEMMA StepDownType ==
  ASSUME TypeOK, NEW n \in Node, NEW term \in Term, StepDownOnHigherTerm(n, term)
  PROVE  node' \in [Node -> NodeState] /\ disk' \in [Node -> DiskState]
<1> DEFINE s == BecomeFollower(node[n], term, Nil)
<1>1. s \in NodeState
  BY BecomeFollowerType DEF TypeOK
<1>2. disk[n] \in DiskState
  BY DEF TypeOK
<1> HIDE DEF s
<1>3. node' = [node EXCEPT ![n] = s] /\ (Saved(n, s) \/ SaveFails(n, disk[n], s))
  BY DEF StepDownOnHigherTerm, s
<1> QED
  BY <1>1, <1>2, <1>3, SaveType DEF TypeOK

\* StartElection keeps the types.
LEMMA StartElectionType ==
  ASSUME TypeOK, NEW n \in Node, StartElection(n)
  PROVE  TypeOK'
<1> DEFINE s == Candidacy(n, node[n])
           c == AfterVotes(n, s)
           M == {[kind |-> "vote", from |-> n, to |-> p, term |-> s.term, live |-> TRUE,
                  lastIndex |-> LastLogIndex(s), lastTerm |-> LastLogTerm(s)] :
                 p \in Reachable(n)}
<1>1. node[n] \in NodeState /\ node[n].term < MaxTerm /\ MaxTerm \in Nat
  BY ClusterAssumption DEF TypeOK, StartElection
<1>2. s \in NodeState
  BY <1>1, CandidacyType
<1> HIDE DEF s
<1>3. c \in NodeState
  BY <1>2, AfterVotesType
<1> HIDE DEF c
<1>4. s.term \in Term /\ LastLogIndex(s) \in Nat /\ LastLogTerm(s) \in Term
  BY <1>2, LastLogIndexType DEF NodeState
<1>5. M \subseteq Rpc
  <2>1. ASSUME NEW p \in Reachable(n)
        PROVE  [kind |-> "vote", from |-> n, to |-> p, term |-> s.term, live |-> TRUE,
                lastIndex |-> LastLogIndex(s), lastTerm |-> LastLogTerm(s)] \in VoteRequests
    <3>1. p \in Node
      BY DEF Reachable
    <3> QED
      BY <1>4, <3>1 DEF VoteRequests
  <2> QED
    BY <2>1, Zenon DEF Rpc
<1> HIDE DEF M
<1>6. CASE /\ Saved(n, s)
           /\ node' = [node EXCEPT ![n] = c]
           /\ ballots' = [ballots EXCEPT ![n][s.term] = n]
           /\ RecordLeader(n, c)
           /\ rpcs' = rpcs \cup M
  <2>1. disk' \in [Node -> DiskState]
    BY <1>2, <1>6, SaveType
  <2>2. node' \in [Node -> NodeState] /\ rpcs' \subseteq Rpc
    BY <1>3, <1>5, <1>6 DEF TypeOK
  <2>3. ballots' \in [Node -> [Term -> Node \cup {Nil}]]
    BY <1>4, <1>6 DEF TypeOK
  <2>4. leaders' \in [Term -> SUBSET Node]
    BY <1>6 DEF RecordLeader, TypeOK
  <2> QED
    BY <2>1, <2>2, <2>3, <2>4 DEF TypeOK, StartElection
<1>7. CASE SaveFails(n, disk[n], s) /\ UNCHANGED <<node, ballots, leaders, rpcs>>
  <2>1. disk' \in [Node -> DiskState]
    BY <1>2, <1>7, SaveType DEF TypeOK
  <2> QED
    BY <1>7, <2>1 DEF TypeOK, StartElection
<1> QED
  BY <1>6, <1>7 DEF StartElection, s, c, M

\* OnRequestVote keeps the types.
LEMMA OnRequestVoteType ==
  ASSUME TypeOK, NEW n \in Node, NEW m \in rpcs, OnRequestVote(n, m)
  PROVE  TypeOK'
<1> DEFINE s == node[n]
           newTerm == m.term > s.term
           s1 == IF newTerm THEN BecomeFollower(s, m.term, Nil) ELSE s
           base == IF newTerm THEN HardState(s1) ELSE disk[n]
           s2 == [s1 EXCEPT !.vote = m.from]
<1>1. m \in VoteRequests /\ m.kind = "vote"
  BY RpcKinds DEF TypeOK, OnRequestVote
<1>2. m.term \in Term /\ m.from \in Node
  BY <1>1 DEF VoteRequests
<1>3. s \in NodeState /\ disk[n] \in DiskState
  BY DEF TypeOK
<1>4. s1 \in NodeState
  BY <1>2, <1>3, BecomeFollowerType
<1>5. base \in DiskState
  BY <1>3, <1>4, HardStateType
<1>6. s2 \in NodeState
  <2> HIDE DEF s1
  <2> QED
    BY <1>2, <1>4 DEF NodeState
<1>7. s.term \in Term /\ s1.term \in Term /\ s2.term \in Term
  <2> HIDE DEF s1, s2
  <2> QED
    BY <1>3, <1>4, <1>6 DEF NodeState
<1>8. /\ \E x \in {s, s1, s2} : node' = [node EXCEPT ![n] = x]
      /\ \/ NotSaved \/ Saved(n, s1) \/ Saved(n, s2)
         \/ SaveFails(n, disk[n], s1) \/ SaveFails(n, base, s2)
      /\ \E t \in {s.term, s1.term, s2.term}, g \in BOOLEAN : ReplyVote(m, t, g)
      /\ ballots' = ballots \/ ballots' = [ballots EXCEPT ![n][m.term] = m.from]
      /\ UNCHANGED <<snapFile, leaders>>
  <2>1. node \in [Node -> NodeState]
    BY DEF TypeOK
  <2>2. node = [node EXCEPT ![n] = s]
    BY <2>1
  <2> HIDE DEF s1, s2, base
  <2> QED
    BY <2>2 DEF OnRequestVote, s1, s2, base
<1> HIDE DEF s1, s2, base
<1>9. node' \in [Node -> NodeState]
  BY <1>3, <1>4, <1>6, <1>8 DEF TypeOK
<1>10. disk' \in [Node -> DiskState]
  BY <1>3, <1>4, <1>5, <1>6, <1>8, SaveType
<1>11. rpcs' \subseteq Rpc
  BY <1>1, <1>7, <1>8, VoteReplyType
<1>12. ballots' \in [Node -> [Term -> Node \cup {Nil}]]
  <2>1. CASE ballots' = ballots
    BY <2>1 DEF TypeOK
  <2>2. CASE ballots' = [ballots EXCEPT ![n][m.term] = m.from]
    BY <1>2, <2>2 DEF TypeOK
  <2> QED
    BY <1>8, <2>1, <2>2
<1> QED
  BY <1>8, <1>9, <1>10, <1>11, <1>12 DEF TypeOK

\* Handling a vote reply keeps the types.
LEMMA OnVoteReplyType ==
  ASSUME TypeOK, NEW n \in Node, NEW m \in rpcs, OnVoteReply(n, m)
  PROVE  TypeOK'
<1> DEFINE s == node[n]
           v == [s EXCEPT !.votes = @ \cup {m.to}]
           c == AfterVotes(n, v)
<1>1. m \in VoteReplies
  BY RpcKinds DEF TypeOK, OnVoteReply
<1>2. m.term \in Term /\ m.to \in Node
  BY <1>1 DEF VoteReplies
<1>3. v \in NodeState
  <2>1. node[n] \in NodeState /\ node[n].votes \cup {m.to} \in SUBSET Node
    BY <1>2 DEF TypeOK, NodeState
  <2> QED
    BY <2>1 DEF NodeState
<1> HIDE DEF v
<1>4. c \in NodeState
  BY <1>3, AfterVotesType
<1> HIDE DEF c
<1>5. rpcs' \subseteq Rpc /\ UNCHANGED <<snapFile, ballots>>
  BY DEF OnVoteReply, TypeOK
<1>6. CASE StepDownOnHigherTerm(n, m.term) /\ UNCHANGED leaders
  <2>1. node' \in [Node -> NodeState] /\ disk' \in [Node -> DiskState]
    BY <1>2, <1>6, StepDownType
  <2> QED
    BY <1>5, <1>6, <2>1 DEF TypeOK
<1>7. CASE node' = [node EXCEPT ![n] = c] /\ RecordLeader(n, c) /\ NotSaved
  <2>1. leaders' \in [Term -> SUBSET Node]
    BY <1>7 DEF RecordLeader, TypeOK
  <2>2. node' \in [Node -> NodeState] /\ disk' = disk
    BY <1>4, <1>7 DEF TypeOK, NotSaved
  <2> QED
    BY <1>5, <2>1, <2>2 DEF TypeOK
<1>8. CASE UNCHANGED <<node, leaders>> /\ NotSaved
  BY <1>5, <1>8 DEF TypeOK, NotSaved
<1> QED
  BY <1>6, <1>7, <1>8 DEF OnVoteReply, c, v

\* AppendLocalLogUnlocked makes a node state with one entry more.
LEMMA AppendLocalLogType ==
  ASSUME TypeOK, NEW n \in Node, NEW s \in NodeState, NEW cmd \in Command,
         AppendLocalLog(n, s, cmd)
  PROVE  node' \in [Node -> NodeState] /\ disk' \in [Node -> DiskState]
<1>1. WithEntry(s, cmd) \in NodeState
  <2>1. [term |-> s.term, cmd |-> cmd] \in Entry /\ s.log \in Seq(Entry)
    BY DEF Entry, NodeState
  <2>2. Append(s.log, [term |-> s.term, cmd |-> cmd]) \in Seq(Entry)
    BY <2>1
  <2> QED
    BY <2>2 DEF WithEntry, NodeState
<1>2. disk[n] \in DiskState
  BY DEF TypeOK
<1> QED
  BY <1>1, <1>2, SaveType DEF AppendLocalLog, TypeOK

\* ProposeNoOpEntry keeps the types.
LEMMA ProposeNoOpEntryType ==
  ASSUME TypeOK, NEW n \in Node, ProposeNoOpEntry(n)
  PROVE  TypeOK'
<1> DEFINE s == [node[n] EXCEPT !.noops = @ - 1]
<1>1. s \in NodeState
  <2>1. node[n] \in NodeState /\ node[n].noops > 0
    BY DEF TypeOK, ProposeNoOpEntry
  <2>2. node[n].noops - 1 \in Nat
    BY <2>1, NodeFields
  <2> QED
    BY <2>1, <2>2 DEF NodeState
<1> HIDE DEF s
<1>2. CASE node' = [node EXCEPT ![n] = s] /\ NotSaved
  BY <1>1, <1>2 DEF TypeOK, NotSaved, ProposeNoOpEntry
<1>3. CASE AppendLocalLog(n, s, NoOp)
  <2>1. node' \in [Node -> NodeState] /\ disk' \in [Node -> DiskState]
    BY <1>1, <1>3, AppendLocalLogType DEF Command
  <2> QED
    BY <2>1 DEF TypeOK, ProposeNoOpEntry
<1> QED
  BY <1>2, <1>3 DEF ProposeNoOpEntry, s

\* Propose keeps the types.
LEMMA ProposeType ==
  ASSUME TypeOK, NEW n \in Node, NEW v \in Submitted[n], Propose(n, v)
  PROVE  TypeOK'
<1>1. v \in Command
  BY ClusterAssumption DEF Command
<1>2. node' \in [Node -> NodeState] /\ disk' \in [Node -> DiskState]
  BY <1>1, AppendLocalLogType DEF Propose, TypeOK
<1> QED
  BY <1>2 DEF TypeOK, Propose

\* Saving an advanced commit index keeps the types.
LEMMA StoreCommitType ==
  ASSUME TypeOK, NEW n \in Node, NEW s \in NodeState, StoreCommit(n, s)
  PROVE  disk' \in [Node -> DiskState]
<1>1. disk[n] \in DiskState
  BY DEF TypeOK
<1> QED
  BY <1>1, SaveType DEF StoreCommit

\* The end of a proposal whose entry reached a majority keeps the types.
LEMMA ProposeReplicatedType ==
  ASSUME SetFacts, TypeOK, NEW n \in Node, NEW c, ProposeReplicated(n, c)
  PROVE  TypeOK'
<1> DEFINE s == AdvanceCommitIndex(n, node[n])
<1>1. s \in NodeState
  BY AdvanceCommitType DEF TypeOK
<1> HIDE DEF s
<1>2. node' = [node EXCEPT ![n] = s] /\ StoreCommit(n, s)
  BY DEF ProposeReplicated, s
<1>3. disk' \in [Node -> DiskState]
  BY <1>1, <1>2, StoreCommitType
<1>4. node' \in [Node -> NodeState]
  BY <1>1, <1>2 DEF TypeOK
<1> QED
  BY <1>3, <1>4 DEF TypeOK, ProposeReplicated

\* ApplyCommittedEntries keeps the types.
LEMMA ApplyCommittedEntriesType ==
  ASSUME TypeOK, NEW n \in Node, ApplyCommittedEntries(n)
  PROVE  TypeOK'
<1> DEFINE s == [node[n] EXCEPT !.applied = @ + 1]
<1>1. s \in NodeState /\ disk[n] \in DiskState
  <2>1. node[n] \in NodeState /\ disk[n] \in DiskState
    BY DEF TypeOK
  <2>2. node[n].applied + 1 \in Nat
    BY <2>1, NodeFields
  <2> QED
    BY <2>1, <2>2 DEF NodeState
<1> HIDE DEF s
<1>2. node' = [node EXCEPT ![n] = s] /\ (Saved(n, s) \/ SaveFails(n, disk[n], s))
  BY DEF ApplyCommittedEntries, s
<1>3. node' \in [Node -> NodeState] /\ disk' \in [Node -> DiskState]
  BY <1>1, <1>2, SaveType DEF TypeOK
<1> QED
  BY <1>3 DEF TypeOK, ApplyCommittedEntries

\* ReplicateOnce sends a well-formed AppendEntries or InstallSnapshot request.
LEMMA ReplicateOnceType ==
  ASSUME TypeOK, NEW n \in Node, NEW p \in Node, ReplicateOnce(n, p)
  PROVE  TypeOK'
<1> DEFINE s == node[n]
           next == NextIndex(s, p)
<1>1. s \in NodeState /\ MaxTerm \in Nat /\ MaxBatch \in Nat
  BY ClusterAssumption DEF TypeOK
<1>2. s.term \in Term /\ s.commit \in Nat /\ s.snapIndex \in Nat /\ s.snapTerm \in Term
      /\ s.next \in [Node -> Nat]
  BY <1>1 DEF NodeState
<1>3. next \in Nat /\ next - 1 \in Nat
  BY <1>1, <1>2, LastLogIndexType, SMTT(60) DEF NextIndex
<1> HIDE DEF s
<1>4. InstallRequest(n, p, s) \in Rpc
  BY <1>2 DEF InstallRequest, InstallRequests, Rpc
<1>5. ASSUME ~NeedsSnapshot(s, next)
      PROVE  AppendRequest(n, p, s) \in Rpc
  <2>1. TermAtIndex(s, next - 1) \in Term
    BY <1>1, <1>3, TermAtIndexType
  <2>2. s.snapIndex < next
    BY <1>2, <1>3, <1>5 DEF NeedsSnapshot
  <2>3. EntriesFrom(s, next, MaxBatch) \in Seq(Entry)
    BY <1>1, <1>3, <2>2, EntriesFromType
  <2>4. AppendRequest(n, p, s) \in AppendRequests
    <3> HIDE DEF next
    <3> DEFINE prev == next - 1
               prevTerm == TermAtIndex(s, prev)
               entries == EntriesFrom(s, next, MaxBatch)
    <3>1. AppendRequest(n, p, s) =
            [kind |-> "append", from |-> n, to |-> p, term |-> s.term, live |-> TRUE,
             prevIndex |-> prev, prevTerm |-> prevTerm, entries |-> entries, commit |-> s.commit]
      BY DEF AppendRequest, next
    <3>2. prev \in Nat /\ prevTerm \in Term /\ entries \in Seq(Entry)
      BY <1>3, <2>1, <2>3
    <3> HIDE DEF prev, prevTerm, entries
    <3> QED
      BY <1>2, <3>1, <3>2 DEF AppendRequests
  <2> QED
    BY <2>4 DEF Rpc
<1>6. \/ rpcs' = rpcs \cup {InstallRequest(n, p, s)}
      \/ ~NeedsSnapshot(s, next) /\ rpcs' = rpcs \cup {AppendRequest(n, p, s)}
  BY DEF ReplicateOnce, s, next
<1> HIDE DEF next
<1>7. rpcs' \subseteq Rpc
  BY <1>4, <1>5, <1>6 DEF TypeOK
<1> QED
  BY <1>7 DEF TypeOK, ReplicateOnce

\* A Replicator that gives up leaves a well-formed request behind, or none.
LEMMA RpcTimeoutType ==
  ASSUME TypeOK, NEW m \in rpcs, RpcTimeout(m)
  PROVE  TypeOK'
<1>1. [m EXCEPT !.live = FALSE] \in Rpc
  BY AbandonedType DEF TypeOK
<1>2. rpcs' \subseteq Rpc
  BY <1>1 DEF RpcTimeout, TypeOK
<1> QED
  BY <1>2 DEF TypeOK, RpcTimeout

\* The sender of an AppendEntries or InstallSnapshot request becomes the leader.
LEMMA FollowSenderType ==
  ASSUME NEW s \in NodeState, NEW m, m.term \in Term, m.from \in Node
  PROVE  FollowSender(s, m) \in NodeState
BY BecomeFollowerType DEF FollowSender

\* OnAppendEntries: every branch leaves a well-formed node, disk and reply.
LEMMA OnAppendEntriesType ==
  ASSUME SetFacts, TypeOK, NEW n \in Node, NEW m \in rpcs, OnAppendEntries(n, m)
  PROVE  TypeOK'
<1> DEFINE s == node[n]
           newTerm == m.term > s.term
           s1 == FollowSender(s, m)
           s2 == [s1 EXCEPT !.log = LogAfterAppend(s1, m.prevIndex, m.entries)]
           s3 == WithLeaderCommit(s2, m)
           newLog == s2.log # s1.log
           newCommit == s3.commit # s2.commit
           match == MatchedUpTo(s2, m)
           base1 == IF newTerm THEN HardState(s1) ELSE disk[n]
           base2 == IF newTerm \/ newLog THEN HardState(s2) ELSE disk[n]
           hint == ConflictHint(s1, m.prevIndex)
<1>1. m \in AppendRequests
  BY RpcKinds DEF TypeOK, OnAppendEntries
<1>2. /\ m.term \in Term /\ m.from \in Node /\ m.prevIndex \in Nat
      /\ m.entries \in Seq(Entry) /\ m.commit \in Nat
  BY <1>1 DEF AppendRequests
<1>3. s \in NodeState /\ disk[n] \in DiskState /\ MaxTerm \in Nat
  BY ClusterAssumption DEF TypeOK
<1> HIDE DEF s
<1>4. s1 \in NodeState
  BY <1>2, <1>3, FollowSenderType
<1>5. s.snapIndex \in Nat /\ s1.snapIndex \in Nat
  <2> HIDE DEF s1
  <2> QED
    BY <1>3, <1>4 DEF NodeState
<1> HIDE DEF s1
<1>6. match \in Nat /\ hint \in Snapshot /\ NoHint \in Snapshot
  <2>1. match \in Nat
    BY <1>2 DEF MatchedUpTo
  <2>2. hint \in Snapshot
    BY <1>2, <1>3, <1>4, ConflictHintType
  <2>3. NoHint \in Snapshot
    BY <1>3 DEF NoHint, Snapshot, Term
  <2> QED
    BY <2>1, <2>2, <2>3
<1> HIDE DEF match, hint
<1>7. ASSUME PrevMatches(s1, m)
      PROVE  s2 \in NodeState
  <2>1. s1.snapIndex <= m.prevIndex /\ m.prevIndex <= LastLogIndex(s1)
    BY <1>7 DEF PrevMatches, HasLogAtIndex
  <2>2. LogAfterAppend(s1, m.prevIndex, m.entries) \in Seq(Entry)
    BY <1>2, <1>4, <2>1, LogAfterAppendType
  <2> QED
    BY <1>4, <2>2 DEF NodeState
<1> HIDE DEF s2
<1>8. ASSUME PrevMatches(s1, m)
      PROVE  s3 \in NodeState
  <2>1. s2 \in NodeState
    BY <1>7, <1>8
  <2>2. LastLogIndex(s2) \in Nat /\ s2.commit \in Nat
    BY <2>1, LastLogIndexType DEF NodeState
  <2>3. Larger(s2.commit, Smaller(m.commit, LastLogIndex(s2))) \in Nat
    BY <1>2, <2>2 DEF Larger, Smaller
  <2> QED
    BY <2>1, <2>3 DEF WithLeaderCommit, NodeState
<1> HIDE DEF s3
<1> DEFINE X == IF PrevMatches(s1, m) THEN {s, s1, s2, s3} ELSE {s, s1}
           B == IF PrevMatches(s1, m) THEN {disk[n], base1, base2} ELSE {disk[n]}
<1>9. X \subseteq NodeState
  BY <1>3, <1>4, <1>7, <1>8
<1>10. B \subseteq DiskState
  <2>1. base1 \in DiskState
    BY <1>3, <1>4, HardStateType
  <2>2. PrevMatches(s1, m) => base2 \in DiskState
    BY <1>3, <1>7, HardStateType
  <2> QED
    BY <1>3, <2>1, <2>2
<1>11. /\ \E x \in X : node' = [node EXCEPT ![n] = x]
       /\ NotSaved \/ (\E x \in X : Saved(n, x)) \/ (\E x \in X, b \in B : SaveFails(n, b, x))
       /\ \E x \in X, ok \in BOOLEAN, i \in {s.snapIndex, s1.snapIndex, match}, h \in {NoHint, hint} :
            Reply(m, AppendReply(m, x, ok, i, h))
       /\ UNCHANGED <<snapFile, ballots, leaders>>
  <2>0. node = [node EXCEPT ![n] = s]
    BY DEF TypeOK, s
  <2>1. CASE /\ m.term < s.term
             /\ Reply(m, AppendReply(m, s, FALSE, s.snapIndex, NoHint))
             /\ NotSaved /\ UNCHANGED node
    BY <2>0, <2>1 DEF OnAppendEntries
  <2>2. CASE /\ newTerm /\ SaveFails(n, disk[n], s1)
             /\ node' = [node EXCEPT ![n] = s1]
             /\ Reply(m, AppendReply(m, s1, FALSE, s1.snapIndex, NoHint))
    BY <2>2 DEF OnAppendEntries
  <2>3. CASE /\ IF newTerm THEN Saved(n, s1) ELSE NotSaved
             /\ node' = [node EXCEPT ![n] = s1]
             /\ Reply(m, AppendReply(m, s1, FALSE, s1.snapIndex, hint))
    BY <2>3 DEF OnAppendEntries
  <2>4. CASE /\ PrevMatches(s1, m) /\ SaveFails(n, base1, s2)
             /\ node' = [node EXCEPT ![n] = s1]
             /\ Reply(m, AppendReply(m, s1, FALSE, match, NoHint))
    <3> HIDE DEF base1, base2
    <3> QED
      BY <2>4 DEF OnAppendEntries
  <2>5. CASE /\ PrevMatches(s1, m) /\ SaveFails(n, base2, s3)
             /\ node' = [node EXCEPT ![n] = s2]
             /\ Reply(m, AppendReply(m, s2, FALSE, match, NoHint))
    <3> HIDE DEF base1, base2
    <3> QED
      BY <2>5 DEF OnAppendEntries
  <2>6. CASE /\ PrevMatches(s1, m)
             /\ IF newTerm \/ newLog \/ newCommit THEN Saved(n, s3) ELSE NotSaved
             /\ node' = [node EXCEPT ![n] = s3]
             /\ Reply(m, AppendReply(m, s3, TRUE, match, NoHint))
    BY <2>6 DEF OnAppendEntries
  <2> HIDE DEF X, B
  <2> QED
    BY <2>1, <2>2, <2>3, <2>4, <2>5, <2>6
      DEF OnAppendEntries, s, s1, s2, s3, match, hint
<1> HIDE DEF X, B
<1>12. node' \in [Node -> NodeState]
  BY <1>9, <1>11 DEF TypeOK
<1>13. disk' \in [Node -> DiskState]
  BY <1>9, <1>10, <1>11, SaveType
<1>14. rpcs' \subseteq Rpc
  <2>1. PICK x \in X, ok \in BOOLEAN, i \in {s.snapIndex, s1.snapIndex, match}, h \in {NoHint, hint} :
          Reply(m, AppendReply(m, x, ok, i, h))
    BY <1>11
  <2>2. x \in NodeState /\ i \in Nat /\ h \in Snapshot
    BY <1>5, <1>6, <1>9
  <2>3. AppendReply(m, x, ok, i, h) \in Rpc
    BY <1>1, <2>2, AppendReplyType
  <2> QED
    BY <2>1, <2>3, ReplyType
<1> QED
  BY <1>11, <1>12, <1>13, <1>14 DEF TypeOK

\* HandleAppendEntriesResponse keeps next_index_ and match_index_ naturals.
LEMMA OnAppendReplyType ==
  ASSUME SetFacts, TypeOK, NEW n \in Node, NEW m \in rpcs, OnAppendReply(n, m)
  PROVE  TypeOK'
<1> DEFINE s == node[n]
           matched == [s EXCEPT !.match[m.to] = Larger(@, m.match),
                                !.next[m.to] = Larger(@, m.match + 1)]
           ok == AdvanceCommitIndex(n, matched)
           back == [s EXCEPT !.next[m.to] = HintedNext(s, @, m.last, m.hint)]
<1>1. m \in AppendReplies
  BY RpcKinds DEF TypeOK, OnAppendReply
<1>2. m.term \in Term /\ m.to \in Node /\ m.match \in Nat /\ m.last \in Nat /\ m.hint \in Snapshot
  BY <1>1 DEF AppendReplies
<1>3. s \in NodeState
  BY DEF TypeOK
<1>4. s.match \in [Node -> Nat] /\ s.next \in [Node -> Nat]
  BY <1>3 DEF NodeState
<1> HIDE DEF s
<1>5. matched \in NodeState
  <2>1. /\ [s.match EXCEPT ![m.to] = Larger(s.match[m.to], m.match)] \in [Node -> Nat]
        /\ [s.next EXCEPT ![m.to] = Larger(s.next[m.to], m.match + 1)] \in [Node -> Nat]
    BY <1>2, <1>4 DEF Larger
  <2> QED
    BY <1>3, <2>1 DEF NodeState
<1> HIDE DEF matched
<1>6. ok \in NodeState
  BY <1>5, AdvanceCommitType
<1> HIDE DEF ok
<1>7. back \in NodeState
  <2>1. HintedNext(s, s.next[m.to], m.last, m.hint) \in Nat
    BY <1>2, <1>3, <1>4, HintedNextType
  <2>2. [s.next EXCEPT ![m.to] = HintedNext(s, s.next[m.to], m.last, m.hint)] \in [Node -> Nat]
    BY <1>2, <1>4, <2>1
  <2> QED
    BY <1>3, <2>2 DEF NodeState
<1> HIDE DEF back
<1>8. rpcs' \subseteq Rpc /\ UNCHANGED <<snapFile, ballots, leaders>>
  BY DEF OnAppendReply, TypeOK
<1>9. \/ StepDownOnHigherTerm(n, m.term)
      \/ NotSaved /\ UNCHANGED node
      \/ node' = [node EXCEPT ![n] = ok] /\ StoreCommit(n, ok)
      \/ node' = [node EXCEPT ![n] = back] /\ NotSaved
  BY DEF OnAppendReply, s, matched, ok, back
<1>10. node' \in [Node -> NodeState] /\ disk' \in [Node -> DiskState]
  <2>1. CASE StepDownOnHigherTerm(n, m.term)
    BY <1>2, <2>1, StepDownType
  <2>2. CASE NotSaved /\ UNCHANGED node
    BY <2>2 DEF NotSaved, TypeOK
  <2>3. CASE node' = [node EXCEPT ![n] = ok] /\ StoreCommit(n, ok)
    BY <1>6, <2>3, StoreCommitType DEF TypeOK
  <2>4. CASE node' = [node EXCEPT ![n] = back] /\ NotSaved
    BY <1>7, <2>4 DEF NotSaved, TypeOK
  <2> QED
    BY <1>9, <2>1, <2>2, <2>3, <2>4
<1> QED
  BY <1>8, <1>10 DEF TypeOK

\* A published snapshot has an index and a term.
LEMMA NewerType ==
  ASSUME NEW f \in Snapshot, NEW index \in Nat, NEW term \in Term
  PROVE  Newer(f, index, term) \in Snapshot
BY DEF Newer, Snapshot

\* SnapshotWorkerLoop up to the unlock: the published snapshot is well formed.
LEMMA SaveSnapshotType ==
  ASSUME TypeOK, NEW n \in Node, SaveSnapshot(n)
  PROVE  TypeOK'
<1> DEFINE s == node[n]
           job == SnapshotPoint(s)
<1>1. s \in NodeState /\ snapFile[n] \in Snapshot /\ MaxTerm \in Nat
  BY ClusterAssumption DEF TypeOK
<1>2. s.applied \in Nat
  BY <1>1 DEF NodeState
<1>3. TermAtIndex(s, s.applied) \in Term
  BY <1>1, <1>2, TermAtIndexType
<1>4. job \in Snapshot /\ job.index \in Nat /\ job.term \in Term
  BY <1>2, <1>3 DEF SnapshotPoint, Snapshot
<1>5. /\ node' = [node EXCEPT ![n].job = job]
      /\ snapFile' = [snapFile EXCEPT ![n] = Newer(snapFile[n], job.index, job.term)]
      /\ UNCHANGED <<disk, rpcs, ballots, leaders>>
  BY DEF SaveSnapshot
<1> HIDE DEF job
<1>6. [s EXCEPT !.job = job] \in NodeState
  BY <1>1, <1>4 DEF NodeState
<1>7. node' \in [Node -> NodeState]
  BY <1>5, <1>6 DEF TypeOK
<1>8. Newer(snapFile[n], job.index, job.term) \in Snapshot
  BY <1>1, <1>4, NewerType
<1>9. snapFile' \in [Node -> Snapshot]
  BY <1>5, <1>8 DEF TypeOK
<1> QED
  BY <1>5, <1>7, <1>9 DEF TypeOK

\* SnapshotWorkerLoop after the snapshot is published: the compacted log.
LEMMA CompactAfterSnapshotType ==
  ASSUME TypeOK, NEW n \in Node, CompactAfterSnapshot(n)
  PROVE  TypeOK'
<1> DEFINE job == node[n].job
           s == [node[n] EXCEPT !.job = NoSnapshot]
           s1 == RestoreLogAfterSnapshot(s, job.index, job.term)
<1>1. node[n] \in NodeState /\ disk[n] \in DiskState /\ NoSnapshot \in Snapshot
  BY ClusterAssumption DEF TypeOK, NoSnapshot, Snapshot, Term
<1>2. job.index \in Nat /\ job.term \in Term
  BY <1>1 DEF NodeState, Snapshot
<1>3. s \in NodeState
  BY <1>1 DEF NodeState
<1> HIDE DEF s, job
<1>4. s1 \in NodeState
  BY <1>2, <1>3, RestoreLogType
<1> HIDE DEF s1
<1>5. /\ node' = [node EXCEPT ![n] = s1]
      /\ Saved(n, s1) \/ SaveFails(n, disk[n], s1) \/ NotSaved
      /\ UNCHANGED <<snapFile, rpcs, ballots, leaders>>
  BY DEF CompactAfterSnapshot, s, s1, job
<1>6. node' \in [Node -> NodeState]
  BY <1>4, <1>5 DEF TypeOK
<1>7. disk' \in [Node -> DiskState]
  BY <1>1, <1>4, <1>5, SaveType
<1> QED
  BY <1>5, <1>6, <1>7 DEF TypeOK

\* OnInstallSnapshot up to the published snapshot file.
LEMMA OnInstallSnapshotType ==
  ASSUME TypeOK, NEW n \in Node, NEW m \in rpcs, OnInstallSnapshot(n, m)
  PROVE  TypeOK'
<1> DEFINE s == node[n]
           s1 == FollowSender(s, m)
           last == LastLogIndex(s)
           run == [kind |-> "installing", from |-> m.from, to |-> n, term |-> m.term,
                   live |-> m.live, index |-> m.index, snapTerm |-> m.snapTerm, last |-> last]
           f == Newer(snapFile[n], m.index, m.snapTerm)
<1>1. m \in InstallRequests
  BY RpcKinds DEF TypeOK, OnInstallSnapshot
<1>2. /\ m.term \in Term /\ m.from \in Node /\ m.index \in Nat /\ m.snapTerm \in Term
      /\ m.live \in BOOLEAN
  BY <1>1 DEF InstallRequests
<1>3. s \in NodeState /\ disk[n] \in DiskState /\ snapFile[n] \in Snapshot
  BY DEF TypeOK
<1> HIDE DEF s
<1>4. s1 \in NodeState
  BY <1>2, <1>3, FollowSenderType
<1> HIDE DEF s1
<1>5. last \in Nat /\ s.term \in Term /\ s1.term \in Term
  BY <1>3, <1>4, LastLogIndexType DEF NodeState
<1> HIDE DEF last
<1>6. run \in Rpc
  BY <1>2, <1>5 DEF RunningInstalls, Rpc
<1> HIDE DEF run
<1>7. f \in Snapshot
  BY <1>2, <1>3, NewerType
<1> HIDE DEF f
<1>8. /\ \E x \in {s, s1} : node' = [node EXCEPT ![n] = x]
      /\ NotSaved \/ Saved(n, s1) \/ SaveFails(n, disk[n], s1)
      /\ \/ rpcs' = (rpcs \ {m}) \cup {run}
         \/ \E t \in {s.term, s1.term}, ok \in BOOLEAN : Reply(m, InstallReply(m, t, ok, last))
      /\ snapFile' = snapFile \/ snapFile' = [snapFile EXCEPT ![n] = f]
      /\ UNCHANGED <<ballots, leaders>>
  <2>1. node = [node EXCEPT ![n] = s]
    BY DEF TypeOK, s
  <2> QED
    BY <2>1 DEF OnInstallSnapshot, s, s1, last, run, f
<1>9. node' \in [Node -> NodeState]
  BY <1>3, <1>4, <1>8 DEF TypeOK
<1>10. disk' \in [Node -> DiskState]
  BY <1>3, <1>4, <1>8, SaveType
<1>11. rpcs' \subseteq Rpc
  <2>1. CASE rpcs' = (rpcs \ {m}) \cup {run}
    BY <1>6, <2>1 DEF TypeOK
  <2>2. CASE \E t \in {s.term, s1.term}, ok \in BOOLEAN : Reply(m, InstallReply(m, t, ok, last))
    <3>1. \A t \in {s.term, s1.term}, ok \in BOOLEAN : InstallReply(m, t, ok, last) \in Rpc
      BY <1>1, <1>5, InstallReplyType
    <3> QED
      BY <2>2, <3>1, ReplyType
  <2> QED
    BY <1>8, <2>1, <2>2
<1>12. snapFile' \in [Node -> Snapshot]
  BY <1>7, <1>8 DEF TypeOK
<1> QED
  BY <1>8, <1>9, <1>10, <1>11, <1>12 DEF TypeOK

\* OnInstallSnapshot after the snapshot file: the restored log.
LEMMA FinishInstallSnapshotType ==
  ASSUME TypeOK, NEW n \in Node, NEW m \in rpcs, FinishInstallSnapshot(n, m)
  PROVE  TypeOK'
<1> DEFINE s == node[n]
           s1 == RestoreLogAfterSnapshot(s, m.index, m.snapTerm)
<1>1. m \in RunningInstalls
  BY RpcKinds DEF TypeOK, FinishInstallSnapshot
<1>2. m.index \in Nat /\ m.term \in Term /\ m.snapTerm \in Term /\ m.last \in Nat
  BY <1>1 DEF RunningInstalls
<1>3. s \in NodeState /\ disk[n] \in DiskState
  BY DEF TypeOK
<1> HIDE DEF s
<1>4. s1 \in NodeState
  BY <1>2, <1>3, RestoreLogType
<1> HIDE DEF s1
<1>5. s.term \in Term /\ s1.term \in Term /\ LastLogIndex(s1) \in Nat
  BY <1>3, <1>4, LastLogIndexType DEF NodeState
<1>6. /\ \E x \in {s, s1} : node' = [node EXCEPT ![n] = x]
      /\ NotSaved \/ Saved(n, s1) \/ SaveFails(n, disk[n], s1)
      /\ \E t \in {m.term, s.term, s1.term}, ok \in BOOLEAN, i \in {m.last, LastLogIndex(s1)} :
           Reply(m, InstallReply(m, t, ok, i))
      /\ UNCHANGED <<snapFile, ballots, leaders>>
  <2>1. node = [node EXCEPT ![n] = s]
    BY DEF TypeOK, s
  <2> QED
    BY <2>1 DEF FinishInstallSnapshot, s, s1
<1>7. node' \in [Node -> NodeState]
  BY <1>3, <1>4, <1>6 DEF TypeOK
<1>8. disk' \in [Node -> DiskState]
  BY <1>3, <1>4, <1>6, SaveType
<1>9. rpcs' \subseteq Rpc
  <2>1. \A t \in {m.term, s.term, s1.term}, ok \in BOOLEAN, i \in {m.last, LastLogIndex(s1)} :
          InstallReply(m, t, ok, i) \in Rpc
    BY <1>1, <1>2, <1>5, InstallReplyType
  <2> QED
    BY <1>6, <2>1, ReplyType
<1> QED
  BY <1>6, <1>7, <1>8, <1>9 DEF TypeOK

\* The end of SendInstallSnapshotToPeer keeps next_index_ and match_index_ naturals.
LEMMA OnInstallReplyType ==
  ASSUME TypeOK, NEW n \in Node, NEW m \in rpcs, OnInstallReply(n, m)
  PROVE  TypeOK'
<1> DEFINE s == node[n]
           done == [s EXCEPT !.match[m.to] = Larger(@, m.index),
                             !.next[m.to] = Larger(@, m.index + 1)]
           back == [s EXCEPT !.next[m.to] = m.last + 1]
<1>1. m \in InstallReplies
  BY RpcKinds DEF TypeOK, OnInstallReply
<1>2. m.term \in Term /\ m.to \in Node /\ m.index \in Nat /\ m.last \in Nat
  BY <1>1 DEF InstallReplies
<1>3. s \in NodeState
  BY DEF TypeOK
<1>4. s.match \in [Node -> Nat] /\ s.next \in [Node -> Nat]
  BY <1>3 DEF NodeState
<1> HIDE DEF s
<1>5. done \in NodeState
  <2>1. /\ [s.match EXCEPT ![m.to] = Larger(s.match[m.to], m.index)] \in [Node -> Nat]
        /\ [s.next EXCEPT ![m.to] = Larger(s.next[m.to], m.index + 1)] \in [Node -> Nat]
    <3>1. Larger(s.match[m.to], m.index) \in Nat /\ Larger(s.next[m.to], m.index + 1) \in Nat
      BY <1>2, <1>4 DEF Larger
    <3> QED BY <1>2, <1>4, <3>1
  <2> QED
    BY <1>3, <2>1 DEF NodeState
<1>6. back \in NodeState
  <2>1. [s.next EXCEPT ![m.to] = m.last + 1] \in [Node -> Nat]
    BY <1>2, <1>4
  <2> QED
    BY <1>3, <2>1 DEF NodeState
<1> HIDE DEF done, back
<1>7. rpcs' \subseteq Rpc /\ UNCHANGED <<snapFile, ballots, leaders>>
  BY DEF OnInstallReply, TypeOK
<1>8. \/ StepDownOnHigherTerm(n, m.term)
      \/ NotSaved /\ (node' = node \/ \E x \in {done, back} : node' = [node EXCEPT ![n] = x])
  BY DEF OnInstallReply, s, done, back
<1>9. node' \in [Node -> NodeState] /\ disk' \in [Node -> DiskState]
  <2>1. CASE StepDownOnHigherTerm(n, m.term)
    BY <1>2, <2>1, StepDownType
  <2>2. CASE NotSaved /\ (node' = node \/ \E x \in {done, back} : node' = [node EXCEPT ![n] = x])
    BY <1>5, <1>6, <2>2 DEF NotSaved, TypeOK
  <2> QED
    BY <1>8, <2>1, <2>2
<1> QED
  BY <1>7, <1>9 DEF TypeOK

\* The constructor of RaftNode builds a well-formed node from any disk.
LEMMA CrashRestartType ==
  ASSUME TypeOK, NEW n \in Node, CrashRestart(n)
  PROVE  TypeOK'
<1> DEFINE s == Recovered(disk[n], snapFile[n])
           Ended(m) == \/ m.from = n /\ ~IsRequest(m)
                       \/ m.to = n /\ m.kind = "installing"
           Left == {r \in rpcs : ~Ended(r)}
<1>1. s \in NodeState
  BY ClusterAssumption, RecoveredType DEF TypeOK
<1>2. HardState(s) \in DiskState
  BY <1>1, HardStateType
<1>3. /\ node' = [node EXCEPT ![n] = s] /\ disk' = [disk EXCEPT ![n] = HardState(s)]
      /\ rpcs' = {IF m.from = n THEN [m EXCEPT !.live = FALSE] ELSE m : m \in Left}
      /\ UNCHANGED <<snapFile, ballots, leaders>>
  BY DEF CrashRestart
<1> HIDE DEF s
<1>4. \A m \in Left : (IF m.from = n THEN [m EXCEPT !.live = FALSE] ELSE m) \in Rpc
  BY AbandonedType DEF TypeOK
<1> HIDE DEF Left
<1>5. rpcs' \subseteq Rpc
  BY <1>3, <1>4, Zenon
<1>6. node' \in [Node -> NodeState] /\ disk' \in [Node -> DiskState]
  BY <1>1, <1>2, <1>3 DEF TypeOK
<1> QED
  BY <1>3, <1>5, <1>6 DEF TypeOK

----------------------------------------------------------------------------

\* A fresh cluster is well typed.
LEMMA InitType == Init => TypeOK
<1> SUFFICES ASSUME Init PROVE TypeOK
  OBVIOUS
<1>1. MaxTerm \in Nat /\ 0 \in Term
  BY ClusterAssumption DEF Term
<1>2. FreshNode \in NodeState
  BY <1>1, FreshNodeType
<1>3. HardState(FreshNode) \in DiskState
  BY <1>2, HardStateType
<1>4. NoSnapshot \in Snapshot
  BY <1>1 DEF NoSnapshot, Snapshot
<1> QED
  BY <1>2, <1>3, <1>4 DEF Init, TypeOK

\* Every critical section of RaftNode and Replicator keeps the types.
LEMMA NextType ==
  ASSUME SetFacts
  PROVE  TypeOK /\ [Next]_vars => TypeOK'
<1> SUFFICES ASSUME TypeOK, [Next]_vars PROVE TypeOK'
  OBVIOUS
<1>1. CASE UNCHANGED vars
  BY <1>1 DEF vars, TypeOK
<1>2. ASSUME NEW n \in Node, NEW c \in calls, ProposeDone(n, c)
      PROVE  TypeOK'
  BY <1>2 DEF ProposeDone, TypeOK
<1> QED
  BY <1>1, <1>2, StartElectionType, OnRequestVoteType, OnVoteReplyType, ProposeNoOpEntryType,
     ProposeType, ProposeReplicatedType, ApplyCommittedEntriesType, ReplicateOnceType,
     RpcTimeoutType, OnAppendEntriesType, OnAppendReplyType, SaveSnapshotType,
     CompactAfterSnapshotType, OnInstallSnapshotType, FinishInstallSnapshotType,
     OnInstallReplyType, CrashRestartType DEF Next

============================================================================
