---------------------------- MODULE RaftProofs -----------------------------
(***************************************************************************)
(* The theorems about the cluster.  The lemmas of the modules it extends   *)
(* say of every step that it keeps an invariant, given the facts about     *)
(* finite sets and natural numbers that SetFacts lists.  Those facts are   *)
(* derived here, and each invariant is carried along the behaviours of     *)
(* Spec.                                                                   *)
(***************************************************************************)
EXTENDS RaftSnapshotProofs, RaftElectionProofs, FiniteSetTheorems, WellFoundedInduction

\* Two vote or replication quorums share a node.
LEMMA QuorumsMeet ==
  ASSUME NEW P \in SUBSET Node, NEW Q \in SUBSET Node, IsQuorum(P), IsQuorum(Q)
  PROVE  P \cap Q # {}
<1>1. IsFiniteSet(Node)
  BY ClusterAssumption
<1>2. IsFiniteSet(P) /\ IsFiniteSet(Q) /\ IsFiniteSet(P \cup Q)
  BY <1>1, FS_Subset, FS_Union
<1>3. /\ Cardinality(Node) \in Nat /\ Cardinality(P) \in Nat /\ Cardinality(Q) \in Nat
  BY <1>1, <1>2, FS_CardinalityType
<1>4. Cardinality(P \cup Q) <= Cardinality(Node)
  BY <1>1, FS_Subset
<1>5. Cardinality(P \cup Q) = Cardinality(P) + Cardinality(Q) - Cardinality(P \cap Q)
  BY <1>2, FS_Union
<1>6. Cardinality(P) + Cardinality(Q) > Cardinality(Node)
  BY <1>3 DEF IsQuorum
<1>7. ASSUME P \cap Q = {} PROVE FALSE
  <2>1. Cardinality(P \cap Q) = 0
    BY <1>7, FS_EmptySet
  <2> QED
    BY <1>3, <1>4, <1>5, <1>6, <2>1
<1> QED
  BY <1>7

\* A set that contains a quorum is one (votes are only added to).
LEMMA QuorumGrows ==
  ASSUME NEW P \in SUBSET Node, NEW Q \in SUBSET Node, IsQuorum(P), P \subseteq Q
  PROVE  IsQuorum(Q)
<1>1. IsFiniteSet(Q)
  BY ClusterAssumption, FS_Subset
<1>2. Cardinality(P) <= Cardinality(Q) /\ IsFiniteSet(P)
  BY <1>1, FS_Subset
<1>3. Cardinality(P) \in Nat /\ Cardinality(Q) \in Nat /\ Cardinality(Node) \in Nat
  BY <1>1, <1>2, ClusterAssumption, FS_CardinalityType
<1> QED
  BY <1>2, <1>3 DEF IsQuorum

\* A nonempty set of naturals has a least member.
LEMMA LeastMember ==
  ASSUME NEW S \in SUBSET Nat, S # {}
  PROVE  \E x \in S : \A y \in S : x <= y
<1> DEFINE Less == {ss \in Nat \X Nat : ss[1] < ss[2]}
<1>1. IsWellFoundedOn(Less, Nat)
  BY NatLessThanWellFounded DEF OpToRel
<1>2. \A x, y \in Nat : y < x => <<y, x>> \in Less
  OBVIOUS
<1> HIDE DEF Less
<1>3. \E x \in S : \A y \in S : ~(<<y, x>> \in Less)
  BY <1>1, WFMin
<1>4. \E x \in S : \A y \in S : ~(y < x)
  BY <1>2, <1>3
<1> QED
  BY <1>4

\* The hypothesis of the step lemmas.
LEMMA SetFactsHold == SetFacts
<1>1. \A Q \in SUBSET Node : Cardinality(Q) \in Nat
  BY ClusterAssumption, FS_Subset, FS_CardinalityType
<1>2. Cardinality({}) = 0 /\ \A n \in Node : Cardinality({n}) = 1
  BY FS_EmptySet, FS_Singleton
<1> QED
  BY <1>1, <1>2, QuorumsMeet, QuorumGrows, LeastMember DEF SetFacts

----------------------------------------------------------------------------

\* Whatever is lost, late, unsaved or restarted, the members of RaftNode, the
\* hard state on disk, the snapshots and the RPCs keep their types: terms stay
\* below the bound, indexes never go below zero (next_index_ - 1, off-by-ones
\* of LogIndexToOffset), logs are sequences without holes.
THEOREM TypeCorrect == Spec => []TypeOK
<1>1. Init => TypeOK
  BY InitType
<1>2. TypeOK /\ [Next]_vars => TypeOK'
  BY NextType, SetFactsHold
<1> QED
  BY <1>1, <1>2, PTL DEF Spec

\* The invariant behind the two theorems below.
LEMMA SnapshotInvariance == Spec => []SnapshotInv
<1>1. Init => SnapshotInv
  BY InitSnapshot
<1>2. SnapshotInv /\ [Next]_vars => SnapshotInv'
  BY NextSnapshot, SetFactsHold
<1> QED
  BY <1>1, <1>2, PTL DEF Spec

\* Whatever crashes and whatever saves fail, the snapshots on a node's disk reach
\* as far as the entries its log on disk has dropped: SnapshotWorkerLoop and
\* OnInstallSnapshot publish the directory before the log is compacted.
THEOREM SnapshotsCoverLogs == Spec => []SnapshotCoversLog
<1>1. SnapshotInv => SnapshotCoversLog
  BY DEF SnapshotInv, SnapshotCoversLog
<1> QED
  BY <1>1, SnapshotInvariance, PTL

\* In memory the marker of the log never passes last_applied_, and last_applied_
\* never passes commit_index_, also after installs and restarts
\* (RestoreLogAfterSnapshotLocked, ApplyCommittedEntries, the constructor).
THEOREM AppliedInOrder ==
  Spec => [](\A n \in Node : /\ node[n].snapIndex <= node[n].applied
                             /\ node[n].applied <= node[n].commit)
<1>1. SnapshotInv => \A n \in Node : /\ node[n].snapIndex <= node[n].applied
                                     /\ node[n].applied <= node[n].commit
  BY DEF SnapshotInv, Covered
<1> QED
  BY <1>1, SnapshotInvariance, PTL

\* The invariant behind both theorems below.
LEMMA ElectionInvariance == Spec => []ElectionInv
<1>1. Init => ElectionInv
  BY InitElection
<1>2. ElectionInv /\ [Next]_vars => ElectionInv'
  BY NextElection, SetFactsHold
<1> QED
  BY <1>1, <1>2, PTL DEF Spec

\* No node ever forgets a vote, in memory or on disk, whatever saves fail and
\* whenever it crashes: the vote of StartElection and OnRequestVote is saved
\* before anyone hears of it.
THEOREM VotesRemembered == Spec => []PromiseKept
<1>1. ElectionInv => PromiseKept
  BY DEF ElectionInv
<1> QED
  BY <1>1, ElectionInvariance, PTL

\* Every vote a candidate has counted and every grant on its way is a ballot
\* that was cast, and a majority of ballots stands behind every leader.
THEOREM VotesCounted == Spec => []VotesBacked
<1>1. ElectionInv => VotesBacked
  BY DEF ElectionInv
<1> QED
  BY <1>1, ElectionInvariance, PTL

\* At most one node becomes leader in a term, in a cluster of any size, for any
\* number of crashes, failed saves, lost and late RPCs (StartElection,
\* OnRequestVote, OnElectionWon).
THEOREM OneLeaderPerTerm == Spec => []ElectionSafety
<1>1. ElectionInv => ElectionSafety
  BY BackedLeadersAgree, SetFactsHold
<1> QED
  BY <1>1, ElectionInvariance, PTL

\* The cluster implements Election: StartElection, OnRequestVote and
\* OnElectionWon vote once per term, never behind an earlier vote, and make one
\* leader per term with a majority, across crashes and failed saves.
THEOREM RaftImplementsElection == Spec => ImplementsElection
<1>1. Init => Record!Init
  BY DEF Init, Record!Init
<1>2. ElectionInv /\ ElectionInv' /\ [Next]_vars => [Record!Next]_<<ballots, leaders>>
  BY NextRecorded, SetFactsHold
<1> QED
  BY <1>1, <1>2, ElectionInvariance, PTL DEF Spec, ImplementsElection, Record!Spec
============================================================================
