--------------------------- MODULE MCRaftCluster ---------------------------
(***************************************************************************)
(* RaftCluster on small instances.  The cfg files choose one of the        *)
(* Electable bounds below: two nodes that compete in the first term and    *)
(* overtake each other later, or leaders that alternate in a fixed order,  *)
(* which keeps longer histories in reach.                                  *)
(***************************************************************************)
EXTENDS RaftCluster, TLC

CONSTANTS n1, n2, n3, v1, v2

Alternating == [n \in Node |-> CASE n = n1 -> {1, 3} [] n = n2 -> {2, 4} [] OTHER -> {}]

ViaN2 == {{n1, n2}, {n2, n3}}
ViaN3 == {{n1, n3}, {n2, n3}}
ViaN1 == {{n1, n2}, {n1, n3}}

NoClients == [n \in Node |-> {}]
AskN1 == [n \in Node |-> IF n = n1 THEN {v1} ELSE {}]

NoneApplied == [n \in Node |-> 0]
N1Applies == [n \in Node |-> IF n = n1 THEN MaxLog ELSE 0]

Overtaking == [n \in Node |-> CASE n = n1 -> {1, 3} [] n = n2 -> {1, 2, 4} [] OTHER -> {}]

\* A bound: at most one of a failed save, a crash and a client's command, and
\* logs of one entry once there is a command.
Commands ==
  {c.cmd : c \in calls \cup acks} \cup UNION {{e.cmd : e \in Range(node[n].log)} : n \in Node}

OneDisturbance ==
  /\ faults + crashes + Cardinality(Value \cap Commands) <= 1
  /\ Value \cap Commands # {} => \A n \in Node : LastLogIndex(node[n]) <= 1

\* A bound: at most one of a crash and a request that outlives its caller's wait.
LateOrCrash == crashes + Cardinality({m \in rpcs : ~m.live}) <= 1

\* The view TLC identifies states by leaves out what no step reads again: votes
\* outside an election, next and match outside leadership, and vote replies
\* their caller will drop.
Settled(s) ==
  LET zero == [p \in Node |-> 0] IN
  [s EXCEPT !.votes = IF s.role = "Candidate" THEN @ ELSE {},
            !.next = IF s.role = "Leader" THEN @ ELSE zero,
            !.match = IF s.role = "Leader" THEN @ ELSE zero]

Unread(m) ==
  LET s == node[m.from] IN
  /\ m.kind = "voteReply" /\ m.term <= s.term
  /\ ~(s.role = "Candidate" /\ s.term = m.reqTerm /\ m.to \notin s.votes)

View ==
  <<[n \in Node |-> Settled(node[n])], disk, snapFile, {m \in rpcs : ~Unread(m)}, calls, acks,
    faults, crashes, snapshots, ballots, leaders, chosen>>
============================================================================
