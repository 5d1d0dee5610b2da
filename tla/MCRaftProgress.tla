--------------------------- MODULE MCRaftProgress ---------------------------
(***************************************************************************)
(* RaftProgress after changes of leaders.  n1 led term 1 and appended      *)
(* entries of which n2 and n3 hold some.  n2 may have led term 2 and       *)
(* appended its no-op; it leads term 3 now, with n3's vote; n1 has been    *)
(* restarted.  What follows is n2's leadership: no timer fires.            *)
(***************************************************************************)
EXTENDS RaftProgress

CONSTANTS n1, n2, n3, v1, v2

Old(k) == [i \in 1 .. k |-> [term |-> 1, cmd |-> v1]]

\* n2 and n3 hold the first entries (common) of n1's log, n1 has extra ones; n2
\* has own entries of term 2; with snap, n2 has committed the no-op of term 3,
\* its first entry, compacted its log and taken a command (more) or not, whose
\* client has given up.
Takeover(common, extra, own, snap, more) ==
  LET noop(t) == [term |-> t, cmd |-> NoOp]
      base == [FreshNode EXCEPT !.term = 3, !.log = Old(common)]
      new == BecomeLeader(n2, [base EXCEPT !.vote = n2, !.log = @ \o [i \in 1 .. own |-> noop(2)]])
      led == IF ~snap THEN new
             ELSE [new EXCEPT !.snapIndex = 1, !.snapTerm = 3, !.commit = 1, !.applied = 1,
                              !.log = [i \in 1 .. more |-> [term |-> 3, cmd |-> v2]],
                              !.noops = 0, !.match[n3] = 1, !.next[n3] = 2]
      other == [base EXCEPT !.vote = n2, !.leader = IF snap THEN n2 ELSE Nil,
                            !.log = IF snap THEN <<noop(3)>> ELSE @]
  IN  /\ node = [n \in Node |-> CASE n = n1 -> [base EXCEPT !.term = 1, !.vote = n1,
                                                              !.log = Old(common + extra)]
                                  [] n = n2 -> led
                                  [] OTHER -> other]
      /\ disk = [n \in Node |-> HardState(node[n])]
      /\ snapFile = [n \in Node |-> IF snap /\ n = n2 THEN [index |-> 1, term |-> 3] ELSE NoSnapshot]
      /\ chosen = IF snap THEN <<[entry |-> noop(3), at |-> 3]>> ELSE <<>>
      /\ leaders = [t \in Term |-> CASE t = 1 -> {n1} [] t = 2 /\ own > 0 -> {n2}
                                     [] t = 3 -> {n2} [] OTHER -> {}]
      /\ ballots = [n \in Node |->
                     [t \in Term |-> CASE t = 1 /\ n # n2 -> n1
                                       [] t = 2 /\ n # n1 /\ own > 0 -> n2
                                       [] t = 3 /\ n # n1 -> n2 [] OTHER -> Nil]]
  /\ rpcs = {} /\ calls = {} /\ acks = {} /\ faults = 0 /\ crashes = 0 /\ snapshots = 0

\* Without a snapshot and with one; n1's log goes past the end of n2's or not.
AfterTakeover ==
  \/ \E common \in 0 .. 1, extra \in {0, 2}, own \in 0 .. 1 : Takeover(common, extra, own, FALSE, 0)
  \/ \E extra \in {0, 1, 3}, more \in 0 .. 1 : Takeover(0, extra, 0, TRUE, more)

CatchUpSpec == AfterTakeover /\ [][Next]_vars /\ Fairness

Nobody == [n \in Node |-> {}]
ViaN2 == {{n1, n2}, {n2, n3}}
NoClients == [n \in Node |-> {}]
NoneApplied == [n \in Node |-> 0]
=============================================================================
