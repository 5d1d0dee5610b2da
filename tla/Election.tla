------------------------------ MODULE Election -----------------------------
(***************************************************************************)
(* What elections promise, whatever happens to messages, disks and nodes:  *)
(* a node votes once in a term and never in a term older than one it voted *)
(* in, a ballot is never taken back, and a term has at most one leader,    *)
(* for whom a majority voted.                                              *)
(***************************************************************************)
EXTENDS Integers, FiniteSets

CONSTANTS Node, Term, Nil

VARIABLES
  ballots,   \* ballots[n][t]: the candidate n voted for in term t
  leaders    \* leaders[t]: the leader elected in term t, if any

Majority(Q) == 2 * Cardinality(Q) > Cardinality(Node)

Init ==
  /\ ballots = [n \in Node |-> [t \in Term |-> Nil]]
  /\ leaders = [t \in Term |-> {}]

\* n votes for c, in a term above all the terms it voted in.
Vote(n, t, c) ==
  /\ \A u \in Term : u >= t => ballots[n][u] = Nil
  /\ ballots' = [ballots EXCEPT ![n][t] = c]

\* c is elected; its own vote may be the one that completes the majority.
Elect(c, t) ==
  /\ leaders[t] \subseteq {c}
  /\ Majority({v \in Node : ballots'[v][t] = c})
  /\ leaders' = [leaders EXCEPT ![t] = {c}]

Next ==
  /\ UNCHANGED ballots \/ \E n, c \in Node, t \in Term : Vote(n, t, c)
  /\ UNCHANGED leaders \/ \E c \in Node, t \in Term : Elect(c, t)

Spec == Init /\ [][Next]_<<ballots, leaders>>
============================================================================
