-------------------------- MODULE MCSnapshotStorage --------------------------
(***************************************************************************)
(* A snapshot worker and two InstallSnapshot handlers of one node.  Nodes  *)
(* take their snapshots at the same thresholds, so that the index of a     *)
(* snapshot the leader sends may be one the node saves itself, and a       *)
(* request that is repeated brings the same index to both handlers.        *)
(***************************************************************************)
EXTENDS SnapshotStorage, TLC

CONSTANTS worker, h1, h2

SharedIndexes == (worker :> {1, 2}) @@ (h1 :> {1, 2}) @@ (h2 :> {1, 2})

\* The view leaves out what no step reads again: the index and the overlap of a
\* thread that is idle, and the temporary file when the next user truncates it.
View ==
  LET active == {s \in Saver : pc[s] # "idle"}
      reads == {h \in Handler : pc[h] \in {"write", "sync_root", "check", "stage", "copy"}}
  IN <<dir, synced, IF reads = {} THEN <<>> ELSE temp, pc, [s \in active |-> want[s]], stage, victims,
       log, overlap \cap reads, mixed, exposed, bounds>>

Symmetry == Permutations({h1, h2})
=============================================================================
