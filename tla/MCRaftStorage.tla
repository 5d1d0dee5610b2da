--------------------------- MODULE MCRaftStorage ---------------------------
(***************************************************************************)
(* FileRaftStorage for TLC.                                                *)
(***************************************************************************)
EXTENDS RaftStorage

\* A raft_state.bin with a committed entry, and one of the version before,
\* which has no commit index.
FormerStates ==
  {[term |-> 1, commit |-> i, applied |-> i, log |-> <<Record(0, 0), Record(1, 1)>>] : i \in 0 .. 1}

\* A bound: at most two failures, crashes, torn records and kept files together.
TwoMishaps == faults + crashes + torn + kept <= 2
============================================================================
