------------------------------ MODULE RaftLog ------------------------------
(***************************************************************************)
(* The in-memory log of one RaftNode and the helpers the handlers use on   *)
(* it (src/modules/raft/node/raft_node.cpp).                               *)
(*                                                                         *)
(* log_ is a vector whose front record is a marker: {0, 0, "bootstrap"} on *)
(* a fresh node, {last_snapshot_index_, last_snapshot_term_, "snapshot"}   *)
(* after a compaction.  front.index = last_snapshot_index_ at all times,   *)
(* so a log is represented by the marker (snapIndex, snapTerm) and the     *)
(* sequence of entries after it; the entry at index i is                   *)
(* log[i - snapIndex].  The operators take the record s of one node, which *)
(* has at least the fields log, snapIndex, snapTerm, commit and applied.   *)
(***************************************************************************)
EXTENDS Integers, Sequences, FiniteSets, FiniteSetsExt

Larger(a, b) == IF a >= b THEN a ELSE b

Smaller(a, b) == IF a <= b THEN a ELSE b

LastLogIndex(s) == s.snapIndex + Len(s.log)

LastLogTerm(s) == IF s.log = <<>> THEN s.snapTerm ELSE s.log[Len(s.log)].term

HasLogAtIndex(s, i) == s.snapIndex <= i /\ i <= LastLogIndex(s)

EntryAt(s, i) == s.log[i - s.snapIndex]

\* 0 stands for "no such record", as in the code.
TermAtIndex(s, i) ==
  IF i = s.snapIndex THEN s.snapTerm
  ELSE IF HasLogAtIndex(s, i) THEN EntryAt(s, i).term ELSE 0

\* The marker is a record of log_ too: both searches may answer snapIndex.
IndexesOfTerm(s, t) == {i \in s.snapIndex .. LastLogIndex(s) : TermAtIndex(s, i) = t}

FirstIndexOfTerm(s, t) ==
  IF IndexesOfTerm(s, t) = {} THEN 0 ELSE Min(IndexesOfTerm(s, t))

LastIndexOfTerm(s, t) ==
  IF IndexesOfTerm(s, t) = {} THEN 0 ELSE Max(IndexesOfTerm(s, t))

\* Fault variant: logs compared by length alone.
CandidateLogNotShorter(s, lastIndex, lastTerm) == lastIndex >= LastLogIndex(s)

\* A voter's comparison of its own log with the candidate's last entry.
IsCandidateLogUpToDate(s, lastIndex, lastTerm) ==
  IF lastTerm # LastLogTerm(s) THEN lastTerm > LastLogTerm(s)
  ELSE lastIndex >= LastLogIndex(s)

\* Fault variant: the boundaries stay behind the marker.
RestoreLogOnly(s, index, term) ==
  IF index <= s.snapIndex THEN s
  ELSE [s EXCEPT !.log = IF TermAtIndex(s, index) = term
                         THEN SubSeq(s.log, index - s.snapIndex + 1, Len(s.log)) ELSE <<>>,
                 !.snapIndex = index, !.snapTerm = term]

\* The suffix survives only if the boundary entry is in the log with the
\* snapshot's term.
RestoreLogAfterSnapshot(s, index, term) ==
  IF index <= s.snapIndex THEN s
  ELSE LET keep == HasLogAtIndex(s, index) /\ TermAtIndex(s, index) = term
       IN  [s EXCEPT !.log = IF keep THEN SubSeq(s.log, index - s.snapIndex + 1, Len(s.log))
                             ELSE <<>>,
                     !.snapIndex = index,
                     !.snapTerm = term,
                     !.commit = Larger(s.commit, index),
                     !.applied = Larger(s.applied, index)]

\* What a rejected AppendEntries tells the leader about index probe.
ConflictHint(s, probe) ==
  IF probe < s.snapIndex THEN [index |-> s.snapIndex + 1, term |-> 0]
  ELSE IF ~HasLogAtIndex(s, probe) THEN [index |-> LastLogIndex(s) + 1, term |-> 0]
  ELSE [index |-> FirstIndexOfTerm(s, TermAtIndex(s, probe)), term |-> TermAtIndex(s, probe)]

\* The entry loop of OnAppendEntries: entries already present with the same
\* term are kept, the first other one cuts the log and the rest is appended.
LogAfterAppend(s, prev, entries) ==
  LET off == prev - s.snapIndex
      Present(k) == off + k <= Len(s.log) /\ s.log[off + k].term = entries[k].term
  IN  IF \A k \in DOMAIN entries : Present(k) THEN s.log
      ELSE [i \in 1 .. off + Len(entries) |->
              IF \A k \in 1 .. i - off : Present(k) THEN s.log[i] ELSE entries[i - off]]

\* The batch BuildAppendEntriesRequest puts in one RPC.
EntriesFrom(s, next, maxBatch) ==
  SubSeq(s.log, next - s.snapIndex,
         Smaller(Len(s.log), next - s.snapIndex + maxBatch - 1))

\* Fault variant: only the follower's last index counts.
HintedNextFromLast(s, next, last, hint) == Smaller(last + 1, LastLogIndex(s) + 1)

\* next_index after a rejection (HandleAppendEntriesResponse); next is its
\* value before.
HintedNext(s, next, last, hint) ==
  LET wanted == IF hint.term # 0
                THEN IF IndexesOfTerm(s, hint.term) # {}
                     THEN LastIndexOfTerm(s, hint.term) + 1 ELSE hint.index
                ELSE IF hint.index # 0 THEN hint.index ELSE last + 1
  IN  IF wanted > 0 THEN Smaller(wanted, LastLogIndex(s) + 1) ELSE Larger(next - 1, 1)
============================================================================
