---------------------------- MODULE RaftStorage ----------------------------
(***************************************************************************)
(* FileRaftStorage (src/modules/raft/storage/raft_storage.cpp): the files  *)
(* of one data directory, Save as the sequence of file operations it is,   *)
(* a crash of the process between any two of them, and Load.               *)
(*                                                                         *)
(* log/, log.tmp/ and log.bak/ are sequences of records in segments of     *)
(* PerSegment records; a record is readable or not (checksum).  meta.bin   *)
(* holds the hard state and the bounds of the log; voted_for is written    *)
(* and read next to current_term, and term stands for both.  Content of    *)
(* log.tmp/ and meta.bin.tmp is synced before it is renamed, so the steps  *)
(* that matter are the renames and removals.  raft_state.bin is the single *)
(* file of the former layout: Load reads it when there is no meta.bin, and *)
(* a Save that succeeds removes it.                                        *)
(*                                                                         *)
(* The states handed to Save are those RaftNode makes: new terms, appended *)
(* and overwritten entries, commits, applies and compactions.              *)
(***************************************************************************)
EXTENDS Integers, Sequences, FiniteSets, SequencesExt

CONSTANTS
  PerSegment,  \* kMaxEntriesPerSegment
  MaxTerm,     \* bound on terms
  MaxIndex,    \* bound on log indexes
  MaxSaves,    \* bound on calls of Save
  MaxFaults,   \* bound on failing file operations
  MaxCrashes,  \* bound on crashes
  MaxTorn,     \* bound on records that become unreadable
  MaxKept,     \* bound on removals of raft_state.bin that fail, which Save ignores
  Former       \* states a raft_state.bin may hold when the node is first started

ASSUME StorageAssumption ==
  /\ PerSegment \in Nat \ {0} /\ MaxTerm \in Nat /\ MaxIndex \in Nat /\ MaxSaves \in Nat
  /\ MaxFaults \in Nat /\ MaxCrashes \in Nat /\ MaxTorn \in Nat /\ MaxKept \in Nat

VARIABLES
  mem,                    \* the persistent members of RaftNode
  next,                   \* the state Save was called with
  pc,                     \* the next file operation of Save; "idle", "down"
  meta,                   \* meta.bin, or Absent
  legacy,                 \* raft_state.bin, or Absent
  log, logTmp, logBak,    \* the three directories, or Absent
  durable,                \* history: the last state a Save returned true for, its commit cut
                          \* where a Load found a torn record; Absent before the first one
                          \* and after a Load that found no state
  clean,                  \* history: since then no Save has failed or was cut off by a crash
                          \* and no record was torn
  missing,                \* history: failed Saves, up to two, that left no log/ behind since
                          \* it was last in place
  saves, faults, crashes, torn, kept  \* how much of the bounds is used

vars == <<mem, next, pc, meta, legacy, log, logTmp, logBak, durable, clean, missing,
          saves, faults, crashes, torn, kept>>

Absent == <<>>  \* no such file or directory: log_ always has its marker record

\* log_ = {{0, 0, "bootstrap"}} of a node without persisted state.
Fresh == [term |-> 0, commit |-> 0, applied |-> 0, log |-> <<[index |-> 0, term |-> 0, ok |-> TRUE]>>]

Init ==
  /\ mem = Fresh /\ next = Fresh /\ pc = "down"
  /\ meta = Absent /\ log = Absent /\ logTmp = Absent /\ logBak = Absent
  /\ legacy \in {Absent} \cup {<<s>> : s \in Former}
  /\ durable = legacy /\ clean = TRUE /\ missing = 0
  /\ saves = 0 /\ faults = 0 /\ crashes = 0 /\ torn = 0 /\ kept = 0

----------------------------------------------------------------------------
(* Load *)

Smallest(a, b) == IF a <= b THEN a ELSE b
Largest(a, b) == IF a >= b THEN a ELSE b

LastIndex(s) == s.log[Len(s.log)].index

\* What WriteMeta stores of a state.
MetaOf(s) ==
  <<[term |-> s.term, commit |-> s.commit, applied |-> s.applied, count |-> Len(s.log),
     first |-> s.log[1].index, last |-> s.log[Len(s.log)].index]>>

\* ReadSegmentFile and the loop of LoadSegments: everything before the first
\* unreadable record; the rest of its segment is cut off and later segments
\* are removed, whether or not Load accepts in the end.
FirstBad(dir) == SelectInSeq(dir, LAMBDA r : ~r.ok)
Readable(dir) == IF FirstBad(dir) = 0 THEN dir ELSE SubSeq(dir, 1, FirstBad(dir) - 1)
Segment(k) == (k - 1) \div PerSegment
LaterSegment(dir) == FirstBad(dir) # 0 /\ Segment(FirstBad(dir)) # Segment(Len(dir))

InBounds(m, dir) == SelectSeq(Readable(dir), LAMBDA r : m.first <= r.index /\ r.index <= m.last)

\* Fault variant: the number of records is not compared with the meta file.
LoadsAnyCount(m, dir) == dir # Absent /\ InBounds(m, dir) # <<>>

\* Whether LoadSegments accepts the records of dir under the meta file m.
LoadSegmentsAccepts(m, dir) ==
  LET recs == InBounds(m, dir)
      cut == FirstBad(dir) # 0
  IN  /\ dir # Absent
      /\ \/ Len(recs) = m.count
         \/ cut /\ ~LaterSegment(dir) /\ (recs = <<>> => m.first = 0)
      /\ recs # <<>> => recs[1].index = m.first /\ (cut \/ recs[Len(recs)].index = m.last)
      /\ \A i \in 2 .. Len(recs) : recs[i].index = recs[i - 1].index + 1

\* The constructor puts the bootstrap record into an empty log.
Bootstrapped(recs) == IF recs = <<>> THEN Fresh.log ELSE recs

\* Fault variant: the boundaries are taken as they stand in the meta file.
Unclamped(m, recs) ==
  [term |-> m.term, commit |-> m.commit, applied |-> m.applied, log |-> Bootstrapped(recs)]

\* ClampRecoveredHardState.
Clamped(m, recs) ==
  LET last == IF recs = <<>> THEN 0 ELSE recs[Len(recs)].index
      commit == Smallest(m.commit, last)
  IN  [term |-> m.term, commit |-> commit, applied |-> Smallest(m.applied, commit),
       log |-> Bootstrapped(recs)]

LoadStatus ==
  IF meta = Absent THEN (IF legacy = Absent THEN "empty" ELSE "accepted")
  ELSE IF LoadSegmentsAccepts(meta[1], log) THEN "accepted" ELSE "refused"

LoadLegacy == Clamped(legacy[1], legacy[1].log)
LoadSegmented == Clamped(meta[1], InBounds(meta[1], log))

\* Fault variant: the former layout is looked for first.
LoadedFormerFirst == IF legacy # Absent THEN LoadLegacy ELSE LoadSegmented

\* The state Load returns when it accepts.
Loaded == IF meta = Absent THEN LoadLegacy ELSE LoadSegmented

\* LoadSegments meets a torn record.
CutsLog == meta # Absent /\ FirstBad(log) # 0

\* Load as the constructor of RaftNode calls it: refused, it throws and the
\* process is down until someone starts it again.  Accepted, last_applied_
\* starts over at the snapshot and the committed entries are replayed.
Load ==
  /\ pc = "down"
  /\ pc' = IF LoadStatus = "refused" THEN "down" ELSE "idle"
  /\ mem' = CASE LoadStatus = "empty" -> Fresh
              [] LoadStatus = "accepted" -> [Loaded EXCEPT !.applied = Loaded.log[1].index]
              [] OTHER -> mem
  /\ log' = IF CutsLog THEN Readable(log) ELSE log
  /\ durable' = CASE LoadStatus = "empty" -> Absent
                  [] LoadStatus = "accepted" /\ durable # Absent /\ CutsLog ->
                       <<[durable[1] EXCEPT !.commit = Smallest(@, LastIndex(Loaded))]>>
                  [] OTHER -> durable
  /\ UNCHANGED <<next, meta, legacy, logTmp, logBak, clean, missing, saves, faults, crashes, torn,
                 kept>>

----------------------------------------------------------------------------
(* Save *)

Record(i, t) == [index |-> i, term |-> t, ok |-> TRUE]
FirstIndex(s) == s.log[1].index

\* The states RaftNode goes to and saves: a new term; an entry appended; a
\* conflicting suffix replaced; a commit; an apply; a compaction.
Steps(s) ==
  {[s EXCEPT !.term = @ + 1] : t \in {u \in {s.term} : u < MaxTerm}}
  \cup {[s EXCEPT !.log = Append(@, Record(LastIndex(s) + 1, s.term))] :
          i \in {j \in {LastIndex(s)} : s.term > 0 /\ j < MaxIndex}}
  \cup {[s EXCEPT !.log = Append(SubSeq(@, 1, i - FirstIndex(s)), Record(i, s.term))] :
          i \in {j \in Largest(s.commit, FirstIndex(s)) + 1 .. LastIndex(s) :
                   s.log[j - FirstIndex(s) + 1].term < s.term}}
  \cup {[s EXCEPT !.commit = i] : i \in s.commit + 1 .. LastIndex(s)}
  \cup {[s EXCEPT !.applied = i] : i \in {j \in {s.applied + 1} : j <= s.commit}}
  \cup {[s EXCEPT !.log = SubSeq(@, i - FirstIndex(s) + 1, Len(@))] :
          i \in {j \in {s.applied} : j > FirstIndex(s)}}

files == <<meta, legacy, log, logTmp, logBak>>
bounds == <<faults, crashes, torn, kept>>

\* Save(s) returns false: callers either take the step back or keep it in memory.
Fails(s) ==
  /\ faults < MaxFaults /\ faults' = faults + 1
  /\ pc' = "idle" /\ clean' = FALSE
  /\ mem' \in {mem, s}
  /\ missing' = IF log' = Absent THEN Smallest(missing + 1, 2) ELSE 0
  /\ UNCHANGED <<durable, crashes, torn, kept>>

SaveFails == Fails(next) /\ UNCHANGED <<next, saves>>

\* Save removes the log.tmp/ of an earlier Save before anything is written.
RemoveTemp(s) ==
  /\ pc = "idle" /\ saves < MaxSaves
  /\ saves' = saves + 1 /\ next' = s /\ logTmp' = Absent /\ pc' = "writeTemps"
  /\ UNCHANGED <<mem, meta, legacy, log, logBak, durable, clean, missing>> /\ UNCHANGED bounds

\* The directory cannot be created, or log.tmp/ cannot be removed.
RemoveTempFails(s) ==
  /\ pc = "idle" /\ saves < MaxSaves
  /\ saves' = saves + 1 /\ next' = s
  /\ UNCHANGED files /\ Fails(s)

\* log.tmp/ and meta.bin.tmp are written and synced.
WriteTemps ==
  /\ pc = "writeTemps" /\ pc' = "removeBackup"
  /\ logTmp' = next.log
  /\ UNCHANGED <<mem, next, meta, legacy, log, logBak, durable, clean, missing, saves>>
  /\ UNCHANGED bounds

\* A half-written log.tmp/ is no copy of the log; a whole one stays when it is
\* meta.bin.tmp that fails.
WriteTempsFails ==
  /\ pc = "writeTemps"
  /\ logTmp' \in {Absent, next.log} /\ UNCHANGED <<meta, legacy, log, logBak>>
  /\ SaveFails

\* The removal of log.bak/ that opens ReplaceDirectory.
RemoveBackup ==
  /\ pc = "removeBackup" /\ pc' = "moveOldLog"
  /\ logBak' = Absent
  /\ UNCHANGED <<mem, next, meta, legacy, log, logTmp, durable, clean, missing, saves>>
  /\ UNCHANGED bounds

\* It fails before or after the first file is gone.
RemoveBackupFails ==
  /\ pc = "removeBackup" /\ logBak # Absent
  /\ logBak' \in {Absent, logBak} /\ UNCHANGED <<meta, legacy, log, logTmp>>
  /\ SaveFails

MoveOldLog ==
  /\ pc = "moveOldLog" /\ pc' = "publishLog"
  /\ logBak' = (IF log # Absent THEN log ELSE logBak) /\ log' = Absent
  /\ UNCHANGED <<mem, next, meta, legacy, logTmp, durable, clean, missing, saves>>
  /\ UNCHANGED bounds

MoveOldLogFails == pc = "moveOldLog" /\ log # Absent /\ UNCHANGED files /\ SaveFails

PublishLog ==
  /\ pc = "publishLog" /\ pc' = "syncLog"
  /\ log' = logTmp /\ logTmp' = Absent /\ missing' = 0
  /\ UNCHANGED <<mem, next, meta, legacy, logBak, durable, clean, saves>> /\ UNCHANGED bounds

\* Fault variant: the old directory and the temporary one are removed.
PublishLogFailsAndCleans ==
  /\ pc = "publishLog"
  /\ logBak' = Absent /\ logTmp' = Absent /\ UNCHANGED <<log, meta, legacy>>
  /\ SaveFails

\* The old directory is renamed back, unless that rename fails as well.
PublishLogFails ==
  /\ pc = "publishLog"
  /\ (log' = logBak /\ logBak' = Absent) \/ UNCHANGED <<log, logBak>>
  /\ UNCHANGED <<meta, legacy, logTmp>>
  /\ SaveFails

\* The directory sync, the removal of log.bak/ (the Save goes on if it fails)
\* and the end of ReplaceDirectory.
SyncLog ==
  /\ pc = "syncLog" /\ pc' = "removeMeta"
  /\ \/ logBak' = Absent /\ UNCHANGED faults
     \/ logBak # Absent /\ faults < MaxFaults /\ faults' = faults + 1 /\ UNCHANGED logBak
  /\ UNCHANGED <<mem, next, meta, legacy, log, logTmp, durable, clean, missing, saves, crashes, torn,
                 kept>>

SyncLogFails == pc = "syncLog" /\ UNCHANGED files /\ SaveFails

\* ReplaceFile removes meta.bin before it renames meta.bin.tmp.
RemoveMeta ==
  /\ pc = "removeMeta" /\ pc' = "renameMeta"
  /\ meta' = Absent
  /\ UNCHANGED <<mem, next, legacy, log, logTmp, logBak, durable, clean, missing, saves>>
  /\ UNCHANGED bounds

RenameMeta ==
  /\ pc = "renameMeta" /\ pc' = "syncMeta"
  /\ meta' = MetaOf(next)
  /\ UNCHANGED <<mem, next, legacy, log, logTmp, logBak, durable, clean, missing, saves>>
  /\ UNCHANGED bounds

ReplaceFileFails == pc \in {"removeMeta", "renameMeta", "syncMeta"} /\ UNCHANGED files /\ SaveFails

\* raft_state.bin is removed, or not, and Save returns true.
SaveReturns ==
  /\ pc = "syncMeta" /\ pc' = "idle"
  /\ mem' = next /\ durable' = <<next>> /\ clean' = TRUE
  /\ \/ legacy' = Absent /\ UNCHANGED kept
     \/ legacy # Absent /\ kept < MaxKept /\ kept' = kept + 1 /\ UNCHANGED legacy
  /\ UNCHANGED <<next, saves, missing, meta, log, logTmp, logBak, faults, crashes, torn>>

----------------------------------------------------------------------------
(* The environment *)

\* The process dies; the files stay as they are.
Crash ==
  /\ pc # "down" /\ crashes < MaxCrashes /\ crashes' = crashes + 1
  /\ pc' = "down" /\ clean' = (clean /\ pc = "idle")
  /\ UNCHANGED <<mem, next, durable, missing, saves, faults, torn, kept>> /\ UNCHANGED files

\* A published record becomes unreadable.
Tear(i) ==
  /\ pc = "idle" /\ torn < MaxTorn /\ torn' = torn + 1
  /\ log' = [log EXCEPT ![i].ok = FALSE]
  /\ clean' = FALSE
  /\ UNCHANGED <<mem, next, pc, meta, legacy, logTmp, logBak, durable, missing, saves, faults, crashes,
                 kept>>

Next ==
  \/ \E s \in Steps(mem) : RemoveTemp(s) \/ RemoveTempFails(s)
  \/ WriteTemps \/ RemoveBackup \/ MoveOldLog \/ PublishLog \/ SyncLog \/ RemoveMeta \/ RenameMeta \/ SaveReturns
  \/ WriteTempsFails \/ RemoveBackupFails \/ MoveOldLogFails \/ PublishLogFails \/ SyncLogFails \/ ReplaceFileFails
  \/ Crash \/ Load
  \/ \E i \in DOMAIN log : Tear(i)

Spec == Init /\ [][Next]_vars
----------------------------------------------------------------------------
(* Properties *)

Records == [index : 0 .. MaxIndex, term : 0 .. MaxTerm, ok : BOOLEAN]
IsDirectory(d) == Len(d) <= MaxIndex + 1 /\ \A i \in DOMAIN d : d[i] \in Records
IsState(s) ==
  /\ s.term \in 0 .. MaxTerm /\ s.applied \in 0 .. s.commit /\ s.commit <= LastIndex(s)
  /\ s.log # <<>> /\ IsDirectory(s.log)

\* The types of the files and of the state in memory: in particular, what
\* RaftNode holds after any Load has last_applied_ <= commit_index_ <= the
\* last log index.
TypeOK ==
  /\ IsState(mem) /\ IsState(next)
  /\ pc \in {"idle", "down", "writeTemps", "removeBackup", "moveOldLog", "publishLog", "syncLog", "removeMeta",
             "renameMeta", "syncMeta"}
  /\ IsDirectory(log) /\ IsDirectory(logTmp) /\ IsDirectory(logBak)
  /\ clean \in BOOLEAN /\ missing \in 0 .. 2
  /\ saves \in 0 .. MaxSaves /\ faults \in 0 .. MaxFaults
  /\ crashes \in 0 .. MaxCrashes /\ torn \in 0 .. MaxTorn /\ kept \in 0 .. MaxKept

\* Once Save has returned true, restarts between calls of Save give RaftNode
\* back exactly the state it saved, however the directory looked before that
\* Save (last_applied_ apart, which is replayed): left-over log.tmp/, log.bak/
\* and half-published states included.
SavedIsLoaded ==
  pc = "idle" /\ clean /\ durable # Absent =>
    /\ LoadStatus = "accepted" /\ Loaded = durable[1]
    /\ [mem EXCEPT !.applied = durable[1].applied] = durable[1]

\* Whenever Load accepts what is in the directory, at any step of a Save and
\* after any failures: the term is not behind a saved one, an entry saved as
\* committed is the same entry, and it is missing only if it lies under the
\* applied marker of a compacted log or behind a torn record.  A raft_state.bin
\* that could not be removed is excepted: a crash between the removal and the
\* rename of meta.bin makes Load go back to it.
CommittedSurvives ==
  durable # Absent /\ kept = 0 /\ LoadStatus = "accepted" =>
    LET d == durable[1] IN
    /\ Loaded.term >= d.term
    /\ FirstIndex(Loaded) <= Loaded.applied
    /\ ~CutsLog => d.commit <= LastIndex(Loaded)
    /\ \A i \in DOMAIN d.log, j \in DOMAIN Loaded.log :
         d.log[i].index = Loaded.log[j].index /\ d.log[i].index <= d.commit =>
           d.log[i].term = Loaded.log[j].term

\* "the next load either sees the old complete layout or a new log dir with
\* old meta" (the comment in Save): a crash never makes Load report that
\* nothing was ever persisted once a Save has returned true.
HardStateKept == pc = "down" /\ durable # Absent => LoadStatus # "empty"

\* Wherever a crash or a failure leaves a Save, and also while Load refuses the
\* directory because log/ is missing or does not fit meta.bin, one of log/,
\* log.tmp/, log.bak/ and raft_state.bin still has every entry saved as
\* committed that is not under its compaction marker.  The exception is a third
\* Save after two failed ones in a row that left no log/: the second removed
\* log.bak/, so log.tmp/ is the only copy, and Save begins by removing it.  (A
\* raft_state.bin that could not be removed is excepted as in CommittedSurvives,
\* and so are torn records.)
CommittedOnDisk ==
  durable # Absent /\ kept = 0 /\ torn = 0 /\ missing < 2 =>
    LET d == durable[1]
        copies == {log, logTmp, logBak, IF legacy = Absent THEN Absent ELSE legacy[1].log} \ {Absent}
    IN  \E c \in copies : \A i \in DOMAIN d.log :
          FirstIndex([log |-> c]) < d.log[i].index /\ d.log[i].index <= d.commit => d.log[i] \in Range(c)
============================================================================
