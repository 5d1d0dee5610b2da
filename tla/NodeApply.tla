------------------------------ MODULE NodeApply ------------------------------
(***************************************************************************)
(* The state machine of one node and the threads that change it:           *)
(* ApplyCommittedEntries, the snapshot worker, InstallSnapshot handlers    *)
(* and the constructor (src/modules/raft/node/raft_node.cpp).  All of them *)
(* hold apply_mu_ while they touch the state machine; the indexes are      *)
(* guarded by mu_, which the other handlers take in between.               *)
(*                                                                         *)
(* Entries here are committed, so an index stands for its entry and sm is  *)
(* the sequence of entries the state machine reflects.  A successful       *)
(* PersistStateLocked puts all of the state on disk; one that fails leaves *)
(* the disk as it was or, when only the last sync failed, as it should be  *)
(* (the states in between are RaftStorage's).  files[i] is the content of  *)
(* the snapshot at index i that ListSnapshots finds (its directory is      *)
(* SnapshotStorage's).                                                     *)
(***************************************************************************)
EXTENDS Naturals, Sequences, FiniteSets

CONSTANTS
  Handler,     \* threads that may run OnInstallSnapshot
  MaxIndex,    \* bound on log indexes
  Threshold,   \* log_threshold
  Keep,        \* max_snapshot_count
  Refused,     \* what the first entry Apply refuses may be (a Put of an empty value,
               \* say, which Serialize writes and Deserialize does not read); an index
               \* above MaxIndex stands for none
  MaxCrashes,  \* bound on crashes
  MaxFaults    \* bound on failing writes, changes of term, calls the leader gives
               \* up, installs at a committed index and damaged snapshots together

ASSUME ApplyAssumption ==
  /\ MaxIndex \in Nat /\ MaxCrashes \in Nat /\ MaxFaults \in Nat
  /\ Threshold \in Nat \ {0} /\ Keep \in Nat \ {0}
  /\ Refused \subseteq Nat \ {0}

VARIABLES
  sm,          \* what the state machine reflects
  refused,     \* the first entry Apply refuses
  applied,     \* last_applied_
  commit,      \* commit_index_
  marker,      \* last_snapshot_index_
  diskCommit,  \* the larger of the persisted commit_index and last_applied
  diskMarker,  \* the index of the persisted log's first record
  behind,      \* history: the last save failed
  files,       \* the valid snapshots
  term,        \* current_term_
  role,        \* "leader", "follower" or "former": the leader of this term, restarted
  up,          \* the process runs; FALSE once the constructor has thrown
  caller,      \* a thread is about to call ApplyCommittedEntries
  applying,    \* apply_index of the thread inside it, 0 when none is
  handlers,    \* handlers[h]: step, index, term and whether the leader still waits
  worker,      \* the snapshot worker: its step, snapshot_index and temporary file
  pending,     \* pending_snapshot_index_ while snapshot_pending_, else 0
  crashes, unsaved, failures, late, stale, damage  \* how often each of these happened

indexes == <<applied, commit, marker>>
disk == <<diskCommit, diskMarker, behind>>
node == <<term, role, up, refused>>
threads == <<caller, applying, handlers, worker, pending>>
counts == <<crashes, unsaved, failures, late, stale, damage>>
vars == <<sm, indexes, disk, files, node, threads, counts>>

Index == 1 .. MaxIndex
Prefix(i) == [k \in 1 .. i |-> k]
Larger(a, b) == IF a >= b THEN a ELSE b

IdleHandler == [pc |-> "idle", index |-> 0, term |-> 0, live |-> FALSE]
IdleWorker == [pc |-> "idle", index |-> 0, data |-> <<>>]

Init ==
  /\ sm = <<>> /\ applied = 0 /\ commit = 0 /\ marker = 0 /\ files = <<>>
  /\ diskCommit = 0 /\ diskMarker = 0 /\ behind = FALSE
  /\ term = 1 /\ role \in {"leader", "follower"} /\ up = TRUE /\ refused \in Refused
  /\ caller = FALSE /\ applying = 0 /\ pending = 0
  /\ handlers = [h \in Handler |-> IdleHandler] /\ worker = IdleWorker
  /\ crashes = 0 /\ unsaved = 0 /\ failures = 0 /\ late = 0 /\ stale = 0 /\ damage = 0

\* One more fault is within the bound.
FaultLeft == unsaved + failures + late + stale + damage + term <= MaxFaults

\* PersistStateLocked, after the step's changes; it succeeds.
Saved == diskCommit' = commit' /\ diskMarker' = marker' /\ behind' = FALSE

\* It fails, before or after the disk has the new state.
NotSaved ==
  /\ FaultLeft /\ unsaved' = unsaved + 1 /\ behind' = TRUE
  /\ \/ diskCommit' = commit' /\ diskMarker' = marker'
     \/ UNCHANGED <<diskCommit, diskMarker>>
  /\ UNCHANGED <<crashes, failures, late, stale, damage>>

\* apply_mu_ is held by ApplyCommittedEntries for its whole loop, and by a
\* handler from LoadSnapshot to its end.
ApplyMuFree == applying = 0 /\ \A h \in Handler : handlers[h].pc # "loaded"

\* Fault: the indexes are set to the snapshot's.
CompactLogPrefixAnyway(i) == marker' = i /\ commit' = i /\ applied' = i

\* RestoreLogAfterSnapshotLocked moves the marker only forward.
CompactLogPrefix(i) ==
  /\ marker' = Larger(marker, i)
  /\ commit' = Larger(commit, i)
  /\ applied' = Larger(applied, i)

\* SaveSnapshotFile keeps the valid snapshot it finds at that index.
SaveSnapshotFile(i, data) ==
  files' = [j \in DOMAIN files \cup {i} |-> IF j \in DOMAIN files THEN files[j] ELSE data]

\* Fault: the oldest ones are kept.
PruneNewestFirst ==
  files' = [i \in {j \in DOMAIN files : Cardinality({k \in DOMAIN files : k < j}) < Keep}
              |-> files[i]]

\* PruneSnapshots keeps the newest ones.
PruneSnapshots ==
  files' = [i \in {j \in DOMAIN files : Cardinality({k \in DOMAIN files : k > j}) < Keep}
              |-> files[i]]

\* MaybeScheduleSnapshotLocked, after the step's changes; a snapshot in
\* progress or pending is left alone.
MaybeScheduleSnapshot(least, busy) ==
  pending' = IF pending = 0 /\ ~busy /\ applied' >= marker' + least THEN applied' ELSE pending

----------------------------------------------------------------------------
(* Other handlers, under mu_ *)

\* The leader of this term waits for a handler and sends nothing else
\* (one request per Replicator is in flight).
LeaderWaits == \E h \in Handler : handlers[h].live /\ handlers[h].term = term

\* Fault: should_apply is not set.
LearnCommitOnly ==
  /\ role # "former" /\ commit < MaxIndex /\ ~LeaderWaits
  /\ commit' = commit + 1
  /\ UNCHANGED <<sm, applied, marker, files, node, threads, counts>>
  /\ Saved

\* OnAppendEntries, or on a leader AdvanceCommitIndexUnlocked, commits an entry;
\* the same thread calls ApplyCommittedEntries next.
LearnCommit ==
  /\ role # "former" /\ commit < MaxIndex /\ ~LeaderWaits
  /\ commit' = commit + 1 /\ caller' = TRUE
  /\ UNCHANGED <<sm, applied, marker, files, node, applying, handlers, worker, pending, counts>>
  /\ Saved

\* AdvanceCommitIndexUnlocked logs a failing save and keeps the new commit_index_.
AdvanceNotSaved ==
  /\ role = "leader" /\ commit < MaxIndex /\ ~LeaderWaits
  /\ commit' = commit + 1 /\ caller' = TRUE
  /\ UNCHANGED <<sm, applied, marker, files, node, applying, handlers, worker, pending>>
  /\ NotSaved

\* OnAppendEntries takes the commit index back and answers false.
CommitTakenBack ==
  /\ role = "follower" /\ commit < MaxIndex /\ ~LeaderWaits /\ FaultLeft
  /\ diskCommit' \in {diskCommit, commit + 1} /\ behind' = TRUE /\ unsaved' = unsaved + 1
  /\ UNCHANGED <<sm, indexes, diskMarker, files, node, threads,
                 crashes, failures, late, stale, damage>>

\* Another save (a vote, an appended entry) writes all of the state again.
SavedAgain ==
  /\ behind
  /\ UNCHANGED <<sm, indexes, files, node, threads, counts>>
  /\ Saved

NewTerm ==
  /\ FaultLeft /\ term' = term + 1 /\ role' \in {"leader", "follower"}
  /\ UNCHANGED <<sm, indexes, files, up, refused, threads, counts>>
  /\ Saved

OnSnapshotTimer ==
  /\ UNCHANGED <<sm, indexes, disk, files, node, caller, applying, handlers, worker, counts>>
  /\ MaybeScheduleSnapshot(1, worker.pc # "idle")

----------------------------------------------------------------------------
(* ApplyCommittedEntries *)

\* One turn of the loop up to the unlock of mu_, from last_applied_ = i.  The
\* returns for an entry that is not in the log are not taken here: the log has
\* every entry between its marker and commit_index_.
NextToApply(i) ==
  /\ applied' = Larger(i, marker)
  /\ applying' = IF applied' >= commit THEN 0 ELSE applied' + 1

EnterApply ==
  /\ caller /\ ApplyMuFree
  /\ caller' = FALSE
  /\ NextToApply(applied)
  /\ UNCHANGED <<sm, commit, marker, disk, files, node, handlers, worker, pending, counts>>

\* Apply, then under mu_ raise last_applied_, save, maybe schedule a snapshot,
\* and start the next turn.
ApplyEntry ==
  /\ applying # 0 /\ applying # refused
  /\ sm' = Append(sm, applying)
  /\ NextToApply(Larger(applied, applying))
  /\ UNCHANGED <<commit, marker, files, node, caller, handlers, worker, counts>>
  /\ MaybeScheduleSnapshot(Threshold, worker.pc # "idle")
  /\ IF applied < applying THEN Saved ELSE UNCHANGED disk

\* Apply fails: the loop ends before the entry.
ApplyRefused ==
  /\ applying # 0 /\ applying = refused
  /\ applying' = 0
  /\ UNCHANGED <<sm, indexes, disk, files, node, caller, handlers, worker, pending, counts>>

\* The save after Apply fails: the loop ends with the entry applied.
ApplyNotSaved ==
  /\ applying # 0 /\ applying # refused /\ applied < applying
  /\ sm' = Append(sm, applying)
  /\ applied' = applying /\ applying' = 0
  /\ UNCHANGED <<commit, marker, files, node, caller, handlers, worker, pending>>
  /\ NotSaved

----------------------------------------------------------------------------
(* SnapshotWorkerLoop *)

WorkerWakes ==
  /\ worker.pc = "idle" /\ pending # 0
  /\ worker' = [worker EXCEPT !.pc = "woken", !.index = pending] /\ pending' = 0
  /\ UNCHANGED <<sm, indexes, disk, files, node, caller, applying, handlers, counts>>

\* Under apply_mu_: read last_applied_ again and write the temporary file.
WorkerSaves ==
  /\ worker.pc = "woken" /\ ApplyMuFree
  /\ worker' = [pc |-> "saved", index |-> applied, data |-> sm]
  /\ UNCHANGED <<sm, indexes, disk, files, node, caller, applying, handlers, pending, counts>>

WorkerPublishes ==
  /\ worker.pc = "saved"
  /\ SaveSnapshotFile(worker.index, worker.data)
  /\ worker' = [worker EXCEPT !.pc = "published"]
  /\ UNCHANGED <<sm, indexes, disk, node, caller, applying, handlers, pending, counts>>

\* SaveSnapshot or SaveSnapshotFile fails.
WorkerFails ==
  /\ worker.pc \in {"woken", "saved"} /\ FaultLeft
  /\ worker.pc = "woken" => ApplyMuFree
  /\ worker' = [worker EXCEPT !.pc = "done"] /\ failures' = failures + 1
  /\ UNCHANGED <<sm, indexes, disk, files, node, caller, applying, handlers, pending,
                 crashes, unsaved, late, stale, damage>>

WorkerCompacts ==
  /\ worker.pc = "published"
  /\ CompactLogPrefix(worker.index)
  /\ worker' = [worker EXCEPT !.pc = "compacted"]
  /\ UNCHANGED <<sm, files, node, caller, applying, handlers, pending, counts>>
  /\ IF worker.index > marker THEN Saved ELSE UNCHANGED disk

\* A save that fails is logged, and the worker goes on.
WorkerNotSaved ==
  /\ worker.pc = "published" /\ worker.index > marker
  /\ CompactLogPrefix(worker.index)
  /\ worker' = [worker EXCEPT !.pc = "compacted"]
  /\ UNCHANGED <<sm, files, node, caller, applying, handlers, pending>>
  /\ NotSaved

WorkerPrunes ==
  /\ worker.pc = "compacted"
  /\ PruneSnapshots
  /\ worker' = [worker EXCEPT !.pc = "done"]
  /\ UNCHANGED <<sm, indexes, disk, node, caller, applying, handlers, pending, counts>>

\* Fault: what came meanwhile is forgotten.
WorkerForgets ==
  /\ worker.pc = "done"
  /\ worker' = IdleWorker
  /\ UNCHANGED <<sm, indexes, disk, files, node, caller, applying, handlers, pending, counts>>

\* Clear snapshot_in_progress_ and look for work that came meanwhile.
WorkerDone ==
  /\ worker.pc = "done"
  /\ worker' = IdleWorker
  /\ UNCHANGED <<sm, indexes, disk, files, node, caller, applying, handlers, counts>>
  /\ MaybeScheduleSnapshot(Threshold, FALSE)

----------------------------------------------------------------------------
(* OnInstallSnapshot *)

\* The checks under mu_, for a request of the leader of this term; no node has
\* a snapshot with an entry that Apply refuses.
InstallBegins(h, i) ==
  /\ handlers[h].pc = "idle" /\ ~LeaderWaits
  /\ role = "follower" /\ i > marker /\ i < refused
  /\ i > commit \/ FaultLeft
  /\ stale' = stale + (IF i > commit THEN 0 ELSE 1)
  /\ handlers' = [handlers EXCEPT ![h] =
                    [pc |-> "saving", index |-> i, term |-> term, live |-> TRUE]]
  /\ UNCHANGED <<sm, indexes, disk, files, node, caller, applying, worker, pending,
                 crashes, unsaved, failures, late, damage>>

\* The leader's deadline passes; the handler goes on.
LeaderGivesUp(h) ==
  /\ handlers[h].live /\ FaultLeft
  /\ handlers' = [handlers EXCEPT ![h].live = FALSE] /\ late' = late + 1
  /\ UNCHANGED <<sm, indexes, disk, files, node, caller, applying, worker, pending,
                 crashes, unsaved, failures, stale, damage>>

InstallSaves(h) ==
  /\ handlers[h].pc = "saving"
  /\ SaveSnapshotFile(handlers[h].index, Prefix(handlers[h].index))
  /\ handlers' = [handlers EXCEPT ![h].pc = "saved"]
  /\ UNCHANGED <<sm, indexes, disk, node, caller, applying, worker, pending, counts>>

\* SaveSnapshotFile or LoadSnapshot fails; either leaves the state machine.
InstallFails(h) ==
  /\ handlers[h].pc \in {"saving", "saved"} /\ FaultLeft
  /\ handlers[h].pc = "saved" => ApplyMuFree
  /\ handlers' = [handlers EXCEPT ![h] = IdleHandler] /\ failures' = failures + 1
  /\ UNCHANGED <<sm, indexes, disk, files, node, caller, applying, worker, pending,
                 crashes, unsaved, late, stale, damage>>

\* Under apply_mu_ the state machine becomes the snapshot.
InstallLoads(h) ==
  /\ handlers[h].pc = "saved" /\ ApplyMuFree
  /\ handlers[h].index \in DOMAIN files
  /\ sm' = files[handlers[h].index]
  /\ handlers' = [handlers EXCEPT ![h].pc = "loaded"]
  /\ UNCHANGED <<indexes, disk, files, node, caller, applying, worker, pending, counts>>

\* The snapshot was pruned meanwhile: LoadSnapshot cannot open it.
InstallFindsNothing(h) ==
  /\ handlers[h].pc = "saved" /\ ApplyMuFree
  /\ handlers[h].index \notin DOMAIN files
  /\ handlers' = [handlers EXCEPT ![h] = IdleHandler]
  /\ UNCHANGED <<sm, indexes, disk, files, node, caller, applying, worker, pending, counts>>

\* Under mu_, still holding apply_mu_: the term check, then the indexes.
InstallTakes(h) ==
  /\ handlers[h].pc = "loaded" /\ handlers[h].term = term
  /\ CompactLogPrefix(handlers[h].index)
  /\ handlers' = [handlers EXCEPT ![h].pc = "pruning"]
  /\ UNCHANGED <<sm, files, node, caller, applying, worker, pending, counts>>
  /\ Saved

\* The save fails: the indexes stay raised in memory, and nothing is pruned.
InstallNotSaved(h) ==
  /\ handlers[h].pc = "loaded" /\ handlers[h].term = term
  /\ CompactLogPrefix(handlers[h].index)
  /\ handlers' = [handlers EXCEPT ![h] = IdleHandler]
  /\ UNCHANGED <<sm, files, node, caller, applying, worker, pending>>
  /\ NotSaved

InstallTooLate(h) ==
  /\ handlers[h].pc = "loaded" /\ handlers[h].term < term
  /\ handlers' = [handlers EXCEPT ![h] = IdleHandler]
  /\ UNCHANGED <<sm, indexes, disk, files, node, caller, applying, worker, pending, counts>>

InstallPrunes(h) ==
  /\ handlers[h].pc = "pruning"
  /\ PruneSnapshots
  /\ handlers' = [handlers EXCEPT ![h] = IdleHandler]
  /\ UNCHANGED <<sm, indexes, disk, node, caller, applying, worker, pending, counts>>

----------------------------------------------------------------------------
(* Crash, and the constructor *)

\* LoadLatestSnapshotOnStartup takes the newest snapshot (0: there is none).
IsLatest(i) ==
  \/ i \in DOMAIN files /\ \A j \in DOMAIN files : j <= i
  \/ i = 0 /\ DOMAIN files = {}

\* The commit index the constructor replays to, from snapshot i.
ReplayTo(i) == Larger(diskCommit, i)

\* Fault: last_applied_ is restored from disk, so the replay starts after it.
RecoverFromApplied(i) ==
  LET boundary == Larger(diskMarker, i)
      from == Larger(applied, boundary)
  IN /\ marker' = boundary /\ commit' = ReplayTo(i) /\ applied' = ReplayTo(i)
     /\ sm' = (IF i = 0 THEN <<>> ELSE files[i]) \o [k \in 1 .. ReplayTo(i) - from |-> from + k]

\* The constructor: load snapshot i, then replay what the disk says is committed
\* after it; the replay starts no earlier than the marker of the log.
Recover(i) ==
  LET boundary == Larger(diskMarker, i)
  IN /\ marker' = boundary /\ commit' = ReplayTo(i) /\ applied' = ReplayTo(i)
     /\ sm' = (IF i = 0 THEN <<>> ELSE files[i]) \o [k \in 1 .. ReplayTo(i) - boundary |-> boundary + k]

\* The threads are gone.
NoThreads ==
  /\ caller' = FALSE /\ applying' = 0
  /\ handlers' = [h \in Handler |-> IdleHandler] /\ worker' = IdleWorker

CrashAndRestart ==
  /\ crashes < MaxCrashes /\ crashes' = crashes + 1
  /\ \E i \in 0 .. MaxIndex : IsLatest(i) /\ ReplayTo(i) < refused /\ Recover(i)
  /\ pending' = IF applied' >= marker' + Threshold THEN marker' + Threshold ELSE 0
  /\ NoThreads
  /\ role' = IF role = "follower" THEN "follower" ELSE "former"
  /\ UNCHANGED <<files, term, up, refused, unsaved, failures, late, stale, damage>>
  /\ Saved

\* The constructor throws when the replay meets an entry Apply refuses, at this
\* start and at every later one.
CrashForGood ==
  /\ crashes < MaxCrashes /\ crashes' = crashes + 1
  /\ \E i \in 0 .. MaxIndex : IsLatest(i) /\ ReplayTo(i) >= refused
  /\ up' = FALSE /\ pending' = 0 /\ NoThreads
  /\ UNCHANGED <<sm, indexes, disk, files, term, role, refused, unsaved, failures, late, stale, damage>>

\* A snapshot no longer passes ReadDirectorySnapshot's checks.
Damage(i) ==
  /\ i \in DOMAIN files /\ FaultLeft
  /\ files' = [j \in DOMAIN files \ {i} |-> files[j]] /\ damage' = damage + 1
  /\ UNCHANGED <<sm, indexes, disk, node, threads, crashes, unsaved, failures, late, stale>>

WorkerStep ==
  WorkerWakes \/ WorkerSaves \/ WorkerPublishes \/ WorkerCompacts \/ WorkerPrunes \/ WorkerDone

HandlerStep(h) ==
  \/ InstallSaves(h) \/ InstallLoads(h) \/ InstallFindsNothing(h)
  \/ InstallTakes(h) \/ InstallTooLate(h) \/ InstallPrunes(h)

Step ==
  \/ LearnCommit \/ AdvanceNotSaved \/ CommitTakenBack \/ SavedAgain \/ NewTerm \/ OnSnapshotTimer
  \/ EnterApply \/ ApplyEntry \/ ApplyRefused \/ ApplyNotSaved
  \/ WorkerStep \/ WorkerFails \/ WorkerNotSaved
  \/ \E h \in Handler : HandlerStep(h) \/ InstallFails(h) \/ InstallNotSaved(h) \/ LeaderGivesUp(h)
  \/ \E h \in Handler, i \in Index : InstallBegins(h, i)
  \/ CrashAndRestart \/ CrashForGood
  \/ \E i \in Index : Damage(i)

Next == up /\ Step

\* Threads run: each one takes its next step, and apply_mu_, which no thread
\* holds forever, is given to everyone who waits for it.
Fairness ==
  /\ SF_vars(EnterApply) /\ WF_vars(ApplyEntry \/ ApplyRefused)
  /\ SF_vars(WorkerSaves) /\ WF_vars(WorkerStep)
  /\ \A h \in Handler : SF_vars(InstallLoads(h)) /\ WF_vars(HandlerStep(h))

Spec == Init /\ [][Next]_vars /\ Fairness

----------------------------------------------------------------------------
(* Properties *)

\* What the code takes for granted: the leader of one term sends snapshots above
\* the commit index only and waits for each, and none is damaged on disk.
Undisturbed == late = 0 /\ stale = 0 /\ damage = 0 /\ term = 1

\* Whenever no thread holds apply_mu_, the state machine reflects exactly the
\* entries up to last_applied_, each applied once and in order: snapshot
\* loads, replays at startup, failing saves and ApplyCommittedEntries neither
\* skip nor repeat one.  Without Undisturbed this is false: OnInstallSnapshot
\* compares its index with last_snapshot_index_ only, before it takes apply_mu_,
\* and the term only after LoadSnapshot; LoadLatestSnapshotOnStartup accepts a
\* snapshot older than the log's marker.
StateIsPrefix == Undisturbed /\ up /\ ApplyMuFree => sm = Prefix(applied)

\* A committed entry is applied in the end, whichever thread advances the
\* commit index while others apply, snapshot, install or restart, and whatever
\* is stale, late or damaged.  Two things keep it from being applied: a failing
\* save ends the loop early, or loses the commit index in a crash; and the loop
\* stops for good at an entry Apply refuses, which also keeps the process from
\* starting again.
CommittedApplied ==
  \A i \in Index : (commit >= i) ~> (applied >= i \/ unsaved > 0 \/ refused <= i \/ ~up)

\* Once the log is log_threshold entries past its snapshot it gets compacted,
\* also when the request for it came while a snapshot was in progress (if the
\* snapshot fails, or the save that ends a turn of ApplyCommittedEntries, the
\* next one is asked for by the timer), unless the process cannot start again.
LogGetsCompacted ==
  (applied >= marker + Threshold) ~>
    (applied < marker + Threshold \/ failures > 0 \/ unsaved > 0 \/ ~up)

\* Whatever is stale, late, lost or damaged, the indexes keep their order and
\* never fall, not even over a restart, where last_applied_ starts again
\* from 0: the constructor replays up to the persisted commit index.  The
\* exception is a restart after a save that failed (AdvanceCommitIndexUnlocked,
\* ApplyCommittedEntries, the worker and OnInstallSnapshot keep their change in
\* memory): the indexes fall to what is on disk, no further.
IndexesNeverFall ==
  [][/\ marker' <= applied' /\ applied' <= commit'
     /\ \/ applied' >= applied /\ commit' >= commit /\ marker' >= marker
        \/ /\ crashes' > crashes /\ behind
           /\ applied' >= diskCommit /\ marker' >= diskMarker]_vars

\* The log is cut only where a snapshot on disk covers what it lost, and
\* pruning, by the worker or by a handler, keeps it covered.
MarkerCovered == marker = 0 \/ damage > 0 \/ \E i \in DOMAIN files : i >= marker
============================================================================
