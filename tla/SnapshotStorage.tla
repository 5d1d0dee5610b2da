--------------------------- MODULE SnapshotStorage ---------------------------
(***************************************************************************)
(* FileSnapshotStorage (src/modules/raft/storage/snapshot_storage.cpp) and *)
(* the two callers that use it to cut the log: the snapshot worker and the *)
(* InstallSnapshot handlers of one node.  Nothing in the storage is        *)
(* locked, so every file operation is a step of its own.                   *)
(*                                                                         *)
(* dir[i] is the directory snapshot_<i> as a reader sees it: Absent,       *)
(* Broken (ReadDirectorySnapshot refuses it: meta or data is missing or    *)
(* the checksum differs), or the data it holds with a checksum that fits.  *)
(* Data is the index of the state it was taken from, or Torn: a prefix of  *)
(* a snapshot, whose checksum fits but which LoadSnapshot cannot parse.    *)
(* synced is what the last directory sync made durable.  Data and meta are *)
(* synced in the staging directory before the rename.                      *)
(*                                                                         *)
(* An index has one term (RaftCluster checks StateMachineSafety), so the   *)
(* refusal of an existing snapshot with another term is left out.  Two     *)
(* saves of an index begin in different milliseconds, which the names of   *)
(* the staging directories hold.                                           *)
(***************************************************************************)
EXTENDS Naturals, FiniteSets

CONSTANTS
  Saver,         \* the threads that save snapshots
  Handler,       \* those that run OnInstallSnapshot; the others are snapshot workers
  Offered,       \* Offered[s]: the indexes s is asked to save
  Keep,          \* max_snapshot_count
  MaxKills,      \* bound on processes killed
  MaxLosses,     \* bound on losses of power
  MaxFailures,   \* bound on file operations and saves that fail
  MaxSaves,      \* bound on calls of SaveSnapshotFile
  Absent, Broken, Torn

Larger(a, b) == IF a >= b THEN a ELSE b

Index == UNION {Offered[s] : s \in Saver}

ASSUME SnapshotAssumption ==
  /\ Handler \subseteq Saver
  /\ \A s \in Saver : Offered[s] \subseteq Nat \ {0}
  /\ Keep \in Nat \ {0} /\ {MaxKills, MaxLosses, MaxFailures, MaxSaves} \subseteq Nat
  /\ {Absent, Broken, Torn} \cap Nat = {} /\ Cardinality({Absent, Broken, Torn}) = 3

VARIABLES
  dir,       \* the snapshot directories
  synced,    \* those a loss of power leaves for certain
  tmp,       \* install_snapshot_node_<id>.bin.tmp, shared by all handlers
  attached,  \* the handlers whose open file is the one of that name
  pc,        \* pc[s]: the next step of thread s
  want,      \* want[s]: the index s saves
  stage,     \* stage[s]: the data in the staging directory of s
  victims,   \* victims[s]: what PruneSnapshots of s still has to remove
  marker,    \* last_snapshot_index_
  logStart,  \* the same on disk: entries up to it are no longer in the log
  overlap,   \* history: handlers whose temporary file another one opened
  mixed,     \* history: indexes saved from the file of a handler in overlap
  exposed,   \* history: indexes relied on while no sync vouches for them
  kills, losses, failures, saves

temp == <<tmp, attached>>
log == <<marker, logStart>>
bounds == <<kills, losses, failures, saves>>
vars == <<dir, synced, temp, pc, want, stage, victims, log, overlap, mixed, exposed, bounds>>

Init ==
  /\ dir = [i \in Index |-> Absent] /\ synced = dir /\ tmp = Absent /\ attached = {}
  /\ pc = [s \in Saver |-> "idle"] /\ want = [s \in Saver |-> 0]
  /\ stage = [s \in Saver |-> Absent] /\ victims = [s \in Saver |-> {}]
  /\ marker = 0 /\ logStart = 0 /\ overlap = {} /\ mixed = {} /\ exposed = {}
  /\ kills = 0 /\ losses = 0 /\ failures = 0 /\ saves = 0

----------------------------------------------------------------------------
(* Reading the catalog *)

\* ReadDirectorySnapshot accepts the directory.
Valid(d) == {i \in Index : d[i] \notin {Absent, Broken}}

\* LoadSnapshot can parse it, too.
Loadable(d) == {i \in Valid(d) : d[i] # Torn}

\* ListSnapshots is sorted by index, newest first.
Newest(S, k) == {i \in S : Cardinality({j \in S : j > i}) < k}

\* Fault variant: oldest first.
Oldest(S, k) == {i \in S : Cardinality({j \in S : j < i}) < k}

\* LoadLatestSnapshotOnStartup: the first one that loads; 0 if there is none.
IsLatest(d, i) == i \in Loadable(d) \cup {0} /\ \A j \in Loadable(d) : j <= i

----------------------------------------------------------------------------
(* SaveSnapshotFile *)

Goto(s, label) == pc' = [pc EXCEPT ![s] = label]

\* SyncDirectory of the root: what is in dir is there to stay.
SyncDirectory == synced' = dir /\ exposed' = {i \in exposed : dir[i] # i}

\* Whoever has the file open writes to one without a name from now on.
RemoveTemp(s) ==
  IF s \in Handler THEN tmp' = Absent /\ attached' = {} ELSE UNCHANGED temp

\* An operation fails: the staging directory is removed and the caller gives
\* up; a handler removes the temporary file, unless it could not write it.
Fails(s) ==
  /\ failures < MaxFailures /\ failures' = failures + 1
  /\ Goto(s, "idle") /\ stage' = [stage EXCEPT ![s] = Absent]
  /\ IF pc[s] = "write" THEN UNCHANGED temp ELSE RemoveTemp(s)
  /\ UNCHANGED <<dir, synced, want, victims, log, overlap, mixed, exposed, kills, losses, saves>>

\* The worker has written the state machine to a file of its own, at its
\* last_applied_; a handler has passed its first critical section.
Begin(s, i) ==
  /\ pc[s] = "idle" /\ (IF s \in Handler THEN i > marker ELSE i >= marker)
  /\ saves < MaxSaves /\ saves' = saves + 1
  /\ want' = [want EXCEPT ![s] = i]
  /\ Goto(s, IF s \in Handler THEN "open" ELSE "sync_root")
  /\ UNCHANGED <<dir, synced, temp, stage, victims, log, overlap, mixed, exposed>>
  /\ UNCHANGED <<kills, losses, failures>>

\* The handler truncates the temporary file, whoever else is at work on it, ...
OpenTemp(s) ==
  LET busy == {h \in Handler \ {s} : pc[h] \in {"write", "sync_root", "check", "stage", "copy"}}
      clash == \E h \in busy : pc[h] = "write"
  IN /\ pc[s] = "open" /\ Goto(s, "write")
     /\ tmp' = Torn /\ attached' = attached \cup {s}
     /\ overlap' = (overlap \ {s}) \cup busy \cup (IF clash THEN {s} ELSE {})
     /\ UNCHANGED <<dir, synced, want, stage, victims, log, mixed, exposed, bounds>>

\* ... and writes it from the start: what another wrote in between is replaced,
\* or its end stays.
WriteTemp(s) ==
  /\ pc[s] = "write" /\ Goto(s, "sync_root")
  /\ tmp' \in IF s \notin attached THEN {tmp}
              ELSE IF tmp = Torn THEN {want[s]} ELSE {want[s], Torn}
  /\ attached' = attached \ {s}
  /\ UNCHANGED <<dir, synced, want, stage, victims, log, overlap, mixed, exposed, bounds>>

\* SaveSnapshotFile begins with a sync of the root, ...
SyncRoot(s) ==
  /\ pc[s] = "sync_root" /\ SyncDirectory /\ Goto(s, "check")
  /\ UNCHANGED <<dir, temp, want, stage, victims, log, overlap, mixed, bounds>>

\* ... and is done, the input removed, if a valid snapshot of this index exists,
\* be it one whose rename another thread has yet to sync.
CheckExisting(s) ==
  /\ pc[s] = "check"
  /\ IF want[s] \in Valid(dir)
     THEN /\ Goto(s, "saved") /\ RemoveTemp(s)
          /\ exposed' = exposed \cup {i \in {want[s]} : dir[i] # synced[i]}
     ELSE Goto(s, "stage") /\ UNCHANGED <<temp, exposed>>
  /\ UNCHANGED <<dir, synced, want, stage, victims, log, overlap, mixed, bounds>>

\* Otherwise it makes a staging directory, syncs the root again and copies the
\* input.
MakeStaging(s) ==
  /\ pc[s] = "stage" /\ SyncDirectory /\ Goto(s, "copy")
  /\ UNCHANGED <<dir, temp, want, stage, victims, log, overlap, mixed, bounds>>

\* Fault variant: the worker's file has the name of the handlers'.
CopySharedToStaging(s) ==
  /\ pc[s] = "copy"
  /\ LET input == IF tmp = Absent /\ s \notin Handler THEN want[s] ELSE tmp
     IN  /\ Goto(s, IF input = Absent THEN "idle" ELSE "clear")
         /\ stage' = [stage EXCEPT ![s] = input]
  /\ mixed' = mixed \cup {want[h] : h \in {s} \cap overlap}
  /\ UNCHANGED <<dir, synced, temp, want, victims, log, overlap, exposed, bounds>>

\* CopyFilePortable cannot open a missing input.
CopyToStaging(s) ==
  /\ pc[s] = "copy"
  /\ LET input == IF s \in Handler THEN tmp ELSE want[s]
     IN  /\ Goto(s, IF input = Absent THEN "idle" ELSE "clear")
         /\ stage' = [stage EXCEPT ![s] = input]
  /\ mixed' = mixed \cup {want[h] : h \in {s} \cap overlap}
  /\ UNCHANGED <<dir, synced, temp, want, victims, log, overlap, exposed, bounds>>

\* remove_all of what is in the way, in two steps since a crash can come between
\* two files.  It may be a valid snapshot that another thread has published
\* since CheckExisting.
ClearFinal(s) ==
  LET i == want[s] IN
  /\ pc[s] = "clear"
  /\ \/ dir[i] = Absent /\ Goto(s, "rename") /\ UNCHANGED <<dir, exposed>>
     \/ /\ dir[i] = Broken /\ Goto(s, "sync_removal")
        /\ dir' = [dir EXCEPT ![i] = Absent] /\ UNCHANGED exposed
     \/ /\ i \in Valid(dir) /\ UNCHANGED pc
        /\ dir' = [dir EXCEPT ![i] = Broken] /\ exposed' = exposed \cup {i}
  /\ UNCHANGED <<synced, temp, want, stage, victims, log, overlap, mixed, bounds>>

SyncRemoval(s) ==
  /\ pc[s] = "sync_removal" /\ SyncDirectory /\ Goto(s, "rename")
  /\ UNCHANGED <<dir, temp, want, stage, victims, log, overlap, mixed, bounds>>

\* A directory cannot be renamed to one that is not empty.
Rename(s) ==
  /\ pc[s] = "rename"
  /\ IF dir[want[s]] = Absent
     THEN Goto(s, "sync_publish") /\ dir' = [dir EXCEPT ![want[s]] = stage[s]] /\ UNCHANGED temp
     ELSE Goto(s, "idle") /\ UNCHANGED dir /\ RemoveTemp(s)
  /\ stage' = [stage EXCEPT ![s] = Absent]
  /\ UNCHANGED <<synced, want, victims, log, overlap, mixed, exposed, bounds>>

\* Fault variant: the rename is not made durable.
PublishUnsynced(s) ==
  /\ pc[s] = "sync_publish" /\ Goto(s, "saved") /\ RemoveTemp(s)
  /\ UNCHANGED <<dir, synced, want, stage, victims, log, overlap, mixed, exposed, bounds>>

\* The sync that ends SaveSnapshotFile; the input is removed.
SyncPublish(s) ==
  /\ pc[s] = "sync_publish" /\ SyncDirectory /\ Goto(s, "saved") /\ RemoveTemp(s)
  /\ UNCHANGED <<dir, want, stage, victims, log, overlap, mixed, bounds>>

SaveFails(s) ==
  /\ pc[s] \in {"write", "sync_root", "check", "stage", "copy", "clear", "sync_removal", "rename",
               "sync_publish"}
  /\ Fails(s)

----------------------------------------------------------------------------
(* Cutting the log and pruning *)

\* A handler loads the snapshot before it cuts the log, and gives up if it
\* cannot, or if the term has changed.
LoadInstalled(s) ==
  /\ pc[s] = "saved" /\ s \in Handler
  /\ \/ want[s] \in Loadable(dir) /\ Goto(s, "compact")
     \/ Goto(s, "idle")
  /\ UNCHANGED <<dir, synced, temp, want, stage, victims, log, overlap, mixed, exposed, bounds>>

\* CompactLogPrefixLocked and PersistStateLocked.  When the save fails a handler
\* returns, while the worker goes on to prune.
CompactLog(s) ==
  /\ pc[s] = "compact" \/ (pc[s] = "saved" /\ s \notin Handler)
  /\ marker' = Larger(marker, want[s])
  /\ \/ logStart' = marker' /\ Goto(s, "prune") /\ UNCHANGED failures
     \/ /\ failures < MaxFailures /\ failures' = failures + 1 /\ UNCHANGED logStart
        /\ Goto(s, IF s \in Handler THEN "idle" ELSE "prune")
  /\ UNCHANGED <<dir, synced, temp, want, stage, victims, overlap, mixed, exposed, kills, losses, saves>>

\* PruneSnapshots lists the catalog once and keeps the newest, be they ones
\* whose rename another thread has yet to sync, ...
PruneList(s) ==
  LET old == Valid(dir) \ Newest(Valid(dir), Keep)
      Newer(v) == {j \in Valid(dir) : j > v}
      loose == {v \in old : \A j \in Newer(v) : dir[j] # synced[j]}
  IN /\ pc[s] = "prune" /\ Goto(s, "remove")
     /\ victims' = [victims EXCEPT ![s] = old]
     /\ exposed' = exposed \cup UNION {Newer(v) : v \in loose}
     /\ UNCHANGED <<dir, synced, temp, want, stage, log, overlap, mixed, bounds>>

\* ... removes the rest file by file, from the newer to the older, ...
PruneRemove(s) ==
  /\ pc[s] = "remove"
  /\ \E i \in victims[s] :
       LET gone == dir[i] \in {Absent, Broken}
       IN  /\ \A j \in victims[s] : j <= i
           /\ dir' = [dir EXCEPT ![i] = IF gone THEN Absent ELSE Broken]
           /\ victims' = [victims EXCEPT ![s] = IF gone THEN @ \ {i} ELSE @]
  /\ UNCHANGED <<synced, temp, pc, want, stage, log, overlap, mixed, exposed, bounds>>

\* ... and syncs the root; a removal that fails ends it.
PruneDone(s) ==
  /\ pc[s] = "remove"
  /\ \/ victims[s] = {} /\ SyncDirectory /\ UNCHANGED failures
     \/ /\ failures < MaxFailures /\ failures' = failures + 1
        /\ UNCHANGED <<synced, exposed>>
  /\ Goto(s, "idle") /\ victims' = [victims EXCEPT ![s] = {}]
  /\ UNCHANGED <<dir, temp, want, stage, log, overlap, mixed, kills, losses, saves>>

----------------------------------------------------------------------------
(* Crash and restart *)

\* The constructor: the newest snapshot that loads is restored, be its rename
\* synced or not, the log is cut there and saved.
Restart ==
  /\ pc' = [s \in Saver |-> "idle"] /\ want' = [s \in Saver |-> 0]
  /\ tmp' = Absent /\ attached' = {} /\ overlap' = {}
  /\ stage' = [s \in Saver |-> Absent] /\ victims' = [s \in Saver |-> {}]
  /\ \E i \in Index \cup {0} :
       /\ IsLatest(dir', i) /\ marker' = Larger(logStart, i)
       /\ LET unsure == {j \in Index : dir'[j] # synced'[j]}
          IN  exposed' = {j \in exposed : j \in unsure \/ dir'[j] # j} \cup ({i} \cap unsure)
  /\ logStart' = marker'
  /\ UNCHANGED <<mixed, failures, saves>>

\* The process ends; the operating system keeps what it was told.
Kill ==
  /\ kills < MaxKills /\ kills' = kills + 1
  /\ UNCHANGED <<dir, synced, losses>>
  /\ Restart

\* What was not synced is lost or not, directory by directory; a removal can
\* get half way.
PowerLoss ==
  /\ losses < MaxLosses /\ losses' = losses + 1 /\ UNCHANGED kills
  /\ LET unsure == {i \in Index : dir[i] # synced[i]}
     IN  \E undone \in SUBSET unsure :
         \E half \in SUBSET {i \in unsure \ undone : dir[i] = Absent} :
           dir' = [i \in Index |-> IF i \in undone THEN synced[i]
                                   ELSE IF i \in half THEN Broken ELSE dir[i]]
  /\ synced' = dir'
  /\ Restart

----------------------------------------------------------------------------
Next ==
  \/ \E s \in Saver :
       \/ \E i \in Offered[s] : Begin(s, i)
       \/ OpenTemp(s) \/ WriteTemp(s) \/ SyncRoot(s) \/ CheckExisting(s)
       \/ MakeStaging(s) \/ CopyToStaging(s)
       \/ ClearFinal(s) \/ SyncRemoval(s) \/ Rename(s) \/ SyncPublish(s) \/ SaveFails(s)
       \/ LoadInstalled(s) \/ CompactLog(s)
       \/ PruneList(s) \/ PruneRemove(s) \/ PruneDone(s)
  \/ Kill \/ PowerLoss

Spec == Init /\ [][Next]_vars

----------------------------------------------------------------------------
(* Properties *)

\* "if staged snapshot publish fails before the final trusted publish point,
\* restart must keep using the previously trusted snapshot"
\* (snapshot_storage.cpp:715): the entries cut from the log are in a snapshot
\* that a restart would load, whatever save, prune, failure, kill or loss of
\* power comes in between.  The code leaves two gaps.  An index is exposed from
\* the moment a save removes the valid directory that another thread has just
\* published under it (725), and from the moment a restart, another save of the
\* index or a prune relies on a directory that is visible but not synced, which
\* "restart must stay on the last fully durable trusted snapshot boundary" (783)
\* rules out; it is exposed until a sync finds it in place.  And the data of an
\* index in mixed may be of another snapshot (RightContent).
LogCovered == logStart > 0 => \E i \in Loadable(dir) \cup exposed \cup mixed : i >= logStart

\* "Corrupted snapshots are ignored" (snapshot_storage.h:56): a directory that
\* passes the checksum holds the state of the index it is named after, although
\* all handlers write the same temporary file before SaveSnapshotFile copies it,
\* unless another handler opened that file between the open (1554) and the copy
\* of the one that saved the directory, or had it open then.
RightContent == \A i \in Valid(dir) : dir[i] = i \/ i \in mixed
============================================================================
