# CQUPT_Raft in TLA+

A verification development for the replicated key-value store under `src/`: a
Raft library (`src/modules/raft`), a gRPC server and a client. The modules here
are translated from the source, model-checked with TLC on small instances, and
the central facts are proved with TLAPS for every value of the constants.

`PROJECT.json` holds the exact correspondence: `map` gives the source lines of
every definition, `hazards` what is hard to test in this code and which property
watches it, `findings` where the code and its own words disagree.

## 1. The system

| Part | State | Operations that change it | Module |
|---|---|---|---|
| `RaftNode` (node/), the protocol | term, vote, role, leader, log with a marker record, commit and apply index, next/match index | `StartElection`, `OnRequestVote`, `OnAppendEntries`, `OnInstallSnapshot`, `Propose`, `ProposeNoOpEntry`, `AdvanceCommitIndexUnlocked`, constructor | `RaftLog`, `RaftCluster`, `RaftProgress`; abstract: `Election` |
| `RaftNode`, its timers | three timer ids, timer generation, `running_` | `Start`, `Stop`, `Reset…TimerLocked`, `OnElectionTimeout`, `OnSnapshotTimer`, the heartbeat callback | `NodeTimers` |
| `RaftNode`, its state machine | state machine under `apply_mu_`, pending snapshot, worker thread | `ApplyCommittedEntries`, `SnapshotWorkerLoop`, `OnInstallSnapshot`, `LoadLatestSnapshotOnStartup` | `NodeApply` |
| `Replicator` (replication/) | one RPC in flight per peer, retry backoff | `ReplicateOnce`, `HandleAppendEntriesResponse` | `RaftCluster` |
| RPC service and stubs (service/) | calls in progress | deliver, answer, deadline | `RaftCluster` |
| `FileRaftStorage` (storage/) | `meta.bin`, `log/`, `log.tmp/`, `log.bak/`, `raft_state.bin` | `Save`, `Load` | `RaftStorage` |
| `FileSnapshotStorage` (storage/) | snapshot and staging directories | `SaveSnapshotFile`, `ListSnapshots`, `PruneSnapshots` | `SnapshotStorage` |
| `KvStateMachine`, `Command` | key-value map; text encoding | `Apply`; `Serialize`, `Deserialize`, validation | `Command`, `KvService` |
| `KvServiceImpl` | calls in progress | `Put`, `Delete`, `Get` | `KvService` |
| `TimerScheduler` (runtime/) | timer heap, thread | `ScheduleAfter`, `Cancel`, `Run`, `Stop` | `TimerScheduler` |
| `ThreadPool` (runtime/) | task queue, workers | `Submit`, `WorkerLoop`, `Start`, `Stop` | `ThreadPool`; abstract: `TaskExecutor` |
| `RaftNode`, its threads | `scheduler_` and `rpc_pool_` together | callbacks and tasks that submit, `Start`, `Stop` | `NodeRuntime` |

How they interact. A timer starts an election; its vote requests run as pool
tasks. The winner appends a no-op and replicates through one `Replicator` per
peer; proposals and heartbeats share those Replicators. Every change of term,
vote, log, commit or apply index calls `PersistStateLocked`, which rewrites the
whole state through `FileRaftStorage::Save`. A worker thread writes snapshots
and compacts the log; a leader whose log no longer reaches back far enough sends
its snapshot instead. The constructor loads state, snapshot and replays the
committed entries.

What is hard. Every handler releases `mu_` around RPCs and file writes. A request
may be handled after its caller's deadline. `Save` may fail at any of a dozen
steps, and the callers react differently: some take the change back, some keep
it, some only log. The process may die between any two file operations. The
snapshot files are not guarded by any lock. A timer callback that is already
running cannot be cancelled.

What has to hold. One leader per term; a vote is never forgotten; logs agree
below a common entry; a committed entry is in every later leader's log and on a
majority of disks; nodes commit and apply the same entries, each once; a snapshot
always covers what the log has dropped; a client told `kOk` has its command
committed; what a successful `Save` stored is what the next `Load` returns; a
node always has a timer to wait for; accepted tasks run; a follower catches up.

## 2. Modules

**`RaftLog`**: the log of one node and the pure helpers on it. `log_` keeps a
marker record in front; the model keeps the marker as `snapIndex`, `snapTerm` and
the entries after it as a sequence.

**`RaftCluster`**: nodes, Replicators, network and disks together. `node[n]` is
the record of the members guarded by `mu_`. One action is one critical section of
`mu_`; a function that releases the lock is several actions (`Propose`,
`ProposeReplicated`, `ApplyCommittedEntries`, `ProposeDone`;
`OnInstallSnapshot`, `FinishInstallSnapshot`; `SaveSnapshot`,
`CompactAfterSnapshot`). `ProposeReplicated` takes the count of match indexes and the
advance of the commit index after it as one step, though `mu_` is released in
between: a node deposed there commits nothing, but its entry is on a majority
already, and whoever commits it later commits the same one. An RPC is a record in
`rpcs`; `live` says whether its caller still waits. An RPC that stays there for good is a lost one. `disk[n]` is
what `Load` would return. A save that fails leaves the old or the new state on
disk, because `Save` can fail after it has published. `CrashRestart` is the
constructor applied to the disk. `ballots`, `leaders` and `chosen` are history:
who voted for whom, who led, what was committed and in which term.
Abstractions: commands are model values; timers, heartbeats and snapshot
thresholds may fire at any time, so election timing and backoff play no role in
safety; a refused vote in the request's own term is dropped since its caller
ignores it; a proposal that ends with an error changes nothing on the node and
stays in `calls`.

**`Election`**: what elections promise, on `ballots` and `leaders` alone: a ballot
is cast once, a leader is crowned by a majority of ballots. `RaftCluster` shows
that it implements it (`ImplementsElection == Record!Spec`), with its history
variables as the mapping.

**`RaftProgress`**: `RaftCluster` with fairness (section 4), for what a stable
leader owes its followers. `MCRaftProgress` starts after changes of leaders, with
logs that are behind, ahead or in conflict, and with a leader that has compacted
its own.

**`NodeTimers`**: the three timers of one node with `Start` and `Stop`. `pending`
is what the scheduler holds, `callback` the one it is in; a dequeued callback is
out of the reach of `Cancel`, as in `TimerScheduler`. A critical section that
cancels and arms is one action built from operators on `[gen, timer, pending]`.
Handlers are known by their effect on role and timers. Ids and generations are
only compared, so unused numbers are given again, which makes the model finite
without a bound. `Snapshotting` says whether the configuration has snapshots, and
with them a snapshot timer.

**`NodeApply`**: one node's state machine as the sequence of entries it reflects,
the indexes, the valid snapshots, and the threads: appliers, the snapshot worker,
InstallSnapshot handlers. Everything here is committed, so an index stands for
its entry. The steps follow `apply_mu_` (`ApplyMuFree`) and the places where
`mu_` is released. Every save may fail, with the reaction of its caller: a
follower takes a commit index back, everyone else keeps the change in memory
(`behind`), and a restart begins from `diskCommit` and `diskMarker`. `refused` is an
entry that `Apply` refuses; the constructor throws when its replay meets it, and
the process is down for good.

**`RaftStorage`**: `Save` as its sequence of renames and removals, beginning with
the removal of an old `log.tmp/`, a failure or a crash at each of them, a record that becomes unreadable, and `Load` with its
truncation and boundary checks. Directory contents are sequences of records
(index, term, readable); `durable` is the last state a `Save` returned true for.
`raft_state.bin` is the former layout: read when there is no `meta.bin`, removed,
or not, by a `Save` that succeeds. `RaftCluster` uses the outcome of this module
as an assumption: a save leaves the old or the new state. Section 5 lists the
windows in which that is not so.

**`SnapshotStorage`**: snapshot directories as a reader sees them and as the last
sync made them durable, and the threads that save (staging, removal of an old
directory, rename, sync), load, compact and prune, step by step. `Kill` ends the
process, `PowerLoss` also takes what was not synced, directory by directory;
both are followed by the constructor. Workers and handlers may save one index, and
all handlers open, truncate and write one temporary file; `overlap`, `mixed` and
`exposed` are history: who had that file together, which indexes were saved from
it, and which are relied on though no sync vouches for them. A directory that passes its checksum holds
some data: the right one, another index's, or a torn one whose checksum was
computed after the tear.

**`Command`**: texts as sequences of pieces, validation, `Serialize`, `Split`
(with `getline`'s treatment of an empty last part), `Deserialize`, and `Apply` on
the map. Pieces are the ones a property tells apart: `'|'`, ordinary ones, one
that is too long.

**`KvService`**: `Put`, `Delete` and `Get` on every node, as the critical sections
they are, above one log of committed entries. That there is one such log is what
`RaftCluster` checks. A call knows its entry by a number, where the code compares
indexes only: the false acknowledgement that follows from this is shown there
(section 5) and left out here. `disk[n]` is the `last_applied_` of n's newest
save; a restart replays at least that much.

**`ThreadPool`**, **`TimerScheduler`**: condition variables, with the notification
as a step of its own where the code sends it after the unlock, and spurious
wakeups. `ScheduleAfter` reads the clock before it takes the lock, so a deadline may
be computed from an earlier time. **`TaskExecutor`** is what callers expect of the pool: accepted tasks are
executed once, and a closed executor finishes them all. `ThreadPool` implements
it (`IsExecutor`), liveness included.

**`NodeRuntime`** composes the two as `RaftNode` does: it extends `ThreadPool` and
instantiates `TimerScheduler` with its variables renamed. A timer callback may
submit tasks while it runs (`StartElection`, `SendHeartbeats`), a task may submit
others (`OnElectionWon`), and `RaftNode::Stop` stops the scheduler, joins it, and
only then stops the pool.

**`MC…`** modules are the instances for TLC, **`…Proofs`** hold the theorems.

## 3. Runs that pass

The passing `RaftCluster` runs use three nodes, the smallest cluster with a
majority that is not everybody; `stalecommit` (section 5) shows what five add. `Electable` says which node may start which term, `Link` which
nodes can reach each other, `MaxApplied` who applies entries; they cut the state
space to the history a run is about and leave everything else free.

| Run | Instance | Checks |
|---|---|---|
| `overtaking` | 4 terms, the first contested by two candidates, diverging logs of 2 entries, one late request or one crash | `ElectionSafety`, `LeaderCompleteness`, `LogMatching`, `MatchIndexTruth`, `CommittedDurable` |
| `snapshotcrash` | 2 leaders, logs of 2 entries, one snapshot taken, compacted and installed; one of a client's command (then logs of one entry), a failed save and a crash of the second leader | `TypeOK`, `PromiseKept`, `SnapshotCoversLog`, `IndexOrder`, `StateMachineSafety`, `AckSafety`, `ImplementsElection` |
| `catchup` | a leader of term 3 and followers, 14 starts: logs that are behind, ahead or in conflict, with and without a snapshot and an entry after it; lost calls, refused installs | `FollowersCatchUp` |
| `storage` | 5 saves from an empty directory or a former layout, 2 mishaps out of failing operations, crashes, a torn record and a `raft_state.bin` that stays; segments of 2 records | `TypeOK`, `SavedIsLoaded`, `CommittedSurvives`, `CommittedOnDisk` |
| `snapshotfiles` | worker and two handlers that save the same two indexes, 3 saves, 1 snapshot kept, a kill, a loss of power, a failing operation | `LogCovered`, `RightContent` |
| `nodeapply` | 3 entries, all accepted by `Apply` or the second refused, a snapshot after each, two handlers, a crash, and one of a failed write or save, a call given up, a stale install, a damaged snapshot and a new term | `StateIsPrefix`, `MarkerCovered`, `IndexesNeverFall`, `CommittedApplied`, `LogGetsCompacted` |
| `noderuntime` | 2 workers, the scheduler thread, 2 tasks, 2 timers with 2 delays, clock up to 2 | `ExactlyOnce`, `NoLostWakeup`, `CallbacksServed`, `NoOversleep`, `CancelWins`, `IsExecutor`, `EveryTaskFires`, `NodeStopReturns` |
| `nodetimers` | all of it; 4 numbers for ids and generations | `TimersOwned`, `NeverStranded`, `QuietAfterStop`, `KeepsCampaigning`, `KeepsBeating` |
| `kvservice` | 2 nodes, a writer, a reader, 2 reigns, 3 entries, a failing save, a restart | `StateIsExpected`, `ReadsOwnAcks`, `SettledLeaderIsCurrent` |

Some properties hold except after events that section 5 describes, and their
statements name the exceptions: `StateIsPrefix` (`Undisturbed`), `MarkerCovered` (a
damaged snapshot), `LogCovered` (`exposed`, `mixed`), `RightContent` (`mixed`),
`FollowersCatchUp` (`Overshot`), `CommittedSurvives` and `CommittedOnDisk` (a kept
`raft_state.bin`, a torn record, for the second also a third `Save` after two that
left no `log/`), `IndexesNeverFall` and `ReadsOwnAcks` (a restart after a failed
save), `CommittedApplied` (a failed save, a refused entry) and `LogGetsCompacted` (a
failed write). No instance is chosen to avoid them: the events happen in the runs.

What some runs do not reach: `overtaking` has no failing saves, which are in
`snapshotcrash`; `snapshotcrash` takes one snapshot and has no history of four
terms, so there `StateMachineSafety` says little about overwritten entries, which
`LeaderCompleteness` in `overtaking` watches. Pruning and saving are single steps in
`nodeapply` and split into file operations in `snapshotfiles`.

Why the bounds are enough to be interesting: a second term gives a vote something
to be forgotten for; overwriting a committed entry of an earlier term needs four
terms and two entries; a compacted log needs five saves (term, append, commit,
apply, compact); three entries at a threshold of one are three snapshots, one of
them requested while another is written; a kill and a loss of power are a restart
that trusts an unsynced directory and the event that takes it; three saves of two
indexes let two handlers mix their files while the worker publishes; two workers and two tasks, one of
which submits the other, let a notification reach the wrong sleeper. Three runs
bound mishaps jointly (`CONSTRAINT`): a state with more of them is checked but not
continued. For each property there is a mutant,
a plausible slip in the code (a quorum of half the nodes, a forgotten vote, a
notification left out, a snapshot filed under the index of its request, a sync
left out ...), under which the same run finds a violation.

Deadlock is checked in `noderuntime`. Elsewhere the bounds, or a
stopped node, make behaviours end. The `VIEW` of `MCRaftCluster` leaves out
values no later step reads (vote counts outside a candidacy, next and match index
outside leadership, vote replies that will be dropped), and of the properties only
`TypeOK` looks at them. The `VIEW` of `MCKvService` leaves
out what a finished call no longer needs. A symmetry exchanges the nodes of
`kvservice`, which are alike in every constant; no liveness run uses one.

## 4. Fairness

- `ThreadPool`, `TimerScheduler`, and both in `NodeRuntime`: every thread that can take its next step does
  (weak fairness of the worker's turn, the notifications after an unlock, the
  join), and the clock goes on. In `NodeRuntime` a `Stop` of the node goes from the
  scheduler on to the pool. Nothing is assumed of callers: they need not
  submit, schedule or stop.
- `NodeTimers`: the scheduler's thread finishes its callbacks, `Start` and `Stop`
  go on once begun, and an armed timer fires, because the heap is ordered by
  deadline. An election timer may be put off for ever by messages: it is fair
  only if they stop.
- `NodeApply`: threads take their next step, and `apply_mu_`, which every holder
  gives back, is obtained by everyone who waits (strong fairness, since others
  may have it in between). `CommittedApplied` and `LogGetsCompacted` except
  behaviours with a failed save or write: after one the code waits for the next
  event.
- `RaftProgress`: threads go on, heartbeats come back to `ReplicateOnce` for each
  peer, and from some time on no call is abandoned and snapshot files can be
  written and loaded. Before that calls may be lost at will.

## 5. Where code and words disagree

With three nodes the consensus core is safe within the bounds: late requests,
failed saves that reached the disk, crashes at every step, and installs that race
with compaction included. Three runs show, with a trace, that the code does what
one of its own messages, comments or documents excludes:

- `falseack` (`AckedImpliesChosen`): a client can be told "command committed and
  applied" for a command that is in no log. `ReplicateLogEntryToMajority` looks at
  role and match index, not at the term of the entry. A leader is deposed, its
  entry is overwritten, it is elected again, and the waiting call succeeds with the
  other entry. `AckSafety` is the part that holds.
- `stalecommit` (`AppliedConsistently`): with five nodes two of them can commit
  different entries at one index. `OnAppendEntries` caps the leader's commit index
  by the end of the follower's whole log (raft_node.cpp:1453), and not by the last
  entry the request has matched. n1 leads term 1 and has two entries; n2 has the
  first, wins term 2 with n3 and n4, and commits an entry of its own at index 2.
  n5 cannot save the new term when n2's first request comes, so its answer only
  says that its log is empty, and n2 goes back to index 1. n5 restarts in
  its old term and takes both entries from n1. The next batch of n2 ends at index 1
  (a batch has at most 256 entries; one in the model) and says that 2 is committed:
  n5 commits n1's entry at 2. No late message is needed. The condition is a node
  whose term in memory went back: it had answered a leader in a term that it
  forgot. In the three-node runs such a node is needed for the majority, which is
  why `StateMachineSafety` holds there; it is no theorem for all clusters.
- `storageamnesia` (`HardStateKept`): a crash between the removal of `meta.bin` and
  the rename of `meta.bin.tmp` makes `Load` report that nothing was ever
  persisted: term, vote and log are lost.

Other disagreements are exceptions in the statements of the properties. Each was met as a counterexample while the properties were being stated:

- `OnInstallSnapshot` (raft_node.cpp:1536, :1588, :1596) replaces the state machine
  by a state that `last_applied_` does not describe, in three ways: a snapshot
  above the last one but below `last_applied_` (`stale`); an older handler that
  comes after a newer one (`late`); a term that changes between the load and the
  check (`term`). Entries are then missing, or applied twice.
- With a damaged newest snapshot (`damage`) a restart takes an older one and skips
  the entries between it and the log (raft_node.cpp:2379).
- A restart trusts a snapshot whose directory was not synced and cuts the log
  there; a later loss of power takes the snapshot (snapshot_storage.cpp:784). So do
  a second save of the same index, which returns when it finds the directory, and a
  prune that counts it among the newest (`exposed`).
- Two threads saving one index: the second removes the directory the first has
  published, and a kill before its rename loses what the log has dropped
  (snapshot_storage.cpp:725; `exposed`).
- Two handlers share one temporary file, and a snapshot gets the content of another
  index with a checksum that fits (raft_node.cpp:1554; `mixed`).
- After a refused InstallSnapshot `next_index_` is set past the end of the leader's
  log if the follower's stale log is longer (raft_node.cpp:1266), and the install
  that succeeds keeps the maximum (:1277). The leader then sends the same snapshot
  again and again, and the follower lacks what comes after it until the leader's log
  has grown (`Overshot`).
- `AdvanceCommitIndexUnlocked` and `ApplyCommittedEntries` keep an index whose save
  failed (raft_node.cpp:2183, :2266), and `Propose` answers kOk. After a restart the
  node replays less than it acknowledged (`forgot` in `KvService`, `behind` in
  `NodeApply`) until it hears of the commit again; the entry itself is on a majority.
- `Save` begins by removing `log.tmp/` (raft_storage.cpp:851). After two failed Saves
  that left no `log/` it is the only copy of the log: the first moved `log/` to
  `log.bak/` and could rename neither `log.tmp/` into place nor `log.bak/` back, the
  second removed `log.bak/` (`missing`).
- `Load` refuses a directory, and the node does not start, after a crash between
  the two renames of `ReplaceDirectory` (`log.bak/` is never read,
  raft_storage.cpp:714), after a crash between the publication of a shorter log and
  of `meta.bin` (:1191), and when a node restarts twice without a save after a torn
  tail was cut (:1191). The entries are still in one of the directories
  (`CommittedOnDisk`).
- A `raft_state.bin` that could not be removed comes back as the node's state when a
  later `Save` is cut off while it replaces `meta.bin` (raft_storage.cpp:901).
- `StartElection` does not look at the timer generation again, so a timer that a
  message has just reset can still start an election (raft_node.cpp:637).
  `NeverStranded` and `ElectionSafety` say that it does no worse.
- A `Put` of an empty value is accepted, committed and cannot be parsed
  (`EmptyValueLost` in section 6). Nodes stop applying there, and the constructor
  throws at every later start (`ApplyRefused` and `CrashForGood` in `NodeApply`).
- `Put` takes the leader's id from `Propose` and the address from a later status;
  they may be about two nodes (kv_service_impl.cpp:120).

In the other direction `storage` shows that whatever `Load` accepts of the
segmented layout is sound: no term goes back and no committed entry changes; one
disappears only behind a torn record, and then the commit and apply boundaries are
cut with it.

## 6. Proofs

Assumptions are the named `ASSUME`s of the modules (finite sets of nodes or
workers, distinct model values, bounds that are numbers). Nothing is assumed about
sizes, and no theorem about a specification assumes that a fault is absent.

The theorems about `RaftCluster` are stated in `RaftProofs`. The modules it
extends hold the steps, and take what they need of finite sets as a hypothesis,
`SetFacts` (two majorities meet, sizes are numbers, a set of numbers has a least
member); `RaftProofs` proves `SetFacts` from the finite set theorems.

**`TypeCorrect`** (steps in `RaftTypeProofs`): `Spec => []TypeOK` for `RaftCluster`. One
lemma for every operator of `RaftLog`, one for every action, combined over `Next`.
The work is in the sequence operators: `LogAfterAppend`,
`RestoreLogAfterSnapshot` and the batches must return sequences of entries.

**`VotesRemembered`, `VotesCounted`, `OneLeaderPerTerm`** (steps in `RaftElectionProofs`).
The inductive invariant is `TypeOK /\ PromiseKept /\ VotesBacked`.
`ElectionSafety` alone is not inductive: it says nothing about votes on their way
or about what a restarted voter remembers. A ballot is cast only by a step that
stores it in memory and on disk; every other step leaves memory and disk of a
node at least as far (`Follows`: a higher term, or the same term with the vote
kept), failed saves included; so a voter in a term it voted in still names its
candidate and no second ballot of that term is cast. A counted vote is then a
ballot, a leader has a majority of ballots, and two majorities of one finite set
share a voter (`QuorumsMeet`).

**`RaftImplementsElection`** (steps in `RaftElectionProofs`): from that invariant, every
step of `RaftCluster` is a vote, the crowning of a leader, or a stutter of
`Election`.

**`SnapshotsCoverLogs`, `AppliedInOrder`** (steps in `RaftSnapshotProofs`). The first is
`SnapshotCoversLog`, which speaks of disks only. A save writes the marker that is
in memory; that one comes from a snapshot the worker has published, from an install
that is still running, or, at a restart, from the disk. `SnapshotInv` says of all of
them that the newest snapshot file reaches as far; files only get newer. The same
invariant has marker <= `last_applied_` <= `commit_index_` on every node, which is
`AppliedInOrder`.

**`PoolExactlyOnce`, `PoolNoLostWakeup`, `PoolDrained`, `PoolImplementsExecutor`**
(`NodeRuntimeProofs`, about `ThreadPool` by itself). The inductive invariant
`PoolInv` adds to the three properties where a task and a worker may be (`Places`).
`NoLostWakeup` carries liveness and is itself inductive with it: when a task is
queued and no worker is up, the `notify_one` of its `Submit` is still on its way.
The refinement theorem is the safety part of `IsExecutor`.

**`NodeTasksRun`, `NodeNoLostWakeup`, `NodeCallbacksServed`, `NodeNoOversleep`, `CancelledNeverRuns`,
`NodeImplementsExecutor`** (`NodeRuntimeProofs`, about the node). Every step of
`NodeRuntime` is a step of the pool and a step of the scheduler, or leaves the one
or the other as it is (`ComponentSteps`); so an invariant of a component with any
callers is one of the node. `TimerInv`: pending, called and cancelled tasks are
disjoint sets of ids below `next_id_`. `WaitInv`: the thread's deadline is not
after any timer's unless a notification is on its way. What the node adds is the order in `Stop`:
the pool is stopped only when the scheduler has been joined.

**`EveryTimerOwned`, `NodeNeverStranded`, `StopIsQuiet`** (`NodeRuntimeProofs`, about `NodeTimers`). The
three are not inductive alone: `TimersInv` adds that each armed timer carries the
id the node keeps for it and an election timer the current generation (`WF`),
that a leader that is starting already beats, and that a called election timer
with the current generation excludes an armed one. The proofs work on the record
of generation, ids and pending timers that the code's `Reset…` and `Cancel…`
functions change, one lemma per function.

**`ContentIsRight`, `EntriesStayCovered`** (`SnapshotStorageProofs`), for any number
of workers and handlers, shared indexes, kills, losses of power and failures.
`ContentInv` follows the data through temporary file and staging directory: what a
handler reads back is its own unless it is in `overlap`, and only handlers write the
file (`TempData`, `StagedData`, `Met`). A snapshot is `Held` if it is in place
and synced, or in `exposed` or `mixed`. `CoverInv` says that a held one covers the
marker, the log's start and every index at which a thread is about to cut the log,
and that every victim of a prune list still being worked off has a newer held one
(`Relies`). Every step keeps a held snapshot or leaves a newer one (`KeepsUp`), a loss
of power included.

**`IndexesForward`, `LogStaysCovered`, `AppliesEachOnce`** (`NodeApplyProofs`).
`IndexInv` (types, order of the indexes, what each thread's index is compared
with, and that a disk which is not `behind` has them all) gives the first with every
fault included. `CoverInv` adds that the worker
and the handlers hold an index some file covers. `AppliesEachOnce` is
`StateIsPrefix` with its four exceptions and any number of handlers, crashes and
failing writes; its invariant says what the state machine is while a thread is inside
`apply_mu_`.

**`GetSeesOwnAcks`, `SettledLeaderCurrent`** (`KvServiceProofs`). `KvInv` says that
reigns in the log only rise and each belongs to one node, that what a node
acknowledged it has applied unless it is in `forgot`, that entries a call waits for are of the call's
reign, and that while a node leads the newest reign nobody else has acknowledged
an entry of it. So a leader that has applied one entry of its reign is past every
acknowledged one.

**`ValidatedRoundTrip`, `EmptyValueLost`** (`KvServiceProofs`): `Deserialize` undoes
`Serialize` for every validated command except a `Set` with an empty value, where
it fails.

Only model-checked:

- `LogMatching`, `LeaderCompleteness`, `CommittedDurable`, `MatchIndexTruth`,
  `StateMachineSafety`, `AckSafety` and the rest of `IndexOrder`. `StateMachineSafety`
  does not hold of every cluster (`stalecommit`), and in this code the others rest
  on it: `CompactAfterSnapshot` and an install cut a log at a committed index, and a
  log cut at an index that was committed with another entry no longer matches.
- `RaftStorage`: `Load` filters and cuts sequences of records, which the provers
  cannot follow without induction on their length.
- `StateIsExpected`: `Expected` and `Replayed` are recursive.
- Liveness under fairness, and with it the fairness part of `IsExecutor`.

## 7. Not modelled

- Configuration, logging, metrics, the wording of messages, `Status`, `Health` and
  `Metrics` (they only read), `ValidateNodeIdentity`.
- `main.cpp` and the client program: command lines, a sleep loop, one RPC per
  command; they keep no state between steps.
- The lifetime of a `RaftNode` object: the destructor called by the last
  `shared_ptr` on a pool or timer thread, the snapshot worker left joinable by
  a `Start` that throws, and a `Stop` called while `Start` is still running.
- `mu_` in `NodeRuntime`: `NodeStopReturns` is about the joins and the queue, and a
  `Stop` that waited for a lock it holds itself would not show. Redirects: whom a
  node names as leader is state of `RaftCluster` and `KvService` that no property
  is about.
- The fallback of `SendInstallSnapshotToPeer` to another snapshot when the one of
  the marker is gone. `LogCovered` says when it is there.
- In the snapshot storage: flat files of the former layout, the refusal of an
  existing snapshot with another term (an index has one term), two staging
  directories named in the same millisecond. The byte formats of snapshots,
  segments and meta files: a record or file is readable or not.
- An unreadable `meta.bin` or `raft_state.bin`: `Load` fails and the node does not
  start.
- Linearizable reads: no document promises them, and a deposed leader that has not
  heard of its successor answers `Get` with old values. `ReadsOwnAcks` and
  `SettledLeaderIsCurrent` state what reads do guarantee.
