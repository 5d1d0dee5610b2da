--------------------------- MODULE NodeApplyProofs ---------------------------
(***************************************************************************)
(* For every set of handlers and every bound: the indexes of a node never  *)
(* fall, and over a restart after a failed save not below what is on disk; *)
(* its log is cut only where a snapshot on disk covers it; and the         *)
(* state machine reflects exactly the entries up to last_applied_ as long  *)
(* as no install is stale, late or overtaken by a new term and no snapshot *)
(* is damaged.                                                             *)
(***************************************************************************)
EXTENDS NodeApply, FiniteSetTheorems, SequenceTheorems, TLAPS

WorkerLabel == {"idle", "woken", "saved", "published", "compacted", "done"}
HandlerLabel == {"idle", "saving", "saved", "loaded", "pruning"}

Indexes ==
  /\ applied \in Nat /\ commit \in Nat /\ marker \in Nat
  /\ applying \in Nat /\ pending \in Nat /\ term \in Nat /\ crashes \in Nat

WorkerShape ==
  /\ worker = [pc |-> worker.pc, index |-> worker.index, data |-> worker.data]
  /\ worker.pc \in WorkerLabel /\ worker.index \in Nat

HandlerShape ==
  handlers \in [Handler -> [pc : HandlerLabel, index : Nat, term : Nat, live : BOOLEAN]]

Ordered == marker <= applied /\ applied <= commit
Turn == applying # 0 => applying = applied + 1 /\ applied < commit
Exclusive ==
  /\ applying # 0 => \A h \in Handler : handlers[h].pc # "loaded"
  /\ \A g, h \in Handler : handlers[g].pc = "loaded" /\ handlers[h].pc = "loaded" => g = h
WorkerBehind == worker.pc \in {"saved", "published"} => worker.index <= applied

Persisted ==
  /\ diskCommit \in Nat /\ diskMarker \in Nat
  /\ diskMarker <= diskCommit /\ diskMarker <= marker
  /\ behind \/ (diskCommit = commit /\ diskMarker = marker)

\* last_applied_ moves only under apply_mu_, so the applier's next index stays
\* valid over its unlocked Apply, and the worker's index stays behind.
MemoryInv ==
  Indexes /\ WorkerShape /\ HandlerShape /\ Ordered /\ Turn /\ Exclusive /\ WorkerBehind

\* The disk has the indexes of memory unless the last save failed.
IndexInv == MemoryInv /\ Persisted

Raised == applied' >= applied /\ commit' >= commit /\ marker' >= marker
Fallen == crashes' > crashes /\ behind /\ applied' >= diskCommit /\ marker' >= diskMarker

Forward == marker' <= applied' /\ applied' <= commit' /\ (Raised \/ Fallen)

LEMMA SumNat == \A a, b \in Nat : a + b \in Nat
OBVIOUS

LEMMA InitIndex == Init => IndexInv
<1> SUFFICES ASSUME Init PROVE IndexInv
  OBVIOUS
<1>1. Indexes /\ Ordered /\ Turn /\ Persisted
  BY DEF Init, Indexes, Ordered, Turn, Persisted
<1>2. WorkerShape /\ WorkerBehind
  BY DEF Init, WorkerShape, WorkerLabel, WorkerBehind, IdleWorker
<1>3. HandlerShape /\ Exclusive
  BY DEF Init, HandlerShape, HandlerLabel, IdleHandler, Exclusive
<1> QED
  BY <1>1, <1>2, <1>3 DEF IndexInv, MemoryInv

LEMMA StepMemory == ASSUME IndexInv, Step PROVE MemoryInv' /\ Forward
<1> USE DEF IndexInv, MemoryInv, Indexes, Ordered, Larger, Forward, Raised, indexes, node, threads,
            counts, MaybeScheduleSnapshot
<1>1. CASE LearnCommit \/ NewTerm \/ OnSnapshotTimer \/ CommitTakenBack \/ SavedAgain
  BY <1>1 DEF LearnCommit, NewTerm, OnSnapshotTimer, CommitTakenBack, SavedAgain, WorkerShape,
              HandlerShape, Turn, Exclusive, WorkerBehind
<1>11. CASE AdvanceNotSaved
  <2>1. /\ commit' = commit + 1
        /\ UNCHANGED <<applied, marker, applying, pending, term, crashes, worker, handlers>>
    BY <1>11 DEF AdvanceNotSaved, NotSaved
  <2> QED
    BY <2>1 DEF WorkerShape, HandlerShape, Turn, Exclusive, WorkerBehind
<1>2. CASE EnterApply
  BY <1>2 DEF EnterApply, ApplyMuFree, NextToApply, WorkerShape, HandlerShape, Turn,
              Exclusive, WorkerBehind
<1>3. CASE ApplyEntry \/ ApplyRefused \/ ApplyNotSaved
  <2>1. CASE ApplyEntry
    BY <2>1 DEF ApplyEntry, NextToApply, WorkerShape, HandlerShape, Turn, Exclusive, WorkerBehind
  <2>2. CASE ApplyRefused \/ ApplyNotSaved
    BY <2>2 DEF ApplyRefused, ApplyNotSaved, NotSaved, WorkerShape, HandlerShape, Turn, Exclusive,
                WorkerBehind
  <2> QED
    BY <1>3, <2>1, <2>2
<1>4. CASE WorkerWakes \/ WorkerSaves \/ WorkerPublishes \/ WorkerPrunes \/ WorkerDone \/ WorkerFails
  <2>1. UNCHANGED <<indexes, term, applying, handlers, crashes>>
    BY <1>4 DEF WorkerWakes, WorkerSaves, WorkerPublishes, WorkerPrunes, WorkerDone, WorkerFails
  <2>2. CASE WorkerSaves
    BY <2>1, <2>2 DEF WorkerSaves, WorkerShape, WorkerLabel, HandlerShape, Turn, Exclusive,
       WorkerBehind
  <2>3. CASE WorkerWakes
    <3>1. worker' = [pc |-> "woken", index |-> pending, data |-> worker.data] /\ pending' = 0
      BY <2>3 DEF WorkerWakes, WorkerShape
    <3> QED
      BY <2>1, <3>1 DEF WorkerShape, WorkerLabel, HandlerShape, Turn, Exclusive, WorkerBehind
  <2>5. CASE WorkerDone
    <3>1. pending' \in Nat /\ worker' = IdleWorker
      BY <2>1, <2>5 DEF WorkerDone
    <3> QED
      BY <2>1, <3>1 DEF WorkerShape, WorkerLabel, IdleWorker, HandlerShape, Turn, Exclusive,
         WorkerBehind
  <2>4. CASE WorkerPublishes \/ WorkerPrunes \/ WorkerFails
    <3>1. worker'.pc \in {"published", "done"} /\ worker'.index = worker.index
          /\ worker'.data = worker.data /\ (worker'.pc = "published" => worker.pc = "saved")
      BY <2>4 DEF WorkerPublishes, WorkerPrunes, WorkerFails, WorkerShape
    <3>2. worker' = [pc |-> worker'.pc, index |-> worker'.index, data |-> worker'.data]
      BY <2>4 DEF WorkerPublishes, WorkerPrunes, WorkerFails, WorkerShape
    <3>3. pending' = pending
      BY <2>4 DEF WorkerPublishes, WorkerPrunes, WorkerFails
    <3> QED
      BY <2>1, <3>1, <3>2, <3>3 DEF WorkerShape, WorkerLabel, HandlerShape, Turn, Exclusive,
         WorkerBehind
  <2> QED
    BY <1>4, <2>2, <2>3, <2>4, <2>5
<1>5. CASE WorkerCompacts \/ WorkerNotSaved
  BY <1>5 DEF WorkerCompacts, WorkerNotSaved, NotSaved, CompactLogPrefix, WorkerShape, WorkerLabel, HandlerShape, Turn,
              Exclusive, WorkerBehind
<1>6. ASSUME NEW h \in Handler,
             InstallSaves(h) \/ InstallLoads(h) \/ InstallFindsNothing(h) \/ InstallTooLate(h)
               \/ InstallPrunes(h) \/ InstallFails(h) \/ LeaderGivesUp(h)
      PROVE  MemoryInv' /\ Forward
  <2>1. UNCHANGED <<indexes, term, applying, pending, worker, crashes>>
    BY <1>6 DEF InstallSaves, InstallLoads, InstallFindsNothing, InstallTooLate, InstallPrunes,
                InstallFails, LeaderGivesUp
  <2>2. CASE InstallLoads(h)
    BY <2>1, <2>2 DEF InstallLoads, ApplyMuFree, WorkerShape, HandlerShape, HandlerLabel, Turn,
                      Exclusive, WorkerBehind
  <2>3. CASE InstallSaves(h)
    BY <2>1, <2>3 DEF InstallSaves, WorkerShape, HandlerShape, HandlerLabel, Turn,
                      Exclusive, WorkerBehind
  <2>4. CASE LeaderGivesUp(h)
    <3>1. HandlerShape' /\ \A g \in Handler : handlers'[g].pc = handlers[g].pc
      BY <2>4 DEF LeaderGivesUp, HandlerShape
    <3> QED
      BY <2>1, <3>1 DEF WorkerShape, Turn, Exclusive, WorkerBehind
  <2>5. CASE handlers' = [handlers EXCEPT ![h] = IdleHandler]
    BY <2>1, <2>5 DEF WorkerShape, HandlerShape, HandlerLabel, IdleHandler, Turn,
                      Exclusive, WorkerBehind
  <2> QED
    BY <1>6, <2>2, <2>3, <2>4, <2>5
    DEF InstallFindsNothing, InstallTooLate, InstallPrunes, InstallFails
<1>7. ASSUME NEW h \in Handler, InstallTakes(h) \/ InstallNotSaved(h) PROVE MemoryInv' /\ Forward
  <2>1. CASE InstallTakes(h)
    BY <2>1 DEF InstallTakes, CompactLogPrefix, WorkerShape, HandlerShape, HandlerLabel, Turn,
                Exclusive, WorkerBehind
  <2>2. CASE InstallNotSaved(h)
    BY <2>2 DEF InstallNotSaved, NotSaved, CompactLogPrefix, IdleHandler, WorkerShape, HandlerShape,
                HandlerLabel, Turn, Exclusive, WorkerBehind
  <2> QED
    BY <1>7, <2>1, <2>2
<1>8. ASSUME NEW h \in Handler, NEW i \in Index, InstallBegins(h, i) PROVE MemoryInv' /\ Forward
  BY <1>8, ApplyAssumption DEF InstallBegins, Index, WorkerShape, HandlerShape, HandlerLabel, Turn,
              Exclusive, WorkerBehind
<1>9. CASE CrashAndRestart
  <2>1. PICK i \in 0 .. MaxIndex : Recover(i)
    BY <1>9 DEF CrashAndRestart
  <2>2. Ordered' /\ applied' \in Nat /\ commit' \in Nat /\ marker' \in Nat
        /\ applied' >= diskCommit /\ marker' >= diskMarker /\ commit' = applied'
    BY <2>1, ApplyAssumption DEF Recover, ReplayTo, Persisted
  <2>3. applying' = 0 /\ term' = term /\ pending' \in Nat
    <3>1. pending' \in {marker' + Threshold, 0}
      BY <1>9 DEF CrashAndRestart
    <3>2. applying' = 0 /\ term' = term
      BY <1>9 DEF CrashAndRestart, NoThreads
    <3>3. MaxIndex \in Nat /\ Threshold \in Nat
      BY ApplyAssumption
    <3>4. marker' + Threshold \in Nat
      <4>1. marker' \in Nat
        BY <2>2
      <4> QED
        BY <3>3, <4>1, SumNat, Zenon
    <3> QED
      BY <3>1, <3>2, <3>4
  <2>4. worker' = IdleWorker /\ handlers' = [h \in Handler |-> IdleHandler]
    BY <1>9 DEF CrashAndRestart, NoThreads
  <2>5. HandlerShape' /\ Exclusive'
    BY <2>3, <2>4 DEF HandlerShape, HandlerLabel, IdleHandler, Exclusive
  <2>6. WorkerShape' /\ WorkerBehind'
    BY <2>4 DEF WorkerShape, WorkerLabel, IdleWorker, WorkerBehind
  <2>7. crashes' = crashes + 1
    BY <1>9 DEF CrashAndRestart
  <2>8. Raised \/ Fallen
    BY <2>2, <2>7 DEF Persisted, Fallen
  <2> QED
    BY <2>2, <2>3, <2>5, <2>6, <2>7, <2>8 DEF Turn
<1>12. CASE CrashForGood
  <2>1. /\ UNCHANGED <<indexes, term>> /\ crashes' = crashes + 1 /\ pending' = 0 /\ applying' = 0
        /\ worker' = IdleWorker /\ handlers' = [h \in Handler |-> IdleHandler]
    BY <1>12 DEF CrashForGood, NoThreads
  <2>2. HandlerShape' /\ Exclusive'
    BY <2>1 DEF HandlerShape, HandlerLabel, IdleHandler, Exclusive
  <2>3. WorkerShape' /\ WorkerBehind'
    BY <2>1 DEF WorkerShape, WorkerLabel, IdleWorker, WorkerBehind
  <2> QED
    BY <2>1, <2>2, <2>3 DEF Turn
<1>10. ASSUME NEW i \in Index, Damage(i) PROVE MemoryInv' /\ Forward
  BY <1>10 DEF Damage, WorkerShape, HandlerShape, Turn, Exclusive, WorkerBehind
<1> QED
  BY <1>1, <1>2, <1>3, <1>4, <1>5, <1>6, <1>7, <1>8, <1>9, <1>10, <1>11, <1>12
  DEF Step, WorkerStep, HandlerStep

LEMMA SavedPersists ==
  ASSUME commit' \in Nat, marker' \in Nat, marker' <= commit', Saved
  PROVE  Persisted'
BY DEF Saved, Persisted

LEMMA NotSavedPersists ==
  ASSUME Persisted, marker \in Nat, commit' \in Nat, marker' \in Nat, marker' <= commit',
         marker <= marker', NotSaved
  PROVE  Persisted'
BY DEF NotSaved, Persisted

LEMMA StepPersisted == ASSUME IndexInv, Step PROVE Persisted'
<1>1. /\ commit \in Nat /\ marker \in Nat /\ applied \in Nat /\ marker <= commit
      /\ commit' \in Nat /\ marker' \in Nat /\ marker' <= commit' /\ Persisted
  BY StepMemory DEF IndexInv, MemoryInv, Indexes, Ordered
<1>2. ASSUME UNCHANGED <<commit, marker, disk>> PROVE Persisted'
  BY <1>1, <1>2 DEF Persisted, disk
<1>3. ASSUME Saved PROVE Persisted'
  BY <1>1, <1>3, SavedPersists
<1>4. CASE LearnCommit \/ SavedAgain \/ NewTerm \/ CrashAndRestart
  BY <1>3, <1>4 DEF LearnCommit, SavedAgain, NewTerm, CrashAndRestart
<1>5. CASE AdvanceNotSaved \/ ApplyNotSaved
  <2>1. marker' = marker /\ NotSaved
    BY <1>5 DEF AdvanceNotSaved, ApplyNotSaved
  <2> QED
    BY <1>1, <2>1, NotSavedPersists
<1>6. CASE WorkerNotSaved
  <2>1. marker <= marker' /\ NotSaved
    BY <1>1, <1>6 DEF WorkerNotSaved, CompactLogPrefix, Larger, IndexInv, MemoryInv, WorkerShape
  <2> QED
    BY <1>1, <2>1, NotSavedPersists
<1>7. ASSUME NEW h \in Handler, InstallTakes(h) \/ InstallNotSaved(h) PROVE Persisted'
  <2>1. CASE InstallTakes(h)
    BY <1>3, <2>1 DEF InstallTakes
  <2>2. CASE InstallNotSaved(h)
    <3>1. handlers[h].index \in Nat
      BY DEF IndexInv, MemoryInv, HandlerShape
    <3>2. marker <= marker' /\ NotSaved
      BY <1>1, <2>2, <3>1 DEF InstallNotSaved, CompactLogPrefix, Larger
    <3> QED
      BY <1>1, <3>2, NotSavedPersists
  <2> QED
    BY <1>7, <2>1, <2>2
<1>8. CASE CommitTakenBack
  BY <1>1, <1>8 DEF CommitTakenBack, Persisted, indexes
<1>9. CASE OnSnapshotTimer \/ EnterApply \/ ApplyRefused \/ CrashForGood
  BY <1>2, <1>9 DEF OnSnapshotTimer, EnterApply, ApplyRefused, CrashForGood, indexes
<1>10. CASE ApplyEntry
  BY <1>2, <1>3, <1>10 DEF ApplyEntry
<1>11. CASE WorkerCompacts
  <2>1. CASE worker.index > marker
    BY <1>3, <1>11, <2>1 DEF WorkerCompacts
  <2>2. CASE ~(worker.index > marker)
    <3>1. worker.index \in Nat
      BY DEF IndexInv, MemoryInv, WorkerShape
    <3>2. UNCHANGED <<commit, marker, disk>>
      BY <1>1, <1>11, <2>2, <3>1 DEF WorkerCompacts, CompactLogPrefix, Larger
    <3> QED
      BY <1>2, <3>2
  <2> QED
    BY <2>1, <2>2
<1>12. CASE WorkerWakes \/ WorkerSaves \/ WorkerPublishes \/ WorkerPrunes \/ WorkerDone \/ WorkerFails
  BY <1>2, <1>12
  DEF WorkerWakes, WorkerSaves, WorkerPublishes, WorkerPrunes, WorkerDone, WorkerFails, indexes
<1>13. ASSUME NEW h \in Handler,
              InstallSaves(h) \/ InstallLoads(h) \/ InstallFindsNothing(h) \/ InstallTooLate(h)
                \/ InstallPrunes(h) \/ InstallFails(h) \/ LeaderGivesUp(h)
       PROVE  Persisted'
  BY <1>2, <1>13
  DEF InstallSaves, InstallLoads, InstallFindsNothing, InstallTooLate, InstallPrunes, InstallFails,
      LeaderGivesUp, indexes
<1>14. ASSUME NEW h \in Handler, NEW i \in Index, InstallBegins(h, i) PROVE Persisted'
  BY <1>2, <1>14 DEF InstallBegins, indexes
<1>15. ASSUME NEW i \in Index, Damage(i) PROVE Persisted'
  BY <1>2, <1>15 DEF Damage, indexes
<1> QED
  BY <1>4, <1>5, <1>6, <1>7, <1>8, <1>9, <1>10, <1>11, <1>12, <1>13, <1>14, <1>15
  DEF Step, WorkerStep, HandlerStep

LEMMA StepIndex == ASSUME IndexInv, Next PROVE IndexInv' /\ Forward
BY StepMemory, StepPersisted DEF Next, IndexInv

LEMMA StutterIndex == IndexInv /\ UNCHANGED vars => IndexInv'
BY DEF IndexInv, MemoryInv, Indexes, WorkerShape, HandlerShape, Ordered, Turn, Exclusive,
       WorkerBehind, Persisted, vars, indexes, disk, node, threads, counts

\* The indexes of a node keep their order and never fall, whatever handlers,
\* worker, applier, failing saves and restarts do, except over a restart after a
\* failed save, and then not below what is on disk: IndexInv holds and every step
\* is Forward.
THEOREM IndexesForward == Spec => IndexesNeverFall
<1>1. IndexInv /\ [Next]_vars => IndexInv'
  BY StepIndex, StutterIndex
<1>2. IndexInv /\ [Next]_vars =>
        [/\ marker' <= applied' /\ applied' <= commit'
         /\ \/ applied' >= applied /\ commit' >= commit /\ marker' >= marker
            \/ /\ crashes' > crashes /\ behind
               /\ applied' >= diskCommit /\ marker' >= diskMarker]_vars
  BY StepIndex DEF Forward, Raised, Fallen
<1> QED
  BY <1>1, <1>2, InitIndex, PTL DEF Spec, IndexesNeverFall

----------------------------------------------------------------------------
(* The log is covered *)

Files == DOMAIN files \subseteq Nat /\ damage \in Nat

HasNewest ==
  damage > 0 \/ DOMAIN files = {} \/ \E m \in DOMAIN files : \A j \in DOMAIN files : j <= m

Covers(i) == damage > 0 \/ \E j \in DOMAIN files : j >= i

\* A published snapshot may be pruned before its saver cuts the log, but only
\* when a newer one covers its index.
CoverInv ==
  /\ Files /\ HasNewest
  /\ marker = 0 \/ Covers(marker)
  /\ worker.pc = "published" => Covers(worker.index)
  /\ \A h \in Handler : handlers[h].pc = "loaded" => Covers(handlers[h].index)

LEMMA PruneCovers ==
  ASSUME Files, HasNewest, PruneSnapshots, damage' = damage
  PROVE  Files' /\ HasNewest' /\ \A i \in Nat : Covers(i) => Covers(i)'
<1>1. DOMAIN files' \subseteq DOMAIN files
  BY DEF PruneSnapshots
<1>2. CASE damage > 0
  BY <1>1, <1>2 DEF Files, HasNewest, Covers
<1>3. CASE DOMAIN files = {}
  BY <1>1, <1>3 DEF Files, HasNewest, Covers
<1>4. CASE damage = 0 /\ DOMAIN files # {}
  <2>1. PICK m \in DOMAIN files : \A j \in DOMAIN files : j <= m
    BY <1>4 DEF HasNewest
  <2>2. {k \in DOMAIN files : k > m} = {}
    BY <2>1 DEF Files
  <2>3. Cardinality({k \in DOMAIN files : k > m}) < Keep
    BY <2>2, FS_EmptySet, ApplyAssumption
  <2>4. m \in DOMAIN files'
    BY <2>3 DEF PruneSnapshots
  <2> QED
    BY <1>1, <2>1, <2>4 DEF Files, HasNewest, Covers
<1> QED
  BY <1>2, <1>3, <1>4, SMTT(60) DEF Files

LEMMA SaveCovers ==
  ASSUME Files, HasNewest, NEW k \in Nat, NEW data, SaveSnapshotFile(k, data), damage' = damage
  PROVE  Files' /\ HasNewest' /\ Covers(k)' /\ \A i \in Nat : Covers(i) => Covers(i)'
<1>1. DOMAIN files' = DOMAIN files \cup {k}
  BY DEF SaveSnapshotFile
<1>2. Files' /\ Covers(k)' /\ \A i \in Nat : Covers(i) => Covers(i)'
  BY <1>1 DEF Files, Covers
<1>3. HasNewest'
  <2>1. CASE damage > 0 \/ DOMAIN files = {}
    BY <1>1, <2>1 DEF HasNewest
  <2>2. CASE \E m \in DOMAIN files : \A j \in DOMAIN files : j <= m
    <3>1. PICK m \in DOMAIN files : \A j \in DOMAIN files : j <= m
      BY <2>2
    <3>2. CASE k <= m
      BY <1>1, <3>1, <3>2 DEF HasNewest, Files
    <3>3. CASE k > m
      BY <1>1, <3>1, <3>3 DEF HasNewest, Files
    <3> QED
      BY <3>2, <3>3 DEF Files
  <2> QED
    BY <2>1, <2>2 DEF HasNewest
<1> QED
  BY <1>2, <1>3

LEMMA WorkerLabels ==
  ASSUME WorkerShape
  PROVE  /\ WorkerWakes => worker'.pc = "woken"
         /\ WorkerSaves => worker'.pc = "saved"
         /\ WorkerDone => worker'.pc = "idle"
         /\ WorkerFails => worker'.pc = "done"
<1>1. WorkerWakes => worker'.pc = "woken"
  BY DEF WorkerWakes, WorkerShape
<1>2. WorkerSaves => worker'.pc = "saved"
  BY DEF WorkerSaves
<1>3. WorkerDone => worker'.pc = "idle"
  BY DEF WorkerDone, IdleWorker
<1>4. WorkerFails => worker'.pc = "done"
  BY DEF WorkerFails, WorkerShape
<1> QED
  BY <1>1, <1>2, <1>3, <1>4

LEMMA InitCover == Init => CoverInv
BY DEF Init, CoverInv, Files, HasNewest, IdleWorker, IdleHandler

LEMMA StepCover == ASSUME IndexInv, CoverInv, [Next]_vars PROVE CoverInv'
<1> USE DEF IndexInv, MemoryInv, Indexes, CoverInv, indexes, node, threads, counts
<1>1. ASSUME UNCHANGED <<files, damage, marker, worker, handlers>> PROVE CoverInv'
  BY <1>1 DEF Files, HasNewest, Covers
<1>2. ASSUME UNCHANGED <<files, damage, marker, handlers>>,
             worker'.pc # "published"
      PROVE  CoverInv'
  BY <1>2 DEF Files, HasNewest, Covers
<1>3. ASSUME UNCHANGED <<files, damage, marker, worker>>, NEW h \in Handler, NEW s,
             handlers' = [handlers EXCEPT ![h] = s], s.pc # "loaded"
      PROVE  CoverInv'
  BY <1>3 DEF Files, HasNewest, Covers, HandlerShape
<1>4. CASE LearnCommit \/ NewTerm \/ OnSnapshotTimer \/ CommitTakenBack \/ SavedAgain
           \/ EnterApply \/ ApplyEntry \/ ApplyRefused \/ UNCHANGED vars
  BY <1>1, <1>4 DEF LearnCommit, NewTerm, OnSnapshotTimer, CommitTakenBack, SavedAgain, EnterApply,
     ApplyEntry, ApplyRefused, vars
<1>18. CASE AdvanceNotSaved \/ ApplyNotSaved
  BY <1>1, <1>18 DEF AdvanceNotSaved, ApplyNotSaved, NotSaved
<1>5. CASE WorkerWakes \/ WorkerSaves \/ WorkerDone \/ WorkerFails
  <2>1. worker'.pc \in {"woken", "saved", "idle", "done"}
    BY <1>5, WorkerLabels
  <2>2. UNCHANGED <<files, damage, marker, handlers>>
    BY <1>5 DEF WorkerWakes, WorkerSaves, WorkerDone, WorkerFails
  <2> QED
    BY <1>2, <2>1, <2>2
<1>6. CASE WorkerPublishes
  <2>1. worker'.index = worker.index /\ UNCHANGED <<marker, handlers, damage>>
    BY <1>6 DEF WorkerPublishes, WorkerShape
  <2>2. SaveSnapshotFile(worker.index, worker.data)
    BY <1>6 DEF WorkerPublishes
  <2>3. Files' /\ HasNewest' /\ Covers(worker.index)' /\ \A i \in Nat : Covers(i) => Covers(i)'
    BY <2>1, <2>2, SaveCovers DEF WorkerShape
  <2> QED
    BY <2>1, <2>3 DEF HandlerShape, Covers
<1>7. CASE WorkerCompacts \/ WorkerNotSaved
  <2>1. worker'.pc = "compacted" /\ marker' \in {marker, worker.index} /\ worker.pc = "published"
        /\ UNCHANGED <<files, damage, handlers>>
    BY <1>7 DEF WorkerCompacts, WorkerNotSaved, NotSaved, WorkerShape, CompactLogPrefix, Larger
  <2> QED
    BY <2>1 DEF Files, HasNewest, Covers
<1>8. CASE WorkerPrunes
  <2>1. worker'.pc = "done" /\ PruneSnapshots /\ UNCHANGED <<marker, damage, handlers>>
    BY <1>8 DEF WorkerPrunes, WorkerShape
  <2>2. Files' /\ HasNewest' /\ \A i \in Nat : Covers(i) => Covers(i)'
    BY <2>1, PruneCovers
  <2> QED
    BY <2>1, <2>2 DEF HandlerShape, Covers
<1>9. ASSUME NEW h \in Handler, InstallSaves(h) PROVE CoverInv'
  <2>1. /\ SaveSnapshotFile(handlers[h].index, Prefix(handlers[h].index))
        /\ UNCHANGED <<marker, worker, damage>>
        /\ \A g \in Handler : handlers'[g].pc = "loaded" =>
             handlers[g].pc = "loaded" /\ handlers'[g].index = handlers[g].index
    BY <1>9 DEF InstallSaves, HandlerShape
  <2>2. Files' /\ HasNewest' /\ \A i \in Nat : Covers(i) => Covers(i)'
    BY <2>1, SaveCovers DEF HandlerShape
  <2> QED
    BY <2>1, <2>2 DEF HandlerShape, WorkerShape, Covers
<1>10. ASSUME NEW h \in Handler, InstallLoads(h) PROVE CoverInv'
  <2>1. /\ UNCHANGED <<files, marker, worker, damage>> /\ handlers[h].index \in DOMAIN files
        /\ \A g \in Handler : handlers'[g].index = handlers[g].index
        /\ \A g \in Handler : handlers'[g].pc = "loaded" => g = h \/ handlers[g].pc = "loaded"
    BY <1>10 DEF InstallLoads, HandlerShape
  <2> QED
    BY <2>1 DEF Files, HasNewest, Covers, HandlerShape
<1>11. ASSUME NEW h \in Handler,
              InstallFindsNothing(h) \/ InstallTooLate(h) \/ InstallFails(h)
       PROVE  CoverInv'
  BY <1>3, <1>11 DEF InstallFindsNothing, InstallTooLate, InstallFails, IdleHandler
<1>12. ASSUME NEW h \in Handler, LeaderGivesUp(h) PROVE CoverInv'
  <2>1. UNCHANGED <<files, marker, worker, damage>>
        /\ \A g \in Handler : handlers'[g].pc = handlers[g].pc /\ handlers'[g].index = handlers[g].index
    BY <1>12 DEF LeaderGivesUp, HandlerShape
  <2> QED
    BY <2>1 DEF Files, HasNewest, Covers
<1>13. ASSUME NEW h \in Handler, InstallTakes(h) \/ InstallNotSaved(h) PROVE CoverInv'
  <2>1. /\ UNCHANGED <<files, worker, damage>> /\ marker' \in {marker, handlers[h].index}
        /\ handlers[h].pc = "loaded"
        /\ \A g \in Handler : handlers'[g].pc = "loaded" =>
             handlers[g].pc = "loaded" /\ handlers'[g].index = handlers[g].index
    BY <1>13 DEF InstallTakes, InstallNotSaved, NotSaved, IdleHandler, CompactLogPrefix, Larger,
                 HandlerShape
  <2> QED
    BY <2>1 DEF Files, HasNewest, Covers
<1>14. ASSUME NEW h \in Handler, InstallPrunes(h) PROVE CoverInv'
  <2>1. /\ PruneSnapshots /\ UNCHANGED <<marker, worker, damage>>
        /\ \A g \in Handler : handlers'[g].pc = "loaded" =>
             handlers[g].pc = "loaded" /\ handlers'[g].index = handlers[g].index
    BY <1>14 DEF InstallPrunes, IdleHandler, HandlerShape
  <2>2. Files' /\ HasNewest' /\ \A i \in Nat : Covers(i) => Covers(i)'
    BY <2>1, PruneCovers
  <2> QED
    BY <2>1, <2>2 DEF HandlerShape, WorkerShape, Covers
<1>15. ASSUME NEW h \in Handler, NEW i \in Index, InstallBegins(h, i) PROVE CoverInv'
  <2> DEFINE s == [pc |-> "saving", index |-> i, term |-> term, live |-> TRUE]
  <2>1. UNCHANGED <<files, marker, worker, damage>> /\ handlers' = [handlers EXCEPT ![h] = s]
    BY <1>15 DEF InstallBegins
  <2>2. s.pc # "loaded"
    OBVIOUS
  <2> HIDE DEF s
  <2> QED
    BY <1>3, <2>1, <2>2
<1>16. CASE CrashAndRestart
  <2>1. PICK i \in 0 .. MaxIndex : IsLatest(i) /\ Recover(i)
    BY <1>16 DEF CrashAndRestart
  <2>2. /\ UNCHANGED <<files, damage>> /\ worker'.pc = "idle"
        /\ \A h \in Handler : handlers'[h].pc = "idle"
    BY <1>16 DEF CrashAndRestart, NoThreads, IdleWorker, IdleHandler
  <2>3. marker' = diskMarker \/ (marker' = i /\ i \in DOMAIN files) \/ marker' = 0
    <3>1. marker' = Larger(diskMarker, i)
      BY <2>1 DEF Recover
    <3> QED
      BY <2>1, <3>1 DEF IsLatest, Larger
  <2>5. diskMarker \in Nat /\ diskMarker <= marker
    BY DEF Persisted
  <2>4. marker' = 0 \/ Covers(marker)'
    BY <2>2, <2>3, <2>5 DEF Covers, Files
  <2> QED
    BY <2>2, <2>4 DEF Files, HasNewest
<1>19. CASE CrashForGood
  <2>1. /\ UNCHANGED <<files, damage, marker>> /\ worker'.pc = "idle"
        /\ \A h \in Handler : handlers'[h].pc = "idle"
    BY <1>19 DEF CrashForGood, NoThreads, IdleWorker, IdleHandler
  <2> QED
    BY <2>1 DEF Files, HasNewest, Covers
<1>17. ASSUME NEW i \in Index, Damage(i) PROVE CoverInv'
  BY <1>17 DEF Damage, Files, HasNewest, Covers
<1> QED
  BY <1>4, <1>5, <1>6, <1>7, <1>8, <1>9, <1>10, <1>11, <1>12, <1>13, <1>14, <1>15, <1>16, <1>17,
     <1>18, <1>19
  DEF Next, Step, WorkerStep, HandlerStep

\* Whatever worker and handlers save, cut and prune, and wherever the process
\* dies, a snapshot on disk covers what the log lost (unless one is damaged):
\* CoverInv keeps a newest snapshot, and pruning never takes that one.
THEOREM LogStaysCovered == Spec => []MarkerCovered
<1>1. IndexInv /\ [Next]_vars => IndexInv'
  BY StepIndex, StutterIndex
<1>2. IndexInv /\ CoverInv /\ [Next]_vars => CoverInv'
  BY StepCover
<1>3. CoverInv => MarkerCovered
  BY DEF CoverInv, MarkerCovered, Covers
<1> QED
  BY <1>1, <1>2, <1>3, InitIndex, InitCover, PTL DEF Spec

----------------------------------------------------------------------------
(* The state machine is a prefix of the log *)

LEMMA EmptyPrefix == Prefix(0) = <<>>
BY DEF Prefix

LEMMA AppendPrefix == ASSUME NEW i \in Nat PROVE Append(Prefix(i), i + 1) = Prefix(i + 1)
<1>1. Prefix(i) \in Seq(Nat) /\ Len(Prefix(i)) = i
  BY DEF Prefix
<1>2. Prefix(i + 1) \in Seq(Nat) /\ Len(Prefix(i + 1)) = i + 1
  BY DEF Prefix
<1>3. Append(Prefix(i), i + 1) \in Seq(Nat) /\ Len(Append(Prefix(i), i + 1)) = i + 1
  BY <1>1
<1>4. \A k \in 1 .. i + 1 : Append(Prefix(i), i + 1)[k] = Prefix(i + 1)[k]
  BY <1>1 DEF Prefix
<1> QED
  BY <1>2, <1>3, <1>4

LEMMA JoinPrefix ==
  ASSUME NEW i \in Nat, NEW j \in Nat, i <= j
  PROVE  Prefix(i) \o [k \in 1 .. j - i |-> i + k] = Prefix(j)
<1> DEFINE t == [k \in 1 .. j - i |-> i + k]
<1>1. Prefix(i) \in Seq(Nat) /\ Len(Prefix(i)) = i
  BY DEF Prefix
<1>2. t \in Seq(Nat) /\ Len(t) = j - i
  OBVIOUS
<1> HIDE DEF t
<1>3. Prefix(j) \in Seq(Nat) /\ Len(Prefix(j)) = j
  BY DEF Prefix
<1>4. Prefix(i) \o t \in Seq(Nat) /\ Len(Prefix(i) \o t) = j
  BY <1>1, <1>2
<1>5. \A k \in 1 .. j : (Prefix(i) \o t)[k] = Prefix(j)[k]
  <2> SUFFICES ASSUME NEW k \in 1 .. j PROVE (Prefix(i) \o t)[k] = Prefix(j)[k]
    OBVIOUS
  <2>1. CASE k <= i
    BY <1>1, <1>2, <2>1 DEF Prefix
  <2>2. CASE k > i
    <3>1. (Prefix(i) \o t)[k] = t[k - i]
      BY <1>1, <1>2, <2>2
    <3> QED
      BY <2>2, <3>1 DEF Prefix, t
  <2>3. k <= i \/ k > i
    OBVIOUS
  <2> QED
    BY <2>1, <2>2, <2>3, Zenon
<1>6. Prefix(i) \o t = Prefix(j)
  BY <1>3, <1>4, <1>5, SeqEqual
<1> QED
  BY <1>6 DEF t

Counted ==
  /\ late \in Nat /\ stale \in Nat /\ damage \in Nat
  /\ term \in Nat /\ term >= 1

LEMMA StepCounted == ASSUME Counted, [Next]_vars PROVE Counted' /\ (Undisturbed' => Undisturbed)
<1> USE DEF Counted, Undisturbed, node, counts, threads
<1>7. ASSUME UNCHANGED <<late, stale, damage, term>> PROVE Counted' /\ (Undisturbed' => Undisturbed)
  BY <1>7
<1>1. CASE LearnCommit \/ CommitTakenBack \/ SavedAgain \/ OnSnapshotTimer \/ EnterApply
           \/ ApplyEntry \/ ApplyRefused \/ UNCHANGED vars
  BY <1>1, <1>7 DEF LearnCommit, CommitTakenBack, SavedAgain, OnSnapshotTimer, EnterApply,
                    ApplyEntry, ApplyRefused, vars
<1>8. CASE AdvanceNotSaved \/ ApplyNotSaved \/ WorkerNotSaved \/ CrashAndRestart \/ CrashForGood
  BY <1>7, <1>8 DEF AdvanceNotSaved, ApplyNotSaved, WorkerNotSaved, NotSaved, CrashAndRestart,
                    CrashForGood
<1>9. CASE NewTerm
  BY <1>9 DEF NewTerm
<1>2. CASE WorkerStep \/ WorkerFails
  BY <1>2, <1>7 DEF WorkerStep, WorkerWakes, WorkerSaves, WorkerPublishes, WorkerCompacts,
                    WorkerPrunes, WorkerDone, WorkerFails
<1>3. ASSUME NEW h \in Handler, HandlerStep(h) \/ InstallFails(h) \/ InstallNotSaved(h)
      PROVE  Counted' /\ (Undisturbed' => Undisturbed)
  BY <1>3, <1>7 DEF HandlerStep, InstallSaves, InstallLoads, InstallFindsNothing, InstallTakes,
              InstallTooLate, InstallPrunes, InstallFails, InstallNotSaved, NotSaved
<1>5. ASSUME NEW h \in Handler, LeaderGivesUp(h) PROVE Counted' /\ (Undisturbed' => Undisturbed)
  BY <1>5 DEF LeaderGivesUp
<1>4. ASSUME NEW h \in Handler, NEW i \in Index, InstallBegins(h, i)
      PROVE  Counted' /\ (Undisturbed' => Undisturbed)
  BY <1>4 DEF InstallBegins
<1>6. ASSUME NEW i \in Index, Damage(i) PROVE Counted' /\ (Undisturbed' => Undisturbed)
  BY <1>6 DEF Damage
<1> QED
  BY <1>1, <1>2, <1>3, <1>4, <1>5, <1>6, <1>8, <1>9 DEF Next, Step

\* The leader waits for the one handler that runs.
Alone ==
  /\ \A h \in Handler : handlers[h].pc # "idle" => handlers[h].live /\ handlers[h].term = 1
  /\ \A g, h \in Handler : handlers[g].pc # "idle" /\ handlers[h].pc # "idle" => g = h

Ahead ==
  \A h \in Handler : handlers[h].pc \in {"saving", "saved", "loaded"} => handlers[h].index > commit

OwnFiles == \A i \in DOMAIN files : files[i] = Prefix(i)
OwnData == worker.pc = "saved" => worker.data = Prefix(worker.index)

Reflects ==
  /\ (\A h \in Handler : handlers[h].pc # "loaded") => sm = Prefix(applied)
  /\ \A h \in Handler : handlers[h].pc = "loaded" => sm = Prefix(handlers[h].index)

PrefixInv == Alone /\ Ahead /\ OwnFiles /\ OwnData /\ Reflects

LEMMA InitPrefix == Init => PrefixInv
BY EmptyPrefix DEF Init, PrefixInv, Alone, Ahead, OwnFiles, OwnData, Reflects, IdleHandler,
                   IdleWorker

LEMMA StepPrefix ==
  ASSUME IndexInv, CoverInv, Counted, PrefixInv, [Next]_vars, Undisturbed, Undisturbed', up'
  PROVE  PrefixInv'
<1> USE DEF PrefixInv, IndexInv, MemoryInv, Indexes, indexes, node, threads, counts
<1>1. ASSUME UNCHANGED <<sm, applied, commit, files, term, handlers, worker, late, stale, damage>>
      PROVE  PrefixInv'
  BY <1>1 DEF Alone, Ahead, OwnFiles, OwnData, Reflects
<1>2. CASE LearnCommit \/ AdvanceNotSaved
  <2>1. \A h \in Handler : handlers[h].pc = "idle"
    BY <1>2 DEF LearnCommit, AdvanceNotSaved, LeaderWaits, Alone, Undisturbed
  <2>2. UNCHANGED <<sm, applied, files, term, handlers, worker>>
    BY <1>2 DEF LearnCommit, AdvanceNotSaved
  <2> QED
    BY <2>1, <2>2 DEF Alone, Ahead, OwnFiles, OwnData, Reflects
<1>3. CASE NewTerm
  BY <1>3 DEF NewTerm, Undisturbed
<1>4. CASE OnSnapshotTimer \/ CommitTakenBack \/ SavedAgain \/ ApplyRefused \/ UNCHANGED vars
  BY <1>1, <1>4 DEF OnSnapshotTimer, CommitTakenBack, SavedAgain, ApplyRefused, vars
<1>5. CASE EnterApply
  <2>1. applied' = applied
    BY <1>5 DEF EnterApply, NextToApply, Larger, Ordered
  <2> QED
    BY <1>1, <1>5, <2>1 DEF EnterApply
<1>6. CASE ApplyEntry \/ ApplyNotSaved
  <2>1. applying = applied + 1 /\ applied' = applied + 1 /\ sm' = Append(sm, applying)
        /\ UNCHANGED <<commit, files, term, handlers, worker, late, stale, damage>>
    <3>1. applying = applied + 1
      BY <1>6 DEF ApplyEntry, ApplyNotSaved, Turn
    <3>2. CASE ApplyEntry
      BY <3>1, <3>2 DEF ApplyEntry, NextToApply, Larger, Ordered
    <3>3. CASE ApplyNotSaved
      BY <3>1, <3>3 DEF ApplyNotSaved, NotSaved
    <3> QED
      BY <1>6, <3>2, <3>3
  <2>2. \A h \in Handler : handlers[h].pc # "loaded"
    BY <1>6 DEF ApplyEntry, ApplyNotSaved, Exclusive
  <2>3. sm' = Prefix(applied + 1)
    BY <2>1, <2>2, AppendPrefix DEF Reflects
  <2> QED
    BY <2>1, <2>2, <2>3 DEF Alone, Ahead, OwnFiles, OwnData, Reflects
<1>7. CASE WorkerSaves
  <2>1. sm = Prefix(applied)
    BY <1>7 DEF WorkerSaves, ApplyMuFree, Reflects
  <2>2. worker'.index = applied /\ worker'.data = sm
    BY <1>7 DEF WorkerSaves
  <2> QED
    BY <1>7, <2>1, <2>2 DEF WorkerSaves, Alone, Ahead, OwnFiles, OwnData, Reflects
<1>8. CASE WorkerWakes \/ WorkerDone \/ WorkerFails
  <2>1. worker'.pc # "saved"
    BY <1>8, WorkerLabels
  <2>2. UNCHANGED <<sm, applied, commit, files, term, handlers, late, stale, damage>>
    BY <1>8 DEF WorkerWakes, WorkerDone, WorkerFails
  <2> QED
    BY <2>1, <2>2 DEF Alone, Ahead, OwnFiles, OwnData, Reflects
<1>9. CASE WorkerPublishes \/ WorkerCompacts \/ WorkerNotSaved \/ WorkerPrunes
  <2>1. worker'.pc # "saved"
    BY <1>9 DEF WorkerPublishes, WorkerCompacts, WorkerNotSaved, WorkerPrunes, WorkerShape
  <2>2. OwnFiles'
    <3>1. CASE WorkerPublishes
      BY <3>1 DEF WorkerPublishes, SaveSnapshotFile, OwnFiles, OwnData
    <3>2. CASE WorkerCompacts \/ WorkerNotSaved
      BY <3>2 DEF WorkerCompacts, WorkerNotSaved, OwnFiles
    <3>3. CASE WorkerPrunes
      BY <3>3 DEF WorkerPrunes, PruneSnapshots, OwnFiles
    <3> QED
      BY <1>9, <3>1, <3>2, <3>3
  <2>3. UNCHANGED <<sm, applied, commit, term, handlers, late, stale, damage>>
    <3>1. CASE WorkerPublishes \/ WorkerPrunes
      BY <3>1 DEF WorkerPublishes, WorkerPrunes
    <3>2. CASE WorkerCompacts \/ WorkerNotSaved
      <4>1. worker.index \in Nat /\ worker.index <= applied /\ applied <= commit
        BY <3>2 DEF WorkerCompacts, WorkerNotSaved, WorkerBehind, WorkerShape, Ordered
      <4>4. CompactLogPrefix(worker.index)
        BY <3>2 DEF WorkerCompacts, WorkerNotSaved
      <4>2. applied' = applied /\ commit' = commit
        BY <4>1, <4>4 DEF CompactLogPrefix, Larger
      <4>3. UNCHANGED <<sm, term, handlers, late, stale, damage>>
        BY <3>2 DEF WorkerCompacts, WorkerNotSaved, NotSaved
      <4> QED
        BY <4>2, <4>3
    <3> QED
      BY <1>9, <3>1, <3>2
  <2> QED
    BY <2>1, <2>2, <2>3 DEF Alone, Ahead, OwnData, Reflects
<1>10. ASSUME NEW h \in Handler, InstallSaves(h) PROVE PrefixInv'
  <2>1. handlers[h].pc = "saving" /\ handlers' = [handlers EXCEPT ![h].pc = "saved"]
        /\ UNCHANGED <<sm, applied, commit, term, worker, late, stale, damage>>
    BY <1>10 DEF InstallSaves
  <2>2. OwnFiles'
    BY <1>10 DEF InstallSaves, SaveSnapshotFile, OwnFiles
  <2> QED
    BY <2>1, <2>2 DEF Alone, Ahead, OwnData, Reflects, HandlerShape
<1>11. ASSUME NEW h \in Handler,
              InstallFindsNothing(h) \/ InstallFails(h)
       PROVE  PrefixInv'
  <2>1. handlers[h].pc \in {"saving", "saved"} /\ handlers' = [handlers EXCEPT ![h] = IdleHandler]
        /\ UNCHANGED <<sm, applied, commit, files, term, worker, late, stale, damage>>
    BY <1>11 DEF InstallFindsNothing, InstallFails
  <2> QED
    BY <2>1 DEF Alone, Ahead, OwnFiles, OwnData, Reflects, HandlerShape, IdleHandler
<1>12. ASSUME NEW h \in Handler, InstallTooLate(h) PROVE PrefixInv'
  BY <1>12 DEF InstallTooLate, Alone, Undisturbed, HandlerShape
<1>13. ASSUME NEW h \in Handler, LeaderGivesUp(h) PROVE PrefixInv'
  BY <1>13 DEF LeaderGivesUp, Undisturbed
<1>14. ASSUME NEW h \in Handler, InstallLoads(h) PROVE PrefixInv'
  <2>1. handlers[h].pc = "saved" /\ handlers' = [handlers EXCEPT ![h].pc = "loaded"]
        /\ sm' = Prefix(handlers[h].index)
        /\ UNCHANGED <<applied, commit, files, term, worker, late, stale, damage>>
    BY <1>14 DEF InstallLoads, OwnFiles
  <2> QED
    BY <2>1 DEF Alone, Ahead, OwnFiles, OwnData, Reflects, HandlerShape
<1>15. ASSUME NEW h \in Handler, InstallTakes(h) \/ InstallNotSaved(h) PROVE PrefixInv'
  <2>1. /\ handlers[h].pc = "loaded"
        /\ \/ handlers' = [handlers EXCEPT ![h].pc = "pruning"]
           \/ handlers' = [handlers EXCEPT ![h] = IdleHandler]
        /\ UNCHANGED <<sm, files, term, worker, late, stale, damage>>
    BY <1>15 DEF InstallTakes, InstallNotSaved, NotSaved
  <2>2. applied' = handlers[h].index
    <3>1. CompactLogPrefix(handlers[h].index)
      BY <1>15 DEF InstallTakes, InstallNotSaved
    <3>2. handlers[h].index \in Nat /\ handlers[h].index > commit
      BY <2>1 DEF Ahead, HandlerShape
    <3> QED
      BY <3>1, <3>2 DEF CompactLogPrefix, Larger, Ordered
  <2>3. sm = Prefix(handlers[h].index)
    BY <2>1 DEF Reflects
  <2>4. \A g \in Handler :
          /\ handlers'[g].pc \in {"idle", "pruning"}
          /\ handlers'[g].pc # "idle" =>
               g = h /\ handlers'[g].live = handlers[g].live /\ handlers'[g].term = handlers[g].term
    BY <2>1 DEF Alone, HandlerShape, IdleHandler
  <2> QED
    BY <2>1, <2>2, <2>3, <2>4 DEF Alone, Ahead, OwnFiles, OwnData, Reflects
<1>16. ASSUME NEW h \in Handler, InstallPrunes(h) PROVE PrefixInv'
  <2>1. handlers[h].pc = "pruning" /\ handlers' = [handlers EXCEPT ![h] = IdleHandler]
        /\ UNCHANGED <<sm, applied, commit, term, worker, late, stale, damage>>
    BY <1>16 DEF InstallPrunes
  <2>2. OwnFiles'
    BY <1>16 DEF InstallPrunes, PruneSnapshots, OwnFiles
  <2> QED
    BY <2>1, <2>2 DEF Alone, Ahead, OwnData, Reflects, HandlerShape, IdleHandler
<1>17. ASSUME NEW h \in Handler, NEW i \in Index, InstallBegins(h, i) PROVE PrefixInv'
  <2>1. i > commit /\ stale' = stale
    BY <1>17, ApplyAssumption DEF InstallBegins, Undisturbed, Index
  <2>2. \A g \in Handler : handlers[g].pc = "idle"
    BY <1>17 DEF InstallBegins, LeaderWaits, Alone, Undisturbed
  <2>3. /\ UNCHANGED <<sm, applied, commit, files, term, worker, late, damage>>
        /\ handlers' = [handlers EXCEPT ![h] =
                          [pc |-> "saving", index |-> i, term |-> term, live |-> TRUE]]
    BY <1>17 DEF InstallBegins
  <2> QED
    BY <2>1, <2>2, <2>3 DEF Undisturbed, Alone, Ahead, OwnFiles, OwnData, Reflects, HandlerShape
<1>18. CASE CrashAndRestart
  <2>1. PICK i \in 0 .. MaxIndex : IsLatest(i) /\ Recover(i)
    BY <1>18 DEF CrashAndRestart
  <2>2. i \in Nat /\ diskMarker <= i
    <3>1. i \in Nat /\ marker <= i
      BY <2>1, ApplyAssumption DEF IsLatest, CoverInv, Covers, Files, Undisturbed
    <3> QED
      BY <3>1 DEF Persisted
  <2>3. (IF i = 0 THEN <<>> ELSE files[i]) = Prefix(i)
    BY <2>1, EmptyPrefix DEF IsLatest, OwnFiles
  <2>4. /\ applied' = ReplayTo(i)
        /\ sm' = Prefix(i) \o [k \in 1 .. ReplayTo(i) - i |-> i + k]
    <3>1. Larger(diskMarker, i) = i
      BY <2>2 DEF Larger, Persisted
    <3> QED
      BY <2>1, <2>3, <3>1 DEF Recover
  <2>5. ReplayTo(i) \in Nat /\ i <= ReplayTo(i)
    BY <2>2 DEF ReplayTo, Larger, Persisted
  <2>6. sm' = Prefix(applied')
    BY <2>2, <2>4, <2>5, JoinPrefix
  <2>7. /\ handlers' = [h \in Handler |-> IdleHandler] /\ worker' = IdleWorker
        /\ UNCHANGED <<files, term, late, stale, damage>>
    BY <1>18 DEF CrashAndRestart, NoThreads
  <2> QED
    BY <2>6, <2>7 DEF Alone, Ahead, OwnFiles, OwnData, Reflects, IdleHandler, IdleWorker
<1>20. CASE CrashForGood
  BY <1>20 DEF CrashForGood
<1>19. ASSUME NEW i \in Index, Damage(i) PROVE PrefixInv'
  BY <1>19 DEF Damage, Undisturbed
<1> QED
  BY <1>2, <1>3, <1>4, <1>5, <1>6, <1>7, <1>8, <1>9, <1>10, <1>11, <1>12, <1>13, <1>14, <1>15,
     <1>16, <1>17, <1>18, <1>19, <1>20 DEF Next, Step, WorkerStep, HandlerStep

\* For every set of handlers and every bound: as long as no install is stale, late
\* or overtaken by a term and no snapshot is damaged, the state machine of a
\* running node holds the entries up to last_applied_, each once, whenever
\* apply_mu_ is free, through
\* any number of crashes and failing saves, and also when Apply refuses an entry.
THEOREM AppliesEachOnce == Spec => []StateIsPrefix
<1> DEFINE Inv == IndexInv /\ CoverInv /\ Counted /\ (Undisturbed /\ up => PrefixInv)
<1>1. Init => Inv
  BY InitIndex, InitCover, InitPrefix DEF Init, Counted
<1>2. Inv /\ [Next]_vars => Inv'
  <2>1. [Next]_vars /\ up' => up
    BY DEF Next, vars, node
  <2> QED
    BY <2>1, StepIndex, StutterIndex, StepCover, StepCounted, StepPrefix
<1>3. Inv => StateIsPrefix
  BY DEF PrefixInv, Reflects, StateIsPrefix, ApplyMuFree
<1> QED
  BY <1>1, <1>2, <1>3, PTL DEF Spec
============================================================================
