------------------------ MODULE SnapshotStorageProofs ------------------------
(***************************************************************************)
(* For every number of snapshot workers and handlers, whatever indexes     *)
(* they share, and every number of saves, kills, losses of power and       *)
(* failures: a directory that passes the checksum holds the right state    *)
(* unless it was saved from a temporary file two handlers had at once, and *)
(* what is cut from the log is in a snapshot unless one of the gaps that   *)
(* LogCovered names is open.                                               *)
(*                                                                         *)
(* A handler that no other has met finds in the temporary file what it     *)
(* wrote, or nothing.  A snapshot that a sync has found in place, and one  *)
(* that is exposed, is Held; only a prune ends that, and every victim of   *)
(* it has a newer one that is held.                                        *)
(***************************************************************************)
EXTENDS SnapshotStorage, FiniteSetTheorems, TLAPS

Content == Index \cup {Absent, Broken, Torn}
Staged == {"clear", "sync_removal", "rename"}
Copying == {"sync_root", "check", "stage", "copy"}
Writing == {"open", "write"}
Label == Staged \cup Copying \cup Writing
           \cup {"idle", "sync_publish", "saved", "compact", "prune", "remove"}

Typed ==
  /\ dir \in [Index -> Content] /\ synced \in [Index -> Content] /\ tmp \in Content
  /\ pc \in [Saver -> Label] /\ want \in [Saver -> Index \cup {0}]
  /\ stage \in [Saver -> Content]

OwnData(d) == \A i \in Index : d[i] = Absent \/ d[i] = Broken \/ d[i] = i \/ i \in mixed

Wanted == \A s \in Saver : pc[s] # "idle" => want[s] \in Index

OnlyHandlersWrite == \A s \in Saver : pc[s] \in Writing => s \in Handler

StagedData == \A s \in Saver : pc[s] \in Staged => stage[s] = want[s] \/ want[s] \in mixed

\* What a handler that met no other finds in the temporary file.
TempData ==
  \A h \in Handler :
    h \notin overlap =>
      /\ pc[h] \in Copying => tmp = Absent \/ tmp = want[h]
      /\ pc[h] = "write" => \/ tmp = Torn /\ h \in attached
                            \/ tmp = Absent /\ h \notin attached

\* A handler that is at work on the file while another writes it met the other.
Met ==
  \A g, h \in Handler :
    g # h /\ pc[g] = "write" /\ pc[h] \in Copying \cup {"write"} => h \in overlap

ContentInv ==
  /\ Typed /\ OwnData(dir) /\ OwnData(synced)
  /\ Wanted /\ OnlyHandlersWrite /\ StagedData /\ TempData /\ Met

LEMMA IndexNat == Index \subseteq Nat \ {0}
  BY SnapshotAssumption DEF Index

\* The three values that are no data are apart from each other and from indexes.
LEMMA Apart ==
  /\ Absent # Broken /\ Absent # Torn /\ Broken # Torn
  /\ \A i \in Index : i # Absent /\ i # Broken /\ i # Torn
<1>1. \A i \in Index : i # Absent /\ i # Broken /\ i # Torn
  BY IndexNat, SnapshotAssumption
<1>2. Cardinality({Absent, Broken, Torn}) = 3
  BY SnapshotAssumption
<1>3. \A x, y : Cardinality({x, y}) <= 2
  <2> TAKE x, y
  <2>1. IsFiniteSet({x}) /\ Cardinality({x}) = 1
    BY FS_Singleton
  <2>2. {x, y} = {x} \cup {y}
    OBVIOUS
  <2> QED BY <2>1, <2>2, FS_AddElement
<1>4. ASSUME NEW x, NEW y, {Absent, Broken, Torn} = {x, y} PROVE FALSE
  <2>1. Cardinality({x, y}) = 3
    BY <1>2, <1>4, Zenon
  <2>2. Cardinality({x, y}) <= 2
    BY <1>3, Zenon
  <2> QED BY <2>1, <2>2
<1>5. Absent # Broken /\ Absent # Torn /\ Broken # Torn
  <2>1. Absent = Broken => {Absent, Broken, Torn} = {Absent, Torn}
    OBVIOUS
  <2>2. Absent = Torn => {Absent, Broken, Torn} = {Absent, Broken}
    OBVIOUS
  <2>3. Broken = Torn => {Absent, Broken, Torn} = {Absent, Broken}
    OBVIOUS
  <2> QED BY <1>4, <2>1, <2>2, <2>3
<1> QED BY <1>1, <1>5

LEMMA InitContent == Init => ContentInv
<1> SUFFICES ASSUME Init PROVE ContentInv
  OBVIOUS
<1>1. Typed
  BY DEF Init, Typed, Content, Label, Staged, Copying, Writing
<1>2. OwnData(dir) /\ OwnData(synced)
  BY DEF Init, OwnData
<1>3. Wanted /\ OnlyHandlersWrite /\ StagedData
  BY DEF Init, Wanted, OnlyHandlersWrite, Writing, StagedData, Staged
<1>4. TempData /\ Met
  BY SnapshotAssumption DEF Init, TempData, Met, Copying
<1> QED
  BY <1>1, <1>2, <1>3, <1>4 DEF ContentInv

LEMMA StepContent == ASSUME ContentInv, [Next]_vars PROVE ContentInv'
<1> Handler \subseteq Saver
  BY SnapshotAssumption
<1>1. ASSUME NEW s \in Saver, NEW i \in Offered[s], Begin(s, i) PROVE ContentInv'
  <2> i \in Index
    BY DEF Index
  <2>1. Typed'
    BY <1>1 DEF Begin, Goto, temp, ContentInv, Typed, Content, Label, Staged, Copying, Writing
  <2>2. OwnData(dir)' /\ OwnData(synced)'
    BY <1>1 DEF Begin, Goto, temp, ContentInv, Typed, OwnData
  <2>3. Wanted' /\ OnlyHandlersWrite'
    BY <1>1 DEF Begin, Goto, temp, ContentInv, Typed, Wanted, OnlyHandlersWrite, Writing
  <2>4. StagedData'
    BY <1>1 DEF Begin, Goto, temp, ContentInv, Typed, StagedData, Staged
  <2>5. TempData'
    BY <1>1 DEF Begin, Goto, temp, ContentInv, Typed, TempData, Copying
  <2>6. Met'
    BY <1>1 DEF Begin, Goto, temp, ContentInv, Typed, Met, Copying
  <2> QED BY <2>1, <2>2, <2>3, <2>4, <2>5, <2>6 DEF ContentInv
<1>2. ASSUME NEW s \in Saver, OpenTemp(s) PROVE ContentInv'
  <2>1. Typed'
    BY <1>2 DEF OpenTemp, Goto, temp, ContentInv, Typed, Content, Label, Staged, Copying, Writing
  <2>2. OwnData(dir)' /\ OwnData(synced)'
    BY <1>2 DEF OpenTemp, Goto, temp, ContentInv, Typed, OwnData
  <2>3. Wanted' /\ OnlyHandlersWrite'
    BY <1>2 DEF OpenTemp, Goto, temp, ContentInv, Typed, Wanted, OnlyHandlersWrite, Writing
  <2>4. StagedData'
    BY <1>2 DEF OpenTemp, Goto, temp, ContentInv, Typed, StagedData, Staged
  <2>5. TempData'
    BY <1>2 DEF OpenTemp, Goto, temp, ContentInv, Typed, TempData, Copying, OnlyHandlersWrite,
       Writing
  <2>6. Met'
    BY <1>2 DEF OpenTemp, Goto, temp, ContentInv, Typed, Met, Copying, OnlyHandlersWrite, Writing
  <2> QED BY <2>1, <2>2, <2>3, <2>4, <2>5, <2>6 DEF ContentInv
<1>3. ASSUME NEW s \in Saver, WriteTemp(s) PROVE ContentInv'
  <2>1. Typed'
    BY <1>3 DEF WriteTemp, Goto, temp, ContentInv, Typed, Wanted, Content, Label, Staged, Copying,
       Writing
  <2>2. OwnData(dir)' /\ OwnData(synced)'
    BY <1>3 DEF WriteTemp, Goto, temp, ContentInv, Typed, OwnData
  <2>3. Wanted' /\ OnlyHandlersWrite'
    BY <1>3 DEF WriteTemp, Goto, temp, ContentInv, Typed, Wanted, OnlyHandlersWrite, Writing
  <2>4. StagedData'
    BY <1>3 DEF WriteTemp, Goto, temp, ContentInv, Typed, StagedData, Staged
  <2>5. TempData'
    BY <1>3, Apart DEF WriteTemp, Goto, temp, ContentInv, Typed, TempData, Copying, Met,
       OnlyHandlersWrite, Writing
  <2>6. Met'
    BY <1>3 DEF WriteTemp, Goto, temp, ContentInv, Typed, Met, Copying, OnlyHandlersWrite, Writing
  <2> QED BY <2>1, <2>2, <2>3, <2>4, <2>5, <2>6 DEF ContentInv
<1>4. ASSUME NEW s \in Saver, SyncRoot(s) PROVE ContentInv'
  <2>1. Typed'
    BY <1>4 DEF SyncRoot, SyncDirectory, Goto, temp, ContentInv, Typed, Content, Label, Staged,
       Copying, Writing
  <2>2. OwnData(dir)' /\ OwnData(synced)'
    BY <1>4 DEF SyncRoot, SyncDirectory, Goto, temp, ContentInv, Typed, OwnData
  <2>3. Wanted' /\ OnlyHandlersWrite'
    BY <1>4 DEF SyncRoot, SyncDirectory, Goto, temp, ContentInv, Typed, Wanted, OnlyHandlersWrite,
       Writing
  <2>4. StagedData'
    BY <1>4 DEF SyncRoot, SyncDirectory, Goto, temp, ContentInv, Typed, StagedData, Staged
  <2>5. TempData'
    BY <1>4 DEF SyncRoot, SyncDirectory, Goto, temp, ContentInv, Typed, TempData, Copying
  <2>6. Met'
    BY <1>4 DEF SyncRoot, SyncDirectory, Goto, temp, ContentInv, Typed, Met, Copying
  <2> QED BY <2>1, <2>2, <2>3, <2>4, <2>5, <2>6 DEF ContentInv
<1>5. ASSUME NEW s \in Saver, CheckExisting(s) PROVE ContentInv'
  <2>1. Typed'
    BY <1>5 DEF CheckExisting, RemoveTemp, Goto, temp, ContentInv, Typed, Content, Label, Staged,
       Copying, Writing
  <2>2. OwnData(dir)' /\ OwnData(synced)'
    BY <1>5 DEF CheckExisting, RemoveTemp, Goto, temp, ContentInv, Typed, OwnData
  <2>3. Wanted' /\ OnlyHandlersWrite'
    BY <1>5 DEF CheckExisting, RemoveTemp, Goto, temp, ContentInv, Typed, Wanted,
       OnlyHandlersWrite, Writing
  <2>4. StagedData'
    BY <1>5 DEF CheckExisting, RemoveTemp, Goto, temp, ContentInv, Typed, StagedData, Staged
  <2>5. TempData'
    BY <1>5 DEF CheckExisting, RemoveTemp, Goto, temp, ContentInv, Typed, TempData, Copying
  <2>6. Met'
    BY <1>5 DEF CheckExisting, RemoveTemp, Goto, temp, ContentInv, Typed, Met, Copying
  <2> QED BY <2>1, <2>2, <2>3, <2>4, <2>5, <2>6 DEF ContentInv
<1>6. ASSUME NEW s \in Saver, MakeStaging(s) PROVE ContentInv'
  <2>1. Typed'
    BY <1>6 DEF MakeStaging, SyncDirectory, Goto, temp, ContentInv, Typed, Content, Label, Staged,
       Copying, Writing
  <2>2. OwnData(dir)' /\ OwnData(synced)'
    BY <1>6 DEF MakeStaging, SyncDirectory, Goto, temp, ContentInv, Typed, OwnData
  <2>3. Wanted' /\ OnlyHandlersWrite'
    BY <1>6 DEF MakeStaging, SyncDirectory, Goto, temp, ContentInv, Typed, Wanted,
       OnlyHandlersWrite, Writing
  <2>4. StagedData'
    BY <1>6 DEF MakeStaging, SyncDirectory, Goto, temp, ContentInv, Typed, StagedData, Staged
  <2>5. TempData'
    BY <1>6 DEF MakeStaging, SyncDirectory, Goto, temp, ContentInv, Typed, TempData, Copying
  <2>6. Met'
    BY <1>6 DEF MakeStaging, SyncDirectory, Goto, temp, ContentInv, Typed, Met, Copying
  <2> QED BY <2>1, <2>2, <2>3, <2>4, <2>5, <2>6 DEF ContentInv
<1>7. ASSUME NEW s \in Saver, CopyToStaging(s) PROVE ContentInv'
  <2>1. Typed'
    BY <1>7 DEF CopyToStaging, Goto, temp, ContentInv, Typed, Wanted, Content, Label, Staged,
       Copying, Writing
  <2>2. OwnData(dir)' /\ OwnData(synced)'
    BY <1>7 DEF CopyToStaging, Goto, temp, ContentInv, Typed, OwnData
  <2>3. Wanted' /\ OnlyHandlersWrite'
    BY <1>7 DEF CopyToStaging, Goto, temp, ContentInv, Typed, Wanted, OnlyHandlersWrite, Writing
  <2>4. StagedData'
    BY <1>7 DEF CopyToStaging, Goto, temp, ContentInv, Typed, StagedData, Staged, TempData,
       Copying
  <2>5. TempData'
    BY <1>7 DEF CopyToStaging, Goto, temp, ContentInv, Typed, TempData, Copying
  <2>6. Met'
    BY <1>7 DEF CopyToStaging, Goto, temp, ContentInv, Typed, Met, Copying
  <2> QED BY <2>1, <2>2, <2>3, <2>4, <2>5, <2>6 DEF ContentInv
<1>8. ASSUME NEW s \in Saver, ClearFinal(s) PROVE ContentInv'
  <2>1. Typed'
    BY <1>8 DEF ClearFinal, Goto, temp, ContentInv, Typed, Content, Label, Staged, Copying,
       Writing
  <2>2. OwnData(dir)' /\ OwnData(synced)'
    BY <1>8 DEF ClearFinal, Goto, temp, ContentInv, Typed, OwnData
  <2>3. Wanted' /\ OnlyHandlersWrite'
    BY <1>8 DEF ClearFinal, Goto, temp, ContentInv, Typed, Wanted, OnlyHandlersWrite, Writing
  <2>4. StagedData'
    BY <1>8 DEF ClearFinal, Goto, temp, ContentInv, Typed, StagedData, Staged
  <2>5. TempData'
    BY <1>8 DEF ClearFinal, Goto, temp, ContentInv, Typed, TempData, Copying
  <2>6. Met'
    BY <1>8 DEF ClearFinal, Goto, temp, ContentInv, Typed, Met, Copying
  <2> QED BY <2>1, <2>2, <2>3, <2>4, <2>5, <2>6 DEF ContentInv
<1>9. ASSUME NEW s \in Saver, SyncRemoval(s) PROVE ContentInv'
  <2>1. Typed'
    BY <1>9 DEF SyncRemoval, SyncDirectory, Goto, temp, ContentInv, Typed, Content, Label, Staged,
       Copying, Writing
  <2>2. OwnData(dir)' /\ OwnData(synced)'
    BY <1>9 DEF SyncRemoval, SyncDirectory, Goto, temp, ContentInv, Typed, OwnData
  <2>3. Wanted' /\ OnlyHandlersWrite'
    BY <1>9 DEF SyncRemoval, SyncDirectory, Goto, temp, ContentInv, Typed, Wanted,
       OnlyHandlersWrite, Writing
  <2>4. StagedData'
    BY <1>9 DEF SyncRemoval, SyncDirectory, Goto, temp, ContentInv, Typed, StagedData, Staged
  <2>5. TempData'
    BY <1>9 DEF SyncRemoval, SyncDirectory, Goto, temp, ContentInv, Typed, TempData, Copying
  <2>6. Met'
    BY <1>9 DEF SyncRemoval, SyncDirectory, Goto, temp, ContentInv, Typed, Met, Copying
  <2> QED BY <2>1, <2>2, <2>3, <2>4, <2>5, <2>6 DEF ContentInv
<1>10. ASSUME NEW s \in Saver, Rename(s) PROVE ContentInv'
  <2>1. Typed'
    BY <1>10 DEF Rename, RemoveTemp, Goto, temp, ContentInv, Typed, Content, Label, Staged,
       Copying, Writing
  <2>2. OwnData(dir)' /\ OwnData(synced)'
    BY <1>10 DEF Rename, RemoveTemp, Goto, temp, ContentInv, Typed, OwnData, StagedData, Staged
  <2>3. Wanted' /\ OnlyHandlersWrite'
    BY <1>10 DEF Rename, RemoveTemp, Goto, temp, ContentInv, Typed, Wanted, OnlyHandlersWrite,
       Writing
  <2>4. StagedData'
    BY <1>10 DEF Rename, RemoveTemp, Goto, temp, ContentInv, Typed, StagedData, Staged
  <2>5. TempData'
    BY <1>10 DEF Rename, RemoveTemp, Goto, temp, ContentInv, Typed, TempData, Copying
  <2>6. Met'
    BY <1>10 DEF Rename, RemoveTemp, Goto, temp, ContentInv, Typed, Met, Copying
  <2> QED BY <2>1, <2>2, <2>3, <2>4, <2>5, <2>6 DEF ContentInv
<1>11. ASSUME NEW s \in Saver, SyncPublish(s) PROVE ContentInv'
  <2>1. Typed'
    BY <1>11 DEF SyncPublish, SyncDirectory, RemoveTemp, Goto, temp, ContentInv, Typed, Content,
       Label, Staged, Copying, Writing
  <2>2. OwnData(dir)' /\ OwnData(synced)'
    BY <1>11 DEF SyncPublish, SyncDirectory, RemoveTemp, Goto, temp, ContentInv, Typed, OwnData
  <2>3. Wanted' /\ OnlyHandlersWrite'
    BY <1>11 DEF SyncPublish, SyncDirectory, RemoveTemp, Goto, temp, ContentInv, Typed, Wanted,
       OnlyHandlersWrite, Writing
  <2>4. StagedData'
    BY <1>11 DEF SyncPublish, SyncDirectory, RemoveTemp, Goto, temp, ContentInv, Typed,
       StagedData, Staged
  <2>5. TempData'
    BY <1>11 DEF SyncPublish, SyncDirectory, RemoveTemp, Goto, temp, ContentInv, Typed, TempData,
       Copying
  <2>6. Met'
    BY <1>11 DEF SyncPublish, SyncDirectory, RemoveTemp, Goto, temp, ContentInv, Typed, Met,
       Copying
  <2> QED BY <2>1, <2>2, <2>3, <2>4, <2>5, <2>6 DEF ContentInv
<1>12. ASSUME NEW s \in Saver, SaveFails(s) PROVE ContentInv'
  <2>1. Typed'
    BY <1>12 DEF SaveFails, Fails, RemoveTemp, temp, Goto, ContentInv, Typed, Content, Label,
       Staged, Copying, Writing
  <2>2. OwnData(dir)' /\ OwnData(synced)'
    BY <1>12 DEF SaveFails, Fails, RemoveTemp, temp, Goto, ContentInv, Typed, OwnData
  <2>3. Wanted' /\ OnlyHandlersWrite'
    BY <1>12 DEF SaveFails, Fails, RemoveTemp, temp, Goto, ContentInv, Typed, Wanted,
       OnlyHandlersWrite, Writing
  <2>4. StagedData'
    BY <1>12 DEF SaveFails, Fails, RemoveTemp, temp, Goto, ContentInv, Typed, StagedData, Staged
  <2>5. TempData'
    BY <1>12 DEF SaveFails, Fails, RemoveTemp, temp, Goto, ContentInv, Typed, TempData, Copying
  <2>6. Met'
    BY <1>12 DEF SaveFails, Fails, RemoveTemp, temp, Goto, ContentInv, Typed, Met, Copying
  <2> QED BY <2>1, <2>2, <2>3, <2>4, <2>5, <2>6 DEF ContentInv
<1>13. ASSUME NEW s \in Saver, LoadInstalled(s) PROVE ContentInv'
  <2>1. Typed'
    BY <1>13 DEF LoadInstalled, Goto, temp, ContentInv, Typed, Content, Label, Staged, Copying,
       Writing
  <2>2. OwnData(dir)' /\ OwnData(synced)'
    BY <1>13 DEF LoadInstalled, Goto, temp, ContentInv, Typed, OwnData
  <2>3. Wanted' /\ OnlyHandlersWrite'
    BY <1>13 DEF LoadInstalled, Goto, temp, ContentInv, Typed, Wanted, OnlyHandlersWrite, Writing
  <2>4. StagedData'
    BY <1>13 DEF LoadInstalled, Goto, temp, ContentInv, Typed, StagedData, Staged
  <2>5. TempData'
    BY <1>13 DEF LoadInstalled, Goto, temp, ContentInv, Typed, TempData, Copying
  <2>6. Met'
    BY <1>13 DEF LoadInstalled, Goto, temp, ContentInv, Typed, Met, Copying
  <2> QED BY <2>1, <2>2, <2>3, <2>4, <2>5, <2>6 DEF ContentInv
<1>14. ASSUME NEW s \in Saver, CompactLog(s) PROVE ContentInv'
  <2>1. Typed'
    BY <1>14 DEF CompactLog, Goto, temp, ContentInv, Typed, Content, Label, Staged, Copying,
       Writing
  <2>2. OwnData(dir)' /\ OwnData(synced)'
    BY <1>14 DEF CompactLog, Goto, temp, ContentInv, Typed, OwnData
  <2>3. Wanted' /\ OnlyHandlersWrite'
    BY <1>14 DEF CompactLog, Goto, temp, ContentInv, Typed, Wanted, OnlyHandlersWrite, Writing
  <2>4. StagedData'
    BY <1>14 DEF CompactLog, Goto, temp, ContentInv, Typed, StagedData, Staged
  <2>5. TempData'
    BY <1>14 DEF CompactLog, Goto, temp, ContentInv, Typed, TempData, Copying
  <2>6. Met'
    BY <1>14 DEF CompactLog, Goto, temp, ContentInv, Typed, Met, Copying
  <2> QED BY <2>1, <2>2, <2>3, <2>4, <2>5, <2>6 DEF ContentInv
<1>15. ASSUME NEW s \in Saver, PruneList(s) PROVE ContentInv'
  <2>1. Typed'
    BY <1>15 DEF PruneList, Goto, temp, ContentInv, Typed, Content, Label, Staged, Copying,
       Writing
  <2>2. OwnData(dir)' /\ OwnData(synced)'
    BY <1>15 DEF PruneList, Goto, temp, ContentInv, Typed, OwnData
  <2>3. Wanted' /\ OnlyHandlersWrite'
    BY <1>15 DEF PruneList, Goto, temp, ContentInv, Typed, Wanted, OnlyHandlersWrite, Writing
  <2>4. StagedData'
    BY <1>15 DEF PruneList, Goto, temp, ContentInv, Typed, StagedData, Staged
  <2>5. TempData'
    BY <1>15 DEF PruneList, Goto, temp, ContentInv, Typed, TempData, Copying
  <2>6. Met'
    BY <1>15 DEF PruneList, Goto, temp, ContentInv, Typed, Met, Copying
  <2> QED BY <2>1, <2>2, <2>3, <2>4, <2>5, <2>6 DEF ContentInv
<1>16. ASSUME NEW s \in Saver, PruneRemove(s) PROVE ContentInv'
  <2>1. Typed'
    BY <1>16 DEF PruneRemove, Goto, temp, ContentInv, Typed, Content, Label, Staged, Copying,
       Writing
  <2>2. OwnData(dir)' /\ OwnData(synced)'
    BY <1>16 DEF PruneRemove, Goto, temp, ContentInv, Typed, OwnData
  <2>3. Wanted' /\ OnlyHandlersWrite'
    BY <1>16 DEF PruneRemove, Goto, temp, ContentInv, Typed, Wanted, OnlyHandlersWrite, Writing
  <2>4. StagedData'
    BY <1>16 DEF PruneRemove, Goto, temp, ContentInv, Typed, StagedData, Staged
  <2>5. TempData'
    BY <1>16 DEF PruneRemove, Goto, temp, ContentInv, Typed, TempData, Copying
  <2>6. Met'
    BY <1>16 DEF PruneRemove, Goto, temp, ContentInv, Typed, Met, Copying
  <2> QED BY <2>1, <2>2, <2>3, <2>4, <2>5, <2>6 DEF ContentInv
<1>17. ASSUME NEW s \in Saver, PruneDone(s) PROVE ContentInv'
  <2>1. Typed'
    BY <1>17 DEF PruneDone, SyncDirectory, Goto, temp, ContentInv, Typed, Content, Label, Staged,
       Copying, Writing
  <2>2. OwnData(dir)' /\ OwnData(synced)'
    BY <1>17 DEF PruneDone, SyncDirectory, Goto, temp, ContentInv, Typed, OwnData
  <2>3. Wanted' /\ OnlyHandlersWrite'
    BY <1>17 DEF PruneDone, SyncDirectory, Goto, temp, ContentInv, Typed, Wanted,
       OnlyHandlersWrite, Writing
  <2>4. StagedData'
    BY <1>17 DEF PruneDone, SyncDirectory, Goto, temp, ContentInv, Typed, StagedData, Staged
  <2>5. TempData'
    BY <1>17 DEF PruneDone, SyncDirectory, Goto, temp, ContentInv, Typed, TempData, Copying
  <2>6. Met'
    BY <1>17 DEF PruneDone, SyncDirectory, Goto, temp, ContentInv, Typed, Met, Copying
  <2> QED BY <2>1, <2>2, <2>3, <2>4, <2>5, <2>6 DEF ContentInv
<1>18. ASSUME Kill PROVE ContentInv'
  <2>1. Typed'
    BY <1>18 DEF Kill, Restart, ContentInv, Typed, Content, Label, Staged, Copying, Writing
  <2>2. OwnData(dir)' /\ OwnData(synced)'
    BY <1>18 DEF Kill, Restart, ContentInv, Typed, OwnData
  <2>3. Wanted' /\ OnlyHandlersWrite'
    BY <1>18 DEF Kill, Restart, ContentInv, Typed, Wanted, OnlyHandlersWrite, Writing
  <2>4. StagedData'
    BY <1>18 DEF Kill, Restart, ContentInv, Typed, StagedData, Staged
  <2>5. TempData'
    BY <1>18 DEF Kill, Restart, ContentInv, Typed, TempData, Copying
  <2>6. Met'
    BY <1>18 DEF Kill, Restart, ContentInv, Typed, Met, Copying
  <2> QED BY <2>1, <2>2, <2>3, <2>4, <2>5, <2>6 DEF ContentInv
<1>19. ASSUME PowerLoss PROVE ContentInv'
  <2>1. Typed'
    BY <1>19 DEF PowerLoss, Restart, ContentInv, Typed, Content, Label, Staged, Copying, Writing
  <2>2. OwnData(dir)' /\ OwnData(synced)'
    BY <1>19 DEF PowerLoss, Restart, ContentInv, Typed, OwnData
  <2>3. Wanted' /\ OnlyHandlersWrite'
    BY <1>19 DEF PowerLoss, Restart, ContentInv, Typed, Wanted, OnlyHandlersWrite, Writing
  <2>4. StagedData'
    BY <1>19 DEF PowerLoss, Restart, ContentInv, Typed, StagedData, Staged
  <2>5. TempData'
    BY <1>19 DEF PowerLoss, Restart, ContentInv, Typed, TempData, Copying
  <2>6. Met'
    BY <1>19 DEF PowerLoss, Restart, ContentInv, Typed, Met, Copying
  <2> QED BY <2>1, <2>2, <2>3, <2>4, <2>5, <2>6 DEF ContentInv
<1>20. ASSUME UNCHANGED vars PROVE ContentInv'
  BY <1>20 DEF vars, temp, ContentInv, Typed, OwnData, Wanted, OnlyHandlersWrite, StagedData,
     TempData, Met
<1> QED
  BY <1>1, <1>2, <1>3, <1>4, <1>5, <1>6, <1>7, <1>8, <1>9, <1>10,
     <1>11, <1>12, <1>13, <1>14, <1>15, <1>16, <1>17, <1>18, <1>19, <1>20 DEF Next

\* RightContent of FileSnapshotStorage, for every number of workers, handlers,
\* indexes and faults.
THEOREM ContentIsRight == Spec => []RightContent
<1>1. ContentInv => RightContent
  BY DEF ContentInv, RightContent, Valid, OwnData
<1> QED
  BY <1>1, InitContent, StepContent, PTL DEF Spec

----------------------------------------------------------------------------
(* Covering the log *)

\* A snapshot that a loss of power leaves in place, or that one of the gaps
\* accounts for.
Held(j) == (dir[j] = j /\ synced[j] = j) \/ j \in exposed \/ j \in mixed

Covers(n) == n > 0 => \E j \in Index : j >= n /\ Held(j)

HistoryTyped ==
  /\ exposed \subseteq Index /\ mixed \subseteq Index
  /\ marker \in Index \cup {0} /\ logStart \in Index \cup {0}
  /\ victims \in [Saver -> SUBSET Index]

\* What thread s relies on: a snapshot it has saved is held, one it has renamed
\* is in place or held, and each it is to prune has a newer one that is held.
Relies(s) ==
  /\ pc[s] = "saved" \/ pc[s] = "compact" => Covers(want[s])
  /\ pc[s] = "sync_publish" => Covers(want[s]) \/ dir[want[s]] = want[s]
  /\ \A v \in victims[s] : \E j \in Index : j > v /\ Held(j)

CoverInv ==
  /\ HistoryTyped
  /\ Covers(marker) /\ Covers(logStart)
  /\ \A s \in Saver : Relies(s)

\* No held snapshot is lost without a newer one that is held, and none that is
\* in place.
KeepsUp ==
  /\ \A j \in Index : Held(j) => \E k \in Index : k >= j /\ Held(k)'
  /\ \A j \in Index : dir[j] = j => dir'[j] = j \/ \E k \in Index : k >= j /\ Held(k)'

LEMMA CoversStay ==
  ASSUME KeepsUp, NEW n \in Nat, Covers(n) PROVE Covers(n)'
<1> SUFFICES ASSUME n > 0 PROVE \E k \in Index : k >= n /\ Held(k)'
  BY DEF Covers
<1>1. PICK j \in Index : j >= n /\ Held(j)
  BY DEF Covers
<1>2. PICK k \in Index : k >= j /\ Held(k)'
  BY <1>1 DEF KeepsUp
<1>3. k >= n
  BY <1>1, <1>2, IndexNat
<1> QED BY <1>2, <1>3

\* Every held snapshot stays one: a step that only adds to what is held.
LEMMA HeldKeepsUp ==
  ASSUME \A j \in Index : (Held(j) => Held(j)') /\ (dir[j] = j => dir'[j] = j \/ Held(j)')
  PROVE  KeepsUp
<1>1. \A j \in Index : j >= j
  BY IndexNat
<1> QED BY <1>1 DEF KeepsUp

\* A sync of the root vouches for all that is in place.
LEMMA SyncKeepsUp ==
  ASSUME SyncDirectory, UNCHANGED <<dir, mixed>>
  PROVE  KeepsUp /\ \A j \in Index : dir[j] = j => Held(j)'
<1>1. \A j \in Index : (Held(j) => Held(j)') /\ (dir[j] = j => Held(j)')
  BY DEF SyncDirectory, Held
<1> QED BY <1>1, HeldKeepsUp

\* What the other threads rely on outlives a step of s that keeps up.
LEMMA OthersRely ==
  ASSUME ContentInv, CoverInv, NEW s \in Saver, HistoryTyped', Relies(s)', KeepsUp,
         \A t \in Saver \ {s} : pc'[t] = pc[t] /\ want'[t] = want[t] /\ victims'[t] = victims[t],
         Covers(marker)', Covers(logStart)'
  PROVE  CoverInv'
<1>1. ASSUME NEW t \in Saver \ {s} PROVE Relies(t)'
  <2>1. PICK w \in Index \cup {0} : want[t] = w /\ (pc[t] # "idle" => w \in Index)
    BY DEF ContentInv, Typed, Wanted
  <2>2. w \in Nat
    BY IndexNat
  <2>3. Relies(t) /\ victims[t] \subseteq Index
    BY DEF CoverInv, HistoryTyped
  <2>4. Covers(w) => Covers(w)'
    BY <2>2, CoversStay
  <2>5. pc[t] = "sync_publish" /\ dir[w] = w => dir'[w] = w \/ Covers(w)'
    BY <2>1 DEF KeepsUp, Covers
  <2>6. ASSUME NEW v \in victims[t] PROVE \E k \in Index : k > v /\ Held(k)'
    <3>1. PICK j \in Index : j > v /\ Held(j)
      BY <2>3 DEF Relies
    <3>2. PICK k \in Index : k >= j /\ Held(k)'
      BY <3>1 DEF KeepsUp
    <3>3. k > v
      BY <2>3, <3>1, <3>2, IndexNat
    <3> QED BY <3>2, <3>3
  <2>7. pc'[t] = pc[t] /\ want'[t] = w /\ victims'[t] = victims[t]
    BY <2>1
  <2>8. /\ pc[t] = "saved" \/ pc[t] = "compact" => Covers(w)
        /\ pc[t] = "sync_publish" => Covers(w) \/ dir[w] = w
    BY <2>1, <2>3 DEF Relies, Covers
  <2> QED BY <2>4, <2>5, <2>6, <2>7, <2>8 DEF Relies, Covers
<1> QED
  BY <1>1 DEF CoverInv

\* A step that leaves the directories, the log and the history alone, and after
\* which s has only what it had.
LEMMA QuietStep ==
  ASSUME ContentInv, CoverInv, NEW s \in Saver, NEW l,
         UNCHANGED <<dir, synced, victims, log, mixed, exposed>>, Goto(s, l), l \in Label,
         l \notin {"saved", "sync_publish"},
         l = "compact" => pc[s] = "saved" /\ want'[s] = want[s],
         \A t \in Saver \ {s} : want'[t] = want[t]
  PROVE  CoverInv'
<1>1. HistoryTyped'
  BY DEF CoverInv, HistoryTyped, log
<1>2. KeepsUp
  BY HeldKeepsUp DEF Held
<1>3. pc'[s] = l /\ \A t \in Saver \ {s} : pc'[t] = pc[t]
  BY DEF Goto, ContentInv, Typed
<1>4. Relies(s)'
  <2>1. Relies(s)
    BY DEF CoverInv
  <2> QED BY <1>3, <2>1 DEF Relies, Covers, Held
<1>5. Covers(marker)' /\ Covers(logStart)'
  BY DEF CoverInv, Covers, Held, log
<1> QED
  BY <1>1, <1>2, <1>3, <1>4, <1>5, OthersRely

\* A sync of the root before the rename.
LEMMA SyncStep ==
  ASSUME ContentInv, CoverInv, NEW s \in Saver, NEW l,
         SyncDirectory, UNCHANGED <<dir, want, victims, log, mixed>>, Goto(s, l),
         l \in {"check", "copy", "rename"}
  PROVE  CoverInv'
<1>1. HistoryTyped'
  BY DEF CoverInv, HistoryTyped, log, SyncDirectory
<1>2. KeepsUp
  BY SyncKeepsUp
<1>3. pc'[s] = l /\ \A t \in Saver \ {s} : pc'[t] = pc[t]
  BY DEF Goto, ContentInv, Typed
<1>4. Relies(s)'
  <2>1. \A v \in victims[s] : \E j \in Index : j > v /\ Held(j)
    BY DEF CoverInv, Relies
  <2>2. \A j \in Index : Held(j) => Held(j)'
    BY DEF Held, SyncDirectory
  <2> QED BY <1>3, <2>1, <2>2 DEF Relies
<1>5. Covers(marker)' /\ Covers(logStart)'
  <2>1. marker \in Nat /\ logStart \in Nat
    BY IndexNat DEF CoverInv, HistoryTyped
  <2>2. \A n \in Nat : Covers(n) => Covers(n)'
    BY <1>2, CoversStay
  <2> QED BY <2>1, <2>2 DEF CoverInv, log, Covers
<1> QED
  BY <1>1, <1>2, <1>3, <1>4, <1>5, OthersRely

\* The directories a save can trust: one that passes the checksum and is synced,
\* or whose data may be of two snapshots, is held.
LEMMA ValidHeld ==
  ASSUME ContentInv, NEW j \in Valid(dir), dir[j] = synced[j] PROVE Held(j)
  BY DEF ContentInv, OwnData, Valid, Held

LEMMA InitCover == Init => CoverInv
  BY DEF Init, CoverInv, HistoryTyped, Covers, Relies

LEMMA SaveCover ==
  ASSUME ContentInv, CoverInv, NEW s \in Saver,
         CheckExisting(s) \/ CopyToStaging(s) \/ ClearFinal(s) \/ Rename(s) \/ SyncPublish(s)
  PROVE  CoverInv'
<1> DEFINE w == want[s]
<1>1. w \in Index
  BY DEF ContentInv, Wanted, CheckExisting, CopyToStaging, ClearFinal, Rename, SyncPublish
<1>2. /\ UNCHANGED <<want, victims, log>>
      /\ \A t \in Saver \ {s} : pc'[t] = pc[t]
  BY DEF CheckExisting, CopyToStaging, ClearFinal, Rename, SyncPublish, Goto, ContentInv, Typed
<1>3. HistoryTyped'
  BY <1>1, <1>2 DEF CheckExisting, CopyToStaging, ClearFinal, Rename, SyncPublish, SyncDirectory,
     CoverInv, HistoryTyped, log, Valid
<1>4. \A j \in Index : (Held(j) => Held(j)') /\ (dir[j] = j => dir'[j] = j \/ Held(j)')
  <2>1. CASE CheckExisting(s)
    BY <2>1 DEF CheckExisting, Held
  <2>2. CASE CopyToStaging(s)
    BY <2>2 DEF CopyToStaging, Held
  <2>3. CASE ClearFinal(s)
    BY <2>3, Apart DEF ClearFinal, Held, ContentInv, Typed
  <2>4. CASE Rename(s)
    BY <2>4, Apart DEF Rename, Held, ContentInv, Typed
  <2>5. CASE SyncPublish(s)
    BY <2>5 DEF SyncPublish, SyncDirectory, Held
  <2> QED BY <2>1, <2>2, <2>3, <2>4, <2>5
<1>5. KeepsUp
  BY <1>4, HeldKeepsUp
<1>6. Relies(s)'
  <2>0. w \in Nat /\ (Held(w)' => Covers(w)')
    <3>1. w' = w
      BY <1>2
    <3> HIDE DEF w
    <3>2. w \in Nat /\ w >= w
      BY <1>1, IndexNat
    <3> QED BY <1>1, <3>1, <3>2 DEF Covers
  <2>1. pc'[s] = "saved" \/ pc'[s] = "compact" => Covers(w)'
    <3>1. CASE CheckExisting(s)
      <4>1. CASE w \in Valid(dir)
        <5>1. dir[w] = w \/ w \in mixed
          BY <1>1, <4>1 DEF ContentInv, OwnData, Valid
        <5>2. Held(w)'
          BY <1>1, <1>2, <3>1, <4>1, <5>1 DEF CheckExisting, Held
        <5> QED BY <2>0, <5>2
      <4>2. CASE w \notin Valid(dir)
        BY <3>1, <4>2 DEF CheckExisting, Goto, ContentInv, Typed
      <4> QED BY <4>1, <4>2
    <3>2. CASE SyncPublish(s)
      <4>1. CASE Covers(w)
        BY <1>2, <1>5, <2>0, <4>1, CoversStay DEF Covers
      <4>2. CASE dir[w] = w
        BY <1>1, <1>2, <2>0, <3>2, <4>2 DEF SyncPublish, SyncDirectory, Held
      <4> QED BY <3>2, <4>1, <4>2 DEF CoverInv, Relies, SyncPublish
    <3>3. CASE CopyToStaging(s) \/ ClearFinal(s) \/ Rename(s)
      BY <3>3 DEF CopyToStaging, ClearFinal, Rename, Goto, ContentInv, Typed
    <3> QED BY <3>1, <3>2, <3>3
  <2>2. pc'[s] = "sync_publish" => Covers(w)' \/ dir'[w] = w
    <3>1. CASE Rename(s) /\ dir[w] = Absent
      <4>1. stage[s] = w \/ w \in mixed
        BY <3>1 DEF Rename, ContentInv, StagedData, Staged
      <4>2. dir'[w] = stage[s] /\ mixed' = mixed
        BY <1>1, <3>1 DEF Rename, ContentInv, Typed
      <4> QED BY <1>2, <2>0, <4>1, <4>2 DEF Held
    <3>2. CASE ~(Rename(s) /\ dir[w] = Absent)
      BY <3>2 DEF CheckExisting, CopyToStaging, ClearFinal, Rename, SyncPublish, Goto, ContentInv,
         Typed
    <3> QED BY <3>1, <3>2
  <2>3. \A v \in victims[s] : \E j \in Index : j > v /\ Held(j)'
    BY <1>4 DEF CoverInv, Relies
  <2> QED BY <1>2, <2>1, <2>2, <2>3 DEF Relies
<1>7. Covers(marker)' /\ Covers(logStart)'
  <2>1. marker \in Nat /\ logStart \in Nat
    BY IndexNat DEF CoverInv, HistoryTyped
  <2>2. \A n \in Nat : Covers(n) => Covers(n)'
    BY <1>5, CoversStay
  <2> QED BY <1>2, <2>1, <2>2 DEF CoverInv, log, Covers
<1> QED
  BY <1>2, <1>3, <1>5, <1>6, <1>7, OthersRely

LEMMA CompactCover ==
  ASSUME ContentInv, CoverInv, NEW s \in Saver, CompactLog(s) PROVE CoverInv'
<1>1. /\ UNCHANGED <<dir, synced, want, victims, mixed, exposed>>
      /\ pc'[s] = "prune" \/ pc'[s] = "idle"
      /\ \A t \in Saver \ {s} : pc'[t] = pc[t]
  BY DEF CompactLog, Goto, ContentInv, Typed
<1>2. want[s] \in Index /\ Covers(want[s])
  BY DEF CompactLog, ContentInv, Wanted, CoverInv, Relies
<1>3. (marker' = marker \/ marker' = want[s]) /\ (logStart' = logStart \/ logStart' = marker')
  BY DEF CompactLog, Larger
<1>4. HistoryTyped'
  BY <1>1, <1>2, <1>3 DEF CoverInv, HistoryTyped
<1>5. KeepsUp
  BY <1>1, HeldKeepsUp DEF Held
<1>6. Relies(s)'
  BY <1>1 DEF CoverInv, Relies, Held
<1>7. \A n : Covers(n) => Covers(n)'
  BY <1>1 DEF Covers, Held
<1>8. Covers(marker)' /\ Covers(logStart)'
  BY <1>2, <1>3, <1>7 DEF CoverInv, Covers
<1> QED
  BY <1>1, <1>4, <1>5, <1>6, <1>8, OthersRely

LEMMA PruneListCover ==
  ASSUME ContentInv, CoverInv, NEW s \in Saver, PruneList(s) PROVE CoverInv'
<1> DEFINE Newer(v) == {j \in Valid(dir) : j > v}
           old == Valid(dir) \ Newest(Valid(dir), Keep)
<1>1. /\ UNCHANGED <<dir, synced, want, log, mixed>> /\ exposed \subseteq exposed'
      /\ pc'[s] = "remove"
      /\ \A t \in Saver \ {s} : pc'[t] = pc[t] /\ victims'[t] = victims[t]
  BY DEF PruneList, Goto, ContentInv, Typed, CoverInv, HistoryTyped
<1>2. victims'[s] = old
  BY DEF PruneList, CoverInv, HistoryTyped
<1>3. HistoryTyped'
  BY <1>1 DEF PruneList, Valid, CoverInv, HistoryTyped, log
<1>4. \A j \in Index : (Held(j) => Held(j)') /\ (dir[j] = j => dir'[j] = j \/ Held(j)')
  BY <1>1 DEF Held
<1>5. KeepsUp
  BY <1>4, HeldKeepsUp
<1>6. ASSUME NEW v \in old PROVE \E j \in Index : j > v /\ Held(j)'
  <2>1. Newer(v) # {}
    <3>1. Cardinality({}) = 0 /\ 0 < Keep
      BY FS_EmptySet, SnapshotAssumption
    <3>2. ~(Cardinality({j \in Valid(dir) : j > v}) < Keep)
      BY DEF Newest
    <3> QED BY <3>1, <3>2
  <2>2. CASE \E j \in Newer(v) : dir[j] = synced[j]
    <3>1. PICK j \in Newer(v) : dir[j] = synced[j]
      BY <2>2
    <3>2. Held(j) /\ j \in Index /\ j > v
      BY <3>1, ValidHeld DEF Valid
    <3> QED BY <1>4, <3>2
  <2>3. CASE \A j \in Newer(v) : dir[j] # synced[j]
    <3>1. PICK j \in Newer(v) : TRUE
      BY <2>1
    <3>2. j \in exposed'
      BY <2>3, <3>1 DEF PruneList
    <3> QED BY <3>1, <3>2 DEF Held, Valid
  <2> QED BY <2>2, <2>3
<1>7. Relies(s)'
  BY <1>1, <1>2, <1>6 DEF Relies
<1>8. Covers(marker)' /\ Covers(logStart)'
  <2>1. \A n : Covers(n) => Covers(n)'
    BY <1>4 DEF Covers
  <2> QED BY <1>1, <2>1 DEF CoverInv, log, Covers
<1> QED
  BY <1>1, <1>3, <1>5, <1>7, <1>8, OthersRely

\* The directory a prune removes has a newer one that is held, and stays so.
LEMMA PruneRemoveCover ==
  ASSUME ContentInv, CoverInv, NEW s \in Saver, PruneRemove(s) PROVE CoverInv'
<1>1. PICK i \in victims[s] :
         /\ i \in Index /\ \A j \in Index \ {i} : dir'[j] = dir[j]
         /\ victims' \in [Saver -> SUBSET Index] /\ victims'[s] \subseteq victims[s]
         /\ \A t \in Saver \ {s} : victims'[t] = victims[t]
  BY DEF PruneRemove, ContentInv, Typed, CoverInv, HistoryTyped
<1>2. UNCHANGED <<synced, pc, want, log, mixed, exposed>> /\ pc[s] = "remove"
  BY DEF PruneRemove
<1>3. \A j \in Index \ {i} : Held(j) => Held(j)'
  BY <1>1, <1>2 DEF Held
<1>4. PICK k \in Index : k > i /\ Held(k)'
  <2>1. PICK k \in Index : k > i /\ Held(k)
    BY DEF CoverInv, Relies
  <2>2. k # i
    BY <1>1, <2>1, IndexNat
  <2> QED BY <1>3, <2>1, <2>2
<1>5. KeepsUp
  <2>1. \A j \in Index : j >= j
    BY IndexNat
  <2>2. k >= i
    BY <1>1, <1>4, IndexNat
  <2> QED BY <1>1, <1>3, <1>4, <2>1, <2>2 DEF KeepsUp
<1>6. HistoryTyped'
  BY <1>1, <1>2 DEF CoverInv, HistoryTyped, log
<1>7. Relies(s)'
  <2>1. ASSUME NEW v \in victims[s] PROVE \E m \in Index : m > v /\ Held(m)'
    <3>1. PICK j \in Index : j > v /\ Held(j)
      BY DEF CoverInv, Relies
    <3>2. PICK m \in Index : m >= j /\ Held(m)'
      BY <1>5, <3>1 DEF KeepsUp
    <3>3. v \in Index
      BY DEF CoverInv, HistoryTyped
    <3>4. m > v
      BY <3>1, <3>2, <3>3, IndexNat
    <3> QED BY <3>2, <3>4
  <2> QED BY <1>1, <1>2, <2>1 DEF Relies
<1>8. Covers(marker)' /\ Covers(logStart)'
  <2>1. marker \in Nat /\ logStart \in Nat
    BY IndexNat DEF CoverInv, HistoryTyped
  <2>2. \A n \in Nat : Covers(n) => Covers(n)'
    BY <1>5, CoversStay
  <2> QED BY <1>2, <2>1, <2>2 DEF CoverInv, log, Covers
<1> QED
  BY <1>1, <1>2, <1>5, <1>6, <1>7, <1>8, OthersRely

\* LoadLatestSnapshotOnStartup: what is held stays so, and what is loaded is held
\* if only because it is exposed.
LEMMA RestartCover ==
  ASSUME ContentInv, CoverInv, OwnData(dir)', Restart,
         \A j \in Index : dir[j] = synced[j] => dir'[j] = dir[j] /\ synced'[j] = dir[j]
  PROVE  CoverInv'
<1>1. PICK i \in Index \cup {0} :
         /\ IsLatest(dir', i) /\ marker' = Larger(logStart, i)
         /\ exposed' = {j \in exposed : dir'[j] # synced'[j] \/ dir'[j] # j}
                         \cup {j \in {i} \cap Index : dir'[j] # synced'[j]}
  BY DEF Restart, CoverInv, HistoryTyped
<1>2. mixed' = mixed /\ logStart' = marker'
  BY DEF Restart
<1>3. \A j \in Index : Held(j) => Held(j)'
  BY <1>1, <1>2 DEF Held
<1>4. i \in Index => Held(i)'
  <2> SUFFICES ASSUME i \in Index, i \notin mixed PROVE Held(i)'
    BY <1>2 DEF Held
  <2>1. i \in Loadable(dir')
    BY <1>1, IndexNat DEF IsLatest
  <2>2. dir'[i] = i
    BY <1>2, <2>1 DEF Loadable, Valid, OwnData
  <2> QED BY <1>1, <2>2 DEF Held
<1>5. marker' = logStart \/ marker' = i
  BY <1>1 DEF Larger
<1>6. HistoryTyped'
  BY <1>1, <1>2, <1>5 DEF Restart, CoverInv, HistoryTyped
<1>7. Covers(marker)'
  <2>1. CASE marker' = logStart
    BY <1>3, <2>1 DEF CoverInv, Covers
  <2>2. CASE marker' = i
    <3>1. i > 0 => i \in Index /\ i >= i
      BY IndexNat
    <3> QED BY <1>4, <2>2, <3>1 DEF Covers
  <2> QED BY <1>5, <2>1, <2>2
<1>8. Covers(logStart)'
  BY <1>2, <1>7 DEF Covers
<1>9. \A s \in Saver : Relies(s)'
  BY DEF Restart, Relies
<1> QED
  BY <1>6, <1>7, <1>8, <1>9 DEF CoverInv

LEMMA StepCover ==
  ASSUME ContentInv, ContentInv', CoverInv, [Next]_vars PROVE CoverInv'
<1>1. ASSUME NEW s \in Saver, NEW i \in Offered[s], Begin(s, i) PROVE CoverInv'
  <2>1. \A t \in Saver \ {s} : want'[t] = want[t]
    BY <1>1 DEF Begin, ContentInv, Typed
  <2>2. CASE s \in Handler
    BY <1>1, <2>1, <2>2, QuietStep DEF Begin, Label, Writing
  <2>3. CASE s \notin Handler
    BY <1>1, <2>1, <2>3, QuietStep DEF Begin, Label, Copying
  <2> QED BY <2>2, <2>3
<1>2. ASSUME NEW s \in Saver, OpenTemp(s) PROVE CoverInv'
  BY <1>2, QuietStep DEF OpenTemp, Label, Writing
<1>3. ASSUME NEW s \in Saver, WriteTemp(s) PROVE CoverInv'
  BY <1>3, QuietStep DEF WriteTemp, Label, Copying
<1>4. ASSUME NEW s \in Saver, SaveFails(s) PROVE CoverInv'
  BY <1>4, QuietStep DEF SaveFails, Fails, Label
<1>5. ASSUME NEW s \in Saver, LoadInstalled(s) PROVE CoverInv'
  <2>1. CASE Goto(s, "compact")
    BY <1>5, <2>1, QuietStep DEF LoadInstalled, Label
  <2>2. CASE Goto(s, "idle")
    BY <1>5, <2>2, QuietStep DEF LoadInstalled, Label
  <2> QED BY <1>5, <2>1, <2>2 DEF LoadInstalled
<1>6. ASSUME NEW s \in Saver, SyncRoot(s) \/ MakeStaging(s) \/ SyncRemoval(s) PROVE CoverInv'
  BY <1>6, SyncStep DEF SyncRoot, MakeStaging, SyncRemoval
<1>7. ASSUME NEW s \in Saver, PruneDone(s) PROVE CoverInv'
  <2>1. /\ UNCHANGED <<dir, want, log, mixed>> /\ pc'[s] = "idle" /\ victims'[s] = {}
        /\ exposed' \subseteq exposed /\ victims' \in [Saver -> SUBSET Index]
        /\ \A t \in Saver \ {s} : pc'[t] = pc[t] /\ victims'[t] = victims[t]
    BY <1>7 DEF PruneDone, SyncDirectory, Goto, ContentInv, Typed, CoverInv, HistoryTyped
  <2>2. KeepsUp
    <3>1. CASE SyncDirectory
      BY <2>1, <3>1, SyncKeepsUp
    <3>2. CASE UNCHANGED <<synced, exposed>>
      BY <2>1, <3>2, HeldKeepsUp DEF Held
    <3> QED BY <1>7, <3>1, <3>2 DEF PruneDone
  <2>3. HistoryTyped' /\ Relies(s)'
    BY <2>1 DEF CoverInv, HistoryTyped, Relies, log
  <2>4. marker \in Nat /\ logStart \in Nat
    BY IndexNat DEF CoverInv, HistoryTyped
  <2>5. \A n \in Nat : Covers(n) => Covers(n)'
    BY <2>2, CoversStay
  <2>6. Covers(marker)' /\ Covers(logStart)'
    BY <2>1, <2>4, <2>5 DEF CoverInv, log, Covers
  <2> QED BY <2>1, <2>2, <2>3, <2>6, OthersRely
<1>8. ASSUME Kill PROVE CoverInv'
  BY <1>8, RestartCover DEF Kill, ContentInv
<1>9. ASSUME PowerLoss PROVE CoverInv'
  <2>1. \A j \in Index : dir[j] = synced[j] => dir'[j] = dir[j] /\ synced'[j] = dir[j]
    BY <1>9 DEF PowerLoss
  <2> QED BY <1>9, <2>1, RestartCover DEF PowerLoss, ContentInv
<1>10. ASSUME UNCHANGED vars PROVE CoverInv'
  BY <1>10 DEF vars, log, CoverInv, HistoryTyped, Relies, Covers, Held
<1> QED
  BY <1>1, <1>2, <1>3, <1>4, <1>5, <1>6, <1>7, <1>8, <1>9, <1>10, SaveCover, CompactCover,
     PruneListCover, PruneRemoveCover DEF Next

\* LogCovered of the callers of FileSnapshotStorage, for every number of workers,
\* handlers, indexes and faults: outside the gaps its statement names, neither a
\* save nor a prune of one thread takes from another what it cut the log by.
THEOREM EntriesStayCovered == Spec => []LogCovered
<1>1. ContentInv /\ CoverInv => LogCovered
  <2> SUFFICES ASSUME ContentInv, CoverInv, logStart > 0
               PROVE  \E i \in Loadable(dir) \cup exposed \cup mixed : i >= logStart
    BY DEF LogCovered
  <2>1. PICK j \in Index : j >= logStart /\ Held(j)
    BY DEF CoverInv, Covers
  <2>2. dir[j] = j => j \in Loadable(dir)
    BY Apart DEF Loadable, Valid
  <2> QED BY <2>1, <2>2 DEF Held
<1> QED
  BY <1>1, InitContent, StepContent, InitCover, StepCover, PTL DEF Spec
============================================================================
