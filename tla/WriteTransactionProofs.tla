----------------------- MODULE WriteTransactionProofs -----------------------
(***************************************************************************)
(* For any number of outputs in any directories: what write_transaction    *)
(* promises however its operations fail and whenever it is interrupted or  *)
(* the machine stops.  The inductive invariant records, for every phase,   *)
(* what the disk and the bookkeeping lists hold.                           *)
(***************************************************************************)
EXTENDS WriteTransaction, FiniteSetTheorems, TLAPS

AsFound(f) == [Absent EXCEPT !.final = found[f]]
Regular == \A f \in Files : found[f] # "foreign"

\* Nothing pre-existing lives in a directory the call made, and until staging
\* is over the directories of pre-existing outputs are known to exist.
DirsInv ==
  /\ \A f \in Files : found[f] # "none" => DirOf[f] \notin created
  /\ pc \in {"preflight", "stage"} =>
       \A f \in Files : found[f] # "none" => DirOf[f] \in dirs

ImagesInv == \A f \in Files : disk[f] \in images[f]

\* Names are moved in directories that will be synced; in the others only
\* temporary files come and go.
SyncInv ==
  /\ pc = "stage" => \A f \in Files \ todo : DirOf[f] \in to_sync
  /\ pc \in {"backup", "install", "cleanup"} => \A f \in Files : DirOf[f] \in to_sync
  /\ \A f \in backups \cup newly : DirOf[f] \in to_sync
  /\ \A f \in Files : DirOf[f] \notin to_sync =>
       \A e \in images[f] : e.final = found[f] /\ e.bak = "none"

\* No former byte lost so far; every output new for good.
Safe == \A f \in Former : \A e \in images[f] : e.final = "old" \/ e.bak = "old"
Whole == \A f \in Former : \A e \in images[f] : e.final = "new"

PreflightInv ==
  pc = "preflight" =>
    /\ created = {} /\ temps = {} /\ backups = {} /\ newly = {}
    /\ ~errors
    /\ \A f \in Files : images[f] = {AsFound(f)}

StageInv ==
  pc = "stage" =>
    /\ backups = {} /\ newly = {}
    /\ ~errors
    /\ \A f \in Files :
         /\ disk[f].final = found[f] /\ disk[f].bak = "none"
         /\ f \notin todo => f \in temps /\ disk[f].tmp = "new"
         /\ f \notin temps => disk[f].tmp = "none"

BackupInv ==
  pc = "backup" =>
    /\ newly = {} /\ temps = Files
    /\ todo \subseteq Former /\ backups = Former \ todo
    /\ ~errors
    /\ \A f \in Files :
         /\ disk[f].tmp = "new"
         /\ f \in backups => disk[f].final = "none" /\ disk[f].bak = "old"
         /\ f \notin backups => disk[f].final = found[f] /\ disk[f].bak = "none"

InstallInv ==
  pc = "install" =>
    /\ backups = Former /\ temps = todo /\ newly = (Files \ Former) \ todo
    /\ ~errors
    /\ \A f \in Files :
         /\ disk[f].bak = IF f \in Former THEN "old" ELSE "none"
         /\ f \in todo => disk[f].final = "none" /\ disk[f].tmp = "new"
         /\ f \notin todo => disk[f].final = "new" /\ disk[f].tmp = "none"

\* Past the commit point: every output new, and for good outside new directories.
Installed ==
  /\ temps = {}
  /\ \A f \in Files :
       /\ disk[f].final = "new" /\ disk[f].tmp = "none"
       /\ DirOf[f] \notin created => \A e \in images[f] : e.final = "new"

CleanupInv ==
  pc = "cleanup" => Installed /\ \A f \in Files : disk[f].bak = "old" => f \in backups

RestoreInv ==
  pc = "restore" =>
    /\ newly \cap Former = {} /\ todo \subseteq Former /\ todo \subseteq backups
    /\ \A f \in Files :
         /\ f \in todo => disk[f].bak = "old"
         /\ f \in Former \ todo =>
              errors \/ (disk[f].final = "old" /\ disk[f].bak = "none")
         /\ f \notin Former =>
              disk[f].bak = "none" /\ (f \in newly \/ disk[f].final = "none")
         /\ disk[f].tmp # "none" => f \in temps

RemoveNewInv ==
  pc = "remove_new" =>
    /\ todo \cap Former = {} /\ todo \subseteq newly
    /\ \A f \in Files :
         /\ f \in todo \/ errors \/ (disk[f].final = found[f] /\ disk[f].bak = "none")
         /\ f \in todo => disk[f].bak = "none"
         /\ disk[f].tmp # "none" => f \in temps

RemoveTempsInv ==
  pc = "remove_temps" =>
    \A f \in Files :
      \/ errors
      \/ /\ disk[f].final = found[f] /\ disk[f].bak = "none"
         /\ disk[f].tmp # "none" => f \in todo

RemoveDirsInv ==
  pc = "remove_dirs" => errors \/ \A f \in Files : disk[f] = AsFound(f)

OutcomeInv ==
  /\ pc \in {"preflight"} \cup Working \cup Rolling => outcome = "none"
  /\ pc \in {"finally", "ended"} => outcome # "none"
  /\ outcome \in {"committed", "cleanup_incomplete"} => Installed
  /\ pc = "finally" => todo \subseteq temps
  /\ outcome = "committed" => \A f \in Files : disk[f].bak = "none"
  /\ outcome \in {"failed", "refused"} =>
       \A f \in Files :
         /\ disk[f] = AsFound(f)
         /\ \A e \in images[f] : e.final = found[f] /\ e.bak = "none"
         /\ DirOf[f] \in to_sync => images[f] = {AsFound(f)}

RecoveryInv ==
  /\ pc \in {"preflight", "stage", "backup", "install"} \cup Rolling => Safe
  /\ pc = "cleanup" => Whole
  /\ pc \in {"finally", "ended"} => Safe \/ Whole

RegularInv == pc \in Working \cup Rolling \cup {"finally"} => Regular

IInv ==
  /\ TypeOK /\ DirsInv /\ ImagesInv /\ SyncInv /\ RegularInv
  /\ PreflightInv /\ StageInv /\ BackupInv /\ InstallInv /\ CleanupInv
  /\ RestoreInv /\ RemoveNewInv /\ RemoveTempsInv /\ RemoveDirsInv
  /\ OutcomeInv /\ RecoveryInv

-----------------------------------------------------------------------------
\* What moving an output aside, installing it, restoring it and writing its
\* temporary file do to its entry.
LEMMA EntryMoves ==
  ASSUME NEW d \in Entries
  PROVE  /\ LET e == [d EXCEPT !.final = "none", !.bak = "old"]
            IN  e \in Entries /\ e.final = "none" /\ e.tmp = d.tmp /\ e.bak = "old"
         /\ d.tmp = "new" =>
              LET e == [d EXCEPT !.final = d.tmp, !.tmp = "none"]
              IN  e \in Entries /\ e.final = "new" /\ e.tmp = "none" /\ e.bak = d.bak
         /\ d.bak = "old" =>
              LET e == [d EXCEPT !.final = d.bak, !.bak = "none"]
              IN  e \in Entries /\ e.final = "old" /\ e.tmp = d.tmp /\ e.bak = "none"
         /\ LET e == [d EXCEPT !.tmp = "new"]
            IN  e \in Entries /\ e.final = d.final /\ e.tmp = "new" /\ e.bak = d.bak
BY DEF Entries, Contents

LEMMA WholeSet ==
  ASSUME NEW S, NEW T \in SUBSET S, \A x \in S : x \in T
  PROVE  T = S
OBVIOUS

(* The definitions every step of the proof looks through: the parts of the *)
(* invariant and the shapes they speak of.  A step adds its action's own.  *)
USE DirOfAssumption
USE DEF IInv, TypeOK, DirsInv, ImagesInv, SyncInv, RegularInv, PreflightInv, StageInv,
        BackupInv, InstallInv, CleanupInv, RestoreInv, RemoveNewInv,
        RemoveTempsInv, RemoveDirsInv, OutcomeInv, RecoveryInv,
        Safe, Whole, Installed, Regular, AsFound, Former,
        Absent, Contents, Entries, Phases, Outcomes, Working, Rolling,
        lists, Goto

LEMMA InitIInv == Init => IInv
<1> SUFFICES ASSUME Init PROVE IInv
  OBVIOUS
<1> USE DEF Init
<1>1. TypeOK
  OBVIOUS
<1>2. PreflightInv /\ ImagesInv /\ DirsInv
  OBVIOUS
<1>3. RecoveryInv
  OBVIOUS
<1>4. QED
  BY <1>1, <1>2, <1>3

LEMMA SetEntryFacts ==
  ASSUME TypeOK, NEW f \in Files, NEW e \in Entries, SetEntry(f, e)
  PROVE  /\ disk' \in [Files -> Entries] /\ images' \in [Files -> SUBSET Entries]
         /\ disk'[f] = e /\ images'[f] = images[f] \cup {e}
         /\ \A g \in Files \ {f} : disk'[g] = disk[g] /\ images'[g] = images[g]
BY DEF SetEntry

LEMMA WriteTempIInv ==
  ASSUME NEW f \in Files, IInv, WriteTemp(f)
  PROVE  IInv'
<1> DEFINE e == [disk[f] EXCEPT !.tmp = "new"]
<1>0. disk[f] \in Entries
  OBVIOUS
<1>1. e \in Entries /\ e.final = disk[f].final /\ e.tmp = "new" /\ e.bak = disk[f].bak
  <2> HIDE DEF IInv
  <2> QED BY <1>0, EntryMoves
<1>2. /\ pc = "stage" /\ SetEntry(f, e) /\ f \in todo /\ f \in temps
      /\ to_sync' = to_sync \cup {DirOf[f]} /\ todo' = todo \ {f}
      /\ UNCHANGED <<found, pc, outcome, dirs, created, temps, backups, newly, errors>>
  BY DEF WriteTemp, IsNext
<1> HIDE DEF e
<1>3. TypeOK' /\ DirsInv' /\ ImagesInv'
  BY <1>1, <1>2, SetEntryFacts
<1>4. SyncInv'
  BY <1>1, <1>2, SetEntryFacts
<1>5. StageInv'
  BY <1>1, <1>2, SetEntryFacts
<1>6. Safe'
  BY <1>1, <1>2, SetEntryFacts
<1>7. QED
  BY <1>2, <1>3, <1>4, <1>5, <1>6

LEMMA MoveToBackupIInv ==
  ASSUME NEW f \in Files, IInv, MoveToBackup(f)
  PROVE  IInv'
<1> DEFINE e == [disk[f] EXCEPT !.final = "none", !.bak = "old"]
<1>0. disk[f] \in Entries
  OBVIOUS
<1>1. e \in Entries /\ e.final = "none" /\ e.tmp = disk[f].tmp /\ e.bak = "old"
  <2> HIDE DEF IInv
  <2> QED BY <1>0, EntryMoves
<1>2. /\ pc = "backup" /\ SetEntry(f, e) /\ f \in todo
      /\ backups' = backups \cup {f} /\ todo' = todo \ {f}
      /\ UNCHANGED <<found, pc, outcome, dirs, created, to_sync, temps, newly, errors>>
  BY DEF MoveToBackup, IsNext
<1> HIDE DEF e
<1>3. TypeOK' /\ DirsInv' /\ ImagesInv' /\ SyncInv'
  <2>1. TypeOK' /\ DirsInv'
    BY <1>1, <1>2, SetEntryFacts
  <2>2. ImagesInv'
    BY <1>1, <1>2, SetEntryFacts
  <2>3. SyncInv'
    BY <1>1, <1>2, SetEntryFacts
  <2> QED BY <2>1, <2>2, <2>3
<1>4. BackupInv'
  BY <1>1, <1>2, SetEntryFacts
<1>5. Safe'
  BY <1>1, <1>2, SetEntryFacts
<1>6. QED
  BY <1>2, <1>3, <1>4, <1>5

LEMMA InstallIInv ==
  ASSUME NEW f \in Files, IInv, Install(f)
  PROVE  IInv'
<1> DEFINE e == [disk[f] EXCEPT !.final = disk[f].tmp, !.tmp = "none"]
<1>0. disk[f] \in Entries /\ disk[f].tmp = "new"
  BY DEF Install, IsNext
<1>1. e \in Entries /\ e.final = "new" /\ e.tmp = "none" /\ e.bak = disk[f].bak
  <2> HIDE DEF IInv
  <2> QED BY <1>0, EntryMoves
<1>2. /\ pc = "install" /\ SetEntry(f, e) /\ f \in todo
      /\ temps' = temps \ {f} /\ todo' = todo \ {f}
      /\ newly' = newly \cup ({f} \ Former)
      /\ UNCHANGED <<found, pc, outcome, dirs, created, to_sync, backups, errors>>
  BY DEF Install, IsNext
<1> HIDE DEF e
<1>3. TypeOK' /\ DirsInv' /\ ImagesInv' /\ SyncInv'
  <2>1. TypeOK' /\ DirsInv'
    BY <1>1, <1>2, SetEntryFacts
  <2>2. ImagesInv'
    BY <1>1, <1>2, SetEntryFacts
  <2>3. SyncInv'
    BY <1>1, <1>2, SetEntryFacts
  <2> QED BY <2>1, <2>2, <2>3
<1>4. InstallInv'
  BY <1>1, <1>2, SetEntryFacts
<1>5. Safe'
  BY <1>1, <1>2, SetEntryFacts
<1>6. QED
  BY <1>2, <1>3, <1>4, <1>5

LEMMA RestoreBackupIInv ==
  ASSUME NEW f \in Files, IInv, RestoreBackup(f)
  PROVE  IInv'
<1> DEFINE e == [disk[f] EXCEPT !.final = disk[f].bak, !.bak = "none"]
<1>0. disk[f] \in Entries /\ disk[f].bak = "old"
  BY DEF RestoreBackup, IsLast
<1>1. e \in Entries /\ e.final = "old" /\ e.tmp = disk[f].tmp /\ e.bak = "none"
  <2> HIDE DEF IInv
  <2> QED BY <1>0, EntryMoves
<1>2. /\ pc = "restore" /\ SetEntry(f, e) /\ f \in todo /\ todo' = todo \ {f}
      /\ UNCHANGED <<found, pc, outcome, dirs, created, to_sync, temps, backups, newly, errors>>
  BY DEF RestoreBackup, IsLast
<1> HIDE DEF e
<1>3. TypeOK' /\ DirsInv' /\ ImagesInv' /\ SyncInv'
  <2>1. TypeOK' /\ DirsInv'
    BY <1>1, <1>2, SetEntryFacts
  <2>2. ImagesInv'
    BY <1>1, <1>2, SetEntryFacts
  <2>3. SyncInv'
    BY <1>1, <1>2, SetEntryFacts
  <2> QED BY <2>1, <2>2, <2>3
<1>4. RestoreInv'
  BY <1>1, <1>2, SetEntryFacts
<1>5. Safe'
  BY <1>1, <1>2, SetEntryFacts
<1>6. QED
  BY <1>2, <1>3, <1>4, <1>5

LEMMA NextIInv == IInv /\ [Next]_vars => IInv'
<1> SUFFICES ASSUME IInv, [Next]_vars PROVE IInv'
  OBVIOUS
<1>1. CASE Preflight
  BY <1>1 DEF Preflight
<1>2. ASSUME NEW f \in Files, OpenTemp(f) PROVE IInv'
  BY <1>2 DEF OpenTemp, IsNext, SetEntry
<1>3. ASSUME NEW f \in Files, OpenTempFails(f) PROVE IInv'
  BY <1>3 DEF OpenTempFails, IsNext
<1>4. ASSUME NEW f \in Files, WriteTemp(f) PROVE IInv'
  BY <1>4, WriteTempIInv
<1>5. CASE BeginBackup
  <2>1. /\ pc = "stage" /\ todo = {} /\ pc' = "backup" /\ todo' = Former
        /\ UNCHANGED <<found, outcome, disk, images, dirs, created, to_sync,
                       temps, backups, newly, errors>>
    BY <1>5 DEF BeginBackup
  <2>2. TypeOK' /\ DirsInv' /\ ImagesInv' /\ SyncInv'
    BY <2>1
  <2>3. \A f \in Files : /\ f \in temps /\ disk[f].tmp = "new"
                         /\ disk[f].final = found[f] /\ disk[f].bak = "none"
    BY <2>1
  <2>4. BackupInv'
    <3>1. temps = Files
      BY <2>3, WholeSet
    <3>2. newly = {} /\ backups = {} /\ ~errors
      BY <2>1
    <3>3. QED
      BY <2>1, <2>3, <3>1, <3>2
  <2>5. Safe'
    BY <2>1
  <2>6. QED
    BY <2>1, <2>2, <2>4, <2>5
<1>6. ASSUME NEW f \in Files, MoveToBackup(f) PROVE IInv'
  BY <1>6, MoveToBackupIInv
<1>7. CASE BeginInstall
  BY <1>7 DEF BeginInstall
<1>8. ASSUME NEW f \in Files, Install(f) PROVE IInv'
  BY <1>8, InstallIInv
<1>9. CASE BeginCleanup
  BY <1>9 DEF BeginCleanup, SyncedImages
<1>10. ASSUME NEW f \in Files, DropBackup(f) PROVE IInv'
  BY <1>10 DEF DropBackup, IsNext, SetEntry
<1>11. ASSUME NEW f \in Files, RetainBackup(f) PROVE IInv'
  BY <1>11 DEF RetainBackup, IsNext
<1>12. CASE FinishCommit
  BY <1>12 DEF FinishCommit, Leave
<1>13. CASE Fail
  BY <1>13 DEF Fail
<1>14. ASSUME NEW f \in Files, UnlinkFinal(f) PROVE IInv'
  BY <1>14 DEF UnlinkFinal, IsLast, SetEntry
<1>15. ASSUME NEW f \in Files, RestoreBackup(f) PROVE IInv'
  BY <1>15, RestoreBackupIInv
<1>16. ASSUME NEW f \in Files, RestoreFails(f) PROVE IInv'
  BY <1>16 DEF RestoreFails, IsLast
<1>17. CASE BeginRemoveNew
  BY <1>17 DEF BeginRemoveNew
<1>18. ASSUME NEW f \in Files, RemoveNew(f) PROVE IInv'
  BY <1>18 DEF RemoveNew, IsNext, SetEntry
<1>19. ASSUME NEW f \in Files, RemoveNewFails(f) PROVE IInv'
  BY <1>19 DEF RemoveNewFails, IsNext
<1>20. CASE BeginRemoveTemps
  BY <1>20 DEF BeginRemoveTemps
<1>21. ASSUME NEW f \in Files, RemoveTemp(f) PROVE IInv'
  BY <1>21 DEF RemoveTemp, IsNext, SetEntry
<1>22. ASSUME NEW f \in Files, RemoveTempFails(f) PROVE IInv'
  BY <1>22 DEF RemoveTempFails, IsNext
<1>23. CASE BeginRemoveDirs
  BY <1>23 DEF BeginRemoveDirs
<1>24. CASE FinishRollback
  BY <1>24 DEF FinishRollback, Leave, SyncedImages, Empty
<1>25. ASSUME NEW f \in Files, FinallyRemove(f) PROVE IInv'
  BY <1>25 DEF FinallyRemove, IsNext, SetEntry
<1>26. ASSUME NEW f \in Files, FinallyFails(f) PROVE IInv'
  BY <1>26 DEF FinallyFails, IsNext
<1>27. CASE End
  BY <1>27 DEF End
<1>28. CASE Interrupt
  BY <1>28 DEF Interrupt, Leave
<1>29. CASE Crash
  BY <1>29 DEF Crash
<1>30. CASE UNCHANGED vars
  BY <1>30 DEF vars
<1>31. QED
  BY <1>1, <1>2, <1>3, <1>4, <1>5, <1>6, <1>7, <1>8, <1>9, <1>10,
     <1>11, <1>12, <1>13, <1>14, <1>15, <1>16, <1>17, <1>18, <1>19,
     <1>20, <1>21, <1>22, <1>23, <1>24, <1>25, <1>26, <1>27, <1>28,
     <1>29, <1>30
  DEF Next, Step

HIDE DEF IInv, TypeOK

THEOREM InductiveInvariant == Spec => []IInv
<1>1. IInv /\ [Next]_vars => IInv'
  BY NextIInv
<1>2. QED
  BY InitIInv, <1>1, PTL DEF Spec

-----------------------------------------------------------------------------
\* Every variable keeps its type.
THEOREM TypeCorrect == Spec => []TypeOK
<1>1. IInv => TypeOK
  BY DEF IInv
<1>2. QED
  BY InductiveInvariant, <1>1, PTL

\* However the operations fail, and whenever the call is interrupted or power
\* is lost: all new, or no former byte lost.
THEOREM AlwaysRecoverable == Spec => []Recoverable
<1>1. IInv => Safe \/ Whole
  BY DEF IInv, TypeOK
<1>2. Safe \/ Whole => Recoverable
  BY DEF Recoverable
<1>3. IInv => Recoverable
  BY <1>1, <1>2
<1>4. QED
  BY InductiveInvariant, <1>3, PTL

\* A call that returned has installed everything and cleaned up.
THEOREM CommitWhole == Spec => []CommitIsWhole
<1>1. IInv => CommitIsWhole
  BY DEF CommitIsWhole, IInv
<1>2. QED
  BY InductiveInvariant, <1>1, PTL

\* A call that raised its own error has restored everything.
THEOREM RollbackExact == Spec => []RollbackIsExact
<1>1. IInv => RollbackIsExact
  BY DEF RollbackIsExact, IInv
<1>2. QED
  BY InductiveInvariant, <1>1, PTL

-----------------------------------------------------------------------------
(* The end comes nearer.  A step leaves the loop it is in for a later one, *)
(* or the loop has less to do: outputs it has not visited, and what it     *)
(* does to an output before it is done with it (a file to be made while    *)
(* staging, a new final to be deleted while restoring).                    *)

Rank == [ended |-> 0, finally |-> 1, remove_dirs |-> 2, remove_temps |-> 3,
         remove_new |-> 4, restore |-> 5, cleanup |-> 6, install |-> 7, backup |-> 8,
         stage |-> 9, preflight |-> 10]
Ahead == {f \in todo : \/ pc = "stage" /\ f \notin temps
                       \/ pc = "restore" /\ disk[f].final # "none"}
Left == Cardinality(todo) + Cardinality(Ahead)

Nearer ==
  \/ Rank[pc'] < Rank[pc]
  \/ pc' = pc /\ Left' < Left

LEMMA LeftIs ==
  ASSUME TypeOK
  PROVE  /\ IsFiniteSet(todo) /\ IsFiniteSet(Ahead) /\ Left \in 0..2 * N
<1>1. IsFiniteSet(Files) /\ Cardinality(Files) = N
  BY SizeAssumption, FS_Interval DEF Files
<1>2. todo \in SUBSET Files /\ Ahead \in SUBSET Files
  BY DEF TypeOK, Ahead
<1>3. IsFiniteSet(todo) /\ IsFiniteSet(Ahead) /\ Cardinality(todo) <= N /\ Cardinality(Ahead) <= N
  BY <1>1, <1>2, FS_Subset
<1>4. Cardinality(todo) \in Nat /\ Cardinality(Ahead) \in Nat
  BY <1>3, FS_CardinalityType
<1> QED BY <1>3, <1>4, SizeAssumption DEF Left

\* Less to do in the same loop.
LEMMA LessLeft ==
  ASSUME TypeOK, TypeOK', todo' \subseteq todo, Ahead' \subseteq Ahead,
         todo' # todo \/ Ahead' # Ahead
  PROVE  Left' < Left
<1>1. IsFiniteSet(todo) /\ IsFiniteSet(Ahead)
  BY LeftIs
<1>2. IsFiniteSet(todo') /\ IsFiniteSet(Ahead')
  BY <1>1, FS_Subset
<1>3. /\ Cardinality(todo') <= Cardinality(todo) /\ Cardinality(Ahead') <= Cardinality(Ahead)
      /\ Cardinality(todo') = Cardinality(todo) => todo' = todo
      /\ Cardinality(Ahead') = Cardinality(Ahead) => Ahead' = Ahead
  BY <1>1, FS_Subset
<1>4. /\ Cardinality(todo) \in Nat /\ Cardinality(Ahead) \in Nat
      /\ Cardinality(todo') \in Nat /\ Cardinality(Ahead') \in Nat
  BY <1>1, <1>2, FS_CardinalityType
<1>5. Left' = Cardinality(todo') + Cardinality(Ahead')
  BY DEF Left
<1> QED BY <1>3, <1>4, <1>5 DEF Left

\* An output is visited, or one of its two moves is made.
LEMMA VisitIsNearer ==
  ASSUME TypeOK, TypeOK', NEW f \in todo, pc' = pc, todo' = todo \ {f},
         temps \subseteq temps' \cup {f},
         \A g \in todo \ {f} : disk'[g] = disk[g]
  PROVE  Nearer
<1>1. Ahead' \subseteq Ahead
  BY DEF Ahead
<1>2. Left' < Left
  BY <1>1, LessLeft
<1> QED BY <1>2 DEF Nearer

LEMMA StepIsNearer == IInv /\ IInv' /\ Next => Nearer
<1> SUFFICES ASSUME IInv, IInv', Next
             PROVE  Nearer
  OBVIOUS
<1>0. TypeOK /\ TypeOK'
  BY DEF IInv
<1>1. CASE \/ Preflight \/ BeginBackup \/ BeginInstall \/ BeginCleanup \/ FinishCommit
           \/ Fail \/ BeginRemoveNew \/ BeginRemoveTemps \/ BeginRemoveDirs
           \/ FinishRollback \/ End \/ Interrupt
  <2>1. Rank[pc'] < Rank[pc]
    BY <1>1 DEF Preflight, BeginBackup, BeginInstall, BeginCleanup, FinishCommit, Fail,
                BeginRemoveNew, BeginRemoveTemps, BeginRemoveDirs, FinishRollback, End,
                Interrupt, Leave, Rank
  <2> QED BY <2>1 DEF Nearer
<1>2. CASE Crash
  <2>1. pc \in Phases \ {"ended"} /\ pc' = "ended"
    BY <1>0, <1>2 DEF Crash, TypeOK
  <2>2. Rank[pc'] < Rank[pc]
    BY <2>1 DEF Rank
  <2> QED BY <2>2 DEF Nearer
<1>3. ASSUME NEW f \in Files, OpenTempFails(f) PROVE Nearer
  <2>1. Rank[pc'] < Rank[pc]
    BY <1>3 DEF OpenTempFails, Rank
  <2> QED BY <2>1 DEF Nearer
<1>4. ASSUME NEW f \in Files, OpenTemp(f) PROVE Nearer
  <2>1. /\ pc = "stage" /\ f \in todo /\ f \notin temps
        /\ temps' = temps \cup {f} /\ pc' = pc /\ todo' = todo
    BY <1>4 DEF OpenTemp, IsNext
  <2>2. Ahead' \subseteq Ahead /\ f \in Ahead /\ f \notin Ahead'
    BY <2>1 DEF Ahead
  <2>3. Left' < Left
    BY <1>0, <2>1, <2>2, LessLeft
  <2> QED BY <2>1, <2>3 DEF Nearer
<1>5. ASSUME NEW f \in Files, UnlinkFinal(f) PROVE Nearer
  <2>1. /\ pc = "restore" /\ f \in todo /\ disk[f].final # "none"
        /\ SetEntry(f, [disk[f] EXCEPT !.final = "none"])
        /\ pc' = pc /\ todo' = todo /\ temps' = temps
    BY <1>5 DEF UnlinkFinal, IsLast
  <2>2. /\ disk'[f].final = "none"
        /\ \A g \in Files \ {f} : disk'[g] = disk[g]
    BY <1>0, <2>1 DEF SetEntry, TypeOK
  <2>3. Ahead' \subseteq Ahead /\ f \in Ahead /\ f \notin Ahead'
    BY <1>0, <2>1, <2>2 DEF Ahead, TypeOK
  <2>4. Left' < Left
    BY <1>0, <2>1, <2>3, LessLeft
  <2> QED BY <2>1, <2>4 DEF Nearer
<1>6. ASSUME NEW f \in Files,
             \/ WriteTemp(f) \/ MoveToBackup(f) \/ Install(f) \/ DropBackup(f) \/ RestoreBackup(f)
             \/ RemoveNew(f) \/ RemoveTemp(f) \/ FinallyRemove(f)
      PROVE  Nearer
  <2>1. /\ f \in todo /\ pc' = pc /\ todo' = todo \ {f} /\ temps \subseteq temps' \cup {f}
        /\ \E e : disk' = [disk EXCEPT ![f] = e]
    BY <1>6 DEF WriteTemp, MoveToBackup, Install, DropBackup, RestoreBackup, RemoveNew,
                RemoveTemp, FinallyRemove, IsNext, IsLast, SetEntry
  <2>2. \A g \in todo \ {f} : disk'[g] = disk[g]
    BY <1>0, <2>1 DEF TypeOK
  <2> QED BY <1>0, <2>1, <2>2, VisitIsNearer
<1>7. ASSUME NEW f \in Files,
             \/ RetainBackup(f) \/ RestoreFails(f) \/ RemoveNewFails(f) \/ RemoveTempFails(f)
             \/ FinallyFails(f)
      PROVE  Nearer
  <2>1. /\ f \in todo /\ pc' = pc /\ todo' = todo \ {f} /\ temps' = temps /\ disk' = disk
    BY <1>7 DEF RetainBackup, RestoreFails, RemoveNewFails, RemoveTempFails, FinallyFails,
                IsNext, IsLast
  <2> QED BY <1>0, <2>1, VisitIsNearer
<1> QED
  BY <1>1, <1>2, <1>3, <1>4, <1>5, <1>6, <1>7 DEF Next, Step

\* No step of the call, failing or not, no interrupt and no loss of power takes it
\* back: the phase is a later one or, within it, a bounded natural number falls.  The
\* loops of the commit, of the rollback and of the finally clause are therefore finite
\* for any number of outputs, however many operations raise.
THEOREM NoLoopIsRepeated == Spec => [][Nearer /\ Left \in 0..2 * N]_vars
<1>1. IInv /\ IInv' /\ [Next]_vars => [Nearer /\ Left \in 0..2 * N]_vars
  <2>1. IInv => Left \in 0..2 * N
    BY LeftIs DEF IInv
  <2> QED BY <2>1, StepIsNearer
<1> QED BY InductiveInvariant, <1>1, PTL DEF Spec

-----------------------------------------------------------------------------
(* The call implements OutputCommit: every step before the last is a       *)
(* stutter, and the step that ends the call commits, aborts or tears.      *)
LEMMA InitRefines == Init => Contract!Init
BY DEF Init, Contract!Init, Contract!Contents, Result, Out, Kept

\* The step that ends the call commits, aborts or tears.
LEMMA EndRefines ==
  ASSUME IInv, IInv', pc # "ended", pc' = "ended", UNCHANGED found,
         outcome' # "none"
  PROVE  Contract!Next
<1> USE DEF IInv, TypeOK
<1>1. Result = "running" /\ Out = found /\ Kept = {}
  BY DEF Result, Out, Kept
<1>2. Out' = [f \in Files |-> disk'[f].final]
  BY DEF Out
<1>3. Kept' = {f \in Former : disk'[f].bak = "old"}
  BY DEF Kept
<1>4. CASE outcome' \in {"committed", "cleanup_incomplete"}
  <2>1. Result' = "committed"
    BY <1>4 DEF Result
  <2>2. Out' = [f \in Files |-> "new"]
    BY <1>2, <1>4
  <2>3. Kept' \in SUBSET Contract!Former
    BY <1>3 DEF Contract!Former
  <2>4. QED
    BY <1>1, <2>1, <2>2, <2>3 DEF Contract!Next, Contract!Commit
<1>5. CASE outcome' \in {"failed", "refused"}
  <2>1. Result' = "unchanged"
    BY <1>5 DEF Result
  <2>2. \A f \in Files : disk'[f] = AsFound(f)
    BY <1>5
  <2>3. Out' = Out
    BY <1>1, <1>2, <2>2
  <2>4. Kept' = Kept
    BY <1>1, <1>3, <2>2
  <2>5. QED
    BY <1>1, <2>1, <2>3, <2>4 DEF Contract!Next, Contract!Abort
<1>6. CASE outcome' \in {"rollback_incomplete", "interrupted", "crashed"}
  <2>1. Result' = "torn"
    BY <1>6 DEF Result
  <2>2. Out' \in [Files -> Contract!Contents] /\ Kept' \in SUBSET Contract!Former
    BY <1>2, <1>3 DEF Contract!Contents, Contract!Former
  <2>3. Contract!Repairable(Out', Kept')
    <3>1. Safe' \/ Whole'
      OBVIOUS
    <3>2. \/ \A f \in Former : disk'[f].final = "old" \/ disk'[f].bak = "old"
          \/ \A f \in Former : disk'[f].final = "new"
      BY <3>1
    <3>3. QED
      BY <1>2, <1>3, <3>2 DEF Contract!Repairable, Contract!Former
  <2>4. QED
    BY <1>1, <2>1, <2>2, <2>3 DEF Contract!Next, Contract!Tear
<1>7. QED
  BY <1>4, <1>5, <1>6

LEMMA StepRefines == IInv /\ IInv' /\ [Next]_vars => [Contract!Next]_Contract!vars
<1> SUFFICES ASSUME IInv, IInv', [Next]_vars PROVE [Contract!Next]_Contract!vars
  OBVIOUS
<1>0. UNCHANGED found
  BY DEF Next, Step, vars, Preflight, OpenTemp, OpenTempFails, WriteTemp,
     BeginBackup, MoveToBackup, BeginInstall, Install, BeginCleanup, DropBackup,
     RetainBackup, FinishCommit, Fail, UnlinkFinal, RestoreBackup, RestoreFails,
     BeginRemoveNew, RemoveNew, RemoveNewFails, BeginRemoveTemps, RemoveTemp,
     RemoveTempFails, BeginRemoveDirs, FinishRollback, FinallyRemove,
     FinallyFails, End, Interrupt, Crash
<1>1. CASE pc # "ended" /\ pc' # "ended"
  BY <1>0, <1>1 DEF Contract!vars, Result, Out, Kept
<1>2. CASE pc = "ended"
  <2>1. UNCHANGED vars
    BY <1>2 DEF Next, Step, Preflight, OpenTemp, OpenTempFails, WriteTemp,
     BeginBackup, MoveToBackup, BeginInstall, Install, BeginCleanup, DropBackup,
     RetainBackup, FinishCommit, Fail, UnlinkFinal, RestoreBackup, RestoreFails,
     BeginRemoveNew, RemoveNew, RemoveNewFails, BeginRemoveTemps, RemoveTemp,
     RemoveTempFails, BeginRemoveDirs, FinishRollback, FinallyRemove,
     FinallyFails, End, Interrupt, Crash
  <2>2. QED
    BY <2>1 DEF vars, Contract!vars, Result, Out, Kept
<1>3. CASE pc # "ended" /\ pc' = "ended"
  BY <1>0, <1>3, EndRefines DEF Contract!vars, IInv
<1>4. QED
  BY <1>1, <1>2, <1>3

\* The detailed transaction implements the abstract replacement.
THEOREM Refinement == Spec => ImplementsOutputCommit
<1>1. IInv /\ IInv' /\ [Next]_vars => [Contract!Next]_Contract!vars
  BY StepRefines
<1>2. QED
  BY InductiveInvariant, InitRefines, <1>1, PTL
     DEF Spec, ImplementsOutputCommit, Contract!Spec
=============================================================================
