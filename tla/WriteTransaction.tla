-------------------------- MODULE WriteTransaction --------------------------
(***************************************************************************)
(* io_safety.write_transaction, one call: every output is staged in a      *)
(* temporary file, every existing output is moved to a backup, every       *)
(* temporary file is moved over its output, the directories are synced,    *)
(* and the backups are deleted.  Any operation may raise, which starts the *)
(* rollback; the operations of the rollback may raise too; a               *)
(* KeyboardInterrupt may be delivered between any two file-system calls    *)
(* (`except Exception` does not see it, `finally` does); and the machine   *)
(* may lose power, after which a directory shows any state it has had      *)
(* since it was last synced.                                               *)
(*                                                                         *)
(* The artifacts mapping is iterated in its insertion order, so an output  *)
(* is its position in that order.  The three names one output uses (final, *)
(* temporary, backup) form its entry; entries of different outputs never   *)
(* share a name.                                                           *)
(***************************************************************************)
EXTENDS Integers

CONSTANTS
  N,         \* number of outputs
  Dirs,      \* the directories they live in
  DirOf      \* the directory of each output

Files == 1..N

ASSUME SizeAssumption == N \in Nat \ {0}
ASSUME DirOfAssumption == DirOf \in [Files -> Dirs]

VARIABLES
  found,     \* history: what each output path held when the call was made
  pc,        \* the loop the call is in
  outcome,   \* how the call ended, or why its finally clause runs
  todo,      \* outputs the current loop has not visited yet
  disk,      \* the entry of each output, as the running system sees it
  images,    \* the entries a power loss may bring back, for each output
  dirs,      \* existing directories
  created,   \* directories this call made (created_dirs)
  to_sync,   \* directories to sync (dirs_to_fsync): those of staged outputs
  temps,     \* outputs whose temporary file is recorded (temps)
  backups,   \* outputs whose move to a backup is recorded (backups)
  newly,     \* outputs recorded as created by this call (newly_created)
  errors     \* did the rollback record an error (restore_errors)

vars == <<found, pc, outcome, todo, disk, images, dirs, created, to_sync,
          temps, backups, newly, errors>>

lists == <<created, to_sync, temps, backups, newly>>

Contents == {"none", "old", "new", "foreign"}
Entries == [final : Contents, tmp : {"none", "partial", "new"}, bak : {"none", "old"}]
Absent == [final |-> "none", tmp |-> "none", bak |-> "none"]

Working == {"stage", "backup", "install", "cleanup"}
Rolling == {"restore", "remove_new", "remove_temps", "remove_dirs"}
Phases == {"preflight"} \cup Working \cup Rolling \cup {"finally", "ended"}
Outcomes == {"none", "refused", "committed", "cleanup_incomplete", "failed",
             "rollback_incomplete", "interrupted", "crashed"}

\* Outputs that existed when the call was made ("existed" in the code).
Former == {f \in Files : found[f] = "old"}

IsNext(f) == f \in todo /\ \A g \in todo : f <= g     \* loops in mapping order
IsLast(f) == f \in todo /\ \A g \in todo : g <= f     \* reversed(backups)

TypeOK ==
  /\ found \in [Files -> Contents \ {"new"}]
  /\ pc \in Phases
  /\ outcome \in Outcomes
  /\ todo \subseteq Files
  /\ disk \in [Files -> Entries]
  /\ images \in [Files -> SUBSET Entries]
  /\ dirs \subseteq Dirs
  /\ created \subseteq Dirs /\ to_sync \subseteq Dirs
  /\ temps \subseteq Files
  /\ backups \subseteq Files
  /\ newly \subseteq Files
  /\ errors \in BOOLEAN

Init ==
  /\ found \in [Files -> Contents \ {"new"}]
  /\ pc = "preflight"
  /\ outcome = "none"
  /\ todo = {}
  /\ disk = [f \in Files |-> [Absent EXCEPT !.final = found[f]]]
  /\ images = [f \in Files |-> {disk[f]}]
  /\ dirs \in SUBSET Dirs
  /\ \A f \in Files : found[f] # "none" => DirOf[f] \in dirs
  /\ created = {} /\ to_sync = {}
  /\ temps = {} /\ backups = {} /\ newly = {}
  /\ errors = FALSE

-----------------------------------------------------------------------------
(* Entries change one directory operation at a time; until the directory   *)
(* is synced a power loss may undo any suffix of them.                      *)
SetEntry(f, e) ==
  /\ disk' = [disk EXCEPT ![f] = e]
  /\ images' = [images EXCEPT ![f] = @ \cup {e}]

\* fsync of the directories that hold a staged output.  The entry of a
\* directory this call made is never synced in its own parent: such a directory
\* may still vanish.
SyncedImages ==
  [f \in Files |->
     IF DirOf[f] \in to_sync
     THEN {disk[f]} \cup (IF DirOf[f] \in created THEN {Absent} ELSE {})
     ELSE images[f]]

Goto(phase, work) == pc' = phase /\ todo' = work

\* The call is about to return or raise: finally deletes what temps still lists.
Leave(why) == outcome' = why /\ Goto("finally", temps)

\* assert_outputs_safe: refuses an output that is not a regular file.
Preflight ==
  /\ pc = "preflight"
  /\ IF \E f \in Files : found[f] = "foreign"
     THEN Goto("ended", {}) /\ outcome' = "refused"
     ELSE Goto("stage", Files) /\ UNCHANGED outcome
  /\ UNCHANGED <<found, disk, images, dirs, lists, errors>>

\* _ensure_parents and mkstemp for the next output.
OpenTemp(f) ==
  /\ pc = "stage" /\ IsNext(f)
  /\ f \notin temps
  /\ dirs' = dirs \cup {DirOf[f]}
  /\ created' = created \cup ({DirOf[f]} \ dirs)
  /\ SetEntry(f, [disk[f] EXCEPT !.tmp = "partial"])
  /\ temps' = temps \cup {f}
  /\ UNCHANGED <<found, pc, outcome, todo, to_sync, backups, newly, errors>>

\* The parent directory was made, then mkstemp raised.
OpenTempFails(f) ==
  /\ pc = "stage" /\ IsNext(f)
  /\ f \notin temps
  /\ dirs' = dirs \cup {DirOf[f]}
  /\ created' = created \cup ({DirOf[f]} \ dirs)
  /\ Goto("restore", backups)
  /\ UNCHANGED <<found, outcome, disk, images, to_sync, temps, backups, newly, errors>>

\* The bytes are written and synced, and the output is staged.
WriteTemp(f) ==
  /\ pc = "stage" /\ IsNext(f)
  /\ f \in temps
  /\ SetEntry(f, [disk[f] EXCEPT !.tmp = "new"])
  /\ to_sync' = to_sync \cup {DirOf[f]}
  /\ todo' = todo \ {f}
  /\ UNCHANGED <<found, pc, outcome, dirs, created, temps, backups, newly, errors>>

BeginBackup ==
  /\ pc = "stage" /\ todo = {}
  /\ Goto("backup", Former)
  /\ UNCHANGED <<found, outcome, disk, images, dirs, lists, errors>>

\* Faulty variant: the move to the backup is not recorded.
MoveToBackupUnrecorded(f) ==
  /\ pc = "backup" /\ IsNext(f)
  /\ SetEntry(f, [disk[f] EXCEPT !.final = "none", !.bak = "old"])
  /\ todo' = todo \ {f}
  /\ UNCHANGED <<found, pc, outcome, dirs, lists, errors>>

MoveToBackup(f) ==
  /\ pc = "backup" /\ IsNext(f)
  /\ SetEntry(f, [disk[f] EXCEPT !.final = "none", !.bak = "old"])
  /\ backups' = backups \cup {f}
  /\ todo' = todo \ {f}
  /\ UNCHANGED <<found, pc, outcome, dirs, created, to_sync, temps, newly, errors>>

BeginInstall ==
  /\ pc = "backup" /\ todo = {}
  /\ Goto("install", Files)
  /\ UNCHANGED <<found, outcome, disk, images, dirs, lists, errors>>

\* Faulty variant: a new output is not recorded as created by this call.
InstallUnrecorded(f) ==
  /\ pc = "install" /\ IsNext(f)
  /\ SetEntry(f, [disk[f] EXCEPT !.final = disk[f].tmp, !.tmp = "none"])
  /\ temps' = temps \ {f}
  /\ todo' = todo \ {f}
  /\ UNCHANGED <<found, pc, outcome, dirs, created, to_sync, backups, newly, errors>>

Install(f) ==
  /\ pc = "install" /\ IsNext(f)
  /\ SetEntry(f, [disk[f] EXCEPT !.final = disk[f].tmp, !.tmp = "none"])
  /\ temps' = temps \ {f}
  /\ newly' = newly \cup ({f} \ Former)
  /\ todo' = todo \ {f}
  /\ UNCHANGED <<found, pc, outcome, dirs, created, to_sync, backups, errors>>

\* Faulty variant: the backups are deleted before the directories are synced.
BeginCleanupUnsynced ==
  /\ pc = "install" /\ todo = {}
  /\ Goto("cleanup", backups)
  /\ UNCHANGED <<found, outcome, disk, images, dirs, lists, errors>>

\* Everything is installed: the directories are synced, and only then are
\* the backups deleted.
BeginCleanup ==
  /\ pc = "install" /\ todo = {}
  /\ images' = SyncedImages
  /\ Goto("cleanup", backups)
  /\ UNCHANGED <<found, outcome, disk, dirs, lists, errors>>

DropBackup(f) ==
  /\ pc = "cleanup" /\ IsNext(f)
  /\ SetEntry(f, [disk[f] EXCEPT !.bak = "none"])
  /\ todo' = todo \ {f}
  /\ UNCHANGED <<found, pc, outcome, dirs, lists, errors>>

\* The unlink raised: the backup is retained and reported.
RetainBackup(f) ==
  /\ pc = "cleanup" /\ IsNext(f)
  /\ todo' = todo \ {f}
  /\ UNCHANGED <<found, pc, outcome, disk, images, dirs, lists, errors>>

\* Faulty variant: a retained backup is not reported.
FinishCommitSilently ==
  /\ pc = "cleanup" /\ todo = {}
  /\ backups' = {}
  /\ Leave("committed")
  /\ UNCHANGED <<found, disk, images, dirs, created, to_sync, temps, newly, errors>>

FinishCommit ==
  /\ pc = "cleanup" /\ todo = {}
  /\ backups' = {}
  /\ Leave(IF \E f \in backups : disk[f].bak = "old"
           THEN "cleanup_incomplete" ELSE "committed")
  /\ UNCHANGED <<found, disk, images, dirs, created, to_sync, temps, newly, errors>>

-----------------------------------------------------------------------------
(* The rollback.                                                           *)

\* An operation of the commit raised.  An unlink in the cleanup loop does
\* not start a rollback (RetainBackup); fsync_dir suppresses its own errors.
Fail ==
  /\ pc \in {"stage", "backup", "install"} /\ todo # {}
  /\ Goto("restore", backups)
  /\ UNCHANGED <<found, outcome, disk, images, dirs, lists, errors>>

\* final.unlink() before the backup is moved back; a failure is suppressed,
\* which is RestoreBackup with the final still in place.
UnlinkFinal(f) ==
  /\ pc = "restore" /\ IsLast(f)
  /\ disk[f].final # "none"
  /\ SetEntry(f, [disk[f] EXCEPT !.final = "none"])
  /\ UNCHANGED <<found, pc, outcome, todo, dirs, lists, errors>>

RestoreBackup(f) ==
  /\ pc = "restore" /\ IsLast(f)
  /\ SetEntry(f, [disk[f] EXCEPT !.final = disk[f].bak, !.bak = "none"])
  /\ todo' = todo \ {f}
  /\ UNCHANGED <<found, pc, outcome, dirs, lists, errors>>

RestoreFails(f) ==
  /\ pc = "restore" /\ IsLast(f)
  /\ todo' = todo \ {f}
  /\ errors' = TRUE
  /\ UNCHANGED <<found, pc, outcome, disk, images, dirs, lists>>

BeginRemoveNew ==
  /\ pc = "restore" /\ todo = {}
  /\ Goto("remove_new", newly)
  /\ UNCHANGED <<found, outcome, disk, images, dirs, lists, errors>>

RemoveNew(f) ==
  /\ pc = "remove_new" /\ IsNext(f)
  /\ SetEntry(f, [disk[f] EXCEPT !.final = "none"])
  /\ todo' = todo \ {f}
  /\ UNCHANGED <<found, pc, outcome, dirs, lists, errors>>

RemoveNewFails(f) ==
  /\ pc = "remove_new" /\ IsNext(f)
  /\ todo' = todo \ {f}
  /\ errors' = TRUE
  /\ UNCHANGED <<found, pc, outcome, disk, images, dirs, lists>>

BeginRemoveTemps ==
  /\ pc = "remove_new" /\ todo = {}
  /\ Goto("remove_temps", temps)
  /\ UNCHANGED <<found, outcome, disk, images, dirs, lists, errors>>

RemoveTemp(f) ==
  /\ pc = "remove_temps" /\ IsNext(f)
  /\ SetEntry(f, [disk[f] EXCEPT !.tmp = "none"])
  /\ todo' = todo \ {f}
  /\ UNCHANGED <<found, pc, outcome, dirs, lists, errors>>

RemoveTempFails(f) ==
  /\ pc = "remove_temps" /\ IsNext(f)
  /\ todo' = todo \ {f}
  /\ errors' = TRUE
  /\ UNCHANGED <<found, pc, outcome, disk, images, dirs, lists>>

BeginRemoveDirs ==
  /\ pc = "remove_temps" /\ todo = {}
  /\ Goto("remove_dirs", {})
  /\ UNCHANGED <<found, outcome, disk, images, dirs, lists, errors>>

Empty(d) == \A f \in Files : DirOf[f] = d => disk[f] = Absent

\* Faulty variant: a rollback that recorded errors is run again.
FinishRollbackRetries ==
  /\ pc = "remove_dirs"
  /\ images' = SyncedImages
  /\ IF errors
     THEN Goto("restore", backups) /\ errors' = FALSE /\ UNCHANGED outcome
     ELSE Leave("failed") /\ UNCHANGED errors
  /\ UNCHANGED <<found, disk, dirs, lists>>

\* _cleanup_created_dirs (an rmdir may fail unreported), the directory sync,
\* and the re-raise.
FinishRollback ==
  /\ pc = "remove_dirs"
  /\ \E stuck \in SUBSET created :
       dirs' = dirs \ {d \in created \ stuck : Empty(d)}
  /\ images' = SyncedImages
  /\ Leave(IF errors THEN "rollback_incomplete" ELSE "failed")
  /\ UNCHANGED <<found, disk, lists, errors>>

-----------------------------------------------------------------------------
(* The finally clause, interrupts, and the machine.                        *)

FinallyRemove(f) ==
  /\ pc = "finally" /\ IsNext(f)
  /\ SetEntry(f, [disk[f] EXCEPT !.tmp = "none"])
  /\ todo' = todo \ {f}
  /\ UNCHANGED <<found, pc, outcome, dirs, lists, errors>>

\* The error of the second unlink is suppressed.
FinallyFails(f) ==
  /\ pc = "finally" /\ IsNext(f)
  /\ disk[f].tmp # "none"
  /\ todo' = todo \ {f}
  /\ UNCHANGED <<found, pc, outcome, disk, images, dirs, lists, errors>>

End ==
  /\ pc = "finally" /\ todo = {}
  /\ Goto("ended", {})
  /\ UNCHANGED <<found, outcome, disk, images, dirs, lists, errors>>

\* KeyboardInterrupt is no Exception: no rollback, only the finally clause.
Interrupt ==
  /\ pc \in Working \cup Rolling
  /\ Leave("interrupted")
  /\ UNCHANGED <<found, disk, images, dirs, lists, errors>>

\* Power is lost: each output comes back as one of its images.
Crash ==
  /\ pc # "ended"
  /\ disk' \in [Files -> UNION {images[f] : f \in Files}]
  /\ \A f \in Files : disk'[f] \in images[f]
  /\ images' = [f \in Files |-> {disk'[f]}]
  /\ outcome' = "crashed"
  /\ Goto("ended", {})
  /\ UNCHANGED <<found, dirs, lists, errors>>

Step ==
  \/ Preflight \/ BeginBackup \/ BeginInstall \/ BeginCleanup \/ FinishCommit
  \/ Fail \/ BeginRemoveNew \/ BeginRemoveTemps \/ BeginRemoveDirs
  \/ FinishRollback \/ End
  \/ \E f \in Files :
       \/ OpenTemp(f) \/ OpenTempFails(f) \/ WriteTemp(f)
       \/ MoveToBackup(f) \/ Install(f) \/ DropBackup(f) \/ RetainBackup(f)
       \/ UnlinkFinal(f) \/ RestoreBackup(f) \/ RestoreFails(f)
       \/ RemoveNew(f) \/ RemoveNewFails(f)
       \/ RemoveTemp(f) \/ RemoveTempFails(f)
       \/ FinallyRemove(f) \/ FinallyFails(f)

Next == Step \/ Interrupt \/ Crash

Spec == Init /\ [][Next]_vars

\* The interpreter keeps executing the call.
FairSpec == Spec /\ WF_vars(Step)

-----------------------------------------------------------------------------
(* Correctness.                                                            *)

\* Whenever power is lost and whatever survives, either every pre-existing
\* output holds its new bytes, or the former bytes of every one of them are
\* still there, under the output's name or its backup's.  This is the point
\* of the backups and of syncing the directories before deleting them.
Recoverable ==
  \/ \A f \in Former : \A e \in images[f] : e.final = "new"
  \/ \A f \in Former : \A e \in images[f] : e.final = "old" \/ e.bak = "old"

\* A call that returned, or raised CleanupIncompleteError, has installed every
\* output and left no temporary file; if it returned, no backup either.  No
\* power loss takes an output back, unless its directory was made by the call.
CommitIsWhole ==
  outcome \in {"committed", "cleanup_incomplete"} =>
    \A f \in Files :
      /\ disk[f].final = "new" /\ disk[f].tmp = "none"
      /\ outcome = "committed" => disk[f].bak = "none"
      /\ DirOf[f] \notin created => \A e \in images[f] : e.final = "new"

\* A call that raised its own error without reporting rollback errors, or
\* that refused its outputs, left every name as it found it.  That is durable,
\* but for the temporary file of an output that was not staged yet: its
\* directory is not synced.
RollbackIsExact ==
  outcome \in {"failed", "refused"} =>
    \A f \in Files :
      /\ disk[f] = [Absent EXCEPT !.final = found[f]]
      /\ \A e \in images[f] : e.final = found[f] /\ e.bak = "none"
      /\ DirOf[f] \in to_sync => images[f] = {disk[f]}

\* Every loop of the commit, the rollback and the finally clause terminates,
\* however many of their operations raise.
Terminates == <>(pc = "ended")

\* What the caller can tell of the call.
Result == IF pc # "ended" THEN "running"
          ELSE IF outcome \in {"committed", "cleanup_incomplete"} THEN "committed"
          ELSE IF outcome \in {"failed", "refused"} THEN "unchanged"
          ELSE "torn"
Out == IF pc = "ended" THEN [f \in Files |-> disk[f].final] ELSE found
Kept == IF pc = "ended" THEN {f \in Former : disk[f].bak = "old"} ELSE {}

Contract == INSTANCE OutputCommit WITH result <- Result, out <- Out, kept <- Kept

\* The call is one atomic replacement of its outputs as far as its caller can
\* tell from how it ended.
ImplementsOutputCommit == Contract!Spec

=============================================================================
