----------------------------- MODULE Acquisition -----------------------------
(***************************************************************************)
(* corpus.acquisition: calls of acquire_corpus and verify_corpus_offline   *)
(* on one snapshot root.  An acquisition scans the root; if it is empty,   *)
(* every source is fetched and checked against its pins, the artifacts are *)
(* committed by write_transaction, and the result is replayed before it is *)
(* reported; if the root holds exactly the declared names, it is replayed; *)
(* anything else is refused.  Between and during the calls the root may be *)
(* disturbed from outside, a call may fail, be interrupted or be killed,   *)
(* and other calls may be under way: nothing locks the root.               *)
(*                                                                         *)
(* The transaction is write_transaction at the grain of whole files; what  *)
(* a power loss does to it is the subject of module WriteTransaction.  The *)
(* manifest and the policy are pinned by hashes and do not change.         *)
(***************************************************************************)
EXTENDS Integers

CONSTANTS
  Calls,        \* processes that call the two functions, one call at a time
  N,            \* number of declared artifacts, three for each source
  MaxCalls,     \* bound: calls made in one behaviour
  MaxDisturb    \* bound: disturbances from outside

Artifacts == 1..N
SourceOf(a) == (a + 2) \div 3      \* local_ref, metadata_ref, receipt_ref
Sources == {SourceOf(a) : a \in Artifacts}

ASSUME BoundsAssumption == N \in Nat \ {0} /\ MaxCalls \in Nat /\ MaxDisturb \in Nat

VARIABLES
  root,       \* what each declared name holds
  folder,     \* does the directory of the declared names exist
  litter,     \* other files: of former calls, or foreign
  tmp, bak,   \* temporary and backup files on disk of each process' present or last call
  pc, todo,   \* where each call is, and what its loop has not visited
  acquiring,  \* is the call an acquisition
  found,      \* the root as the call's scan found it
  fetched,    \* sources fetched and validated
  existed,    \* artifacts that existed when they were staged
  made,       \* the call made the directory
  newly,      \* artifacts recorded as created by the call
  errors,     \* the call could not undo, or could not clean up, something
  result,     \* how the last call of each process ended
  alone,      \* history: nobody else changed the root since the call's scan
  calls, disturbs

disk == <<root, folder, litter, tmp, bak>>
mine == <<acquiring, found, fetched, existed, made, newly, errors>>
ends == <<result>>
bounds == <<calls, disturbs>>
vars == <<disk, pc, todo, mine, ends, alone, bounds>>

Contents == {"absent", "pinned", "other"}
Transacting == {"look", "stage", "backup", "install", "cleanup"}
Rolling == {"restore", "remove_new", "remove_temps"}
Phases == {"idle", "scan", "fetch", "inventory", "replay"} \cup Transacting \cup Rolling
Good == {"acquired", "verified"}
Results == Good \cup {"none", "refused", "failed", "replay_failed",
                      "cleanup_incomplete", "rollback_incomplete", "killed"}

Occupied == {a \in Artifacts : root[a] # "absent"}
Working(p) == {a \in Artifacts : bak[p][a] # "absent"}
Litter == litter \/ \E p \in Calls : tmp[p] # {} \/ Working(p) # {}
Scanned == [names |-> Occupied, folder |-> folder, litter |-> Litter]
NothingThere == [names |-> {}, folder |-> FALSE, litter |-> FALSE]
Declared == [names |-> Artifacts, folder |-> TRUE, litter |-> FALSE]

TypeOK ==
  /\ root \in [Artifacts -> Contents]
  /\ folder \in BOOLEAN /\ litter \in BOOLEAN
  /\ tmp \in [Calls -> SUBSET Artifacts]
  /\ bak \in [Calls -> [Artifacts -> Contents]]
  /\ pc \in [Calls -> Phases]
  /\ todo \in [Calls -> SUBSET Artifacts]
  /\ found \in [Calls -> [names : SUBSET Artifacts, folder : BOOLEAN, litter : BOOLEAN]]
  /\ fetched \in [Calls -> SUBSET Sources]
  /\ existed \in [Calls -> SUBSET Artifacts] /\ newly \in [Calls -> SUBSET Artifacts]
  /\ \A x \in {acquiring, made, errors, alone} : x \in [Calls -> BOOLEAN]
  /\ result \in [Calls -> Results]
  /\ calls \in 0..MaxCalls /\ disturbs \in 0..MaxDisturb

Init ==
  /\ root = [a \in Artifacts |-> "absent"]
  /\ folder = FALSE /\ litter = FALSE
  /\ tmp = [p \in Calls |-> {}]
  /\ bak = [p \in Calls |-> [a \in Artifacts |-> "absent"]]
  /\ pc = [p \in Calls |-> "idle"]
  /\ todo = [p \in Calls |-> {}]
  /\ acquiring = [p \in Calls |-> FALSE]
  /\ found = [p \in Calls |-> NothingThere]
  /\ fetched = [p \in Calls |-> {}]
  /\ existed = [p \in Calls |-> {}] /\ newly = [p \in Calls |-> {}]
  /\ made = [p \in Calls |-> FALSE] /\ errors = [p \in Calls |-> FALSE]
  /\ result = [p \in Calls |-> "none"]
  /\ alone = [p \in Calls |-> TRUE]
  /\ calls = 0 /\ disturbs = 0

-----------------------------------------------------------------------------
At(p, phase) == pc[p] = phase
Goto(p, phase, work) ==
  /\ pc' = [pc EXCEPT ![p] = phase]
  /\ todo' = [todo EXCEPT ![p] = work]
IsNext(p, a) == a \in todo[p] /\ \A b \in todo[p] : a <= b
IsLast(p, a) == a \in todo[p] /\ \A b \in todo[p] : b <= a
Did(p, a) == todo' = [todo EXCEPT ![p] = @ \ {a}] /\ UNCHANGED pc

\* The call writes to the root, which is then no longer the others' alone.
Writes(p) == alone' = [q \in Calls |-> alone[q] /\ q = p]

\* The call returns or raises; the files it leaves behind stay.
Ends(p, how) ==
  /\ Goto(p, "idle", {})
  /\ result' = [result EXCEPT ![p] = how]

\* What a call knows ends with it.
NoMemory(p) ==
  /\ found' = [found EXCEPT ![p] = NothingThere]
  /\ fetched' = [fetched EXCEPT ![p] = {}]
  /\ existed' = [existed EXCEPT ![p] = {}] /\ newly' = [newly EXCEPT ![p] = {}]
  /\ made' = [made EXCEPT ![p] = FALSE] /\ errors' = [errors EXCEPT ![p] = FALSE]

\* Another call begins; what the last one left is litter to it.
Invoke(p) ==
  /\ At(p, "idle") /\ calls < MaxCalls
  /\ calls' = calls + 1
  /\ \E acquire \in BOOLEAN :
       /\ acquiring' = [acquiring EXCEPT ![p] = acquire]
       /\ Goto(p, IF acquire THEN "scan" ELSE "inventory", {})
  /\ NoMemory(p)
  /\ result' = [result EXCEPT ![p] = "none"]
  /\ alone' = [alone EXCEPT ![p] = TRUE]
  /\ litter' = (litter \/ tmp[p] # {} \/ Working(p) # {})
  /\ tmp' = [tmp EXCEPT ![p] = {}]
  /\ bak' = [bak EXCEPT ![p] = [a \in Artifacts |-> "absent"]]
  /\ UNCHANGED <<root, folder, disturbs>>

\* Faulty variant: a part of the declared inventory counts as nothing.
ScanLenient(p) ==
  /\ At(p, "scan")
  /\ found' = [found EXCEPT ![p] = Scanned]
  /\ alone' = [alone EXCEPT ![p] = TRUE]
  /\ IF Scanned = Declared
     THEN Goto(p, "inventory", {}) /\ UNCHANGED ends
     ELSE Goto(p, "fetch", {}) /\ UNCHANGED ends
  /\ UNCHANGED <<disk, acquiring, fetched, existed, made, newly, errors, bounds>>

\* _inventory, and what acquire_corpus makes of it.
Scan(p) ==
  /\ At(p, "scan")
  /\ found' = [found EXCEPT ![p] = Scanned]
  /\ alone' = [alone EXCEPT ![p] = TRUE]
  /\ \/ /\ Scanned = NothingThere
        /\ Goto(p, "fetch", {}) /\ UNCHANGED ends
     \/ /\ Scanned = Declared
        /\ Goto(p, "inventory", {}) /\ UNCHANGED ends
     \/ /\ Scanned \notin {NothingThere, Declared}
        /\ Ends(p, "refused")
  /\ UNCHANGED <<disk, acquiring, fetched, existed, made, newly, errors, bounds>>

\* The response equals its pins; sources are fetched in manifest order.
Fetch(p) ==
  /\ At(p, "fetch")
  /\ \E s \in Sources \ fetched[p] :
       /\ \A t \in Sources \ fetched[p] : s <= t
       /\ fetched' = [fetched EXCEPT ![p] = @ \cup {s}]
  /\ UNCHANGED <<disk, pc, todo, acquiring, found, existed, made, newly, errors,
                 ends, alone, bounds>>

FetchFails(p) ==
  /\ At(p, "fetch") /\ fetched[p] # Sources
  /\ Ends(p, "failed")
  /\ UNCHANGED <<disk, mine, alone, bounds>>

BeginCommit(p) ==
  /\ At(p, "fetch") /\ fetched[p] = Sources
  /\ Goto(p, "look", Artifacts)
  /\ UNCHANGED <<disk, mine, ends, alone, bounds>>

-----------------------------------------------------------------------------
(* write_transaction.                                                      *)

\* _existing_entry_kind, then the parents.
Look(p) ==
  /\ At(p, "look")
  /\ \E a \in todo[p] :
       /\ IsNext(p, a)
       /\ existed' = [existed EXCEPT ![p] = IF root[a] # "absent" THEN @ \cup {a} ELSE @]
  /\ pc' = [pc EXCEPT ![p] = "stage"]
  /\ folder' = TRUE
  /\ made' = [made EXCEPT ![p] = @ \/ ~folder]
  /\ IF folder THEN UNCHANGED alone ELSE Writes(p)
  /\ UNCHANGED <<root, litter, tmp, bak, todo, acquiring, found, fetched, newly,
                 errors, ends, bounds>>

Stage(p, a) ==
  /\ At(p, "stage") /\ IsNext(p, a) /\ folder
  /\ tmp' = [tmp EXCEPT ![p] = @ \cup {a}]
  /\ LET rest == todo[p] \ {a}
     IN  IF rest = {} THEN Goto(p, "backup", existed[p]) ELSE Goto(p, "look", rest)
  /\ Writes(p)
  /\ UNCHANGED <<root, folder, litter, bak, mine, ends, bounds>>

MoveToBackup(p, a) ==
  /\ At(p, "backup") /\ IsNext(p, a) /\ root[a] # "absent"
  /\ bak' = [bak EXCEPT ![p][a] = root[a]]
  /\ root' = [root EXCEPT ![a] = "absent"]
  /\ Did(p, a) /\ Writes(p)
  /\ UNCHANGED <<folder, litter, tmp, mine, ends, bounds>>

BeginInstall(p) ==
  /\ At(p, "backup") /\ todo[p] = {}
  /\ Goto(p, "install", Artifacts)
  /\ UNCHANGED <<disk, mine, ends, alone, bounds>>

\* Faulty variant: the artifact is not recorded as created by the call.
InstallUnrecorded(p, a) ==
  /\ At(p, "install") /\ IsNext(p, a)
  /\ root' = [root EXCEPT ![a] = "pinned"]
  /\ tmp' = [tmp EXCEPT ![p] = @ \ {a}]
  /\ Did(p, a) /\ Writes(p)
  /\ UNCHANGED <<folder, litter, bak, mine, ends, bounds>>

Install(p, a) ==
  /\ At(p, "install") /\ IsNext(p, a)
  /\ root' = [root EXCEPT ![a] = "pinned"]
  /\ tmp' = [tmp EXCEPT ![p] = @ \ {a}]
  /\ newly' = [newly EXCEPT ![p] = @ \cup ({a} \ existed[p])]
  /\ Did(p, a) /\ Writes(p)
  /\ UNCHANGED <<folder, litter, bak, acquiring, found, fetched, existed, made,
                 errors, ends, bounds>>

BeginCleanup(p) ==
  /\ At(p, "install") /\ todo[p] = {}
  /\ Goto(p, "cleanup", Working(p))
  /\ UNCHANGED <<disk, mine, ends, alone, bounds>>

DropBackup(p, a) ==
  /\ At(p, "cleanup") /\ IsNext(p, a)
  /\ \/ bak' = [bak EXCEPT ![p][a] = "absent"] /\ UNCHANGED errors
     \/ errors' = [errors EXCEPT ![p] = TRUE] /\ UNCHANGED bak
  /\ Did(p, a) /\ Writes(p)
  /\ UNCHANGED <<root, folder, litter, tmp, acquiring, found, fetched, existed, made,
                 newly, ends, bounds>>

\* Retained backups raise CleanupIncompleteError; else the replay follows.
FinishCommit(p) ==
  /\ At(p, "cleanup") /\ todo[p] = {}
  /\ IF errors[p]
     THEN Ends(p, "cleanup_incomplete")
     ELSE Goto(p, "inventory", {}) /\ UNCHANGED ends
  /\ UNCHANGED <<disk, mine, alone, bounds>>

\* An operation of the transaction raises.
Fail(p) ==
  /\ pc[p] \in Transacting \ {"cleanup"} /\ todo[p] # {}
  /\ Goto(p, "restore", Working(p))
  /\ UNCHANGED <<disk, mine, ends, alone, bounds>>

\* Faulty variant: an output that is there again, by whomever, needs no restoring.
RestoreUnlessThere(p, a) ==
  /\ At(p, "restore") /\ IsLast(p, a)
  /\ IF root[a] # "absent"
     THEN UNCHANGED <<root, bak>>
     ELSE /\ root' = [root EXCEPT ![a] = bak[p][a]]
          /\ bak' = [bak EXCEPT ![p][a] = "absent"]
  /\ Did(p, a) /\ Writes(p)
  /\ UNCHANGED <<folder, litter, tmp, mine, ends, bounds>>

Restore(p, a) ==
  /\ At(p, "restore") /\ IsLast(p, a)
  /\ \/ /\ root' = [root EXCEPT ![a] = bak[p][a]]
        /\ bak' = [bak EXCEPT ![p][a] = "absent"]
        /\ UNCHANGED errors
     \/ /\ root' \in {root, [root EXCEPT ![a] = "absent"]}   \* unlinked, not replaced
        /\ errors' = [errors EXCEPT ![p] = TRUE]
        /\ UNCHANGED bak
  /\ Did(p, a) /\ Writes(p)
  /\ UNCHANGED <<folder, litter, tmp, acquiring, found, fetched, existed, made, newly,
                 ends, bounds>>

BeginRemoveNew(p) ==
  /\ At(p, "restore") /\ todo[p] = {}
  /\ Goto(p, "remove_new", newly[p])
  /\ UNCHANGED <<disk, mine, ends, alone, bounds>>

RemoveNew(p, a) ==
  /\ At(p, "remove_new") /\ IsNext(p, a)
  /\ \/ root' = [root EXCEPT ![a] = "absent"] /\ UNCHANGED errors
     \/ errors' = [errors EXCEPT ![p] = TRUE] /\ UNCHANGED root
  /\ Did(p, a) /\ Writes(p)
  /\ UNCHANGED <<folder, litter, tmp, bak, acquiring, found, fetched, existed, made,
                 newly, ends, bounds>>

\* Temporary files (tried again by finally), the directory, and the raise.
FinishRollback(p) ==
  /\ At(p, "remove_new") /\ todo[p] = {}
  /\ \E stuck \in SUBSET tmp[p], failed \in BOOLEAN, removed \in BOOLEAN :
       /\ stuck # {} => failed
       /\ failed => tmp[p] # {}
       /\ removed => /\ made[p] /\ folder /\ ~failed /\ Occupied = {} /\ ~litter
                     /\ \A q \in Calls : Working(q) = {} /\ (q # p => tmp[q] = {})
       /\ folder' = (folder /\ ~removed)
       /\ tmp' = [tmp EXCEPT ![p] = stuck]
       /\ Ends(p, IF errors[p] \/ failed THEN "rollback_incomplete" ELSE "failed")
  /\ Writes(p)
  /\ UNCHANGED <<root, litter, bak, mine, bounds>>

-----------------------------------------------------------------------------
(* verify_corpus_offline, and the end.                                     *)

RejectAs(p) == IF acquiring[p] /\ fetched[p] = Sources THEN "replay_failed" ELSE "refused"

Inventory(p) ==
  /\ At(p, "inventory")
  /\ alone' = [alone EXCEPT ![p] = TRUE]
  /\ IF Scanned = Declared
     THEN Goto(p, "replay", Artifacts) /\ UNCHANGED ends
     ELSE Ends(p, RejectAs(p))
  /\ UNCHANGED <<disk, mine, bounds>>

\* Faulty variant: sidecars are not compared, only the sources.
ReplaySourcesOnly(p, a) ==
  /\ At(p, "replay") /\ IsNext(p, a)
  /\ IF root[a] = "pinned" \/ a % 3 # 1
     THEN Did(p, a) /\ UNCHANGED ends
     ELSE Ends(p, RejectAs(p))
  /\ UNCHANGED <<disk, mine, alone, bounds>>

\* The bytes of the next artifact are read and compared.
Replay(p, a) ==
  /\ At(p, "replay") /\ IsNext(p, a)
  /\ IF root[a] = "pinned"
     THEN Did(p, a) /\ UNCHANGED ends
     ELSE Ends(p, RejectAs(p))
  /\ UNCHANGED <<disk, mine, alone, bounds>>

\* A read, or the scratch directory of the adapter, raises.
ReplayFails(p) ==
  /\ pc[p] \in {"inventory", "replay"}
  /\ Ends(p, RejectAs(p))
  /\ UNCHANGED <<disk, mine, alone, bounds>>

Report(p) ==
  /\ At(p, "replay") /\ todo[p] = {}
  /\ Ends(p, IF acquiring[p] /\ fetched[p] = Sources THEN "acquired" ELSE "verified")
  /\ UNCHANGED <<disk, mine, alone, bounds>>

\* The process is killed, or interrupted, when finally removes temporaries.
Killed(p) ==
  /\ pc[p] # "idle"
  /\ \E left \in SUBSET tmp[p] : tmp' = [tmp EXCEPT ![p] = left]
  /\ Ends(p, "killed") /\ NoMemory(p) /\ Writes(p)
  /\ UNCHANGED <<root, folder, litter, bak, acquiring, bounds>>

\* Somebody edits or removes an artifact, or adds a file.
Disturb ==
  /\ disturbs < MaxDisturb
  /\ disturbs' = disturbs + 1
  /\ \/ /\ \E a \in Artifacts : \E c \in {"other", "absent"} :
             folder /\ root' = [root EXCEPT ![a] = c]
        /\ UNCHANGED litter
     \/ litter' = TRUE /\ UNCHANGED root
  /\ alone' = [p \in Calls |-> FALSE]
  /\ UNCHANGED <<folder, tmp, bak, pc, todo, mine, result, calls>>

\* The operator discards the root and makes an empty one.
Discard ==
  /\ \A p \in Calls : pc[p] = "idle"
  /\ Scanned # NothingThere
  /\ root' = [a \in Artifacts |-> "absent"]
  /\ folder' = FALSE /\ litter' = FALSE
  /\ tmp' = [p \in Calls |-> {}]
  /\ bak' = [p \in Calls |-> [a \in Artifacts |-> "absent"]]
  /\ result' = [p \in Calls |-> "none"]
  /\ alone' = [p \in Calls |-> FALSE]
  /\ UNCHANGED <<pc, todo, mine, bounds>>

Step(p) ==
  \/ Scan(p) \/ Fetch(p) \/ FetchFails(p) \/ BeginCommit(p)
  \/ Look(p) \/ BeginInstall(p) \/ BeginCleanup(p) \/ FinishCommit(p) \/ Fail(p)
  \/ BeginRemoveNew(p) \/ FinishRollback(p)
  \/ Inventory(p) \/ ReplayFails(p) \/ Report(p)
  \/ \E a \in Artifacts :
       \/ Stage(p, a) \/ MoveToBackup(p, a) \/ Install(p, a) \/ DropBackup(p, a)
       \/ Restore(p, a) \/ RemoveNew(p, a) \/ Replay(p, a)

Next == Disturb \/ Discard \/ \E p \in Calls : Invoke(p) \/ Step(p) \/ Killed(p)

Spec == Init /\ [][Next]_vars

-----------------------------------------------------------------------------
(* Correctness.                                                            *)

\* A call reports success only over a complete corpus: unless somebody else
\* changed the root since the call took its inventory, every declared artifact
\* holds its pinned bytes and nothing else is there.
SuccessIsExact ==
  \A p \in Calls : result[p] \in Good /\ alone[p] =>
    Scanned = Declared /\ \A a \in Artifacts : root[a] = "pinned"

\* Only an acquisition that found nothing in the root, and holds every source
\* fetched and validated, ever changes it: a partial, tampered or complete
\* corpus is never completed, repaired or written over by a call that saw it.
Moves(p) == ~At(p, "idle") /\ (pc'[p] # pc[p] \/ todo'[p] # todo[p])
OnlyFreshRootsWritten ==
  [][\A p \in Calls : Moves(p) /\ disk' # disk =>
       acquiring[p] /\ found[p] = NothingThere /\ fetched[p] = Sources]_vars

\* An acquisition that failed, and did not say that its rollback failed, leaves
\* no artifact, temporary file or backup, unless somebody else was at work.
FailureLeavesNothing ==
  \A p \in Calls : result[p] = "failed" /\ alone[p] => Occupied = {} /\ ~Litter

\* A call whose outputs others create and remove between its staging and its renames
\* still accounts for all its files: when it has ended, a temporary file of its own is
\* left only if it was killed or says that its rollback is incomplete, and a backup only
\* then or if it says that its clean-up is.
NoUnreportedStrays ==
  \A p \in Calls : At(p, "idle") =>
    /\ tmp[p] # {} => result[p] \in {"rollback_incomplete", "killed"}
    /\ Working(p) # {} =>
         result[p] \in {"rollback_incomplete", "killed", "cleanup_incomplete"}

=============================================================================
