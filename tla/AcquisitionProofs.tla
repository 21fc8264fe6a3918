-------------------------- MODULE AcquisitionProofs --------------------------
(***************************************************************************)
(* What acquisitions and offline verifications of one root promise, for    *)
(* any number of calls, artifacts and disturbances.  What a call knows of  *)
(* the root it knows only for as long as nobody else writes to it, so the  *)
(* invariant has two parts for each call: what holds of its own files and  *)
(* variables, whatever the others do, and what holds of the root while it  *)
(* is alone.                                                               *)
(***************************************************************************)
EXTENDS Acquisition, TLAPS

Quiet == {"idle", "scan", "fetch", "inventory", "replay"}
Committing == Transacting \cup Rolling
\* The ends after which a call may have left files of any kind.
Untidy == {"rollback_incomplete", "killed"}

\* Of the call's own files and variables.
Own(p) ==
  /\ result[p] # "none" => pc[p] = "idle"
  /\ pc[p] \in Quiet \ {"idle"} => tmp[p] = {} /\ Working(p) = {}
  /\ pc[p] = "idle" => /\ tmp[p] # {} => result[p] \in Untidy
                       /\ Working(p) # {} => result[p] \in Untidy \cup {"cleanup_incomplete"}
  /\ pc[p] = "restore" => errors[p] \/ Working(p) \subseteq todo[p]
  /\ pc[p] = "remove_new" => errors[p] \/ Working(p) = {}
  /\ pc[p] = "scan" => acquiring[p]
  /\ pc[p] \in {"scan", "fetch"} => existed[p] = {}
  /\ pc[p] \in {"scan", "fetch", "look", "stage", "backup"} => newly[p] = {}
  /\ pc[p] \in {"scan", "fetch", "look", "stage", "backup", "install"} => ~errors[p]
  /\ pc[p] \in {"fetch"} \cup Committing => acquiring[p] /\ found[p] = NothingThere
  /\ pc[p] \in Committing => fetched[p] = Sources
  /\ pc[p] = "install" => tmp[p] \subseteq todo[p]
  /\ pc[p] = "cleanup" =>
       /\ tmp[p] = {} /\ todo[p] \subseteq Working(p)
       /\ IF errors[p] THEN Working(p) \ todo[p] # {} ELSE Working(p) \subseteq todo[p]

\* The others have left nothing in the root.
OnlyMine(p) == ~litter /\ \A q \in Calls \ {p} : tmp[q] = {} /\ Working(q) = {}
Pinned(as) == \A a \in as : root[a] = "pinned"

\* Of the root.
WhileAlone(p) ==
  alone[p] =>
    /\ pc[p] = "fetch" => Scanned = NothingThere
    /\ pc[p] \in Committing => OnlyMine(p) /\ existed[p] = {} /\ Working(p) = {}
    /\ pc[p] \in Committing \ {"remove_new"} => Occupied \subseteq newly[p] /\ ~errors[p]
    /\ pc[p] \in {"backup", "restore", "cleanup"} => todo[p] = {}
    /\ pc[p] = "remove_new" /\ ~errors[p] => Occupied \subseteq todo[p]
    /\ pc[p] = "replay" => Scanned = Declared /\ Pinned(Artifacts \ todo[p])
    /\ result[p] \in Good => Scanned = Declared /\ Pinned(Artifacts)
    /\ result[p] = "failed" => Occupied = {} /\ ~Litter

Inv == TypeOK /\ \A p \in Calls : Own(p) /\ WhileAlone(p)

-----------------------------------------------------------------------------
(* What a step of one call is to another.                                  *)

\* Its files and variables are left alone.
MineKept(q) ==
  /\ pc'[q] = pc[q] /\ todo'[q] = todo[q] /\ tmp'[q] = tmp[q] /\ bak'[q] = bak[q]
  /\ acquiring'[q] = acquiring[q] /\ found'[q] = found[q] /\ fetched'[q] = fetched[q]
  /\ existed'[q] = existed[q] /\ newly'[q] = newly[q] /\ errors'[q] = errors[q]
  /\ result'[q] = result[q]

\* If it is alone still, it was, and nothing was written; or another call had left
\* something in the root, and it is there still.
RootKept(q) ==
  alone'[q] =>
    /\ alone[q]
    /\ \/ disk' = disk
       \/ /\ root' = root /\ Scanned' = Scanned
          /\ \E p \in Calls \ {q} : tmp[p] # {} \/ Working(p) # {}

Typed ==
  /\ root \in [Artifacts -> Contents] /\ folder \in BOOLEAN /\ litter \in BOOLEAN
  /\ tmp \in [Calls -> SUBSET Artifacts] /\ bak \in [Calls -> [Artifacts -> Contents]]
  /\ pc \in [Calls -> Phases] /\ todo \in [Calls -> SUBSET Artifacts]
  /\ found \in [Calls -> [names : SUBSET Artifacts, folder : BOOLEAN, litter : BOOLEAN]]
  /\ fetched \in [Calls -> SUBSET Sources]
  /\ existed \in [Calls -> SUBSET Artifacts] /\ newly \in [Calls -> SUBSET Artifacts]
  /\ acquiring \in [Calls -> BOOLEAN] /\ made \in [Calls -> BOOLEAN]
  /\ errors \in [Calls -> BOOLEAN] /\ alone \in [Calls -> BOOLEAN]
  /\ result \in [Calls -> Results]
  /\ calls \in 0..MaxCalls /\ disturbs \in 0..MaxDisturb

LEMMA TypedIs == (TypeOK <=> Typed) /\ (TypeOK' <=> Typed')
BY DEF TypeOK, Typed

\* How a call goes on, and ends.
LEMMA Phrases ==
  /\ {"idle", "scan", "fetch", "inventory", "replay", "look", "stage", "backup", "install",
      "cleanup", "restore", "remove_new"} \subseteq Phases
  /\ {"none", "refused", "failed", "replay_failed", "cleanup_incomplete", "rollback_incomplete",
      "killed", "acquired", "verified"} \subseteq Results
  /\ \A p : RejectAs(p) \in {"replay_failed", "refused"} /\ Working(p) \subseteq Artifacts
BY DEF Phases, Transacting, Rolling, Results, Good, RejectAs, Working

LEMMA GotoIs ==
  ASSUME TypeOK, NEW p \in Calls, NEW phase \in Phases, NEW work \in SUBSET Artifacts,
         Goto(p, phase, work)
  PROVE  /\ pc' \in [Calls -> Phases] /\ todo' \in [Calls -> SUBSET Artifacts]
         /\ pc'[p] = phase /\ todo'[p] = work
         /\ \A q \in Calls \ {p} : pc'[q] = pc[q] /\ todo'[q] = todo[q]
BY DEF TypeOK, Goto

LEMMA EndsIs ==
  ASSUME TypeOK, NEW p \in Calls, NEW how \in Results, Ends(p, how)
  PROVE  /\ pc' \in [Calls -> Phases] /\ todo' \in [Calls -> SUBSET Artifacts]
         /\ result' \in [Calls -> Results]
         /\ pc'[p] = "idle" /\ result'[p] = how
         /\ \A q \in Calls \ {p} : pc'[q] = pc[q] /\ todo'[q] = todo[q] /\ result'[q] = result[q]
<1>1. Goto(p, "idle", {}) /\ "idle" \in Phases /\ {} \in SUBSET Artifacts
  BY Phrases DEF Ends
<1> QED BY <1>1, GotoIs DEF TypeOK, Ends

LEMMA DidIs ==
  ASSUME TypeOK, NEW p \in Calls, NEW a \in Artifacts, Did(p, a)
  PROVE  /\ pc' = pc /\ todo' \in [Calls -> SUBSET Artifacts] /\ todo'[p] = todo[p] \ {a}
         /\ \A q \in Calls \ {p} : todo'[q] = todo[q]
BY DEF TypeOK, Did

LEMMA WritesIs ==
  ASSUME TypeOK, NEW p \in Calls, Writes(p)
  PROVE  /\ alone' \in [Calls -> BOOLEAN] /\ alone'[p] = alone[p]
         /\ \A q \in Calls \ {p} : ~alone'[q]
BY DEF TypeOK, Writes

LEMMA ScannedIs ==
  ASSUME TypeOK
  PROVE  /\ Scanned \in [names : SUBSET Artifacts, folder : BOOLEAN, litter : BOOLEAN]
         /\ Scanned.names = Occupied /\ Scanned.folder = folder /\ Scanned.litter = Litter
         /\ Litter \in BOOLEAN /\ Occupied \subseteq Artifacts
         /\ Scanned = NothingThere <=> Occupied = {} /\ ~folder /\ ~Litter
<1>1. Litter \in BOOLEAN
  BY DEF TypeOK, Litter
<1>2. folder \in BOOLEAN
  BY DEF TypeOK
<1>3. Occupied \subseteq Artifacts
  BY DEF Occupied
<1> QED BY <1>1, <1>2, <1>3 DEF Scanned, NothingThere

LEMMA SameDisk ==
  ASSUME disk' = disk
  PROVE  /\ root' = root /\ folder' = folder /\ litter' = litter /\ tmp' = tmp /\ bak' = bak
         /\ Occupied' = Occupied /\ Litter' = Litter /\ Scanned' = Scanned
         /\ \A q : Working(q)' = Working(q) /\ OnlyMine(q)' = OnlyMine(q)
         /\ \A as : Pinned(as)' = Pinned(as)
BY DEF disk, Occupied, Litter, Scanned, Working, OnlyMine, Pinned

LEMMA OtherKeeps ==
  ASSUME Inv, NEW q \in Calls, MineKept(q), RootKept(q)
  PROVE  Own(q)' /\ WhileAlone(q)'
<1>1. Own(q) /\ WhileAlone(q)
  BY DEF Inv
<1>2. Working(q)' = Working(q)
  BY DEF MineKept, Working
<1>3. Own(q)'
  BY <1>1, <1>2 DEF Own, MineKept
<1> SUFFICES WhileAlone(q)'
  BY <1>3
<1>4. CASE ~alone'[q]
  BY <1>4 DEF WhileAlone
<1>5. CASE disk' = disk /\ alone[q]
  BY <1>1, <1>5, SameDisk DEF WhileAlone, MineKept, Pinned
<1>6. ASSUME alone[q], root' = root, Scanned' = Scanned, NEW p \in Calls \ {q},
             tmp[p] # {} \/ Working(p) # {}
      PROVE  WhileAlone(q)'
  <2>1. ~OnlyMine(q)
    BY <1>6 DEF OnlyMine
  <2>2. Litter
    BY <1>6 DEF Litter
  <2>3. pc[q] \notin Committing /\ result[q] # "failed"
    BY <1>1, <1>6, <2>1, <2>2 DEF WhileAlone
  <2> QED BY <1>1, <1>6, <2>3 DEF WhileAlone, MineKept, Pinned, Committing, Rolling, Transacting
<1> QED BY <1>4, <1>5, <1>6 DEF RootKept

LEMMA StepKeeps ==
  ASSUME Inv, NEW p \in Calls, TypeOK', \A q \in Calls \ {p} : MineKept(q) /\ RootKept(q),
         Own(p)', WhileAlone(p)'
  PROVE  Inv'
<1>1. \A q \in Calls \ {p} : Own(q)' /\ WhileAlone(q)'
  BY OtherKeeps
<1> QED BY <1>1 DEF Inv

-----------------------------------------------------------------------------
(* The steps that change nothing on disk.                                  *)

\* A process that begins another call has no files left that count as its own.
LEMMA FilesGone ==
  ASSUME TypeOK, NEW p \in Calls, tmp' = [tmp EXCEPT ![p] = {}],
         bak' = [bak EXCEPT ![p] = [a \in Artifacts |-> "absent"]]
  PROVE  /\ tmp' \in [Calls -> SUBSET Artifacts] /\ bak' \in [Calls -> [Artifacts -> Contents]]
         /\ tmp'[p] = {} /\ Working(p)' = {}
         /\ \A q \in Calls \ {p} : tmp'[q] = tmp[q] /\ bak'[q] = bak[q] /\ Working(q)' = Working(q)
BY DEF TypeOK, Contents, Working

LEMMA NoMemoryIs ==
  ASSUME Typed, NEW p \in Calls, NoMemory(p)
  PROVE  /\ found' \in [Calls -> [names : SUBSET Artifacts, folder : BOOLEAN, litter : BOOLEAN]]
         /\ fetched' \in [Calls -> SUBSET Sources]
         /\ existed' \in [Calls -> SUBSET Artifacts] /\ newly' \in [Calls -> SUBSET Artifacts]
         /\ made' \in [Calls -> BOOLEAN] /\ errors' \in [Calls -> BOOLEAN]
         /\ existed'[p] = {} /\ newly'[p] = {} /\ ~errors'[p]
         /\ \A q \in Calls \ {p} :
              /\ found'[q] = found[q] /\ fetched'[q] = fetched[q] /\ existed'[q] = existed[q]
              /\ newly'[q] = newly[q] /\ errors'[q] = errors[q]
<1>1. NothingThere \in [names : SUBSET Artifacts, folder : BOOLEAN, litter : BOOLEAN]
  BY DEF NothingThere
<1> QED BY <1>1 DEF Typed, NoMemory

LEMMA InvokeKeeps ==
  ASSUME Inv, NEW p \in Calls, Invoke(p)
  PROVE  Inv'
<1>0. TypeOK /\ Own(p) /\ WhileAlone(p) /\ Typed
  BY TypedIs DEF Inv
<1>1. /\ tmp' \in [Calls -> SUBSET Artifacts] /\ bak' \in [Calls -> [Artifacts -> Contents]]
      /\ tmp'[p] = {} /\ Working(p)' = {}
      /\ \A q \in Calls \ {p} : tmp'[q] = tmp[q] /\ bak'[q] = bak[q] /\ Working(q)' = Working(q)
  BY <1>0, FilesGone DEF Invoke
<1>2. PICK acquire \in BOOLEAN :
        /\ acquiring' = [acquiring EXCEPT ![p] = acquire]
        /\ Goto(p, IF acquire THEN "scan" ELSE "inventory", {})
  BY DEF Invoke
<1>3. /\ pc' \in [Calls -> Phases] /\ todo' \in [Calls -> SUBSET Artifacts]
      /\ pc'[p] = IF acquire THEN "scan" ELSE "inventory"
      /\ \A q \in Calls \ {p} : pc'[q] = pc[q] /\ todo'[q] = todo[q]
  BY <1>0, <1>2, Phrases, GotoIs
<1>4. /\ result' \in [Calls -> Results] /\ result'[p] = "none"
      /\ \A q \in Calls \ {p} : result'[q] = result[q]
  BY <1>0, Phrases DEF Invoke, Typed
<1>5. litter' = (litter \/ tmp[p] # {} \/ Working(p) # {})
  BY DEF Invoke
<1>6. /\ acquiring' \in [Calls -> BOOLEAN] /\ acquiring'[p] = acquire
      /\ \A q \in Calls \ {p} : acquiring'[q] = acquiring[q]
  BY <1>0, <1>2 DEF Typed
<1>7. TypeOK'
  <2>1. calls' \in 0..MaxCalls /\ alone' \in [Calls -> BOOLEAN]
    BY <1>0, BoundsAssumption DEF Typed, Invoke
  <2>2. litter' \in BOOLEAN
    BY <1>0, <1>5 DEF Typed
  <2>3. NoMemory(p)
    BY DEF Invoke
  <2> QED BY <1>0, <1>1, <1>3, <1>4, <1>6, <2>1, <2>2, <2>3, NoMemoryIs, TypedIs
         DEF Typed, Invoke
<1>8. ASSUME NEW q \in Calls \ {p} PROVE MineKept(q) /\ RootKept(q)
  <2>1. MineKept(q)
    BY <1>0, <1>1, <1>3, <1>4, <1>6, NoMemoryIs DEF MineKept, Invoke
  <2>2. alone'[q] = alone[q]
    BY <1>0 DEF Invoke, Typed
  <2>3. CASE tmp[p] = {} /\ Working(p) = {}
    <3>1. bak' = bak
      <4>1. bak[p] = [a \in Artifacts |-> "absent"]
        BY <1>0, <2>3 DEF Working, Typed
      <4> QED BY <1>0, <4>1 DEF Invoke, Typed
    <3>2. tmp' = tmp /\ litter' = litter
      BY <1>0, <1>5, <2>3 DEF Invoke, Typed
    <3> QED BY <2>1, <2>2, <3>1, <3>2 DEF Invoke, RootKept, disk
  <2>4. CASE tmp[p] # {} \/ Working(p) # {}
    <3>1. Litter /\ Litter'
      BY <1>5, <2>4 DEF Litter
    <3>2. Litter = TRUE /\ Litter' = TRUE
      BY <1>0, <1>7, <3>1 DEF Litter, TypeOK
    <3>3. root' = root /\ Scanned' = Scanned
      BY <3>2 DEF Invoke, Scanned, Occupied
    <3> QED BY <2>1, <2>2, <2>4, <3>3 DEF RootKept
  <2> QED BY <2>1, <2>3, <2>4
<1>9. Own(p)'
  <2>1. existed'[p] = {} /\ newly'[p] = {} /\ ~errors'[p]
    BY <1>0, NoMemoryIs DEF Invoke
  <2> QED BY <1>1, <1>3, <1>4, <1>6, <2>1 DEF Own, Quiet, Committing, Transacting, Rolling
<1>10. WhileAlone(p)'
  BY <1>3, <1>4 DEF WhileAlone, Committing, Transacting, Rolling, Good
<1> QED BY <1>7, <1>8, <1>9, <1>10, StepKeeps


LEMMA ScanKeeps ==
  ASSUME Inv, NEW p \in Calls, Scan(p)
  PROVE  Inv'
<1>0. TypeOK /\ Own(p) /\ WhileAlone(p)
  BY DEF Inv
<1>1. disk' = disk
  BY DEF Scan, At, Goto, Ends, mine, ends, bounds, disk
<1>2. TypeOK'
  BY <1>0, Phrases, GotoIs, EndsIs, ScannedIs, TypedIs DEF Typed, Scan, mine, ends, bounds, disk
<1>3. ASSUME NEW q \in Calls \ {p} PROVE MineKept(q) /\ RootKept(q)
  BY <1>0, <1>1 DEF TypeOK, MineKept, RootKept, disk, Scan, At, Goto, Ends, mine, ends, bounds
<1>4. Own(p)'
  BY <1>0, <1>1, SameDisk
    DEF TypeOK, Own, Scan, At, Goto, Ends, mine, ends, bounds, disk, Quiet, Committing,
        Transacting, Rolling, Good
<1>5. WhileAlone(p)'
  BY <1>0, <1>1, SameDisk, ScannedIs
    DEF TypeOK, WhileAlone, Own, Scan, At, Goto, Ends, mine, ends, bounds, disk, Quiet,
        Committing, Transacting, Rolling, Good
<1> QED BY <1>2, <1>3, <1>4, <1>5, StepKeeps


LEMMA FetchKeeps ==
  ASSUME Inv, NEW p \in Calls, Fetch(p)
  PROVE  Inv'
<1>0. TypeOK /\ Own(p) /\ WhileAlone(p)
  BY DEF Inv
<1>1. disk' = disk
  BY DEF Fetch, At, Goto, Ends, mine, ends, bounds, disk
<1>2. TypeOK'
  <2>1. fetched' \in [Calls -> SUBSET Sources]
    BY <1>0 DEF TypeOK, Fetch
  <2> QED BY <1>0, <2>1, TypedIs DEF Typed, Fetch, ends, bounds, disk
<1>3. ASSUME NEW q \in Calls \ {p} PROVE MineKept(q) /\ RootKept(q)
  BY <1>0, <1>1 DEF TypeOK, MineKept, RootKept, disk, Fetch, At, Goto, Ends, mine, ends, bounds
<1>4. Own(p)'
  BY <1>0, <1>1, SameDisk
    DEF TypeOK, Own, Fetch, At, Goto, Ends, mine, ends, bounds, disk, Quiet, Committing,
        Transacting, Rolling, Good
<1>5. WhileAlone(p)'
  BY <1>0, <1>1, SameDisk, ScannedIs
    DEF TypeOK, WhileAlone, Own, Fetch, At, Goto, Ends, mine, ends, bounds, disk, Quiet,
        Committing, Transacting, Rolling, Good
<1> QED BY <1>2, <1>3, <1>4, <1>5, StepKeeps


LEMMA FetchFailsKeeps ==
  ASSUME Inv, NEW p \in Calls, FetchFails(p)
  PROVE  Inv'
<1>0. TypeOK /\ Own(p) /\ WhileAlone(p)
  BY DEF Inv
<1>1. disk' = disk
  BY DEF FetchFails, At, Goto, Ends, mine, ends, bounds, disk
<1>2. TypeOK'
  BY <1>0, Phrases, EndsIs, ScannedIs, TypedIs DEF Typed, FetchFails, mine, ends, bounds, disk
<1>3. ASSUME NEW q \in Calls \ {p} PROVE MineKept(q) /\ RootKept(q)
  BY <1>0, <1>1
    DEF TypeOK, MineKept, RootKept, disk, FetchFails, At, Goto, Ends, mine, ends, bounds
<1>4. Own(p)'
  BY <1>0, <1>1, SameDisk
    DEF TypeOK, Own, FetchFails, At, Goto, Ends, mine, ends, bounds, disk, Quiet, Committing,
        Transacting, Rolling, Good
<1>5. WhileAlone(p)'
  BY <1>0, <1>1, SameDisk, ScannedIs
    DEF TypeOK, WhileAlone, Own, FetchFails, At, Goto, Ends, mine, ends, bounds, disk, Quiet,
        Committing, Transacting, Rolling, Good
<1> QED BY <1>2, <1>3, <1>4, <1>5, StepKeeps


LEMMA BeginCommitKeeps ==
  ASSUME Inv, NEW p \in Calls, BeginCommit(p)
  PROVE  Inv'
<1>0. TypeOK /\ Own(p) /\ WhileAlone(p)
  BY DEF Inv
<1>1. disk' = disk
  BY DEF BeginCommit, At, Goto, Ends, mine, ends, bounds, disk
<1>2. TypeOK'
  BY <1>0, Phrases, GotoIs, ScannedIs, TypedIs DEF Typed, BeginCommit, mine, ends, bounds, disk
<1>3. ASSUME NEW q \in Calls \ {p} PROVE MineKept(q) /\ RootKept(q)
  BY <1>0, <1>1
    DEF TypeOK, MineKept, RootKept, disk, BeginCommit, At, Goto, Ends, mine, ends, bounds
<1>4. Own(p)'
  BY <1>0, <1>1, SameDisk
    DEF TypeOK, Own, BeginCommit, At, Goto, Ends, mine, ends, bounds, disk, Quiet, Committing,
        Transacting, Rolling, Good
<1>5. WhileAlone(p)'
  <2>1. pc'[p] = "look" /\ todo'[p] = Artifacts
    BY <1>0, Phrases, GotoIs DEF BeginCommit
  <2>2. alone' = alone /\ newly' = newly /\ existed' = existed /\ errors' = errors /\ result' = result
    BY DEF BeginCommit, mine, ends
  <2>3. result[p] = "none" /\ existed[p] = {} /\ Working(p) = {} /\ newly[p] = {} /\ ~errors[p]
    BY <1>0 DEF BeginCommit, At, Own, Quiet
  <2>4. alone[p] => Occupied = {} /\ OnlyMine(p)
    <3> SUFFICES ASSUME alone[p] PROVE Occupied = {} /\ OnlyMine(p)
      OBVIOUS
    <3>1. Scanned = NothingThere
      BY <1>0 DEF BeginCommit, At, WhileAlone
    <3> QED BY <1>0, <3>1, ScannedIs DEF Litter, OnlyMine
  <2> QED BY <1>1, <2>1, <2>2, <2>3, <2>4, SameDisk
        DEF WhileAlone, Committing, Transacting, Rolling, Good
<1> QED BY <1>2, <1>3, <1>4, <1>5, StepKeeps


LEMMA BeginInstallKeeps ==
  ASSUME Inv, NEW p \in Calls, BeginInstall(p)
  PROVE  Inv'
<1>0. TypeOK /\ Own(p) /\ WhileAlone(p)
  BY DEF Inv
<1>1. disk' = disk
  BY DEF BeginInstall, At, Goto, Ends, mine, ends, bounds, disk
<1>2. TypeOK'
  BY <1>0, Phrases, GotoIs, ScannedIs, TypedIs DEF Typed, BeginInstall, mine, ends, bounds, disk
<1>3. ASSUME NEW q \in Calls \ {p} PROVE MineKept(q) /\ RootKept(q)
  BY <1>0, <1>1
    DEF TypeOK, MineKept, RootKept, disk, BeginInstall, At, Goto, Ends, mine, ends, bounds
<1>4. Own(p)'
  BY <1>0, <1>1, SameDisk
    DEF TypeOK, Own, BeginInstall, At, Goto, Ends, mine, ends, bounds, disk, Quiet, Committing,
        Transacting, Rolling, Good
<1>5. WhileAlone(p)'
  BY <1>0, <1>1, SameDisk, ScannedIs
    DEF TypeOK, WhileAlone, Own, BeginInstall, At, Goto, Ends, mine, ends, bounds, disk, Quiet,
        Committing, Transacting, Rolling, Good
<1> QED BY <1>2, <1>3, <1>4, <1>5, StepKeeps


LEMMA BeginCleanupKeeps ==
  ASSUME Inv, NEW p \in Calls, BeginCleanup(p)
  PROVE  Inv'
<1>0. TypeOK /\ Own(p) /\ WhileAlone(p)
  BY DEF Inv
<1>1. disk' = disk
  BY DEF BeginCleanup, At, Goto, Ends, mine, ends, bounds, disk
<1>2. TypeOK'
  BY <1>0, Phrases, GotoIs, ScannedIs, TypedIs DEF Typed, BeginCleanup, mine, ends, bounds, disk
<1>3. ASSUME NEW q \in Calls \ {p} PROVE MineKept(q) /\ RootKept(q)
  BY <1>0, <1>1
    DEF TypeOK, MineKept, RootKept, disk, BeginCleanup, At, Goto, Ends, mine, ends, bounds
<1>4. Own(p)'
  BY <1>0, <1>1, SameDisk
    DEF TypeOK, Own, BeginCleanup, At, Goto, Ends, mine, ends, bounds, disk, Quiet, Committing,
        Transacting, Rolling, Good
<1>5. WhileAlone(p)'
  BY <1>0, <1>1, SameDisk, ScannedIs
    DEF TypeOK, WhileAlone, Own, BeginCleanup, At, Goto, Ends, mine, ends, bounds, disk, Quiet,
        Committing, Transacting, Rolling, Good
<1> QED BY <1>2, <1>3, <1>4, <1>5, StepKeeps


LEMMA FailKeeps ==
  ASSUME Inv, NEW p \in Calls, Fail(p)
  PROVE  Inv'
<1>0. TypeOK /\ Own(p) /\ WhileAlone(p)
  BY DEF Inv
<1>1. disk' = disk
  BY DEF Fail, At, Goto, Ends, mine, ends, bounds, disk
<1>2. TypeOK'
  BY <1>0, Phrases, GotoIs, ScannedIs, TypedIs DEF Typed, Fail, mine, ends, bounds, disk
<1>3. ASSUME NEW q \in Calls \ {p} PROVE MineKept(q) /\ RootKept(q)
  BY <1>0, <1>1 DEF TypeOK, MineKept, RootKept, disk, Fail, At, Goto, Ends, mine, ends, bounds
<1>4. Own(p)'
  BY <1>0, <1>1, SameDisk
    DEF TypeOK, Own, Fail, At, Goto, Ends, mine, ends, bounds, disk, Quiet, Committing,
        Transacting, Rolling, Good
<1>5. WhileAlone(p)'
  BY <1>0, <1>1, SameDisk, ScannedIs
    DEF TypeOK, WhileAlone, Own, Fail, At, Goto, Ends, mine, ends, bounds, disk, Quiet,
        Committing, Transacting, Rolling, Good
<1> QED BY <1>2, <1>3, <1>4, <1>5, StepKeeps


LEMMA BeginRemoveNewKeeps ==
  ASSUME Inv, NEW p \in Calls, BeginRemoveNew(p)
  PROVE  Inv'
<1>0. TypeOK /\ Own(p) /\ WhileAlone(p)
  BY DEF Inv
<1>1. disk' = disk
  BY DEF BeginRemoveNew, At, Goto, Ends, mine, ends, bounds, disk
<1>2. TypeOK'
  BY <1>0, Phrases, GotoIs, ScannedIs, TypedIs DEF Typed, BeginRemoveNew, mine, ends, bounds, disk
<1>3. ASSUME NEW q \in Calls \ {p} PROVE MineKept(q) /\ RootKept(q)
  BY <1>0, <1>1
    DEF TypeOK, MineKept, RootKept, disk, BeginRemoveNew, At, Goto, Ends, mine, ends, bounds
<1>4. Own(p)'
  BY <1>0, <1>1, SameDisk
    DEF TypeOK, Own, BeginRemoveNew, At, Goto, Ends, mine, ends, bounds, disk, Quiet,
        Committing, Transacting, Rolling, Good
<1>5. WhileAlone(p)'
  BY <1>0, <1>1, SameDisk, ScannedIs
    DEF TypeOK, WhileAlone, Own, BeginRemoveNew, At, Goto, Ends, mine, ends, bounds, disk,
        Quiet, Committing, Transacting, Rolling, Good
<1> QED BY <1>2, <1>3, <1>4, <1>5, StepKeeps


LEMMA InventoryKeeps ==
  ASSUME Inv, NEW p \in Calls, Inventory(p)
  PROVE  Inv'
<1>0. TypeOK /\ Own(p) /\ WhileAlone(p)
  BY DEF Inv
<1>1. disk' = disk
  BY DEF Inventory, At, Goto, Ends, mine, ends, bounds, disk, RejectAs
<1>2. TypeOK'
  <2>1. pc' \in [Calls -> Phases] /\ todo' \in [Calls -> SUBSET Artifacts] /\ result' \in [Calls -> Results]
    <3>1. CASE Goto(p, "replay", Artifacts) /\ UNCHANGED ends
      BY <1>0, <3>1, Phrases, GotoIs DEF ends, TypeOK
    <3>2. CASE Ends(p, RejectAs(p))
      BY <1>0, <3>2, Phrases, EndsIs
    <3> QED BY <3>1, <3>2 DEF Inventory
  <2>2. alone' \in [Calls -> BOOLEAN]
    BY <1>0 DEF TypeOK, Inventory
  <2> QED BY <1>0, <2>1, <2>2, TypedIs DEF Typed, Inventory, mine, bounds, disk
<1>3. ASSUME NEW q \in Calls \ {p} PROVE MineKept(q) /\ RootKept(q)
  BY <1>0, <1>1
    DEF TypeOK, MineKept, RootKept, disk, Inventory, At, Goto, Ends, mine, ends, bounds, RejectAs
<1>4. Own(p)'
  BY <1>0, <1>1, SameDisk
    DEF TypeOK, Own, Inventory, At, Goto, Ends, mine, ends, bounds, disk, RejectAs, Quiet,
        Committing, Transacting, Rolling, Good
<1>5. WhileAlone(p)'
  <2>1. CASE Scanned = Declared /\ Goto(p, "replay", Artifacts) /\ UNCHANGED ends
    <3>1. pc'[p] = "replay" /\ todo'[p] = Artifacts
      BY <1>0, <2>1, Phrases, GotoIs
    <3>2. result'[p] = "none"
      BY <1>0, <2>1 DEF ends, Inventory, At, Own
    <3>3. Artifacts \ todo'[p] = {} /\ Scanned' = Declared
      BY <1>1, <2>1, <3>1, SameDisk
    <3> QED BY <3>1, <3>2, <3>3 DEF WhileAlone, Committing, Transacting, Rolling, Good, Pinned
  <2>2. CASE Ends(p, RejectAs(p))
    BY <1>0, <2>2, Phrases, EndsIs DEF WhileAlone, Committing, Transacting, Rolling, Good
  <2> QED BY <2>1, <2>2 DEF Inventory
<1> QED BY <1>2, <1>3, <1>4, <1>5, StepKeeps


LEMMA ReplayFailsKeeps ==
  ASSUME Inv, NEW p \in Calls, ReplayFails(p)
  PROVE  Inv'
<1>0. TypeOK /\ Own(p) /\ WhileAlone(p)
  BY DEF Inv
<1>1. disk' = disk
  BY DEF ReplayFails, At, Goto, Ends, mine, ends, bounds, disk, RejectAs
<1>2. TypeOK'
  BY <1>0, Phrases, EndsIs, ScannedIs, TypedIs DEF Typed, ReplayFails, mine, ends, bounds, disk
<1>3. ASSUME NEW q \in Calls \ {p} PROVE MineKept(q) /\ RootKept(q)
  BY <1>0, <1>1
    DEF TypeOK, MineKept, RootKept, disk, ReplayFails, At, Goto, Ends, mine, ends, bounds,
        RejectAs
<1>4. Own(p)'
  BY <1>0, <1>1, SameDisk
    DEF TypeOK, Own, ReplayFails, At, Goto, Ends, mine, ends, bounds, disk, RejectAs, Quiet,
        Committing, Transacting, Rolling, Good
<1>5. WhileAlone(p)'
  BY <1>0, <1>1, SameDisk, ScannedIs
    DEF TypeOK, WhileAlone, Own, ReplayFails, At, Goto, Ends, mine, ends, bounds, disk,
        RejectAs, Quiet, Committing, Transacting, Rolling, Good
<1> QED BY <1>2, <1>3, <1>4, <1>5, StepKeeps


LEMMA ReportKeeps ==
  ASSUME Inv, NEW p \in Calls, Report(p)
  PROVE  Inv'
<1>0. TypeOK /\ Own(p) /\ WhileAlone(p)
  BY DEF Inv
<1>1. disk' = disk
  BY DEF Report, At, Goto, Ends, mine, ends, bounds, disk
<1>2. TypeOK'
  BY <1>0, Phrases, EndsIs, ScannedIs, TypedIs DEF Typed, Report, mine, ends, bounds, disk
<1>3. ASSUME NEW q \in Calls \ {p} PROVE MineKept(q) /\ RootKept(q)
  BY <1>0, <1>1 DEF TypeOK, MineKept, RootKept, disk, Report, At, Goto, Ends, mine, ends, bounds
<1>4. Own(p)'
  BY <1>0, <1>1, SameDisk
    DEF TypeOK, Own, Report, At, Goto, Ends, mine, ends, bounds, disk, Quiet, Committing,
        Transacting, Rolling, Good
<1>5. WhileAlone(p)'
  BY <1>0, <1>1, SameDisk, ScannedIs
    DEF TypeOK, WhileAlone, Own, Report, At, Goto, Ends, mine, ends, bounds, disk, Quiet,
        Committing, Transacting, Rolling, Good
<1> QED BY <1>2, <1>3, <1>4, <1>5, StepKeeps


LEMMA ReplayOneKeeps ==
  ASSUME Inv, NEW p \in Calls, NEW a \in Artifacts, Replay(p, a)
  PROVE  Inv'
<1>0. TypeOK /\ Own(p) /\ WhileAlone(p)
  BY DEF Inv
<1>1. disk' = disk
  BY DEF Replay, IsNext, Did, RejectAs, At, Goto, Ends, mine, ends, bounds, disk
<1>2. TypeOK'
  <2>1. pc' \in [Calls -> Phases] /\ todo' \in [Calls -> SUBSET Artifacts] /\ result' \in [Calls -> Results]
    <3>1. CASE Did(p, a) /\ UNCHANGED ends
      BY <1>0, <3>1, DidIs DEF ends, TypeOK
    <3>2. CASE Ends(p, RejectAs(p))
      BY <1>0, <3>2, Phrases, EndsIs
    <3> QED BY <3>1, <3>2 DEF Replay
  <2> QED BY <1>0, <2>1, TypedIs DEF Typed, Replay, mine, bounds, disk
<1>3. ASSUME NEW q \in Calls \ {p} PROVE MineKept(q) /\ RootKept(q)
  BY <1>0, <1>1
    DEF TypeOK, MineKept, RootKept, disk, Replay, IsNext, Did, RejectAs, At, Goto, Ends, mine,
        ends, bounds
<1>4. Own(p)'
  BY <1>0, <1>1, SameDisk
    DEF TypeOK, Own, Replay, IsNext, Did, RejectAs, At, Goto, Ends, mine, ends, bounds, disk,
        Quiet, Committing, Transacting, Rolling, Good
<1>5. WhileAlone(p)'
  <2>1. CASE root[a] = "pinned" /\ Did(p, a) /\ UNCHANGED ends
    <3>1. Artifacts \ todo'[p] \subseteq (Artifacts \ todo[p]) \cup {a}
      BY <1>0, <2>1, DidIs
    <3>2. pc' = pc /\ result' = result /\ alone' = alone /\ pc[p] = "replay" /\ result[p] = "none"
      BY <1>0, <2>1 DEF Did, ends, Replay, At, Own
    <3>3. alone[p] => Scanned' = Declared /\ Pinned(Artifacts \ todo[p])'
      BY <1>0, <1>1, <2>1, <3>1, <3>2, SameDisk DEF WhileAlone, Pinned
    <3> QED BY <3>2, <3>3 DEF WhileAlone, Committing, Transacting, Rolling, Good
  <2>2. CASE Ends(p, RejectAs(p))
    BY <1>0, <2>2, Phrases, EndsIs DEF WhileAlone, Committing, Transacting, Rolling, Good
  <2> QED BY <2>1, <2>2 DEF Replay
<1> QED BY <1>2, <1>3, <1>4, <1>5, StepKeeps

-----------------------------------------------------------------------------
(* The steps of the transaction that change the disk.                      *)

\* What the others' files say when theirs are left alone.
LEMMA OthersFiles ==
  ASSUME NEW p \in Calls, litter' = litter,
         \A q \in Calls \ {p} : tmp'[q] = tmp[q] /\ bak'[q] = bak[q]
  PROVE  OnlyMine(p)' = OnlyMine(p)
BY DEF OnlyMine, Working


LEMMA LookKeeps ==
  ASSUME Inv, NEW p \in Calls, Look(p)
  PROVE  Inv'
<1>0. TypeOK /\ Own(p) /\ WhileAlone(p) /\ Typed
  BY TypedIs DEF Inv
<1>2. TypeOK'
  <2>1. existed' \in [Calls -> SUBSET Artifacts] /\ made' \in [Calls -> BOOLEAN]
    BY <1>0 DEF Typed, Look
  <2>2. alone' \in [Calls -> BOOLEAN]
    BY <1>0, WritesIs DEF Typed, Look
  <2>3. pc' \in [Calls -> Phases]
    BY <1>0, Phrases DEF Typed, Look
  <2> QED BY <1>0, <2>1, <2>2, <2>3, TypedIs DEF Typed, Look, ends, bounds
<1>3. ASSUME NEW q \in Calls \ {p} PROVE MineKept(q) /\ RootKept(q)
  <2>1. MineKept(q)
    BY <1>0 DEF Typed, Look, MineKept, ends
  <2>2. CASE folder
    <3>1. disk' = disk /\ alone' = alone
      BY <1>0, <2>2 DEF Look, disk, Typed
    <3> QED BY <2>1, <3>1 DEF RootKept
  <2>3. CASE ~folder
    BY <1>0, <2>1, <2>3, WritesIs DEF Look, RootKept
  <2> QED BY <2>1, <2>2, <2>3
<1>4. Own(p)'
  BY <1>0 DEF Look, At, ends, Own, Typed, Working, Quiet, Committing, Transacting, Rolling
<1>5. WhileAlone(p)'
  <2>1. alone'[p] = alone[p] /\ pc[p] = "look" /\ pc'[p] = "stage" /\ result'[p] = "none"
    BY <1>0, WritesIs DEF Look, At, Own, ends, Typed
  <2>2. alone[p] => Occupied = {} /\ existed[p] = {}
    BY <1>0, <2>1 DEF WhileAlone, Own, Committing, Transacting, Rolling
  <2>3. alone[p] => existed'[p] = {}
    BY <1>0, <2>2 DEF Look, Occupied, Typed
  <2>4. OnlyMine(p)' = OnlyMine(p) /\ Working(p)' = Working(p) /\ Occupied' = Occupied
        /\ newly' = newly /\ errors' = errors
    BY OthersFiles DEF Look, Working, Occupied
  <2> QED BY <1>0, <2>1, <2>3, <2>4 DEF WhileAlone, Committing, Transacting, Rolling, Good
<1> QED BY <1>2, <1>3, <1>4, <1>5, StepKeeps


LEMMA StageKeeps ==
  ASSUME Inv, NEW p \in Calls, NEW a \in Artifacts, Stage(p, a)
  PROVE  Inv'
<1>0. TypeOK /\ Own(p) /\ WhileAlone(p) /\ Typed
  BY TypedIs DEF Inv
<1> DEFINE rest == todo[p] \ {a}
<1>1. /\ Goto(p, "backup", existed[p]) \/ Goto(p, "look", rest)
      /\ rest \in SUBSET Artifacts /\ existed[p] \in SUBSET Artifacts
  BY <1>0 DEF Stage, Typed
<1>6. /\ pc' \in [Calls -> Phases] /\ todo' \in [Calls -> SUBSET Artifacts]
      /\ \A q \in Calls \ {p} : pc'[q] = pc[q] /\ todo'[q] = todo[q]
      /\ pc'[p] = "look" \/ (pc'[p] = "backup" /\ todo'[p] = existed[p])
  BY <1>0, <1>1, Phrases, GotoIs
<1>2. TypeOK'
  <2>1. tmp' \in [Calls -> SUBSET Artifacts]
    BY <1>0 DEF Typed, Stage
  <2> QED BY <1>0, <1>6, <2>1, WritesIs, TypedIs DEF Typed, Stage, mine, ends, bounds
<1>3. ASSUME NEW q \in Calls \ {p} PROVE MineKept(q) /\ RootKept(q)
  BY <1>0, <1>6, WritesIs DEF Typed, Stage, MineKept, RootKept, mine, ends
<1>4. Own(p)'
  BY <1>0, <1>6 DEF Stage, At, mine, ends, Own, Working, Quiet, Committing, Transacting, Rolling
<1>5. WhileAlone(p)'
  <2>1. OnlyMine(p)' = OnlyMine(p) /\ Working(p)' = Working(p) /\ Occupied' = Occupied
    BY <1>0, OthersFiles DEF Stage, Working, Occupied, Typed
  <2>2. alone'[p] = alone[p] /\ result'[p] = "none" /\ pc[p] = "stage"
    BY <1>0, WritesIs DEF Stage, At, Own, ends
  <2> QED BY <1>0, <1>6, <2>1, <2>2
        DEF Stage, mine, WhileAlone, Committing, Transacting, Rolling, Good
<1> QED BY <1>2, <1>3, <1>4, <1>5, StepKeeps


LEMMA MoveToBackupKeeps ==
  ASSUME Inv, NEW p \in Calls, NEW a \in Artifacts, MoveToBackup(p, a)
  PROVE  Inv'
<1>0. TypeOK /\ Own(p) /\ WhileAlone(p) /\ Typed
  BY TypedIs DEF Inv
<1>2. TypeOK'
  <2>1. root' \in [Artifacts -> Contents] /\ bak' \in [Calls -> [Artifacts -> Contents]]
    BY <1>0 DEF Typed, MoveToBackup, Contents
  <2> QED BY <1>0, <2>1, WritesIs, DidIs, TypedIs DEF Typed, MoveToBackup, mine, ends, bounds
<1>3. ASSUME NEW q \in Calls \ {p} PROVE MineKept(q) /\ RootKept(q)
  BY <1>0, WritesIs, DidIs DEF Typed, MoveToBackup, MineKept, RootKept, mine, ends
<1>4. Own(p)'
  BY <1>0, DidIs DEF MoveToBackup, At, mine, ends, Own, Quiet, Committing, Transacting, Rolling
<1>5. WhileAlone(p)'
  <2>1. ~alone[p]
    BY <1>0 DEF MoveToBackup, At, IsNext, WhileAlone
  <2> QED BY <1>0, <2>1, WritesIs DEF MoveToBackup, WhileAlone
<1> QED BY <1>2, <1>3, <1>4, <1>5, StepKeeps


LEMMA InstallKeeps ==
  ASSUME Inv, NEW p \in Calls, NEW a \in Artifacts, Install(p, a)
  PROVE  Inv'
<1>0. TypeOK /\ Own(p) /\ WhileAlone(p) /\ Typed
  BY TypedIs DEF Inv
<1>2. TypeOK'
  <2>1. root' \in [Artifacts -> Contents] /\ tmp' \in [Calls -> SUBSET Artifacts]
        /\ newly' \in [Calls -> SUBSET Artifacts]
    BY <1>0 DEF Typed, Install, Contents
  <2> QED BY <1>0, <2>1, WritesIs, DidIs, TypedIs DEF Typed, Install, ends, bounds
<1>3. ASSUME NEW q \in Calls \ {p} PROVE MineKept(q) /\ RootKept(q)
  BY <1>0, WritesIs, DidIs DEF Typed, Install, MineKept, RootKept, ends
<1>4. Own(p)'
  BY <1>0, DidIs
     DEF Typed, Install, At, ends, Own, Working, Quiet, Committing, Transacting, Rolling
<1>5. WhileAlone(p)'
  <2>1. OnlyMine(p)' = OnlyMine(p) /\ Working(p)' = Working(p)
    BY <1>0, OthersFiles DEF Install, Working, Typed
  <2>2. alone'[p] = alone[p] /\ result'[p] = "none" /\ pc'[p] = "install" /\ pc[p] = "install"
    BY <1>0, WritesIs, DidIs DEF Install, At, Own, ends
  <2>3. Occupied' \subseteq Occupied \cup {a}
    BY <1>0 DEF Install, Occupied, Typed
  <2>4. newly'[p] = newly[p] \cup ({a} \ existed[p]) /\ existed' = existed /\ errors' = errors
    BY <1>0 DEF Install, Typed
  <2> QED BY <1>0, <2>1, <2>2, <2>3, <2>4
        DEF WhileAlone, Committing, Transacting, Rolling, Good
<1> QED BY <1>2, <1>3, <1>4, <1>5, StepKeeps


LEMMA DropBackupKeeps ==
  ASSUME Inv, NEW p \in Calls, NEW a \in Artifacts, DropBackup(p, a)
  PROVE  Inv'
<1>0. TypeOK /\ Own(p) /\ WhileAlone(p) /\ Typed
  BY TypedIs DEF Inv
<1>2. TypeOK'
  <2>1. errors' \in [Calls -> BOOLEAN]
    BY <1>0 DEF Typed, DropBackup
  <2>2. "absent" \in Contents /\ bak \in [Calls -> [Artifacts -> Contents]]
    BY <1>0 DEF Typed, Contents
  <2>3. bak' \in [Calls -> [Artifacts -> Contents]]
    <3>1. [bak EXCEPT ![p][a] = "absent"] \in [Calls -> [Artifacts -> Contents]]
      BY <2>2
    <3> QED BY <2>2, <3>1 DEF DropBackup
  <2> QED BY <1>0, <2>1, <2>3, WritesIs, DidIs, TypedIs DEF Typed, DropBackup, ends, bounds
<1>3. ASSUME NEW q \in Calls \ {p} PROVE MineKept(q) /\ RootKept(q)
  BY <1>0, WritesIs, DidIs DEF Typed, DropBackup, MineKept, RootKept, ends
<1>4. Own(p)'
  <2>1. /\ pc[p] = "cleanup" /\ pc'[p] = "cleanup" /\ todo'[p] = todo[p] \ {a} /\ a \in todo[p]
        /\ tmp' = tmp /\ result' = result
    BY <1>0, DidIs DEF DropBackup, At, IsNext, ends
  <2>2. /\ tmp[p] = {} /\ todo[p] \subseteq Working(p)
        /\ IF errors[p] THEN Working(p) \ todo[p] # {} ELSE Working(p) \subseteq todo[p]
    BY <1>0, <2>1 DEF Own
  <2>3. \/ Working(p)' = Working(p) \ {a} /\ errors' = errors
        \/ Working(p)' = Working(p) /\ errors'[p]
    BY <1>0 DEF DropBackup, Working, Typed
  <2>4. /\ tmp'[p] = {} /\ todo'[p] \subseteq Working(p)'
        /\ IF errors'[p] THEN Working(p)' \ todo'[p] # {} ELSE Working(p)' \subseteq todo'[p]
    BY <2>1, <2>2, <2>3
  <2>5. acquiring' = acquiring /\ found' = found /\ fetched' = fetched
    BY DEF DropBackup
  <2> QED BY <1>0, <2>1, <2>4, <2>5 DEF Own, Quiet, Committing, Transacting, Rolling
<1>5. WhileAlone(p)'
  <2>1. ~alone[p]
    BY <1>0 DEF DropBackup, At, IsNext, WhileAlone
  <2> QED BY <1>0, <2>1, WritesIs DEF DropBackup, WhileAlone
<1> QED BY <1>2, <1>3, <1>4, <1>5, StepKeeps


LEMMA FinishCommitKeeps ==
  ASSUME Inv, NEW p \in Calls, FinishCommit(p)
  PROVE  Inv'
<1>0. TypeOK /\ Own(p) /\ WhileAlone(p) /\ Typed
  BY TypedIs DEF Inv
<1>1. /\ pc[p] = "cleanup" /\ todo[p] = {} /\ tmp[p] = {} /\ result[p] = "none"
      /\ IF errors[p] THEN Working(p) # {} ELSE Working(p) = {}
  BY <1>0 DEF FinishCommit, At, Own
<1>6. CASE errors[p]
  <2>1. Ends(p, "cleanup_incomplete") /\ UNCHANGED <<disk, mine, alone, bounds>>
    BY <1>6 DEF FinishCommit
  <2>2. /\ pc' \in [Calls -> Phases] /\ todo' \in [Calls -> SUBSET Artifacts]
        /\ result' \in [Calls -> Results] /\ pc'[p] = "idle" /\ result'[p] = "cleanup_incomplete"
        /\ \A q \in Calls \ {p} : pc'[q] = pc[q] /\ todo'[q] = todo[q] /\ result'[q] = result[q]
    BY <1>0, <2>1, Phrases, EndsIs
  <2>3. TypeOK'
    BY <1>0, <2>1, <2>2, TypedIs DEF Typed, disk, mine, bounds
  <2>4. ASSUME NEW q \in Calls \ {p} PROVE MineKept(q) /\ RootKept(q)
    BY <2>1, <2>2 DEF MineKept, RootKept, mine, disk
  <2>5. Own(p)' /\ WhileAlone(p)'
    BY <1>1, <2>1, <2>2, SameDisk
       DEF Own, WhileAlone, Quiet, Committing, Transacting, Rolling, Good
  <2> QED BY <2>3, <2>4, <2>5, StepKeeps
<1>7. CASE ~errors[p]
  <2>1. Goto(p, "inventory", {}) /\ UNCHANGED <<disk, ends, mine, alone, bounds>>
    BY <1>7 DEF FinishCommit
  <2>2. /\ pc' \in [Calls -> Phases] /\ todo' \in [Calls -> SUBSET Artifacts]
        /\ pc'[p] = "inventory"
        /\ \A q \in Calls \ {p} : pc'[q] = pc[q] /\ todo'[q] = todo[q]
    BY <1>0, <2>1, Phrases, GotoIs
  <2>3. TypeOK'
    BY <1>0, <2>1, <2>2, TypedIs DEF Typed, disk, ends, mine, bounds
  <2>4. ASSUME NEW q \in Calls \ {p} PROVE MineKept(q) /\ RootKept(q)
    BY <2>1, <2>2 DEF MineKept, RootKept, mine, ends, disk
  <2>5. Own(p)' /\ WhileAlone(p)'
    BY <1>1, <1>7, <2>1, <2>2, SameDisk
       DEF ends, Own, WhileAlone, Quiet, Committing, Transacting, Rolling, Good
  <2> QED BY <2>3, <2>4, <2>5, StepKeeps
<1> QED BY <1>6, <1>7


LEMMA RestoreKeeps ==
  ASSUME Inv, NEW p \in Calls, NEW a \in Artifacts, Restore(p, a)
  PROVE  Inv'
<1>0. TypeOK /\ Own(p) /\ WhileAlone(p) /\ Typed
  BY TypedIs DEF Inv
<1>2. TypeOK'
  <2>1. errors' \in [Calls -> BOOLEAN]
    BY <1>0 DEF Typed, Restore
  <2>2. /\ "absent" \in Contents /\ bak \in [Calls -> [Artifacts -> Contents]]
        /\ root \in [Artifacts -> Contents]
    BY <1>0 DEF Typed, Contents
  <2>3. bak' \in [Calls -> [Artifacts -> Contents]] /\ root' \in [Artifacts -> Contents]
    <3>1. [bak EXCEPT ![p][a] = "absent"] \in [Calls -> [Artifacts -> Contents]]
      BY <2>2
    <3>2. /\ [root EXCEPT ![a] = bak[p][a]] \in [Artifacts -> Contents]
          /\ [root EXCEPT ![a] = "absent"] \in [Artifacts -> Contents]
      BY <2>2
    <3> QED BY <2>2, <3>1, <3>2 DEF Restore
  <2> QED BY <1>0, <2>1, <2>3, WritesIs, DidIs, TypedIs DEF Typed, Restore, ends, bounds
<1>3. ASSUME NEW q \in Calls \ {p} PROVE MineKept(q) /\ RootKept(q)
  BY <1>0, WritesIs, DidIs DEF Typed, Restore, MineKept, RootKept, ends
<1>4. Own(p)'
  <2>1. /\ pc[p] = "restore" /\ pc'[p] = "restore" /\ todo'[p] = todo[p] \ {a}
        /\ result' = result
    BY <1>0, DidIs DEF Restore, At, ends
  <2>2. \/ Working(p)' = Working(p) \ {a} /\ errors' = errors
        \/ errors'[p]
    BY <1>0 DEF Restore, Working, Typed
  <2>3. errors[p] \/ Working(p) \subseteq todo[p]
    BY <1>0, <2>1 DEF Own
  <2>4. errors'[p] \/ Working(p)' \subseteq todo'[p]
    BY <2>1, <2>2, <2>3
  <2>5. acquiring' = acquiring /\ found' = found /\ fetched' = fetched
    BY DEF Restore
  <2> QED BY <1>0, <2>1, <2>4, <2>5 DEF Own, Quiet, Committing, Transacting, Rolling
<1>5. WhileAlone(p)'
  <2>1. ~alone[p]
    BY <1>0 DEF Restore, At, IsLast, WhileAlone
  <2> QED BY <1>0, <2>1, WritesIs DEF Restore, WhileAlone
<1> QED BY <1>2, <1>3, <1>4, <1>5, StepKeeps


LEMMA RemoveNewKeeps ==
  ASSUME Inv, NEW p \in Calls, NEW a \in Artifacts, RemoveNew(p, a)
  PROVE  Inv'
<1>0. TypeOK /\ Own(p) /\ WhileAlone(p) /\ Typed
  BY TypedIs DEF Inv
<1>2. TypeOK'
  <2>1. root' \in [Artifacts -> Contents] /\ errors' \in [Calls -> BOOLEAN]
    BY <1>0 DEF Typed, RemoveNew, Contents
  <2> QED BY <1>0, <2>1, WritesIs, DidIs, TypedIs DEF Typed, RemoveNew, ends, bounds
<1>3. ASSUME NEW q \in Calls \ {p} PROVE MineKept(q) /\ RootKept(q)
  BY <1>0, WritesIs, DidIs DEF Typed, RemoveNew, MineKept, RootKept, ends
<1>4. Own(p)'
  <2>1. pc[p] = "remove_new" /\ pc'[p] = "remove_new" /\ result' = result /\ Working(p)' = Working(p)
    BY <1>0, DidIs DEF RemoveNew, At, ends, Working
  <2>2. errors[p] => errors'[p]
    BY <1>0 DEF RemoveNew, Typed
  <2>3. acquiring' = acquiring /\ found' = found /\ fetched' = fetched
    BY DEF RemoveNew
  <2> QED BY <1>0, <2>1, <2>2, <2>3 DEF Own, Quiet, Committing, Transacting, Rolling
<1>5. WhileAlone(p)'
  <2>1. OnlyMine(p)' = OnlyMine(p) /\ Working(p)' = Working(p) /\ existed' = existed
    BY <1>0, OthersFiles DEF RemoveNew, Working
  <2>2. /\ alone'[p] = alone[p] /\ result'[p] = "none" /\ pc'[p] = "remove_new"
        /\ pc[p] = "remove_new" /\ todo'[p] = todo[p] \ {a}
    BY <1>0, WritesIs, DidIs DEF RemoveNew, At, Own, ends
  <2>3. errors'[p] \/ (errors' = errors /\ Occupied' \subseteq Occupied \ {a})
    BY <1>0 DEF RemoveNew, Occupied, Typed
  <2> QED BY <1>0, <2>1, <2>2, <2>3
        DEF WhileAlone, Committing, Transacting, Rolling, Good
<1> QED BY <1>2, <1>3, <1>4, <1>5, StepKeeps

LEMMA FinishRollbackKeeps ==
  ASSUME Inv, NEW p \in Calls, FinishRollback(p)
  PROVE  Inv'
<1>0. TypeOK /\ Own(p) /\ WhileAlone(p) /\ Typed
  BY TypedIs DEF Inv
<1>1. PICK stuck \in SUBSET tmp[p], failed \in BOOLEAN, removed \in BOOLEAN :
        /\ stuck # {} => failed
        /\ folder' = (folder /\ ~removed)
        /\ tmp' = [tmp EXCEPT ![p] = stuck]
        /\ Ends(p, IF errors[p] \/ failed THEN "rollback_incomplete" ELSE "failed")
  BY DEF FinishRollback
<1>6. /\ pc' \in [Calls -> Phases] /\ todo' \in [Calls -> SUBSET Artifacts]
      /\ result' \in [Calls -> Results] /\ pc'[p] = "idle"
      /\ result'[p] = IF errors[p] \/ failed THEN "rollback_incomplete" ELSE "failed"
      /\ \A q \in Calls \ {p} : pc'[q] = pc[q] /\ todo'[q] = todo[q] /\ result'[q] = result[q]
  BY <1>0, <1>1, Phrases, EndsIs
<1>7. /\ tmp' \in [Calls -> SUBSET Artifacts] /\ tmp'[p] = stuck
      /\ \A q \in Calls \ {p} : tmp'[q] = tmp[q]
      /\ \A q \in Calls : Working(q)' = Working(q)
  BY <1>0, <1>1 DEF Typed, FinishRollback, Working
<1>8. errors[p] \/ Working(p) = {}
  BY <1>0 DEF FinishRollback, At, Own
<1>2. TypeOK'
  <2>1. folder' \in BOOLEAN
    BY <1>1
  <2> QED BY <1>0, <1>6, <1>7, <2>1, WritesIs, TypedIs DEF Typed, FinishRollback, mine, bounds
<1>3. ASSUME NEW q \in Calls \ {p} PROVE MineKept(q) /\ RootKept(q)
  BY <1>0, <1>6, <1>7, WritesIs DEF FinishRollback, MineKept, RootKept, mine
<1>4. Own(p)'
  BY <1>1, <1>6, <1>7, <1>8 DEF Own, Untidy, Quiet, Committing, Transacting, Rolling
<1>5. WhileAlone(p)'
  <2> SUFFICES ASSUME alone[p], ~errors[p], ~failed
               PROVE  Occupied' = {} /\ ~Litter'
    BY <1>0, <1>6, WritesIs DEF FinishRollback, WhileAlone, Committing, Transacting, Rolling, Good
  <2>1. OnlyMine(p) /\ Working(p) = {} /\ Occupied = {}
    BY <1>0 DEF FinishRollback, At, WhileAlone, Committing, Rolling
  <2>2. ~litter'
    BY <2>1 DEF FinishRollback, OnlyMine
  <2>3. ~Litter'
    BY <1>1, <1>7, <2>1, <2>2 DEF Litter, OnlyMine
  <2> QED BY <2>1, <2>3 DEF FinishRollback, Occupied
<1> QED BY <1>2, <1>3, <1>4, <1>5, StepKeeps


LEMMA KilledKeeps ==
  ASSUME Inv, NEW p \in Calls, Killed(p)
  PROVE  Inv'
<1>0. TypeOK /\ Own(p) /\ WhileAlone(p) /\ Typed
  BY TypedIs DEF Inv
<1>1. PICK left \in SUBSET tmp[p] : tmp' = [tmp EXCEPT ![p] = left]
  BY DEF Killed
<1>6. /\ pc' \in [Calls -> Phases] /\ todo' \in [Calls -> SUBSET Artifacts]
      /\ result' \in [Calls -> Results] /\ pc'[p] = "idle" /\ result'[p] = "killed"
      /\ \A q \in Calls \ {p} : pc'[q] = pc[q] /\ todo'[q] = todo[q] /\ result'[q] = result[q]
  BY <1>0, Phrases, EndsIs DEF Killed
<1>7. tmp' \in [Calls -> SUBSET Artifacts] /\ \A q \in Calls \ {p} : tmp'[q] = tmp[q]
  BY <1>0, <1>1 DEF Typed
<1>8. NoMemory(p)
  BY DEF Killed
<1>2. TypeOK'
  BY <1>0, <1>6, <1>7, <1>8, NoMemoryIs, WritesIs, TypedIs DEF Typed, Killed, bounds
<1>3. ASSUME NEW q \in Calls \ {p} PROVE MineKept(q) /\ RootKept(q)
  BY <1>0, <1>6, <1>7, <1>8, NoMemoryIs, WritesIs DEF Killed, MineKept, RootKept
<1>4. Own(p)'
  BY <1>6 DEF Own, Untidy, Quiet, Committing, Transacting, Rolling
<1>5. WhileAlone(p)'
  BY <1>6 DEF WhileAlone, Committing, Transacting, Rolling, Good
<1> QED BY <1>2, <1>3, <1>4, <1>5, StepKeeps

-----------------------------------------------------------------------------
(* The others, and the start.                                              *)

LEMMA DisturbKeeps ==
  ASSUME Inv, Disturb
  PROVE  Inv'
<1>0. Typed /\ \A p \in Calls : Own(p)
  BY TypedIs DEF Inv
<1>1. Typed'
  <2>1. root' \in [Artifacts -> Contents] /\ litter' \in BOOLEAN
    BY <1>0 DEF Typed, Disturb, Contents
  <2>2. disturbs' \in 0..MaxDisturb
    BY <1>0, BoundsAssumption DEF Typed, Disturb
  <2>3. alone' \in [Calls -> BOOLEAN]
    BY DEF Disturb
  <2> QED BY <1>0, <2>1, <2>2, <2>3 DEF Typed, Disturb, mine
<1>2. ASSUME NEW p \in Calls PROVE Own(p)' /\ WhileAlone(p)'
  <2>1. ~alone'[p] /\ Working(p)' = Working(p)
    BY DEF Disturb, Working
  <2> QED BY <1>0, <2>1 DEF Disturb, mine, Own, WhileAlone
<1> QED BY <1>1, <1>2, TypedIs DEF Inv

LEMMA DiscardKeeps ==
  ASSUME Inv, Discard
  PROVE  Inv'
<1>0. Typed /\ \A p \in Calls : Own(p)
  BY TypedIs DEF Inv
<1>1. Typed'
  <2>1. root' \in [Artifacts -> Contents] /\ litter' \in BOOLEAN /\ folder' \in BOOLEAN
    BY DEF Discard, Contents
  <2>2. alone' \in [Calls -> BOOLEAN] /\ result' \in [Calls -> Results]
    BY Phrases DEF Discard
  <2>3. tmp' \in [Calls -> SUBSET Artifacts] /\ bak' \in [Calls -> [Artifacts -> Contents]]
    BY DEF Discard, Contents
  <2> QED BY <1>0, <2>1, <2>2, <2>3 DEF Typed, Discard, mine, bounds
<1>2. ASSUME NEW p \in Calls PROVE Own(p)' /\ WhileAlone(p)'
  <2>1. ~alone'[p] /\ Working(p)' = {} /\ tmp'[p] = {} /\ result'[p] = "none" /\ pc'[p] = "idle"
    BY DEF Discard, Working
  <2> QED BY <1>0, <2>1
         DEF Discard, mine, Own, WhileAlone, Quiet, Committing, Transacting, Rolling
<1> QED BY <1>1, <1>2, TypedIs DEF Inv

LEMMA InitHolds == Init => Inv
<1> SUFFICES ASSUME Init
             PROVE  Inv
  OBVIOUS
<1>1. Typed
  <2>1. NothingThere \in [names : SUBSET Artifacts, folder : BOOLEAN, litter : BOOLEAN]
    BY DEF NothingThere
  <2>2. calls \in 0..MaxCalls /\ disturbs \in 0..MaxDisturb
    BY BoundsAssumption DEF Init
  <2> QED BY <2>1, <2>2, Phrases DEF Init, Typed, Contents
<1>2. ASSUME NEW p \in Calls PROVE Own(p) /\ WhileAlone(p)
  <2>1. Working(p) = {}
    BY DEF Init, Working
  <2> QED BY <2>1 DEF Init, Own, WhileAlone, Quiet, Committing, Transacting, Rolling, Good
<1> QED BY <1>1, <1>2, TypedIs DEF Inv

LEMMA StepHolds == Inv /\ [Next]_vars => Inv'
<1> SUFFICES ASSUME Inv, [Next]_vars
             PROVE  Inv'
  OBVIOUS
<1>1. CASE Disturb \/ Discard
  BY <1>1, DisturbKeeps, DiscardKeeps
<1>2. ASSUME NEW p \in Calls, Invoke(p) \/ Killed(p) PROVE Inv'
  BY <1>2, InvokeKeeps, KilledKeeps
<1>3. ASSUME NEW p \in Calls, Step(p) PROVE Inv'
  <2>1. CASE Scan(p) \/ Fetch(p) \/ FetchFails(p) \/ BeginCommit(p)
    BY <2>1, ScanKeeps, FetchKeeps, FetchFailsKeeps, BeginCommitKeeps
  <2>2. CASE Look(p) \/ BeginInstall(p) \/ BeginCleanup(p) \/ FinishCommit(p) \/ Fail(p)
    BY <2>2, LookKeeps, BeginInstallKeeps, BeginCleanupKeeps, FinishCommitKeeps, FailKeeps
  <2>3. CASE BeginRemoveNew(p) \/ FinishRollback(p) \/ Inventory(p) \/ ReplayFails(p) \/ Report(p)
    BY <2>3, BeginRemoveNewKeeps, FinishRollbackKeeps, InventoryKeeps, ReplayFailsKeeps,
      ReportKeeps
  <2>4. ASSUME NEW a \in Artifacts,
               \/ Stage(p, a) \/ MoveToBackup(p, a) \/ Install(p, a) \/ DropBackup(p, a)
               \/ Restore(p, a) \/ RemoveNew(p, a) \/ Replay(p, a)
        PROVE  Inv'
    BY <2>4, StageKeeps, MoveToBackupKeeps, InstallKeeps, DropBackupKeeps, RestoreKeeps,
       RemoveNewKeeps, ReplayOneKeeps
  <2> QED BY <1>3, <2>1, <2>2, <2>3, <2>4 DEF Step
<1>4. CASE UNCHANGED vars
  <2>1. TypeOK'
    BY <1>4, TypedIs DEF vars, disk, mine, ends, bounds, Typed, Inv
  <2>2. ASSUME NEW p \in Calls PROVE MineKept(p) /\ RootKept(p)
    BY <1>4 DEF vars, mine, ends, disk, MineKept, RootKept
  <2>3. ASSUME NEW p \in Calls PROVE Own(p)' /\ WhileAlone(p)'
    BY <2>2, OtherKeeps
  <2> QED BY <2>1, <2>3 DEF Inv
<1> QED BY <1>1, <1>2, <1>3, <1>4 DEF Next

LEMMA InvHolds == Spec => []Inv
<1> HIDE DEF Inv, Init, Next, vars
<1> QED BY InitHolds, StepHolds, PTL DEF Spec

-----------------------------------------------------------------------------
(* The theorems.                                                           *)

\* Every variable of the calls and of the root keeps its type, for any number of processes,
\* sources and artifacts (acquire_corpus, verify_corpus_offline).
THEOREM TypeCorrect == Spec => []TypeOK
<1>1. Inv => TypeOK
  BY DEF Inv
<1> HIDE DEF Inv, TypeOK
<1> QED BY <1>1, InvHolds, PTL

\* A call that reports success does so over the whole corpus, with its pinned bytes, for
\* as long as nobody else writes (verify_corpus_offline, at the end of both functions).
THEOREM SuccessExact == Spec => []SuccessIsExact
<1>1. Inv => SuccessIsExact
  BY DEF Inv, WhileAlone, SuccessIsExact, Pinned
<1> HIDE DEF Inv, SuccessIsExact
<1> QED BY <1>1, InvHolds, PTL

\* A failed acquisition that nobody else disturbed leaves nothing, unless it says that it
\* could not (the rollback of write_transaction).
THEOREM FailureClean == Spec => []FailureLeavesNothing
<1>1. Inv => FailureLeavesNothing
  BY DEF Inv, WhileAlone, FailureLeavesNothing
<1> HIDE DEF Inv, FailureLeavesNothing
<1> QED BY <1>1, InvHolds, PTL

\* A call that has ended left a file of its own only if what it reports says so, or if it
\* was killed (the end of write_transaction), whatever others do to its outputs meanwhile:
\* a rollback that reports no error put every backup back.
THEOREM StraysReported == Spec => []NoUnreportedStrays
<1>1. Inv => NoUnreportedStrays
  BY DEF Inv, Own, NoUnreportedStrays, Untidy, At
<1> HIDE DEF Inv, NoUnreportedStrays
<1> QED BY <1>1, InvHolds, PTL

\* A call changes the disk only after it found nothing in the root and fetched every
\* source (acquire_corpus): nothing that was there is completed or written over.
THEOREM OnlyFresh == Spec => OnlyFreshRootsWritten
<1> DEFINE FreshOnly(p) == acquiring[p] /\ found[p] = NothingThere /\ fetched[p] = Sources
<1>1. ASSUME Inv, Next, NEW p \in Calls, Moves(p), disk' # disk
      PROVE  FreshOnly(p)
  <2>0. Typed /\ Own(p)
    BY <1>1, TypedIs DEF Inv
  <2>1. PICK q \in Calls : Invoke(q) \/ Step(q) \/ Killed(q)
    <3>1. ~Disturb /\ ~Discard
      BY <1>1 DEF Disturb, Discard, Moves
    <3> QED BY <1>1, <3>1 DEF Next
  <2>2. q = p
    <3> SUFFICES ASSUME q # p PROVE FALSE
      OBVIOUS
    <3>1. pc'[p] # pc[p] \/ todo'[p] # todo[p]
      BY <1>1 DEF Moves
    <3> QED BY <2>0, <2>1, <3>1
      DEF Typed, Invoke, Step, Killed, Scan, Fetch, FetchFails, BeginCommit, Look, BeginInstall,
              BeginCleanup, FinishCommit, Fail, BeginRemoveNew, FinishRollback, Inventory,
              ReplayFails, Report, Stage, MoveToBackup, Install, DropBackup, Restore, RemoveNew, Replay,
              Goto, Ends, Did
  <2>3. CASE Killed(p)
    <3>1. pc[p] \in Quiet => disk' = disk
      <4> SUFFICES ASSUME pc[p] \in Quiet PROVE disk' = disk
        OBVIOUS
      <4>1. tmp[p] = {}
        BY <1>1, <2>0 DEF Own, Moves, At
      <4>2. tmp' = tmp
        <5>1. PICK left \in SUBSET tmp[p] : tmp' = [tmp EXCEPT ![p] = left]
          BY <2>3 DEF Killed
        <5>2. left = tmp[p]
          BY <4>1, <5>1
        <5> QED BY <2>0, <5>1, <5>2 DEF Typed
      <4> QED BY <2>3, <4>2 DEF Killed, disk
    <3>2. pc[p] \in Committing
      BY <1>1, <2>0, <3>1 DEF Typed, Phases, Quiet, Committing
    <3> QED BY <2>0, <3>2 DEF Own
  <2>4. CASE Invoke(p) \/ Step(p)
    <3>1. pc[p] \in Committing
      BY <1>1, <2>4
         DEF Moves, Invoke, Step, Scan, Fetch, FetchFails, BeginCommit, Look, BeginInstall,
             BeginCleanup, FinishCommit, Fail, BeginRemoveNew, FinishRollback, Inventory,
             ReplayFails, Report, Stage, MoveToBackup, Install, DropBackup, Restore, RemoveNew, Replay,
             At, disk, Committing, Transacting, Rolling
    <3> QED BY <2>0, <3>1 DEF Own
  <2> QED BY <2>1, <2>2, <2>3, <2>4
<1>2. Inv /\ [Next]_vars =>
        [\A p \in Calls : Moves(p) /\ disk' # disk =>
           acquiring[p] /\ found[p] = NothingThere /\ fetched[p] = Sources]_vars
  BY <1>1
<1> HIDE DEF Inv, Init, Next, vars, Moves
<1> QED BY <1>2, InvHolds, PTL DEF Spec, OnlyFreshRootsWritten
=============================================================================
