----------------------------- MODULE EvidenceRoot -----------------------------
(***************************************************************************)
(* verify_source_recipe_evidence of corpus.evidence_inventory, for a root  *)
(* whose headers sanitize_header_tree wrote.  The whole root is verified   *)
(* against an inventory whose digest the caller holds; then the documents  *)
(* are loaded one by one, each after another look at the root, and         *)
(* compared with one another; then the whole root is verified again and    *)
(* must be in the state it was in.                                         *)
(*                                                                         *)
(* A file is its content, as the inventory has it or not, and its mark:    *)
(* device, inode, size, time and links, which change with every write.     *)
(* Others may change the root at any moment.  They may also do so without  *)
(* a trace: put a file back in its place, or give a file or a directory    *)
(* its former time.                                                        *)
(***************************************************************************)
EXTENDS HeaderSanitization, FiniteSets

CONSTANTS
  Touchable,     \* bound: the files that others change
  MaxChanges,    \* bound: changes by others
  MaxLines       \* bound: lines of a staged header file

\* The files of the root that the inventory lists, in its order.
ContentRefs ==
  <<"readme", "headers", "provenance", "curator_licenses", "curator_report",
    "curator_inventory", "header_report", "license_inventory", "source_manifest">>
Contents == ToSet(ContentRefs)
Refs == Contents \cup {"inventory", "sidecar"}
\* The directory of each file; the root itself is no entry of its own state.
Directories == {"curator", "curation_headers"}
DirectoryOf(r) ==
  CASE r \in {"curator_licenses", "curator_report", "curator_inventory"} -> "curator"
    [] r = "headers" -> "curation_headers"
    [] OTHER -> "root"
Places == Directories \cup {"root"}

ASSUME EvidenceAssumption ==
  Touchable \subseteq Refs /\ MaxChanges \in Nat /\ MaxLines \in Nat

-----------------------------------------------------------------------------
(* The call, as the sequence of what it does.                              *)

Act(what, r, compares) == [do |-> what, ref |-> r, compares |-> compares]
Load(r, compares) == <<Act("look", r, {}), Act("load", r, compares)>>
\* Read again and compared with a digest that is part of the program.
Pin(r, compares) == <<Act("look", r, {}), Act("pin", r, compares)>>

VerifyRoot ==
  <<Act("scan", "inventory", {}), Act("inventory", "inventory", {}),
    Act("sidecar", "sidecar", {}), Act("sets", "inventory", {{"inventory"}})>>
  \o [i \in DOMAIN ContentRefs |-> Act("content", ContentRefs[i], {})]
  \o <<Act("rescan", "inventory", {})>>

\* The manifest is loaded from its own path, against the caller's digest.
Manifest ==
  Load("source_manifest", {}) \o <<Act("manifest", "source_manifest", {{"source_manifest"}})>>

\* _validate_curator_inventory.
CuratorInventory ==
  Load("curator_inventory", {{"curator_inventory"}, {"curator_inventory", "source_manifest"}})

\* _validate_header_sanitization: the report, then every header file it tells of.
HeaderReport ==
  Load("header_report", {}) \o Pin("header_report", {{"header_report"}})
HeaderRecords == Pin("headers", {{"headers"}, {"header_report", "headers"}})

\* _validate_curation_provenance: what was copied, the rules by which, the sources one
\* by one, and what is not in the repository.
SourceCuration ==
  Load("provenance", {})
    \o Pin("curator_inventory", {}) \o Pin("curator_report", {}) \o Pin("curator_licenses", {})
MaterializationRules ==
  <<Act("compare", "provenance", {{"provenance"}, {"provenance", "source_manifest"}})>>
SourceMappings ==
  <<Act("compare", "provenance",
        {{"provenance", "source_manifest"}, {"provenance", "curator_inventory"}})>>
RepositoryBoundary ==
  <<Act("compare", "provenance", {{"provenance"}})>> \o Pin("readme", {})

\* _validate_license_inventory: entries against the manifest, evidence against the
\* curator's.
LicenseEntries ==
  Load("license_inventory", {{"license_inventory"}})
    \o Pin("curator_licenses",
           {{"license_inventory", "curator_licenses"}, {"license_inventory", "source_manifest"}})
LicenseEvidence ==
  <<Act("compare", "license_inventory",
        {{"license_inventory"}, {"license_inventory", "curator_inventory"}})>>

\* The documents, between two verifications of the whole root.
Documents ==
  Manifest \o CuratorInventory \o HeaderReport \o HeaderRecords
    \o SourceCuration \o MaterializationRules \o SourceMappings \o RepositoryBoundary
    \o LicenseEntries \o LicenseEvidence
Call == VerifyRoot \o Documents \o VerifyRoot

\* A document by itself, or two of them, that something in the call is about.
Comparisons == UNION {Call[i].compares : i \in DOMAIN Call}
\* Documents with a digest of their own, checked on the bytes that are used.
Pinned == {"source_manifest", "headers", "curator_report", "curator_licenses", "readme"}

VARIABLES
  staged,      \* the staged header file
  entry,       \* [good, mark] of each file; a file that is not there is Missing
  times,       \* the mark of each directory
  extras,      \* directories with an entry that is not listed
  aside,       \* what was moved out of the place of a file
  flaw,        \* the comparison the documents do not stand, {} if there is none
  at,          \* the next act of the call; 0 before it
  seen,        \* the root at the last scan
  first,       \* the root as the first verification found it
  used,        \* documents loaded with another content than the inventory has
  result,
  changes,
  covert,      \* history: files others changed, in a way, without a trace
  changed      \* history: something was other than at the first scan

rootVars == <<entry, times, extras>>
othersVars == <<aside, changes, covert, changed>>
rootCallVars == <<at, seen, first, used, result>>
allVars == <<staged, rootVars, othersVars, flaw, rootCallVars>>

Entries == [good : BOOLEAN, mark : 0..MaxChanges]
Missing == [good |-> FALSE, mark |-> MaxChanges + 1]
Nothing == [good |-> FALSE, mark |-> MaxChanges + 2]
Raws == BoundedSeq(Lines, MaxLines)
\* The staged file whose digest is frozen, as that of its sanitized form is.
FrozenHeader == <<"status", "cookie", "folded", "etag", "blank", "status", "length">>

EvidenceTypeOK ==
  /\ staged \in Raws \cup {FrozenHeader}
  /\ entry \in [Refs -> Entries \cup {Missing}]
  /\ times \in [Directories -> 0..MaxChanges] /\ extras \subseteq Places
  /\ aside \in [Refs -> Entries \cup {Missing, Nothing}]
  /\ flaw \in Comparisons \cup {{}}
  /\ at \in 0..Len(Call) + 1
  /\ used \subseteq Contents /\ covert \subseteq Refs \cup {"extra"}
  /\ result \in {"none", "refused", "verified"}
  /\ changes \in 0..MaxChanges /\ changed \in BOOLEAN

\* _scan_root and _root_state_sha256: the marks, not the contents, of every entry.
Scan == [marks |-> [r \in Refs |-> entry[r].mark], times |-> times, extras |-> extras]
Exact(root) == root.extras = {} /\ \A r \in Refs : root.marks[r] # Missing.mark

\* The root as it was frozen; the headers and their report are not written yet.
Frozen == [r \in Refs |-> IF r \in {"headers", "header_report"} THEN Missing
                          ELSE [good |-> TRUE, mark |-> 0]]

\* Or one thing is wrong with it: a file is altered, lost or added, the documents do
\* not fit, or another header file is staged.
Init ==
  /\ staged \in Raws \cup {FrozenHeader}
  /\ entry \in {Frozen} \cup {[Frozen EXCEPT ![r] = e] :
                  r \in Refs, e \in {[good |-> FALSE, mark |-> 0], Missing}}
  /\ extras \in {{}} \cup {{p} : p \in Places}
  /\ flaw \in Comparisons \cup {{}}
  /\ \/ entry = Frozen /\ extras = {} /\ (flaw = {} \/ staged = FrozenHeader)
     \/ entry = Frozen /\ flaw = {} /\ staged = FrozenHeader
     \/ extras = {} /\ flaw = {} /\ staged = FrozenHeader
  /\ times = [d \in Directories |-> 0]
  /\ aside = [r \in Refs |-> Nothing]
  /\ at = 0 /\ seen = Scan /\ first = Scan /\ used = {} /\ result = "none"
  /\ changes = 0 /\ covert = {} /\ changed = FALSE

-----------------------------------------------------------------------------
(* The sanitizer.                                                          *)

\* sanitize_header_tree: only the staged files whose digests are frozen get past
\* it; the header files and the report are written in one transaction.
SanitizeTree ==
  /\ at = 0
  /\ \/ /\ staged = FrozenHeader
        /\ entry' = [entry EXCEPT !["headers"] = [good |-> TRUE, mark |-> 0],
                                  !["header_report"] = [good |-> TRUE, mark |-> 0]]
        /\ at' = 1 /\ UNCHANGED result
     \/ /\ staged # FrozenHeader
        /\ result' = "refused" /\ at' = Len(Call) + 1 /\ UNCHANGED entry
  /\ UNCHANGED <<staged, times, extras, othersVars, flaw, seen, first, used>>

-----------------------------------------------------------------------------
(* The verification.                                                       *)

Now == Call[at]
Doing(what) == at \in DOMAIN Call /\ Now.do = what
Goes == at' = at + 1 /\ UNCHANGED result
Refuses == at' = Len(Call) + 1 /\ result' = "refused"
GoesIf(holds) == IF holds THEN Goes ELSE Refuses
InFirst == at <= Len(VerifyRoot)
Unchanged == UNCHANGED <<staged, rootVars, othersVars, flaw>>

\* _read_regular_bounded: the file is the one that was scanned.
SameAsScanned(r) == seen.marks[r] = entry[r].mark /\ entry[r] # Missing

\* verify_evidence_root, before: an entry of another kind is not told apart from one
\* that is not listed.
TakeScan ==
  /\ Doing("scan")
  /\ seen' = Scan
  /\ first' = IF InFirst THEN Scan ELSE first
  /\ GoesIf(\A r \in {"inventory", "sidecar"} : entry[r] # Missing)
  /\ Unchanged /\ UNCHANGED used

\* The digest of the inventory is the caller's, and that in the sidecar.
ReadInventory ==
  /\ Doing("inventory") \/ Doing("sidecar")
  /\ GoesIf(SameAsScanned(Now.ref) /\ entry[Now.ref].good)
  /\ Unchanged /\ UNCHANGED <<seen, first, used>>

\* Faulty variant: the inventory and its sidecar, which are not listed, are strays.
CompareSetsWithStrays ==
  /\ Doing("sets")
  /\ GoesIf(flaw \notin Now.compares /\ Exact(seen) /\ seen.marks["sidecar"] = Missing.mark)
  /\ Unchanged /\ UNCHANGED <<seen, first, used>>

\* _parse_inventory; the scanned files and directories are those that are listed.
CompareSets ==
  /\ Doing("sets")
  /\ GoesIf(flaw \notin Now.compares /\ Exact(seen))
  /\ Unchanged /\ UNCHANGED <<seen, first, used>>

ReadContent ==
  /\ Doing("content")
  /\ GoesIf(SameAsScanned(Now.ref) /\ entry[Now.ref].good)
  /\ Unchanged /\ UNCHANGED <<seen, first, used>>

\* Faulty variant: the second verification need not find what the first one found.
RescanAgain ==
  /\ Doing("rescan")
  /\ IF Scan # seen THEN Refuses
     ELSE IF at = Len(Call) THEN at' = at + 1 /\ result' = "verified" ELSE Goes
  /\ Unchanged /\ UNCHANGED <<seen, first, used>>

\* after must be before; and the second result the first.
Rescan ==
  /\ Doing("rescan")
  /\ IF Scan # seen THEN Refuses
     ELSE IF at = Len(Call)
     THEN IF Scan = first THEN at' = at + 1 /\ result' = "verified" ELSE Refuses
     ELSE Goes
  /\ Unchanged /\ UNCHANGED <<seen, first, used>>

\* _read_inventory_content: another scan, which is compared with nothing.
Look ==
  /\ Doing("look")
  /\ seen' = Scan
  /\ GoesIf(entry[Now.ref] # Missing)
  /\ Unchanged /\ UNCHANGED <<first, used>>

\* What was not frozen may, or may not, stand the comparisons.
Compare(compares) ==
  \/ flaw \notin compares /\ Goes
  \/ (flaw \in compares \/ used' \cap ((UNION compares) \cup {Now.ref}) # {}) /\ Refuses

\* A document is loaded, and its content believed.
LoadDocument ==
  /\ Doing("load")
  /\ used' = IF entry[Now.ref].good THEN used ELSE used \cup {Now.ref}
  /\ IF SameAsScanned(Now.ref) THEN Compare(Now.compares) ELSE Refuses
  /\ Unchanged /\ UNCHANGED <<seen, first>>

\* load_source_manifest: by its own path, against the caller's digest.
LoadManifest ==
  /\ Doing("manifest")
  /\ used' = used \ {"source_manifest"}
  /\ IF entry["source_manifest"].good THEN Compare(Now.compares) ELSE Refuses
  /\ Unchanged /\ UNCHANGED <<seen, first>>

\* Faulty variant: the copied artifacts are taken as they are.
CheckDigestNot ==
  /\ Doing("pin")
  /\ used' = IF entry[Now.ref].good THEN used ELSE used \cup {Now.ref}
  /\ IF SameAsScanned(Now.ref) THEN Compare(Now.compares) ELSE Refuses
  /\ Unchanged /\ UNCHANGED <<seen, first>>

CheckDigest ==
  /\ Doing("pin")
  /\ UNCHANGED used
  /\ IF SameAsScanned(Now.ref) /\ entry[Now.ref].good THEN Compare(Now.compares) ELSE Refuses
  /\ Unchanged /\ UNCHANGED <<seen, first>>

CompareDocuments ==
  /\ Doing("compare")
  /\ UNCHANGED used
  /\ Compare(Now.compares)
  /\ Unchanged /\ UNCHANGED <<seen, first>>

Verify ==
  TakeScan \/ ReadInventory \/ CompareSets \/ ReadContent \/ Rescan
    \/ Look \/ LoadDocument \/ LoadManifest \/ CheckDigest
    \/ CompareDocuments

-----------------------------------------------------------------------------
(* The others.                                                             *)

Fresh == changes + 1
Changes(trackless) ==
  /\ at \in DOMAIN Call /\ flaw = {} /\ changes < MaxChanges
  /\ changes' = Fresh
  /\ covert' = covert \cup trackless
  /\ changed' = (changed \/ at > 1)
  /\ UNCHANGED <<staged, flaw, rootCallVars>>

\* Entries of directory p come and go, and its time tells, unless it is set to a
\* former one: then whatever happened in it is hidden.  The root's own time is in no scan.
Stirs(p, time) == times' = [d \in Directories |-> IF d = p THEN time ELSE times[d]]
Hidden(p, time, what) ==
  IF p = "root" THEN {what}
  ELSE IF time = Fresh THEN {} ELSE {r \in Refs : DirectoryOf(r) = p} \cup {"extra"}

\* In place, with a time of its own or, again, a former one.
Write(r) ==
  /\ entry[r] # Missing
  /\ \E good \in BOOLEAN, mark \in 0..Fresh :
       /\ Changes(IF mark = Fresh THEN {} ELSE {r})
       /\ entry' = [entry EXCEPT ![r] = [good |-> good, mark |-> mark]]
  /\ UNCHANGED <<times, extras, aside>>

\* Another file, or none, takes its place.
TakeAway(r) ==
  /\ aside[r] = Nothing
  /\ Changes({})
  /\ aside' = [aside EXCEPT ![r] = entry[r]]
  /\ \E e \in {Missing, [good |-> FALSE, mark |-> Fresh]} : entry' = [entry EXCEPT ![r] = e]
  /\ Stirs(DirectoryOf(r), Fresh)
  /\ UNCHANGED extras

PutBack(r) ==
  /\ aside[r] # Nothing
  /\ \E time \in 0..Fresh :
       /\ Changes(Hidden(DirectoryOf(r), time, r))
       /\ Stirs(DirectoryOf(r), time)
  /\ entry' = [entry EXCEPT ![r] = aside[r]]
  /\ aside' = [aside EXCEPT ![r] = Nothing]
  /\ UNCHANGED extras

AddEntry(p) ==
  /\ p \notin extras
  /\ Changes({})
  /\ extras' = extras \cup {p} /\ Stirs(p, Fresh)
  /\ UNCHANGED <<entry, aside>>
RemoveEntry(p) ==
  /\ p \in extras
  /\ \E time \in 0..Fresh : Changes(Hidden(p, time, "extra")) /\ Stirs(p, time)
  /\ extras' = extras \ {p}
  /\ UNCHANGED <<entry, aside>>

Others ==
  \/ \E r \in Touchable : Write(r) \/ TakeAway(r) \/ PutBack(r)
  \/ \E p \in Places : AddEntry(p) \/ RemoveEntry(p)

Next == SanitizeTree \/ Verify \/ Others
Spec == Init /\ [][Next]_allVars

-----------------------------------------------------------------------------
(* Correctness.                                                            *)

Verified == result = "verified"

\* Every document a verified call believed was, when it was read, as the inventory
\* has it, and stands its comparisons.  Others can bring in another one only for a
\* document without a digest of its own or one that is digested in a second reading,
\* and only without a trace.
UsedIsAnchored ==
  Verified => used \subseteq covert \ Pinned /\ flaw = {} /\ staged = FrozenHeader

\* If the call verified the root, every file is as the inventory has it, and nothing
\* was changed since the first scan, for as long as it was; but for what left no trace.
HeldStill ==
  Verified =>
    /\ \A r \in Refs \ covert : entry[r].good
    /\ covert = {} => ~changed /\ extras = {}

\* A root that is as it was frozen, and is left alone, is verified.
RefusedWithCause ==
  result = "refused" /\ changes = 0 =>
    staged # FrozenHeader \/ flaw # {} \/ extras # {} \/ \E r \in Refs : ~entry[r].good

\* Whatever is sensitive leaves no trace in a sanitized header: it could as well not
\* have been there, with all its continuation lines, at any place; and there is
\* nothing left for a second run to drop.
SensitiveLeavesNoTrace ==
  LET left == Sanitize(staged)
      With(i) == SubSeq(staged, 1, i) \o <<"cookie", "folded">>
                   \o SubSeq(staged, i + 1, Len(staged))
  IN  at = 0 =>
        /\ \A i \in 0..Len(staged) : Sanitize(With(i)) = left
        /\ left # Refused => Sanitize(left) = left /\ Names(left) = Retained(staged)
=============================================================================
