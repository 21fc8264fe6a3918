----------------------------- MODULE PackageBuild -----------------------------
(***************************************************************************)
(* build_authoritative_package of audit.package_build, called by several   *)
(* builders for one run ID and one checkout.  A builder checks that the    *)
(* checkout is the clean exact commit, fills a staging directory of its    *)
(* own stage by stage, checks the checkout again, writes checksums and     *)
(* last the manifest, and renames the directory to its final name.  What   *)
(* fails is marked BUILD-FAILED and renamed to the run's failure name.     *)
(*                                                                         *)
(* The stages run commands of the checkout: here a stage passes or not,    *)
(* and sees the tree as it is then.  Other programs may edit the tree and  *)
(* restore it; builders may be interrupted, or killed, at any step.        *)
(***************************************************************************)
EXTENDS Integers, Sequences, FiniteSets

CONSTANTS
  Builders,
  Nobody,
  MaxEdits     \* bound: changes of the checkout by others

ASSUME BuilderAssumption == Nobody \notin Builders /\ MaxEdits \in Nat

\* What build_authoritative_package calls, in its order.
Stages == <<"frozen_inputs", "product_gates", "relocation", "git_products",
            "extracted_archive", "distributions", "wheel_smoke", "sdist_smoke">>
StageNames == {Stages[i] : i \in DOMAIN Stages}
Trees == {"exact", "edited"}

VARIABLES
  tree,        \* the checkout: the clean exact commit, or not
  staging,     \* each builder's staging directory
  final,       \* the builder whose package has the run's final name
  failure,     \* the builder whose attempt has the run's failure name
  package,     \* the directory at the final name
  failed,      \* the directory at the failure name
  pc,
  next,        \* the next stage of each builder
  result,      \* how each call ended
  edits,
  restored     \* history: the checkout was restored since the builder first checked it

names == <<final, failure, package, failed>>
vars == <<tree, staging, names, pc, next, result, edits, restored>>

Files == StageNames \cup {"logs", "checksums", "manifest", "build_failed"}
Empty == [files |-> {}, summed |-> {}, seen |-> {}]
Directories == [files : SUBSET Files, summed : SUBSET Files, seen : SUBSET Trees]
Gone == [files |-> {"gone"}, summed |-> {}, seen |-> {}]

Phases == {"start", "names", "stage", "post_check", "checksums", "manifest", "publish",
           "published", "failing", "clean_up", "done"}
Results == {"none", "rejected", "built", "failed", "killed"}

TypeOK ==
  /\ tree \in Trees
  /\ staging \in [Builders -> Directories \cup {Gone}]
  /\ package \in Directories /\ failed \in Directories
  /\ final \in Builders \cup {Nobody} /\ failure \in Builders \cup {Nobody}
  /\ pc \in [Builders -> Phases]
  /\ next \in [Builders -> 1..Len(Stages) + 1]
  /\ result \in [Builders -> Results]
  /\ edits \in 0..MaxEdits
  /\ restored \in [Builders -> BOOLEAN]

Init ==
  /\ tree \in Trees
  /\ staging = [b \in Builders |-> Gone]
  /\ final = Nobody /\ failure = Nobody
  /\ package = Empty /\ failed = Empty
  /\ pc = [b \in Builders |-> "start"]
  /\ next = [b \in Builders |-> 1]
  /\ result = [b \in Builders |-> "none"]
  /\ edits = 0
  /\ restored = [b \in Builders |-> FALSE]

-----------------------------------------------------------------------------
At(b, phase) == pc[b] = phase
Goto(b, phase) == pc' = [pc EXCEPT ![b] = phase]
Ends(b, how) == Goto(b, "done") /\ result' = [result EXCEPT ![b] = how]
Adds(b, f) == staging' = [staging EXCEPT ![b].files = @ \cup {f}]

\* _assert_clean_exact_checkout, before anything is made.
CheckIdentity(b) ==
  /\ At(b, "start")
  /\ restored' = [restored EXCEPT ![b] = FALSE]
  /\ \/ tree = "exact" /\ Goto(b, "names") /\ UNCHANGED result
     \/ tree # "exact" /\ Ends(b, "rejected")
  /\ UNCHANGED <<tree, staging, names, next, edits>>

\* The run ID is free, or the call is rejected; mkdtemp.
CheckNames(b) ==
  /\ At(b, "names")
  /\ \/ /\ final = Nobody /\ failure = Nobody
        /\ staging' = [staging EXCEPT ![b] = Empty]
        /\ Goto(b, "stage") /\ UNCHANGED result
     \/ /\ final # Nobody \/ failure # Nobody
        /\ Ends(b, "rejected") /\ UNCHANGED staging
  /\ UNCHANGED <<tree, names, next, edits, restored>>

\* A stage passes; its commands may leave something behind in the checkout.
Stage(b) ==
  /\ At(b, "stage") /\ next[b] <= Len(Stages)
  /\ staging' = [staging EXCEPT ![b].files = @ \cup {Stages[next[b]], "logs"},
                                ![b].seen = @ \cup {tree}]
  /\ next' = [next EXCEPT ![b] = @ + 1]
  /\ \/ UNCHANGED <<tree, restored>>
     \/ tree' = "edited" /\ UNCHANGED restored
  /\ UNCHANGED <<names, pc, result, edits>>

StagesDone(b) ==
  /\ At(b, "stage") /\ next[b] > Len(Stages)
  /\ Goto(b, "post_check")
  /\ UNCHANGED <<tree, staging, names, next, result, edits, restored>>

\* Faulty variant: the checkout is only looked at before the stages.
PostCheckSkipped(b) ==
  /\ At(b, "post_check")
  /\ Goto(b, "checksums")
  /\ UNCHANGED <<tree, staging, names, next, result, edits, restored>>

\* The checkout must be the clean exact commit still, or again.
PostCheck(b) ==
  /\ At(b, "post_check")
  /\ Goto(b, IF tree = "exact" THEN "checksums" ELSE "failing")
  /\ UNCHANGED <<tree, staging, names, next, result, edits, restored>>

WriteChecksums(b) ==
  /\ At(b, "checksums")
  /\ staging' = [staging EXCEPT ![b].summed = staging[b].files \ {"checksums", "manifest"},
                                ![b].files = @ \cup {"checksums"}]
  /\ Goto(b, "manifest")
  /\ UNCHANGED <<tree, names, next, result, edits, restored>>

WriteManifest(b) ==
  /\ At(b, "manifest")
  /\ Adds(b, "manifest")
  /\ Goto(b, "publish")
  /\ UNCHANGED <<tree, names, next, result, edits, restored>>

\* Faulty variant: a package of that name is replaced.
PublishOver(b) ==
  /\ At(b, "publish")
  /\ final' = b /\ package' = staging[b]
  /\ staging' = [staging EXCEPT ![b] = Gone]
  /\ Goto(b, "published") /\ UNCHANGED <<failure, failed>>
  /\ UNCHANGED <<tree, next, result, edits, restored>>

\* Renaming onto a directory that is not empty fails.
Publish(b) ==
  /\ At(b, "publish")
  /\ \/ /\ final = Nobody
        /\ final' = b /\ package' = staging[b]
        /\ staging' = [staging EXCEPT ![b] = Gone]
        /\ Goto(b, "published") /\ UNCHANGED <<failure, failed>>
     \/ final # Nobody /\ Goto(b, "failing") /\ UNCHANGED <<staging, names>>
  /\ UNCHANGED <<tree, next, result, edits, restored>>

\* finally: gate_state.cleanup, which may raise; else the path is returned.
Return(b) ==
  /\ At(b, "published")
  /\ \/ Ends(b, "built")
     \/ Ends(b, "failed")
  /\ UNCHANGED <<tree, staging, names, next, edits, restored>>

\* A command fails, a document is not valid, a file cannot be written, or the
\* builder is interrupted: after mkdtemp everything is caught.
Raise(b) ==
  /\ pc[b] \in {"stage", "post_check", "checksums", "manifest", "publish", "published"}
  /\ Goto(b, "failing")
  /\ UNCHANGED <<tree, staging, names, next, result, edits, restored>>

\* _failed_attempt_path: _write_json makes the staging directory if it is gone.
Mark(b) ==
  /\ At(b, "failing")
  /\ staging' = [staging EXCEPT ![b] =
       LET d == IF @ = Gone THEN Empty ELSE @
       IN  [d EXCEPT !.files = @ \cup {"build_failed"}]]
  /\ Goto(b, "clean_up")
  /\ UNCHANGED <<tree, names, next, result, edits, restored>>

\* The marker cannot be written, or the second renaming fails.
MarkFails(b) ==
  /\ At(b, "failing")
  /\ Ends(b, "failed")
  /\ UNCHANGED <<tree, staging, names, next, edits, restored>>

Retain(b) ==
  /\ At(b, "clean_up")
  /\ \/ /\ failure = Nobody
        /\ failure' = b /\ failed' = staging[b]
        /\ staging' = [staging EXCEPT ![b] = Gone]
     \/ UNCHANGED <<failure, failed, staging>>
  /\ Ends(b, "failed")
  /\ UNCHANGED <<tree, final, package, next, edits, restored>>

Killed(b) ==
  /\ pc[b] # "done"
  /\ Ends(b, "killed")
  /\ UNCHANGED <<tree, staging, names, next, edits, restored>>

\* Somebody edits the checkout, moves its HEAD, or restores it.
Edit ==
  /\ edits < MaxEdits
  /\ edits' = edits + 1
  /\ tree' \in Trees \ {tree}
  /\ restored' = [b \in Builders |-> restored[b] \/ tree' = "exact"]
  /\ UNCHANGED <<staging, names, pc, next, result>>

Step(b) ==
  \/ CheckIdentity(b) \/ CheckNames(b) \/ Stage(b) \/ StagesDone(b) \/ PostCheck(b)
  \/ WriteChecksums(b) \/ WriteManifest(b) \/ Publish(b) \/ Return(b)
  \/ Raise(b) \/ Mark(b) \/ MarkFails(b) \/ Retain(b) \/ Killed(b)

Next == Edit \/ \E b \in Builders : Step(b)
Spec == Init /\ [][Next]_vars

-----------------------------------------------------------------------------
(* Correctness.                                                            *)
Everywhere == {package, failed} \cup {staging[b] : b \in Builders}

\* Wherever there is a manifest, published or left behind by a builder that failed
\* or was killed, every stage has passed and every other file has its checksum.
ManifestIsLast ==
  \A d \in Everywhere : "manifest" \in d.files =>
    /\ StageNames \subseteq d.files
    /\ d.files \ {"checksums", "manifest", "build_failed"} = d.summed

\* A published package carries its manifest and no failure marker, and its stages
\* saw only the exact checkout, unless somebody edited it and restored it meanwhile.
PackageIsExact ==
  final # Nobody =>
    /\ "manifest" \in package.files /\ "build_failed" \notin package.files
    /\ restored[final] \/ package.seen = {"exact"}

\* Whatever other builders of the run do, a published package is never replaced.
PackageStays == [][final # Nobody => final' = final /\ package' = package]_vars

\* An attempt at the failure name always says that it failed.
FailureIsMarked == failure # Nobody => "build_failed" \in failed.files
=============================================================================
