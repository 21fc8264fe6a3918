-------------------------- MODULE PackageVerifyProofs --------------------------
(***************************************************************************)
(* What a package directory holds, for any number of builders of one run   *)
(* and any editing of the checkout.  The invariant says of each builder    *)
(* what its staging directory holds at each phase; a published or failed   *)
(* directory is a staging directory that was renamed.                      *)
(*                                                                         *)
(* And what the verifier makes of such a directory, whatever others change *)
(* in it: here the invariant says of each check of the call what is known  *)
(* once that check has passed.                                             *)
(***************************************************************************)
EXTENDS PackageVerify, FiniteSetTheorems, TLAPS

Extra == {"checksums", "manifest", "build_failed"}
Open == {"stage", "post_check", "checksums", "manifest", "publish"}
Early == {"start", "names"}

Complete(d) ==
  "manifest" \in d.files =>
    /\ StageNames \cup {"checksums"} \subseteq d.files
    /\ d.files \ Extra = d.summed

Holds(b) ==
  /\ pc[b] \in Open \cup {"clean_up"} => staging[b] \in Directories
  /\ pc[b] \in Early => staging[b] = Gone /\ next[b] = 1
  /\ pc[b] = "stage" => \A i \in 1..next[b] - 1 : Stages[i] \in staging[b].files
  /\ pc[b] \in Open \ {"stage"} => StageNames \subseteq staging[b].files
  /\ pc[b] \in Open \ {"publish"} => "manifest" \notin staging[b].files
  /\ pc[b] \in Open => "build_failed" \notin staging[b].files
  /\ pc[b] = "manifest" =>
       "checksums" \in staging[b].files /\ staging[b].files \ Extra = staging[b].summed
  /\ pc[b] = "publish" => "manifest" \in staging[b].files
  /\ pc[b] = "clean_up" => "build_failed" \in staging[b].files

Sees(b) ==
  /\ pc[b] = "stage" /\ next[b] > 1 => staging[b].seen # {}
  /\ pc[b] \in Open \ {"stage"} => staging[b].seen # {}
  /\ pc[b] \in {"stage", "post_check"} =>
       staging[b].seen \subseteq {"exact"} \/ tree = "edited" \/ restored[b]
  /\ pc[b] \in {"checksums", "manifest", "publish"} =>
       staging[b].seen \subseteq {"exact"} \/ restored[b]

BuilderInv(b) ==
  /\ Complete(staging[b])
  /\ Holds(b)
  /\ Sees(b)
  /\ pc[b] \in Early \cup Open => final # b

IInv ==
  /\ TypeOK
  /\ \A b \in Builders : BuilderInv(b)
  /\ Complete(package) /\ Complete(failed)
  /\ PackageIsExact
  /\ FailureIsMarked
  /\ final = Nobody => package = Empty

-----------------------------------------------------------------------------
LEMMA StageFacts ==
  /\ Len(Stages) = 8
  /\ \A i \in 1..8 : Stages[i] \in StageNames
  /\ \A s \in StageNames : \E i \in 1..8 : s = Stages[i]
  /\ StageNames \subseteq Files
  /\ StageNames \cap (Extra \cup {"logs", "gone"}) = {}
<1>1. Len(Stages) = 8 /\ DOMAIN Stages = 1..8
  BY DEF Stages
<1>2. \A s \in StageNames : \E i \in 1..8 : s = Stages[i]
  BY <1>1 DEF StageNames
<1>3. \A i \in 1..8 : Stages[i] \in StageNames
  BY <1>1 DEF StageNames
<1>4. \A i \in 1..8 : Stages[i] \notin Extra \cup {"logs", "gone"}
  <2> SUFFICES ASSUME NEW i \in 1..8 PROVE Stages[i] \notin Extra \cup {"logs", "gone"}
    OBVIOUS
  <2>1. i = 1 \/ i = 2 \/ i = 3 \/ i = 4 \/ i = 5 \/ i = 6 \/ i = 7 \/ i = 8
    OBVIOUS
  <2> QED BY <2>1 DEF Stages, Extra
<1> QED BY <1>1, <1>2, <1>3, <1>4 DEF Files

\* A directory's record, after a step that changes two of its fields.
LEMMA DirectoryFields ==
  ASSUME NEW d \in Directories
  PROVE  /\ d.files \subseteq Files /\ d.summed \subseteq Files /\ d.seen \subseteq Trees
         /\ d # Gone
BY StageFacts DEF Directories, Gone, Files, StageNames, Stages

\* A step of one builder leaves the others as they were: it may dirty the checkout
\* and take the final name, and nothing else of theirs changes.
LEMMA OthersKeep ==
  ASSUME IInv, NEW b \in Builders, NEW q \in Builders, q # b,
         pc'[q] = pc[q], staging'[q] = staging[q], next'[q] = next[q],
         restored'[q] = restored[q], tree' \in {tree, "edited"}, final' \in {final, b}
  PROVE  BuilderInv(q)'
<1>1. BuilderInv(q)
  BY DEF IInv
<1>2. Holds(q)' /\ Complete(staging[q])'
  BY <1>1 DEF BuilderInv, Holds, Complete
<1>3. Sees(q)'
  BY <1>1 DEF BuilderInv, Sees
<1> QED BY <1>1, <1>2, <1>3 DEF BuilderInv

LEMMA InitIInv == Init => IInv
<1> SUFFICES ASSUME Init PROVE IInv
  OBVIOUS
<1>1. TypeOK
  BY BuilderAssumption, StageFacts DEF Init, TypeOK, Directories, Empty, Gone, Phases, Results
<1>2. ASSUME NEW b \in Builders PROVE BuilderInv(b)
  BY BuilderAssumption, StageFacts DEF Init, BuilderInv, Complete, Holds, Sees, Gone, Early, Open
<1>3. Complete(package) /\ Complete(failed) /\ PackageIsExact /\ FailureIsMarked
  BY DEF Init, Complete, Empty, PackageIsExact, FailureIsMarked
<1> QED BY <1>1, <1>2, <1>3 DEF IInv, Init

\* A step that moves one builder on and touches neither the names nor the tree.
LEMMA LocalKeeps ==
  ASSUME IInv, NEW b \in Builders, TypeOK', BuilderInv(b)',
         UNCHANGED <<tree, names>>,
         \A q \in Builders : q # b =>
           /\ pc'[q] = pc[q] /\ staging'[q] = staging[q] /\ next'[q] = next[q]
           /\ restored'[q] = restored[q],
         final = b => restored'[b] = restored[b]
  PROVE  IInv'
<1>1. ASSUME NEW q \in Builders, q # b PROVE BuilderInv(q)'
  BY <1>1, OthersKeep DEF names
<1>2. \A q \in Builders : BuilderInv(q)'
  BY <1>1
<1>3. Complete(package)' /\ Complete(failed)' /\ FailureIsMarked'
  BY DEF IInv, names, Complete, FailureIsMarked
<1>4. PackageIsExact'
  <2>1. final # Nobody => restored'[final] = restored[final]
    BY DEF IInv, TypeOK
  <2> QED BY <2>1 DEF IInv, names, PackageIsExact
<1>5. (final = Nobody => package = Empty)'
  BY DEF IInv, names
<1> QED BY <1>2, <1>3, <1>4, <1>5 DEF IInv

LEMMA CheckIdentityKeeps ==
  ASSUME IInv, NEW b \in Builders, CheckIdentity(b)
  PROVE  IInv'
<1>1. pc[b] = "start" /\ BuilderInv(b) /\ TypeOK
  BY DEF IInv, CheckIdentity, At
<1>2. pc'[b] \in {"names", "done"} /\ final # b
  BY <1>1 DEF CheckIdentity, Goto, Ends, TypeOK, BuilderInv, Early
<1>3. TypeOK'
  BY <1>1 DEF CheckIdentity, Goto, Ends, TypeOK, Phases, Results, names
<1>4. BuilderInv(b)'
  BY <1>1, <1>2 DEF CheckIdentity, BuilderInv, Complete, Holds, Sees, Early, Open, names
<1>5. \A q \in Builders : q # b => pc'[q] = pc[q] /\ restored'[q] = restored[q]
  BY <1>1 DEF CheckIdentity, Goto, Ends, TypeOK
<1> QED BY <1>2, <1>3, <1>4, <1>5, LocalKeeps DEF CheckIdentity

LEMMA CheckNamesKeeps ==
  ASSUME IInv, NEW b \in Builders, CheckNames(b)
  PROVE  IInv'
<1>1. pc[b] = "names" /\ BuilderInv(b) /\ TypeOK
  BY DEF IInv, CheckNames, At
<1>2. Empty \in Directories /\ Complete(Empty)
  BY DEF Empty, Directories, Complete
<1>3. TypeOK'
  BY <1>1, <1>2 DEF CheckNames, Goto, Ends, TypeOK, Phases, Results, names
<1>4. \A q \in Builders : q # b => pc'[q] = pc[q] /\ staging'[q] = staging[q]
  BY <1>1 DEF CheckNames, Goto, Ends, TypeOK
<1>5. BuilderInv(b)'
  <2>1. CASE pc'[b] = "stage" /\ staging'[b] = Empty
    BY <1>1, <1>2, <2>1 DEF CheckNames, BuilderInv, Complete, Holds, Sees, Early, Open, names, Empty
  <2>2. CASE pc'[b] = "done" /\ staging'[b] = staging[b]
    BY <1>1, <2>2 DEF CheckNames, BuilderInv, Complete, Holds, Sees, Early, Open, names
  <2> QED BY <1>1, <2>1, <2>2 DEF CheckNames, Goto, Ends, TypeOK
<1> QED BY <1>3, <1>4, <1>5, LocalKeeps DEF CheckNames

LEMMA StageKeeps ==
  ASSUME IInv, NEW b \in Builders, Stage(b)
  PROVE  IInv'
<1> DEFINE d == staging[b]
           new == Stages[next[b]]
<1>1. pc[b] = "stage" /\ BuilderInv(b) /\ TypeOK /\ d \in Directories
  BY DEF IInv, Stage, At, BuilderInv, Holds, Open
<1>2. next[b] \in 1..8 /\ new \in StageNames /\ new \in Files
      /\ new \notin Extra
  BY <1>1, StageFacts DEF Stage, TypeOK
<1>3. /\ staging'[b] = [d EXCEPT !.files = @ \cup {new, "logs"}, !.seen = @ \cup {tree}]
      /\ next'[b] = next[b] + 1 /\ pc' = pc /\ tree' \in {tree, "edited"}
      /\ UNCHANGED <<restored, names>>
  BY <1>1 DEF Stage, TypeOK
<1>4. /\ staging'[b].files = d.files \cup {new, "logs"}
      /\ staging'[b].summed = d.summed
      /\ staging'[b].seen = d.seen \cup {tree}
      /\ staging'[b] \in Directories
  <2>1. staging'[b] = [files |-> d.files \cup {new, "logs"}, summed |-> d.summed,
                       seen |-> d.seen \cup {tree}]
    <3>1. d = [files |-> d.files, summed |-> d.summed, seen |-> d.seen]
      BY <1>1 DEF Directories
    <3> QED BY <1>3, <3>1
  <2>2. tree \in Trees /\ "logs" \in Files
    BY <1>1 DEF TypeOK, Files
  <2> QED BY <1>1, <1>2, <2>1, <2>2 DEF Directories
<1>5. \A q \in Builders : q # b => next'[q] = next[q] /\ staging'[q] = staging[q]
  BY <1>1 DEF Stage, TypeOK
<1>6. TypeOK'
  <2>1. staging' \in [Builders -> Directories \cup {Gone}]
    BY <1>1, <1>4 DEF Stage, TypeOK
  <2>2. next' \in [Builders -> 1..Len(Stages) + 1]
    BY <1>1, <1>2, <1>3, StageFacts DEF Stage, TypeOK
  <2> QED BY <1>1, <1>3, <2>1, <2>2 DEF Stage, TypeOK, Trees, names
<1>7. BuilderInv(b)'
  <2>1. "manifest" \notin staging'[b].files /\ "build_failed" \notin staging'[b].files
    BY <1>1, <1>2, <1>4 DEF BuilderInv, Holds, Open, Extra
  <2>2. \A i \in 1..next'[b] - 1 : Stages[i] \in staging'[b].files
    <3> SUFFICES ASSUME NEW i \in 1..next'[b] - 1 PROVE Stages[i] \in staging'[b].files
      OBVIOUS
    <3>1. i \in 1..next[b] - 1 \/ i = next[b]
      BY <1>2, <1>3
    <3>2. \A j \in 1..next[b] - 1 : Stages[j] \in d.files
      BY <1>1 DEF BuilderInv, Holds
    <3> QED BY <1>4, <3>1, <3>2
  <2>3. Complete(staging[b])' /\ Holds(b)'
    BY <1>1, <1>3, <1>4, <2>1, <2>2 DEF Complete, Holds, Early, Open
  <2>4. Sees(b)'
    BY <1>1, <1>3, <1>4 DEF BuilderInv, Sees, Open, TypeOK, Trees
  <2> QED BY <1>1, <1>3, <2>3, <2>4 DEF BuilderInv, Early, Open, names
<1>8. ASSUME NEW q \in Builders, q # b PROVE BuilderInv(q)'
  BY <1>3, <1>5, <1>8, OthersKeep DEF names
<1>9. Complete(package)' /\ Complete(failed)' /\ FailureIsMarked' /\ PackageIsExact'
  BY <1>3 DEF IInv, names, Complete, FailureIsMarked, PackageIsExact
<1>10. (final = Nobody => package = Empty)'
  BY <1>3 DEF IInv, names
<1> QED BY <1>6, <1>7, <1>8, <1>9, <1>10 DEF IInv

LEMMA StagesDoneKeeps ==
  ASSUME IInv, NEW b \in Builders, StagesDone(b)
  PROVE  IInv'
<1>1. pc[b] = "stage" /\ pc'[b] = "post_check" /\ BuilderInv(b) /\ TypeOK
  BY DEF IInv, StagesDone, At, Goto, TypeOK
<1>2. next[b] = 9 /\ StageNames \subseteq staging[b].files
  <2>1. next[b] = 9
    BY <1>1, StageFacts DEF StagesDone, TypeOK
  <2>2. \A i \in 1..8 : Stages[i] \in staging[b].files
    BY <1>1, <2>1 DEF BuilderInv, Holds
  <2> QED BY <2>1, <2>2, StageFacts
<1>3. TypeOK'
  BY <1>1 DEF StagesDone, Goto, TypeOK, Phases, names
<1>4. BuilderInv(b)'
  BY <1>1, <1>2 DEF StagesDone, BuilderInv, Complete, Holds, Sees, Early, Open, names
<1>5. \A q \in Builders : q # b => pc'[q] = pc[q]
  BY <1>1 DEF StagesDone, Goto, TypeOK
<1> QED BY <1>3, <1>4, <1>5, LocalKeeps DEF StagesDone

LEMMA PostCheckKeeps ==
  ASSUME IInv, NEW b \in Builders, PostCheck(b)
  PROVE  IInv'
<1>1. /\ pc[b] = "post_check" /\ BuilderInv(b) /\ TypeOK
      /\ pc'[b] = IF tree = "exact" THEN "checksums" ELSE "failing"
  BY DEF IInv, PostCheck, At, Goto, TypeOK
<1>2. TypeOK'
  BY <1>1 DEF PostCheck, Goto, TypeOK, Phases, names
<1>3. BuilderInv(b)'
  BY <1>1 DEF PostCheck, BuilderInv, Complete, Holds, Sees, Early, Open, names
<1>4. \A q \in Builders : q # b => pc'[q] = pc[q]
  BY <1>1 DEF PostCheck, Goto, TypeOK
<1> QED BY <1>2, <1>3, <1>4, LocalKeeps DEF PostCheck

LEMMA WriteChecksumsKeeps ==
  ASSUME IInv, NEW b \in Builders, WriteChecksums(b)
  PROVE  IInv'
<1> DEFINE d == staging[b]
<1>1. /\ pc[b] = "checksums" /\ pc'[b] = "manifest" /\ BuilderInv(b) /\ TypeOK
      /\ d \in Directories
  BY DEF IInv, WriteChecksums, At, Goto, TypeOK, BuilderInv, Holds, Open
<1>2. staging'[b] = [files |-> d.files \cup {"checksums"},
                     summed |-> d.files \ {"checksums", "manifest"}, seen |-> d.seen]
  <2>1. d = [files |-> d.files, summed |-> d.summed, seen |-> d.seen]
    BY <1>1 DEF Directories
  <2>2. staging'[b] = [d EXCEPT !.summed = d.files \ {"checksums", "manifest"},
                                !.files = @ \cup {"checksums"}]
    BY <1>1 DEF WriteChecksums, TypeOK
  <2> QED BY <2>1, <2>2
<1>3. staging'[b] \in Directories
  BY <1>1, <1>2 DEF Directories, Files
<1>4. TypeOK'
  BY <1>1, <1>3 DEF WriteChecksums, Goto, TypeOK, Phases, names
<1>5. BuilderInv(b)'
  <2>1. Complete(staging[b])' /\ Holds(b)'
    <3>1. "manifest" \notin d.files /\ "build_failed" \notin d.files /\ StageNames \subseteq d.files
      BY <1>1 DEF BuilderInv, Holds, Open
    <3>2. (d.files \cup {"checksums"}) \ Extra = d.files \ {"checksums", "manifest"}
      BY <3>1 DEF Extra
    <3>3. /\ staging'[b].files = d.files \cup {"checksums"}
          /\ staging'[b].summed = d.files \ {"checksums", "manifest"}
      BY <1>2
    <3>4. staging'[b].files \ Extra = staging'[b].summed
      BY <3>2, <3>3
    <3>5. /\ "manifest" \notin staging'[b].files /\ "build_failed" \notin staging'[b].files
          /\ "checksums" \in staging'[b].files /\ StageNames \subseteq staging'[b].files
      BY <3>1, <3>3
    <3> QED BY <1>1, <1>3, <3>4, <3>5 DEF Complete, Holds, Early, Open
  <2>2. Sees(b)'
    <3>1. staging'[b].seen = staging[b].seen /\ restored' = restored
      BY <1>2 DEF WriteChecksums
    <3> QED BY <1>1, <3>1 DEF BuilderInv, Sees, Open
  <2> QED BY <1>1, <2>1, <2>2 DEF WriteChecksums, BuilderInv, Early, Open, names
<1>6. \A q \in Builders : q # b => pc'[q] = pc[q] /\ staging'[q] = staging[q]
  BY <1>1 DEF WriteChecksums, Goto, TypeOK
<1> QED BY <1>4, <1>5, <1>6, LocalKeeps DEF WriteChecksums

LEMMA WriteManifestKeeps ==
  ASSUME IInv, NEW b \in Builders, WriteManifest(b)
  PROVE  IInv'
<1> DEFINE d == staging[b]
<1>1. /\ pc[b] = "manifest" /\ pc'[b] = "publish" /\ BuilderInv(b) /\ TypeOK
      /\ d \in Directories
  BY DEF IInv, WriteManifest, At, Goto, TypeOK, BuilderInv, Holds, Open
<1>2. staging'[b] = [files |-> d.files \cup {"manifest"}, summed |-> d.summed, seen |-> d.seen]
  <2>1. d = [files |-> d.files, summed |-> d.summed, seen |-> d.seen]
    BY <1>1 DEF Directories
  <2>2. staging'[b] = [d EXCEPT !.files = @ \cup {"manifest"}]
    BY <1>1 DEF WriteManifest, Adds, TypeOK
  <2> QED BY <2>1, <2>2
<1>3. staging'[b] \in Directories
  BY <1>1, <1>2 DEF Directories, Files
<1>4. TypeOK'
  BY <1>1, <1>3 DEF WriteManifest, Adds, Goto, TypeOK, Phases, names
<1>5. BuilderInv(b)'
  <2>1. Complete(staging[b])' /\ Holds(b)'
    BY <1>1, <1>2, <1>3 DEF BuilderInv, Complete, Holds, Early, Open, Extra
  <2>2. Sees(b)'
    BY <1>1, <1>2 DEF WriteManifest, BuilderInv, Sees, Open
  <2> QED BY <1>1, <2>1, <2>2 DEF WriteManifest, BuilderInv, Early, Open, names
<1>6. \A q \in Builders : q # b => pc'[q] = pc[q] /\ staging'[q] = staging[q]
  BY <1>1 DEF WriteManifest, Adds, Goto, TypeOK
<1> QED BY <1>4, <1>5, <1>6, LocalKeeps DEF WriteManifest

\* A builder that goes to a phase in which nothing is asked of its directory.
LEMMA LeavesKeeps ==
  ASSUME IInv, NEW b \in Builders, NEW phase \in {"failing", "done"}, Goto(b, phase),
         UNCHANGED <<tree, staging, names, next, edits, restored>>,
         result' \in [Builders -> Results]
  PROVE  IInv'
<1>1. BuilderInv(b) /\ TypeOK /\ pc'[b] = phase
  BY DEF IInv, Goto, TypeOK
<1>2. TypeOK'
  BY <1>1 DEF Goto, TypeOK, Phases, names
<1>3. BuilderInv(b)'
  BY <1>1 DEF BuilderInv, Complete, Holds, Sees, Early, Open
<1>4. \A q \in Builders : q # b => pc'[q] = pc[q]
  BY <1>1 DEF Goto, TypeOK
<1> QED BY <1>2, <1>3, <1>4, LocalKeeps

LEMMA LeavingSteps ==
  ASSUME IInv, NEW b \in Builders,
         Return(b) \/ Raise(b) \/ MarkFails(b) \/ Killed(b)
  PROVE  IInv'
<1>1. TypeOK
  BY DEF IInv
<1>2. CASE Raise(b)
  BY <1>1, <1>2, LeavesKeeps DEF Raise, TypeOK
<1>3. ASSUME NEW how \in {"built", "failed", "killed"}, Ends(b, how),
             UNCHANGED <<tree, staging, names, next, edits, restored>>
      PROVE  IInv'
  BY <1>1, <1>3, LeavesKeeps DEF Ends, TypeOK, Results
<1> QED BY <1>2, <1>3 DEF Return, MarkFails, Killed

LEMMA MarkKeeps ==
  ASSUME IInv, NEW b \in Builders, Mark(b)
  PROVE  IInv'
<1> DEFINE d == IF staging[b] = Gone THEN Empty ELSE staging[b]
<1>1. pc[b] = "failing" /\ pc'[b] = "clean_up" /\ BuilderInv(b) /\ TypeOK
  BY DEF IInv, Mark, At, Goto, TypeOK
<1>2. d \in Directories /\ Complete(d)
  BY <1>1 DEF TypeOK, BuilderInv, Empty, Directories, Complete
<1>3. staging'[b] = [files |-> d.files \cup {"build_failed"}, summed |-> d.summed, seen |-> d.seen]
  <2>1. d = [files |-> d.files, summed |-> d.summed, seen |-> d.seen]
    BY <1>2 DEF Directories
  <2>2. staging'[b] = [d EXCEPT !.files = @ \cup {"build_failed"}]
    BY <1>1 DEF Mark, TypeOK
  <2> QED BY <2>1, <2>2
<1>4. staging'[b] \in Directories
  BY <1>2, <1>3 DEF Directories, Files
<1>5. TypeOK'
  <2>1. staging' \in [Builders -> Directories \cup {Gone}]
    BY <1>1, <1>4 DEF Mark, TypeOK
  <2> QED BY <1>1, <2>1 DEF Mark, Goto, TypeOK, Phases, names
<1>6. BuilderInv(b)'
  BY <1>1, <1>2, <1>3, <1>4 DEF BuilderInv, Complete, Holds, Sees, Early, Open, Extra
<1>7. \A q \in Builders : q # b => pc'[q] = pc[q] /\ staging'[q] = staging[q]
  BY <1>1 DEF Mark, Goto, TypeOK
<1> QED BY <1>5, <1>6, <1>7, LocalKeeps DEF Mark

LEMMA PublishKeeps ==
  ASSUME IInv, NEW b \in Builders, Publish(b)
  PROVE  IInv'
<1>1. pc[b] = "publish" /\ BuilderInv(b) /\ TypeOK /\ staging[b] \in Directories
  BY DEF IInv, Publish, At, BuilderInv, Holds, Open
<1>2. CASE UNCHANGED <<staging, names>>
  <2>1. Goto(b, "failing") /\ UNCHANGED <<tree, next, result, edits, restored>>
    BY <1>1, <1>2, BuilderAssumption DEF Publish, TypeOK, names
  <2>2. result' \in [Builders -> Results]
    BY <1>1, <2>1 DEF TypeOK
  <2> QED BY <1>2, <2>1, <2>2, LeavesKeeps
<1>3. CASE final' = b /\ ~UNCHANGED <<staging, names>>
  <2>1. /\ package' = staging[b] /\ staging'[b] = Gone /\ pc'[b] = "published"
        /\ UNCHANGED <<failure, failed, tree, next, result, edits, restored>>
        /\ \A q \in Builders : q # b => pc'[q] = pc[q] /\ staging'[q] = staging[q]
    BY <1>1, <1>3 DEF Publish, Goto, TypeOK, names
  <2>2. TypeOK'
    BY <1>1, <1>3, <2>1 DEF Publish, Goto, TypeOK, Phases
  <2>3. BuilderInv(b)'
    BY <1>1, <2>1 DEF BuilderInv, Complete, Holds, Sees, Early, Open, Gone
  <2>4. ASSUME NEW q \in Builders, q # b PROVE BuilderInv(q)'
    BY <1>3, <2>1, <2>4, OthersKeep
  <2>5. Complete(package)' /\ Complete(failed)' /\ FailureIsMarked'
    BY <1>1, <2>1 DEF IInv, BuilderInv, Complete, FailureIsMarked
  <2>6. PackageIsExact'
    <3>1. "manifest" \in staging[b].files /\ "build_failed" \notin staging[b].files
      BY <1>1 DEF BuilderInv, Holds, Open
    <3>2. restored[b] \/ staging[b].seen = {"exact"}
      BY <1>1 DEF BuilderInv, Sees, Open
    <3> QED BY <1>3, <2>1, <3>1, <3>2 DEF PackageIsExact
  <2>7. (final = Nobody => package = Empty)'
    BY <1>3, BuilderAssumption
  <2> QED BY <2>2, <2>3, <2>4, <2>5, <2>6, <2>7 DEF IInv
<1> QED BY <1>2, <1>3 DEF Publish

LEMMA RetainKeeps ==
  ASSUME IInv, NEW b \in Builders, Retain(b)
  PROVE  IInv'
<1>1. /\ pc[b] = "clean_up" /\ pc'[b] = "done" /\ BuilderInv(b) /\ TypeOK
      /\ staging[b] \in Directories /\ "build_failed" \in staging[b].files
  BY DEF IInv, Retain, At, Ends, Goto, TypeOK, BuilderInv, Holds
<1>2. CASE UNCHANGED <<failure, failed, staging>>
  BY <1>1, <1>2, LeavesKeeps DEF Retain, Ends, TypeOK, Results, names
<1>3. CASE failure' = b /\ failed' = staging[b] /\ staging' = [staging EXCEPT ![b] = Gone]
  <2>1. /\ staging'[b] = Gone
        /\ UNCHANGED <<tree, final, package, next, edits, restored>>
        /\ \A q \in Builders : q # b => pc'[q] = pc[q] /\ staging'[q] = staging[q]
    BY <1>1, <1>3 DEF Retain, Ends, Goto, TypeOK
  <2>2. TypeOK'
    BY <1>1, <1>3 DEF Retain, Ends, Goto, TypeOK, Phases, Results
  <2>3. BuilderInv(b)'
    BY <1>1, <2>1 DEF BuilderInv, Complete, Holds, Sees, Early, Open, Gone
  <2>4. ASSUME NEW q \in Builders, q # b PROVE BuilderInv(q)'
    BY <2>1, <2>4, OthersKeep
  <2>5. Complete(package)' /\ Complete(failed)' /\ FailureIsMarked' /\ PackageIsExact'
    BY <1>1, <1>3, <2>1 DEF IInv, BuilderInv, Complete, FailureIsMarked, PackageIsExact
  <2>6. (final = Nobody => package = Empty)'
    BY <2>1 DEF IInv
  <2> QED BY <2>2, <2>3, <2>4, <2>5, <2>6 DEF IInv
<1> QED BY <1>2, <1>3 DEF Retain

\* Who sees the tree restored is told so.
LEMMA EditKeeps ==
  ASSUME IInv, Edit
  PROVE  IInv'
<1>1. TypeOK /\ tree' \in {"exact", "edited"} /\ tree' # tree
  BY DEF IInv, Edit, Trees
<1>2. \A b \in Builders : restored'[b] = (restored[b] \/ tree' = "exact")
  BY DEF Edit
<1>3. TypeOK'
  BY <1>1, BuilderAssumption DEF Edit, TypeOK, Trees, names
<1>4. ASSUME NEW b \in Builders PROVE BuilderInv(b)'
  <2>1. BuilderInv(b)
    BY DEF IInv
  <2>2. Sees(b)'
    BY <1>1, <1>2, <2>1 DEF Edit, BuilderInv, Sees
  <2> QED BY <2>1, <2>2 DEF Edit, BuilderInv, Complete, Holds, names
<1>5. Complete(package)' /\ Complete(failed)' /\ FailureIsMarked'
  BY DEF IInv, Edit, names, Complete, FailureIsMarked
<1>6. PackageIsExact'
  <2>1. final # Nobody => final \in Builders
    BY <1>1 DEF TypeOK
  <2> QED BY <1>2, <2>1 DEF IInv, Edit, names, PackageIsExact
<1>7. (final = Nobody => package = Empty)'
  BY DEF IInv, Edit, names
<1> QED BY <1>3, <1>4, <1>5, <1>6, <1>7 DEF IInv

LEMMA NextKeeps == IInv /\ [Next]_vars => IInv'
<1>1. CASE UNCHANGED vars
  BY <1>1 DEF IInv, vars, names, TypeOK, BuilderInv, Complete, Holds, Sees, PackageIsExact,
     FailureIsMarked
<1>2. ASSUME IInv, Next PROVE IInv'
  <2>1. CASE Edit
    BY <1>2, <2>1, EditKeeps
  <2>2. ASSUME NEW b \in Builders, Step(b) PROVE IInv'
    BY <1>2, <2>2, CheckIdentityKeeps, CheckNamesKeeps, StageKeeps, StagesDoneKeeps,
       PostCheckKeeps, WriteChecksumsKeeps, WriteManifestKeeps, PublishKeeps,
       LeavingSteps, MarkKeeps, RetainKeeps DEF Step
  <2> QED BY <1>2, <2>1, <2>2 DEF Next
<1> QED BY <1>1, <1>2

LEMMA Invariance == Spec => []IInv
<1> HIDE DEF IInv, Init, Next, vars
<1> QED BY InitIInv, NextKeeps, PTL DEF Spec

-----------------------------------------------------------------------------
\* Every variable of the build keeps its type (build_authoritative_package).
THEOREM TypeCorrect == Spec => []TypeOK
<1>1. IInv => TypeOK
  BY DEF IInv
<1> HIDE DEF IInv, TypeOK
<1> QED BY <1>1, Invariance, PTL

\* Wherever there is a manifest there is the evidence of every stage, and the
\* checksum of every file (the order of _write_checksums and _write_json).
THEOREM ManifestLast == Spec => []ManifestIsLast
<1>1. IInv => ManifestIsLast
  BY DEF IInv, BuilderInv, Complete, ManifestIsLast, Everywhere, Extra
<1> HIDE DEF IInv, ManifestIsLast
<1> QED BY <1>1, Invariance, PTL

\* A published package was built from the exact checkout, unless that was edited
\* and restored while it was (the two _assert_clean_exact_checkout).
THEOREM PackageExact == Spec => []PackageIsExact
<1>1. IInv => PackageIsExact
  BY DEF IInv
<1> HIDE DEF IInv, PackageIsExact
<1> QED BY <1>1, Invariance, PTL

\* What has the failure name is marked as a failure (_failed_attempt_path).
THEOREM FailureMarked == Spec => []FailureIsMarked
<1>1. IInv => FailureIsMarked
  BY DEF IInv
<1> HIDE DEF IInv, FailureIsMarked
<1> QED BY <1>1, Invariance, PTL

\* Once a package has its name, no builder replaces or alters it (the last rename of
\* build_authoritative_package, which fails on a directory that is not empty).
THEOREM PackageKept == Spec => PackageStays
<1>1. [Next]_vars => [final # Nobody => final' = final /\ package' = package]_vars
  <2> SUFFICES ASSUME [Next]_vars, final # Nobody
               PROVE  final' = final /\ package' = package
    OBVIOUS
  <2>1. CASE UNCHANGED vars \/ Edit
    BY <2>1 DEF vars, names, Edit
  <2>2. ASSUME NEW b \in Builders, Step(b)
        PROVE  final' = final /\ package' = package
    <3>1. CASE Publish(b)
      BY <3>1 DEF Publish, names
    <3>2. CASE Retain(b)
      BY <3>2 DEF Retain
    <3>3. CASE CheckIdentity(b) \/ CheckNames(b) \/ Stage(b) \/ StagesDone(b) \/ PostCheck(b)
      BY <3>3 DEF CheckIdentity, CheckNames, Stage, StagesDone, PostCheck, names
    <3>4. CASE WriteChecksums(b) \/ WriteManifest(b) \/ Return(b) \/ Raise(b)
      BY <3>4 DEF WriteChecksums, WriteManifest, Return, Raise, names
    <3>5. CASE Mark(b) \/ MarkFails(b) \/ Killed(b)
      BY <3>5 DEF Mark, MarkFails, Killed, names
    <3> QED BY <2>2, <3>1, <3>2, <3>3, <3>4, <3>5 DEF Step
  <2> QED BY <2>1, <2>2 DEF Next
<1> HIDE DEF Init, Next, vars
<1> QED BY <1>1, PTL DEF Spec, PackageStays

-----------------------------------------------------------------------------
(* The invariant of a call of verify_package.                              *)

Running == at # "waiting"

\* Before the call nothing is known; the package is taken once its builders have ended.
TakenInv ==
  /\ ~Running => touched = "waiting" /\ held = {} /\ found = {} /\ read = {} /\ fails = {}
  /\ subject = Gone => ~Running
  /\ subject # Gone => Complete(subject) /\ \A b \in Builders : pc[b] = "done"
  /\ touches = 0 => lost = {} /\ touched = "waiting"
  /\ touches = 0 /\ subject # Gone =>
       /\ "edited" \notin subject.seen => altered = {}
       /\ extra <=> "build_failed" \in subject.files

ReadInv ==
  Running =>
    /\ ~moved => tree = "exact"
    /\ fails = {} => "manifest" \in subject.files
    /\ touches = 0 /\ fails = {} /\ (Past("package_tree")) => ~extra

\* The distributions are what the source archive builds.
Built == IsAltered("source_zip") \/ ~OneAltered({"wheel", "sdist"})
\* What is known when the verifier is about to run something of the package: it follows
\* the manifest's identity, through the bundle and the archive, to the distributions.
CommitInv ==
  /\ at \in Gates => fails = {}
  /\ (at \in {"bundle", "source_zip"} /\ fails = {}) \/ Trusting => ~Differs({"identity"})
  /\ (at = "source_zip" /\ fails = {}) \/ Trusting =>
       (SettledBefore("bundle") => ~IsAltered("bundle"))
  /\ Trusting => (SettledBefore("source_zip") => ~IsAltered("source_zip"))
  /\ Trusting /\ at # "distribution_provenance" =>
       (SettledBefore("distribution_provenance") => Built)

\* What the package says of its own files fits them, once its digests were compared.
Vouched ==
  /\ held = {i \in altered : i[1] \in {"declared", "claim"}}
  /\ Past("declared_files") =>
       lost = {} /\ \A f \in Records : IsAltered(f) = (Declared(f) \in held)
  /\ Past("checksums") =>
       \A f \in Records \ {"checksums"} : (Listed(f) \in altered) = (Declared(f) \in held)
VouchedInv == Running /\ fails = {} /\ touched = "waiting" => Vouched

\* What each check has ruled out once it has passed.
Caught ==
  /\ Vouched /\ Claim("form") \notin altered
  /\ read \subseteq {Content("logs")} \cap altered
  /\ Past("package_tree") => ~extra
  /\ Past("commands") => (Differs({"commands"}) => IsAltered("logs"))
  /\ Past("counts") =>
       ~(Differs({"counts"}) /\ read = {} /\ ~OneAltered({"junit", "outputs_1"}))
  /\ Past("matrix") => ~(Differs({"matrix"}) /\ read = {} /\ ~IsAltered("matrix_junit"))
  /\ Past("repository") => ~Differs({"identity"})
  /\ Past("bundle") => Differs({"identity"}) = Differs({"bundle"})
  /\ Past("source_zip") => ~(Differs({"archive"}) /\ ~IsAltered("source_zip"))
  /\ Past("distribution_provenance") => ~Differs({"epoch"})
  /\ Past("distribution_metadata") =>
       ~(Differs({"version", "sbom"}) /\ ~OneAltered({"wheel", "sdist"}))
CaughtInv == Running /\ fails = {} /\ touched = "waiting" /\ ~moved => Caught

\* A call in which nothing is out of the ordinary.
Genuine ==
  subject = package /\ subject.seen = {"exact"} /\ touches = 0 /\ named /\ tools /\ ~moved
GenuineInv ==
  Running /\ Genuine =>
    /\ fails = {} /\ altered = {} /\ lost = {} /\ ~extra /\ held = {} /\ read = {}
    /\ at # "declared_files" => found = Records

AuditInv ==
  /\ AuditTypeOK /\ TakenInv /\ ReadInv /\ CommitInv /\ VouchedInv
  /\ CaughtInv /\ GenuineInv

-----------------------------------------------------------------------------
(* The order of the checks.                                                *)

LEMMA OrderIs ==
  /\ DOMAIN Order = 1..19
  /\ Order[1] = "manifest" /\ Order[2] = "declared_files" /\ Order[3] = "package_tree"
  /\ Order[4] = "arguments" /\ Order[5] = "manifest_schema" /\ Order[6] = "checksums"
  /\ Order[7] = "phase_scope" /\ Order[8] = "determinism" /\ Order[9] = "commands"
  /\ Order[10] = "counts" /\ Order[11] = "matrix" /\ Order[12] = "repository"
  /\ Order[13] = "bundle" /\ Order[14] = "source_zip" /\ Order[15] = "distribution_provenance"
  /\ Order[16] = "distribution_metadata" /\ Order[17] = "sbom" /\ Order[18] = "install"
  /\ Order[19] = "done"
BY DEF Order

LEMMA StepsAre ==
  Steps = {"manifest", "declared_files", "package_tree", "arguments", "manifest_schema",
           "checksums", "phase_scope", "determinism", "commands", "counts", "matrix",
           "repository", "bundle", "source_zip", "distribution_provenance",
           "distribution_metadata", "sbom", "install", "done"}
<1>1. \A i \in 1..19 : \/ i = 1 \/ i = 2 \/ i = 3 \/ i = 4 \/ i = 5 \/ i = 6 \/ i = 7 \/ i = 8
                         \/ i = 9 \/ i = 10 \/ i = 11 \/ i = 12 \/ i = 13 \/ i = 14
                         \/ i = 15 \/ i = 16 \/ i = 17 \/ i = 18 \/ i = 19
  OBVIOUS
<1> QED BY <1>1, OrderIs DEF Steps

LEMMA OrderIsOneToOne ==
  ASSUME NEW i \in 1..19, NEW j \in 1..19, i # j
  PROVE  Order[i] # Order[j]
BY OrderIs

LEMMA IndexIs == \A i \in 1..19 : Index(Order[i]) = i
<1> SUFFICES ASSUME NEW i \in 1..19 PROVE Index(Order[i]) = i
  OBVIOUS
<1>1. \A j \in 1..19 : Order[j] = Order[i] <=> j = i
  BY OrderIsOneToOne
<1> QED BY <1>1, OrderIs DEF Index

LEMMA IndexOf ==
  /\ Index("manifest") = 1 /\ Index("declared_files") = 2 /\ Index("package_tree") = 3
  /\ Index("arguments") = 4 /\ Index("manifest_schema") = 5 /\ Index("checksums") = 6
  /\ Index("phase_scope") = 7 /\ Index("determinism") = 8 /\ Index("commands") = 9
  /\ Index("counts") = 10 /\ Index("matrix") = 11 /\ Index("repository") = 12
  /\ Index("bundle") = 13 /\ Index("source_zip") = 14 /\ Index("distribution_provenance") = 15
  /\ Index("distribution_metadata") = 16 /\ Index("sbom") = 17 /\ Index("install") = 18
  /\ Index("done") = 19
BY OrderIs, IndexIs

\* The check after this one.
After(s) == Order[Index(s) + 1]
LEMMA AfterIs ==
  /\ After("declared_files") = "package_tree" /\ After("package_tree") = "arguments"
  /\ After("arguments") = "manifest_schema" /\ After("manifest_schema") = "checksums"
  /\ After("checksums") = "phase_scope" /\ After("phase_scope") = "determinism"
  /\ After("determinism") = "commands" /\ After("commands") = "counts"
  /\ After("counts") = "matrix" /\ After("matrix") = "repository"
  /\ After("repository") = "bundle" /\ After("bundle") = "source_zip"
  /\ After("source_zip") = "distribution_provenance" /\ After("distribution_provenance") = "distribution_metadata"
  /\ After("distribution_metadata") = "sbom" /\ After("sbom") = "install"
  /\ After("install") = "done"
BY OrderIs, IndexOf DEF After

-----------------------------------------------------------------------------
(* What a package declares.                                                *)

LEMMA ProductsAreRecords ==
  /\ FrozenInputs \cup GateOutputs \cup GitProducts \cup Distributions \subseteq Records
  /\ "checksums" \notin FrozenInputs \cup GateOutputs \cup Distributions
<1>1. {"frozen_inputs", "product_gates", "git_products", "distributions"} \subseteq StageNames
  BY StageFacts DEF Stages
<1>2. /\ StageFiles("frozen_inputs") = FrozenInputs
      /\ StageFiles("product_gates") = GateOutputs
      /\ StageFiles("git_products") = GitProducts
      /\ StageFiles("distributions") = Distributions
  BY DEF StageFiles
<1>3. \A s \in StageNames : StageFiles(s) \subseteq Records
  BY DEF Records
<1>4. "checksums" \notin FrozenInputs \cup GateOutputs \cup Distributions
  BY DEF FrozenInputs, GateOutputs, Distributions
<1> QED BY <1>1, <1>2, <1>3, <1>4

LEMMA ConsistentItems ==
  ASSUME NEW f \in Records \ {"checksums"}
  PROVE  Consistently(f) \subseteq Items
<1>1. "checksums" \in Records
  BY DEF Records
<1> QED BY <1>1 DEF Consistently, Items

LEMMA RecordTypes ==
  ASSUME NEW checks \in SUBSET Checks, NEW bad \in SUBSET Checks, Record(checks, bad), AuditTypeOK
  PROVE  fails' \subseteq Checks /\ passes' \subseteq Checks /\ passes' \cap fails' = {}
BY DEF Record, AuditTypeOK

-----------------------------------------------------------------------------
(* What a check does, whichever it is.                                     *)

\* It ends what failed before in failure, goes on to the check after it or stops, passes
\* only if what it compares is not wrong, and passes if that is not in doubt.
Judged(s, wrong, doubtful) ==
  /\ at = s /\ fails \subseteq fails'
  /\ at' = IF After(s) \in Gates /\ fails' # {} THEN "done" ELSE After(s)
  /\ fails' = {} => ~wrong
  /\ ~wrong /\ ~doubtful => fails' = fails

LEMMA JudgeIs ==
  ASSUME NEW s, NEW checks, checks # {}, NEW wrong, NEW doubtful,
         Judge(s, checks, wrong, doubtful)
  PROVE  Judged(s, wrong, doubtful)
<1>1. PICK holds \in Outcomes(wrong, doubtful) : Record(checks, IF holds THEN {} ELSE checks)
  BY DEF Judge
<1>2. fails' = IF holds THEN fails ELSE fails \cup checks
  BY <1>1 DEF Record
<1>3. holds \in BOOLEAN /\ (wrong => ~holds) /\ (~wrong /\ ~doubtful => holds)
  BY <1>1 DEF Outcomes
<1>4. at = s /\ at' = IF After(s) \in Gates /\ fails' # {} THEN "done" ELSE After(s)
  BY DEF Judge, Proceed, After
<1> QED BY <1>2, <1>3, <1>4 DEF Judged

LEMMA CheckShape ==
  ASSUME Check
  PROVE  /\ at \in Steps \ {"manifest", "done"} /\ UNCHANGED <<held, moved>>
         /\ found' = IF at = "declared_files" THEN Records \ lost ELSE found
         /\ read' = IF at = "commands" THEN {Content("logs")} \cap altered ELSE read
         /\ fails \subseteq fails'
         /\ at' = IF After(at) \in Gates /\ fails' # {} THEN "done" ELSE After(at)
<1>0. UNCHANGED moved
  BY DEF Check
<1>1. CASE CheckFiles
  BY <1>0, <1>1, StepsAre DEF CheckFiles, Judge, Record, Proceed, After
<1>2. CASE CheckTree
  BY <1>0, <1>2, StepsAre DEF CheckTree, Judge, Record, Proceed, After, Unread
<1>3. CASE CheckArguments
  BY <1>0, <1>3, StepsAre DEF CheckArguments, Judge, Record, Proceed, After, Unread
<1>4. CASE CheckSchema
  BY <1>0, <1>4, StepsAre DEF CheckSchema, Judge, Record, Proceed, After, Unread
<1>5. CASE CheckChecksums
  BY <1>0, <1>5, StepsAre DEF CheckChecksums, Judge, Record, Proceed, After, Unread
<1>6. CASE CheckPhases
  BY <1>0, <1>6, StepsAre DEF CheckPhases, Judge, Record, Proceed, After, Unread
<1>7. CASE CheckDeterminism
  BY <1>0, <1>7, StepsAre DEF CheckDeterminism, Judge, Record, Proceed, After, Unread
<1>8. CASE CheckCommands
  BY <1>0, <1>8, StepsAre DEF CheckCommands, Record, Proceed, After
<1>9. CASE CheckCounts
  BY <1>0, <1>9, StepsAre DEF CheckCounts, Judge, Record, Proceed, After, Unread
<1>10. CASE CheckMatrix
  BY <1>0, <1>10, StepsAre DEF CheckMatrix, Judge, Record, Proceed, After, Unread
<1>11. CASE CheckRepository
  BY <1>0, <1>11, StepsAre DEF CheckRepository, Judge, Record, Proceed, After, Unread
<1>12. CASE CheckBundle
  BY <1>0, <1>12, StepsAre DEF CheckBundle, Judge, Record, Proceed, After, Unread
<1>13. CASE CheckSourceZip
  BY <1>0, <1>13, StepsAre DEF CheckSourceZip, Judge, Record, Proceed, After, Unread
<1>14. CASE CheckProvenance
  BY <1>0, <1>14, StepsAre DEF CheckProvenance, Judge, Record, Proceed, After, Unread
<1>15. CASE CheckMetadata
  BY <1>0, <1>15, StepsAre DEF CheckMetadata, Judge, Record, Proceed, After, Unread
<1>16. CASE CheckSbom
  BY <1>0, <1>16, StepsAre DEF CheckSbom, Judge, Record, Proceed, After, Unread
<1>17. CASE Install
  BY <1>0, <1>17, StepsAre, AfterIs DEF Install, Record, Unread, Gates
<1> QED BY <1>1, <1>2, <1>3, <1>4, <1>5, <1>6, <1>7, <1>8, <1>9, <1>10, <1>11, <1>12,
     <1>13, <1>14, <1>15, <1>16, <1>17 DEF Check

\* What a check that passes has ruled out.
Passes ==
  /\ at = "declared_files" =>
       lost = {} /\ \A f \in Records : IsAltered(f) = (Declared(f) \in held)
  /\ at = "package_tree" => ~extra
  /\ at = "checksums" =>
       \A f \in Records \ {"checksums"} : (Listed(f) \in altered) = (Declared(f) \in held)
  /\ at = "commands" => (Differs({"commands"}) => IsAltered("logs"))
  /\ at = "counts" =>
       ~(Differs({"counts"}) /\ read = {} /\ ~OneAltered({"junit", "outputs_1"}))
  /\ at = "matrix" =>
       ~(Differs({"matrix"}) /\ read = {} /\ ~IsAltered("matrix_junit") /\ tree = "exact")
  /\ at = "repository" => ~Differs({"identity"})
  /\ at = "bundle" =>
       /\ Differs({"identity"}) = Differs({"bundle"})
       /\ Differs({"identity"}) = IsAltered("bundle")
  /\ at = "source_zip" =>
       /\ Differs({"identity"}) = IsAltered("source_zip")
       /\ ~(Differs({"archive"}) /\ ~IsAltered("source_zip"))
  /\ at = "distribution_provenance" =>
       /\ ~Differs({"epoch"})
       /\ ~(OneAltered({"wheel", "sdist"}) /\ ~IsAltered("source_zip"))
  /\ at = "distribution_metadata" =>
       ~(Differs({"version", "sbom"}) /\ ~OneAltered({"wheel", "sdist"}))

LEMMA CheckPasses ==
  ASSUME Check, fails' = {}
  PROVE  Passes
<1>1. CASE CheckFiles
  BY <1>1 DEF CheckFiles, Judge, Record, Outcomes, Passes
<1>2. CASE CheckTree
  BY <1>2 DEF CheckTree, Judge, Record, Outcomes, Passes
<1>3. CASE CheckArguments \/ CheckSchema
  BY <1>3 DEF CheckArguments, CheckSchema, Judge, Passes
<1>13. CASE CheckChecksums
  BY <1>13 DEF CheckChecksums, Judge, Record, Outcomes, Passes
<1>4. CASE CheckPhases \/ CheckDeterminism \/ CheckSbom \/ Install
  BY <1>4 DEF CheckPhases, CheckDeterminism, CheckSbom, Install, Judge, Passes
<1>5. CASE CheckCommands
  BY <1>5 DEF CheckCommands, Record, Outcomes, Passes
<1>6. CASE CheckCounts
  BY <1>6 DEF CheckCounts, Judge, Record, Outcomes, Passes
<1>7. CASE CheckMatrix
  BY <1>7 DEF CheckMatrix, Judge, Record, Outcomes, Passes
<1>8. CASE CheckRepository
  BY <1>8 DEF CheckRepository, Judge, Record, Outcomes, Passes
<1>9. CASE CheckBundle
  BY <1>9 DEF CheckBundle, Judge, Record, Outcomes, Passes
<1>10. CASE CheckSourceZip
  BY <1>10 DEF CheckSourceZip, Judge, Record, Outcomes, Passes
<1>11. CASE CheckProvenance
  BY <1>11 DEF CheckProvenance, Judge, Record, Outcomes, Passes
<1>12. CASE CheckMetadata
  BY <1>12 DEF CheckMetadata, Judge, Record, Outcomes, Passes
<1> QED BY <1>1, <1>2, <1>3, <1>4, <1>5, <1>6, <1>7, <1>8, <1>9, <1>10, <1>11, <1>12,
     <1>13 DEF Check

\* A check that is given nothing to object to passes.
Ordered == at # "declared_files" => found = Records
LEMMA GenuinePasses ==
  ASSUME Check, altered = {}, lost = {}, ~extra, held = {}, read = {}, named, tools,
         tree = "exact", Ordered
  PROVE  fails' = fails /\ read' = {}
<1>1. /\ \A f : IsAltered(f) = FALSE
      /\ \A c : Differs(c) = FALSE
      /\ \A f \in Records : (Declared(f) \in held) = FALSE
  BY DEF IsAltered, Differs
<1>2. \A fs : OneAltered(fs) = FALSE
  BY <1>1 DEF OneAltered
<1>3. at # "declared_files" => \A fs \in SUBSET Records : ~SomeLost(fs)
  BY DEF Ordered, SomeLost, There
<1>5. /\ GitProducts \subseteq Records /\ GateOutputs \subseteq Records
      /\ {"manifest_schema"} \subseteq Records /\ {"logs", "checksums"} \subseteq Records
  BY ProductsAreRecords DEF Records, FrozenInputs
<1>6. at # "declared_files" =>
        /\ ~SomeLost(GitProducts) /\ ~SomeLost({"manifest_schema"}) /\ ~SomeLost({"checksums"})
        /\ ~SomeLost({"outputs_1", "outputs_2"}) /\ ~SomeLost({"logs"})
        /\ ~SomeLost({"junit", "outputs_1"}) /\ ~SomeLost({"matrix_junit"})
  BY <1>3, <1>5 DEF GateOutputs
<1>7. CASE CheckFiles
  <2>1. ~(lost # {} \/ \E f \in Records : IsAltered(f) # (Declared(f) \in held))
    BY <1>1
  <2> QED BY <1>7, <2>1 DEF CheckFiles, Judge, Record, Outcomes
<1>8. CASE CheckTree
  BY <1>8 DEF CheckTree, Judge, Record, Outcomes, Unread
<1>9. CASE CheckArguments
  BY <1>6, <1>9 DEF CheckArguments, Judge, Record, Outcomes, Unread
<1>10. CASE CheckSchema
  BY <1>1, <1>6, <1>10 DEF CheckSchema, Judge, Record, Outcomes, Unread
<1>11. CASE CheckChecksums
  BY <1>1, <1>6, <1>11 DEF CheckChecksums, Judge, Record, Outcomes, Unread
<1>12. CASE CheckPhases
  BY <1>1, <1>12 DEF CheckPhases, Judge, Record, Outcomes, Unread
<1>13. CASE CheckDeterminism
  BY <1>1, <1>2, <1>6, <1>13 DEF CheckDeterminism, Judge, Record, Outcomes, Unread
<1>14. CASE CheckCommands
  BY <1>1, <1>6, <1>14 DEF CheckCommands, Record, Outcomes
<1>15. CASE CheckCounts
  BY <1>1, <1>2, <1>6, <1>15 DEF CheckCounts, Judge, Record, Outcomes, Unread
<1>16. CASE CheckMatrix
  BY <1>1, <1>6, <1>16 DEF CheckMatrix, Judge, Record, Outcomes, Unread
<1>17. CASE CheckRepository
  BY <1>1, <1>17 DEF CheckRepository, Judge, Record, Outcomes, Unread
<1>18. CASE CheckBundle
  BY <1>1, <1>18 DEF CheckBundle, Judge, Record, Outcomes, Unread
<1>19. CASE CheckSourceZip
  BY <1>1, <1>19 DEF CheckSourceZip, Judge, Record, Outcomes, Unread
<1>20. CASE CheckProvenance
  BY <1>1, <1>2, <1>20 DEF CheckProvenance, Judge, Record, Outcomes, Unread
<1>21. CASE CheckMetadata
  BY <1>1, <1>2, <1>21 DEF CheckMetadata, Judge, Record, Outcomes, Unread
<1>22. CASE CheckSbom
  BY <1>1, <1>2, <1>22 DEF CheckSbom, Judge, Record, Outcomes, Unread
<1>23. CASE Install
  BY <1>2, <1>23 DEF Install, Record, Outcomes, Unread
<1> QED BY <1>7, <1>8, <1>9, <1>10, <1>11, <1>12, <1>13, <1>14, <1>15, <1>16, <1>17, <1>18,
     <1>19, <1>20, <1>21, <1>22, <1>23 DEF Check

-----------------------------------------------------------------------------
(* The steps of a call and of what goes on around it.                      *)

LEMMA IndexInverse == \A t \in Steps : Index(t) \in 1..19 /\ Order[Index(t)] = t
BY OrderIs, IndexIs DEF Steps

\* A check that passes is past, and nothing else becomes so.
LEMMA PastIs ==
  ASSUME Check, fails' = {}
  PROVE  \A t \in Steps : Past(t)' <=> Past(t) \/ t = at
<1>1. at \in Steps \ {"done"} /\ at' = After(at)
  BY CheckShape
<1>2. Index(at) \in 1..18
  BY <1>1, IndexInverse, IndexOf, OrderIs
<1>3. at' = Order[Index(at) + 1] /\ Index(at') = Index(at) + 1 /\ at' \in Steps
  BY <1>1, <1>2, IndexIs, OrderIs DEF After, Steps
<1> TAKE t \in Steps
<1>4. Index(t) \in 1..19 /\ (t = at <=> Index(t) = Index(at))
  BY <1>1, IndexInverse
<1>5. Past(t) <=> Index(at) > Index(t)
  BY <1>1 DEF Past
<1>6. Past(t)' <=> Index(at) + 1 > Index(t)
  BY <1>3 DEF Past
<1> QED BY <1>2, <1>4, <1>5, <1>6

LEMMA SameFacts ==
  ASSUME UNCHANGED <<altered, held>>
  PROVE  /\ \A f : IsAltered(f)' = IsAltered(f)
         /\ \A fs : OneAltered(fs)' = OneAltered(fs)
         /\ \A cs : Differs(cs)' = Differs(cs)
BY DEF IsAltered, OneAltered, Differs

\* Somebody else's step.
LEMMA QuietAudits ==
  ASSUME AuditInv, moved' \in BOOLEAN, moved => moved', Running /\ ~moved' => tree' = "exact",
         subject # Gone => UNCHANGED <<package, pc>>,
         UNCHANGED <<subject, altered, lost, extra, at, held, found, read, passes, fails,
                     named, tools, touches, touched>>
  PROVE  AuditInv'
<1>1. AuditTypeOK'
  BY DEF AuditInv, AuditTypeOK
<1>2. TakenInv'
  BY DEF AuditInv, TakenInv, Running, Complete
<1>3. ReadInv'
  BY DEF AuditInv, ReadInv, Running, Past
<1>4. CommitInv'
  BY SameFacts DEF AuditInv, CommitInv, Trusting, SettledBefore, Built
<1>5. VouchedInv' /\ CaughtInv'
  <2>1. /\ \A f : IsAltered(f)' = IsAltered(f)
        /\ \A fs : OneAltered(fs)' = OneAltered(fs)
        /\ \A cs : Differs(cs)' = Differs(cs)
        /\ \A t : Past(t)' = Past(t)
    BY SameFacts DEF Past
  <2>2. Vouched => Vouched'
    BY <2>1 DEF Vouched
  <2>3. Caught => Caught'
    BY <2>1, <2>2 DEF Caught
  <2> QED BY <2>2, <2>3 DEF AuditInv, VouchedInv, CaughtInv, Running
<1>6. GenuineInv'
  <2>1. Running => UNCHANGED <<package, pc>>
    BY DEF AuditInv, TakenInv
  <2> QED BY <2>1 DEF AuditInv, GenuineInv, Genuine, Running
<1> QED BY <1>1, <1>2, <1>3, <1>4, <1>5, <1>6 DEF AuditInv

\* Once the builders' calls have ended only the checkout is edited.
LEMMA BuildAudits ==
  ASSUME AuditInv, IInv, Build
  PROVE  AuditInv'
<1>1. Next /\ moved' = (moved \/ tree' # "exact")
  BY DEF Build
<1>2. subject # Gone => UNCHANGED <<package, pc>>
  <2> SUFFICES ASSUME subject # Gone PROVE UNCHANGED <<package, pc>>
    OBVIOUS
  <2>1. \A b \in Builders : pc[b] = "done"
    BY DEF AuditInv, TakenInv
  <2>2. \A b \in Builders : ~Step(b)
    BY <2>1 DEF Step, CheckIdentity, CheckNames, Stage, StagesDone, PostCheck, WriteChecksums,
       WriteManifest, Publish, Return, Raise, Mark, MarkFails, Retain, Killed, At
  <2> QED BY <1>1, <2>2 DEF Next, Edit, names
<1>3. moved' \in BOOLEAN /\ (moved => moved') /\ (~moved' => tree' = "exact")
  BY <1>1 DEF AuditInv, AuditTypeOK
<1> QED BY <1>2, <1>3, QuietAudits DEF Build

\* A taken directory is a staging directory that was renamed, or left where it was.
LEMMA TakeAudits ==
  ASSUME AuditInv, IInv, Take
  PROVE  AuditInv'
<1>1. /\ subject = Gone /\ \A b \in Builders : pc[b] = "done"
      /\ altered' \in MadeDiffers(subject') /\ extra' = ("build_failed" \in subject'.files)
      /\ named' \in BOOLEAN /\ tools' \in BOOLEAN
      /\ UNCHANGED <<vars, lost, at, held, found, read, passes, fails, touches, touched, moved>>
  BY DEF Take
<1>2. at = "waiting" /\ at' = "waiting" /\ UNCHANGED pc
  BY <1>1 DEF AuditInv, TakenInv, Running, vars
<1>3. subject' \in Directories /\ Complete(subject')
  <2>1. \/ subject' \in {package, failed}
        \/ \E b \in Builders : staging[b] # Gone /\ subject' = staging[b]
    BY DEF Take
  <2>2. /\ package \in Directories /\ failed \in Directories
        /\ \A b \in Builders : staging[b] # Gone => staging[b] \in Directories
        /\ Complete(package) /\ Complete(failed) /\ \A b \in Builders : Complete(staging[b])
    BY DEF IInv, TypeOK, BuilderInv
  <2> QED BY <2>1, <2>2
<1>4. altered' \subseteq Items /\ ("edited" \notin subject'.seen => altered' = {})
  <2>1. \A f \in FrozenInputs \cup GateOutputs \cup Distributions : Consistently(f) \subseteq Items
    BY ProductsAreRecords, ConsistentItems
  <2>2. "wheel" \in Distributions /\ "sdist" \in Distributions
    BY DEF Distributions
  <2> QED BY <1>1, <2>1, <2>2 DEF MadeDiffers
<1>5. AuditTypeOK'
  BY <1>1, <1>3, <1>4 DEF AuditInv, AuditTypeOK
<1>6. TakenInv'
  BY <1>1, <1>2, <1>3, <1>4 DEF AuditInv, TakenInv, Running
<1>7. CommitInv'
  BY <1>2 DEF CommitInv, Trusting, Gates
<1>8. ReadInv' /\ VouchedInv' /\ CaughtInv' /\ GenuineInv'
  BY <1>2 DEF ReadInv, VouchedInv, CaughtInv, GenuineInv, Running
<1> QED BY <1>5, <1>6, <1>7, <1>8 DEF AuditInv

\* A change of the directory during the call is the last one before no later step.
LEMMA TouchAudits ==
  ASSUME AuditInv, Touch
  PROVE  AuditInv'
<1>1. /\ at # "done" /\ touches < MaxTouches /\ touches' = touches + 1 /\ touched' = at
      /\ subject # Gone
      /\ UNCHANGED <<vars, subject, at, held, found, read, passes, fails, named, tools, moved>>
  BY DEF Touch, Ordinary
<1>2. altered' \subseteq Items /\ lost' \subseteq Records /\ extra' \in BOOLEAN
  BY ConsistentItems DEF Touch, AuditInv, AuditTypeOK
<1>3. touches \in Nat /\ touches' \in 0..MaxTouches /\ touches' # 0
  BY <1>1, TouchesAssumption DEF AuditInv, AuditTypeOK
<1>4. AuditTypeOK'
  BY <1>1, <1>2, <1>3 DEF AuditInv, AuditTypeOK
<1>5. TakenInv'
  BY <1>1, <1>3 DEF AuditInv, TakenInv, Running, vars, Complete
<1>6. ReadInv'
  BY <1>1, <1>3 DEF AuditInv, ReadInv, Running, vars
<1>7. /\ (at = "source_zip" /\ fails = {})' \/ Trusting' => ~SettledBefore("bundle")'
      /\ Trusting' => ~SettledBefore("source_zip")' /\ ~SettledBefore("distribution_provenance")'
  BY <1>1, IndexOf DEF Trusting, SettledBefore
<1>8. CommitInv'
  BY <1>1, <1>7 DEF AuditInv, CommitInv, Trusting, Differs
<1>9. VouchedInv' /\ CaughtInv'
  BY <1>1 DEF VouchedInv, CaughtInv, Running
<1>10. GenuineInv'
  BY <1>3 DEF GenuineInv, Genuine
<1> QED BY <1>4, <1>5, <1>6, <1>8, <1>9, <1>10 DEF AuditInv

\* What was published from the exact checkout is whole and says nothing of a failure.
LEMMA GenuineIs ==
  ASSUME AuditInv, IInv, subject # Gone,
         subject = package, subject.seen = {"exact"}, touches = 0
  PROVE  /\ "manifest" \in subject.files
         /\ altered = {} /\ lost = {} /\ ~extra
<1>1. final # Nobody
  BY DEF IInv, Empty
<1>2. "manifest" \in package.files /\ "build_failed" \notin package.files
  BY <1>1 DEF IInv, PackageIsExact
<1>3. lost = {} /\ altered = {} /\ (extra <=> "build_failed" \in subject.files)
  BY DEF AuditInv, TakenInv
<1> QED BY <1>2, <1>3

LEMMA ReadAudits ==
  ASSUME AuditInv, IInv, ReadManifest,
         UNCHANGED <<vars, subject, altered, lost, extra, named, tools, touches, touched>>
  PROVE  AuditInv'
<1>1. /\ at = "waiting" /\ subject # Gone /\ fails = {} /\ touched = "waiting" /\ read = {}
      /\ held' = {i \in altered : i[1] \in {"declared", "claim"}}
      /\ moved' = (tree # "exact") /\ UNCHANGED <<found, read>>
  BY DEF ReadManifest, AuditInv, TakenInv, Running
<1>2. \/ /\ at' = "done" /\ fails' # {}
         /\ "manifest" \notin subject.files \/ Claim("form") \in altered
      \/ /\ at' = "declared_files" /\ fails' = {}
         /\ "manifest" \in subject.files /\ Claim("form") \notin altered
  BY <1>1 DEF ReadManifest, Record
<1>3. fails' \subseteq Checks /\ passes' \subseteq Checks /\ passes' \cap fails' = {}
  <2>1. {"manifest", "manifest_schema"} \subseteq Checks
    BY StepsAre DEF Checks
  <2>2. \E checks, bad \in SUBSET {"manifest", "manifest_schema"} : Record(checks, bad)
    BY DEF ReadManifest
  <2> QED BY <2>1, <2>2, RecordTypes DEF AuditInv
<1>4. AuditTypeOK'
  BY <1>1, <1>2, <1>3, StepsAre DEF AuditInv, AuditTypeOK
<1>5. TakenInv'
  BY <1>1, <1>2 DEF AuditInv, TakenInv, Running, vars, Complete
<1>6. \A t \in Steps : at' = "declared_files" /\ Past(t)' => t = "manifest"
  BY IndexOf, StepsAre DEF Past
<1>7. ReadInv'
  BY <1>1, <1>2, <1>6, StepsAre DEF ReadInv, Running, vars
<1>8. CommitInv'
  BY <1>2 DEF CommitInv, Trusting, Gates
<1>9. VouchedInv' /\ CaughtInv'
  <2> SUFFICES ASSUME fails' = {} PROVE Vouched' /\ Caught'
    BY DEF VouchedInv, CaughtInv
  <2> QED BY <1>1, <1>2, <1>6, StepsAre DEF Vouched, Caught
<1>10. GenuineInv'
  <2> SUFFICES ASSUME Genuine'
               PROVE  /\ fails' = {} /\ altered = {} /\ lost = {} /\ ~extra /\ held' = {}
                      /\ read' = {} /\ at' = "declared_files"
    BY DEF GenuineInv
  <2>1. subject = package /\ subject.seen = {"exact"} /\ touches = 0
    BY DEF Genuine, vars, names
  <2>2. altered = {} /\ lost = {} /\ ~extra /\ "manifest" \in subject.files
    BY <1>1, <2>1, GenuineIs
  <2> QED BY <1>1, <1>2, <2>2
<1> QED BY <1>4, <1>5, <1>7, <1>8, <1>9, <1>10 DEF AuditInv

LEMMA UnexpectedAudits ==
  ASSUME AuditInv, Unexpected,
         UNCHANGED <<vars, subject, altered, lost, extra, named, tools, touches, touched>>
  PROVE  AuditInv'
<1>1. /\ Running /\ at' = "done" /\ ~tools /\ passes' = {} /\ fails' = {"internal"}
      /\ UNCHANGED <<held, found, read, moved>>
  BY DEF Unexpected, Running
<1>2. AuditTypeOK'
  BY <1>1, StepsAre DEF AuditInv, AuditTypeOK, Checks
<1>3. TakenInv'
  BY <1>1 DEF AuditInv, TakenInv, Running, vars, Complete
<1>4. ReadInv'
  BY <1>1 DEF AuditInv, ReadInv, Running, vars
<1>5. CommitInv'
  BY <1>1 DEF CommitInv, Trusting, Gates
<1>6. VouchedInv' /\ CaughtInv' /\ GenuineInv'
  BY <1>1 DEF VouchedInv, CaughtInv, GenuineInv, Genuine
<1> QED BY <1>2, <1>3, <1>4, <1>5, <1>6 DEF AuditInv

\* What the checks record are results of theirs.
LEMMA CheckTypes ==
  ASSUME Check, AuditTypeOK
  PROVE  fails' \subseteq Checks /\ passes' \subseteq Checks /\ passes' \cap fails' = {}
<1>1. ASSUME NEW s, NEW checks \in SUBSET Checks, NEW wrong, NEW doubtful,
             Judge(s, checks, wrong, doubtful)
      PROVE  fails' \subseteq Checks /\ passes' \subseteq Checks /\ passes' \cap fails' = {}
  <2>1. PICK holds : Record(checks, IF holds THEN {} ELSE checks)
    BY <1>1 DEF Judge
  <2> QED BY <2>1, RecordTypes
<1>2. \A s \in Steps \ {"arguments", "install", "done"} : {s} \in SUBSET Checks
  BY DEF Checks
<1>3. {"timestamps", "isolated_install", "replay", "internal"} \subseteq Checks
  BY DEF Checks
<1>4. CASE CheckCommands
  <2>1. PICK bad \in SUBSET {"commands", "timestamps"} : Record({"commands", "timestamps"}, bad)
    BY <1>4 DEF CheckCommands
  <2> QED BY <1>2, <1>3, <2>1, StepsAre, RecordTypes
<1>5. CASE Install
  <2>1. PICK checks \in SUBSET {"isolated_install", "replay"},
             bad \in SUBSET {"isolated_install", "replay"} : Record(checks, bad)
    BY <1>5 DEF Install
  <2> QED BY <1>3, <2>1, RecordTypes
<1>6. CASE \/ CheckFiles \/ CheckTree \/ CheckArguments \/ CheckSchema \/ CheckChecksums
  BY <1>1, <1>2, <1>6, StepsAre DEF CheckFiles, CheckTree, CheckArguments, CheckSchema,
     CheckChecksums
<1>7. CASE \/ CheckPhases \/ CheckDeterminism \/ CheckCounts \/ CheckMatrix
  BY <1>1, <1>2, <1>7, StepsAre DEF CheckPhases, CheckDeterminism, CheckCounts, CheckMatrix
<1>8. CASE \/ CheckRepository \/ CheckBundle \/ CheckSourceZip
  BY <1>1, <1>2, <1>8, StepsAre DEF CheckRepository, CheckBundle, CheckSourceZip
<1>9. CASE \/ CheckProvenance \/ CheckMetadata \/ CheckSbom
  BY <1>1, <1>2, <1>9, StepsAre DEF CheckProvenance, CheckMetadata, CheckSbom
<1> QED BY <1>4, <1>5, <1>6, <1>7, <1>8, <1>9 DEF Check

LEMMA CheckAudits ==
  ASSUME AuditInv, IInv, Check,
         UNCHANGED <<vars, subject, altered, lost, extra, named, tools, touches, touched>>
  PROVE  AuditInv'
<1>1. /\ at \in Steps \ {"manifest", "done"} /\ Running /\ UNCHANGED <<held, moved>>
      /\ found' = IF at = "declared_files" THEN Records \ lost ELSE found
      /\ read' = IF at = "commands" THEN {Content("logs")} \cap altered ELSE read
      /\ fails \subseteq fails'
      /\ at' = IF After(at) \in Gates /\ fails' # {} THEN "done" ELSE After(at)
  BY CheckShape, StepsAre DEF Running
<1>2. at' \in Steps /\ at' # "waiting"
  BY <1>1, AfterIs, StepsAre
<1>3. fails' = {} => fails = {} /\ Passes /\ \A t \in Steps : Past(t)' <=> Past(t) \/ t = at
  BY <1>1, CheckPasses, PastIs
<1>4. /\ \A f : IsAltered(f)' = IsAltered(f)
      /\ \A fs : OneAltered(fs)' = OneAltered(fs)
      /\ \A cs : Differs(cs)' = Differs(cs)
  BY <1>1, SameFacts
<1>5. AuditTypeOK'
  BY <1>1, <1>2, CheckTypes DEF AuditInv, AuditTypeOK
<1>6. TakenInv'
  BY <1>1, <1>2 DEF AuditInv, TakenInv, Running, vars, Complete
<1>7. ReadInv'
  <2>1. touches = 0 /\ fails' = {} /\ Past("package_tree")' => ~extra
    BY <1>1, <1>3, StepsAre DEF AuditInv, ReadInv, Passes
  <2> QED BY <1>1, <1>3, <2>1 DEF AuditInv, ReadInv, Running, vars
<1>8. CommitInv'
  <2>1. at' \in Gates => fails' = {}
    BY <1>1 DEF Gates
  <2>2. (at' \in {"bundle", "source_zip"} /\ fails' = {}) \/ Trusting' =>
          \/ at = "repository" /\ fails' = {}
          \/ at \in {"bundle", "source_zip"} /\ fails' = {}
          \/ Trusting
    BY <1>1, <1>3, AfterIs, StepsAre DEF Trusting, Gates
  <2>3. (at' \in {"bundle", "source_zip"} /\ fails' = {}) \/ Trusting' =>
          ~Differs({"identity"})
    BY <2>2, <1>3 DEF AuditInv, CommitInv, Passes
  <2>4. (at' = "source_zip" /\ fails' = {}) \/ Trusting' =>
          \/ at \in {"bundle", "source_zip"} /\ fails' = {}
          \/ Trusting
    BY <1>1, <1>3, AfterIs, StepsAre DEF Trusting, Gates
  <2>5. (at' = "source_zip" /\ fails' = {}) \/ Trusting' =>
          (SettledBefore("bundle") => ~IsAltered("bundle"))
    BY <2>4, <1>3 DEF AuditInv, CommitInv, Passes
  <2>6. Trusting' => (at = "source_zip" /\ fails' = {}) \/ Trusting
    BY <1>1, <1>3, AfterIs, StepsAre DEF Trusting, Gates
  <2>7. Trusting' => (SettledBefore("source_zip") => ~IsAltered("source_zip"))
    BY <2>6, <1>3 DEF AuditInv, CommitInv, Passes
  <2>8. Trusting' /\ at' # "distribution_provenance" =>
          \/ at = "distribution_provenance" /\ fails' = {}
          \/ Trusting /\ at # "distribution_provenance"
    BY <1>1, <1>3, AfterIs, StepsAre DEF Trusting, Gates
  <2>9. Trusting' /\ at' # "distribution_provenance" =>
          (SettledBefore("distribution_provenance") => Built)
    BY <2>8, <1>3 DEF AuditInv, CommitInv, Passes, Built
  <2>10. /\ \A t : SettledBefore(t)' = SettledBefore(t)
         /\ Built' = Built
    BY <1>4 DEF SettledBefore, Built
  <2> QED BY <1>4, <2>1, <2>3, <2>5, <2>7, <2>9, <2>10 DEF CommitInv
<1>9. VouchedInv'
  <2> SUFFICES ASSUME fails' = {}, touched = "waiting" PROVE Vouched'
    BY <1>1 DEF VouchedInv
  <2>1. Vouched /\ Passes
    BY <1>1, <1>3 DEF AuditInv, VouchedInv
  <2>2. UNCHANGED <<altered, held, lost>> /\ \A f : IsAltered(f)' = IsAltered(f)
    BY <1>1, <1>4
  <2>3. \A t \in {"declared_files", "checksums"} : Past(t)' <=> Past(t) \/ t = at
    BY <1>3, StepsAre
  <2>4. (\A f \in Records : IsAltered(f) = (Declared(f) \in held)) =>
          \A f \in Records : IsAltered(f)' = (Declared(f) \in held)
    BY <2>2
  <2>5. held' = {i \in altered' : i[1] \in {"declared", "claim"}}
    BY <2>1, <2>2 DEF Vouched
  <2>6. Past("declared_files")' =>
          lost' = {} /\ \A f \in Records : IsAltered(f)' = (Declared(f) \in held')
    BY <2>1, <2>2, <2>3, <2>4 DEF Vouched, Passes
  <2>7. Past("checksums")' =>
          \A f \in Records \ {"checksums"} : (Listed(f) \in altered') = (Declared(f) \in held')
    BY <2>1, <2>2, <2>3 DEF Vouched, Passes
  <2> QED BY <2>5, <2>6, <2>7 DEF Vouched
<1>10. CaughtInv'
  <2> SUFFICES ASSUME fails' = {}, touched = "waiting", ~moved PROVE Caught'
    BY <1>1 DEF CaughtInv
  <2>1. Caught /\ Passes /\ tree = "exact"
    BY <1>1, <1>3 DEF AuditInv, CaughtInv, ReadInv
  <2>2. read' \subseteq {Content("logs")} \cap altered
    BY <1>1, <2>1 DEF Caught
  <2>3. Past("counts") \/ Past("matrix") \/ at = "counts" \/ at = "matrix" => read' = read
    BY <1>1, IndexOf DEF Past
  <2>4. \A t \in Steps : Past(t)' <=> Past(t) \/ t = at
    BY <1>3
  <2>5. Vouched'
    BY <1>2, <1>9 DEF VouchedInv, Running
  <2> QED BY <1>1, <1>4, <2>1, <2>2, <2>3, <2>4, <2>5, StepsAre DEF Caught, Passes
<1>11. GenuineInv'
  <2> SUFFICES ASSUME Genuine
               PROVE  /\ fails' = {} /\ read' = {}
                      /\ altered = {} /\ lost = {} /\ ~extra /\ held = {} /\ found' = Records
    BY <1>1 DEF GenuineInv, Genuine, vars, names
  <2>1. /\ fails = {} /\ altered = {} /\ lost = {} /\ ~extra /\ held = {} /\ read = {} /\ Ordered
        /\ tree = "exact" /\ named /\ tools
    BY <1>1 DEF AuditInv, GenuineInv, ReadInv, Genuine, Ordered
  <2>2. fails' = fails /\ read' = {}
    BY <2>1, GenuinePasses
  <2> QED BY <1>1, <2>1, <2>2 DEF Ordered
<1> QED BY <1>5, <1>6, <1>7, <1>8, <1>9, <1>10, <1>11 DEF AuditInv

LEMMA InitAudits == AuditInit => AuditInv
<1> SUFFICES ASSUME AuditInit PROVE AuditInv
  OBVIOUS
<1>1. AuditTypeOK
  <2>1. 0 \in 0..MaxTouches
    BY TouchesAssumption
  <2> QED BY <2>1 DEF AuditInit, AuditTypeOK
<1>2. TakenInv /\ ReadInv /\ VouchedInv /\ CaughtInv /\ GenuineInv
  BY DEF AuditInit, TakenInv, ReadInv, VouchedInv, CaughtInv, GenuineInv, Running
<1>3. CommitInv
  BY DEF AuditInit, CommitInv, Trusting, Gates
<1> QED BY <1>1, <1>2, <1>3 DEF AuditInv

\* Under the verifier the builders behave as they do alone.
LEMMA AuditIsBuild == AuditSpec => Spec
<1>1. AuditInit => Init
  BY DEF AuditInit
<1>2. [AuditNext]_allVars => [Next]_vars
  BY DEF AuditNext, allVars, Build, Take, Touch, Audit
<1> HIDE DEF Init, Next, vars, AuditInit, AuditNext, allVars
<1> QED BY <1>1, <1>2, PTL DEF AuditSpec, Spec

LEMMA AuditKeeps == AuditInv /\ IInv /\ [AuditNext]_allVars => AuditInv'
<1> SUFFICES ASSUME AuditInv, IInv, [AuditNext]_allVars PROVE AuditInv'
  OBVIOUS
<1>1. CASE UNCHANGED allVars
  <2>1. moved' = moved /\ tree' = tree /\ moved \in BOOLEAN /\ UNCHANGED <<package, pc>>
    BY <1>1 DEF allVars, auditVars, vars, names, AuditInv, AuditTypeOK
  <2>2. Running /\ ~moved' => tree' = "exact"
    BY <2>1 DEF AuditInv, ReadInv
  <2> QED BY <1>1, <2>1, <2>2, QuietAudits DEF allVars, auditVars
<1>2. CASE Audit
  BY <1>2, ReadAudits, CheckAudits, UnexpectedAudits DEF Audit
<1> QED BY <1>1, <1>2, BuildAudits, TakeAudits, TouchAudits DEF AuditNext

LEMMA AuditInvariance == AuditSpec => [](AuditInv /\ IInv)
<1> HIDE DEF AuditInit, AuditNext, allVars, AuditInv, IInv, Spec
<1>1. AuditSpec => []IInv
  BY AuditIsBuild, Invariance, PTL
<1>2. AuditSpec => []AuditInv
  BY <1>1, InitAudits, AuditKeeps, PTL DEF AuditSpec
<1> QED BY <1>1, <1>2, PTL

-----------------------------------------------------------------------------
\* Every variable of the verification keeps its type, and nothing that failed is ever
\* recorded as passed (_State.pass_check).
THEOREM AuditTypeCorrect == AuditSpec => []AuditTypeOK
<1>1. AuditInv => AuditTypeOK
  BY DEF AuditInv
<1> HIDE DEF AuditInv, IInv, AuditTypeOK, AuditSpec
<1> QED BY <1>1, AuditInvariance, PTL

\* Past its comparison with the commit what is built from and run is still what was
\* compared, unless the directory was changed since; and whatever else is not the
\* commit's was rewritten throughout the package (the gates of verify_package).
THEOREM ComparedBeforeRun == AuditSpec => []RunsWhatWasCompared
<1>1. AuditInv => RunsWhatWasCompared
  <2> SUFFICES ASSUME AuditInv, Trusting
               PROVE  /\ SettledBefore("bundle") => ~IsAltered("bundle")
                      /\ SettledBefore("source_zip") => ~IsAltered("source_zip")
                      /\ Past("distribution_provenance")
                           /\ SettledBefore("distribution_provenance") => Built
                      /\ touched = "waiting" =>
                           \A f \in Records \ {"checksums"} :
                             IsAltered(f) => Consistently(f) \subseteq altered
    BY DEF RunsWhatWasCompared, Trusting, Built
  <2>1. /\ SettledBefore("bundle") => ~IsAltered("bundle")
        /\ SettledBefore("source_zip") => ~IsAltered("source_zip")
    BY DEF AuditInv, CommitInv
  <2>2. Past("distribution_provenance") => at # "distribution_provenance"
    BY IndexOf DEF Past
  <2>3. Past("distribution_provenance") /\ SettledBefore("distribution_provenance") => Built
    BY <2>2 DEF AuditInv, CommitInv
  <2>4. ASSUME touched = "waiting", NEW f \in Records \ {"checksums"}, IsAltered(f)
        PROVE  Consistently(f) \subseteq altered
    <3>1. Running /\ fails = {} /\ Past("declared_files") /\ Past("checksums")
      BY IndexOf, StepsAre DEF Trusting, Running, Past
    <3>2. /\ held \subseteq altered
          /\ \A g \in Records : IsAltered(g) = (Declared(g) \in held)
          /\ \A g \in Records \ {"checksums"} : (Listed(g) \in altered) = (Declared(g) \in held)
      BY <2>4, <3>1 DEF AuditInv, VouchedInv, Vouched
    <3>3. Declared(f) \in held /\ Listed(f) \in altered /\ Content(f) \in altered
      BY <2>4, <3>2 DEF IsAltered
    <3>4. "checksums" \in Records /\ IsAltered("checksums")
      BY <3>3 DEF Records, IsAltered
    <3> QED BY <3>2, <3>3, <3>4 DEF Consistently
  <2> QED BY <2>1, <2>3, <2>4
<1> HIDE DEF AuditInv, IInv, RunsWhatWasCompared, AuditSpec
<1> QED BY <1>1, AuditInvariance, PTL

\* What is accepted has the evidence of every stage, its checksums and its manifest, and
\* no mark of a failure (the marker of _failed_attempt_path is a file nothing declares).
THEOREM UnfinishedRefused == AuditSpec => []UnfinishedIsRefused
<1>1. AuditInv => UnfinishedIsRefused
  <2> SUFFICES ASSUME AuditInv, Accepted, touches = 0
               PROVE  /\ StageNames \cup {"manifest", "checksums"} \subseteq subject.files
                      /\ "build_failed" \notin subject.files
    BY DEF UnfinishedIsRefused
  <2>1. Running /\ fails = {} /\ at = "done"
    BY DEF Running, Accepted
  <2>2. subject # Gone /\ Complete(subject) /\ "manifest" \in subject.files
    BY <2>1 DEF AuditInv, TakenInv, ReadInv
  <2>3. Past("package_tree")
    BY <2>1, IndexOf, StepsAre DEF Past
  <2>4. ~extra
    BY <2>1, <2>3 DEF AuditInv, ReadInv
  <2> QED BY <2>2, <2>4 DEF AuditInv, TakenInv, Complete
<1> HIDE DEF AuditInv, IInv, UnfinishedIsRefused, AuditSpec
<1> QED BY <1>1, AuditInvariance, PTL

\* A package that was published from a tree that stayed exact is accepted: no check has
\* anything to object to it.
THEOREM GenuineAccepted == AuditSpec => []GenuineIsAccepted
<1>1. AuditInv => GenuineIsAccepted
  BY DEF AuditInv, GenuineInv, Genuine, Running, GenuineIsAccepted, Accepted
<1> HIDE DEF AuditInv, IInv, GenuineIsAccepted, AuditSpec
<1> QED BY <1>1, AuditInvariance, PTL

-----------------------------------------------------------------------------
(* One change is caught: there are finitely many items, and each has a     *)
(* check that would not have passed.                                       *)

LEMMA FourAreFinite == ASSUME NEW v, NEW w, NEW x, NEW y PROVE IsFiniteSet({v, w, x, y})
<1> DEFINE A == {v} \cup {w}
           B == {x} \cup {y}
<1>1. IsFiniteSet(A) /\ IsFiniteSet(B)
  BY FS_Singleton, FS_Union
<1>2. {v, w, x, y} = A \cup B
  OBVIOUS
<1> HIDE DEF A, B
<1>3. IsFiniteSet(A \cup B)
  BY <1>1, FS_Union
<1> QED BY <1>2, <1>3

LEMMA RecordsAreFinite == IsFiniteSet(Records)
<1>1. /\ IsFiniteSet(FrozenInputs) /\ IsFiniteSet(GateOutputs) /\ IsFiniteSet(GitProducts)
      /\ IsFiniteSet(Distributions) /\ IsFiniteSet({"logs", "checksums"})
  <2>1. {"bundle", "source_zip"} = {"bundle", "bundle", "source_zip", "source_zip"}
        /\ {"logs", "checksums"} = {"logs", "logs", "checksums", "checksums"}
    OBVIOUS
  <2> QED BY <2>1, FourAreFinite DEF FrozenInputs, GateOutputs, GitProducts, Distributions
<1> DEFINE A == FrozenInputs \cup GateOutputs
           B == GitProducts \cup Distributions
           C == B \cup {"logs", "checksums"}
<1>2. IsFiniteSet(A) /\ IsFiniteSet(B)
  BY <1>1, FS_Union
<1>3. IsFiniteSet(C)
  <2> HIDE DEF B
  <2> QED BY <1>1, <1>2, FS_Union
<1>4. IsFiniteSet(A \cup C)
  <2> HIDE DEF A, C
  <2> QED BY <1>2, <1>3, FS_Union
<1>5. \A s \in StageNames : StageFiles(s) \subseteq A \cup C
  BY DEF StageFiles
<1>6. Records \subseteq A \cup C
  BY <1>5 DEF Records
<1> QED BY <1>4, <1>6, FS_Subset

LEMMA ItemsAreFinite == IsFiniteSet(Items)
<1> DEFINE kinds == {"content", "declared", "listed", "claim"}
           firsts == {"form", "identity", "commands", "counts"}
           seconds == {"matrix", "archive", "bundle", "version"}
           thirds == {"epoch", "sbom", "free", "free"}
<1>1. IsFiniteSet(kinds) /\ IsFiniteSet(firsts) /\ IsFiniteSet(seconds) /\ IsFiniteSet(thirds)
  BY FourAreFinite
<1>2. Claims = (firsts \cup seconds) \cup thirds
  BY DEF Claims
<1>3. IsFiniteSet(Claims)
  <2> HIDE DEF firsts, seconds, thirds
  <2>1. IsFiniteSet(firsts \cup seconds)
    BY <1>1, FS_Union
  <2> QED BY <1>1, <1>2, <2>1, FS_Union
<1>4. IsFiniteSet(Records \cup Claims)
  BY <1>3, RecordsAreFinite, FS_Union
<1>5. IsFiniteSet(kinds \X (Records \cup Claims))
  <2> HIDE DEF kinds
  <2> QED BY <1>1, <1>4, FS_Product
<1>6. Items \subseteq kinds \X (Records \cup Claims)
  BY DEF Items, Content, Declared, Listed, Claim
<1> QED BY <1>5, <1>6, FS_Subset

\* Of a set that counts for one, there is one element.
LEMMA OneOf ==
  ASSUME NEW S \in SUBSET Items, NEW T \in SUBSET Records, NEW x \in {0, 1},
         Cardinality(S) + Cardinality(T) + x = 1
  PROVE  \/ (\E i \in Items : S = {i}) /\ T = {} /\ x = 0
         \/ S = {} /\ T # {} /\ x = 0
         \/ S = {} /\ T = {} /\ x = 1
<1>1. IsFiniteSet(S) /\ IsFiniteSet(T)
  BY ItemsAreFinite, RecordsAreFinite, FS_Subset
<1>2. Cardinality(S) \in Nat /\ Cardinality(T) \in Nat
  BY <1>1, FS_CardinalityType
<1>3. /\ Cardinality(S) = 0 <=> S = {}
      /\ Cardinality(T) = 0 <=> T = {}
      /\ Cardinality(S) = 1 => \E i : S = {i}
  BY <1>1, FS_EmptySet, FS_Singleton
<1>4. \/ Cardinality(S) = 1 /\ Cardinality(T) = 0 /\ x = 0
      \/ Cardinality(S) = 0 /\ Cardinality(T) # 0 /\ x = 0
      \/ Cardinality(S) = 0 /\ Cardinality(T) = 0 /\ x = 1
  BY <1>2
<1> QED BY <1>3, <1>4

\* One altered item is noticed by the check that compares it with others.
LEMMA ItemIsNoticed ==
  ASSUME Caught, at = "done", NEW i \in Items, altered = {i}, i # Claim("free")
  PROVE  FALSE
<1>1. \A t \in Steps \ {"done"} : Past(t)
  BY IndexOf, StepsAre DEF Past
<1>2. \A f \in Records : IsAltered(f) = (Declared(f) \in held)
  BY <1>1, StepsAre DEF Caught, Vouched
<1>3. held = {j \in {i} : j[1] \in {"declared", "claim"}}
  BY DEF Caught, Vouched
<1>4. "checksums" \in Records
  BY DEF Records
<1>5. CASE \E f \in Records \ {"checksums"} : i = Content(f)
  <2>1. PICK f \in Records \ {"checksums"} : i = Content(f)
    BY <1>5
  <2>2. IsAltered(f) /\ Declared(f) \notin held
    BY <1>3, <2>1 DEF IsAltered, Content, Declared
  <2> QED BY <1>2, <2>1, <2>2
<1>6. CASE \E f \in Records \ {"checksums"} : i = Listed(f)
  <2>1. PICK f \in Records \ {"checksums"} : i = Listed(f)
    BY <1>6
  <2>2. IsAltered("checksums") /\ Declared("checksums") \notin held
    BY <1>3, <2>1 DEF IsAltered, Listed, Declared
  <2> QED BY <1>2, <1>4, <2>2
<1>7. CASE \E f \in Records : i = Declared(f)
  <2>1. PICK f \in Records : i = Declared(f)
    BY <1>7
  <2>2. Declared(f) \in held
    BY <1>3, <2>1 DEF Declared
  <2>3. ~IsAltered(f)
    BY <2>1 DEF IsAltered, Content, Declared, Listed
  <2> QED BY <1>2, <2>2, <2>3
<1>8. CASE \E c \in Claims : i = Claim(c)
  <2>1. PICK c \in Claims : i = Claim(c)
    BY <1>8
  <2>2. held = {Claim(c)}
    BY <1>3, <2>1 DEF Claim
  <2>3. \A f \in Records : ~IsAltered(f)
    BY <2>1 DEF IsAltered, Content, Listed, Claim
  <2>4. \A fs \in SUBSET Records : ~OneAltered(fs)
    BY <2>3 DEF OneAltered
  <2>5. \A cs : Differs(cs) <=> c \in cs
    BY <2>2 DEF Differs, Claim
  <2>6. read = {}
    BY <2>1 DEF Caught, Claim, Content
  <2>7. /\ {"junit", "outputs_1"} \subseteq Records /\ {"wheel", "sdist"} \subseteq Records
        /\ {"logs", "matrix_junit", "source_zip"} \subseteq Records
    BY ProductsAreRecords DEF GateOutputs, Distributions, GitProducts, Records
  <2>8. /\ Claim("form") \notin altered
        /\ ~Differs({"commands"}) /\ ~Differs({"counts"}) /\ ~Differs({"matrix"})
        /\ ~Differs({"identity"}) /\ ~Differs({"bundle"}) /\ ~Differs({"archive"})
        /\ ~Differs({"epoch"}) /\ ~Differs({"version", "sbom"})
    BY <1>1, <2>3, <2>4, <2>6, <2>7, StepsAre DEF Caught
  <2>9. c \in {"form", "free"}
    BY <2>5, <2>8 DEF Claims
  <2> QED BY <2>1, <2>8, <2>9
<1> QED BY <1>5, <1>6, <1>7, <1>8 DEF Items

\* One change to a finished package, made before the call, is enough to have it refused:
\* every item has a check that compares it with something else.
THEOREM OneChangeRefused == AuditSpec => []OneChangeIsRefused
<1>1. AuditInv => OneChangeIsRefused
  <2> SUFFICES ASSUME AuditInv, OneChange, touched = "waiting", ~moved, Accepted
               PROVE  FALSE
    BY DEF OneChangeIsRefused
  <2>1. Caught /\ at = "done" /\ altered \in SUBSET Items /\ lost \in SUBSET Records
    BY DEF AuditInv, CaughtInv, AuditTypeOK, Accepted, Running
  <2>2. Past("declared_files") /\ Past("package_tree")
    BY <2>1, IndexOf, StepsAre DEF Past
  <2>3. lost = {} /\ ~extra
    BY <2>1, <2>2 DEF Caught, Vouched
  <2>4. PICK i \in Items : altered = {i}
    BY <2>1, <2>3, OneOf DEF OneChange
  <2> QED BY <2>1, <2>4, ItemIsNoticed DEF OneChange
<1> HIDE DEF AuditInv, IInv, OneChangeIsRefused, AuditSpec
<1> QED BY <1>1, AuditInvariance, PTL
===============================================================================
