# NormShift in TLA+

NormShift compares versions of a normative document: it extracts requirements from each
version, aligns them, classifies what changed, follows requirements through several versions
as lineages, and writes artifacts whose bytes can be re-derived and verified.  It is a
sequential Python program.  What is hard about it is not concurrency inside one process but
(a) files: several outputs that must appear together, or not at all, whatever fails, is
interrupted or stops; inputs that must not change between being checked and being used; and
(b) greedy algorithms in several passes over tied or near-tied scores, where a later pass
depends on what an earlier one claimed.

All paths below are relative to the package, `src/normshift/`.

## Components

| Component | State it keeps | Operations | Interacts with | Hard parts |
|---|---|---|---|---|
| Output transactions (`io_safety.py`) | files and directories on disk; lists of temporaries, backups, new finals, created directories | `assert_outputs_safe`, `write_transaction` | called by every command that writes | failures in every step, also of the rollback; interrupts; power loss |
| Alignment (`align/aligner.py`) | matched olds and news | `align_requirements` | called by split/merge detection and by the diff pipeline | ties, margins, the order of visits |
| Splits and merges (`align/multi.py`) | none (pure) | `align_with_multiplicity` | called by the lineage builder | overlapping claims |
| Lineage builder (`lineage/builder.py`) | nodes, edges, claimed olds and news, `prev_lineage` | `build_lineage_graph_from_sources` | uses alignment; its output is replayed by verification | four passes that must not contradict one another |
| Lineage and semantic-dimension replay (`lineage/verify.py`, `semantic_dimensions/authority.py`) | captured snapshots | verify a graph against its sources | reads files twice | a file changing between the two readings |
| Source acquisition (`corpus/acquisition.py`) | output root: artifacts, provenance, manifest | `acquire_corpus`, `verify_corpus_offline` | output transactions | partial results, restarts, stale inventory |
| Evidence inventory (`corpus/evidence_inventory.py`, `header_sanitization.py`) | an evidence root of listed files under one anchored digest; two scans of it | `sanitize_header_tree`, `verify_source_recipe_evidence` | acquisition (the manifest) | files read several times by path between two scans |
| Governance (`governance/`) | chains of decision ledgers, each retaining the one before | `verify_labeling_governance`, `verify_blind_split` | acquisition, acceptance | order in time, independence of reviewers, rewritten history |
| Acceptance scorer (`acceptance/`) | none; three frozen documents that name each other's digests | `score_acceptance` | governance | claims without a label, empty ratios, documents that change apart |
| Package build and verification (`audit/`) | staging directory, published package; the errors and checks of a verification | `build_authoritative_package`, `verify_package`, normalise a wheel | all evidence; the verifier reads what the builder left | concurrent builders, publication; checks that re-read files, and are skipped once another failed |
| Classifier and pipeline (`classify/`, `pipeline.py`, `verify/`, `report/`) | sources, sidecars and reports on disk; snapshots | `run_diff`, `verify_report_file` | alignment | precedence of classes; inputs read one after another; replays of copies |
| Definitions (`definition_transitions/`, `definition_reference_candidates/`) | none (pure) | build, verify | lineage | repeated terms |
| Adapters, extraction, normalisation | none (pure) | parse markup to requirements | pipeline | text processing |
| Measurement, benchmark, command line | none | run the pipeline and report | all | exit codes |

What makes each component correct:

* output transactions: all outputs or none; former bytes never lost; a clean rollback is exact; every
  call ends;
* alignment, splits and merges, lineages: nothing matched twice, nothing lost, every identity with
  evidence, no dependence on the order of the input;
* replay verification: what was verified is what was on disk, all of it at one moment;
* acquisition: success only over a complete, pinned corpus; nothing is ever repaired or written over;
* package build: a manifest only beside complete evidence of the exact commit; one package for a run;
* governance: labels were decided in time, by independent people, and are never rewritten;
* package verification: what the commit is compared with is compared before it is built from, installed
  or accepted; no single change is accepted; what a builder published is accepted;
* evidence: a verified root is the anchored one and did not move; what is sensitive leaves no trace;
* diff: a report tells what became of every requirement once, a pair read backwards is classified as the
  mirror image, and a report verifies exactly if its sources give it;
* scorer: every error is counted once, and a better candidate never fares worse.

## Modules

| Module | Models | State and actions against the code |
|---|---|---|
| `OutputCommit` | the promise of `write_transaction` | `result`, `out`, `kept`; `Commit`, `Abort`, `Tear`, each one step |
| `WriteTransaction` | `io_safety.write_transaction` | `disk` (final, temporary and backup name of each output), `images` (what each directory may show after a power loss, narrowed by `fsync_dir`), the lists `temps`, `backups`, `newly`, `created`, `to_sync`; one action per loop iteration of staging, backup, install, clean-up and of the rollback, an action for each of them raising, `Interrupt` (a KeyboardInterrupt: only `finally` runs) and `Crash` |
| `Alignment` | `align_requirements` | `todo` (candidates not visited), `match`, `score`, `distinct`; `Consider` visits the next candidate in the sort order |
| `Multiplicity` | `align_with_multiplicity` | pure operators: exclusive children, splits, parents, merges |
| `LineageBuild` | one pair of versions in `build_lineage_graph_from_sources` | `nodes`, `edges`, `lineage`, `claimed_olds`, `claimed_news`, `phase`; one action per item of the split, merge, one-to-one, leftover-old and leftover-new loops, `Validate` |
| `Acquisition` | `acquire_corpus`, `verify_corpus_offline` | for each process a program counter, its inventory and its transaction; the shared root; `Invoke`, scan, fetch, the transaction at the grain of files, inventory, replay, `Killed`, and outside disturbances |
| `StableRead` | `read_bounded_regular_file` | stat, open, fstat, one action per chunk, fstat, stat; `Write` and `Rename` by others; a clock that need not tick between writes |
| `SourceReplay` | `verify_lineage_graph_file` | `ReadGraph`, `Capture` (per document), `Replay`, `Reread` (per document), writes, renames and backdating by others |
| `PackageBuild` | `build_authoritative_package` | builders of one run ID with staging directories of their own, the final and the failure name, the checkout; identity check, names, eight stages, post-check, checksums, manifest, publication, failure handling, `Killed` |
| `PackageVerify` | `verify_package` and `main` of `audit/package_verify.py`, on what `PackageBuild` left | the items of the directory that are altered, lost or extra, the altered part of the manifest that was read, `passes` and `fails` (`_State`); `Take` (a package, a failed attempt or a dead builder's staging directory is taken to be verified), `Touch` (others change it), one action per check, in their order, with the gates between them |
| `HeaderSanitization` | `sanitize_header_bytes`, `validate_sanitized_header_bytes` | pure operators over the kinds of lines |
| `EvidenceRoot` | `sanitize_header_tree`, `verify_source_recipe_evidence` | each file as its content (as anchored or not) and its mark (device, inode, size, times); the call is the sequence of what it does (`Call`): scans, looks, loads, digests, comparisons, and a second verification; others write, replace, put back, add, also without a trace |
| `Classifier` | `classify_pair`, and the scores of `score_pair` | pure operators over requirements; one operator per guard, in its precedence |
| `DiffReport` | `run_diff`, `verify_report_file` | sources, sidecars and the report on disk, `got` (the snapshots), the alignment's variables; reading each source and its sidecar, extracting, aligning step by step, writing; reading a report, resolving its sources or the ones given instead, replaying, comparing; others replace any of the files |
| `Scorer` | `score_acceptance` | the scorer's files, gold and predictions; `Score`, with its bindings and the counts, support and ratios of each gate; corrections, new predictions and edits by others |
| `LabelCustody` | `verify_labeling_governance` and the validators of its models | `book` of frozen ledgers, the `draft` in work; curators hold rounds, decide, rewrite entries, freeze; `Accepts` is the verification |

`PackageVerify` extends `PackageBuild`: the builders run to their ends and the verifier meets what they
left, marked, unmarked or half-written. `EvidenceRoot` extends `HeaderSanitization`, whose output is one
of its files. `DiffReport` extends `Alignment` and `Classifier`: the alignment runs step by step on the
scores that the classifier module computes, once for the diff and once for its verification.

`LineageBuild` extends `Multiplicity`, which extends `Alignment`: the alignment runs step by step, the
multiplicity functions are evaluated on its result, and the placement loops follow, as in the code.
`Acquisition` uses the transaction at the grain of whole files (what power loss does to it is
`WriteTransaction`'s subject); `SourceReplay` takes one bounded read as one step, which `StableRead`
justifies as long as nothing is written within the resolution of the clock. Each `MC*` module gives
the constants their small values. `*Proofs` modules hold the proofs.

Operators whose comment begins "Faulty variant" are deliberate mistakes, one for every property: put in
place of the definition that follows them, they make TLC report that property as violated. They show
that the property depends on the code.

## What the runs check

| Run | Instance | Shows |
|---|---|---|
| `WriteTransaction.cfg` | three outputs, two sharing a directory; every choice of what exists beforehand, also a foreign file; every operation failing | no former byte is lost (`Recoverable`); a reported commit is whole and durable (`CommitIsWhole`); a clean rollback is exact (`RollbackIsExact`); the call implements `OutputCommit`; it ends (`Terminates`) |
| `LineageBuild.cfg` | two old, three new requirements; all matrices over four scores, with at most one pair of distinct actions; and the matrices over scores at the threshold and a margin apart | the matching is independent of the input's order, loses no clear pair and respects ambiguity (`Explained`, `ClearPairsMatched`, `AmbiguityRespected`); every new requirement placed once and explained once; identity has evidence; isolated pairs continue |
| `LineageBuildClash.cfg`, `LineageBuildLost.cfg` | two by two; for the first, both new requirements merge both old ones and have the same best parent (`MCTwoMergesInit`) | findings 1 and 2 |
| `Acquisition.cfg` | two processes, two calls, two sources of four artifacts, one disturbance | success is exact; only a fresh root is written; failure leaves nothing; a call that ended left a temporary or backup file only if it says so or was killed (`NoUnreportedStrays`) |
| `StableRead.cfg` | two files of up to three bytes, limit two, two ticks | a read is one version of the file; refusals have a cause |
| `SourceReplay.cfg` | two documents over three files, four graphs, three outside changes | the verified graph is the anchored one, its bytes stood together at one moment |
| `PackageVerify.cfg` | two builders, one edit of the checkout and its restoration, then one verification and two changes of the directory | published packages are exact and never replaced (`PackageIsExact`, `PackageStays`); one change of a package is refused (`OneChangeIsRefused`), what nobody changed is accepted (`GenuineIsAccepted`), what lacks a stage's evidence or is marked as failed is not (`UnfinishedIsRefused`); what is built from, installed and run was compared with the commit, and is still that unless it was changed since; what is compared with nothing but the package was rewritten throughout it (`RunsWhatWasCompared`) |
| `EvidenceRoot.cfg` | eleven files in three places; every header file of up to three lines of nine kinds, and the frozen one; two changes of any file | a verified root is the anchored one (`UsedIsAnchored`) and held still (`HeldStill`) but for what left no trace; refusals have a cause (`RefusedWithCause`); sanitizing forgets what is sensitive (`SensitiveLeavesNoTrace`) |
| `DiffReport.cfg` | undisturbed, every pair of a plain requirement and one of 1080 kinds; disturbed, sources of up to two requirements, four paths of which one is a link, two changes | each requirement is told of once (`TellsAllOnce`); classes mirror (`Mirrored`); what verifies is true of what the sources held (`VerifiedIsTrue`), and what nobody edited verifies unless the sources changed (`GenuineVerifies`) |
| `Scorer.cfg` | five sets of up to four items over three tasks, all labels and answers, a family gate with no support, and two changes of documents | errors are counted once (`ErrorsAreCounted`); monotonicity (`BetterAnswersNeverFail`) |
| `LabelCustody.cfg` | two items, seven people in four teams, two ledgers, two rounds, three decisions, one irregular entry | decisions in time, by independent people, never rewritten, one active for each item |

### Bounds, and why they are enough

* `WriteTransaction`: two outputs in one directory give a directory in which one rename is done and the
  next is not; the third, alone, gives a directory that is synced at another time. Existing, missing and
  foreign outputs occur in every combination. Proofs cover any number.
* Alignment (in `LineageBuild.cfg`): two rivals for two contenders with a third bystander is the least
  instance in which the ambiguity guard is overtaken by earlier matches. One universe of scores lies
  below, between and above the thresholds; the other has scores at the threshold and exactly a margin
  apart, once with the difference of doubles rounding down (`RoundsDown`) and once not. No score of this
  run is beyond the action cap (`ActionCap`): there a pair with distinct actions is never guarded, and
  that side is covered by the proofs, which are for any number and any scores.
* `LineageBuild`: a split needs two new requirements, and for two splits to compete with a merge behind
  them a third; two old requirements give two competing splits, a merge, and a leftover. The four
  scores lie below every threshold, between the thresholds of multiplicity and of a match, and above on
  either side of a strong match; equal scores are the case of scores within an epsilon. Only one pair of
  versions is modelled; for a third version "node" would have to be read for "old requirement" throughout.
* `Acquisition`: four artifacts are two sources, of which one may be fetched and the other fail; two
  processes without a lock meet at every pair of steps. `MaxCalls` and `MaxDisturb` bound the behaviour.
* `StableRead`: content one byte over the limit exists; two ticks are a write before and one after the
  call began. `SourceReplay`: three changes suffice to change a document, another, and restore the first.
* `PackageVerify`: an edit (`MaxEdits`) may be restored, which is what a second look at the checkout can
  and cannot see. The directory is changed twice (`MaxTouches`), so that one change can be undone or
  another can hide it; `MCIrregular` leaves out combinations of a changed directory with an edited
  checkout, a wrong argument or a missing tool, of which each is explored alone (`Ordinary`), and
  explores at most one change during the call. Alterations are sets of items, so one consistent
  rewriting of content, digest and checksums is one change.
* `EvidenceRoot`: two changes (`MaxChanges`) are what it takes to bring something in and take it out
  again between two scans. Every file of the root can be the one (`Touchable`). Something is wrong
  from the outset with one thing at a time: a file, an added entry, a comparison, or the header.
* `DiffReport`: two requirements on each side are enough for two pairs to compete. `Calm` has no others
  and one requirement a side, of every combination of modality, words, wording, action, condition,
  exception and section, against a plain one: every guard of the classifier is reached and every
  pair of guards competes. `Busy` has two changes (`MaxChanges`), so that a source can change between
  the diff and the verification and back.
* `Scorer`: three keys of one gate put a ratio below, at and above one half; gates of two families and two
  slots stand beside one another; `MaxChanges` is two, so that labels can be corrected and predictions
  made anew. The other three sets of keys have extras, odd locators, and sources outside the data set.
* `LabelCustody`: one irregular entry (`MaxSlips`) of any kind, in the first ledger or in the correction,
  also in what the correction should have retained. Time has the seconds 0 to 2; ledger n is written in
  second n, so that "before", "in the same second" and "after" occur for every pair of stamps; predictions
  start in second 2 or never. Two rounds share a person only as adjudicator here, and no correction is itself
  corrected: other roles and longer chains are covered by the proofs, which are for any number of people,
  items, ledgers, rounds, slips and seconds.

### Fairness

Only `WriteTransaction` has a liveness property, under `WF_vars(Step)`: the call is sequential code whose
next file operation is executed, or raises, sooner or later. Neither `Interrupt` nor `Crash` is fair, and
failures are not excluded: what is shown is that the call ends whatever its operations do. Each loop runs
over a list that it does not lengthen, so a faulty variant has to go round again to break it.

`CHECK_DEADLOCK FALSE` stands where the system stops by design: a call that has ended, an alignment that
is complete, a behaviour whose bounded calls are used up. `StableRead.cfg` does check deadlock: the file
system around the reader can always still change.

## Where the code disagrees with its documentation or its own checks

1. `lineage/builder.py:458`: two merges with the same best parent append two instances of one version to
   one node, and the builder's own validation raises on a legal pair of documents (`OneInstancePerVersion`).
   So do a merge and a leftover that is soft-linked to the same node (`lineage/builder.py:593`).
2. `lineage/builder.py:415`: an old requirement whose split children were all claimed by an earlier split
   gets no edge at all, not even REMOVED (`EveryOldAccountedFor`).

Seen while modelling; no run is kept for these:

* `io_safety.py:300`: DECISIONS.md:83-84 (D015) promises that outputs are restored "on any commit-phase
  failure". A `KeyboardInterrupt` is not an `Exception`: former outputs are left under backup names that
  nobody reports. The model has the step (`Interrupt`); no byte is lost, `Recoverable` holds all the same.
* `corpus/acquisition.py:1102`: docs/M1_SOURCE_ACQUISITION.md:58-61 promises a quarantine after a final
  replay that failed; nothing records it, and after a passing failure (`ReplayFails`) a later call verifies
  the complete root and reports success.
* `adapters/base.py:48`: a source's sidecar is read apart from the source, although `source.py:19` speaks
  of one read of the file system; a report can describe a pair of files that never stood together.
* `verify/verifier.py:321`: README.md:90 says that overrides relocate bytes only. A copy without its
  sidecar does not verify, because the provenance of the live snapshot is compared too.
* `classify/classifier.py`: an old requirement with two close successors is left unmatched by the ambiguity
  guard and is reported as REMOVED and the two as ADDED, although docs/SEMANTIC_MODEL.md calls a REMOVED
  one a "Prior requirement with no successor". The guard looks from the old side only, so a whole diff
  need not mirror its reverse; `Mirrored` is stated of pairs.
* `verify/verifier.py:133`: without required sources a report verifies with scope FULL though nothing was
  replayed; the model has the default, in which sources are required.
* `audit/package_verify.py:1706`: the runtime requirements of a package, whose distributions are installed
  and imported with the wheel, are compared with the digests that the manifest and the checksums give, and
  not with an export of the lock file. Rewritten together with those, they are installed as they are, and
  the package can be accepted. So it is with every file that is not computed again (`RunsWhatWasCompared`
  says what they must fit).
* `audit/package_verify.py:2093`: every check opens the files again by path, and nothing is hashed again at
  the end. A file changed after it was compared goes unnoticed: the source archive between its comparison
  with the commit and the rebuild, the distributions between the rebuild and their installation.
* `audit/package_verify.py:426`: what a builder left that was killed between its manifest and the last
  rename is a whole package without the name, and can be accepted like one.
* `audit/package_verify.py:1424`: requirement strings must come sorted as rendered, while the builder
  orders them by their JSON keys.
* `acceptance/item_key.py`: a key depends on the order of a pair's evidence; the same pair listed the
  other way round counts as one error of each kind.

* `lineage/builder.py:591`: a removed old requirement (with its REMOVED edge) can still be soft-linked to a
  leftover new one.
* `io_safety.py:311`: of two acquisitions racing on one root, one replaces what the other installed after it
  was staged, and the rollback of one may delete artifacts whose acquisition the other already reported:
  nothing locks the root. The properties of `Acquisition`
  therefore say "unless another was at work" (`alone`).
* `audit/package_build.py:1959`: the package gets its final name before the call can no longer raise; a
  call that raised may have published.
* `governance/verify.py:495`: a correction's prior ledger is only loaded and compared, not verified
  itself; a chain in which a verified ledger follows an unverified one keeps the latter's entries only.
  `HistoryKept` is therefore stated along verified ledgers.

## What is proved

TLAPS checks the following for every value of the constants, under the assumptions named in the modules
(`...Assumption`).

| Module | Theorems | Properties |
|---|---|---|
| `WriteTransactionProofs` | `TypeCorrect`, `AlwaysRecoverable`, `CommitWhole`, `RollbackExact`, `NoLoopIsRepeated`, `Refinement` | `TypeOK`, `Recoverable`, `CommitIsWhole`, `RollbackIsExact`, `[][Nearer]`, `ImplementsOutputCommit` |
| `AlignmentProofs`, alignment | `AlignmentSound`, `ClearPairsAreMatched`, `AmbiguityIsRespected` | `OneToOne` and `Explained`, `ClearPairsMatched`, `AmbiguityRespected` |
| `AlignmentProofs`, lineages | `LineageTypeCorrect`, `LineagePlaced`, `LineageToldOnce`, `LineageHasEvidence`, `LineageLocality` | `TypeOK`, `PlacementIsSound`, `NewExplainedOnce`, `IdentityHasEvidence`, `IsolatedPairsContinue` |
| `AlignmentProofs`, diffs | `DiffTypeCorrect`, `DiffTellsAllOnce`, `DiffMirrored`, `VerifiedTrue`, `GenuineIsVerified` | `DiffTypeOK`, `TellsAllOnce`, `Mirrored`, `VerifiedIsTrue`, `GenuineVerifies` |
| `StableReadProofs` | `TypeCorrect`, `OneVersion`, `RefusedWithCause` | `TypeOK`, `ReadsOneVersion`, `RejectsOnlyWithCause` |
| `SourceReplayProofs` | `TypeCorrect`, `OneMoment`, `VerifiedGraphIsAnchored` | `TypeOK`, `VerifiedTogether`, `VerifiedIsAnchored` |
| `PackageVerifyProofs`, builders | `TypeCorrect`, `ManifestLast`, `PackageExact`, `PackageKept`, `FailureMarked` | `TypeOK`, `ManifestIsLast`, `PackageIsExact`, `PackageStays`, `FailureIsMarked` |
| `PackageVerifyProofs`, verifier | `AuditTypeCorrect`, `ComparedBeforeRun`, `UnfinishedRefused`, `GenuineAccepted`, `OneChangeRefused` | `AuditTypeOK`, `RunsWhatWasCompared`, `UnfinishedIsRefused`, `GenuineIsAccepted`, `OneChangeIsRefused` |
| `GovernanceProofs`, ledgers | `TypeCorrect`, `InTime`, `ByTheRightPeople`, `ActiveIsLatest`, `HistoryStays` | `TypeOK`, `Timeline`, `FreshEyes`, `ActiveFollows`, `HistoryKept` |
| `GovernanceProofs`, scorer | `EachErrorCounted`, `BetterNeverFails` | `ErrorsAreCounted`, `BetterAnswersNeverFail` |
| `AcquisitionProofs` | `TypeCorrect`, `SuccessExact`, `FailureClean`, `StraysReported`, `OnlyFresh` | `TypeOK`, `SuccessIsExact`, `FailureLeavesNothing`, `NoUnreportedStrays`, `OnlyFreshRootsWritten` |
| `EvidenceRootProofs` | `OnlyAnchoredIsUsed`, `RootHeldStill`, `FrozenIsNotRefused`, `NoTraceOfSensitive` | `UsedIsAnchored`, `HeldStill`, `RefusedWithCause`, `SensitiveLeavesNoTrace` |

A module that holds the proofs of two or three components extends all of them; a theorem rests on the
assumptions of its own component only. Most assumptions say that sizes are natural numbers, that a given
function or set has its type, and that a value that stands for nothing is none of the values. The others,
and why the code justifies them:

* `RankAssumption`, `PositionsAssumption`, `NamesAssumption`: requirements of a version have distinct
  positions, and those of two versions are not the same things.
* `MatchAssumption` (`LineageBuild`): a combined score is a weighted mean of ratios (`align/similarity.py`),
  hence at most 1; `MATCH_THRESHOLD` (0.62) is not below what a split or merge asks of a child (0.60).
* `ContentAssumption` (`DiffReport`): what is extracted are requirements (`IsRequirement`: a requirement has a
  modal verb, so its text has words), no more of them than there are names for.
* `PathAssumption` (`DiffReport`): resolving a resolved path gives the same path.
* `PolicyAssumption`, `GateAssumption`, `FamilyAssumption`, `KeysAssumption` (`Scorer`): the frozen policy
  `m1_m2_prereg_v1.json` (in the repository's `acceptance/`) gates nothing twice, no gate is for the absent
  class, gates of tasks that are counted by family name their family, and where one family has a gate all have; documents are
  finite lists. TLC evaluates these on the policy of `MCScorer`, which has the shape of the frozen one.

The arguments:

* `WriteTransaction`: none of the properties is inductive, because each speaks of the end or of what a
  power loss may show. The invariant says for every phase what each output's three names and every
  surviving image of its directory hold, and which directories will be synced; from it a step either
  keeps all former bytes (`Safe`) or follows the sync after which every output is new (`Whole`). The
  refinement maps a call that has not ended to "nothing happened yet" and its end to commit, abort or tear.
  `NoLoopIsRepeated` is the half of termination that needs no fairness: phases come in one order (`Rank`), and
  within a phase the outputs not visited, with those that still need a preparing move, get fewer (`Left`).
* `Alignment`: everything visited precedes everything still to be visited, so that a decision taken with
  the matches at hand is the decision taken with all better-ranked matches.
* `LineageBuild`: what holds when the alignment is complete is carried into the loops, and each loop is
  described by what it has placed and claimed so far: it places only what is in no node yet, and gives what it
  places all its edges in the same step (`ExplainedInv`). Until the leftovers, what is placed is what is
  claimed (`Claims`); a pair that has no contender is touched by no split and no merge (`AloneStays`).
* `DiffReport`: while a call reads, every snapshot it holds stood on disk at some moment since it began.
  What the alignment does for two contents is one outcome only, whichever call runs it: of two runs that
  differ there would be a first candidate on which they differ (a least counterexample). `Mirrored` follows
  from the symmetry of the measures the guards compare, guard by guard in their precedence; scores
  lie between 0 and 1 because a shared part is a part of each side.
* `StableRead`: once the call has begun, a write gets its tick or a later one; a stamp seen before that
  and still there says the file was not written, so that what was read is the beginning of its content.
  For a refusal, a read that nobody disturbed sees at every step the file it was called for.
* `SourceReplay`: a document that has changed since its capture, and is not yet read again, exists as long
  as the documents do not stand together; the last re-read leaves none.
  The graph that was read, and each document captured so far, is the anchored one at every phase.
* `PackageBuild`: what a staging directory holds at each phase; a published or failed directory is one.
* `PackageVerify`: every step of `AuditSpec` is a step of the builders or leaves their state alone. The
  invariant (`AuditInv`) says for every check that has passed what it has ruled out, among what is altered,
  lost or extra, and that past a gate nothing has failed before it; so what is executed, or accepted at the
  end, is what all of the checks together leave possible. For `RunsWhatWasCompared` a change of the directory
  puts off every check it came after (`SettledBefore`), and what nobody changed during the call fits the
  digests the manifest and the checksums give (`Vouched`). For `OneChangeRefused` each kind of change is
  followed to the first check that must fail on it.
* `Acquisition`: the invariant has two parts for each call. `Own` is what holds of its phase and of the
  temporary and backup files it made, whatever others do: in a rollback every backup is still to be put
  back or an error is recorded, and at the end its result says what is left. `WhileAlone` is what the root
  holds at each phase as long as nobody else has touched it: nothing at first, then only what the call
  installed, with the pinned bytes, and no file of another's. A step of another call either ends the first
  call's being alone or leaves its root as it was (`MineKept`, `RootKept`), so each action is examined for
  its own call only.
* `LabelCustody`: the book only grows and a ledger names an earlier one, so that what a ledger was accepted
  for stays true (`AcceptedStays`). The rest is about accepted ledgers: that the last event of an item
  exists is the well-foundedness of the natural numbers (`NatMin`, `NatMax`), that every appended round
  was opened after the prior freeze is a least-counterexample argument over the rounds.
* `Scorer`: a result is of the documents that stood when it was given, and these are finite. An error has a
  gate because its slot is gated, and no other because nothing is gated twice (`OneGate`). A better answer
  brings a gate no fewer hits and no more false claims, with the same labels to find, and a ratio that was
  reached is then still reached (`ReachesGrows`).
* `HeaderSanitization`: the loop over the lines, by induction on the line as a least counterexample (`UpTo`).
  Output after a dropped line is the output before it; two runs that meet the same lines but for dropped
  ones put out the same; what is put out is exactly what may stay, so a second run drops nothing.
* `EvidenceRoot`: for any number of changes. A file the first verification has read is *anchored*: in its
  place or aside, the content that has the mark of the first scan is the inventory's. A change after the
  first scan shows in a mark, a directory's time or a stray; a document loaded with another content is
  *away* from what the first scan found, and can return only with a time of its directory that tells.
  The last comparison, of the last scan with the first, then leaves only what had no trace. First it is
  proved what the call does at which place (`WhatIsDone`, from the parts of `Call`), then once what any act
  (`ActDone`) and any change by others (`ChangeDone`) does, and the invariant from these two.

Some of the properties the theorems state are in no run: the type invariants, `OneToOne`, `ManifestIsLast`
and `FailureIsMarked` are proved for every instance, and the runs are kept for what they can add.

Only model-checked: `Terminates`, because liveness under fairness and ENABLED are out of the prover's reach;
what is proved of it is that no step goes back (`NoLoopIsRepeated`). The two findings are counterexamples of
TLC. Induction by a theorem with an operator parameter is out of the prover's reach too; where a loop had to
be followed over any number of rounds, the proof takes the least round at which the claim would fail, from the
well-foundedness of the natural numbers. The sanitizer's loop is for this reason a recursive function of
the model (`Output`). No module declares a RECURSIVE operator.

## What is not modelled, and why

* Text: adapters, extraction, normalisation, hashing, JSON grammar. Functions of one input without state;
  a small model of them would restate them. Their results are inputs here. `Classifier` takes sets of
  words for texts, and the two token ratios of the similarity library as ratios of those sets.
* The rules of a single fetch (URLs, redirects, headers): pure checks; a fetch succeeds or fails.
* Path arithmetic of `assert_outputs_safe`: checked on a snapshot; only the kind of each output matters.
* Errors of `fsync`, which the code suppresses: the model assumes that a sync that returns has synced.
* `definition` edges, dependency links and the ambiguity queue of the lineage builder; ambiguity records.
* In governance the loading of files, the inventory of the submission root, the cross-checks of sources,
  and the blind split.
* Of a package: archive, wheel, bundle and SBOM formats, and the byte-level normalisation of wheels. A
  check is modelled by what it relates; where it compares two altered things, it may hold or not.
* Of the evidence: which fields of two JSON documents are compared. A comparison of two documents holds
  unless one of them is not what was frozen, or the frozen ones do not fit (`flaw`).
* Semantic dimensions beyond the bounded read, definition transitions and reference candidates: joins on
  exact keys and per-item rules, followed by a comparison with a rebuilt document, the protocol of which
  `SourceReplay` and `DiffReport` have.
* Rendering of reports, impact of changes, dependency links; measurement, benchmark, command line: no
  state and no protocol of their own.

## Plan

Done in this order: output transactions, alignment, lineage, acquisition, replay verification, package
build, label custody; package verification, evidence root, diff and its verification, scorer. Next:

1. Proofs: what composes components, such as that the replay's captures, each a `StableRead`, give
   `SourceReplay` its atomic step while the clock ticks; an abstract verifier that `SourceReplay`,
   `EvidenceRoot` and `DiffReport` refine.
2. `DimensionAuthority` (`semantic_dimensions/authority.py`): preflight, isolated replay, comparison, and
   the binding of a report by two derivations; composed with `SourceReplay`.
3. `BlindSplit` (`verify_blind_split`) composed with `LabelCustody` and `Scorer`: predictions may not start
   before the freeze along the whole timeline of the documents.
4. More versions in `LineageBuild` (`prev_lineage` across a removal), and its ambiguity queue.
