---------------------------- MODULE PackageVerify ----------------------------
(***************************************************************************)
(* verify_package of audit.package_verify, called on a directory that a    *)
(* builder published, marked as failed, or left behind when it was killed. *)
(* The manifest is read once; every check after that reads files of the    *)
(* directory, or the checkout, again.  A check never ends the call: it     *)
(* records that it failed, and what executes anything of the package runs  *)
(* only if nothing has failed so far.                                      *)
(*                                                                         *)
(* An item of a directory is the content of a file, the digest the         *)
(* manifest declares for it, its line in the checksums, or a claim of the  *)
(* manifest.  An item is altered if it is not what the exact commit gives: *)
(* a stage saw an edited tree, or somebody changed the directory later.    *)
(* Altered items may have been made to fit one another.                    *)
(***************************************************************************)
EXTENDS PackageBuild

CONSTANT MaxTouches     \* bound: changes of the directory by others
ASSUME TouchesAssumption == MaxTouches \in Nat

\* What the stages leave in the package; every stage leaves logs too.
FrozenInputs == {"audit_contract", "manifest_schema", "inputs", "lockfile"}
GateOutputs == {"junit", "matrix_junit", "outputs_1", "outputs_2"}
GitProducts == {"bundle", "source_zip"}
Distributions == {"wheel", "sdist", "sbom", "requirements"}
StageFiles(s) ==
  CASE s = "frozen_inputs" -> FrozenInputs
    [] s = "product_gates" -> GateOutputs
    [] s = "git_products"  -> GitProducts
    [] s = "distributions" -> Distributions
    [] OTHER               -> {}
\* What a manifest declares: the artifacts, the logs and the files.
Records == (UNION {StageFiles(s) : s \in StageNames}) \cup {"logs", "checksums"}

Content(f) == <<"content", f>>
Declared(f) == <<"declared", f>>
Listed(f) == <<"listed", f>>
Claim(c) == <<"claim", c>>
\* form is what the schema demands; free is what no check compares with anything:
\* the status, the scopes, the limitations and the rest of the prose.
Claims == {"form", "identity", "commands", "counts", "matrix", "archive", "bundle",
           "version", "epoch", "sbom", "free"}
Items ==
  {Content(f) : f \in Records \ {"checksums"}} \cup {Declared(f) : f \in Records}
  \cup {Listed(f) : f \in Records \ {"checksums"}} \cup {Claim(c) : c \in Claims}
\* f is other than the commit gives, consistently throughout the package.
Consistently(f) == {Content(f), Declared(f), Listed(f), Declared("checksums")}

\* The checks of verify_package in their order; those from Gated on run only while
\* nothing has failed.
Order == <<"manifest", "declared_files", "package_tree", "arguments", "manifest_schema",
           "checksums", "phase_scope", "determinism", "commands", "counts", "matrix",
           "repository", "bundle", "source_zip", "distribution_provenance",
           "distribution_metadata", "sbom", "install", "done">>
Steps == {Order[i] : i \in DOMAIN Order}
Index(s) == CHOOSE i \in DOMAIN Order : Order[i] = s
Gates == {"repository", "distribution_provenance", "distribution_metadata", "install"}
Checks == (Steps \ {"arguments", "install", "done"})
            \cup {"timestamps", "isolated_install", "replay", "internal"}

VARIABLES
  subject,     \* the directory under verification, as its builder left it
  altered,     \* its altered items
  lost,        \* declared files that are not there
  extra,       \* there is a file that nothing declares
  at,          \* the check that is next; "waiting" before the call
  held,        \* the altered claims and digests of the manifest that was read
  found,       \* declared files that could be hashed
  read,        \* the altered logs that were read as envelopes
  passes, fails,
  named,       \* --bundle and --source-zip name the package's own
  tools,       \* uv is there, and nothing the verifier runs breaks down
  touches,
  touched,     \* history: the step of the last change during the call
  moved        \* history: the checkout was not exact at some time of the call

auditVars == <<subject, altered, lost, extra, at, held, found, read, passes, fails,
               named, tools, touches, touched, moved>>
allVars == <<vars, auditVars>>

AuditTypeOK ==
  /\ subject \in Directories \cup {Gone}
  /\ altered \subseteq Items /\ held \subseteq Items /\ read \subseteq Items
  /\ lost \subseteq Records /\ found \subseteq Records /\ extra \in BOOLEAN
  /\ at \in Steps \cup {"waiting"}
  /\ passes \subseteq Checks /\ fails \subseteq Checks /\ passes \cap fails = {}
  /\ named \in BOOLEAN /\ tools \in BOOLEAN /\ moved \in BOOLEAN
  /\ touches \in 0..MaxTouches /\ touched \in Steps \cup {"waiting"}

AuditInit ==
  /\ Init
  /\ subject = Gone
  /\ altered = {} /\ lost = {} /\ extra = FALSE
  /\ at = "waiting"
  /\ held = {} /\ found = {} /\ read = {}
  /\ passes = {} /\ fails = {}
  /\ named = TRUE /\ tools = TRUE
  /\ touches = 0 /\ touched = "waiting" /\ moved = FALSE

-----------------------------------------------------------------------------
(* The directory.                                                          *)

IsAltered(f) ==
  IF f = "checksums" THEN \E g \in Records : Listed(g) \in altered ELSE Content(f) \in altered
There(f) == f \in found \ lost

\* What a stage that saw an edited tree may have made; Git's own products come from
\* the commit whatever the tree is.
MadeDiffers(d) ==
  IF "edited" \notin d.seen THEN {{}}
  ELSE {{}} \cup {Consistently(f) : f \in FrozenInputs \cup GateOutputs \cup Distributions}
       \cup {Consistently("wheel") \cup Consistently("sdist")}

\* Somebody takes the package, a failed attempt, or what a killed builder left, and
\* will pass --bundle and --source-zip rightly or not, with all tools or not.  The
\* builders' calls have ended: nothing they left changes any more.
Take ==
  /\ subject = Gone
  /\ \A b \in Builders : pc[b] = "done"
  /\ \/ final # Nobody /\ subject' = package
     \/ failure # Nobody /\ subject' = failed
     \/ \E b \in Builders : result[b] = "killed" /\ staging[b] # Gone /\ subject' = staging[b]
  /\ altered' \in MadeDiffers(subject')
  /\ extra' = ("build_failed" \in subject'.files)
  /\ named' \in BOOLEAN /\ tools' \in BOOLEAN
  /\ UNCHANGED <<vars, lost, at, held, found, read, passes, fails, touches, touched, moved>>

\* Bound: a directory is changed only where nothing else is out of the ordinary.
Ordinary == subject # Gone /\ subject.seen = {"exact"} /\ named /\ tools /\ edits = 0

\* The directory is changed, or changed back, before or during the call.
Touch ==
  /\ Ordinary /\ at # "done" /\ touches < MaxTouches
  /\ touches' = touches + 1
  /\ touched' = at
  /\ \/ /\ \E i \in Items : altered' = (altered \cup {i}) \ (altered \cap {i})
        /\ UNCHANGED <<lost, extra>>
     \/ \E f \in Records \ {"checksums"} :
          altered' = altered \cup Consistently(f) /\ UNCHANGED <<lost, extra>>
     \/ \E f \in Records : lost' = lost \cup {f} /\ UNCHANGED <<altered, extra>>
     \/ extra' = ~extra /\ UNCHANGED <<altered, lost>>
  /\ UNCHANGED <<vars, subject, at, held, found, read, passes, fails, named, tools, moved>>

-----------------------------------------------------------------------------
(* The checks.                                                             *)

\* _State: fail and pass_check.  pass_check never overwrites what failed.
Record(checks, bad) ==
  /\ fails' = fails \cup bad
  /\ passes' = (passes \cup checks) \ (fails \cup bad)

\* What comes after step s, if nothing is left to stop it.
Proceed(s) ==
  at' = LET n == Order[Index(s) + 1] IN IF n \in Gates /\ fails' # {} THEN "done" ELSE n

\* Nothing a check compares is altered: it holds.  It compares something altered
\* with something that is not: it does not.  Otherwise it may or may not.
Outcomes(wrong, doubtful) ==
  IF wrong THEN {FALSE} ELSE IF doubtful THEN BOOLEAN ELSE {TRUE}
Judge(s, checks, wrong, doubtful) ==
  /\ at = s
  /\ \E holds \in Outcomes(wrong, doubtful) : Record(checks, IF holds THEN {} ELSE checks)
  /\ Proceed(s)
Unread == UNCHANGED <<held, found, read>>
Differs(claims) == \E c \in claims : Claim(c) \in held
OneAltered(files) == \E f \in files : IsAltered(f)
SomeLost(files) == \E f \in files : ~There(f)

\* _read_json and the schema; without a manifest, or a valid one, the call ends.
ReadManifest ==
  /\ at = "waiting" /\ subject # Gone
  /\ held' = {i \in altered : i[1] \in {"declared", "claim"}}
  /\ moved' = (tree # "exact")
  /\ \/ /\ "manifest" \notin subject.files
        /\ Record({}, {"manifest"}) /\ at' = "done"
     \/ /\ "manifest" \in subject.files /\ Claim("form") \in altered
        /\ Record({}, {"manifest_schema"}) /\ at' = "done"
     \/ /\ "manifest" \in subject.files /\ Claim("form") \notin altered
        /\ Record({"manifest", "manifest_schema"}, {}) /\ at' = "declared_files"
  /\ UNCHANGED <<found, read>>

\* _verify_file_records: every declared file is hashed, once.
CheckFiles ==
  /\ found' = Records \ lost
  /\ Judge("declared_files", {"declared_files"},
           lost # {} \/ \E f \in Records : IsAltered(f) # (Declared(f) \in held), FALSE)
  /\ UNCHANGED <<held, read>>

\* Faulty variant: only the declared files are looked for.
CheckTreeDeclared ==
  Judge("package_tree", {"package_tree"}, lost # {}, FALSE) /\ Unread

\* Faulty variant: the manifest, which does not declare itself, is not expected.
CheckTreeExactly ==
  Judge("package_tree", {"package_tree"},
        lost # {} \/ extra \/ "manifest" \in subject.files, FALSE) /\ Unread

\* _verify_package_tree: nothing but the declared files and the manifest.
CheckTree == Judge("package_tree", {"package_tree"}, lost # {} \/ extra, FALSE) /\ Unread

CheckArguments ==
  Judge("arguments", {"declared_files"}, ~named \/ SomeLost(GitProducts), FALSE) /\ Unread

CheckSchema ==
  Judge("manifest_schema", {"manifest_schema"},
        SomeLost({"manifest_schema"}) \/ IsAltered("manifest_schema"), FALSE) /\ Unread

\* _verify_checksums: against the digests the manifest declares.
CheckChecksums ==
  /\ Judge("checksums", {"checksums"},
           SomeLost({"checksums"})
             \/ \E f \in Records \ {"checksums"} : (Listed(f) \in altered) # (Declared(f) \in held),
           FALSE)
  /\ Unread

\* _verify_phase_refs: references to files, in the manifest alone.
CheckPhases == Judge("phase_scope", {"phase_scope"}, FALSE, Differs({"free"})) /\ Unread

\* _verify_determinism: the outputs of the two runs are the same bytes.
CheckDeterminism ==
  /\ Judge("determinism", {"determinism"},
           SomeLost({"outputs_1", "outputs_2"})
             \/ IsAltered("outputs_1") # IsAltered("outputs_2"),
           OneAltered({"outputs_1", "outputs_2"}) \/ Differs({"free"}))
  /\ Unread

\* _verify_command_records: every command has its log, which tells the same.
CheckCommands ==
  /\ at = "commands"
  /\ read' = {Content("logs")} \cap altered
  /\ \E holds \in Outcomes(SomeLost({"logs"}) \/ (Differs({"commands"}) /\ ~IsAltered("logs")),
                           IsAltered("logs") \/ Differs({"free"})) :
       \E bad \in SUBSET {"commands", "timestamps"} :
         holds = (bad = {}) /\ Record({"commands", "timestamps"}, bad)
  /\ Proceed("commands")
  /\ UNCHANGED <<held, found>>

\* Faulty variant: the claims only have to fit the commands of the manifest.
CheckCountsClaimed ==
  Judge("counts", {"counts"}, SomeLost({"junit", "outputs_1"}),
        Differs({"counts", "commands"}) \/ read # {} \/ OneAltered({"junit", "outputs_1"}))
    /\ Unread

\* _verify_counts: the claims against the envelopes, the JUnit file and the metrics.
CheckCounts ==
  /\ Judge("counts", {"counts"},
           \/ SomeLost({"junit", "outputs_1"})
           \/ Differs({"counts"}) /\ read = {} /\ ~OneAltered({"junit", "outputs_1"}),
           Differs({"commands"}) \/ read # {} \/ OneAltered({"junit", "outputs_1"}))
  /\ Unread

\* _verify_matrix: the test modules of the checkout are read as they are now.
CheckMatrix ==
  /\ Judge("matrix", {"matrix"},
           \/ SomeLost({"matrix_junit"})
           \/ Differs({"matrix"}) /\ read = {} /\ ~IsAltered("matrix_junit") /\ tree = "exact",
           Differs({"commands"}) \/ read # {} \/ IsAltered("matrix_junit") \/ tree # "exact")
  /\ Unread

\* _verify_repo_and_bundle: HEAD, tree, branch and status of the checkout.
CheckRepository ==
  Judge("repository", {"repository"}, tree # "exact" \/ Differs({"identity"}), ~tools) /\ Unread

\* ... and a clone of the bundle.
CheckBundle ==
  /\ Judge("bundle", {"bundle"},
           \/ lost \cap {"bundle"} # {}
           \/ Differs({"identity"}) # Differs({"bundle"})
           \/ Differs({"identity"}) # IsAltered("bundle"),
           ~tools \/ IsAltered("bundle"))
  /\ Unread

\* _verify_source_zip: every member against the blob of the claimed commit.
CheckSourceZip ==
  /\ Judge("source_zip", {"source_zip"},
           \/ lost \cap {"source_zip"} # {}
           \/ Differs({"identity"}) # IsAltered("source_zip")
           \/ Differs({"archive"}) /\ ~IsAltered("source_zip"),
           ~tools \/ IsAltered("source_zip"))
  /\ Unread

\* Faulty variant: only the wheel is compared with what the archive builds.
CheckProvenanceOfWheel ==
  /\ Judge("distribution_provenance", {"distribution_provenance"},
           \/ lost \cap {"source_zip", "wheel"} # {}
           \/ Differs({"epoch"})
           \/ IsAltered("wheel") /\ ~IsAltered("source_zip"),
           ~tools \/ IsAltered("source_zip"))
  /\ Unread

\* _verify_distribution_provenance: what the source archive builds is what is there.
CheckProvenance ==
  /\ Judge("distribution_provenance", {"distribution_provenance"},
           \/ lost \cap {"source_zip", "wheel", "sdist"} # {}
           \/ Differs({"epoch"})
           \/ OneAltered({"wheel", "sdist"}) /\ ~IsAltered("source_zip"),
           ~tools \/ IsAltered("source_zip"))
  /\ Unread

\* _verify_distribution_metadata: versions and requirements, also of the checkout.
CheckMetadata ==
  /\ Judge("distribution_metadata", {"distribution_metadata"},
           \/ lost \cap {"wheel", "sdist", "lockfile"} # {}
           \/ Differs({"version", "sbom"}) /\ ~OneAltered({"wheel", "sdist"}),
           OneAltered({"wheel", "sdist", "lockfile"}) \/ Differs({"version", "sbom"})
             \/ tree # "exact")
  /\ Unread

\* _verify_sbom: the claims, the lock file's digest, and a fresh export.
CheckSbom ==
  /\ Judge("sbom", {"sbom"},
           \/ lost \cap {"sbom", "lockfile"} # {}
           \/ Differs({"sbom"}) /\ ~OneAltered({"sbom", "lockfile"})
           \/ IsAltered("lockfile") /\ ~Differs({"sbom"}),
           ~tools \/ OneAltered({"sbom", "lockfile"}) \/ tree # "exact")
  /\ Unread

\* _verify_installs_and_replay: without uv it returns before the replay is mentioned.
Install ==
  /\ at = "install"
  /\ at' = "done"
  /\ LET used == {"wheel", "sdist", "requirements", "source_zip"} IN
     \/ ~tools /\ Record({}, {"isolated_install"})
     \/ \E holds \in Outcomes(lost \cap used # {}, ~tools \/ OneAltered(used)) :
          LET both == {"isolated_install", "replay"} IN Record(both, IF holds THEN {} ELSE both)
  /\ Unread

Check ==
  /\ \/ CheckFiles \/ CheckTree \/ CheckArguments \/ CheckSchema \/ CheckChecksums
     \/ CheckPhases \/ CheckDeterminism \/ CheckCommands \/ CheckCounts \/ CheckMatrix
     \/ CheckRepository \/ CheckBundle \/ CheckSourceZip \/ CheckProvenance
     \/ CheckMetadata \/ CheckSbom \/ Install
  /\ UNCHANGED moved

\* main: what verify_package does not expect is reported, and nothing else is.
Unexpected ==
  /\ at \notin {"waiting", "done"} /\ ~tools
  /\ at' = "done"
  /\ passes' = {} /\ fails' = {"internal"}
  /\ UNCHANGED <<held, found, read, moved>>

Audit ==
  /\ ReadManifest \/ Check \/ Unexpected
  /\ UNCHANGED <<vars, subject, altered, lost, extra, named, tools, touches, touched>>

\* Builders go on; the checkout changes under the verifier too.
Build ==
  /\ Next
  /\ moved' = (moved \/ tree' # "exact")
  /\ UNCHANGED <<subject, altered, lost, extra, at, held, found, read, passes, fails,
                 named, tools, touches, touched>>

AuditNext == Build \/ Take \/ Touch \/ Audit
AuditSpec == AuditInit /\ [][AuditNext]_allVars

-----------------------------------------------------------------------------
(* Correctness.                                                            *)

Accepted == at = "done" /\ fails = {}
\* Nothing has failed, and what was compared is built from, installed, run or accepted.
Trusting ==
  /\ fails = {}
  /\ at \in {"distribution_provenance", "distribution_metadata", "sbom", "install", "done"}
Past(s) == at \in Steps /\ Index(at) > Index(s)
\* The directory was last changed before the step s of the call.  A check is one step
\* here: a change while it works is one that came before it, or one at a later step.
SettledBefore(s) == touched = "waiting" \/ Index(touched) < Index(s)

\* What is built, installed and run, and what is accepted, was compared before.  Past
\* its comparison the bundle and the source archive are the commit's own, and the
\* distributions are what the archive builds, if nobody changed the directory since
\* that comparison: a later change, also one while it was made, is not noticed,
\* because every check opens the files again.  Everything else -- the requirements
\* that are installed among them -- is compared only with what the package says of it:
\* if it was other than the commit gives before the call, then its digest in the
\* manifest, its line in the checksums and their digest were rewritten with it.
RunsWhatWasCompared ==
  Trusting =>
    /\ SettledBefore("bundle") => ~IsAltered("bundle")
    /\ SettledBefore("source_zip") => ~IsAltered("source_zip")
    /\ Past("distribution_provenance") /\ SettledBefore("distribution_provenance") =>
         IsAltered("source_zip") \/ ~OneAltered({"wheel", "sdist"})
    /\ touched = "waiting" =>
         \A f \in Records \ {"checksums"} : IsAltered(f) => Consistently(f) \subseteq altered

\* One change to a finished package is enough to have it refused: a file lost,
\* added or altered, a digest, a line of the checksums, or any claim that is
\* compared with something.  (The checkout must stay exact: tests of another tree
\* could agree with another matrix.)
OneChange ==
  /\ subject.seen = {"exact"}
  /\ Cardinality(altered) + Cardinality(lost) + (IF extra THEN 1 ELSE 0) = 1
  /\ Claim("free") \notin altered
OneChangeIsRefused == OneChange /\ touched = "waiting" /\ ~moved => ~Accepted

\* What is accepted unchanged went through every stage, up to its checksums and its
\* manifest, and no failure was marked in it: neither what a failed attempt retained,
\* though its manifest may be complete, nor what a builder killed earlier left behind.
\* (Killed between its manifest and the last rename, a builder leaves a whole package
\* that only lacks the name, and that may be accepted.)
UnfinishedIsRefused ==
  Accepted /\ touches = 0 =>
    StageNames \cup {"manifest", "checksums"} \subseteq subject.files
      /\ "build_failed" \notin subject.files

\* What a builder published from a tree that stayed exact is accepted, as long as
\* nobody changes it, the checkout is exact during the call, and the tools work.
GenuineIsAccepted ==
  at = "done" /\ subject = package /\ subject.seen = {"exact"} /\ touches = 0
    /\ named /\ tools /\ ~moved => Accepted

=============================================================================
