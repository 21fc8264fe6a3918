----------------------------- MODULE DiffReport -----------------------------
(***************************************************************************)
(* run_diff of pipeline.py and verify_report_file of verify.verifier: a    *)
(* diff reads two sources, aligns and classifies their requirements and    *)
(* writes a report; a verification reads a report, runs the same pipeline  *)
(* on the sources the report declares, or on others the caller gives in    *)
(* their place, and compares.  Meanwhile others replace sources, their     *)
(* provenance sidecars and the report.                                     *)
(*                                                                         *)
(* A source is read once, its sidecar after it.  What the extractor finds  *)
(* in a source is a function of its content; a digest stands for the       *)
(* content it identifies.  The outputs are written in one step, as module  *)
(* WriteTransaction shows that they may be; counts and texts derived from  *)
(* what a report holds are left out of it.                                 *)
(***************************************************************************)
EXTENDS Alignment, Classifier, Sequences

CONSTANTS
  Contents,        \* what a source may hold
  Extracted,       \* the requirements of each content, in document order
  Family,          \* the document family its structure shows, or Absent
  Metas,           \* what a sidecar may hold; Absent if there is none
  Paths,           \* places of sources under the source root
  Canonical,       \* where a path leads when links are followed
  GivenPath,       \* the paths a diff is called with
  Overrides,       \* the paths a verification may be given instead
  Replacements,    \* the contents others put in a source's place or in a report
  MaxChanges       \* bound: changes by others

Sides == {"old", "new"}

\* What is taken of a source and its sidecar, and what a report says.
Snapshots ==
  [path : Paths, content : Contents, family : {Family[c] : c \in Contents},
   meta : Metas \cup {Absent}]
Changes == [class : Classes, old : Olds \cup {Absent}, new : News \cup {Absent}]
Reports ==
  [documents : [Sides -> Snapshots], listed : [Sides -> Contents],
   changes : SUBSET Changes, sealed : BOOLEAN]
Verdicts == {"FULL", "CONTENT_ONLY", "refused", "raised"}

ASSUME ContentAssumption ==
  /\ Absent \notin Contents /\ Replacements \subseteq Contents
  /\ \A c \in Contents :
       /\ Len(Extracted[c]) \in Nat
       /\ Len(Extracted[c]) <= Cardinality(Olds) /\ Len(Extracted[c]) <= Cardinality(News)
       /\ \A i \in 1..Len(Extracted[c]) : IsRequirement(Extracted[c][i])
\* Requirements are named by numbers that grow along their document.
ASSUME NamesAssumption ==
  /\ Olds \subseteq Nat /\ News \subseteq Nat /\ Olds \cap News = {}
  /\ IsFiniteSet(Olds) /\ IsFiniteSet(News)
  /\ Absent \notin Olds \cup News
ASSUME PathAssumption ==
  /\ Absent \notin Paths
  /\ GivenPath \in [Sides -> Paths] /\ Overrides \subseteq Paths
  /\ Canonical \in [Paths -> Paths]
  /\ \A p \in Paths : Canonical[Canonical[p]] = Canonical[p]
ASSUME ChangesAssumption == MaxChanges \in Nat
ASSUME AbsentAssumption == Absent \notin Reports \cup Verdicts

VARIABLES
  body,        \* content of each source, under its canonical path
  sidecar,     \* content of the file beside each path
  report,      \* the report file
  changes,     \* changes by others so far
  job, pc,
  submitted,   \* the report the verification has read
  override,    \* old_source and new_source, or Absent
  from,        \* the path each source is read from
  adapter,     \* the family each source must be of; Absent for AUTO
  got,         \* the snapshots taken
  verdict,     \* what the verification returned
  made,        \* history: the report the diff wrote
  stood        \* history: contents the sources had since the job began

world == <<body, sidecar, report, changes>>
call == <<submitted, override, from, adapter, got, verdict, made>>
diffVars == <<alignVars, world, job, pc, call, stood>>

Nothing == [path |-> Absent]
Unread == [s \in Sides |-> Nothing]
Stands(b) == {<<Canonical[p], b[Canonical[p]]>> : p \in Paths}

-----------------------------------------------------------------------------
(* The pipeline, between the snapshots and the report.                     *)

IndexIn(x, S) == Cardinality({y \in S : y <= x})
Index(x) == IF x \in Olds THEN IndexIn(x, Olds) ELSE IndexIn(x, News)

\* extract_from_source: the requirements of content c stand at the first places.
Found(c, S) == {x \in S : Index(x) <= Len(Extracted[c])}
At(c, x) == Extracted[c][Index(x)]

PairsOf(a, b) == Found(a, Olds) \X Found(b, News)
Distance(i, j) == IF i >= j THEN i - j ELSE j - i
ScoresOf(a, b) ==
  [c \in Candidates |->
     IF c \in PairsOf(a, b)
     THEN Combined(At(a, c[1]), At(b, c[2]), Distance(Index(c[1]), Index(c[2])))
     ELSE 0]

\* Every pair of requirements that exist is scored, and becomes a candidate.
Scored(a, b) ==
  /\ todo' = PairsOf(a, b)
  /\ score' = ScoresOf(a, b)
  /\ distinct' = {c \in PairsOf(a, b) : DistinctActions(At(a, c[1]), At(b, c[2]))}
  /\ match' = {}

Change(class, o, n) == [class |-> class, old |-> o, new |-> n]

\* classify_pairs
ClassifiedPairs(a, b) ==
  {Change(ClassifyPair(At(a, c[1]), At(b, c[2])), c[1], c[2]) : c \in match}
  \cup {Change("REMOVED", o, Absent) : o \in UnmatchedOlds \cap Found(a, Olds)}
  \cup {Change("ADDED", Absent, n) : n \in UnmatchedNews \cap Found(b, News)}

\* build_report, of the snapshots taken.  The lists of requirements are given by
\* the contents they are those of.
Live(snaps) ==
  [documents |-> snaps,
   listed |-> [s \in Sides |-> snaps[s].content],
   changes |-> ClassifiedPairs(snaps["old"].content, snaps["new"].content),
   sealed |-> TRUE]

-----------------------------------------------------------------------------
\* The sources, and the adapter the caller of the diff asks for.
Given ==
  /\ body \in [Paths -> Contents \cup {Absent}]
  /\ \A p \in Paths : body[p] = Absent \/ Canonical[p] = p
  /\ sidecar \in [Paths -> Metas \cup {Absent}]
  /\ changes = 0
  /\ adapter \in [Sides -> {Absent} \cup {Family[c] : c \in Contents}]

Start ==
  /\ report = Absent
  /\ job = "diff" /\ pc = "read_old"
  /\ submitted = Absent
  /\ override = [s \in Sides |-> Absent]
  /\ from = [s \in Sides |-> Canonical[GivenPath[s]]]
  /\ got = Unread
  /\ verdict = Absent
  /\ made = Absent
  /\ stood = Stands(body)
  /\ score = [c \in Candidates |-> 0]
  /\ distinct = {} /\ todo = {} /\ match = {}

DiffInit == Given /\ Start

Stop == pc' = "stopped" /\ UNCHANGED <<submitted, override, from, adapter, got, made>>
Refuse ==
  /\ Stop
  /\ verdict' = IF job = "verify" THEN "refused" ELSE "raised"

\* load_document: one read; the structure must show a family, the forced one if
\* there is one.
Read(s, here, next) ==
  LET c == body[Canonical[from[s]]]
  IN  /\ pc = here
      /\ \/ /\ \/ c = Absent
               \/ c # Absent /\ (\/ Family[c] = Absent
                                 \/ adapter[s] # Absent /\ Family[c] # adapter[s])
            /\ Refuse
         \/ /\ c # Absent /\ Family[c] # Absent /\ adapter[s] \in {Absent, Family[c]}
            /\ got' = [got EXCEPT ![s] = [path |-> from[s], content |-> c,
                                          family |-> Family[c], meta |-> Absent]]
            /\ pc' = next
            /\ UNCHANGED <<submitted, override, from, adapter, verdict, made>>
      /\ UNCHANGED <<alignVars, world, job, stood>>

\* build_provenance reads the sidecar beside the path the source was read from.
ReadSidecar(s, here, next) ==
  /\ pc = here
  /\ got' = [got EXCEPT ![s].meta = sidecar[from[s]]]
  /\ pc' = next
  /\ UNCHANGED <<alignVars, world, job, submitted, override, from, adapter, verdict, made,
                 stood>>

Extract ==
  /\ pc = "extract"
  /\ Scored(got["old"].content, got["new"].content)
  /\ pc' = "align"
  /\ UNCHANGED <<world, job, call, stood>>

AlignStep == pc = "align" /\ AlignNext /\ UNCHANGED <<world, job, pc, call, stood>>

WriteReport ==
  /\ job = "diff" /\ pc = "align" /\ todo = {}
  /\ report' = Live(got) /\ made' = Live(got)
  /\ pc' = "written"
  /\ UNCHANGED <<alignVars, body, sidecar, changes, job, submitted, override, from, adapter,
                 got, verdict, stood>>

-----------------------------------------------------------------------------
(* verify_report_file.                                                     *)

\* One read of the report; its digest is computed again.
ReadReport ==
  /\ pc = "written"
  /\ job' = "verify"
  /\ stood' = Stands(body)
  /\ got' = Unread
  /\ UNCHANGED <<alignVars, world, override, from, adapter, made>>
  /\ IF report.sealed
     THEN pc' = "resolve" /\ submitted' = report /\ UNCHANGED verdict
     ELSE pc' = "stopped" /\ verdict' = "refused" /\ UNCHANGED submitted

\* Without an override a declared path must be there, and be its own canonical
\* form; an override must be there.
Resolves(given, declared) ==
  IF given = Absent
  THEN Canonical[declared] = declared /\ body[declared] # Absent
  ELSE body[Canonical[given]] # Absent

\* The adapters are those the report names.
Resolve(given) ==
  LET declared == [s \in Sides |-> submitted.documents[s].path]
  IN  /\ pc = "resolve"
      /\ override' = given
      /\ from' = [s \in Sides |-> IF given[s] = Absent THEN declared[s] ELSE given[s]]
      /\ adapter' = [s \in Sides |-> submitted.documents[s].family]
      /\ IF \A s \in Sides : Resolves(given[s], declared[s])
         THEN pc' = "read_old" /\ UNCHANGED verdict
         ELSE pc' = "stopped" /\ verdict' = "refused"
      /\ UNCHANGED <<alignVars, world, job, got, made, submitted, stood>>

Overridden == \E s \in Sides : override[s] # Absent

\* Under an override both snapshots are bound to the paths the report declares.
Rebound == [s \in Sides |-> [got[s] EXCEPT !.path = submitted.documents[s].path]]

\* Faulty variant: the snapshots keep the paths they were read from.
ReproducesInPlace(r) == r = Live(got)

\* The payloads are equal byte for byte.
Reproduces(r) == r = Live(IF Overridden THEN Rebound ELSE got)

\* Identifiers are unique by construction of the lists; the rest is checked.
Referential(r) ==
  /\ \A c \in r.changes :
       /\ c.class = "ADDED" => c.old = Absent /\ c.new \in Found(r.listed["new"], News)
       /\ c.class = "REMOVED" => c.new = Absent /\ c.old \in Found(r.listed["old"], Olds)
       /\ c.class \notin {"ADDED", "REMOVED"} => c.old # Absent /\ c.new # Absent
  /\ \A c, d \in {c \in r.changes : c.class \notin {"ADDED", "REMOVED"}} :
       c.old = d.old \/ c.new = d.new => c = d

\* Faulty variant: an override of one source leaves the scope.
ScopeOfOld == IF override["old"] # Absent THEN "CONTENT_ONLY" ELSE "FULL"

Scope == IF Overridden THEN "CONTENT_ONLY" ELSE "FULL"

Compare ==
  /\ job = "verify" /\ pc = "align" /\ todo = {}
  /\ verdict' = IF Reproduces(submitted) /\ Referential(submitted) THEN Scope ELSE "refused"
  /\ pc' = "stopped"
  /\ UNCHANGED <<alignVars, world, job, submitted, override, from, adapter, got, made, stood>>

-----------------------------------------------------------------------------
(* Others, while a job runs or between the two.                            *)

Meanwhile ==
  /\ changes < MaxChanges /\ pc # "stopped"
  /\ changes' = changes + 1
  /\ UNCHANGED <<alignVars, job, pc, call>>

ReplaceSource(p) ==
  /\ Meanwhile
  /\ Canonical[p] = p
  /\ \E c \in Replacements \cup {Absent} : body' = [body EXCEPT ![p] = c]
  /\ stood' = stood \cup Stands(body')
  /\ UNCHANGED <<sidecar, report>>

ReplaceSidecar(p) ==
  /\ Meanwhile
  /\ \E m \in Metas \cup {Absent} : sidecar' = [sidecar EXCEPT ![p] = m]
  /\ UNCHANGED <<body, report, stood>>

\* One thing the report says is altered, and its digest is computed anew or not.
AlteredChanges(cs) ==
  {cs \ {c} : c \in cs}
  \cup {(cs \ {c}) \cup {[c EXCEPT !.class = k]} : c \in cs, k \in {"UNCHANGED", "AMBIGUOUS"}}
AlteredSnapshots(d) ==
  {[d EXCEPT !.path = p] : p \in Paths}
  \cup {[d EXCEPT !.meta = m] : m \in Metas \cup {Absent}}
  \cup {[d EXCEPT !.content = c, !.family = Family[c]] :
          c \in {c \in Replacements : Family[c] # Absent}}

EditReport ==
  /\ Meanwhile
  /\ report # Absent
  /\ \E sealed \in BOOLEAN :
       \/ \E cs \in AlteredChanges(report.changes) :
            report' = [report EXCEPT !.changes = cs, !.sealed = sealed]
       \/ \E s \in Sides : \E d \in AlteredSnapshots(report.documents[s]) :
            report' = [report EXCEPT !.documents[s] = d, !.sealed = sealed]
       \/ \E s \in Sides, c \in Replacements :
            report' = [report EXCEPT !.listed[s] = c, !.sealed = sealed]
  /\ UNCHANGED <<body, sidecar, stood>>

Others ==
  \/ \E p \in Paths : ReplaceSource(p) \/ ReplaceSidecar(p)
  \/ EditReport

DiffNext ==
  \/ Read("old", "read_old", "meta_old") \/ ReadSidecar("old", "meta_old", "read_new")
  \/ Read("new", "read_new", "meta_new") \/ ReadSidecar("new", "meta_new", "extract")
  \/ Extract \/ AlignStep \/ WriteReport
  \/ ReadReport \/ Compare
  \/ \E given \in [Sides -> Overrides \cup {Absent}] : Resolve(given)
  \/ Others

DiffSpec == DiffInit /\ [][DiffNext]_diffVars

-----------------------------------------------------------------------------
(* Correctness.                                                            *)

DiffTypeOK ==
  /\ body \in [Paths -> Contents \cup {Absent}]
  /\ sidecar \in [Paths -> Metas \cup {Absent}]
  /\ report \in Reports \cup {Absent}
  /\ changes \in 0..MaxChanges
  /\ job \in {"diff", "verify"}
  /\ pc \in {"read_old", "meta_old", "read_new", "meta_new", "extract", "align", "written",
             "resolve", "stopped"}
  /\ submitted \in Reports \cup {Absent} /\ made \in Reports \cup {Absent}
  /\ override \in [Sides -> Overrides \cup {Absent}]
  /\ from \in [Sides -> Paths]
  /\ adapter \in [Sides -> {Absent} \cup {Family[c] : c \in Contents}]
  /\ got \in [Sides -> Snapshots \cup {Nothing}]
  /\ verdict \in Verdicts \cup {Absent}
  /\ \A c \in Candidates : score[c] \in Nat /\ score[c] <= 10000
  /\ distinct \subseteq Candidates /\ todo \subseteq Candidates /\ match \subseteq Candidates

Once(cs, s, x) ==
  \E c \in cs : c[s] = x /\ \A d \in cs \ {c} : d[s] # x
AllOnce(docs, cs) ==
  /\ \A x \in Found(docs["old"].content, Olds) : Once(cs, "old", x)
  /\ \A x \in Found(docs["new"].content, News) : Once(cs, "new", x)
QuietIsSame(r) ==
  \A c \in r.changes : c.class \in QuietClasses =>
    LET o == At(r.documents["old"].content, c.old)
        n == At(r.documents["new"].content, c.new)
    IN  SameModality(o, n) /\ SameRoles(o, n)

\* A diff tells what became of every requirement of both sources, and tells it
\* once; a class that says nothing changed is given only to requirements that
\* agree in modality, actor, action, condition and exception.
TellsAllOnce == made # Absent => AllOnce(made.documents, made.changes) /\ QuietIsSame(made)

\* Read backwards a change is its mirror image: what one direction adds or
\* strengthens the other removes or weakens, and neither direction is sure of a
\* class the other finds ambiguous.
MirrorClass ==
  [c \in Classes |->
     CASE c = "STRENGTHENED" -> "WEAKENED" [] c = "WEAKENED" -> "STRENGTHENED"
       [] c = "CONDITION_ADDED" -> "CONDITION_REMOVED"
       [] c = "CONDITION_REMOVED" -> "CONDITION_ADDED"
       [] c = "EXCEPTION_ADDED" -> "EXCEPTION_REMOVED"
       [] c = "EXCEPTION_REMOVED" -> "EXCEPTION_ADDED"
       [] OTHER -> c]
Mirrored ==
  pc = "align" =>
    LET a == got["old"].content
        b == got["new"].content
    IN  \A o \in Found(a, Olds), n \in Found(b, News) :
          ClassifyPair(At(b, n), At(a, o)) = MirrorClass[ClassifyPair(At(a, o), At(b, n))]

\* A report that verified is true of contents its sources had while it was being
\* verified: whoever edited it, each source's content stood where it was read,
\* the scope FULL means that these are the declared paths, and every requirement
\* of those contents is in exactly one change, of the class the two deserve.
Accounts(r) ==
  LET Old(x) == At(r.documents["old"].content, x)
      New(x) == At(r.documents["new"].content, x)
  IN  /\ AllOnce(r.documents, r.changes)
      /\ \A c \in r.changes :
           c.old # Absent /\ c.new # Absent => c.class = ClassifyPair(Old(c.old), New(c.new))
VerifiedIsTrue ==
  verdict \in {"FULL", "CONTENT_ONLY"} =>
    /\ \A s \in Sides :
         /\ <<Canonical[from[s]], submitted.documents[s].content>> \in stood
         /\ verdict = "FULL" =>
              <<submitted.documents[s].path, submitted.documents[s].content>> \in stood
    /\ Accounts(submitted)

\* A report nobody edited is refused only for a reason the sources give: one of
\* them, or its sidecar, is not what the diff had read.
Differs(s) ==
  IF got[s] = Nothing
  THEN body[Canonical[from[s]]] # made.documents[s].content
  ELSE \/ got[s].content # made.documents[s].content
       \/ got[s].meta # made.documents[s].meta
GenuineVerifies ==
  verdict = "refused" /\ submitted = made => \E s \in Sides : Differs(s)
=============================================================================
