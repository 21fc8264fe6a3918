------------------------------- MODULE Scorer -------------------------------
(***************************************************************************)
(* score_acceptance of acceptance.scorer: the frozen documents it accepts, *)
(* and the metric gates it computes from them.                             *)
(*                                                                         *)
(* An item key is a hash of its evidence, so a key stands for its task,    *)
(* slot and sources; located says that its locators name those sources.    *)
(* A digest of a document stands for the document.  The labels of a gold   *)
(* document are a function from its keys; the answers of a prediction      *)
(* document another.  Ratios are compared in hundredths.                   *)
(***************************************************************************)
EXTENDS Integers, FiniteSets, Sequences

CONSTANTS
  KeySets,     \* sets of keys to be labelled and answered for: records
               \* [task, slot, sources, located, ...]
  Source,      \* of every source there is: [family, actual]
  Declared,    \* the sources a gold document declares
  Ontology,    \* classes of each slot of each task
  Policy,      \* the records of the frozen policy, by task
  Shared,      \* thresholds of the tasks whose records share them
  AnyFamily,   \* family of a gate that is not of one family
  Roots,       \* versions of the scorer's own files, each with its manifest
  Approved,    \* the version whose manifest the caller expects
  MaxChanges   \* bound: changes to the files and documents

M1Tasks ==
  {"M1_REQUIREMENT_EXTRACTION", "M1_REGION", "M1_MODALITY", "M1_FAMILY_DETECTION"}
FamilyScoped == {"M1_REQUIREMENT_EXTRACTION", "M1_REGION"}
IsM1(task) == task \in M1Tasks
IsExtraction(task) == task = "M1_REQUIREMENT_EXTRACTION"

GateOf(task, record) ==
  LET thresholds == IF task \in DOMAIN Shared THEN Shared[task] ELSE record
  IN  [phase |-> IF IsM1(task) THEN "M1" ELSE "M2",
       task |-> task,
       family |-> IF task \in FamilyScoped THEN record.family ELSE AnyFamily,
       class |-> IF IsExtraction(task) THEN "REQUIREMENT" ELSE record.class,
       support |-> record.support,
       real |-> IF IsM1(task) THEN record.support ELSE record.real,
       distractors |-> IF IsExtraction(task) THEN record.distractors ELSE 0,
       precision |-> thresholds.precision,
       recall |-> thresholds.recall,
       f1 |-> thresholds.f1]
Gates == UNION {{GateOf(task, record) : record \in Policy[task]} : task \in DOMAIN Policy}

Families == {Source[s].family : s \in DOMAIN Source}
ClassesOf(task) == {"NONE"} \cup {g.class : g \in {h \in Gates : h.task = task}}

\* _slot_classes refuses a policy with other classes than the slots have.
SlotsAreGated ==
  \A task \in DOMAIN Ontology :
    UNION {Ontology[task][slot] : slot \in DOMAIN Ontology[task]} = ClassesOf(task)

ASSUME PolicyAssumption ==
  /\ SlotsAreGated
  /\ \A g \in Gates :
       /\ {g.precision, g.recall, g.f1} \subseteq 0..100
       /\ g.class # "NONE" /\ (g.task \in FamilyScoped => g.family # AnyFamily)
\* The frozen policy gates nothing twice.
ASSUME GateAssumption ==
  \A g, h \in Gates : <<g.task, g.class, g.family>> = <<h.task, h.class, h.family>> => g = h
\* The frozen policy has a gate for every family wherever it has one for some.
ASSUME FamilyAssumption ==
  \A g \in Gates : g.family # AnyFamily =>
    \A f \in Families : \E h \in Gates :
      h.task = g.task /\ h.class = g.class /\ h.family = f
ASSUME KeysAssumption ==
  \A keys \in KeySets :
    /\ IsFiniteSet(keys)
    /\ \A k \in keys : k.task \in DOMAIN Ontology /\ k.sources \in Seq(DOMAIN Source)
ASSUME RootAssumption == Approved \in Roots /\ Declared \subseteq DOMAIN Source

VARIABLES
  root,        \* the version of the scorer's files that stands
  gold,        \* the gold document
  predictions, \* the candidate's prediction document
  changes,     \* changes so far
  result       \* of scoring what stands, once it is scored

scoreVars == <<root, gold, predictions, changes, result>>

Label(class, distractor) == [class |-> class, distractor |-> distractor]
LabelsOf(k) ==
  {Label(c, FALSE) : c \in Ontology[k.task][k.slot]} \cup
  IF IsExtraction(k.task) THEN {Label("NONE", TRUE)} ELSE {}

-----------------------------------------------------------------------------
(* _validate_items, and what the models demand of an item's evidence.      *)

Predicted(answers, k) == IF k \in DOMAIN answers THEN answers[k] ELSE "NONE"
Strays(labels, answers) == DOMAIN answers \ DOMAIN labels
Fits(k, class) ==
  k.slot \in DOMAIN Ontology[k.task] /\ class \in Ontology[k.task][k.slot]

SourcesOf(k) == {k.sources[i] : i \in DOMAIN k.sources}
Evidenced(k) ==
  /\ SourcesOf(k) \subseteq Declared /\ k.located
  /\ IsM1(k.task) => Len(k.sources) = 1

FamilyKeys(labels) == {k \in DOMAIN labels : k.task = "M1_FAMILY_DETECTION"}
TrueFamilies(labels) ==
  /\ \A k \in FamilyKeys(labels) : labels[k].class = Source[k.sources[1]].family
  /\ \A j, k \in FamilyKeys(labels) : j # k => j.sources # k.sources

ValidItems(labels, answers) ==
  /\ \A k \in DOMAIN answers : Evidenced(k) /\ Fits(k, answers[k])
  /\ \A k \in Strays(labels, answers) : answers[k] # "NONE"
  /\ \A k \in DOMAIN labels :
       Evidenced(k) /\ Fits(k, labels[k].class) /\ Fits(k, Predicted(answers, k))
  /\ TrueFamilies(labels)

-----------------------------------------------------------------------------
(* _metric_gate.  Only gates of M1 tasks are of one family, and their items *)
(* have one source.                                                        *)

Concerns(g, k) ==
  /\ k.task = g.task
  /\ g.family \in {AnyFamily, Source[k.sources[1]].family}
Expected(g, labels) == {k \in DOMAIN labels : Concerns(g, k) /\ labels[k].class = g.class}
Claimed(g, answers) == {k \in DOMAIN answers : Concerns(g, k) /\ answers[k] = g.class}

\* Faulty variant: a claim about something gold does not list is forgotten.
FalseClaimsListed(g, labels, answers) ==
  (Claimed(g, answers) \cap DOMAIN labels) \ Expected(g, labels)

FalseClaims(g, labels, answers) == Claimed(g, answers) \ Expected(g, labels)

Counts(g, labels, answers) ==
  [tp |-> Cardinality(Expected(g, labels) \cap Claimed(g, answers)),
   fp |-> Cardinality(FalseClaims(g, labels, answers)),
   fn |-> Cardinality(Expected(g, labels) \ Claimed(g, answers))]

IsActual(k) == \A s \in SourcesOf(k) : Source[s].actual
ActualSupport(g, labels) == Cardinality({k \in Expected(g, labels) : IsActual(k)})
Distractors(g, labels) ==
  Cardinality({k \in DOMAIN labels : Concerns(g, k) /\ labels[k].distractor /\ IsActual(k)})

\* Faulty variant: the support is what the candidate claims.
SupportClaimed(c) == c.tp + c.fp

Support(c) == c.tp + c.fn

\* _ratio
Reaches(part, whole, required) ==
  IF whole = 0 THEN required = 0 ELSE part * 100 >= required * whole

Passes(g, labels, answers) ==
  LET c == Counts(g, labels, answers)
  IN  /\ Support(c) >= g.support
      /\ ActualSupport(g, labels) >= g.real
      /\ Distractors(g, labels) >= g.distractors
      /\ Reaches(c.tp, c.tp + c.fp, g.precision)
      /\ Reaches(c.tp, c.tp + c.fn, g.recall)
      /\ Reaches(2 * c.tp, 2 * c.tp + c.fp + c.fn, g.f1)

Passed(labels, answers) == {g \in Gates : Passes(g, labels, answers)}
PhasePassed(phase, passed) == {g \in Gates : g.phase = phase} \subseteq passed

-----------------------------------------------------------------------------
(* The scorer.                                                             *)

\* The manifest is the expected one and every file of the scorer agrees with it.
ScorerIsFrozen == root = Approved

Bound ==
  /\ gold.manifest = Approved /\ predictions.manifest = Approved
  /\ predictions.gold = gold
  /\ ~predictions.early

NoResult == [verdict |-> "none"]
Refused == [verdict |-> "refused"]

Score ==
  /\ result = NoResult
  /\ IF ScorerIsFrozen /\ Bound /\ ValidItems(gold.labels, predictions.answers)
     THEN LET passed == Passed(gold.labels, predictions.answers)
          IN  result' =
                [verdict |-> "scored",
                 counts |-> [g \in Gates |-> Counts(g, gold.labels, predictions.answers)],
                 passed |-> passed,
                 m1 |-> PhasePassed("M1", passed), m2 |-> PhasePassed("M2", passed)]
     ELSE result' = Refused
  /\ UNCHANGED <<root, gold, predictions, changes>>

-----------------------------------------------------------------------------
(* Everyone else: the evaluation authority and the candidate.              *)

Frozen(labels) == [labels |-> labels, manifest |-> root]

\* early: the time it declares precedes that of the gold it is for.
Answering(answers, early) ==
  [answers |-> answers, gold |-> gold, manifest |-> root, early |-> early]

Partial(set, Values(_)) ==
  UNION {{f \in [D -> UNION {Values(k) : k \in D}] : \A k \in D : f[k] \in Values(k)}
         : D \in SUBSET set}
AnswersOf(k) == ClassesOf(k.task)

ScoreInit ==
  /\ root = Approved /\ changes = 0
  /\ \E keys \in KeySets :
       /\ gold \in {Frozen(labels) : labels \in Partial(keys, LabelsOf)}
       /\ predictions \in {Answering(answers, FALSE) : answers \in Partial(keys, AnswersOf)}
  /\ result = NoResult

Disturb ==
  /\ changes < MaxChanges
  /\ changes' = changes + 1
  /\ result' = NoResult

\* A correction after the freeze is a new version with a label changed or dropped.
Relabel ==
  /\ Disturb
  /\ \E k \in DOMAIN gold.labels :
       \/ \E l \in LabelsOf(k) \ {gold.labels[k]} :
            gold' = Frozen([gold.labels EXCEPT ![k] = l])
       \/ gold' = Frozen([j \in DOMAIN gold.labels \ {k} |-> gold.labels[j]])
  /\ UNCHANGED <<root, predictions>>

\* The candidate answers again, for the gold version that stands.
Regenerate ==
  /\ Disturb
  /\ \E early \in BOOLEAN : predictions' = Answering(predictions.answers, early)
  /\ UNCHANGED <<root, gold>>

Edit ==
  /\ Disturb
  /\ root' \in Roots \ {root}
  /\ UNCHANGED <<gold, predictions>>

ScoreNext == Score \/ Relabel \/ Regenerate \/ Edit

ScoreSpec == ScoreInit /\ [][ScoreNext]_scoreVars

-----------------------------------------------------------------------------
(* Correctness.                                                            *)

WrongClaims(labels, answers) ==
  {k \in DOMAIN answers :
     /\ answers[k] # "NONE"
     /\ k \in DOMAIN labels => labels[k].class # answers[k]}
Missed(labels, answers) ==
  {k \in DOMAIN labels :
     labels[k].class # "NONE" /\ Predicted(answers, k) # labels[k].class}

\* Each of these errors falls to one gate of its task, and count is how many do.
Charged(errors, count) ==
  \E charge \in [errors -> Gates] :
    /\ \A k \in errors : charge[k].task = k.task
    /\ \A g \in Gates : count[g] = Cardinality({k \in errors : charge[k] = g})

\* Every error the candidate made about the labels it answered for is counted by
\* exactly one gate, the claims about items gold does not list included: none
\* falls between two families or two slots, and no label changed in between.
ErrorsAreCounted ==
  result.verdict = "scored" =>
    LET asked == predictions.gold.labels
        given == predictions.answers
    IN  /\ Charged(WrongClaims(asked, given), [g \in Gates |-> result.counts[g].fp])
        /\ Charged(Missed(asked, given), [g \in Gates |-> result.counts[g].fn])

Corrected(labels, answers, k) ==
  [j \in DOMAIN answers \cup {k} |-> IF j = k THEN labels[k].class ELSE answers[j]]
Without(answers, k) == [j \in DOMAIN answers \ {k} |-> answers[j]]

\* A better candidate never fares worse: with one answer put right, or one claim
\* about an unlisted item withdrawn, every gate that passed still passes, although
\* the answer may have counted in the gate of another class.
BetterAnswersNeverFail ==
  result.verdict = "scored" =>
    LET labels == gold.labels
        given == predictions.answers
    IN  /\ \A k \in DOMAIN labels : result.passed \subseteq Passed(labels, Corrected(labels, given, k))
        /\ \A k \in Strays(labels, given) : result.passed \subseteq Passed(labels, Without(given, k))
=============================================================================
