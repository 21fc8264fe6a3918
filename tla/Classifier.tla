----------------------------- MODULE Classifier -----------------------------
(***************************************************************************)
(* classify.classifier and the fields of a requirement it looks at, with   *)
(* score_pair of align.aligner: pure functions of two requirements.        *)
(*                                                                         *)
(* A text is the set of its words after editorial_normalize, and its form, *)
(* which editorial_normalize forgets.  Actions are the sets of their words *)
(* and an absent action is the empty set; the other fields are given as    *)
(* editorial_normalize leaves them.  Ratios are in units of 0.0001.        *)
(***************************************************************************)
EXTENDS Integers, FiniteSets

CONSTANT Absent      \* None, where a field or a requirement is optional

Modalities == {"MUST", "MUST_NOT", "SHOULD", "SHOULD_NOT", "MAY"}
Negative(m) == m \in {"MUST_NOT", "SHOULD_NOT"}
Strength ==
  [MUST |-> 3, MUST_NOT |-> 3, SHOULD |-> 2, SHOULD_NOT |-> 2, MAY |-> 1]

QuietClasses == {"UNCHANGED", "MOVED", "EDITORIAL"}
Classes == QuietClasses \cup
  {"ADDED", "REMOVED", "STRENGTHENED", "WEAKENED", "POLARITY_FLIP", "AMBIGUOUS",
   "CONDITION_ADDED", "CONDITION_REMOVED", "EXCEPTION_ADDED", "EXCEPTION_REMOVED"}

\* A requirement is a sentence with a modal verb, and so has words.
IsRequirement(r) ==
  /\ r.modality \in Modalities
  /\ IsFiniteSet(r.words) /\ r.words # {} /\ IsFiniteSet(r.action)

SameModality(o, n) == o.modality = n.modality
SamePolarity(o, n) == Negative(o.modality) <=> Negative(n.modality)
SameEditorial(o, n) == o.words = n.words
SameText(o, n) == SameEditorial(o, n) /\ o.form = n.form
SameRoles(o, n) ==
  /\ o.actor = n.actor /\ o.action = n.action
  /\ o.condition = n.condition /\ o.exception = n.exception

\* The fingerprint hashes the text, the modality and the roles.
SameFingerprint(o, n) == SameText(o, n) /\ SameModality(o, n) /\ SameRoles(o, n)

-----------------------------------------------------------------------------
(* The similarity measures.                                                *)

Larger(x, y) == IF x >= y THEN x ELSE y
Smaller(x, y) == IF x <= y THEN x ELSE y

\* rapidfuzz: all the words of the one among those of the other count as equal.
SetRatio(a, b) ==
  IF a \cap b # {} /\ (a \subseteq b \/ b \subseteq a)
  THEN 10000
  ELSE (20000 * Cardinality(a \cap b)) \div (Cardinality(a) + Cardinality(b))
SortRatio(a, b) == (20000 * Cardinality(a \cap b)) \div (Cardinality(a) + Cardinality(b))

TextSimilarity(o, n) == Larger(SetRatio(o.words, n.words),
                               (98 * SortRatio(o.words, n.words)) \div 100)
ModalityMatch(o, n) ==
  IF SameModality(o, n) THEN 10000 ELSE IF SamePolarity(o, n) THEN 4000 ELSE 0
SectionSimilarity(o, n) == IF o.section = n.section THEN 10000 ELSE 0

\* An actor is one word more.
ActorAction(r) == r.action \cup (IF r.actor = Absent THEN {} ELSE {r.actor})
ActorActionSimilarity(o, n) ==
  LET a == ActorAction(o)
      b == ActorAction(n)
  IN  IF a = {} /\ b = {} THEN 5000
      ELSE IF a = {} \/ b = {} THEN 2000 ELSE SetRatio(a, b)
Proximity(distance) == Larger(0, 10000 - 500 * distance)

Combined(o, n, distance) ==
  LET weighted == (40 * TextSimilarity(o, n) + 15 * ModalityMatch(o, n)
                   + 10 * SectionSimilarity(o, n) + 15 * SortRatio(o.words, n.words)
                   + 15 * ActorActionSimilarity(o, n) + 5 * Proximity(distance)) \div 100
  IN  IF SameFingerprint(o, n) THEN Larger(weighted, 9900) ELSE weighted

\* The part of the last guard of align_requirements that no threshold decides.
DistinctActions(o, n) ==
  /\ TextSimilarity(o, n) >= 8500
  /\ ActorActionSimilarity(o, n) < 7500
  /\ o.action # {} /\ n.action # {} /\ o.action # n.action
  /\ SameModality(o, n)

-----------------------------------------------------------------------------
(* classify_pair, for a matched pair.                                      *)

\* Half of all words are shared; without an action the text stands for it.
CoreAction(r) == IF r.action # {} THEN r.action ELSE r.words
CoreActionSimilar(o, n) ==
  LET a == CoreAction(o)
      b == CoreAction(n)
  IN  a # {} /\ b # {} /\ 2 * Cardinality(a \cap b) >= Cardinality(a \cup b)

PolarPair(o, n) ==
  \/ {o.modality, n.modality} \in {{"MUST", "MUST_NOT"}, {"SHOULD", "SHOULD_NOT"}}
  \/ ~SamePolarity(o, n) /\ CoreActionSimilar(o, n)
Flipped(o, n) ==
  /\ PolarPair(o, n)
  /\ \/ CoreActionSimilar(o, n)
     \/ TextSimilarity(o, n) >= 5500 /\ ActorActionSimilarity(o, n) >= 5000

BodySimilar(o, n) ==
  TextSimilarity(o, n) >= 7000 \/ SameEditorial(o, n) \/ SameFingerprint(o, n)

GuardsDiffer(o, n) == o.exception # n.exception \/ o.condition # n.condition

\* Faulty variant: a guard that was there before counts as removed.
GuardClassForced(a, b, added, removed) == IF a = Absent THEN added ELSE removed

GuardClass(a, b, added, removed) ==
  IF a = Absent THEN added ELSE IF b = Absent THEN removed ELSE "AMBIGUOUS"

\* Exceptions before conditions.
GuardChange(o, n) ==
  IF o.exception # n.exception
  THEN GuardClass(o.exception, n.exception, "EXCEPTION_ADDED", "EXCEPTION_REMOVED")
  ELSE GuardClass(o.condition, n.condition, "CONDITION_ADDED", "CONDITION_REMOVED")

ModalityChange(o, n) ==
  IF ~SamePolarity(o, n) THEN "AMBIGUOUS"
  ELSE IF Strength[n.modality] > Strength[o.modality] THEN "STRENGTHENED"
  ELSE IF Strength[n.modality] < Strength[o.modality] THEN "WEAKENED"
  ELSE "AMBIGUOUS"

\* Faulty variant: the guards of the obligation are not compared.
SameObligationUnguarded(o, n) ==
  \/ SameFingerprint(o, n)
  \/ SameEditorial(o, n) /\ o.actor = n.actor

SameObligation(o, n) ==
  SameFingerprint(o, n) \/ (SameEditorial(o, n) /\ SameRoles(o, n))

QuietClass(o, n) ==
  IF o.section # n.section THEN "MOVED"
  ELSE IF SameText(o, n) THEN "UNCHANGED" ELSE "EDITORIAL"

ClassifyPair(o, n) ==
  IF Flipped(o, n) THEN "POLARITY_FLIP"
  ELSE IF ~SameModality(o, n) THEN ModalityChange(o, n)
  ELSE IF BodySimilar(o, n) /\ GuardsDiffer(o, n) THEN GuardChange(o, n)
  ELSE IF SameObligation(o, n) THEN QuietClass(o, n)
  ELSE "AMBIGUOUS"
=============================================================================
