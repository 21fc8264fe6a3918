------------------------------ MODULE Alignment ------------------------------
(***************************************************************************)
(* align.aligner.align_requirements: the greedy one-to-one alignment of    *)
(* the requirements of two versions.  Every (old, new) pair is a           *)
(* candidate; candidates are visited best combined score first, and a      *)
(* candidate becomes a match unless one of its requirements is taken, its  *)
(* score is too low, the old requirement is ambiguous at that moment, or   *)
(* the two actions are distinct.                                           *)
(*                                                                         *)
(* A score is a multiple of 0.0001 (score_pair rounds to four places) and  *)
(* is given here in those units.  What the similarity measures compute is  *)
(* an input; what is decided from the scores is modelled.                  *)
(***************************************************************************)
EXTENDS Integers, FiniteSets

CONSTANTS
  Olds, News,      \* requirements of the old and of the new version
  Rank,            \* their requirement ids, in the order strings compare
  Scores,          \* combined scores a pair may get
  Threshold,       \* MATCH_THRESHOLD
  Margin,          \* AMBIGUITY_MARGIN
  ActionCap,       \* from this score on, distinct actions do not matter
  RoundsDown       \* the x for which the doubles x - (x - Margin) < Margin

ASSUME ScoresAssumption ==
  Scores \subseteq Nat /\ Threshold \in Nat /\ Margin \in Nat /\ ActionCap \in Nat
ASSUME RankAssumption ==
  /\ Rank \in [Olds \cup News -> Nat]
  /\ \A x, y \in Olds \cup News : Rank[x] = Rank[y] => x = y

VARIABLES
  score,       \* score_pair(o, n).combined
  distinct,    \* pairs of similar text and modality whose actions differ
  todo,        \* candidates the loop has not visited
  match        \* pairs matched so far

alignVars == <<score, distinct, todo, match>>

Candidates == Olds \X News

AlignTypeOK ==
  /\ score \in [Candidates -> Scores]
  /\ distinct \subseteq Candidates
  /\ todo \subseteq Candidates
  /\ match \subseteq Candidates

AlignInit ==
  /\ score \in [Candidates -> Scores]
  /\ distinct \in SUBSET Candidates
  /\ todo = Candidates
  /\ match = {}

-----------------------------------------------------------------------------
(* Pure functions of the scores s and of the distinct pairs ds.              *)

\* scored.sort(key=lambda t: (-t[0], t[1], t[2]))
Precedes(s, c, d) ==
  \/ s[c] > s[d]
  \/ s[c] = s[d] /\ Rank[c[1]] < Rank[d[1]]
  \/ s[c] = s[d] /\ c[1] = d[1] /\ Rank[c[2]] < Rank[d[2]]

Strong(s, o) == {n \in News : s[<<o, n>>] >= Threshold}

\* strong[0], and strong[:3]
Top(s, o, n) ==
  n \in Strong(s, o) /\ \A m \in Strong(s, o) \ {n} : Precedes(s, <<o, n>>, <<o, m>>)
Contenders(s, o) ==
  {n \in Strong(s, o) :
     Cardinality({m \in Strong(s, o) : Precedes(s, <<o, m>>, <<o, n>>)}) < 3}

\* strong[0][0] - strong[1][0] < AMBIGUITY_MARGIN, in doubles.
Within(x, y) == x - y < Margin \/ (x - y = Margin /\ x \in RoundsDown)
Close(s, o) ==
  \E n, m \in Strong(s, o) :
    n # m /\ Top(s, o, n) /\ Within(s[<<o, n>>], s[<<o, m>>])

Taken(c, m) == \E d \in m : d[1] = c[1] \/ d[2] = c[2]

\* The old requirement is ambiguous while two of its contenders are free.
Ambiguous(s, o, m) ==
  /\ Close(s, o)
  /\ \E a, b \in Contenders(s, o) : a # b /\ \A d \in m : d[2] \notin {a, b}

Guarded(s, ds, c) == c \in ds /\ s[c] < ActionCap

\* Faulty variant: a score at the threshold is not enough.
AcceptableAbove(s, ds, c, m) ==
  /\ ~Taken(c, m)
  /\ s[c] > Threshold
  /\ ~Ambiguous(s, c[1], m)
  /\ ~Guarded(s, ds, c)

\* Faulty variant: the ambiguity guard is missing.
AcceptableForced(s, ds, c, m) ==
  /\ ~Taken(c, m)
  /\ s[c] >= Threshold
  /\ ~Guarded(s, ds, c)

\* What the loop does with a candidate when m is what it has matched so far.
Acceptable(s, ds, c, m) ==
  /\ ~Taken(c, m)
  /\ s[c] >= Threshold
  /\ ~Ambiguous(s, c[1], m)
  /\ ~Guarded(s, ds, c)

-----------------------------------------------------------------------------
\* Faulty variant: candidates are visited in any order.
ConsiderUnsorted(c) ==
  /\ c \in todo
  /\ todo' = todo \ {c}
  /\ match' = IF Acceptable(score, distinct, c, match) THEN match \cup {c} ELSE match
  /\ UNCHANGED <<score, distinct>>

Consider(c) ==
  /\ c \in todo /\ \A d \in todo \ {c} : Precedes(score, c, d)
  /\ todo' = todo \ {c}
  /\ match' = IF Acceptable(score, distinct, c, match) THEN match \cup {c} ELSE match
  /\ UNCHANGED <<score, distinct>>

AlignNext == \E c \in Candidates : Consider(c)

AlignSpec == AlignInit /\ [][AlignNext]_alignVars

\* The pairs the call returns: matches, removals and additions.
UnmatchedOlds == {o \in Olds : \A d \in match : d[1] # o}
UnmatchedNews == {n \in News : \A d \in match : d[2] # n}

-----------------------------------------------------------------------------
(* Correctness.                                                            *)

\* The alignment is one-to-one: no requirement of either version is matched
\* twice, whatever the scores and their ties.
OneToOne == \A c, d \in match : c[1] = d[1] \/ c[2] = d[2] => c = d

\* Every decision is explained by the better-ranked matches alone: a pair is
\* matched exactly if it is acceptable given the matches that precede it.  The
\* result is therefore a function of the scores and the ids, not of the order
\* in which the requirements were listed.
Explained ==
  \A c \in Candidates \ todo :
    c \in match <=> Acceptable(score, distinct, c, {d \in match : Precedes(score, d, c)})

\* The ambiguity guard and the greedy order never lose a clear pair: when two
\* requirements are each other's best candidate, the old one has no close
\* runner-up, and their actions agree, they are matched.
BestFor(c) ==
  \A d \in Candidates \ {c} : d[1] = c[1] \/ d[2] = c[2] => Precedes(score, c, d)
ClearPairsMatched ==
  todo = {} =>
    \A c \in Candidates :
      /\ BestFor(c) /\ score[c] >= Threshold
      /\ ~Close(score, c[1]) /\ ~Guarded(score, distinct, c)
      => c \in match

\* An ambiguous old requirement is matched only after rivals have taken so many
\* of its contenders that at most one of them was left.
AmbiguityRespected ==
  \A c \in match : Close(score, c[1]) =>
    \A a, b \in Contenders(score, c[1]) :
      a # b => \E d \in match : d[2] \in {a, b} /\ Precedes(score, d, c)
=============================================================================
