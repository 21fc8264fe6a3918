---------------------------- MODULE AlignmentProofs ----------------------------
(***************************************************************************)
(* The greedy alignment, and the two components that are built on it: the  *)
(* placement of requirements in lineage nodes, and the diff that           *)
(* classifies the matched pairs and is verified again.  Nothing here fixes *)
(* the requirements, scores, ids, sources or thresholds.                   *)
(*                                                                         *)
(* The alignment rests on the candidates being strictly ordered and        *)
(* visited in that order, which leaves it one outcome only.  The lineage   *)
(* rests on every loop placing only requirements that are in no node yet,  *)
(* with the edges that explain them.  The diff rests on its snapshots      *)
(* being of contents that stood where they were read, and on the report    *)
(* being a function of the snapshots.                                      *)
(***************************************************************************)
EXTENDS LineageBuild, DiffReport, FiniteSetTheorems, WellFoundedInduction, TLAPS

-----------------------------------------------------------------------------
(* The order of the candidates and the loop that visits them in it.        *)

LEMMA LeastNat ==
  ASSUME NEW T \in SUBSET Nat, T # {}
  PROVE  \E n \in T : \A m \in T : n <= m
<1> DEFINE R == OpToRel(<, Nat)
<1>1. IsWellFoundedOn(R, Nat)
  BY NatLessThanWellFounded
<1>2. \A m, n \in Nat : m < n => <<m, n>> \in R
  BY DEF OpToRel
<1> HIDE DEF R
<1>3. PICK n \in T : \A m \in T : ~ (<<m, n>> \in R)
  BY <1>1, WFMin
<1>4. \A m \in T : ~ (m < n)
  <2> TAKE m \in T
  <2>1. ~ (<<m, n>> \in R)
    BY <1>3
  <2>2. m \in Nat /\ n \in Nat
    OBVIOUS
  <2>3. m < n => <<m, n>> \in R
    BY <1>2, <2>2, Zenon
  <2> QED BY <2>1, <2>3
<1>5. \A m \in T : m \in Nat /\ n \in Nat
  OBVIOUS
<1> QED BY <1>4, <1>5

\* The sort key is a strict total order of the candidates, whatever the scores s.
LEMMA PrecedesIsOrder ==
  ASSUME NEW s, \A c \in Candidates : s[c] \in Nat
  PROVE  /\ \A c \in Candidates : ~Precedes(s, c, c)
         /\ \A c, d \in Candidates : Precedes(s, c, d) => ~Precedes(s, d, c)
         /\ \A c, d \in Candidates : Precedes(s, c, d) \/ Precedes(s, d, c) \/ c = d
<1>1. ASSUME NEW c \in Candidates
      PROVE  /\ s[c] \in Nat /\ Rank[c[1]] \in Nat /\ Rank[c[2]] \in Nat
             /\ c = <<c[1], c[2]>> /\ c[1] \in Olds /\ c[2] \in News
  BY RankAssumption DEF Candidates
<1>2. ASSUME NEW c \in Candidates PROVE ~Precedes(s, c, c)
  BY <1>1 DEF Precedes
<1>3. ASSUME NEW c \in Candidates, NEW d \in Candidates, Precedes(s, c, d)
      PROVE  ~Precedes(s, d, c)
  BY <1>1, <1>3 DEF Precedes
<1>4. ASSUME NEW c \in Candidates, NEW d \in Candidates, c # d
      PROVE  Precedes(s, c, d) \/ Precedes(s, d, c)
  <2>1. c[1] = d[1] => Rank[c[2]] # Rank[d[2]]
    BY <1>1, <1>4, RankAssumption
  <2>2. c[1] # d[1] => Rank[c[1]] # Rank[d[1]]
    BY <1>1, RankAssumption
  <2> QED BY <1>1, <2>1, <2>2 DEF Precedes
<1> QED
  BY <1>2, <1>3, <1>4

\* What is still to be visited of the candidates T comes after what is not, and every
\* visit is explained by what came before it.
Greedy(T) ==
  /\ todo \subseteq T /\ match \subseteq T \ todo
  /\ \A c \in T \ todo : \A d \in todo : Precedes(score, c, d)
  /\ OneToOne
  /\ \A c \in T \ todo :
       c \in match <=> Acceptable(score, distinct, c, {d \in match : Precedes(score, d, c)})

LEMMA GreedyStep ==
  ASSUME NEW T \in SUBSET Candidates, \A c \in Candidates : score[c] \in Nat,
         Greedy(T), [AlignNext]_alignVars
  PROVE  Greedy(T)'
<1>1. CASE UNCHANGED alignVars
  BY <1>1 DEF alignVars, Greedy, OneToOne
<1>2. ASSUME NEW c \in Candidates, Consider(c) PROVE Greedy(T)'
  <2> DEFINE Better(e, m) == {d \in m : Precedes(score, d, e)}
  <2>1. /\ c \in todo /\ \A d \in todo \ {c} : Precedes(score, c, d)
        /\ todo' = todo \ {c}
        /\ match' = IF Acceptable(score, distinct, c, match) THEN match \cup {c} ELSE match
        /\ score' = score /\ distinct' = distinct
    BY <1>2 DEF Consider
  <2>2. todo' \subseteq T /\ match' \subseteq T \ todo'
    BY <2>1 DEF Greedy
  <2>3. \A e \in T \ todo' : \A d \in todo' : Precedes(score, e, d)
    BY <2>1 DEF Greedy
  <2>4. OneToOne'
    BY <2>1 DEF OneToOne, Greedy, Acceptable, Taken
  <2>5. Better(c, match') = match
    <3>1. \A d \in match : Precedes(score, d, c)
      BY <2>1 DEF Greedy
    <3>2. ~Precedes(score, c, c)
      BY PrecedesIsOrder
    <3> QED BY <2>1, <3>1, <3>2
  <2>6. ASSUME NEW e \in T \ todo PROVE Better(e, match') = Better(e, match)
    <3>1. ~Precedes(score, c, e)
      BY <2>1, PrecedesIsOrder DEF Greedy
    <3> QED BY <2>1, <3>1
  <2>7. ASSUME NEW e \in T \ todo'
        PROVE  e \in match' <=> Acceptable(score, distinct, e, Better(e, match'))
    <3>1. CASE e = c
      <4>1. c \notin match
        BY <2>1 DEF Greedy
      <4> QED BY <2>1, <2>5, <3>1, <4>1
    <3>2. CASE e # c
      <4>1. e \in T \ todo
        BY <2>1, <3>2
      <4>2. e \in match <=> Acceptable(score, distinct, e, Better(e, match))
        BY <4>1 DEF Greedy
      <4> QED BY <2>1, <2>6, <3>2, <4>1, <4>2
    <3> QED BY <3>1, <3>2
  <2>8. \A e \in T \ todo' :
          e \in match' <=> Acceptable(score', distinct', e,
                                      {d \in match' : Precedes(score', d, e)})
    BY <2>1, <2>7
  <2> QED BY <2>1, <2>2, <2>3, <2>4, <2>8 DEF Greedy
<1> QED BY <1>1, <1>2 DEF AlignNext

\* A non-empty set of candidates has a first one.
LEMMA FirstExists ==
  ASSUME NEW s, \A c \in Candidates : s[c] \in Nat /\ s[c] <= 10000,
         NEW D \in SUBSET Candidates, D # {}
  PROVE  \E c \in D : \A d \in D : ~Precedes(s, d, c)
<1>1. ASSUME NEW c \in D
      PROVE  /\ 10000 - s[c] \in Nat /\ s[c] \in Nat
             /\ Rank[c[1]] \in Nat /\ Rank[c[2]] \in Nat
             /\ c = <<c[1], c[2]>> /\ c[1] \in Olds /\ c[2] \in News
  <2>1. c \in Candidates /\ s[c] \in Nat /\ s[c] <= 10000
    OBVIOUS
  <2>2. c = <<c[1], c[2]>> /\ c[1] \in Olds /\ c[2] \in News
    BY <2>1 DEF Candidates
  <2>3. Rank[c[1]] \in Nat /\ Rank[c[2]] \in Nat
    BY <2>2, RankAssumption
  <2> QED BY <2>1, <2>2, <2>3
<1>2. PICK b \in D : \A d \in D : s[d] <= s[b]
  <2> DEFINE T == {10000 - s[c] : c \in D}
  <2>1. T \in SUBSET Nat /\ T # {}
    BY <1>1
  <2> HIDE DEF T
  <2>2. PICK t \in T : \A u \in T : t <= u
    BY <2>1, LeastNat
  <2>3. PICK b \in D : t = 10000 - s[b]
    BY <2>2 DEF T
  <2>4. ASSUME NEW d \in D PROVE s[d] <= s[b]
    <3>1. 10000 - s[b] <= 10000 - s[d]
      BY <2>2, <2>3 DEF T
    <3> QED BY <1>1, <3>1
  <2> QED BY <2>4
<1>3. PICK o \in D : s[o] = s[b] /\ \A d \in D : s[d] = s[b] => Rank[o[1]] <= Rank[d[1]]
  <2> DEFINE T == {Rank[c[1]] : c \in {c \in D : s[c] = s[b]}}
  <2>1. T \in SUBSET Nat /\ T # {}
    BY <1>1
  <2> HIDE DEF T
  <2>2. PICK t \in T : \A u \in T : t <= u
    BY <2>1, LeastNat
  <2>3. PICK o \in D : s[o] = s[b] /\ t = Rank[o[1]]
    BY <2>2 DEF T
  <2> QED BY <2>2, <2>3 DEF T
<1>4. PICK c \in D : /\ s[c] = s[b] /\ c[1] = o[1]
                     /\ \A d \in D : s[d] = s[b] /\ d[1] = o[1] => Rank[c[2]] <= Rank[d[2]]
  <2> DEFINE T == {Rank[c[2]] : c \in {c \in D : s[c] = s[b] /\ c[1] = o[1]}}
  <2>1. T \in SUBSET Nat /\ T # {}
    BY <1>1, <1>3
  <2> HIDE DEF T
  <2>2. PICK t \in T : \A u \in T : t <= u
    BY <2>1, LeastNat
  <2>3. PICK c \in D : s[c] = s[b] /\ c[1] = o[1] /\ t = Rank[c[2]]
    BY <2>2 DEF T
  <2> QED BY <2>2, <2>3 DEF T
<1>5. ASSUME NEW d \in D PROVE ~Precedes(s, d, c)
  <2>1. s[d] <= s[c] /\ (s[d] = s[c] => Rank[c[1]] <= Rank[d[1]])
        /\ (s[d] = s[c] /\ d[1] = c[1] => Rank[c[2]] <= Rank[d[2]])
    BY <1>2, <1>3, <1>4
  <2>2. /\ s[c] \in Nat /\ s[d] \in Nat
        /\ Rank[c[1]] \in Nat /\ Rank[c[2]] \in Nat /\ Rank[d[1]] \in Nat /\ Rank[d[2]] \in Nat
    BY <1>1
  <2> QED BY <2>1, <2>2 DEF Precedes
<1> QED BY <1>5

\* The outcome of the loop over the candidates T: every one is explained.
Outcome(T, s, ds, m) ==
  /\ m \subseteq T
  /\ \A c \in T : c \in m <=> Acceptable(s, ds, c, {d \in m : Precedes(s, d, c)})

\* There is only one outcome: of the pairs on which two of them disagreed the first
\* would have the same pairs before it in both.
LEMMA OneOutcome ==
  ASSUME NEW T \in SUBSET Candidates, NEW s, NEW ds,
         \A c \in Candidates : s[c] \in Nat /\ s[c] <= 10000,
         NEW m, Outcome(T, s, ds, m), NEW n, Outcome(T, s, ds, n)
  PROVE  m = n
<1> DEFINE D == {c \in T : ~(c \in m <=> c \in n)}
<1> SUFFICES ASSUME D # {} PROVE FALSE
  BY DEF Outcome
<1>1. PICK c \in D : \A d \in D : ~Precedes(s, d, c)
  <2>1. D \in SUBSET Candidates
    OBVIOUS
  <2> HIDE DEF D
  <2> QED BY <2>1, FirstExists
<1>2. {d \in m : Precedes(s, d, c)} = {d \in n : Precedes(s, d, c)}
  BY <1>1 DEF Outcome
<1>3. c \in T /\ ~(c \in m <=> c \in n)
  BY <1>1
<1> DEFINE before == {d \in m : Precedes(s, d, c)}
<1>4. c \in m <=> Acceptable(s, ds, c, before)
  BY <1>3 DEF Outcome
<1>5. before = {d \in n : Precedes(s, d, c)}
  BY <1>2
<1> HIDE DEF before
<1>6. c \in n <=> Acceptable(s, ds, c, before)
  BY <1>3, <1>5 DEF Outcome
<1> QED BY <1>3, <1>4, <1>6

-----------------------------------------------------------------------------
(* The alignment.                                                          *)

\* What is visited precedes what is not, and every visit is explained.
Visited == \A c \in Candidates \ todo : \A d \in todo : Precedes(score, c, d)
MatchesVisited == match \cap todo = {}

AlignInv == AlignTypeOK /\ Visited /\ MatchesVisited /\ OneToOne /\ Explained

LEMMA AlignInitInv == AlignInit => AlignInv
BY DEF AlignInit, AlignInv, AlignTypeOK, Visited, MatchesVisited, OneToOne, Explained

\* It is the loop over all candidates.
LEMMA AlignIsGreedy == AlignInv <=> AlignTypeOK /\ Greedy(Candidates)
BY DEF AlignInv, AlignTypeOK, Visited, MatchesVisited, Explained, Greedy

LEMMA ScoresOrder ==
  ASSUME AlignTypeOK
  PROVE  /\ \A c \in Candidates : score[c] \in Nat
         /\ \A c, d \in Candidates : Precedes(score, c, d) => ~Precedes(score, d, c)
<1>1. \A c \in Candidates : score[c] \in Nat
  BY ScoresAssumption DEF AlignTypeOK
<1> QED BY <1>1, PrecedesIsOrder

LEMMA AlignStepInv == AlignInv /\ [AlignNext]_alignVars => AlignInv'
<1> SUFFICES ASSUME AlignInv, [AlignNext]_alignVars PROVE AlignInv'
  OBVIOUS
<1>1. AlignTypeOK /\ Greedy(Candidates)
  BY AlignIsGreedy
<1>2. AlignTypeOK'
  BY <1>1 DEF AlignTypeOK, AlignNext, Consider, alignVars
<1>3. PICK T : T = Candidates
  OBVIOUS
<1>4. Greedy(T)'
  BY <1>1, <1>3, ScoresOrder, GreedyStep
<1> QED
  BY <1>2, <1>3, <1>4 DEF AlignInv, AlignTypeOK, Visited, MatchesVisited, Explained, Greedy, Candidates

THEOREM AlignInductive == AlignSpec => []AlignInv
BY AlignInitInv, AlignStepInv, PTL DEF AlignSpec

-----------------------------------------------------------------------------
(* What the alignment's invariant says of its result.                      *)

LEMMA MatchesAreAcceptable ==
  ASSUME AlignInv, NEW c \in match
  PROVE  /\ c \in Candidates
         /\ Acceptable(score, distinct, c, {d \in match : Precedes(score, d, c)})
         /\ score[c] >= Threshold
<1>1. c \in Candidates \ todo
  BY DEF AlignInv, AlignTypeOK, MatchesVisited
<1>2. Acceptable(score, distinct, c, {d \in match : Precedes(score, d, c)})
  BY <1>1 DEF AlignInv, Explained
<1> QED BY <1>1, <1>2 DEF Acceptable

LEMMA ClearIfDone == AlignInv => ClearPairsMatched
<1> SUFFICES ASSUME AlignInv, todo = {}, NEW c \in Candidates, BestFor(c),
                    score[c] >= Threshold, ~Close(score, c[1]), ~Guarded(score, distinct, c)
             PROVE  c \in match
  BY DEF ClearPairsMatched
<1> DEFINE better == {d \in match : Precedes(score, d, c)}
<1>1. ~Taken(c, better)
  <2> SUFFICES ASSUME NEW d \in match, Precedes(score, d, c), d[1] = c[1] \/ d[2] = c[2]
               PROVE  FALSE
    BY DEF Taken
  <2>1. d \in Candidates /\ AlignTypeOK
    BY DEF AlignInv, AlignTypeOK
  <2>2. d # c
    BY <2>1, ScoresOrder
  <2>3. Precedes(score, c, d)
    BY <2>1, <2>2 DEF BestFor
  <2> QED BY <2>1, <2>3, ScoresOrder
<1>2. Acceptable(score, distinct, c, better)
  BY <1>1 DEF Acceptable, Ambiguous
<1> QED BY <1>2 DEF AlignInv, Explained

LEMMA AmbiguityInv == AlignInv => AmbiguityRespected
<1> SUFFICES ASSUME AlignInv, NEW c \in match, Close(score, c[1]),
                    NEW a \in Contenders(score, c[1]), NEW b \in Contenders(score, c[1]), a # b
             PROVE  \E d \in match : d[2] \in {a, b} /\ Precedes(score, d, c)
  BY DEF AmbiguityRespected
<1>1. Acceptable(score, distinct, c, {d \in match : Precedes(score, d, c)})
  BY MatchesAreAcceptable
<1>2. ~Ambiguous(score, c[1], {d \in match : Precedes(score, d, c)})
  BY <1>1 DEF Acceptable
<1> QED BY <1>2 DEF Ambiguous

\* The alignment is one-to-one, and every pair's fate is explained by the
\* matches that rank above it (align_requirements).
THEOREM AlignmentSound == AlignSpec => [](OneToOne /\ Explained)
<1>1. AlignInv => OneToOne /\ Explained
  BY DEF AlignInv
<1> QED BY AlignInductive, <1>1, PTL

\* No clear pair is lost (align_requirements).
THEOREM ClearPairsAreMatched == AlignSpec => []ClearPairsMatched
BY AlignInductive, ClearIfDone, PTL

\* An ambiguous requirement is never forced into a match (align_requirements).
THEOREM AmbiguityIsRespected == AlignSpec => []AmbiguityRespected
BY AlignInductive, AmbiguityInv, PTL

-----------------------------------------------------------------------------
(* Splits and merges: the choices they make exist.                         *)

\* Of the pairs with n, some old requirement's has the best score, and among those with
\* the best score one comes first by any numbering of the old requirements.
LEMMA BestExists ==
  ASSUME AlignTypeOK, NEW n \in News, NEW S \in SUBSET Olds, S # {},
         NEW number, \A o \in S : number[o] \in Nat
  PROVE  \E o \in S : \A x \in S :
           score[<<o, n>>] > score[<<x, n>>]
             \/ (score[<<o, n>>] = score[<<x, n>>] /\ number[o] <= number[x])
<1>1. \A o \in S : score[<<o, n>>] \in Nat /\ score[<<o, n>>] <= 10000
  <2> TAKE o \in S
  <2>1. <<o, n>> \in Candidates
    BY DEF Candidates
  <2>2. score[<<o, n>>] \in Scores
    BY <2>1 DEF AlignTypeOK
  <2>3. \A s \in Scores : s \in Nat /\ s <= 10000
    BY MatchAssumption, ScoresAssumption
  <2> QED BY <2>2, <2>3
<1> DEFINE value(o) == score[<<o, n>>]
           T == {10000 - value(o) : o \in S}
<1> HIDE DEF value
<1>2. \A o \in S : value(o) \in Nat /\ value(o) <= 10000
  BY <1>1 DEF value
<1>3. T \in SUBSET Nat /\ T # {}
  BY <1>2
<1>4. PICK t \in T : \A u \in T : t <= u
  <2> HIDE DEF T
  <2> QED BY <1>3, LeastNat
<1>5. PICK b \in S : t = 10000 - value(b)
  BY <1>4
<1>6. \A x \in S : value(x) <= value(b)
  <2> TAKE x \in S
  <2>1. t <= 10000 - value(x)
    BY <1>4
  <2> QED BY <1>2, <1>5, <2>1
<1> DEFINE N == {number[o] : o \in {x \in S : value(x) = value(b)}}
<1>7. N \in SUBSET Nat /\ N # {}
  OBVIOUS
<1>8. PICK k \in N : \A j \in N : k <= j
  <2> HIDE DEF N
  <2> QED BY <1>7, LeastNat
<1>9. PICK o \in S : value(o) = value(b) /\ number[o] = k
  BY <1>8
<1>10. ASSUME NEW x \in S
       PROVE  value(o) > value(x) \/ (value(o) = value(x) /\ number[o] <= number[x])
  <2>1. CASE value(x) = value(b)
    <3>1. number[x] \in N
      BY <2>1
    <3> QED BY <1>8, <1>9, <2>1, <3>1
  <2>2. CASE value(x) # value(b)
    BY <1>2, <1>6, <1>9, <2>2
  <2> QED BY <2>1, <2>2
<1> HIDE DEF N, T
<1>11. \A x : value(x) = score[<<x, n>>]
  BY DEF value
<1>12. \A x \in S :
        score[<<o, n>>] > score[<<x, n>>]
          \/ (score[<<o, n>>] = score[<<x, n>>] /\ number[o] <= number[x])
  BY <1>10, <1>11
<1> QED BY <1>12, <1>9

LEMMA BestOldIs ==
  ASSUME AlignTypeOK, NEW n \in News, Olds # {}
  PROVE  BestOld(n) \in Olds
<1> DEFINE position == [o \in Olds |-> o]
<1>1. \A o \in Olds : position[o] \in Nat
  BY PositionsAssumption
<1>2. \E o \in Olds : \A x \in Olds :
        score[<<o, n>>] > score[<<x, n>>]
          \/ (score[<<o, n>>] = score[<<x, n>>] /\ position[o] <= position[x])
  <2> HIDE DEF position
  <2> QED BY <1>1, BestExists
<1> QED BY <1>2 DEF BestOld

LEMMA FirstParentIs ==
  ASSUME AlignTypeOK, NEW n \in News, Parents(score, n) # {}
  PROVE  FirstParent(score, n) \in Parents(score, n)
<1> DEFINE P == Parents(score, n)
<1>1. P \in SUBSET Olds /\ P # {}
  BY DEF Parents
<1>2. \A o \in P : Rank[o] \in Nat
  BY <1>1, RankAssumption
<1>3. PICK o \in P : \A x \in P :
        score[<<o, n>>] > score[<<x, n>>]
          \/ (score[<<o, n>>] = score[<<x, n>>] /\ Rank[o] <= Rank[x])
  <2> HIDE DEF P
  <2> QED BY <1>1, <1>2, BestExists
<1>4. \A x \in P \ {o} : Rank[o] # Rank[x]
  BY <1>1, RankAssumption
<1>5. \A x \in P \ {o} : Precedes(score, <<o, n>>, <<x, n>>)
  <2> TAKE x \in P \ {o}
  <2>1. Rank[o] # Rank[x] /\ Rank[o] \in Nat /\ Rank[x] \in Nat
    BY <1>2, <1>4
  <2> QED BY <1>3, <2>1 DEF Precedes
<1> QED BY <1>5 DEF FirstParent

-----------------------------------------------------------------------------
(* What the multiplicity functions give, for a finished alignment.         *)

LEMMA PrimaryIs ==
  ASSUME AlignTypeOK, OneToOne, NEW o, NEW n, <<o, n>> \in match
  PROVE  Matched(match, o) /\ Primary(match, o) = n
<1>1. n \in News
  BY DEF AlignTypeOK, Candidates
<1>2. \A x \in News : <<o, x>> \in match => x = n
  BY DEF OneToOne
<1>3. Matched(match, o)
  <2>1. <<o, n>>[1] = o
    OBVIOUS
  <2> QED BY <2>1 DEF Matched
<1> QED BY <1>1, <1>2, <1>3 DEF Primary

LEMMA MatchedPrimary ==
  ASSUME AlignTypeOK, OneToOne, NEW o, Matched(match, o)
  PROVE  <<o, Primary(match, o)>> \in match /\ o \in Olds /\ Primary(match, o) \in News
<1>1. PICK c \in match : c[1] = o
  BY DEF Matched
<1>2. c = <<o, c[2]>> /\ o \in Olds /\ c[2] \in News
  BY <1>1 DEF AlignTypeOK, Candidates
<1> QED BY <1>1, <1>2, PrimaryIs

\* A child is as similar as a split asks for, and no other old requirement's match.
LEMMA ChildrenAre ==
  ASSUME AlignInv, NEW o \in Olds, NEW n \in Children(score, match, o)
  PROVE  /\ n \in News /\ score[<<o, n>>] >= SplitSecondary
         /\ \A x \in Olds \ {o} : <<x, n>> \notin match
<1>0. AlignTypeOK /\ OneToOne
  BY DEF AlignInv
<1>1. CASE n \in Extras(score, match, o)
  <2>1. n \in ExclusiveNews(score, o) /\ n \notin MatchedNews(match)
    BY <1>1 DEF Extras
  <2>2. \A x \in Olds : <<x, n>> \notin match
    BY <2>1 DEF MatchedNews
  <2> QED BY <2>1, <2>2 DEF ExclusiveNews
<1>2. CASE Matched(match, o) /\ n = Primary(match, o)
  <2>1. <<o, n>> \in match /\ n \in News
    BY <1>0, <1>2, MatchedPrimary
  <2>2. score[<<o, n>>] >= Threshold /\ score[<<o, n>>] \in Nat
    BY <2>1, <1>0, MatchesAreAcceptable, ScoresAssumption DEF AlignTypeOK
  <2>3. \A x \in Olds \ {o} : <<x, n>> \notin match
    BY <1>0, <2>1 DEF OneToOne
  <2> QED BY <2>1, <2>2, <2>3, MatchAssumption, ScoresAssumption DEF SplitSecondary
<1> QED BY <1>1, <1>2 DEF Children

LEMMA MatchesAreSimilar ==
  ASSUME AlignInv, NEW c \in match
  PROVE  c \in Candidates /\ score[c] >= SplitSecondary
<1>1. c \in Candidates /\ score[c] >= Threshold
  BY MatchesAreAcceptable
<1>2. score[c] \in Nat
  BY <1>1, ScoresAssumption DEF AlignInv, AlignTypeOK
<1> QED BY <1>1, <1>2, MatchAssumption, ScoresAssumption DEF SplitSecondary

LEMMA ParentsAre ==
  ASSUME NEW n \in News, NEW o \in Parents(score, n)
  PROVE  o \in Olds /\ score[<<o, n>>] >= SplitSecondary
BY DEF Parents, MergeSecondary, SplitSecondary

\* A merged requirement has two parents, of which one is the first.
LEMMA MergesAre ==
  ASSUME AlignTypeOK, NEW n \in Merges(score, core, match)
  PROVE  /\ n \in News
         /\ FirstParent(score, n) \in Parents(score, n)
         /\ \E x, y \in Parents(score, n) : x # y
<1>1. n \in News /\ DifferentCores(core, Parents(score, n))
  BY DEF Merges
<1>2. \E x, y \in Parents(score, n) : x # y
  BY <1>1 DEF DifferentCores
<1>3. Parents(score, n) # {}
  BY <1>2
<1> QED BY <1>1, <1>2, <1>3, FirstParentIs

\* A pair that is similar to nothing but itself is matched and takes part in no split
\* and no merge.
Alone(c) ==
  Isolated(c[1], c[2]) /\ score[c] >= Threshold /\ ~Guarded(score, distinct, c)

LEMMA AloneIs ==
  ASSUME AlignInv, todo = {}, NEW c \in Candidates, Alone(c)
  PROVE  /\ c \in match
         /\ c[1] \notin Splits(score, core, match) /\ c[2] \notin Merges(score, core, match)
         /\ \A o \in Olds \ {c[1]} : c[2] \notin Children(score, match, o)
         /\ \A n \in News \ {c[2]} : c[1] \notin Parents(score, n)
<1> DEFINE o == c[1]
           n == c[2]
<1>0. AlignTypeOK /\ OneToOne /\ o \in Olds /\ n \in News /\ c = <<o, n>>
  BY DEF AlignInv, Candidates
<1>1. \A d \in Candidates : score[d] \in Nat
  BY <1>0, ScoresAssumption DEF AlignTypeOK
<1>2. ASSUME NEW d \in Candidates, d # c, d[1] = o \/ d[2] = n
      PROVE  score[d] < SplitSecondary
  BY <1>0, <1>2 DEF Alone, Isolated
<1>3. score[c] >= Threshold /\ Threshold >= SplitSecondary /\ Threshold \in Nat
  BY MatchAssumption, ScoresAssumption DEF Alone
<1>4. BestFor(c)
  <2> SUFFICES ASSUME NEW d \in Candidates \ {c}, d[1] = c[1] \/ d[2] = c[2]
               PROVE  score[c] > score[d]
    BY DEF BestFor, Precedes
  <2>1. score[d] < SplitSecondary
    BY <1>2
  <2> QED BY <1>1, <1>3, <2>1 DEF SplitSecondary
<1>5. ~Close(score, o)
  <2> SUFFICES ASSUME NEW a \in Strong(score, o), NEW b \in Strong(score, o), a # b
               PROVE  FALSE
    BY DEF Close
  <2>1. PICK e \in {a, b} : e # n
    OBVIOUS
  <2>2. <<o, e>> \in Candidates /\ <<o, e>> # c /\ <<o, e>>[1] = o /\ score[<<o, e>>] >= Threshold
    BY <1>0, <2>1 DEF Strong, Candidates
  <2>3. score[<<o, e>>] < SplitSecondary
    BY <1>2, <2>2
  <2> QED BY <1>1, <1>3, <2>2, <2>3 DEF SplitSecondary
<1>6. c \in match
  BY <1>4, <1>5, ClearIfDone DEF ClearPairsMatched, Alone
<1>7. \A x \in News \ {n} : ~(score[<<o, x>>] >= SplitSecondary)
  <2> TAKE x \in News \ {n}
  <2>1. <<o, x>> \in Candidates /\ <<o, x>> # c /\ <<o, x>>[1] = o
    BY <1>0 DEF Candidates
  <2> QED BY <1>1, <1>2, <2>1 DEF SplitSecondary
<1>8. \A x \in Olds \ {o} : ~(score[<<x, n>>] >= SplitSecondary)
  <2> TAKE x \in Olds \ {o}
  <2>1. <<x, n>> \in Candidates /\ <<x, n>> # c /\ <<x, n>>[2] = n
    BY <1>0 DEF Candidates
  <2> QED BY <1>1, <1>2, <2>1 DEF SplitSecondary
<1>9. o \notin Splits(score, core, match)
  <2>1. ExclusiveNews(score, o) \subseteq {n}
    BY <1>7 DEF ExclusiveNews
  <2> QED BY <2>1 DEF Splits, DifferentCores
<1>10. n \notin Merges(score, core, match)
  <2>1. Parents(score, n) \subseteq {o}
    BY <1>8 DEF Parents, MergeSecondary, SplitSecondary
  <2> QED BY <2>1 DEF Merges, DifferentCores
<1>11. \A x \in Olds \ {o} : n \notin Children(score, match, x)
  BY <1>8, ChildrenAre
<1>12. \A x \in News \ {n} : o \notin Parents(score, x)
  BY <1>7, ParentsAre
<1> QED BY <1>6, <1>9, <1>10, <1>11, <1>12

-----------------------------------------------------------------------------
(* The invariant of the placement: what the loops account for.             *)

TellsOnce(into) ==
  \/ \E e \in into : into = {e} /\ e.relation # "MERGED_FROM"
  \/ /\ \A e \in into : e.relation = "MERGED_FROM"
     /\ \E e, f \in into : e.from # f.from
Evident(n, r, es) ==
  r \in Olds => score[<<r, n>>] >= SplitSecondary /\ \E e \in es : e.from = r /\ e.to = n

\* Of what is placed so far: one node, the one named; edges at the nodes of their
\* requirements and only to what is placed; one explanation, and evidence.
ExplainedInv ==
  /\ \A n \in News, r \in Requirements : n \in members[r] <=> lineage[n] = r
  /\ EdgesTrace
  /\ \A e \in edges : e.to # Nobody => lineage[e.to] # Nobody
  /\ \A n \in News : lineage[n] # Nobody =>
       TellsOnce({e \in edges : e.to = n}) /\ Evident(n, lineage[n], edges)

\* What is placed is claimed, until the leftovers.
Claims ==
  /\ phase \in {"align", "split", "primary", "leftover"} =>
       \A n \in News : n \in claimedNew <=> lineage[n] # Nobody
  /\ Placed => \A n \in News : lineage[n] # Nobody
  /\ phase = "leftover" => \A n \in News \ claimedNew : Olds # {}

Continued(c) == lineage[c[2]] = c[1] /\ Edge("CONTINUES", c[1], c[2], c[1], c[1]) \in edges
AloneStays ==
  \A c \in Candidates : Alone(c) =>
    /\ phase \in {"split", "primary"} => c[1] \notin claimedOld /\ c[2] \notin claimedNew
    /\ phase = "leftover" \/ Placed => Continued(c)

Unplaced ==
  phase = "align" =>
    /\ work = {} /\ claimedOld = {} /\ claimedNew = {} /\ edges = {}
    /\ lineage = [n \in News |-> Nobody] /\ members = [r \in Requirements |-> {}]

BuildInv ==
  /\ TypeOK /\ AlignInv /\ ExplainedInv /\ Claims /\ AloneStays /\ Unplaced
  /\ phase # "align" => todo = {}
  /\ work \subseteq Splits(score, core, match)

LEMMA EdgeIs ==
  ASSUME NEW rel \in Relations, NEW o \in Olds \cup {Nobody}, NEW n \in News \cup {Nobody},
         NEW f \in Olds \cup {Nobody}, NEW t \in Requirements \cup {Nobody}
  PROVE  /\ Edge(rel, o, n, f, t) \in Edges
         /\ Edge(rel, o, n, f, t).relation = rel
         /\ Edge(rel, o, n, f, t).from = o /\ Edge(rel, o, n, f, t).to = n
         /\ Edge(rel, o, n, f, t).from_node = f /\ Edge(rel, o, n, f, t).to_node = t
BY DEF Edge, Edges

\* What is true of an account stays true when requirements in no node yet are placed, if
\* each gets its explanation, and the evidence of its node, with its placement.
LEMMA PlaceKeeps ==
  ASSUME TypeOK, ExplainedInv, score' = score,
         NEW placed \in SUBSET News, NEW node, Place(placed, node),
         \A n \in placed : node[n] \in Requirements /\ lineage[n] = Nobody,
         NEW new \in SUBSET Edges, edges' = edges \cup new,
         \A e \in new : /\ e.from_node = e.from
                        /\ e.to = Nobody => e.to_node = Nobody
                        /\ e.to # Nobody => e.to \in placed /\ e.to_node = node[e.to],
         \A n \in placed : TellsOnce({e \in new : e.to = n}) /\ Evident(n, node[n], new)
  PROVE  /\ lineage' \in [News -> Requirements \cup {Nobody}]
         /\ members' \in [Requirements -> SUBSET News] /\ edges' \subseteq Edges
         /\ ExplainedInv'
         /\ \A n \in News : lineage'[n] # Nobody <=> n \in placed \/ lineage[n] # Nobody
<1>0. Nobody \notin Requirements /\ News \subseteq Requirements
  BY PositionsAssumption DEF Requirements
<1>1. /\ lineage \in [News -> Requirements \cup {Nobody}]
      /\ members \in [Requirements -> SUBSET News] /\ edges \subseteq Edges
  BY DEF TypeOK
<1>2. /\ lineage' = [n \in News |-> IF n \in placed THEN node[n] ELSE lineage[n]]
      /\ members' = [r \in Requirements |-> members[r] \cup {n \in placed : node[n] = r}]
  BY DEF Place
<1>3. /\ \A n \in placed : lineage'[n] = node[n] /\ lineage[n] = Nobody /\ node[n] # Nobody
      /\ \A n \in News \ placed : lineage'[n] = lineage[n]
  BY <1>0, <1>2
<1>4. /\ lineage' \in [News -> Requirements \cup {Nobody}]
      /\ members' \in [Requirements -> SUBSET News] /\ edges' \subseteq Edges
  BY <1>1, <1>2
<1>5. \A n \in News : lineage'[n] # Nobody <=> n \in placed \/ lineage[n] # Nobody
  BY <1>3
<1>6. ASSUME NEW n \in News, NEW r \in Requirements
      PROVE  n \in members'[r] <=> lineage'[n] = r
  <2>1. n \in members'[r] <=> n \in members[r] \/ (n \in placed /\ node[n] = r)
    BY <1>2
  <2>2. n \in members[r] <=> lineage[n] = r
    BY DEF ExplainedInv
  <2> QED BY <1>0, <1>3, <2>1, <2>2
<1>7. \A e \in edges : e.to # Nobody => e.to \in News \ placed
  <2> TAKE e \in edges
  <2>1. e.to \in News \cup {Nobody}
    BY <1>1 DEF Edges
  <2> QED BY <2>1, <1>3 DEF ExplainedInv
<1>8. EdgesTrace'
  <2> SUFFICES ASSUME NEW e \in edges'
               PROVE  /\ e.from_node = e.from
                      /\ e.to = Nobody => e.to_node = Nobody
                      /\ e.to # Nobody => e.to_node = lineage'[e.to]
    BY DEF EdgesTrace
  <2>1. CASE e \in edges
    BY <2>1, <1>3, <1>7 DEF ExplainedInv, EdgesTrace
  <2>2. CASE e \in new
    BY <2>2, <1>3
  <2> QED BY <2>1, <2>2
<1>9. \A e \in edges' : e.to # Nobody => lineage'[e.to] # Nobody
  <2> TAKE e \in edges'
  <2>1. CASE e \in edges
    BY <2>1, <1>3, <1>7 DEF ExplainedInv
  <2>2. CASE e \in new
    BY <2>2, <1>3
  <2> QED BY <2>1, <2>2
<1>10. ASSUME NEW n \in News, lineage'[n] # Nobody
       PROVE  TellsOnce({e \in edges' : e.to = n}) /\ Evident(n, lineage[n], edges)'
  <2>0. n # Nobody
    BY PositionsAssumption
  <2>1. CASE n \in placed
    <3>1. {e \in edges' : e.to = n} = {e \in new : e.to = n}
      BY <2>0, <2>1, <1>7
    <3>2. Evident(n, node[n], new) => Evident(n, lineage[n], edges)'
      BY <1>3, <2>1 DEF Evident
    <3> QED BY <2>1, <3>1, <3>2
  <2>2. CASE n \notin placed
    <3>1. {e \in edges' : e.to = n} = {e \in edges : e.to = n}
      BY <2>0, <2>2
    <3>2. lineage'[n] = lineage[n] /\ lineage[n] # Nobody
      BY <1>3, <1>10, <2>2
    <3>3. Evident(n, lineage[n], edges) => Evident(n, lineage[n], edges)'
      BY <3>2 DEF Evident
    <3> QED BY <3>1, <3>2, <3>3 DEF ExplainedInv
  <2> QED BY <2>1, <2>2
<1>11. ExplainedInv'
  <2>1. \A n \in News : lineage'[n] # Nobody =>
          TellsOnce({e \in edges' : e.to = n}) /\ Evident(n, lineage[n], edges)'
    BY <1>10
  <2> QED BY <1>6, <1>8, <1>9, <2>1 DEF ExplainedInv
<1> QED BY <1>4, <1>5, <1>11

-----------------------------------------------------------------------------
(* The steps.                                                              *)

LEMMA InitBuilds == Init => BuildInv
<1> SUFFICES ASSUME Init PROVE BuildInv
  OBVIOUS
<1>1. AlignInv
  BY AlignInitInv DEF Init
<1>2. TypeOK
  BY <1>1 DEF Init, TypeOK, AlignInv, Phases
<1>3. Nobody \notin Requirements
  BY PositionsAssumption DEF Requirements
<1>4. ExplainedInv
  BY <1>3 DEF Init, ExplainedInv, EdgesTrace, Requirements
<1>5. Claims /\ AloneStays /\ Unplaced
  BY DEF Init, Claims, AloneStays, Unplaced, Placed
<1> QED BY <1>1, <1>2, <1>4, <1>5 DEF BuildInv, Init

LEMMA AlignBuilds ==
  ASSUME BuildInv, Align
  PROVE  BuildInv'
<1>1. phase = "align" /\ AlignNext
      /\ UNCHANGED <<core, phase, work, claimedOld, claimedNew, lineage, members, edges>>
  BY DEF Align, buildVars
<1>2. AlignInv'
  BY <1>1, AlignStepInv DEF BuildInv
<1>3. TypeOK'
  BY <1>1, <1>2 DEF BuildInv, TypeOK, AlignInv
<1>4. ExplainedInv'
  BY <1>1 DEF BuildInv, Unplaced, ExplainedInv, EdgesTrace
<1>5. Claims' /\ AloneStays' /\ Unplaced' /\ work' = {}
  BY <1>1 DEF BuildInv, Claims, AloneStays, Unplaced, Placed
<1> QED BY <1>1, <1>2, <1>3, <1>4, <1>5 DEF BuildInv

\* From here on the alignment is done and stays as it is.
LEMMA AlignmentStays ==
  ASSUME BuildInv, UNCHANGED <<alignVars, core>>
  PROVE  /\ AlignInv' /\ UNCHANGED <<score, distinct, todo, match, core>>
         /\ \A o, n : Children(score, match, o)' = Children(score, match, o)
         /\ \A c : Alone(c)' = Alone(c)
         /\ Splits(score, core, match)' = Splits(score, core, match)
<1>1. UNCHANGED <<score, distinct, todo, match, core>>
  BY DEF alignVars
<1>2. AlignInv'
  BY AlignStepInv DEF BuildInv
<1> QED BY <1>1, <1>2 DEF Alone, Isolated

LEMMA BeginSplitsBuilds ==
  ASSUME BuildInv, BeginSplits
  PROVE  BuildInv'
<1>1. /\ phase = "align" /\ todo = {} /\ phase' = "split"
      /\ work' = Splits(score, core, match)
      /\ UNCHANGED <<alignVars, core, claimedOld, claimedNew, lineage, members, edges>>
  BY DEF BeginSplits
<1>2. AlignInv' /\ UNCHANGED <<score, distinct, todo, match, core>>
      /\ Splits(score, core, match)' = Splits(score, core, match)
  BY <1>1, AlignmentStays
<1>3. TypeOK'
  BY <1>1, <1>2 DEF BuildInv, TypeOK, AlignInv, Phases, Splits
<1>4. ExplainedInv'
  BY <1>1, <1>2 DEF BuildInv, Unplaced, ExplainedInv, EdgesTrace
<1>5. Claims' /\ AloneStays' /\ Unplaced'
  BY <1>1 DEF BuildInv, Claims, AloneStays, Unplaced, Placed
<1> QED BY <1>1, <1>2, <1>3, <1>4, <1>5 DEF BuildInv

\* A child is in no node yet: it was not claimed.
LEMMA SplitBuilds ==
  ASSUME BuildInv, NEW o \in Olds, Split(o)
  PROVE  BuildInv'
<1> DEFINE kids == Kids(o)
           node == [n \in kids |-> IF n = FirstChild(score, match, o) THEN o ELSE n]
           new == {Edge("SPLIT_INTO", o, n, o, node[n]) : n \in kids}
<1>1. /\ phase = "split" /\ phase' = "split" /\ o \in work /\ work' = work \ {o}
      /\ claimedOld' = claimedOld \cup {o} /\ claimedNew' = claimedNew \cup kids
      /\ Place(kids, node) /\ edges' = edges \cup new
      /\ UNCHANGED <<alignVars, core>>
  BY DEF Split
<1>2. /\ AlignInv /\ TypeOK /\ ExplainedInv /\ Claims /\ todo = {} /\ AlignTypeOK
      /\ o \in Splits(score, core, match)
  BY <1>1 DEF BuildInv, TypeOK
<1>3. AlignInv' /\ UNCHANGED <<score, distinct, todo, match, core>>
      /\ (\A c : Alone(c)' = Alone(c))
      /\ Splits(score, core, match)' = Splits(score, core, match)
  BY <1>1, AlignmentStays
<1>4. \A n \in kids : /\ n \in News /\ score[<<o, n>>] >= SplitSecondary
                      /\ n \notin claimedNew /\ n \in Children(score, match, o)
  BY <1>2, ChildrenAre DEF Kids
<1>5. \A n \in kids : node[n] \in Requirements /\ lineage[n] = Nobody /\ node[n] \in {o, n}
  BY <1>1, <1>2, <1>4 DEF Requirements, Claims
<1> HIDE DEF kids, node
<1>6. ASSUME NEW n \in kids
      PROVE  LET e == Edge("SPLIT_INTO", o, n, o, node[n])
             IN  /\ e \in Edges /\ e.relation = "SPLIT_INTO" /\ e.from = o /\ e.to = n
                 /\ e.from_node = o /\ e.to_node = node[n]
  <2>1. /\ "SPLIT_INTO" \in Relations /\ n \in News \cup {Nobody} /\ o \in Olds \cup {Nobody}
        /\ node[n] \in Requirements \cup {Nobody}
    BY <1>4, <1>5 DEF Relations
  <2> QED BY <2>1, EdgeIs
<1>7. new \in SUBSET Edges
  BY <1>6
<1>8. Nobody \notin News /\ Olds \cap News = {}
  BY PositionsAssumption
<1>9. \A e \in new : /\ e.from_node = e.from
                     /\ e.to = Nobody => e.to_node = Nobody
                     /\ e.to # Nobody => e.to \in kids /\ e.to_node = node[e.to]
  <2> TAKE e \in new
  <2>1. PICK n \in kids : e = Edge("SPLIT_INTO", o, n, o, node[n])
    OBVIOUS
  <2>2. n \in News /\ e.to = n /\ e.from_node = o /\ e.from = o /\ e.to_node = node[n]
    BY <1>4, <1>6, <2>1
  <2> QED BY <1>8, <2>2
<1>10. ASSUME NEW n \in kids
       PROVE  TellsOnce({e \in new : e.to = n}) /\ Evident(n, node[n], new)
  <2> DEFINE e == Edge("SPLIT_INTO", o, n, o, node[n])
  <2>1. e \in new /\ e.to = n /\ e.from = o /\ e.relation # "MERGED_FROM"
    BY <1>6
  <2>2. {d \in new : d.to = n} = {e}
    BY <2>1, <1>6
  <2> HIDE DEF e, new
  <2>3. TellsOnce({d \in new : d.to = n})
    BY <2>1, <2>2 DEF TellsOnce
  <2>4. Evident(n, node[n], new)
    BY <2>1, <1>4, <1>5, <1>8 DEF Evident
  <2> QED BY <2>3, <2>4
<1>11. kids \in SUBSET News
  BY <1>4
<1> HIDE DEF new
<1>12. /\ lineage' \in [News -> Requirements \cup {Nobody}]
       /\ members' \in [Requirements -> SUBSET News] /\ edges' \subseteq Edges
       /\ ExplainedInv'
       /\ \A n \in News : lineage'[n] # Nobody <=> n \in kids \/ lineage[n] # Nobody
  BY <1>1, <1>2, <1>3, <1>5, <1>7, <1>9, <1>10, <1>11, PlaceKeeps
<1>13. TypeOK'
  BY <1>1, <1>2, <1>3, <1>11, <1>12 DEF TypeOK, AlignInv, Phases
<1>14. Claims'
  BY <1>1, <1>2, <1>11, <1>12 DEF Claims, Placed
<1>15. AloneStays'
  <2> SUFFICES ASSUME NEW c \in Candidates, Alone(c)
               PROVE  c[1] \notin claimedOld' /\ c[2] \notin claimedNew'
    BY <1>1, <1>3 DEF AloneStays, Placed
  <2>1. c[1] \notin claimedOld /\ c[2] \notin claimedNew
    BY <1>1 DEF BuildInv, AloneStays
  <2>2. c[1] # o /\ c[2] \notin Children(score, match, o)
    BY <1>2, AloneIs
  <2> QED BY <1>1, <1>4, <2>1, <2>2
<1> QED BY <1>1, <1>2, <1>3, <1>12, <1>13, <1>14, <1>15 DEF BuildInv, Unplaced

LEMMA MergeBuilds ==
  ASSUME BuildInv, Merge
  PROVE  BuildInv'
<1> DEFINE placed == MergedNews
           node == [n \in placed |-> FirstParent(score, n)]
           edge(n, o) == Edge("MERGED_FROM", o, n, o, node[n])
           new == UNION {{edge(n, o) : o \in Parents(score, n)} : n \in placed}
<1>1. /\ phase = "split" /\ work = {} /\ phase' = "primary"
      /\ claimedOld' = claimedOld \cup UNION {Parents(score, n) : n \in placed}
      /\ claimedNew' = claimedNew \cup placed
      /\ Place(placed, node) /\ edges' = edges \cup new
      /\ UNCHANGED <<alignVars, core, work>>
  BY DEF Merge
<1>2. AlignInv /\ TypeOK /\ ExplainedInv /\ Claims /\ todo = {} /\ AlignTypeOK
  BY <1>1 DEF BuildInv, TypeOK
<1>3. AlignInv' /\ UNCHANGED <<score, distinct, todo, match, core>>
      /\ (\A c : Alone(c)' = Alone(c))
  BY <1>1, AlignmentStays
<1>4. \A n \in placed : /\ n \in News /\ n \notin claimedNew /\ n \in Merges(score, core, match)
                        /\ FirstParent(score, n) \in Parents(score, n)
                        /\ \E x, y \in Parents(score, n) : x # y
  BY <1>2, MergesAre DEF MergedNews
<1>5. \A n \in placed : /\ node[n] = FirstParent(score, n) /\ node[n] \in Olds
                        /\ node[n] \in Parents(score, n)
                        /\ node[n] \in Requirements /\ lineage[n] = Nobody
  BY <1>1, <1>2, <1>4 DEF Requirements, Claims, Parents
<1>6. \A n \in placed : Parents(score, n) \subseteq Olds
  BY DEF Parents
<1> HIDE DEF placed, node
<1>7. ASSUME NEW n \in placed, NEW o \in Parents(score, n)
      PROVE  /\ edge(n, o) \in Edges /\ edge(n, o).relation = "MERGED_FROM"
             /\ edge(n, o).from = o /\ edge(n, o).to = n
             /\ edge(n, o).from_node = o /\ edge(n, o).to_node = node[n]
  <2>1. /\ "MERGED_FROM" \in Relations /\ n \in News \cup {Nobody} /\ o \in Olds \cup {Nobody}
        /\ node[n] \in Requirements \cup {Nobody}
    BY <1>4, <1>5, <1>6 DEF Relations
  <2> QED BY <2>1 DEF Edge, Edges
<1> HIDE DEF edge
<1>8. Nobody \notin News /\ placed \in SUBSET News
  BY <1>4, PositionsAssumption
<1>9. \A e \in new : \E n \in placed : \E o \in Parents(score, n) : e = edge(n, o)
  OBVIOUS
<1>10. \A n \in placed : \A o \in Parents(score, n) : edge(n, o) \in new
  OBVIOUS
<1> HIDE DEF new
<1>11. new \in SUBSET Edges
  BY <1>7, <1>9
<1>12. \A e \in new : /\ e.from_node = e.from
                      /\ e.to = Nobody => e.to_node = Nobody
                      /\ e.to # Nobody => e.to \in placed /\ e.to_node = node[e.to]
  <2> TAKE e \in new
  <2>1. PICK n \in placed : \E o \in Parents(score, n) : e = edge(n, o)
    BY <1>9
  <2> QED BY <1>7, <1>8, <2>1
<1>13. ASSUME NEW n \in placed
       PROVE  TellsOnce({e \in new : e.to = n}) /\ Evident(n, node[n], new)
  <2>1. PICK x \in Parents(score, n), y \in Parents(score, n) : x # y
    BY <1>4
  <2>2. edge(n, x) \in new /\ edge(n, y) \in new /\ edge(n, x).to = n /\ edge(n, y).to = n
        /\ edge(n, x).from # edge(n, y).from
    BY <1>7, <1>10, <2>1
  <2>3. ASSUME NEW e \in new, e.to = n PROVE e.relation = "MERGED_FROM"
    <3>1. PICK m \in placed : \E o \in Parents(score, m) : e = edge(m, o)
      BY <1>9
    <3> QED BY <1>7, <3>1
  <2>4. TellsOnce({e \in new : e.to = n})
    BY <2>2, <2>3 DEF TellsOnce
  <2>5. edge(n, node[n]) \in new /\ edge(n, node[n]).from = node[n] /\ edge(n, node[n]).to = n
    BY <1>5, <1>7, <1>10
  <2>6. score[<<node[n], n>>] >= SplitSecondary
    BY <1>4, <1>5, ParentsAre
  <2>7. Evident(n, node[n], new)
    BY <2>5, <2>6 DEF Evident
  <2> QED BY <2>4, <2>7
<1>14. /\ lineage' \in [News -> Requirements \cup {Nobody}]
       /\ members' \in [Requirements -> SUBSET News] /\ edges' \subseteq Edges
       /\ ExplainedInv'
       /\ \A n \in News : lineage'[n] # Nobody <=> n \in placed \/ lineage[n] # Nobody
  BY <1>1, <1>2, <1>3, <1>5, <1>8, <1>11, <1>12, <1>13, PlaceKeeps
<1>15. claimedOld' \subseteq Olds /\ claimedNew' \subseteq News
  BY <1>1, <1>2, <1>6, <1>8 DEF TypeOK
<1>16. TypeOK'
  BY <1>1, <1>2, <1>3, <1>14, <1>15 DEF TypeOK, AlignInv, Phases
<1>17. Claims'
  BY <1>1, <1>2, <1>8, <1>14 DEF Claims, Placed
<1>18. AloneStays'
  <2> SUFFICES ASSUME NEW c \in Candidates, Alone(c)
               PROVE  c[1] \notin claimedOld' /\ c[2] \notin claimedNew'
    BY <1>1, <1>3 DEF AloneStays, Placed
  <2>1. c[1] \notin claimedOld /\ c[2] \notin claimedNew
    BY <1>1 DEF BuildInv, AloneStays
  <2>2. c[2] \notin Merges(score, core, match)
        /\ \A n \in News \ {c[2]} : c[1] \notin Parents(score, n)
    BY <1>2, AloneIs
  <2>3. c[2] \notin placed
    BY <1>4, <2>2
  <2>4. \A n \in placed : c[1] \notin Parents(score, n)
    BY <1>4, <2>2, <2>3
  <2> QED BY <1>1, <2>1, <2>3, <2>4
<1> QED BY <1>1, <1>2, <1>3, <1>14, <1>16, <1>17, <1>18 DEF BuildInv, Unplaced

LEMMA ContinueBuilds ==
  ASSUME BuildInv, Continue
  PROVE  BuildInv'
<1> DEFINE splits == Splits(score, core, match)
           merges == Merges(score, core, match)
           kept == {c \in match : /\ c[1] \notin splits \cup claimedOld
                                  /\ c[2] \notin merges \cup claimedNew}
           removed == UnmatchedOlds \ (splits \cup claimedOld)
           added == UnmatchedNews \ (merges \cup claimedNew)
           placed == {c[2] : c \in kept} \cup added
           node == [n \in placed |-> IF n \in added THEN n
                                     ELSE (CHOOSE c \in kept : c[2] = n)[1]]
           edge(c) == Edge("CONTINUES", c[1], c[2], c[1], c[1])
           new == {edge(c) : c \in kept} \cup {RemovedEdge(o) : o \in removed}
                    \cup {AddedEdge(n) : n \in added}
<1>1. /\ phase = "primary" /\ phase' = "leftover"
      /\ claimedOld' = claimedOld \cup {c[1] : c \in kept} \cup removed
      /\ claimedNew' = claimedNew \cup placed
      /\ Place(placed, node)
      /\ edges' = edges \cup {edge(c) : c \in kept} \cup {RemovedEdge(o) : o \in removed}
                    \cup {AddedEdge(n) : n \in added}
      /\ UNCHANGED <<alignVars, core, work>>
  BY DEF Continue
<1>2. AlignInv /\ TypeOK /\ ExplainedInv /\ Claims /\ todo = {} /\ AlignTypeOK /\ OneToOne
  BY <1>1 DEF BuildInv, TypeOK, AlignInv
<1>3. AlignInv' /\ UNCHANGED <<score, distinct, todo, match, core>>
      /\ (\A c : Alone(c)' = Alone(c))
      /\ Splits(score, core, match)' = Splits(score, core, match)
  BY <1>1, AlignmentStays
<1>4. Nobody \notin Olds \cup News /\ Olds \cap News = {}
  BY PositionsAssumption
<1>5. \A c \in kept : /\ c \in match /\ c[1] \in Olds /\ c[2] \in News /\ c = <<c[1], c[2]>>
                      /\ c[2] \notin claimedNew /\ score[c] >= SplitSecondary
  <2> TAKE c \in kept
  <2>0. c \in match /\ c[2] \notin claimedNew
    OBVIOUS
  <2> HIDE DEF kept
  <2>1. c \in Candidates /\ score[c] >= SplitSecondary
    BY <1>2, <2>0, MatchesAreSimilar
  <2> QED BY <2>0, <2>1 DEF Candidates
<1>6. \A n \in added : n \in News /\ n \notin claimedNew /\ \A c \in match : c[2] # n
  BY DEF UnmatchedNews
<1>7. \A o \in removed : o \in Olds
  BY DEF UnmatchedOlds
<1>8. \A c \in kept : c[2] \notin added /\ c[2] \in placed
  BY <1>6
<1>9. ASSUME NEW c \in kept PROVE node[c[2]] = c[1]
  <2>1. \A d \in kept : d[2] = c[2] => d = c
    BY <1>2, <1>5 DEF OneToOne
  <2> HIDE DEF kept, added
  <2>2. (CHOOSE d \in kept : d[2] = c[2]) = c
    BY <2>1
  <2> QED BY <1>8, <2>2
<1>10. \A n \in added : node[n] = n
  OBVIOUS
<1>11. \A n \in placed : n \in added \/ \E c \in kept : c[2] = n
  OBVIOUS
<1>12. edges' = edges \cup new
  BY <1>1
<1>13. {c[1] : c \in kept} \cup removed \subseteq Olds
  BY <1>5, <1>7
<1>14. \A e \in new : \/ \E c \in kept : e = edge(c)
                      \/ \E o \in removed : e = RemovedEdge(o)
                      \/ \E n \in added : e = AddedEdge(n)
  OBVIOUS
<1>15. /\ \A c \in kept : edge(c) \in new
       /\ \A n \in added : AddedEdge(n) \in new
  OBVIOUS
<1>16. \A n \in UnmatchedNews : n \in added \/ n \in merges \/ n \in claimedNew
  OBVIOUS
<1>17. \A c \in match : /\ c[1] \notin splits \cup claimedOld
                        /\ c[2] \notin merges \cup claimedNew
                        => c \in kept
  OBVIOUS
<1> HIDE DEF kept, removed, added, placed, node, new
<1>18. \A n \in placed : n \in News /\ lineage[n] = Nobody /\ node[n] \in Requirements
  BY <1>1, <1>2, <1>5, <1>6, <1>9, <1>10, <1>11 DEF Requirements, Claims
<1>19. ASSUME NEW c \in kept
       PROVE  /\ edge(c) \in Edges /\ edge(c).relation = "CONTINUES"
              /\ edge(c).from = c[1] /\ edge(c).to = c[2]
              /\ edge(c).from_node = c[1] /\ edge(c).to_node = c[1]
  <2>1. /\ "CONTINUES" \in Relations /\ c[2] \in News \cup {Nobody}
        /\ c[1] \in Olds \cup {Nobody} /\ c[1] \in Requirements \cup {Nobody}
    BY <1>5 DEF Relations, Requirements
  <2> QED BY <2>1 DEF Edge, Edges
<1>20. ASSUME NEW o \in removed
       PROVE  /\ RemovedEdge(o) \in Edges
              /\ RemovedEdge(o).from = o /\ RemovedEdge(o).to = Nobody
              /\ RemovedEdge(o).from_node = o /\ RemovedEdge(o).to_node = Nobody
  <2>1. "REMOVED" \in Relations /\ o \in Olds \cup {Nobody}
    BY <1>7 DEF Relations
  <2> QED BY <2>1, EdgeIs DEF RemovedEdge
<1>21. ASSUME NEW n \in added
       PROVE  /\ AddedEdge(n) \in Edges /\ AddedEdge(n).relation = "ADDED"
              /\ AddedEdge(n).from = Nobody /\ AddedEdge(n).to = n
              /\ AddedEdge(n).from_node = Nobody /\ AddedEdge(n).to_node = n
  <2>1. "ADDED" \in Relations /\ n \in News \cup {Nobody} /\ n \in Requirements \cup {Nobody}
    BY <1>6 DEF Relations, Requirements
  <2> QED BY <2>1, EdgeIs DEF AddedEdge
<1> HIDE DEF edge
<1>22. new \in SUBSET Edges
  BY <1>14, <1>19, <1>20, <1>21
<1>23. \A e \in new : /\ e.from_node = e.from
                      /\ e.to = Nobody => e.to_node = Nobody
                      /\ e.to # Nobody => e.to \in placed /\ e.to_node = node[e.to]
  <2> TAKE e \in new
  <2>1. CASE \E c \in kept : e = edge(c)
    BY <2>1, <1>4, <1>5, <1>8, <1>9, <1>19
  <2>2. CASE \E o \in removed : e = RemovedEdge(o)
    BY <2>2, <1>20
  <2>3. CASE \E n \in added : e = AddedEdge(n)
    <3>1. \A n \in added : n \in placed
      BY DEF placed
    <3> QED BY <2>3, <3>1, <1>4, <1>6, <1>10, <1>21
  <2> QED BY <1>14, <2>1, <2>2, <2>3
<1>24. ASSUME NEW n \in placed
       PROVE  TellsOnce({e \in new : e.to = n}) /\ Evident(n, node[n], new)
  <2>0. n # Nobody
    BY <1>4, <1>18
  <2>1. CASE n \in added
    <3>1. AddedEdge(n) \in new /\ AddedEdge(n).relation # "MERGED_FROM" /\ AddedEdge(n).to = n
      BY <2>1, <1>15, <1>21
    <3>2. ASSUME NEW e \in new, e.to = n PROVE e = AddedEdge(n)
      <4>1. ~ \E c \in kept : e = edge(c)
        BY <2>1, <3>2, <1>5, <1>6, <1>19
      <4>2. ~ \E o \in removed : e = RemovedEdge(o)
        BY <2>0, <3>2, <1>20
      <4>3. PICK m \in added : e = AddedEdge(m)
        BY <1>14, <4>1, <4>2
      <4> QED BY <3>2, <4>3, <1>21
    <3>3. {e \in new : e.to = n} = {AddedEdge(n)}
      BY <3>1, <3>2
    <3>4. node[n] \notin Olds
      BY <2>1, <1>4, <1>6, <1>10
    <3> QED BY <3>1, <3>3, <3>4 DEF TellsOnce, Evident
  <2>2. CASE \E c \in kept : c[2] = n
    <3>1. PICK c \in kept : c[2] = n
      BY <2>2
    <3>2. edge(c) \in new /\ edge(c).relation # "MERGED_FROM" /\ edge(c).to = n
          /\ edge(c).from = node[n]
      BY <3>1, <1>9, <1>15, <1>19
    <3>3. ASSUME NEW e \in new, e.to = n PROVE e = edge(c)
      <4>1. ~ \E m \in added : e = AddedEdge(m)
        BY <3>1, <3>3, <1>8, <1>21
      <4>2. ~ \E o \in removed : e = RemovedEdge(o)
        BY <2>0, <3>3, <1>20
      <4>3. PICK d \in kept : e = edge(d)
        BY <1>14, <4>1, <4>2
      <4>4. d = c
        BY <1>2, <1>5, <1>19, <3>1, <3>3, <4>3 DEF OneToOne
      <4> QED BY <4>3, <4>4
    <3>4. {e \in new : e.to = n} = {edge(c)}
      BY <3>2, <3>3
    <3>5. score[<<node[n], n>>] >= SplitSecondary
      BY <3>1, <1>5, <1>9
    <3> QED BY <3>2, <3>4, <3>5 DEF TellsOnce, Evident
  <2> QED BY <1>11, <2>1, <2>2
<1>25. placed \in SUBSET News
  BY <1>18
<1>26. /\ lineage' \in [News -> Requirements \cup {Nobody}]
       /\ members' \in [Requirements -> SUBSET News] /\ edges' \subseteq Edges
       /\ ExplainedInv'
       /\ \A n \in News : lineage'[n] # Nobody <=> n \in placed \/ lineage[n] # Nobody
  BY <1>1, <1>2, <1>3, <1>12, <1>18, <1>22, <1>23, <1>24, <1>25, PlaceKeeps
<1>27. TypeOK'
  BY <1>1, <1>2, <1>3, <1>13, <1>25, <1>26 DEF TypeOK, AlignInv, Phases
<1>28. Claims'
  <2>1. ASSUME NEW n \in News \ claimedNew' PROVE Olds # {}
    <3>1. n \notin claimedNew /\ n \notin placed
      BY <1>1, <2>1
    <3>2. n \notin added
      BY <3>1 DEF placed
    <3>3. CASE n \in merges
      BY <3>3, <1>2, MergesAre, ParentsAre
    <3>4. CASE n \notin UnmatchedNews
      BY <3>4, <1>2 DEF UnmatchedNews, AlignTypeOK, Candidates
    <3> QED BY <1>16, <3>1, <3>2, <3>3, <3>4
  <2> QED BY <1>1, <1>2, <1>25, <1>26, <2>1 DEF Claims, Placed
<1>29. AloneStays'
  <2> SUFFICES ASSUME NEW c \in Candidates, Alone(c)
               PROVE  Continued(c)'
    BY <1>1, <1>3 DEF AloneStays, Placed
  <2>1. c[1] \notin claimedOld /\ c[2] \notin claimedNew
    BY <1>1 DEF BuildInv, AloneStays
  <2>2. c \in match /\ c[1] \notin splits /\ c[2] \notin merges
    BY <1>2, AloneIs
  <2>3. c \in kept
    BY <1>17, <2>1, <2>2
  <2>4. edge(c) \in edges'
    BY <1>12, <1>15, <2>3
  <2>5. lineage'[c[2]] = c[1]
    <3>1. c[2] \in placed /\ node[c[2]] = c[1] /\ c[2] \in News
      BY <1>5, <1>8, <1>9, <2>3
    <3> QED BY <1>1, <3>1 DEF Place
  <2> QED BY <2>4, <2>5 DEF Continued, edge
<1> QED BY <1>1, <1>2, <1>3, <1>26, <1>27, <1>28, <1>29 DEF BuildInv, Unplaced

LEMMA LeftoversBuilds ==
  ASSUME BuildInv, Leftovers
  PROVE  BuildInv'
<1> DEFINE gone == Olds \ claimedOld
           rest == News \ claimedNew
           soft == {n \in rest : score[<<BestOld(n), n>>] >= Threshold}
           node == [n \in rest |-> IF n \in soft THEN BestOld(n) ELSE n]
           edge(n) == Edge("SOFT", BestOld(n), n, BestOld(n), BestOld(n))
           new == {RemovedEdge(o) : o \in gone} \cup {edge(n) : n \in soft}
                    \cup {AddedEdge(n) : n \in rest \ soft}
<1>1. /\ phase = "leftover" /\ phase' = "validate"
      /\ Place(rest, node)
      /\ edges' = edges \cup {RemovedEdge(o) : o \in gone} \cup {edge(n) : n \in soft}
                    \cup {AddedEdge(n) : n \in rest \ soft}
      /\ UNCHANGED <<alignVars, core, work, claimedOld, claimedNew>>
  BY DEF Leftovers
<1>2. AlignInv /\ TypeOK /\ ExplainedInv /\ Claims /\ todo = {} /\ AlignTypeOK
  BY <1>1 DEF BuildInv, TypeOK
<1>3. AlignInv' /\ UNCHANGED <<score, distinct, todo, match, core>>
      /\ (\A c : Alone(c)' = Alone(c))
      /\ Splits(score, core, match)' = Splits(score, core, match)
  BY <1>1, AlignmentStays
<1>4. Nobody \notin Olds \cup News /\ Olds \cap News = {}
  BY PositionsAssumption
<1>5. \A n \in rest : n \in News /\ lineage[n] = Nobody /\ BestOld(n) \in Olds
  <2> TAKE n \in rest
  <2>1. n \in News /\ lineage[n] = Nobody /\ Olds # {}
    BY <1>1, <1>2 DEF Claims
  <2> QED BY <1>2, <2>1, BestOldIs
<1>6. \A n \in rest : n \in soft => score[<<BestOld(n), n>>] >= SplitSecondary
  <2> TAKE n \in rest
  <2>1. <<BestOld(n), n>> \in Candidates
    BY <1>5 DEF Candidates
  <2>2. score[<<BestOld(n), n>>] \in Nat
    BY <1>2, <2>1, ScoresAssumption DEF AlignTypeOK
  <2> HIDE DEF rest
  <2> QED BY <2>2, MatchAssumption, ScoresAssumption DEF SplitSecondary
<1>7. /\ \A n \in rest : n \in soft => node[n] = BestOld(n)
      /\ \A n \in rest : n \notin soft => node[n] = n
      /\ soft \subseteq rest
  OBVIOUS
<1>8. edges' = edges \cup new
  BY <1>1
<1>9. \A e \in new : \/ \E n \in soft : e = edge(n)
                     \/ \E o \in gone : e = RemovedEdge(o)
                     \/ \E n \in rest \ soft : e = AddedEdge(n)
  OBVIOUS
<1>10. /\ \A n \in soft : edge(n) \in new
       /\ \A n \in rest \ soft : AddedEdge(n) \in new
  OBVIOUS
<1>11. \A n \in News : n \in rest \/ lineage[n] # Nobody
  BY <1>1, <1>2 DEF Claims
<1>12. \A o \in gone : o \in Olds
  OBVIOUS
<1> HIDE DEF gone, rest, soft, node, new
<1>13. \A n \in rest : node[n] \in Requirements
  BY <1>5, <1>7 DEF Requirements
<1>14. ASSUME NEW n \in soft
       PROVE  /\ edge(n) \in Edges /\ edge(n).relation = "SOFT"
              /\ edge(n).from = BestOld(n) /\ edge(n).to = n
              /\ edge(n).from_node = BestOld(n) /\ edge(n).to_node = BestOld(n)
  <2>1. /\ "SOFT" \in Relations /\ n \in News \cup {Nobody}
        /\ BestOld(n) \in Olds \cup {Nobody} /\ BestOld(n) \in Requirements \cup {Nobody}
    BY <1>5, <1>7 DEF Relations, Requirements
  <2> QED BY <2>1 DEF Edge, Edges
<1>15. ASSUME NEW o \in gone
       PROVE  /\ RemovedEdge(o) \in Edges
              /\ RemovedEdge(o).from = o /\ RemovedEdge(o).to = Nobody
              /\ RemovedEdge(o).from_node = o /\ RemovedEdge(o).to_node = Nobody
  <2>1. "REMOVED" \in Relations /\ o \in Olds \cup {Nobody}
    BY <1>12 DEF Relations
  <2> QED BY <2>1, EdgeIs DEF RemovedEdge
<1>16. ASSUME NEW n \in rest \ soft
       PROVE  /\ AddedEdge(n) \in Edges /\ AddedEdge(n).relation = "ADDED"
              /\ AddedEdge(n).from = Nobody /\ AddedEdge(n).to = n
              /\ AddedEdge(n).from_node = Nobody /\ AddedEdge(n).to_node = n
  <2>1. "ADDED" \in Relations /\ n \in News \cup {Nobody} /\ n \in Requirements \cup {Nobody}
    BY <1>5 DEF Relations, Requirements
  <2> QED BY <2>1 DEF AddedEdge, Edge, Edges
<1> HIDE DEF edge
<1>17. new \in SUBSET Edges
  BY <1>9, <1>14, <1>15, <1>16
<1>18. \A e \in new : /\ e.from_node = e.from
                      /\ e.to = Nobody => e.to_node = Nobody
                      /\ e.to # Nobody => e.to \in rest /\ e.to_node = node[e.to]
  <2> TAKE e \in new
  <2>1. CASE \E n \in soft : e = edge(n)
    BY <2>1, <1>4, <1>5, <1>7, <1>14
  <2>2. CASE \E o \in gone : e = RemovedEdge(o)
    BY <2>2, <1>15
  <2>3. CASE \E n \in rest \ soft : e = AddedEdge(n)
    BY <2>3, <1>4, <1>5, <1>7, <1>16
  <2> QED BY <1>9, <2>1, <2>2, <2>3
<1>19. ASSUME NEW n \in rest
       PROVE  TellsOnce({e \in new : e.to = n}) /\ Evident(n, node[n], new)
  <2>0. n # Nobody
    BY <1>4, <1>5
  <2>1. ASSUME NEW e \in new, e.to = n
        PROVE  e = IF n \in soft THEN edge(n) ELSE AddedEdge(n)
    <3>1. ~ \E o \in gone : e = RemovedEdge(o)
      BY <2>0, <2>1, <1>15
    <3>2. CASE \E m \in soft : e = edge(m)
      BY <2>1, <3>2, <1>14
    <3>3. CASE \E m \in rest \ soft : e = AddedEdge(m)
      BY <2>1, <3>3, <1>16
    <3> QED BY <1>9, <3>1, <3>2, <3>3
  <2>2. CASE n \in soft
    <3>1. edge(n) \in new /\ edge(n).relation # "MERGED_FROM" /\ edge(n).to = n
          /\ edge(n).from = node[n]
      BY <2>2, <1>7, <1>10, <1>14
    <3>2. {e \in new : e.to = n} = {edge(n)}
      BY <2>1, <2>2, <3>1
    <3>3. score[<<node[n], n>>] >= SplitSecondary
      BY <2>2, <1>6, <1>7
    <3> QED BY <3>1, <3>2, <3>3 DEF TellsOnce, Evident
  <2>3. CASE n \notin soft
    <3>1. AddedEdge(n) \in new /\ AddedEdge(n).relation # "MERGED_FROM" /\ AddedEdge(n).to = n
      BY <2>3, <1>10, <1>16
    <3>2. {e \in new : e.to = n} = {AddedEdge(n)}
      BY <2>1, <2>3, <3>1
    <3>3. node[n] \notin Olds
      BY <2>3, <1>4, <1>5, <1>7
    <3> QED BY <3>1, <3>2, <3>3 DEF TellsOnce, Evident
  <2> QED BY <2>2, <2>3
<1>20. rest \in SUBSET News
  BY <1>5
<1>21. /\ lineage' \in [News -> Requirements \cup {Nobody}]
       /\ members' \in [Requirements -> SUBSET News] /\ edges' \subseteq Edges
       /\ ExplainedInv'
       /\ \A n \in News : lineage'[n] # Nobody <=> n \in rest \/ lineage[n] # Nobody
  BY <1>1, <1>2, <1>3, <1>5, <1>8, <1>13, <1>17, <1>18, <1>19, <1>20, PlaceKeeps
<1>22. TypeOK'
  BY <1>1, <1>2, <1>3, <1>21 DEF TypeOK, AlignInv, Phases
<1>23. Claims'
  BY <1>1, <1>11, <1>21 DEF Claims, Placed
<1>24. AloneStays'
  <2> SUFFICES ASSUME NEW c \in Candidates, Alone(c)
               PROVE  Continued(c)'
    BY <1>1, <1>3 DEF AloneStays, Placed
  <2>1. Continued(c) /\ c[2] \in News /\ c[1] # Nobody
    BY <1>1, <1>4 DEF BuildInv, AloneStays, Candidates
  <2>2. lineage'[c[2]] = lineage[c[2]]
    <3>1. c[2] \notin rest
      BY <1>5, <2>1 DEF Continued
    <3> QED BY <1>1, <2>1, <3>1 DEF Place
  <2> QED BY <1>8, <2>1, <2>2 DEF Continued
<1> QED BY <1>1, <1>2, <1>3, <1>21, <1>22, <1>23, <1>24 DEF BuildInv, Unplaced

\* The validation reads the graph; a step that changes nothing keeps it too.
LEMMA ValidateBuilds ==
  ASSUME BuildInv, Validate \/ UNCHANGED vars
  PROVE  BuildInv'
<1>1. /\ UNCHANGED <<alignVars, core, work, claimedOld, claimedNew, lineage, members, edges>>
      /\ \/ phase = "validate" /\ phase' \in {"built", "raised"}
         \/ phase' = phase
  BY DEF Validate, vars, buildVars
<1>2. AlignInv' /\ UNCHANGED <<score, distinct, todo, match, core>>
      /\ (\A c : Alone(c)' = Alone(c))
      /\ Splits(score, core, match)' = Splits(score, core, match)
  BY <1>1, AlignmentStays
<1>3. TypeOK'
  BY <1>1, <1>2 DEF BuildInv, TypeOK, AlignInv, Phases
<1>4. ExplainedInv'
  BY <1>1, <1>2 DEF BuildInv, ExplainedInv, EdgesTrace, Evident
<1>5. Claims'
  BY <1>1 DEF BuildInv, Claims, Placed
<1>6. AloneStays'
  BY <1>1, <1>2 DEF BuildInv, AloneStays, Continued, Placed
<1>7. Unplaced'
  BY <1>1 DEF BuildInv, Unplaced
<1> QED BY <1>1, <1>2, <1>3, <1>4, <1>5, <1>6, <1>7 DEF BuildInv

LEMMA BuildInductive == Spec => []BuildInv
<1>1. BuildInv /\ [Next]_vars => BuildInv'
  <2> SUFFICES ASSUME BuildInv, [Next]_vars PROVE BuildInv'
    OBVIOUS
  <2>1. CASE Align
    BY <2>1, AlignBuilds
  <2>2. CASE BeginSplits
    BY <2>2, BeginSplitsBuilds
  <2>3. CASE \E o \in Olds : Split(o)
    BY <2>3, SplitBuilds
  <2>4. CASE Merge
    BY <2>4, MergeBuilds
  <2>5. CASE Continue
    BY <2>5, ContinueBuilds
  <2>6. CASE Leftovers
    BY <2>6, LeftoversBuilds
  <2>7. CASE Validate \/ UNCHANGED vars
    BY <2>7, ValidateBuilds
  <2> QED BY <2>1, <2>2, <2>3, <2>4, <2>5, <2>6, <2>7 DEF Next
<1> QED BY <1>1, InitBuilds, PTL DEF Spec

-----------------------------------------------------------------------------
(* The properties of the placement.                                        *)

\* Every variable of the pair keeps its type, whatever the scores, the cores and the
\* sizes of the two documents.
THEOREM LineageTypeCorrect == Spec => []TypeOK
<1>1. BuildInv => TypeOK
  BY DEF BuildInv
<1> QED BY <1>1, BuildInductive, PTL

\* When the four loops are done every new requirement is in one node, the one
\* next_lineage names, and every edge joins the nodes of its requirements: the checks of
\* _validate_mapping that concern the placement never fail.
THEOREM LineagePlaced == Spec => []PlacementIsSound
<1>1. BuildInv => PlacementIsSound
  <2> SUFFICES ASSUME BuildInv, Placed PROVE EveryNewPlaced /\ EdgesTrace
    BY DEF PlacementIsSound
  <2>1. ASSUME NEW n \in News
        PROVE  \E r \in Requirements :
                 lineage[n] = r /\ \A x \in Requirements : n \in members[x] <=> x = r
    <3>1. lineage[n] \in Requirements
      BY DEF BuildInv, Claims, TypeOK
    <3> QED BY <3>1 DEF BuildInv, ExplainedInv
  <2> QED BY <2>1 DEF BuildInv, ExplainedInv, EveryNewPlaced
<1> QED BY <1>1, BuildInductive, PTL

\* Every new requirement is explained by exactly one edge, or by the merge edges of at
\* least two parents: no two loops explain the same requirement.
THEOREM LineageToldOnce == Spec => []NewExplainedOnce
<1>1. BuildInv => NewExplainedOnce
  BY DEF BuildInv, Claims, ExplainedInv, TellsOnce, NewExplainedOnce
<1> QED BY <1>1, BuildInductive, PTL

\* A new requirement takes the identity of an old one only with an edge between the two
\* and a score of at least 0.60, whichever loop placed it.
THEOREM LineageHasEvidence == Spec => []IdentityHasEvidence
<1>1. BuildInv => IdentityHasEvidence
  BY DEF BuildInv, Claims, ExplainedInv, Evident, IdentityHasEvidence
<1> QED BY <1>1, BuildInductive, PTL

\* A pair similar to nothing but itself continues, whatever splits, merges and soft links
\* do around it.
THEOREM LineageLocality == Spec => []IsolatedPairsContinue
<1>1. BuildInv => IsolatedPairsContinue
  BY DEF BuildInv, AloneStays, Alone, Continued, IsolatedPairsContinue
<1> QED BY <1>1, BuildInductive, PTL

-----------------------------------------------------------------------------
(* The diff: the classifier's measures, and what they give read backwards. *)

\* A ratio of what two texts share to what they have is between 0 and 1.
LEMMA RatioRange ==
  ASSUME NEW k \in Nat, NEW n \in Nat, n > 0, 2 * k <= n
  PROVE  (20000 * k) \div n \in Nat /\ (20000 * k) \div n <= 10000
<1> DEFINE q == (20000 * k) \div n
<1>1. q \in Int /\ n * q <= 20000 * k /\ 20000 * k < n * (q + 1)
  OBVIOUS
<1> HIDE DEF q
<1>2. q >= 0
  <2> SUFFICES ASSUME q + 1 <= 0 PROVE FALSE
    BY <1>1
  <2>1. n * (q + 1) <= 0
    BY <1>1
  <2> QED BY <1>1, <2>1
<1>3. q <= 10000
  <2> SUFFICES ASSUME q >= 10001 PROVE FALSE
    BY <1>1
  <2>1. n * q >= n * 10001
    BY <1>1
  <2>2. n * q <= 10000 * n
    BY <1>1
  <2> QED BY <1>1, <2>1, <2>2
<1>4. q \in Nat /\ q <= 10000
  BY <1>1, <1>2, <1>3
<1> QED BY <1>4 DEF q

LEMMA Shared ==
  ASSUME NEW a, NEW b, IsFiniteSet(a), IsFiniteSet(b), a # {}
  PROVE  /\ Cardinality(a \cap b) \in Nat
         /\ Cardinality(a) + Cardinality(b) \in Nat /\ Cardinality(a) + Cardinality(b) > 0
         /\ 2 * Cardinality(a \cap b) <= Cardinality(a) + Cardinality(b)
<1>1. IsFiniteSet(a \cap b) /\ Cardinality(a \cap b) <= Cardinality(a)
      /\ Cardinality(a \cap b) <= Cardinality(b)
  BY FS_Subset
<1>2. Cardinality(a) \in Nat /\ Cardinality(b) \in Nat /\ Cardinality(a \cap b) \in Nat
  BY <1>1, FS_CardinalityType
<1>3. Cardinality(a) # 0
  BY FS_EmptySet
<1> QED BY <1>1, <1>2, <1>3

LEMMA RatiosRange ==
  ASSUME NEW a, NEW b, IsFiniteSet(a), IsFiniteSet(b), a # {}
  PROVE  /\ SortRatio(a, b) \in Nat /\ SortRatio(a, b) <= 10000
         /\ SetRatio(a, b) \in Nat /\ SetRatio(a, b) <= 10000
<1> DEFINE k == Cardinality(a \cap b)
           n == Cardinality(a) + Cardinality(b)
<1>1. k \in Nat /\ n \in Nat /\ n > 0 /\ 2 * k <= n
  BY Shared
<1> HIDE DEF k, n
<1>2. (20000 * k) \div n \in Nat /\ (20000 * k) \div n <= 10000
  BY <1>1, RatioRange
<1> QED BY <1>2 DEF k, n, SortRatio, SetRatio

LEMMA CombinedRange ==
  ASSUME NEW o, NEW n, IsRequirement(o), IsRequirement(n), NEW d \in Nat
  PROVE  Combined(o, n, d) \in Nat /\ Combined(o, n, d) <= 10000
<1>1. /\ SortRatio(o.words, n.words) \in Nat /\ SortRatio(o.words, n.words) <= 10000
      /\ SetRatio(o.words, n.words) \in Nat /\ SetRatio(o.words, n.words) <= 10000
  BY RatiosRange DEF IsRequirement
<1>2. TextSimilarity(o, n) \in Nat /\ TextSimilarity(o, n) <= 10000
  <2> DEFINE x == SortRatio(o.words, n.words)
             y == SetRatio(o.words, n.words)
  <2>1. x \in Nat /\ x <= 10000 /\ y \in Nat /\ y <= 10000
    BY <1>1
  <2> HIDE DEF x, y
  <2>2. (98 * x) \div 100 \in Nat /\ (98 * x) \div 100 <= 10000
    BY <2>1
  <2>3. TextSimilarity(o, n) = Larger(y, (98 * x) \div 100)
    BY DEF TextSimilarity, x, y
  <2> QED BY <2>1, <2>2, <2>3 DEF Larger
<1>3. ModalityMatch(o, n) \in {0, 4000, 10000} /\ SectionSimilarity(o, n) \in {0, 10000}
  BY DEF ModalityMatch, SectionSimilarity
<1>4. ActorActionSimilarity(o, n) \in Nat /\ ActorActionSimilarity(o, n) <= 10000
  <2> DEFINE a == ActorAction(o)
             b == ActorAction(n)
  <2>1. IsFiniteSet({o.actor}) /\ IsFiniteSet({n.actor}) /\ IsFiniteSet({})
    BY FS_Singleton, FS_EmptySet
  <2>2. IsFiniteSet(a) /\ IsFiniteSet(b)
    BY <2>1, FS_Union DEF IsRequirement, ActorAction
  <2> HIDE DEF a, b
  <2>3. a # {} => SetRatio(a, b) \in Nat /\ SetRatio(a, b) <= 10000
    BY <2>2, RatiosRange
  <2>4. ActorActionSimilarity(o, n) =
          IF a = {} /\ b = {} THEN 5000 ELSE IF a = {} \/ b = {} THEN 2000 ELSE SetRatio(a, b)
    BY DEF ActorActionSimilarity, a, b
  <2> QED BY <2>3, <2>4
<1>5. Proximity(d) \in Nat /\ Proximity(d) <= 10000
  BY DEF Proximity, Larger
<1> DEFINE t == TextSimilarity(o, n)
           m == ModalityMatch(o, n)
           s == SectionSimilarity(o, n)
           w == SortRatio(o.words, n.words)
           a == ActorActionSimilarity(o, n)
           p == Proximity(d)
           weighted == (40 * t + 15 * m + 10 * s + 15 * w + 15 * a + 5 * p) \div 100
<1>6. weighted \in Nat /\ weighted <= 10000
  <2>1. /\ t \in Nat /\ t <= 10000 /\ m \in Nat /\ m <= 10000 /\ s \in Nat /\ s <= 10000
        /\ w \in Nat /\ w <= 10000 /\ a \in Nat /\ a <= 10000 /\ p \in Nat /\ p <= 10000
    BY <1>1, <1>2, <1>3, <1>4, <1>5
  <2> HIDE DEF t, m, s, w, a, p
  <2> QED BY <2>1
<1>7. Combined(o, n, d) = IF SameFingerprint(o, n) THEN Larger(weighted, 9900) ELSE weighted
  BY DEF Combined
<1> HIDE DEF weighted
<1> QED BY <1>6, <1>7 DEF Larger

\* What a requirement's change is called is decided alike in both directions.

LEMMA RatiosMirror ==
  ASSUME NEW a, NEW b, Cardinality(a) \in Nat, Cardinality(b) \in Nat
  PROVE  SetRatio(b, a) = SetRatio(a, b) /\ SortRatio(b, a) = SortRatio(a, b)
<1>1. b \cap a = a \cap b /\ b \cup a = a \cup b
  OBVIOUS
<1>2. Cardinality(a) + Cardinality(b) = Cardinality(b) + Cardinality(a)
  OBVIOUS
<1>3. (b \subseteq a \/ a \subseteq b) <=> (a \subseteq b \/ b \subseteq a)
  OBVIOUS
<1>4. SortRatio(b, a) = SortRatio(a, b)
  <2> DEFINE x == Cardinality(a \cap b)
             y == Cardinality(b \cap a)
             m == Cardinality(a) + Cardinality(b)
             n == Cardinality(b) + Cardinality(a)
  <2>1. x = y /\ m = n
    BY <1>1, <1>2
  <2>2. SortRatio(a, b) = (20000 * x) \div m /\ SortRatio(b, a) = (20000 * y) \div n
    BY DEF SortRatio
  <2> HIDE DEF x, y, m, n
  <2> QED BY <2>1, <2>2
<1>5. SetRatio(a, b) = IF a \cap b # {} /\ (a \subseteq b \/ b \subseteq a)
                       THEN 10000 ELSE SortRatio(a, b)
  BY DEF SetRatio, SortRatio
<1>6. SetRatio(b, a) = IF b \cap a # {} /\ (b \subseteq a \/ a \subseteq b)
                       THEN 10000 ELSE SortRatio(b, a)
  BY DEF SetRatio, SortRatio
<1>7. SetRatio(b, a) = SetRatio(a, b)
  BY <1>1, <1>3, <1>4, <1>5, <1>6
<1> QED BY <1>4, <1>7

LEMMA MeasuresMirror ==
  ASSUME NEW o, NEW n, IsRequirement(o), IsRequirement(n)
  PROVE  /\ TextSimilarity(n, o) = TextSimilarity(o, n)
         /\ ActorActionSimilarity(n, o) = ActorActionSimilarity(o, n)
         /\ CoreActionSimilar(n, o) <=> CoreActionSimilar(o, n)
<1>1. TextSimilarity(n, o) = TextSimilarity(o, n)
  <2>1. Cardinality(o.words) \in Nat /\ Cardinality(n.words) \in Nat
    BY FS_CardinalityType DEF IsRequirement
  <2> QED BY <2>1, RatiosMirror DEF TextSimilarity
<1>2. ActorActionSimilarity(n, o) = ActorActionSimilarity(o, n)
  <2> DEFINE a == ActorAction(o)
             b == ActorAction(n)
  <2>1. IsFiniteSet({o.actor}) /\ IsFiniteSet({n.actor}) /\ IsFiniteSet({})
    BY FS_Singleton, FS_EmptySet
  <2>2. IsFiniteSet(a) /\ IsFiniteSet(b)
    BY <2>1, FS_Union DEF IsRequirement, ActorAction
  <2> HIDE DEF a, b
  <2>3. SetRatio(b, a) = SetRatio(a, b)
    BY <2>2, FS_CardinalityType, RatiosMirror
  <2>4. (IF b = {} /\ a = {} THEN 5000 ELSE IF b = {} \/ a = {} THEN 2000 ELSE SetRatio(b, a))
        = (IF a = {} /\ b = {} THEN 5000 ELSE IF a = {} \/ b = {} THEN 2000 ELSE SetRatio(a, b))
    BY <2>3
  <2> QED BY <2>4 DEF ActorActionSimilarity, a, b
<1>3. CoreActionSimilar(n, o) <=> CoreActionSimilar(o, n)
  <2> DEFINE a == CoreAction(o)
             b == CoreAction(n)
  <2>1. b \cap a = a \cap b /\ b \cup a = a \cup b
    OBVIOUS
  <2>2. CoreActionSimilar(n, o)
          <=> b # {} /\ a # {} /\ 2 * Cardinality(b \cap a) >= Cardinality(b \cup a)
    BY DEF CoreActionSimilar
  <2>3. CoreActionSimilar(o, n)
          <=> a # {} /\ b # {} /\ 2 * Cardinality(a \cap b) >= Cardinality(a \cup b)
    BY DEF CoreActionSimilar
  <2> HIDE DEF a, b
  <2> QED BY <2>1, <2>2, <2>3
<1> QED BY <1>1, <1>2, <1>3

\* What the classes are decided from is the same in both directions.
LEMMA GuardsMirror ==
  ASSUME NEW o, NEW n, IsRequirement(o), IsRequirement(n)
  PROVE  /\ SameModality(n, o) <=> SameModality(o, n)
         /\ SamePolarity(n, o) <=> SamePolarity(o, n)
         /\ SameText(n, o) <=> SameText(o, n)
         /\ Flipped(n, o) <=> Flipped(o, n)
         /\ BodySimilar(n, o) <=> BodySimilar(o, n)
         /\ GuardsDiffer(n, o) <=> GuardsDiffer(o, n)
         /\ SameObligation(n, o) <=> SameObligation(o, n)
<1>1. /\ SameModality(n, o) <=> SameModality(o, n)
      /\ SamePolarity(n, o) <=> SamePolarity(o, n)
      /\ SameEditorial(n, o) <=> SameEditorial(o, n)
      /\ SameText(n, o) <=> SameText(o, n)
      /\ SameRoles(n, o) <=> SameRoles(o, n)
      /\ GuardsDiffer(n, o) <=> GuardsDiffer(o, n)
  BY DEF SameModality, SamePolarity, SameEditorial, SameText, SameRoles, GuardsDiffer
<1>2. SameFingerprint(n, o) <=> SameFingerprint(o, n)
  BY <1>1 DEF SameFingerprint
<1>3. BodySimilar(n, o) <=> BodySimilar(o, n)
  BY <1>1, <1>2, MeasuresMirror DEF BodySimilar
<1>4. SameObligation(n, o) <=> SameObligation(o, n)
  BY <1>1, <1>2 DEF SameObligation
<1>5. {n.modality, o.modality} = {o.modality, n.modality}
  OBVIOUS
<1>6. PolarPair(n, o) <=> PolarPair(o, n)
  BY <1>1, <1>5, MeasuresMirror DEF PolarPair
<1>7. Flipped(n, o) <=> Flipped(o, n)
  BY <1>6, MeasuresMirror DEF Flipped
<1> QED BY <1>1, <1>3, <1>4, <1>7

\* The guards that differ are added or removed as one looks at it, or neither.
LEMMA GuardClassMirrors ==
  ASSUME NEW a, NEW b, a # b, NEW added, NEW removed,
         MirrorClass[added] = removed, MirrorClass[removed] = added,
         MirrorClass["AMBIGUOUS"] = "AMBIGUOUS"
  PROVE  GuardClass(b, a, added, removed) = MirrorClass[GuardClass(a, b, added, removed)]
<1>1. CASE a = Absent
  BY <1>1 DEF GuardClass
<1>2. CASE b = Absent
  BY <1>2 DEF GuardClass
<1>3. CASE a # Absent /\ b # Absent
  BY <1>3 DEF GuardClass
<1> QED BY <1>1, <1>2, <1>3

LEMMA GuardChangeMirrors ==
  ASSUME NEW o, NEW n, GuardsDiffer(o, n)
  PROVE  GuardChange(n, o) = MirrorClass[GuardChange(o, n)]
<1>1. /\ MirrorClass["EXCEPTION_ADDED"] = "EXCEPTION_REMOVED"
      /\ MirrorClass["EXCEPTION_REMOVED"] = "EXCEPTION_ADDED"
      /\ MirrorClass["CONDITION_ADDED"] = "CONDITION_REMOVED"
      /\ MirrorClass["CONDITION_REMOVED"] = "CONDITION_ADDED"
      /\ MirrorClass["AMBIGUOUS"] = "AMBIGUOUS"
  BY DEF MirrorClass, Classes, QuietClasses
<1>2. CASE o.exception # n.exception
  BY <1>1, <1>2, GuardClassMirrors DEF GuardChange
<1>3. CASE o.exception = n.exception
  <2>1. o.condition # n.condition
    BY <1>3 DEF GuardsDiffer
  <2> QED BY <1>1, <1>3, <2>1, GuardClassMirrors DEF GuardChange
<1> QED BY <1>2, <1>3

LEMMA ModalityChangeMirrors ==
  ASSUME NEW o, NEW n, IsRequirement(o), IsRequirement(n)
  PROVE  /\ ModalityChange(o, n) \in Classes
         /\ ModalityChange(n, o) = MirrorClass[ModalityChange(o, n)]
<1>1. /\ MirrorClass["STRENGTHENED"] = "WEAKENED"
      /\ MirrorClass["WEAKENED"] = "STRENGTHENED"
      /\ MirrorClass["AMBIGUOUS"] = "AMBIGUOUS"
  BY DEF MirrorClass, Classes, QuietClasses
<1>2. Strength[o.modality] \in Nat /\ Strength[n.modality] \in Nat
  BY DEF IsRequirement, Modalities, Strength
<1>3. SamePolarity(n, o) <=> SamePolarity(o, n)
  BY GuardsMirror
<1> QED BY <1>1, <1>2, <1>3 DEF ModalityChange, Classes, QuietClasses

LEMMA ClassifyPairMirrors ==
  ASSUME NEW o, NEW n, IsRequirement(o), IsRequirement(n)
  PROVE  ClassifyPair(n, o) = MirrorClass[ClassifyPair(o, n)]
<1>1. /\ MirrorClass["POLARITY_FLIP"] = "POLARITY_FLIP" /\ MirrorClass["MOVED"] = "MOVED"
      /\ MirrorClass["UNCHANGED"] = "UNCHANGED" /\ MirrorClass["EDITORIAL"] = "EDITORIAL"
      /\ MirrorClass["AMBIGUOUS"] = "AMBIGUOUS"
  BY DEF MirrorClass, Classes, QuietClasses
<1>2. QuietClass(n, o) = MirrorClass[QuietClass(o, n)]
  BY <1>1, GuardsMirror DEF QuietClass
<1>3. GuardsDiffer(o, n) => GuardChange(n, o) = MirrorClass[GuardChange(o, n)]
  BY GuardChangeMirrors
<1>4. ModalityChange(n, o) = MirrorClass[ModalityChange(o, n)]
  BY ModalityChangeMirrors
<1> QED BY <1>1, <1>2, <1>3, <1>4, GuardsMirror DEF ClassifyPair

\* What classify_pair returns: a class of changes to a pair; a quiet one only if the two
\* agree in what they oblige to.
LEMMA ClassifyPairIs ==
  ASSUME NEW o, NEW n, IsRequirement(o), IsRequirement(n)
  PROVE  /\ ClassifyPair(o, n) \in Classes \ {"ADDED", "REMOVED"}
         /\ ClassifyPair(o, n) \in QuietClasses => SameModality(o, n) /\ SameRoles(o, n)
<1>1. QuietClass(o, n) \in QuietClasses
  BY DEF QuietClass, QuietClasses
<1>2. GuardChange(o, n) \in Classes \ ({"ADDED", "REMOVED"} \cup QuietClasses)
  BY DEF GuardChange, GuardClass, Classes, QuietClasses
<1>3. ModalityChange(o, n) \in Classes \ ({"ADDED", "REMOVED"} \cup QuietClasses)
  BY DEF ModalityChange, Classes, QuietClasses
<1>4. QuietClasses \subseteq Classes \ {"ADDED", "REMOVED"} /\ "POLARITY_FLIP" \in Classes
      /\ "AMBIGUOUS" \in Classes /\ "POLARITY_FLIP" \notin QuietClasses
      /\ "AMBIGUOUS" \notin QuietClasses
  BY DEF Classes, QuietClasses
<1>5. SameObligation(o, n) => SameRoles(o, n)
  BY DEF SameObligation, SameFingerprint
<1> QED BY <1>1, <1>2, <1>3, <1>4, <1>5 DEF ClassifyPair

-----------------------------------------------------------------------------
(* The diff: what a report tells of two contents.                          *)

\* The requirements of a content are requirements.
LEMMA FoundIs ==
  ASSUME NEW c \in Contents
  PROVE  /\ Found(c, Olds) \subseteq Olds /\ Found(c, News) \subseteq News
         /\ \A x \in Found(c, Olds) \cup Found(c, News) :
              Index(x) \in Nat /\ IsRequirement(At(c, x))
<1>1. ASSUME NEW S, S = Olds \/ S = News, NEW x \in S PROVE IndexIn(x, S) \in Nat \ {0}
  <2>1. IsFiniteSet({y \in S : y <= x})
    BY <1>1, FS_Subset, NamesAssumption
  <2>2. x \in {y \in S : y <= x}
    <3>1. x \in Nat
      BY <1>1, NamesAssumption
    <3>2. x <= x
      BY <3>1
    <3> QED BY <1>1, <3>2
  <2> QED BY <2>1, <2>2, FS_CardinalityType, FS_EmptySet DEF IndexIn
<1>2. \A x \in Olds : Index(x) \in Nat \ {0}
  BY <1>1 DEF Index
<1>3. \A x \in News : Index(x) \in Nat \ {0}
  BY <1>1, NamesAssumption DEF Index
<1>4. ASSUME NEW x, Index(x) \in Nat \ {0}, Index(x) <= Len(Extracted[c])
      PROVE  IsRequirement(At(c, x))
  <2> DEFINE i == Index(x)
             n == Len(Extracted[c])
  <2>1. n \in Nat /\ \A j \in 1..n : IsRequirement(Extracted[c][j])
    BY ContentAssumption
  <2>2. i \in 1..n
    <3>1. i \in Nat \ {0} /\ i <= n /\ n \in Nat
      BY <1>4, <2>1
    <3> HIDE DEF i, n
    <3> QED BY <3>1
  <2> QED BY <2>1, <2>2 DEF At
<1> QED BY <1>2, <1>3, <1>4 DEF Found

LEMMA ScoresAre ==
  ASSUME NEW a \in Contents, NEW b \in Contents
  PROVE  \A c \in Candidates : ScoresOf(a, b)[c] \in Nat /\ ScoresOf(a, b)[c] <= 10000
<1> TAKE c \in Candidates
<1>1. CASE c \in PairsOf(a, b)
  <2>1. c[1] \in Found(a, Olds) /\ c[2] \in Found(b, News)
    BY <1>1 DEF PairsOf
  <2>2. IsRequirement(At(a, c[1])) /\ IsRequirement(At(b, c[2]))
    BY <2>1, FoundIs
  <2>3. Distance(Index(c[1]), Index(c[2])) \in Nat
    <3>1. Index(c[1]) \in Nat /\ Index(c[2]) \in Nat
      BY <2>1, FoundIs
    <3> QED BY <3>1 DEF Distance
  <2>4. ScoresOf(a, b)[c] =
          Combined(At(a, c[1]), At(b, c[2]), Distance(Index(c[1]), Index(c[2])))
    BY <1>1 DEF ScoresOf
  <2> QED BY <2>2, <2>3, <2>4, CombinedRange
<1>2. CASE c \notin PairsOf(a, b)
  BY <1>2 DEF ScoresOf
<1> QED BY <1>1, <1>2

(* What a report tells of contents a and b that were matched as in m.      *)

DistinctOf(a, b) == {c \in PairsOf(a, b) : DistinctActions(At(a, c[1]), At(b, c[2]))}

Told(a, b, m) ==
  {Change(ClassifyPair(At(a, c[1]), At(b, c[2])), c[1], c[2]) : c \in m}
  \cup {Change("REMOVED", o, Absent) : o \in {o \in Found(a, Olds) : \A d \in m : d[1] # o}}
  \cup {Change("ADDED", Absent, n) : n \in {n \in Found(b, News) : \A d \in m : d[2] # n}}

Single(m) == \A c, d \in m : c[1] = d[1] \/ c[2] = d[2] => c = d
Right(a, b, m) ==
  /\ Outcome(PairsOf(a, b), ScoresOf(a, b), DistinctOf(a, b), m)
  /\ Single(m)

LEMMA ToldIs ==
  ASSUME NEW a \in Contents, NEW b \in Contents
  PROVE  ClassifiedPairs(a, b) = Told(a, b, match)
<1>1. Found(a, Olds) \subseteq Olds /\ Found(b, News) \subseteq News
  BY FoundIs
<1>2. UnmatchedOlds \cap Found(a, Olds) = {o \in Found(a, Olds) : \A d \in match : d[1] # o}
  BY <1>1 DEF UnmatchedOlds
<1>3. UnmatchedNews \cap Found(b, News) = {n \in Found(b, News) : \A d \in match : d[2] # n}
  BY <1>1 DEF UnmatchedNews
<1> QED BY <1>2, <1>3 DEF ClassifiedPairs, Told

\* Each kind of change, with what is known of it.
LEMMA ToldKinds ==
  ASSUME NEW a \in Contents, NEW b \in Contents, NEW m, m \subseteq PairsOf(a, b),
         NEW c \in Told(a, b, m)
  PROVE  \/ /\ <<c.old, c.new>> \in m
            /\ c.old \in Found(a, Olds) /\ c.new \in Found(b, News)
            /\ c = Change(ClassifyPair(At(a, c.old), At(b, c.new)), c.old, c.new)
            /\ c.class \in Classes \ {"ADDED", "REMOVED"}
            /\ c.class = ClassifyPair(At(a, c.old), At(b, c.new))
         \/ /\ c = Change("REMOVED", c.old, Absent)
            /\ c.class = "REMOVED" /\ c.new = Absent
            /\ c.old \in Found(a, Olds) /\ \A d \in m : d[1] # c.old
         \/ /\ c = Change("ADDED", Absent, c.new)
            /\ c.class = "ADDED" /\ c.old = Absent
            /\ c.new \in Found(b, News) /\ \A d \in m : d[2] # c.new
<1>1. ASSUME NEW d \in m, c = Change(ClassifyPair(At(a, d[1]), At(b, d[2])), d[1], d[2])
      PROVE  /\ <<c.old, c.new>> \in m
             /\ c.old \in Found(a, Olds) /\ c.new \in Found(b, News)
             /\ c = Change(ClassifyPair(At(a, c.old), At(b, c.new)), c.old, c.new)
             /\ c.class \in Classes \ {"ADDED", "REMOVED"}
             /\ c.class = ClassifyPair(At(a, c.old), At(b, c.new))
  <2>1. d = <<d[1], d[2]>> /\ d[1] \in Found(a, Olds) /\ d[2] \in Found(b, News)
    BY DEF PairsOf
  <2>2. /\ c.old = d[1] /\ c.new = d[2]
        /\ c.class = ClassifyPair(At(a, d[1]), At(b, d[2]))
    BY <1>1 DEF Change
  <2>3. ClassifyPair(At(a, d[1]), At(b, d[2])) \in Classes \ {"ADDED", "REMOVED"}
    BY <2>1, FoundIs, ClassifyPairIs
  <2> QED BY <1>1, <2>1, <2>2, <2>3
<1>2. ASSUME NEW o \in Found(a, Olds), \A d \in m : d[1] # o, c = Change("REMOVED", o, Absent)
      PROVE  /\ c = Change("REMOVED", c.old, Absent)
             /\ c.class = "REMOVED" /\ c.new = Absent
             /\ c.old \in Found(a, Olds) /\ \A d \in m : d[1] # c.old
  BY <1>2 DEF Change
<1>3. ASSUME NEW n \in Found(b, News), \A d \in m : d[2] # n, c = Change("ADDED", Absent, n)
      PROVE  /\ c = Change("ADDED", Absent, c.new)
             /\ c.class = "ADDED" /\ c.old = Absent
             /\ c.new \in Found(b, News) /\ \A d \in m : d[2] # c.new
  BY <1>3 DEF Change
<1>4. \/ \E d \in m : c = Change(ClassifyPair(At(a, d[1]), At(b, d[2])), d[1], d[2])
      \/ \E o \in Found(a, Olds) : (\A d \in m : d[1] # o) /\ c = Change("REMOVED", o, Absent)
      \/ \E n \in Found(b, News) : (\A d \in m : d[2] # n) /\ c = Change("ADDED", Absent, n)
  BY DEF Told
<1> QED BY <1>1, <1>2, <1>3, <1>4

LEMMA ToldTypes ==
  ASSUME NEW a \in Contents, NEW b \in Contents, NEW m, m \subseteq PairsOf(a, b)
  PROVE  Told(a, b, m) \in SUBSET Changes
<1> SUFFICES ASSUME NEW c \in Told(a, b, m) PROVE c \in Changes
  OBVIOUS
<1>1. Found(a, Olds) \subseteq Olds /\ Found(b, News) \subseteq News
  BY FoundIs
<1>2. "ADDED" \in Classes /\ "REMOVED" \in Classes
  BY DEF Classes
<1>3. ASSUME NEW k \in Classes, NEW o \in Olds \cup {Absent}, NEW n \in News \cup {Absent}
      PROVE  Change(k, o, n) \in Changes
  BY DEF Change, Changes
<1>4. \/ /\ c = Change(ClassifyPair(At(a, c.old), At(b, c.new)), c.old, c.new)
         /\ ClassifyPair(At(a, c.old), At(b, c.new)) \in Classes
         /\ c.old \in Olds /\ c.new \in News
      \/ c = Change("REMOVED", c.old, Absent) /\ c.old \in Olds
      \/ c = Change("ADDED", Absent, c.new) /\ c.new \in News
  BY <1>1, ToldKinds
<1> QED BY <1>2, <1>3, <1>4

\* Everything is told of once.
LEMMA ToldOnce ==
  ASSUME NEW a \in Contents, NEW b \in Contents, NEW m, m \subseteq PairsOf(a, b), Single(m)
  PROVE  /\ \A x \in Found(a, Olds) : Once(Told(a, b, m), "old", x)
         /\ \A x \in Found(b, News) : Once(Told(a, b, m), "new", x)
<1> DEFINE T == Told(a, b, m)
           Pair(d) == Change(ClassifyPair(At(a, d[1]), At(b, d[2])), d[1], d[2])
<1>0. /\ \A d \in m : Pair(d) \in T /\ Pair(d).old = d[1] /\ Pair(d).new = d[2]
                      /\ d = <<d[1], d[2]>>
      /\ \A o \in Found(a, Olds) : (\A d \in m : d[1] # o) => Change("REMOVED", o, Absent) \in T
      /\ \A n \in Found(b, News) : (\A d \in m : d[2] # n) => Change("ADDED", Absent, n) \in T
  BY DEF Told, Change, PairsOf
<1>1. Absent \notin Found(a, Olds) \cup Found(b, News)
  BY FoundIs, NamesAssumption
<1>2. \A o, n : Change("REMOVED", o, Absent).old = o /\ Change("ADDED", Absent, n).new = n
  BY DEF Change
<1> HIDE DEF T
<1>3. ASSUME NEW c \in T
      PROVE  \/ <<c.old, c.new>> \in m /\ c = Pair(<<c.old, c.new>>)
             \/ /\ c = Change("REMOVED", c.old, Absent) /\ c.new = Absent
                /\ \A d \in m : d[1] # c.old
             \/ /\ c = Change("ADDED", Absent, c.new) /\ c.old = Absent
                /\ \A d \in m : d[2] # c.new
  BY ToldKinds DEF T
<1> HIDE DEF Pair
<1>4. ASSUME NEW x \in Found(a, Olds) PROVE Once(T, "old", x)
  <2>1. CASE \E d \in m : d[1] = x
    <3>1. PICK d \in m : d[1] = x
      BY <2>1
    <3>2. ASSUME NEW c \in T, c.old = x PROVE c = Pair(d)
      <4>1. <<c.old, c.new>> \in m /\ c = Pair(<<c.old, c.new>>)
        BY <1>1, <1>3, <3>1, <3>2
      <4>2. <<c.old, c.new>> = d
        BY <3>1, <3>2, <4>1 DEF Single
      <4> QED BY <4>1, <4>2
    <3> QED BY <1>0, <3>1, <3>2 DEF Once
  <2>2. CASE \A d \in m : d[1] # x
    <3>1. ASSUME NEW c \in T, c.old = x PROVE c = Change("REMOVED", x, Absent)
      <4>1. ~(<<c.old, c.new>> \in m)
        BY <2>2, <3>1
      <4> QED BY <1>1, <1>3, <3>1, <4>1
    <3> QED BY <1>0, <1>2, <2>2, <3>1 DEF Once
  <2> QED BY <2>1, <2>2
<1>5. ASSUME NEW x \in Found(b, News) PROVE Once(T, "new", x)
  <2>1. CASE \E d \in m : d[2] = x
    <3>1. PICK d \in m : d[2] = x
      BY <2>1
    <3>2. ASSUME NEW c \in T, c.new = x PROVE c = Pair(d)
      <4>1. <<c.old, c.new>> \in m /\ c = Pair(<<c.old, c.new>>)
        BY <1>1, <1>3, <3>1, <3>2
      <4>2. <<c.old, c.new>> = d
        BY <3>1, <3>2, <4>1 DEF Single
      <4> QED BY <4>1, <4>2
    <3> QED BY <1>0, <3>1, <3>2 DEF Once
  <2>2. CASE \A d \in m : d[2] # x
    <3>1. ASSUME NEW c \in T, c.new = x PROVE c = Change("ADDED", Absent, x)
      <4>1. ~(<<c.old, c.new>> \in m)
        BY <2>2, <3>1
      <4> QED BY <1>1, <1>3, <3>1, <4>1
    <3> QED BY <1>0, <1>2, <2>2, <3>1 DEF Once
  <2> QED BY <2>1, <2>2
<1> QED BY <1>4, <1>5 DEF T

\* A report that is right about its sources.
Genuine(r) ==
  /\ r.sealed
  /\ \A s \in Sides : /\ r.listed[s] = r.documents[s].content
                      /\ r.documents[s].family = Family[r.documents[s].content]
                      /\ r.documents[s].family # Absent
                      /\ Canonical[r.documents[s].path] = r.documents[s].path
  /\ \E m : /\ Right(r.documents["old"].content, r.documents["new"].content, m)
            /\ r.changes = Told(r.documents["old"].content, r.documents["new"].content, m)

GenuineReports == {r \in Reports : Genuine(r)}

LEMMA RightIs ==
  ASSUME NEW r \in Reports, NEW m,
         Right(r.documents["old"].content, r.documents["new"].content, m),
         r.changes = Told(r.documents["old"].content, r.documents["new"].content, m),
         \A s \in Sides : r.listed[s] = r.documents[s].content
  PROVE  /\ AllOnce(r.documents, r.changes) /\ QuietIsSame(r)
         /\ Accounts(r) /\ Referential(r)
<1> DEFINE a == r.documents["old"].content
           b == r.documents["new"].content
<1>1. a \in Contents /\ b \in Contents
  BY DEF Reports, Snapshots, Sides
<1>2. r.listed["old"] = a /\ r.listed["new"] = b
  BY DEF Sides
<1> HIDE DEF a, b
<1>3. m \subseteq PairsOf(a, b) /\ Single(m)
  BY DEF Right, Outcome, a, b
<1>4. r.changes = Told(a, b, m)
  BY DEF a, b
<1>5. AllOnce(r.documents, r.changes)
  BY <1>1, <1>3, <1>4, ToldOnce DEF AllOnce, a, b
<1>6. ASSUME NEW c \in r.changes
      PROVE  \/ /\ <<c.old, c.new>> \in m
                /\ c.old \in Found(a, Olds) /\ c.new \in Found(b, News)
                /\ c.old # Absent /\ c.new # Absent
                /\ c.class \notin {"ADDED", "REMOVED"}
                /\ c.class = ClassifyPair(At(a, c.old), At(b, c.new))
                /\ c = Change(ClassifyPair(At(a, c.old), At(b, c.new)), c.old, c.new)
             \/ c.class = "REMOVED" /\ c.new = Absent /\ c.old \in Found(a, Olds)
             \/ c.class = "ADDED" /\ c.old = Absent /\ c.new \in Found(b, News)
  <2>1. Absent \notin Found(a, Olds) \cup Found(b, News)
    BY <1>1, FoundIs, NamesAssumption
  <2> QED BY <1>1, <1>3, <1>4, <1>6, <2>1, ToldKinds
<1>7. QuietIsSame(r)
  <2> SUFFICES ASSUME NEW c \in r.changes, c.class \in QuietClasses
               PROVE  SameModality(At(a, c.old), At(b, c.new)) /\ SameRoles(At(a, c.old), At(b, c.new))
    BY DEF QuietIsSame, a, b
  <2>1. c.class # "ADDED" /\ c.class # "REMOVED"
    BY DEF QuietClasses
  <2>2. /\ c.old \in Found(a, Olds) /\ c.new \in Found(b, News)
        /\ c.class = ClassifyPair(At(a, c.old), At(b, c.new))
    BY <1>6, <2>1
  <2> QED BY <1>1, <2>2, FoundIs, ClassifyPairIs
<1>8. Accounts(r)
  <2>1. \A c \in r.changes : c.old # Absent /\ c.new # Absent =>
          c.class = ClassifyPair(At(a, c.old), At(b, c.new))
    BY <1>6
  <2> QED BY <1>5, <2>1 DEF Accounts, a, b
<1>9. Referential(r)
  <2>1. ASSUME NEW c \in r.changes, NEW d \in r.changes,
               c.class \notin {"ADDED", "REMOVED"}, d.class \notin {"ADDED", "REMOVED"},
               c.old = d.old \/ c.new = d.new
        PROVE  c = d
    <3>1. <<c.old, c.new>> \in m /\ <<d.old, d.new>> \in m
      BY <1>6, <2>1
    <3>2. c.old = d.old /\ c.new = d.new
      BY <1>3, <2>1, <3>1 DEF Single
    <3>3. /\ c = Change(ClassifyPair(At(a, c.old), At(b, c.new)), c.old, c.new)
          /\ d = Change(ClassifyPair(At(a, d.old), At(b, d.new)), d.old, d.new)
      BY <1>6, <2>1
    <3> QED BY <3>2, <3>3
  <2>2. \A c \in r.changes :
          /\ c.class = "ADDED" => c.old = Absent /\ c.new \in Found(r.listed["new"], News)
          /\ c.class = "REMOVED" => c.new = Absent /\ c.old \in Found(r.listed["old"], Olds)
          /\ c.class \notin {"ADDED", "REMOVED"} => c.old # Absent /\ c.new # Absent
    BY <1>2, <1>6
  <2> QED BY <2>1, <2>2 DEF Referential
<1> QED BY <1>5, <1>7, <1>8, <1>9

LEMMA LiveIs ==
  ASSUME NEW snaps \in [Sides -> Snapshots],
         todo = {}, score = ScoresOf(snaps["old"].content, snaps["new"].content),
         distinct = DistinctOf(snaps["old"].content, snaps["new"].content),
         Greedy(PairsOf(snaps["old"].content, snaps["new"].content))
  PROVE  /\ Live(snaps) \in Reports /\ Live(snaps).sealed
         /\ Live(snaps).documents = snaps
         /\ \A s \in Sides : Live(snaps).listed[s] = snaps[s].content
         /\ Right(snaps["old"].content, snaps["new"].content, match)
         /\ Live(snaps).changes = Told(snaps["old"].content, snaps["new"].content, match)
<1> DEFINE a == snaps["old"].content
           b == snaps["new"].content
<1>1. a \in Contents /\ b \in Contents /\ \A s \in Sides : snaps[s].content \in Contents
  BY DEF Snapshots, Sides
<1>2. Right(a, b, match)
  <2> HIDE DEF a, b
  <2>1. Greedy(PairsOf(a, b)) /\ score = ScoresOf(a, b) /\ distinct = DistinctOf(a, b)
    BY DEF a, b
  <2> QED BY <2>1 DEF Greedy, Right, Outcome, OneToOne, Single
<1>3. ClassifiedPairs(a, b) = Told(a, b, match)
  BY <1>1, ToldIs
<1>4. Told(a, b, match) \in SUBSET Changes
  BY <1>1, <1>2, ToldTypes DEF Right, Outcome
<1>5. Live(snaps) = [documents |-> snaps, listed |-> [s \in Sides |-> snaps[s].content],
                     changes |-> Told(a, b, match), sealed |-> TRUE]
  BY <1>3 DEF Live
<1> HIDE DEF a, b
<1>6. [s \in Sides |-> snaps[s].content] \in [Sides -> Contents]
  BY <1>1
<1>7. Live(snaps) \in Reports
  BY <1>4, <1>5, <1>6 DEF Reports
<1> QED BY <1>2, <1>5, <1>7 DEF a, b

\* There is one set of changes that is right about two contents.
LEMMA OneRight ==
  ASSUME NEW a \in Contents, NEW b \in Contents, NEW m, Right(a, b, m), NEW n, Right(a, b, n)
  PROVE  m = n
<1>1. PairsOf(a, b) \in SUBSET Candidates
  BY FoundIs DEF PairsOf, Candidates
<1>2. \A c \in Candidates : ScoresOf(a, b)[c] \in Nat /\ ScoresOf(a, b)[c] <= 10000
  BY ScoresAre
<1> QED BY <1>1, <1>2, OneOutcome DEF Right

-----------------------------------------------------------------------------
(* The diff: the inductive invariant.                                      *)

OldRead == {"meta_old", "read_new", "meta_new", "extract", "align"}
NewRead == {"meta_new", "extract", "align"}

\* A snapshot is of a content that stood where it was read.
SnapInv ==
  /\ \A s \in Sides : got[s] # Nothing =>
       /\ got[s].path = from[s]
       /\ got[s].family = Family[got[s].content] /\ got[s].family # Absent
       /\ <<Canonical[from[s]], got[s].content>> \in stood
  /\ pc \in {"resolve", "read_old"} => \A s \in Sides : got[s] = Nothing
  /\ pc \in {"meta_old", "read_new"} => got["new"] = Nothing
  /\ pc \in OldRead => got["old"] # Nothing
  /\ pc \in NewRead => got["new"] # Nothing
  /\ Stands(body) \subseteq stood

AlignedInv ==
  pc = "align" =>
    /\ score = ScoresOf(got["old"].content, got["new"].content)
    /\ distinct = DistinctOf(got["old"].content, got["new"].content)
    /\ Greedy(PairsOf(got["old"].content, got["new"].content))

JobInv ==
  /\ job = "diff" =>
       /\ submitted = Absent /\ verdict \in {Absent, "raised"}
       /\ \A s \in Sides : Canonical[from[s]] = from[s]
       /\ pc # "written" => made = Absent
       /\ pc # "resolve"
  /\ pc = "written" => job = "diff" /\ report # Absent /\ made # Absent
  /\ made # Absent => made \in GenuineReports
  /\ verdict # Absent => pc = "stopped"
  /\ job = "verify" =>
       /\ made # Absent
       /\ pc # "stopped" => submitted # Absent /\ submitted.sealed
  /\ job = "verify" /\ pc \notin {"resolve", "stopped"} =>
       \A s \in Sides :
         /\ adapter[s] = submitted.documents[s].family
         /\ override[s] = Absent =>
              from[s] = submitted.documents[s].path /\ Canonical[from[s]] = from[s]

EndInv == VerifiedIsTrue /\ GenuineVerifies

DiffInv == DiffTypeOK /\ SnapInv /\ AlignedInv /\ JobInv /\ EndInv

LEMMA NothingIsNone == Nothing \notin Snapshots
BY PathAssumption DEF Nothing, Snapshots

LEMMA DiffStarts == DiffInit => DiffInv
<1> SUFFICES ASSUME DiffInit PROVE DiffInv
  OBVIOUS
<1>0. Given /\ Start
  BY DEF DiffInit
<1>1. DiffTypeOK
  <2>1. \A s \in Sides : Canonical[GivenPath[s]] \in Paths
    BY PathAssumption
  <2>2. from \in [Sides -> Paths]
    BY <1>0, <2>1 DEF Start
  <2>3. \A c \in Candidates : score[c] = 0
    BY <1>0 DEF Start
  <2>4. changes \in 0..MaxChanges
    BY <1>0, ChangesAssumption DEF Given
  <2>5. got \in [Sides -> Snapshots \cup {Nothing}]
    BY <1>0 DEF Start, Unread
  <2> QED BY <1>0, <2>2, <2>3, <2>4, <2>5 DEF Start, Given, DiffTypeOK
<1>2. SnapInv
  BY <1>0 DEF Start, SnapInv, Unread, OldRead, NewRead
<1>3. AlignedInv
  BY <1>0 DEF Start, AlignedInv
<1>4. JobInv
  <2>1. \A s \in Sides : Canonical[from[s]] = from[s]
    <3>1. \A s \in Sides : GivenPath[s] \in Paths /\ from[s] = Canonical[GivenPath[s]]
      BY <1>0, PathAssumption DEF Start
    <3> QED BY <3>1, PathAssumption
  <2> QED BY <1>0, <2>1 DEF Start, JobInv
<1>5. EndInv
  <2>1. verdict \notin Verdicts
    BY <1>0, AbsentAssumption DEF Start
  <2> QED BY <2>1 DEF EndInv, VerifiedIsTrue, GenuineVerifies, Verdicts
<1> QED BY <1>1, <1>2, <1>3, <1>4, <1>5 DEF DiffInv

\* As long as there is no verdict nothing is claimed of it.
LEMMA NoVerdict ==
  ASSUME DiffInv, pc # "stopped"
  PROVE  verdict = Absent /\ verdict \notin Verdicts
BY AbsentAssumption DEF DiffInv, JobInv

LEMMA EndsOpen ==
  ASSUME verdict' = Absent \/ verdict' = "raised"
  PROVE  EndInv'
<1>1. verdict' \notin {"FULL", "CONTENT_ONLY", "refused"}
  BY AbsentAssumption DEF Verdicts
<1> QED BY <1>1 DEF EndInv, VerifiedIsTrue, GenuineVerifies

\* One source is read: refused, or its snapshot taken.
LEMMA ReadSteps ==
  ASSUME DiffInv, NEW s \in Sides, NEW here, NEW next,
         \/ s = "old" /\ here = "read_old" /\ next = "meta_old"
         \/ s = "new" /\ here = "read_new" /\ next = "meta_new",
         Read(s, here, next)
  PROVE  DiffInv'
<1> DEFINE c == body[Canonical[from[s]]]
           shot == [path |-> from[s], content |-> c, family |-> Family[c], meta |-> Absent]
<1>1. /\ pc = here /\ UNCHANGED <<score, distinct, todo, match, body, sidecar, report, changes, job, stood>>
      /\ UNCHANGED <<submitted, override, from, adapter, made>>
      /\ \/ /\ pc' = "stopped" /\ got' = got
            /\ verdict' = IF job = "verify" THEN "refused" ELSE "raised"
            /\ c = Absent \/ Family[c] = Absent \/ (adapter[s] # Absent /\ Family[c] # adapter[s])
         \/ /\ pc' = next /\ verdict' = verdict /\ c # Absent /\ Family[c] # Absent
            /\ got' = [got EXCEPT ![s] = shot]
  BY DEF Read, Refuse, Stop, alignVars, world
<1>2. verdict = Absent
  BY <1>1, NoVerdict
<1>3. c \in Contents \cup {Absent} /\ from[s] \in Paths
  BY PathAssumption DEF DiffInv, DiffTypeOK
<1>4. got[s] = Nothing
  BY <1>1 DEF DiffInv, SnapInv
<1>5. CASE pc' = next
  <2>1. c \in Contents /\ Family[c] # Absent /\ got' = [got EXCEPT ![s] = shot] /\ verdict' = Absent
    BY <1>1, <1>2, <1>3, <1>5
  <2>2. shot \in Snapshots
    BY <1>3, <2>1 DEF Snapshots
  <2>3. shot # Nothing
    BY <2>2, NothingIsNone
  <2>4. <<Canonical[from[s]], c>> \in stood
    BY <1>3 DEF DiffInv, SnapInv, Stands
  <2>5. DiffTypeOK'
    <3>1. got' \in [Sides -> Snapshots \cup {Nothing}]
      BY <2>1, <2>2 DEF DiffInv, DiffTypeOK
    <3> QED BY <1>1, <1>5, <2>1, <3>1 DEF DiffInv, DiffTypeOK
  <2>6. SnapInv'
    <3>1. \A t \in Sides : got'[t] = IF t = s THEN shot ELSE got[t]
      BY <2>1 DEF DiffInv, DiffTypeOK
    <3>2. shot.path = from[s] /\ shot.family = Family[shot.content] /\ shot.family # Absent
          /\ shot.content = c
      BY <2>1
    <3> HIDE DEF shot, c
    <3>3. ASSUME NEW t \in Sides, got'[t] # Nothing
          PROVE  /\ got'[t].path = from'[t]
                 /\ got'[t].family = Family[got'[t].content] /\ got'[t].family # Absent
                 /\ <<Canonical[from'[t]], got'[t].content>> \in stood'
      BY <1>1, <2>4, <3>1, <3>2, <3>3 DEF DiffInv, SnapInv
    <3>4. Stands(body)' \subseteq stood'
      BY <1>1 DEF DiffInv, SnapInv, Stands
    <3>5. CASE s = "old"
      <4>1. "old" \in Sides /\ "new" \in Sides
        BY DEF Sides
      <4>2. pc' = "meta_old" /\ got'["old"] # Nothing /\ got'["new"] = got["new"] /\ pc = "read_old"
        BY <1>1, <1>5, <2>3, <3>1, <3>5, <4>1
      <4>3. got["new"] = Nothing
        BY <4>1, <4>2 DEF DiffInv, SnapInv
      <4> QED BY <3>3, <3>4, <4>2, <4>3 DEF SnapInv, OldRead, NewRead
    <3>6. CASE s = "new"
      <4>1. "old" \in Sides /\ "new" \in Sides
        BY DEF Sides
      <4>2. pc' = "meta_new" /\ got'["new"] # Nothing /\ got'["old"] = got["old"] /\ pc = "read_new"
        BY <1>1, <1>5, <2>3, <3>1, <3>6, <4>1
      <4>3. got["old"] # Nothing
        BY <4>1, <4>2 DEF DiffInv, SnapInv, OldRead
      <4> QED BY <3>3, <3>4, <4>2, <4>3 DEF SnapInv, OldRead, NewRead
    <3> QED BY <3>5, <3>6 DEF Sides
  <2>7. AlignedInv'
    BY <1>5 DEF AlignedInv
  <2>8. JobInv'
    BY <1>1, <1>5, <2>1 DEF DiffInv, JobInv
  <2> QED BY <2>1, <2>5, <2>6, <2>7, <2>8, EndsOpen DEF DiffInv
<1>6. CASE pc' # next
  <2>1. /\ pc' = "stopped" /\ got' = got
        /\ verdict' = IF job = "verify" THEN "refused" ELSE "raised"
        /\ c = Absent \/ Family[c] = Absent \/ (adapter[s] # Absent /\ Family[c] # adapter[s])
    BY <1>1, <1>6
  <2>2. DiffTypeOK'
    BY <1>1, <2>1 DEF DiffInv, DiffTypeOK, Verdicts
  <2>3. SnapInv'
    BY <1>1, <2>1 DEF DiffInv, SnapInv, OldRead, NewRead, Stands
  <2>4. AlignedInv'
    BY <2>1 DEF AlignedInv
  <2>5. JobInv'
    BY <1>1, <2>1 DEF DiffInv, JobInv
  <2>6. CASE job = "diff"
    BY <2>1, <2>2, <2>3, <2>4, <2>5, <2>6, EndsOpen DEF DiffInv
  <2>7. CASE job = "verify"
    <3>1. verdict' = "refused" /\ ~(verdict' \in {"FULL", "CONTENT_ONLY"})
      BY <2>1, <2>7
    <3>2. ASSUME submitted' = made' PROVE Differs(s)'
      <4>1. submitted = made
        BY <1>1, <3>2
      <4>2. submitted \in GenuineReports /\ adapter[s] = submitted.documents[s].family
        BY <1>1, <2>7, <4>1 DEF DiffInv, JobInv
      <4>3. SUFFICES ASSUME c = made.documents[s].content PROVE FALSE
        BY <1>1, <1>4, <2>1 DEF Differs
      <4>4. /\ submitted.documents[s].family = Family[c] /\ Family[c] # Absent
            /\ submitted.documents[s].content \in Contents
        BY <4>1, <4>2, <4>3 DEF GenuineReports, Genuine, Reports, Snapshots
      <4>5. c # Absent
        BY <4>1, <4>3, <4>4, ContentAssumption
      <4> QED BY <2>1, <4>2, <4>4, <4>5
    <3>3. EndInv'
      BY <3>1, <3>2 DEF EndInv, VerifiedIsTrue, GenuineVerifies
    <3> QED BY <2>2, <2>3, <2>4, <2>5, <3>3 DEF DiffInv
  <2> QED BY <2>6, <2>7 DEF DiffInv, DiffTypeOK
<1> QED BY <1>5, <1>6

LEMMA ReadSidecarSteps ==
  ASSUME DiffInv, NEW s \in Sides, NEW here, NEW next,
         \/ s = "old" /\ here = "meta_old" /\ next = "read_new"
         \/ s = "new" /\ here = "meta_new" /\ next = "extract",
         ReadSidecar(s, here, next)
  PROVE  DiffInv'
<1>1. /\ pc = here /\ pc' = next
      /\ UNCHANGED <<score, distinct, todo, match, body, sidecar, report, changes, job, stood>>
      /\ UNCHANGED <<submitted, override, from, adapter, made, verdict>>
      /\ got' = [got EXCEPT ![s].meta = sidecar[from[s]]]
  BY DEF ReadSidecar, alignVars, world
<1>2. verdict' = Absent
  BY <1>1, NoVerdict
<1>3. got[s] \in Snapshots
  BY <1>1 DEF DiffInv, DiffTypeOK, SnapInv, OldRead, NewRead
<1> DEFINE shot == [got[s] EXCEPT !.meta = sidecar[from[s]]]
<1>4. \A t \in Sides : got'[t] = IF t = s THEN shot ELSE got[t]
  BY <1>1 DEF DiffInv, DiffTypeOK
<1>5. /\ shot \in Snapshots /\ shot.path = got[s].path /\ shot.content = got[s].content
      /\ shot.family = got[s].family
  <2>1. sidecar[from[s]] \in Metas \cup {Absent}
    BY DEF DiffInv, DiffTypeOK
  <2> QED BY <1>3, <2>1 DEF Snapshots
<1>6. shot # Nothing /\ got[s] # Nothing
  BY <1>3, <1>5, NothingIsNone
<1>7. DiffTypeOK'
  <2>1. got' \in [Sides -> Snapshots \cup {Nothing}]
    BY <1>1, <1>5 DEF DiffInv, DiffTypeOK
  <2> QED BY <1>1, <1>2, <2>1 DEF DiffInv, DiffTypeOK
<1> HIDE DEF shot
<1>8. SnapInv'
  <2>1. ASSUME NEW t \in Sides, got'[t] # Nothing
        PROVE  /\ got'[t].path = from'[t]
               /\ got'[t].family = Family[got'[t].content] /\ got'[t].family # Absent
               /\ <<Canonical[from'[t]], got'[t].content>> \in stood'
    BY <1>1, <1>4, <1>5, <1>6, <2>1 DEF DiffInv, SnapInv
  <2>2. Stands(body)' \subseteq stood'
    BY <1>1 DEF DiffInv, SnapInv, Stands
  <2>3. "old" \in Sides /\ "new" \in Sides
    BY DEF Sides
  <2>4. \A t \in Sides : got'[t] = Nothing <=> got[t] = Nothing
    BY <1>4, <1>6
  <2> QED BY <1>1, <2>1, <2>2, <2>3, <2>4 DEF DiffInv, SnapInv, OldRead, NewRead
<1>9. AlignedInv'
  BY <1>1 DEF AlignedInv
<1>10. JobInv'
  BY <1>1, <1>2 DEF DiffInv, JobInv
<1> QED BY <1>2, <1>7, <1>8, <1>9, <1>10, EndsOpen DEF DiffInv

LEMMA ExtractSteps ==
  ASSUME DiffInv, Extract
  PROVE  DiffInv'
<1> DEFINE a == got["old"].content
           b == got["new"].content
<1>1. /\ pc = "extract" /\ pc' = "align"
      /\ UNCHANGED <<body, sidecar, report, changes, job, stood>>
      /\ UNCHANGED <<submitted, override, from, adapter, got, verdict, made>>
      /\ todo' = PairsOf(a, b) /\ score' = ScoresOf(a, b) /\ distinct' = DistinctOf(a, b)
      /\ match' = {}
  BY DEF Extract, Scored, DistinctOf, world, call
<1>2. verdict' = Absent
  BY <1>1, NoVerdict
<1>3. a \in Contents /\ b \in Contents
  <2>1. got["old"] \in Snapshots /\ got["new"] \in Snapshots
    BY <1>1 DEF DiffInv, DiffTypeOK, SnapInv, OldRead, NewRead, Sides
  <2> QED BY <2>1 DEF Snapshots
<1> HIDE DEF a, b
<1>4. PairsOf(a, b) \subseteq Candidates /\ DistinctOf(a, b) \subseteq PairsOf(a, b)
  BY <1>3, FoundIs DEF PairsOf, Candidates, DistinctOf
<1>5. \A c \in Candidates : score'[c] \in Nat /\ score'[c] <= 10000
  BY <1>1, <1>3, ScoresAre
<1>6. DiffTypeOK'
  BY <1>1, <1>2, <1>4, <1>5 DEF DiffInv, DiffTypeOK, Candidates
<1>7. SnapInv'
  BY <1>1 DEF DiffInv, SnapInv, OldRead, NewRead, Stands
<1>8. AlignedInv'
  <2>1. Greedy(PairsOf(a, b))'
    BY <1>1 DEF Greedy, OneToOne, PairsOf, Found, Index, IndexIn, a, b
  <2>2. a' = a /\ b' = b
    BY <1>1 DEF a, b
  <2> QED BY <1>1, <2>1, <2>2 DEF AlignedInv, a, b, PairsOf, Found, Index, IndexIn,
     DistinctOf, ScoresOf, Candidates, At
<1>9. JobInv'
  BY <1>1, <1>2 DEF DiffInv, JobInv
<1> QED BY <1>2, <1>6, <1>7, <1>8, <1>9, EndsOpen DEF DiffInv

LEMMA AlignSteps ==
  ASSUME DiffInv, AlignStep
  PROVE  DiffInv'
<1>1. /\ pc = "align" /\ AlignNext
      /\ UNCHANGED <<body, sidecar, report, changes, job, stood, pc>>
      /\ UNCHANGED <<submitted, override, from, adapter, got, verdict, made>>
  BY DEF AlignStep, world, call
<1>2. verdict' = Absent
  BY <1>1, NoVerdict
<1>3. PICK a, b : a = got["old"].content /\ b = got["new"].content
  OBVIOUS
<1>4. a \in Contents /\ b \in Contents
  <2>1. got["old"] \in Snapshots /\ got["new"] \in Snapshots
    BY <1>1 DEF DiffInv, DiffTypeOK, SnapInv, OldRead, NewRead, Sides
  <2> QED BY <1>3, <2>1 DEF Snapshots
<1>5. PICK T : T = PairsOf(a, b)
  OBVIOUS
<1>6. T \in SUBSET Candidates
  BY <1>4, <1>5, FoundIs DEF PairsOf, Candidates
<1>7. /\ score = ScoresOf(a, b) /\ distinct = DistinctOf(a, b) /\ Greedy(T)
      /\ \A c \in Candidates : score[c] \in Nat
  BY <1>1, <1>3, <1>5 DEF DiffInv, AlignedInv, DiffTypeOK
<1>8. Greedy(T)'
  BY <1>1, <1>6, <1>7, GreedyStep
<1>9. score' = score /\ distinct' = distinct
  BY <1>1 DEF AlignNext, Consider
<1>10. match' \subseteq Candidates /\ todo' \subseteq Candidates
  BY <1>6, <1>8 DEF Greedy
<1>11. DiffTypeOK'
  BY <1>1, <1>9, <1>10 DEF DiffInv, DiffTypeOK, Candidates
<1>12. SnapInv'
  BY <1>1 DEF DiffInv, SnapInv, OldRead, NewRead, Stands
<1>13. AlignedInv'
  <2>1. got'["old"].content = a /\ got'["new"].content = b
    BY <1>1, <1>3
  <2>2. Greedy(PairsOf(a, b))'
    BY <1>5, <1>8
  <2>3. score' = ScoresOf(a, b) /\ distinct' = DistinctOf(a, b)
    BY <1>7, <1>9
  <2> QED BY <2>1, <2>2, <2>3 DEF AlignedInv, PairsOf, Found, Index, IndexIn,
     DistinctOf, ScoresOf, Candidates, At
<1>14. JobInv'
  BY <1>1, <1>2 DEF DiffInv, JobInv
<1> QED BY <1>2, <1>11, <1>12, <1>13, <1>14, EndsOpen DEF DiffInv

\* When the alignment is done both sources have been read and the report of what was read
\* is right about it.
LEMMA AlignedIs ==
  ASSUME DiffInv, pc = "align", todo = {}
  PROVE  /\ got \in [Sides -> Snapshots]
         /\ \A s \in Sides : /\ got[s].path = from[s] /\ got[s].family # Absent
                             /\ got[s].family = Family[got[s].content]
                             /\ <<Canonical[from[s]], got[s].content>> \in stood
         /\ score = ScoresOf(got["old"].content, got["new"].content)
         /\ distinct = DistinctOf(got["old"].content, got["new"].content)
         /\ Greedy(PairsOf(got["old"].content, got["new"].content))
<1>1. got["old"] # Nothing /\ got["new"] # Nothing
  BY DEF DiffInv, SnapInv, OldRead, NewRead
<1>2. \A s \in Sides : got[s] # Nothing
  BY <1>1 DEF Sides
<1>3. got \in [Sides -> Snapshots]
  BY <1>2 DEF DiffInv, DiffTypeOK
<1> QED BY <1>2, <1>3 DEF DiffInv, SnapInv, AlignedInv

LEMMA WriteReportSteps ==
  ASSUME DiffInv, WriteReport
  PROVE  DiffInv'
<1>1. /\ job = "diff" /\ pc = "align" /\ todo = {} /\ pc' = "written"
      /\ report' = Live(got) /\ made' = Live(got)
      /\ UNCHANGED <<score, distinct, todo, match, body, sidecar, changes, job, stood>>
      /\ UNCHANGED <<submitted, override, from, adapter, got, verdict>>
  BY DEF WriteReport, alignVars
<1>2. verdict' = Absent
  BY <1>1, NoVerdict
<1>3. /\ got \in [Sides -> Snapshots]
      /\ \A s \in Sides : /\ got[s].path = from[s] /\ got[s].family # Absent
                          /\ got[s].family = Family[got[s].content]
      /\ score = ScoresOf(got["old"].content, got["new"].content)
      /\ distinct = DistinctOf(got["old"].content, got["new"].content)
      /\ Greedy(PairsOf(got["old"].content, got["new"].content))
  BY <1>1, AlignedIs
<1>4. /\ Live(got) \in Reports /\ Live(got).sealed /\ Live(got).documents = got
      /\ \A s \in Sides : Live(got).listed[s] = got[s].content
      /\ Right(got["old"].content, got["new"].content, match)
      /\ Live(got).changes = Told(got["old"].content, got["new"].content, match)
  BY <1>1, <1>3, LiveIs
<1>5. \A s \in Sides : Canonical[got[s].path] = got[s].path
  BY <1>1, <1>3 DEF DiffInv, JobInv
<1> DEFINE live == Live(got)
<1> HIDE DEF live
<1>6. live \in GenuineReports
  BY <1>3, <1>4, <1>5 DEF GenuineReports, Genuine, live
<1>7. live \in Reports /\ live # Absent /\ report' = live /\ made' = live
  BY <1>1, <1>4, AbsentAssumption DEF live
<1>8. DiffTypeOK'
  BY <1>1, <1>2, <1>7 DEF DiffInv, DiffTypeOK, Candidates
<1>9. SnapInv'
  BY <1>1 DEF DiffInv, SnapInv, OldRead, NewRead, Stands
<1>10. AlignedInv'
  BY <1>1 DEF AlignedInv
<1>11. made' \in GenuineReports
  BY <1>6, <1>7
<1>12. JobInv'
  BY <1>1, <1>2, <1>7, <1>11 DEF DiffInv, JobInv
<1> QED BY <1>2, <1>8, <1>9, <1>10, <1>12, EndsOpen DEF DiffInv

LEMMA ReadReportSteps ==
  ASSUME DiffInv, ReadReport
  PROVE  DiffInv'
<1>1. /\ pc = "written" /\ job' = "verify" /\ stood' = Stands(body)
      /\ got' = [s \in Sides |-> Nothing]
      /\ UNCHANGED <<score, distinct, todo, match, body, sidecar, report, changes>>
      /\ UNCHANGED <<override, from, adapter, made>>
      /\ \/ /\ report.sealed /\ pc' = "resolve" /\ submitted' = report /\ verdict' = verdict
         \/ /\ ~report.sealed /\ pc' = "stopped" /\ submitted' = submitted
            /\ verdict' = "refused"
  BY DEF ReadReport, alignVars, world, Unread
<1>2. /\ verdict = Absent /\ job = "diff" /\ report \in Reports /\ made # Absent
      /\ submitted = Absent
  BY <1>1, NoVerdict DEF DiffInv, DiffTypeOK, JobInv
<1>3. DiffTypeOK'
  <2>1. got' \in [Sides -> Snapshots \cup {Nothing}]
    BY <1>1
  <2> QED BY <1>1, <1>2, <2>1 DEF DiffInv, DiffTypeOK, Verdicts
<1>4. SnapInv'
  <2>1. \A s \in Sides : got'[s] = Nothing
    BY <1>1
  <2>2. Stands(body)' \subseteq stood'
    BY <1>1 DEF Stands
  <2>3. pc' \in {"resolve", "stopped"}
    BY <1>1
  <2> QED BY <2>1, <2>2, <2>3 DEF SnapInv, OldRead, NewRead
<1>5. AlignedInv'
  BY <1>1 DEF AlignedInv
<1>6. JobInv'
  BY <1>1, <1>2, AbsentAssumption DEF DiffInv, JobInv
<1>7. EndInv'
  <2>1. verdict' \notin {"FULL", "CONTENT_ONLY"} /\ (verdict' = "refused" => submitted' # made')
    BY <1>1, <1>2, AbsentAssumption DEF Verdicts
  <2> QED BY <2>1 DEF EndInv, VerifiedIsTrue, GenuineVerifies
<1> QED BY <1>3, <1>4, <1>5, <1>6, <1>7 DEF DiffInv

LEMMA ResolveSteps ==
  ASSUME DiffInv, NEW given \in [Sides -> Overrides \cup {Absent}], Resolve(given)
  PROVE  DiffInv'
<1> DEFINE path(s) == submitted.documents[s].path
<1>1. /\ pc = "resolve" /\ override' = given
      /\ from' = [s \in Sides |-> IF given[s] = Absent THEN path(s) ELSE given[s]]
      /\ adapter' = [s \in Sides |-> submitted.documents[s].family]
      /\ \/ /\ \A s \in Sides : Resolves(given[s], path(s))
            /\ pc' = "read_old" /\ verdict' = verdict
         \/ /\ \E s \in Sides : ~Resolves(given[s], path(s))
            /\ pc' = "stopped" /\ verdict' = "refused"
      /\ UNCHANGED <<score, distinct, todo, match, body, sidecar, report, changes, job, stood>>
      /\ UNCHANGED <<got, made, submitted>>
  <2>1. \A s \in Sides : [t \in Sides |-> submitted.documents[t].path][s] = path(s)
    OBVIOUS
  <2> QED BY <2>1 DEF Resolve, alignVars, world
<1>2. /\ verdict = Absent /\ job = "verify" /\ submitted \in Reports /\ made \in GenuineReports
      /\ \A s \in Sides : got[s] = Nothing
  BY <1>1, NoVerdict DEF DiffInv, DiffTypeOK, JobInv, SnapInv
<1>3. \A s \in Sides : /\ path(s) \in Paths
                       /\ submitted.documents[s].family \in {Family[c] : c \in Contents}
  BY <1>2 DEF Reports, Snapshots
<1> HIDE DEF path
<1>4. /\ from' \in [Sides -> Paths] /\ override' \in [Sides -> Overrides \cup {Absent}]
      /\ adapter' \in [Sides -> {Absent} \cup {Family[c] : c \in Contents}]
  BY <1>1, <1>3, PathAssumption
<1>5. DiffTypeOK'
  BY <1>1, <1>2, <1>4 DEF DiffInv, DiffTypeOK, Verdicts
<1>6. SnapInv'
  BY <1>1, <1>2 DEF DiffInv, SnapInv, OldRead, NewRead, Stands
<1>7. AlignedInv'
  BY <1>1 DEF AlignedInv
<1>8. CASE pc' = "read_old"
  <2>1. verdict' = Absent /\ \A s \in Sides : Resolves(given[s], path(s))
    BY <1>1, <1>2, <1>8
  <2>2. \A s \in Sides : /\ adapter'[s] = submitted.documents[s].family
                         /\ override'[s] = Absent =>
                              from'[s] = path(s) /\ Canonical[from'[s]] = from'[s]
    BY <1>1, <2>1 DEF Resolves
  <2>3. JobInv'
    BY <1>1, <1>2, <1>8, <2>1, <2>2 DEF DiffInv, JobInv, path
  <2> QED BY <1>5, <1>6, <1>7, <2>1, <2>3, EndsOpen DEF DiffInv
<1>9. CASE pc' # "read_old"
  <2>1. PICK s \in Sides : ~Resolves(given[s], path(s))
    BY <1>1, <1>9
  <2>2. pc' = "stopped" /\ verdict' = "refused"
    BY <1>1, <1>9
  <2>3. JobInv'
    BY <1>1, <1>2, <2>2 DEF DiffInv, JobInv
  <2>4. ASSUME submitted' = made' PROVE Differs(s)'
    <3>1. /\ submitted = made /\ Canonical[path(s)] = path(s)
          /\ made.documents[s].content \in Contents
      BY <1>1, <1>2, <2>4 DEF GenuineReports, Genuine, Reports, Snapshots, path
    <3>2. body[Canonical[from'[s]]] = Absent
      BY <1>1, <2>1, <3>1 DEF Resolves
    <3>3. made.documents[s].content # Absent
      BY <3>1, ContentAssumption
    <3> QED BY <1>1, <1>2, <3>2, <3>3 DEF Differs
  <2>5. EndInv'
    BY <2>2, <2>4 DEF EndInv, VerifiedIsTrue, GenuineVerifies
  <2> QED BY <1>5, <1>6, <1>7, <2>3, <2>5 DEF DiffInv
<1> QED BY <1>8, <1>9

\* The report a diff wrote is reproduced by whoever reads the same contents and sidecars.
LEMMA GenuineReproduces ==
  ASSUME NEW r \in GenuineReports, NEW snaps \in [Sides -> Snapshots],
         todo = {}, score = ScoresOf(snaps["old"].content, snaps["new"].content),
         distinct = DistinctOf(snaps["old"].content, snaps["new"].content),
         Greedy(PairsOf(snaps["old"].content, snaps["new"].content)),
         \A s \in Sides : /\ snaps[s].path = r.documents[s].path
                          /\ snaps[s].content = r.documents[s].content
                          /\ snaps[s].family = r.documents[s].family
                          /\ snaps[s].meta = r.documents[s].meta
  PROVE  r = Live(snaps)
<1> DEFINE a == snaps["old"].content
           b == snaps["new"].content
<1>1. /\ Live(snaps) \in Reports /\ Live(snaps).sealed
      /\ Live(snaps).documents = snaps
      /\ \A s \in Sides : Live(snaps).listed[s] = snaps[s].content
      /\ Right(a, b, match) /\ Live(snaps).changes = Told(a, b, match)
  BY LiveIs
<1>2. r \in Reports /\ r.documents \in [Sides -> Snapshots]
  BY DEF GenuineReports, Reports
<1>3. \A s \in Sides : snaps[s] = r.documents[s]
  BY <1>2 DEF Snapshots
<1>4. snaps = r.documents
  BY <1>2, <1>3
<1>5. a \in Contents /\ b \in Contents
  BY DEF Snapshots, Sides
<1>6. PICK m : Right(a, b, m) /\ r.changes = Told(a, b, m)
  BY <1>4 DEF GenuineReports, Genuine
<1>7. r.changes = Live(snaps).changes
  <2> HIDE DEF a, b
  <2>1. m = match
    BY <1>1, <1>5, <1>6, OneRight
  <2> QED BY <1>1, <1>6, <2>1
<1>8. r.listed = Live(snaps).listed
  <2>1. \A s \in Sides : r.listed[s] = Live(snaps).listed[s]
    BY <1>1, <1>4 DEF GenuineReports, Genuine
  <2> QED BY <1>1, <1>2, <2>1 DEF Reports
<1>9. r.sealed = Live(snaps).sealed
  BY <1>1, <1>2 DEF GenuineReports, Genuine, Reports
<1> DEFINE live == Live(snaps)
<1>10. live \in Reports /\ r.documents = live.documents
  BY <1>1, <1>4
<1> HIDE DEF live
<1> QED BY <1>2, <1>7, <1>8, <1>9, <1>10 DEF Reports, live

\* The payload that is compared is a report on the snapshots taken, which a genuine report
\* equals if the snapshots are of what it has.
LEMMA CompareSteps ==
  ASSUME DiffInv, Compare
  PROVE  DiffInv'
<1> DEFINE snaps == IF Overridden THEN Rebound ELSE got
<1>1. /\ job = "verify" /\ pc = "align" /\ todo = {} /\ pc' = "stopped"
      /\ verdict' = IF submitted = Live(snaps) /\ Referential(submitted)
                    THEN IF Overridden THEN "CONTENT_ONLY" ELSE "FULL" ELSE "refused"
      /\ UNCHANGED <<score, distinct, todo, match, body, sidecar, report, changes, job, stood>>
      /\ UNCHANGED <<submitted, override, from, adapter, got, made>>
  BY DEF Compare, Reproduces, Scope, alignVars, world
<1>2. /\ got \in [Sides -> Snapshots]
      /\ \A s \in Sides : /\ got[s].path = from[s] /\ got[s].family # Absent
                          /\ got[s].family = Family[got[s].content]
                          /\ <<Canonical[from[s]], got[s].content>> \in stood
      /\ score = ScoresOf(got["old"].content, got["new"].content)
      /\ distinct = DistinctOf(got["old"].content, got["new"].content)
      /\ Greedy(PairsOf(got["old"].content, got["new"].content))
  BY <1>1, AlignedIs
<1>3. /\ submitted \in Reports /\ made \in GenuineReports
      /\ \A s \in Sides : override[s] = Absent =>
           from[s] = submitted.documents[s].path /\ Canonical[from[s]] = from[s]
  BY <1>1 DEF DiffInv, DiffTypeOK, JobInv
<1>4. \A s \in Sides : submitted.documents[s].path \in Paths
  BY <1>3 DEF Reports, Snapshots
<1>5. /\ snaps \in [Sides -> Snapshots]
      /\ \A s \in Sides : /\ snaps[s].content = got[s].content
                          /\ snaps[s].family = got[s].family /\ snaps[s].meta = got[s].meta
                          /\ snaps[s].path = submitted.documents[s].path
  <2>1. CASE Overridden
    <3>1. snaps = [s \in Sides |-> [got[s] EXCEPT !.path = submitted.documents[s].path]]
      BY <2>1 DEF Rebound
    <3>2. ASSUME NEW s \in Sides
          PROVE  /\ snaps[s] \in Snapshots
                 /\ snaps[s].content = got[s].content
                 /\ snaps[s].family = got[s].family /\ snaps[s].meta = got[s].meta
                 /\ snaps[s].path = submitted.documents[s].path
      <4>1. snaps[s] = [got[s] EXCEPT !.path = submitted.documents[s].path]
        BY <3>1
      <4>2. got[s] \in Snapshots /\ submitted.documents[s].path \in Paths
        BY <1>2, <1>4
      <4> HIDE DEF snaps
      <4> QED BY <4>1, <4>2 DEF Snapshots
    <3>3. snaps \in [Sides -> Snapshots]
      <4> HIDE DEF snaps
      <4> QED BY <3>1, <3>2
    <3> QED BY <3>2, <3>3
  <2>2. CASE ~Overridden
    BY <1>2, <1>3, <2>2 DEF Overridden
  <2> QED BY <2>1, <2>2
<1>6. ~Overridden => \A s \in Sides :
        from[s] = submitted.documents[s].path /\ Canonical[from[s]] = from[s]
  BY <1>3 DEF Overridden
<1> HIDE DEF snaps
<1>7. /\ snaps["old"].content = got["old"].content /\ snaps["new"].content = got["new"].content
  BY <1>5 DEF Sides
<1>8. /\ score = ScoresOf(snaps["old"].content, snaps["new"].content)
      /\ distinct = DistinctOf(snaps["old"].content, snaps["new"].content)
      /\ Greedy(PairsOf(snaps["old"].content, snaps["new"].content))
  BY <1>2, <1>7
<1>9. DiffTypeOK'
  BY <1>1 DEF DiffInv, DiffTypeOK, Verdicts
<1>10. SnapInv'
  BY <1>1 DEF DiffInv, SnapInv, OldRead, NewRead, Stands
<1>11. AlignedInv'
  BY <1>1 DEF AlignedInv
<1>12. JobInv'
  BY <1>1 DEF DiffInv, JobInv
<1>13. CASE submitted = Live(snaps) /\ Referential(submitted)
  <2>1. /\ submitted.documents = snaps
        /\ \A s \in Sides : submitted.listed[s] = snaps[s].content
        /\ Right(snaps["old"].content, snaps["new"].content, match)
        /\ submitted.changes = Told(snaps["old"].content, snaps["new"].content, match)
    BY <1>1, <1>5, <1>8, <1>13, LiveIs
  <2>2. Accounts(submitted)
    BY <1>3, <2>1, RightIs
  <2>3. \A s \in Sides : submitted.documents[s].content = got[s].content
    BY <1>5, <2>1
  <2>4. \A s \in Sides :
          /\ <<Canonical[from[s]], submitted.documents[s].content>> \in stood
          /\ ~Overridden =>
               <<submitted.documents[s].path, submitted.documents[s].content>> \in stood
    BY <1>2, <1>6, <2>3
  <2>5. verdict' = IF Overridden THEN "CONTENT_ONLY" ELSE "FULL"
    BY <1>1, <1>13
  <2>6. Accounts(submitted)'
    <3>1. submitted' = submitted
      BY <1>1
    <3> QED BY <2>2, <3>1 DEF Accounts, AllOnce, Once, Found, At, Index, IndexIn
  <2>7. VerifiedIsTrue'
    BY <1>1, <2>4, <2>5, <2>6 DEF VerifiedIsTrue
  <2>8. GenuineVerifies'
    BY <2>5 DEF GenuineVerifies
  <2> QED BY <1>9, <1>10, <1>11, <1>12, <2>7, <2>8 DEF DiffInv, EndInv
<1>14. CASE ~(submitted = Live(snaps) /\ Referential(submitted))
  <2>1. verdict' = "refused"
    BY <1>1, <1>14
  <2>2. ASSUME submitted' = made' PROVE \E s \in Sides : Differs(s)'
    <3>1. submitted = made
      BY <1>1, <2>2
    <3>2. SUFFICES ASSUME \A s \in Sides : ~Differs(s)' PROVE FALSE
      OBVIOUS
    <3>3. \A s \in Sides : got[s] # Nothing
      BY <1>2, NothingIsNone
    <3>4. \A s \in Sides : /\ got[s].content = made.documents[s].content
                           /\ got[s].meta = made.documents[s].meta
      BY <1>1, <3>2, <3>3 DEF Differs
    <3>5. \A s \in Sides : made.documents[s].family = Family[made.documents[s].content]
      BY <1>3 DEF GenuineReports, Genuine
    <3>6. \A s \in Sides : /\ snaps[s].path = made.documents[s].path
                           /\ snaps[s].content = made.documents[s].content
                           /\ snaps[s].family = made.documents[s].family
                           /\ snaps[s].meta = made.documents[s].meta
      <4> TAKE s \in Sides
      <4>1. snaps[s].path = made.documents[s].path
        BY <1>5, <3>1
      <4>2. snaps[s].content = made.documents[s].content /\ snaps[s].meta = made.documents[s].meta
        BY <1>5, <3>4
      <4>3. got[s].content = made.documents[s].content
        BY <3>4
      <4>4. snaps[s].family = Family[got[s].content]
        BY <1>2, <1>5
      <4>5. snaps[s].family = made.documents[s].family
        BY <3>5, <4>3, <4>4
      <4> QED BY <4>1, <4>2, <4>5
    <3>7. made = Live(snaps)
      BY <1>1, <1>3, <1>5, <1>8, <3>6, GenuineReproduces
    <3>8. Referential(made)
      BY <1>3, RightIs DEF GenuineReports, Genuine
    <3> QED BY <1>14, <3>1, <3>7, <3>8
  <2>3. VerifiedIsTrue'
    BY <2>1 DEF VerifiedIsTrue
  <2>4. GenuineVerifies'
    BY <2>2 DEF GenuineVerifies
  <2> QED BY <1>9, <1>10, <1>11, <1>12, <2>3, <2>4 DEF DiffInv, EndInv
<1> QED BY <1>13, <1>14

\* What others do to a report leaves it a report.
LEMMA EditsStay ==
  ASSUME report \in Reports, EditReport
  PROVE  report' \in Reports
<1>1. /\ report.documents \in [Sides -> Snapshots] /\ report.listed \in [Sides -> Contents]
      /\ report.changes \in SUBSET Changes
  BY DEF Reports
<1>2. PICK sealed \in BOOLEAN :
       \/ \E cs \in AlteredChanges(report.changes) :
            report' = [report EXCEPT !.changes = cs, !.sealed = sealed]
       \/ \E s \in Sides : \E d \in AlteredSnapshots(report.documents[s]) :
            report' = [report EXCEPT !.documents[s] = d, !.sealed = sealed]
       \/ \E s \in Sides, c \in Replacements :
            report' = [report EXCEPT !.listed[s] = c, !.sealed = sealed]
  BY DEF EditReport
<1>3. ASSUME NEW cs \in AlteredChanges(report.changes) PROVE cs \in SUBSET Changes
  <2>1. ASSUME NEW c \in Changes, NEW k \in {"UNCHANGED", "AMBIGUOUS"}
        PROVE  [c EXCEPT !.class = k] \in Changes
    <3>1. k \in Classes
      BY DEF Classes, QuietClasses
    <3> QED BY <3>1 DEF Changes
  <2>2. CASE \E c \in report.changes : cs = report.changes \ {c}
    BY <1>1, <2>2
  <2>3. CASE \E c \in report.changes, k \in {"UNCHANGED", "AMBIGUOUS"} :
               cs = (report.changes \ {c}) \cup {[c EXCEPT !.class = k]}
    BY <1>1, <2>1, <2>3
  <2> QED BY <2>2, <2>3 DEF AlteredChanges
<1>4. ASSUME NEW s \in Sides, NEW d \in AlteredSnapshots(report.documents[s])
      PROVE  d \in Snapshots
  <2> DEFINE old == report.documents[s]
  <2>1. old \in Snapshots /\ Replacements \subseteq Contents
    BY <1>1, ContentAssumption
  <2> HIDE DEF old
  <2>2. CASE \E p \in Paths : d = [old EXCEPT !.path = p]
    BY <2>1, <2>2 DEF Snapshots
  <2>3. CASE \E m \in Metas \cup {Absent} : d = [old EXCEPT !.meta = m]
    BY <2>1, <2>3 DEF Snapshots
  <2>4. CASE \E c \in Replacements : d = [old EXCEPT !.content = c, !.family = Family[c]]
    BY <2>1, <2>4 DEF Snapshots
  <2>5. d \in AlteredSnapshots(old)
    BY DEF old
  <2> QED BY <2>2, <2>3, <2>4, <2>5 DEF AlteredSnapshots
<1>5. ASSUME NEW ds \in [Sides -> Snapshots]
      PROVE  [report EXCEPT !.documents = ds, !.sealed = sealed] \in Reports
  BY DEF Reports
<1>6. ASSUME NEW ls \in [Sides -> Contents]
       PROVE  [report EXCEPT !.listed = ls, !.sealed = sealed] \in Reports
  BY DEF Reports
<1>7. CASE \E cs \in AlteredChanges(report.changes) :
             report' = [report EXCEPT !.changes = cs, !.sealed = sealed]
  <2>1. PICK cs \in SUBSET Changes : report' = [report EXCEPT !.changes = cs, !.sealed = sealed]
    BY <1>3, <1>7
  <2> QED BY <2>1 DEF Reports
<1>8. CASE \E s \in Sides : \E d \in AlteredSnapshots(report.documents[s]) :
             report' = [report EXCEPT !.documents[s] = d, !.sealed = sealed]
  <2>0. PICK s \in Sides : \E d \in AlteredSnapshots(report.documents[s]) :
          report' = [report EXCEPT !.documents[s] = d, !.sealed = sealed]
    BY <1>8
  <2>1. PICK d \in AlteredSnapshots(report.documents[s]) :
          report' = [report EXCEPT !.documents[s] = d, !.sealed = sealed]
    BY <2>0
  <2>2. report' = [report EXCEPT !.documents = [@ EXCEPT ![s] = d], !.sealed = sealed]
    BY <2>1
  <2>3. [report.documents EXCEPT ![s] = d] \in [Sides -> Snapshots]
    BY <1>1, <1>4, <2>1
  <2> QED BY <1>5, <2>2, <2>3
<1>9. CASE \E s \in Sides, c \in Replacements :
             report' = [report EXCEPT !.listed[s] = c, !.sealed = sealed]
  <2>1. PICK s \in Sides, c \in Replacements :
          report' = [report EXCEPT !.listed[s] = c, !.sealed = sealed]
    BY <1>9
  <2>2. report' = [report EXCEPT !.listed = [@ EXCEPT ![s] = c], !.sealed = sealed]
    BY <2>1
  <2>3. [report.listed EXCEPT ![s] = c] \in [Sides -> Contents]
    BY <1>1, <2>1, ContentAssumption
  <2> QED BY <1>6, <2>2, <2>3
<1> QED BY <1>2, <1>7, <1>8, <1>9

\* The alignment only depends on the two snapshots and its own state.
LEMMA AlignedInvStays ==
  ASSUME AlignedInv, UNCHANGED <<score, distinct, todo, match, got, pc>>
  PROVE  AlignedInv'
<1> SUFFICES ASSUME pc = "align" PROVE AlignedInv'
  BY DEF AlignedInv
<1>1. PICK a, b : a = got["old"].content /\ b = got["new"].content
  OBVIOUS
<1>2. PICK T : T = PairsOf(a, b)
  OBVIOUS
<1>3. score = ScoresOf(a, b) /\ distinct = DistinctOf(a, b) /\ Greedy(T)
  BY <1>1, <1>2 DEF AlignedInv
<1>4. Greedy(T)'
  BY <1>3 DEF Greedy, OneToOne
<1>5. got'["old"].content = a /\ got'["new"].content = b
  BY <1>1
<1>6. score' = ScoresOf(a, b) /\ distinct' = DistinctOf(a, b) /\ Greedy(PairsOf(a, b))'
  BY <1>2, <1>3, <1>4
<1> QED BY <1>5, <1>6 DEF AlignedInv, PairsOf, Found, Index, IndexIn, DistinctOf, ScoresOf,
   Candidates, At

\* Others change the world only, and what they put in a source's place stands there.
LEMMA OthersSteps ==
  ASSUME DiffInv, Others
  PROVE  DiffInv'
<1>1. /\ pc # "stopped" /\ changes < MaxChanges /\ changes' = changes + 1
      /\ UNCHANGED <<score, distinct, todo, match, job, pc>>
      /\ UNCHANGED <<submitted, override, from, adapter, got, verdict, made>>
  BY DEF Others, ReplaceSource, ReplaceSidecar, EditReport, Meanwhile, alignVars, call
<1>2. /\ report' \in Reports \cup {Absent} /\ (report # Absent => report' # Absent)
      /\ body' \in [Paths -> Contents \cup {Absent}]
      /\ sidecar' \in [Paths -> Metas \cup {Absent}]
      /\ stood \subseteq stood' /\ Stands(body)' \subseteq stood'
  <2>1. ASSUME NEW p \in Paths, ReplaceSource(p)
        PROVE  <1>2
    <3>1. PICK c \in Replacements \cup {Absent} : body' = [body EXCEPT ![p] = c]
      BY <2>1 DEF ReplaceSource
    <3>2. body' \in [Paths -> Contents \cup {Absent}]
      BY <3>1, ContentAssumption DEF DiffInv, DiffTypeOK
    <3>3. stood' = stood \cup Stands(body)' /\ UNCHANGED <<sidecar, report>>
      BY <2>1 DEF ReplaceSource, Stands
    <3> QED BY <3>2, <3>3 DEF DiffInv, DiffTypeOK
  <2>2. ASSUME NEW p \in Paths, ReplaceSidecar(p)
        PROVE  <1>2
    <3>1. PICK m \in Metas \cup {Absent} : sidecar' = [sidecar EXCEPT ![p] = m]
      BY <2>2 DEF ReplaceSidecar
    <3>2. UNCHANGED <<body, report, stood>>
      BY <2>2 DEF ReplaceSidecar
    <3>3. Stands(body)' \subseteq stood'
      BY <3>2 DEF DiffInv, SnapInv, Stands
    <3> QED BY <3>1, <3>2, <3>3 DEF DiffInv, DiffTypeOK
  <2>3. CASE EditReport
    <3>1. report \in Reports
      <4>1. report # Absent
        BY <2>3 DEF EditReport
      <4> QED BY <4>1 DEF DiffInv, DiffTypeOK
    <3>2. report' \in Reports
      BY <2>3, <3>1, EditsStay
    <3>3. UNCHANGED <<body, sidecar, stood>>
      BY <2>3 DEF EditReport
    <3>4. Stands(body)' \subseteq stood'
      BY <3>3 DEF DiffInv, SnapInv, Stands
    <3>5. report' # Absent
      BY <3>2, AbsentAssumption
    <3> QED BY <3>2, <3>3, <3>4, <3>5 DEF DiffInv, DiffTypeOK
  <2> QED BY <2>1, <2>2, <2>3 DEF Others
<1>3. DiffTypeOK'
  <2>1. changes' \in 0..MaxChanges
    BY <1>1, ChangesAssumption DEF DiffInv, DiffTypeOK
  <2> QED BY <1>1, <1>2, <2>1 DEF DiffInv, DiffTypeOK
<1>4. SnapInv'
  BY <1>1, <1>2 DEF DiffInv, SnapInv, OldRead, NewRead
<1>5. AlignedInv'
  BY <1>1, AlignedInvStays DEF DiffInv
<1>6. JobInv'
  BY <1>1, <1>2 DEF DiffInv, JobInv
<1>7. EndInv'
  BY <1>1, NoVerdict, EndsOpen
<1> QED BY <1>3, <1>4, <1>5, <1>6, <1>7 DEF DiffInv

LEMMA DiffStays == DiffInv /\ DiffNext => DiffInv'
<1> SUFFICES ASSUME DiffInv, DiffNext PROVE DiffInv'
  OBVIOUS
<1>1. CASE Read("old", "read_old", "meta_old") \/ Read("new", "read_new", "meta_new")
  BY <1>1, ReadSteps DEF Sides
<1>2. CASE ReadSidecar("old", "meta_old", "read_new") \/ ReadSidecar("new", "meta_new", "extract")
  BY <1>2, ReadSidecarSteps DEF Sides
<1>3. CASE Extract
  BY <1>3, ExtractSteps
<1>4. CASE AlignStep
  BY <1>4, AlignSteps
<1>5. CASE WriteReport
  BY <1>5, WriteReportSteps
<1>6. CASE ReadReport
  BY <1>6, ReadReportSteps
<1>7. ASSUME NEW given \in [Sides -> Overrides \cup {Absent}], Resolve(given) PROVE DiffInv'
  BY <1>7, ResolveSteps
<1>8. CASE Compare
  BY <1>8, CompareSteps
<1>9. CASE Others
  BY <1>9, OthersSteps
<1> QED BY <1>1, <1>2, <1>3, <1>4, <1>5, <1>6, <1>7, <1>8, <1>9 DEF DiffNext

LEMMA DiffInductive == DiffSpec => []DiffInv
<1>1. ASSUME DiffInv, UNCHANGED diffVars PROVE DiffInv'
  <2>1. /\ UNCHANGED <<score, distinct, todo, match, body, sidecar, report, changes, job, pc, stood>>
        /\ UNCHANGED <<submitted, override, from, adapter, got, verdict, made>>
    BY <1>1 DEF diffVars, alignVars, world, call
  <2>2. DiffTypeOK' /\ SnapInv' /\ JobInv'
    BY <1>1, <2>1 DEF DiffInv, DiffTypeOK, SnapInv, JobInv, OldRead, NewRead, Stands
  <2>3. AlignedInv'
    BY <1>1, <2>1, AlignedInvStays DEF DiffInv
  <2>4. EndInv'
    BY <1>1, <2>1 DEF DiffInv, EndInv, VerifiedIsTrue, GenuineVerifies, Differs, Accounts, AllOnce,
       Once, Found, At, Index, IndexIn
  <2> QED BY <2>2, <2>3, <2>4 DEF DiffInv
<1> QED BY <1>1, DiffStarts, DiffStays, PTL DEF DiffSpec

-----------------------------------------------------------------------------
(* The diff: what it and its verification promise.                         *)

\* What a diff and a verification hold and return is of its type (run_diff,
\* verify_report_file).
THEOREM DiffTypeCorrect == DiffSpec => []DiffTypeOK
<1>1. DiffInv => DiffTypeOK
  BY DEF DiffInv
<1> QED BY <1>1, DiffInductive, PTL

\* A report tells of every requirement of both sources exactly once, and calls no pair
\* unchanged whose modality or roles differ (align_requirements, classify_pairs).
THEOREM DiffTellsAllOnce == DiffSpec => []TellsAllOnce
<1>1. DiffInv => TellsAllOnce
  BY RightIs DEF DiffInv, JobInv, GenuineReports, Genuine, TellsAllOnce
<1> QED BY <1>1, DiffInductive, PTL

\* Whatever is added, removed, strengthened or weakened in one direction is the opposite
\* in the other (classify_pair).
THEOREM DiffMirrored == DiffSpec => []Mirrored
<1>1. ASSUME DiffInv, pc = "align" PROVE Mirrored
  <2> DEFINE a == got["old"].content
             b == got["new"].content
  <2>1. got["old"] \in Snapshots /\ got["new"] \in Snapshots
    BY <1>1 DEF DiffInv, DiffTypeOK, SnapInv, OldRead, NewRead, Sides
  <2>3. a \in Contents /\ b \in Contents
    BY <2>1 DEF Snapshots
  <2> HIDE DEF a, b
  <2>2. ASSUME NEW o \in Found(a, Olds), NEW n \in Found(b, News)
        PROVE  ClassifyPair(At(b, n), At(a, o)) = MirrorClass[ClassifyPair(At(a, o), At(b, n))]
    BY <2>3, FoundIs, ClassifyPairMirrors
  <2> QED BY <2>2 DEF Mirrored, a, b
<1>2. DiffInv => Mirrored
  BY <1>1 DEF Mirrored
<1> QED BY <1>2, DiffInductive, PTL

\* A verification only confirms a report whose sources held, while it ran, what the report
\* says of them, and whose changes are those the two contents have (verify_report_file).
THEOREM VerifiedTrue == DiffSpec => []VerifiedIsTrue
<1>1. DiffInv => VerifiedIsTrue
  BY DEF DiffInv, EndInv
<1> QED BY <1>1, DiffInductive, PTL

\* A report a diff wrote is only refused if a source or its sidecar differs from what the
\* diff had read (verify_report_file, run_diff).
THEOREM GenuineIsVerified == DiffSpec => []GenuineVerifies
<1>1. DiffInv => GenuineVerifies
  BY DEF DiffInv, EndInv
<1> QED BY <1>1, DiffInductive, PTL
================================================================================
