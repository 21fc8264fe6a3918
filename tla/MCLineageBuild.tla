--------------------------- MODULE MCLineageBuild ---------------------------
(* Scores below every threshold, between the multiplicity thresholds and    *)
(* the match threshold, and above; 8600 and 8700 are within every epsilon   *)
(* and margin, 7000 is outside all of them.  Only the edge scores differ by *)
(* exactly a margin, none by an epsilon: how doubles round matters only     *)
(* there.                                                                   *)
EXTENDS LineageBuild

\* Ids compare in another order than positions.
MCRank == [x \in Olds \cup News |-> 100 - x]

MCScores == {5000, 6100, 7000, 8600, 8700, 9900}
MCInit == Init /\ \A c, d \in distinct : c = d
\* Every new requirement merges all the old ones, and both take the same best parent.
MCTwoMergesInit ==
  /\ Init /\ distinct = {}
  /\ DifferentCores(core, Olds)
  /\ \A n \in News : Parents(score, n) = Olds
  /\ \A m, n \in News : FirstParent(score, m) = FirstParent(score, n)

\* 7500 is no strong match and within 1200 of 8600, 6100 is not; equal scores stand
\* for those within an epsilon.
MCWideScores == {5000, 6100, 7500, 8600}
\* At the threshold and exactly a margin apart: 0.72 - 0.67 is below 0.05 in doubles,
\* 0.67 - 0.62 is not.
MCEdgeScores == {5000, 6200, 6700, 7200}
MCRoundsDown == {7200}
MCAllScores == MCWideScores \cup MCEdgeScores
\* At most one pair has distinct actions: which one does not matter, nor which core
\* is which.
MCWideInit ==
  /\ core \in {k \in [Requirements -> Cores] : k[1] = CHOOSE x \in Cores : TRUE}
  /\ \/ score \in [Candidates -> MCWideScores] /\ distinct \in SUBSET {<<1, 11>>}
     \/ /\ score \in [Candidates -> MCEdgeScores] /\ distinct = {}
        /\ score[<<1, 13>>] = 5000 /\ score[<<2, 13>>] \in {5000, 7200}
  /\ Init
=============================================================================
