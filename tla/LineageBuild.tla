---------------------------- MODULE LineageBuild ----------------------------
(***************************************************************************)
(* lineage.builder.build_lineage_graph_from_sources, for one pair of       *)
(* consecutive versions: the requirements of the new version are placed in *)
(* lineage nodes and every placement is justified by an edge.  Splits      *)
(* claim requirements first, then merges, then the one-to-one pairs, and   *)
(* whatever is left over is removed, soft-linked or added.  The graph is   *)
(* validated at the end; a graph that fails is not returned.               *)
(*                                                                         *)
(* Before the pair every old requirement is in a node of its own, named    *)
(* here by that requirement; a node made for a new requirement is named by *)
(* the latter.  Requirements are their positions in their document.        *)
(***************************************************************************)
EXTENDS Multiplicity

CONSTANTS
  Cores,     \* action cores: the normalised action, or the text
  Nobody     \* None, where a requirement or a node is optional
ASSUME PositionsAssumption ==
  /\ Olds \subseteq Nat /\ News \subseteq Nat /\ Olds \cap News = {}
  /\ Nobody \notin Olds \cup News
\* A combined score is a weighted mean of ratios, in units of 1/10000; MATCH_THRESHOLD
\* is not below what makes a split or a merge.
ASSUME MatchAssumption == Threshold >= SplitSecondary /\ \A x \in Scores : x <= 10000

VARIABLES
  core,        \* _action_core of each requirement
  phase,       \* the loop the pair is in
  work,        \* splits not processed yet
  claimedOld, claimedNew,
  lineage,     \* next_lineage: the node of each new requirement placed so far
  members,     \* new instances of each node
  edges        \* edges of the pair

buildVars == <<core, phase, work, claimedOld, claimedNew, lineage, members, edges>>
vars == <<alignVars, buildVars>>

Requirements == Olds \cup News
Relations == {"SPLIT_INTO", "MERGED_FROM", "CONTINUES", "SOFT", "REMOVED", "ADDED"}
Phases == {"align", "split", "primary", "leftover", "validate", "built", "raised"}
Edge(rel, o, n, fromNode, toNode) ==
  [relation |-> rel, from |-> o, to |-> n, from_node |-> fromNode, to_node |-> toNode]
Edges == [relation : Relations, from : Olds \cup {Nobody}, to : News \cup {Nobody},
          from_node : Olds \cup {Nobody}, to_node : Requirements \cup {Nobody}]

TypeOK ==
  /\ AlignTypeOK
  /\ core \in [Requirements -> Cores]
  /\ phase \in Phases
  /\ work \subseteq Olds
  /\ claimedOld \subseteq Olds /\ claimedNew \subseteq News
  /\ lineage \in [News -> Requirements \cup {Nobody}]
  /\ members \in [Requirements -> SUBSET News]
  /\ edges \subseteq Edges

Init ==
  /\ core \in [Requirements -> Cores]
  /\ AlignInit
  \* Distinct actions have distinct cores.
  /\ \A c \in distinct : core[c[1]] # core[c[2]]
  /\ phase = "align"
  /\ work = {}
  /\ claimedOld = {} /\ claimedNew = {}
  /\ lineage = [n \in News |-> Nobody]
  /\ members = [r \in Requirements |-> {}]
  /\ edges = {}

-----------------------------------------------------------------------------
RemovedEdge(o) == Edge("REMOVED", o, Nobody, o, Nobody)

AddedEdge(n) == Edge("ADDED", Nobody, n, Nobody, n)

\* align_requirements runs to its end, and the splits are known.
Align == phase = "align" /\ AlignNext /\ UNCHANGED buildVars

BeginSplits ==
  /\ phase = "align" /\ todo = {}
  /\ phase' = "split"
  /\ work' = Splits(score, core, match)
  /\ UNCHANGED <<alignVars, core, claimedOld, claimedNew, lineage, members, edges>>

\* The requirements of placed enter the nodes node gives them.
Place(placed, node) ==
  /\ lineage' = [n \in News |-> IF n \in placed THEN node[n] ELSE lineage[n]]
  /\ members' = [r \in Requirements |->
                   members[r] \cup {n \in placed : node[n] = r}]

\* Faulty variant: a child an earlier split claimed is taken again.
KidsAgain(o) == Children(score, match, o)

\* The children of a split; one an earlier split claimed is passed over.
Kids(o) == Children(score, match, o) \ claimedNew

Split(o) ==
  LET kids == Kids(o)
      node == [n \in kids |-> IF n = FirstChild(score, match, o) THEN o ELSE n]
  IN  /\ phase = "split"
      /\ o \in work /\ \A x \in work : o <= x
      /\ work' = work \ {o}
      /\ claimedOld' = claimedOld \cup {o}
      /\ claimedNew' = claimedNew \cup kids
      /\ Place(kids, node)
      /\ edges' = edges \cup {Edge("SPLIT_INTO", o, n, o, node[n]) : n \in kids}
      /\ UNCHANGED <<alignVars, core, phase>>

\* Faulty variant: a child of a split is merged as well.
MergedNewsAgain == Merges(score, core, match)

\* The merges of new requirements that no split claimed: they do not interact.
MergedNews == Merges(score, core, match) \ claimedNew

Merge ==
  LET placed == MergedNews
      node == [n \in placed |-> FirstParent(score, n)]
  IN  /\ phase = "split" /\ work = {}
      /\ phase' = "primary"
      /\ claimedOld' = claimedOld \cup UNION {Parents(score, n) : n \in placed}
      /\ claimedNew' = claimedNew \cup placed
      /\ Place(placed, node)
      /\ edges' = edges \cup UNION
           {{Edge("MERGED_FROM", o, n, o, node[n]) : o \in Parents(score, n)} :
              n \in placed}
      /\ UNCHANGED <<alignVars, core, work>>

\* The one-to-one pairs neither of whose sides is claimed continue; unmatched
\* requirements are removed or added.
Continue ==
  LET splits == Splits(score, core, match)
      merges == Merges(score, core, match)
      kept == {c \in match : /\ c[1] \notin splits \cup claimedOld
                             /\ c[2] \notin merges \cup claimedNew}
      removed == UnmatchedOlds \ (splits \cup claimedOld)
      added == UnmatchedNews \ (merges \cup claimedNew)
      placed == {c[2] : c \in kept} \cup added
      node == [n \in placed |-> IF n \in added THEN n
                                ELSE (CHOOSE c \in kept : c[2] = n)[1]]
  IN  /\ phase = "primary"
      /\ phase' = "leftover"
      /\ claimedOld' = claimedOld \cup {c[1] : c \in kept} \cup removed
      /\ claimedNew' = claimedNew \cup placed
      /\ Place(placed, node)
      /\ edges' = edges
           \cup {Edge("CONTINUES", c[1], c[2], c[1], c[1]) : c \in kept}
           \cup {RemovedEdge(o) : o \in removed}
           \cup {AddedEdge(n) : n \in added}
      /\ UNCHANGED <<alignVars, core, work>>

\* The first old requirement of the document with the best score.
BestOld(n) ==
  CHOOSE o \in Olds : \A x \in Olds :
    score[<<o, n>>] > score[<<x, n>>] \/ (score[<<o, n>>] = score[<<x, n>>] /\ o <= x)

\* Leftover olds are removed; leftover news join the node of their best old,
\* claimed or not, or are added.
Leftovers ==
  LET gone == Olds \ claimedOld
      rest == News \ claimedNew
      soft == {n \in rest : score[<<BestOld(n), n>>] >= Threshold}
      node == [n \in rest |-> IF n \in soft THEN BestOld(n) ELSE n]
  IN  /\ phase = "leftover"
      /\ phase' = "validate"
      /\ Place(rest, node)
      /\ edges' = edges
           \cup {RemovedEdge(o) : o \in gone}
           \cup {Edge("SOFT", BestOld(n), n, BestOld(n), BestOld(n)) : n \in soft}
           \cup {AddedEdge(n) : n \in rest \ soft}
      /\ UNCHANGED <<alignVars, core, work, claimedOld, claimedNew>>

\* _validate_mapping and _validate_graph_evidence, the checks that concern the
\* placement: every requirement in one node, at most one instance per version,
\* every edge at the nodes of its requirements.
EveryNewPlaced ==
  \A n \in News : \E r \in Requirements :
    lineage[n] = r /\ \A x \in Requirements : n \in members[x] <=> x = r
OneInstance == \A r \in Requirements : \A m, n \in members[r] : m = n
EdgesTrace ==
  \A e \in edges :
    /\ e.from_node = e.from
    /\ IF e.to = Nobody THEN e.to_node = Nobody ELSE e.to_node = lineage[e.to]

Validate ==
  /\ phase = "validate"
  /\ phase' = IF EveryNewPlaced /\ OneInstance /\ EdgesTrace THEN "built" ELSE "raised"
  /\ UNCHANGED <<alignVars, core, work, claimedOld, claimedNew, lineage, members, edges>>

Next ==
  \/ Align \/ BeginSplits \/ Merge \/ Continue \/ Leftovers \/ Validate
  \/ \E o \in Olds : Split(o)

Spec == Init /\ [][Next]_vars

-----------------------------------------------------------------------------
(* Correctness.                                                            *)

Placed == phase \in {"validate", "built", "raised"}

\* Four loops place requirements, each passing over what an earlier one
\* claimed: when they are done every new requirement is in exactly one node,
\* the one next_lineage names, and every edge joins the nodes of its two
\* requirements.  These checks of the final validation never fail.
PlacementIsSound == Placed => EveryNewPlaced /\ EdgesTrace

\* How a new requirement came to be is told once: by one edge, or by the merge
\* edges of two or more parents.
NewExplainedOnce ==
  Placed =>
    \A n \in News :
      LET into == {e \in edges : e.to = n}
      IN  \/ \E e \in into : into = {e} /\ e.relation # "MERGED_FROM"
          \/ /\ \A e \in into : e.relation = "MERGED_FROM"
             /\ \E e, f \in into : e.from # f.from

\* A new requirement inherits the identity of an old one only on the evidence
\* of an edge between the two and of a score of at least 0.60.
IdentityHasEvidence ==
  Placed =>
    \A n \in News : lineage[n] \in Olds =>
      /\ score[<<lineage[n], n>>] >= SplitSecondary
      /\ \E e \in edges : e.from = lineage[n] /\ e.to = n

\* Splits, merges and soft links elsewhere never touch a pair that is similar
\* to nothing but itself.
Isolated(o, n) ==
  \A c \in Candidates \ {<<o, n>>} :
    c[1] = o \/ c[2] = n => score[c] < SplitSecondary
IsolatedPairsContinue ==
  Placed =>
    \A c \in Candidates :
      /\ Isolated(c[1], c[2]) /\ score[c] >= Threshold /\ ~Guarded(score, distinct, c)
      => lineage[c[2]] = c[1] /\ Edge("CONTINUES", c[1], c[2], c[1], c[1]) \in edges

\* lineage/builder.py, the validation: "lineage instances must contain at most
\* one ordered item per version".
OneInstancePerVersion == Placed => OneInstance

\* lineage/builder.py: leftover olds are removed as "Unlinked old requirement
\* after multi-align", so that no old requirement is without an edge.
EveryOldAccountedFor == Placed => \A o \in Olds : \E e \in edges : e.from = o
=============================================================================
