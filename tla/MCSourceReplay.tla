---------------------------- MODULE MCSourceReplay ----------------------------
(* Two documents over three files; a good graph, a graph that no replay of    *)
(* its documents yields, and one of documents with equal contents.            *)
EXTENDS SourceReplay, TLC

CONSTANTS f1, f2, f3
MCFiles == {f1, f2, f3}
MCSwaps == Permutations(MCFiles)
Good == [binds |-> <<"x", "y">>, agreed |-> TRUE, replayable |-> TRUE]
Forged == [Good EXCEPT !.replayable = FALSE]
Twins == [Good EXCEPT !.binds = <<"x", "x">>]
Old == [Good EXCEPT !.agreed = FALSE]
MCGraphs == {Good, Forged, Twins, Old}
=============================================================================
