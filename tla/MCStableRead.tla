----------------------------- MODULE MCStableRead -----------------------------
(* Two interchangeable files; the byte values are 0 and 1.                   *)
EXTENDS StableRead, TLC

CONSTANTS f1, f2
MCFiles == {f1, f2}
MCSwaps == Permutations(MCFiles)
MCFree == {NoPin}
MCPinned == {NoPin, <<0, 1>>}
=============================================================================
