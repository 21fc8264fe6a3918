---------------------------- MODULE MCEvidenceRoot ----------------------------
(* Others may change any file of the root.                                     *)
EXTENDS EvidenceRoot

MCTouchable == Refs
=============================================================================
