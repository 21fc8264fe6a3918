---------------------------- MODULE MCAcquisition ----------------------------
(* Two interchangeable processes may call.                                  *)
EXTENDS Acquisition, TLC

CONSTANTS p, q
MCCallers == Permutations({p, q})
=============================================================================
