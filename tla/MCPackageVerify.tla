--------------------------- MODULE MCPackageVerify ---------------------------
(* Two builders of one run ID.  Of the directories without a manifest one    *)
(* stands for all: the verifier ends at its first step.  What else the       *)
(* builders left does not matter to it.  A directory is changed only in      *)
(* calls in which nothing else is out of the ordinary, at most once during   *)
(* the call.                                                                 *)
EXTENDS PackageVerify, TLC

CONSTANTS a, b
MCBuilders == {a, b}
MCSwap == Permutations(MCBuilders)
MCTakes ==
  subject = Gone /\ subject' # Gone =>
    /\ \A x \in Builders : staging[x] \in {Gone, subject'}
    /\ "manifest" \in subject'.files \/ subject'.files = {"build_failed"}
    /\ subject' = package => failure = Nobody
MCIrregular ==
  /\ MCTakes
  /\ touches' # touches =>
       /\ \A x \in Builders : result[x] \in {"built", "rejected"}
       /\ touches = 0 \/ touched = "waiting"
  /\ edits' # edits => touches = 0
=============================================================================
