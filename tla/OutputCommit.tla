---------------------------- MODULE OutputCommit ----------------------------
(***************************************************************************)
(* What a caller of io_safety.write_transaction may rely on, with none of  *)
(* its mechanism: a set of outputs is replaced as a whole, is refused or   *)
(* left as it was, or - when the process is killed, is interrupted, or the *)
(* rollback itself fails - is torn.  Even a torn set can be repaired by    *)
(* hand: unless every pre-existing output is already new, the former bytes *)
(* of every pre-existing output are still on disk, under their own name or *)
(* under a backup name.                                                    *)
(***************************************************************************)
CONSTANT Files     \* the outputs of one transaction

VARIABLES
  found,     \* what each output path held when the call was made
  result,    \* "running", "committed", "unchanged" or "torn"
  out,       \* what each output path holds, as the caller may observe it
  kept       \* pre-existing outputs whose former bytes survive in a backup

vars == <<found, result, out, kept>>

Contents == {"none", "old", "new", "foreign"}
Former == {f \in Files : found[f] = "old"}

Init ==
  /\ found \in [Files -> Contents \ {"new"}]
  /\ result = "running"
  /\ out = found
  /\ kept = {}

\* Every output is replaced; a backup that could not be deleted may remain.
Commit ==
  /\ result = "running"
  /\ result' = "committed"
  /\ out' = [f \in Files |-> "new"]
  /\ kept' \in SUBSET Former
  /\ UNCHANGED found

\* The call raised and the outputs are exactly what they were.
Abort ==
  /\ result = "running"
  /\ result' = "unchanged"
  /\ UNCHANGED <<found, out, kept>>

\* A whole new set, or no former byte lost.
Repairable(o, k) ==
  \/ \A f \in Former : o[f] = "new"
  \/ \A f \in Former : o[f] = "old" \/ f \in k

\* The call did not run to its end, or its rollback failed.
Tear ==
  /\ result = "running"
  /\ result' = "torn"
  /\ out' \in [Files -> Contents]
  /\ kept' \in SUBSET Former
  /\ Repairable(out', kept')
  /\ UNCHANGED found

Next == Commit \/ Abort \/ Tear

Spec == Init /\ [][Next]_vars
=============================================================================
