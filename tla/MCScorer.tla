------------------------------ MODULE MCScorer ------------------------------
(* A small policy with the shapes of the frozen one: extraction gated for    *)
(* each family, family detection and two slots of one change task for all.   *)
EXTENDS Scorer, TLC

MCSource ==
  [s1 |-> [family |-> "RFC", actual |-> TRUE],
   s2 |-> [family |-> "WHATWG", actual |-> FALSE],
   s3 |-> [family |-> "RFC", actual |-> TRUE]]
MCDeclared == {"s1", "s2"}

MCOntology ==
  [M1_REQUIREMENT_EXTRACTION |-> [requirement |-> {"NONE", "REQUIREMENT"}],
   M1_FAMILY_DETECTION |-> [family |-> {"NONE", "RFC", "WHATWG"}],
   M2_CHANGE |-> [form |-> {"NONE", "MOVE_ONLY"}, actor |-> {"NONE", "ACTOR_CHANGED"}]]

Thresholds(ratio, f1) == [precision |-> ratio, recall |-> ratio, f1 |-> f1]
Extracting(family, support, ratio, f1) ==
  [family |-> family, support |-> support, distractors |-> 0] @@ Thresholds(ratio, f1)
Detecting(class, support, ratio) == [class |-> class, support |-> support] @@ Thresholds(ratio, ratio)
Changing(class, support) == [class |-> class, support |-> support, real |-> 0]

MCPolicy ==
  [M1_REQUIREMENT_EXTRACTION |-> {Extracting("RFC", 1, 50, 60), Extracting("WHATWG", 0, 0, 0)},
   M1_FAMILY_DETECTION |-> {Detecting("RFC", 1, 100), Detecting("WHATWG", 0, 0)},
   M2_CHANGE |-> {Changing("MOVE_ONLY", 1), Changing("ACTOR_CHANGED", 2)}]
MCShared == [M2_CHANGE |-> Thresholds(50, 50)]

Key(n, task, slot, sources, located) ==
  [n |-> n, task |-> task, slot |-> slot, sources |-> sources, located |-> located]

Extraction(n, s) == Key(n, "M1_REQUIREMENT_EXTRACTION", "requirement", <<s>>, TRUE)
Change(n, slot) == Key(n, "M2_CHANGE", slot, <<"s1", "s2">>, TRUE)

Detection(n, s) == Key(n, "M1_FAMILY_DETECTION", "family", s, TRUE)
Strange == {[Extraction(1, "s2") EXCEPT !.located = FALSE], Extraction(1, "s3")}

MCKeySets ==
  {{Extraction(1, "s1"), Extraction(2, "s1"), Extraction(3, "s1"), Extraction(1, "s2")},
   {Extraction(1, "s1"), Change(1, "form"), Change(1, "actor"), Detection(1, <<"s1">>)},
   {Change(1, "actor"), Change(2, "actor"), Change(3, "actor")},
   {Detection(1, <<"s1">>), Detection(2, <<"s1">>), Detection(1, <<"s1", "s2">>)},
   {Extraction(1, "s1")} \cup Strange}
=============================================================================
