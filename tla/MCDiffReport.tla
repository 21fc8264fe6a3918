---------------------------- MODULE MCDiffReport ----------------------------
(* Two universes.  In the one others interfere: sources of up to two         *)
(* requirements, among them one that repeats a requirement and one no        *)
(* adapter accepts.  In the other nobody does, and the two sources hold one  *)
(* requirement each, of any kind.                                            *)
EXTENDS DiffReport, TLC

CONSTANTS po, pn, alt, link

Requirement(m, w, f, act, c, e, sec) ==
  [modality |-> m, words |-> w, form |-> f, actor |-> "x", action |-> act,
   condition |-> c, exception |-> e, section |-> sec]

Send == Requirement("MUST", {"a", "b", "c"}, 1, {"a", "b"}, Absent, Absent, 1)
Keep == Requirement("SHOULD", {"d", "e"}, 1, {"d"}, Absent, Absent, 1)
Shown == << <<Send, Keep>>,
            <<[Keep EXCEPT !.modality = "MUST"], [Send EXCEPT !.exception = "e1"]>>,
            <<Send, [Send EXCEPT !.form = 2]>>,
            <<>> >>
MCReplacements == 1..4

\* Words and actions that overlap by a third, by a half, wholly and not at all;
\* a kind is numbered by its digits.
Digit(k, place, values) == values[1 + ((k \div place) % Len(values))]
Kind(k) ==
  Requirement(Digit(k, 1, <<"MUST", "MUST_NOT", "SHOULD", "SHOULD_NOT", "MAY">>),
              Digit(k, 5, <<{"a", "b", "c"}, {"a", "b", "d", "e"}>>),
              Digit(k, 10, <<1, 2>>),
              Digit(k, 20, <<{}, {"a", "b"}, {"b", "c"}>>),
              Digit(k, 60, <<Absent, "c1", "c2">>),
              Digit(k, 180, <<Absent, "e1", "e2">>),
              Digit(k, 540, <<1, 2>>))
Plain(r) ==
  /\ r.form = 1 /\ r.section = 1 /\ r.words = {"a", "b", "c"}
  /\ r.condition # "c2" /\ r.exception # "e2" /\ r.action # {"b", "c"}

MCContents == 1..(4 + 1080)
MCExtracted == [c \in MCContents |-> IF c <= 4 THEN Shown[c] ELSE <<Kind(c - 5)>>]
MCFamily == [c \in MCContents |-> IF c = 4 THEN Absent ELSE "html"]
Plains == {c \in MCContents \ MCReplacements : Plain(MCExtracted[c][1])}
MCPaths == {po, pn, alt, link}
MCCanonical == [p \in MCPaths |-> IF p = link THEN po ELSE p]
MCGivenPath == [s \in {"old", "new"} |-> IF s = "old" THEN link ELSE pn]
MCOverrides == {po, alt}
MCRank == [x \in Olds \cup News |-> 100 - x]
MCScores == 0..10000

Calm ==
  /\ changes = MaxChanges
  /\ adapter = [s \in Sides |-> Absent]
  /\ sidecar = [p \in Paths |-> Absent]
  /\ \E c \in Plains, d \in MCContents \ MCReplacements :
       body = (po :> c @@ pn :> d @@ alt :> Absent @@ link :> Absent)
Busy ==
  /\ changes = 0
  /\ \E f \in {Absent, "html"} : adapter = [s \in Sides |-> f]
  /\ \E c \in {1, 3} :
       body = (po :> c @@ pn :> 2 @@ alt :> 1 @@ link :> Absent)
  /\ sidecar = [p \in Paths |-> IF p = po /\ adapter["old"] = Absent THEN "m" ELSE Absent]
MCInit == (Calm \/ Busy) /\ Start

\* Where nobody interferes only the diff is of interest.
Focus == job = "diff" \/ made.documents["old"].content \in Replacements
=============================================================================
