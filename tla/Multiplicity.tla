---------------------------- MODULE Multiplicity ----------------------------
(***************************************************************************)
(* align.multi.align_with_multiplicity: which old requirements split into  *)
(* several new ones and which new requirements merge several old ones,     *)
(* once the one-to-one alignment is known.  Pure functions of the scores   *)
(* s, of the action cores cs and of the matched pairs m.                   *)
(***************************************************************************)
EXTENDS Alignment

\* In units of 0.0001.
SplitSecondary == 6000
MergeSecondary == 6000
Epsilon == 200

DifferentCores(cs, S) == \E x, y \in S : cs[x] # cs[y]

\* The new requirement the one-to-one alignment gave to o.
Matched(m, o) == \E c \in m : c[1] = o
Primary(m, o) == CHOOSE n \in News : <<o, n>> \in m
MatchedNews(m) == {c[2] : c \in m}

-----------------------------------------------------------------------------
(* Splits.                                                                 *)

\* Faulty variant: no minimal score.
ExclusiveNewsAnyScore(s, o) ==
  {n \in News : \A oo \in Olds : s[<<o, n>>] >= s[<<oo, n>>] - Epsilon}

\* New requirements for which o is as good a partner as any old one.
ExclusiveNews(s, o) ==
  {n \in News : /\ s[<<o, n>>] >= SplitSecondary
                /\ \A oo \in Olds : s[<<o, n>>] >= s[<<oo, n>>] - Epsilon}

\* A strong match whose runner-up is far behind is no split.
StrongPrimary(s, m, o) ==
  LET p == Primary(m, o)
  IN  /\ p \in ExclusiveNews(s, o) /\ s[<<o, p>>] >= 8500
      /\ \A n \in ExclusiveNews(s, o) \ {p} : s[<<o, p>>] - s[<<o, n>>] > 1200

Extras(s, m, o) == ExclusiveNews(s, o) \ MatchedNews(m)

Splits(s, cs, m) ==
  {o \in Olds :
     /\ DifferentCores(cs, ExclusiveNews(s, o))
     /\ IF Matched(m, o)
        THEN ~StrongPrimary(s, m, o) /\ Extras(s, m, o) # {}
        ELSE \E x, y \in Extras(s, m, o) : x # y}

\* The children of a split; the match, which comes first, even if it is not
\* exclusive.
Children(s, m, o) ==
  Extras(s, m, o) \cup (IF Matched(m, o) THEN {Primary(m, o)} ELSE {})
FirstChild(s, m, o) ==
  IF Matched(m, o)
  THEN Primary(m, o)
  ELSE CHOOSE n \in Extras(s, m, o) :
         \A x \in Extras(s, m, o) \ {n} : Precedes(s, <<o, n>>, <<o, x>>)

-----------------------------------------------------------------------------
(* Merges.                                                                 *)

\* Faulty variant: no minimal score.
ParentsAnyScore(s, n) ==
  {o \in Olds : \A nn \in News : s[<<o, n>>] >= s[<<o, nn>>] - Epsilon}

\* Old requirements for which n is as good a successor as any new one.
Parents(s, n) ==
  {o \in Olds : /\ s[<<o, n>>] >= MergeSecondary
                /\ \A nn \in News : s[<<o, n>>] >= s[<<o, nn>>] - Epsilon}

FirstParent(s, n) ==
  CHOOSE o \in Parents(s, n) :
    \A x \in Parents(s, n) \ {o} : Precedes(s, <<o, n>>, <<x, n>>)

Merges(s, cs, m) ==
  {n \in News :
     /\ DifferentCores(cs, Parents(s, n))
     /\ \/ n \notin MatchedNews(m)
        \/ \E o \in Parents(s, n) \ {FirstParent(s, n)} :
             s[<<FirstParent(s, n), n>>] - s[<<o, n>>] <= 1500}
=============================================================================
