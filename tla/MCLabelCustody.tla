--------------------------- MODULE MCLabelCustody ---------------------------
EXTENDS LabelCustody

CONSTANTS ann, ben, cat, dan, eve, fay, zoe
MCPeople == {ann, ben, cat, dan, eve, fay, zoe}
TeamOf(x, y, w) == [labelers |-> {x, y}, adjudicator |-> w]
\* Two teams apart, one that shares a person with the first, one with an implementer.
MCTeams == {TeamOf(ann, ben, cat), TeamOf(dan, eve, fay), TeamOf(dan, eve, cat), TeamOf(dan, eve, zoe)}
\* Nothing tells the labelers of a team apart.
MCSymmetry == {[p \in {ann, ben, dan, eve} |-> p],
               [p \in {ann, ben, dan, eve} |-> CASE p = ann -> ben [] p = ben -> ann [] OTHER -> p],
               [p \in {ann, ben, dan, eve} |-> CASE p = dan -> eve [] p = eve -> dan [] OTHER -> p],
               [p \in {ann, ben, dan, eve} |-> CASE p = dan -> eve [] p = eve -> dan [] p = ann -> ben [] p = ben -> ann]}
=============================================================================
