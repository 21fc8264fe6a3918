-------------------------- MODULE EvidenceRootProofs --------------------------
(***************************************************************************)
(* What a verified evidence root promises, for any number of changes by    *)
(* others to any of its files; and what is left of a header file of any    *)
(* length.                                                                 *)
(***************************************************************************)
EXTENDS EvidenceRoot, SequenceTheorems, WellFoundedInduction, TLAPS

-----------------------------------------------------------------------------
(* What the call does.                                                     *)

Groups == (SUBSET Refs) \ {{}}
Acts == [do : {"scan", "inventory", "sidecar", "sets", "content", "rescan",
               "look", "load", "manifest", "pin", "compare"},
         ref : Refs, compares : SUBSET Groups]
\* What is loaded without a digest of its own.
Loaded == {"curator_inventory", "header_report", "provenance", "license_inventory"}
\* What follows the manifest.
LaterActs ==
  {a \in Acts : /\ a.do \in {"look", "load", "pin", "compare"}
                /\ a.do = "load" => a.ref \in Loaded
                /\ a.do = "look" => a.compares = {}}

LEMMA GroupsAre ==
  /\ {} \in SUBSET Groups
  /\ \A q \in Refs : {{q}} \in SUBSET Groups
  /\ \A q, r, t \in Refs : {{q}, {r, t}} \in SUBSET Groups
  /\ \A q, r, t, u \in Refs : {{q, r}, {t, u}} \in SUBSET Groups
BY DEF Groups

LEMMA ActIn ==
  ASSUME NEW what \in {"look", "load", "pin", "compare"}, NEW r \in Contents,
         NEW c \in SUBSET Groups, what = "load" => r \in Loaded, what = "look" => c = {}
  PROVE  Act(what, r, c) \in LaterActs
BY DEF Act, LaterActs, Acts, Refs

LEMMA LoadIn ==
  ASSUME NEW r \in Loaded, NEW c \in SUBSET Groups
  PROVE  Load(r, c) \in Seq(LaterActs)
<1>1. r \in Contents
  BY DEF Loaded, Contents, ContentRefs, ToSet
<1>2. Act("look", r, {}) \in LaterActs /\ Act("load", r, c) \in LaterActs
  BY <1>1, ActIn
<1> QED BY <1>2 DEF Load

LEMMA PinIn ==
  ASSUME NEW r \in Contents, NEW c \in SUBSET Groups
  PROVE  Pin(r, c) \in Seq(LaterActs)
<1>2. Act("look", r, {}) \in LaterActs /\ Act("pin", r, c) \in LaterActs
  BY ActIn
<1> QED BY <1>2 DEF Pin

LEMMA ContentsAre ==
  Contents = {"readme", "headers", "provenance", "curator_licenses", "curator_report",
              "curator_inventory", "header_report", "license_inventory", "source_manifest"}
<1>1. DOMAIN ContentRefs = 1..9
  BY DEF ContentRefs
<1>2. \A r : r \in Contents <=> \E i \in 1..9 : r = ContentRefs[i]
  BY <1>1 DEF Contents, ToSet
<1> QED BY <1>2 DEF ContentRefs

\* The manifest comes first, and is loaded again at once against its digest.
IsDocuments(s) ==
  /\ s \in Seq(Acts) /\ Len(s) >= 3
  /\ s[1] = Act("look", "source_manifest", {}) /\ s[2] = Act("load", "source_manifest", {})
  /\ s[3] = Act("manifest", "source_manifest", {{"source_manifest"}})
  /\ \A i \in 4..Len(s) : s[i] \in LaterActs

LEMMA ManifestIs == IsDocuments(Manifest)
<1> DEFINE l == Act("look", "source_manifest", {})
           m == Act("load", "source_manifest", {})
           n == Act("manifest", "source_manifest", {{"source_manifest"}})
<1>1. l \in Acts /\ m \in Acts /\ n \in Acts
  <2>1. "source_manifest" \in Refs
    BY ContentsAre DEF Refs
  <2> QED BY <2>1, GroupsAre DEF Act, Acts
<1>2. Manifest = <<l, m>> \o <<n>>
  BY DEF Manifest, Load
<1> HIDE DEF l, m, n
<1>3. <<l, m>> \in Seq(Acts) /\ <<n>> \in Seq(Acts) /\ Len(<<l, m>>) = 2 /\ Len(<<n>>) = 1
  BY <1>1
<1>4. /\ Manifest \in Seq(Acts) /\ Len(Manifest) = 3
      /\ \A i \in 1..3 : Manifest[i] = IF i <= 2 THEN <<l, m>>[i] ELSE <<n>>[i - 2]
  BY <1>2, <1>3, ConcatProperties
<1>5. Manifest[1] = l /\ Manifest[2] = m /\ Manifest[3] = n
  BY <1>4
<1> QED BY <1>4, <1>5 DEF IsDocuments, l, m, n

LEMMA DocumentsGoOn ==
  ASSUME NEW s, IsDocuments(s), NEW t \in Seq(LaterActs)
  PROVE  IsDocuments(s \o t)
<1>1. s \in Seq(Acts) /\ Len(s) \in Nat /\ Len(s) >= 3
  BY DEF IsDocuments
<1>2. t \in Seq(Acts) /\ Len(t) \in Nat /\ \A i \in 1..Len(t) : t[i] \in LaterActs
  BY DEF LaterActs
<1>3. /\ s \o t \in Seq(Acts) /\ Len(s \o t) = Len(s) + Len(t)
      /\ \A i \in 1..Len(s) + Len(t) : (s \o t)[i] = IF i <= Len(s) THEN s[i] ELSE t[i - Len(s)]
  BY <1>1, <1>2, ConcatProperties
<1>4. \A i \in 1..3 : (s \o t)[i] = s[i]
  BY <1>1, <1>2, <1>3
<1>5. ASSUME NEW i \in 4..Len(s \o t)
      PROVE  (s \o t)[i] \in LaterActs
  <2>1. CASE i <= Len(s)
    BY <2>1, <1>1, <1>2, <1>3 DEF IsDocuments
  <2>2. CASE i > Len(s)
    <3>1. i - Len(s) \in 1..Len(t)
      BY <2>2, <1>1, <1>2, <1>3
    <3> QED BY <3>1, <2>2, <1>1, <1>2, <1>3
  <2> QED BY <2>1, <2>2, <1>1
<1> QED BY <1>1, <1>2, <1>3, <1>4, <1>5 DEF IsDocuments

LEMMA OneAct ==
  ASSUME NEW r \in Contents, NEW c \in SUBSET Groups
  PROVE  <<Act("compare", r, c)>> \in Seq(LaterActs)
<1>1. Act("compare", r, c) \in LaterActs
  BY ActIn
<1> QED BY <1>1

\* Sequences of later acts go together.
LEMMA LaterTogether ==
  ASSUME NEW s \in Seq(LaterActs), NEW t \in Seq(LaterActs)
  PROVE  s \o t \in Seq(LaterActs)
BY ConcatProperties

LEMMA LaterPartsIn ==
  /\ CuratorInventory \in Seq(LaterActs) /\ HeaderReport \in Seq(LaterActs)
  /\ HeaderRecords \in Seq(LaterActs) /\ SourceCuration \in Seq(LaterActs)
  /\ MaterializationRules \in Seq(LaterActs) /\ SourceMappings \in Seq(LaterActs)
  /\ RepositoryBoundary \in Seq(LaterActs) /\ LicenseEntries \in Seq(LaterActs)
  /\ LicenseEvidence \in Seq(LaterActs)
<1> USE ContentsAre, GroupsAre
<1>0. Contents \subseteq Refs /\ Loaded \subseteq Contents
  BY DEF Refs, Loaded
<1>1. CuratorInventory \in Seq(LaterActs)
  BY <1>0, LoadIn DEF CuratorInventory, Loaded
<1>2. HeaderReport \in Seq(LaterActs)
  <2>1. Load("header_report", {}) \in Seq(LaterActs)
    BY LoadIn DEF Loaded
  <2>2. Pin("header_report", {{"header_report"}}) \in Seq(LaterActs)
    BY <1>0, PinIn
  <2> QED BY <2>1, <2>2, LaterTogether DEF HeaderReport
<1>3. HeaderRecords \in Seq(LaterActs)
  BY <1>0, PinIn DEF HeaderRecords
<1>4. SourceCuration \in Seq(LaterActs)
  <2>1. Load("provenance", {}) \in Seq(LaterActs)
    BY LoadIn DEF Loaded
  <2>2. /\ Pin("curator_inventory", {}) \in Seq(LaterActs)
        /\ Pin("curator_report", {}) \in Seq(LaterActs)
        /\ Pin("curator_licenses", {}) \in Seq(LaterActs)
    BY PinIn
  <2>3. Load("provenance", {}) \o Pin("curator_inventory", {}) \in Seq(LaterActs)
    BY <2>1, <2>2, LaterTogether
  <2>4. (Load("provenance", {}) \o Pin("curator_inventory", {})) \o Pin("curator_report", {})
          \in Seq(LaterActs)
    BY <2>3, <2>2, LaterTogether
  <2> QED BY <2>4, <2>2, LaterTogether DEF SourceCuration
<1>5. MaterializationRules \in Seq(LaterActs)
  BY <1>0, OneAct DEF MaterializationRules
<1>6. SourceMappings \in Seq(LaterActs)
  BY <1>0, OneAct DEF SourceMappings
<1>7. RepositoryBoundary \in Seq(LaterActs)
  <2>1. <<Act("compare", "provenance", {{"provenance"}})>> \in Seq(LaterActs)
    BY <1>0, OneAct
  <2>2. Pin("readme", {}) \in Seq(LaterActs)
    BY PinIn
  <2> QED BY <2>1, <2>2, LaterTogether DEF RepositoryBoundary
<1>8. LicenseEntries \in Seq(LaterActs)
  <2>1. Load("license_inventory", {{"license_inventory"}}) \in Seq(LaterActs)
    BY <1>0, LoadIn DEF Loaded
  <2>2. Pin("curator_licenses",
            {{"license_inventory", "curator_licenses"}, {"license_inventory", "source_manifest"}})
          \in Seq(LaterActs)
    BY <1>0, PinIn
  <2> QED BY <2>1, <2>2, LaterTogether DEF LicenseEntries
<1>9. LicenseEvidence \in Seq(LaterActs)
  BY <1>0, OneAct DEF LicenseEvidence
<1> QED BY <1>1, <1>2, <1>3, <1>4, <1>5, <1>6, <1>7, <1>8, <1>9

LEMMA DocumentsAre == IsDocuments(Documents)
<1> DEFINE d1 == Manifest \o CuratorInventory
           d2 == d1 \o HeaderReport
           d3 == d2 \o HeaderRecords
           d4 == d3 \o SourceCuration
           d5 == d4 \o MaterializationRules
           d6 == d5 \o SourceMappings
           d7 == d6 \o RepositoryBoundary
           d8 == d7 \o LicenseEntries
           d9 == d8 \o LicenseEvidence
<1>1. Documents = d9
  BY DEF Documents
<1>2. IsDocuments(d1)
  BY ManifestIs, LaterPartsIn, DocumentsGoOn
<1>3. IsDocuments(d2)
  <2> HIDE DEF d1
  <2> QED BY <1>2, LaterPartsIn, DocumentsGoOn
<1>4. IsDocuments(d3)
  <2> HIDE DEF d2
  <2> QED BY <1>3, LaterPartsIn, DocumentsGoOn
<1>5. IsDocuments(d4)
  <2> HIDE DEF d3
  <2> QED BY <1>4, LaterPartsIn, DocumentsGoOn
<1>6. IsDocuments(d5)
  <2> HIDE DEF d4
  <2> QED BY <1>5, LaterPartsIn, DocumentsGoOn
<1>7. IsDocuments(d6)
  <2> HIDE DEF d5
  <2> QED BY <1>6, LaterPartsIn, DocumentsGoOn
<1>8. IsDocuments(d7)
  <2> HIDE DEF d6
  <2> QED BY <1>7, LaterPartsIn, DocumentsGoOn
<1>9. IsDocuments(d8)
  <2> HIDE DEF d7
  <2> QED BY <1>8, LaterPartsIn, DocumentsGoOn
<1>10. IsDocuments(d9)
  <2> HIDE DEF d8
  <2> QED BY <1>9, LaterPartsIn, DocumentsGoOn
<1> QED BY <1>1, <1>10

LEMMA VerifyRootIs ==
  /\ VerifyRoot \in Seq(Acts) /\ Len(VerifyRoot) = 14
  /\ VerifyRoot[1] = Act("scan", "inventory", {})
  /\ VerifyRoot[2] = Act("inventory", "inventory", {})
  /\ VerifyRoot[3] = Act("sidecar", "sidecar", {})
  /\ VerifyRoot[4] = Act("sets", "inventory", {{"inventory"}})
  /\ \A i \in 5..13 : VerifyRoot[i] = Act("content", ContentRefs[i - 4], {})
  /\ VerifyRoot[14] = Act("rescan", "inventory", {})
<1> DEFINE a == Act("scan", "inventory", {})
           b == Act("inventory", "inventory", {})
           c == Act("sidecar", "sidecar", {})
           d == Act("sets", "inventory", {{"inventory"}})
           e == Act("rescan", "inventory", {})
           h == <<a, b, c, d>>
           m == [i \in DOMAIN ContentRefs |-> Act("content", ContentRefs[i], {})]
<1>1. a \in Acts /\ b \in Acts /\ c \in Acts /\ d \in Acts /\ e \in Acts
  BY GroupsAre, ContentsAre DEF Act, Acts, Refs
<1>2. DOMAIN ContentRefs = 1..9
  BY DEF ContentRefs
<1>3. \A i \in 1..9 : Act("content", ContentRefs[i], {}) \in Acts
  <2> TAKE i \in 1..9
  <2>1. ContentRefs[i] \in Refs
    BY <1>2 DEF Refs, Contents, ToSet
  <2> QED BY <2>1, GroupsAre DEF Act, Acts
<1>4. m \in Seq(Acts) /\ Len(m) = 9 /\ \A i \in 1..9 : m[i] = Act("content", ContentRefs[i], {})
  BY <1>2, <1>3
<1>5. VerifyRoot = (h \o m) \o <<e>>
  BY DEF VerifyRoot
<1> HIDE DEF m
<1>6. /\ h \in Seq(Acts) /\ Len(h) = 4
      /\ h[1] = a /\ h[2] = b /\ h[3] = c /\ h[4] = d
  <2> HIDE DEF a, b, c, d
  <2> QED BY <1>1
<1>7. <<e>> \in Seq(Acts) /\ Len(<<e>>) = 1 /\ <<e>>[1] = e
  <2> HIDE DEF e
  <2> QED BY <1>1
<1> HIDE DEF h
<1>8. /\ h \o m \in Seq(Acts) /\ Len(h \o m) = 13
      /\ \A i \in 1..13 : (h \o m)[i] = IF i <= 4 THEN h[i] ELSE m[i - 4]
  <2>1. /\ h \o m \in Seq(Acts) /\ Len(h \o m) = Len(h) + Len(m)
        /\ \A i \in 1..Len(h) + Len(m) :
             (h \o m)[i] = IF i <= Len(h) THEN h[i] ELSE m[i - Len(h)]
    <3> HIDE DEF a, b, c, d
    <3>1. h \in Seq(Acts) /\ m \in Seq(Acts)
      BY <1>4, <1>6
    <3> QED BY <3>1, ConcatProperties
  <2>2. Len(h) = 4 /\ Len(m) = 9 /\ Len(h) + Len(m) = 13
    BY <1>4, <1>6
  <2> QED BY <2>1, <2>2
<1> DEFINE hm == h \o m
<1> HIDE DEF hm
<1>9. /\ hm \in Seq(Acts) /\ Len(hm) = 13
      /\ \A i \in 1..13 : hm[i] = IF i <= 4 THEN h[i] ELSE m[i - 4]
  BY <1>8 DEF hm
<1>10. /\ hm \o <<e>> \in Seq(Acts) /\ Len(hm \o <<e>>) = 14
       /\ \A i \in 1..14 : (hm \o <<e>>)[i] = IF i <= 13 THEN hm[i] ELSE <<e>>[i - 13]
  <2> HIDE DEF e
  <2>1. /\ hm \o <<e>> \in Seq(Acts) /\ Len(hm \o <<e>>) = Len(hm) + Len(<<e>>)
        /\ \A i \in 1..Len(hm) + Len(<<e>>) :
             (hm \o <<e>>)[i] = IF i <= Len(hm) THEN hm[i] ELSE <<e>>[i - Len(hm)]
    BY <1>7, <1>9, ConcatProperties
  <2>2. Len(hm) = 13 /\ Len(<<e>>) = 1 /\ Len(hm) + Len(<<e>>) = 14
    BY <1>7, <1>9
  <2> QED BY <2>1, <2>2
<1>11. VerifyRoot = hm \o <<e>>
  BY <1>5 DEF hm
<1>12. VerifyRoot \in Seq(Acts) /\ Len(VerifyRoot) = 14
  BY <1>10, <1>11
<1>13. \A i \in 1..13 : VerifyRoot[i] = hm[i]
  BY <1>10, <1>11
<1>14. VerifyRoot[14] = e
  BY <1>7, <1>10, <1>11
<1>15. \A i \in 1..4 : VerifyRoot[i] = h[i]
  BY <1>9, <1>13
<1>16. \A i \in 5..13 : VerifyRoot[i] = m[i - 4] /\ i - 4 \in 1..9
  BY <1>9, <1>13
<1> QED BY <1>4, <1>6, <1>12, <1>14, <1>15, <1>16

\* The acts between the two verifications of the root.
M == Len(Documents)

LEMMA CallIs ==
  /\ M \in Nat /\ M >= 3
  /\ Call \in Seq(Acts) /\ Len(Call) = 28 + M
  /\ \A i \in 1..14 : Call[i] = VerifyRoot[i]
  /\ \A i \in 1..M : Call[14 + i] = Documents[i]
  /\ \A i \in 1..14 : Call[14 + M + i] = VerifyRoot[i]
<1>1. M \in Nat /\ M >= 3 /\ Documents \in Seq(Acts)
  BY DocumentsAre DEF IsDocuments, M
<1>2. VerifyRoot \in Seq(Acts) /\ Len(VerifyRoot) = 14
  BY VerifyRootIs
<1> DEFINE p == VerifyRoot \o Documents
<1>3. /\ p \in Seq(Acts) /\ Len(p) = 14 + M
      /\ \A i \in 1..14 + M : p[i] = IF i <= 14 THEN VerifyRoot[i] ELSE Documents[i - 14]
  <2>1. /\ VerifyRoot \o Documents \in Seq(Acts) /\ Len(VerifyRoot \o Documents) = Len(VerifyRoot) + Len(Documents)
        /\ \A i \in 1..Len(VerifyRoot) + Len(Documents) :
             (VerifyRoot \o Documents)[i] = IF i <= Len(VerifyRoot) THEN VerifyRoot[i] ELSE Documents[i - Len(VerifyRoot)]
    BY <1>1, <1>2, ConcatProperties
  <2>2. Len(VerifyRoot) = 14 /\ Len(Documents) = M
        /\ Len(VerifyRoot) + Len(Documents) = 14 + M
    BY <1>1, <1>2, <1>1 DEF M
  <2> QED BY <2>1, <2>2
<1>4. Call = p \o VerifyRoot
  BY DEF Call
<1> HIDE DEF p
<1>5. /\ Call \in Seq(Acts) /\ Len(Call) = 28 + M
      /\ \A i \in 1..28 + M :
           Call[i] = IF i <= 14 + M THEN p[i] ELSE VerifyRoot[i - (14 + M)]
  <2>1. /\ p \o VerifyRoot \in Seq(Acts) /\ Len(p \o VerifyRoot) = Len(p) + Len(VerifyRoot)
        /\ \A i \in 1..Len(p) + Len(VerifyRoot) :
             (p \o VerifyRoot)[i] = IF i <= Len(p) THEN p[i] ELSE VerifyRoot[i - Len(p)]
    BY <1>2, <1>3, ConcatProperties
  <2>2. Len(p) = 14 + M /\ Len(VerifyRoot) = 14 /\ Len(p) + Len(VerifyRoot) = 28 + M
    BY <1>1, <1>2, <1>3
  <2> QED BY <2>1, <2>2, <1>4
<1>6. \A i \in 1..14 : Call[i] = VerifyRoot[i]
  BY <1>1, <1>3, <1>5
<1>7. \A i \in 1..M : Call[14 + i] = Documents[i]
  BY <1>1, <1>3, <1>5
<1>8. ASSUME NEW i \in 1..14
      PROVE  Call[14 + M + i] = VerifyRoot[i]
  <2> DEFINE j == 14 + M + i
  <2>1. j \in 1..28 + M /\ ~(j <= 14 + M) /\ j - (14 + M) = i
    BY <1>1
  <2> HIDE DEF j
  <2>2. Call[j] = VerifyRoot[j - (14 + M)]
    BY <2>1, <1>5
  <2> QED BY <2>1, <2>2 DEF j
<1> QED BY <1>1, <1>5, <1>6, <1>7, <1>8

\* What is done where.
Readings == {"inventory", "sidecar", "content"}
Looks == {"look", "load", "manifest", "pin", "compare"}

LEMMA WhatIsDone ==
  /\ M \in Nat /\ M >= 3 /\ DOMAIN Call = 1..28 + M /\ Len(Call) = 28 + M
  /\ \A i \in DOMAIN Call :
       /\ Call[i] \in Acts
       /\ Call[i].do = "scan" <=> i = 1 \/ i = 15 + M
       /\ Call[i].do = "sets" <=> i = 4 \/ i = 18 + M
       /\ Call[i].do = "rescan" <=> i = 14 \/ i = 28 + M
       /\ Call[i].do \in Looks <=> i > 14 /\ i < 15 + M
       /\ Call[i].do = "manifest" <=> i = 17
       /\ Call[i].do = "load" => Call[i].ref \in Loaded \/ i = 16
       /\ i = 16 => Call[i].ref = "source_manifest"
       /\ Call[i].do \in Readings \cup {"scan", "rescan", "look"} => Call[i].compares = {}
<1>1. M \in Nat /\ M >= 3 /\ DOMAIN Call = 1..28 + M /\ Len(Call) = 28 + M
      /\ \A i \in DOMAIN Call : Call[i] \in Acts
  <2>1. M \in Nat /\ M >= 3 /\ Call \in Seq(Acts) /\ Len(Call) = 28 + M
    BY CallIs
  <2>2. \A s \in Seq(Acts) : DOMAIN s = 1..Len(s) /\ \A i \in DOMAIN s : s[i] \in Acts
    OBVIOUS
  <2> QED BY <2>1, <2>2
<1> DEFINE Root(i, a) ==
      /\ a.do = "scan" <=> i = 1
      /\ a.do = "sets" <=> i = 4
      /\ a.do = "rescan" <=> i = 14
      /\ a.do \notin Looks
      /\ a.do # "sets" => a.compares = {}
<1>2. \A i \in 1..14 : Root(i, VerifyRoot[i])
  <2> TAKE i \in 1..14
  <2>1. CASE i \in 5..13
    BY <2>1, VerifyRootIs DEF Act, Looks
  <2>2. CASE i = 1
    BY <2>2, VerifyRootIs DEF Act, Looks
  <2>3. CASE i = 2
    BY <2>3, VerifyRootIs DEF Act, Looks
  <2>4. CASE i = 3
    BY <2>4, VerifyRootIs DEF Act, Looks
  <2>5. CASE i = 4
    BY <2>5, VerifyRootIs DEF Act, Looks
  <2>6. CASE i = 14
    BY <2>6, VerifyRootIs DEF Act, Looks
  <2> QED BY <2>1, <2>2, <2>3, <2>4, <2>5, <2>6
<1> DEFINE Later(i, a) ==
      /\ a.do \in Looks
      /\ a.do = "manifest" <=> i = 3
      /\ a.do = "load" => a.ref \in Loaded \/ i = 2
      /\ i = 2 => a.ref = "source_manifest"
      /\ a.do = "look" => a.compares = {}
<1>3. \A i \in 1..M : Later(i, Documents[i])
  <2> TAKE i \in 1..M
  <2>1. CASE i = 1
    BY <2>1, DocumentsAre DEF IsDocuments, Act, Looks
  <2>2. CASE i = 2
    BY <2>2, DocumentsAre DEF IsDocuments, Act, Looks
  <2>3. CASE i = 3
    BY <2>3, DocumentsAre DEF IsDocuments, Act, Looks
  <2>4. CASE i > 3
    <3>1. Documents[i] \in LaterActs
      BY <2>4, DocumentsAre, <1>1 DEF IsDocuments, M
    <3> QED BY <3>1, <2>4 DEF LaterActs, Looks
  <2> QED BY <2>1, <2>2, <2>3, <2>4, <1>1
<1> HIDE DEF Root, Later
<1>4. ASSUME NEW i \in DOMAIN Call
      PROVE  \/ i \in 1..14 /\ Root(i, Call[i])
             \/ i - 14 \in 1..M /\ Later(i - 14, Call[i])
             \/ i - (14 + M) \in 1..14 /\ Root(i - (14 + M), Call[i])
  <2>1. CASE i <= 14
    <3>1. i \in 1..14
      BY <2>1, <1>1
    <3> QED BY <3>1, <1>2, CallIs
  <2>2. CASE i > 14 /\ i <= 14 + M
    <3>1. i - 14 \in 1..M /\ 14 + (i - 14) = i
      BY <2>2, <1>1
    <3>2. Call[14 + (i - 14)] = Documents[i - 14]
      BY <3>1, CallIs
    <3> QED BY <3>1, <3>2, <1>3
  <2>3. CASE i > 14 + M
    <3>1. i - (14 + M) \in 1..14 /\ 14 + M + (i - (14 + M)) = i
      BY <2>3, <1>1
    <3>2. Call[14 + M + (i - (14 + M))] = VerifyRoot[i - (14 + M)]
      BY <3>1, CallIs
    <3> QED BY <3>1, <3>2, <1>2
  <2> QED BY <2>1, <2>2, <2>3, <1>1
<1>5. ASSUME NEW i \in DOMAIN Call
      PROVE  /\ Call[i].do = "scan" <=> i = 1 \/ i = 15 + M
             /\ Call[i].do = "sets" <=> i = 4 \/ i = 18 + M
             /\ Call[i].do = "rescan" <=> i = 14 \/ i = 28 + M
             /\ Call[i].do \in Looks <=> i > 14 /\ i < 15 + M
             /\ Call[i].do = "manifest" <=> i = 17
             /\ Call[i].do = "load" => Call[i].ref \in Loaded \/ i = 16
             /\ i = 16 => Call[i].ref = "source_manifest"
             /\ Call[i].do \in Readings \cup {"scan", "rescan", "look"} => Call[i].compares = {}
  <2>0. i \in Int /\ M \in Nat /\ M >= 3
    BY <1>1
  <2>1. CASE i \in 1..14 /\ Root(i, Call[i])
    BY <2>0, <2>1 DEF Root, Looks, Readings
  <2>2. CASE i - 14 \in 1..M /\ Later(i - 14, Call[i])
    BY <2>0, <2>2 DEF Later, Looks, Readings
  <2>3. CASE i - (14 + M) \in 1..14 /\ Root(i - (14 + M), Call[i])
    BY <2>0, <2>3 DEF Root, Looks, Readings
  <2> QED BY <1>4, <2>1, <2>2, <2>3
<1> QED BY <1>1, <1>5

\* The first verification reads every file.
LEMMA EveryFileIsRead ==
  \A r \in Refs : \E i \in 2..13 : Call[i].do \in Readings /\ Call[i].ref = r
<1> TAKE r \in Refs
<1>1. CASE r = "inventory"
  <2>1. Call[2] = Act("inventory", "inventory", {})
    BY CallIs, VerifyRootIs
  <2> QED BY <1>1, <2>1 DEF Act, Readings
<1>2. CASE r = "sidecar"
  <2>1. Call[3] = Act("sidecar", "sidecar", {})
    BY CallIs, VerifyRootIs
  <2> QED BY <1>2, <2>1 DEF Act, Readings
<1>3. CASE r \in Contents
  <2>1. PICK j \in 1..9 : r = ContentRefs[j]
    <3>1. DOMAIN ContentRefs = 1..9
      BY DEF ContentRefs
    <3> QED BY <1>3, <3>1 DEF Contents, ToSet
  <2>2. j + 4 \in 5..13 /\ j + 4 \in 1..14 /\ (j + 4) - 4 = j /\ j + 4 \in 2..13
    OBVIOUS
  <2>3. Call[j + 4] = Act("content", ContentRefs[j], {})
    BY <2>2, CallIs, VerifyRootIs
  <2> QED BY <2>1, <2>2, <2>3 DEF Act, Readings
<1> QED BY <1>1, <1>2, <1>3 DEF Refs

-----------------------------------------------------------------------------
(* The invariant.                                                          *)

\* What a file can have been until now, and the root in a scan.
SoFar == [good : BOOLEAN, mark : 0..changes]
Roots == [marks : [Refs -> 0..changes \cup {Missing.mark}],
          times : [Directories -> 0..changes], extras : SUBSET Places]

Typed ==
  /\ entry \in [Refs -> SoFar \cup {Missing}]
  /\ aside \in [Refs -> SoFar \cup {Missing, Nothing}]
  /\ times \in [Directories -> 0..changes] /\ extras \in SUBSET Places
  /\ flaw \in Comparisons \cup {{}}
  /\ at \in 0..Len(Call) + 1
  /\ seen \in Roots /\ first \in Roots
  /\ used \subseteq Refs /\ covert \subseteq Refs \cup {"extra"}
  /\ result \in {"none", "refused", "verified"}
  /\ changes \in 0..MaxChanges /\ changed \in BOOLEAN

\* How far the call is, and what it has compared by then.
Progress ==
  /\ at = 0 => changes = 0 /\ covert = {} /\ \A r \in Refs : aside[r] = Nothing
  /\ at <= 1 => ~changed
  /\ result = "none" => at <= Len(Call)
  /\ result = "refused" => at = Len(Call) + 1
  /\ result = "verified" => at = Len(Call) + 1 /\ Scan = first
  /\ result # "refused" /\ at >= 1 => staged = FrozenHeader
  /\ result # "refused" => \A i \in DOMAIN Call : i < at => flaw \notin Call[i].compares
  /\ at <= 14 => used = {}
  /\ 1 < at /\ at <= 14 => seen = first
  /\ used \subseteq Loaded \cup {"source_manifest"}
  /\ result # "refused" /\ "source_manifest" \in used => at = 17

\* A file in its place, or aside, that has the mark the first scan found has the content
\* of the inventory.
Anchored(r) ==
  /\ first.marks[r] <= changes
  /\ entry[r].mark = first.marks[r] => entry[r].good
  /\ aside[r].mark = first.marks[r] => aside[r].good
\* Two contents of one file differ in their marks.
MarksTell ==
  \A r \in Refs \ covert : aside[r].mark = entry[r].mark => aside[r] = entry[r]
ReadIsAnchored ==
  \A i \in 2..13 :
    i < at /\ Call[i].do \in Readings /\ Call[i].ref \notin covert => Anchored(Call[i].ref)
\* A change after the first scan can be seen.
Later ==
  \/ \E d \in Directories : times[d] > first.times[d]
  \/ \E r \in Refs : entry[r].mark > first.marks[r]
  \/ extras # {}
ChangesShow ==
  at > 1 /\ covert = {} /\ changed /\ (\A r \in Refs : first.marks[r] # Missing.mark) => Later
\* A document that was loaded with another content can be told from what the first scan found.
Away(r) ==
  \/ entry[r].mark # first.marks[r]
  \/ /\ DirectoryOf(r) \in Directories
     /\ times[DirectoryOf(r)] > first.times[DirectoryOf(r)]
UsedIsAway == \A r \in used \ covert : Away(r)
Evidence ==
  result # "refused" =>
    /\ MarksTell /\ ReadIsAnchored /\ ChangesShow /\ UsedIsAway
    /\ at > 4 => Exact(first)

\* A root that is left alone stays as the first scan found it.
LeftAlone ==
  changes = 0 =>
    /\ at > 1 /\ result = "none" => first = Scan /\ seen = Scan
    /\ \A r \in used : ~entry[r].good
    /\ RefusedWithCause

Inv == Typed /\ Progress /\ Evidence /\ LeftAlone

-----------------------------------------------------------------------------
(* What every act of the verification does, and what every change does.    *)

\* What an act leaves behind.
ActDone ==
  /\ at \in DOMAIN Call /\ Unchanged
  /\ \/ result' = "refused" /\ at' = Len(Call) + 1
     \/ /\ result' = (IF at = Len(Call) THEN "verified" ELSE result) /\ at' = at + 1
        /\ flaw \notin Call[at].compares
        /\ at = Len(Call) => Scan = first
        /\ Call[at].do \in Readings => SameAsScanned(Call[at].ref) /\ entry[Call[at].ref].good
        /\ at = 4 => Exact(seen)
  /\ first' = (IF at = 1 THEN Scan ELSE first)
  /\ at = 1 => seen' = Scan
  /\ at <= 14 => used' = used /\ (at > 1 => seen' = seen)
  /\ seen' \in {seen, Scan}
  /\ used' \subseteq used \cup {Call[at].ref}
  /\ \A r \in used' \ used :
       at > 14 /\ ~entry[r].good /\ (r \in Loaded \/ (r = "source_manifest" /\ at = 16))
  /\ at = 17 => "source_manifest" \notin used'

LEMMA VerifyActs ==
  ASSUME Typed, Progress, Verify
  PROVE  ActDone
<1>0. Len(VerifyRoot) = 14 /\ M \in Nat /\ M >= 3 /\ DOMAIN Call = 1..28 + M /\ Len(Call) = 28 + M
  BY VerifyRootIs, WhatIsDone
<1>1. at \in DOMAIN Call
  BY DEF Verify, TakeScan, ReadInventory, CompareSets, ReadContent, Rescan, Look, LoadDocument,
         LoadManifest, CheckDigest, CompareDocuments, Doing
<1>2. /\ Now = Call[at]
      /\ Now.do = "scan" <=> at = 1 \/ at = 15 + M
      /\ Now.do = "sets" <=> at = 4 \/ at = 18 + M
      /\ Now.do = "rescan" <=> at = 14 \/ at = 28 + M
      /\ Now.do \in Looks <=> at > 14 /\ at < 15 + M
      /\ Now.do = "manifest" <=> at = 17
      /\ Now.do = "load" => Now.ref \in Loaded \/ at = 16
      /\ at = 16 => Now.ref = "source_manifest"
      /\ Now.do \in Readings \cup {"scan", "rescan", "look"} => Now.compares = {}
  BY <1>1, WhatIsDone DEF Now
<1>3. at \in Int /\ used \subseteq Refs /\ (at <= 14 => used = {}) /\ at >= 1 /\ at <= 28 + M
  BY <1>0, <1>1 DEF Typed, Progress
<1>4. "source_manifest" \in used => at = 17
  <2>1. result # "refused"
    BY <1>0, <1>3 DEF Progress
  <2> QED BY <2>1 DEF Progress
<1>5. CASE TakeScan
  BY <1>0, <1>1, <1>2, <1>3, <1>4, <1>5
     DEF TakeScan, Doing, ActDone, GoesIf, Goes, Refuses, InFirst, Readings
<1>6. CASE ReadInventory
  BY <1>0, <1>1, <1>2, <1>3, <1>4, <1>6
     DEF ReadInventory, Doing, ActDone, GoesIf, Goes, Refuses, Readings, Looks
<1>7. CASE CompareSets
  BY <1>0, <1>1, <1>2, <1>3, <1>4, <1>7
     DEF CompareSets, Doing, ActDone, GoesIf, Goes, Refuses, Readings, Looks
<1>8. CASE ReadContent
  BY <1>0, <1>1, <1>2, <1>3, <1>4, <1>8
     DEF ReadContent, Doing, ActDone, GoesIf, Goes, Refuses, Readings, Looks
<1>9. CASE Rescan
  BY <1>0, <1>1, <1>2, <1>3, <1>4, <1>9 DEF Rescan, Doing, ActDone, Goes, Refuses, Readings, Looks
<1>10. CASE Look
  BY <1>0, <1>1, <1>2, <1>3, <1>4, <1>10
     DEF Look, Doing, ActDone, GoesIf, Goes, Refuses, Readings, Looks
<1>11. CASE LoadDocument
  BY <1>0, <1>1, <1>2, <1>3, <1>4, <1>11
     DEF LoadDocument, Compare, Doing, ActDone, Goes, Refuses, Readings, Looks
<1>12. CASE LoadManifest
  BY <1>0, <1>1, <1>2, <1>3, <1>4, <1>12
     DEF LoadManifest, Compare, Doing, ActDone, Goes, Refuses, Readings, Looks
<1>13. CASE CheckDigest
  BY <1>0, <1>1, <1>2, <1>3, <1>4, <1>13
     DEF CheckDigest, Compare, Doing, ActDone, Goes, Refuses, Readings, Looks
<1>14. CASE CompareDocuments
  BY <1>0, <1>1, <1>2, <1>3, <1>4, <1>14
     DEF CompareDocuments, Compare, Doing, ActDone, Goes, Refuses, Readings, Looks
<1> QED BY <1>5, <1>6, <1>7, <1>8, <1>9, <1>10, <1>11, <1>12, <1>13, <1>14 DEF Verify

LEMMA ScanIs ==
  ASSUME Typed
  PROVE  /\ Scan \in Roots /\ Scan.times = times /\ Scan.extras = extras
         /\ \A r \in Refs : Scan.marks[r] = entry[r].mark
<1>1. \A r \in Refs : entry[r].mark \in 0..changes \cup {Missing.mark}
  BY DEF Typed, SoFar
<1> QED BY <1>1 DEF Scan, Roots, Typed

LEMMA ActKeepsTyped ==
  ASSUME Typed, Progress, ActDone
  PROVE  Typed'
<1>1. M \in Nat /\ DOMAIN Call = 1..28 + M /\ Len(Call) = 28 + M /\ Call[at].ref \in Refs
  BY WhatIsDone DEF ActDone, Acts
<1>2. UNCHANGED <<entry, aside, times, extras, flaw, covert, changes, changed>>
  BY DEF ActDone, Unchanged, rootVars, othersVars
<1>3. SoFar' = SoFar /\ Roots' = Roots
  BY <1>2 DEF SoFar, Roots
<1>4. at' \in 0..Len(Call) + 1
  BY <1>1 DEF ActDone, Typed
<1>5. seen' \in Roots /\ first' \in Roots
  BY ScanIs DEF ActDone, Typed
<1>6. used' \subseteq Refs /\ result' \in {"none", "refused", "verified"}
  BY <1>1 DEF ActDone, Typed
<1> QED BY <1>2, <1>3, <1>4, <1>5, <1>6 DEF Typed

LEMMA ActKeepsProgress ==
  ASSUME Typed, Progress, ActDone
  PROVE  Progress'
<1>1. M \in Nat /\ DOMAIN Call = 1..28 + M /\ Len(Call) = 28 + M
  BY WhatIsDone
<1>2. UNCHANGED <<staged, entry, aside, times, extras, flaw, covert, changes, changed>>
  BY DEF ActDone, Unchanged, rootVars, othersVars
<1>3. at \in Int /\ 1 <= at /\ at <= 28 + M /\ result = "none"
  BY <1>1 DEF ActDone, Progress, Typed
<1>4. at' \in Int /\ at' > 1
  BY <1>1, <1>3 DEF ActDone
<1>5. /\ result' = "none" => at' <= Len(Call)
      /\ result' = "refused" => at' = Len(Call) + 1
  BY <1>1, <1>3 DEF ActDone
<1>6. result' = "verified" => at' = Len(Call) + 1 /\ (Scan = first)'
  <2> SUFFICES ASSUME result' = "verified"
               PROVE  at' = Len(Call) + 1 /\ (Scan = first)'
    OBVIOUS
  <2>1. at = Len(Call) /\ at' = at + 1 /\ Scan = first /\ at # 1
    BY <1>1, <1>3 DEF ActDone
  <2>2. first' = first /\ Scan' = Scan
    BY <2>1, <1>2 DEF ActDone, Scan
  <2> QED BY <2>1, <2>2
<1>7. result' # "refused" => staged' = FrozenHeader
  BY <1>2, <1>3 DEF Progress
<1>8. ASSUME result' # "refused", NEW i \in DOMAIN Call, i < at'
      PROVE  (flaw \notin Call[i].compares)'
  <2>1. at' = at + 1 /\ flaw \notin Call[at].compares
    BY <1>8 DEF ActDone
  <2>2. i < at \/ i = at
    BY <2>1, <1>1, <1>3, <1>8
  <2> QED BY <1>2, <1>3, <2>1, <2>2 DEF Progress
<1>9. at' <= 14 => used' = {} /\ seen' = first'
  <2> SUFFICES ASSUME at' <= 14
               PROVE  used' = {} /\ seen' = first'
    OBVIOUS
  <2>1. at <= 13
    BY <1>1, <1>3 DEF ActDone
  <2> QED BY <2>1, <1>3 DEF ActDone, Progress
<1>10. used' \subseteq Loaded \cup {"source_manifest"}
  BY DEF ActDone, Progress
<1>11. result' # "refused" /\ "source_manifest" \in used' => at' = 17
  <2> SUFFICES ASSUME result' # "refused", "source_manifest" \in used'
               PROVE  at' = 17
    OBVIOUS
  <2>1. at' = at + 1 /\ at # 17
    BY DEF ActDone
  <2>2. "source_manifest" \notin used
    BY <1>3, <2>1 DEF Progress
  <2>3. "source_manifest" \notin Loaded
    BY DEF Loaded
  <2> QED BY <1>3, <2>1, <2>2, <2>3 DEF ActDone
<1> QED BY <1>1, <1>4, <1>5, <1>6, <1>7, <1>8, <1>9, <1>10, <1>11 DEF Progress

\* After the first verification, every file is anchored, unless it was changed without a trace.
LEMMA AllAreAnchored ==
  ASSUME Typed, ReadIsAnchored, at > 13, NEW r \in Refs \ covert
  PROVE  Anchored(r)
<1>1. PICK i \in 2..13 : Call[i].do \in Readings /\ Call[i].ref = r
  BY EveryFileIsRead
<1>2. i < at
  BY WhatIsDone DEF Typed
<1> QED BY <1>1, <1>2 DEF ReadIsAnchored

LEMMA ActKeepsEvidence ==
  ASSUME Typed, Progress, Evidence, ActDone
  PROVE  Evidence'
<1>1. M \in Nat /\ DOMAIN Call = 1..28 + M /\ Len(Call) = 28 + M
  BY WhatIsDone
<1>2. UNCHANGED <<entry, aside, times, extras, flaw, covert, changes, changed>>
  BY DEF ActDone, Unchanged, rootVars, othersVars
<1>3. at \in Int /\ 1 <= at /\ at <= 28 + M /\ result = "none"
  BY <1>1 DEF ActDone, Progress, Typed
<1>4. /\ MarksTell /\ ReadIsAnchored /\ ChangesShow /\ UsedIsAway
      /\ at > 4 => Exact(first)
  BY <1>3 DEF Evidence
<1>5. at > 1 => first' = first
  BY <1>3 DEF ActDone
<1>6. \A r \in Refs : first' = first => Anchored(r)' = Anchored(r) /\ Away(r)' = Away(r)
  BY <1>2 DEF Anchored, Away
<1> SUFFICES ASSUME result' # "refused"
             PROVE  /\ MarksTell' /\ ReadIsAnchored' /\ ChangesShow' /\ UsedIsAway'
                    /\ at' > 4 => Exact(first')
  BY DEF Evidence, Exact
<1>7. at' = at + 1
  BY DEF ActDone
<1>8. MarksTell'
  BY <1>2, <1>4 DEF MarksTell
<1>9. ASSUME NEW i \in 2..13, i < at', Call[i].do \in Readings, Call[i].ref \notin covert
      PROVE  Anchored(Call[i].ref)'
  <2> DEFINE r == Call[i].ref
  <2>1. r \in Refs
    BY <1>1, WhatIsDone DEF Acts
  <2>2. first' = first
    BY <1>3, <1>5, <1>7, <1>9
  <2>3. CASE i < at
    BY <2>1, <2>2, <2>3, <1>4, <1>6, <1>9 DEF ReadIsAnchored
  <2>4. CASE i = at
    <3>1. SameAsScanned(r) /\ entry[r].good
      BY <2>4, <1>9 DEF ActDone
    <3>2. seen = first
      BY <2>4, <1>3 DEF Progress
    <3>3. first.marks[r] = entry[r].mark /\ entry[r] # Missing
      BY <3>1, <3>2 DEF SameAsScanned
    <3>4. entry[r].mark <= changes
      BY <2>1, <3>3 DEF Typed, SoFar
    <3>5. aside[r].mark = entry[r].mark => aside[r] = entry[r]
      BY <1>4, <1>9, <2>1 DEF MarksTell
    <3>6. Anchored(r)
      BY <3>1, <3>3, <3>4, <3>5 DEF Anchored
    <3> QED BY <3>6, <2>1, <2>2, <1>6
  <2> QED BY <2>3, <2>4, <1>3, <1>7, <1>9
<1>10. ReadIsAnchored'
  BY <1>2, <1>9 DEF ReadIsAnchored
<1>11. ChangesShow'
  <2> SUFFICES ASSUME covert = {}, changed, \A r \in Refs : first'.marks[r] # Missing.mark
               PROVE  Later'
    BY <1>2 DEF ChangesShow, Missing
  <2>1. at > 1 /\ first' = first
    BY <1>3, <1>5 DEF Progress
  <2>2. Later
    BY <1>4, <2>1 DEF ChangesShow
  <2> QED BY <1>2, <2>1, <2>2 DEF Later
<1>12. ASSUME NEW r \in used', r \notin covert
       PROVE  Away(r)'
  <2>1. CASE r \in used
    <3>1. at > 14 /\ r \in Refs
      BY <1>3, <2>1 DEF Progress, Typed
    <3> QED BY <3>1, <2>1, <1>3, <1>4, <1>5, <1>6, <1>12 DEF UsedIsAway
  <2>2. CASE r \notin used
    <3>1. at > 14 /\ ~entry[r].good /\ r \in Refs
      BY <2>2, <1>12, ActKeepsTyped DEF ActDone, Typed
    <3>2. Anchored(r)
      BY <3>1, <1>3, <1>4, <1>12, AllAreAnchored
    <3>3. Away(r)
      BY <3>1, <3>2 DEF Anchored, Away
    <3> QED BY <3>1, <3>3, <1>3, <1>5, <1>6
  <2> QED BY <2>1, <2>2
<1>13. UsedIsAway'
  BY <1>2, <1>12 DEF UsedIsAway
<1>14. ASSUME at' > 4
       PROVE  Exact(first')
  <2>1. at >= 4 /\ first' = first
    BY <1>3, <1>5, <1>7, <1>14
  <2>2. CASE at = 4
    BY <2>1, <2>2, <1>7 DEF ActDone, Progress
  <2>3. CASE at > 4
    BY <2>1, <2>3, <1>4
  <2> QED BY <1>3, <2>1, <2>2, <2>3
<1> QED BY <1>8, <1>10, <1>11, <1>13, <1>14

\* Nothing in a root as it was frozen makes an act refuse.
LEMMA NoBlameNoRefusal ==
  ASSUME Typed, Progress, LeftAlone, Verify, changes = 0,
         flaw = {}, extras = {}, \A r \in Refs : entry[r].good
  PROVE  result' # "refused"
<1>1. M \in Nat /\ DOMAIN Call = 1..28 + M /\ Len(Call) = 28 + M
  BY WhatIsDone
<1>2. ActDone
  BY VerifyActs
<1>3. at \in Int /\ 1 <= at /\ at <= 28 + M /\ result = "none"
  BY <1>1, <1>2 DEF ActDone, Progress, Typed
<1>4. Now = Call[at] /\ Now \in Acts /\ Now.ref \in Refs /\ {} \notin Now.compares
  BY <1>1, <1>3, WhatIsDone DEF Now, Acts, Groups
<1>5. used = {} /\ used' = {}
  <2>1. used = {}
    BY DEF LeftAlone, Typed
  <2>2. Typed'
    BY <1>2, ActKeepsTyped
  <2>3. used' \subseteq Refs
    BY <2>2 DEF Typed
  <2> QED BY <2>1, <2>3, <1>2 DEF ActDone
<1>6. \A r \in Refs : entry[r] # Missing /\ entry[r].mark # Missing.mark
  <2> TAKE r \in Refs
  <2>1. entry[r] # Missing
    BY DEF Missing
  <2>2. entry[r].mark <= MaxChanges /\ MaxChanges \in Nat /\ entry[r].mark \in Nat
    BY <2>1, EvidenceAssumption DEF Typed, SoFar
  <2> QED BY <2>1, <2>2 DEF Missing
<1>7. at > 1 => seen = Scan /\ first = Scan
  BY <1>3 DEF LeftAlone
<1>8. at > 1 => \A r \in Refs : SameAsScanned(r)
  BY <1>6, <1>7, ScanIs DEF SameAsScanned
<1>9. at > 1 => Exact(seen)
  BY <1>6, <1>7, ScanIs DEF Exact
<1>10. Now.do # "scan" => at > 1
  BY <1>1, <1>3, WhatIsDone DEF Now
<1> SUFFICES ASSUME result' = "refused"
             PROVE  FALSE
  OBVIOUS
<1>11. CASE TakeScan
  BY <1>3, <1>6, <1>11 DEF TakeScan, GoesIf, Goes, Refs
<1>12. CASE ReadInventory
  BY <1>3, <1>4, <1>8, <1>10, <1>12 DEF ReadInventory, Doing, GoesIf, Goes
<1>13. CASE CompareSets
  BY <1>3, <1>4, <1>9, <1>10, <1>13 DEF CompareSets, Doing, GoesIf, Goes
<1>14. CASE ReadContent
  BY <1>3, <1>4, <1>8, <1>10, <1>14 DEF ReadContent, Doing, GoesIf, Goes
<1>15. CASE Rescan
  BY <1>3, <1>7, <1>10, <1>15 DEF Rescan, Doing, Goes
<1>16. CASE Look
  BY <1>3, <1>4, <1>6, <1>16 DEF Look, GoesIf, Goes
<1>17. CASE LoadDocument
  BY <1>3, <1>4, <1>5, <1>8, <1>10, <1>17 DEF LoadDocument, Doing, Compare, Goes
<1>18. CASE LoadManifest
  <2>1. entry["source_manifest"].good
    BY ContentsAre DEF Refs
  <2> QED BY <2>1, <1>3, <1>4, <1>5, <1>18 DEF LoadManifest, Compare, Goes
<1>19. CASE CheckDigest
  BY <1>3, <1>4, <1>5, <1>8, <1>10, <1>19 DEF CheckDigest, Doing, Compare, Goes
<1>20. CASE CompareDocuments
  BY <1>3, <1>4, <1>5, <1>20 DEF CompareDocuments, Compare, Goes
<1> QED BY <1>11, <1>12, <1>13, <1>14, <1>15, <1>16, <1>17, <1>18, <1>19, <1>20 DEF Verify

LEMMA ActKeepsLeftAlone ==
  ASSUME Typed, Progress, LeftAlone, Verify
  PROVE  LeftAlone'
<1>1. M \in Nat /\ DOMAIN Call = 1..28 + M /\ Len(Call) = 28 + M
  BY WhatIsDone
<1>2. ActDone
  BY VerifyActs
<1>3. UNCHANGED <<staged, entry, aside, times, extras, flaw, covert, changes, changed>>
  BY <1>2 DEF ActDone, Unchanged, rootVars, othersVars
<1>4. at \in Int /\ 1 <= at /\ at <= 28 + M /\ result = "none"
  BY <1>1, <1>2 DEF ActDone, Progress, Typed
<1> SUFFICES ASSUME changes = 0
             PROVE  /\ first' = Scan /\ seen' = Scan
                    /\ \A r \in used' : ~entry[r].good
                    /\ RefusedWithCause'
  BY <1>3 DEF LeftAlone, Scan
<1>5. first' = Scan /\ seen' = Scan
  <2>1. CASE at = 1
    BY <2>1, <1>2 DEF ActDone
  <2>2. CASE at > 1
    BY <2>2, <1>2, <1>4 DEF ActDone, LeftAlone
  <2> QED BY <2>1, <2>2, <1>4
<1>6. \A r \in used' : ~entry[r].good
  BY <1>2 DEF ActDone, LeftAlone
<1>7. RefusedWithCause'
  BY <1>3, NoBlameNoRefusal DEF RefusedWithCause
<1> QED BY <1>5, <1>6, <1>7

-----------------------------------------------------------------------------
(* The sanitizer, and the start.                                           *)

LEMMA MissingIs ==
  /\ Missing = [good |-> FALSE, mark |-> MaxChanges + 1] /\ Missing.mark = MaxChanges + 1
  /\ Nothing = [good |-> FALSE, mark |-> MaxChanges + 2] /\ Nothing.mark = MaxChanges + 2
  /\ Nothing # Missing /\ MaxChanges \in Nat
BY EvidenceAssumption DEF Missing, Nothing

LEMMA InitHolds == Init => Inv
<1> SUFFICES ASSUME Init
             PROVE  Inv
  OBVIOUS
<1>1. M \in Nat /\ DOMAIN Call = 1..28 + M /\ Len(Call) = 28 + M
  BY WhatIsDone
<1>2. /\ changes = 0 /\ at = 0 /\ used = {} /\ result = "none" /\ covert = {} /\ changed = FALSE
      /\ seen = Scan /\ first = Scan
      /\ aside = [r \in Refs |-> Nothing] /\ times = [d \in Directories |-> 0]
      /\ extras \in SUBSET Places /\ flaw \in Comparisons \cup {{}}
  BY DEF Init
<1>3. entry \in [Refs -> SoFar \cup {Missing}]
  <2>1. [good |-> FALSE, mark |-> 0] \in SoFar /\ [good |-> TRUE, mark |-> 0] \in SoFar
    BY <1>2 DEF SoFar
  <2>2. Frozen \in [Refs -> SoFar \cup {Missing}]
    BY <2>1 DEF Frozen
  <2>3. \/ entry = Frozen
        \/ \E r \in Refs, e \in {[good |-> FALSE, mark |-> 0], Missing} :
             entry = [Frozen EXCEPT ![r] = e]
    BY DEF Init
  <2> QED BY <2>1, <2>2, <2>3
<1>4. Typed
  <2>1. aside \in [Refs -> SoFar \cup {Missing, Nothing}] /\ times \in [Directories -> 0..changes]
    BY <1>2
  <2>2. Scan \in Roots
    <3>1. \A r \in Refs : entry[r].mark \in 0..changes \cup {Missing.mark}
      BY <1>3 DEF SoFar
    <3> QED BY <3>1, <2>1, <1>2 DEF Scan, Roots
  <2>3. at \in 0..Len(Call) + 1 /\ changes \in 0..MaxChanges
    BY <1>1, <1>2, EvidenceAssumption
  <2>4. result \in {"none", "refused", "verified"} /\ changed \in BOOLEAN
        /\ used \subseteq Refs /\ covert \subseteq Refs \cup {"extra"}
    BY <1>2
  <2>5. seen \in Roots /\ first \in Roots
    BY <2>2, <1>2
  <2> QED BY <1>2, <1>3, <2>1, <2>3, <2>4, <2>5 DEF Typed
<1>5. Progress
  BY <1>1, <1>2 DEF Progress
<1>6. Evidence
  <2>1. MarksTell
    <3> SUFFICES ASSUME NEW r \in Refs
                 PROVE  aside[r].mark # entry[r].mark
      BY DEF MarksTell
    <3>1. aside[r].mark = MaxChanges + 2
      BY <1>2, MissingIs
    <3>2. entry[r].mark <= MaxChanges + 1 /\ entry[r].mark \in Int
      BY <1>2, <1>3, MissingIs DEF SoFar
    <3> QED BY <3>1, <3>2, MissingIs
  <2>2. ReadIsAnchored /\ ChangesShow /\ UsedIsAway
    BY <1>2 DEF ReadIsAnchored, ChangesShow, UsedIsAway
  <2> QED BY <2>1, <2>2, <1>2 DEF Evidence
<1>7. LeftAlone
  BY <1>2 DEF LeftAlone, RefusedWithCause
<1> QED BY <1>4, <1>5, <1>6, <1>7 DEF Inv

LEMMA SanitizeKeeps ==
  ASSUME Inv, SanitizeTree
  PROVE  Inv'
<1>1. M \in Nat /\ DOMAIN Call = 1..28 + M /\ Len(Call) = 28 + M
  BY WhatIsDone
<1>2. /\ UNCHANGED <<staged, times, extras, aside, changes, covert, changed, flaw, seen, first, used>>
      /\ at = 0 /\ changes = 0 /\ covert = {} /\ changed = FALSE /\ used = {}
      /\ result # "refused" /\ result # "verified"
      /\ \A r \in Refs : aside[r] = Nothing
  BY <1>1 DEF SanitizeTree, othersVars, Inv, Progress, Typed
<1>3. \/ staged = FrozenHeader /\ at' = 1 /\ result' = "none"
      \/ staged # FrozenHeader /\ at' = Len(Call) + 1 /\ result' = "refused"
  BY <1>2 DEF SanitizeTree, Inv, Typed
<1>4. entry' \in [Refs -> SoFar \cup {Missing}]
  <2>1. [good |-> TRUE, mark |-> 0] \in SoFar
    BY <1>2 DEF SoFar
  <2> QED BY <2>1 DEF SanitizeTree, Inv, Typed
<1>5. Typed'
  <2>1. SoFar' = SoFar /\ Roots' = Roots
    BY <1>2 DEF SoFar, Roots
  <2>2. at' \in 0..Len(Call) + 1
    BY <1>1, <1>3
  <2> QED BY <1>2, <1>3, <1>4, <2>1, <2>2 DEF Typed, Inv
<1>6. Progress'
  BY <1>1, <1>2, <1>3 DEF Progress
<1>7. Evidence'
  <2>1. MarksTell'
    <3> SUFFICES ASSUME NEW r \in Refs
                 PROVE  aside[r].mark # entry'[r].mark
      BY <1>2 DEF MarksTell
    <3>1. aside[r].mark = MaxChanges + 2
      BY <1>2, MissingIs
    <3>2. entry'[r].mark <= MaxChanges + 1 /\ entry'[r].mark \in Int
      BY <1>2, <1>4, MissingIs DEF SoFar
    <3> QED BY <3>1, <3>2, MissingIs
  <2>2. result' # "refused" => ReadIsAnchored' /\ ChangesShow' /\ UsedIsAway' /\ at' = 1
    BY <1>2, <1>3 DEF ReadIsAnchored, ChangesShow, UsedIsAway
  <2> QED BY <2>1, <2>2 DEF Evidence
<1>8. LeftAlone'
  BY <1>1, <1>2, <1>3 DEF LeftAlone, RefusedWithCause
<1> QED BY <1>5, <1>6, <1>7, <1>8 DEF Inv

-----------------------------------------------------------------------------
(* The others.                                                             *)

\* What a change is to a file that was not changed without a trace: none, a content or
\* a place of its own, or its return, which its directory shows.
Shown(r) ==
  \/ entry'[r] = entry[r] /\ aside'[r] = aside[r]
  \/ entry'[r].mark = Fresh /\ aside'[r] = aside[r]
  \/ (entry'[r] = Missing \/ entry'[r].mark = Fresh) /\ aside'[r] = entry[r]
  \/ /\ entry'[r] = aside[r] /\ aside'[r] = Nothing
     /\ DirectoryOf(r) \in Directories /\ times'[DirectoryOf(r)] = Fresh

\* What a change leaves behind.
ChangeDone ==
  /\ at \in DOMAIN Call /\ changes < MaxChanges
  /\ changes' = Fresh /\ changed' = (changed \/ at > 1)
  /\ UNCHANGED <<staged, flaw, at, seen, first, used, result>>
  /\ covert \subseteq covert' /\ covert' \subseteq Refs \cup {"extra"}
  /\ entry' \in [Refs -> SoFar' \cup {Missing}]
  /\ aside' \in [Refs -> SoFar' \cup {Missing, Nothing}]
  /\ times' \in [Directories -> 0..Fresh] /\ extras' \in SUBSET Places
  /\ \A r \in Refs \ covert' : Shown(r)
  /\ \A d \in Directories :
       \/ times'[d] = times[d] \/ times'[d] = Fresh
       \/ \A r \in Refs : DirectoryOf(r) = d => r \in covert'
  /\ covert' = {} =>
       \/ \E d \in Directories : times'[d] = Fresh
       \/ \E r \in Refs : entry'[r].mark \in {Fresh, Missing.mark}
       \/ extras' # {}

LEMMA PlacesAre == "root" \notin Directories /\ Places = Directories \cup {"root"}
                    /\ \A r \in Refs : DirectoryOf(r) \in Places
BY DEF Directories, Places, DirectoryOf

\* What Changes says; and what a file can have been, it can have been afterwards.
LEMMA ChangesSays ==
  ASSUME Inv, NEW x \in SUBSET (Refs \cup {"extra"}), Changes(x)
  PROVE  /\ at \in DOMAIN Call /\ changes < MaxChanges /\ changes \in Nat /\ MaxChanges \in Nat
         /\ changes' = Fresh /\ Fresh = changes + 1 /\ changed' = (changed \/ at > 1)
         /\ UNCHANGED <<staged, flaw, at, seen, first, used, result>>
         /\ covert' = covert \cup x /\ covert' \subseteq Refs \cup {"extra"}
         /\ SoFar \subseteq SoFar' /\ SoFar' = [good : BOOLEAN, mark : 0..Fresh]
         /\ entry \in [Refs -> SoFar' \cup {Missing}]
         /\ aside \in [Refs -> SoFar' \cup {Missing, Nothing}]
         /\ times \in [Directories -> 0..Fresh] /\ extras \in SUBSET Places
<1>1. changes \in Nat /\ MaxChanges \in Nat
  BY EvidenceAssumption DEF Inv, Typed
<1>2. /\ at \in DOMAIN Call /\ changes < MaxChanges
      /\ changes' = Fresh /\ Fresh = changes + 1 /\ changed' = (changed \/ at > 1)
      /\ UNCHANGED <<staged, flaw, at, seen, first, used, result>>
      /\ covert' = covert \cup x /\ covert' \subseteq Refs \cup {"extra"}
  BY DEF Changes, Fresh, rootCallVars, Inv, Typed
<1>3. SoFar \subseteq SoFar' /\ SoFar' = [good : BOOLEAN, mark : 0..Fresh]
  BY <1>1, <1>2 DEF SoFar
<1>4. 0..changes \subseteq 0..Fresh
  BY <1>1, <1>2
<1>5. /\ entry \in [Refs -> SoFar' \cup {Missing}]
      /\ aside \in [Refs -> SoFar' \cup {Missing, Nothing}]
      /\ times \in [Directories -> 0..Fresh] /\ extras \in SUBSET Places
  BY <1>3, <1>4 DEF Inv, Typed
<1> QED BY <1>1, <1>2, <1>3, <1>5

LEMMA StirsIs ==
  ASSUME Inv, NEW p \in Places, NEW time \in 0..Fresh, Stirs(p, time),
         times \in [Directories -> 0..Fresh]
  PROVE  /\ times' \in [Directories -> 0..Fresh]
         /\ \A d \in Directories : times'[d] = IF d = p THEN time ELSE times[d]
BY DEF Stirs

LEMMA WriteDone ==
  ASSUME Inv, NEW f \in Refs, Write(f)
  PROVE  ChangeDone
<1>1. PICK good \in BOOLEAN, mark \in 0..Fresh :
        /\ Changes(IF mark = Fresh THEN {} ELSE {f})
        /\ entry' = [entry EXCEPT ![f] = [good |-> good, mark |-> mark]]
  BY DEF Write
<1> DEFINE x == IF mark = Fresh THEN {} ELSE {f}
<1>2. x \in SUBSET (Refs \cup {"extra"}) /\ Changes(x)
  BY <1>1
<1>3. UNCHANGED <<times, extras, aside>>
  BY DEF Write
<1> DEFINE e == [good |-> good, mark |-> mark]
<1>4. e \in SoFar'
  BY <1>2, ChangesSays
<1>5. entry' \in [Refs -> SoFar' \cup {Missing}] /\ entry'[f].mark = mark
      /\ \A r \in Refs : r # f => entry'[r] = entry[r]
  BY <1>1, <1>2, <1>4, ChangesSays
<1>6. \A r \in Refs \ covert' : Shown(r)
  <2> TAKE r \in Refs \ covert'
  <2>1. CASE r = f
    BY <2>1, <1>2, <1>3, <1>5, ChangesSays DEF Shown
  <2>2. CASE r # f
    BY <2>2, <1>3, <1>5 DEF Shown
  <2> QED BY <2>1, <2>2
<1>7. covert' = {} => \E r \in Refs : entry'[r].mark \in {Fresh, Missing.mark}
  BY <1>2, <1>5, ChangesSays
<1> QED BY <1>2, <1>3, <1>5, <1>6, <1>7, ChangesSays DEF ChangeDone

LEMMA TakeAwayDone ==
  ASSUME Inv, NEW f \in Refs, TakeAway(f)
  PROVE  ChangeDone
<1>1. /\ Changes({}) /\ aside' = [aside EXCEPT ![f] = entry[f]]
      /\ Stirs(DirectoryOf(f), Fresh) /\ UNCHANGED extras
  BY DEF TakeAway
<1>2. PICK e \in {Missing, [good |-> FALSE, mark |-> Fresh]} : entry' = [entry EXCEPT ![f] = e]
  BY DEF TakeAway
<1>3. {} \in SUBSET (Refs \cup {"extra"})
  OBVIOUS
<1>4. DirectoryOf(f) \in Places /\ Fresh \in 0..Fresh
  BY <1>1, <1>3, ChangesSays, PlacesAre
<1>5. /\ times' \in [Directories -> 0..Fresh]
      /\ \A d \in Directories : times'[d] = times[d] \/ times'[d] = Fresh
  BY <1>1, <1>3, <1>4, ChangesSays, StirsIs
<1>6. /\ e \in SoFar' \cup {Missing} /\ e.mark \in {Fresh, Missing.mark}
      /\ e = Missing \/ e.mark = Fresh
  <2>1. CASE e = Missing
    BY <2>1
  <2>2. CASE e = [good |-> FALSE, mark |-> Fresh]
    <3>1. SoFar' = [good : BOOLEAN, mark : 0..Fresh] /\ Fresh \in 0..Fresh
      BY <1>1, <1>3, ChangesSays
    <3>2. e \in SoFar'
      BY <3>1, <2>2
    <3> QED BY <3>2, <2>2
  <2> QED BY <2>1, <2>2
<1>7. /\ entry' \in [Refs -> SoFar' \cup {Missing}] /\ entry'[f] = e
      /\ aside' \in [Refs -> SoFar' \cup {Missing, Nothing}] /\ aside'[f] = entry[f]
      /\ \A r \in Refs : r # f => entry'[r] = entry[r] /\ aside'[r] = aside[r]
  BY <1>1, <1>2, <1>3, <1>6, ChangesSays
<1>8. \A r \in Refs \ covert' : Shown(r)
  <2> TAKE r \in Refs \ covert'
  <2>1. CASE r = f
    BY <2>1, <1>6, <1>7 DEF Shown
  <2>2. CASE r # f
    BY <2>2, <1>7 DEF Shown
  <2> QED BY <2>1, <2>2
<1>9. \E r \in Refs : entry'[r].mark \in {Fresh, Missing.mark}
  BY <1>6, <1>7
<1> QED BY <1>1, <1>3, <1>5, <1>7, <1>8, <1>9, ChangesSays DEF ChangeDone

\* What a former time of a directory hides.
LEMMA HiddenIs ==
  ASSUME NEW p \in Places, NEW time, NEW what \in Refs \cup {"extra"}
  PROVE  /\ Hidden(p, time, what) \in SUBSET (Refs \cup {"extra"})
         /\ p = "root" => what \in Hidden(p, time, what)
         /\ p # "root" /\ time # Fresh =>
              /\ "extra" \in Hidden(p, time, what)
              /\ \A r \in Refs : DirectoryOf(r) = p => r \in Hidden(p, time, what)
BY DEF Hidden

LEMMA PutBackDone ==
  ASSUME Inv, NEW f \in Refs, PutBack(f)
  PROVE  ChangeDone
<1> DEFINE p == DirectoryOf(f)
<1>1. PICK time \in 0..Fresh : Changes(Hidden(p, time, f)) /\ Stirs(p, time)
  BY DEF PutBack
<1>2. /\ aside[f] # Nothing /\ entry' = [entry EXCEPT ![f] = aside[f]]
      /\ aside' = [aside EXCEPT ![f] = Nothing] /\ UNCHANGED extras
  BY DEF PutBack
<1>3. p \in Places /\ (p # "root" => p \in Directories)
  BY PlacesAre
<1> HIDE DEF p
<1> DEFINE x == Hidden(p, time, f)
<1>4. /\ x \in SUBSET (Refs \cup {"extra"})
      /\ p = "root" => f \in x
      /\ p # "root" /\ time # Fresh => "extra" \in x /\ \A r \in Refs : DirectoryOf(r) = p => r \in x
  BY <1>3, HiddenIs
<1>5. Changes(x)
  BY <1>1
<1> HIDE DEF x
<1>6. /\ times' \in [Directories -> 0..Fresh]
      /\ \A d \in Directories : times'[d] = IF d = p THEN time ELSE times[d]
  BY <1>1, <1>3, <1>4, <1>5, ChangesSays, StirsIs
<1>7. covert' = covert \cup x
  BY <1>4, <1>5, ChangesSays
<1>8. /\ entry' \in [Refs -> SoFar' \cup {Missing}] /\ entry'[f] = aside[f]
      /\ aside' \in [Refs -> SoFar' \cup {Missing, Nothing}] /\ aside'[f] = Nothing
      /\ \A r \in Refs : r # f => entry'[r] = entry[r] /\ aside'[r] = aside[r]
  BY <1>2, <1>4, <1>5, ChangesSays
<1>9. \A r \in Refs \ covert' : Shown(r)
  <2> TAKE r \in Refs \ covert'
  <2>1. CASE r = f
    <3>1. p # "root" /\ time = Fresh
      BY <2>1, <1>4, <1>7 DEF p
    <3>2. p \in Directories /\ times'[p] = Fresh
      BY <3>1, <1>3, <1>6
    <3> QED BY <2>1, <3>2, <1>8 DEF Shown, p
  <2>2. CASE r # f
    BY <2>2, <1>8 DEF Shown
  <2> QED BY <2>1, <2>2
<1>10. \A d \in Directories :
         \/ times'[d] = times[d] \/ times'[d] = Fresh
         \/ \A r \in Refs : DirectoryOf(r) = d => r \in covert'
  BY <1>4, <1>6, <1>7, PlacesAre
<1>11. covert' = {} => \E d \in Directories : times'[d] = Fresh
  BY <1>3, <1>4, <1>6, <1>7
<1> QED BY <1>2, <1>4, <1>5, <1>6, <1>8, <1>9, <1>10, <1>11, ChangesSays DEF ChangeDone

LEMMA AddEntryDone ==
  ASSUME Inv, NEW p \in Places, AddEntry(p)
  PROVE  ChangeDone
<1>1. Changes({}) /\ extras' = extras \cup {p} /\ Stirs(p, Fresh) /\ UNCHANGED <<entry, aside>>
  BY DEF AddEntry
<1>2. {} \in SUBSET (Refs \cup {"extra"})
  OBVIOUS
<1>3. /\ times' \in [Directories -> 0..Fresh]
      /\ \A d \in Directories : times'[d] = times[d] \/ times'[d] = Fresh
  <2>1. Fresh \in 0..Fresh
    BY <1>1, <1>2, ChangesSays
  <2> QED BY <2>1, <1>1, <1>2, ChangesSays, StirsIs
<1>4. \A r \in Refs \ covert' : Shown(r)
  BY <1>1 DEF Shown
<1> QED BY <1>1, <1>2, <1>3, <1>4, ChangesSays DEF ChangeDone

LEMMA RemoveEntryDone ==
  ASSUME Inv, NEW p \in Places, RemoveEntry(p)
  PROVE  ChangeDone
<1>1. PICK time \in 0..Fresh : Changes(Hidden(p, time, "extra")) /\ Stirs(p, time)
  BY DEF RemoveEntry
<1>2. extras' = extras \ {p} /\ UNCHANGED <<entry, aside>>
  BY DEF RemoveEntry
<1>3. p # "root" => p \in Directories
  BY PlacesAre
<1> DEFINE x == Hidden(p, time, "extra")
<1>4. /\ x \in SUBSET (Refs \cup {"extra"})
      /\ p = "root" => "extra" \in x
      /\ p # "root" /\ time # Fresh => "extra" \in x /\ \A r \in Refs : DirectoryOf(r) = p => r \in x
  BY HiddenIs
<1>5. Changes(x)
  BY <1>1
<1> HIDE DEF x
<1>6. /\ times' \in [Directories -> 0..Fresh]
      /\ \A d \in Directories : times'[d] = IF d = p THEN time ELSE times[d]
  BY <1>1, <1>4, <1>5, ChangesSays, StirsIs
<1>7. covert' = covert \cup x
  BY <1>4, <1>5, ChangesSays
<1>8. \A r \in Refs \ covert' : Shown(r)
  BY <1>2 DEF Shown
<1>9. \A d \in Directories :
        \/ times'[d] = times[d] \/ times'[d] = Fresh
        \/ \A r \in Refs : DirectoryOf(r) = d => r \in covert'
  BY <1>4, <1>6, <1>7, PlacesAre
<1>10. covert' = {} => \E d \in Directories : times'[d] = Fresh
  BY <1>3, <1>4, <1>6, <1>7
<1> QED BY <1>2, <1>4, <1>5, <1>6, <1>8, <1>9, <1>10, ChangesSays DEF ChangeDone

LEMMA ChangeKeepsTyped ==
  ASSUME Inv, ChangeDone
  PROVE  Typed' /\ Fresh = changes + 1 /\ changes \in Nat /\ MaxChanges \in Nat
<1>1. Fresh = changes + 1 /\ changes \in Nat /\ MaxChanges \in Nat
  BY EvidenceAssumption DEF Fresh, Inv, Typed
<1>2. 0..changes \subseteq 0..Fresh /\ changes' = Fresh /\ changes' \in 0..MaxChanges
  BY <1>1 DEF ChangeDone
<1>3. Roots \subseteq Roots'
  BY <1>2 DEF Roots
<1>4. seen' \in Roots' /\ first' \in Roots'
  BY <1>3 DEF ChangeDone, Inv, Typed
<1>5. changed' \in BOOLEAN
  BY DEF ChangeDone, Inv, Typed
<1>6. times' \in [Directories -> 0..changes']
  BY <1>2 DEF ChangeDone
<1> QED BY <1>1, <1>2, <1>4, <1>5, <1>6 DEF ChangeDone, Inv, Typed

LEMMA ChangeKeepsProgress ==
  ASSUME Inv, ChangeDone
  PROVE  Progress'
<1>1. M \in Nat /\ DOMAIN Call = 1..28 + M /\ Len(Call) = 28 + M
  BY WhatIsDone
<1>2. at \in Int /\ 1 <= at /\ at <= 28 + M /\ result = "none"
  BY <1>1 DEF ChangeDone, Inv, Progress, Typed
<1>3. UNCHANGED <<staged, flaw, at, seen, first, used, result>>
  BY DEF ChangeDone
<1>4. at <= 1 => ~changed'
  <2>1. at <= 1 => ~(changed \/ at > 1)
    BY <1>2 DEF Inv, Progress
  <2>2. changed' = (changed \/ at > 1)
    BY DEF ChangeDone
  <2> QED BY <2>1, <2>2
<1> QED BY <1>1, <1>2, <1>3, <1>4 DEF Inv, Progress

LEMMA ChangeKeepsEvidence ==
  ASSUME Inv, ChangeDone
  PROVE  Evidence'
<1>1. M \in Nat /\ DOMAIN Call = 1..28 + M /\ Len(Call) = 28 + M
  BY WhatIsDone
<1>2. at \in Int /\ 1 <= at /\ at <= 28 + M /\ result = "none"
  BY <1>1 DEF ChangeDone, Inv, Progress, Typed
<1>3. UNCHANGED <<staged, flaw, at, seen, first, used, result>> /\ changes' = Fresh
  BY DEF ChangeDone
<1>4. /\ MarksTell /\ ReadIsAnchored /\ ChangesShow /\ UsedIsAway
      /\ at > 4 => Exact(first)
  BY <1>2 DEF Evidence, Inv
<1>5. /\ Fresh = changes + 1 /\ changes \in Nat /\ Missing.mark = MaxChanges + 1
      /\ Nothing.mark = MaxChanges + 2 /\ Fresh <= MaxChanges /\ MaxChanges \in Nat
  BY ChangeKeepsTyped, MissingIs DEF ChangeDone
<1>6. \A r \in Refs : /\ entry[r].mark \in 0..changes \cup {Missing.mark}
                      /\ aside[r].mark \in 0..changes \cup {Missing.mark, Nothing.mark}
                      /\ first.marks[r] \in 0..changes \cup {Missing.mark}
  BY DEF Inv, Typed, SoFar, Roots
<1>7. \A d \in Directories : first.times[d] \in 0..changes /\ times[d] \in 0..changes
  BY DEF Inv, Typed, Roots
<1>8. ASSUME NEW r \in Refs \ covert'
      PROVE  /\ r \in Refs \ covert /\ Shown(r)
             /\ aside[r].mark = entry[r].mark => aside[r] = entry[r]
  BY <1>4, <1>8 DEF ChangeDone, MarksTell
<1>9. ASSUME NEW r \in Refs \ covert'
      PROVE  (aside[r].mark = entry[r].mark => aside[r] = entry[r])'
  <2>1. CASE entry'[r] = entry[r] /\ aside'[r] = aside[r]
    BY <2>1, <1>8
  <2>2. CASE entry'[r].mark = Fresh /\ aside'[r] = aside[r]
    BY <2>2, <1>5, <1>6
  <2>3. CASE entry'[r].mark = Fresh /\ aside'[r] = entry[r]
    BY <2>3, <1>5, <1>6
  <2>4. CASE entry'[r] = Missing /\ aside'[r] = entry[r]
    <3> SUFFICES ASSUME entry[r].mark = Missing.mark
                 PROVE  entry[r] = Missing
      BY <2>4
    <3>1. entry[r] \in SoFar \cup {Missing}
      BY DEF Inv, Typed
    <3>2. entry[r] \notin SoFar
      BY <1>5 DEF SoFar
    <3> QED BY <3>1, <3>2
  <2>5. CASE entry'[r] = aside[r] /\ aside'[r] = Nothing
    <3>1. entry'[r] \in SoFar' \cup {Missing}
      BY DEF ChangeDone
    <3>2. entry'[r].mark <= MaxChanges + 1 /\ entry'[r].mark \in Int
      BY <3>1, <1>3, <1>5 DEF SoFar
    <3> QED BY <2>5, <3>2, <1>5
  <2> QED BY <1>8, <2>1, <2>2, <2>3, <2>4, <2>5 DEF Shown
<1>10. MarksTell'
  BY <1>9 DEF MarksTell
<1>11. ASSUME NEW r \in Refs \ covert', Anchored(r)
       PROVE  Anchored(r)'
  <2> USE <1>3, <1>5, <1>6, <1>8, <1>11 DEF Anchored
  <2>1. CASE entry'[r] = entry[r] /\ aside'[r] = aside[r]
    BY <2>1
  <2>2. CASE entry'[r].mark = Fresh /\ aside'[r] = aside[r]
    BY <2>2
  <2>3. CASE (entry'[r] = Missing \/ entry'[r].mark = Fresh) /\ aside'[r] = entry[r]
    BY <2>3
  <2>4. CASE entry'[r] = aside[r] /\ aside'[r] = Nothing
    BY <2>4
  <2> QED BY <2>1, <2>2, <2>3, <2>4 DEF Shown
<1>12. ReadIsAnchored'
  <2> SUFFICES ASSUME NEW i \in 2..13, i < at, Call[i].do \in Readings, Call[i].ref \notin covert'
               PROVE  Anchored(Call[i].ref)'
    BY <1>3 DEF ReadIsAnchored
  <2>1. Call[i].ref \in Refs
    BY <1>1, WhatIsDone DEF Acts
  <2> QED BY <2>1, <1>4, <1>8, <1>11 DEF ReadIsAnchored
<1>13. ChangesShow'
  <2> SUFFICES ASSUME covert' = {}, \A r \in Refs : first.marks[r] # Missing.mark
               PROVE  Later'
    BY <1>3 DEF ChangesShow, Missing
  <2>1. CASE \E d \in Directories : times'[d] = Fresh
    BY <2>1, <1>3, <1>5, <1>7 DEF Later
  <2>2. CASE \E r \in Refs : entry'[r].mark \in {Fresh, Missing.mark}
    BY <2>2, <1>3, <1>5, <1>6 DEF Later
  <2>3. CASE extras' # {}
    BY <2>3 DEF Later
  <2> QED BY <2>1, <2>2, <2>3 DEF ChangeDone
<1>14. ASSUME NEW r \in used, r \notin covert'
       PROVE  Away(r)'
  <2>1. r \in Refs \ covert' /\ at > 13
    BY <1>2, <1>14 DEF Inv, Typed, Progress
  <2>2. Anchored(r) /\ Away(r)
    BY <2>1, <1>4, <1>8, AllAreAnchored DEF UsedIsAway, Inv
  <2> DEFINE d == DirectoryOf(r)
  <2>3. d \in Directories => times'[d] = times[d] \/ times'[d] = Fresh
    BY <2>1 DEF ChangeDone
  <2>4. CASE d \in Directories /\ times[d] > first.times[d]
    BY <2>3, <2>4, <1>3, <1>5, <1>7 DEF Away
  <2>5. CASE entry[r].mark # first.marks[r]
    <3> USE <1>3, <1>5, <1>6, <1>7, <2>1, <2>2, <2>5 DEF Away, Anchored
    <3>1. CASE entry'[r] = entry[r] /\ aside'[r] = aside[r]
      BY <3>1
    <3>2. CASE entry'[r].mark = Fresh
      BY <3>2
    <3>3. CASE entry'[r] = Missing
      BY <3>3
    <3>4. CASE d \in Directories /\ times'[d] = Fresh
      BY <3>4
    <3> QED BY <1>8, <3>1, <3>2, <3>3, <3>4 DEF Shown
  <2> QED BY <2>2, <2>4, <2>5 DEF Away
<1>15. UsedIsAway'
  BY <1>3, <1>14 DEF UsedIsAway
<1> QED BY <1>3, <1>4, <1>10, <1>12, <1>13, <1>15 DEF Evidence, Exact, Missing

LEMMA ChangeKeepsInv ==
  ASSUME Inv, ChangeDone
  PROVE  Inv'
<1>1. changes' # 0
  BY ChangeKeepsTyped DEF ChangeDone
<1>2. LeftAlone'
  BY <1>1 DEF LeftAlone
<1> QED BY <1>2, ChangeKeepsTyped, ChangeKeepsProgress, ChangeKeepsEvidence DEF Inv

-----------------------------------------------------------------------------
(* The theorems.                                                           *)

LEMMA StepHolds == Inv /\ [Next]_allVars => Inv'
<1> SUFFICES ASSUME Inv, [Next]_allVars
             PROVE  Inv'
  OBVIOUS
<1>1. CASE SanitizeTree
  BY <1>1, SanitizeKeeps
<1>2. CASE Verify
  <2>1. Typed /\ Progress /\ Evidence /\ LeftAlone
    BY DEF Inv
  <2>2. ActDone
    BY <1>2, <2>1, VerifyActs
  <2> QED BY <1>2, <2>1, <2>2, ActKeepsTyped, ActKeepsProgress, ActKeepsEvidence, ActKeepsLeftAlone
          DEF Inv
<1>3. CASE Others
  <2>1. \A f \in Touchable : f \in Refs
    BY EvidenceAssumption
  <2>2. ChangeDone
    BY <1>3, <2>1, WriteDone, TakeAwayDone, PutBackDone, AddEntryDone, RemoveEntryDone DEF Others
  <2> QED BY <2>2, ChangeKeepsInv
<1>4. CASE UNCHANGED allVars
  <2>0. UNCHANGED <<entry, times, extras, aside, changes, covert, changed, at, seen, first, used,
                    flaw, staged, result>>
    BY <1>4 DEF allVars, rootVars, othersVars, rootCallVars
  <2>1. Typed' /\ Progress'
    <3>1. Typed'
      BY <2>0 DEF Inv, Typed, SoFar, Roots
    <3>2. Progress'
      BY <2>0 DEF Inv, Progress, Scan
    <3> QED BY <3>1, <3>2
  <2>2. Evidence'
    <3>1. /\ MarksTell' = MarksTell /\ ReadIsAnchored' = ReadIsAnchored
          /\ Exact(first)' = Exact(first)
      BY <2>0 DEF MarksTell, ReadIsAnchored, Anchored, Exact
    <3>2. ChangesShow' = ChangesShow /\ UsedIsAway' = UsedIsAway
      BY <2>0 DEF ChangesShow, Later, UsedIsAway, Away
    <3> QED BY <2>0, <3>1, <3>2 DEF Inv, Evidence
  <2>3. LeftAlone'
    BY <2>0 DEF Inv, LeftAlone, Scan, RefusedWithCause
  <2> QED BY <2>1, <2>2, <2>3 DEF Inv
<1> QED BY <1>1, <1>2, <1>3, <1>4 DEF Next

LEMMA InvHolds == Spec => []Inv
BY InitHolds, StepHolds, PTL DEF Spec

\* Whatever a verified call believed stands its comparisons and is as the inventory has
\* it, unless it was changed without a trace and has no digest of its own.
THEOREM OnlyAnchoredIsUsed == Spec => []UsedIsAnchored
<1>1. Inv => UsedIsAnchored
  <2> SUFFICES ASSUME Inv, result = "verified"
               PROVE  used \subseteq covert \ Pinned /\ flaw = {} /\ staged = FrozenHeader
    BY DEF UsedIsAnchored, Verified
  <2>1. M \in Nat /\ M >= 3 /\ DOMAIN Call = 1..28 + M /\ Len(Call) = 28 + M
    BY WhatIsDone
  <2>2. at = 29 + M /\ Scan = first /\ staged = FrozenHeader
    BY <2>1 DEF Inv, Progress
  <2>3. flaw = {}
    <3>1. \A i \in DOMAIN Call : flaw \notin Call[i].compares
      BY <2>1, <2>2 DEF Inv, Progress
    <3> QED BY <3>1 DEF Inv, Typed, Comparisons
  <2>4. used \subseteq Loaded
    BY <2>1, <2>2 DEF Inv, Progress
  <2>5. Loaded \cap Pinned = {}
    BY DEF Loaded, Pinned
  <2>6. \A r \in Refs : ~Away(r)
    <3> TAKE r \in Refs
    <3>1. entry[r].mark = first.marks[r] /\ times = first.times
      BY <2>2, ScanIs DEF Inv
    <3>2. DirectoryOf(r) \in Directories => times[DirectoryOf(r)] \in Int
      BY DEF Inv, Typed
    <3> QED BY <3>1, <3>2 DEF Away
  <2>7. used \subseteq covert
    BY <2>6 DEF Inv, Evidence, UsedIsAway, Typed
  <2> QED BY <2>2, <2>3, <2>4, <2>5, <2>7
<1> QED BY <1>1, InvHolds, PTL

\* A verified root is as the inventory has it and was not changed since the first scan,
\* but for what left no trace.
THEOREM RootHeldStill == Spec => []HeldStill
<1>1. Inv => HeldStill
  <2> SUFFICES ASSUME Inv, result = "verified"
               PROVE  /\ \A r \in Refs \ covert : entry[r].good
                      /\ covert = {} => ~changed /\ extras = {}
    BY DEF HeldStill, Verified
  <2>1. M \in Nat /\ M >= 3 /\ DOMAIN Call = 1..28 + M /\ Len(Call) = 28 + M
    BY WhatIsDone
  <2>2. at = 29 + M /\ Scan = first
    BY <2>1 DEF Inv, Progress
  <2>3. ReadIsAnchored /\ ChangesShow /\ Exact(first)
    BY <2>1, <2>2 DEF Inv, Evidence
  <2>4. times = first.times /\ extras = first.extras /\ \A r \in Refs : entry[r].mark = first.marks[r]
    BY <2>2, ScanIs DEF Inv
  <2>5. ASSUME NEW r \in Refs \ covert
        PROVE  entry[r].good
    <3>1. Anchored(r)
      BY <2>1, <2>2, <2>3, AllAreAnchored DEF Inv
    <3> QED BY <3>1, <2>4 DEF Anchored
  <2>6. extras = {}
    BY <2>3, <2>4 DEF Exact
  <2>7. ~Later
    <3>1. \A d \in Directories : times[d] \in Int
      BY DEF Inv, Typed
    <3>2. \A r \in Refs : entry[r].mark \in Int
      BY MissingIs DEF Inv, Typed, SoFar
    <3> QED BY <2>4, <2>6, <3>1, <3>2 DEF Later
  <2>8. covert = {} => ~changed
    BY <2>1, <2>2, <2>3, <2>7 DEF ChangesShow, Exact
  <2> QED BY <2>5, <2>6, <2>8
<1> QED BY <1>1, InvHolds, PTL

\* A root that is as it was frozen, and is left alone, is not refused.
THEOREM FrozenIsNotRefused == Spec => []RefusedWithCause
<1>1. Inv => RefusedWithCause
  BY DEF Inv, LeftAlone, RefusedWithCause
<1> QED BY <1>1, InvHolds, PTL
-----------------------------------------------------------------------------
(* The sanitizer: its loop over the lines, by induction on the line.       *)

LEMMA UpTo ==
  ASSUME NEW m \in Nat, NEW S, 0 \in S, \A i \in 1..m : i - 1 \in S => i \in S
  PROVE  \A i \in 0..m : i \in S
<1> DEFINE R == OpToRel(<, Nat)
           T == (0..m) \ S
<1>1. IsWellFoundedOn(R, Nat)
  BY NatLessThanWellFounded
<1>2. \A i, j \in Nat : i < j => <<i, j>> \in R
  BY DEF OpToRel
<1>3. SUFFICES ASSUME T # {} PROVE FALSE
  OBVIOUS
<1>4. T \subseteq Nat
  OBVIOUS
<1> HIDE DEF R
<1>5. PICK n \in T : \A i \in T : ~ (<<i, n>> \in R)
  BY <1>1, <1>3, <1>4, WFMin
<1>6. n \in 1..m /\ n \notin S
  OBVIOUS
<1>7. n - 1 \in T
  BY <1>6
<1>8. <<n - 1, n>> \in R
  <2>1. n - 1 \in Nat /\ n \in Nat /\ n - 1 < n
    BY <1>6
  <2> QED BY <1>2, <2>1, Zenon
<1> QED BY <1>5, <1>7, <1>8

LEMMA OutputIs ==
  ASSUME NEW lines \in Seq(Lines)
  PROVE  /\ Output(lines)[0] = <<>>
         /\ \A i \in 1..Len(lines) :
              Output(lines)[i] =
                IF Kept(lines[i]) THEN Append(Output(lines)[i - 1], lines[i])
                ELSE Output(lines)[i - 1]
<1> DEFINE Put(g, i) == IF i = 0 THEN <<>>
                         ELSE IF Kept(lines[i]) THEN Append(g[i - 1], lines[i]) ELSE g[i - 1]
           Loop(g, n) == g = [i \in 0..n |-> Put(g, i)]
           Done == {n \in 0..Len(lines) : \E g : Loop(g, n)}
<1>1. Len(lines) \in Nat
  OBVIOUS
<1>2. 0 \in Done
  <2> DEFINE g == [i \in 0..0 |-> <<>>]
  <2>1. Loop(g, 0)
    OBVIOUS
  <2> HIDE DEF Loop, g
  <2> QED BY <1>1, <2>1
<1>3. \A n \in 1..Len(lines) : n - 1 \in Done => n \in Done
  <2> SUFFICES ASSUME NEW n \in 1..Len(lines), n - 1 \in Done PROVE \E h : Loop(h, n)
    <3> HIDE DEF Loop
    <3> QED BY <1>1
  <2>1. PICK g : Loop(g, n - 1)
    OBVIOUS
  <2> DEFINE h == [i \in 0..n |-> IF i = n THEN Put(g, n) ELSE g[i]]
  <2>2. \A i \in 0..n : i # 0 => i - 1 \in 0..(n - 1)
    OBVIOUS
  <2>3. \A i \in 0..(n - 1) : g[i] = Put(g, i)
    BY <2>1
  <2>4. \A i \in 0..(n - 1) : h[i] = g[i]
    OBVIOUS
  <2>5. \A i \in 0..n : i # 0 => h[i - 1] = g[i - 1]
    BY <2>2, <2>4
  <2>6. \A i \in 0..n : Put(h, i) = Put(g, i)
    <3> HIDE DEF h
    <3> QED BY <2>5
  <2>7. \A i \in 0..n : h[i] = Put(h, i)
    <3> SUFFICES ASSUME NEW i \in 0..n PROVE h[i] = Put(h, i)
      OBVIOUS
    <3>1. h[i] = IF i = n THEN Put(g, n) ELSE g[i]
      OBVIOUS
    <3>2. i # n => g[i] = Put(g, i)
      BY <2>3
    <3> HIDE DEF h, Next
    <3> QED BY <3>1, <3>2, <2>6
  <2>8. h = [i \in 0..n |-> h[i]]
    OBVIOUS
  <2>9. Loop(h, n)
    <3> HIDE DEF h, Next
    <3> QED BY <2>7, <2>8
  <2> QED BY <2>9
<1>4. Len(lines) \in Done
  <2>1. Len(lines) \in 0..Len(lines)
    BY <1>1
  <2> HIDE DEF Done
  <2>2. \A n \in 0..Len(lines) : n \in Done
    BY <1>1, <1>2, <1>3, UpTo, Zenon
  <2> QED BY <2>1, <2>2, Zenon
<1>5. PICK g : Loop(g, Len(lines))
  BY <1>4
<1>6. Loop(Output(lines), Len(lines))
  <2> HIDE DEF Loop
  <2>1. Output(lines) = CHOOSE f : Loop(f, Len(lines))
    BY DEF Output, Loop
  <2> QED BY <1>5, <2>1
<1>7. \A i \in 0..Len(lines) : Output(lines)[i] = Put(Output(lines), i)
  BY <1>6
<1> HIDE DEF Loop
<1> QED BY <1>7, <1>1

\* What was put out is what may stay of the lines so far.
LEMMA OutputHolds ==
  ASSUME NEW lines \in Seq(Lines), NEW i \in 0..Len(lines)
  PROVE  /\ Output(lines)[i] \in Seq(Lines)
         /\ \A line : (\E k \in DOMAIN Output(lines)[i] : Output(lines)[i][k] = line)
                         <=> Kept(line) /\ \E k \in 1..i : lines[k] = line
<1> DEFINE o == Output(lines)
           In(s, line) == \E k \in DOMAIN s : s[k] = line
           Right(n) == /\ o[n] \in Seq(Lines)
                       /\ \A line : In(o[n], line) <=> Kept(line) /\ \E k \in 1..n : lines[k] = line
           S == {n \in 0..Len(lines) : Right(n)}
<1> HIDE DEF o
<1>1. /\ o[0] = <<>>
      /\ \A n \in 1..Len(lines) :
           o[n] = IF Kept(lines[n]) THEN Append(o[n - 1], lines[n]) ELSE o[n - 1]
  BY OutputIs DEF o
<1>2. 0 \in S
  <2>1. Right(0)
    BY <1>1
  <2> HIDE DEF Right
  <2> QED BY <2>1
<1>3. \A n \in 1..Len(lines) : n - 1 \in S => n \in S
  <2> SUFFICES ASSUME NEW n \in 1..Len(lines), Right(n - 1) PROVE Right(n)
    <3> HIDE DEF Right
    <3> QED OBVIOUS
  <2>1. lines[n] \in Lines
    OBVIOUS
  <2>2. \A line : (\E k \in 1..n : lines[k] = line)
                     <=> lines[n] = line \/ \E k \in 1..(n - 1) : lines[k] = line
    OBVIOUS
  <2>3. CASE Kept(lines[n])
    <3>1. o[n] = Append(o[n - 1], lines[n])
      BY <1>1, <2>3
    <3>2. \A line : In(o[n], line) <=> In(o[n - 1], line) \/ lines[n] = line
      <4> DEFINE s == o[n - 1]
      <4>1. s \in Seq(Lines)
        OBVIOUS
      <4> HIDE DEF s
      <4>2. DOMAIN Append(s, lines[n]) = 1..Len(s) + 1 /\ DOMAIN s = 1..Len(s) /\ Len(s) \in Nat
        BY <4>1, <2>1
      <4>3. /\ \A k \in 1..Len(s) : Append(s, lines[n])[k] = s[k]
            /\ Append(s, lines[n])[Len(s) + 1] = lines[n]
        BY <4>1, <2>1
      <4>4. \A line : In(Append(s, lines[n]), line) <=> In(s, line) \/ lines[n] = line
        BY <4>2, <4>3
      <4> QED BY <3>1, <4>4 DEF s
    <3>3. o[n] \in Seq(Lines)
      BY <3>1, <2>1
    <3> HIDE DEF In
    <3> QED BY <2>2, <2>3, <3>2, <3>3
  <2>4. CASE ~Kept(lines[n])
    <3>1. o[n] = o[n - 1]
      BY <1>1, <2>4
    <3> HIDE DEF In
    <3> QED BY <2>2, <2>4, <3>1
  <2> QED BY <2>3, <2>4
<1>4. i \in S
  <2>1. Len(lines) \in Nat
    OBVIOUS
  <2> HIDE DEF S
  <2>2. \A n \in 0..Len(lines) : n \in S
    BY <1>2, <1>3, <2>1, UpTo, Zenon
  <2> QED BY <2>2
<1> QED BY <1>4 DEF o

\* A run over lines that may all stay drops none.
LEMMA NothingToDrop ==
  ASSUME NEW lines \in Seq(Lines), \A i \in DOMAIN lines : Kept(lines[i])
  PROVE  Output(lines)[Len(lines)] = lines
<1> DEFINE o == Output(lines)
           Right(n) == /\ o[n] \in Seq(Lines) /\ Len(o[n]) = n
                       /\ \A k \in 1..n : o[n][k] = lines[k]
           S == {n \in 0..Len(lines) : Right(n)}
<1> HIDE DEF o
<1>1. /\ o[0] = <<>>
      /\ \A n \in 1..Len(lines) : o[n] = Append(o[n - 1], lines[n])
  <2>1. \A n \in 1..Len(lines) : Kept(lines[n])
    OBVIOUS
  <2> QED BY <2>1, OutputIs DEF o
<1>2. 0 \in S
  <2>1. Right(0)
    BY <1>1
  <2> HIDE DEF Right
  <2> QED BY <2>1
<1>3. \A n \in 1..Len(lines) : n - 1 \in S => n \in S
  <2> SUFFICES ASSUME NEW n \in 1..Len(lines), Right(n - 1) PROVE Right(n)
    <3> HIDE DEF Right
    <3> QED OBVIOUS
  <2>1. lines[n] \in Lines /\ o[n] = Append(o[n - 1], lines[n])
    BY <1>1
  <2>2. o[n] \in Seq(Lines) /\ Len(o[n]) = n
    BY <2>1
  <2>3. \A k \in 1..n : o[n][k] = lines[k]
    BY <2>1
  <2> QED BY <2>2, <2>3
<1>4. Len(lines) \in S
  <2>1. Len(lines) \in Nat /\ Len(lines) \in 0..Len(lines)
    OBVIOUS
  <2> HIDE DEF S
  <2>2. \A n \in 0..Len(lines) : n \in S
    BY <1>2, <1>3, <2>1, UpTo, Zenon
  <2> QED BY <2>1, <2>2, Zenon
<1>5. o[Len(lines)] = lines
  BY <1>4
<1> QED BY <1>5 DEF o

\* Two more lines that are dropped, after line i, change nothing of what is put out.
LEMMA DroppedLinesDoNotCount ==
  ASSUME NEW lines \in Seq(Lines), NEW more \in Seq(Lines), NEW i \in 0..Len(lines),
         Len(more) = Len(lines) + 2,
         \A k \in 1..i : more[k] = lines[k],
         ~Kept(more[i + 1]), ~Kept(more[i + 2]),
         \A k \in (i + 1)..Len(lines) : more[k + 2] = lines[k]
  PROVE  Output(more)[Len(more)] = Output(lines)[Len(lines)]
<1> DEFINE o == Output(lines)
           p == Output(more)
           S == {n \in 0..Len(lines) : (n <= i => p[n] = o[n]) /\ (n >= i => p[n + 2] = o[n])}
<1> HIDE DEF o, p
<1>1. /\ o[0] = <<>>
      /\ \A n \in 1..Len(lines) :
           o[n] = IF Kept(lines[n]) THEN Append(o[n - 1], lines[n]) ELSE o[n - 1]
  BY OutputIs DEF o
<1>2. /\ p[0] = <<>>
      /\ \A n \in 1..Len(more) :
           p[n] = IF Kept(more[n]) THEN Append(p[n - 1], more[n]) ELSE p[n - 1]
  BY OutputIs DEF p
<1>3. p[i + 2] = p[i]
  <2>1. p[i + 2] = p[(i + 2) - 1] /\ (i + 2) - 1 = i + 1
    BY <1>2
  <2>2. p[i + 1] = p[(i + 1) - 1] /\ (i + 1) - 1 = i
    BY <1>2
  <2> QED BY <2>1, <2>2
<1>4. 0 \in S
  BY <1>1, <1>2, <1>3
<1>5. \A n \in 1..Len(lines) : n - 1 \in S => n \in S
  <2> SUFFICES ASSUME NEW n \in 1..Len(lines), n - 1 \in S PROVE n \in S
    OBVIOUS
  <2>1. n <= i => p[n] = o[n]
    <3> SUFFICES ASSUME n <= i PROVE p[n] = o[n]
      OBVIOUS
    <3>1. n \in 1..Len(more) /\ more[n] = lines[n] /\ p[n - 1] = o[n - 1]
      OBVIOUS
    <3> QED BY <1>1, <1>2, <3>1
  <2>2. n >= i => p[n + 2] = o[n]
    <3>1. CASE n = i
      BY <1>3, <2>1, <3>1
    <3>2. CASE n > i
      <4>1. n + 2 \in 1..Len(more) /\ more[n + 2] = lines[n]
        BY <3>2
      <4>2. p[(n - 1) + 2] = o[n - 1] /\ (n + 2) - 1 = (n - 1) + 2
        BY <3>2
      <4>3. p[n + 2] = IF Kept(more[n + 2]) THEN Append(p[(n + 2) - 1], more[n + 2]) ELSE p[(n + 2) - 1]
        BY <1>2, <4>1
      <4> QED BY <1>1, <4>1, <4>2, <4>3
    <3> QED BY <3>1, <3>2
  <2> QED BY <2>1, <2>2
<1>6. Len(lines) \in S
  <2>1. Len(lines) \in Nat /\ Len(lines) \in 0..Len(lines)
    OBVIOUS
  <2> HIDE DEF S
  <2>2. \A n \in 0..Len(lines) : n \in S
    BY <1>4, <1>5, <2>1, UpTo, Zenon
  <2> QED BY <2>1, <2>2, Zenon
<1> QED BY <1>6 DEF o, p

\* Whatever lines a header file has.
LEMMA SensitiveIsDropped ==
  ASSUME NEW lines \in Seq(Lines), NEW i \in 0..Len(lines)
  PROVE  Sanitize(SubSeq(lines, 1, i) \o <<"cookie", "folded">> \o SubSeq(lines, i + 1, Len(lines)))
           = Sanitize(lines)
<1> DEFINE before == SubSeq(lines, 1, i)
           after == SubSeq(lines, i + 1, Len(lines))
           two == <<"cookie", "folded">>
           more == before \o two \o after
<1>1. before \in Seq(Lines) /\ Len(before) = i /\ \A k \in 1..i : before[k] = lines[k]
  OBVIOUS
<1>2. /\ after \in Seq(Lines) /\ Len(after) = Len(lines) - i
      /\ \A k \in 1..Len(after) : after[k] = lines[i + k]
  OBVIOUS
<1>3. two \in Seq(Lines) /\ Len(two) = 2 /\ two[1] = "cookie" /\ two[2] = "folded"
  BY DEF Lines
<1> HIDE DEF before, after, two
<1>4. /\ before \o two \in Seq(Lines) /\ Len(before \o two) = i + 2
      /\ \A k \in 1..i : (before \o two)[k] = lines[k]
      /\ (before \o two)[i + 1] = "cookie" /\ (before \o two)[i + 2] = "folded"
  <2> DEFINE start == before \o two
  <2>1. /\ start \in Seq(Lines) /\ Len(start) = Len(before) + Len(two)
        /\ \A k \in 1..Len(before) + Len(two) :
             start[k] = IF k <= Len(before) THEN before[k] ELSE two[k - Len(before)]
    BY <1>1, <1>3, ConcatProperties, Zenon
  <2> HIDE DEF start
  <2>2. /\ start \in Seq(Lines) /\ Len(start) = i + 2 /\ \A k \in 1..i : start[k] = lines[k]
        /\ start[i + 1] = "cookie" /\ start[i + 2] = "folded"
    BY <1>1, <1>3, <2>1
  <2> QED BY <2>2 DEF start
<1>5. more \in Seq(Lines) /\ Len(more) = Len(lines) + 2
  <2>1. more \in Seq(Lines) /\ Len(more) = Len(before \o two) + Len(after)
    BY <1>2, <1>4, ConcatProperties, Zenon
  <2> HIDE DEF more
  <2> QED BY <1>2, <1>4, <2>1
<1>6. /\ \A k \in 1..i : more[k] = lines[k]
      /\ more[i + 1] = "cookie" /\ more[i + 2] = "folded"
  BY <1>2, <1>4
<1>7. \A k \in (i + 1)..Len(lines) : more[k + 2] = lines[k]
  <2> SUFFICES ASSUME NEW k \in (i + 1)..Len(lines) PROVE more[k + 2] = lines[k]
    OBVIOUS
  <2>1. k - i \in 1..Len(after) /\ after[k - i] = lines[i + (k - i)] /\ i + (k - i) = k
    BY <1>2
  <2>2. /\ (i + 2) + (k - i) = k + 2 /\ k + 2 \in 1..(i + 2) + Len(after)
        /\ ~(k + 2 <= i + 2) /\ (k + 2) - (i + 2) = k - i
    BY <1>2
  <2>3. before \o two \in Seq(Lines) /\ after \in Seq(Lines) /\ Len(before \o two) = i + 2
    BY <1>2, <1>4
  <2> DEFINE start == before \o two
  <2> HIDE DEF start
  <2>4. \A j \in 1..Len(start) + Len(after) :
          (start \o after)[j] = IF j <= Len(start) THEN start[j] ELSE after[j - Len(start)]
    BY <2>3, ConcatProperties, Zenon DEF start
  <2>5. (start \o after)[k + 2] = after[k - i]
    BY <2>2, <2>3, <2>4 DEF start
  <2> QED BY <2>1, <2>5 DEF start
<1> HIDE DEF more
<1>8. ~Kept(more[i + 1]) /\ ~Kept(more[i + 2])
  BY <1>6 DEF Kept, Named, Fields, ALLOWED_FIELDS
<1>9. Output(more)[Len(more)] = Output(lines)[Len(lines)]
  BY <1>5, <1>6, <1>7, <1>8, DroppedLinesDoNotCount
<1>10. "junk" \in ToSet(more) <=> "junk" \in ToSet(lines)
  <2>1. ASSUME NEW k \in 1..Len(more), more[k] = "junk" PROVE \E j \in 1..Len(lines) : lines[j] = "junk"
    <3>1. CASE k <= i
      BY <1>6, <2>1, <3>1
    <3>2. CASE k > i
      <4>1. k # i + 1 /\ k # i + 2
        BY <1>6, <2>1
      <4>2. k - 2 \in (i + 1)..Len(lines) /\ (k - 2) + 2 = k
        BY <1>5, <3>2, <4>1
      <4>3. lines[k - 2] = "junk" /\ k - 2 \in 1..Len(lines)
        BY <1>7, <2>1, <4>2
      <4> QED BY <4>3
    <3> QED BY <3>1, <3>2
  <2>2. ASSUME NEW j \in 1..Len(lines), lines[j] = "junk" PROVE \E k \in 1..Len(more) : more[k] = "junk"
    <3>1. CASE j <= i
      BY <1>5, <1>6, <2>2, <3>1
    <3>2. CASE j > i
      BY <1>5, <1>7, <2>2, <3>2
    <3> QED BY <3>1, <3>2
  <2>3. DOMAIN more = 1..Len(more) /\ DOMAIN lines = 1..Len(lines)
    BY <1>5
  <2> QED BY <2>1, <2>2, <2>3 DEF ToSet
<1>11. Sanitize(more) = Sanitize(lines)
  BY <1>9, <1>10 DEF Sanitize
<1> QED BY <1>11 DEF more, before, after, two

LEMMA SecondRunDropsNothing ==
  ASSUME NEW lines \in Seq(Lines), Sanitize(lines) # Refused
  PROVE  /\ Sanitize(Sanitize(lines)) = Sanitize(lines)
         /\ Names(Sanitize(lines)) = Retained(lines)
<1> DEFINE left == Output(lines)[Len(lines)]
           In(line) == \E k \in DOMAIN left : left[k] = line
<1>1. left \in Seq(Lines)
  BY OutputHolds
<1>2. \A line : In(line) <=> Kept(line) /\ \E k \in 1..Len(lines) : lines[k] = line
  BY OutputHolds
<1>3. Sanitize(lines) = left /\ IsSanitized(left)
  BY DEF Sanitize
<1> HIDE DEF left
<1>4. \A i \in DOMAIN left : Kept(left[i])
  BY <1>2
<1>5. "junk" \notin ToSet(left)
  <2>1. ~Kept("junk")
    BY DEF Kept, Named, Fields
  <2> QED BY <1>4, <2>1 DEF ToSet
<1>6. Sanitize(left) = left
  BY <1>1, <1>3, <1>4, <1>5, NothingToDrop DEF Sanitize
<1>7. Names(left) = Retained(lines)
  <2>1. ASSUME NEW n PROVE n \in Names(left) <=> \E line : In(line) /\ Named(line) /\ Fields[line] = n
    BY DEF Names
  <2>2. ASSUME NEW n PROVE n \in Names(lines) <=>
          \E line : (\E k \in 1..Len(lines) : lines[k] = line) /\ Named(line) /\ Fields[line] = n
    BY DEF Names
  <2>3. \A line : Named(line) => (Kept(line) <=> Fields[line] \in ALLOWED_FIELDS)
    BY DEF Named, Kept, Fields
  <2>4. ASSUME NEW n PROVE n \in Names(left) <=> n \in Names(lines) /\ n \in ALLOWED_FIELDS
    <3> HIDE DEF In
    <3> QED BY <1>2, <2>1, <2>2, <2>3
  <2> QED BY <2>4 DEF Retained
<1> QED BY <1>3, <1>6, <1>7

\* Nothing writes the staged file.
LEMMA StagedStays == Spec => [](staged \in Seq(Lines))
<1>1. Init => staged \in Seq(Lines)
  <2>1. FrozenHeader \in Seq(Lines)
    BY DEF FrozenHeader, Lines
  <2>2. \A lines \in Raws : lines \in Seq(Lines)
    BY EvidenceAssumption DEF Raws, BoundedSeq, SeqOf
  <2>3. Init => staged \in Raws \cup {FrozenHeader}
    BY DEF Init
  <2> QED BY <2>1, <2>2, <2>3
<1>2. [Next]_allVars => UNCHANGED staged
  <2>1. SanitizeTree => UNCHANGED staged
    BY DEF SanitizeTree
  <2>2. Verify => UNCHANGED staged
    BY DEF Verify, TakeScan, ReadInventory, CompareSets, ReadContent, Rescan, Look, LoadDocument,
           LoadManifest, CheckDigest, CompareDocuments, Unchanged
  <2>3. Others => UNCHANGED staged
    BY DEF Others, Write, TakeAway, PutBack, AddEntry, RemoveEntry, Changes
  <2> QED BY <2>1, <2>2, <2>3 DEF Next, allVars
<1>3. staged \in Seq(Lines) /\ UNCHANGED staged => (staged \in Seq(Lines))'
  OBVIOUS
<1> QED BY <1>1, <1>2, <1>3, PTL DEF Spec

\* In a header file of any length: whatever is sensitive could as well not have been
\* there, with its continuation lines, at any place, and a second run drops nothing.
THEOREM NoTraceOfSensitive == Spec => []SensitiveLeavesNoTrace
<1>1. staged \in Seq(Lines) => SensitiveLeavesNoTrace
  <2> SUFFICES ASSUME staged \in Seq(Lines)
               PROVE  SensitiveLeavesNoTrace
    OBVIOUS
  <2>1. \A i \in 0..Len(staged) :
          Sanitize(SubSeq(staged, 1, i) \o <<"cookie", "folded">> \o SubSeq(staged, i + 1, Len(staged)))
            = Sanitize(staged)
    BY SensitiveIsDropped
  <2>2. Sanitize(staged) # Refused =>
          /\ Sanitize(Sanitize(staged)) = Sanitize(staged)
          /\ Names(Sanitize(staged)) = Retained(staged)
    BY SecondRunDropsNothing
  <2> QED BY <2>1, <2>2 DEF SensitiveLeavesNoTrace
<1> QED BY <1>1, StagedStays, PTL
=============================================================================
