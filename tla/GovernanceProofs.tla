--------------------------- MODULE GovernanceProofs ---------------------------
(***************************************************************************)
(* Labels and what is scored against them.                                 *)
(*                                                                         *)
(* What a verified ledger proves of the labels it holds, for any number of *)
(* people, items, rounds, corrections and irregular entries: the book only *)
(* grows, so that whatever a ledger was accepted for stays true; the rest  *)
(* follows from what verify_labeling_governance has compared.              *)
(*                                                                         *)
(* What a score says of a candidate, for any labels, answers and policy:   *)
(* an error falls to one gate because the frozen policy has one for it,    *)
(* and a better answer moves every ratio of every gate upwards.            *)
(***************************************************************************)
EXTENDS LabelCustody, Scorer, TLAPS, WellFoundedInduction, FiniteSetTheorems

AcceptedStays == \A n \in DOMAIN book : book[n].verified => Accepts(book[n].ledger)

IInv == TypeOK /\ AcceptedStays

-----------------------------------------------------------------------------
(* Numbers: the smallest and the largest of a set.                         *)
LEMMA NatMin ==
  ASSUME NEW T \in SUBSET Nat, T # {}
  PROVE  \E n \in T : \A m \in T : n <= m
<1> DEFINE R == OpToRel(<, Nat)
<1>1. IsWellFoundedOn(R, Nat)
  BY NatLessThanWellFounded
<1>2. \A m, n \in Nat : m < n => <<m, n>> \in R
  BY DEF OpToRel
<1> HIDE DEF R
<1>3. PICK n \in T : \A m \in T : ~ (<<m, n>> \in R)
  BY <1>1, WFMin
<1>4. \A m \in T : ~ (m < n)
  <2> TAKE m \in T
  <2>1. ~ (<<m, n>> \in R)
    BY <1>3
  <2>2. m \in Nat /\ n \in Nat
    OBVIOUS
  <2>3. m < n => <<m, n>> \in R
    BY <1>2, <2>2, Zenon
  <2> QED BY <2>1, <2>3
<1>5. \A m \in T : m \in Nat /\ n \in Nat
  OBVIOUS
<1> QED BY <1>4, <1>5

LEMMA NatMax ==
  ASSUME NEW b \in Nat, NEW T \in SUBSET (1..b), T # {}
  PROVE  \E n \in T : \A m \in T : m <= n
<1> DEFINE D == {b - m : m \in T}
<1>1. D \in SUBSET Nat /\ D # {}
  <2>1. \A m \in T : b - m \in Nat
    OBVIOUS
  <2>2. \A d \in D : d \in Nat
    BY <2>1
  <2> QED BY <2>2
<1>2. PICK d \in D : \A e \in D : d <= e
  BY <1>1, NatMin
<1>3. PICK n \in T : d = b - n
  BY <1>2
<1>4. \A m \in T : b - m \in D
  OBVIOUS
<1>5. \A m \in T : d <= b - m
  BY <1>2, <1>4
<1> QED BY <1>3, <1>5

-----------------------------------------------------------------------------
(* Types.                                                                  *)
LEMMA BoundTypes ==
  /\ LastSecond \in Nat /\ MaxSlips \in Nat
  /\ MaxRounds \in Nat \ {0} /\ MaxDecisions \in Nat \ {0} /\ MaxLedgers \in Nat \ {0}
  /\ PacketSeconds \subseteq Seconds /\ PredictionSeconds \subseteq Seconds
  /\ 0 \in Seconds /\ Never \in Nat /\ \A t \in Seconds : t \in Nat /\ t < Never
<1>1. LastSecond \in Nat /\ MaxSlips \in Nat
      /\ PacketSeconds \cup PredictionSeconds \subseteq Seconds
  BY BoundAssumption
<1>2. MaxRounds \in Nat \ {0} /\ MaxDecisions \in Nat \ {0} /\ MaxLedgers \in Nat \ {0}
  BY BoundAssumption
<1>3. 0 \in Seconds /\ Never \in Nat /\ \A t \in Seconds : t \in Nat /\ t < Never
  BY <1>1 DEF Seconds, Never
<1> QED BY <1>1, <1>2, <1>3

LEMMA LedgerTypes ==
  ASSUME NEW l \in Ledgers
  PROVE  /\ l = [prior |-> l.prior, rounds |-> l.rounds, submissions |-> l.submissions,
                 decisions |-> l.decisions, active |-> l.active, frozen |-> l.frozen]
         /\ l.prior \in 0..MaxLedgers /\ l.rounds \in Seq(Rounds)
         /\ l.submissions \in SUBSET Submissions /\ l.decisions \in Seq(Events)
         /\ l.active \in SUBSET (1..MaxDecisions) /\ l.frozen \in Seconds
         /\ Len(l.rounds) <= MaxRounds /\ Len(l.decisions) <= MaxDecisions
BY DEF Ledgers

\* Putting a ledger together.
LEMMA LedgerOf ==
  ASSUME NEW p \in 0..MaxLedgers, NEW r \in Seq(Rounds), NEW s \in SUBSET Submissions,
         NEW d \in Seq(Events), NEW a \in SUBSET (1..MaxDecisions), NEW t \in Seconds,
         Len(r) <= MaxRounds, Len(d) <= MaxDecisions
  PROVE  [prior |-> p, rounds |-> r, submissions |-> s, decisions |-> d, active |-> a,
          frozen |-> t] \in Ledgers
BY DEF Ledgers

LEMMA BlankType == Blank \in Ledgers /\ Blank.prior = 0
<1>1. <<>> \in Seq(Rounds) /\ <<>> \in Seq(Events) /\ Len(<<>>) = 0
  OBVIOUS
<1>2. {} \in SUBSET Submissions /\ {} \in SUBSET (1..MaxDecisions) /\ 0 \in 0..MaxLedgers
  BY BoundTypes
<1>3. Len(<<>>) <= MaxRounds /\ Len(<<>>) <= MaxDecisions
  BY <1>1, BoundTypes
<1> QED BY <1>1, <1>2, <1>3, BoundTypes DEF Blank, Ledgers

LEMMA InitType == Init => TypeOK
<1> SUFFICES ASSUME Init PROVE TypeOK
  OBVIOUS
<1>3. book \in Seq([ledger : Ledgers, verified : BOOLEAN]) /\ Len(book) = 0
  BY DEF Init
<1>4. prepared \in Seconds /\ predictionsStarted \in Seconds \cup {Never} /\ slips \in 0..MaxSlips
  BY BoundTypes DEF Init
<1>5. \A n \in DOMAIN book : book[n].ledger.prior < n
  BY DEF Init
<1>6. draft \in Ledgers /\ draft.prior <= Len(book) /\ writing \in BOOLEAN
  <2>1. draft = Blank /\ writing = FALSE
    BY DEF Init
  <2>2. draft.prior <= Len(book)
    BY <1>3, <2>1, BlankType
  <2> QED BY BlankType, <2>1, <2>2
<1>7. Len(book) <= MaxLedgers
  BY <1>3, BoundTypes
<1>8. writing = FALSE
  BY DEF Init
<1> QED BY <1>3, <1>4, <1>5, <1>6, <1>7, <1>8 DEF TypeOK

LEMMA NowType ==
  ASSUME TypeOK PROVE Now \in Seconds
BY BoundTypes DEF TypeOK, Now, Seconds

LEMMA SlipType ==
  ASSUME TypeOK, NEW n \in Nat, Slip(n) PROVE slips' \in 0..MaxSlips
BY BoundTypes DEF TypeOK, Slip
\* Changing one part of a ledger.
LEMMA WithPrior ==
  ASSUME NEW l \in Ledgers, NEW p \in 0..MaxLedgers
  PROVE  /\ [l EXCEPT !.prior = p] \in Ledgers
         /\ [l EXCEPT !.prior = p].prior = p
<1> DEFINE k == [prior |-> p, rounds |-> l.rounds, submissions |-> l.submissions, decisions |-> l.decisions,
        active |-> l.active, frozen |-> l.frozen]
<1>1. l = [prior |-> l.prior, rounds |-> l.rounds, submissions |-> l.submissions,
           decisions |-> l.decisions, active |-> l.active, frozen |-> l.frozen]
  BY LedgerTypes
<1>2. [l EXCEPT !.prior = p] = k
  BY <1>1
<1>3. k \in Ledgers
  <2>1. /\ l.prior \in 0..MaxLedgers /\ l.rounds \in Seq(Rounds)
        /\ l.submissions \in SUBSET Submissions /\ l.decisions \in Seq(Events)
        /\ l.active \in SUBSET (1..MaxDecisions) /\ l.frozen \in Seconds
        /\ Len(l.rounds) <= MaxRounds /\ Len(l.decisions) <= MaxDecisions
    BY LedgerTypes
  <2> QED BY <2>1 DEF Ledgers
<1>4. k.prior = p
  OBVIOUS
<1> HIDE DEF k
<1> QED BY <1>2, <1>3, <1>4

LEMMA WithRounds ==
  ASSUME NEW l \in Ledgers, NEW r \in Seq(Rounds), Len(r) <= MaxRounds,
         NEW s \in SUBSET Submissions
  PROVE  /\ [l EXCEPT !.rounds = r, !.submissions = s] \in Ledgers
         /\ [l EXCEPT !.rounds = r, !.submissions = s].prior = l.prior
<1> DEFINE k == [prior |-> l.prior, rounds |-> r, submissions |-> s, decisions |-> l.decisions,
        active |-> l.active, frozen |-> l.frozen]
<1>1. l = [prior |-> l.prior, rounds |-> l.rounds, submissions |-> l.submissions,
           decisions |-> l.decisions, active |-> l.active, frozen |-> l.frozen]
  BY LedgerTypes
<1>2. [l EXCEPT !.rounds = r, !.submissions = s] = k
  <2> DEFINE m == [l EXCEPT !.rounds = r]
  <2>1. m = [prior |-> l.prior, rounds |-> r, submissions |-> l.submissions, decisions |-> l.decisions,
         active |-> l.active, frozen |-> l.frozen]
    BY <1>1
  <2> HIDE DEF m
  <2>2. [m EXCEPT !.submissions = s] = k
    BY <2>1
  <2> HIDE DEF k
  <2> QED BY <2>2 DEF m
<1>3. k \in Ledgers
  <2>1. /\ l.prior \in 0..MaxLedgers /\ l.rounds \in Seq(Rounds)
        /\ l.submissions \in SUBSET Submissions /\ l.decisions \in Seq(Events)
        /\ l.active \in SUBSET (1..MaxDecisions) /\ l.frozen \in Seconds
        /\ Len(l.rounds) <= MaxRounds /\ Len(l.decisions) <= MaxDecisions
    BY LedgerTypes
  <2> QED BY <2>1 DEF Ledgers
<1>4. k.prior = l.prior
  OBVIOUS
<1> HIDE DEF k
<1> QED BY <1>2, <1>3, <1>4

LEMMA WithTheseRounds ==
  ASSUME NEW l \in Ledgers, NEW r \in Seq(Rounds), Len(r) <= MaxRounds
  PROVE  /\ [l EXCEPT !.rounds = r] \in Ledgers
         /\ [l EXCEPT !.rounds = r].prior = l.prior
<1> DEFINE k == [prior |-> l.prior, rounds |-> r, submissions |-> l.submissions, decisions |-> l.decisions,
        active |-> l.active, frozen |-> l.frozen]
<1>1. l = [prior |-> l.prior, rounds |-> l.rounds, submissions |-> l.submissions,
           decisions |-> l.decisions, active |-> l.active, frozen |-> l.frozen]
  BY LedgerTypes
<1>2. [l EXCEPT !.rounds = r] = k
  BY <1>1
<1>3. k \in Ledgers
  <2>1. /\ l.prior \in 0..MaxLedgers /\ l.rounds \in Seq(Rounds)
        /\ l.submissions \in SUBSET Submissions /\ l.decisions \in Seq(Events)
        /\ l.active \in SUBSET (1..MaxDecisions) /\ l.frozen \in Seconds
        /\ Len(l.rounds) <= MaxRounds /\ Len(l.decisions) <= MaxDecisions
    BY LedgerTypes
  <2> QED BY <2>1 DEF Ledgers
<1>4. k.prior = l.prior
  OBVIOUS
<1> HIDE DEF k
<1> QED BY <1>2, <1>3, <1>4

LEMMA WithTheseSubmissions ==
  ASSUME NEW l \in Ledgers, NEW s \in SUBSET Submissions
  PROVE  /\ [l EXCEPT !.submissions = s] \in Ledgers
         /\ [l EXCEPT !.submissions = s].prior = l.prior
<1> DEFINE k == [prior |-> l.prior, rounds |-> l.rounds, submissions |-> s, decisions |-> l.decisions,
        active |-> l.active, frozen |-> l.frozen]
<1>1. l = [prior |-> l.prior, rounds |-> l.rounds, submissions |-> l.submissions,
           decisions |-> l.decisions, active |-> l.active, frozen |-> l.frozen]
  BY LedgerTypes
<1>2. [l EXCEPT !.submissions = s] = k
  BY <1>1
<1>3. k \in Ledgers
  <2>1. /\ l.prior \in 0..MaxLedgers /\ l.rounds \in Seq(Rounds)
        /\ l.submissions \in SUBSET Submissions /\ l.decisions \in Seq(Events)
        /\ l.active \in SUBSET (1..MaxDecisions) /\ l.frozen \in Seconds
        /\ Len(l.rounds) <= MaxRounds /\ Len(l.decisions) <= MaxDecisions
    BY LedgerTypes
  <2> QED BY <2>1 DEF Ledgers
<1>4. k.prior = l.prior
  OBVIOUS
<1> HIDE DEF k
<1> QED BY <1>2, <1>3, <1>4

LEMMA WithDecisions ==
  ASSUME NEW l \in Ledgers, NEW d \in Seq(Events), Len(d) <= MaxDecisions
  PROVE  /\ [l EXCEPT !.decisions = d] \in Ledgers
         /\ [l EXCEPT !.decisions = d].prior = l.prior
<1> DEFINE k == [prior |-> l.prior, rounds |-> l.rounds, submissions |-> l.submissions, decisions |-> d,
        active |-> l.active, frozen |-> l.frozen]
<1>1. l = [prior |-> l.prior, rounds |-> l.rounds, submissions |-> l.submissions,
           decisions |-> l.decisions, active |-> l.active, frozen |-> l.frozen]
  BY LedgerTypes
<1>2. [l EXCEPT !.decisions = d] = k
  BY <1>1
<1>3. k \in Ledgers
  <2>1. /\ l.prior \in 0..MaxLedgers /\ l.rounds \in Seq(Rounds)
        /\ l.submissions \in SUBSET Submissions /\ l.decisions \in Seq(Events)
        /\ l.active \in SUBSET (1..MaxDecisions) /\ l.frozen \in Seconds
        /\ Len(l.rounds) <= MaxRounds /\ Len(l.decisions) <= MaxDecisions
    BY LedgerTypes
  <2> QED BY <2>1 DEF Ledgers
<1>4. k.prior = l.prior
  OBVIOUS
<1> HIDE DEF k
<1> QED BY <1>2, <1>3, <1>4

LEMMA WithFrozen ==
  ASSUME NEW l \in Ledgers, NEW t \in Seconds, NEW a \in SUBSET (1..MaxDecisions)
  PROVE  /\ [l EXCEPT !.frozen = t, !.active = a] \in Ledgers
         /\ [l EXCEPT !.frozen = t, !.active = a].prior = l.prior
<1> DEFINE k == [prior |-> l.prior, rounds |-> l.rounds, submissions |-> l.submissions, decisions |-> l.decisions,
        active |-> a, frozen |-> t]
<1>1. l = [prior |-> l.prior, rounds |-> l.rounds, submissions |-> l.submissions,
           decisions |-> l.decisions, active |-> l.active, frozen |-> l.frozen]
  BY LedgerTypes
<1>2. [l EXCEPT !.frozen = t, !.active = a] = k
  <2> DEFINE m == [l EXCEPT !.frozen = t]
  <2>1. m = [prior |-> l.prior, rounds |-> l.rounds, submissions |-> l.submissions, decisions |-> l.decisions,
         active |-> l.active, frozen |-> t]
    BY <1>1
  <2> HIDE DEF m
  <2>2. [m EXCEPT !.active = a] = k
    BY <2>1
  <2> HIDE DEF k
  <2> QED BY <2>2 DEF m
<1>3. k \in Ledgers
  <2>1. /\ l.prior \in 0..MaxLedgers /\ l.rounds \in Seq(Rounds)
        /\ l.submissions \in SUBSET Submissions /\ l.decisions \in Seq(Events)
        /\ l.active \in SUBSET (1..MaxDecisions) /\ l.frozen \in Seconds
        /\ Len(l.rounds) <= MaxRounds /\ Len(l.decisions) <= MaxDecisions
    BY LedgerTypes
  <2> QED BY <2>1 DEF Ledgers
<1>4. k.prior = l.prior
  OBVIOUS
<1> HIDE DEF k
<1> QED BY <1>2, <1>3, <1>4
-----------------------------------------------------------------------------
(* Every step keeps the types.                                             *)
LEMMA BookTypes ==
  ASSUME TypeOK
  PROVE  /\ Len(book) \in Nat /\ DOMAIN book = 1..Len(book)
         /\ \A n \in DOMAIN book :
              /\ book[n] \in [ledger : Ledgers, verified : BOOLEAN]
              /\ book[n].ledger \in Ledgers /\ book[n].ledger.prior < n
<1>1. book \in Seq([ledger : Ledgers, verified : BOOLEAN])
  BY DEF TypeOK
<1> DEFINE Entry == [ledger : Ledgers, verified : BOOLEAN]
<1>2. Len(book) \in Nat /\ DOMAIN book = 1..Len(book)
      /\ \A n \in DOMAIN book : book[n] \in Entry
  <2>1. book \in Seq(Entry)
    BY <1>1
  <2> HIDE DEF Entry
  <2> QED BY <2>1
<1>3. \A n \in DOMAIN book : book[n].ledger.prior < n
  BY DEF TypeOK
<1> QED BY <1>2, <1>3

LEMMA BeginTypes ==
  ASSUME TypeOK, NEW base \in 0..Len(book), NEW prior \in 0..Len(book), Begin(base, prior)
  PROVE  TypeOK'
<1> DEFINE b == IF base = 0 THEN Blank ELSE book[base].ledger
<1>1. Len(book) \in Nat /\ Len(book) < MaxLedgers
  BY DEF TypeOK, Begin
<1>2. b \in Ledgers
  <2>1. base # 0 => base \in DOMAIN book
    BY <1>1, BookTypes
  <2> QED BY <2>1, BookTypes, BlankType
<1>3. draft' = [b EXCEPT !.prior = prior] /\ writing' = TRUE
  BY DEF Begin
<1> HIDE DEF b
<1>4. prior \in 0..MaxLedgers /\ prior <= Len(book)
  BY <1>1, BoundTypes
<1>5. draft' \in Ledgers /\ draft'.prior = prior
  BY <1>2, <1>3, <1>4, WithPrior
<1>6. slips' \in 0..MaxSlips
  <2>1. \E n \in Nat : Slip(n)
    <3>1. Slip(IF base = prior THEN 0 ELSE 1)
      BY DEF Begin
    <3> QED BY <3>1
  <2> QED BY <2>1, SlipType
<1>7. UNCHANGED <<prepared, predictionsStarted, book>>
  BY DEF Begin, facts
<1> QED BY <1>1, <1>3, <1>4, <1>5, <1>6, <1>7 DEF TypeOK

\* A step that only writes in the draft.
LEMMA DraftTypes ==
  ASSUME TypeOK, draft' \in Ledgers, draft'.prior = draft.prior,
         NEW n \in Nat, Slip(n), UNCHANGED <<facts, book, writing>>
  PROVE  TypeOK'
<1>1. slips' \in 0..MaxSlips
  BY SlipType
<1>2. UNCHANGED <<prepared, predictionsStarted, book, writing>>
  BY DEF facts
<1> QED BY <1>1, <1>2 DEF TypeOK

LEMMA HoldRoundTypes ==
  ASSUME TypeOK, NEW team \in Teams, HoldRound(team)
  PROVE  TypeOK'
<1> DEFINE r == [labelers |-> team.labelers, adjudicator |-> team.adjudicator,
                 opened |-> Now, completed |-> Now]
           held == {[round |-> Len(draft.rounds) + 1, labeler |-> p, decided |-> Now,
                     submitted |-> Now, answers |-> "first"] : p \in team.labelers}
           rounds == Append(draft.rounds, r)
           subs == draft.submissions \cup held
<1>1. team.labelers \subseteq People /\ team.adjudicator \in People
  BY PeopleAssumption DEF TeamType
<1>2. Now \in Seconds /\ draft \in Ledgers
  BY NowType DEF TypeOK
<1>3. r \in Rounds
  BY <1>1, <1>2 DEF Rounds
<1>4. draft.rounds \in Seq(Rounds) /\ draft.submissions \in SUBSET Submissions
  BY <1>2, LedgerTypes
<1>5. Len(draft.rounds) < MaxRounds
  BY DEF HoldRound
<1>6. Len(draft.rounds) + 1 \in 1..MaxRounds
  BY <1>4, <1>5, BoundTypes
<1>7. held \in SUBSET Submissions
  BY <1>1, <1>2, <1>6 DEF Submissions
<1>8. draft' = [draft EXCEPT !.rounds = rounds, !.submissions = subs]
  BY DEF HoldRound
<1> HIDE DEF r, held
<1>9. rounds \in Seq(Rounds) /\ Len(rounds) <= MaxRounds
  BY <1>3, <1>4, <1>5, BoundTypes
<1>10. subs \in SUBSET Submissions
  BY <1>4, <1>7
<1> HIDE DEF rounds, subs
<1>11. draft' \in Ledgers /\ draft'.prior = draft.prior
  BY <1>2, <1>8, <1>9, <1>10, WithRounds
<1>12. Slip(IF draft.prior = 0 /\ draft.rounds # <<>> THEN 1 ELSE 0)
        /\ UNCHANGED <<facts, book, writing>>
  BY DEF HoldRound
<1>13. (IF draft.prior = 0 /\ draft.rounds # <<>> THEN 1 ELSE 0) \in Nat
  OBVIOUS
<1> QED BY <1>11, <1>12, <1>13, DraftTypes

LEMMA EarlierCount ==
  ASSUME draft \in Ledgers, NEW i
  PROVE  Cardinality(Earlier(i)) \in Nat /\ Cardinality(Earlier(i)) <= Len(draft.decisions)
<1>1. draft.decisions \in Seq(Events)
  BY LedgerTypes
<1>2. Earlier(i) \in SUBSET (1..Len(draft.decisions)) /\ Len(draft.decisions) \in Nat
  BY <1>1 DEF Earlier
<1>3. IsFiniteSet(1..Len(draft.decisions))
      /\ Cardinality(1..Len(draft.decisions)) = Len(draft.decisions)
  BY <1>2, FS_Interval
<1>4. IsFiniteSet(Earlier(i)) /\ Cardinality(Earlier(i)) <= Len(draft.decisions)
  BY <1>2, <1>3, FS_Subset
<1> QED BY <1>4, FS_CardinalityType

LEMMA DecideTypes ==
  ASSUME TypeOK, NEW i \in Items, NEW n \in DOMAIN draft.rounds, NEW last \in 0..MaxDecisions,
         Decide(i, n, last)
  PROVE  TypeOK'
<1>1. Now \in Seconds /\ draft \in Ledgers
  BY NowType DEF TypeOK
<1>2. /\ draft.rounds \in Seq(Rounds) /\ Len(draft.rounds) <= MaxRounds
      /\ draft.submissions \in SUBSET Submissions /\ draft.decisions \in Seq(Events)
  BY <1>1, LedgerTypes
<1>3. Len(draft.decisions) < MaxDecisions
  BY DEF Decide
<1>4. n \in 1..MaxRounds /\ Of(draft, n) \in SUBSET Submissions
  BY <1>2, BoundTypes DEF Of
<1>5. \A c \in 1..MaxDecisions : \A j \in 0..MaxDecisions : Event(i, n, c, j) \in Events
  BY <1>1, <1>4 DEF Event, Events
<1>6. Cardinality(Earlier(i)) + 1 \in 1..MaxDecisions /\ 1 \in 1..MaxDecisions
      /\ 0 \in 0..MaxDecisions
  BY <1>1, <1>2, <1>3, EarlierCount, BoundTypes
<1> DEFINE follow == Event(i, n, Cardinality(Earlier(i)) + 1, last)
           afresh == Event(i, n, 1, 0)
<1>7. follow \in Events /\ afresh \in Events
  BY <1>5, <1>6
<1>8. PICK made \in {follow, afresh} :
        /\ Slip(IF made = follow THEN 0 ELSE 1)
        /\ draft' = [draft EXCEPT !.decisions = Append(@, made)]
  BY DEF Decide
<1> HIDE DEF follow, afresh
<1> DEFINE d == Append(draft.decisions, made)
<1>9. d \in Seq(Events) /\ Len(d) <= MaxDecisions
  BY <1>2, <1>3, <1>7, BoundTypes
<1>10. draft' = [draft EXCEPT !.decisions = d]
  BY <1>8
<1> HIDE DEF d
<1>11. draft' \in Ledgers /\ draft'.prior = draft.prior
  BY <1>1, <1>9, <1>10, WithDecisions
<1>12. UNCHANGED <<facts, book, writing>>
  BY DEF Decide
<1>13. PICK m \in Nat : Slip(m)
  BY <1>8
<1> QED BY <1>11, <1>12, <1>13, DraftTypes

LEMMA RewriteRoundTypes ==
  ASSUME TypeOK, NEW n \in DOMAIN draft.rounds, NEW changed \in Rounds,
         RewriteRound(n, changed)
  PROVE  TypeOK'
<1> DEFINE r == [draft.rounds EXCEPT ![n] = changed]
<1>1. draft \in Ledgers /\ draft.rounds \in Seq(Rounds) /\ Len(draft.rounds) <= MaxRounds
  BY LedgerTypes DEF TypeOK
<1>2. r \in Seq(Rounds) /\ Len(r) = Len(draft.rounds)
  BY <1>1
<1>3. draft' = [draft EXCEPT !.rounds = r]
  BY DEF RewriteRound
<1> HIDE DEF r
<1>4. draft' \in Ledgers /\ draft'.prior = draft.prior
  BY <1>1, <1>2, <1>3, WithTheseRounds
<1> QED BY <1>4, DraftTypes DEF RewriteRound

LEMMA ResubmitTypes ==
  ASSUME TypeOK, NEW s \in draft.submissions, NEW changed \in Submissions, Resubmit(s, changed)
  PROVE  TypeOK'
<1> DEFINE subs == (draft.submissions \ {s}) \cup {changed}
<1>1. draft \in Ledgers /\ draft.submissions \in SUBSET Submissions
  BY LedgerTypes DEF TypeOK
<1>2. subs \in SUBSET Submissions
  BY <1>1
<1>3. draft' = [draft EXCEPT !.submissions = subs]
  BY DEF Resubmit
<1> HIDE DEF subs
<1>4. draft' \in Ledgers /\ draft'.prior = draft.prior
  BY <1>1, <1>2, <1>3, WithTheseSubmissions
<1> QED BY <1>4, DraftTypes DEF Resubmit

LEMMA RewriteDecisionTypes ==
  ASSUME TypeOK, NEW k \in DOMAIN draft.decisions, NEW changed \in Events,
         RewriteDecision(k, changed)
  PROVE  TypeOK'
<1> DEFINE d == [draft.decisions EXCEPT ![k] = changed]
<1>1. draft \in Ledgers /\ draft.decisions \in Seq(Events)
      /\ Len(draft.decisions) <= MaxDecisions
  BY LedgerTypes DEF TypeOK
<1>2. d \in Seq(Events) /\ Len(d) = Len(draft.decisions)
  BY <1>1
<1>3. draft' = [draft EXCEPT !.decisions = d]
  BY DEF RewriteDecision
<1> HIDE DEF d
<1>4. draft' \in Ledgers /\ draft'.prior = draft.prior
  BY <1>1, <1>2, <1>3, WithDecisions
<1> QED BY <1>4, DraftTypes DEF RewriteDecision

\* Freezing appends one ledger to the book, verified only if it is accepted.
LEMMA FreezeAppends ==
  ASSUME TypeOK, NEW t \in Seconds, NEW all \in BOOLEAN, Freeze(t, all)
  PROVE  \E l \in Ledgers :
           /\ l.prior = draft.prior
           /\ book' = Append(book, [ledger |-> l, verified |-> Accepts(l)])
<1> DEFINE a == IF all THEN DOMAIN draft.decisions ELSE Latest(draft)
           l == [draft EXCEPT !.frozen = t, !.active = a]
<1>1. draft \in Ledgers /\ draft.decisions \in Seq(Events)
      /\ Len(draft.decisions) <= MaxDecisions
  BY LedgerTypes DEF TypeOK
<1>2. DOMAIN draft.decisions \subseteq 1..MaxDecisions
  BY <1>1, BoundTypes
<1>3. a \in SUBSET (1..MaxDecisions)
  BY <1>2 DEF Latest
<1>4. book' = Append(book, [ledger |-> l, verified |-> Accepts(l)])
  BY DEF Freeze
<1> HIDE DEF a
<1>5. l \in Ledgers /\ l.prior = draft.prior
  BY <1>1, <1>3, WithFrozen
<1> HIDE DEF l
<1> QED BY <1>4, <1>5

LEMMA AcceptsIsBoolean ==
  ASSUME NEW l PROVE Accepts(l) \in BOOLEAN
BY DEF Accepts

LEMMA FreezeTypes ==
  ASSUME TypeOK, NEW t \in Seconds, NEW all \in BOOLEAN, Freeze(t, all)
  PROVE  TypeOK'
<1>1. PICK l \in Ledgers :
        /\ l.prior = draft.prior
        /\ book' = Append(book, [ledger |-> l, verified |-> Accepts(l)])
  BY FreezeAppends
<1> DEFINE x == [ledger |-> l, verified |-> Accepts(l)]
<1>2. x \in [ledger : Ledgers, verified : BOOLEAN] /\ x.ledger = l
  BY AcceptsIsBoolean
<1>3. book' = Append(book, x)
  BY <1>1
<1> HIDE DEF x
<1>4. PICK o \in Nat : Slip(o)
  <2>1. Slip((IF t = Now THEN 0 ELSE 1) + IF all THEN 1 ELSE 0)
    BY DEF Freeze
  <2> QED BY <2>1
<1>5. draft' = Blank /\ writing' = FALSE /\ UNCHANGED <<prepared, predictionsStarted>>
  BY DEF Freeze, facts
<1>6. book' \in Seq([ledger : Ledgers, verified : BOOLEAN]) /\ Len(book') = Len(book) + 1
      /\ \A n \in DOMAIN book : book'[n] = book[n]
      /\ book'[Len(book) + 1] = x
  BY <1>2, <1>3 DEF TypeOK
<1>7. Len(book) < MaxLedgers /\ draft.prior <= Len(book)
  BY DEF TypeOK, Freeze
<1>8. Len(book') <= MaxLedgers
  BY <1>6, <1>7, BookTypes, BoundTypes
<1>9. \A n \in DOMAIN book' : book'[n].ledger.prior < n
  <2> TAKE n \in DOMAIN book'
  <2>1. n \in 1..Len(book) + 1
    BY <1>6, BookTypes
  <2>2. CASE n \in DOMAIN book
    BY <2>2, <1>6, BookTypes
  <2>3. CASE n = Len(book) + 1
    BY <2>3, <1>1, <1>2, <1>6, <1>7, BookTypes, LedgerTypes
  <2> QED BY <2>1, <2>2, <2>3, BookTypes
<1>10. slips' \in 0..MaxSlips
  BY <1>4, SlipType
<1>11. draft' \in Ledgers /\ draft'.prior <= Len(book')
  BY <1>5, <1>6, BlankType, BookTypes
<1> QED BY <1>5, <1>6, <1>8, <1>9, <1>10, <1>11 DEF TypeOK

LEMMA NextTypes == TypeOK /\ [Next]_vars => TypeOK'
<1> SUFFICES ASSUME TypeOK, [Next]_vars PROVE TypeOK'
  OBVIOUS
<1>1. ASSUME NEW base \in 0..Len(book), NEW prior \in 0..Len(book), Begin(base, prior)
      PROVE  TypeOK'
  BY <1>1, BeginTypes
<1>2. ASSUME NEW team \in Teams, HoldRound(team) PROVE TypeOK'
  BY <1>2, HoldRoundTypes
<1>3. ASSUME NEW i \in Items, NEW n \in DOMAIN draft.rounds, NEW last \in 0..MaxDecisions,
             Decide(i, n, last)
      PROVE  TypeOK'
  BY <1>3, DecideTypes
<1>4. ASSUME NEW n \in DOMAIN draft.rounds, NEW t \in Seconds,
             \/ RewriteRound(n, [draft.rounds[n] EXCEPT !.opened = t])
             \/ RewriteRound(n, [draft.rounds[n] EXCEPT !.completed = t])
      PROVE  TypeOK'
  <2>1. draft.rounds[n] \in Rounds
    BY LedgerTypes DEF TypeOK
  <2>2. [draft.rounds[n] EXCEPT !.opened = t] \in Rounds
    BY <2>1 DEF Rounds
  <2>3. [draft.rounds[n] EXCEPT !.completed = t] \in Rounds
    BY <2>1 DEF Rounds
  <2> QED BY <1>4, <2>2, <2>3, RewriteRoundTypes
<1>5. ASSUME NEW s \in draft.submissions, NEW t \in Seconds,
             \/ Resubmit(s, [s EXCEPT !.decided = t])
             \/ Resubmit(s, [s EXCEPT !.submitted = t])
             \/ Resubmit(s, [s EXCEPT !.answers = "changed"])
      PROVE  TypeOK'
  <2>1. s \in Submissions
    BY LedgerTypes DEF TypeOK
  <2>2. [s EXCEPT !.decided = t] \in Submissions
    BY <2>1 DEF Submissions
  <2>3. [s EXCEPT !.submitted = t] \in Submissions
    BY <2>1 DEF Submissions
  <2>4. [s EXCEPT !.answers = "changed"] \in Submissions
    BY <2>1 DEF Submissions
  <2> QED BY <1>5, <2>2, <2>3, <2>4, ResubmitTypes
<1>6. ASSUME NEW k \in DOMAIN draft.decisions,
             \/ RewriteDecision(k, [draft.decisions[k] EXCEPT !.outcome = "abstained"])
             \/ \E t \in Seconds : RewriteDecision(k, [draft.decisions[k] EXCEPT !.at = t])
      PROVE  TypeOK'
  <2>1. draft.decisions[k] \in Events
    BY LedgerTypes DEF TypeOK
  <2>2. [draft.decisions[k] EXCEPT !.outcome = "abstained"] \in Events
    BY <2>1 DEF Events
  <2>3. \A t \in Seconds : [draft.decisions[k] EXCEPT !.at = t] \in Events
    BY <2>1 DEF Events
  <2> QED BY <1>6, <2>2, <2>3, RewriteDecisionTypes
<1>7. ASSUME NEW t \in Seconds, NEW all \in BOOLEAN, Freeze(t, all) PROVE TypeOK'
  BY <1>7, FreezeTypes
<1>8. ASSUME UNCHANGED vars PROVE TypeOK'
  BY <1>8 DEF vars, TypeOK
<1> QED BY <1>1, <1>2, <1>3, <1>4, <1>5, <1>6, <1>7, <1>8 DEF Next

\* A step leaves the book as it is, or freezes one more ledger.
LEMMA BookGrows ==
  ASSUME TypeOK, [Next]_vars
  PROVE  /\ UNCHANGED <<prepared, predictionsStarted>>
         /\ \/ UNCHANGED book
            \/ \E l \in Ledgers :
                 /\ l.prior = draft.prior
                 /\ book' = Append(book, [ledger |-> l, verified |-> Accepts(l)])
<1>1. CASE UNCHANGED vars
  BY <1>1 DEF vars
<1>2. ASSUME NEW t \in Seconds, NEW all \in BOOLEAN, Freeze(t, all)
      PROVE  /\ UNCHANGED <<prepared, predictionsStarted>>
             /\ \E l \in Ledgers :
                  /\ l.prior = draft.prior
                  /\ book' = Append(book, [ledger |-> l, verified |-> Accepts(l)])
  BY <1>2, FreezeAppends DEF Freeze, facts
<1>3. ASSUME Next, ~ \E t \in Seconds : \E all \in BOOLEAN : Freeze(t, all)
      PROVE  UNCHANGED <<prepared, predictionsStarted, book>>
  BY <1>3 DEF Next, Begin, HoldRound, Decide, RewriteRound, Resubmit, RewriteDecision, facts
<1> QED BY <1>1, <1>2, <1>3

\* What is accepted stays accepted, since its prior ledger is in the book to stay.
LEMMA AcceptedPersists ==
  ASSUME IInv, [Next]_vars PROVE AcceptedStays'
<1>1. TypeOK /\ AcceptedStays
  BY DEF IInv
<1>2. UNCHANGED <<prepared, predictionsStarted>>
  BY <1>1, BookGrows
<1>3. ASSUME NEW l, \A n \in DOMAIN book : n \in DOMAIN book' /\ book'[n] = book[n], Accepts(l)
      PROVE  Accepts(l)'
  BY <1>2, <1>3 DEF Accepts, BlindToPredictions, SubmittedInTime
<1>4. CASE UNCHANGED book
  BY <1>1, <1>3, <1>4 DEF AcceptedStays
<1>5. ASSUME NEW l \in Ledgers, book' = Append(book, [ledger |-> l, verified |-> Accepts(l)])
      PROVE  AcceptedStays'
  <2> DEFINE x == [ledger |-> l, verified |-> Accepts(l)]
             Entry == [ledger : Ledgers, verified : BOOLEAN]
  <2>1. x \in Entry /\ x.ledger = l /\ (x.verified <=> Accepts(l))
    BY AcceptsIsBoolean
  <2>2. book' = Append(book, x) /\ book \in Seq(Entry)
    BY <1>1, <1>5 DEF TypeOK
  <2> HIDE DEF x, Entry
  <2>3. Len(book') = Len(book) + 1 /\ book'[Len(book) + 1] = x /\ Len(book) \in Nat
        /\ DOMAIN book' = 1..Len(book) + 1 /\ DOMAIN book = 1..Len(book)
        /\ \A n \in DOMAIN book : book'[n] = book[n]
    BY <2>1, <2>2
  <2>4. \A n \in DOMAIN book : n \in DOMAIN book' /\ book'[n] = book[n]
    BY <2>3
  <2>5. SUFFICES ASSUME NEW n \in DOMAIN book', book'[n].verified
                 PROVE  Accepts(book[n].ledger)'
    BY DEF AcceptedStays
  <2>6. CASE n \in DOMAIN book
    <3>1. Accepts(book[n].ledger) /\ book'[n] = book[n]
      BY <1>1, <2>3, <2>5, <2>6 DEF AcceptedStays
    <3> QED BY <1>3, <2>4, <3>1
  <2>7. CASE n = Len(book) + 1
    <3>1. book'[n] = x /\ Accepts(l)
      BY <2>1, <2>3, <2>5, <2>7
    <3> QED BY <1>3, <2>1, <2>4, <3>1
  <2> QED BY <2>3, <2>6, <2>7
<1> QED BY <1>1, <1>4, <1>5, BookGrows

LEMMA InitInv == Init => IInv
<1>1. Init => AcceptedStays
  BY DEF Init, AcceptedStays
<1> QED BY <1>1, InitType DEF IInv

LEMMA StepInv == IInv /\ [Next]_vars => IInv'
BY NextTypes, AcceptedPersists DEF IInv

THEOREM Inductive == Spec => []IInv
BY InitInv, StepInv, PTL DEF Spec

\* Every state has its type.
THEOREM TypeCorrect == Spec => []TypeOK
<1>1. IInv => TypeOK
  BY DEF IInv
<1> QED BY <1>1, Inductive, PTL

-----------------------------------------------------------------------------
(* What an accepted ledger shows.                                          *)
LEMMA VerifiedFacts ==
  ASSUME IInv, NEW n \in Verified
  PROVE  /\ n \in DOMAIN book /\ Ledger(n) \in Ledgers /\ Accepts(Ledger(n))
         /\ Ledger(n).prior # 0 => Retains(Ledger(n), Ledger(Ledger(n).prior))
         /\ Ledger(n).prior # 0 => Ledger(n).prior \in DOMAIN book
<1>1. n \in DOMAIN book /\ book[n].verified
  BY DEF Verified
<1>2. Accepts(Ledger(n))
  BY <1>1 DEF IInv, AcceptedStays, Ledger
<1>3. Ledger(n) \in Ledgers
  BY <1>1, BookTypes DEF IInv, Ledger
<1> QED BY <1>1, <1>2, <1>3 DEF Accepts, Ledger

LEMMA AnsweredRounds ==
  ASSUME NEW l, RoundsOK(l), SubmissionsOK(l), NEW n \in DOMAIN l.rounds
  PROVE  Of(l, n) # {}
<1>1. Cardinality(l.rounds[n].labelers) >= 2
  BY DEF RoundsOK, RoundOK
<1>2. l.rounds[n].labelers # {}
  <2>1. Cardinality({}) = 0
    BY FS_EmptySet
  <2> QED BY <1>1, <2>1
<1>3. {s.labeler : s \in Of(l, n)} = l.rounds[n].labelers
  BY DEF SubmissionsOK
<1> QED BY <1>2, <1>3

LEMMA TimelineInv == IInv => Timeline
<1> SUFFICES ASSUME IInv, NEW n \in Verified, NEW k \in DOMAIN Ledger(n).decisions
             PROVE  LET l == Ledger(n)
                        e == l.decisions[k]
                        r == l.rounds[e.round]
                    IN  /\ Of(l, e.round) # {}
                        /\ \A s \in Of(l, e.round) :
                             /\ prepared <= s.decided /\ r.opened <= s.decided
                             /\ s.decided <= s.submitted /\ s.submitted <= e.at
                        /\ e.at <= r.completed /\ r.completed <= l.frozen
                        /\ l.frozen < predictionsStarted
  BY DEF Timeline
<1> DEFINE l == Ledger(n)
           e == l.decisions[k]
           r == l.rounds[e.round]
<1>1. l \in Ledgers /\ Accepts(l)
  BY VerifiedFacts
<1> HIDE DEF l
<1>2. WellFormed(l) /\ SubmittedInTime(l) /\ Adjudicated(l) /\ BlindToPredictions(l)
  BY <1>1 DEF Accepts
<1>3. RoundsOK(l) /\ SubmissionsOK(l) /\ EventOK(l, k)
  BY <1>2 DEF WellFormed, l
<1>4. e.round \in DOMAIN l.rounds /\ e.at <= r.completed
  BY <1>3 DEF EventOK
<1>5. r.completed <= l.frozen
  BY <1>3, <1>4 DEF RoundsOK
<1>6. Of(l, e.round) # {}
  BY <1>3, <1>4, AnsweredRounds
<1>7. ASSUME NEW s \in Of(l, e.round)
      PROVE  /\ prepared <= s.decided /\ r.opened <= s.decided
             /\ s.decided <= s.submitted /\ s.submitted <= e.at
  <2>1. s \in l.submissions /\ s.round = e.round
    BY <1>7 DEF Of
  <2>2. prepared <= s.decided /\ r.opened <= s.decided /\ s.decided <= s.submitted
    BY <1>2, <2>1 DEF SubmittedInTime
  <2>3. s.submitted <= e.at
    BY <1>2, <1>7 DEF Adjudicated, l
  <2> QED BY <2>2, <2>3
<1>8. l.frozen < predictionsStarted
  <2>1. l.frozen \in Seconds
    BY <1>1, LedgerTypes
  <2> QED BY <1>2, <2>1, BoundTypes DEF BlindToPredictions
<1> QED BY <1>4, <1>5, <1>6, <1>7, <1>8 DEF l

LEMMA FreshEyesInv == IInv => FreshEyes
<1> SUFFICES ASSUME IInv, NEW n \in Verified,
                    NEW j \in DOMAIN Ledger(n).decisions, NEW k \in DOMAIN Ledger(n).decisions
             PROVE  LET l == Ledger(n)
                        e == l.decisions[j]
                        f == l.decisions[k]
                    IN  /\ e.votes \subseteq l.submissions
                        /\ {s.labeler : s \in e.votes} = l.rounds[e.round].labelers
                        /\ e.round # f.round =>
                             Authority(l.rounds[e.round]) \cap Authority(l.rounds[f.round]) = {}
                        /\ Authority(l.rounds[e.round]) \cap Implementers = {}
  BY DEF FreshEyes
<1> DEFINE l == Ledger(n)
           e == l.decisions[j]
           f == l.decisions[k]
<1>1. l \in Ledgers /\ Accepts(l)
  BY VerifiedFacts
<1>2. j \in DOMAIN l.decisions /\ k \in DOMAIN l.decisions
  OBVIOUS
<1> HIDE DEF l
<1>3. WellFormed(l) /\ Adjudicated(l) /\ Independent(l)
  BY <1>1 DEF Accepts
<1>4. RoundsOK(l) /\ SubmissionsOK(l) /\ EventOK(l, j) /\ EventOK(l, k)
  BY <1>2, <1>3 DEF WellFormed
<1>5. e.round \in DOMAIN l.rounds /\ f.round \in DOMAIN l.rounds
  BY <1>4 DEF EventOK
<1>6. e.votes = Of(l, e.round)
  BY <1>2, <1>3 DEF Adjudicated
<1>7. e.votes \subseteq l.submissions
  BY <1>6 DEF Of
<1>8. {s.labeler : s \in e.votes} = l.rounds[e.round].labelers
  BY <1>4, <1>5, <1>6 DEF SubmissionsOK
<1>9. Authority(l.rounds[e.round]) \cap Implementers = {}
  BY <1>3, <1>5 DEF Independent
<1>10. e.round # f.round =>
         Authority(l.rounds[e.round]) \cap Authority(l.rounds[f.round]) = {}
  <2>1. \A p, q \in DOMAIN l.rounds :
          p < q => Authority(l.rounds[q]) \cap Authority(l.rounds[p]) = {}
    <3> TAKE p, q \in DOMAIN l.rounds
    <3>1. DOMAIN l.rounds = 1..Len(l.rounds)
      BY <1>1, LedgerTypes
    <3>2. p < q => p \in 1..q - 1
      BY <3>1
    <3> QED BY <1>4, <3>2 DEF RoundsOK
  <2>2. e.round \in Nat /\ f.round \in Nat
    <3>1. l.rounds \in Seq(Rounds)
      BY <1>1, LedgerTypes
    <3>2. DOMAIN l.rounds = 1..Len(l.rounds) /\ Len(l.rounds) \in Nat
      BY <3>1
    <3> QED BY <1>5, <3>2
  <2>3. e.round < f.round \/ f.round < e.round \/ e.round = f.round
    BY <2>2
  <2> QED BY <1>5, <2>1, <2>3
<1> QED BY <1>7, <1>8, <1>9, <1>10 DEF l

\* Everything that a verified ledger decided was decided in its time.
THEOREM InTime == Spec => []Timeline
BY TimelineInv, Inductive, PTL

\* Everything that a verified ledger decided was decided by the right people.
THEOREM ByTheRightPeople == Spec => []FreshEyes
BY FreshEyesInv, Inductive, PTL

-----------------------------------------------------------------------------
(* The chain of an item's decisions.                                       *)
LEMMA Places ==
  ASSUME NEW l \in Ledgers
  PROVE  /\ Len(l.decisions) \in Nat /\ DOMAIN l.decisions = 1..Len(l.decisions)
         /\ Len(l.rounds) \in Nat /\ DOMAIN l.rounds = 1..Len(l.rounds)
         /\ \A k \in DOMAIN l.decisions : l.decisions[k] \in Events
         /\ \A n \in DOMAIN l.rounds : l.rounds[n] \in Rounds
<1>1. l.decisions \in Seq(Events) /\ l.rounds \in Seq(Rounds)
  BY LedgerTypes
<1> QED BY <1>1

LEMMA BeforeIs ==
  ASSUME NEW l \in Ledgers, NEW j \in DOMAIN l.decisions, NEW k \in DOMAIN l.decisions
  PROVE  j \in Before(l, k) <=> j < k /\ l.decisions[j].item = l.decisions[k].item
BY Places DEF Before

LEMMA LastOfItem ==
  ASSUME NEW l \in Ledgers, NEW j \in DOMAIN l.decisions
  PROVE  \E k \in Latest(l) : k >= j /\ l.decisions[k].item = l.decisions[j].item
<1> DEFINE T == {k \in DOMAIN l.decisions : l.decisions[k].item = l.decisions[j].item}
<1>1. T \in SUBSET (1..Len(l.decisions)) /\ j \in T /\ Len(l.decisions) \in Nat
  BY Places
<1>2. PICK k \in T : \A m \in T : m <= k
  BY <1>1, NatMax
<1>3. \A m \in DOMAIN l.decisions : k \notin Before(l, m)
  <2> SUFFICES ASSUME NEW m \in DOMAIN l.decisions, k \in Before(l, m) PROVE FALSE
    OBVIOUS
  <2>1. k < m /\ l.decisions[k].item = l.decisions[m].item
    BY BeforeIs
  <2>2. m <= k
    BY <1>2, <2>1
  <2> QED BY <2>1, <2>2, Places
<1>4. k \in Latest(l)
  BY <1>3 DEF Latest
<1>5. k >= j
  BY <1>1, <1>2, Places
<1> QED BY <1>4, <1>5

LEMMA LatestIsOne ==
  ASSUME NEW l \in Ledgers, NEW j \in Latest(l), NEW k \in Latest(l),
         l.decisions[j].item = l.decisions[k].item
  PROVE  j = k
<1>1. j \in DOMAIN l.decisions /\ k \in DOMAIN l.decisions
  BY DEF Latest
<1>2. ~ (j < k) /\ ~ (k < j)
  BY <1>1, BeforeIs DEF Latest
<1> QED BY <1>1, <1>2, Places

LEMMA Predecessor ==
  ASSUME NEW l \in Ledgers, NEW k \in DOMAIN l.decisions, Before(l, k) # {}
  PROVE  \E j \in Before(l, k) : Follows(l, j, k)
<1>1. Before(l, k) \in SUBSET (1..Len(l.decisions)) /\ Len(l.decisions) \in Nat
  BY Places DEF Before
<1>2. PICK j \in Before(l, k) : \A m \in Before(l, k) : m <= j
  BY <1>1, NatMax
<1> QED BY <1>2 DEF Follows

\* What a decision supersedes is the event of its item right before it, if any.
LEMMA Supersedes ==
  ASSUME NEW l \in Ledgers, Chained(l), NEW k \in DOMAIN l.decisions, EventOK(l, k)
  PROVE  IF Before(l, k) = {} THEN l.decisions[k].supersedes = 0
                              ELSE l.decisions[k].supersedes \in Before(l, k)
<1>1. CASE Before(l, k) = {}
  <2>1. l.decisions[k].revision = 1
    BY <1>1 DEF Chained
  <2>2. l.decisions[k].supersedes = 0
    BY <2>1 DEF EventOK
  <2> QED BY <1>1, <2>2
<1>2. CASE Before(l, k) # {}
  <2>1. PICK j \in Before(l, k) : Follows(l, j, k)
    BY <1>2, Predecessor
  <2>2. l.decisions[k].supersedes = j
    BY <2>1 DEF Chained
  <2> QED BY <1>2, <2>1, <2>2
<1> QED BY <1>1, <1>2

LEMMA OneActive ==
  ASSUME NEW l \in Ledgers, Chained(l), NEW i \in Items
  PROVE  \E k \in l.active :
           /\ l.decisions[k].item = i
           /\ \A j \in l.active : l.decisions[j].item = i => j = k
<1>1. PICK j \in DOMAIN l.decisions : l.decisions[j].item = i
  BY DEF Chained
<1>2. PICK k \in Latest(l) : l.decisions[k].item = i
  BY <1>1, LastOfItem
<1>3. l.active = Latest(l)
  BY DEF Chained
<1>4. \A m \in Latest(l) : l.decisions[m].item = i => m = k
  BY <1>2, LatestIsOne
<1> QED BY <1>2, <1>3, <1>4

LEMMA ActiveNotSuperseded ==
  ASSUME NEW l \in Ledgers, Chained(l), NEW k \in DOMAIN l.decisions, EventOK(l, k)
  PROVE  l.decisions[k].supersedes \notin l.active
<1>1. l.active = Latest(l)
  BY DEF Chained
<1>2. 0 \notin Latest(l)
  BY Places DEF Latest
<1>3. \A j \in Before(l, k) : j \notin Latest(l)
  BY DEF Latest
<1> QED BY <1>1, <1>2, <1>3, Supersedes

-----------------------------------------------------------------------------
(* Prefixes.                                                               *)
LEMMA PrefixIs ==
  ASSUME NEW S, NEW s \in Seq(S), NEW t \in Seq(S)
  PROVE  IsPrefix(s, t) <=> Len(s) <= Len(t) /\ \A n \in 1..Len(s) : s[n] = t[n]
<1>1. Len(s) \in Nat /\ Len(t) \in Nat
  OBVIOUS
<1>2. SubSeq(s, 1, Len(s)) = s
  OBVIOUS
<1>3. ASSUME Len(s) <= Len(t)
      PROVE  /\ SubSeq(t, 1, Len(s)) \in Seq(S) /\ Len(SubSeq(t, 1, Len(s))) = Len(s)
             /\ \A n \in 1..Len(s) : SubSeq(t, 1, Len(s))[n] = t[n]
  BY <1>1, <1>3
<1> DEFINE u == SubSeq(t, 1, Len(s))
<1>4. ASSUME Len(s) <= Len(t) PROVE s = u <=> \A n \in 1..Len(s) : s[n] = u[n]
  <2>1. u \in Seq(S) /\ Len(u) = Len(s)
    BY <1>3, <1>4
  <2> HIDE DEF u
  <2> QED BY <2>1
<1> QED BY <1>2, <1>3, <1>4 DEF IsPrefix

LEMMA PrefixTransitive ==
  ASSUME NEW S, NEW s \in Seq(S), NEW t \in Seq(S), NEW u \in Seq(S),
         IsPrefix(s, t), IsPrefix(t, u)
  PROVE  IsPrefix(s, u)
<1>1. Len(s) \in Nat /\ Len(t) \in Nat /\ Len(u) \in Nat
  OBVIOUS
<1>2. Len(s) <= Len(t) /\ \A n \in 1..Len(s) : s[n] = t[n]
  BY PrefixIs
<1>3. Len(t) <= Len(u) /\ \A n \in 1..Len(t) : t[n] = u[n]
  BY PrefixIs
<1>4. Len(s) <= Len(u) /\ \A n \in 1..Len(s) : s[n] = u[n]
  BY <1>1, <1>2, <1>3
<1> QED BY <1>4, PrefixIs

-----------------------------------------------------------------------------
(* A correction and the ledger it retains.                                 *)
LEMMA RetainedEvents ==
  ASSUME NEW l \in Ledgers, NEW p \in Ledgers, Retains(l, p)
  PROVE  /\ Len(p.decisions) <= Len(l.decisions) /\ Len(p.rounds) < Len(l.rounds)
         /\ \A k \in DOMAIN p.decisions :
              k \in DOMAIN l.decisions /\ l.decisions[k] = p.decisions[k]
<1>1. /\ p.decisions \in Seq(Events) /\ l.decisions \in Seq(Events)
      /\ p.rounds \in Seq(Rounds) /\ l.rounds \in Seq(Rounds)
  BY LedgerTypes
<1>2. /\ IsPrefix(p.decisions, l.decisions) /\ IsPrefix(p.rounds, l.rounds)
      /\ p.rounds # l.rounds
  BY DEF Retains, IsStrictPrefix
<1>3. Len(p.decisions) <= Len(l.decisions)
      /\ \A k \in 1..Len(p.decisions) : p.decisions[k] = l.decisions[k]
  BY <1>1, <1>2, PrefixIs
<1>4. Len(p.rounds) <= Len(l.rounds) /\ \A k \in 1..Len(p.rounds) : p.rounds[k] = l.rounds[k]
  BY <1>1, <1>2, PrefixIs
<1>5. Len(p.rounds) # Len(l.rounds)
  BY <1>1, <1>2, <1>4
<1> QED BY <1>3, <1>4, <1>5, Places

LEMMA CorrectionSupersedes ==
  ASSUME NEW l \in Ledgers, NEW p \in Ledgers, Retains(l, p), Chained(l), Chained(p),
         NEW k \in l.active, EventOK(l, k), l.decisions[k].supersedes = 0
  PROVE  k \in p.active
<1>1. k \in Latest(l) /\ k \in DOMAIN l.decisions
  BY DEF Chained, Latest
<1>2. Before(l, k) = {}
  <2> SUFFICES ASSUME Before(l, k) # {} PROVE FALSE
    OBVIOUS
  <2>1. 0 \in Before(l, k)
    BY <1>1, Supersedes
  <2> QED BY <1>1, <2>1, Places DEF Before
<1>3. l.decisions[k].item \in Items
  BY <1>1 DEF Chained
<1>4. PICK j \in DOMAIN p.decisions : p.decisions[j].item = l.decisions[k].item
  <2>1. Items = {p.decisions[j].item : j \in DOMAIN p.decisions}
    BY DEF Chained
  <2> QED BY <1>3, <2>1
<1>5. j \in DOMAIN l.decisions /\ l.decisions[j] = p.decisions[j]
  BY RetainedEvents
<1>6. ~ (j < k)
  BY <1>1, <1>2, <1>4, <1>5, BeforeIs
<1>7. k \in DOMAIN p.decisions
  BY <1>1, <1>5, <1>6, Places
<1>8. \A m \in DOMAIN p.decisions : k \notin Before(p, m)
  <2> SUFFICES ASSUME NEW m \in DOMAIN p.decisions, k \in Before(p, m) PROVE FALSE
    OBVIOUS
  <2>1. k < m /\ p.decisions[k].item = p.decisions[m].item
    BY <1>7, BeforeIs
  <2>2. m \in DOMAIN l.decisions /\ l.decisions[m] = p.decisions[m]
        /\ l.decisions[k] = p.decisions[k]
    BY <1>7, RetainedEvents
  <2>3. k \in Before(l, m)
    BY <1>1, <2>1, <2>2, BeforeIs
  <2> QED BY <1>1, <2>2, <2>3 DEF Latest
<1>9. k \in Latest(p)
  BY <1>7, <1>8 DEF Latest
<1> QED BY <1>9 DEF Chained

LEMMA ActiveFollowsInv == IInv => ActiveFollows
<1> SUFFICES ASSUME IInv, NEW n \in Verified
             PROVE  LET l == Ledger(n)
                    IN  /\ \A i \in Items : \E k \in l.active :
                             /\ l.decisions[k].item = i
                             /\ \A j \in l.active : l.decisions[j].item = i => j = k
                        /\ \A j \in DOMAIN l.decisions : l.decisions[j].supersedes \notin l.active
                        /\ l.prior \in Verified =>
                             \A k \in l.active \ Ledger(l.prior).active :
                               l.decisions[k].supersedes # 0
  BY DEF ActiveFollows
<1> DEFINE l == Ledger(n)
<1>1. /\ l \in Ledgers /\ Accepts(l)
      /\ l.prior # 0 => Retains(l, Ledger(l.prior))
  BY VerifiedFacts
<1> HIDE DEF l
<1>2. WellFormed(l) /\ Chained(l)
  BY <1>1 DEF Accepts
<1>3. \A k \in DOMAIN l.decisions : EventOK(l, k)
  BY <1>2 DEF WellFormed
<1>4. \A i \in Items : \E k \in l.active :
        /\ l.decisions[k].item = i
        /\ \A j \in l.active : l.decisions[j].item = i => j = k
  BY <1>1, <1>2, OneActive
<1>5. \A j \in DOMAIN l.decisions : l.decisions[j].supersedes \notin l.active
  BY <1>1, <1>2, <1>3, ActiveNotSuperseded
<1>6. ASSUME l.prior \in Verified, NEW k \in l.active \ Ledger(l.prior).active
      PROVE  l.decisions[k].supersedes # 0
  <2> DEFINE p == Ledger(l.prior)
  <2>1. p \in Ledgers /\ Accepts(p) /\ l.prior \in DOMAIN book
    BY <1>6, VerifiedFacts
  <2>2. l.prior # 0
    BY <2>1, BookTypes DEF IInv
  <2>3. Retains(l, p)
    BY <1>1, <2>2
  <2> HIDE DEF p
  <2>4. Chained(p)
    BY <2>1 DEF Accepts
  <2>5. k \in DOMAIN l.decisions
    BY <1>2, <1>6 DEF Chained, Latest
  <2>6. k \in l.active /\ k \notin p.active
    BY <1>6 DEF p
  <2> QED BY <1>1, <1>2, <1>3, <2>1, <2>3, <2>4, <2>5, <2>6, CorrectionSupersedes
<1> QED BY <1>4, <1>5, <1>6 DEF l

\* What is active in a verified ledger is one decision of each item, not superseded.
THEOREM ActiveIsLatest == Spec => []ActiveFollows
BY ActiveFollowsInv, Inductive, PTL

\* No round that a correction appends was open when the prior ledger was frozen.
LEMMA AppendedLater ==
  ASSUME NEW l \in Ledgers, NEW p \in Ledgers, WellFormed(l), Retains(l, p),
         NEW n \in DOMAIN l.rounds, n > Len(p.rounds)
  PROVE  l.rounds[n].opened > p.frozen
<1> DEFINE T == {m \in DOMAIN l.rounds : m > Len(p.rounds) /\ ~ (l.rounds[m].opened > p.frozen)}
<1>1. /\ Len(p.rounds) \in Nat /\ Len(l.rounds) \in Nat
      /\ DOMAIN l.rounds = 1..Len(l.rounds) /\ Len(p.rounds) < Len(l.rounds)
  BY Places, RetainedEvents
<1>2. p.frozen \in Nat /\ \A m \in DOMAIN l.rounds :
        l.rounds[m].opened \in Nat /\ l.rounds[m].completed \in Nat
  <2>1. \A m \in DOMAIN l.rounds :
          l.rounds[m].opened \in Seconds /\ l.rounds[m].completed \in Seconds
    BY Places DEF Rounds
  <2>2. p.frozen \in Seconds
    BY LedgerTypes
  <2> QED BY <2>1, <2>2, BoundTypes
<1> SUFFICES ASSUME T # {} PROVE FALSE
  OBVIOUS
<1>3. T \in SUBSET Nat
  BY <1>1
<1>4. PICK m \in T : \A o \in T : m <= o
  BY <1>3, NatMin
<1>5. m \in DOMAIN l.rounds /\ m > Len(p.rounds) /\ ~ (l.rounds[m].opened > p.frozen)
  OBVIOUS
<1>6. m # Len(p.rounds) + 1
  BY <1>5 DEF Retains
<1>7. m - 1 \in DOMAIN l.rounds /\ m - 1 > Len(p.rounds) /\ m > 1
  BY <1>1, <1>5, <1>6
<1>8. ~ (m <= m - 1)
  BY <1>1, <1>5
<1>9. m - 1 \notin T
  BY <1>4, <1>8
<1>10. l.rounds[m - 1].opened > p.frozen
  BY <1>7, <1>9
<1>11. l.rounds[m].opened > l.rounds[m - 1].completed
       /\ l.rounds[m - 1].opened <= l.rounds[m - 1].completed
  BY <1>5, <1>7 DEF WellFormed, RoundsOK, RoundOK
<1> QED BY <1>2, <1>5, <1>7, <1>10, <1>11

LEMMA CorrectionKeeps ==
  ASSUME NEW l \in Ledgers, NEW p \in Ledgers, WellFormed(l), SubmittedInTime(l), Retains(l, p)
  PROVE  /\ IsPrefix(p.decisions, l.decisions) /\ IsPrefix(p.rounds, l.rounds)
         /\ p.submissions \subseteq l.submissions
         /\ \A s \in l.submissions \ p.submissions : s.decided > p.frozen
<1>1. IsPrefix(p.decisions, l.decisions) /\ IsPrefix(p.rounds, l.rounds)
  BY DEF Retains, IsStrictPrefix
<1>2. {s \in l.submissions : s.round \in DOMAIN p.rounds} = p.submissions
  BY DEF Retains, RetainedSubmissions
<1>3. ASSUME NEW s \in l.submissions \ p.submissions PROVE s.decided > p.frozen
  <2>1. s.round \notin DOMAIN p.rounds /\ s.round \in DOMAIN l.rounds
    BY <1>2, <1>3 DEF WellFormed, SubmissionsOK
  <2>2. s.round > Len(p.rounds)
    BY <2>1, Places
  <2>3. l.rounds[s.round].opened > p.frozen
    BY <2>1, <2>2, AppendedLater
  <2>4. l.rounds[s.round].opened <= s.decided
    BY <1>3 DEF SubmittedInTime
  <2>5. s.decided \in Seconds /\ l.rounds[s.round].opened \in Seconds /\ p.frozen \in Seconds
    BY <1>3, <2>1, LedgerTypes, Places DEF Submissions, Rounds
  <2> QED BY <2>3, <2>4, <2>5, BoundTypes
<1> QED BY <1>1, <1>2, <1>3

LEMMA HistoryInv == IInv => HistoryKept
<1> SUFFICES ASSUME IInv, NEW n \in Verified, NEW a \in Verified, Descends(n, a)
             PROVE  LET l == Ledger(n)
                        p == Ledger(a)
                    IN  /\ IsPrefix(p.decisions, l.decisions) /\ IsPrefix(p.rounds, l.rounds)
                        /\ p.submissions \subseteq l.submissions
                        /\ \A s \in l.submissions \ p.submissions : s.decided > p.frozen
  BY DEF HistoryKept
<1> DEFINE Keeps(l, p) ==
      /\ IsPrefix(p.decisions, l.decisions) /\ IsPrefix(p.rounds, l.rounds)
      /\ p.submissions \subseteq l.submissions
      /\ \A s \in l.submissions \ p.submissions : s.decided > p.frozen
<1>1. ASSUME NEW v \in Verified, Ledger(v).prior # 0, Ledger(v).prior \in Verified
      PROVE  /\ Ledger(v) \in Ledgers /\ Ledger(Ledger(v).prior) \in Ledgers
             /\ Retains(Ledger(v), Ledger(Ledger(v).prior))
             /\ Keeps(Ledger(v), Ledger(Ledger(v).prior))
  <2> DEFINE l == Ledger(v)
             p == Ledger(l.prior)
  <2>1. l \in Ledgers /\ Accepts(l) /\ Retains(l, p)
    BY <1>1, VerifiedFacts
  <2>2. p \in Ledgers
    BY <1>1, VerifiedFacts
  <2> HIDE DEF l, p
  <2>3. WellFormed(l) /\ SubmittedInTime(l)
    BY <2>1 DEF Accepts
  <2>4. Keeps(l, p)
    BY <2>1, <2>2, <2>3, CorrectionKeeps
  <2> QED BY <2>1, <2>2, <2>4 DEF l, p
<1>2. a # 0
  BY BookTypes DEF IInv, Verified
<1>3. CASE Ledger(n).prior = a
  BY <1>1, <1>2, <1>3
<1>4. CASE Ledger(n).prior \in Verified /\ Ledger(Ledger(n).prior).prior = a
           /\ Ledger(n).prior # 0
  <2> DEFINE l == Ledger(n)
             p == Ledger(l.prior)
             q == Ledger(a)
  <2>1. l \in Ledgers /\ p \in Ledgers /\ Keeps(l, p)
    BY <1>1, <1>4
  <2>2. q \in Ledgers /\ Retains(p, q) /\ Keeps(p, q)
    BY <1>1, <1>2, <1>4
  <2> HIDE DEF l, p, q
  <2>3. /\ l.decisions \in Seq(Events) /\ p.decisions \in Seq(Events)
        /\ q.decisions \in Seq(Events) /\ l.rounds \in Seq(Rounds)
        /\ p.rounds \in Seq(Rounds) /\ q.rounds \in Seq(Rounds)
    BY <2>1, <2>2, LedgerTypes
  <2>4. IsPrefix(q.decisions, l.decisions)
    BY <2>1, <2>2, <2>3, PrefixTransitive
  <2>5. IsPrefix(q.rounds, l.rounds)
    BY <2>1, <2>2, <2>3, PrefixTransitive
  <2>6. ASSUME NEW s \in l.submissions \ q.submissions PROVE s.decided > q.frozen
    <3>1. p.frozen > q.frozen
      BY <2>2 DEF Retains
    <3>2. s.decided \in Seconds /\ p.frozen \in Seconds /\ q.frozen \in Seconds
      BY <2>1, <2>2, <2>6, LedgerTypes DEF Submissions
    <3>3. CASE s \in p.submissions
      BY <2>2, <2>6, <3>3
    <3>4. CASE s \notin p.submissions
      <4>1. s.decided > p.frozen
        BY <2>1, <2>6, <3>4
      <4> QED BY <4>1, <3>1, <3>2, BoundTypes
    <3> QED BY <3>3, <3>4
  <2>7. q.submissions \subseteq l.submissions
    BY <2>1, <2>2
  <2> QED BY <2>4, <2>5, <2>6, <2>7 DEF l, q
<1> QED BY <1>3, <1>4 DEF Descends

\* No correction, nor a correction of one, rewrites or backdates what was verified.
THEOREM HistoryStays == Spec => []HistoryKept
BY HistoryInv, Inductive, PTL

-----------------------------------------------------------------------------
(* The scorer.                                                             *)

\* The documents are finite and about the keys asked for.
Keyed(keys) ==
  /\ DOMAIN gold.labels \subseteq keys
  /\ DOMAIN predictions.gold.labels \subseteq keys
  /\ DOMAIN predictions.answers \subseteq keys
DocumentsInv == \E keys \in KeySets : Keyed(keys)

\* What was scored is what stands.
ResultInv ==
  result.verdict = "scored" =>
    /\ Bound /\ ValidItems(gold.labels, predictions.answers)
    /\ result.counts = [g \in Gates |-> Counts(g, gold.labels, predictions.answers)]
    /\ result.passed = Passed(gold.labels, predictions.answers)

ScoreInv == DocumentsInv /\ ResultInv

LEMMA ScoreInductive == ScoreSpec => []ScoreInv
<1>1. ScoreInit => ScoreInv
  <2> SUFFICES ASSUME ScoreInit PROVE ScoreInv
    OBVIOUS
  <2>1. PICK keys \in KeySets :
          /\ gold \in {Frozen(labels) : labels \in Partial(keys, LabelsOf)}
          /\ predictions \in {Answering(answers, FALSE) : answers \in Partial(keys, AnswersOf)}
    BY DEF ScoreInit
  <2>2. PICK labels \in Partial(keys, LabelsOf) : gold = Frozen(labels)
    BY <2>1
  <2>3. PICK answers \in Partial(keys, AnswersOf) : predictions = Answering(answers, FALSE)
    BY <2>1
  <2>4. DOMAIN labels \subseteq keys
    BY DEF Partial
  <2>5. DOMAIN answers \subseteq keys
    BY DEF Partial
  <2>6. gold.labels = labels /\ predictions.gold = gold /\ predictions.answers = answers
    BY <2>2, <2>3 DEF Frozen, Answering
  <2>7. DocumentsInv
    BY <2>4, <2>5, <2>6 DEF DocumentsInv, Keyed
  <2>8. ResultInv
    BY DEF ScoreInit, NoResult, ResultInv
  <2> QED BY <2>7, <2>8 DEF ScoreInv
<1>2. ScoreInv /\ [ScoreNext]_scoreVars => ScoreInv'
  <2> SUFFICES ASSUME ScoreInv, [ScoreNext]_scoreVars PROVE ScoreInv'
    OBVIOUS
  <2>1. CASE Score
    <3>1. UNCHANGED <<gold, predictions>>
      BY <2>1 DEF Score
    <3>2. DocumentsInv'
      BY <3>1 DEF ScoreInv, DocumentsInv, Keyed
    <3>3. ResultInv'
      BY <2>1, <3>1 DEF Score, ResultInv, Refused, Bound, ValidItems
    <3> QED BY <3>2, <3>3 DEF ScoreInv
  <2>2. CASE Disturb /\ UNCHANGED <<gold, predictions>>
    BY <2>2 DEF Disturb, ScoreInv, DocumentsInv, Keyed, ResultInv, NoResult
  <2>3. CASE Relabel
    <3>1. PICK k \in DOMAIN gold.labels :
            \/ \E l \in LabelsOf(k) \ {gold.labels[k]} :
                 gold' = Frozen([gold.labels EXCEPT ![k] = l])
            \/ gold' = Frozen([j \in DOMAIN gold.labels \ {k} |-> gold.labels[j]])
      BY <2>3 DEF Relabel
    <3>2. DOMAIN gold'.labels \subseteq DOMAIN gold.labels
      BY <3>1 DEF Frozen
    <3>3. predictions' = predictions /\ result' = NoResult
      BY <2>3 DEF Relabel, Disturb
    <3> QED BY <3>2, <3>3 DEF ScoreInv, DocumentsInv, Keyed, ResultInv, NoResult
  <2>4. CASE Regenerate
    <3>1. PICK early \in BOOLEAN : predictions' = Answering(predictions.answers, early)
      BY <2>4 DEF Regenerate
    <3>2. predictions'.gold = gold /\ predictions'.answers = predictions.answers
      BY <3>1 DEF Answering
    <3>3. gold' = gold /\ result' = NoResult
      BY <2>4 DEF Regenerate, Disturb
    <3> QED BY <3>2, <3>3 DEF ScoreInv, DocumentsInv, Keyed, ResultInv, NoResult
  <2>5. CASE Edit
    BY <2>2, <2>5 DEF Edit
  <2>6. CASE UNCHANGED scoreVars
    BY <2>6 DEF scoreVars, ScoreInv, DocumentsInv, Keyed, ResultInv, Bound, ValidItems
  <2> QED BY <2>1, <2>3, <2>4, <2>5, <2>6 DEF ScoreNext
<1> QED BY <1>1, <1>2, PTL DEF ScoreSpec

-----------------------------------------------------------------------------
(* Better answers.                                                         *)

LEMMA TimesGrows ==
  ASSUME NEW a \in Nat, NEW b \in Nat, NEW c \in Nat, a <= b
  PROVE  a * c <= b * c
OBVIOUS

\* With no fewer hits and no more false claims a ratio is still reached.
LEMMA ReachesGrows ==
  ASSUME NEW tp \in Nat, NEW more \in Nat, NEW fp \in Nat, NEW fewer \in Nat, NEW fn \in Nat,
         NEW req \in 0..100, tp <= more, more <= tp + fn, fewer <= fp
  PROVE  /\ Reaches(tp, tp + fp, req) => Reaches(more, more + fewer, req)
         /\ Reaches(tp, tp + fn, req) => Reaches(more, tp + fn, req)
         /\ Reaches(2 * tp, 2 * tp + fp + fn, req) =>
              Reaches(2 * more, 2 * more + fewer + (fn - (more - tp)), req)
<1>1. req \in Nat /\ 100 - req \in Nat /\ 200 - req \in Nat
  OBVIOUS
<1>2. PICK left \in Nat : left = 100 - req
  BY <1>1
<1>3. /\ tp * left <= more * left /\ tp * (100 + left) <= more * (100 + left)
      /\ fewer * req <= fp * req
  BY <1>1, <1>2, TimesGrows
<1>4. ASSUME Reaches(tp, tp + fp, req) PROVE Reaches(more, more + fewer, req)
  <2>1. CASE tp + fp = 0
    <3>1. req = 0
      BY <1>4, <2>1 DEF Reaches
    <3> QED BY <3>1 DEF Reaches
  <2>2. CASE tp + fp # 0
    <3>1. tp * 100 >= req * (tp + fp)
      BY <1>4, <2>2 DEF Reaches
    <3>2. tp * 100 = tp * left + tp * req /\ req * (tp + fp) = tp * req + fp * req
      BY <1>2
    <3>3. tp * left >= fp * req
      BY <3>1, <3>2
    <3>4. more * left >= fewer * req
      BY <1>3, <3>3
    <3>5. more * 100 = more * left + more * req /\ req * (more + fewer) = more * req + fewer * req
      BY <1>2
    <3>6. more * 100 >= req * (more + fewer)
      BY <3>4, <3>5
    <3>7. ASSUME more + fewer = 0 PROVE req = 0
      <4>1. tp = 0
        BY <3>7
      <4>2. req * (tp + fp) <= 0 /\ tp + fp > 0
        BY <2>2, <3>1, <4>1
      <4> QED BY <1>1, <4>2
    <3> QED BY <3>6, <3>7 DEF Reaches
  <2> QED BY <2>1, <2>2
<1>5. ASSUME Reaches(tp, tp + fn, req) PROVE Reaches(more, tp + fn, req)
  BY <1>5 DEF Reaches
<1>6. ASSUME Reaches(2 * tp, 2 * tp + fp + fn, req)
      PROVE  Reaches(2 * more, 2 * more + fewer + (fn - (more - tp)), req)
  <2>1. CASE 2 * tp + fp + fn = 0
    <3>1. req = 0
      BY <1>6, <2>1 DEF Reaches
    <3> QED BY <3>1 DEF Reaches
  <2>2. CASE 2 * tp + fp + fn # 0
    <3>0. PICK all \in Nat : all = tp + fn
      OBVIOUS
    <3>1. (2 * tp) * 100 >= req * (2 * tp + fp + fn)
      BY <1>6, <2>2 DEF Reaches
    <3>2. /\ (2 * tp) * 100 = tp * (100 + left) + tp * req
          /\ req * (2 * tp + fp + fn) = tp * req + fp * req + all * req
      BY <1>2, <3>0
    <3>3. tp * (100 + left) >= fp * req + all * req
      BY <3>1, <3>2
    <3>4. more * (100 + left) >= fewer * req + all * req
      BY <1>3, <3>3
    <3>5. /\ (2 * more) * 100 = more * (100 + left) + more * req
          /\ req * (2 * more + fewer + (fn - (more - tp))) = more * req + fewer * req + all * req
      BY <1>2, <3>0
    <3>6. (2 * more) * 100 >= req * (2 * more + fewer + (fn - (more - tp)))
      BY <3>4, <3>5
    <3>7. ASSUME 2 * more + fewer + (fn - (more - tp)) = 0 PROVE req = 0
      <4>1. tp = 0 /\ fn = 0
        BY <3>7
      <4>2. req * (2 * tp + fp + fn) <= 0 /\ 2 * tp + fp + fn > 0
        BY <2>2, <3>1, <4>1
      <4> QED BY <1>1, <4>2
    <3> QED BY <3>6, <3>7 DEF Reaches
  <2> QED BY <2>1, <2>2
<1> QED BY <1>4, <1>5, <1>6

\* Answers that claim more of what is expected and less of what is not.
Better(g, labels, given, answers) ==
  /\ Expected(g, labels) \cap Claimed(g, given) \subseteq Claimed(g, answers)
  /\ FalseClaims(g, labels, answers) \subseteq FalseClaims(g, labels, given)

\* Such answers pass the gate if the others did.
LEMMA BetterPasses ==
  ASSUME NEW g \in Gates, NEW labels, NEW given, NEW answers,
         IsFiniteSet(DOMAIN labels), IsFiniteSet(DOMAIN given),
         Better(g, labels, given, answers), Passes(g, labels, given)
  PROVE  Passes(g, labels, answers)
<1> DEFINE E == Expected(g, labels)
           C == Claimed(g, given)
           D == Claimed(g, answers)
           tp == Cardinality(E \cap C)
           fp == Cardinality(C \ E)
           fn == Cardinality(E \ C)
           more == Cardinality(E \cap D)
           fewer == Cardinality(D \ E)
           left == Cardinality(E \ D)
<1>1. IsFiniteSet(E) /\ IsFiniteSet(C)
  <2>1. E \subseteq DOMAIN labels /\ C \subseteq DOMAIN given
    BY DEF Expected, Claimed
  <2> QED BY <2>1, FS_Subset
<1>2. E \cap C \subseteq E \cap D /\ D \ E \subseteq C \ E
  BY DEF Better, FalseClaims
<1> HIDE DEF E, C, D
<1>3. /\ IsFiniteSet(E \cap C) /\ IsFiniteSet(C \ E) /\ IsFiniteSet(E \ C)
      /\ IsFiniteSet(E \cap D) /\ IsFiniteSet(D \ E) /\ IsFiniteSet(E \ D)
  BY <1>1, <1>2, FS_Subset, FS_Difference, FS_Intersection
<1>4. tp <= more /\ fewer <= fp
  BY <1>2, <1>3, FS_Subset
<1>5. /\ tp \in Nat /\ fp \in Nat /\ fn \in Nat /\ more \in Nat /\ fewer \in Nat /\ left \in Nat
  BY <1>3, FS_CardinalityType
<1>6. tp + fn = Cardinality(E) /\ more + left = Cardinality(E)
  <2>1. /\ Cardinality(E \ C) = Cardinality(E) - Cardinality(E \cap C)
        /\ Cardinality(E \ D) = Cardinality(E) - Cardinality(E \cap D)
    BY <1>1, FS_Difference
  <2>2. Cardinality(E) \in Nat
    BY <1>1, FS_CardinalityType
  <2> QED BY <1>5, <2>1, <2>2
<1>7. /\ Counts(g, labels, given) = [tp |-> tp, fp |-> fp, fn |-> fn]
      /\ Counts(g, labels, answers) = [tp |-> more, fp |-> fewer, fn |-> left]
  BY DEF Counts, FalseClaims, E, C, D
<1> HIDE DEF tp, fp, fn, more, fewer, left
<1>8. more + left = tp + fn /\ more <= tp + fn /\ left = fn - (more - tp)
  BY <1>5, <1>6
<1>9. g.precision \in 0..100 /\ g.recall \in 0..100 /\ g.f1 \in 0..100
  BY PolicyAssumption
<1>10. /\ tp + fn >= g.support /\ ActualSupport(g, labels) >= g.real
       /\ Distractors(g, labels) >= g.distractors
       /\ Reaches(tp, tp + fp, g.precision) /\ Reaches(tp, tp + fn, g.recall)
       /\ Reaches(2 * tp, 2 * tp + fp + fn, g.f1)
  BY <1>7 DEF Passes, Support
<1>11. \A req \in 0..100 :
         /\ Reaches(tp, tp + fp, req) => Reaches(more, more + fewer, req)
         /\ Reaches(tp, tp + fn, req) => Reaches(more, tp + fn, req)
         /\ Reaches(2 * tp, 2 * tp + fp + fn, req) =>
              Reaches(2 * more, 2 * more + fewer + (fn - (more - tp)), req)
  BY <1>4, <1>5, <1>8, ReachesGrows
<1>12. /\ Reaches(more, more + fewer, g.precision) /\ Reaches(more, more + left, g.recall)
       /\ Reaches(2 * more, 2 * more + fewer + left, g.f1)
  BY <1>8, <1>9, <1>10, <1>11
<1> QED BY <1>7, <1>8, <1>10, <1>12 DEF Passes, Support

\* The documents hold finitely many items.
LEMMA DocumentsFinite ==
  ASSUME DocumentsInv
  PROVE  /\ IsFiniteSet(DOMAIN gold.labels) /\ IsFiniteSet(DOMAIN predictions.gold.labels)
         /\ IsFiniteSet(DOMAIN predictions.answers)
<1>1. PICK keys \in KeySets : Keyed(keys)
  BY DEF DocumentsInv
<1> QED BY <1>1, KeysAssumption, FS_Subset DEF Keyed

\* A candidate that corrects an answer, or withdraws one that was not asked for, passes
\* every gate it passed (_metric_gate, _ratio).
THEOREM BetterNeverFails == ScoreSpec => []BetterAnswersNeverFail
<1>1. ASSUME ScoreInv, result.verdict = "scored" PROVE BetterAnswersNeverFail
  <2> DEFINE labels == gold.labels
             given == predictions.answers
  <2>1. result.passed = Passed(labels, given)
    BY <1>1 DEF ScoreInv, ResultInv
  <2>2. IsFiniteSet(DOMAIN labels) /\ IsFiniteSet(DOMAIN given)
    BY <1>1, DocumentsFinite DEF ScoreInv
  <2> HIDE DEF labels, given
  <2>3. ASSUME NEW k \in DOMAIN labels, NEW g \in Gates, Passes(g, labels, given)
        PROVE  Passes(g, labels, Corrected(labels, given, k))
    <3>1. PICK answers : answers = Corrected(labels, given, k)
      OBVIOUS
    <3>2. /\ DOMAIN answers = DOMAIN given \cup {k} /\ answers[k] = labels[k].class
          /\ \A j \in DOMAIN given : j # k => answers[j] = given[j]
      BY <3>1 DEF Corrected
    <3>3. Better(g, labels, given, answers)
      BY <2>3, <3>2 DEF Better, FalseClaims, Expected, Claimed
    <3> QED BY <2>2, <2>3, <3>1, <3>3, BetterPasses
  <2>4. ASSUME NEW k \in Strays(labels, given), NEW g \in Gates, Passes(g, labels, given)
        PROVE  Passes(g, labels, Without(given, k))
    <3>1. PICK answers : answers = Without(given, k)
      OBVIOUS
    <3>2. /\ DOMAIN answers = DOMAIN given \ {k} /\ k \notin DOMAIN labels
          /\ \A j \in DOMAIN answers : answers[j] = given[j]
      BY <2>4, <3>1 DEF Without, Strays
    <3>3. Better(g, labels, given, answers)
      BY <3>2 DEF Better, FalseClaims, Expected, Claimed
    <3> QED BY <2>2, <2>4, <3>1, <3>3, BetterPasses
  <2> QED BY <2>1, <2>3, <2>4 DEF BetterAnswersNeverFail, Passed, labels, given
<1>2. ScoreInv => BetterAnswersNeverFail
  BY <1>1 DEF BetterAnswersNeverFail
<1> QED BY <1>2, ScoreInductive, PTL

-----------------------------------------------------------------------------
(* Errors.                                                                 *)

\* A class other than NONE that fits an item with its evidence is that of one gate, which
\* concerns the item.
LEMMA OneGate ==
  ASSUME NEW keys \in KeySets, NEW k \in keys, NEW class, Evidenced(k), Fits(k, class), class # "NONE"
  PROVE  /\ \E g \in Gates : Concerns(g, k) /\ g.class = class
         /\ \A g, h \in Gates : Concerns(g, k) /\ g.class = class /\ Concerns(h, k) /\ h.class = class
              => g = h
<1>1. k.task \in DOMAIN Ontology /\ k.sources \in Seq(DOMAIN Source)
  BY KeysAssumption
<1>2. class \in ClassesOf(k.task)
  BY <1>1, PolicyAssumption DEF Fits, SlotsAreGated
<1>3. PICK g \in Gates : g.task = k.task /\ g.class = class
  BY <1>2 DEF ClassesOf
<1>4. \A h \in Gates : h.family # AnyFamily => h.task \in FamilyScoped
  BY DEF Gates, GateOf
<1>5. \E h \in Gates : Concerns(h, k) /\ h.class = class
  <2>1. CASE g.family = AnyFamily
    BY <1>3, <2>1 DEF Concerns
  <2>2. CASE g.family # AnyFamily
    <3>1. IsM1(k.task)
      BY <1>3, <1>4, <2>2 DEF IsM1, M1Tasks, FamilyScoped
    <3>2. Len(k.sources) = 1
      BY <3>1 DEF Evidenced
    <3>3. k.sources[1] \in DOMAIN Source
      BY <1>1, <3>2
    <3>4. Source[k.sources[1]].family \in Families
      BY <3>3 DEF Families
    <3>5. PICK h \in Gates : h.task = g.task /\ h.class = g.class
                             /\ h.family = Source[k.sources[1]].family
      BY <2>2, <3>4, FamilyAssumption
    <3> QED BY <1>3, <3>5 DEF Concerns
  <2> QED BY <2>1, <2>2
<1>6. ASSUME NEW f \in Gates, NEW h \in Gates, Concerns(f, k), f.class = class,
             Concerns(h, k), h.class = class
      PROVE  f = h
  <2>1. f.task = k.task /\ h.task = k.task
    BY <1>6 DEF Concerns
  <2>2. f.family = h.family
    <3>1. CASE k.task \in FamilyScoped
      BY <1>6, <2>1, <3>1, PolicyAssumption DEF Concerns
    <3>2. CASE k.task \notin FamilyScoped
      BY <1>4, <2>1, <3>2
    <3> QED BY <3>1, <3>2
  <2> QED BY <1>6, <2>1, <2>2, GateAssumption
<1> QED BY <1>5, <1>6

\* If every error falls to one gate only, and the gates count what falls to them, the
\* errors are charged.
LEMMA ChargedIs ==
  ASSUME NEW errors, NEW falls, NEW count,
         \A g \in Gates : falls[g] \subseteq errors /\ count[g] = Cardinality(falls[g]),
         \A k \in errors : \E g \in Gates : k \in falls[g] /\ g.task = k.task,
         \A k \in errors : \A g, h \in Gates : k \in falls[g] /\ k \in falls[h] => g = h
  PROVE  Charged(errors, count)
<1> DEFINE charge == [k \in errors |-> CHOOSE g \in Gates : k \in falls[g] /\ g.task = k.task]
<1>1. \A k \in errors :
        charge[k] \in Gates /\ k \in falls[charge[k]] /\ charge[k].task = k.task
  OBVIOUS
<1>2. charge \in [errors -> Gates]
  BY <1>1
<1> HIDE DEF charge
<1>3. \A g \in Gates : falls[g] = {k \in errors : charge[k] = g}
  BY <1>1
<1>4. \A g \in Gates : count[g] = Cardinality({k \in errors : charge[k] = g})
  BY <1>3
<1>5. \A k \in errors : charge[k].task = k.task
  BY <1>1
<1> QED BY <1>2, <1>4, <1>5, Zenon DEF Charged

\* No error is counted twice and none by no gate (_validate_items, _metric_gate).
THEOREM EachErrorCounted == ScoreSpec => []ErrorsAreCounted
<1>1. ASSUME ScoreInv, result.verdict = "scored" PROVE ErrorsAreCounted
  <2> DEFINE labels == gold.labels
             given == predictions.answers
             false == [g \in Gates |-> FalseClaims(g, labels, given)]
             missed == [g \in Gates |-> Expected(g, labels) \ Claimed(g, given)]
             wrong == WrongClaims(labels, given)
             lost == Missed(labels, given)
  <2>1. /\ predictions.gold.labels = labels /\ ValidItems(labels, given)
        /\ result.counts = [g \in Gates |-> Counts(g, labels, given)]
    BY <1>1 DEF ScoreInv, ResultInv, Bound
  <2>2. PICK keys \in KeySets : DOMAIN labels \subseteq keys /\ DOMAIN given \subseteq keys
    BY <1>1 DEF ScoreInv, DocumentsInv, Keyed
  <2> HIDE DEF labels, given
  <2>3. Charged(wrong, [g \in Gates |-> result.counts[g].fp])
    <3>1. ASSUME NEW k \in wrong
          PROVE  /\ \E g \in Gates : Concerns(g, k) /\ g.class = given[k]
                 /\ \A g, h \in Gates : Concerns(g, k) /\ g.class = given[k]
                                        /\ Concerns(h, k) /\ h.class = given[k] => g = h
      <4>1. k \in keys /\ Evidenced(k) /\ Fits(k, given[k]) /\ given[k] # "NONE"
        BY <2>1, <2>2 DEF WrongClaims, ValidItems
      <4> QED BY <4>1, OneGate
    <3>2. ASSUME NEW k, NEW g \in Gates
          PROVE  k \in false[g] <=> k \in wrong /\ Concerns(g, k) /\ g.class = given[k]
      <4>1. g.class # "NONE"
        BY PolicyAssumption
      <4> QED BY <4>1 DEF FalseClaims, Claimed, Expected, WrongClaims
    <3>3. \A g \in Gates : [h \in Gates |-> result.counts[h].fp][g] = Cardinality(false[g])
      BY <2>1 DEF Counts
    <3> HIDE DEF wrong, false
    <3>4. \A g, k : Concerns(g, k) => g.task = k.task
      BY DEF Concerns
    <3>5. \A k \in wrong : \E g \in Gates : k \in false[g] /\ g.task = k.task
      BY <3>1, <3>2, <3>4
    <3>6. \A k \in wrong : \A g, h \in Gates : k \in false[g] /\ k \in false[h] => g = h
      BY <3>1, <3>2
    <3>7. \A g \in Gates : false[g] \subseteq wrong
      BY <3>2
    <3> QED BY <3>3, <3>5, <3>6, <3>7, ChargedIs
  <2>4. Charged(lost, [g \in Gates |-> result.counts[g].fn])
    <3>1. ASSUME NEW k \in lost
          PROVE  /\ \E g \in Gates : Concerns(g, k) /\ g.class = labels[k].class
                 /\ \A g, h \in Gates : Concerns(g, k) /\ g.class = labels[k].class
                                        /\ Concerns(h, k) /\ h.class = labels[k].class => g = h
      <4>1. k \in keys /\ Evidenced(k) /\ Fits(k, labels[k].class) /\ labels[k].class # "NONE"
        BY <2>1, <2>2 DEF Missed, ValidItems
      <4> QED BY <4>1, OneGate
    <3>2. ASSUME NEW k, NEW g \in Gates
          PROVE  k \in missed[g] <=> k \in lost /\ Concerns(g, k) /\ g.class = labels[k].class
      <4>1. g.class # "NONE"
        BY PolicyAssumption
      <4> QED BY <4>1 DEF Claimed, Expected, Missed, Predicted
    <3>3. \A g \in Gates : [h \in Gates |-> result.counts[h].fn][g] = Cardinality(missed[g])
      BY <2>1 DEF Counts
    <3> HIDE DEF lost, missed
    <3>4. \A g, k : Concerns(g, k) => g.task = k.task
      BY DEF Concerns
    <3>5. \A k \in lost : \E g \in Gates : k \in missed[g] /\ g.task = k.task
      BY <3>1, <3>2, <3>4
    <3>6. \A k \in lost : \A g, h \in Gates : k \in missed[g] /\ k \in missed[h] => g = h
      BY <3>1, <3>2
    <3>7. \A g \in Gates : missed[g] \subseteq lost
      BY <3>2
    <3> QED BY <3>3, <3>5, <3>6, <3>7, ChargedIs
  <2> QED BY <2>1, <2>3, <2>4 DEF ErrorsAreCounted, labels, given
<1>2. ScoreInv => ErrorsAreCounted
  BY <1>1 DEF ErrorsAreCounted
<1> QED BY <1>2, ScoreInductive, PTL
===============================================================================
