----------------------------- MODULE LabelCustody -----------------------------
(***************************************************************************)
(* Labeling custody: verify_labeling_governance of governance.verify over  *)
(* the ledgers of governance.models.  Reviewers label the items of one     *)
(* packet in review rounds, an adjudicator decides, a ledger is frozen and *)
(* verified; later it may be corrected by a ledger that retains it as a    *)
(* prefix.  A ledger names the one it supersedes by its digest, here by    *)
(* its place in the book of all ledgers ever frozen, verified or not.      *)
(*                                                                         *)
(* Curators enter what they like, in any order.  What belongs to the n-th  *)
(* ledger happens in second n, unless an entry is misdated; that and every *)
(* other irregular entry is a slip, of which there are MaxSlips at most.   *)
(* Bindings to sources, locators and evidence are fixed by the item and    *)
(* left out, and so are the attestations, which are constants.             *)
(***************************************************************************)
EXTENDS Integers, Sequences, FiniteSets, SequencesExt

CONSTANTS
  Items,
  People,
  Implementers,   \* implementation authors of the evaluated system
  Preparer,       \* prepared_by_reviewer_id of the packet
  Teams,          \* who may be given a review round
  LastSecond,     \* bound on time stamps
  PacketSeconds, PredictionSeconds,  \* when the packet is prepared and predictions start
  MaxRounds,      \* bound: review rounds of a ledger
  MaxDecisions,   \* bound: decision events of a ledger
  MaxLedgers,     \* bound: ledgers frozen
  MaxSlips        \* bound: irregular entries

Seconds == 0..LastSecond
Never == LastSecond + 1
TeamType == [labelers : SUBSET People, adjudicator : People]
Rounds == [labelers : SUBSET People, adjudicator : People, opened : Seconds, completed : Seconds]
Submissions == [round : 1..MaxRounds, labeler : People, decided : Seconds,
                submitted : Seconds, answers : {"first", "changed"}]
Events == [item : Items, round : 1..MaxRounds, revision : 1..MaxDecisions,
           supersedes : 0..MaxDecisions, votes : SUBSET Submissions,
           outcome : {"accepted", "abstained"}, at : Seconds]
Ledgers == {l \in [prior : 0..MaxLedgers, rounds : Seq(Rounds), submissions : SUBSET Submissions,
                   decisions : Seq(Events), active : SUBSET (1..MaxDecisions), frozen : Seconds] :
              Len(l.rounds) <= MaxRounds /\ Len(l.decisions) <= MaxDecisions}

ASSUME BoundAssumption ==
  /\ PacketSeconds \cup PredictionSeconds \subseteq Seconds
  /\ LastSecond \in Nat /\ MaxSlips \in Nat
  /\ \A n \in {MaxRounds, MaxDecisions, MaxLedgers} : n \in Nat \ {0}
ASSUME PeopleAssumption ==
  Preparer \in People /\ Implementers \subseteq People /\ Teams \subseteq TeamType

VARIABLES
  prepared,       \* when the packet was prepared
  predictionsStarted,  \* when the split says predictions started, or Never
  book,           \* every frozen ledger, and whether it was verified
  draft,          \* the ledger being written
  writing,        \* there is one
  slips

vars == <<prepared, predictionsStarted, book, draft, writing, slips>>

Blank == [prior |-> 0, rounds |-> <<>>, submissions |-> {}, decisions |-> <<>>,
          active |-> {}, frozen |-> 0]

TypeOK ==
  /\ prepared \in Seconds /\ predictionsStarted \in Seconds \cup {Never}
  /\ book \in Seq([ledger : Ledgers, verified : BOOLEAN]) /\ Len(book) <= MaxLedgers
  /\ \A n \in DOMAIN book : book[n].ledger.prior < n
  /\ draft \in Ledgers /\ draft.prior <= Len(book)
  /\ writing \in BOOLEAN /\ slips \in 0..MaxSlips
  /\ writing => Len(book) < MaxLedgers

Init ==
  /\ prepared \in PacketSeconds /\ predictionsStarted \in PredictionSeconds \cup {Never}
  /\ book = <<>> /\ draft = Blank /\ writing = FALSE /\ slips = 0

-----------------------------------------------------------------------------
(* The models' own validators.                                             *)
Authority(r) == r.labelers \cup {r.adjudicator}

RoundOK(r) ==
  /\ Cardinality(r.labelers) >= 2
  /\ r.adjudicator \notin r.labelers
  /\ r.opened <= r.completed

RoundsOK(l) ==
  \A n \in DOMAIN l.rounds :
    /\ RoundOK(l.rounds[n]) /\ l.rounds[n].completed <= l.frozen
    /\ n > 1 => l.rounds[n].opened > l.rounds[n - 1].completed
    /\ \A m \in 1..n - 1 : Authority(l.rounds[n]) \cap Authority(l.rounds[m]) = {}

Of(l, n) == {s \in l.submissions : s.round = n}

SubmissionsOK(l) ==
  /\ \A s \in l.submissions : s.round \in DOMAIN l.rounds
  /\ \A n \in DOMAIN l.rounds : {s.labeler : s \in Of(l, n)} = l.rounds[n].labelers

EventOK(l, k) ==
  LET e == l.decisions[k]
  IN  /\ e.round \in DOMAIN l.rounds
      /\ e.at <= l.rounds[e.round].completed
      /\ e.revision = 1 <=> e.supersedes = 0

WellFormed(l) ==
  /\ Len(l.rounds) >= 1 /\ Len(l.decisions) >= 1
  /\ IF l.prior = 0 THEN Len(l.rounds) = 1 ELSE Len(l.rounds) >= 2
  /\ RoundsOK(l) /\ SubmissionsOK(l)
  /\ \A k \in DOMAIN l.decisions : EventOK(l, k)

-----------------------------------------------------------------------------
(* _verify_retained_prior_ledger; submissions are sorted by round, so that  *)
(* a prefix of them is what the rounds retained have submitted.            *)
RetainedSubmissions(l, p) ==
  {s \in l.submissions : s.round \in DOMAIN p.rounds} = p.submissions

\* Faulty variant: retained decisions are not compared.
RetainsRounds(l, p) ==
  /\ WellFormed(p)
  /\ l.frozen > p.frozen
  /\ IsStrictPrefix(p.rounds, l.rounds)
  /\ RetainedSubmissions(l, p)
  /\ Len(l.decisions) > Len(p.decisions)
  /\ l.rounds[Len(p.rounds) + 1].opened > p.frozen
  /\ \A k \in Len(p.decisions) + 1..Len(l.decisions) : l.decisions[k].round > Len(p.rounds)

Retains(l, p) ==
  /\ WellFormed(p)
  /\ l.frozen > p.frozen
  /\ IsStrictPrefix(p.rounds, l.rounds)
  /\ RetainedSubmissions(l, p)
  /\ IsStrictPrefix(p.decisions, l.decisions)
  /\ l.rounds[Len(p.rounds) + 1].opened > p.frozen
  /\ \A k \in Len(p.decisions) + 1..Len(l.decisions) : l.decisions[k].round > Len(p.rounds)

-----------------------------------------------------------------------------
(* verify_labeling_governance, after the files are loaded.                 *)
Independent(l) ==
  /\ Preparer \notin Implementers
  /\ \A n \in DOMAIN l.rounds : Authority(l.rounds[n]) \cap Implementers = {}

BlindToPredictions(l) ==
  IF l.prior = 0 THEN l.frozen < predictionsStarted ELSE predictionsStarted = Never

\* Faulty variant: a response may be older than its round.
SubmittedInTimeOnly(l) ==
  \A s \in l.submissions :
    LET r == l.rounds[s.round]
    IN  /\ s.decided <= s.submitted /\ prepared <= s.decided
        /\ r.opened <= s.submitted /\ s.submitted <= r.completed

SubmittedInTime(l) ==
  \A s \in l.submissions :
    LET r == l.rounds[s.round]
    IN  /\ s.decided <= s.submitted
        /\ prepared <= s.decided /\ r.opened <= s.decided
        /\ s.submitted <= r.completed

\* Faulty variant: votes may be for a submission that was replaced.
AdjudicatedUnbound(l) ==
  \A k \in DOMAIN l.decisions :
    LET e == l.decisions[k]
    IN  \A s \in Of(l, e.round) : s.submitted <= e.at

Adjudicated(l) ==
  \A k \in DOMAIN l.decisions :
    LET e == l.decisions[k]
    IN  /\ \A s \in Of(l, e.round) : s.submitted <= e.at
        /\ e.votes = Of(l, e.round)

\* The events before the k-th that decide the same item.
Before(l, k) == {j \in 1..k - 1 : l.decisions[j].item = l.decisions[k].item}

Latest(l) == {k \in DOMAIN l.decisions : \A j \in DOMAIN l.decisions : k \notin Before(l, j)}

\* The event of the same item that comes right before k, if there is one.
Follows(l, j, k) == j \in Before(l, k) /\ \A i \in Before(l, k) : i <= j

\* Faulty variant: what is listed as active is not compared with what comes last.
ChainedAnyActive(l) ==
  /\ Items = {l.decisions[k].item : k \in DOMAIN l.decisions}
  /\ \A k \in DOMAIN l.decisions :
       LET e == l.decisions[k]
       IN  /\ Before(l, k) = {} => e.revision = 1
           /\ \A j \in Before(l, k) : Follows(l, j, k) =>
                /\ e.supersedes = j /\ e.revision = l.decisions[j].revision + 1
                /\ l.decisions[j].round <= e.round

Chained(l) ==
  /\ Items = {l.decisions[k].item : k \in DOMAIN l.decisions}
  /\ \A k \in DOMAIN l.decisions :
       LET e == l.decisions[k]
       IN  /\ Before(l, k) = {} => e.revision = 1
           /\ \A j \in Before(l, k) : Follows(l, j, k) =>
                /\ e.supersedes = j /\ e.revision = l.decisions[j].revision + 1
                /\ l.decisions[j].round <= e.round
  /\ l.active = Latest(l)

Corrects(l) ==
  l.prior # 0 =>
    \E k \in DOMAIN l.decisions :
      l.decisions[k].round = Len(l.rounds) /\ l.decisions[k].revision > 1

Accepts(l) ==
  /\ WellFormed(l)
  /\ l.prior # 0 => l.prior \in DOMAIN book /\ Retains(l, book[l.prior].ledger)
  /\ Independent(l) /\ BlindToPredictions(l)
  /\ SubmittedInTime(l) /\ Adjudicated(l) /\ Chained(l) /\ Corrects(l)

-----------------------------------------------------------------------------
(* What curators enter.                                                    *)
Now == IF Len(book) < LastSecond THEN Len(book) + 1 ELSE LastSecond
Slip(n) == slips + n <= MaxSlips /\ slips' = slips + n
facts == <<prepared, predictionsStarted>>

Begin(base, prior) ==
  /\ ~writing /\ Len(book) < MaxLedgers
  /\ Slip(IF base = prior THEN 0 ELSE 1)
  /\ writing' = TRUE
  /\ draft' = [(IF base = 0 THEN Blank ELSE book[base].ledger) EXCEPT !.prior = prior]
  /\ UNCHANGED <<facts, book>>

\* A round is opened, answered by each of its labelers and completed.
HoldRound(team) ==
  /\ writing /\ Len(draft.rounds) < MaxRounds
  /\ Slip(IF draft.prior = 0 /\ draft.rounds # <<>> THEN 1 ELSE 0)
  /\ draft' = [draft EXCEPT
       !.rounds = Append(@, [labelers |-> team.labelers, adjudicator |-> team.adjudicator,
                             opened |-> Now, completed |-> Now]),
       !.submissions = @ \cup
         {[round |-> Len(draft.rounds) + 1, labeler |-> p, decided |-> Now,
           submitted |-> Now, answers |-> "first"] : p \in team.labelers}]
  /\ UNCHANGED <<facts, book, writing>>

Event(i, n, revision, supersedes) ==
  [item |-> i, round |-> n, revision |-> revision, supersedes |-> supersedes,
   votes |-> Of(draft, n), outcome |-> "accepted", at |-> Now]

\* The events of item i entered so far, and the last of them, or 0.
Earlier(i) == {k \in DOMAIN draft.decisions : draft.decisions[k].item = i}
LastOf(i, last) ==
  IF Earlier(i) = {} THEN last = 0 ELSE last \in Earlier(i) /\ \A k \in Earlier(i) : k <= last

\* A decision that supersedes the item's last one, or is entered as if it were the first.
Decide(i, n, last) ==
  /\ writing /\ n \in DOMAIN draft.rounds /\ Len(draft.decisions) < MaxDecisions
  /\ LastOf(i, last)
  /\ LET follow == Event(i, n, Cardinality(Earlier(i)) + 1, last)
         afresh == Event(i, n, 1, 0)
     IN  \E made \in {follow, afresh} :
           /\ Slip(IF made = follow THEN 0 ELSE 1)
           /\ draft' = [draft EXCEPT !.decisions = Append(@, made)]
  /\ UNCHANGED <<facts, book, writing>>

\* Entries that are there already, retained ones too, are changed.
RewriteRound(n, changed) ==
  /\ writing /\ Slip(1)
  /\ draft' = [draft EXCEPT !.rounds[n] = changed]
  /\ UNCHANGED <<facts, book, writing>>

Resubmit(s, changed) ==
  /\ writing /\ Slip(1)
  /\ draft' = [draft EXCEPT !.submissions = (@ \ {s}) \cup {changed}]
  /\ UNCHANGED <<facts, book, writing>>

RewriteDecision(k, changed) ==
  /\ writing /\ Slip(1)
  /\ draft' = [draft EXCEPT !.decisions[k] = changed]
  /\ UNCHANGED <<facts, book, writing>>

\* The ledger is frozen, with its latest decisions or with all of them active, and
\* verified against the prior ledger that it names.
Freeze(frozen, all) ==
  /\ writing
  /\ draft.rounds # <<>> /\ draft.decisions # <<>>
  /\ Slip((IF frozen = Now THEN 0 ELSE 1) + IF all THEN 1 ELSE 0)
  /\ LET l == [draft EXCEPT !.frozen = frozen,
                            !.active = IF all THEN DOMAIN draft.decisions ELSE Latest(draft)]
     IN  book' = Append(book, [ledger |-> l, verified |-> Accepts(l)])
  /\ draft' = Blank /\ writing' = FALSE
  /\ UNCHANGED facts

Next ==
  \/ \E base, prior \in 0..Len(book) : Begin(base, prior)
  \/ \E team \in Teams : HoldRound(team)
  \/ \E i \in Items : \E n \in DOMAIN draft.rounds : \E last \in 0..MaxDecisions :
       Decide(i, n, last)
  \/ \E n \in DOMAIN draft.rounds : \E t \in Seconds :
       \/ RewriteRound(n, [draft.rounds[n] EXCEPT !.opened = t])
       \/ RewriteRound(n, [draft.rounds[n] EXCEPT !.completed = t])
  \/ \E s \in draft.submissions : \E t \in Seconds :
       \/ Resubmit(s, [s EXCEPT !.decided = t])
       \/ Resubmit(s, [s EXCEPT !.submitted = t])
       \/ Resubmit(s, [s EXCEPT !.answers = "changed"])
  \/ \E k \in DOMAIN draft.decisions :
       \/ RewriteDecision(k, [draft.decisions[k] EXCEPT !.outcome = "abstained"])
       \/ \E t \in Seconds : RewriteDecision(k, [draft.decisions[k] EXCEPT !.at = t])
  \/ \E t \in Seconds : \E all \in BOOLEAN : Freeze(t, all)

Spec == Init /\ [][Next]_vars

-----------------------------------------------------------------------------
(* Correctness, of the ledgers verified.                                   *)
Verified == {n \in DOMAIN book : book[n].verified}
Ledger(n) == book[n].ledger

\* Every decision has its place in time: packet, round, every answer to it, decision,
\* end of the round, freezing, predictions.
Timeline ==
  \A n \in Verified : \A k \in DOMAIN Ledger(n).decisions :
    LET l == Ledger(n)
        e == l.decisions[k]
        r == l.rounds[e.round]
    IN  /\ Of(l, e.round) # {}
        /\ \A s \in Of(l, e.round) :
             /\ prepared <= s.decided /\ r.opened <= s.decided
             /\ s.decided <= s.submitted /\ s.submitted <= e.at
        /\ e.at <= r.completed /\ r.completed <= l.frozen /\ l.frozen < predictionsStarted

\* A decision was taken on the very submissions that its ledger retains, by people who
\* had no part in any other round and none in the system.
FreshEyes ==
  \A n \in Verified : \A j, k \in DOMAIN Ledger(n).decisions :
    LET l == Ledger(n)
        e == l.decisions[j]
        f == l.decisions[k]
    IN  /\ e.votes \subseteq l.submissions
        /\ {s.labeler : s \in e.votes} = l.rounds[e.round].labelers
        /\ e.round # f.round =>
             Authority(l.rounds[e.round]) \cap Authority(l.rounds[f.round]) = {}
        /\ Authority(l.rounds[e.round]) \cap Implementers = {}

\* Through any number of corrections, whatever a verified ledger recorded is still
\* recorded, in its place, and what was added was done later and by others.
Descends(n, a) ==
  LET p == Ledger(n).prior
  IN  p # 0 /\ (p = a \/ (p \in Verified /\ Ledger(p).prior = a))

HistoryKept ==
  \A n, a \in Verified : Descends(n, a) =>
    LET l == Ledger(n)
        p == Ledger(a)
    IN  /\ IsPrefix(p.decisions, l.decisions) /\ IsPrefix(p.rounds, l.rounds)
        /\ p.submissions \subseteq l.submissions
        /\ \A s \in l.submissions \ p.submissions : s.decided > p.frozen

\* Each item has one active decision, which nothing supersedes, and a correction of a
\* verified ledger changes that of an item only by superseding it.
ActiveFollows ==
  \A n \in Verified :
    LET l == Ledger(n)
    IN  /\ \A i \in Items : \E k \in l.active :
             /\ l.decisions[k].item = i
             /\ \A j \in l.active : l.decisions[j].item = i => j = k
        /\ \A j \in DOMAIN l.decisions : l.decisions[j].supersedes \notin l.active
        /\ l.prior \in Verified =>
             \A k \in l.active \ Ledger(l.prior).active : l.decisions[k].supersedes # 0
=============================================================================
