-------------------------- MODULE SourceReplayProofs --------------------------
(***************************************************************************)
(* That a verified graph was replayed from bytes that its documents held   *)
(* at one moment, for any number of documents, files and writes.  Every    *)
(* document is captured before the replay and read again after it; as long *)
(* as times only grow, one that has changed in between is found changed.   *)
(***************************************************************************)
EXTENDS SourceReplay, TLAPS

Captured == 1..Len(snapshots)
Home(i) == snapshots[i].identity.file
Time(i) == snapshots[i].identity.stamp

TimesArePast == \A f \in Files : stamp[f] <= writes

BytesAreKept ==
  \A i \in Captured :
    /\ Time(i) <= stamp[Home(i)]
    /\ stamp[Home(i)] = Time(i) => body[Home(i)] = snapshots[i].data

LaterTakenLater ==
  \A i, j \in Captured : i < j /\ Home(i) = Home(j) => Time(i) < Time(j)

RereadAlone ==
  \A i \in 1..reread : \A j \in Captured : i # j => Home(i) # Home(j)

ChangeAhead ==
  pc \in {"reread", "verified"} /\ ~together =>
    \E i \in Documents : i > reread /\ Time(i) < stamp[Home(i)]

Progress ==
  /\ pc = "graph" => Len(snapshots) = 0
  /\ pc = "capture" => Len(snapshots) < N
  /\ pc \in {"graph", "capture", "replay"} => reread = 0
  /\ pc = "reread" => reread < N
Honest == BytesAreKept /\ LaterTakenLater /\ RereadAlone /\ ChangeAhead
IInv == TypeOK /\ TimesArePast /\ Progress /\ (~backdated => Honest)

-----------------------------------------------------------------------------
LEMMA SnapshotType ==
  ASSUME TypeOK, NEW i \in Captured
  PROVE  /\ Home(i) \in Files /\ Time(i) \in Nat /\ snapshots[i].data \in Data
         /\ stamp[Home(i)] \in Nat
<1>1. snapshots[i] \in Snapshots
  BY DEF TypeOK, Captured
<1>2. Home(i) \in Files /\ Time(i) \in 0..MaxWrites /\ snapshots[i].data \in Data
  BY <1>1 DEF Snapshots, Home, Time
<1>3. stamp[Home(i)] \in 0..MaxWrites
  BY <1>2 DEF TypeOK
<1> QED BY <1>2, <1>3, CountAssumption

LEMMA InitIInv == Init => IInv
<1> SUFFICES ASSUME Init PROVE IInv
  OBVIOUS
<1>1. snapshots = <<>> /\ Len(snapshots) = 0 /\ snapshots \in Seq(Snapshots)
  <2>1. snapshots = <<>>
    BY DEF Init
  <2> QED BY <2>1
<1>2. TypeOK
  <2>1. 0 \in 0..N /\ 0 \in 0..MaxWrites /\ 0 <= N
    BY CountAssumption
  <2>2. stamp \in [Files -> 0..MaxWrites] /\ body \in [Files -> Data]
    BY <2>1 DEF Init
  <2>3. graph \in Graphs /\ anchor \in Graphs /\ read \in Graphs
    BY DEF Init
  <2>4. names \in [Documents -> Files \cup {NoFile}]
    BY DEF Init
  <2>5. writes = 0 /\ pc = "graph" /\ reread = 0 /\ together = FALSE /\ backdated = FALSE
    BY DEF Init
  <2> QED BY <1>1, <2>1, <2>2, <2>3, <2>4, <2>5 DEF TypeOK
<1>3. TimesArePast /\ Progress
  BY DEF Init, TimesArePast, Progress
<1>4. Honest
  BY <1>1 DEF Init, Honest, BytesAreKept, LaterTakenLater, RereadAlone, ChangeAhead, Captured
<1> QED BY <1>2, <1>3, <1>4 DEF IInv

LEMMA RefuseKeeps ==
  ASSUME IInv, Refuse
  PROVE  IInv'
<1>1. TypeOK'
  BY DEF IInv, TypeOK, Refuse, world
<1> QED
  BY <1>1 DEF IInv, Refuse, world, TimesArePast, Progress, Honest, BytesAreKept,
     LaterTakenLater, RereadAlone, ChangeAhead, Captured, Home, Time

LEMMA ReadGraphKeeps ==
  ASSUME IInv, ReadGraph
  PROVE  IInv'
<1>1. CASE Refuse
  BY <1>1, RefuseKeeps
<1>2. CASE ~Refuse
  <2>1. pc = "graph" /\ pc' = "capture" /\ read' = graph
        /\ UNCHANGED <<world, anchor, snapshots, reread, together>>
    BY <1>2 DEF ReadGraph
  <2>2. TypeOK'
    BY <2>1 DEF IInv, TypeOK, world
  <2>3. Progress'
    BY <2>1, CountAssumption DEF IInv, Progress
  <2> QED
    BY <2>1, <2>2, <2>3 DEF IInv, world, TimesArePast, Honest, BytesAreKept,
       LaterTakenLater, RereadAlone, ChangeAhead, Captured, Home, Time
<1> QED BY <1>1, <1>2

\* The document captured last is the latest of its file: an earlier one of the
\* same file has an earlier time, or the two would have been found aliases.
LEMMA CaptureKeeps ==
  ASSUME IInv, Capture
  PROVE  IInv'
<1>1. CASE Refuse
  BY <1>1, RefuseKeeps
<1>2. CASE ~Refuse
  <2> DEFINE k == Len(snapshots) + 1
             f == names[k]
             new == [identity |-> Identity(f), data |-> body[f]]
  <2>1. /\ pc = "capture" /\ Capturable(f) /\ snapshots' = Append(snapshots, new)
        /\ pc' = IF k = N THEN "replay" ELSE "capture"
        /\ UNCHANGED <<world, anchor, read, reread, together>>
    BY <1>2 DEF Capture
  <2>2. Len(snapshots) < N /\ Len(snapshots) \in Nat /\ reread = 0 /\ k \in Documents
    BY <2>1, CountAssumption DEF IInv, Progress, TypeOK, Documents
  <2>3. f \in Files
    BY <2>1, <2>2 DEF IInv, TypeOK, Capturable
  <2>4. new \in Snapshots /\ new.identity.file = f /\ new.identity.stamp = stamp[f] /\ new.data = body[f]
    BY <2>3 DEF IInv, TypeOK, Snapshots, Identity
  <2>5. snapshots \in Seq(Snapshots)
    BY DEF IInv, TypeOK
  <2> HIDE DEF new, f
  <2>6. /\ snapshots' \in Seq(Snapshots) /\ Len(snapshots') = k /\ snapshots'[k] = new
        /\ \A i \in Captured : snapshots'[i] = snapshots[i]
    BY <2>1, <2>4, <2>5, <2>2 DEF Captured
  <2>7. TypeOK'
    BY <2>1, <2>2, <2>6, CountAssumption DEF IInv, TypeOK, world
  <2>8. Progress'
    BY <2>1, <2>2, <2>6, CountAssumption DEF IInv, Progress
  <2>9. \A i \in Captured' : i \in Captured \/ i = k
    BY <2>2, <2>6 DEF Captured
  <2>10. ASSUME Honest PROVE BytesAreKept'
    <3> SUFFICES ASSUME NEW i \in Captured'
                 PROVE  /\ Time(i)' <= stamp'[Home(i)']
                        /\ stamp'[Home(i)'] = Time(i)' => body'[Home(i)'] = snapshots'[i].data
      BY DEF BytesAreKept
    <3>1. CASE i \in Captured
      BY <3>1, <2>1, <2>6, <2>10 DEF Honest, BytesAreKept, Home, Time, world
    <3>2. CASE i = k
      BY <3>2, <2>1, <2>3, <2>4, <2>6 DEF IInv, TypeOK, Home, Time, world
    <3> QED BY <2>9, <3>1, <3>2
  <2>11. ASSUME Honest PROVE LaterTakenLater'
    <3> SUFFICES ASSUME NEW i \in Captured', NEW j \in Captured', i < j, Home(i)' = Home(j)'
                 PROVE  Time(i)' < Time(j)'
      BY DEF LaterTakenLater
    <3>1. i \in Captured /\ snapshots'[i] = snapshots[i]
      BY <2>2, <2>6 DEF Captured
    <3>2. CASE j \in Captured
      BY <3>1, <3>2, <2>6, <2>11 DEF Honest, LaterTakenLater, Home, Time
    <3>3. CASE j = k
      <4>1. Home(i) = f /\ Home(j)' = f /\ Time(j)' = stamp[f] /\ Time(i)' = Time(i)
        BY <3>1, <3>3, <2>4, <2>6 DEF Home, Time
      <4>2. Time(i) <= stamp[f] /\ Time(i) \in Nat /\ stamp[f] \in Nat
        BY <3>1, <4>1, <2>11, SnapshotType DEF Honest, BytesAreKept, IInv
      <4>3. snapshots[i].identity # Identity(f)
        BY <2>1, <3>1 DEF Capturable, Alias, Captured, IInv, TypeOK
      <4>4. snapshots[i] \in Snapshots
        BY <3>1, <2>5 DEF Captured
      <4>5. snapshots[i].identity = [file |-> Home(i), stamp |-> Time(i)]
        BY <4>4 DEF Snapshots, Home, Time
      <4>6. Time(i) # stamp[f]
        BY <4>1, <4>3, <4>5 DEF Identity
      <4> QED BY <4>1, <4>2, <4>6
    <3> QED BY <2>9, <3>2, <3>3
  <2>12. RereadAlone' /\ ChangeAhead'
    BY <2>1, <2>2 DEF RereadAlone, ChangeAhead
  <2>13. TimesArePast' /\ backdated' = backdated
    BY <2>1 DEF IInv, TimesArePast, world
  <2> QED BY <2>7, <2>8, <2>10, <2>11, <2>12, <2>13 DEF IInv, Honest
<1> QED BY <1>1, <1>2

\* If the captured documents no longer hold their bytes together, one of them
\* has a later time, and it has yet to be read again.
LEMMA ReplayKeeps ==
  ASSUME IInv, Replay
  PROVE  IInv'
<1>1. CASE Refuse
  BY <1>1, RefuseKeeps
<1>2. CASE ~Refuse
  <2>1. /\ pc = "replay" /\ pc' = "reread"
        /\ together' = \A i \in Documents : body[snapshots[i].identity.file] = snapshots[i].data
        /\ UNCHANGED <<world, anchor, read, snapshots, reread>>
    BY <1>2 DEF Replay
  <2>2. Len(snapshots) = N /\ reread = 0 /\ Captured = Documents
    BY <2>1 DEF IInv, TypeOK, Progress, Captured, Documents
  <2>3. TypeOK'
    BY <2>1, <2>2 DEF IInv, TypeOK, world
  <2>4. Progress' /\ TimesArePast' /\ backdated' = backdated
    BY <2>1, <2>2, CountAssumption DEF IInv, Progress, TimesArePast, world
  <2>5. ASSUME Honest PROVE ChangeAhead'
    <3> SUFFICES ASSUME ~together'
                 PROVE  \E i \in Documents : i > reread /\ Time(i) < stamp[Home(i)]
      BY <2>1 DEF ChangeAhead, Home, Time, world
    <3>1. PICK i \in Documents : body[Home(i)] # snapshots[i].data
      BY <2>1 DEF Home
    <3>2. Time(i) <= stamp[Home(i)] /\ Time(i) # stamp[Home(i)]
      BY <3>1, <2>2, <2>5 DEF Honest, BytesAreKept
    <3>3. Time(i) \in Nat /\ stamp[Home(i)] \in Nat
      BY <2>2, SnapshotType DEF IInv
    <3> QED BY <3>2, <3>3, <2>2 DEF Documents
  <2>6. ASSUME Honest PROVE Honest'
    BY <2>1, <2>5, <2>6 DEF Honest, BytesAreKept, LaterTakenLater, RereadAlone, Captured, Home, Time, world
  <2> QED BY <2>3, <2>4, <2>6 DEF IInv
<1> QED BY <1>1, <1>2

\* A document found unchanged has the time of its capture, so nothing captured
\* later is of the same file, and it is not the one that has changed.
LEMMA RereadKeeps ==
  ASSUME IInv, Reread
  PROVE  IInv'
<1>1. CASE Refuse
  BY <1>1, RefuseKeeps
<1>2. CASE ~Refuse
  <2> DEFINE k == reread + 1
  <2>1. /\ pc = "reread" /\ Unchanged(k) /\ reread' = k
        /\ pc' = IF k = N THEN "verified" ELSE "reread"
        /\ UNCHANGED <<world, anchor, read, snapshots, together>>
    BY <1>2 DEF Reread
  <2>2. Len(snapshots) = N /\ Captured = Documents /\ reread < N /\ reread \in Nat
    BY <2>1, CountAssumption DEF IInv, TypeOK, Progress, Captured, Documents
  <2>3. k \in Documents /\ k \in Captured
    BY <2>2, CountAssumption DEF Documents
  <2>4. TypeOK'
    BY <2>1, <2>2, CountAssumption DEF IInv, TypeOK, world
  <2>5. Progress' /\ TimesArePast' /\ backdated' = backdated
    BY <2>1, <2>2, CountAssumption DEF IInv, Progress, TimesArePast, world
  <2>6. stamp[Home(k)] = Time(k)
    BY <2>1 DEF Unchanged, Identity, Home, Time
  <2>7. ASSUME Honest PROVE RereadAlone'
    <3>1. ASSUME NEW j \in Captured, k # j PROVE Home(k) # Home(j)
      <4>1. /\ Time(k) \in Nat /\ Time(j) \in Nat /\ stamp[Home(j)] \in Nat
            /\ Time(j) <= stamp[Home(j)]
        BY <2>3, <2>7, <3>1, SnapshotType DEF IInv, Honest, BytesAreKept
      <4>2. CASE k < j
        BY <4>1, <4>2, <2>3, <2>6, <2>7 DEF Honest, LaterTakenLater
      <4>3. CASE j < k
        BY <4>3, <2>2, <2>3, <2>7 DEF Honest, RereadAlone, Captured
      <4> QED BY <4>2, <4>3, <3>1, <2>2, <2>3 DEF Captured
    <3>2. \A i \in 1..k : i \in 1..reread \/ i = k
      BY <2>2
    <3> QED BY <2>1, <2>7, <3>1, <3>2 DEF Honest, RereadAlone, Captured, Home
  <2>8. ASSUME Honest PROVE ChangeAhead'
    <3> SUFFICES ASSUME ~together
                 PROVE  \E i \in Documents : i > k /\ Time(i) < stamp[Home(i)]
      BY <2>1 DEF ChangeAhead, Home, Time, world
    <3>1. PICK i \in Documents : i > reread /\ Time(i) < stamp[Home(i)]
      BY <2>1, <2>8 DEF Honest, ChangeAhead
    <3>2. i # k
      BY <3>1, <2>6, <2>3, SnapshotType DEF IInv
    <3> QED BY <3>1, <3>2, <2>2 DEF Documents
  <2>9. ASSUME Honest PROVE Honest'
    BY <2>1, <2>7, <2>8, <2>9 DEF Honest, BytesAreKept, LaterTakenLater, Captured, Home, Time, world
  <2> QED BY <2>4, <2>5, <2>9 DEF IInv
<1> QED BY <1>1, <1>2

-----------------------------------------------------------------------------
(* The steps of the other processes. *)

\* A file written gets a time later than any that was captured.
LEMMA WriteKeeps ==
  ASSUME IInv, NEW f \in Files, Write(f)
  PROVE  IInv'
<1>1. /\ writes < MaxWrites /\ writes' = writes + 1
      /\ UNCHANGED <<graph, names, anchor, pc, read, snapshots, reread, together>>
  BY DEF Write
<1>2. PICK d \in Data : body' = [body EXCEPT ![f] = d]
  BY DEF Write
<1>3. PICK t \in 0..writes + 1 :
        /\ stamp' = [stamp EXCEPT ![f] = t]
        /\ \/ t = writes + 1 /\ backdated' = backdated
           \/ backdated' = TRUE
  BY DEF Write, IInv, TypeOK
<1>4. writes \in Nat /\ MaxWrites \in Nat /\ t \in 0..MaxWrites
  BY <1>1, CountAssumption DEF IInv, TypeOK
<1>5. TypeOK'
  <2>1. writes' \in 0..MaxWrites
    BY <1>1, <1>4
  <2>2. stamp' \in [Files -> 0..MaxWrites]
    BY <1>3, <1>4 DEF IInv, TypeOK
  <2>3. body' \in [Files -> Data]
    BY <1>2 DEF IInv, TypeOK
  <2>4. backdated' \in BOOLEAN
    BY <1>3 DEF IInv, TypeOK
  <2> QED BY <1>1, <2>1, <2>2, <2>3, <2>4 DEF IInv, TypeOK
<1>6. Progress'
  BY <1>1 DEF IInv, Progress
<1>7. TimesArePast'
  BY <1>1, <1>3, <1>4 DEF IInv, TypeOK, TimesArePast
<1>8. ASSUME ~backdated' PROVE Honest'
  <2>1. ~backdated /\ Honest /\ t = writes + 1
    BY <1>3, <1>8 DEF IInv
  <2>2. ASSUME NEW i \in Captured
        PROVE  /\ Time(i) \in Nat /\ stamp[Home(i)] \in Nat /\ Home(i) \in Files
               /\ stamp[Home(i)] <= writes /\ Time(i) <= stamp[Home(i)]
               /\ stamp'[Home(i)] = IF Home(i) = f THEN writes + 1 ELSE stamp[Home(i)]
    BY <2>1, <1>3, SnapshotType DEF IInv, TypeOK, TimesArePast, Honest, BytesAreKept
  <2>3. BytesAreKept'
    <3> SUFFICES ASSUME NEW i \in Captured
                 PROVE  /\ Time(i) <= stamp'[Home(i)]
                        /\ stamp'[Home(i)] = Time(i) => body'[Home(i)] = snapshots[i].data
      BY <1>1 DEF BytesAreKept, Captured, Home, Time
    <3>1. CASE Home(i) = f
      BY <3>1, <2>2, <1>4
    <3>2. CASE Home(i) # f
      <4>1. body'[Home(i)] = body[Home(i)]
        BY <3>2, <2>2, <1>2 DEF IInv, TypeOK
      <4> QED BY <4>1, <3>2, <2>1, <2>2 DEF Honest, BytesAreKept
    <3> QED BY <3>1, <3>2
  <2>4. LaterTakenLater' /\ RereadAlone'
    BY <1>1, <2>1 DEF Honest, LaterTakenLater, RereadAlone, Captured, Home, Time
  <2>5. ChangeAhead'
    <3> SUFFICES ASSUME pc \in {"reread", "verified"}, ~together
                 PROVE  \E i \in Documents : i > reread /\ Time(i) < stamp'[Home(i)]
      BY <1>1 DEF ChangeAhead, Home, Time
    <3>1. PICK i \in Documents : i > reread /\ Time(i) < stamp[Home(i)]
      BY <2>1 DEF Honest, ChangeAhead
    <3>2. i \in Captured
      BY DEF IInv, TypeOK, Captured, Documents
    <3> QED BY <3>1, <3>2, <2>2, <1>4
  <2> QED BY <2>3, <2>4, <2>5 DEF Honest
<1> QED BY <1>5, <1>6, <1>7, <1>8 DEF IInv

LEMMA RenamesKeep ==
  ASSUME IInv, WriteGraph \/ \E i \in Documents : Rename(i)
  PROVE  IInv'
<1>1. /\ writes < MaxWrites /\ writes' = writes + 1
      /\ UNCHANGED <<body, stamp, backdated, anchor, pc, read, snapshots, reread, together>>
  BY DEF WriteGraph, Rename
<1>2. graph' \in Graphs /\ names' \in [Documents -> Files \cup {NoFile}]
  BY DEF WriteGraph, Rename, IInv, TypeOK
<1>3. writes' \in 0..MaxWrites /\ writes \in Nat
  BY <1>1, CountAssumption DEF IInv, TypeOK
<1>4. TypeOK'
  BY <1>1, <1>2, <1>3 DEF IInv, TypeOK
<1>5. TimesArePast'
  BY <1>1, <1>3 DEF IInv, TypeOK, TimesArePast
<1> QED
  BY <1>1, <1>4, <1>5 DEF IInv, Progress, Honest, BytesAreKept,
     LaterTakenLater, RereadAlone, ChangeAhead, Captured, Home, Time

LEMMA StutterKeeps ==
  ASSUME IInv, UNCHANGED vars
  PROVE  IInv'
<1>1. TypeOK'
  BY DEF IInv, TypeOK, vars, world
<1> QED
  BY <1>1 DEF IInv, vars, world, TimesArePast, Progress, Honest, BytesAreKept,
     LaterTakenLater, RereadAlone, ChangeAhead, Captured, Home, Time

LEMMA NextKeepsIInv == IInv /\ [Next]_vars => IInv'
<1> SUFFICES ASSUME IInv, [Next]_vars PROVE IInv'
  OBVIOUS
<1>1. CASE Verifier
  BY <1>1, ReadGraphKeeps, CaptureKeeps, ReplayKeeps, RereadKeeps, RefuseKeeps DEF Verifier, OSErrors
<1>2. CASE Others
  BY <1>2, RenamesKeep, WriteKeeps DEF Others
<1>3. CASE UNCHANGED vars
  BY <1>3, StutterKeeps
<1> QED BY <1>1, <1>2, <1>3 DEF Next

(* Every variable of the verification keeps its type. *)
THEOREM TypeCorrect == Spec => []TypeOK
<1>1. IInv => TypeOK
  BY DEF IInv
<1> QED BY <1>1, InitIInv, NextKeepsIInv, PTL DEF Spec

LEMMA VerifiedAtOnce == IInv => VerifiedTogether
<1> SUFFICES ASSUME IInv, pc = "verified", ~backdated
             PROVE  /\ together
                    /\ \A i, j \in Documents :
                         i # j => snapshots[i].identity.file # snapshots[j].identity.file
  BY DEF VerifiedTogether
<1>1. Honest /\ reread = N /\ Captured = Documents
  BY DEF IInv, TypeOK, Captured, Documents
<1>2. together
  BY <1>1, CountAssumption DEF Honest, ChangeAhead, Documents
<1> QED BY <1>1, <1>2 DEF Honest, RereadAlone, Home, Documents

(* Whatever is written and renamed during the call, the documents of a      *)
(* verified graph are different files that held its bytes at one moment.    *)
THEOREM OneMoment == Spec => []VerifiedTogether
<1> QED BY VerifiedAtOnce, InitIInv, NextKeepsIInv, PTL DEF Spec

\* What was read, captured and replayed by then is the anchored graph.
AnchoredSoFar ==
  /\ TypeOK /\ read = anchor
  /\ pc \in {"capture", "replay", "reread", "verified"} => Len(read.binds) = N
  /\ pc = "graph" => Len(snapshots) = 0
  /\ pc \in {"reread", "verified"} => read.replayable
  /\ pc = "capture" => Len(snapshots) < N
  /\ \A i \in Captured : snapshots[i].data = read.binds[i]

LEMMA AnchoredStep == IInv /\ AnchoredSoFar /\ [Next]_vars => AnchoredSoFar'
<1> SUFFICES ASSUME IInv, AnchoredSoFar, [Next]_vars
             PROVE  AnchoredSoFar'
  OBVIOUS
<1>1. TypeOK'
  BY NextKeepsIInv DEF IInv
<1> USE <1>1 DEF AnchoredSoFar, Captured
<1>2. CASE ReadGraph
  <2>1. CASE Refuse
    BY <2>1 DEF Refuse
  <2>2. CASE /\ graph = anchor /\ Len(graph.binds) = N
             /\ pc' = "capture" /\ read' = graph /\ UNCHANGED <<anchor, snapshots>>
    <3>1. Len(snapshots') = 0 /\ Len(snapshots') < N /\ ~(\E i \in 1..Len(snapshots') : TRUE)
      BY <1>2, <2>2, CountAssumption DEF ReadGraph
    <3> QED BY <2>2, <3>1
  <2> QED BY <1>2, <2>1, <2>2 DEF ReadGraph
<1>3. CASE Capture
  <2> DEFINE n == Len(snapshots)
             f == names[n + 1]
             s == [identity |-> Identity(f), data |-> body[f]]
  <2>1. CASE Refuse
    BY <1>3, <2>1 DEF Capture, Refuse
  <2>2. CASE Capturable(f) /\ snapshots' = Append(snapshots, s)
               /\ pc' = (IF n + 1 = N THEN "replay" ELSE "capture")
               /\ UNCHANGED <<read, anchor>>
    <3>1. snapshots \in Seq(Snapshots) /\ n \in Nat /\ n < N /\ pc = "capture"
      BY <1>3 DEF Capture, TypeOK
    <3>2. snapshots' \in Seq(Snapshots)
      BY DEF TypeOK
    <3>3. Len(snapshots') = n + 1 /\ snapshots'[n + 1] = s
          /\ \A i \in 1..n : snapshots'[i] = snapshots[i]
      <4> HIDE DEF s
      <4>1. s = s /\ snapshots \in Seq(Snapshots)
        BY <3>1
      <4> QED BY <4>1, <2>2, <3>1, <3>2
    <3>4. s.data = read.binds[n + 1]
      BY <2>2 DEF Capturable
    <3>5. ASSUME NEW i \in 1..n + 1
          PROVE  snapshots'[i].data = read.binds[i]
      <4>1. i \in 1..n \/ i = n + 1
        BY <3>1
      <4> QED BY <4>1, <3>3, <3>4
    <3> QED BY <2>2, <3>1, <3>3, <3>5, CountAssumption
  <2> QED BY <1>3, <2>1, <2>2 DEF Capture
<1>4. CASE Replay
  BY <1>4 DEF Replay, Refuse
<1>5. CASE Reread
  BY <1>5 DEF Reread, Refuse
<1>6. CASE OSErrors
  BY <1>6 DEF OSErrors, Refuse
<1>7. CASE WriteGraph \/ \E i \in Documents : Rename(i)
  BY <1>7 DEF WriteGraph, Rename
<1>8. CASE \E f \in Files : Write(f)
  BY <1>8 DEF Write
<1>9. CASE UNCHANGED vars
  BY <1>9 DEF vars
<1> QED BY <1>2, <1>3, <1>4, <1>5, <1>6, <1>7, <1>8, <1>9 DEF Next, Verifier, Others

\* A verified graph is the one the caller anchored and what a replay of its documents
\* yields (the checks of verify_lineage_graph_file, in their order).
THEOREM VerifiedGraphIsAnchored == Spec => []VerifiedIsAnchored
<1>1. Init => AnchoredSoFar
  BY InitIInv DEF Init, AnchoredSoFar, Captured, IInv
<1>2. AnchoredSoFar => VerifiedIsAnchored
  BY DEF AnchoredSoFar, VerifiedIsAnchored, TypeOK, Captured, Documents
<1> QED BY <1>1, <1>2, AnchoredStep, InitIInv, NextKeepsIInv, PTL DEF Spec
=============================================================================
