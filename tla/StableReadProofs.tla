--------------------------- MODULE StableReadProofs ---------------------------
(***************************************************************************)
(* That a read that succeeds returns one version of the file, for any      *)
(* files, contents, limits and writers.  The argument: once the call has   *)
(* begun every write is stamped with its own tick or a later one, so a     *)
(* file whose stamp is still the settled one first seen was not written,   *)
(* and what was read of it so far is still the beginning of its content.   *)
(***************************************************************************)
EXTENDS StableRead, TLAPS

Begun == {"open", "fstat", "read", "fstat_after", "restat"}
Reading == {"read", "fstat_after", "restat"}

CallIsUnderWay ==
  /\ pc \in {"stat", "open", "fstat"} => raw = <<>>
  /\ pc \in Begun => started <= clock /\ initial.file \in Files
  /\ pc \in Reading \cup {"fstat"} => fd \in Files
  /\ pc \in Reading => before = initial /\ fd = initial.file
  /\ pc = "restat" => after = initial /\ Len(raw) = initial.size

Unwritten == Settled /\ stamp[fd] = initial.stamp
BeginningOfContent ==
  pc \in Reading /\ Unwritten =>
    Len(raw) <= Len(body[fd]) /\ \A i \in 1..Len(raw) : raw[i] = body[fd][i]

IInv == TypeOK /\ CallIsUnderWay /\ BeginningOfContent

-----------------------------------------------------------------------------
(* A content is a sequence, and determined by its elements. *)
LEMMA ContentsAreSequences ==
  ASSUME NEW c \in Contents
  PROVE  c \in Seq(Data) /\ Len(c) \in 0..Longest /\ c \in [1..Len(c) -> Data]
<1>1. PICK n \in 0..Longest : c \in [1..n -> Data]
  BY DEF Contents
<1>2. n \in Nat
  BY SizeAssumption
<1>3. c \in Seq(Data) /\ Len(c) = n
  BY <1>1, <1>2
<1> QED BY <1>1, <1>3

LEMMA SameElements ==
  ASSUME NEW c \in Contents, NEW d \in Contents, Len(c) = Len(d),
         \A i \in 1..Len(c) : c[i] = d[i]
  PROVE  c = d
<1>1. c \in [1..Len(c) -> Data] /\ d \in [1..Len(c) -> Data]
  BY ContentsAreSequences
<1> QED BY <1>1

LEMMA LongerPrefix ==
  ASSUME NEW c \in Contents, NEW r \in Contents, NEW n \in 1..Longest,
         Len(r) + n <= Len(c)
  PROVE  LET longer == [i \in 1..Len(r) + n |-> IF i <= Len(r) THEN r[i] ELSE c[i]]
         IN  longer \in Contents /\ Len(longer) = Len(r) + n
<1> DEFINE m == Len(r) + n
           longer == [i \in 1..m |-> IF i <= Len(r) THEN r[i] ELSE c[i]]
<1>1. m \in 0..Longest /\ m \in Nat
  BY ContentsAreSequences, SizeAssumption
<1>2. \A i \in 1..m : (IF i <= Len(r) THEN r[i] ELSE c[i]) \in Data
  BY <1>1, ContentsAreSequences
<1>3. longer \in [1..m -> Data]
  BY <1>2
<1>4. longer \in Contents
  BY <1>1, <1>3 DEF Contents
<1>5. Len(longer) = m
  BY <1>1, <1>3
<1> QED BY <1>4, <1>5

-----------------------------------------------------------------------------
LEMMA InitIInv == Init => IInv
<1> SUFFICES ASSUME Init PROVE IInv
  OBVIOUS
<1>1. body \in [Files -> Contents] /\ raw = <<>> /\ pc = "stat"
  BY DEF Init
<1>2. raw \in Contents /\ Len(raw) = 0
  <2>1. raw \in [1..0 -> Data] /\ 0 \in 0..Longest
    BY <1>1, SizeAssumption
  <2> QED BY <2>1, <1>1 DEF Contents
<1>3. TypeOK
  BY <1>1, <1>2, SizeAssumption DEF Init, TypeOK, Phases, Identities, Nothing
<1> QED BY <1>1, <1>3 DEF IInv, CallIsUnderWay, BeginningOfContent, Begun, Reading

(* Identities are what TypeOK says they are. *)
LEMMA IdentityType ==
  ASSUME TypeOK, NEW f \in Files
  PROVE  Identity(f) \in Identities /\ body[f] \in Contents /\ Len(body[f]) \in 0..Longest
<1>1. body[f] \in Contents /\ stamp[f] \in 0..LastTick
  BY DEF TypeOK
<1>2. Len(body[f]) \in 0..Longest
  BY <1>1, ContentsAreSequences
<1> QED BY <1>1, <1>2 DEF Identity, Identities

(* A step of the reader, of which only Read and the entry to it matter. *)
LEMMA RejectKeeps ==
  ASSUME IInv, Reject
  PROVE  IInv'
<1>1. TypeOK'
  BY DEF IInv, TypeOK, Reject, world, Phases
<1> QED BY <1>1 DEF IInv, Reject, CallIsUnderWay, BeginningOfContent, Begun, Reading, world

LEMMA StatKeeps ==
  ASSUME IInv, Stat
  PROVE  IInv'
<1>1. pc = "stat" /\ raw' = <<>> /\ started' = clock /\ clock' = clock
  BY DEF IInv, CallIsUnderWay, Stat, world
<1>2. CASE Allowed(at)
  <2>1. at \in Files /\ initial' = Identity(at) /\ pc' = "open"
    BY <1>2 DEF Stat, Allowed, IInv, TypeOK
  <2>2. initial' \in Identities /\ initial'.file \in Files
    BY <2>1, IdentityType DEF IInv, Identity
  <2>3. TypeOK'
    BY <2>1, <2>2, <1>1 DEF IInv, TypeOK, Stat, world, Phases
  <2> QED BY <1>1, <2>1, <2>2, <2>3 DEF IInv, TypeOK, CallIsUnderWay, BeginningOfContent, Begun, Reading
<1>3. CASE ~Allowed(at)
  <2>1. pc' = "failed"
    BY <1>3 DEF Stat
  <2>2. TypeOK'
    BY <2>1, <1>1, <1>3 DEF IInv, TypeOK, Stat, world, Phases
  <2> QED BY <1>1, <2>1, <2>2 DEF IInv, CallIsUnderWay, BeginningOfContent, Begun, Reading
<1> QED BY <1>2, <1>3

LEMMA OpenKeeps ==
  ASSUME IInv, Open
  PROVE  IInv'
<1>1. CASE Reject
  BY <1>1, RejectKeeps
<1>2. CASE ~Reject
  <2>1. at # NoFile /\ pc = "open" /\ pc' = "fstat" /\ fd' = at /\ raw' = raw
        /\ UNCHANGED <<world, initial, started>>
    BY <1>2 DEF Open
  <2>2. TypeOK'
    BY <1>2, <2>1 DEF Open, IInv, TypeOK, world, Phases
  <2> QED BY <2>1, <2>2 DEF IInv, TypeOK, CallIsUnderWay, BeginningOfContent, Begun, Reading, world
<1> QED BY <1>1, <1>2

LEMMA FstatKeeps ==
  ASSUME IInv, Fstat
  PROVE  IInv'
<1>1. CASE Reject
  BY <1>1, RejectKeeps
<1>2. CASE ~Reject
  <2>1. /\ pc = "fstat" /\ pc' = "read" /\ Identity(fd) = initial /\ before' = initial
        /\ raw' = raw /\ UNCHANGED <<world, fd, initial, after, started, expected, quiet>>
    BY <1>2 DEF Fstat
  <2>2. fd \in Files /\ initial.file = fd /\ raw = <<>>
    BY <2>1 DEF IInv, CallIsUnderWay, Identity
  <2>3. TypeOK'
    BY <2>1 DEF IInv, TypeOK, world, Phases
  <2>4. Len(raw) = 0 /\ Len(body[fd]) >= 0
    BY <2>2, IdentityType DEF IInv
  <2> QED
    BY <2>1, <2>2, <2>3, <2>4 DEF IInv, CallIsUnderWay, BeginningOfContent, Unwritten, Settled, Begun, Reading, world
<1> QED BY <1>1, <1>2

LEMMA ReadKeeps ==
  ASSUME IInv, Read
  PROVE  IInv'
<1>1. /\ pc = "read" /\ pc' = "read"
      /\ UNCHANGED <<world, fd, initial, before, after, started, expected, quiet>>
  BY DEF Read
<1>2. fd \in Files /\ raw \in Contents /\ Len(raw) \in 0..Longest /\ body[fd] \in Contents
      /\ Len(body[fd]) \in 0..Longest
  BY <1>1, IdentityType, ContentsAreSequences DEF IInv, TypeOK, CallIsUnderWay, Reading
<1>3. PICK n \in 1..MaxBytes + 1 - Len(raw) :
        /\ Len(raw) + n <= Len(body[fd])
        /\ raw' = [i \in 1..Len(raw) + n |-> IF i <= Len(raw) THEN raw[i] ELSE body[fd][i]]
  BY DEF Read
<1>4. n \in 1..Longest /\ Len(raw) + n <= MaxBytes + 1
  BY <1>2, <1>3, SizeAssumption
<1>5. raw' \in Contents /\ Len(raw') = Len(raw) + n
  BY <1>2, <1>3, <1>4, LongerPrefix
<1>6. TypeOK'
  BY <1>1, <1>4, <1>5 DEF IInv, TypeOK, world, Phases
<1>7. ASSUME Unwritten, NEW i \in 1..Len(raw')
      PROVE  raw'[i] = body[fd][i]
  BY <1>1, <1>2, <1>3, <1>5, <1>7 DEF IInv, BeginningOfContent, Reading
<1>8. BeginningOfContent'
  BY <1>1, <1>3, <1>5, <1>7 DEF BeginningOfContent, Unwritten, Settled, world
<1>9. CallIsUnderWay'
  BY <1>1 DEF IInv, CallIsUnderWay, Begun, Reading, world
<1> QED BY <1>6, <1>8, <1>9 DEF IInv

LEMMA EndOfReadKeeps ==
  ASSUME IInv, EndOfRead
  PROVE  IInv'
<1>1. /\ pc = "read" /\ pc' = "fstat_after"
      /\ UNCHANGED <<world, raw, fd, initial, before, after, started, expected, quiet>>
  BY DEF EndOfRead
<1>2. TypeOK'
  BY <1>1 DEF IInv, TypeOK, world, Phases
<1> QED
  BY <1>1, <1>2 DEF IInv, CallIsUnderWay, BeginningOfContent, Unwritten, Settled, Begun, Reading, world

LEMMA FstatAfterKeeps ==
  ASSUME IInv, FstatAfter
  PROVE  IInv'
<1>1. CASE Reject
  BY <1>1, RejectKeeps
<1>2. CASE ~Reject
  <2>1. /\ pc = "fstat_after" /\ pc' = "restat" /\ SameAsBefore /\ after' = Identity(fd)
        /\ UNCHANGED <<world, raw, fd, initial, before, started, expected, quiet>>
    BY <1>2 DEF FstatAfter
  <2>2. fd \in Files /\ before = initial /\ Identity(fd) = initial /\ Len(raw) = initial.size
    BY <2>1 DEF IInv, CallIsUnderWay, SameAsBefore, Reading, Identity
  <2>3. TypeOK'
    BY <2>1, <2>2 DEF IInv, TypeOK, world, Phases
  <2> QED
    BY <2>1, <2>2, <2>3 DEF IInv, CallIsUnderWay, BeginningOfContent, Unwritten, Settled, Begun, Reading, world
<1> QED BY <1>1, <1>2

LEMMA RestatKeeps ==
  ASSUME IInv, Restat
  PROVE  IInv'
<1>1. CASE Reject
  BY <1>1, RejectKeeps
<1>2. CASE ~Reject
  <2>1. pc' = "done"
        /\ UNCHANGED <<world, raw, fd, initial, before, after, started, expected, quiet>>
    BY <1>2 DEF Restat
  <2>2. TypeOK'
    BY <2>1 DEF IInv, TypeOK, world, Phases
  <2> QED BY <2>1, <2>2 DEF IInv, CallIsUnderWay, BeginningOfContent, Begun, Reading
<1> QED BY <1>1, <1>2

LEMMA OSErrorsKeep ==
  ASSUME IInv, OSErrors
  PROVE  IInv'
<1>1. pc' = "failed" /\ TypeOK'
  BY DEF IInv, TypeOK, OSErrors, world, Phases
<1> QED BY <1>1 DEF CallIsUnderWay, BeginningOfContent, IInv, Begun, Reading

-----------------------------------------------------------------------------
(* The steps of the other processes. *)
LEMMA TickKeeps ==
  ASSUME IInv, Tick
  PROVE  IInv'
<1>1. clock' = clock + 1 /\ clock < LastTick /\ UNCHANGED <<at, body, stamp, call, quiet>>
  BY DEF Tick
<1>2. TypeOK'
  BY <1>1, SizeAssumption DEF IInv, TypeOK, call, Phases
<1>3. CallIsUnderWay'
  BY <1>1 DEF IInv, TypeOK, CallIsUnderWay, call, Begun, Reading
<1> QED BY <1>1, <1>2, <1>3 DEF IInv, BeginningOfContent, Unwritten, Settled, call

\* A file written while it is being read has lost the stamp it was found with.
LEMMA WriteKeeps ==
  ASSUME IInv, NEW f \in Files, Write(f)
  PROVE  IInv'
<1>1. PICK c \in Contents \ {body[f]} : body' = [body EXCEPT ![f] = c]
  BY DEF Write
<1>2. stamp' = [stamp EXCEPT ![f] = clock] /\ quiet' = FALSE /\ UNCHANGED <<at, clock, call>>
  BY DEF Write
<1>3. TypeOK'
  BY <1>1, <1>2 DEF IInv, TypeOK, call, Phases
<1>4. CallIsUnderWay'
  BY <1>2 DEF IInv, CallIsUnderWay, call, Begun, Reading
<1>5. ASSUME pc \in Reading, Unwritten'
      PROVE  fd # f /\ Unwritten
  <2>1. fd \in Files /\ started <= clock /\ initial.stamp \in Nat /\ started \in Nat /\ clock \in Nat
    BY <1>5 DEF IInv, TypeOK, CallIsUnderWay, Identities, Begun, Reading
  <2>2. initial.stamp < started /\ stamp'[fd] = initial.stamp
    BY <1>2, <1>5 DEF Unwritten, Settled, call
  <2>3. stamp'[f] = clock
    BY <1>2 DEF IInv, TypeOK
  <2>4. fd # f
    BY <2>1, <2>2, <2>3
  <2>5. stamp'[fd] = stamp[fd]
    BY <1>2, <2>1, <2>4 DEF IInv, TypeOK
  <2> QED BY <2>2, <2>4, <2>5 DEF Unwritten, Settled
<1>6. ASSUME pc \in Reading, Unwritten'
      PROVE  body'[fd] = body[fd] /\ raw' = raw
  BY <1>1, <1>2, <1>5, <1>6 DEF IInv, TypeOK, CallIsUnderWay, call
<1>7. BeginningOfContent'
  <2> SUFFICES ASSUME pc' \in Reading, Unwritten'
               PROVE  Len(raw') <= Len(body'[fd']) /\ \A i \in 1..Len(raw') : raw'[i] = body'[fd'][i]
    BY DEF BeginningOfContent
  <2>1. pc \in Reading /\ fd' = fd
    BY <1>2 DEF call
  <2> QED BY <2>1, <1>5, <1>6 DEF IInv, BeginningOfContent
<1> QED BY <1>3, <1>4, <1>7 DEF IInv

LEMMA RenameKeeps ==
  ASSUME IInv, Rename
  PROVE  IInv'
<1>1. at' \in Files \cup {NoFile} /\ quiet' = FALSE /\ UNCHANGED <<body, stamp, clock, call>>
  BY DEF Rename
<1>2. TypeOK'
  BY <1>1 DEF IInv, TypeOK, call, Phases
<1> QED
  BY <1>1, <1>2 DEF IInv, CallIsUnderWay, BeginningOfContent, Unwritten, Settled, call, Begun, Reading

LEMMA StutterKeeps ==
  ASSUME IInv, UNCHANGED vars
  PROVE  IInv'
<1>1. TypeOK'
  BY DEF IInv, TypeOK, vars, world, call, Phases
<1> QED
  BY <1>1 DEF IInv, CallIsUnderWay, BeginningOfContent, Unwritten, Settled, vars, world, call, Begun, Reading

LEMMA NextKeepsIInv == IInv /\ [Next]_vars => IInv'
<1> SUFFICES ASSUME IInv, [Next]_vars PROVE IInv'
  OBVIOUS
<1>1. CASE Reader
  BY <1>1, StatKeeps, OpenKeeps, FstatKeeps, ReadKeeps, EndOfReadKeeps, FstatAfterKeeps,
     RestatKeeps DEF Reader
<1>2. CASE OSErrors
  BY <1>2, OSErrorsKeep
<1>3. CASE Others
  BY <1>3, TickKeeps, WriteKeeps, RenameKeeps DEF Others
<1>4. CASE UNCHANGED vars
  BY <1>4, StutterKeeps
<1> QED BY <1>1, <1>2, <1>3, <1>4 DEF Next

(* Every variable of the read keeps its type. *)
THEOREM TypeCorrect == Spec => []TypeOK
<1>1. IInv => TypeOK
  BY DEF IInv
<1> QED BY <1>1, InitIInv, NextKeepsIInv, PTL DEF Spec

(* The one step that ends in success finds the whole content as it is now. *)
LEMMA SuccessfulStep ==
  ASSUME IInv, [Next]_vars, pc # "done", pc' = "done", Settled
  PROVE  at # NoFile /\ raw = body[at]
<1>1. Restat /\ StillThere
  BY DEF Next, Reader, Others, Stat, Open, Fstat, Read, EndOfRead, FstatAfter, Restat, Reject,
         OSErrors, Tick, Write, Rename, vars, call, world
<1>2. pc = "restat" /\ at # NoFile /\ Identity(at) = after
  BY <1>1 DEF Restat, StillThere, Allowed
<1>3. after = initial /\ fd = initial.file /\ fd \in Files /\ Len(raw) = initial.size
  BY <1>2 DEF IInv, CallIsUnderWay, Reading
<1>4. at = fd /\ Len(body[at]) = Len(raw) /\ stamp[at] = initial.stamp
  BY <1>2, <1>3 DEF Identity
<1>5. \A i \in 1..Len(raw) : raw[i] = body[at][i]
  BY <1>2, <1>4 DEF IInv, BeginningOfContent, Unwritten, Reading
<1>6. raw \in Contents /\ body[at] \in Contents
  BY <1>3, <1>4 DEF IInv, TypeOK
<1> QED BY <1>2, <1>4, <1>5, <1>6, SameElements

(* A read that succeeds returns the content the path's file has at that    *)
(* moment, whatever was written meanwhile, if it was settled at the start. *)
THEOREM OneVersion == Spec => ReadsOneVersion
<1>1. IInv /\ [Next]_vars => [pc # "done" /\ pc' = "done" /\ Settled => at # NoFile /\ raw = body[at]]_vars
  BY SuccessfulStep
<1> HIDE DEF IInv, Next, vars
<1> QED BY <1>1, InitIInv, NextKeepsIInv, PTL DEF Spec, ReadsOneVersion

-----------------------------------------------------------------------------
(* A call that nobody disturbs and in which nothing fails: everything it   *)
(* has seen is still so, and at the end of the reading it holds the whole  *)
(* file.                                                                   *)
Undisturbed ==
  quiet =>
    /\ pc \in Begun => Allowed(at) /\ initial = Identity(at)
    /\ pc \in Reading \cup {"fstat"} => fd = at
    /\ pc \in Reading =>
         Len(raw) <= Len(body[at]) /\ \A i \in 1..Len(raw) : raw[i] = body[at][i]
    /\ pc \in {"fstat_after", "restat"} => raw = body[at]
    /\ pc = "restat" => after = Identity(at)
    /\ RejectsOnlyWithCause

LEMMA AllowedIsFile ==
  ASSUME TypeOK, NEW f \in Files \cup {NoFile}, Allowed(f)
  PROVE  f \in Files /\ Len(body[f]) \in 0..Longest /\ Len(body[f]) <= MaxBytes
<1>1. f \in Files
  BY DEF Allowed
<1> QED BY <1>1, IdentityType DEF Allowed, SizeAllowed

LEMMA StatUndisturbed ==
  ASSUME IInv, Undisturbed, Stat
  PROVE  Undisturbed'
<1>1. /\ pc = "stat" /\ UNCHANGED <<at, body, stamp, clock, expected>>
      /\ IF Allowed(at) THEN pc' = "open" /\ initial' = Identity(at) ELSE pc' = "failed"
  BY DEF Stat, world
<1>2. Allowed(at)' = Allowed(at) /\ Identity(at)' = Identity(at)
  BY <1>1 DEF Allowed, SizeAllowed, Identity
<1> QED BY <1>1, <1>2 DEF Undisturbed, Begun, Reading, RejectsOnlyWithCause

\* A step of the reader that is not its first changes nothing it looks at.
LEMMA StillAllowed ==
  ASSUME UNCHANGED <<world, expected>>
  PROVE  /\ \A f \in Files \cup {NoFile} : Allowed(f)' = Allowed(f) /\ Identity(f)' = Identity(f)
         /\ at \in Files \cup {NoFile} => Allowed(at)' = Allowed(at) /\ Identity(at)' = Identity(at)
BY DEF world, Allowed, SizeAllowed, Identity

LEMMA OpenUndisturbed ==
  ASSUME IInv, Undisturbed, Open
  PROVE  Undisturbed'
<1>1. /\ pc = "open" /\ UNCHANGED <<world, expected, initial, quiet, raw>>
      /\ (pc' = "fstat" /\ fd' = at) \/ (at = NoFile /\ pc' = "failed")
  BY DEF Open, Reject
<1>2. raw = <<>> /\ Allowed(at)' = Allowed(at) /\ Identity(at)' = Identity(at) /\ at' = at
  BY <1>1, StillAllowed DEF IInv, TypeOK, CallIsUnderWay, world
<1> QED BY <1>1, <1>2 DEF Undisturbed, Begun, Reading, RejectsOnlyWithCause, Allowed

LEMMA FstatUndisturbed ==
  ASSUME IInv, Undisturbed, Fstat
  PROVE  Undisturbed'
<1>1. /\ pc = "fstat" /\ UNCHANGED <<world, expected, fd, initial, quiet, raw>>
      /\ \/ pc' = "read"
         \/ pc' = "failed" /\ ~(Allowed(fd) /\ Identity(fd) = initial)
  BY DEF Fstat, Reject
<1>2. raw = <<>> /\ Allowed(at)' = Allowed(at) /\ Identity(at)' = Identity(at)
      /\ at' = at /\ body' = body
  BY <1>1, StillAllowed DEF IInv, TypeOK, CallIsUnderWay, world
<1>3. quiet => pc' = "read" /\ Allowed(at) /\ Len(body[at]) \in 0..Longest
  BY <1>1, AllowedIsFile DEF Undisturbed, Begun, Reading, IInv, TypeOK
<1> QED BY <1>1, <1>2, <1>3 DEF Undisturbed, Begun, Reading, RejectsOnlyWithCause

LEMMA ReadUndisturbed ==
  ASSUME IInv, Undisturbed, Read
  PROVE  Undisturbed'
<1> SUFFICES ASSUME quiet' PROVE Undisturbed'
  BY DEF Undisturbed
<1>1. /\ pc = "read" /\ pc' = "read" /\ quiet /\ UNCHANGED <<at, body>>
      /\ UNCHANGED <<world, expected, fd, initial>>
  BY DEF Read, world
<1>2. /\ fd = at /\ Allowed(at)' /\ initial' = Identity(at)'
  BY <1>1, StillAllowed DEF Undisturbed, Begun, Reading, IInv, TypeOK
<1>3. raw \in Contents /\ Len(raw) \in 0..Longest /\ body[at] \in Contents
      /\ Len(body[at]) \in 0..Longest
  BY <1>1, <1>2, IdentityType, ContentsAreSequences DEF IInv, TypeOK, CallIsUnderWay, Reading
<1>4. PICK n \in 1..MaxBytes + 1 - Len(raw) :
        /\ Len(raw) + n <= Len(body[at])
        /\ raw' = [i \in 1..Len(raw) + n |-> IF i <= Len(raw) THEN raw[i] ELSE body[at][i]]
  BY <1>2 DEF Read
<1>5. n \in 1..Longest
  BY <1>3, <1>4, SizeAssumption
<1>6. Len(raw') = Len(raw) + n
  BY <1>3, <1>4, <1>5, LongerPrefix
<1>7. \A i \in 1..Len(raw') : raw'[i] = body[at][i]
  BY <1>1, <1>3, <1>4, <1>5, <1>6 DEF Undisturbed, Reading
<1> QED BY <1>1, <1>2, <1>3, <1>4, <1>6, <1>7 DEF Undisturbed, Begun, Reading, RejectsOnlyWithCause

LEMMA EndOfReadUndisturbed ==
  ASSUME IInv, Undisturbed, EndOfRead
  PROVE  Undisturbed'
<1> SUFFICES ASSUME quiet' PROVE Undisturbed'
  BY DEF Undisturbed
<1>1. /\ pc = "read" /\ AtEnd /\ pc' = "fstat_after" /\ quiet
      /\ UNCHANGED <<at, body, raw, world, expected, fd, initial>>
  BY DEF EndOfRead, world
<1>2. /\ fd = at /\ Allowed(at) /\ Allowed(at)' /\ initial' = Identity(at)'
      /\ Len(raw) <= Len(body[at]) /\ \A i \in 1..Len(raw) : raw[i] = body[at][i]
  BY <1>1, StillAllowed DEF Undisturbed, Begun, Reading, IInv, TypeOK
<1>3. at \in Files /\ Len(body[at]) \in 0..Longest /\ Len(body[at]) <= MaxBytes
  BY <1>2, AllowedIsFile DEF IInv, TypeOK
<1>4. raw \in Contents /\ body[at] \in Contents /\ Len(raw) \in 0..Longest
  BY <1>3, ContentsAreSequences DEF IInv, TypeOK
<1>5. Len(raw) = Len(body[at])
  BY <1>1, <1>2, <1>3, <1>4, SizeAssumption DEF AtEnd
<1>6. raw = body[at]
  BY <1>2, <1>4, <1>5, SameElements
<1> QED BY <1>1, <1>2, <1>6 DEF Undisturbed, Begun, Reading, RejectsOnlyWithCause

LEMMA FstatAfterUndisturbed ==
  ASSUME IInv, Undisturbed, FstatAfter
  PROVE  Undisturbed'
<1> SUFFICES ASSUME quiet' PROVE Undisturbed'
  BY DEF Undisturbed
<1>1. /\ pc = "fstat_after" /\ quiet
      /\ UNCHANGED <<at, body, raw, world, expected, fd, initial>>
      /\ \/ pc' = "restat" /\ after' = Identity(fd)
         \/ pc' = "failed" /\ ~(Allowed(fd) /\ Len(raw) <= MaxBytes /\ SameAsBefore)
  BY DEF FstatAfter, Reject, world
<1>2. /\ fd = at /\ Allowed(at) /\ Allowed(at)' /\ initial = Identity(at)
      /\ Identity(at)' = Identity(at) /\ raw = body[at] /\ before = initial
      /\ Len(raw) <= Len(body[at]) /\ \A i \in 1..Len(raw) : raw[i] = body[at][i]
  BY <1>1, StillAllowed DEF Undisturbed, Begun, Reading, IInv, TypeOK, CallIsUnderWay
<1>3. Len(body[at]) <= MaxBytes
  BY <1>2, AllowedIsFile DEF IInv, TypeOK
<1>4. pc' = "restat" /\ after' = Identity(at)'
  BY <1>1, <1>2, <1>3 DEF SameAsBefore
<1> QED BY <1>1, <1>2, <1>4 DEF Undisturbed, Begun, Reading, RejectsOnlyWithCause

LEMMA RestatUndisturbed ==
  ASSUME IInv, Undisturbed, Restat
  PROVE  Undisturbed'
<1> SUFFICES ASSUME quiet' PROVE Undisturbed'
  BY DEF Undisturbed
<1>1. /\ pc = "restat" /\ quiet /\ UNCHANGED <<at, body, raw, world, expected>>
      /\ \/ pc' = "done"
         \/ pc' = "failed" /\ ~(StillThere /\ (expected # NoPin => raw = expected))
  BY DEF Restat, Reject, world
<1>2. StillThere /\ raw = body[at]
  BY <1>1 DEF Undisturbed, Begun, Reading, StillThere
<1> QED BY <1>1, <1>2 DEF Undisturbed, Begun, Reading, RejectsOnlyWithCause

LEMMA NextKeepsUndisturbed == IInv /\ Undisturbed /\ [Next]_vars => Undisturbed'
<1> SUFFICES ASSUME IInv, Undisturbed, [Next]_vars PROVE Undisturbed'
  OBVIOUS
<1>1. CASE Reader
  BY <1>1, StatUndisturbed, OpenUndisturbed, FstatUndisturbed, ReadUndisturbed,
     EndOfReadUndisturbed, FstatAfterUndisturbed, RestatUndisturbed DEF Reader
<1>2. CASE OSErrors
  BY <1>2 DEF OSErrors, Undisturbed
<1>3. CASE Tick \/ UNCHANGED vars
  <2>1. UNCHANGED <<at, body, stamp, pc, expected, fd, initial, after, raw, quiet>>
    BY <1>3 DEF Tick, vars, world, call
  <2>2. Allowed(at)' = Allowed(at) /\ Identity(at)' = Identity(at)
    BY <2>1 DEF Allowed, SizeAllowed, Identity
  <2> QED BY <2>1, <2>2 DEF Undisturbed, RejectsOnlyWithCause
<1>4. CASE Rename \/ \E f \in Files : Write(f)
  BY <1>4 DEF Rename, Write, Undisturbed
<1> QED BY <1>1, <1>2, <1>3, <1>4 DEF Next, Others

(* A call in which nothing failed and that nobody disturbed refuses a file *)
(* only if it is none, is too large, or is not the expected one: one of    *)
(* exactly the limit is read (read_bounded_regular_file).                  *)
THEOREM RefusedWithCause == Spec => []RejectsOnlyWithCause
<1>1. Init => Undisturbed
  <2> SUFFICES ASSUME Init PROVE Undisturbed
    OBVIOUS
  <2> QED BY DEF Init, Undisturbed, Begun, Reading, RejectsOnlyWithCause
<1>2. Undisturbed => RejectsOnlyWithCause
  <2>1. ASSUME ~quiet PROVE RejectsOnlyWithCause
    BY <2>1 DEF RejectsOnlyWithCause
  <2> QED BY <2>1 DEF Undisturbed
<1> HIDE DEF IInv, Undisturbed, Init, Next, vars, RejectsOnlyWithCause
<1> QED BY <1>1, <1>2, InitIInv, NextKeepsIInv, NextKeepsUndisturbed, PTL DEF Spec
=============================================================================
