------------------------------ MODULE StableRead ------------------------------
(***************************************************************************)
(* read_bounded_regular_file of semantic_dimensions.authority: a path is   *)
(* examined, opened and read through one descriptor, chunk by chunk, while *)
(* other processes write to the files and rename others onto the path.     *)
(* What the file was is compared at four moments: by name, by descriptor   *)
(* before and after the reading, and by name again.                        *)
(*                                                                         *)
(* A file's identity is its number, size and modification time; the parts  *)
(* that say nothing of the content (mode, links, attributes) are left out, *)
(* and a path that names no regular file is NoFile.  A write is stamped    *)
(* with the clock, which need not have moved since the write before.       *)
(***************************************************************************)
EXTENDS Integers, Sequences

CONSTANTS
  Files,       \* files the path may come to name
  NoFile,      \* the path names nothing, a link or a directory
  Data,        \* values of a byte
  MaxBytes,    \* max_bytes of the call
  Longest,     \* bound: length of a file
  LastTick,    \* bound: readings of the clock
  NoPin,       \* the caller states neither size nor digest
  Pins         \* what callers may expect: contents, or NoPin

Contents == UNION {[1..n -> Data] : n \in 0..Longest}

ASSUME SizeAssumption == MaxBytes \in Nat /\ Longest \in Nat /\ LastTick \in Nat
ASSUME FileAssumption == NoFile \notin Files
ASSUME PinAssumption == Pins \subseteq Contents \cup {NoPin} /\ NoPin \notin Contents

VARIABLES
  at,          \* the file the path names
  body, stamp, \* content and modification time of each file
  clock,
  pc,          \* where the call is
  expected,    \* expected_size and expected_sha256, as the content they describe
  fd,          \* the file the descriptor is open on
  initial, before, after,   \* identities taken so far
  raw,         \* bytes read
  started,     \* history: the clock when the call began
  quiet        \* history: since then nothing changed and nothing failed

world == <<at, body, stamp, clock>>
call == <<pc, expected, fd, initial, before, after, raw, started>>
vars == <<world, call, quiet>>

Identities == [file : Files \cup {NoFile}, size : 0..Longest, stamp : 0..LastTick]
Nothing == [file |-> NoFile, size |-> 0, stamp |-> 0]
Identity(f) == [file |-> f, size |-> Len(body[f]), stamp |-> stamp[f]]
Phases == {"stat", "open", "fstat", "read", "fstat_after", "restat", "done", "failed"}

TypeOK ==
  /\ at \in Files \cup {NoFile}
  /\ body \in [Files -> Contents]
  /\ stamp \in [Files -> 0..LastTick]
  /\ clock \in 0..LastTick /\ started \in 0..LastTick
  /\ pc \in Phases
  /\ expected \in Pins
  /\ fd \in Files \cup {NoFile}
  /\ initial \in Identities /\ before \in Identities /\ after \in Identities
  /\ raw \in Contents /\ Len(raw) <= MaxBytes + 1
  /\ quiet \in BOOLEAN

Init ==
  /\ at \in Files \cup {NoFile}
  /\ body \in [Files -> Contents]
  /\ clock = 0 /\ stamp = [f \in Files |-> 0]
  /\ expected \in Pins
  /\ pc = "stat" /\ fd = NoFile /\ raw = <<>> /\ started = 0 /\ quiet = TRUE
  /\ initial = Nothing /\ before = Nothing /\ after = Nothing

-----------------------------------------------------------------------------
(* _validate_regular_identity *)
SizeAllowed(n) == n <= MaxBytes /\ (expected # NoPin => n = Len(expected))
Allowed(f) == f # NoFile /\ SizeAllowed(Len(body[f]))

Reject ==
  /\ pc' = "failed"
  /\ UNCHANGED <<world, expected, fd, initial, before, after, raw, started, quiet>>

Stat ==
  /\ pc = "stat"
  /\ started' = clock
  /\ quiet' = TRUE
  /\ IF Allowed(at)
     THEN pc' = "open" /\ initial' = Identity(at)
     ELSE pc' = "failed" /\ UNCHANGED initial
  /\ UNCHANGED <<world, expected, fd, before, after, raw>>

Open ==
  /\ pc = "open"
  /\ \/ /\ at # NoFile
        /\ pc' = "fstat" /\ fd' = at
        /\ UNCHANGED <<world, expected, initial, before, after, raw, started, quiet>>
     \/ at = NoFile /\ Reject

Fstat ==
  /\ pc = "fstat"
  /\ \/ /\ Allowed(fd) /\ Identity(fd) = initial
        /\ pc' = "read" /\ before' = Identity(fd)
        /\ UNCHANGED <<world, expected, fd, initial, after, raw, started, quiet>>
     \/ ~(Allowed(fd) /\ Identity(fd) = initial) /\ Reject

\* os.read returns some of the bytes that follow, up to one past the limit.
Read ==
  /\ pc = "read"
  /\ \E n \in 1..MaxBytes + 1 - Len(raw) :
       /\ Len(raw) + n <= Len(body[fd])
       /\ raw' = [i \in 1..Len(raw) + n |-> IF i <= Len(raw) THEN raw[i] ELSE body[fd][i]]
  /\ UNCHANGED <<world, pc, expected, fd, initial, before, after, started, quiet>>

\* Faulty variant: the loop stops one byte early.
AtEndShort == Len(raw) >= MaxBytes - 1 \/ Len(raw) >= Len(body[fd])

AtEnd == Len(raw) > MaxBytes \/ Len(raw) >= Len(body[fd])

EndOfRead ==
  /\ pc = "read" /\ AtEnd
  /\ pc' = "fstat_after"
  /\ UNCHANGED <<world, expected, fd, initial, before, after, raw, started, quiet>>

\* Faulty variant: only the size is compared.
SameAsBeforeSize == Len(raw) = Len(body[fd])

SameAsBefore == before = Identity(fd) /\ Len(raw) = Len(body[fd])

FstatAfter ==
  /\ pc = "fstat_after"
  /\ \/ /\ Allowed(fd) /\ Len(raw) <= MaxBytes /\ SameAsBefore
        /\ pc' = "restat" /\ after' = Identity(fd)
        /\ UNCHANGED <<world, expected, fd, initial, before, raw, started, quiet>>
     \/ ~(Allowed(fd) /\ Len(raw) <= MaxBytes /\ SameAsBefore) /\ Reject

StillThere == Allowed(at) /\ Identity(at) = after

Restat ==
  /\ pc = "restat"
  /\ \/ /\ StillThere /\ (expected # NoPin => raw = expected)
        /\ pc' = "done"
        /\ UNCHANGED <<world, expected, fd, initial, before, after, raw, started, quiet>>
     \/ ~(StillThere /\ (expected # NoPin => raw = expected)) /\ Reject

\* An OSError of stat, open, fstat or read.
OSErrors ==
  /\ pc \notin {"done", "failed"}
  /\ pc' = "failed" /\ quiet' = FALSE
  /\ UNCHANGED <<world, expected, fd, initial, before, after, raw, started>>

-----------------------------------------------------------------------------
(* Other processes.                                                        *)
Tick ==
  /\ clock < LastTick
  /\ clock' = clock + 1
  /\ UNCHANGED <<at, body, stamp, call, quiet>>

Write(f) ==
  /\ \E c \in Contents \ {body[f]} : body' = [body EXCEPT ![f] = c]
  /\ stamp' = [stamp EXCEPT ![f] = clock]
  /\ quiet' = FALSE
  /\ UNCHANGED <<at, clock, call>>

\* Another file, or none, takes the path's place; the former one may return.
Rename ==
  /\ at' \in (Files \cup {NoFile}) \ {at}
  /\ quiet' = FALSE
  /\ UNCHANGED <<body, stamp, clock, call>>

Reader == Stat \/ Open \/ Fstat \/ Read \/ EndOfRead \/ FstatAfter \/ Restat
Others == Tick \/ Rename \/ \E f \in Files : Write(f)
Next == Reader \/ OSErrors \/ Others

Spec == Init /\ [][Next]_vars

-----------------------------------------------------------------------------
(* Correctness.                                                            *)

\* The bytes returned are those the path's file holds at the moment the call
\* succeeds, although they were read piecewise: provided the file was last
\* written before the tick of the clock in which the call began.
Settled == initial.stamp < started
ReadsOneVersion ==
  [][pc # "done" /\ pc' = "done" /\ Settled => at # NoFile /\ raw = body[at]]_vars

\* A file at exactly the limit included, a call that nobody disturbed fails only
\* for a file it must not accept.
RejectsOnlyWithCause ==
  pc = "failed" /\ quiet =>
    ~Allowed(at) \/ (expected # NoPin /\ body[at] # expected)
=============================================================================
