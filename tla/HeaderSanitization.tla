-------------------------- MODULE HeaderSanitization --------------------------
(***************************************************************************)
(* sanitize_header_bytes and validate_sanitized_header_bytes of            *)
(* corpus.header_sanitization.  A header file is a sequence of lines; what *)
(* the two functions tell apart in a line is its kind.  The two line ends  *)
(* that close a file are left out.                                         *)
(***************************************************************************)
EXTENDS Naturals, Sequences, SequencesExt

\* An accepted status line and another; two fields of the allowlist, one of them
\* also with a value that is not; a field that is dropped; a continuation line; an
\* empty line between two responses; and what is no header line at all.
Lines == {"status", "odd_status", "etag", "bad_etag", "length", "cookie", "folded",
          "blank", "junk"}
ALLOWED_FIELDS == {"etag", "length"}
Fields == [etag |-> "etag", bad_etag |-> "etag", length |-> "length", cookie |-> "cookie"]
Named(line) == line \in DOMAIN Fields
Names(lines) == {Fields[lines[i]] : i \in {j \in DOMAIN lines : Named(lines[j])}}

Refused == <<"refused">>

\* The line that opens a response: the first, or one after an empty line.
Opens(lines, i) == i = 1 \/ lines[i - 1] = "blank"
SameBlock(lines, i, j) == \A l \in i..j : lines[l] # "blank"

\* validate_sanitized_header_bytes: every response is a status line and fields of
\* the allowlist, none twice, each with a value of its own grammar.
IsSanitized(lines) ==
  /\ lines # <<>> /\ lines[Len(lines)] # "blank"
  /\ \A i \in DOMAIN lines :
       IF Opens(lines, i) THEN lines[i] = "status" ELSE lines[i] \in {"etag", "length", "blank"}
  /\ \A i, j \in DOMAIN lines :
       i < j /\ Named(lines[i]) /\ lines[i] = lines[j] => ~SameBlock(lines, i, j)

\* Faulty variant: a continuation line is taken for one of the field before it.
KeptWithFolds(line) ==
  \/ line \in {"status", "odd_status", "blank", "folded"}
  \/ Named(line) /\ Fields[line] \in ALLOWED_FIELDS

\* Continuation lines are dropped whatever they continue.
Kept(line) ==
  \/ line \in {"status", "odd_status", "blank"}
  \/ Named(line) /\ Fields[line] \in ALLOWED_FIELDS

\* sanitize_header_bytes: output_lines after each line; and what is left is checked.
Output(lines) ==
  LET output[i \in 0..Len(lines)] ==
        IF i = 0 THEN <<>>
        ELSE IF Kept(lines[i]) THEN Append(output[i - 1], lines[i]) ELSE output[i - 1]
  IN  output
Sanitize(lines) ==
  LET left == Output(lines)[Len(lines)] IN
  IF "junk" \notin ToSet(lines) /\ IsSanitized(left) THEN left ELSE Refused
Removed(lines) == Names(lines) \ ALLOWED_FIELDS
Retained(lines) == Names(lines) \cap ALLOWED_FIELDS
=============================================================================
