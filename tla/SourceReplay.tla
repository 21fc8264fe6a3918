----------------------------- MODULE SourceReplay -----------------------------
(***************************************************************************)
(* verify_lineage_graph_file of lineage.verify: an anchored graph is read  *)
(* and checked before any document is opened; each document is captured    *)
(* and compared with the graph's binding; the graph is replayed from       *)
(* isolated copies of the captured bytes; then every document is read      *)
(* again and must be the file it was.  Meanwhile others write and rename.  *)
(*                                                                         *)
(* One read of a file is one step here, as module StableRead shows that it *)
(* may be.  Digests stand for the contents they identify, and equal bytes  *)
(* replay to equal graphs, so whether a graph's bytes are those a replay   *)
(* of its documents gives is a property of the graph.                      *)
(***************************************************************************)
EXTENDS Integers, Sequences, SequencesExt

CONSTANTS
  N,           \* documents given by the caller
  Files,       \* files on disk that a document's path may name
  NoFile,
  Data,        \* contents of documents
  Graphs,      \* contents of the graph file
  MaxWrites    \* bound: writes by others

Documents == 1..N

\* A graph binds its documents in order; it has a header the verifier and the
\* caller agree with, or not; it is what a replay of its documents yields, or not.
GraphType == [binds : Seq(Data), agreed : BOOLEAN, replayable : BOOLEAN]

ASSUME CountAssumption == N \in Nat /\ N >= 2 /\ MaxWrites \in Nat
ASSUME GraphAssumption == Graphs \subseteq GraphType
ASSUME FileAssumption == NoFile \notin Files

VARIABLES
  graph,          \* content of the graph file
  anchor,         \* the graph whose digest the caller gives
  names,          \* the file each document's path names
  body, stamp,    \* content and modification time of each file
  writes,         \* writes so far: each gives a file a new time
  pc,
  read,           \* the graph as read
  snapshots,      \* identity and bytes of each captured document
  reread,         \* documents read again
  together,       \* history: at the replay no captured file had changed
  backdated       \* history: a file was written and given an earlier time

world == <<graph, names, body, stamp, writes, backdated>>
vars == <<world, anchor, pc, read, snapshots, reread, together>>

Identity(f) == [file |-> f, stamp |-> stamp[f]]
Snapshots == [identity : [file : Files, stamp : 0..MaxWrites], data : Data]

TypeOK ==
  /\ graph \in Graphs /\ anchor \in Graphs /\ read \in Graphs
  /\ names \in [Documents -> Files \cup {NoFile}]
  /\ body \in [Files -> Data] /\ stamp \in [Files -> 0..MaxWrites]
  /\ writes \in 0..MaxWrites
  /\ pc \in {"graph", "capture", "replay", "reread", "verified", "refused"}
  /\ snapshots \in Seq(Snapshots) /\ Len(snapshots) <= N
  /\ reread \in 0..N
  /\ pc \in {"replay", "reread", "verified"} => Len(snapshots) = N
  /\ pc = "verified" => reread = N
  /\ together \in BOOLEAN /\ backdated \in BOOLEAN

Init ==
  /\ graph \in Graphs /\ anchor \in Graphs /\ read = anchor
  /\ names \in [Documents -> Files \cup {NoFile}]
  /\ body \in [Files -> Data] /\ stamp = [f \in Files |-> 0]
  /\ writes = 0
  /\ pc = "graph" /\ snapshots = <<>> /\ reread = 0
  /\ together = FALSE /\ backdated = FALSE

-----------------------------------------------------------------------------
Refuse == pc' = "refused" /\ UNCHANGED <<world, anchor, read, snapshots, reread, together>>

ReadGraph ==
  /\ pc = "graph"
  /\ \/ /\ graph = anchor /\ graph.agreed /\ Len(graph.binds) = N
        /\ pc' = "capture" /\ read' = graph
        /\ UNCHANGED <<world, anchor, snapshots, reread, together>>
     \/ ~(graph = anchor /\ graph.agreed /\ Len(graph.binds) = N) /\ Refuse

Alias(f) == \E i \in DOMAIN snapshots : snapshots[i].identity = Identity(f)

Capturable(f) == f # NoFile /\ ~Alias(f) /\ body[f] = read.binds[Len(snapshots) + 1]

Capture ==
  /\ pc = "capture"
  /\ LET f == names[Len(snapshots) + 1]
     IN  \/ /\ Capturable(f)
            /\ snapshots' = Append(snapshots, [identity |-> Identity(f), data |-> body[f]])
            /\ pc' = IF Len(snapshots) + 1 = N THEN "replay" ELSE "capture"
            /\ UNCHANGED <<world, anchor, read, reread, together>>
         \/ ~Capturable(f) /\ Refuse

\* Faulty variant: a graph that differs from its replay is let through.
ReplayUncompared ==
  /\ pc = "replay"
  /\ pc' = "reread"
  /\ together' = \A i \in Documents : body[snapshots[i].identity.file] = snapshots[i].data
  /\ UNCHANGED <<world, anchor, read, snapshots, reread>>

\* From the isolated copies; an adapter may also refuse the bytes.
Replay ==
  /\ pc = "replay"
  /\ \/ /\ read.replayable
        /\ pc' = "reread"
        /\ together' = \A i \in Documents : body[snapshots[i].identity.file] = snapshots[i].data
        /\ UNCHANGED <<world, anchor, read, snapshots, reread>>
     \/ ~read.replayable /\ Refuse

\* Faulty variant: the bytes are compared, and not the identity.
UnchangedContent(i) == names[i] # NoFile /\ body[names[i]] = snapshots[i].data

Unchanged(i) ==
  /\ names[i] # NoFile
  /\ Identity(names[i]) = snapshots[i].identity
  /\ body[names[i]] = snapshots[i].data

Reread ==
  /\ pc = "reread"
  /\ \/ /\ Unchanged(reread + 1)
        /\ reread' = reread + 1
        /\ pc' = IF reread + 1 = N THEN "verified" ELSE "reread"
        /\ UNCHANGED <<world, anchor, read, snapshots, together>>
     \/ ~Unchanged(reread + 1) /\ Refuse

\* A read, or the isolated directory, fails.
OSErrors == pc \notin {"verified", "refused"} /\ Refuse

-----------------------------------------------------------------------------
(* Other processes, until the call has ended.                              *)
UnderWay == pc \notin {"verified", "refused"}

Write(f) ==
  /\ UnderWay /\ writes < MaxWrites
  /\ writes' = writes + 1
  /\ \E d \in Data : body' = [body EXCEPT ![f] = d]
  /\ \/ stamp' = [stamp EXCEPT ![f] = writes + 1] /\ UNCHANGED backdated
     \/ backdated' = TRUE /\ \E t \in 0..writes : stamp' = [stamp EXCEPT ![f] = t]
  /\ UNCHANGED <<graph, names, anchor, pc, read, snapshots, reread, together>>

Rename(i) ==
  /\ UnderWay /\ writes < MaxWrites
  /\ writes' = writes + 1
  /\ \E f \in Files \cup {NoFile} : names' = [names EXCEPT ![i] = f]
  /\ UNCHANGED <<graph, body, stamp, backdated, anchor, pc, read, snapshots, reread, together>>

WriteGraph ==
  /\ UnderWay /\ writes < MaxWrites
  /\ writes' = writes + 1
  /\ graph' \in Graphs
  /\ UNCHANGED <<names, body, stamp, backdated, anchor, pc, read, snapshots, reread, together>>

Verifier == ReadGraph \/ Capture \/ Replay \/ Reread \/ OSErrors
Others == WriteGraph \/ (\E f \in Files : Write(f)) \/ (\E i \in Documents : Rename(i))
Next == Verifier \/ Others

Spec == Init /\ [][Next]_vars

-----------------------------------------------------------------------------
(* Correctness.                                                            *)

\* A graph that is verified is the one the caller anchored, and what a replay of
\* the bytes captured yields, document by document.
VerifiedIsAnchored ==
  pc = "verified" =>
    /\ read = anchor /\ read.replayable /\ Len(snapshots) = Len(read.binds)
    /\ \A i \in Documents : snapshots[i].data = read.binds[i]

\* The documents were captured one after another, and files and names may have
\* changed in between; yet there was one moment at which as many different files
\* held the bytes that were verified, unless somebody gave a file an earlier time
\* after writing to it.
VerifiedTogether ==
  pc = "verified" /\ ~backdated =>
    /\ together
    /\ \A i, j \in Documents :
         i # j => snapshots[i].identity.file # snapshots[j].identity.file

=============================================================================
