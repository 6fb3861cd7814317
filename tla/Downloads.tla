----------------------------- MODULE Downloads -----------------------------
(***************************************************************************)
(* The collections of a task's artifact: each writes what it gets from the *)
(* node to one temporary name, moves that over the artifact, reads it back *)
(* and commits its attempt.  A collection that has outlived its handler    *)
(* may be at work next to the following one of the same attempt, or next   *)
(* to that of a retry.  An open file is a file and not a name: what is     *)
(* written through it goes where the file has been moved to.               *)
(***************************************************************************)
EXTENDS Naturals, Sequences, SequencesExt

CONSTANTS
  Collections,    \* coroutines of _collect
  Collected,      \* Collected[c]: the attempt whose artifact c collects
  Chunks,         \* the chunks of an artifact
  NoFile          \* no file behind a name, nothing committed

ASSUME CollectedAssumption ==
  Chunks \in Nat \ {0} /\ NoFile \notin Collections \cup {Collected[c] : c \in Collections}

VARIABLES
  contents,    \* files, named after the collection that created them
  temporary,   \* the file that has the temporary name
  artifact,    \* the file that has the name of the artifact
  written,     \* how many chunks each collection has written
  into,        \* the file each has open; itself NoFile before and after
  ended,       \* the collections that are over
  committed    \* the attempt in the row of the artifact

downloadVars == <<contents, temporary, artifact, written, into, ended, committed>>

Hole == 0
Whole(a) == [i \in 1..Chunks |-> a]

DownloadsInit ==
  /\ contents = [c \in Collections |-> <<>>]
  /\ temporary = NoFile /\ artifact = NoFile
  /\ written = [c \in Collections |-> 0]
  /\ into = [c \in Collections |-> NoFile]
  /\ ended = {}
  /\ committed = NoFile

(* An existing file is opened and cut to nothing.                          *)
OpenTemporary(c) ==
  /\ into[c] = NoFile /\ c \notin ended
  /\ temporary' = IF temporary = NoFile THEN c ELSE temporary
  /\ into' = [into EXCEPT ![c] = temporary']
  /\ contents' = [contents EXCEPT ![temporary'] = <<>>]
  /\ UNCHANGED <<artifact, written, ended, committed>>

(* At the writer's own offset, wherever the file ends.                     *)
Overwritten(f, i, a) ==
  [j \in 1..(IF Len(f) < i THEN i ELSE Len(f)) |->
     IF j = i THEN a ELSE IF j <= Len(f) THEN f[j] ELSE Hole]

WriteChunk(c) ==
  /\ into[c] # NoFile
  /\ written[c] < Chunks
  /\ written' = [written EXCEPT ![c] = @ + 1]
  /\ contents' = [contents EXCEPT ![into[c]] = Overwritten(@, written'[c], Collected[c])]
  /\ UNCHANGED <<temporary, artifact, into, ended, committed>>

Ended(c) ==
  /\ c \notin ended
  /\ into' = [into EXCEPT ![c] = NoFile]
  /\ ended' = ended \cup {c}
  /\ UNCHANGED <<contents, written>>

(* verify_manifest reads the artifact again; the mutant trusts the digest   *)
(* of what has been received.                                              *)
Received(c) == written[c] = Chunks
Verified(c) == contents[artifact'] = Whole(Collected[c])

(* What was moved is verified and committed without a pause; a row of      *)
(* another attempt has the same run and path, and the commit raises.       *)
Replace(c) ==
  /\ written[c] = Chunks
  /\ temporary # NoFile
  /\ artifact' = temporary
  /\ temporary' = NoFile
  /\ Ended(c)
  /\ committed' = IF Verified(c) /\ committed = NoFile THEN Collected[c] ELSE committed

(* The node does not answer, its headers are not those of the manifest, the *)
(* stream breaks, the process ends, or the temporary file has gone: the    *)
(* temporary name is removed, whosever file it is.                         *)
DownloadFails(c) ==
  /\ Ended(c)
  /\ temporary' = NoFile
  /\ UNCHANGED <<artifact, committed>>

DownloadsStep ==
  \E c \in Collections :
    OpenTemporary(c) \/ WriteChunk(c) \/ Replace(c) \/ DownloadFails(c)

DownloadsTypeOK ==
  /\ temporary \in Collections \cup {NoFile} /\ artifact \in Collections \cup {NoFile}
  /\ \A c \in Collections :
       /\ Len(contents[c]) <= Chunks
       /\ ToSet(contents[c]) \subseteq {Collected[d] : d \in Collections} \cup {Hole}
       /\ written[c] \in 0..Chunks
       /\ into[c] \in Collections \cup {NoFile}
  /\ ended \subseteq Collections
  /\ committed \in {Collected[c] : c \in Collections} \cup {NoFile}

-----------------------------------------------------------------------------
Begun == {c \in Collections : into[c] # NoFile \/ c \in ended}

(* A committed artifact stays whole, however two collections of its attempt *)
(* share the temporary name, break or come late.  A third one may spoil it: *)
(* it opens the name anew after the commit, and the second, whose own file  *)
(* was moved by the first, moves what is not complete.  So may a collection *)
(* of another attempt of the task, before its own commit fails.             *)
CommittedStaysWhole ==
  committed # NoFile =>
    \/ artifact # NoFile /\ contents[artifact] = Whole(committed)
    \/ \E c \in Begun : Collected[c] # committed
    \/ \E c, d, e \in Begun : c # d /\ d # e /\ c # e
=============================================================================
