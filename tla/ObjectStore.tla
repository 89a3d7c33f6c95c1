----------------------------- MODULE ObjectStore -----------------------------
(***************************************************************************)
(* What a storage driver with directories promises (pkg/storage/driver:    *)
(* Driver, Creator, Remover, Readdirer): a map from paths to the data of   *)
(* files.  An object is created with the directories above it, whole or    *)
(* not at all; a removal takes everything below along; what a call answers *)
(* is true of the moment it takes effect.                                  *)
(***************************************************************************)
EXTENDS Naturals, SequencesExt

VARIABLES files,     \* files[p]: the data at path p, a sequence of names
          dirs,      \* the paths of the directories, <<>> is the root
          answer     \* the answer on its way

Above(p) == {SubSeq(p, 1, n) : n \in 0 .. Len(p) - 1}

\* What is at a path, or why nothing is.
Look(p) == IF Above(p) \cap DOMAIN files # {} THEN "ENOTDIR"
           ELSE IF p \in DOMAIN files THEN "file"
           ELSE IF p \in dirs THEN "dir" ELSE "ENOENT"

Answer(op, p, err, res) == answer' = [op |-> op, path |-> p, err |-> err, res |-> res]

Commit(p, data) ==
    IF Look(p) \in {"file", "ENOENT"}
    THEN /\ files' = [q \in DOMAIN files \cup {p} |-> IF q = p THEN data ELSE files[q]]
         /\ dirs' = dirs \cup Above(p)
         /\ Answer("Commit", p, "none", {})
    ELSE /\ UNCHANGED <<files, dirs>>
         /\ Answer("Commit", p, IF Look(p) = "dir" THEN "ErrExist" ELSE "ENOTDIR", {})

RemovePath(p) ==
    IF Look(p) \in {"file", "dir"}
    THEN /\ files' = [q \in {r \in DOMAIN files : ~IsPrefix(p, r)} |-> files[q]]
         /\ dirs' = {q \in dirs : ~IsPrefix(p, q)}
         /\ Answer("Remove", p, "none", {})
    ELSE UNCHANGED <<files, dirs>> /\ Answer("Remove", p, Look(p), {})

Open(p) ==
    /\ UNCHANGED <<files, dirs>>
    /\ CASE Look(p) = "file" -> Answer("Open", p, "none", {files[p]})
         [] Look(p) = "dir"  -> Answer("Open", p, "EISDIR", {})
         [] OTHER            -> Answer("Open", p, Look(p), {})

Stat(p) ==
    /\ UNCHANGED <<files, dirs>>
    /\ IF Look(p) \in {"file", "dir"} THEN Answer("Stat", p, "none", {Look(p)})
                                      ELSE Answer("Stat", p, Look(p), {})

\* A directory lists itself and its parent too.
List(p) == {<<".", "dir">>, <<"..", "dir">>}
           \cup {<<Last(q), Look(q)>> : q \in {r \in DOMAIN files \cup dirs : r # <<>> /\ Front(r) = p}}

Readdir(p) ==
    /\ UNCHANGED <<files, dirs>>
    /\ CASE Look(p) = "dir"  -> Answer("Readdir", p, "none", List(p))
         [] Look(p) = "file" -> Answer("Readdir", p, "ENOTDIR", {})
         [] OTHER            -> Answer("Readdir", p, Look(p), {})

\* Nothing is promised of a store whose root was removed.
Rootless == <<>> \notin dirs /\ UNCHANGED <<files, dirs>>

\* The path and the data of a call are those of its answer.
Call(Datas) ==
    LET p == answer'.path
    IN \/ Open(p) \/ Stat(p) \/ Readdir(p) \/ RemovePath(p)
       \/ \E d \in Datas : Commit(p, d)

\* An answer is taken.
Return == answer'.op = "none" /\ UNCHANGED <<files, dirs>>

Step(Datas) == Call(Datas) \/ Return \/ Rootless
=============================================================================
