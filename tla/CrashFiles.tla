----------------------------- MODULE CrashFiles -----------------------------
(***************************************************************************)
(* Files and directories that survive a crash, as src/src/store/atomic.rs    *)
(* builds on them.  A file is replaced by a rename, which is visible at once *)
(* and durable only after an fsync of its directory; until then a crash may  *)
(* leave the new content or an older one.  The temporary file of write_atomic *)
(* is fsynced before the rename, so no content is ever half-written; nobody  *)
(* reads a temporary file, and none is modelled.                             *)
(*                                                                           *)
(* create_dir_secure never fsyncs the parent of a directory it makes.        *)
(* POSIX leaves such a directory, and all it holds, in doubt until the parent *)
(* is fsynced; journalling file systems commit it no later than the fsync of  *)
(* something inside it.  MkdirDurable chooses between the two.               *)
(***************************************************************************)
EXTENDS Integers, FiniteSets

CONSTANTS
    Files, Dirs,
    Home,           \* [Files -> Dirs]: the directory of a file
    Above,          \* [Dirs -> SUBSET Dirs]: a directory and those it lies in
    Nothing,        \* the content of a file that does not exist
    MkdirDurable    \* fsync of a directory's content also commits the directory

VARIABLES
    seen,      \* the content a reader finds
    disk,      \* the contents a crash may leave
    made,      \* the directories a reader finds
    settled    \* those no crash removes

fileVars == <<seen, disk, made, settled>>

FilesInit ==
    /\ seen = [f \in Files |-> Nothing]
    /\ disk = [f \in Files |-> {Nothing}]
    /\ made = {}
    /\ settled = {}

\* create_dir_secure, with any missing parents.
CreateDirSecure(d) ==
    /\ made' = made \union Above[d]
    /\ UNCHANGED <<seen, disk, settled>>

\* write_atomic up to the rename.
Rename(f, content) ==
    /\ Home[f] \in made
    /\ seen' = [seen EXCEPT ![f] = content]
    /\ disk' = [disk EXCEPT ![f] = @ \union {content}]
    /\ UNCHANGED <<made, settled>>

\* The rest of write_atomic: fsync the directory, which settles every file in it.
SyncHome(f) ==
    /\ disk' = [g \in Files |-> IF Home[g] = Home[f] THEN {seen[g]} ELSE disk[g]]
    /\ settled' = IF MkdirDurable THEN settled \union Above[Home[f]] ELSE settled
    /\ UNCHANGED <<seen, made>>

\* unlink, with no fsync after it.
Unlink(f) ==
    /\ seen' = [seen EXCEPT ![f] = Nothing]
    /\ disk' = [disk EXCEPT ![f] = @ \union {Nothing}]
    /\ UNCHANGED <<made, settled>>

\* rmdir, with no fsync after it: what a crash kept of the directory before, it
\* may bring back.  A directory made again counts as the old one.
RemoveDir(d) ==
    /\ \A f \in Files : Home[f] = d => seen[f] = Nothing
    /\ made' = made \ {d}
    /\ UNCHANGED <<seen, disk, settled>>

\* The files whose content a crash leaves open.
Doubtful == {f \in Files : Cardinality(disk[f]) > 1}

\* The machine goes down and comes up again: each doubtful file is found with
\* one of its possible contents, some unsettled directories are gone, and some
\* directories that were settled and then removed are back.
PowerLoss ==
    \E lost \in SUBSET (made \ settled), back \in SUBSET (settled \ made),
       left \in [Doubtful -> UNION {disk[f] : f \in Files}] :
        /\ \A f \in Doubtful : left[f] \in disk[f]
        /\ made' = {d \in made \union back :
                       Above[d] \cap lost = {} /\ Above[d] \subseteq made \union back}
        /\ settled' = made'
        /\ seen' = [f \in Files |->
                      IF Home[f] \notin made' THEN Nothing
                      ELSE IF f \in Doubtful THEN left[f]
                      ELSE seen[f]]
        /\ disk' = [f \in Files |-> {seen'[f]}]
=============================================================================
