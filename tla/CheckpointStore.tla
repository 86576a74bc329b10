-------------------------- MODULE CheckpointStore ---------------------------
(***************************************************************************)
(* CheckpointStore (src/src/store/checkpoint.rs): put_round1 and put_round2   *)
(* write a seat's DKG round secret, wipe removes a ceremony's directory with  *)
(* everything in it.  load_round1 and load_round2 read one file and change    *)
(* nothing: what they would find is `seen'.                                  *)
(*                                                                           *)
(* Several processes make these calls on one root in any order; nothing in    *)
(* the code locks a ceremony.  A call may fail or be killed at any step, and  *)
(* the machine may lose power.  Each put writes another content, its serial   *)
(* number.  The temporary file that a killed put leaves behind is left out:    *)
(* wipe removes it with the rest, and nothing else looks at it.               *)
(***************************************************************************)
EXTENDS Integers, Sequences, FiniteSets

CONSTANTS
    Procs,
    Ceremonies, Seats,
    MaxPuts,        \* bound on the puts
    MaxCrashes      \* bound on power losses

ASSUME CheckpointAssumption == MaxPuts \in Nat /\ MaxCrashes \in Nat

Nothing == 0

\* Paths below <root>/ceremonies: a ceremony's directory, a seat's, a file.
Files == Ceremonies \X Seats \X {1, 2}
CeremonyDirs == {<<c>> : c \in Ceremonies}
SeatDirs == Ceremonies \X Seats
Dirs == CeremonyDirs \union SeatDirs
Home == [f \in Files |-> <<f[1], f[2]>>]
Above == [d \in Dirs |-> {d, <<d[1]>>}]

VARIABLES
    seen, disk, made, settled,    \* see CrashFiles
    call,      \* each process: idle, or where its put or wipe stands
    path,      \* the file its put writes, or the directory its wipe removes
    content,   \* what its put writes
    temp,      \* whether its temporary file is on disk
    fresh,     \* whether something was made in the tree since its wipe began
    alone,     \* whether no other call met this one in its tree
    result,    \* how its last call returned
    puts,      \* puts so far
    promise,   \* what a file may hold after the puts that succeeded; {}: no promise
    gone,      \* ceremonies wiped, alone and successfully, and not touched since
    crashes

\* Only file systems that commit a new directory no later than the fsync inside.
INSTANCE CrashFiles WITH MkdirDurable <- TRUE

files == <<seen, disk, made, settled>>
calls == <<call, path, content, temp, fresh, alone, result>>
vars == <<files, calls, puts, promise, gone, crashes>>

Init ==
    /\ FilesInit
    /\ call = [p \in Procs |-> "idle"]
    /\ path = [p \in Procs |-> <<>>]
    /\ content = [p \in Procs |-> Nothing]
    /\ temp = [p \in Procs |-> FALSE]
    /\ fresh = [p \in Procs |-> FALSE]
    /\ alone = [p \in Procs |-> TRUE]
    /\ result = [p \in Procs |-> "none"]
    /\ puts = 0
    /\ promise = [f \in Files |-> {}]
    /\ gone = {}
    /\ crashes = 0
-----------------------------------------------------------------------------
(* Calls *)

\* A mutant: ceremony_dir drops the ceremony.
AnyTree(c, x) == TRUE

\* What lies in a ceremony's directory.
InTree(c, x) == x[1] = c

\* Two paths of which one holds the other.
Meet(x, y) == x[1] = y[1] /\ (x = y \/ Len(x) = 1 \/ Len(y) = 1)

\* Who is inside a call that meets path x.
Busy(x) == {p \in Procs : call[p] # "idle" /\ Meet(path[p], x)}

Wiping(c) == {p \in Procs : call[p] = "wipe" /\ path[p] = <<c>>}

Goto(p, label) == call' = [call EXCEPT ![p] = label]

Enter(p, label, x) ==
    /\ call[p] = "idle"
    /\ Goto(p, label)
    /\ path' = [path EXCEPT ![p] = x]
    /\ alone' = [q \in Procs |-> IF q = p THEN Busy(x) = {}
                                 ELSE alone[q] /\ q \notin Busy(x)]
    /\ result' = [result EXCEPT ![p] = "none"]
    /\ UNCHANGED <<files, temp, fresh, crashes>>

\* The wipes of this file's ceremony may find an entry they did not list.
Freshen(p) == fresh' = [q \in Procs |-> fresh[q] \/ q \in Wiping(path[p][1])]

\* A mutant: the temporary file is left behind.
NoCleanup(p) == temp' = temp

\* write_atomic removes its temporary file when it fails.
Cleanup(p) == temp' = [temp EXCEPT ![p] = FALSE]

Finish(p, how) ==
    /\ Goto(p, "idle")
    /\ Cleanup(p)
    /\ path' = [path EXCEPT ![p] = <<>>]
    /\ content' = [content EXCEPT ![p] = Nothing]
    /\ fresh' = [fresh EXCEPT ![p] = FALSE]
    /\ result' = [result EXCEPT ![p] = how]
    /\ gone' = IF call[p] = "wipe" /\ how = "ok" /\ alone[p]
                 THEN gone \union {path[p][1]}
                 ELSE gone
    /\ UNCHANGED alone
-----------------------------------------------------------------------------
(* put_round *)

\* Until a put has returned, its file may hold its content or the one before.
StartPut(p) ==
    /\ puts < MaxPuts
    /\ \E f \in Files :
          /\ Enter(p, "mkdir", f)
          /\ promise' = [promise EXCEPT ![f] = IF @ = {} THEN {} ELSE @ \union {puts + 1}]
          /\ gone' = gone \ {f[1]}
    /\ puts' = puts + 1
    /\ content' = [content EXCEPT ![p] = puts + 1]

Dir(p) == Home[path[p]]

\* create_dir_secure.  A wipe may take a parent away under it.
MakeDir(p) ==
    /\ call[p] = "mkdir"
    /\ \/ /\ CreateDirSecure(Dir(p))
          /\ Goto(p, "temp")
          /\ Freshen(p)
          /\ UNCHANGED <<path, content, temp, alone, result, gone>>
       \/ /\ Wiping(path[p][1]) # {}
          /\ Finish(p, "error")
          /\ UNCHANGED files
    /\ UNCHANGED <<puts, promise, crashes>>

\* write_atomic: the temporary file.
WriteTemp(p) ==
    /\ call[p] = "temp"
    /\ \/ /\ Dir(p) \in made
          /\ temp' = [temp EXCEPT ![p] = TRUE]
          /\ Goto(p, "rename")
          /\ Freshen(p)
          /\ UNCHANGED <<path, content, alone, result, gone>>
       \/ /\ Dir(p) \notin made
          /\ Finish(p, "error")
    /\ UNCHANGED <<files, puts, promise, crashes>>

\* write_atomic: the rename, if the temporary file is still there.
Replace(p) ==
    /\ call[p] = "rename"
    /\ \/ /\ temp[p]
          /\ Rename(path[p], content[p])
          /\ Cleanup(p)
          /\ Goto(p, "sync")
          /\ Freshen(p)
          /\ UNCHANGED <<path, content, alone, result, gone>>
       \/ /\ ~temp[p]
          /\ Finish(p, "error")
          /\ UNCHANGED files
    /\ UNCHANGED <<puts, promise, crashes>>

\* write_atomic: the fsync of the directory, and the put's return.
Sync(p) ==
    /\ call[p] = "sync"
    /\ \/ /\ Dir(p) \in made
          /\ SyncHome(path[p])
          /\ Finish(p, "ok")
          /\ promise' = IF alone[p] THEN [promise EXCEPT ![path[p]] = {content[p]}]
                        ELSE promise
       \/ /\ Dir(p) \notin made
          /\ Finish(p, "error")
          /\ UNCHANGED <<files, promise>>
    /\ UNCHANGED <<puts, crashes>>
-----------------------------------------------------------------------------
(* wipe *)

StartWipe(p) ==
    /\ \E c \in Ceremonies :
          /\ Enter(p, "wipe", <<c>>)
          /\ promise' = [f \in Files |-> IF f[1] = c THEN {} ELSE promise[f]]
          /\ gone' = gone \ {c}
    /\ UNCHANGED <<content, puts>>

TempsIn(x) == {q \in Procs : temp[q] /\ Meet(path[q], x)}

Empty(d) ==
    /\ \A f \in Files : d \in Above[Home[f]] => seen[f] = Nothing
    /\ \A e \in made : d \in Above[e] => e = d
    /\ \A q \in Procs : temp[q] => d \notin Above[Dir(q)]

\* remove_dir_all on the way: it removes a file, a put's temporary file, or a
\* seat's directory that is empty.  What another process removes first does not
\* stop it.
RemoveEntry(p) ==
    /\ call[p] = "wipe"
    /\ \/ \E f \in Files : /\ InTree(path[p][1], f)
                           /\ seen[f] # Nothing
                           /\ Unlink(f)
                           /\ UNCHANGED temp
       \/ \E q \in Procs : /\ temp[q]
                           /\ InTree(path[p][1], path[q])
                           /\ temp' = [temp EXCEPT ![q] = FALSE]
                           /\ UNCHANGED files
       \/ \E d \in SeatDirs \cap made : /\ InTree(path[p][1], d)
                                        /\ Empty(d)
                                        /\ RemoveDir(d)
                                        /\ UNCHANGED temp
    /\ UNCHANGED <<call, path, content, fresh, alone, result, puts, promise, gone, crashes>>

\* A mutant: a ceremony that is not there is an error.
AbsentIsAnError == "error"

\* NotFound counts as success.
Absent == "ok"

\* remove_dir_all ends with the ceremony's own directory, and wipe returns.
EndWipe(p) ==
    LET d == path[p]
    IN  /\ call[p] = "wipe"
        /\ \/ /\ d \in made /\ Empty(d)
              /\ RemoveDir(d)
              /\ Finish(p, "ok")
           \/ /\ d \notin made
              /\ Finish(p, Absent)
              /\ UNCHANGED files
        /\ UNCHANGED <<puts, promise, crashes>>

\* A directory got a new entry after it was listed, and is not empty when it
\* should go.
WipeMeetsEntry(p) ==
    /\ call[p] = "wipe"
    /\ fresh[p]
    /\ \E d \in made : InTree(path[p][1], d) /\ ~Empty(d)
    /\ Finish(p, "error")
    /\ UNCHANGED <<files, puts, promise, crashes>>
-----------------------------------------------------------------------------
\* A mutant: what is only hygiene may fail unnoticed.
IoErrorIgnored == "ok"

IoError == "failed"

\* An I/O error ends the call, or the process is killed in it.
GiveUp(p) ==
    /\ call[p] # "idle"
    /\ Finish(p, IoError)
    /\ UNCHANGED <<files, puts, promise, crashes>>

\* No temporary file outlives a crash.
Crash ==
    /\ crashes < MaxCrashes
    /\ crashes' = crashes + 1
    /\ PowerLoss
    /\ call' = [p \in Procs |-> "idle"]
    /\ temp' = [p \in Procs |-> FALSE]
    /\ path' = [p \in Procs |-> <<>>]
    /\ content' = [p \in Procs |-> Nothing]
    /\ fresh' = [p \in Procs |-> FALSE]
    /\ alone' = [p \in Procs |-> TRUE]
    /\ result' = [p \in Procs |-> "none"]
    /\ gone' = {}
    /\ UNCHANGED <<puts, promise>>

Next ==
    \/ \E p \in Procs :
          \/ StartPut(p) \/ MakeDir(p) \/ WriteTemp(p) \/ Replace(p) \/ Sync(p)
          \/ StartWipe(p) \/ RemoveEntry(p) \/ EndWipe(p) \/ WipeMeetsEntry(p)
          \/ GiveUp(p)
    \/ Crash

Spec == Init /\ [][Next]_vars
-----------------------------------------------------------------------------
(* Properties *)

Contents == 0 .. MaxPuts

\* Types; a file lies in a directory, a directory in its ceremony's, and a
\* temporary file is there only between its creation and its rename.
TypeOK ==
    /\ seen \in [Files -> Contents]
    /\ disk \in [Files -> SUBSET Contents]
    /\ made \subseteq Dirs /\ settled \subseteq Dirs
    /\ \A f \in Files : seen[f] # Nothing => Home[f] \in made
    /\ \A d \in made : Above[d] \subseteq made
    /\ call \in [Procs -> {"idle", "mkdir", "temp", "rename", "sync", "wipe"}]
    /\ \A p \in Procs :
          \/ call[p] = "idle" /\ path[p] = <<>>
          \/ call[p] = "wipe" /\ path[p] \in CeremonyDirs
          \/ call[p] \notin {"idle", "wipe"} /\ path[p] \in Files
    /\ content \in [Procs -> Contents]
    /\ \A p \in Procs : temp[p] => call[p] = "rename" /\ Dir(p) \in made
    /\ fresh \in [Procs -> BOOLEAN]
    /\ alone \in [Procs -> BOOLEAN]
    /\ result \in [Procs -> {"none", "ok", "error", "failed"}]
    /\ puts \in Contents
    /\ promise \in [Files -> SUBSET (Contents \ {Nothing})]
    /\ gone \subseteq Ceremonies
    /\ crashes \in 0 .. MaxCrashes

\* D-07, D-10: what a put has stored is found until its own ceremony is wiped or
\* its own file put again, whatever crashes, and whatever is put, wiped, killed
\* or fails elsewhere.  While it is put again one of the two contents is found.
CheckpointsKept ==
    \A f \in Files : promise[f] # {} => seen[f] \in promise[f]

\* A call that met no other in its tree never fails but for an I/O error: not on
\* an absent ceremony, not on what a failed put or a half-done wipe has left.
OnlyOverlapFails == \A p \in Procs : result[p] = "error" => ~alone[p]

\* Nothing of a wiped ceremony is found until it is put again or power is lost.
WipedIsGone ==
    \A c \in gone : /\ \A d \in made : ~InTree(c, d)
                    /\ \A f \in Files : InTree(c, f) => seen[f] = Nothing
=============================================================================
