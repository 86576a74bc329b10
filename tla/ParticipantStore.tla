--------------------------- MODULE ParticipantStore -------------------------
(***************************************************************************)
(* One root of the participant store (src/src/store/participant.rs, with its *)
(* index src/src/store/manifest.rs), used as a library: any number of calls   *)
(* of put_share at the same time, for several keys and epochs, while          *)
(* load_only_active and load_public_envelope read, and while processes and    *)
(* the machine crash.  PersistedKeygen models how the commands use many roots *)
(* with one tag each.                                                         *)
(*                                                                           *)
(* A line is a key with an epoch, and a tag is a line with a seat.  The       *)
(* content of a file is the sequence of the puts whose data it holds: one for *)
(* an envelope or a share, any number of entries for the manifest.  An absent *)
(* manifest is read as an empty one, and none is ever written empty.          *)
(***************************************************************************)
EXTENDS Integers, Sequences, FiniteSets

CONSTANTS
    Lines, Seats,
    States,         \* the lifecycle states in use, of ACTIVE, STANDBY and RETIRED
    Genesis,        \* the line of the active key's first epoch
    Puts,           \* the calls of put_share that may be made
    Newer,          \* the entries of a manifest that a newer build wrote
    MaxCrashes,     \* bound on the machine's crashes
    MkdirDurable    \* see CrashFiles

ASSUME StoreAssumption ==
    /\ Genesis \in Lines /\ Newer \notin Puts
    /\ MaxCrashes \in Nat /\ MkdirDurable \in BOOLEAN

Tags == Lines \X Seats
Line(tag) == tag[1]

Nothing == <<>>
NewerIndex == <<Newer>>

\* The files below the root: pubkey/<line>, shares/<tag> and the manifest.
Envelope(line) == <<"pubkey", line>>
Share(tag) == <<"share", tag>>
Manifest == <<"manifest", "root">>
Files == {Envelope(l) : l \in Lines} \union {Share(t) : t \in Tags} \union {Manifest}

RootDir == <<"root", "root">>
Dirs == {RootDir} \union ({"pubkey", "share"} \X Lines)
Home == [f \in Files |->
            IF f = Manifest THEN RootDir
            ELSE IF f[1] = "share" THEN <<"share", Line(f[2])>> ELSE f]
Above == [d \in Dirs |-> {d, RootDir}]

VARIABLES
    seen, disk, made, settled,    \* the root, see CrashFiles
    plan,      \* the tag and the lifecycle state each put is called with
    pc,        \* where each put stands: the call it makes next
    index,     \* the manifest each put has loaded and added its entry to
    raced,     \* the puts whose load-to-write of the manifest met another one's
    reader,    \* load_only_active and load_public_envelope: progress, result, and
               \* the genesis puts that were done when it began
    crashes    \* crashes so far

INSTANCE CrashFiles

root == <<seen, disk, made, settled>>
vars == <<root, plan, pc, index, raced, reader, crashes>>

None == "none"

Idle == [state |-> "idle", entry |-> None, share |-> None, group |-> None, began |-> {}]

\* The root is new, or a newer build has left its manifest there.
Init ==
    /\ \E first \in {Nothing, NewerIndex} :
          /\ seen = [f \in Files |-> IF f = Manifest THEN first ELSE Nothing]
          /\ disk = [f \in Files |-> {seen[f]}]
          /\ made = IF first = Nothing THEN {} ELSE {RootDir}
          /\ settled = made
    /\ plan \in [Puts -> [tag : Tags, state : States]]
    /\ pc = [n \in Puts |-> "new"]
    /\ index = [n \in Puts |-> Nothing]
    /\ raced = {}
    /\ reader = Idle
    /\ crashes = 0

Tag(n) == plan[n].tag
Done == {n \in Puts : pc[n] = "done"}
Running == {n \in Puts : pc[n] \notin {"new", "done", "failed"}}
Goto(n, label) == pc' = [pc EXCEPT ![n] = label]
-----------------------------------------------------------------------------
(* The manifest *)

\* The positions of a tag's entries.
Positions(shares, tag) == {i \in DOMAIN shares : Tag(shares[i]) = tag}

\* Manifest::lookup
Lookup(shares, tag) == Positions(shares, tag) # {}

\* A mutant: the entry is always pushed.
PushEntry(shares, n) == Append(shares, n)

\* A mutant: a new entry takes the place of the list.
OnlyEntry(shares, n) == <<n>>

\* add_entry: the first entry of the same tag is replaced, or the entry pushed.
AddEntry(shares, n) ==
    LET same == Positions(shares, Tag(n))
    IN  IF same = {} THEN Append(shares, n)
        ELSE [shares EXCEPT ![CHOOSE i \in same : \A j \in same : i <= j] = n]

\* from_json_bytes rejects a schema version it does not know.
KnownVersion(content) == content # NewerIndex
-----------------------------------------------------------------------------
(* put_share *)

\* A mutant: the directory is not made.
RenameOnly(f, content) ==
    /\ seen' = [seen EXCEPT ![f] = content]
    /\ disk' = [disk EXCEPT ![f] = @ \union {content}]
    /\ UNCHANGED <<made, settled>>

\* create_dir_secure of the file's directory and write_atomic up to the rename.
CreateAndRename(f, content) ==
    /\ made' = made \union Above[Home[f]]
    /\ seen' = [seen EXCEPT ![f] = content]
    /\ disk' = [disk EXCEPT ![f] = @ \union {content}]
    /\ UNCHANGED settled

\* The passphrase is there, and the group's public envelope is written.
PutEnvelope(n) ==
    /\ pc[n] = "new"
    /\ CreateAndRename(Envelope(Line(Tag(n))), <<n>>)
    /\ Goto(n, "sync envelope")
    /\ UNCHANGED <<plan, index, raced, reader, crashes>>

SyncEnvelope(n) ==
    /\ pc[n] = "sync envelope"
    /\ SyncHome(Envelope(Line(Tag(n))))
    /\ Goto(n, "share")
    /\ UNCHANGED <<plan, index, raced, reader, crashes>>

PutShare(n) ==
    /\ pc[n] = "share"
    /\ CreateAndRename(Share(Tag(n)), <<n>>)
    /\ Goto(n, "sync share")
    /\ UNCHANGED <<plan, index, raced, reader, crashes>>

\* A mutant: the share is renamed into place and its directory never synced.
SkipSync(n) ==
    /\ pc[n] = "sync share"
    /\ Goto(n, "load")
    /\ UNCHANGED <<root, plan, index, raced, reader, crashes>>

SyncShare(n) ==
    /\ pc[n] = "sync share"
    /\ SyncHome(Share(Tag(n)))
    /\ Goto(n, "load")
    /\ UNCHANGED <<plan, index, raced, reader, crashes>>

\* The puts that hold a manifest they have not written back.
Holding == {m \in Puts : pc[m] = "index"}

\* load_manifest and add_entry, or the error of a manifest of a newer build.
LoadIndex(n) ==
    /\ pc[n] = "load"
    /\ \/ /\ KnownVersion(seen[Manifest])
          /\ index' = [index EXCEPT ![n] = AddEntry(seen[Manifest], n)]
          /\ raced' = IF Holding = {} THEN raced ELSE raced \union Holding \union {n}
          /\ Goto(n, "index")
       \/ /\ ~KnownVersion(seen[Manifest])
          /\ Goto(n, "failed")
          /\ UNCHANGED <<index, raced>>
    /\ UNCHANGED <<root, plan, reader, crashes>>

PutIndex(n) ==
    /\ pc[n] = "index"
    /\ CreateAndRename(Manifest, index[n])
    /\ index' = [index EXCEPT ![n] = Nothing]
    /\ Goto(n, "sync index")
    /\ UNCHANGED <<plan, raced, reader, crashes>>

SyncIndex(n) ==
    /\ pc[n] = "sync index"
    /\ SyncHome(Manifest)
    /\ Goto(n, "done")
    /\ UNCHANGED <<plan, index, raced, reader, crashes>>

\* Any of these calls returns an error, or the process is killed.
GiveUp(n) ==
    /\ n \in Running
    /\ Goto(n, "failed")
    /\ index' = [index EXCEPT ![n] = Nothing]
    /\ UNCHANGED <<root, plan, raced, reader, crashes>>

Put(n) ==
    \/ PutEnvelope(n) \/ SyncEnvelope(n) \/ PutShare(n) \/ SyncShare(n)
    \/ LoadIndex(n) \/ PutIndex(n) \/ SyncIndex(n) \/ GiveUp(n)
-----------------------------------------------------------------------------
(* The reader *)

\* A mutant: the state of an entry is not looked at.
AnyEntry(shares) == DOMAIN shares

Active(shares) == {i \in DOMAIN shares : plan[shares[i]].state = "ACTIVE"}

\* load_only_active chooses the first active entry, of whatever key and epoch.
ReadIndex ==
    /\ reader.state \notin {"index", "share"}
    /\ KnownVersion(seen[Manifest])
    /\ LET active == Active(seen[Manifest])
       IN  reader' =
             [state |-> IF active = {} THEN "inactive" ELSE "index",
              entry |-> IF active = {} THEN None
                        ELSE seen[Manifest][CHOOSE i \in active : \A j \in active : i <= j],
              share |-> None, group |-> None,
              began |-> {n \in Done : Line(Tag(n)) = Genesis}]
    /\ UNCHANGED <<root, plan, pc, index, raced, crashes>>

\* load_share of the entry's tag.
ReadShare ==
    LET content == seen[Share(Tag(reader.entry))]
    IN  /\ reader.state = "index"
        /\ reader' = IF content = Nothing THEN [Idle EXCEPT !.state = "no share"]
                     ELSE [state |-> "share", entry |-> reader.entry, share |-> content[1],
                           group |-> None, began |-> reader.began]
        /\ UNCHANGED <<root, plan, pc, index, raced, crashes>>

\* load_public_envelope, which sign --persist calls for the genesis line.
ReadGroup ==
    LET content == seen[Envelope(Genesis)]
    IN  /\ reader.state = "share"
        /\ reader' = IF content = Nothing THEN [reader EXCEPT !.state = "no group"]
                     ELSE [state |-> "loaded", entry |-> reader.entry, share |-> reader.share,
                           group |-> content[1], began |-> reader.began]
        /\ UNCHANGED <<root, plan, pc, index, raced, crashes>>
-----------------------------------------------------------------------------
\* The machine goes down, and every process with it.
Crash ==
    /\ crashes < MaxCrashes
    /\ PowerLoss
    /\ pc' = [n \in Puts |-> IF n \in Running THEN "failed" ELSE pc[n]]
    /\ index' = [n \in Puts |-> Nothing]
    /\ reader' = Idle
    /\ crashes' = crashes + 1
    /\ UNCHANGED <<plan, raced>>

Next ==
    \/ \E n \in Puts : Put(n)
    \/ ReadIndex \/ ReadShare \/ ReadGroup
    \/ Crash

Spec == Init /\ [][Next]_vars
-----------------------------------------------------------------------------
(* Properties *)

Contents == Seq(Puts) \union {NewerIndex}

\* Types of the root and of the calls.
TypeOK ==
    /\ seen \in [Files -> Contents]
    /\ \A f \in Files : disk[f] \subseteq Contents
    /\ made \subseteq Dirs /\ settled \subseteq made
    /\ plan \in [Puts -> [tag : Tags, state : States]]
    /\ pc \in [Puts -> {"new", "sync envelope", "share", "sync share", "load",
                        "index", "sync index", "done", "failed"}]
    /\ index \in [Puts -> Seq(Puts)]
    /\ raced \subseteq Puts
    /\ reader \in [state : {"idle", "inactive", "index", "no share", "share", "no group", "loaded"},
                   entry : Puts \union {None}, share : Puts \union {None},
                   group : Puts \union {None}, began : SUBSET Puts]
    /\ crashes \in 0 .. MaxCrashes

\* The entries this build can read.
Indexed == IF KnownVersion(seen[Manifest]) THEN seen[Manifest] ELSE Nothing

\* D-07, for any mix of tags, of calls and of crashes: an entry's share and its
\* line's envelope are there.
IndexNeverDangles ==
    \A i \in DOMAIN Indexed :
        /\ seen[Share(Tag(Indexed[i]))] # Nothing
        /\ seen[Envelope(Line(Tag(Indexed[i])))] # Nothing

\* manifest.rs:152: the index never carries a tag twice, however the calls that
\* add to it interleave.
OneEntryPerTag ==
    \A i, j \in DOMAIN Indexed : Tag(Indexed[i]) = Tag(Indexed[j]) => i = j

\* put_share takes no lock, and two calls that hold the manifest at the same time
\* may lose each other's entry.  Nothing else loses one: what a call that met no
\* other in there was told is stored stays indexed, over crashes too.
OnlyRacesLoseEntries ==
    \A n \in Done \ raced : Lookup(seen[Manifest], Tag(n))

\* The reader never finds an index without the share it names, though it reads
\* the two one after the other while puts go on.
NoShareMissing == reader.state # "no share"

\* Shares of other epochs and of the standby key in the same root do not disturb
\* the root's own: sign --persist gets the active genesis share with its group.
OthersNeverDisturb ==
    \A g \in reader.began \ raced :
        (/\ plan[g].state = "ACTIVE"
         /\ \A n \in Puts \ {g} : Line(Tag(n)) # Genesis /\ plan[n].state # "ACTIVE") =>
            /\ reader.state \notin {"inactive", "no share", "no group"}
            /\ reader.share \in {None, g}
            /\ reader.group \in {None, g}

\* A manifest of a newer build is left as it is.
NewerIndexKept ==
    [][seen[Manifest] = NewerIndex => seen'[Manifest] = NewerIndex]_vars
-----------------------------------------------------------------------------
(* A claim of the documentation that the code does not keep: TLC refutes it as *)
(* an invariant of this specification with no crash.                           *)

\* store/participant.rs:119 "Load this store's sole `ACTIVE` genesis share".
LoadsTheGenesisShare ==
    reader.state = "loaded" => Line(Tag(reader.share)) = Genesis
=============================================================================
