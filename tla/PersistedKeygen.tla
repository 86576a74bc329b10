--------------------------- MODULE PersistedKeygen --------------------------
(***************************************************************************)
(* keygen --persist and sign --persist over one store base: the writer       *)
(* persist_dkg_shares (src/src/cli/keygen.rs), which calls put_share          *)
(* (src/src/store/participant.rs) for one seat root after another, and the   *)
(* reader load_persisted_shares (src/src/cli/sign.rs).  Processes crash, the  *)
(* machine crashes, writes fail, keygen is run again on the same base, and a  *)
(* reader works while a writer does.                                         *)
(*                                                                           *)
(* A DKG is identified by the keygen process that ran it.  The content of a   *)
(* file is the DKG it belongs to: the group's public envelope, a seat's       *)
(* encrypted share, and the manifest, which has one entry, for the share of   *)
(* this root.  Every process is given the same passphrase and threshold.      *)
(***************************************************************************)
EXTENDS Integers, Sequences, FiniteSets

CONSTANTS
    NumSeats,       \* seats of the DKG, one store root each
    T,              \* the threshold
    NumKeygens,     \* bound on the keygen processes
    MaxCrashes,     \* bound on the machine's crashes
    Overlap,        \* whether a keygen may start while another one writes
    MkdirDurable    \* see CrashFiles

ASSUME SizesAssumption ==
    /\ NumSeats \in Nat \ {0} /\ T \in 1 .. NumSeats
    /\ NumKeygens \in Nat /\ MaxCrashes \in Nat
    /\ Overlap \in BOOLEAN /\ MkdirDurable \in BOOLEAN

Seats == 1 .. NumSeats
Keygens == 1 .. NumKeygens
Nothing == 0

\* A mutant: the index is written before what it indexes.
ManifestFirst == <<"pubkey", "manifest", "share">>

\* The order in which put_share writes a root's three files.
WriteOrder == <<"pubkey", "share", "manifest">>

Kinds == {"pubkey", "share", "manifest"}
Files == Seats \X Kinds

\* A seat's root directory, and the directories below it that hold the public
\* envelope and the share.  The manifest lies in the root itself.
Dirs == Seats \X {"root", "pubkey", "share"}
Home == [f \in Files |-> <<f[1], IF f[2] = "manifest" THEN "root" ELSE f[2]>>]
Above == [d \in Dirs |-> {d, <<d[1], "root">>}]

VARIABLES
    seen, disk, made, settled,    \* the store base, see CrashFiles
    stage,     \* each keygen process: new, writing, done, failed or killed
    seat,      \* where a writing one stands: the seat ...
    file,      \* ... which of its files ...
    call,      \* ... and which call comes next: mkdir, rename or sync
    owner,     \* the keygen that last started, alone; 0 if it was not alone
    reader,    \* load_persisted_shares: its progress and its result
    crashes    \* crashes so far

INSTANCE CrashFiles

base == <<seen, disk, made, settled>>
at == <<seat, file, call>>
vars == <<base, at, stage, owner, reader, crashes>>

NoSeatTaken == [i \in Seats |-> Nothing]

Idle == [state |-> "idle", selected |-> {}, taken |-> NoSeatTaken,
         group |-> Nothing, began |-> 0]

Init ==
    /\ FilesInit
    /\ stage = [g \in Keygens |-> "new"]
    /\ seat = [g \in Keygens |-> 1]
    /\ file = [g \in Keygens |-> 1]
    /\ call = [g \in Keygens |-> "mkdir"]
    /\ owner = 0
    /\ reader = Idle
    /\ crashes = 0
-----------------------------------------------------------------------------
(* The writer *)

Writing == {g \in Keygens : stage[g] = "writing"}

\* persist_dkg_shares begins: the DKG is run in memory.
StartKeygen(g) ==
    /\ stage[g] = "new"
    /\ \A h \in Keygens : h < g => stage[h] # "new"
    /\ Overlap \/ Writing = {}
    /\ stage' = [stage EXCEPT ![g] = "writing"]
    /\ owner' = IF Writing = {} THEN g ELSE 0
    /\ UNCHANGED <<base, at, reader, crashes>>

Target(g) == <<seat[g], WriteOrder[file[g]]>>

\* create_dir_secure of the directory of the next file.
MakeDir(g) ==
    /\ stage[g] = "writing"
    /\ call[g] = "mkdir"
    /\ CreateDirSecure(Home[Target(g)])
    /\ call' = [call EXCEPT ![g] = "rename"]
    /\ UNCHANGED <<seat, file, stage, owner, reader, crashes>>

\* A mutant: an envelope that is there already is kept.
ReplaceUnlessEnvelope(g) ==
    /\ stage[g] = "writing"
    /\ call[g] = "rename"
    /\ IF WriteOrder[file[g]] = "pubkey" /\ seen[Target(g)] # Nothing
         THEN UNCHANGED base
         ELSE Rename(Target(g), g)
    /\ call' = [call EXCEPT ![g] = "sync"]
    /\ UNCHANGED <<seat, file, stage, owner, reader, crashes>>

\* write_atomic up to and with the rename.  For the manifest this stands for
\* load_manifest and add_entry too: the entry of this root's only tag is
\* inserted or replaced.
Replace(g) ==
    /\ stage[g] = "writing"
    /\ call[g] = "rename"
    /\ Rename(Target(g), g)
    /\ call' = [call EXCEPT ![g] = "sync"]
    /\ UNCHANGED <<seat, file, stage, owner, reader, crashes>>

\* A mutant: seats that already hold an active share are left alone.
FirstSeatWithoutShare(i) ==
    CHOOSE j \in i .. NumSeats + 1 :
        /\ j = NumSeats + 1 \/ seen[j, "manifest"] = Nothing
        /\ \A k \in i .. j - 1 : seen[k, "manifest"] # Nothing

\* The next turn of the loop over the seats.
NextSeat(i) == i

\* A mutant: one turn too many.
MoreFilesOffByOne(g) == file[g] <= Len(WriteOrder)

MoreFiles(g) == file[g] < Len(WriteOrder)

\* write_atomic's fsync of the directory, and what the caller does next.
Sync(g) ==
    LET next == NextSeat(seat[g] + 1)
    IN  /\ stage[g] = "writing"
        /\ call[g] = "sync"
        /\ SyncHome(Target(g))
        /\ \/ /\ MoreFiles(g)
              /\ file' = [file EXCEPT ![g] = @ + 1]
              /\ call' = [call EXCEPT ![g] = "mkdir"]
              /\ UNCHANGED <<seat, stage>>
           \/ /\ ~MoreFiles(g)
              /\ next <= NumSeats
              /\ seat' = [seat EXCEPT ![g] = next]
              /\ file' = [file EXCEPT ![g] = 1]
              /\ call' = [call EXCEPT ![g] = "mkdir"]
              /\ UNCHANGED stage
           \/ /\ ~MoreFiles(g)
              /\ next > NumSeats
              /\ stage' = [stage EXCEPT ![g] = "done"]
              /\ UNCHANGED at
        /\ UNCHANGED <<owner, reader, crashes>>

\* Any of these calls returns an error instead, and keygen gives up; or the
\* process is killed.  What it has written stays.
GiveUp(g) ==
    /\ stage[g] = "writing"
    /\ stage' = [stage EXCEPT ![g] = "failed"]
    /\ UNCHANGED <<base, at, owner, reader, crashes>>

\* The machine goes down, and every process with it.
Crash ==
    /\ crashes < MaxCrashes
    /\ PowerLoss
    /\ stage' = [g \in Keygens |-> IF g \in Writing THEN "failed" ELSE stage[g]]
    /\ reader' = Idle
    /\ crashes' = crashes + 1
    /\ UNCHANGED <<at, owner>>
-----------------------------------------------------------------------------
(* The reader *)

Least(S) == CHOOSE i \in S : \A j \in S : i <= j

\* The roots read_dir finds, in the order of their names.
Roots == {i \in Seats : <<i, "root">> \in made}

Finished == {g \in Keygens : stage[g] = "done"}

\* A mutant: every root is taken.
AllOf(roots) == roots

FirstOf(roots) == {i \in roots : Cardinality({j \in roots : j < i}) < T}

\* load_persisted_shares takes the first t roots.
StartLoad ==
    /\ reader.state # "loading"
    /\ reader' = [state    |-> IF Cardinality(Roots) < T THEN "failed" ELSE "loading",
                  selected |-> IF Cardinality(Roots) < T THEN {} ELSE FirstOf(Roots),
                  taken    |-> NoSeatTaken,
                  group    |-> Nothing,
                  began    |-> IF owner \in Finished THEN owner ELSE 0]
    /\ UNCHANGED <<base, at, stage, owner, crashes>>

Untaken == {i \in reader.selected : reader.taken[i] = Nothing}

\* load_only_active: the manifest names an active share, and the share is read.
\* No file disappears but in a crash, which ends the reader too, so the two
\* reads are one step.
LoadSeat ==
    LET i == Least(Untaken)
    IN  /\ reader.state = "loading"
        /\ Untaken # {}
        /\ reader' = IF Nothing \in {seen[i, "manifest"], seen[i, "share"]}
                       THEN [reader EXCEPT !.state = "failed"]
                       ELSE [reader EXCEPT !.taken[i] = seen[i, "share"]]
        /\ UNCHANGED <<base, at, stage, owner, crashes>>

\* The group's public package is read from the first selected root.  Nothing
\* compares it with the shares.
LoadGroup ==
    LET group == seen[Least(reader.selected), "pubkey"]
    IN  /\ reader.state = "loading"
        /\ Untaken = {}
        /\ reader' = IF group = Nothing
                       THEN [reader EXCEPT !.state = "failed"]
                       ELSE [reader EXCEPT !.state = "loaded", !.group = group]
        /\ UNCHANGED <<base, at, stage, owner, crashes>>
-----------------------------------------------------------------------------
Next ==
    \/ \E g \in Keygens :
          StartKeygen(g) \/ MakeDir(g) \/ Replace(g) \/ Sync(g) \/ GiveUp(g)
    \/ Crash
    \/ StartLoad \/ LoadSeat \/ LoadGroup

Spec == Init /\ [][Next]_vars
-----------------------------------------------------------------------------
(* Properties *)

Contents == 0 .. NumKeygens

\* Types of the store base and of the processes.
TypeOK ==
    /\ seen \in [Files -> Contents]
    /\ disk \in [Files -> SUBSET Contents]
    /\ made \subseteq Dirs
    /\ settled \subseteq made
    /\ stage \in [Keygens -> {"new", "writing", "done", "failed"}]
    /\ seat \in [Keygens -> Seats]
    /\ file \in [Keygens -> 1 .. 3]
    /\ call \in [Keygens -> {"mkdir", "rename", "sync"}]
    /\ owner \in Contents
    /\ reader \in [state : {"idle", "loading", "loaded", "failed"},
                   selected : SUBSET Seats, taken : [Seats -> Contents],
                   group : Contents, began : Contents]
    /\ crashes \in 0 .. MaxCrashes

\* D-07: at no time, crashes included, does a manifest index a share that is
\* not there, nor one without its group's public envelope.
IndexedShareExists ==
    \A i \in Seats :
        seen[i, "manifest"] # Nothing => Nothing \notin {seen[i, "share"], seen[i, "pubkey"]}

\* Once a keygen that ran alone has reported success, every root holds its
\* DKG and nothing else, whatever earlier runs left behind, and no crash can
\* undo that until keygen is started again.
FinishedKeygenOwnsBase ==
    owner \in Finished =>
        \A f \in Files : seen[f] = owner /\ disk[f] = {owner} /\ Home[f] \in settled

\* sign --persist after such a keygen gets T shares and their own group key.
QuietLoadIsWhole ==
    (/\ reader.began # 0 /\ reader.began = owner
     /\ reader.state \in {"loaded", "failed"}) =>
        /\ reader.state = "loaded"
        /\ Cardinality(reader.selected) = T
        /\ \A i \in reader.selected : reader.taken[i] = owner
        /\ reader.group = owner

\* A root whose files come from different DKGs, or that lacks some of them.
Torn == {i \in Roots : Cardinality({seen[i, k] : k \in Kinds}) > 1}

\* Runs that do not overlap tear at most one root for each of them that has
\* not finished.
OneTornRootPerInterruptedRun ==
    Cardinality(Torn) <= Cardinality({g \in Keygens : stage[g] \in {"writing", "failed"}})

\* What the promise of a store base speaks of: who has begun, and what a load
\* got.
Begun == {g \in Keygens : stage[g] # "new"}

SharesTaken == [i \in reader.selected |-> reader.taken[i]]

LoadResult == [state  |-> reader.state,
               from   |-> reader.began,
               shares |-> IF reader.state = "loaded" THEN SharesTaken ELSE <<>>,
               group  |-> reader.group]

Base == INSTANCE KeyBase WITH
    Quorums <- {S \in SUBSET Seats : Cardinality(S) = T},
    Nobody <- Nothing,
    begun <- Begun,
    writing <- Writing,
    finished <- Finished,
    sole <- owner,
    load <- LoadResult

\* The store base is what KeyBase promises: no crash, no earlier run and no
\* other root's files come between a finished keygen and the load of its shares.
ImplementsBase == Base!BaseSpec
-----------------------------------------------------------------------------
(* Claims of the documentation that the code does not keep *)

\* store/manifest.rs:10 "the manifest is always written LAST, after a share's
\* ciphertext is durably on disk, so it can never point at a half-written share".
IndexedShareIsDurable ==
    \A i \in Seats : seen[i, "manifest"] # Nothing => seen[i, "share"] # Nothing

\* crypto/keygen.rs:212 "assert that every seat's KeyPackage verifying key
\* equals the group verifying key.  Any mismatch is a hard abort".
LoadedSharesAreConfirmed ==
    reader.state = "loaded" =>
        \A i \in reader.selected : reader.taken[i] = reader.group
=============================================================================
