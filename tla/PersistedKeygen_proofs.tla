----------------------- MODULE PersistedKeygen_proofs -----------------------
(***************************************************************************)
(* Machine-checked proofs about PersistedKeygen, for every number of seats,  *)
(* keygen processes and crashes, whether or not the processes overlap, on a  *)
(* file system whose fsync commits the directories above a file.            *)
(***************************************************************************)
EXTENDS PersistedKeygen, FiniteSetTheorems, WellFoundedInduction, TLAPS

(* The types of the store base and of the writers; the reader touches neither. *)
WriterType ==
    /\ seen \in [Files -> Contents]
    /\ disk \in [Files -> SUBSET Contents]
    /\ made \subseteq Dirs
    /\ settled \subseteq made
    /\ stage \in [Keygens -> {"new", "writing", "done", "failed"}]
    /\ seat \in [Keygens -> Seats]
    /\ file \in [Keygens -> 1 .. 3]
    /\ call \in [Keygens -> {"mkdir", "rename", "sync"}]
    /\ owner \in Contents

\* The files that no crash can take away.
Safe == {f \in Files : Nothing \notin disk[f] /\ Home[f] \in settled}

\* What a reader finds is one of the contents a crash may leave, and what keeps
\* a directory also keeps the one above it.
DiskInv ==
    /\ \A f \in Files : seen[f] \in disk[f]
    /\ \A d \in made : Above[d] \subseteq made
    /\ \A d \in settled : Above[d] \subseteq settled

\* A writer has the directory it is about to write to, and what it wrote before
\* in this root is safe.
WriterInv ==
    /\ \A g \in Keygens : stage[g] = "new" => call[g] = "mkdir" /\ file[g] = 1 /\ seat[g] = 1
    /\ \A g \in Keygens : stage[g] = "writing" =>
         /\ call[g] \in {"rename", "sync"} => Above[Home[Target(g)]] \subseteq made
         /\ call[g] = "sync" => seen[Target(g)] # Nothing
         /\ file[g] > 1 => <<seat[g], "pubkey">> \in Safe
         /\ file[g] > 2 => <<seat[g], "share">> \in Safe

\* IndexedShareExists for every content a crash may leave.
IndexInv ==
    \A i \in Seats :
        (\E content \in disk[<<i, "manifest">>] : content # Nothing) =>
            <<i, "pubkey">> \in Safe /\ <<i, "share">> \in Safe

IInv == WriterType /\ DiskInv /\ WriterInv /\ IndexInv

\* Which file lies where.
LEMMA HomeType == \A f \in Files : Home[f] \in Dirs
  BY DEF Home, Files, Dirs, Kinds

LEMMA FileType ==
    /\ \A i \in Seats : <<i, "pubkey">> \in Files
    /\ \A i \in Seats : <<i, "share">> \in Files
    /\ \A i \in Seats : <<i, "manifest">> \in Files
  BY DEF Files, Kinds

LEMMA AboveType ==
    /\ \A d \in Dirs : d \in Above[d] /\ Above[d] \subseteq Dirs
    /\ \A d \in Dirs : \A e \in Above[d] : Above[e] \subseteq Above[d]
  <1>1. \A d \in Dirs : Above[d] = {d, <<d[1], "root">>}
    BY DEF Above
  <1>2. \A d \in Dirs : <<d[1], "root">> \in Dirs
    BY DEF Dirs
  <1>3. \A d \in Dirs : d \in Above[d] /\ Above[d] \subseteq Dirs
    BY <1>1, <1>2
  <1>4. ASSUME NEW d \in Dirs, NEW e \in Above[d] PROVE Above[e] \subseteq Above[d]
    <2>1. e = d \/ e = <<d[1], "root">>
      BY <1>1
    <2>2. e \in Dirs /\ Above[e] = {e, <<e[1], "root">>}
      BY <1>1, <1>3
    <2>3. e[1] = d[1]
      BY <2>1
    <2>4. QED
      BY <1>1, <2>1, <2>2, <2>3
  <1>5. QED
    BY <1>3, <1>4

\* What a writer writes next.
LEMMA TargetType ==
    ASSUME WriterType, NEW g \in Keygens
    PROVE  /\ seat[g] \in Seats /\ file[g] \in 1 .. 3
           /\ Target(g) \in Files
           /\ file[g] = 1 => Target(g) = <<seat[g], "pubkey">>
           /\ file[g] = 2 => Target(g) = <<seat[g], "share">>
           /\ file[g] = 3 => Target(g) = <<seat[g], "manifest">>
  <1>1. seat[g] \in Seats /\ file[g] \in 1 .. 3
    BY DEF WriterType
  <1>2. /\ file[g] = 1 => Target(g) = <<seat[g], "pubkey">>
        /\ file[g] = 2 => Target(g) = <<seat[g], "share">>
        /\ file[g] = 3 => Target(g) = <<seat[g], "manifest">>
    BY DEF Target, WriteOrder
  <1>3. file[g] = 1 \/ file[g] = 2 \/ file[g] = 3
    BY <1>1
  <1>4. Target(g) \in Files
    BY <1>1, <1>2, <1>3, FileType
  <1>5. QED
    BY <1>1, <1>2, <1>4

LEMMA InitIndex == Init => IInv
  <1> SUFFICES ASSUME Init PROVE IInv
    OBVIOUS
  <1>1. 1 \in Seats /\ 1 \in 1 .. 3 /\ 0 \in Contents
    BY SizesAssumption DEF Seats, Contents
  <1>2. WriterType
    BY <1>1 DEF Init, FilesInit, WriterType, Nothing
  <1>3. DiskInv /\ WriterInv
    BY DEF Init, FilesInit, DiskInv, WriterInv
  <1>4. IndexInv
    BY FileType DEF Init, FilesInit, IndexInv
  <1>5. QED
    BY <1>2, <1>3, <1>4 DEF IInv

\* A step that leaves the store base alone, moves no writer, and at most starts
\* or stops some.
LEMMA StageStep ==
    ASSUME IInv, UNCHANGED <<base, at>>,
           stage' \in [Keygens -> {"new", "writing", "done", "failed"}],
           owner' \in Contents,
           \A g \in Keygens : stage'[g] = "new" => stage[g] = "new",
           \A g \in Keygens : stage'[g] = "writing" => stage[g] \in {"new", "writing"}
    PROVE  IInv'
  <1> USE DEF base, at
  <1>1. WriterType'
    BY DEF IInv, WriterType
  <1>2. Safe' = Safe
    BY DEF Safe
  <1>3. DiskInv' /\ IndexInv'
    BY <1>2 DEF IInv, DiskInv, IndexInv
  <1>4. WriterInv'
    <2>1. \A g \in Keygens : Target(g)' = Target(g)
      BY DEF Target
    <2>2. \A g \in Keygens : stage'[g] = "writing" =>
             stage[g] = "writing" \/ (call[g] = "mkdir" /\ file[g] = 1)
      BY DEF IInv, WriterInv
    <2>3. QED
      BY <1>2, <2>1, <2>2 DEF IInv, WriterInv
  <1>5. QED
    BY <1>1, <1>3, <1>4 DEF IInv

\* create_dir_secure: more directories.
LEMMA MakeDirStep ==
    ASSUME IInv, NEW g \in Keygens, MakeDir(g)
    PROVE  IInv'
  <1> DEFINE d == Home[Target(g)]
  <1>1. d \in Dirs /\ Above[d] \subseteq Dirs
    BY TargetType, HomeType, AboveType DEF IInv
  <1>2. /\ made' = made \union Above[d]
        /\ UNCHANGED <<seen, disk, settled, stage, owner, seat, file>>
        /\ call' = [call EXCEPT ![g] = "rename"]
    BY DEF MakeDir, CreateDirSecure
  <1>3. WriterType'
    BY <1>1, <1>2 DEF IInv, WriterType
  <1>4. Safe' = Safe
    BY <1>2 DEF Safe
  <1>5. DiskInv' /\ IndexInv'
    <2>1. \A e \in Above[d] : Above[e] \subseteq Above[d]
      BY <1>1, AboveType
    <2>2. QED
      BY <1>2, <1>4, <2>1 DEF IInv, DiskInv, IndexInv
  <1>6. \A h \in Keygens : Target(h)' = Target(h)
    BY <1>2 DEF Target
  <1>7. \A h \in Keygens : call'[h] = IF h = g THEN "rename" ELSE call[h]
    BY <1>2 DEF IInv, WriterType
  <1>8. stage[g] = "writing"
    BY DEF MakeDir
  <1>9. WriterInv'
    BY <1>2, <1>4, <1>6, <1>7, <1>8 DEF IInv, WriterInv
  <1>10. QED
    BY <1>3, <1>5, <1>9 DEF IInv

\* write_atomic's rename: one file has one more content, and not Nothing.
LEMMA ReplaceStep ==
    ASSUME IInv, NEW g \in Keygens, Replace(g)
    PROVE  IInv'
  <1> DEFINE t == Target(g)
  <1>1. t \in Files /\ g \in Contents /\ g # Nothing
    BY TargetType DEF IInv, Keygens, Contents, Nothing
  <1>2. /\ seen' = [seen EXCEPT ![t] = g]
        /\ disk' = [disk EXCEPT ![t] = @ \union {g}]
        /\ UNCHANGED <<made, settled, stage, owner, seat, file>>
        /\ call' = [call EXCEPT ![g] = "sync"]
    BY DEF Replace, Rename
  <1>3. stage[g] = "writing" /\ call[g] = "rename"
    BY DEF Replace
  <1>4. WriterType'
    BY <1>1, <1>2 DEF IInv, WriterType
  <1>5. DiskInv'
    BY <1>1, <1>2 DEF IInv, DiskInv, WriterType
  <1>6. \A f \in Files : disk'[f] \subseteq disk[f] \union {g} /\ (f # t => disk'[f] = disk[f])
    BY <1>1, <1>2 DEF IInv, WriterType
  <1>7. Safe \subseteq Safe'
    BY <1>1, <1>2, <1>6 DEF Safe
  <1>8. \A h \in Keygens : /\ Target(h)' = Target(h) /\ Target(h) \in Files
                           /\ call'[h] = IF h = g THEN "sync" ELSE call[h]
    BY <1>2, TargetType DEF IInv, WriterType, Target
  <1>9. seen'[t] # Nothing /\ \A f \in Files : seen[f] # Nothing => seen'[f] # Nothing
    BY <1>1, <1>2 DEF IInv, WriterType
  <1>10. WriterInv'
    BY <1>2, <1>3, <1>7, <1>8, <1>9 DEF IInv, WriterInv
  <1>11. IndexInv'
    <2>1. ASSUME NEW i \in Seats,
                 NEW content \in disk'[<<i, "manifest">>], content # Nothing
          PROVE  <<i, "pubkey">> \in Safe /\ <<i, "share">> \in Safe
      <3>1. CASE t # <<i, "manifest">>
        <4>1. content \in disk[<<i, "manifest">>]
          BY <1>6, <3>1, FileType
        <4>2. QED
          BY <2>1, <4>1 DEF IInv, IndexInv
      <3>2. CASE t = <<i, "manifest">>
        <4>1. file[g] = 3 /\ seat[g] = i
          BY <3>2, TargetType DEF IInv
        <4>2. QED
          BY <1>3, <4>1 DEF IInv, WriterInv
      <3>3. QED
        BY <3>1, <3>2
    <2>2. QED
      BY <1>7, <2>1 DEF IndexInv
  <1>12. QED
    BY <1>4, <1>5, <1>10, <1>11 DEF IInv

\* write_atomic's fsync: what lies in the directory is safe, if it is there.
LEMMA SyncBase ==
    ASSUME IInv, MkdirDurable, NEW g \in Keygens, Sync(g)
    PROVE  /\ \A f \in Files : disk'[f] = {seen[f]} \/ disk'[f] = disk[f]
           /\ disk'[Target(g)] = {seen[Target(g)]}
           /\ settled' = settled \union Above[Home[Target(g)]]
           /\ Home[Target(g)] \in settled'
           /\ Above[Home[Target(g)]] \subseteq made
           /\ UNCHANGED <<seen, made>>
           /\ Target(g) \in Files
  <1> DEFINE t == Target(g)
  <1>1. t \in Files /\ Home[t] \in Dirs
    BY TargetType, HomeType DEF IInv
  <1>2. /\ disk' = [f \in Files |-> IF Home[f] = Home[t] THEN {seen[f]} ELSE disk[f]]
        /\ settled' = settled \union Above[Home[t]]
        /\ UNCHANGED <<seen, made>>
    BY DEF Sync, SyncHome
  <1>3. stage[g] = "writing" /\ call[g] = "sync"
    BY DEF Sync
  <1>4. Above[Home[t]] \subseteq made
    BY <1>3 DEF IInv, WriterInv
  <1>5. Home[t] \in Above[Home[t]]
    BY <1>1, AboveType
  <1>6. QED
    BY <1>1, <1>2, <1>4, <1>5

\* What the writer does after the fsync.
LEMMA SyncMoves ==
    ASSUME IInv, NEW g \in Keygens, Sync(g)
    PROVE  /\ stage[g] = "writing" /\ call[g] = "sync"
           /\ \A h \in Keygens \ {g} : /\ stage'[h] = stage[h] /\ seat'[h] = seat[h]
                                       /\ file'[h] = file[h] /\ call'[h] = call[h]
           /\ stage' \in [Keygens -> {"new", "writing", "done", "failed"}]
           /\ seat' \in [Keygens -> Seats]
           /\ file' \in [Keygens -> 1 .. 3]
           /\ call' \in [Keygens -> {"mkdir", "rename", "sync"}]
           /\ owner' = owner
           /\ \/ /\ file[g] < 3 /\ file'[g] = file[g] + 1 /\ seat'[g] = seat[g]
                 /\ call'[g] = "mkdir" /\ stage'[g] = "writing"
              \/ /\ file[g] = 3 /\ file'[g] = 1 /\ seat'[g] = seat[g] + 1
                 /\ call'[g] = "mkdir" /\ stage'[g] = "writing"
              \/ /\ file[g] = 3 /\ seat[g] = NumSeats /\ stage'[g] = "done"
  <1>1. stage[g] = "writing" /\ call[g] = "sync" /\ owner' = owner
    BY DEF Sync
  <1>2. /\ seat[g] \in 1 .. NumSeats /\ file[g] \in 1 .. 3 /\ NumSeats \in Nat
        /\ stage \in [Keygens -> {"new", "writing", "done", "failed"}]
        /\ seat \in [Keygens -> 1 .. NumSeats]
        /\ file \in [Keygens -> 1 .. 3]
        /\ call \in [Keygens -> {"mkdir", "rename", "sync"}]
    BY SizesAssumption DEF IInv, WriterType, Seats
  <1>3. MoreFiles(g) <=> file[g] < 3
    BY DEF MoreFiles, WriteOrder
  <1>4. \/ /\ file[g] < 3
           /\ file' = [file EXCEPT ![g] = @ + 1]
           /\ call' = [call EXCEPT ![g] = "mkdir"]
           /\ UNCHANGED <<seat, stage>>
        \/ /\ ~(file[g] < 3)
           /\ seat[g] + 1 <= NumSeats
           /\ seat' = [seat EXCEPT ![g] = seat[g] + 1]
           /\ file' = [file EXCEPT ![g] = 1]
           /\ call' = [call EXCEPT ![g] = "mkdir"]
           /\ UNCHANGED stage
        \/ /\ ~(file[g] < 3)
           /\ seat[g] + 1 > NumSeats
           /\ stage' = [stage EXCEPT ![g] = "done"]
           /\ UNCHANGED <<seat, file, call>>
    BY <1>3 DEF Sync, NextSeat, at
  <1>5. QED
    BY <1>1, <1>2, <1>4 DEF Seats

LEMMA SyncStep ==
    ASSUME IInv, MkdirDurable, NEW g \in Keygens, Sync(g)
    PROVE  IInv'
  <1> DEFINE t == Target(g)
  <1>1. /\ \A f \in Files : disk'[f] = {seen[f]} \/ disk'[f] = disk[f]
        /\ disk'[t] = {seen[t]}
        /\ settled' = settled \union Above[Home[t]]
        /\ Home[t] \in settled'
        /\ Above[Home[t]] \subseteq made
        /\ UNCHANGED <<seen, made>>
        /\ t \in Files
    BY SyncBase
  <1>2. WriterType'
    <2>1. disk' \in [Files -> SUBSET Contents]
      BY DEF Sync, SyncHome, IInv, WriterType
    <2>2. settled' \subseteq made'
      BY <1>1 DEF IInv, WriterType
    <2>3. QED
      BY <1>1, <2>1, <2>2, SyncMoves DEF IInv, WriterType
  <1>3. DiskInv'
    <2>1. \A e \in Above[Home[t]] : Above[e] \subseteq Above[Home[t]]
      BY <1>1, HomeType, AboveType
    <2>2. QED
      BY <1>1, <2>1 DEF IInv, DiskInv
  <1>4. Safe \subseteq Safe'
    BY <1>1 DEF Safe, IInv, DiskInv
  <1>5. t \in Safe'
    <2>1. seen[t] # Nothing
      BY SyncMoves DEF IInv, WriterInv
    <2>2. QED
      BY <1>1, <2>1 DEF Safe
  <1>6. IndexInv'
    BY <1>1, <1>4, FileType DEF IInv, IndexInv, DiskInv
  <1>7. WriterInv'
    <2>1. ASSUME NEW h \in Keygens, h # g
          PROVE  /\ stage'[h] = stage[h] /\ seat'[h] = seat[h] /\ file'[h] = file[h]
                 /\ call'[h] = call[h] /\ Target(h)' = Target(h)
      BY <2>1, SyncMoves DEF Target
    <2>2. ASSUME NEW h \in Keygens, h # g, stage'[h] = "new"
          PROVE  call'[h] = "mkdir" /\ file'[h] = 1 /\ seat'[h] = 1
      BY <2>1, <2>2 DEF IInv, WriterInv
    <2>3. ASSUME NEW h \in Keygens, h # g, stage'[h] = "writing"
          PROVE  /\ call'[h] \in {"rename", "sync"} => Above[Home[Target(h)']] \subseteq made'
                 /\ call'[h] = "sync" => seen'[Target(h)'] # Nothing
                 /\ file'[h] > 1 => <<seat'[h], "pubkey">> \in Safe'
                 /\ file'[h] > 2 => <<seat'[h], "share">> \in Safe'
      BY <1>1, <1>4, <2>1, <2>3 DEF IInv, WriterInv
    <2>4. stage'[g] # "new"
      BY SyncMoves
    <2>5. ASSUME stage'[g] = "writing"
          PROVE  /\ call'[g] = "mkdir"
                 /\ file'[g] > 1 => <<seat'[g], "pubkey">> \in Safe'
                 /\ file'[g] > 2 => <<seat'[g], "share">> \in Safe'
      <3>1. CASE file[g] < 3 /\ file'[g] = file[g] + 1 /\ seat'[g] = seat[g] /\ call'[g] = "mkdir"
        <4>1. file[g] = 1 \/ file[g] = 2
          BY <3>1, TargetType DEF IInv
        <4>2. CASE file[g] = 1
          BY <1>5, <3>1, <4>2, TargetType DEF IInv
        <4>3. CASE file[g] = 2
          <5>1. <<seat[g], "pubkey">> \in Safe
            <6>1. file[g] > 1
              BY <4>3
            <6>2. stage[g] = "writing"
              BY SyncMoves
            <6>3. QED
              BY <6>1, <6>2 DEF IInv, WriterInv
          <5>2. QED
            BY <1>4, <1>5, <3>1, <4>3, <5>1, TargetType DEF IInv
        <4>4. QED
          BY <4>1, <4>2, <4>3
      <3>2. CASE file'[g] = 1 /\ call'[g] = "mkdir"
        BY <3>2
      <3>3. QED
        BY <2>5, <3>1, <3>2, SyncMoves
    <2>6. QED
      BY <2>2, <2>3, <2>4, <2>5 DEF WriterInv
  <1>8. QED
    BY <1>2, <1>3, <1>6, <1>7 DEF IInv

\* What a power loss leaves of the store base.
LEMMA PowerLossBase ==
    ASSUME IInv, PowerLoss
    PROVE  /\ seen' \in [Files -> Contents]
           /\ disk' = [f \in Files |-> {seen'[f]}]
           /\ settled \subseteq made' /\ made' \subseteq made
           /\ settled' = made'
           /\ \A d \in made' : Above[d] \subseteq made'
           /\ \A f \in Files : /\ seen'[f] \in disk[f] \union {Nothing}
                               /\ Home[f] \in settled => seen'[f] \in disk[f]
  <1>1. settled \ made = {} /\ \A d \in made : Above[d] \subseteq made
    BY DEF IInv, DiskInv, WriterType
  <1>2. PICK lost \in SUBSET (made \ settled), back \in SUBSET (settled \ made),
             left \in [Doubtful -> UNION {disk[f] : f \in Files}] :
        /\ \A f \in Doubtful : left[f] \in disk[f]
        /\ made' = {d \in made \union back :
                       Above[d] \cap lost = {} /\ Above[d] \subseteq made \union back}
        /\ settled' = made'
        /\ seen' = [f \in Files |->
                      IF Home[f] \notin made' THEN Nothing
                      ELSE IF f \in Doubtful THEN left[f]
                      ELSE seen[f]]
        /\ disk' = [f \in Files |-> {seen'[f]}]
    BY Zenon DEF PowerLoss
  <1>3. made' = {d \in made : Above[d] \cap lost = {}}
    <2>1. back = {}
      BY <1>1
    <2>2. made \union back = made
      BY <2>1
    <2>3. made' = {d \in made : Above[d] \cap lost = {} /\ Above[d] \subseteq made}
      BY <1>2, <2>2, Zenon
    <2>4. QED
      BY <1>1, <2>3
  <1>4. settled \subseteq made'
    BY <1>2, <1>3 DEF IInv, WriterType, DiskInv
  <1>5. ASSUME NEW d \in made' PROVE Above[d] \subseteq made'
    <2>1. d \in Dirs /\ d \in made /\ Above[d] \subseteq made
      BY <1>2, <1>3 DEF IInv, WriterType, DiskInv
    <2>2. \A e \in Above[d] : Above[e] \subseteq Above[d]
      BY <2>1, AboveType
    <2>3. QED
      BY <1>2, <1>3, <2>1, <2>2
  <1>6. ASSUME NEW f \in Files
        PROVE  /\ seen'[f] \in disk[f] \union {Nothing}
               /\ Home[f] \in settled => seen'[f] \in disk[f]
    <2>1. seen[f] \in disk[f]
      BY DEF IInv, DiskInv
    <2>2. seen'[f] = IF Home[f] \notin made' THEN Nothing
                     ELSE IF f \in Doubtful THEN left[f]
                     ELSE seen[f]
      BY <1>2, <1>3
    <2>3. QED
      BY <1>2, <1>3, <1>4, <2>1, <2>2
  <1>7. seen' \in [Files -> Contents]
    <2>1. Nothing \in Contents
      BY SizesAssumption DEF Nothing, Contents
    <2>2. \A f \in Files : disk[f] \subseteq Contents
      BY DEF IInv, WriterType
    <2>3. \A f \in Files : seen'[f] \in Contents
      BY <1>6, <2>1, <2>2
    <2>4. seen' = [f \in Files |-> seen'[f]]
      BY <1>2, <1>3
    <2>5. QED
      BY <2>3, <2>4
  <1>8. QED
    BY <1>2, <1>3, <1>4, <1>5, <1>6, <1>7

LEMMA CrashStep ==
    ASSUME IInv, Crash
    PROVE  IInv'
  <1>1. /\ PowerLoss
        /\ stage' = [g \in Keygens |-> IF g \in Writing THEN "failed" ELSE stage[g]]
        /\ UNCHANGED <<seat, file, call, owner>>
    BY DEF Crash, at
  <1>2. \A g \in Keygens : stage'[g] # "writing" /\ (stage'[g] = "new" => stage[g] = "new")
    BY <1>1 DEF Writing
  <1>3. WriterInv'
    BY <1>1, <1>2 DEF WriterInv, IInv
  <1>4. WriterType'
    <2>1. disk' \in [Files -> SUBSET Contents]
      BY <1>1, PowerLossBase
    <2>2. stage' \in [Keygens -> {"new", "writing", "done", "failed"}]
      BY <1>1 DEF IInv, WriterType
    <2>3. QED
      BY <1>1, <2>1, <2>2, PowerLossBase DEF IInv, WriterType
  <1>5. DiskInv'
    BY <1>1, PowerLossBase DEF DiskInv
  <1>6. Safe \subseteq Safe'
    BY <1>1, PowerLossBase DEF Safe
  <1>7. IndexInv'
    BY <1>1, <1>6, PowerLossBase, FileType DEF IndexInv, IInv
  <1>8. QED
    BY <1>3, <1>4, <1>5, <1>7 DEF IInv

LEMMA NextIndex == MkdirDurable /\ IInv /\ [Next]_vars => IInv'
  <1> SUFFICES ASSUME MkdirDurable, IInv, [Next]_vars PROVE IInv'
    OBVIOUS
  <1> USE DEF base, at
  <1>1. ASSUME NEW g \in Keygens, StartKeygen(g) PROVE IInv'
    <2>1. stage' \in [Keygens -> {"new", "writing", "done", "failed"}]
      BY <1>1 DEF StartKeygen, IInv, WriterType
    <2>2. owner' \in Contents
      BY <1>1, SizesAssumption DEF StartKeygen, Contents, Keygens
    <2>3. \A h \in Keygens : /\ stage'[h] = "new" => stage[h] = "new"
                             /\ stage'[h] = "writing" => stage[h] \in {"new", "writing"}
      BY <1>1 DEF StartKeygen, IInv, WriterType
    <2>4. UNCHANGED <<base, at>>
      BY <1>1 DEF StartKeygen
    <2>5. QED
      BY <2>1, <2>2, <2>3, <2>4, StageStep
  <1>2. ASSUME NEW g \in Keygens, GiveUp(g) PROVE IInv'
    <2>1. /\ stage' \in [Keygens -> {"new", "writing", "done", "failed"}]
          /\ \A h \in Keygens : /\ stage'[h] = "new" => stage[h] = "new"
                                /\ stage'[h] = "writing" => stage[h] \in {"new", "writing"}
      BY <1>2 DEF GiveUp, IInv, WriterType
    <2>2. UNCHANGED <<base, at, owner>>
      BY <1>2 DEF GiveUp
    <2>3. owner' \in Contents
      BY <2>2 DEF IInv, WriterType
    <2>4. QED
      BY <2>1, <2>2, <2>3, StageStep
  <1>3. ASSUME UNCHANGED <<base, at, stage, owner>> PROVE IInv'
    <2>1. /\ stage' \in [Keygens -> {"new", "writing", "done", "failed"}]
          /\ owner' \in Contents
      BY <1>3 DEF IInv, WriterType
    <2>2. QED
      BY <1>3, <2>1, StageStep
  <1>4. CASE StartLoad \/ LoadSeat \/ LoadGroup \/ UNCHANGED vars
    <2>1. UNCHANGED <<base, at, stage, owner>>
      BY <1>4 DEF StartLoad, LoadSeat, LoadGroup, vars
    <2>2. QED
      BY <1>3, <2>1
  <1>5. CASE Crash
    BY <1>5, CrashStep
  <1>6. ASSUME NEW g \in Keygens, MakeDir(g) \/ Replace(g) \/ Sync(g) PROVE IInv'
    BY <1>6, MakeDirStep, ReplaceStep, SyncStep
  <1>7. QED
    BY <1>1, <1>2, <1>4, <1>5, <1>6 DEF Next

\* D-07, for every number of seats, keygens and crashes, overlapping or not: no
\* manifest ever indexes a share, or the share of a group, that is not there
\* (put_share's order of writes, with write_atomic's fsyncs between them).
THEOREM IndexNeverDangles == MkdirDurable => (Spec => []IndexedShareExists)
  <1> SUFFICES ASSUME MkdirDurable PROVE Spec => []IndexedShareExists
    OBVIOUS
  <1>1. IInv => IndexedShareExists
    <2>1. ASSUME IInv, NEW i \in Seats, seen[<<i, "manifest">>] # Nothing
          PROVE  seen[<<i, "share">>] # Nothing /\ seen[<<i, "pubkey">>] # Nothing
      <3>1. seen[<<i, "manifest">>] \in disk[<<i, "manifest">>]
        BY <2>1, FileType DEF IInv, DiskInv
      <3>2. <<i, "pubkey">> \in Safe /\ <<i, "share">> \in Safe
        BY <2>1, <3>1 DEF IInv, IndexInv
      <3>3. QED
        BY <2>1, <3>2 DEF Safe, IInv, DiskInv
    <2>2. QED
      BY <2>1 DEF IndexedShareExists
  <1>2. IInv /\ [Next]_vars => IInv'
    BY NextIndex
  <1>3. QED
    BY <1>1, <1>2, InitIndex, PTL DEF Spec
-----------------------------------------------------------------------------
(* The base after a keygen that ran alone. *)

\* The files that hold the owner's DKG whatever crashes.
Owned == {f \in Files : disk[f] = {owner} /\ Home[f] \in settled}

\* FinishedKeygenOwnsBase for the part of the base the owner has come to.
OwnerInv ==
    owner # 0 =>
        /\ owner \in Keygens /\ stage[owner] # "new"
        /\ Writing \subseteq {owner}
        /\ stage[owner] = "done" => Files \subseteq Owned
        /\ stage[owner] = "writing" =>
             /\ \A i \in Seats, k \in Kinds : i < seat[owner] => <<i, k>> \in Owned
             /\ file[owner] > 1 => <<seat[owner], "pubkey">> \in Owned
             /\ file[owner] > 2 => <<seat[owner], "share">> \in Owned
             /\ call[owner] = "sync" => seen[Target(owner)] = owner

\* When the owner is the only writer, a writer's step is the owner's.
LEMMA WriterIsOwner ==
    ASSUME OwnerInv, owner # 0, NEW g \in Keygens, stage[g] = "writing"
    PROVE  g = owner
  BY DEF OwnerInv, Writing

LEMMA StartKeepsOwner ==
    ASSUME IInv, NEW g \in Keygens, StartKeygen(g)
    PROVE  OwnerInv'
  <1> SUFFICES ASSUME owner' # 0 PROVE OwnerInv'
    BY DEF OwnerInv
  <1>1. /\ owner' = g /\ Writing = {}
        /\ stage' = [stage EXCEPT ![g] = "writing"]
        /\ UNCHANGED <<seat, file, call>>
    BY DEF StartKeygen, at
  <1>2. /\ stage'[g] = "writing"
        /\ \A h \in Keygens : h # g => stage'[h] = stage[h]
    BY <1>1 DEF IInv, WriterType
  <1>3. Writing' \subseteq {g}
    BY <1>1, <1>2 DEF Writing
  <1>4. seat'[g] = 1 /\ file'[g] = 1 /\ call'[g] = "mkdir"
    BY <1>1 DEF StartKeygen, IInv, WriterInv
  <1>5. ~(file'[g] > 1) /\ ~(file'[g] > 2) /\ \A i \in Seats : ~(i < seat'[g])
    BY <1>4 DEF Seats
  <1>6. QED
    BY <1>1, <1>2, <1>3, <1>4, <1>5 DEF OwnerInv

LEMMA MakeDirKeepsOwner ==
    ASSUME IInv, OwnerInv, NEW g \in Keygens, MakeDir(g)
    PROVE  OwnerInv'
  <1> SUFFICES ASSUME owner' # 0 PROVE OwnerInv'
    BY DEF OwnerInv
  <1>1. /\ UNCHANGED <<seen, disk, settled, stage, owner, seat, file>>
        /\ call' = [call EXCEPT ![g] = "rename"]
        /\ stage[g] = "writing"
    BY DEF MakeDir, CreateDirSecure
  <1>2. g = owner
    BY <1>1, WriterIsOwner
  <1>3. call'[owner] = "rename"
    BY <1>1, <1>2 DEF IInv, WriterType
  <1>4. Owned' = Owned /\ Writing' = Writing
    BY <1>1 DEF Owned, Writing
  <1>5. QED
    BY <1>1, <1>3, <1>4 DEF OwnerInv

LEMMA ReplaceKeepsOwner ==
    ASSUME IInv, OwnerInv, NEW g \in Keygens, Replace(g)
    PROVE  OwnerInv'
  <1> SUFFICES ASSUME owner' # 0 PROVE OwnerInv'
    BY DEF OwnerInv
  <1>1. /\ seen' = [seen EXCEPT ![Target(g)] = g]
        /\ disk' = [disk EXCEPT ![Target(g)] = @ \union {g}]
        /\ UNCHANGED <<made, settled, stage, owner, seat, file>>
        /\ stage[g] = "writing"
    BY DEF Replace, Rename
  <1>2. g = owner
    BY <1>1, WriterIsOwner
  <1>3. Target(g)' = Target(g) /\ Target(g) \in Files
    BY <1>1, TargetType DEF IInv, Target
  <1>4. seen'[Target(g)] = g
    BY <1>1, <1>3 DEF IInv, WriterType
  <1>5. \A f \in Files : disk'[f] = disk[f] \/ disk'[f] = disk[f] \union {owner}
    BY <1>1, <1>2, <1>3 DEF IInv, WriterType
  <1>6. Owned \subseteq Owned'
    BY <1>1, <1>5 DEF Owned
  <1>7. Writing' = Writing
    BY <1>1 DEF Writing
  <1>8. QED
    BY <1>1, <1>2, <1>3, <1>4, <1>6, <1>7 DEF OwnerInv

LEMMA SyncKeepsOwner ==
    ASSUME IInv, OwnerInv, MkdirDurable, NEW g \in Keygens, Sync(g)
    PROVE  OwnerInv'
  <1> SUFFICES ASSUME owner' # 0 PROVE OwnerInv'
    BY DEF OwnerInv
  <1> DEFINE t == Target(g)
  <1>1. /\ \A f \in Files : disk'[f] = {seen[f]} \/ disk'[f] = disk[f]
        /\ disk'[t] = {seen[t]}
        /\ settled' = settled \union Above[Home[t]]
        /\ Home[t] \in settled'
        /\ t \in Files
    BY SyncBase
  <1>2. owner' = owner /\ stage[g] = "writing" /\ call[g] = "sync"
    BY SyncMoves
  <1>3. g = owner
    BY <1>2, WriterIsOwner
  <1>4. Owned \subseteq Owned'
    BY <1>1, <1>2 DEF Owned, IInv, DiskInv
  <1>5. t \in Owned'
    BY <1>1, <1>2, <1>3 DEF Owned, OwnerInv
  <1>6. Writing' \subseteq {owner} /\ stage'[owner] # "new"
    <2>1. \A h \in Keygens : h # g => stage'[h] = stage[h]
      BY SyncMoves
    <2>2. Writing' \subseteq Writing
      BY <1>2, <2>1 DEF Writing
    <2>3. stage'[g] # "new"
      BY SyncMoves
    <2>4. QED
      BY <1>2, <1>3, <2>2, <2>3 DEF OwnerInv
  <1>7. /\ \A i \in Seats, k \in Kinds : i < seat[g] => <<i, k>> \in Owned'
        /\ file[g] > 1 => <<seat[g], "pubkey">> \in Owned'
        /\ file[g] > 2 => <<seat[g], "share">> \in Owned'
    BY <1>2, <1>3, <1>4 DEF OwnerInv
  <1>8. seat[g] \in Seats /\ file[g] \in 1 .. 3 /\ seat[g] \in Nat /\ NumSeats \in Nat
    BY TargetType, SizesAssumption DEF IInv, Seats
  <1>9. file[g] = 3 =>
          \A i \in Seats, k \in Kinds : i < seat[g] + 1 => <<i, k>> \in Owned'
    <2>1. ASSUME file[g] = 3, NEW i \in Seats, NEW k \in Kinds, i < seat[g] + 1
          PROVE  <<i, k>> \in Owned'
      <3>1. i < seat[g] \/ i = seat[g]
        BY <1>8, <2>1 DEF Seats
      <3>2. CASE i < seat[g]
        BY <1>7, <3>2
      <3>3. CASE i = seat[g]
        <4>1. <<seat[g], "pubkey">> \in Owned' /\ <<seat[g], "share">> \in Owned'
          <5>1. file[g] > 1 /\ file[g] > 2
            BY <2>1
          <5>2. QED
            BY <1>7, <5>1
        <4>2. <<seat[g], "manifest">> \in Owned'
          BY <1>5, <2>1, TargetType DEF IInv
        <4>3. QED
          BY <3>3, <4>1, <4>2 DEF Kinds
      <3>4. QED
        BY <3>1, <3>2, <3>3
    <2>2. QED
      BY <2>1
  <1>10. CASE /\ file[g] < 3 /\ file'[g] = file[g] + 1 /\ seat'[g] = seat[g]
              /\ call'[g] = "mkdir" /\ stage'[g] = "writing"
    <2>1. file[g] = 1 \/ file[g] = 2
      BY <1>8, <1>10
    <2>2. /\ file'[g] > 1 => <<seat'[g], "pubkey">> \in Owned'
          /\ file'[g] > 2 => <<seat'[g], "share">> \in Owned'
      <3>1. CASE file[g] = 1
        BY <1>5, <1>10, <3>1, TargetType DEF IInv
      <3>2. CASE file[g] = 2
        <4>1. file[g] > 1
          BY <3>2
        <4>2. <<seat[g], "pubkey">> \in Owned'
          BY <1>7, <4>1
        <4>3. QED
          BY <1>5, <1>10, <3>2, <4>2, TargetType DEF IInv
      <3>3. QED
        BY <2>1, <3>1, <3>2
    <2>3. \A i \in Seats, k \in Kinds : i < seat'[g] => <<i, k>> \in Owned'
      BY <1>7, <1>10
    <2>4. stage'[g] # "done" /\ call'[g] # "sync"
      BY <1>10
    <2>5. QED
      BY <1>2, <1>3, <1>6, <2>2, <2>3, <2>4 DEF OwnerInv
  <1>11. CASE /\ file[g] = 3 /\ file'[g] = 1 /\ seat'[g] = seat[g] + 1
              /\ call'[g] = "mkdir" /\ stage'[g] = "writing"
    <2>1. \A i \in Seats, k \in Kinds : i < seat'[g] => <<i, k>> \in Owned'
      BY <1>9, <1>11
    <2>2. ~(file'[g] > 1) /\ ~(file'[g] > 2)
      BY <1>11
    <2>3. stage'[g] # "done" /\ call'[g] # "sync"
      BY <1>11
    <2>4. QED
      BY <1>2, <1>3, <1>6, <2>1, <2>2, <2>3 DEF OwnerInv
  <1>12. CASE file[g] = 3 /\ seat[g] = NumSeats /\ stage'[g] = "done"
    <2>1. \A i \in Seats : i < seat[g] + 1
      BY <1>8, <1>12 DEF Seats
    <2>2. \A i \in Seats, k \in Kinds : <<i, k>> \in Owned'
      BY <1>9, <1>12, <2>1
    <2>3. Files \subseteq Owned'
      BY <2>2 DEF Files
    <2>4. stage'[g] # "writing"
      BY <1>12
    <2>5. QED
      BY <1>2, <1>3, <1>6, <2>3, <2>4 DEF OwnerInv
  <1>13. QED
    BY <1>10, <1>11, <1>12, SyncMoves

LEMMA CrashKeepsOwner ==
    ASSUME IInv, OwnerInv, Crash
    PROVE  OwnerInv'
  <1> SUFFICES ASSUME owner' # 0 PROVE OwnerInv'
    BY DEF OwnerInv
  <1>1. /\ PowerLoss
        /\ stage' = [g \in Keygens |-> IF g \in Writing THEN "failed" ELSE stage[g]]
        /\ UNCHANGED owner
    BY DEF Crash
  <1>2. owner \in Keygens /\ stage[owner] # "new"
    BY <1>1 DEF OwnerInv
  <1>3. /\ stage'[owner] # "new" /\ stage'[owner] # "writing"
        /\ stage'[owner] = "done" => stage[owner] = "done"
        /\ Writing' = {}
    BY <1>1, <1>2 DEF Writing
  <1>4. Owned \subseteq Owned'
    BY <1>1, PowerLossBase DEF Owned
  <1>5. QED
    BY <1>1, <1>2, <1>3, <1>4 DEF OwnerInv

LEMMA NextOwner == MkdirDurable /\ IInv /\ OwnerInv /\ [Next]_vars => OwnerInv'
  <1> SUFFICES ASSUME MkdirDurable, IInv, OwnerInv, [Next]_vars PROVE OwnerInv'
    OBVIOUS
  <1>1. ASSUME NEW g \in Keygens, GiveUp(g) PROVE OwnerInv'
    <2> SUFFICES ASSUME owner' # 0 PROVE OwnerInv'
      BY DEF OwnerInv
    <2>1. /\ UNCHANGED <<seen, disk, settled, owner>>
          /\ stage' = [stage EXCEPT ![g] = "failed"]
          /\ stage[g] = "writing"
      BY <1>1 DEF GiveUp, base
    <2>2. g = owner
      BY <2>1, WriterIsOwner
    <2>3. stage'[g] = "failed" /\ \A h \in Keygens : h # g => stage'[h] = stage[h]
      BY <2>1 DEF IInv, WriterType
    <2>4. Writing' \subseteq {}
      BY <2>1, <2>2, <2>3 DEF Writing, OwnerInv
    <2>5. QED
      BY <2>1, <2>2, <2>3, <2>4 DEF OwnerInv
  <1>2. CASE StartLoad \/ LoadSeat \/ LoadGroup \/ UNCHANGED vars
    <2>1. UNCHANGED <<seen, disk, settled, stage, owner, seat, file, call>>
      BY <1>2 DEF StartLoad, LoadSeat, LoadGroup, vars, base, at
    <2>2. Owned' = Owned /\ Writing' = Writing /\ Target(owner)' = Target(owner)
      BY <2>1 DEF Owned, Writing, Target
    <2>3. QED
      BY <2>1, <2>2 DEF OwnerInv
  <1>3. CASE Crash
    BY <1>3, CrashKeepsOwner
  <1>4. ASSUME NEW g \in Keygens, StartKeygen(g) \/ MakeDir(g) \/ Replace(g) \/ Sync(g)
        PROVE  OwnerInv'
    BY <1>4, StartKeepsOwner, MakeDirKeepsOwner, ReplaceKeepsOwner, SyncKeepsOwner
  <1>5. QED
    BY <1>1, <1>2, <1>3, <1>4 DEF Next

\* A keygen that ran alone and reported success owns every file of the base,
\* whatever was there before and whatever crashes, until keygen is started again
\* (persist_dkg_shares, put_share).
THEOREM FinishedOwnsBase == MkdirDurable => (Spec => []FinishedKeygenOwnsBase)
  <1> SUFFICES ASSUME MkdirDurable PROVE Spec => []FinishedKeygenOwnsBase
    OBVIOUS
  <1>1. Init => OwnerInv
    BY DEF Init, OwnerInv
  <1>2. IInv /\ OwnerInv => FinishedKeygenOwnsBase
    <2>1. ASSUME IInv, OwnerInv, owner \in Finished, NEW f \in Files
          PROVE  seen[f] = owner /\ disk[f] = {owner} /\ Home[f] \in settled
      <3>1. owner # 0
        BY <2>1 DEF Finished, Keygens
      <3>2. f \in Owned
        BY <2>1, <3>1 DEF OwnerInv, Finished
      <3>3. seen[f] \in disk[f]
        BY <2>1 DEF IInv, DiskInv
      <3>4. QED
        BY <3>2, <3>3 DEF Owned
    <2>2. QED
      BY <2>1 DEF FinishedKeygenOwnsBase
  <1>3. IInv /\ OwnerInv /\ [Next]_vars => IInv' /\ OwnerInv'
    BY NextIndex, NextOwner
  <1>4. QED
    BY <1>1, <1>2, <1>3, InitIndex, PTL DEF Spec
-----------------------------------------------------------------------------
(* The reader beside the writers. *)

ReaderType ==
    /\ reader \in [state : {"idle", "loading", "loaded", "failed"},
                   selected : SUBSET Seats, taken : [Seats -> Contents],
                   group : Contents, began : Contents]
    /\ reader.state = "loading" => reader.selected # {}
    /\ crashes \in 0 .. MaxCrashes

\* What a reader that began on the owner's base has found so far.
FindsOwner ==
    /\ reader.state # "failed"
    /\ reader.selected = 1 .. T
    /\ \A i \in reader.selected : reader.taken[i] \in {Nothing, owner}
    /\ reader.state = "loaded" =>
         /\ reader.group = owner
         /\ \A i \in reader.selected : reader.taken[i] = owner

ReaderInv ==
    /\ reader.began # 0 => reader.began \in Finished
    /\ reader.began # 0 /\ reader.began = owner => FindsOwner

LEMMA LeastType ==
    ASSUME NEW S \in SUBSET Seats, S # {}
    PROVE  Least(S) \in S /\ \A j \in S : Least(S) <= j
  <1>1. S \subseteq Nat
    BY SizesAssumption DEF Seats
  <1>2. \E i \in S : \A j \in S : ~(<<j, i>> \in OpToRel(<, Nat))
    BY <1>1, NatLessThanWellFounded, WFMin
  <1>3. \A i, j \in Nat : j < i => <<j, i>> \in OpToRel(<, Nat)
    BY DEF OpToRel
  <1>4. \E i \in S : \A j \in S : ~(j < i)
    BY <1>1, <1>2, <1>3, Zenon
  <1>5. \E i \in S : \A j \in S : i <= j
    BY <1>1, <1>4
  <1>6. QED
    BY <1>5 DEF Least

LEMMA CardUpTo == ASSUME NEW m \in Nat PROVE Cardinality(1 .. m) = m
  <1>1. 1 \in Int /\ m \in Int
    OBVIOUS
  <1>2. Cardinality(1 .. m) = IF 1 > m THEN 0 ELSE m - 1 + 1
    BY <1>1, FS_Interval
  <1>3. QED
    BY <1>2

\* On a base with every root, load_persisted_shares takes the first T seats.
LEMMA FirstOfSeats == FirstOf(Seats) = 1 .. T /\ ~(Cardinality(Seats) < T)
  <1>1. NumSeats \in Nat /\ T \in Nat /\ T >= 1 /\ T <= NumSeats
    BY SizesAssumption
  <1>2. ASSUME NEW i \in Seats PROVE Cardinality({j \in Seats : j < i}) = i - 1
    <2>1. i \in Nat /\ i >= 1 /\ i <= NumSeats /\ i - 1 \in Nat
      BY <1>1 DEF Seats
    <2>2. {j \in Seats : j < i} = 1 .. (i - 1)
      BY <1>1, <2>1 DEF Seats
    <2>3. QED
      BY <2>1, <2>2, CardUpTo
  <1>3. FirstOf(Seats) = {i \in Seats : i - 1 < T}
    BY <1>2 DEF FirstOf
  <1>4. FirstOf(Seats) = 1 .. T
    <2>1. \A i \in Seats : i - 1 < T <=> i \in 1 .. T
      BY <1>1 DEF Seats
    <2>2. 1 .. T \subseteq Seats
      BY <1>1 DEF Seats
    <2>3. QED
      BY <1>3, <2>1, <2>2
  <1>5. Cardinality(Seats) = NumSeats
    BY <1>1, CardUpTo DEF Seats
  <1>6. QED
    BY <1>1, <1>4, <1>5

\* The first roots are roots, and there is a first one where there is any.
LEMMA FirstOfType ==
    ASSUME NEW S \in SUBSET Seats, ~(Cardinality(S) < T)
    PROVE  FirstOf(S) \subseteq S /\ FirstOf(S) # {}
  <1>1. T \in Nat /\ 0 < T
    BY SizesAssumption
  <1>2. Cardinality({}) = 0
    BY FS_EmptySet
  <1>3. S # {}
    BY <1>1, <1>2
  <1>4. PICK m \in S : \A j \in S : m <= j
    BY <1>3, LeastType
  <1>5. S \subseteq Nat
    BY SizesAssumption DEF Seats
  <1>6. {j \in S : j < m} = {}
    <2>1. \A j \in Nat : m \in Nat /\ m <= j => ~(j < m)
      OBVIOUS
    <2>2. \A j \in S : ~(j < m)
      BY <1>4, <1>5, <2>1, Zenon
    <2>3. QED
      BY <2>2, Zenon
  <1>7. m \in FirstOf(S)
    BY <1>1, <1>2, <1>6 DEF FirstOf
  <1>8. QED
    BY <1>7 DEF FirstOf

\* What a reader finds on the base of an owner that has finished.
LEMMA OwnerServes ==
    ASSUME IInv, OwnerInv, owner \in Finished
    PROVE  /\ Roots = Seats
           /\ \A f \in Files : seen[f] = owner
           /\ owner # Nothing
  <1>1. owner # 0
    BY DEF Finished, Keygens
  <1>2. \A f \in Files : disk[f] = {owner} /\ Home[f] \in settled
    BY <1>1 DEF OwnerInv, Finished, Owned
  <1>3. \A f \in Files : seen[f] = owner
    BY <1>2 DEF IInv, DiskInv
  <1>4. \A i \in Seats : <<i, "manifest">> \in Files /\ Home[<<i, "manifest">>] = <<i, "root">>
    BY FileType DEF Home
  <1>5. Roots = Seats
    BY <1>2, <1>4 DEF Roots, IInv, WriterType
  <1>6. QED
    BY <1>1, <1>3, <1>5 DEF Nothing

LEMMA StartLoadStep ==
    ASSUME IInv, OwnerInv, ReaderType, ReaderInv, StartLoad
    PROVE  ReaderType' /\ ReaderInv'
  <1>1. /\ reader' = [state    |-> IF Cardinality(Roots) < T THEN "failed" ELSE "loading",
                      selected |-> IF Cardinality(Roots) < T THEN {} ELSE FirstOf(Roots),
                      taken    |-> NoSeatTaken,
                      group    |-> Nothing,
                      began    |-> IF owner \in Finished THEN owner ELSE 0]
        /\ UNCHANGED <<stage, owner, crashes>>
    BY DEF StartLoad
  <1>2. Roots \in SUBSET Seats
    BY DEF Roots
  <1>3. /\ NoSeatTaken \in [Seats -> Contents] /\ Nothing \in Contents /\ 0 \in Contents
        /\ owner \in Contents
    BY SizesAssumption DEF NoSeatTaken, Nothing, Contents, IInv, WriterType
  <1>4. ReaderType'
    <2>1. CASE Cardinality(Roots) < T
      BY <1>1, <1>3, <2>1 DEF ReaderType
    <2>2. CASE ~(Cardinality(Roots) < T)
      <3>1. FirstOf(Roots) \in SUBSET Seats /\ FirstOf(Roots) # {}
        BY <1>2, <2>2, FirstOfType
      <3>2. QED
        BY <1>1, <1>3, <2>2, <3>1 DEF ReaderType
    <2>3. QED
      BY <2>1, <2>2
  <1>5. Finished' = Finished
    BY <1>1 DEF Finished
  <1>6. ASSUME reader'.began # 0 PROVE reader'.began \in Finished' /\ FindsOwner'
    <2>1. owner \in Finished /\ reader'.began = owner
      BY <1>1, <1>6
    <2>2. Roots = Seats
      BY <2>1, OwnerServes
    <2>3. reader'.state = "loading" /\ reader'.selected = 1 .. T
      BY <1>1, <2>2, FirstOfSeats
    <2>4. \A i \in reader'.selected : reader'.taken[i] = Nothing
      <3>1. 1 .. T \subseteq Seats
        BY SizesAssumption DEF Seats
      <3>2. QED
        BY <1>1, <2>3, <3>1 DEF NoSeatTaken
    <2>5. QED
      BY <1>5, <2>1, <2>3, <2>4 DEF FindsOwner
  <1>7. QED
    BY <1>4, <1>6 DEF ReaderInv

LEMMA LoadSeatStep ==
    ASSUME IInv, OwnerInv, ReaderType, ReaderInv, LoadSeat
    PROVE  ReaderType' /\ ReaderInv'
  <1> DEFINE i == Least(Untaken)
             share == seen[<<i, "share">>]
             manifest == seen[<<i, "manifest">>]
  <1>1. /\ reader.state = "loading" /\ Untaken # {}
        /\ reader' = IF Nothing \in {manifest, share}
                       THEN [reader EXCEPT !.state = "failed"]
                       ELSE [reader EXCEPT !.taken[i] = share]
        /\ UNCHANGED <<stage, owner, crashes>>
    BY DEF LoadSeat
  <1>2. Untaken \in SUBSET Seats
    BY DEF Untaken, ReaderType
  <1>3. i \in Untaken /\ i \in Seats /\ i \in reader.selected
    BY <1>1, <1>2, LeastType DEF Untaken
  <1>4. <<i, "share">> \in Files /\ <<i, "manifest">> \in Files
    BY <1>3, FileType
  <1>5. share \in Contents
    BY <1>4 DEF IInv, WriterType
  <1>6. /\ reader'.selected = reader.selected /\ reader'.group = reader.group
        /\ reader'.began = reader.began
    BY <1>1 DEF ReaderType
  <1>7. ReaderType'
    <2>1. CASE Nothing \in {manifest, share}
      BY <1>1, <2>1 DEF ReaderType
    <2>2. CASE ~(Nothing \in {manifest, share})
      <3> HIDE DEF i, share, manifest
      <3>1. reader' = [reader EXCEPT !.taken = [reader.taken EXCEPT ![i] = share]]
        BY <1>1, <2>2
      <3>2. [reader.taken EXCEPT ![i] = share] \in [Seats -> Contents]
        BY <1>5 DEF ReaderType
      <3>3. QED
        BY <1>1, <3>1, <3>2 DEF ReaderType
    <2>3. QED
      BY <2>1, <2>2
  <1>8. Finished' = Finished
    BY <1>1 DEF Finished
  <1>9. ASSUME reader'.began # 0, reader'.began = owner' PROVE FindsOwner'
    <2>1. owner' = owner /\ FindsOwner /\ owner \in Finished
      BY <1>1, <1>6, <1>9 DEF ReaderInv
    <2>2. share = owner /\ manifest = owner /\ owner # Nothing
      BY <1>4, <2>1, OwnerServes
    <2> HIDE DEF i, share, manifest
    <2>3. reader' = [reader EXCEPT !.taken = [reader.taken EXCEPT ![i] = share]]
      BY <1>1, <2>2
    <2>4. reader'.state = "loading" /\ reader'.taken = [reader.taken EXCEPT ![i] = share]
      BY <1>1, <2>3 DEF ReaderType
    <2>5. \A j \in reader.selected : reader'.taken[j] \in {Nothing, owner}
      <3>1. reader.taken \in [Seats -> Contents]
        BY DEF ReaderType
      <3>2. QED
        BY <2>1, <2>2, <2>4, <3>1 DEF FindsOwner
    <2>6. QED
      BY <1>6, <2>1, <2>4, <2>5 DEF FindsOwner
  <1>10. QED
    BY <1>6, <1>7, <1>8, <1>9 DEF ReaderInv

LEMMA LoadGroupStep ==
    ASSUME IInv, OwnerInv, ReaderType, ReaderInv, LoadGroup
    PROVE  ReaderType' /\ ReaderInv'
  <1> DEFINE group == seen[<<Least(reader.selected), "pubkey">>]
  <1>1. /\ reader.state = "loading" /\ Untaken = {}
        /\ reader' = IF group = Nothing
                       THEN [reader EXCEPT !.state = "failed"]
                       ELSE [reader EXCEPT !.state = "loaded", !.group = group]
        /\ UNCHANGED <<stage, owner, crashes>>
    BY DEF LoadGroup
  <1>2. reader.selected \in SUBSET Seats /\ reader.selected # {}
    BY <1>1 DEF ReaderType
  <1>3. Least(reader.selected) \in Seats
    BY <1>2, LeastType
  <1>4. <<Least(reader.selected), "pubkey">> \in Files
    BY <1>3, FileType
  <1>5. group \in Contents
    BY <1>4 DEF IInv, WriterType
  <1> HIDE DEF group
  <1>6. /\ reader'.selected = reader.selected /\ reader'.taken = reader.taken
        /\ reader'.began = reader.began
    BY <1>1 DEF ReaderType
  <1>7. ReaderType'
    BY <1>1, <1>5 DEF ReaderType
  <1>8. Finished' = Finished
    BY <1>1 DEF Finished
  <1>9. ASSUME reader'.began # 0, reader'.began = owner' PROVE FindsOwner'
    <2>1. owner' = owner /\ FindsOwner /\ owner \in Finished
      BY <1>1, <1>6, <1>9 DEF ReaderInv
    <2>2. group = owner /\ owner # Nothing
      BY <1>4, <2>1, OwnerServes DEF group
    <2>3. reader'.state = "loaded" /\ reader'.group = owner
      BY <1>1, <2>2 DEF ReaderType
    <2>4. \A j \in reader.selected : reader.taken[j] = owner
      BY <1>1, <2>1 DEF Untaken, FindsOwner
    <2>5. QED
      BY <1>6, <2>1, <2>3, <2>4 DEF FindsOwner
  <1>10. QED
    BY <1>6, <1>7, <1>8, <1>9 DEF ReaderInv

\* The writers' steps: a finished keygen stays finished, and a base changes its
\* owner only to a keygen that starts, or to none.
LEMMA WriterKeepsReader ==
    ASSUME IInv, ReaderType, ReaderInv, UNCHANGED <<reader, crashes>>,
           \A g \in Finished : g \in Finished',
           owner' = owner \/ owner' \notin Finished
    PROVE  ReaderType' /\ ReaderInv'
  <1>1. ReaderType'
    BY DEF ReaderType
  <1>2. reader.began # 0 => reader.began \in Finished'
    BY DEF ReaderInv
  <1>3. ASSUME reader.began # 0, reader.began = owner' PROVE FindsOwner'
    <2>1. owner' = owner
      BY <1>3 DEF ReaderInv
    <2>2. QED
      BY <1>3, <2>1 DEF ReaderInv, FindsOwner
  <1>4. QED
    BY <1>1, <1>2, <1>3 DEF ReaderInv

LEMMA NextReader ==
    IInv /\ OwnerInv /\ ReaderType /\ ReaderInv /\ [Next]_vars => ReaderType' /\ ReaderInv'
  <1> SUFFICES ASSUME IInv, OwnerInv, ReaderType, ReaderInv, [Next]_vars
               PROVE  ReaderType' /\ ReaderInv'
    OBVIOUS
  <1>1. ASSUME NEW g \in Keygens, StartKeygen(g) PROVE ReaderType' /\ ReaderInv'
    <2>1. /\ stage[g] = "new" /\ stage' = [stage EXCEPT ![g] = "writing"]
          /\ owner' = g \/ owner' = 0
          /\ UNCHANGED <<reader, crashes>>
      BY <1>1 DEF StartKeygen
    <2>2. \A h \in Finished : h \in Finished'
      BY <2>1 DEF Finished, IInv, WriterType
    <2>3. g \notin Finished /\ 0 \notin Finished
      BY <2>1 DEF Finished, Keygens
    <2>4. QED
      BY <2>1, <2>2, <2>3, WriterKeepsReader
  <1>2. ASSUME NEW g \in Keygens, MakeDir(g) \/ Replace(g) \/ GiveUp(g)
        PROVE  ReaderType' /\ ReaderInv'
    <2>1. /\ stage' = stage \/ (stage[g] = "writing" /\ stage' = [stage EXCEPT ![g] = "failed"])
          /\ UNCHANGED <<reader, crashes, owner>>
      BY <1>2 DEF MakeDir, Replace, GiveUp
    <2>2. \A h \in Finished : h \in Finished'
      BY <2>1 DEF Finished, IInv, WriterType
    <2>3. QED
      BY <2>1, <2>2, WriterKeepsReader
  <1>3. ASSUME NEW g \in Keygens, Sync(g) PROVE ReaderType' /\ ReaderInv'
    <2>1. /\ stage[g] = "writing" /\ \A h \in Keygens \ {g} : stage'[h] = stage[h]
          /\ owner' = owner
      BY <1>3, SyncMoves
    <2>2. \A h \in Finished : h \in Finished'
      BY <2>1 DEF Finished, IInv, WriterType
    <2>3. UNCHANGED <<reader, crashes>>
      BY <1>3 DEF Sync
    <2>4. QED
      BY <2>1, <2>2, <2>3, WriterKeepsReader
  <1>4. CASE Crash
    <2>1. reader' = Idle /\ crashes < MaxCrashes /\ crashes' = crashes + 1
      BY <1>4 DEF Crash
    <2>2. /\ NoSeatTaken \in [Seats -> Contents] /\ Nothing \in Contents /\ 0 \in Contents
          /\ MaxCrashes \in Nat
      BY SizesAssumption DEF NoSeatTaken, Nothing, Contents
    <2>3. QED
      BY <2>1, <2>2 DEF ReaderType, ReaderInv, Idle
  <1>5. CASE UNCHANGED vars
    <2>1. UNCHANGED <<stage, owner, reader, crashes>>
      BY <1>5 DEF vars
    <2>2. QED
      BY <2>1, WriterKeepsReader DEF Finished
  <1>6. QED
    BY <1>1, <1>2, <1>3, <1>4, <1>5, StartLoadStep, LoadSeatStep, LoadGroupStep DEF Next

LEMMA InitReader == Init => OwnerInv /\ ReaderType /\ ReaderInv
  <1>1. NoSeatTaken \in [Seats -> Contents] /\ 0 \in Contents /\ 0 \in 0 .. MaxCrashes
    BY SizesAssumption DEF NoSeatTaken, Nothing, Contents
  <1>2. QED
    BY <1>1 DEF Init, OwnerInv, ReaderType, ReaderInv, Idle, Nothing

\* sign --persist that begins on the base of a keygen which ran alone and
\* finished loads exactly T of its shares and the group they belong to, whatever
\* else happens before it ends, a new keygen excepted (load_persisted_shares).
THEOREM QuietLoadsWhole == MkdirDurable => (Spec => []QuietLoadIsWhole)
  <1> SUFFICES ASSUME MkdirDurable PROVE Spec => []QuietLoadIsWhole
    OBVIOUS
  <1>1. ReaderInv => QuietLoadIsWhole
    <2>1. T \in Nat /\ Cardinality(1 .. T) = T
      BY CardUpTo, SizesAssumption
    <2>2. QED
      BY <2>1 DEF ReaderInv, FindsOwner, QuietLoadIsWhole
  <1>2. IInv /\ OwnerInv /\ ReaderType /\ ReaderInv /\ [Next]_vars
          => IInv' /\ OwnerInv' /\ ReaderType' /\ ReaderInv'
    BY NextIndex, NextOwner, NextReader
  <1>3. QED
    BY <1>1, <1>2, InitIndex, InitReader, PTL DEF Spec

\* The types of the store base, the writers and the reader.
THEOREM TypeCorrect == MkdirDurable => (Spec => []TypeOK)
  <1> SUFFICES ASSUME MkdirDurable PROVE Spec => []TypeOK
    OBVIOUS
  <1>1. IInv /\ ReaderType => TypeOK
    BY DEF IInv, WriterType, ReaderType, TypeOK
  <1>2. IInv /\ OwnerInv /\ ReaderType /\ ReaderInv /\ [Next]_vars
          => IInv' /\ OwnerInv' /\ ReaderType' /\ ReaderInv'
    BY NextIndex, NextOwner, NextReader
  <1>3. QED
    BY <1>1, <1>2, InitIndex, InitReader, PTL DEF Spec
-----------------------------------------------------------------------------
(* Keygens that do not overlap: a root is whole, unless a keygen that has not *)
(* finished stands or stood at it.                                          *)

Interrupted == {g \in Keygens : stage[g] \in {"writing", "failed"}}

\* The three files of a root belong to one DKG, or are all absent, for good.
Whole(i) ==
    \E g \in Contents : \A k \in Kinds :
        disk[<<i, k>>] = {g} /\ (g # Nothing => Home[<<i, k>>] \in settled)

WholeInv ==
    /\ \A i \in Seats : (\A g \in Interrupted : seat[g] # i) => Whole(i)
    /\ Writing # {} => owner # 0

LEMMA RootFiles == \A i \in Seats : \A k \in Kinds : <<i, k>> \in Files
  BY DEF Files

\* What leaves a root's files alone, or settles them, keeps it whole.
LEMMA WholeStays ==
    ASSUME IInv, NEW i \in Seats, Whole(i), settled \subseteq settled',
           \A k \in Kinds : \/ disk'[<<i, k>>] = disk[<<i, k>>]
                            \/ disk'[<<i, k>>] = {seen[<<i, k>>]}
    PROVE  Whole(i)'
  <1>1. PICK g \in Contents : \A k \in Kinds :
           disk[<<i, k>>] = {g} /\ (g # Nothing => Home[<<i, k>>] \in settled)
    BY DEF Whole
  <1>2. \A k \in Kinds : seen[<<i, k>>] \in disk[<<i, k>>]
    BY RootFiles DEF IInv, DiskInv
  <1>3. \A k \in Kinds : disk'[<<i, k>>] = {g} /\ (g # Nothing => Home[<<i, k>>] \in settled')
    BY <1>1, <1>2
  <1>4. QED
    BY <1>3 DEF Whole

LEMMA OwnedIsWhole ==
    ASSUME owner' \in Contents, NEW i \in Seats, \A k \in Kinds : <<i, k>> \in Owned'
    PROVE  Whole(i)'
  BY DEF Owned, Whole

LEMMA StartKeepsWhole ==
    ASSUME IInv, WholeInv, NEW g \in Keygens, StartKeygen(g), ~Overlap
    PROVE  WholeInv'
  <1>1. /\ Writing = {} /\ owner' = g /\ stage' = [stage EXCEPT ![g] = "writing"]
        /\ stage[g] = "new" /\ UNCHANGED <<seen, disk, settled, seat>>
    BY DEF StartKeygen, base, at
  <1>2. owner' # 0
    BY <1>1 DEF Keygens
  <1>3. Interrupted \subseteq Interrupted'
    BY <1>1 DEF Interrupted, IInv, WriterType
  <1>4. \A i \in Seats : (\A h \in Interrupted' : seat'[h] # i) => Whole(i)'
    BY <1>1, <1>3, WholeStays DEF WholeInv
  <1>5. QED
    BY <1>2, <1>4 DEF WholeInv

LEMMA ReplaceKeepsWhole ==
    ASSUME IInv, WholeInv, NEW g \in Keygens, Replace(g)
    PROVE  WholeInv'
  <1>1. /\ disk' = [disk EXCEPT ![Target(g)] = @ \union {g}]
        /\ stage[g] = "writing" /\ UNCHANGED <<settled, stage, owner, seat>>
    BY DEF Replace, Rename
  <1>2. g \in Interrupted /\ Interrupted' = Interrupted /\ Writing' = Writing
    BY <1>1 DEF Interrupted, Writing
  <1>3. ASSUME NEW i \in Seats, \A h \in Interrupted' : seat'[h] # i PROVE Whole(i)'
    <2>1. Whole(i) /\ seat[g] # i
      BY <1>1, <1>2, <1>3 DEF WholeInv
    <2>2. \A k \in Kinds : <<i, k>> # Target(g) /\ <<i, k>> \in Files
      BY <2>1, RootFiles DEF Target
    <2>3. \A k \in Kinds : disk'[<<i, k>>] = disk[<<i, k>>]
      BY <1>1, <2>2 DEF IInv, WriterType
    <2>4. QED
      BY <1>1, <2>1, <2>3, WholeStays
  <1>4. QED
    BY <1>1, <1>2, <1>3 DEF WholeInv

\* The writer leaves a root when it has made it its own.
LEMMA SyncKeepsWhole ==
    ASSUME MkdirDurable, IInv, OwnerInv, OwnerInv', WholeInv, NEW g \in Keygens, Sync(g)
    PROVE  WholeInv'
  <1>1. /\ stage[g] = "writing" /\ owner' = owner
        /\ \A h \in Keygens \ {g} : stage'[h] = stage[h] /\ seat'[h] = seat[h]
    BY SyncMoves
  <1>2. owner # 0 /\ g = owner
    BY <1>1, WriterIsOwner DEF WholeInv, Writing
  <1>3. /\ \A f \in Files : disk'[f] = {seen[f]} \/ disk'[f] = disk[f]
        /\ settled \subseteq settled'
    BY SyncBase
  <1>4. \A i \in Seats : Whole(i) => Whole(i)'
    BY <1>3, RootFiles, WholeStays
  <1>5. owner' \in Contents
    BY <1>1 DEF IInv, WriterType
  <1>6. ASSUME NEW i \in Seats, \A h \in Interrupted' : seat'[h] # i PROVE Whole(i)'
    <2>1. \A h \in Interrupted \ {g} : seat[h] # i
      BY <1>1, <1>6 DEF Interrupted
    <2>2. CASE seat[g] # i
      BY <1>4, <2>1, <2>2 DEF WholeInv
    <2>3. CASE seat[g] = i /\ stage'[g] = "writing"
      <3>1. seat'[g] # i
        BY <1>6, <2>3 DEF Interrupted
      <3>2. seat'[g] = i + 1 /\ i \in Nat
        BY <2>3, <3>1, SyncMoves DEF Seats
      <3>3. \A k \in Kinds : <<i, k>> \in Owned'
        BY <1>1, <1>2, <2>3, <3>2 DEF OwnerInv
      <3>4. QED
        BY <1>5, <3>3, OwnedIsWhole
    <2>4. CASE stage'[g] = "done"
      <3>1. \A k \in Kinds : <<i, k>> \in Owned'
        BY <1>1, <1>2, <2>4, RootFiles DEF OwnerInv
      <3>2. QED
        BY <1>5, <3>1, OwnedIsWhole
    <2>5. QED
      BY <2>2, <2>3, <2>4, SyncMoves
  <1>7. QED
    BY <1>1, <1>2, <1>6 DEF WholeInv

\* Of a whole root a crash takes nothing, or there is nothing to take.
LEMMA CrashKeepsWhole ==
    ASSUME IInv, WholeInv, Crash
    PROVE  WholeInv'
  <1>1. /\ PowerLoss
        /\ stage' = [g \in Keygens |-> IF g \in Writing THEN "failed" ELSE stage[g]]
        /\ UNCHANGED <<seat, owner>>
    BY DEF Crash, at
  <1>2. Interrupted' = Interrupted /\ Writing' = {}
    BY <1>1 DEF Interrupted, Writing
  <1>3. ASSUME NEW i \in Seats, Whole(i) PROVE Whole(i)'
    <2>1. PICK g \in Contents : \A k \in Kinds :
             disk[<<i, k>>] = {g} /\ (g # Nothing => Home[<<i, k>>] \in settled)
      BY <1>3 DEF Whole
    <2>2. ASSUME NEW k \in Kinds PROVE seen'[<<i, k>>] = g
      BY <1>1, <2>1, PowerLossBase, RootFiles
    <2>3. \A k \in Kinds : disk'[<<i, k>>] = {g}
      BY <1>1, <2>2, PowerLossBase, RootFiles
    <2>4. settled \subseteq settled'
      BY <1>1, PowerLossBase
    <2>5. QED
      BY <2>1, <2>3, <2>4 DEF Whole
  <1>4. QED
    BY <1>1, <1>2, <1>3 DEF WholeInv

LEMMA NextWhole ==
    MkdirDurable /\ ~Overlap /\ IInv /\ OwnerInv /\ OwnerInv' /\ WholeInv /\ [Next]_vars
        => WholeInv'
  <1> SUFFICES ASSUME MkdirDurable, ~Overlap, IInv, OwnerInv, OwnerInv', WholeInv, [Next]_vars
               PROVE  WholeInv'
    OBVIOUS
  <1>1. ASSUME UNCHANGED <<seen, disk, settled, seat, owner>>, Interrupted' = Interrupted,
               Writing' \subseteq Writing
        PROVE  WholeInv'
    BY <1>1, WholeStays DEF WholeInv
  <1>2. ASSUME NEW g \in Keygens, MakeDir(g) PROVE WholeInv'
    BY <1>1, <1>2 DEF MakeDir, CreateDirSecure, Interrupted, Writing
  <1>3. ASSUME NEW g \in Keygens, GiveUp(g) PROVE WholeInv'
    <2>1. /\ UNCHANGED <<seen, disk, settled, seat, owner>>
          /\ stage[g] = "writing" /\ stage' = [stage EXCEPT ![g] = "failed"]
      BY <1>3 DEF GiveUp, base, at
    <2>2. Interrupted' = Interrupted /\ Writing' \subseteq Writing
      BY <2>1 DEF Interrupted, Writing, IInv, WriterType
    <2>3. QED
      BY <1>1, <2>1, <2>2
  <1>4. CASE StartLoad \/ LoadSeat \/ LoadGroup \/ UNCHANGED vars
    BY <1>1, <1>4 DEF StartLoad, LoadSeat, LoadGroup, vars, base, at, Interrupted, Writing
  <1>5. ASSUME NEW g \in Keygens, StartKeygen(g) \/ Replace(g) \/ Sync(g) PROVE WholeInv'
    BY <1>5, StartKeepsWhole, ReplaceKeepsWhole, SyncKeepsWhole
  <1>6. CASE Crash
    BY <1>6, CrashKeepsWhole
  <1>7. QED
    BY <1>2, <1>3, <1>4, <1>5, <1>6 DEF Next

LEMMA InitWhole == Init => WholeInv
  <1> SUFFICES ASSUME Init PROVE WholeInv
    OBVIOUS
  <1>1. Nothing \in Contents
    BY SizesAssumption DEF Nothing, Contents
  <1>2. \A f \in Files : disk[f] = {Nothing}
    BY DEF Init, FilesInit
  <1>3. \A i \in Seats : Whole(i)
    BY <1>1, <1>2, RootFiles DEF Whole
  <1>4. Writing = {}
    BY DEF Init, Writing
  <1>5. QED
    BY <1>3, <1>4 DEF WholeInv

\* Every torn root has a run of its own that has not finished.
LEMMA TornAreInterrupted ==
    ASSUME IInv, WholeInv
    PROVE  Cardinality(Torn) <= Cardinality(Interrupted)
  <1>1. ASSUME NEW i \in Torn PROVE \E g \in Interrupted : seat[g] = i
    <2> SUFFICES ASSUME \A g \in Interrupted : seat[g] # i PROVE FALSE
      OBVIOUS
    <2>1. i \in Seats /\ Cardinality({seen[<<i, k>>] : k \in Kinds}) > 1
      BY Zenon DEF Torn, Roots
    <2>2. PICK c \in Contents : \A k \in Kinds : disk[<<i, k>>] = {c}
      BY <2>1 DEF WholeInv, Whole
    <2>3. \A k \in Kinds : seen[<<i, k>>] = c
      BY <2>1, <2>2, RootFiles DEF IInv, DiskInv
    <2>4. {seen[<<i, k>>] : k \in Kinds} = {c}
      BY <2>3 DEF Kinds
    <2>5. Cardinality({c}) = 1
      BY FS_Singleton
    <2>6. Cardinality({seen[<<i, k>>] : k \in Kinds}) = 1
      BY <2>4, <2>5, Zenon
    <2> DEFINE size == Cardinality({seen[<<i, k>>] : k \in Kinds})
    <2>7. size > 1 /\ size = 1
      BY <2>1, <2>6, Zenon
    <2> HIDE DEF size
    <2>8. QED
      BY <2>7
  <1> DEFINE run == [i \in Torn |-> CHOOSE g \in Interrupted : seat[g] = i]
  <1>2. \A i \in Torn : run[i] \in Interrupted /\ seat[run[i]] = i
    BY <1>1
  <1>3. run \in [Torn -> Interrupted]
    BY <1>2
  <1> HIDE DEF run
  <1>4. run \in Injection(Torn, Interrupted)
    BY <1>2, <1>3 DEF Injection, IsInjective
  <1>5. IsFiniteSet(Interrupted)
    <2>1. IsFiniteSet(Keygens)
      BY SizesAssumption, FS_Interval DEF Keygens
    <2>2. Interrupted \subseteq Keygens
      BY DEF Interrupted
    <2>3. QED
      BY <2>1, <2>2, FS_Subset
  <1>6. QED
    BY <1>4, <1>5, FS_Injection

\* Keygens that do not overlap leave at most one torn root for each of them that
\* failed or was killed, whatever crashes (persist_dkg_shares goes from seat to
\* seat, put_share from file to file).
THEOREM OneTornPerRun ==
    MkdirDurable /\ ~Overlap => (Spec => []OneTornRootPerInterruptedRun)
  <1> SUFFICES ASSUME MkdirDurable, ~Overlap PROVE Spec => []OneTornRootPerInterruptedRun
    OBVIOUS
  <1>1. IInv /\ WholeInv => OneTornRootPerInterruptedRun
    BY TornAreInterrupted DEF OneTornRootPerInterruptedRun, Interrupted
  <1>2. Init => IInv /\ OwnerInv /\ WholeInv
    BY InitIndex, InitReader, InitWhole
  <1>3. IInv /\ OwnerInv /\ WholeInv /\ [Next]_vars => IInv' /\ OwnerInv' /\ WholeInv'
    BY NextIndex, NextOwner, NextWhole
  <1>4. QED
    BY <1>1, <1>2, <1>3, PTL DEF Spec
-----------------------------------------------------------------------------
(* The store base implements KeyBase. *)

\* What a crash may leave in a file was written by a keygen that has begun.
BegunInv == \A f \in Files : disk[f] \subseteq Begun \union {Nothing}

\* A load that goes on has selected T roots, and found shares of such keygens.
LoadInv ==
    reader.state = "loading" =>
        /\ Cardinality(reader.selected) = T
        /\ \A i \in reader.selected : reader.taken[i] \in Begun \union {Nothing}

\* Of T roots or more, load_persisted_shares takes T: the number of roots before
\* a root tells it apart from the others, and goes through all numbers.
LEMMA FirstOfSize ==
    ASSUME NEW S \in SUBSET Seats, ~(Cardinality(S) < T)
    PROVE  Cardinality(FirstOf(S)) = T
  <1> DEFINE before(i) == {j \in S : j < i}
             size(i) == Cardinality(before(i))
             upTo(i) == Cardinality(before(i) \union {i})
             rank == [i \in S |-> size(i)]
             n == Cardinality(S)
             first == {i \in S : size(i) < T}
             place == [i \in first |-> size(i)]
  <1>1. IsFiniteSet(S) /\ \A i \in S : i \in Nat
    <2>1. IsFiniteSet(Seats) /\ \A i \in Seats : i \in Nat
      BY SizesAssumption, FS_Interval DEF Seats
    <2>2. IsFiniteSet(S)
      BY <2>1, FS_Subset
    <2>3. QED
      BY <2>1, <2>2
  <1>2. T \in Nat /\ T >= 1 /\ n \in Nat /\ T <= n
    <2>1. n \in Nat
      BY <1>1, FS_CardinalityType
    <2>2. T \in Nat /\ T >= 1 /\ ~(n < T)
      BY SizesAssumption
    <2> HIDE DEF n
    <2>3. QED
      BY <2>1, <2>2
  <1>3. ASSUME NEW i \in S
        PROVE  IsFiniteSet(before(i)) /\ size(i) \in Nat /\ upTo(i) = size(i) + 1
    <2>1. before(i) \in SUBSET S
      OBVIOUS
    <2>2. IsFiniteSet(before(i))
      BY <1>1, <2>1, FS_Subset
    <2>3. i \notin before(i)
      BY <1>1
    <2>4. QED
      BY <2>2, <2>3, FS_CardinalityType, FS_AddElement
  <1>4. ASSUME NEW i \in S, NEW k \in S, i < k PROVE upTo(i) <= size(k)
    <2>1. \A j \in S : j < i => j < k
      BY <1>1, <1>4
    <2>2. before(i) \union {i} \in SUBSET before(k)
      BY <1>4, <2>1
    <2>3. QED
      BY <1>3, <2>2, FS_Subset
  <1>5. ASSUME NEW i \in S PROVE upTo(i) <= n
    <2>1. before(i) \union {i} \in SUBSET S
      OBVIOUS
    <2>2. QED
      BY <1>1, <2>1, FS_Subset
  <1>6. FirstOf(S) = first
    BY DEF FirstOf
  <1> HIDE DEF before, size, upTo, n
  <1>6a. \A i \in S : size(i) \in Nat /\ size(i) + 1 <= n
    BY <1>3, <1>5
  <1>7. \A i, k \in S : size(i) = size(k) => i = k
    <2> SUFFICES ASSUME NEW i \in S, NEW k \in S, size(i) = size(k) PROVE i = k
      OBVIOUS
    <2>1. i < k \/ k < i \/ i = k
      BY <1>1
    <2>2. ~(i < k)
      <3>1. i < k => size(i) + 1 <= size(k)
        BY <1>3, <1>4
      <3>2. QED
        BY <1>6a, <3>1
    <2>3. ~(k < i)
      <3>1. k < i => size(k) + 1 <= size(i)
        BY <1>3, <1>4
      <3>2. QED
        BY <1>6a, <3>1
    <2>4. QED
      BY <2>1, <2>2, <2>3
  <1>8. \A v \in 0 .. n - 1 : \E i \in S : size(i) = v
    <2>1. \A i \in S : size(i) \in 0 .. n - 1
      BY <1>6a, <1>2
    <2>2. rank \in Injection(S, 0 .. n - 1)
      BY <1>7, <2>1 DEF Injection, IsInjective
    <2>3. IsFiniteSet(0 .. n - 1) /\ Cardinality(0 .. n - 1) = n
      BY <1>2, FS_Interval
    <2>4. Cardinality(S) = Cardinality(0 .. n - 1)
      BY <2>3 DEF n
    <2>5. rank \in Surjection(S, 0 .. n - 1)
      BY <2>2, <2>3, <2>4, FS_Injection
    <2>6. QED
      BY <2>5 DEF Surjection
  <1>9. place \in [first -> 0 .. T - 1]
    BY <1>6a, <1>2
  <1>10. place \in Injection(first, 0 .. T - 1)
    BY <1>7, <1>9 DEF Injection, IsInjective
  <1>11. ASSUME NEW v \in 0 .. T - 1 PROVE \E i \in first : place[i] = v
    <2>1. v \in 0 .. n - 1 /\ v < T
      BY <1>2
    <2>2. PICK i \in S : size(i) = v
      BY <1>8, <2>1
    <2>3. i \in first /\ place[i] = v
      BY <2>1, <2>2
    <2>4. QED
      BY <2>3
  <1>12. place \in Surjection(first, 0 .. T - 1)
    BY <1>9, <1>11 DEF Surjection
  <1>13. IsFiniteSet(0 .. T - 1) /\ Cardinality(0 .. T - 1) = T
    BY <1>2, FS_Interval
  <1>14. Cardinality(first) = T
    BY <1>10, <1>12, <1>13, FS_Injection
  <1>15. QED
    BY <1>6, <1>14

LEMMA InitBase == Init => Base!BaseInit /\ BegunInv /\ LoadInv
  <1> SUFFICES ASSUME Init PROVE Base!BaseInit /\ BegunInv /\ LoadInv
    OBVIOUS
  <1>1. Begun = {} /\ Writing = {} /\ Finished = {}
    BY DEF Init, Begun, Writing, Finished
  <1>2. reader.state = "idle" /\ LoadResult = Base!NoLoad
    BY DEF Init, Idle, LoadResult, Base!NoLoad, Nothing
  <1>3. BegunInv
    BY DEF Init, FilesInit, BegunInv
  <1>4. QED
    BY <1>1, <1>2, <1>3 DEF Init, Base!BaseInit, LoadInv, Nothing

\* The writers' steps and the crash leave what the loads have found so far, and
\* write nothing but the content of a keygen that has begun.
LEMMA NextBegun ==
    ASSUME IInv, MkdirDurable, BegunInv, [Next]_vars
    PROVE  BegunInv' /\ Begun \subseteq Begun'
  <1>1. ASSUME NEW g \in Keygens, StartKeygen(g) PROVE BegunInv' /\ Begun \subseteq Begun'
    <2>1. stage' = [stage EXCEPT ![g] = "writing"] /\ disk' = disk
      BY <1>1 DEF StartKeygen, base
    <2>2. Begun \subseteq Begun'
      BY <2>1 DEF Begun, IInv, WriterType
    <2>3. QED
      BY <2>1, <2>2 DEF BegunInv
  <1>2. ASSUME NEW g \in Keygens, Replace(g) PROVE BegunInv' /\ Begun \subseteq Begun'
    <2>1. /\ disk' = [disk EXCEPT ![Target(g)] = @ \union {g}]
          /\ stage' = stage /\ stage[g] = "writing"
      BY <1>2 DEF Replace, Rename
    <2>2. Begun' = Begun /\ g \in Begun
      BY <2>1 DEF Begun
    <2>3. \A f \in Files : disk'[f] \subseteq disk[f] \union {g}
      BY <2>1 DEF IInv, WriterType
    <2>4. QED
      BY <2>2, <2>3 DEF BegunInv
  <1>3. ASSUME NEW g \in Keygens, Sync(g) PROVE BegunInv' /\ Begun \subseteq Begun'
    <2>1. \A f \in Files : disk'[f] \subseteq disk[f]
      BY <1>3, SyncBase DEF IInv, DiskInv
    <2>2. \A h \in Keygens : stage[h] # "new" => stage'[h] # "new"
      BY <1>3, SyncMoves
    <2>3. Begun \subseteq Begun'
      BY <2>2 DEF Begun
    <2>4. QED
      BY <2>1, <2>3 DEF BegunInv
  <1>4. CASE Crash
    <2>1. /\ PowerLoss
          /\ stage' = [g \in Keygens |-> IF g \in Writing THEN "failed" ELSE stage[g]]
      BY <1>4 DEF Crash
    <2>2. Begun \subseteq Begun'
      BY <2>1 DEF Begun
    <2>3. \A f \in Files : disk'[f] \subseteq disk[f] \union {Nothing}
      BY <2>1, PowerLossBase
    <2>4. QED
      BY <2>2, <2>3 DEF BegunInv
  <1>5. ASSUME NEW g \in Keygens, MakeDir(g) \/ GiveUp(g) PROVE BegunInv' /\ Begun \subseteq Begun'
    <2>1. /\ disk' = disk
          /\ stage' = stage \/ stage' = [stage EXCEPT ![g] = "failed"]
      BY <1>5 DEF MakeDir, GiveUp, CreateDirSecure, base
    <2>2. Begun \subseteq Begun'
      BY <2>1 DEF Begun, IInv, WriterType
    <2>3. QED
      BY <2>1, <2>2 DEF BegunInv
  <1>6. CASE StartLoad \/ LoadSeat \/ LoadGroup \/ UNCHANGED vars
    <2>1. UNCHANGED <<disk, stage>>
      BY <1>6 DEF StartLoad, LoadSeat, LoadGroup, vars, base
    <2>2. QED
      BY <2>1 DEF BegunInv, Begun
  <1>7. QED
    BY <1>1, <1>2, <1>3, <1>4, <1>5, <1>6 DEF Next

\* A keygen's steps are those of KeyBase, or show nothing of themselves.
LEMMA StartKeygenBegins ==
    ASSUME IInv, NEW g \in Keygens, StartKeygen(g)
    PROVE  Base!Begin(g)
  <1>1. /\ stage[g] = "new" /\ stage' = [stage EXCEPT ![g] = "writing"]
        /\ owner' = IF Writing = {} THEN g ELSE 0
        /\ reader' = reader
    BY DEF StartKeygen
  <1>2. g \notin Begun /\ Begun' = Begun \union {g}
    BY <1>1 DEF Begun, IInv, WriterType
  <1>3. Writing' = Writing \union {g} /\ Finished' = Finished
    BY <1>1 DEF Writing, Finished, IInv, WriterType
  <1>4. LoadResult' = LoadResult
    BY <1>1 DEF LoadResult, SharesTaken
  <1>5. QED
    BY <1>1, <1>2, <1>3, <1>4 DEF Base!Begin, Nothing

LEMMA SyncFinishes ==
    ASSUME IInv, NEW g \in Keygens, Sync(g)
    PROVE  Base!Finish(g) \/ UNCHANGED Base!baseVars
  <1>1. /\ stage[g] = "writing" /\ owner' = owner
        /\ \A h \in Keygens \ {g} : stage'[h] = stage[h]
        /\ stage'[g] \in {"writing", "done"}
    BY SyncMoves
  <1>2. reader' = reader
    BY DEF Sync
  <1>3. Begun' = Begun
    BY <1>1 DEF Begun
  <1>4. LoadResult' = LoadResult
    BY <1>2 DEF LoadResult, SharesTaken
  <1>5. CASE stage'[g] = "writing"
    <2>1. Writing' = Writing /\ Finished' = Finished
      BY <1>1, <1>5 DEF Writing, Finished
    <2>2. QED
      BY <1>1, <1>3, <1>4, <2>1 DEF Base!baseVars
  <1>6. CASE stage'[g] = "done"
    <2>1. /\ g \in Writing /\ Writing' = Writing \ {g}
          /\ Finished' = Finished \union {g}
      BY <1>1, <1>6 DEF Writing, Finished
    <2>2. QED
      BY <1>1, <1>3, <1>4, <2>1 DEF Base!Finish
  <1>7. QED
    BY <1>1, <1>5, <1>6

LEMMA GiveUpStops ==
    ASSUME IInv, NEW g \in Keygens, GiveUp(g)
    PROVE  Base!Stop(g)
  <1>1. /\ stage[g] = "writing" /\ stage' = [stage EXCEPT ![g] = "failed"]
        /\ UNCHANGED <<owner, reader>>
    BY DEF GiveUp
  <1>2. Begun' = Begun /\ Finished' = Finished
    BY <1>1 DEF Begun, Finished, IInv, WriterType
  <1>3. g \in Writing /\ Writing' = Writing \ {g}
    BY <1>1 DEF Writing, IInv, WriterType
  <1>4. LoadResult' = LoadResult
    BY <1>1 DEF LoadResult, SharesTaken
  <1>5. QED
    BY <1>1, <1>2, <1>3, <1>4 DEF Base!Stop

LEMMA CrashGoesDown ==
    ASSUME Crash
    PROVE  Base!GoDown
  <1>1. /\ stage' = [g \in Keygens |-> IF g \in Writing THEN "failed" ELSE stage[g]]
        /\ reader' = Idle /\ owner' = owner
    BY DEF Crash
  <1>2. Begun' = Begun /\ Finished' = Finished /\ Writing' = {}
    BY <1>1 DEF Begun, Finished, Writing
  <1>3. LoadResult' = Base!NoLoad
    BY <1>1 DEF LoadResult, Idle, Base!NoLoad, Nothing
  <1>4. QED
    BY <1>1, <1>2, <1>3 DEF Base!GoDown

\* load_persisted_shares reads the base's directory: it cannot fail where a
\* keygen has finished alone, and selects T roots where it does not fail.
LEMMA StartLoadBegins ==
    ASSUME IInv, OwnerInv, StartLoad
    PROVE  Base!BeginLoad /\ LoadInv'
  <1> DEFINE few == Cardinality(Roots) < T
  <1>1. /\ reader.state # "loading"
        /\ reader' = [state    |-> IF few THEN "failed" ELSE "loading",
                      selected |-> IF few THEN {} ELSE FirstOf(Roots),
                      taken    |-> NoSeatTaken,
                      group    |-> Nothing,
                      began    |-> IF owner \in Finished THEN owner ELSE 0]
        /\ UNCHANGED <<stage, owner>>
    BY DEF StartLoad
  <1>2. Begun' = Begun /\ Writing' = Writing /\ Finished' = Finished
    BY <1>1 DEF Begun, Writing, Finished
  <1>3. Base!Holder = IF owner \in Finished THEN owner ELSE 0
    BY DEF Base!Holder, Nothing
  <1>4. LoadResult.state = reader.state
    BY DEF LoadResult
  <1>5. CASE few
    <2>1. owner \notin Finished
      BY <1>5, OwnerServes, FirstOfSeats
    <2>2. reader'.state = "failed" /\ reader'.began = 0 /\ reader'.group = Nothing
      BY <1>1, <1>5, <2>1
    <2>3. LoadResult' = [Base!NoLoad EXCEPT !.state = "failed"]
      BY <2>2 DEF LoadResult, Base!NoLoad, Nothing
    <2>4. LoadInv'
      BY <2>2 DEF LoadInv
    <2>5. QED
      BY <1>1, <1>2, <1>3, <1>4, <2>1, <2>3, <2>4 DEF Base!BeginLoad, Nothing
  <1>6. CASE ~few
    <2>1. /\ reader'.state = "loading" /\ reader'.began = Base!Holder
          /\ reader'.group = Nothing
          /\ reader'.selected = FirstOf(Roots) /\ reader'.taken = NoSeatTaken
      BY <1>1, <1>3, <1>6
    <2>2. LoadResult' = [state |-> "loading", from |-> Base!Holder, shares |-> <<>>,
                         group |-> Nothing]
      BY <2>1 DEF LoadResult
    <2>3. Roots \in SUBSET Seats
      BY DEF Roots
    <2>4. Cardinality(FirstOf(Roots)) = T /\ FirstOf(Roots) \subseteq Seats
      BY <1>6, <2>3, FirstOfSize DEF FirstOf
    <2>5. \A i \in FirstOf(Roots) : NoSeatTaken[i] = Nothing
      BY <2>4 DEF NoSeatTaken
    <2>6. LoadInv'
      BY <2>1, <2>4, <2>5 DEF LoadInv
    <2>7. QED
      BY <1>1, <1>2, <1>4, <2>2, <2>6 DEF Base!BeginLoad
  <1>7. QED
    BY <1>5, <1>6

\* A load fails only where its base has changed hands.
LEMMA FailsDisturbed ==
    ASSUME ReaderType, ReaderInv', reader.state = "loading",
           reader' = [reader EXCEPT !.state = "failed"],
           UNCHANGED <<stage, owner>>
    PROVE  Base!FailLoad
  <1>1. /\ reader'.state = "failed" /\ reader'.began = reader.began
        /\ reader'.group = reader.group
    BY DEF ReaderType
  <1>2. Begun' = Begun /\ Writing' = Writing /\ Finished' = Finished
    BY DEF Begun, Writing, Finished
  <1>3. ~(reader.began # 0 /\ reader.began = owner)
    BY <1>1 DEF ReaderInv, FindsOwner
  <1>4. LoadResult = [state |-> "loading", from |-> reader.began, shares |-> <<>>,
                      group |-> reader.group]
    BY DEF LoadResult
  <1>5. LoadResult' = [state |-> "failed", from |-> reader.began, shares |-> <<>>,
                       group |-> reader.group]
    BY <1>1 DEF LoadResult
  <1>6. ~Base!Undisturbed
    BY <1>3, <1>4 DEF Base!Undisturbed, Nothing
  <1>7. LoadResult.state = "loading" /\ LoadResult' = [LoadResult EXCEPT !.state = "failed"]
    BY <1>4, <1>5
  <1>8. QED
    BY <1>2, <1>6, <1>7 DEF Base!FailLoad

\* load_only_active of a seat adds a share of a keygen that has begun to what has
\* been loaded, which KeyBase does not show.
LEMMA LoadSeatGoesOn ==
    ASSUME IInv, ReaderType, ReaderInv', BegunInv, LoadInv, LoadSeat
    PROVE  (Base!FailLoad \/ UNCHANGED Base!baseVars) /\ LoadInv'
  <1> DEFINE i == Least(Untaken)
             share == seen[<<i, "share">>]
             manifest == seen[<<i, "manifest">>]
  <1>1. /\ reader.state = "loading" /\ Untaken # {}
        /\ reader' = IF Nothing \in {manifest, share}
                       THEN [reader EXCEPT !.state = "failed"]
                       ELSE [reader EXCEPT !.taken[i] = share]
        /\ UNCHANGED <<stage, owner>>
    BY DEF LoadSeat
  <1>2. Untaken \in SUBSET Seats
    BY DEF Untaken, ReaderType
  <1>3. i \in Seats
    BY <1>1, <1>2, LeastType
  <1>4. share \in Begun \union {Nothing}
    BY <1>3, FileType DEF IInv, DiskInv, BegunInv
  <1>5. Begun' = Begun /\ Writing' = Writing /\ Finished' = Finished
    BY <1>1 DEF Begun, Writing, Finished
  <1> HIDE DEF i, share, manifest
  <1>6. CASE Nothing \in {manifest, share}
    <2>1. reader' = [reader EXCEPT !.state = "failed"]
      BY <1>1, <1>6
    <2>2. reader'.state = "failed"
      BY <2>1 DEF ReaderType
    <2>3. QED
      BY <1>1, <2>1, <2>2, FailsDisturbed DEF LoadInv
  <1>7. CASE ~(Nothing \in {manifest, share})
    <2>1. reader' = [reader EXCEPT !.taken = [reader.taken EXCEPT ![i] = share]]
      BY <1>1, <1>7
    <2>2. /\ reader'.state = "loading" /\ reader'.selected = reader.selected
          /\ reader'.taken = [reader.taken EXCEPT ![i] = share]
          /\ reader'.began = reader.began /\ reader'.group = reader.group
      BY <1>1, <2>1 DEF ReaderType
    <2>3. reader.taken \in [Seats -> Contents] /\ reader.selected \subseteq Seats
      BY DEF ReaderType
    <2>4. \A j \in reader.selected : reader'.taken[j] \in Begun \union {Nothing}
      BY <1>1, <1>4, <2>2, <2>3 DEF LoadInv
    <2>5. LoadInv'
      BY <1>1, <1>5, <2>2, <2>4 DEF LoadInv
    <2>6. LoadResult' = LoadResult
      BY <1>1, <2>2 DEF LoadResult
    <2>7. QED
      BY <1>1, <1>5, <2>5, <2>6 DEF Base!baseVars
  <1>8. QED
    BY <1>6, <1>7

\* Reading the group's package ends the load, with a quorum of shares.
LEMMA LoadGroupEnds ==
    ASSUME IInv, ReaderType, ReaderInv', BegunInv, LoadInv, LoadGroup
    PROVE  (Base!FailLoad \/ Base!EndLoad) /\ LoadInv'
  <1> DEFINE group == seen[<<Least(reader.selected), "pubkey">>]
  <1>1. /\ reader.state = "loading" /\ Untaken = {}
        /\ reader' = IF group = Nothing
                       THEN [reader EXCEPT !.state = "failed"]
                       ELSE [reader EXCEPT !.state = "loaded", !.group = group]
        /\ UNCHANGED <<stage, owner>>
    BY DEF LoadGroup
  <1>2. reader.selected \in SUBSET Seats /\ reader.selected # {}
    BY <1>1 DEF ReaderType
  <1>3. group \in Begun \union {Nothing}
    BY <1>2, LeastType, FileType DEF IInv, DiskInv, BegunInv
  <1>4. Begun' = Begun /\ Writing' = Writing /\ Finished' = Finished
    BY <1>1 DEF Begun, Writing, Finished
  <1> HIDE DEF group
  <1>5. CASE group = Nothing
    <2>1. reader' = [reader EXCEPT !.state = "failed"]
      BY <1>1, <1>5
    <2>2. reader'.state = "failed"
      BY <2>1 DEF ReaderType
    <2>3. QED
      BY <1>1, <2>1, <2>2, FailsDisturbed DEF LoadInv
  <1>6. CASE group # Nothing
    <2>1. reader' = [reader EXCEPT !.state = "loaded", !.group = group]
      BY <1>1, <1>6
    <2>2. /\ reader'.state = "loaded" /\ reader'.group = group
          /\ reader'.selected = reader.selected /\ reader'.taken = reader.taken
          /\ reader'.began = reader.began
      BY <2>1 DEF ReaderType
    <2>3. SharesTaken' = SharesTaken
      BY <2>2 DEF SharesTaken
    <2>4. LoadResult = [state |-> "loading", from |-> reader.began, shares |-> <<>>,
                        group |-> reader.group]
      BY <1>1 DEF LoadResult
    <2>5. LoadResult' = [state |-> "loaded", from |-> reader.began, shares |-> SharesTaken,
                         group |-> group]
      BY <2>2, <2>3 DEF LoadResult
    <2>6. \A i \in reader.selected : reader.taken[i] \in Begun
      BY <1>1 DEF LoadInv, Untaken
    <2>7. SharesTaken \in [reader.selected -> Begun]
      BY <2>6 DEF SharesTaken
    <2>8. \E quorum \in {S \in SUBSET Seats : Cardinality(S) = T} : SharesTaken \in [quorum -> Begun]
      BY <1>1, <1>2, <2>7 DEF LoadInv
    <2>9. group \in Begun
      BY <1>3, <1>6
    <2>10. ASSUME Base!Undisturbed
           PROVE  group = owner /\ \A i \in reader.selected : SharesTaken[i] = owner
      <3>1. owner' = owner
        BY <1>1
      <3>2. reader'.began # 0 /\ reader'.began = owner'
        BY <2>2, <2>4, <2>10, <3>1 DEF Base!Undisturbed, Nothing
      <3>3. FindsOwner'
        BY <3>2 DEF ReaderInv
      <3>4. /\ reader'.group = owner
            /\ \A i \in reader'.selected : reader'.taken[i] = owner
        BY <2>2, <3>1, <3>3 DEF FindsOwner
      <3>5. QED
        BY <2>2, <3>4 DEF SharesTaken
    <2>11. LoadResult.state = "loading" /\ LoadResult.from = reader.began
      BY <2>4
    <2>12. LoadResult'.shares = SharesTaken /\ LoadResult'.group = group
      BY <2>5
    <2>13. Base!EndLoad
      BY <1>1, <1>4, <2>5, <2>7, <2>8, <2>9, <2>10, <2>11, <2>12 DEF Base!EndLoad
    <2>14. QED
      BY <2>2, <2>13 DEF LoadInv
  <1>7. QED
    BY <1>5, <1>6

\* Every step of the files is a step of KeyBase or shows nothing of itself.
LEMMA NextBase ==
    MkdirDurable /\ IInv /\ OwnerInv /\ ReaderType /\ ReaderInv /\ BegunInv /\ LoadInv
      /\ ReaderInv' /\ [Next]_vars
        => [Base!BaseNext]_(Base!baseVars) /\ BegunInv' /\ LoadInv'
  <1> SUFFICES ASSUME MkdirDurable, IInv, OwnerInv, ReaderType, ReaderInv, BegunInv, LoadInv,
                      ReaderInv', [Next]_vars
               PROVE  [Base!BaseNext]_(Base!baseVars) /\ LoadInv'
    BY NextBegun
  <1>1. UNCHANGED reader => LoadInv'
    BY NextBegun DEF LoadInv
  <1>2. ASSUME NEW g \in Keygens, StartKeygen(g)
        PROVE  [Base!BaseNext]_(Base!baseVars) /\ LoadInv'
    BY <1>1, <1>2, StartKeygenBegins DEF StartKeygen, Base!BaseNext
  <1>3. ASSUME NEW g \in Keygens, Sync(g)
        PROVE  [Base!BaseNext]_(Base!baseVars) /\ LoadInv'
    BY <1>1, <1>3, SyncFinishes DEF Sync, Base!BaseNext
  <1>4. ASSUME NEW g \in Keygens, GiveUp(g)
        PROVE  [Base!BaseNext]_(Base!baseVars) /\ LoadInv'
    BY <1>1, <1>4, GiveUpStops DEF GiveUp, Base!BaseNext
  <1>5. ASSUME UNCHANGED <<stage, owner, reader>>
        PROVE  [Base!BaseNext]_(Base!baseVars) /\ LoadInv'
    <2>1. Begun' = Begun /\ Writing' = Writing /\ Finished' = Finished
      BY <1>5 DEF Begun, Writing, Finished
    <2>2. LoadResult' = LoadResult
      BY <1>5 DEF LoadResult, SharesTaken
    <2>3. QED
      BY <1>1, <1>5, <2>1, <2>2 DEF Base!baseVars
  <1>6. ASSUME NEW g \in Keygens, MakeDir(g) \/ Replace(g)
        PROVE  [Base!BaseNext]_(Base!baseVars) /\ LoadInv'
    BY <1>5, <1>6 DEF MakeDir, Replace
  <1>7. CASE Crash
    <2>1. reader' = Idle
      BY <1>7 DEF Crash
    <2>2. QED
      BY <1>7, <2>1, CrashGoesDown DEF Idle, LoadInv, Base!BaseNext
  <1>8. CASE UNCHANGED vars
    BY <1>5, <1>8 DEF vars
  <1>9. CASE StartLoad \/ LoadSeat \/ LoadGroup
    BY <1>9, StartLoadBegins, LoadSeatGoesOn, LoadGroupEnds DEF Base!BaseNext
  <1>10. QED
    BY <1>2, <1>3, <1>4, <1>6, <1>7, <1>8, <1>9 DEF Next

\* What a store base promises: a keygen that ran alone and finished holds it, for
\* every load from then until the next keygen begins, whatever earlier runs left
\* in the roots and whatever crashes (persist_dkg_shares, put_share,
\* load_persisted_shares).
THEOREM KeepsBase == MkdirDurable => (Spec => ImplementsBase)
  <1> SUFFICES ASSUME MkdirDurable PROVE Spec => ImplementsBase
    OBVIOUS
  <1>1. IInv /\ OwnerInv /\ ReaderType /\ ReaderInv /\ [Next]_vars
          => IInv' /\ OwnerInv' /\ ReaderType' /\ ReaderInv'
    BY NextIndex, NextOwner, NextReader
  <1>2. IInv /\ OwnerInv /\ ReaderType /\ ReaderInv /\ BegunInv /\ LoadInv /\ ReaderInv' /\ [Next]_vars
          => [Base!BaseNext]_(Base!baseVars) /\ BegunInv' /\ LoadInv'
    BY NextBase
  <1>3. QED
    BY <1>1, <1>2, InitIndex, InitReader, InitBase, PTL DEF Spec, ImplementsBase, Base!BaseSpec
=============================================================================
