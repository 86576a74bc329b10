----------------------- MODULE CheckpointStore_proofs -----------------------
(***************************************************************************)
(* Machine-checked proofs about CheckpointStore, for every number of          *)
(* processes, ceremonies, seats, puts and power losses: what a put stores is  *)
(* kept, a call fails only where another one meets it, and what is wiped is   *)
(* gone.                                                                     *)
(***************************************************************************)
EXTENDS CheckpointStore, TLAPS

\* What is on disk and what is to be seen.
FileShape ==
    /\ seen \in [Files -> Contents]
    /\ disk \in [Files -> SUBSET Contents]
    /\ \A f \in Files : seen[f] \in disk[f]
    /\ made \subseteq Dirs /\ settled \subseteq Dirs
    /\ \A f \in Files : seen[f] # Nothing => Home[f] \in made
    /\ \A d \in made : Above[d] \subseteq made

\* Where every process is with its call.
CallShape ==
    /\ call \in [Procs -> {"idle", "mkdir", "temp", "rename", "sync", "wipe"}]
    /\ path \in [Procs -> {<<>>} \union CeremonyDirs \union Files]
    /\ \A p \in Procs :
          \/ call[p] = "idle" /\ path[p] = <<>>
          \/ call[p] = "wipe" /\ path[p] \in CeremonyDirs
          \/ call[p] \notin {"idle", "wipe"} /\ path[p] \in Files
    /\ content \in [Procs -> Contents]
    /\ \A p \in Procs : call[p] \notin {"idle", "wipe"} => content[p] # Nothing
    /\ temp \in [Procs -> BOOLEAN]
    /\ \A p \in Procs : temp[p] => call[p] = "rename" /\ Dir(p) \in made
    /\ fresh \in [Procs -> BOOLEAN]
    /\ \A p \in Procs : call[p] = "idle" => ~fresh[p]
    /\ alone \in [Procs -> BOOLEAN]
    /\ result \in [Procs -> {"none", "ok", "error", "failed"}]

CountShape ==
    /\ puts \in Contents
    /\ promise \in [Files -> SUBSET (Contents \ {Nothing})]
    /\ gone \subseteq Ceremonies
    /\ crashes \in 0 .. MaxCrashes

\* Two calls that meet know it.
MeetInv ==
    \A p, q \in Procs :
        p # q /\ call[p] # "idle" /\ call[q] # "idle" /\ Meet(path[p], path[q]) => ~alone[p]

\* Nobody has touched what a call that is alone has made so far.
AloneInv ==
    \A p \in Procs : alone[p] =>
        /\ result[p] # "error"
        /\ ~fresh[p]
        /\ call[p] \in {"temp", "rename", "sync"} => Dir(p) \in made
        /\ call[p] = "rename" => temp[p]
        /\ call[p] = "sync" => seen[path[p]] = content[p]

\* Nobody works in a ceremony that is gone, and nothing is left there.
GoneInv ==
    \A c \in gone :
        /\ \A p \in Procs : call[p] # "idle" => path[p][1] # c
        /\ \A d \in made : d[1] # c
        /\ \A f \in Files : f[1] = c => seen[f] = Nothing

\* A promise holds for every content that a crash may leave; its directories
\* stay; who puts the file again is provided for; and nobody wipes it.
PromiseInv ==
    /\ \A f \in Files : promise[f] # {} =>
          /\ disk[f] \subseteq promise[f]
          /\ Above[Home[f]] \subseteq made
          /\ Above[Home[f]] \subseteq settled
    /\ \A p \in Procs :
          call[p] \notin {"idle", "wipe"} /\ promise[path[p]] # {} =>
              content[p] \in promise[path[p]]
    /\ \A p \in Procs, f \in Files :
          call[p] = "wipe" /\ f[1] = path[p][1] => promise[f] = {}

Shape == FileShape /\ CallShape /\ CountShape

IInv == Shape /\ MeetInv /\ AloneInv /\ GoneInv /\ PromiseInv

-----------------------------------------------------------------------------
(* Paths *)

LEMMA FilePath ==
    ASSUME NEW f \in Files
    PROVE  /\ f[1] \in Ceremonies
           /\ Home[f] \in SeatDirs /\ Home[f] \in Dirs /\ Home[f][1] = f[1]
           /\ Above[Home[f]] = {Home[f], <<f[1]>>}
  <1>1. f[1] \in Ceremonies /\ f[2] \in Seats
    BY DEF Files
  <1>2. Home[f] = <<f[1], f[2]>>
    BY DEF Home
  <1>3. Home[f] \in SeatDirs /\ Home[f][1] = f[1]
    BY <1>1, <1>2 DEF SeatDirs
  <1>4. Home[f] \in Dirs
    BY <1>3 DEF Dirs
  <1>5. Above[Home[f]] = {Home[f], <<f[1]>>}
    BY <1>3, <1>4 DEF Above
  <1>6. QED
    BY <1>1, <1>3, <1>4, <1>5

LEMMA DirPath ==
    ASSUME NEW d \in Dirs
    PROVE  /\ d[1] \in Ceremonies
           /\ <<d[1]>> \in Dirs /\ <<d[1]>> \in CeremonyDirs
           /\ Above[d] = {d, <<d[1]>>}
  <1>1. d[1] \in Ceremonies
    <2>1. CASE d \in CeremonyDirs
      BY <2>1 DEF CeremonyDirs
    <2>2. CASE d \in SeatDirs
      BY <2>2 DEF SeatDirs
    <2>3. QED
      BY <2>1, <2>2 DEF Dirs
  <1>2. <<d[1]>> \in CeremonyDirs
    BY <1>1 DEF CeremonyDirs
  <1>3. <<d[1]>> \in Dirs
    BY <1>2 DEF Dirs
  <1>4. Above[d] = {d, <<d[1]>>}
    BY DEF Above
  <1>5. QED
    BY <1>1, <1>2, <1>3, <1>4

LEMMA CeremonyPath ==
    ASSUME NEW d \in CeremonyDirs
    PROVE  d \in Dirs /\ d[1] \in Ceremonies /\ d = <<d[1]>> /\ Len(d) = 1 /\ Above[d] = {d}
  <1>1. PICK c \in Ceremonies : d = <<c>>
    BY DEF CeremonyDirs
  <1>2. d[1] = c /\ Len(d) = 1
    BY <1>1
  <1>3. d \in Dirs
    BY DEF Dirs
  <1>4. QED
    BY <1>1, <1>2, <1>3, DirPath

LEMMA AbovePath ==
    ASSUME NEW d \in Dirs, NEW e \in Above[d]
    PROVE  e \in Dirs /\ e[1] = d[1] /\ Above[e] \subseteq Above[d] /\ d \in Above[d]
  <1>1. e = d \/ e = <<d[1]>>
    BY DirPath
  <1>2. <<d[1]>> \in CeremonyDirs /\ <<d[1]>>[1] = d[1]
    BY DirPath
  <1>3. QED
    BY <1>1, <1>2, DirPath, CeremonyPath

\* The path a process works on lies in a ceremony.
LEMMA ProcPath ==
    ASSUME CallShape, NEW p \in Procs, call[p] # "idle"
    PROVE  /\ path[p][1] \in Ceremonies
           /\ call[p] = "wipe" => /\ path[p] \in CeremonyDirs /\ path[p] \in Dirs
                                  /\ path[p] = <<path[p][1]>> /\ Len(path[p]) = 1
           /\ call[p] # "wipe" => /\ path[p] \in Files /\ Dir(p) \in Dirs
                                  /\ Dir(p)[1] = path[p][1]
                                  /\ Above[Dir(p)] = {Dir(p), <<path[p][1]>>}
  <1>1. CASE call[p] = "wipe"
    <2>1. path[p] \in CeremonyDirs
      BY <1>1 DEF CallShape
    <2>2. QED
      BY <1>1, <2>1, CeremonyPath
  <1>2. CASE call[p] # "wipe"
    <2>1. path[p] \in Files
      BY <1>2 DEF CallShape
    <2>2. QED
      BY <1>2, <2>1, FilePath DEF Dir
  <1>3. QED
    BY <1>1, <1>2

\* A wipe meets every call in its tree.
LEMMA WipeMeets ==
    ASSUME CallShape, MeetInv, NEW p \in Procs, NEW q \in Procs, p # q,
           call[p] # "idle", call[q] = "wipe", path[p][1] = path[q][1]
    PROVE  ~alone[p] /\ ~alone[q]
  <1>1. Len(path[q]) = 1
    BY ProcPath
  <1>2. Meet(path[p], path[q]) /\ Meet(path[q], path[p])
    BY <1>1 DEF Meet
  <1>3. QED
    BY <1>2 DEF MeetInv

LEMMA InitInv == Init => IInv
  <1> SUFFICES ASSUME Init PROVE IInv
    OBVIOUS
  <1>1. 0 \in Contents /\ 0 \in 0 .. MaxCrashes
    BY CheckpointAssumption DEF Contents
  <1>2. FileShape
    BY <1>1 DEF Init, FilesInit, FileShape, Nothing
  <1>3. CallShape
    BY <1>1 DEF Init, CallShape, Nothing
  <1>4. CountShape
    BY <1>1 DEF Init, CountShape
  <1>5. MeetInv /\ AloneInv /\ GoneInv /\ PromiseInv
    BY DEF Init, MeetInv, AloneInv, GoneInv, PromiseInv
  <1>6. QED
    BY <1>2, <1>3, <1>4, <1>5 DEF IInv, Shape
-----------------------------------------------------------------------------
(* How a call begins, goes on and ends, whatever it does to the files *)

LEMMA EnterStep ==
    ASSUME IInv, NEW p \in Procs, NEW label, NEW x, Enter(p, label, x),
           \/ label = "mkdir" /\ x \in Files
           \/ label = "wipe" /\ x \in CeremonyDirs,
           content' \in [Procs -> Contents],
           label = "mkdir" => content'[p] # Nothing,
           \A q \in Procs \ {p} : content'[q] = content[q],
           puts' \in Contents,
           promise' \in [Files -> SUBSET (Contents \ {Nothing})],
           gone' \subseteq gone
    PROVE  Shape' /\ MeetInv' /\ AloneInv'
  <1>1. /\ call[p] = "idle" /\ call'[p] = label /\ path'[p] = x /\ result'[p] = "none"
        /\ \A q \in Procs \ {p} : /\ call'[q] = call[q] /\ path'[q] = path[q]
                                  /\ result'[q] = result[q]
        /\ call' \in [Procs -> {"idle", "mkdir", "temp", "rename", "sync", "wipe"}]
        /\ path' \in [Procs -> {<<>>} \union CeremonyDirs \union Files]
        /\ result' \in [Procs -> {"none", "ok", "error", "failed"}]
        /\ UNCHANGED <<seen, disk, made, settled, temp, fresh, crashes>>
    BY DEF Enter, Goto, IInv, Shape, CallShape, files
  <1>2. alone' = [q \in Procs |-> IF q = p THEN Busy(x) = {}
                                  ELSE alone[q] /\ q \notin Busy(x)]
    BY DEF Enter
  <1>3. alone' \in [Procs -> BOOLEAN]
    BY <1>2, Zenon
  <1>4. alone'[p] => Busy(x) = {}
    BY <1>2, Zenon
  <1>5. \A q \in Procs \ {p} : alone'[q] => alone[q] /\ q \notin Busy(x)
    BY <1>2, Zenon
  <1>6. ~temp[p] /\ ~fresh[p]
    BY <1>1 DEF IInv, Shape, CallShape
  <1>7. CallShape'
    <2>1. ASSUME NEW q \in Procs
          PROVE  /\ \/ call'[q] = "idle" /\ path'[q] = <<>>
                    \/ call'[q] = "wipe" /\ path'[q] \in CeremonyDirs
                    \/ call'[q] \notin {"idle", "wipe"} /\ path'[q] \in Files
                 /\ call'[q] \notin {"idle", "wipe"} => content'[q] # Nothing
      <3>1. CASE q = p
        BY <1>1, <3>1
      <3>2. CASE q # p
        BY <1>1, <3>2 DEF IInv, Shape, CallShape
      <3>3. QED
        BY <3>1, <3>2
    <2>2. ASSUME NEW q \in Procs, temp'[q]
          PROVE  call'[q] = "rename" /\ Dir(q)' \in made'
      <3>1. q # p /\ temp[q]
        BY <1>1, <1>6, <2>2
      <3>2. call[q] = "rename" /\ Home[path[q]] \in made
        BY <3>1 DEF IInv, Shape, CallShape, Dir
      <3>3. QED
        BY <1>1, <3>1, <3>2 DEF Dir
    <2>3. ASSUME NEW q \in Procs, call'[q] = "idle" PROVE ~fresh'[q]
      BY <1>1, <1>6, <2>3 DEF IInv, Shape, CallShape
    <2>4. temp' \in [Procs -> BOOLEAN] /\ fresh' \in [Procs -> BOOLEAN]
      BY <1>1 DEF IInv, Shape, CallShape
    <2>5. QED
      BY <1>1, <1>3, <2>1, <2>2, <2>3, <2>4 DEF CallShape
  <1>8. FileShape' /\ CountShape'
    BY <1>1 DEF IInv, Shape, FileShape, CountShape
  <1>9. MeetInv'
    <2>1. ASSUME NEW a \in Procs, NEW b \in Procs, a # b, call'[a] # "idle", call'[b] # "idle",
                 Meet(path'[a], path'[b])
          PROVE  ~alone'[a]
      <3>1. CASE a = p
        <4>1. Meet(path[b], x) /\ call[b] # "idle"
          BY <1>1, <2>1, <3>1 DEF Meet
        <4>2. b \in Busy(x)
          BY <4>1 DEF Busy
        <4>3. QED
          BY <1>4, <3>1, <4>2
      <3>2. CASE b = p
        <4>1. Meet(path[a], x) /\ call[a] # "idle"
          BY <1>1, <2>1, <3>2
        <4>2. a \in Busy(x)
          BY <4>1 DEF Busy
        <4>3. QED
          BY <1>5, <2>1, <3>2, <4>2
      <3>3. CASE a # p /\ b # p
        <4>1. ~alone[a]
          BY <1>1, <2>1, <3>3 DEF IInv, MeetInv
        <4>2. QED
          BY <1>5, <3>3, <4>1
      <3>4. QED
        BY <3>1, <3>2, <3>3
    <2>2. QED
      BY <2>1 DEF MeetInv
  <1>10. AloneInv'
    <2>1. ASSUME NEW q \in Procs, alone'[q]
          PROVE  /\ result'[q] # "error" /\ ~fresh'[q]
                 /\ call'[q] \in {"temp", "rename", "sync"} => Dir(q)' \in made'
                 /\ call'[q] = "rename" => temp'[q]
                 /\ call'[q] = "sync" => seen'[path'[q]] = content'[q]
      <3>1. CASE q = p
        BY <1>1, <1>6, <3>1
      <3>2. CASE q # p
        <4>1. alone[q]
          BY <1>5, <2>1, <3>2
        <4>2. /\ result[q] # "error" /\ ~fresh[q]
              /\ call[q] \in {"temp", "rename", "sync"} => Home[path[q]] \in made
              /\ call[q] = "rename" => temp[q]
              /\ call[q] = "sync" => seen[path[q]] = content[q]
          BY <4>1 DEF IInv, AloneInv, Dir
        <4>3. QED
          BY <1>1, <3>2, <4>2 DEF Dir
      <3>3. QED
        BY <3>1, <3>2
    <2>2. QED
      BY <2>1 DEF AloneInv
  <1>11. QED
    BY <1>7, <1>8, <1>9, <1>10 DEF Shape

LEMMA MoveStep ==
    ASSUME IInv, NEW p \in Procs, call[p] \notin {"idle", "wipe"},
           NEW label \in {"temp", "rename", "sync"}, Goto(p, label), Freshen(p),
           UNCHANGED <<path, content, alone, result, gone, puts, promise, crashes>>,
           temp' \in [Procs -> BOOLEAN],
           temp'[p] <=> label = "rename",
           \A q \in Procs \ {p} : temp'[q] => temp[q],
           \A q \in Procs \ {p} : temp[q] => temp'[q],
           FileShape', made \subseteq made', Dir(p) \in made',
           label = "sync" => seen'[path[p]] = content[p],
           \A q \in Procs \ {p} : alone[q] /\ call[q] = "sync" =>
               seen'[path[q]] = seen[path[q]]
    PROVE  Shape' /\ MeetInv' /\ AloneInv'
  <1>1. /\ call'[p] = label
        /\ \A q \in Procs \ {p} : call'[q] = call[q]
        /\ call' \in [Procs -> {"idle", "mkdir", "temp", "rename", "sync", "wipe"}]
    BY DEF Goto, IInv, Shape, CallShape
  <1>2. fresh' = [q \in Procs |-> fresh[q] \/ q \in Wiping(path[p][1])]
    BY DEF Freshen
  <1>3. fresh' \in [Procs -> BOOLEAN]
    BY <1>2, Zenon
  <1>4. \A q \in Procs : fresh'[q] => fresh[q] \/ q \in Wiping(path[p][1])
    BY <1>2, Zenon
  <1>5. \A q \in Procs : Dir(q)' = Dir(q)
    BY DEF Dir
  <1>6. CallShape'
    <2>1. ASSUME NEW q \in Procs
          PROVE  /\ \/ call'[q] = "idle" /\ path'[q] = <<>>
                    \/ call'[q] = "wipe" /\ path'[q] \in CeremonyDirs
                    \/ call'[q] \notin {"idle", "wipe"} /\ path'[q] \in Files
                 /\ call'[q] \notin {"idle", "wipe"} => content'[q] # Nothing
      <3>1. CASE q = p
        <4>1. path[p] \in Files /\ content[p] # Nothing
          BY DEF IInv, Shape, CallShape
        <4>2. QED
          BY <1>1, <3>1, <4>1
      <3>2. CASE q # p
        BY <1>1, <3>2 DEF IInv, Shape, CallShape
      <3>3. QED
        BY <3>1, <3>2
    <2>2. ASSUME NEW q \in Procs, temp'[q]
          PROVE  call'[q] = "rename" /\ Dir(q)' \in made'
      <3>1. CASE q = p
        BY <1>1, <1>5, <2>2, <3>1
      <3>2. CASE q # p
        <4>1. call[q] = "rename" /\ Dir(q) \in made
          BY <2>2, <3>2 DEF IInv, Shape, CallShape
        <4>2. QED
          BY <1>1, <1>5, <3>2, <4>1
      <3>3. QED
        BY <3>1, <3>2
    <2>3. ASSUME NEW q \in Procs, call'[q] = "idle" PROVE ~fresh'[q]
      <3>1. q # p /\ call[q] = "idle"
        BY <1>1, <2>3
      <3>2. ~fresh[q] /\ q \notin Wiping(path[p][1])
        BY <3>1 DEF IInv, Shape, CallShape, Wiping
      <3>3. QED
        BY <1>4, <3>2
    <2>4. QED
      BY <1>1, <1>3, <2>1, <2>2, <2>3 DEF CallShape, IInv, Shape
  <1>7. CountShape'
    BY DEF IInv, Shape, CountShape
  <1>8. MeetInv'
    <2>1. \A q \in Procs : call'[q] # "idle" => call[q] # "idle"
      BY <1>1
    <2>2. QED
      BY <2>1 DEF IInv, MeetInv
  <1>9. AloneInv'
    <2>1. ASSUME NEW q \in Procs, alone[q]
          PROVE  /\ result'[q] # "error" /\ ~fresh'[q]
                 /\ call'[q] \in {"temp", "rename", "sync"} => Dir(q)' \in made'
                 /\ call'[q] = "rename" => temp'[q]
                 /\ call'[q] = "sync" => seen'[path'[q]] = content'[q]
      <3>1. result[q] # "error" /\ ~fresh[q]
        BY <2>1 DEF IInv, AloneInv
      <3>2. q \notin Wiping(path[p][1])
        <4>1. ASSUME q \in Wiping(path[p][1]) PROVE FALSE
          <5>1. call[q] = "wipe" /\ path[q] = <<path[p][1]>>
            BY <4>1 DEF Wiping
          <5>2. path[q][1] = path[p][1] /\ q # p
            BY <5>1
          <5>3. QED
            BY <2>1, <5>1, <5>2, WipeMeets DEF IInv, Shape
        <4>2. QED
          BY <4>1
      <3>3. ~fresh'[q]
        BY <1>4, <3>1, <3>2
      <3>4. CASE q = p
        BY <1>1, <1>5, <3>1, <3>3, <3>4
      <3>5. CASE q # p
        <4>1. /\ call[q] \in {"temp", "rename", "sync"} => Dir(q) \in made
              /\ call[q] = "rename" => temp[q]
              /\ call[q] = "sync" => seen[path[q]] = content[q]
          BY <2>1 DEF IInv, AloneInv
        <4>2. QED
          BY <1>1, <1>5, <2>1, <3>1, <3>3, <3>5, <4>1
      <3>6. QED
        BY <3>4, <3>5
    <2>2. QED
      BY <2>1 DEF AloneInv
  <1>10. QED
    BY <1>6, <1>7, <1>8, <1>9 DEF Shape

LEMMA FinishEffect ==
    ASSUME IInv, NEW p \in Procs, NEW how \in {"ok", "error", "failed"}, Finish(p, how)
    PROVE  /\ call'[p] = "idle" /\ path'[p] = <<>> /\ temp'[p] = FALSE /\ fresh'[p] = FALSE
           /\ result'[p] = how
           /\ \A q \in Procs \ {p} :
                 /\ call'[q] = call[q] /\ path'[q] = path[q] /\ content'[q] = content[q]
                 /\ temp'[q] = temp[q] /\ fresh'[q] = fresh[q] /\ result'[q] = result[q]
                 /\ Dir(q)' = Dir(q)
           /\ call' \in [Procs -> {"idle", "mkdir", "temp", "rename", "sync", "wipe"}]
           /\ path' \in [Procs -> {<<>>} \union CeremonyDirs \union Files]
           /\ content' \in [Procs -> Contents]
           /\ temp' \in [Procs -> BOOLEAN] /\ fresh' \in [Procs -> BOOLEAN]
           /\ result' \in [Procs -> {"none", "ok", "error", "failed"}]
           /\ alone' = alone
           /\ gone' = IF call[p] = "wipe" /\ how = "ok" /\ alone[p]
                        THEN gone \union {path[p][1]} ELSE gone
  <1>1. /\ call' = [call EXCEPT ![p] = "idle"] /\ path' = [path EXCEPT ![p] = <<>>]
        /\ content' = [content EXCEPT ![p] = Nothing] /\ temp' = [temp EXCEPT ![p] = FALSE]
        /\ fresh' = [fresh EXCEPT ![p] = FALSE] /\ result' = [result EXCEPT ![p] = how]
        /\ alone' = alone
        /\ gone' = IF call[p] = "wipe" /\ how = "ok" /\ alone[p]
                     THEN gone \union {path[p][1]} ELSE gone
    BY DEF Finish, Goto, Cleanup
  <1>2. Nothing \in Contents
    BY CheckpointAssumption DEF Nothing, Contents
  <1>3. CallShape
    BY DEF IInv, Shape
  <1>4. call' \in [Procs -> {"idle", "mkdir", "temp", "rename", "sync", "wipe"}] /\ call'[p] = "idle"
    BY <1>1, <1>3 DEF CallShape
  <1>5. path' \in [Procs -> {<<>>} \union CeremonyDirs \union Files] /\ path'[p] = <<>>
    BY <1>1, <1>3 DEF CallShape
  <1>6. content' \in [Procs -> Contents]
    BY <1>1, <1>2, <1>3 DEF CallShape
  <1>7. temp' \in [Procs -> BOOLEAN] /\ fresh' \in [Procs -> BOOLEAN]
    BY <1>1, <1>3 DEF CallShape
  <1>8. temp'[p] = FALSE /\ fresh'[p] = FALSE
    BY <1>1, <1>3 DEF CallShape
  <1>9. result' \in [Procs -> {"none", "ok", "error", "failed"}] /\ result'[p] = how
    BY <1>1, <1>3 DEF CallShape
  <1>10. ASSUME NEW q \in Procs \ {p}
         PROVE  /\ call'[q] = call[q] /\ path'[q] = path[q] /\ content'[q] = content[q]
                /\ temp'[q] = temp[q] /\ fresh'[q] = fresh[q] /\ result'[q] = result[q]
                /\ Dir(q)' = Dir(q)
    <2>1. path'[q] = path[q]
      BY <1>1, <1>3 DEF CallShape
    <2>2. call'[q] = call[q] /\ content'[q] = content[q] /\ result'[q] = result[q]
      BY <1>1, <1>3 DEF CallShape
    <2>3. temp'[q] = temp[q] /\ fresh'[q] = fresh[q]
      BY <1>1, <1>3 DEF CallShape
    <2>4. QED
      BY <2>1, <2>2, <2>3 DEF Dir
  <1>11. QED
    BY <1>1, <1>4, <1>5, <1>6, <1>7, <1>8, <1>9, <1>10

LEMMA FinishStep ==
    ASSUME IInv, NEW p \in Procs, NEW how \in {"ok", "error", "failed"}, Finish(p, how),
           call[p] # "idle", how = "error" => ~alone[p],
           UNCHANGED <<puts, crashes>>,
           promise' \in [Files -> SUBSET (Contents \ {Nothing})],
           FileShape',
           \A q \in Procs \ {p} : temp[q] => Dir(q) \in made',
           \A q \in Procs \ {p} :
              alone[q] /\ call[q] \in {"temp", "rename", "sync"} => Dir(q) \in made',
           \A q \in Procs \ {p} :
              alone[q] /\ call[q] = "sync" => seen'[path[q]] = seen[path[q]]
    PROVE  Shape' /\ MeetInv' /\ AloneInv'
  <1>1. CallShape'
    <2>1. ASSUME NEW q \in Procs
          PROVE  /\ \/ call'[q] = "idle" /\ path'[q] = <<>>
                    \/ call'[q] = "wipe" /\ path'[q] \in CeremonyDirs
                    \/ call'[q] \notin {"idle", "wipe"} /\ path'[q] \in Files
                 /\ call'[q] \notin {"idle", "wipe"} => content'[q] # Nothing
                 /\ temp'[q] => call'[q] = "rename" /\ Dir(q)' \in made'
                 /\ call'[q] = "idle" => ~fresh'[q]
      <3>1. CASE q = p
        BY <3>1, FinishEffect
      <3>2. CASE q # p
        <4>1. /\ call'[q] = call[q] /\ path'[q] = path[q] /\ content'[q] = content[q]
              /\ temp'[q] = temp[q] /\ fresh'[q] = fresh[q] /\ Dir(q)' = Dir(q)
          BY <3>2, FinishEffect
        <4>2. CallShape
          BY DEF IInv, Shape
        <4>3. /\ \/ call[q] = "idle" /\ path[q] = <<>>
                 \/ call[q] = "wipe" /\ path[q] \in CeremonyDirs
                 \/ call[q] \notin {"idle", "wipe"} /\ path[q] \in Files
              /\ call[q] \notin {"idle", "wipe"} => content[q] # Nothing
              /\ temp[q] => call[q] = "rename"
              /\ call[q] = "idle" => ~fresh[q]
          BY <4>2 DEF CallShape
        <4>4. QED
          BY <3>2, <4>1, <4>3
      <3>3. QED
        BY <3>1, <3>2
    <2>2. alone' \in [Procs -> BOOLEAN]
      BY FinishEffect DEF IInv, Shape, CallShape
    <2>3. QED
      BY <2>1, <2>2, FinishEffect DEF CallShape
  <1>2. CountShape'
    <2>1. path[p][1] \in Ceremonies
      BY ProcPath DEF IInv, Shape
    <2>2. gone' \subseteq gone \union {path[p][1]}
      BY FinishEffect
    <2>3. QED
      BY <2>1, <2>2 DEF IInv, Shape, CountShape
  <1>3. MeetInv'
    <2>1. ASSUME NEW a \in Procs, NEW b \in Procs, a # b, call'[a] # "idle", call'[b] # "idle",
                 Meet(path'[a], path'[b])
          PROVE  ~alone'[a]
      <3>1. a # p /\ b # p
        BY <2>1, FinishEffect
      <3>2. /\ call'[a] = call[a] /\ path'[a] = path[a]
            /\ call'[b] = call[b] /\ path'[b] = path[b] /\ alone' = alone
        BY <3>1, FinishEffect
      <3>3. QED
        BY <2>1, <3>2 DEF IInv, MeetInv
    <2>2. QED
      BY <2>1 DEF MeetInv
  <1>4. AloneInv'
    <2>1. ASSUME NEW q \in Procs, alone'[q]
          PROVE  /\ result'[q] # "error" /\ ~fresh'[q]
                 /\ call'[q] \in {"temp", "rename", "sync"} => Dir(q)' \in made'
                 /\ call'[q] = "rename" => temp'[q]
                 /\ call'[q] = "sync" => seen'[path'[q]] = content'[q]
      <3>1. alone[q]
        BY <2>1, FinishEffect
      <3>2. CASE q = p
        BY <3>1, <3>2, FinishEffect
      <3>3. CASE q # p
        <4>1. /\ call'[q] = call[q] /\ path'[q] = path[q] /\ content'[q] = content[q]
              /\ temp'[q] = temp[q] /\ fresh'[q] = fresh[q] /\ Dir(q)' = Dir(q)
              /\ result'[q] = result[q]
          BY <3>3, FinishEffect
        <4>2. /\ result[q] # "error" /\ ~fresh[q]
              /\ call[q] = "rename" => temp[q]
              /\ call[q] = "sync" => seen[path[q]] = content[q]
          BY <3>1 DEF IInv, AloneInv
        <4>3. QED
          BY <3>1, <3>3, <4>1, <4>2
      <3>4. QED
        BY <3>2, <3>3
    <2>2. QED
      BY <2>1 DEF AloneInv
  <1>5. QED
    BY <1>1, <1>2, <1>3, <1>4 DEF Shape

\* A call that ends and leaves the files as they are.
LEMMA QuietFinish ==
    ASSUME IInv, NEW p \in Procs, NEW how \in {"ok", "error", "failed"}, Finish(p, how),
           call[p] # "idle", how = "error" => ~alone[p],
           call[p] = "wipe" /\ how = "ok" => path[p] \notin made,
           UNCHANGED <<files, puts, promise, crashes>>
    PROVE  IInv'
  <1>1. UNCHANGED <<seen, disk, made, settled>>
    BY DEF files
  <1>2. FileShape'
    BY <1>1 DEF IInv, Shape, FileShape
  <1>3. promise' \in [Files -> SUBSET (Contents \ {Nothing})]
    BY DEF IInv, Shape, CountShape
  <1>4. \A q \in Procs : temp[q] => Dir(q) \in made'
    BY <1>1 DEF IInv, Shape, CallShape
  <1>5. \A q \in Procs : alone[q] /\ call[q] \in {"temp", "rename", "sync"} => Dir(q) \in made'
    BY <1>1 DEF IInv, AloneInv
  <1>6. Shape' /\ MeetInv' /\ AloneInv'
    BY <1>1, <1>2, <1>3, <1>4, <1>5, FinishStep
  <1>7. GoneInv'
    <2>1. ASSUME NEW c \in gone'
          PROVE  /\ \A q \in Procs : call'[q] # "idle" => path'[q][1] # c
                 /\ \A d \in made' : d[1] # c
                 /\ \A f \in Files : f[1] = c => seen'[f] = Nothing
      <3>1. CASE c \in gone
        <4>1. \A q \in Procs : call'[q] # "idle" => call[q] # "idle" /\ path'[q] = path[q]
          BY FinishEffect
        <4>2. QED
          BY <1>1, <3>1, <4>1 DEF IInv, GoneInv
      <3>2. CASE c \notin gone
        <4>1. call[p] = "wipe" /\ how = "ok" /\ alone[p] /\ c = path[p][1]
          <5>1. gone' = IF call[p] = "wipe" /\ how = "ok" /\ alone[p]
                          THEN gone \union {path[p][1]} ELSE gone
            BY FinishEffect
          <5>2. call[p] = "wipe" /\ how = "ok" /\ alone[p]
            BY <2>1, <3>2, <5>1
          <5>3. QED
            BY <2>1, <3>2, <5>1, <5>2
        <4>2. path[p] = <<c>> /\ <<c>> \notin made
          BY <4>1, ProcPath DEF IInv, Shape
        <4>3. ASSUME NEW d \in made PROVE d[1] # c
          <5>1. d \in Dirs /\ Above[d] \subseteq made
            BY DEF IInv, Shape, FileShape
          <5>2. <<d[1]>> \in made
            BY <5>1, DirPath
          <5>3. QED
            BY <4>2, <5>2
        <4>4. ASSUME NEW f \in Files, f[1] = c PROVE seen[f] = Nothing
          <5>1. Home[f][1] = c
            BY <4>4, FilePath
          <5>2. Home[f] \notin made
            BY <4>3, <5>1
          <5>3. QED
            BY <5>2 DEF IInv, Shape, FileShape
        <4>5. ASSUME NEW q \in Procs, call'[q] # "idle" PROVE path'[q][1] # c
          <5>1. q # p /\ call[q] # "idle" /\ path'[q] = path[q]
            BY <4>5, FinishEffect
          <5>2. QED
            BY <4>1, <5>1, WipeMeets DEF IInv, Shape
        <4>6. QED
          BY <1>1, <4>3, <4>4, <4>5
      <3>3. QED
        BY <3>1, <3>2
    <2>2. QED
      BY <2>1 DEF GoneInv
  <1>8. PromiseInv'
    <2>1. \A q \in Procs : call'[q] # "idle" => call'[q] = call[q] /\ path'[q] = path[q]
                                                /\ content'[q] = content[q]
      BY FinishEffect
    <2>2. QED
      BY <1>1, <2>1 DEF IInv, PromiseInv
  <1>9. QED
    BY <1>6, <1>7, <1>8 DEF IInv
-----------------------------------------------------------------------------
(* put_round *)

LEMMA StartPutStep == ASSUME IInv, NEW p \in Procs, StartPut(p) PROVE IInv'
  <1>1. PICK f \in Files :
          /\ Enter(p, "mkdir", f)
          /\ promise' = [promise EXCEPT ![f] = IF @ = {} THEN {} ELSE @ \union {puts + 1}]
          /\ gone' = gone \ {f[1]}
    BY DEF StartPut
  <1>2. puts < MaxPuts /\ puts' = puts + 1 /\ content' = [content EXCEPT ![p] = puts + 1]
    BY DEF StartPut
  <1>3. puts + 1 \in Contents /\ puts + 1 # Nothing
    BY <1>2, CheckpointAssumption DEF IInv, Shape, CountShape, Contents, Nothing
  <1>4. /\ content' \in [Procs -> Contents] /\ content'[p] = puts + 1
        /\ \A q \in Procs \ {p} : content'[q] = content[q]
    BY <1>2, <1>3 DEF IInv, Shape, CallShape
  <1>5. promise \in [Files -> SUBSET (Contents \ {Nothing})]
    BY DEF IInv, Shape, CountShape
  <1>6. /\ promise' \in [Files -> SUBSET (Contents \ {Nothing})]
        /\ \A g \in Files : /\ promise[g] \subseteq promise'[g]
                            /\ promise[g] = {} => promise'[g] = {}
        /\ promise'[f] # {} => puts + 1 \in promise'[f]
    <2>1. promise'[f] = IF promise[f] = {} THEN {} ELSE promise[f] \union {puts + 1}
      BY <1>1, <1>5
    <2>2. \A g \in Files \ {f} : promise'[g] = promise[g]
      BY <1>1, <1>5
    <2>3. promise'[f] \in SUBSET (Contents \ {Nothing})
      BY <1>3, <1>5, <2>1
    <2>4. promise' \in [Files -> SUBSET (Contents \ {Nothing})]
      BY <1>1, <1>5, <2>1, <2>3
    <2>5. QED
      BY <2>1, <2>2, <2>4
  <1>7. Shape' /\ MeetInv' /\ AloneInv'
    BY <1>1, <1>2, <1>3, <1>4, <1>6, EnterStep
  <1>8. /\ call'[p] = "mkdir" /\ path'[p] = f
        /\ \A q \in Procs \ {p} : call'[q] = call[q] /\ path'[q] = path[q]
        /\ UNCHANGED <<seen, disk, made, settled>>
    BY <1>1 DEF Enter, Goto, files, IInv, Shape, CallShape
  <1>9. GoneInv'
    <2>1. ASSUME NEW c \in gone', NEW q \in Procs, call'[q] # "idle" PROVE path'[q][1] # c
      BY <1>1, <1>8, <2>1 DEF IInv, GoneInv
    <2>2. QED
      BY <1>1, <1>8, <2>1 DEF IInv, GoneInv
  <1>10. PromiseInv'
    <2>1. ASSUME NEW g \in Files, promise'[g] # {}
          PROVE  /\ disk'[g] \subseteq promise'[g]
                 /\ Above[Home[g]] \subseteq made' /\ Above[Home[g]] \subseteq settled'
      <3>1. promise[g] # {} /\ promise[g] \subseteq promise'[g]
        BY <1>6, <2>1
      <3>2. /\ disk[g] \subseteq promise[g]
            /\ Above[Home[g]] \subseteq made /\ Above[Home[g]] \subseteq settled
        BY <3>1 DEF IInv, PromiseInv
      <3>3. QED
        BY <1>8, <3>1, <3>2
    <2>2. ASSUME NEW q \in Procs, call'[q] \notin {"idle", "wipe"}, promise'[path'[q]] # {}
          PROVE  content'[q] \in promise'[path'[q]]
      <3>1. CASE q = p
        BY <1>4, <1>6, <1>8, <2>2, <3>1
      <3>2. CASE q # p
        <4>1. path[q] \in Files /\ call[q] \notin {"idle", "wipe"}
          BY <1>8, <2>2, <3>2 DEF IInv, Shape, CallShape
        <4>2. promise[path[q]] # {}
          BY <1>6, <1>8, <2>2, <3>2, <4>1
        <4>3. content[q] \in promise[path[q]]
          BY <4>1, <4>2 DEF IInv, PromiseInv
        <4>4. QED
          BY <1>4, <1>6, <1>8, <3>2, <4>1, <4>3
      <3>3. QED
        BY <3>1, <3>2
    <2>3. ASSUME NEW q \in Procs, NEW g \in Files, call'[q] = "wipe", g[1] = path'[q][1]
          PROVE  promise'[g] = {}
      <3>1. q # p /\ call[q] = "wipe" /\ path'[q] = path[q]
        BY <1>8, <2>3
      <3>2. promise[g] = {}
        BY <2>3, <3>1 DEF IInv, PromiseInv
      <3>3. QED
        BY <1>6, <3>2
    <2>4. QED
      BY <2>1, <2>2, <2>3 DEF PromiseInv
  <1>11. QED
    BY <1>7, <1>9, <1>10 DEF IInv

LEMMA MakeDirStep == ASSUME IInv, NEW p \in Procs, MakeDir(p) PROVE IInv'
  <1>1. call[p] = "mkdir" /\ UNCHANGED <<puts, promise, crashes>>
    BY DEF MakeDir
  <1>2. CASE Wiping(path[p][1]) # {} /\ Finish(p, "error") /\ UNCHANGED files
    <2>1. PICK q \in Procs : call[q] = "wipe" /\ path[q] = <<path[p][1]>>
      BY <1>2 DEF Wiping
    <2>2. path[q][1] = path[p][1] /\ q # p
      BY <1>1, <2>1
    <2>3. ~alone[p]
      BY <1>1, <2>1, <2>2, WipeMeets DEF IInv, Shape
    <2>4. QED
      BY <1>1, <1>2, <2>3, QuietFinish
  <1>3. CASE /\ CreateDirSecure(Dir(p)) /\ Goto(p, "temp") /\ Freshen(p)
             /\ UNCHANGED <<path, content, temp, alone, result, gone>>
    <2>1. made' = made \union Above[Dir(p)] /\ UNCHANGED <<seen, disk, settled>>
      BY <1>3 DEF CreateDirSecure
    <2>2. path[p] \in Files /\ Dir(p) \in Dirs /\ Dir(p)[1] = path[p][1]
      BY <1>1, ProcPath DEF IInv, Shape
    <2>3. \A e \in Above[Dir(p)] : e \in Dirs /\ e[1] = path[p][1] /\ Above[e] \subseteq Above[Dir(p)]
      BY <2>2, AbovePath
    <2>4. Dir(p) \in Above[Dir(p)]
      BY <2>2, DirPath
    <2>5. FileShape'
      BY <2>1, <2>3 DEF IInv, Shape, FileShape
    <2>6. temp \in [Procs -> BOOLEAN] /\ ~temp[p]
      BY <1>1 DEF IInv, Shape, CallShape
    <2>7. Shape' /\ MeetInv' /\ AloneInv'
      BY <1>1, <1>3, <2>1, <2>4, <2>5, <2>6, MoveStep
    <2>8. \A q \in Procs : call'[q] # "idle" => call[q] # "idle"
      BY <1>1, <1>3 DEF Goto, IInv, Shape, CallShape
    <2>9. GoneInv'
      <3>1. path[p][1] \notin gone
        BY <1>1 DEF IInv, GoneInv
      <3>2. ASSUME NEW c \in gone', NEW d \in made' PROVE d[1] # c
        BY <1>3, <2>1, <2>3, <3>1, <3>2 DEF IInv, GoneInv
      <3>3. QED
        BY <1>3, <2>1, <2>8, <3>2 DEF IInv, GoneInv
    <2>10. PromiseInv'
      <3>1. \A q \in Procs : /\ call'[q] \notin {"idle", "wipe"} => call[q] \notin {"idle", "wipe"}
                             /\ call'[q] = "wipe" => call[q] = "wipe"
        BY <1>1, <1>3 DEF Goto, IInv, Shape, CallShape
      <3>2. QED
        BY <1>1, <1>3, <2>1, <3>1 DEF IInv, PromiseInv
    <2>11. QED
      BY <2>7, <2>9, <2>10 DEF IInv
  <1>4. QED
    BY <1>2, <1>3 DEF MakeDir

LEMMA WriteTempStep == ASSUME IInv, NEW p \in Procs, WriteTemp(p) PROVE IInv'
  <1>1. call[p] = "temp" /\ UNCHANGED <<files, puts, promise, crashes>>
    BY DEF WriteTemp
  <1>2. CASE Dir(p) \notin made /\ Finish(p, "error")
    <2>1. ~alone[p]
      BY <1>1, <1>2 DEF IInv, AloneInv
    <2>2. QED
      BY <1>1, <1>2, <2>1, QuietFinish
  <1>3. CASE /\ Dir(p) \in made /\ temp' = [temp EXCEPT ![p] = TRUE]
             /\ Goto(p, "rename") /\ Freshen(p)
             /\ UNCHANGED <<path, content, alone, result, gone>>
    <2>1. UNCHANGED <<seen, disk, made, settled>>
      BY <1>1 DEF files
    <2>2. FileShape'
      BY <2>1 DEF IInv, Shape, FileShape
    <2>3. temp \in [Procs -> BOOLEAN]
      BY DEF IInv, Shape, CallShape
    <2>4. /\ temp' \in [Procs -> BOOLEAN] /\ temp'[p] = TRUE
          /\ \A q \in Procs \ {p} : temp'[q] = temp[q]
      BY <1>3, <2>3
    <2>5. Shape' /\ MeetInv' /\ AloneInv'
      BY <1>1, <1>3, <2>1, <2>2, <2>4, MoveStep
    <2>6. \A q \in Procs : /\ call'[q] # "idle" => call[q] # "idle"
                           /\ call'[q] \notin {"idle", "wipe"} => call[q] \notin {"idle", "wipe"}
                           /\ call'[q] = "wipe" => call[q] = "wipe"
      BY <1>1, <1>3 DEF Goto, IInv, Shape, CallShape
    <2>7. GoneInv'
      BY <1>3, <2>1, <2>6 DEF IInv, GoneInv
    <2>8. PromiseInv'
      BY <1>1, <1>3, <2>1, <2>6 DEF IInv, PromiseInv
    <2>9. QED
      BY <2>5, <2>7, <2>8 DEF IInv
  <1>4. QED
    BY <1>2, <1>3 DEF WriteTemp

LEMMA ReplaceStep == ASSUME IInv, NEW p \in Procs, Replace(p) PROVE IInv'
  <1>1. call[p] = "rename" /\ UNCHANGED <<puts, promise, crashes>>
    BY DEF Replace
  <1>2. CASE ~temp[p] /\ Finish(p, "error") /\ UNCHANGED files
    <2>1. ~alone[p]
      BY <1>1, <1>2 DEF IInv, AloneInv
    <2>2. QED
      BY <1>1, <1>2, <2>1, QuietFinish
  <1>3. CASE /\ temp[p] /\ Rename(path[p], content[p]) /\ Cleanup(p)
             /\ Goto(p, "sync") /\ Freshen(p)
             /\ UNCHANGED <<path, content, alone, result, gone>>
    <2> DEFINE f == path[p]
               c == content[p]
    <2>1. /\ Home[f] \in made
          /\ seen' = [seen EXCEPT ![f] = c]
          /\ disk' = [disk EXCEPT ![f] = @ \union {c}]
          /\ UNCHANGED <<made, settled>>
      BY <1>3 DEF Rename
    <2>2. f \in Files /\ c \in Contents /\ c # Nothing
      BY <1>1 DEF IInv, Shape, CallShape
    <2> HIDE DEF f, c
    <2>3. FileShape
      BY DEF IInv, Shape
    <2>4. /\ seen' \in [Files -> Contents] /\ seen'[f] = c
          /\ \A g \in Files \ {f} : seen'[g] = seen[g]
      BY <2>1, <2>2, <2>3 DEF FileShape
    <2>5. /\ disk' \in [Files -> SUBSET Contents] /\ disk'[f] = disk[f] \union {c}
          /\ \A g \in Files \ {f} : disk'[g] = disk[g]
      BY <2>1, <2>2, <2>3 DEF FileShape
    <2>6. FileShape'
      BY <2>1, <2>2, <2>3, <2>4, <2>5 DEF FileShape
    <2>7. temp \in [Procs -> BOOLEAN] /\ temp' = [temp EXCEPT ![p] = FALSE]
      BY <1>3 DEF IInv, Shape, CallShape, Cleanup
    <2>8. /\ temp' \in [Procs -> BOOLEAN] /\ temp'[p] = FALSE
          /\ \A q \in Procs \ {p} : temp'[q] = temp[q]
      BY <2>7
    <2>9. ASSUME NEW q \in Procs \ {p}, alone[q], call[q] = "sync"
          PROVE  seen'[path[q]] = seen[path[q]]
      <3>1. path[q] \in Files
        BY <2>9 DEF IInv, Shape, CallShape
      <3>2. path[q] # path[p]
        BY <1>1, <2>9 DEF IInv, MeetInv, Meet
      <3>3. QED
        BY <2>4, <3>1, <3>2 DEF f
    <2>10. Shape' /\ MeetInv' /\ AloneInv'
      <3>1. Dir(p) \in made' /\ seen'[path[p]] = content[p] /\ made \subseteq made'
        BY <2>1, <2>4 DEF f, c, Dir
      <3>2. QED
        BY <1>1, <1>3, <2>6, <2>8, <2>9, <3>1, MoveStep
    <2>11. \A q \in Procs : /\ call'[q] # "idle" => call[q] # "idle"
                            /\ call'[q] \notin {"idle", "wipe"} => call[q] \notin {"idle", "wipe"}
                            /\ call'[q] = "wipe" => call[q] = "wipe"
      BY <1>1, <1>3 DEF Goto, IInv, Shape, CallShape
    <2>12. GoneInv'
      <3>1. f[1] \notin gone
        BY <1>1 DEF f, IInv, GoneInv
      <3>2. \A e \in gone : \A g \in Files : g[1] = e => seen'[g] = Nothing
        BY <2>4, <3>1 DEF IInv, GoneInv
      <3>3. QED
        BY <1>3, <2>1, <2>11, <3>2 DEF IInv, GoneInv
    <2>13. PromiseInv'
      <3>1. ASSUME NEW g \in Files, promise[g] # {} PROVE disk'[g] \subseteq promise[g]
        <4>1. disk[g] \subseteq promise[g]
          BY <3>1 DEF IInv, PromiseInv
        <4>2. CASE g = f
          <5>1. c \in promise[f]
            BY <1>1, <3>1, <4>2 DEF f, c, IInv, PromiseInv
          <5>2. QED
            BY <2>5, <4>1, <4>2, <5>1
        <4>3. QED
          BY <2>5, <4>1, <4>2
      <3>2. QED
        BY <1>1, <1>3, <2>1, <2>11, <3>1 DEF IInv, PromiseInv
    <2>14. QED
      BY <2>10, <2>12, <2>13 DEF IInv
  <1>4. QED
    BY <1>2, <1>3 DEF Replace

LEMMA SyncStep == ASSUME IInv, NEW p \in Procs, Sync(p) PROVE IInv'
  <1>1. call[p] = "sync" /\ UNCHANGED <<puts, crashes>>
    BY DEF Sync
  <1>2. CASE Dir(p) \notin made /\ Finish(p, "error") /\ UNCHANGED <<files, promise>>
    <2>1. ~alone[p]
      BY <1>1, <1>2 DEF IInv, AloneInv
    <2>2. QED
      BY <1>1, <1>2, <2>1, QuietFinish
  <1>3. CASE /\ Dir(p) \in made /\ SyncHome(path[p]) /\ Finish(p, "ok")
             /\ promise' = IF alone[p] THEN [promise EXCEPT ![path[p]] = {content[p]}]
                           ELSE promise
    <2> DEFINE f == path[p]
               c == content[p]
    <2>1. /\ disk' = [g \in Files |-> IF Home[g] = Home[f] THEN {seen[g]} ELSE disk[g]]
          /\ settled' = settled \union Above[Home[f]]
          /\ UNCHANGED <<seen, made>>
      BY <1>3 DEF SyncHome
    <2>2. f \in Files /\ c \in Contents /\ c # Nothing /\ Home[f] \in made
      BY <1>1, <1>3 DEF IInv, Shape, CallShape, Dir
    <2>3. alone[p] => seen[f] = c
      BY <1>1 DEF IInv, AloneInv
    <2> HIDE DEF f, c
    <2>4. FileShape /\ promise \in [Files -> SUBSET (Contents \ {Nothing})]
      BY DEF IInv, Shape, CountShape
    <2>5. \A g \in Files : disk'[g] = {seen[g]} \/ disk'[g] = disk[g]
      BY <2>1
    <2>6. disk'[f] = {seen[f]}
      BY <2>1, <2>2
    <2>7. Home[f] \in Dirs /\ Above[Home[f]] \subseteq made /\ Above[Home[f]] \subseteq Dirs
      BY <2>2, <2>4 DEF FileShape
    <2>8. FileShape'
      <3>1. disk' \in [Files -> SUBSET Contents]
        BY <2>1, <2>4 DEF FileShape
      <3>2. \A g \in Files : seen[g] \in disk'[g]
        BY <2>4, <2>5 DEF FileShape
      <3>3. QED
        BY <2>1, <2>4, <2>7, <3>1, <3>2 DEF FileShape
    <2>9. promise' \in [Files -> SUBSET (Contents \ {Nothing})]
      BY <1>3, <2>2, <2>4 DEF f, c
    <2>10. /\ \A q \in Procs \ {p} : temp[q] => Dir(q) \in made'
           /\ \A q \in Procs \ {p} :
                alone[q] /\ call[q] \in {"temp", "rename", "sync"} => Dir(q) \in made'
      BY <2>1 DEF IInv, Shape, CallShape, AloneInv
    <2>11. Shape' /\ MeetInv' /\ AloneInv'
      BY <1>1, <1>3, <2>1, <2>8, <2>9, <2>10, FinishStep
    <2>12. /\ call'[p] = "idle" /\ gone' = gone
           /\ \A q \in Procs \ {p} : /\ call'[q] = call[q] /\ path'[q] = path[q]
                                     /\ content'[q] = content[q]
      BY <1>1, <1>3, FinishEffect
    <2>13. GoneInv'
      <3>1. \A q \in Procs : call'[q] # "idle" => call[q] # "idle" /\ path'[q] = path[q]
        BY <2>12
      <3>2. QED
        BY <2>1, <2>12, <3>1 DEF IInv, GoneInv
    <2>14. PromiseInv'
      <3>1. ASSUME NEW g \in Files, promise'[g] # {}
            PROVE  /\ disk'[g] \subseteq promise'[g]
                   /\ Above[Home[g]] \subseteq made' /\ Above[Home[g]] \subseteq settled'
        <4>1. CASE g = f /\ alone[p]
          <5>1. promise'[g] = {c}
            BY <1>3, <2>2, <2>4, <4>1 DEF f, c
          <5>2. QED
            BY <2>1, <2>3, <2>6, <2>7, <4>1, <5>1
        <4>2. CASE ~(g = f /\ alone[p])
          <5>1. promise'[g] = promise[g]
            BY <1>3, <2>4, <4>2 DEF f
          <5>2. /\ disk[g] \subseteq promise[g]
                /\ Above[Home[g]] \subseteq made /\ Above[Home[g]] \subseteq settled
            BY <3>1, <5>1 DEF IInv, PromiseInv
          <5>3. seen[g] \in disk[g]
            BY <2>4 DEF FileShape
          <5>4. QED
            BY <2>1, <2>5, <5>1, <5>2, <5>3
        <4>3. QED
          BY <4>1, <4>2
      <3>2. ASSUME NEW q \in Procs, call'[q] \notin {"idle", "wipe"}, promise'[path'[q]] # {}
            PROVE  content'[q] \in promise'[path'[q]]
        <4>1. /\ q # p /\ call[q] \notin {"idle", "wipe"}
              /\ path'[q] = path[q] /\ content'[q] = content[q]
          BY <2>12, <3>2
        <4>2. path[q] \in Files
          BY <4>1 DEF IInv, Shape, CallShape
        <4>3. ~(path[q] = f /\ alone[p])
          BY <1>1, <4>1 DEF f, IInv, MeetInv, Meet
        <4>4. promise'[path[q]] = promise[path[q]]
          BY <1>3, <2>4, <4>2, <4>3 DEF f
        <4>5. QED
          BY <3>2, <4>1, <4>4 DEF IInv, PromiseInv
      <3>3. ASSUME NEW q \in Procs, NEW g \in Files, call'[q] = "wipe", g[1] = path'[q][1]
            PROVE  promise'[g] = {}
        <4>1. q # p /\ call[q] = "wipe" /\ path'[q] = path[q]
          BY <2>12, <3>3
        <4>2. promise[g] = {}
          BY <3>3, <4>1 DEF IInv, PromiseInv
        <4>3. ~(g = f /\ alone[p])
          BY <1>1, <3>3, <4>1, WipeMeets DEF f, IInv, Shape
        <4>4. QED
          BY <1>3, <2>4, <4>2, <4>3 DEF f
      <3>4. QED
        BY <3>1, <3>2, <3>3 DEF PromiseInv
    <2>15. QED
      BY <2>11, <2>13, <2>14 DEF IInv
  <1>4. QED
    BY <1>2, <1>3 DEF Sync
-----------------------------------------------------------------------------
(* wipe *)

LEMMA StartWipeStep == ASSUME IInv, NEW p \in Procs, StartWipe(p) PROVE IInv'
  <1>1. PICK c \in Ceremonies :
          /\ Enter(p, "wipe", <<c>>)
          /\ promise' = [f \in Files |-> IF f[1] = c THEN {} ELSE promise[f]]
          /\ gone' = gone \ {c}
    BY DEF StartWipe
  <1>2. UNCHANGED <<content, puts>>
    BY DEF StartWipe
  <1>3. <<c>> \in CeremonyDirs
    BY DEF CeremonyDirs
  <1>4. \A f \in Files : promise'[f] = promise[f] \/ promise'[f] = {}
    BY <1>1
  <1>5. promise' \in [Files -> SUBSET (Contents \ {Nothing})]
    BY <1>1 DEF IInv, Shape, CountShape
  <1>6. content' \in [Procs -> Contents] /\ puts' \in Contents
    BY <1>2 DEF IInv, Shape, CallShape, CountShape
  <1>7. Shape' /\ MeetInv' /\ AloneInv'
    BY <1>1, <1>2, <1>3, <1>5, <1>6, EnterStep
  <1>8. /\ call'[p] = "wipe" /\ path'[p] = <<c>>
        /\ \A q \in Procs \ {p} : call'[q] = call[q] /\ path'[q] = path[q]
        /\ UNCHANGED <<seen, disk, made, settled>>
    BY <1>1, <1>3 DEF Enter, Goto, files, IInv, Shape, CallShape
  <1>9. GoneInv'
    <2>1. ASSUME NEW e \in gone', NEW q \in Procs, call'[q] # "idle" PROVE path'[q][1] # e
      <3>1. CASE q = p
        BY <1>1, <1>8, <2>1, <3>1
      <3>2. CASE q # p
        BY <1>1, <1>8, <2>1, <3>2 DEF IInv, GoneInv
      <3>3. QED
        BY <3>1, <3>2
    <2>2. QED
      BY <1>1, <1>8, <2>1 DEF IInv, GoneInv
  <1>10. PromiseInv'
    <2>1. ASSUME NEW g \in Files, promise'[g] # {}
          PROVE  /\ disk'[g] \subseteq promise'[g]
                 /\ Above[Home[g]] \subseteq made' /\ Above[Home[g]] \subseteq settled'
      BY <1>4, <1>8, <2>1 DEF IInv, PromiseInv
    <2>2. ASSUME NEW q \in Procs, call'[q] \notin {"idle", "wipe"}, promise'[path'[q]] # {}
          PROVE  content'[q] \in promise'[path'[q]]
      <3>1. q # p /\ call[q] \notin {"idle", "wipe"} /\ path'[q] = path[q]
        BY <1>8, <2>2
      <3>2. path[q] \in Files
        BY <3>1 DEF IInv, Shape, CallShape
      <3>3. promise'[path[q]] = promise[path[q]]
        BY <1>4, <2>2, <3>1, <3>2
      <3>4. QED
        BY <1>2, <2>2, <3>1, <3>3 DEF IInv, PromiseInv
    <2>3. ASSUME NEW q \in Procs, NEW g \in Files, call'[q] = "wipe", g[1] = path'[q][1]
          PROVE  promise'[g] = {}
      <3>1. CASE q = p
        <4>1. g[1] = c
          BY <1>8, <2>3, <3>1
        <4>2. QED
          BY <1>1, <4>1
      <3>2. CASE q # p
        BY <1>4, <1>8, <2>3, <3>2 DEF IInv, PromiseInv
      <3>3. QED
        BY <3>1, <3>2
    <2>4. QED
      BY <2>1, <2>2, <2>3 DEF PromiseInv
  <1>11. QED
    BY <1>7, <1>9, <1>10 DEF IInv

\* What rmdir of an empty directory leaves.
LEMMA RemoveDirShape ==
    ASSUME IInv, NEW d \in made, Empty(d), RemoveDir(d)
    PROVE  /\ made' = made \ {d} /\ UNCHANGED <<seen, disk, settled>>
           /\ FileShape'
           /\ \A q \in Procs : temp[q] => Dir(q) \in made'
  <1>1. made' = made \ {d} /\ UNCHANGED <<seen, disk, settled>>
    BY DEF RemoveDir
  <1>2. FileShape /\ CallShape
    BY DEF IInv, Shape
  <1>3. ASSUME NEW f \in Files, seen[f] # Nothing PROVE Home[f] \in made'
    <2>1. Home[f] \in made /\ Home[f] \in Above[Home[f]]
      BY <1>2, <1>3, FilePath DEF FileShape
    <2>2. Home[f] # d
      BY <1>3, <2>1 DEF Empty
    <2>3. QED
      BY <1>1, <2>1, <2>2
  <1>4. ASSUME NEW e \in made' PROVE Above[e] \subseteq made'
    <2>1. e \in made /\ e # d /\ Above[e] \subseteq made
      BY <1>1, <1>2, <1>4 DEF FileShape
    <2>2. d \notin Above[e]
      BY <2>1 DEF Empty
    <2>3. QED
      BY <1>1, <2>1, <2>2
  <1>5. FileShape'
    BY <1>1, <1>2, <1>3, <1>4 DEF FileShape
  <1>6. ASSUME NEW q \in Procs, temp[q] PROVE Dir(q) \in made'
    <2>1. call[q] = "rename" /\ Dir(q) \in made
      BY <1>2, <1>6 DEF CallShape
    <2>2. Dir(q) \in Above[Dir(q)]
      BY <1>2, <2>1, ProcPath
    <2>3. d \notin Above[Dir(q)]
      BY <1>6 DEF Empty
    <2>4. QED
      BY <1>1, <2>1, <2>2, <2>3
  <1>7. QED
    BY <1>1, <1>5, <1>6

\* A wipe on its way takes something out of its own tree.
LEMMA TakeOut ==
    ASSUME IInv, NEW p \in Procs, call[p] = "wipe",
           UNCHANGED <<call, path, content, fresh, alone, result, puts, promise, gone, crashes>>,
           FileShape', made' \subseteq made, UNCHANGED settled,
           \A d \in made : d[1] # path[p][1] => d \in made',
           \A f \in Files : f[1] # path[p][1] => seen'[f] = seen[f] /\ disk'[f] = disk[f],
           \A f \in Files : seen'[f] = seen[f] \/ seen'[f] = Nothing,
           temp' \in [Procs -> BOOLEAN],
           \A q \in Procs : temp'[q] => temp[q] /\ Dir(q) \in made',
           \A q \in Procs : temp[q] /\ path[q][1] # path[p][1] => temp'[q]
    PROVE  IInv'
  <1>1. \A q \in Procs : Dir(q)' = Dir(q)
    BY DEF Dir
  <1>2. CallShape /\ CountShape
    BY DEF IInv, Shape
  <1>3. CallShape'
    <2>1. \A q \in Procs : temp'[q] => call'[q] = "rename" /\ Dir(q)' \in made'
      BY <1>1, <1>2 DEF CallShape
    <2>2. QED
      BY <1>2, <2>1 DEF CallShape
  <1>4. CountShape'
    BY <1>2 DEF CountShape
  <1>5. MeetInv'
    BY DEF IInv, MeetInv
  <1>6. AloneInv'
    <2>1. ASSUME NEW q \in Procs, alone[q]
          PROVE  /\ call[q] \in {"temp", "rename", "sync"} => Dir(q) \in made'
                 /\ call[q] = "rename" => temp'[q]
                 /\ call[q] = "sync" => seen'[path[q]] = content[q]
      <3>1. CASE call[q] \notin {"temp", "rename", "sync"}
        BY <3>1
      <3>2. CASE call[q] \in {"temp", "rename", "sync"}
        <4>1. q # p /\ path[q] \in Files /\ Dir(q) \in Dirs /\ Dir(q)[1] = path[q][1]
          BY <1>2, <3>2, ProcPath
        <4>2. path[q][1] # path[p][1]
          BY <1>2, <2>1, <3>2, <4>1, WipeMeets DEF IInv
        <4>3. /\ Dir(q) \in made
              /\ call[q] = "rename" => temp[q]
              /\ call[q] = "sync" => seen[path[q]] = content[q]
          BY <2>1, <3>2 DEF IInv, AloneInv
        <4>4. QED
          BY <4>1, <4>2, <4>3
      <3>3. QED
        BY <3>1, <3>2
    <2>2. QED
      BY <1>1, <2>1 DEF IInv, AloneInv
  <1>7. GoneInv'
    BY DEF IInv, GoneInv
  <1>8. PromiseInv'
    <2>1. ASSUME NEW f \in Files, promise[f] # {}
          PROVE  /\ disk'[f] \subseteq promise[f]
                 /\ Above[Home[f]] \subseteq made' /\ Above[Home[f]] \subseteq settled
      <3>1. f[1] # path[p][1]
        BY <2>1 DEF IInv, PromiseInv
      <3>2. \A e \in Above[Home[f]] : e[1] = f[1]
        BY FilePath, AbovePath
      <3>3. /\ disk[f] \subseteq promise[f]
            /\ Above[Home[f]] \subseteq made /\ Above[Home[f]] \subseteq settled
        BY <2>1 DEF IInv, PromiseInv
      <3>4. QED
        BY <3>1, <3>2, <3>3
    <2>2. QED
      BY <2>1 DEF IInv, PromiseInv
  <1>9. QED
    BY <1>3, <1>4, <1>5, <1>6, <1>7, <1>8 DEF IInv, Shape

LEMMA RemoveEntryStep == ASSUME IInv, NEW p \in Procs, RemoveEntry(p) PROVE IInv'
  <1>1. /\ call[p] = "wipe"
        /\ UNCHANGED <<call, path, content, fresh, alone, result, puts, promise, gone, crashes>>
    BY DEF RemoveEntry
  <1>2. FileShape /\ CallShape
    BY DEF IInv, Shape
  <1>3. \A q \in Procs : temp[q] => Dir(q) \in made
    BY <1>2 DEF CallShape
  <1>4. temp \in [Procs -> BOOLEAN]
    BY <1>2 DEF CallShape
  <1>5. ASSUME NEW f \in Files, f[1] = path[p][1], Unlink(f), UNCHANGED temp PROVE IInv'
    <2>1. /\ seen' = [seen EXCEPT ![f] = Nothing]
          /\ disk' = [disk EXCEPT ![f] = @ \union {Nothing}]
          /\ UNCHANGED <<made, settled>>
      BY <1>5 DEF Unlink
    <2>2. Nothing \in Contents
      BY CheckpointAssumption DEF Nothing, Contents
    <2>3. /\ seen' \in [Files -> Contents] /\ seen'[f] = Nothing
          /\ \A g \in Files \ {f} : seen'[g] = seen[g]
      BY <1>2, <2>1, <2>2 DEF FileShape
    <2>4. /\ disk' \in [Files -> SUBSET Contents] /\ disk'[f] = disk[f] \union {Nothing}
          /\ \A g \in Files \ {f} : disk'[g] = disk[g]
      BY <1>2, <2>1, <2>2 DEF FileShape
    <2>5. FileShape'
      BY <1>2, <2>1, <2>3, <2>4 DEF FileShape
    <2>6. QED
      BY <1>1, <1>3, <1>4, <1>5, <2>1, <2>3, <2>4, <2>5, TakeOut
  <1>6. ASSUME NEW t \in Procs, path[t][1] = path[p][1], temp' = [temp EXCEPT ![t] = FALSE],
               UNCHANGED files
        PROVE  IInv'
    <2>1. UNCHANGED <<seen, disk, made, settled>>
      BY <1>6 DEF files
    <2>2. /\ temp' \in [Procs -> BOOLEAN] /\ ~temp'[t]
          /\ \A q \in Procs \ {t} : temp'[q] = temp[q]
      BY <1>4, <1>6
    <2>3. FileShape'
      BY <1>2, <2>1 DEF FileShape
    <2>4. \A q \in Procs : temp'[q] => temp[q] /\ Dir(q) \in made'
      BY <1>3, <2>1, <2>2
    <2>5. \A q \in Procs : temp[q] /\ path[q][1] # path[p][1] => temp'[q]
      BY <1>6, <2>2
    <2>6. QED
      BY <1>1, <2>1, <2>2, <2>3, <2>4, <2>5, TakeOut
  <1>7. ASSUME NEW d \in made, d[1] = path[p][1], Empty(d), RemoveDir(d), UNCHANGED temp
        PROVE  IInv'
    <2>1. /\ made' = made \ {d} /\ UNCHANGED <<seen, disk, settled>>
          /\ FileShape'
          /\ \A q \in Procs : temp[q] => Dir(q) \in made'
      BY <1>7, RemoveDirShape
    <2>2. QED
      BY <1>1, <1>4, <1>7, <2>1, TakeOut
  <1>8. QED
    BY <1>5, <1>6, <1>7 DEF RemoveEntry, InTree

LEMMA EndWipeStep == ASSUME IInv, NEW p \in Procs, EndWipe(p) PROVE IInv'
  <1> DEFINE d == path[p]
             c == path[p][1]
  <1>1. call[p] = "wipe" /\ UNCHANGED <<puts, promise, crashes>>
    BY DEF EndWipe
  <1>2. CASE d \notin made /\ Finish(p, Absent) /\ UNCHANGED files
    BY <1>1, <1>2, QuietFinish DEF Absent
  <1>3. CASE d \in made /\ Empty(d) /\ RemoveDir(d) /\ Finish(p, "ok")
    <2>1. /\ made' = made \ {d} /\ UNCHANGED <<seen, disk, settled>>
          /\ FileShape'
          /\ \A q \in Procs : temp[q] => Dir(q) \in made'
      BY <1>3, RemoveDirShape
    <2>2. d = <<c>> /\ c \in Ceremonies
      BY <1>1, ProcPath DEF IInv, Shape
    <2>3. ASSUME NEW q \in Procs \ {p}, call[q] # "idle", path[q][1] = c
          PROVE  ~alone[p] /\ ~alone[q]
      BY <1>1, <2>3, WipeMeets DEF IInv, Shape
    <2>4. ASSUME NEW q \in Procs \ {p}, alone[q], call[q] \in {"temp", "rename", "sync"}
          PROVE  Dir(q) \in made'
      <3>1. Dir(q) \in made
        BY <2>4 DEF IInv, AloneInv
      <3>2. Dir(q)[1] = path[q][1] /\ path[q][1] # c
        BY <2>3, <2>4, ProcPath DEF IInv, Shape
      <3>3. Dir(q) # d
        BY <2>2, <3>2
      <3>4. QED
        BY <2>1, <3>1, <3>3
    <2>5. promise' \in [Files -> SUBSET (Contents \ {Nothing})]
      BY <1>1 DEF IInv, Shape, CountShape
    <2>6. Shape' /\ MeetInv' /\ AloneInv'
      BY <1>1, <1>3, <2>1, <2>4, <2>5, FinishStep
    <2>7. /\ call'[p] = "idle"
          /\ \A q \in Procs \ {p} : /\ call'[q] = call[q] /\ path'[q] = path[q]
                                    /\ content'[q] = content[q]
          /\ gone' = IF call[p] = "wipe" /\ "ok" = "ok" /\ alone[p]
                       THEN gone \union {path[p][1]} ELSE gone
      BY <1>3, FinishEffect
    <2>8. GoneInv'
      <3>1. ASSUME NEW e \in gone'
            PROVE  /\ \A q \in Procs : call'[q] # "idle" => path'[q][1] # e
                   /\ \A a \in made' : a[1] # e
                   /\ \A f \in Files : f[1] = e => seen'[f] = Nothing
        <4>1. CASE e \in gone
          <5>1. \A q \in Procs : call'[q] # "idle" => call[q] # "idle" /\ path'[q] = path[q]
            BY <2>7
          <5>2. QED
            BY <2>1, <4>1, <5>1 DEF IInv, GoneInv
        <4>2. CASE e \notin gone
          <5>1. alone[p] /\ e = c
            BY <2>7, <3>1, <4>2
          <5>2. ASSUME NEW q \in Procs, call'[q] # "idle" PROVE path'[q][1] # e
            BY <2>3, <2>7, <5>1, <5>2
          <5>3. ASSUME NEW a \in made' PROVE a[1] # e
            <6>1. a \in made /\ a # d /\ a \in Dirs
              BY <2>1, <5>3 DEF IInv, Shape, FileShape
            <6>2. d \notin Above[a]
              BY <1>3, <6>1 DEF Empty
            <6>3. <<a[1]>> \in Above[a]
              BY <6>1, DirPath
            <6>4. QED
              BY <2>2, <5>1, <6>2, <6>3
          <5>4. ASSUME NEW f \in Files, f[1] = e PROVE seen'[f] = Nothing
            <6>1. d \in Above[Home[f]]
              BY <2>2, <5>1, <5>4, FilePath
            <6>2. QED
              BY <1>3, <2>1, <6>1 DEF Empty
          <5>5. QED
            BY <5>2, <5>3, <5>4
        <4>3. QED
          BY <4>1, <4>2
      <3>2. QED
        BY <3>1 DEF GoneInv
    <2>9. PromiseInv'
      <3>1. ASSUME NEW f \in Files, promise[f] # {}
            PROVE  /\ disk'[f] \subseteq promise[f]
                   /\ Above[Home[f]] \subseteq made' /\ Above[Home[f]] \subseteq settled'
        <4>1. f[1] # c
          BY <1>1, <3>1 DEF IInv, PromiseInv
        <4>2. \A e \in Above[Home[f]] : e[1] = f[1]
          BY FilePath, AbovePath
        <4>3. d \notin Above[Home[f]]
          BY <2>2, <4>1, <4>2
        <4>4. /\ disk[f] \subseteq promise[f]
              /\ Above[Home[f]] \subseteq made /\ Above[Home[f]] \subseteq settled
          BY <3>1 DEF IInv, PromiseInv
        <4>5. QED
          BY <2>1, <4>3, <4>4
      <3>2. \A q \in Procs : call'[q] # "idle" => call'[q] = call[q] /\ path'[q] = path[q]
                                                  /\ content'[q] = content[q]
        BY <2>7
      <3>3. QED
        BY <1>1, <3>1, <3>2 DEF IInv, PromiseInv
    <2>10. QED
      BY <2>6, <2>8, <2>9 DEF IInv
  <1>4. QED
    BY <1>2, <1>3 DEF EndWipe
-----------------------------------------------------------------------------
(* Errors and power losses *)

LEMMA WipeMeetsEntryStep == ASSUME IInv, NEW p \in Procs, WipeMeetsEntry(p) PROVE IInv'
  <1>1. /\ call[p] = "wipe" /\ fresh[p] /\ Finish(p, "error")
        /\ UNCHANGED <<files, puts, promise, crashes>>
    BY DEF WipeMeetsEntry
  <1>2. ~alone[p]
    BY <1>1 DEF IInv, AloneInv
  <1>3. QED
    BY <1>1, <1>2, QuietFinish

LEMMA GiveUpStep == ASSUME IInv, NEW p \in Procs, GiveUp(p) PROVE IInv'
  <1>1. /\ call[p] # "idle" /\ Finish(p, "failed")
        /\ UNCHANGED <<files, puts, promise, crashes>>
    BY DEF GiveUp, IoError
  <1>2. QED
    BY <1>1, QuietFinish

LEMMA CrashStep == ASSUME IInv, Crash PROVE IInv'
  <1>1. PICK lost \in SUBSET (made \ settled), back \in SUBSET (settled \ made),
             left \in [Doubtful -> UNION {disk[f] : f \in Files}] :
          /\ \A f \in Doubtful : left[f] \in disk[f]
          /\ made' = {d \in made \union back :
                         Above[d] \cap lost = {} /\ Above[d] \subseteq made \union back}
          /\ settled' = made'
          /\ seen' = [f \in Files |->
                        IF Home[f] \notin made' THEN Nothing
                        ELSE IF f \in Doubtful THEN left[f]
                        ELSE seen[f]]
          /\ disk' = [f \in Files |-> {seen'[f]}]
    BY DEF Crash, PowerLoss
  <1>2. FileShape /\ CountShape
    BY DEF IInv, Shape
  <1>3. ASSUME NEW f \in Files
        PROVE  /\ seen'[f] \in disk[f] \/ seen'[f] = Nothing
               /\ Home[f] \in made' => seen'[f] \in disk[f]
               /\ seen'[f] # Nothing => Home[f] \in made'
               /\ disk'[f] = {seen'[f]}
    BY <1>1, <1>2 DEF FileShape
  <1>4. Nothing \in Contents /\ MaxCrashes \in Nat
    BY CheckpointAssumption DEF Nothing, Contents
  <1>5. ASSUME NEW e \in made' PROVE Above[e] \subseteq made' /\ e \in Dirs
    <2>1. e \in Dirs /\ Above[e] \cap lost = {} /\ Above[e] \subseteq made \union back
      BY <1>1, <1>2, <1>5 DEF FileShape
    <2>2. \A a \in Above[e] : Above[a] \subseteq Above[e]
      BY <2>1, AbovePath
    <2>3. QED
      BY <1>1, <2>1, <2>2
  <1>6. FileShape'
    <2>1. \A f \in Files : seen'[f] \in Contents
      BY <1>2, <1>3, <1>4 DEF FileShape
    <2>2. seen' \in [Files -> Contents] /\ disk' \in [Files -> SUBSET Contents]
      BY <1>1, <2>1
    <2>3. QED
      BY <1>1, <1>3, <1>5, <2>2 DEF FileShape
  <1>7. /\ crashes' = crashes + 1 /\ crashes < MaxCrashes
        /\ call' = [p \in Procs |-> "idle"] /\ temp' = [p \in Procs |-> FALSE]
        /\ path' = [p \in Procs |-> <<>>] /\ content' = [p \in Procs |-> Nothing]
        /\ fresh' = [p \in Procs |-> FALSE] /\ alone' = [p \in Procs |-> TRUE]
        /\ result' = [p \in Procs |-> "none"] /\ gone' = {}
        /\ UNCHANGED <<puts, promise>>
    BY DEF Crash
  <1>8. CallShape'
    BY <1>4, <1>7 DEF CallShape
  <1>9. CountShape'
    BY <1>2, <1>4, <1>7 DEF CountShape
  <1>10. MeetInv' /\ AloneInv' /\ GoneInv'
    BY <1>7 DEF MeetInv, AloneInv, GoneInv
  <1>11. PromiseInv'
    <2>1. ASSUME NEW f \in Files, promise[f] # {}
          PROVE  /\ disk'[f] \subseteq promise[f]
                 /\ Above[Home[f]] \subseteq made' /\ Above[Home[f]] \subseteq settled'
      <3>1. /\ disk[f] \subseteq promise[f]
            /\ Above[Home[f]] \subseteq made /\ Above[Home[f]] \subseteq settled
        BY <2>1 DEF IInv, PromiseInv
      <3>2. \A e \in Above[Home[f]] : Above[e] \subseteq Above[Home[f]]
        BY FilePath, AbovePath
      <3>3. \A e \in Above[Home[f]] : e \in made'
        BY <1>1, <3>1, <3>2
      <3>4. Home[f] \in made'
        BY <3>3, FilePath
      <3>5. QED
        BY <1>1, <1>3, <3>1, <3>3, <3>4
    <2>2. QED
      BY <1>7, <2>1 DEF PromiseInv
  <1>12. QED
    BY <1>6, <1>8, <1>9, <1>10, <1>11 DEF IInv, Shape
-----------------------------------------------------------------------------
LEMMA NextInv == IInv /\ [Next]_vars => IInv'
  <1> SUFFICES ASSUME IInv, [Next]_vars PROVE IInv'
    OBVIOUS
  <1>1. CASE UNCHANGED vars
    <2>1. UNCHANGED <<seen, disk, made, settled, call, path, content, temp, fresh, alone,
                      result, puts, promise, gone, crashes>>
      BY <1>1 DEF vars, files, calls
    <2>2. Shape'
      BY <2>1 DEF IInv, Shape, FileShape, CallShape, CountShape, Dir
    <2>3. MeetInv' /\ AloneInv' /\ GoneInv' /\ PromiseInv'
      BY <2>1 DEF IInv, MeetInv, AloneInv, GoneInv, PromiseInv, Dir
    <2>4. QED
      BY <2>2, <2>3 DEF IInv
  <1>2. ASSUME NEW p \in Procs,
               \/ StartPut(p) \/ MakeDir(p) \/ WriteTemp(p) \/ Replace(p) \/ Sync(p)
               \/ StartWipe(p) \/ RemoveEntry(p) \/ EndWipe(p) \/ WipeMeetsEntry(p)
               \/ GiveUp(p)
        PROVE  IInv'
    BY <1>2, StartPutStep, MakeDirStep, WriteTempStep, ReplaceStep, SyncStep, StartWipeStep,
       RemoveEntryStep, EndWipeStep, WipeMeetsEntryStep, GiveUpStep
  <1>3. QED
    BY <1>1, <1>2, CrashStep DEF Next

\* The types of CheckpointStore, and where files, directories and temporary files lie.
THEOREM TypesHold == Spec => []TypeOK
  <1>1. IInv => TypeOK
    BY DEF IInv, Shape, FileShape, CallShape, CountShape, TypeOK
  <1>2. QED
    BY <1>1, InitInv, NextInv, PTL DEF Spec

\* D-07, D-10: what put_round1 or put_round2 has stored outlives crashes, and the
\* puts, wipes and failures of others (write_atomic, wipe).
THEOREM StoredIsKept == Spec => []CheckpointsKept
  <1>1. IInv => CheckpointsKept
    BY DEF IInv, Shape, FileShape, PromiseInv, CheckpointsKept
  <1>2. QED
    BY <1>1, InitInv, NextInv, PTL DEF Spec

\* A put or a wipe that meets no other call fails only of an I/O error, whatever
\* failed or was killed before it.
THEOREM AloneSucceeds == Spec => []OnlyOverlapFails
  <1>1. IInv => OnlyOverlapFails
    BY DEF IInv, AloneInv, OnlyOverlapFails
  <1>2. QED
    BY <1>1, InitInv, NextInv, PTL DEF Spec

\* wipe leaves nothing of its ceremony, whatever is put or wiped beside it.
THEOREM WipeLeavesNothing == Spec => []WipedIsGone
  <1>1. IInv => WipedIsGone
    BY DEF IInv, GoneInv, WipedIsGone, InTree
  <1>2. QED
    BY <1>1, InitInv, NextInv, PTL DEF Spec
=============================================================================
