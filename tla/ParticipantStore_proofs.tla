----------------------- MODULE ParticipantStore_proofs ----------------------
(***************************************************************************)
(* Machine-checked proofs about ParticipantStore, for any number of calls,   *)
(* lines, seats and crashes.  The first part holds on every file system; what *)
(* a crash must not take away needs one whose fsync commits the directories   *)
(* above a file (MkdirDurable).                                             *)
(***************************************************************************)
EXTENDS ParticipantStore, WellFoundedInduction, TLAPS

(* The root's files. *)
RootInv ==
    /\ seen \in [Files -> Contents]
    /\ disk \in [Files -> SUBSET Contents]
    /\ made \subseteq Dirs
    /\ settled \subseteq made
    /\ \A f \in Files : seen[f] \in disk[f]
    /\ \A d \in made : RootDir \in made
    /\ \A d \in settled : RootDir \in settled

\* The files that no crash can take away.
Safe == {f \in Files : Nothing \notin disk[f] /\ Home[f] \in settled}

\* A file has been renamed into its directory.
Written(f) == Above[Home[f]] \subseteq made /\ seen[f] # Nothing

Labels == {"new", "sync envelope", "share", "sync share", "load",
           "index", "sync index", "done", "failed"}

CallInv ==
    /\ plan \in [Puts -> [tag : Tags, state : States]]
    /\ pc \in [Puts -> Labels]
    /\ index \in [Puts -> Seq(Puts)]
    /\ raced \subseteq Puts
    /\ crashes \in 0 .. MaxCrashes
    /\ \A n \in Puts :
         /\ pc[n] = "sync envelope" => Written(Envelope(Line(Tag(n))))
         /\ pc[n] = "sync share" => Written(Share(Tag(n)))
         /\ pc[n] = "sync index" => Written(Manifest)
         /\ pc[n] = "index" => index[n] # Nothing

ReaderType ==
    reader \in [state : {"idle", "inactive", "index", "no share", "share", "no group", "loaded"},
                entry : Puts \union {None}, share : Puts \union {None},
                group : Puts \union {None}, began : SUBSET Puts]

\* No tag twice.
Distinct(content) == \A i, j \in DOMAIN content : Tag(content[i]) = Tag(content[j]) => i = j

\* Every manifest that is there, may come back or is about to be written lists a
\* tag once; one of a newer build is the only one there can be, and nobody holds
\* a manifest then.
ManifestInv ==
    /\ \A content \in disk[Manifest] : Distinct(content)
    /\ \A n \in Puts : Distinct(index[n])
    /\ NewerIndex \in disk[Manifest] =>
         disk[Manifest] = {NewerIndex} /\ RootDir \in settled /\ Holding = {}

\* A share or an envelope comes from a put of its tag or its line.
FileInv ==
    \A f \in Files \ {Manifest} : \A content \in disk[f] :
        \/ content = Nothing
        \/ \E n \in Puts : /\ content = <<n>>
                          /\ f \in {Share(Tag(n)), Envelope(Line(Tag(n)))}

IInv == RootInv /\ CallInv /\ ReaderType /\ ManifestInv /\ FileInv

\* Which file lies where.
LEMMA FileFacts ==
    /\ Manifest \in Files /\ Home[Manifest] = RootDir /\ RootDir \in Dirs
    /\ \A l \in Lines : /\ Envelope(l) \in Files /\ Envelope(l) # Manifest
                        /\ Home[Envelope(l)] = Envelope(l)
    /\ \A t \in Tags : /\ Share(t) \in Files /\ Share(t) # Manifest
                       /\ Line(t) \in Lines
                       /\ \A l \in Lines : Share(t) # Envelope(l)
    /\ \A f \in Files : Home[f] \in Dirs
    /\ \A d \in Dirs : Above[d] = {d, RootDir}
  <1>1. \A t \in Tags : Line(t) \in Lines
    BY DEF Tags, Line
  <1>2. /\ Manifest \in Files
        /\ \A l \in Lines : Envelope(l) \in Files
        /\ \A t \in Tags : Share(t) \in Files
    BY DEF Files
  <1>3. \A l \in Lines : Envelope(l) # Manifest /\ \A t \in Tags : Share(t) # Envelope(l)
    BY DEF Envelope, Share, Manifest
  <1>4. \A t \in Tags : Share(t) # Manifest
    BY DEF Share, Manifest
  <1>5. Home[Manifest] = RootDir /\ RootDir \in Dirs
    BY <1>2 DEF Home, Dirs
  <1>6. ASSUME NEW l \in Lines PROVE Home[Envelope(l)] = Envelope(l) /\ Envelope(l) \in Dirs
    BY <1>2, <1>3 DEF Home, Envelope, Dirs
  <1>7. ASSUME NEW t \in Tags PROVE Home[Share(t)] \in Dirs
    <2>1. Home[Share(t)] = <<"share", Line(t)>>
      BY <1>2, <1>4 DEF Home, Share
    <2>2. QED
      BY <1>1, <2>1 DEF Dirs
  <1>8. \A f \in Files : Home[f] \in Dirs
    BY <1>5, <1>6, <1>7 DEF Files
  <1>9. \A d \in Dirs : Above[d] = {d, RootDir}
    BY DEF Above
  <1>10. QED
    BY <1>1, <1>2, <1>3, <1>4, <1>5, <1>6, <1>8, <1>9

LEMMA ContentFacts ==
    /\ Nothing \in Contents /\ Nothing # NewerIndex /\ NewerIndex \notin Seq(Puts)
    /\ \A n \in Puts : <<n>> \in Seq(Puts) /\ <<n>> # Nothing
    /\ Distinct(Nothing) /\ Distinct(NewerIndex)
  <1>1. NewerIndex \notin Seq(Puts)
    BY StoreAssumption DEF NewerIndex
  <1>2. Nothing \in Contents /\ Nothing # NewerIndex
    BY DEF Nothing, NewerIndex, Contents
  <1>3. \A n \in Puts : <<n>> \in Seq(Puts) /\ <<n>> # Nothing
    BY DEF Nothing
  <1>4. Distinct(Nothing) /\ Distinct(NewerIndex)
    BY DEF Distinct, Nothing, NewerIndex
  <1>5. QED
    BY <1>1, <1>2, <1>3, <1>4

LEMMA LeastExists ==
    ASSUME NEW S \in SUBSET Nat, S # {}
    PROVE  \E k \in S : \A j \in S : k <= j
  <1>1. \E i \in S : \A j \in S : ~(<<j, i>> \in OpToRel(<, Nat))
    BY NatLessThanWellFounded, WFMin
  <1>2. \A i, j \in Nat : j < i => <<j, i>> \in OpToRel(<, Nat)
    BY DEF OpToRel
  <1>3. \E i \in S : \A j \in S : ~(j < i)
    BY <1>1, <1>2, Zenon
  <1>4. QED
    BY <1>3

\* What add_entry returns: a list with the put's entry, every tag it had, no tag
\* twice if it had none twice, and no entry from elsewhere.
LEMMA AddEntryFacts ==
    ASSUME NEW s \in Seq(Puts), NEW n \in Puts
    PROVE  /\ AddEntry(s, n) \in Seq(Puts) /\ AddEntry(s, n) # Nothing
           /\ Distinct(s) => Distinct(AddEntry(s, n))
           /\ Lookup(AddEntry(s, n), Tag(n))
           /\ \A tag : Lookup(s, tag) => Lookup(AddEntry(s, n), tag)
           /\ \A i \in DOMAIN AddEntry(s, n) :
                 AddEntry(s, n)[i] = n \/ \E j \in DOMAIN s : AddEntry(s, n)[i] = s[j]
  <1> DEFINE same == Positions(s, Tag(n))
             a == AddEntry(s, n)
  <1>1. CASE same = {}
    <2>1. a = Append(s, n)
      BY <1>1 DEF AddEntry
    <2>2. /\ a \in Seq(Puts) /\ DOMAIN a = 1 .. Len(s) + 1 /\ DOMAIN s = 1 .. Len(s)
          /\ Len(s) \in Nat /\ a[Len(s) + 1] = n
          /\ \A i \in 1 .. Len(s) : a[i] = s[i]
      BY <2>1
    <2>3. \A i \in DOMAIN s : Tag(s[i]) # Tag(n)
      BY <1>1 DEF Positions
    <2>4. ASSUME Distinct(s) PROVE Distinct(a)
      BY <2>2, <2>3, <2>4 DEF Distinct
    <2>5. Lookup(a, Tag(n))
      BY <2>2 DEF Lookup, Positions
    <2>6. ASSUME NEW tag, Lookup(s, tag) PROVE Lookup(a, tag)
      BY <2>2, <2>6 DEF Lookup, Positions
    <2>7. a # Nothing
      BY <2>2 DEF Nothing
    <2>8. \A i \in DOMAIN a : a[i] = n \/ \E j \in DOMAIN s : a[i] = s[j]
      BY <2>2
    <2>9. QED
      BY <2>2, <2>4, <2>5, <2>6, <2>7, <2>8
  <1>2. CASE same # {}
    <2>1. PICK k \in same : a = [s EXCEPT ![k] = n]
      <3>1. \E k \in same : \A j \in same : k <= j
        <4>1. same \subseteq Nat
          BY DEF Positions
        <4>2. QED
          BY <1>2, <4>1, LeastExists
      <3>2. QED
        BY <1>2, <3>1 DEF AddEntry
    <2>2. k \in DOMAIN s /\ Tag(s[k]) = Tag(n)
      BY DEF Positions
    <2>3. /\ a \in Seq(Puts) /\ DOMAIN a = DOMAIN s
          /\ a[k] = n /\ \A i \in DOMAIN s : i # k => a[i] = s[i]
      BY <2>1, <2>2
    <2>4. \A i \in DOMAIN s : Tag(a[i]) = Tag(s[i])
      BY <2>2, <2>3
    <2>5. Distinct(s) => Distinct(a)
      BY <2>3, <2>4 DEF Distinct
    <2>6. Lookup(a, Tag(n)) /\ \A tag : Lookup(s, tag) => Lookup(a, tag)
      BY <2>2, <2>3, <2>4 DEF Lookup, Positions
    <2>7. a # Nothing
      BY <2>2, <2>3 DEF Nothing
    <2>8. \A i \in DOMAIN a : a[i] = n \/ \E j \in DOMAIN s : a[i] = s[j]
      BY <2>3
    <2>9. QED
      BY <2>3, <2>5, <2>6, <2>7, <2>8
  <1>3. QED
    BY <1>1, <1>2
-----------------------------------------------------------------------------
(* What the calls of the file system do to the root. *)

LEMMA CreateStep ==
    ASSUME RootInv, NEW f \in Files, NEW content \in Contents, content # Nothing,
           CreateAndRename(f, content)
    PROVE  /\ RootInv'
           /\ seen'[f] = content /\ disk'[f] = disk[f] \union {content}
           /\ \A h \in Files \ {f} : seen'[h] = seen[h] /\ disk'[h] = disk[h]
           /\ settled' = settled /\ made \subseteq made'
           /\ Above[Home[f]] \subseteq made'
           /\ Safe \subseteq Safe'
  <1>1. /\ made' = made \union Above[Home[f]]
        /\ seen' = [seen EXCEPT ![f] = content]
        /\ disk' = [disk EXCEPT ![f] = @ \union {content}]
        /\ settled' = settled
    BY DEF CreateAndRename
  <1>2. Home[f] \in Dirs /\ Above[Home[f]] = {Home[f], RootDir} /\ RootDir \in Dirs
    BY FileFacts
  <1>3. /\ seen'[f] = content /\ disk'[f] = disk[f] \union {content}
        /\ \A h \in Files \ {f} : seen'[h] = seen[h] /\ disk'[h] = disk[h]
    BY <1>1 DEF RootInv
  <1>4. seen' \in [Files -> Contents] /\ disk' \in [Files -> SUBSET Contents]
    BY <1>1 DEF RootInv
  <1>5. \A h \in Files : seen'[h] \in disk'[h]
    BY <1>3 DEF RootInv
  <1>6. RootInv'
    BY <1>1, <1>2, <1>4, <1>5 DEF RootInv
  <1>7. Safe \subseteq Safe'
    BY <1>1, <1>3 DEF Safe
  <1>8. QED
    BY <1>1, <1>3, <1>6, <1>7

LEMMA SyncStep ==
    ASSUME RootInv, NEW f \in Files, Above[Home[f]] \subseteq made, SyncHome(f)
    PROVE  /\ RootInv'
           /\ UNCHANGED <<seen, made>>
           /\ \A h \in Files : disk'[h] = {seen[h]} \/ disk'[h] = disk[h]
           /\ disk'[f] = {seen[f]}
           /\ settled \subseteq settled'
           /\ Safe \subseteq Safe'
           /\ MkdirDurable => Home[f] \in settled'
  <1>1. /\ disk' = [g \in Files |-> IF Home[g] = Home[f] THEN {seen[g]} ELSE disk[g]]
        /\ settled' = IF MkdirDurable THEN settled \union Above[Home[f]] ELSE settled
        /\ UNCHANGED <<seen, made>>
    BY DEF SyncHome
  <1>2. Home[f] \in Dirs /\ Above[Home[f]] = {Home[f], RootDir}
    BY FileFacts
  <1>3. /\ \A h \in Files : disk'[h] = {seen[h]} \/ disk'[h] = disk[h]
        /\ disk'[f] = {seen[f]}
    BY <1>1
  <1>4. settled \subseteq settled' /\ settled' \subseteq made'
    BY <1>1 DEF RootInv
  <1>5. disk' \in [Files -> SUBSET Contents]
    BY <1>1 DEF RootInv
  <1>6. \A d \in settled' : RootDir \in settled'
    BY <1>1, <1>2 DEF RootInv
  <1>7. RootInv'
    BY <1>1, <1>3, <1>4, <1>5, <1>6 DEF RootInv
  <1>8. Safe \subseteq Safe'
    BY <1>3, <1>4 DEF Safe, RootInv
  <1>9. MkdirDurable => Home[f] \in settled'
    BY <1>1, <1>2
  <1>10. QED
    BY <1>1, <1>3, <1>4, <1>7, <1>8, <1>9

LEMMA PowerLossStep ==
    ASSUME RootInv, PowerLoss
    PROVE  /\ RootInv'
           /\ \A f \in Files : /\ disk'[f] = {seen'[f]}
                               /\ seen'[f] \in disk[f] \union {Nothing}
                               /\ Home[f] \in settled => seen'[f] \in disk[f]
           /\ settled \subseteq settled'
           /\ Safe \subseteq Safe'
  <1>1. PICK lost \in SUBSET (made \ settled), back \in SUBSET (settled \ made),
             left \in [Doubtful -> UNION {disk[f] : f \in Files}] :
        /\ \A f \in Doubtful : left[f] \in disk[f]
        /\ made' = {d \in made \union back :
                       Above[d] \cap lost = {} /\ Above[d] \subseteq made \union back}
        /\ settled' = made'
        /\ seen' = [f \in Files |->
                      IF Home[f] \notin made' THEN Nothing
                      ELSE IF f \in Doubtful THEN left[f]
                      ELSE seen[f]]
        /\ disk' = [f \in Files |-> {seen'[f]}]
    BY Zenon DEF PowerLoss
  <1>2. \A d \in made : d \in Dirs /\ RootDir \in made /\ Above[d] = {d, RootDir}
    BY FileFacts DEF RootInv
  <1>3. made' = {d \in made : d \notin lost /\ RootDir \notin lost}
    <2>1. back = {}
      BY DEF RootInv
    <2>2. made' = {d \in made : Above[d] \cap lost = {} /\ Above[d] \subseteq made}
      <3>1. made \union back = made
        BY <2>1
      <3>2. QED
        BY <1>1, <3>1, Zenon
    <2>3. QED
      BY <1>2, <2>2
  <1>4. settled \subseteq made' /\ made' \subseteq made
    BY <1>3 DEF RootInv
  <1>5. \A d \in made' : RootDir \in made'
    BY <1>2, <1>3
  <1>6. ASSUME NEW f \in Files
        PROVE  /\ seen'[f] \in disk[f] \union {Nothing}
               /\ Home[f] \in settled => seen'[f] \in disk[f]
    <2>1. seen[f] \in disk[f]
      BY DEF RootInv
    <2>2. seen'[f] = IF Home[f] \notin made' THEN Nothing
                     ELSE IF f \in Doubtful THEN left[f]
                     ELSE seen[f]
      BY <1>1
    <2>3. QED
      BY <1>1, <1>4, <2>1, <2>2
  <1>7. seen' \in [Files -> Contents]
    <2>1. \A f \in Files : seen'[f] \in Contents
      BY <1>6, ContentFacts DEF RootInv
    <2>2. seen' = [f \in Files |-> seen'[f]]
      BY <1>1
    <2>3. QED
      BY <2>1, <2>2
  <1>8. /\ disk' \in [Files -> SUBSET Contents]
        /\ \A f \in Files : disk'[f] = {seen'[f]}
    BY <1>1, <1>7
  <1>9. RootInv'
    BY <1>1, <1>4, <1>5, <1>7, <1>8 DEF RootInv
  <1>10. Safe \subseteq Safe'
    BY <1>1, <1>4, <1>6, <1>8 DEF Safe
  <1>11. QED
    BY <1>1, <1>4, <1>6, <1>8, <1>9, <1>10
-----------------------------------------------------------------------------
(* Types, and what every manifest is like, on any file system. *)

LEMMA InitIInv == Init => IInv
  <1> SUFFICES ASSUME Init PROVE IInv
    OBVIOUS
  <1>1. PICK first \in {Nothing, NewerIndex} :
          /\ seen = [f \in Files |-> IF f = Manifest THEN first ELSE Nothing]
          /\ disk = [f \in Files |-> {seen[f]}]
          /\ made = IF first = Nothing THEN {} ELSE {RootDir}
          /\ settled = made
    BY DEF Init
  <1>2. first \in Contents
    BY <1>1, ContentFacts DEF Contents
  <1>3. RootInv
    BY <1>1, <1>2, ContentFacts, FileFacts DEF RootInv
  <1>4. CallInv
    <2>1. \A n \in Puts : pc[n] = "new" /\ index[n] \in Seq(Puts)
      BY DEF Init, Nothing
    <2>2. 0 \in 0 .. MaxCrashes
      BY StoreAssumption
    <2>3. QED
      BY <2>1, <2>2 DEF Init, CallInv, Labels
  <1>5. ReaderType
    BY DEF Init, Idle, ReaderType
  <1>6. ManifestInv
    <2>1. disk[Manifest] = {first} /\ (first = NewerIndex => RootDir \in settled)
      BY <1>1, FileFacts, ContentFacts
    <2>2. Holding = {} /\ \A n \in Puts : index[n] = Nothing
      BY DEF Init, Holding
    <2>3. QED
      BY <1>1, <2>1, <2>2, ContentFacts DEF ManifestInv
  <1>7. FileInv
    BY <1>1 DEF FileInv
  <1>8. QED
    BY <1>3, <1>4, <1>5, <1>6, <1>7 DEF IInv

LEMMA TagType ==
    ASSUME CallInv, NEW n \in Puts
    PROVE  /\ Tag(n) \in Tags /\ Line(Tag(n)) \in Lines
           /\ Share(Tag(n)) \in Files /\ Envelope(Line(Tag(n))) \in Files
           /\ Share(Tag(n)) # Manifest /\ Envelope(Line(Tag(n))) # Manifest
  <1>1. Tag(n) \in Tags
    BY DEF CallInv, Tag
  <1>2. QED
    BY <1>1, FileFacts

\* A put goes on to its next call.
LEMMA PcStep ==
    ASSUME CallInv, NEW n \in Puts, NEW label \in Labels, Goto(n, label),
           index' \in [Puts -> Seq(Puts)],
           \A m \in Puts \ {n} : index'[m] = index[m],
           raced' \subseteq Puts, UNCHANGED <<plan, crashes>>,
           made \subseteq made',
           \A f \in Files : seen[f] # Nothing => seen'[f] # Nothing,
           label = "index" => index'[n] # Nothing,
           NEW f \in Files,
           label = "sync envelope" => f = Envelope(Line(Tag(n))),
           label = "sync share" => f = Share(Tag(n)),
           label = "sync index" => f = Manifest,
           label \in {"sync envelope", "sync share", "sync index"} =>
               Above[Home[f]] \subseteq made' /\ seen'[f] # Nothing
    PROVE  CallInv'
  <1>1. /\ pc' \in [Puts -> Labels] /\ pc'[n] = label
        /\ \A m \in Puts \ {n} : pc'[m] = pc[m]
    BY DEF Goto, CallInv
  <1>2. \A m \in Puts : Tag(m)' = Tag(m)
    BY DEF Tag
  <1>3. ASSUME NEW m \in Puts
        PROVE  /\ pc'[m] = "sync envelope" => Written(Envelope(Line(Tag(m))))'
               /\ pc'[m] = "sync share" => Written(Share(Tag(m)))'
               /\ pc'[m] = "sync index" => Written(Manifest)'
               /\ pc'[m] = "index" => index'[m] # Nothing
    <2>1. CASE m = n
      BY <1>1, <1>2, <2>1 DEF Written
    <2>2. CASE m # n
      <3>1. \A h \in Files : Written(h) => Above[Home[h]] \subseteq made' /\ seen'[h] # Nothing
        BY DEF Written
      <3>2. pc'[m] = pc[m] /\ index'[m] = index[m]
        BY <1>1, <2>2
      <3>3. QED
        BY <1>2, <3>1, <3>2, TagType, FileFacts DEF Written, CallInv
    <2>3. QED
      BY <2>1, <2>2
  <1>4. QED
    BY <1>1, <1>3 DEF CallInv

\* A step that brings no new manifest and no new holder.
LEMMA ManifestKept ==
    ASSUME IInv, plan' = plan,
           disk'[Manifest] \subseteq disk[Manifest] \union {Nothing},
           NewerIndex \in disk[Manifest] => disk'[Manifest] = disk[Manifest],
           settled \subseteq settled',
           \A n \in Puts : index'[n] \in {index[n], Nothing},
           Holding' \subseteq Holding
    PROVE  ManifestInv'
  <1>1. \A content : Distinct(content)' <=> Distinct(content)
    BY DEF Distinct, Tag
  <1>2. \A content \in disk'[Manifest] : Distinct(content)
    BY ContentFacts DEF IInv, ManifestInv
  <1>3. \A n \in Puts : Distinct(index'[n])
    BY ContentFacts DEF IInv, ManifestInv
  <1>4. (\A content \in disk[Manifest] : Distinct(content))'
    BY <1>1, <1>2 DEF Distinct, Tag
  <1>5. (\A n \in Puts : Distinct(index[n]))'
    BY <1>3 DEF Distinct, Tag
  <1>6. ASSUME NewerIndex \in disk'[Manifest]
        PROVE  disk'[Manifest] = {NewerIndex} /\ RootDir \in settled' /\ Holding' = {}
    <2>1. NewerIndex \in disk[Manifest]
      BY <1>6, ContentFacts
    <2>2. QED
      BY <2>1 DEF IInv, ManifestInv
  <1>7. QED
    BY <1>4, <1>5, <1>6 DEF ManifestInv

\* A step after which a share or an envelope holds at most one more put.
LEMMA FileKept ==
    ASSUME IInv, plan' = plan,
           \A f \in Files \ {Manifest} : \A content \in disk'[f] :
               \/ content \in disk[f] \union {Nothing}
               \/ \E n \in Puts : /\ content = <<n>>
                                 /\ f \in {Share(Tag(n)), Envelope(Line(Tag(n)))}
    PROVE  FileInv'
  <1>1. \A n \in Puts : Tag(n)' = Tag(n)
    BY DEF Tag
  <1>2. \A f \in Files \ {Manifest} : \A content \in disk'[f] :
            \/ content = Nothing
            \/ \E n \in Puts : /\ content = <<n>>
                              /\ f \in {Share(Tag(n)), Envelope(Line(Tag(n)))}
    BY DEF IInv, FileInv
  <1>3. QED
    BY <1>1, <1>2 DEF FileInv

LEMMA PutFileStep ==
    ASSUME IInv, NEW n \in Puts, PutEnvelope(n) \/ PutShare(n)
    PROVE  /\ IInv'
           /\ Safe \subseteq Safe' /\ settled' = settled
           /\ seen'[Manifest] = seen[Manifest] /\ disk'[Manifest] = disk[Manifest]
           /\ UNCHANGED <<plan, index, raced, reader>>
           /\ pc'[n] \in {"sync envelope", "sync share"}
           /\ pc'[n] = "sync share" => pc[n] = "share"
           /\ \A m \in Puts \ {n} : pc'[m] = pc[m]
           /\ \A f \in Files : \/ disk'[f] = disk[f]
                                \/ /\ f \in {Share(Tag(n)), Envelope(Line(Tag(n)))}
                                   /\ disk'[f] = disk[f] \union {<<n>>}
  <1> DEFINE f == IF pc[n] = "new" THEN Envelope(Line(Tag(n))) ELSE Share(Tag(n))
             label == IF pc[n] = "new" THEN "sync envelope" ELSE "sync share"
  <1>1. /\ pc[n] \in {"new", "share"}
        /\ CreateAndRename(f, <<n>>) /\ Goto(n, label)
        /\ UNCHANGED <<plan, index, raced, reader, crashes>>
    BY DEF PutEnvelope, PutShare
  <1>2. f \in Files /\ f # Manifest /\ label \in Labels
    BY TagType DEF IInv, Labels
  <1>3. <<n>> \in Contents /\ <<n>> # Nothing
    BY ContentFacts DEF Contents
  <1>4. /\ RootInv' /\ seen'[f] = <<n>>
        /\ \A h \in Files \ {f} : seen'[h] = seen[h] /\ disk'[h] = disk[h]
        /\ settled' = settled /\ made \subseteq made'
        /\ Above[Home[f]] \subseteq made'
        /\ disk'[f] = disk[f] \union {<<n>>} /\ Safe \subseteq Safe'
    BY <1>1, <1>2, <1>3, CreateStep DEF IInv
  <1>5. \A h \in Files : seen[h] # Nothing => seen'[h] # Nothing
    BY <1>3, <1>4
  <1>6. CallInv'
    <2>1. /\ label = "sync envelope" => f = Envelope(Line(Tag(n)))
          /\ label = "sync share" => f = Share(Tag(n))
          /\ label # "sync index" /\ label # "index"
      OBVIOUS
    <2>2. index' \in [Puts -> Seq(Puts)] /\ raced' \subseteq Puts
      BY <1>1 DEF IInv, CallInv
    <2> HIDE DEF f, label
    <2>3. QED
      BY <1>1, <1>2, <1>3, <1>4, <1>5, <2>1, <2>2, PcStep DEF IInv
  <1>7. ManifestInv'
    <2>1. disk'[Manifest] = disk[Manifest]
      BY <1>2, <1>4, FileFacts
    <2>2. Holding' \subseteq Holding
      BY <1>1 DEF Goto, Holding, IInv, CallInv
    <2>3. QED
      BY <1>1, <1>4, <2>1, <2>2, ManifestKept
  <1>8. ReaderType'
    BY <1>1 DEF IInv, ReaderType
  <1>9. pc'[n] = label /\ \A m \in Puts \ {n} : pc'[m] = pc[m]
    BY <1>1, <1>2 DEF Goto, IInv, CallInv
  <1>10. IInv'
    <2>1. FileInv'
      BY <1>1, <1>4, FileKept
    <2>2. QED
      BY <1>4, <1>6, <1>7, <1>8, <2>1 DEF IInv
  <1>11. f \in {Share(Tag(n)), Envelope(Line(Tag(n)))}
    OBVIOUS
  <1>12. seen'[Manifest] = seen[Manifest] /\ disk'[Manifest] = disk[Manifest]
    BY <1>2, <1>4, FileFacts
  <1>13. label = "sync share" => pc[n] = "share"
    BY <1>1
  <1>14. label \in {"sync envelope", "sync share"}
    OBVIOUS
  <1> HIDE DEF f, label
  <1>15. QED
    BY <1>1, <1>4, <1>9, <1>10, <1>11, <1>12, <1>13, <1>14

LEMMA SyncFileStep ==
    ASSUME IInv, NEW n \in Puts, SyncEnvelope(n) \/ SyncShare(n) \/ SyncIndex(n)
    PROVE  /\ IInv'
           /\ Safe \subseteq Safe' /\ settled \subseteq settled' /\ seen' = seen
           /\ disk'[Manifest] = {seen[Manifest]} \/ disk'[Manifest] = disk[Manifest]
           /\ UNCHANGED <<plan, index, raced, reader>>
           /\ \A m \in Puts \ {n} : pc'[m] = pc[m]
           /\ \/ /\ pc[n] = "sync envelope" /\ pc'[n] = "share"
                 /\ MkdirDurable => Envelope(Line(Tag(n))) \in Safe'
              \/ /\ pc[n] = "sync share" /\ pc'[n] = "load"
                 /\ MkdirDurable => Share(Tag(n)) \in Safe'
              \/ /\ pc[n] = "sync index" /\ pc'[n] = "done"
                 /\ disk'[Manifest] = {seen[Manifest]}
                 /\ MkdirDurable => RootDir \in settled'
  <1> DEFINE f == IF pc[n] = "sync envelope" THEN Envelope(Line(Tag(n)))
                  ELSE IF pc[n] = "sync share" THEN Share(Tag(n)) ELSE Manifest
             label == IF pc[n] = "sync envelope" THEN "share"
                      ELSE IF pc[n] = "sync share" THEN "load" ELSE "done"
  <1>1. /\ pc[n] \in {"sync envelope", "sync share", "sync index"}
        /\ SyncHome(f) /\ Goto(n, label)
        /\ UNCHANGED <<plan, index, raced, reader, crashes>>
    BY DEF SyncEnvelope, SyncShare, SyncIndex
  <1>2. f \in Files /\ label \in {"share", "load", "done"} /\ label \in Labels
    BY TagType, FileFacts DEF IInv, Labels
  <1>3. Above[Home[f]] \subseteq made /\ seen[f] # Nothing
    BY <1>1 DEF IInv, CallInv, Written
  <1>4. /\ RootInv'
        /\ UNCHANGED <<seen, made>>
        /\ \A h \in Files : disk'[h] = {seen[h]} \/ disk'[h] = disk[h]
        /\ disk'[f] = {seen[f]}
        /\ settled \subseteq settled' /\ Safe \subseteq Safe'
        /\ MkdirDurable => Home[f] \in settled'
    BY <1>1, <1>2, <1>3, SyncStep DEF IInv
  <1>5. CallInv'
    <2>1. label \notin {"sync envelope", "sync share", "sync index", "index"}
      OBVIOUS
    <2>2. index' \in [Puts -> Seq(Puts)] /\ raced' \subseteq Puts
      BY <1>1 DEF IInv, CallInv
    <2> HIDE DEF f, label
    <2>3. QED
      BY <1>1, <1>2, <1>4, <2>1, <2>2, PcStep DEF IInv
  <1>6. pc'[n] = label /\ \A m \in Puts \ {n} : pc'[m] = pc[m]
    BY <1>1 DEF Goto, IInv, CallInv
  <1>7. ManifestInv'
    <2>1. Holding' \subseteq Holding
      BY <1>2, <1>6 DEF Holding
    <2>2. seen[Manifest] \in disk[Manifest]
      BY FileFacts DEF IInv, RootInv
    <2>3. disk'[Manifest] = {seen[Manifest]} \/ disk'[Manifest] = disk[Manifest]
      BY <1>4, FileFacts
    <2>4. NewerIndex \in disk[Manifest] => disk'[Manifest] = disk[Manifest]
      BY <2>2, <2>3 DEF IInv, ManifestInv
    <2>5. QED
      BY <1>1, <1>4, <2>1, <2>2, <2>3, <2>4, ManifestKept
  <1>8. ReaderType'
    BY <1>1 DEF IInv, ReaderType
  <1>9. MkdirDurable => f \in Safe'
    BY <1>2, <1>3, <1>4 DEF Safe
  <1>10. FileInv'
    <2>1. \A h \in Files : seen[h] \in disk[h]
      BY DEF IInv, RootInv
    <2>2. \A h \in Files : disk'[h] \subseteq disk[h]
      BY <1>4, <2>1
    <2>3. QED
      BY <1>1, <2>2, FileKept
  <1>11. IInv'
    BY <1>4, <1>5, <1>7, <1>8, <1>10 DEF IInv
  <1>12. QED
    BY <1>1, <1>4, <1>6, <1>9, <1>11, FileFacts

\* A manifest that can be loaded is a list of puts, and then one of a newer build
\* cannot turn up any more.
LEMMA LoadedIndex ==
    ASSUME IInv, KnownVersion(seen[Manifest])
    PROVE  /\ seen[Manifest] \in Seq(Puts) /\ seen[Manifest] \in disk[Manifest]
           /\ NewerIndex \notin disk[Manifest]
  <1>1. seen[Manifest] \in Contents /\ seen[Manifest] \in disk[Manifest]
    BY FileFacts DEF IInv, RootInv
  <1>2. seen[Manifest] # NewerIndex
    BY DEF KnownVersion
  <1>3. QED
    BY <1>1, <1>2 DEF Contents, IInv, ManifestInv

LEMMA LoadIndexStep ==
    ASSUME IInv, NEW n \in Puts, LoadIndex(n)
    PROVE  IInv'
  <1>1. UNCHANGED <<seen, disk, made, settled, plan, reader, crashes>> /\ pc[n] = "load"
    BY DEF LoadIndex, root
  <1>2. CASE ~KnownVersion(seen[Manifest])
    <2>1. Goto(n, "failed") /\ UNCHANGED <<index, raced>> /\ "failed" \in Labels
      BY <1>2 DEF LoadIndex, Labels
    <2>2. CallInv'
      BY <1>1, <2>1, FileFacts, PcStep DEF IInv, CallInv
    <2>3. Holding' \subseteq Holding
      BY <2>1 DEF Goto, Holding, IInv, CallInv
    <2>4. RootInv' /\ ReaderType'
      BY <1>1 DEF IInv, RootInv, ReaderType
    <2>5. ManifestInv'
      BY <1>1, <2>1, <2>3, ManifestKept
    <2>6. FileInv'
      BY <1>1, FileKept
    <2>7. QED
      BY <2>2, <2>4, <2>5, <2>6 DEF IInv
  <1>3. CASE KnownVersion(seen[Manifest])
    <2> DEFINE loaded == AddEntry(seen[Manifest], n)
    <2>1. /\ index' = [index EXCEPT ![n] = loaded]
          /\ raced' = IF Holding = {} THEN raced ELSE raced \union Holding \union {n}
          /\ Goto(n, "index") /\ "index" \in Labels
      BY <1>3 DEF LoadIndex, Labels
    <2>2. /\ loaded \in Seq(Puts) /\ loaded # Nothing
          /\ Distinct(seen[Manifest]) => Distinct(loaded)
      BY <1>3, LoadedIndex, AddEntryFacts
    <2> HIDE DEF loaded
    <2>3. /\ index' \in [Puts -> Seq(Puts)] /\ index'[n] = loaded
          /\ \A m \in Puts \ {n} : index'[m] = index[m]
      BY <2>1, <2>2 DEF IInv, CallInv
    <2>4. raced' \subseteq Puts
      BY <2>1 DEF IInv, CallInv, Holding
    <2>5. CallInv'
      <3>1. index'[n] # Nothing
        BY <2>2, <2>3
      <3>2. /\ made \subseteq made' /\ UNCHANGED <<plan, crashes>>
            /\ \A f \in Files : seen[f] # Nothing => seen'[f] # Nothing
        BY <1>1
      <3>3. CallInv /\ Goto(n, "index") /\ "index" \in Labels /\ Manifest \in Files
        BY <2>1, FileFacts DEF IInv
      <3>4. QED
        BY <2>3, <2>4, <3>1, <3>2, <3>3, PcStep
    <2>6. RootInv' /\ ReaderType'
      BY <1>1 DEF IInv, RootInv, ReaderType
    <2>7. \A content \in disk[Manifest] : Distinct(content)
      BY DEF IInv, ManifestInv
    <2>8. \A m \in Puts : Distinct(index'[m])
      BY <1>3, <2>2, <2>3, <2>7, LoadedIndex DEF IInv, ManifestInv
    <2>9. ManifestInv'
      <3>1. (\A content \in disk[Manifest] : Distinct(content))'
        BY <1>1, <2>7 DEF Distinct, Tag
      <3>2. (\A m \in Puts : Distinct(index[m]))'
        BY <1>1, <2>8 DEF Distinct, Tag
      <3>3. NewerIndex \notin disk'[Manifest]
        BY <1>1, <1>3, LoadedIndex
      <3>4. QED
        BY <3>1, <3>2, <3>3 DEF ManifestInv
    <2>10. FileInv'
      BY <1>1, FileKept
    <2>11. QED
      BY <2>5, <2>6, <2>9, <2>10 DEF IInv
  <1>4. QED
    BY <1>2, <1>3

LEMMA PutIndexStep ==
    ASSUME IInv, NEW n \in Puts, PutIndex(n)
    PROVE  /\ IInv'
           /\ pc[n] = "index" /\ pc'[n] = "sync index"
           /\ \A m \in Puts \ {n} : pc'[m] = pc[m] /\ index'[m] = index[m]
           /\ index'[n] = Nothing
           /\ seen'[Manifest] = index[n] /\ disk'[Manifest] = disk[Manifest] \union {index[n]}
           /\ \A f \in Files \ {Manifest} : seen'[f] = seen[f] /\ disk'[f] = disk[f]
           /\ settled' = settled /\ Safe \subseteq Safe'
           /\ UNCHANGED <<plan, raced, reader>>
  <1>1. /\ pc[n] = "index"
        /\ CreateAndRename(Manifest, index[n])
        /\ index' = [index EXCEPT ![n] = Nothing]
        /\ Goto(n, "sync index")
        /\ UNCHANGED <<plan, raced, reader, crashes>>
    BY DEF PutIndex
  <1>2. index[n] \in Seq(Puts) /\ index[n] \in Contents /\ index[n] # Nothing /\ Nothing \in Seq(Puts)
    <2>1. index[n] \in Seq(Puts) /\ index[n] # Nothing
      BY <1>1 DEF IInv, CallInv
    <2>2. Nothing \in Seq(Puts)
      BY DEF Nothing
    <2>3. QED
      BY <2>1, <2>2 DEF Contents
  <1>3. /\ RootInv'
        /\ seen'[Manifest] = index[n] /\ disk'[Manifest] = disk[Manifest] \union {index[n]}
        /\ \A h \in Files \ {Manifest} : seen'[h] = seen[h] /\ disk'[h] = disk[h]
        /\ settled' = settled /\ made \subseteq made'
        /\ Above[Home[Manifest]] \subseteq made'
        /\ Safe \subseteq Safe'
    BY <1>1, <1>2, FileFacts, CreateStep DEF IInv
  <1>4. /\ pc'[n] = "sync index" /\ index'[n] = Nothing
        /\ index' \in [Puts -> Seq(Puts)]
        /\ \A m \in Puts \ {n} : pc'[m] = pc[m] /\ index'[m] = index[m]
    BY <1>1, <1>2 DEF Goto, IInv, CallInv
  <1>5. CallInv'
    <2>1. \A h \in Files : seen[h] # Nothing => seen'[h] # Nothing
      BY <1>2, <1>3
    <2>2. "sync index" \in Labels /\ raced' \subseteq Puts
      BY <1>1 DEF Labels, IInv, CallInv
    <2>3. QED
      BY <1>1, <1>2, <1>3, <1>4, <2>1, <2>2, FileFacts, PcStep DEF IInv
  <1>6. ManifestInv'
    <2>0. plan' = plan
      BY <1>1
    <2>1. \A content \in disk'[Manifest] : Distinct(content)
      BY <1>3 DEF IInv, ManifestInv
    <2>2. \A m \in Puts : Distinct(index'[m])
      BY <1>4, ContentFacts DEF IInv, ManifestInv
    <2>3. (\A content \in disk[Manifest] : Distinct(content))'
      BY <2>0, <2>1 DEF Distinct, Tag
    <2>4. (\A m \in Puts : Distinct(index[m]))'
      BY <2>0, <2>2 DEF Distinct, Tag
    <2>5. NewerIndex \notin disk'[Manifest]
      <3>1. n \in Holding
        BY <1>1 DEF Holding
      <3>2. NewerIndex \notin disk[Manifest]
        BY <3>1 DEF IInv, ManifestInv
      <3>3. QED
        BY <1>2, <1>3, <3>2, ContentFacts
    <2>6. QED
      BY <2>3, <2>4, <2>5 DEF ManifestInv
  <1>7. ReaderType'
    BY <1>1 DEF IInv, ReaderType
  <1>8. FileInv'
    BY <1>1, <1>3, FileKept
  <1>9. IInv'
    BY <1>3, <1>5, <1>6, <1>7, <1>8 DEF IInv
  <1>10. QED
    BY <1>1, <1>3, <1>4, <1>9

LEMMA GiveUpStep ==
    ASSUME IInv, NEW n \in Puts, GiveUp(n)
    PROVE  IInv'
  <1>1. /\ index' = [index EXCEPT ![n] = Nothing]
        /\ Goto(n, "failed") /\ "failed" \in Labels
        /\ UNCHANGED <<seen, disk, made, settled, plan, raced, reader, crashes>>
    BY DEF GiveUp, root, Labels
  <1>2. /\ index' \in [Puts -> Seq(Puts)]
        /\ index'[n] = Nothing /\ \A m \in Puts \ {n} : index'[m] = index[m]
    <2>1. Nothing \in Seq(Puts)
      BY DEF Nothing
    <2>2. QED
      BY <1>1, <2>1 DEF IInv, CallInv
  <1>3. CallInv'
    <2>1. raced' \subseteq Puts
      BY <1>1 DEF IInv, CallInv
    <2>2. QED
      BY <1>1, <1>2, <2>1, FileFacts, PcStep DEF IInv
  <1>4. Holding' \subseteq Holding
    BY <1>1 DEF Goto, Holding, IInv, CallInv
  <1>5. RootInv' /\ ReaderType'
    BY <1>1 DEF IInv, RootInv, ReaderType
  <1>6. ManifestInv'
    BY <1>1, <1>2, <1>4, ManifestKept
  <1>7. FileInv'
    BY <1>1, FileKept
  <1>8. QED
    BY <1>3, <1>5, <1>6, <1>7 DEF IInv

LEMMA CrashStep ==
    ASSUME IInv, Crash
    PROVE  IInv'
  <1>1. /\ PowerLoss
        /\ pc' = [n \in Puts |-> IF n \in Running THEN "failed" ELSE pc[n]]
        /\ index' = [n \in Puts |-> Nothing]
        /\ reader' = Idle
        /\ crashes < MaxCrashes /\ crashes' = crashes + 1
        /\ UNCHANGED <<plan, raced>>
    BY DEF Crash
  <1>2. /\ RootInv'
        /\ \A f \in Files : /\ disk'[f] = {seen'[f]}
                            /\ seen'[f] \in disk[f] \union {Nothing}
                            /\ Home[f] \in settled => seen'[f] \in disk[f]
        /\ settled \subseteq settled'
    BY <1>1, PowerLossStep DEF IInv
  <1>3. \A n \in Puts : pc'[n] \in {"new", "done", "failed"}
    BY <1>1 DEF Running
  <1>4. CallInv'
    <2>1. crashes' \in 0 .. MaxCrashes
      <3>1. crashes \in 0 .. MaxCrashes /\ MaxCrashes \in Nat
        BY StoreAssumption DEF IInv, CallInv
      <3>2. crashes < MaxCrashes /\ crashes' = crashes + 1
        BY <1>1
      <3>3. QED
        BY <3>1, <3>2
    <2>2. pc' \in [Puts -> Labels] /\ index' \in [Puts -> Seq(Puts)]
      <3>1. \A n \in Puts : pc'[n] \in Labels
        BY <1>3 DEF Labels
      <3>2. pc' = [n \in Puts |-> pc'[n]]
        BY <1>1
      <3>3. Nothing \in Seq(Puts) /\ index' = [n \in Puts |-> Nothing]
        BY <1>1 DEF Nothing
      <3>4. QED
        BY <3>1, <3>2, <3>3
    <2>3. QED
      BY <1>1, <1>3, <2>1, <2>2 DEF IInv, CallInv
  <1>5. ManifestInv'
    <2>1. Holding' \subseteq Holding
      BY <1>3 DEF Holding
    <2>2. disk'[Manifest] \subseteq disk[Manifest] \union {Nothing}
      BY <1>2, FileFacts
    <2>3. NewerIndex \in disk[Manifest] => disk'[Manifest] = disk[Manifest]
      BY <1>2, FileFacts DEF IInv, ManifestInv
    <2>4. QED
      BY <1>1, <1>2, <2>1, <2>2, <2>3, ManifestKept
  <1>6. ReaderType'
    BY <1>1 DEF ReaderType, Idle
  <1>7. FileInv'
    BY <1>1, <1>2, FileKept
  <1>8. QED
    BY <1>2, <1>4, <1>5, <1>6, <1>7 DEF IInv

LEMMA ReadIndexResult ==
    ASSUME IInv, ReadIndex
    PROVE  /\ KnownVersion(seen[Manifest])
           /\ reader'.began = {n \in Done : Line(Tag(n)) = Genesis}
           /\ reader'.share = None /\ reader'.group = None
           /\ \/ /\ Active(seen[Manifest]) = {}
                 /\ reader'.state = "inactive" /\ reader'.entry = None
              \/ /\ reader'.state = "index"
                 /\ \E i \in Active(seen[Manifest]) : reader'.entry = seen[Manifest][i]
           /\ ReaderType'
           /\ UNCHANGED <<root, plan, pc, index, raced, crashes>>
  <1> DEFINE active == Active(seen[Manifest])
             first == CHOOSE i \in active : \A j \in active : i <= j
  <1>1. /\ KnownVersion(seen[Manifest])
        /\ reader' = [state |-> IF active = {} THEN "inactive" ELSE "index",
                      entry |-> IF active = {} THEN None ELSE seen[Manifest][first],
                      share |-> None, group |-> None,
                      began |-> {n \in Done : Line(Tag(n)) = Genesis}]
        /\ UNCHANGED <<root, plan, pc, index, raced, crashes>>
    BY DEF ReadIndex
  <1>2. seen[Manifest] \in Seq(Puts)
    BY <1>1, LoadedIndex
  <1>3. active # {} => first \in active
    <2>1. active \subseteq Nat
      BY <1>2 DEF Active
    <2>2. active # {} => \E i \in active : \A j \in active : i <= j
      BY <2>1, LeastExists
    <2>3. QED
      BY <2>2
  <1>4. active # {} => seen[Manifest][first] \in Puts
    <2>1. active \subseteq DOMAIN seen[Manifest]
      BY DEF Active
    <2>2. \A i \in DOMAIN seen[Manifest] : seen[Manifest][i] \in Puts
      BY <1>2
    <2> HIDE DEF active, first
    <2>3. QED
      BY <1>3, <2>1, <2>2
  <1> HIDE DEF first, active
  <1>5. /\ reader'.state = IF active = {} THEN "inactive" ELSE "index"
        /\ reader'.entry = IF active = {} THEN None ELSE seen[Manifest][first]
        /\ reader'.began = {n \in Done : Line(Tag(n)) = Genesis}
        /\ reader'.share = None /\ reader'.group = None
    BY <1>1
  <1>6. ReaderType'
    BY <1>1, <1>4 DEF ReaderType, Done
  <1>7. QED
    BY <1>1, <1>3, <1>5, <1>6 DEF active

\* What a reader finds in a share or an envelope.
LEMMA SeenFile ==
    ASSUME IInv, NEW f \in Files \ {Manifest}, seen[f] # Nothing
    PROVE  \E n \in Puts : /\ seen[f][1] = n
                           /\ f \in {Share(Tag(n)), Envelope(Line(Tag(n)))}
  <1>1. seen[f] \in disk[f]
    BY DEF IInv, RootInv
  <1>2. \E n \in Puts : seen[f] = <<n>> /\ f \in {Share(Tag(n)), Envelope(Line(Tag(n)))}
    BY <1>1 DEF IInv, FileInv
  <1>3. QED
    BY <1>2

\* load_share.
LEMMA ReadShareStep ==
    ASSUME IInv, ReadShare, reader.entry \in Puts
    PROVE  /\ UNCHANGED <<seen, disk, made, settled, plan, pc, index, raced, crashes>>
           /\ ReaderType'
           /\ reader.state = "index"
           /\ \/ /\ seen[Share(Tag(reader.entry))] = Nothing
                 /\ reader'.state = "no share" /\ reader'.began = {}
              \/ /\ seen[Share(Tag(reader.entry))] # Nothing
                 /\ reader'.state = "share" /\ reader'.entry = reader.entry
                 /\ reader'.share = seen[Share(Tag(reader.entry))][1]
                 /\ reader'.group = None /\ reader'.began = reader.began
  <1> DEFINE content == seen[Share(Tag(reader.entry))]
  <1>1. /\ UNCHANGED <<seen, disk, made, settled, plan, pc, index, raced, crashes>>
        /\ reader.state = "index"
    BY DEF ReadShare, root
  <1>2. CASE content = Nothing
    <2>1. reader' = [Idle EXCEPT !.state = "no share"]
      BY <1>2 DEF ReadShare
    <2>2. ReaderType' /\ reader'.state = "no share" /\ reader'.began = {}
      BY <2>1 DEF ReaderType, Idle
    <2>3. QED
      BY <1>1, <1>2, <2>2
  <1>3. CASE content # Nothing
    <2>1. reader' = [state |-> "share", entry |-> reader.entry, share |-> content[1],
                     group |-> None, began |-> reader.began]
      BY <1>3 DEF ReadShare
    <2>2. content[1] \in Puts
      BY <1>3, SeenFile, TagType DEF IInv
    <2>3. ReaderType'
      BY <2>1, <2>2 DEF IInv, ReaderType
    <2>4. QED
      BY <1>1, <1>3, <2>1, <2>3
  <1>4. QED
    BY <1>2, <1>3

\* load_public_envelope.
LEMMA ReadGroupStep ==
    ASSUME IInv, ReadGroup
    PROVE  /\ UNCHANGED <<seen, disk, made, settled, plan, pc, index, raced, crashes>>
           /\ ReaderType'
           /\ reader.state = "share"
           /\ reader'.share = reader.share /\ reader'.began = reader.began
           /\ reader'.entry = reader.entry
           /\ \/ /\ seen[Envelope(Genesis)] = Nothing /\ reader'.state = "no group"
                 /\ reader'.group = reader.group
              \/ /\ seen[Envelope(Genesis)] # Nothing /\ reader'.state = "loaded"
                 /\ reader'.group = seen[Envelope(Genesis)][1]
  <1> DEFINE content == seen[Envelope(Genesis)]
  <1>1. /\ UNCHANGED <<seen, disk, made, settled, plan, pc, index, raced, crashes>>
        /\ reader.state = "share"
    BY DEF ReadGroup, root
  <1>2. CASE content = Nothing
    <2>1. reader' = [reader EXCEPT !.state = "no group"]
      BY <1>2 DEF ReadGroup
    <2>2. /\ reader'.state = "no group" /\ reader'.share = reader.share
          /\ reader'.group = reader.group
          /\ reader'.began = reader.began /\ reader'.entry = reader.entry /\ ReaderType'
      BY <2>1 DEF IInv, ReaderType
    <2>3. QED
      BY <1>1, <1>2, <2>2
  <1>3. CASE content # Nothing
    <2>1. reader' = [state |-> "loaded", entry |-> reader.entry, share |-> reader.share,
                     group |-> content[1], began |-> reader.began]
      BY <1>3 DEF ReadGroup
    <2>2. content[1] \in Puts
      BY <1>3, SeenFile, FileFacts, StoreAssumption
    <2>3. ReaderType'
      BY <2>1, <2>2 DEF IInv, ReaderType
    <2>4. QED
      BY <1>1, <1>3, <2>1, <2>3
  <1>4. QED
    BY <1>2, <1>3

\* load_share is given the entry that load_only_active has chosen.
EntryInv == reader.state = "index" => reader.entry \in Puts

LEMMA ReadersStep ==
    ASSUME IInv, EntryInv, ReadIndex \/ ReadShare \/ ReadGroup
    PROVE  /\ IInv' /\ EntryInv'
           /\ UNCHANGED <<seen, disk, made, settled, plan, pc, index, raced>>
  <1>1. /\ UNCHANGED <<seen, disk, made, settled, plan, pc, index, raced, crashes>>
        /\ ReaderType'
    <2>1. CASE ReadIndex
      BY <2>1, ReadIndexResult DEF root
    <2>2. CASE ReadShare
      BY <2>2, ReadShareStep DEF EntryInv, ReadShare
    <2>3. CASE ReadGroup
      BY <2>3, ReadGroupStep
    <2>4. QED
      BY <2>1, <2>2, <2>3
  <1>2. Holding' = Holding
    BY <1>1 DEF Holding
  <1>3. ManifestInv' /\ FileInv'
    BY <1>1, <1>2, ManifestKept, FileKept
  <1>4. RootInv' /\ CallInv'
    BY <1>1 DEF IInv, RootInv, CallInv, Written, Tag
  <1>5. EntryInv'
    <2>1. CASE ReadIndex
      <3>1. \A i \in Active(seen[Manifest]) : seen[Manifest][i] \in Puts
        BY <2>1, ReadIndexResult, LoadedIndex DEF Active
      <3>2. QED
        BY <2>1, <3>1, ReadIndexResult DEF EntryInv
    <2>2. CASE ReadShare
      BY <2>2, ReadShareStep DEF EntryInv, ReadShare
    <2>3. CASE ReadGroup
      BY <2>3, ReadGroupStep DEF EntryInv
    <2>4. QED
      BY <2>1, <2>2, <2>3
  <1>6. QED
    BY <1>1, <1>3, <1>4, <1>5 DEF IInv

LEMMA NextIInv == IInv /\ EntryInv /\ [Next]_vars => IInv' /\ EntryInv'
  <1> SUFFICES ASSUME IInv, EntryInv, [Next]_vars PROVE IInv' /\ EntryInv'
    OBVIOUS
  <1>1. ASSUME NEW n \in Puts, Put(n) PROVE IInv' /\ EntryInv'
    <2>1. IInv'
      BY <1>1, PutFileStep, SyncFileStep, LoadIndexStep, PutIndexStep, GiveUpStep DEF Put
    <2>2. reader' = reader
      BY <1>1 DEF Put, PutEnvelope, SyncEnvelope, PutShare, SyncShare, LoadIndex, PutIndex,
                  SyncIndex, GiveUp
    <2>3. QED
      BY <2>1, <2>2 DEF EntryInv
  <1>2. CASE Crash
    BY <1>2, CrashStep DEF EntryInv, Crash, Idle
  <1>3. CASE UNCHANGED vars
    <2>1. UNCHANGED <<seen, disk, made, settled, plan, pc, index, raced, reader, crashes>>
      BY <1>3 DEF vars, root
    <2>2. Holding' = Holding
      BY <2>1 DEF Holding
    <2>3. ManifestInv' /\ FileInv'
      BY <2>1, <2>2, ManifestKept, FileKept
    <2>4. RootInv' /\ CallInv' /\ ReaderType' /\ EntryInv'
      BY <2>1 DEF IInv, RootInv, CallInv, Written, Tag, ReaderType, EntryInv
    <2>5. QED
      BY <2>3, <2>4 DEF IInv
  <1>4. CASE ReadIndex \/ ReadShare \/ ReadGroup
    BY <1>4, ReadersStep
  <1>5. QED
    BY <1>1, <1>2, <1>3, <1>4 DEF Next

\* TypeOK, for any calls, on any file system.
THEOREM TypesHold == Spec => []TypeOK
  <1>1. Init => EntryInv
    BY DEF Init, Idle, EntryInv
  <1>2. IInv => TypeOK
    BY DEF IInv, RootInv, CallInv, ReaderType, Labels, TypeOK
  <1>3. QED
    BY <1>1, <1>2, InitIInv, NextIInv, PTL DEF Spec

\* Whatever calls of put_share interleave and whatever a crash brings back, the
\* manifest lists no tag twice (manifest.rs, add_entry).
THEOREM NoTagTwice == Spec => []OneEntryPerTag
  <1>1. Init => EntryInv
    BY DEF Init, Idle, EntryInv
  <1>2. IInv => OneEntryPerTag
    <2>1. IInv => Distinct(seen[Manifest])
      BY FileFacts DEF IInv, RootInv, ManifestInv
    <2>2. QED
      BY <2>1, ContentFacts DEF OneEntryPerTag, Indexed, Distinct
  <1>3. QED
    BY <1>1, <1>2, InitIInv, NextIInv, PTL DEF Spec

\* A manifest that this build cannot read is never replaced, by any call or crash
\* (put_share's load_manifest fails first).
THEOREM NewerKept == Spec => NewerIndexKept
  <1>1. Init => EntryInv
    BY DEF Init, Idle, EntryInv
  <1>2. IInv /\ [Next]_vars => (seen[Manifest] = NewerIndex => seen'[Manifest] = NewerIndex)
    <2> SUFFICES ASSUME IInv, [Next]_vars, seen[Manifest] = NewerIndex
                 PROVE  seen'[Manifest] = NewerIndex
      OBVIOUS
    <2>1. disk[Manifest] = {NewerIndex} /\ RootDir \in settled /\ Holding = {}
      BY FileFacts DEF IInv, RootInv, ManifestInv
    <2>2. ASSUME NEW n \in Puts, Put(n) PROVE seen'[Manifest] = seen[Manifest]
      <3>1. CASE PutEnvelope(n) \/ PutShare(n)
        BY <3>1, PutFileStep
      <3>2. CASE SyncEnvelope(n) \/ SyncShare(n) \/ SyncIndex(n)
        BY <3>2, SyncFileStep
      <3>3. CASE LoadIndex(n) \/ GiveUp(n)
        BY <3>3 DEF LoadIndex, GiveUp, root
      <3>4. CASE PutIndex(n)
        BY <2>1, <3>4 DEF PutIndex, Holding
      <3>5. QED
        BY <2>2, <3>1, <3>2, <3>3, <3>4 DEF Put
    <2>3. CASE ReadIndex \/ ReadShare \/ ReadGroup \/ UNCHANGED vars
      BY <2>3 DEF ReadIndex, ReadShare, ReadGroup, vars, root
    <2>4. CASE Crash
      <3>1. PowerLoss
        BY <2>4 DEF Crash
      <3>2. seen'[Manifest] \in disk[Manifest]
        BY <2>1, <3>1, PowerLossStep, FileFacts DEF IInv
      <3>3. QED
        BY <2>1, <3>2
    <2>5. QED
      BY <2>2, <2>3, <2>4 DEF Next
  <1>3. IInv /\ EntryInv /\ [Next]_vars =>
          [seen[Manifest] = NewerIndex => seen'[Manifest] = NewerIndex]_vars
    BY <1>2
  <1>4. QED
    BY <1>1, <1>3, InitIInv, NextIInv, PTL DEF Spec, NewerIndexKept
-----------------------------------------------------------------------------
(* What a crash must not take away, where fsync commits the directories. *)

Covered(n) == Share(Tag(n)) \in Safe /\ Envelope(Line(Tag(n))) \in Safe

\* Of every entry in a list, the share and the envelope are safe.
Backed(content) == \A i \in DOMAIN content : Covered(content[i])

\* What a put has written before is safe, and so is what any manifest lists.
SafeInv ==
    /\ \A n \in Puts :
         /\ pc[n] \in {"share", "sync share", "load", "index", "sync index", "done"} =>
              Envelope(Line(Tag(n))) \in Safe
         /\ pc[n] \in {"load", "index", "sync index", "done"} => Share(Tag(n)) \in Safe
    /\ \A content \in disk[Manifest] : content # NewerIndex => Backed(content)
    /\ \A n \in Puts : Backed(index[n])

\* Lookup of a put's tag, with no set in it.
HasTag(content, n) == \E i \in DOMAIN content : plan[content[i]].tag = plan[n].tag

LEMMA LookupMeans == \A content, n : Lookup(content, Tag(n)) <=> HasTag(content, n)
  BY DEF Lookup, Positions, Tag, HasTag

Listed(n, content) == content # NewerIndex /\ HasTag(content, n)

\* A put that met no other one holds the manifest alone, and after that its tag is
\* in every manifest that others read, hold or may find after a crash.
RaceInv ==
    \A n \in Puts \ raced :
        /\ pc[n] = "index" => Holding = {n} /\ HasTag(index[n], n)
        /\ pc[n] = "sync index" => Listed(n, seen[Manifest])
        /\ pc[n] = "done" => /\ RootDir \in settled
                             /\ \A content \in disk[Manifest] : Listed(n, content)
        /\ pc[n] \in {"sync index", "done"} =>
             \A m \in Holding : HasTag(index[m], n)

LEMMA BackedNothing == Backed(Nothing)
  <1>1. DOMAIN Nothing = {}
    BY DEF Nothing
  <1>2. QED
    BY <1>1 DEF Backed

\* A step that takes nothing safe away, brings no manifest but a held one, and lets
\* a put go on only after what it needs.
LEMMA SafeKept ==
    ASSUME IInv, SafeInv, plan' = plan, Safe \subseteq Safe',
           \A content \in disk'[Manifest] : content # NewerIndex =>
               content \in disk[Manifest] \union {Nothing} \union {index[m] : m \in Puts},
           \A m \in Puts : index'[m] \in {index[m], Nothing} \/ Backed(index'[m]),
           \A m \in Puts : \/ pc'[m] = pc[m]
                           \/ pc'[m] \in {"new", "sync envelope", "failed"}
                           \/ pc'[m] = "sync share" /\ pc[m] = "share"
                           \/ pc'[m] = "sync index" /\ pc[m] = "index"
                           \/ pc'[m] = "index" /\ pc[m] = "load"
                           \/ pc'[m] = "done" /\ pc[m] = "sync index"
                           \/ pc'[m] = "share" /\ Envelope(Line(Tag(m))) \in Safe'
                           \/ pc'[m] = "load" /\ pc[m] = "sync share" /\ Share(Tag(m)) \in Safe'
    PROVE  SafeInv'
  <1>1. \A content : Backed(content) => Backed(content)'
    <2>1. ASSUME NEW content, Backed(content) PROVE Backed(content)'
      BY <2>1 DEF Backed, Covered, Tag
    <2>2. QED
      BY <2>1
  <1>2. Backed(Nothing)
    BY BackedNothing
  <1>3. \A content \in disk'[Manifest] : content # NewerIndex => Backed(content)
    BY <1>2 DEF SafeInv
  <1>4. \A m \in Puts : Backed(index'[m])
    BY <1>2 DEF SafeInv
  <1>5. (\A content \in disk[Manifest] : content # NewerIndex => Backed(content))'
    BY <1>3 DEF Backed, Covered, Tag
  <1>6. (\A m \in Puts : Backed(index[m]))'
    BY <1>4 DEF Backed, Covered, Tag
  <1>7. ASSUME NEW m \in Puts
        PROVE  /\ pc'[m] \in {"share", "sync share", "load", "index", "sync index", "done"} =>
                    Envelope(Line(Tag(m))) \in Safe'
               /\ pc'[m] \in {"load", "index", "sync index", "done"} => Share(Tag(m)) \in Safe'
    BY DEF SafeInv
  <1>8. \A m \in Puts : Tag(m)' = Tag(m)
    BY DEF Tag
  <1>9. QED
    BY <1>5, <1>6, <1>7, <1>8 DEF SafeInv

LEMMA InitCrash == Init => SafeInv /\ RaceInv
  <1> SUFFICES ASSUME Init PROVE SafeInv /\ RaceInv
    OBVIOUS
  <1>1. \A n \in Puts : pc[n] = "new" /\ index[n] = Nothing
    BY DEF Init
  <1>2. \A content \in disk[Manifest] : content \in {Nothing, NewerIndex}
    BY FileFacts DEF Init
  <1>3. QED
    BY <1>1, <1>2, BackedNothing DEF SafeInv, RaceInv

\* RaceInv after a step, read before it: no put changes its tag.
LEMMA RacePrime ==
    ASSUME plan' = plan,
           \A m \in Puts \ raced' :
               /\ pc'[m] = "index" => Holding' = {m} /\ HasTag(index'[m], m)
               /\ pc'[m] = "sync index" => Listed(m, seen'[Manifest])
               /\ pc'[m] = "done" => /\ RootDir \in settled'
                                     /\ \A c \in disk'[Manifest] : Listed(m, c)
               /\ pc'[m] \in {"sync index", "done"} =>
                    \A k \in Holding' : HasTag(index'[k], m)
    PROVE  RaceInv'
  <1>1. ASSUME NEW m \in Puts \ raced', pc'[m] = "index"
        PROVE  (Holding = {m} /\ HasTag(index[m], m))'
    BY <1>1 DEF HasTag
  <1>2. ASSUME NEW m \in Puts \ raced', pc'[m] = "sync index"
        PROVE  Listed(m, seen[Manifest])'
    BY <1>2 DEF Listed, HasTag
  <1>3. ASSUME NEW m \in Puts \ raced', pc'[m] = "done"
        PROVE  (RootDir \in settled /\ \A c \in disk[Manifest] : Listed(m, c))'
    BY <1>3 DEF Listed, HasTag
  <1>4. ASSUME NEW m \in Puts \ raced', pc'[m] \in {"sync index", "done"}
        PROVE  (\A k \in Holding : HasTag(index[k], m))'
    BY <1>4 DEF HasTag
  <1>5. QED
    BY <1>1, <1>2, <1>3, <1>4 DEF RaceInv

\* A step that leaves the manifests, their holders and the standing of every put
\* but one, which is not yet at the manifest or gives up.
LEMMA RaceKept ==
    ASSUME IInv, RaceInv, UNCHANGED <<plan, raced>>, NEW n \in Puts,
           \A m \in Puts \ {n} : pc'[m] = pc[m] /\ index'[m] = index[m],
           pc'[n] \notin {"index", "sync index", "done"},
           seen'[Manifest] = seen[Manifest],
           disk'[Manifest] \subseteq disk[Manifest],
           settled \subseteq settled'
    PROVE  RaceInv'
  <1>2. Holding' \subseteq Holding \ {n}
    BY DEF Holding
  <1>3. ASSUME NEW m \in Puts \ raced'
        PROVE  /\ pc'[m] = "index" => Holding' = {m} /\ HasTag(index'[m], m)
               /\ pc'[m] = "sync index" => Listed(m, seen'[Manifest])
               /\ pc'[m] = "done" => /\ RootDir \in settled'
                                     /\ \A c \in disk'[Manifest] : Listed(m, c)
               /\ pc'[m] \in {"sync index", "done"} =>
                    \A k \in Holding' : HasTag(index'[k], m)
    <2>1. CASE m = n
      BY <2>1
    <2>2. CASE m # n
      <3>1. m \in Holding <=> m \in Holding'
        BY <2>2 DEF Holding
      <3>2. pc[m] = "index" => m \in Holding
        BY DEF Holding
      <3>3. pc'[m] = pc[m] /\ index'[m] = index[m]
        BY <2>2
      <3>4. \A k \in Holding' : k \in Holding /\ index'[k] = index[k]
        BY <1>2 DEF Holding
      <3>5. m \in Puts \ raced
        OBVIOUS
      <3>6. pc'[m] = "index" => Holding' = {m} /\ HasTag(index'[m], m)
        BY <1>2, <3>1, <3>2, <3>3, <3>5 DEF RaceInv
      <3>7. pc'[m] \in {"sync index", "done"} => \A k \in Holding' : HasTag(index'[k], m)
        BY <3>3, <3>4, <3>5 DEF RaceInv
      <3>8. QED
        BY <3>3, <3>5, <3>6, <3>7 DEF RaceInv
    <2>3. QED
      BY <2>1, <2>2
  <1>4. QED
    BY <1>3, RacePrime

LEMMA SyncFileRace ==
    ASSUME IInv, RaceInv, MkdirDurable, NEW n \in Puts,
           SyncEnvelope(n) \/ SyncShare(n) \/ SyncIndex(n)
    PROVE  RaceInv'
  <1>1. /\ Safe \subseteq Safe' /\ settled \subseteq settled' /\ seen' = seen
        /\ disk'[Manifest] = {seen[Manifest]} \/ disk'[Manifest] = disk[Manifest]
        /\ UNCHANGED <<plan, index, raced, reader>>
        /\ \A m \in Puts \ {n} : pc'[m] = pc[m]
        /\ \/ pc'[n] = "share" \/ pc'[n] = "load"
           \/ /\ pc[n] = "sync index" /\ pc'[n] = "done"
              /\ disk'[Manifest] = {seen[Manifest]}
              /\ RootDir \in settled'
    BY SyncFileStep
  <1>2. disk'[Manifest] \subseteq disk[Manifest]
    BY <1>1, FileFacts DEF IInv, RootInv
  <1>3. CASE pc'[n] # "done"
    BY <1>1, <1>2, <1>3, RaceKept
  <1>4. CASE pc'[n] = "done"
    <2>1. Holding' = Holding
      BY <1>1, <1>4 DEF Holding
    <2>2. ASSUME NEW m \in Puts \ raced'
          PROVE  /\ pc'[m] = "index" => Holding' = {m} /\ HasTag(index'[m], m)
                 /\ pc'[m] = "sync index" => Listed(m, seen'[Manifest])
                 /\ pc'[m] = "done" => /\ RootDir \in settled'
                                       /\ \A c \in disk'[Manifest] : Listed(m, c)
                 /\ pc'[m] \in {"sync index", "done"} =>
                      \A k \in Holding' : HasTag(index'[k], m)
      <3>1. CASE m = n
        BY <1>1, <1>4, <2>1, <3>1 DEF RaceInv
      <3>2. CASE m # n
        BY <1>1, <1>2, <2>1, <3>2 DEF RaceInv
      <3>3. QED
        BY <3>1, <3>2
    <2>3. plan' = plan /\ raced' = raced
      BY <1>1
    <2>4. QED
      BY <2>2, <2>3, RacePrime
  <1>5. QED
    BY <1>3, <1>4

LEMMA LoadIndexRace ==
    ASSUME IInv, SafeInv, RaceInv, NEW n \in Puts, LoadIndex(n)
    PROVE  SafeInv' /\ RaceInv'
  <1>1. UNCHANGED <<seen, disk, made, settled, plan, reader, crashes>> /\ pc[n] = "load"
    BY DEF LoadIndex, root
  <1>2. Safe' = Safe
    BY <1>1 DEF Safe
  <1>3. CASE ~KnownVersion(seen[Manifest])
    <2>1. Goto(n, "failed") /\ UNCHANGED <<index, raced>>
      BY <1>3 DEF LoadIndex
    <2>2. pc'[n] = "failed" /\ \A m \in Puts \ {n} : pc'[m] = pc[m]
      BY <2>1 DEF Goto, IInv, CallInv
    <2>3. SafeInv'
      BY <1>1, <1>2, <2>1, <2>2, SafeKept
    <2>4. RaceInv'
      BY <1>1, <2>1, <2>2, RaceKept
    <2>5. QED
      BY <2>3, <2>4
  <1>4. CASE KnownVersion(seen[Manifest])
    <2> DEFINE loaded == AddEntry(seen[Manifest], n)
    <2>1. /\ index' = [index EXCEPT ![n] = loaded]
          /\ raced' = IF Holding = {} THEN raced ELSE raced \union Holding \union {n}
          /\ Goto(n, "index")
      BY <1>4 DEF LoadIndex
    <2>2. /\ pc'[n] = "index" /\ index'[n] = loaded
          /\ \A m \in Puts \ {n} : pc'[m] = pc[m] /\ index'[m] = index[m]
      BY <2>1 DEF Goto, IInv, CallInv
    <2>3. /\ HasTag(loaded, n)
          /\ \A m \in Puts : HasTag(seen[Manifest], m) => HasTag(loaded, m)
          /\ \A i \in DOMAIN loaded :
                loaded[i] = n \/ \E j \in DOMAIN seen[Manifest] : loaded[i] = seen[Manifest][j]
      BY <1>4, LoadedIndex, AddEntryFacts, LookupMeans
    <2> HIDE DEF loaded
    <2>4. Backed(loaded)
      <3>1. Backed(seen[Manifest])
        BY <1>4, LoadedIndex DEF SafeInv, KnownVersion
      <3>2. Covered(n)
        BY <1>1 DEF SafeInv, Covered
      <3>3. QED
        BY <2>3, <3>1, <3>2 DEF Backed
    <2>5. SafeInv'
      BY <1>1, <1>2, <2>2, <2>4, SafeKept
    <2>6. Holding' = Holding \union {n}
      BY <2>2 DEF Holding
    <2>7. ASSUME NEW m \in Puts \ raced'
          PROVE  /\ pc'[m] = "index" => Holding' = {m} /\ HasTag(index'[m], m)
                 /\ pc'[m] = "sync index" => Listed(m, seen'[Manifest])
                 /\ pc'[m] = "done" => /\ RootDir \in settled'
                                       /\ \A c \in disk'[Manifest] : Listed(m, c)
                 /\ pc'[m] \in {"sync index", "done"} =>
                      \A k \in Holding' : HasTag(index'[k], m)
      <3>1. CASE m = n
        <4>1. Holding = {}
          BY <2>1, <3>1
        <4>2. QED
          BY <2>2, <2>3, <2>6, <3>1, <4>1
      <3>2. CASE m # n
        <4>1. m \notin raced /\ pc'[m] = pc[m]
          BY <2>1, <2>2, <3>2
        <4>2. pc[m] # "index"
          BY <2>1 DEF Holding
        <4>3. pc[m] \in {"sync index", "done"} =>
                /\ HasTag(seen[Manifest], m)
                /\ \A k \in Holding : HasTag(index[k], m)
          BY <4>1, LoadedIndex, <1>4 DEF RaceInv, Listed
        <4>4. ASSUME pc[m] \in {"sync index", "done"}, NEW k \in Holding'
              PROVE  HasTag(index'[k], m)
          <5>1. CASE k = n
            BY <2>2, <2>3, <4>3, <4>4, <5>1
          <5>2. CASE k # n
            <6>1. k \in Holding /\ index'[k] = index[k]
              BY <2>2, <2>6, <5>2 DEF Holding
            <6>2. QED
              BY <4>3, <4>4, <6>1
          <5>3. QED
            BY <5>1, <5>2
        <4>5. QED
          BY <1>1, <4>1, <4>2, <4>4 DEF RaceInv
      <3>3. QED
        BY <3>1, <3>2
    <2>8. RaceInv'
      <3>1. plan' = plan
        BY <1>1
      <3>2. QED
        BY <2>7, <3>1, RacePrime
    <2>9. QED
      BY <2>5, <2>8
  <1>5. QED
    BY <1>3, <1>4

LEMMA PutIndexRace ==
    ASSUME IInv, SafeInv, RaceInv, NEW n \in Puts, PutIndex(n)
    PROVE  SafeInv' /\ RaceInv'
  <1>1. /\ pc[n] = "index" /\ pc'[n] = "sync index"
        /\ \A m \in Puts \ {n} : pc'[m] = pc[m] /\ index'[m] = index[m]
        /\ index'[n] = Nothing
        /\ seen'[Manifest] = index[n] /\ disk'[Manifest] = disk[Manifest] \union {index[n]}
        /\ settled' = settled /\ Safe \subseteq Safe'
        /\ plan' = plan /\ raced' = raced
    BY PutIndexStep
  <1>2. SafeInv'
    BY <1>1, SafeKept
  <1>3. n \in Holding /\ Holding' \subseteq Holding \ {n}
    BY <1>1 DEF Holding
  <1>4. index[n] # NewerIndex
    BY ContentFacts DEF IInv, CallInv
  <1>5. ASSUME NEW m \in Puts \ raced'
        PROVE  /\ pc'[m] = "index" => Holding' = {m} /\ HasTag(index'[m], m)
               /\ pc'[m] = "sync index" => Listed(m, seen'[Manifest])
               /\ pc'[m] = "done" => /\ RootDir \in settled'
                                     /\ \A c \in disk'[Manifest] : Listed(m, c)
               /\ pc'[m] \in {"sync index", "done"} =>
                    \A k \in Holding' : HasTag(index'[k], m)
    <2>1. m \in Puts \ raced
      BY <1>1
    <2>2. CASE m = n
      <3>1. Holding = {n} /\ HasTag(index[n], n)
        BY <1>1, <2>1, <2>2 DEF RaceInv
      <3>2. Holding' = {}
        BY <1>3, <3>1
      <3>3. QED
        BY <1>1, <1>4, <2>2, <3>1, <3>2 DEF Listed
    <2>3. CASE m # n
      <3>1. pc'[m] = pc[m] /\ \A k \in Holding' : k \in Holding /\ index'[k] = index[k]
        BY <1>1, <1>3, <2>3 DEF Holding
      <3>2. pc[m] # "index"
        BY <1>3, <2>1, <2>3 DEF RaceInv
      <3>3. pc[m] \in {"sync index", "done"} =>
              /\ Listed(m, index[n])
              /\ \A k \in Holding' : HasTag(index'[k], m)
        BY <1>3, <1>4, <2>1, <3>1 DEF RaceInv, Listed
      <3>4. QED
        BY <1>1, <2>1, <3>1, <3>2, <3>3 DEF RaceInv
    <2>4. QED
      BY <2>2, <2>3
  <1>6. QED
    BY <1>1, <1>2, <1>5, RacePrime

LEMMA CrashRace ==
    ASSUME IInv, SafeInv, RaceInv, Crash
    PROVE  SafeInv' /\ RaceInv'
  <1>1. /\ PowerLoss
        /\ pc' = [n \in Puts |-> IF n \in Running THEN "failed" ELSE pc[n]]
        /\ index' = [n \in Puts |-> Nothing]
        /\ plan' = plan /\ raced' = raced
    BY DEF Crash
  <1>2. /\ \A f \in Files : /\ disk'[f] = {seen'[f]}
                            /\ seen'[f] \in disk[f] \union {Nothing}
                            /\ Home[f] \in settled => seen'[f] \in disk[f]
        /\ settled \subseteq settled' /\ Safe \subseteq Safe'
    BY <1>1, PowerLossStep DEF IInv
  <1>3. \A n \in Puts : pc'[n] \in {"new", "done", "failed"} /\ (pc'[n] # "failed" => pc'[n] = pc[n])
    BY <1>1 DEF Running
  <1>4. SafeInv'
    <2>1. disk'[Manifest] \subseteq disk[Manifest] \union {Nothing}
      BY <1>2, FileFacts
    <2>2. \A n \in Puts : index'[n] = Nothing
      BY <1>1
    <2>3. QED
      BY <1>1, <1>2, <1>3, <2>1, <2>2, SafeKept
  <1>5. ASSUME NEW m \in Puts \ raced'
        PROVE  /\ pc'[m] = "index" => Holding' = {m} /\ HasTag(index'[m], m)
               /\ pc'[m] = "sync index" => Listed(m, seen'[Manifest])
               /\ pc'[m] = "done" => /\ RootDir \in settled'
                                     /\ \A c \in disk'[Manifest] : Listed(m, c)
               /\ pc'[m] \in {"sync index", "done"} =>
                    \A k \in Holding' : HasTag(index'[k], m)
    <2>1. Holding' = {}
      BY <1>3 DEF Holding
    <2>2. pc'[m] \notin {"index", "sync index"}
      BY <1>3
    <2>3. ASSUME pc'[m] = "done"
          PROVE  RootDir \in settled' /\ \A c \in disk'[Manifest] : Listed(m, c)
      <3>1. pc[m] = "done" /\ m \in Puts \ raced
        BY <1>1, <1>3, <2>3
      <3>2. RootDir \in settled /\ \A c \in disk[Manifest] : Listed(m, c)
        BY <3>1 DEF RaceInv
      <3>3. disk'[Manifest] \subseteq disk[Manifest]
        BY <1>2, <3>2, FileFacts
      <3>4. QED
        BY <1>2, <3>2, <3>3
    <2>4. QED
      BY <2>1, <2>2, <2>3
  <1>6. QED
    BY <1>1, <1>4, <1>5, RacePrime

LEMMA NextCrash ==
    ASSUME MkdirDurable, IInv, EntryInv, SafeInv, RaceInv, [Next]_vars
    PROVE  SafeInv' /\ RaceInv'
  <1>1. ASSUME NEW n \in Puts, Put(n) PROVE SafeInv' /\ RaceInv'
    <2>1. CASE PutEnvelope(n) \/ PutShare(n)
      <3>1. /\ Safe \subseteq Safe' /\ settled' = settled
            /\ seen'[Manifest] = seen[Manifest] /\ disk'[Manifest] = disk[Manifest]
            /\ UNCHANGED <<plan, index, raced, reader>>
            /\ pc'[n] \in {"sync envelope", "sync share"}
            /\ pc'[n] = "sync share" => pc[n] = "share"
            /\ \A m \in Puts \ {n} : pc'[m] = pc[m]
        BY <2>1, PutFileStep
      <3>2. SafeInv'
        BY <3>1, SafeKept
      <3>3. RaceInv'
        BY <3>1, RaceKept
      <3>4. QED
        BY <3>2, <3>3
    <2>2. CASE SyncEnvelope(n) \/ SyncShare(n) \/ SyncIndex(n)
      <3>1. /\ Safe \subseteq Safe' /\ seen' = seen
            /\ disk'[Manifest] = {seen[Manifest]} \/ disk'[Manifest] = disk[Manifest]
            /\ UNCHANGED <<plan, index, raced, reader>>
            /\ \A m \in Puts \ {n} : pc'[m] = pc[m]
            /\ \/ /\ pc[n] = "sync envelope" /\ pc'[n] = "share"
                  /\ Envelope(Line(Tag(n))) \in Safe'
               \/ /\ pc[n] = "sync share" /\ pc'[n] = "load"
                  /\ Share(Tag(n)) \in Safe'
               \/ pc[n] = "sync index" /\ pc'[n] = "done"
        BY <2>2, SyncFileStep
      <3>2. disk'[Manifest] \subseteq disk[Manifest]
        BY <3>1, FileFacts DEF IInv, RootInv
      <3>3. SafeInv'
        BY <3>1, <3>2, SafeKept
      <3>4. QED
        BY <2>2, <3>3, SyncFileRace
    <2>3. CASE LoadIndex(n)
      BY <2>3, LoadIndexRace
    <2>4. CASE PutIndex(n)
      BY <2>4, PutIndexRace
    <2>5. CASE GiveUp(n)
      <3>1. /\ index' = [index EXCEPT ![n] = Nothing]
            /\ Goto(n, "failed")
            /\ UNCHANGED <<seen, disk, made, settled, plan, raced>>
        BY <2>5 DEF GiveUp, root
      <3>2. /\ pc'[n] = "failed" /\ index'[n] = Nothing
            /\ \A m \in Puts \ {n} : pc'[m] = pc[m] /\ index'[m] = index[m]
        BY <3>1 DEF Goto, IInv, CallInv
      <3>3. Safe' = Safe
        BY <3>1 DEF Safe
      <3>4. SafeInv'
        BY <3>1, <3>2, <3>3, SafeKept
      <3>5. RaceInv'
        BY <3>1, <3>2, RaceKept
      <3>6. QED
        BY <3>4, <3>5
    <2>6. QED
      BY <1>1, <2>1, <2>2, <2>3, <2>4, <2>5 DEF Put
  <1>2. CASE Crash
    BY <1>2, CrashRace
  <1>3. CASE ReadIndex \/ ReadShare \/ ReadGroup \/ UNCHANGED vars
    <2>1. UNCHANGED <<seen, disk, made, settled, plan, pc, index, raced>>
      BY <1>3, ReadersStep DEF vars, root
    <2>2. Safe' = Safe /\ Holding' = Holding
      BY <2>1 DEF Safe, Holding
    <2>3. SafeInv'
      BY <2>1, <2>2, SafeKept
    <2>4. RaceInv'
      BY <2>1, <2>2, RacePrime DEF RaceInv
    <2>5. QED
      BY <2>3, <2>4
  <1>4. QED
    BY <1>1, <1>2, <1>3 DEF Next

CInv == IInv /\ EntryInv /\ SafeInv /\ RaceInv

LEMMA CInvHolds == MkdirDurable => (Spec => []CInv)
  <1> SUFFICES ASSUME MkdirDurable PROVE Spec => []CInv
    OBVIOUS
  <1>1. Init => CInv
    BY InitIInv, InitCrash DEF Init, Idle, EntryInv, CInv
  <1>2. CInv /\ [Next]_vars => CInv'
    BY NextIInv, NextCrash DEF CInv
  <1>3. QED
    BY <1>1, <1>2, PTL DEF Spec

\* D-07: an entry's share and envelope are there, whatever calls interleave and
\* wherever they are cut off, because put_share syncs both before it indexes them.
THEOREM EntriesBacked == MkdirDurable => (Spec => []IndexNeverDangles)
  <1> SUFFICES ASSUME MkdirDurable PROVE Spec => []IndexNeverDangles
    OBVIOUS
  <1>1. CInv => IndexNeverDangles
    <2> SUFFICES ASSUME CInv, NEW i \in DOMAIN Indexed
                 PROVE  /\ seen[Share(Tag(Indexed[i]))] # Nothing
                        /\ seen[Envelope(Line(Tag(Indexed[i])))] # Nothing
      BY DEF IndexNeverDangles
    <2>1. KnownVersion(seen[Manifest]) /\ Indexed = seen[Manifest]
      BY DEF Indexed, Nothing
    <2>2. Backed(seen[Manifest])
      BY <2>1, LoadedIndex DEF CInv, SafeInv, KnownVersion
    <2>3. Share(Tag(Indexed[i])) \in Safe /\ Envelope(Line(Tag(Indexed[i]))) \in Safe
      BY <2>1, <2>2 DEF Backed, Covered
    <2>4. QED
      BY <2>3 DEF Safe, CInv, IInv, RootInv
  <1>2. QED
    BY <1>1, CInvHolds, PTL

\* What a finished put_share was told is stored stays indexed, over crashes and
\* over every later call, unless its load-to-write of the manifest met another's.
THEOREM OnlyRacesLose == MkdirDurable => (Spec => []OnlyRacesLoseEntries)
  <1> SUFFICES ASSUME MkdirDurable PROVE Spec => []OnlyRacesLoseEntries
    OBVIOUS
  <1>1. CInv => OnlyRacesLoseEntries
    <2> SUFFICES ASSUME CInv, NEW n \in Done \ raced PROVE Lookup(seen[Manifest], Tag(n))
      BY DEF OnlyRacesLoseEntries
    <2>1. seen[Manifest] \in disk[Manifest]
      BY FileFacts DEF CInv, IInv, RootInv
    <2>2. HasTag(seen[Manifest], n)
      BY <2>1 DEF Done, CInv, RaceInv, Listed
    <2>3. QED
      BY <2>2, LookupMeans
  <1>2. QED
    BY <1>1, CInvHolds, PTL
-----------------------------------------------------------------------------
(* What load_only_active and load_public_envelope find. *)

\* A put that is the only active one and the only one of the genesis line.
Sole(g) ==
    /\ plan[g].state = "ACTIVE"
    /\ \A n \in Puts \ {g} : Line(Tag(n)) # Genesis /\ plan[n].state # "ACTIVE"

ReaderInv ==
    /\ reader.state # "no share"
    /\ reader.state = "index" => Share(Tag(reader.entry)) \in Safe
    /\ reader.began \subseteq {n \in Done : Line(Tag(n)) = Genesis}
    /\ \A g \in reader.began \ raced : Sole(g) =>
         /\ reader.state \in {"index", "share", "loaded"}
         /\ reader.entry = g
         /\ reader.share \in {None, g} /\ reader.group \in {None, g}

LEMMA ReaderStill ==
    ASSUME ReaderInv, UNCHANGED <<plan, reader>>, Safe \subseteq Safe',
           Done \subseteq Done', raced \subseteq raced'
    PROVE  ReaderInv'
  <1>1. \A n : Tag(n)' = Tag(n)
    BY DEF Tag
  <1>2. \A g : Sole(g)' <=> Sole(g)
    BY <1>1 DEF Sole
  <1>3. reader'.state = "index" => Share(Tag(reader.entry))' \in Safe'
    BY <1>1 DEF ReaderInv
  <1>4. reader'.began \subseteq {n \in Done' : Line(Tag(n)') = Genesis}
    BY <1>1 DEF ReaderInv
  <1>5. \A g \in reader'.began \ raced' : Sole(g) =>
         /\ reader'.state \in {"index", "share", "loaded"}
         /\ reader'.entry = g
         /\ reader'.share \in {None, g} /\ reader'.group \in {None, g}
    BY DEF ReaderInv
  <1>6. reader'.state # "no share"
    BY DEF ReaderInv
  <1>7. QED
    BY <1>2, <1>3, <1>4, <1>5, <1>6 DEF ReaderInv

\* The only put of the genesis line is the one that a genesis file came from.
LEMMA SoleFile ==
    ASSUME CInv, NEW g \in Puts, Sole(g), Line(Tag(g)) = Genesis,
           NEW f \in {Share(Tag(g)), Envelope(Genesis)}, seen[f] # Nothing
    PROVE  seen[f][1] = g
  <1>1. f \in Files \ {Manifest}
    BY TagType, FileFacts, StoreAssumption DEF CInv, IInv
  <1>2. PICK n \in Puts : /\ seen[f][1] = n
                          /\ f \in {Share(Tag(n)), Envelope(Line(Tag(n)))}
    BY <1>1, SeenFile DEF CInv
  <1>3. Line(Tag(n)) = Genesis
    BY <1>2 DEF Share, Envelope
  <1>4. QED
    BY <1>2, <1>3 DEF Sole

\* The only active put, once it is done and unless it raced, is what the reader
\* takes from the manifest.
LEMMA SoleActive ==
    ASSUME CInv, KnownVersion(seen[Manifest]), NEW g \in Done \ raced,
           Line(Tag(g)) = Genesis, Sole(g)
    PROVE  /\ Active(seen[Manifest]) # {}
           /\ \A i \in Active(seen[Manifest]) : seen[Manifest][i] = g
  <1>1. g \in Puts
    BY DEF Done
  <1>2. /\ seen[Manifest] \in Seq(Puts)
        /\ \A i \in DOMAIN seen[Manifest] : seen[Manifest][i] \in Puts
    BY LoadedIndex DEF CInv
  <1>3. PICK i \in DOMAIN seen[Manifest] : plan[seen[Manifest][i]].tag = plan[g].tag
    <2>1. Listed(g, seen[Manifest])
      BY LoadedIndex DEF CInv, RaceInv, Done
    <2>2. QED
      BY <2>1 DEF Listed, HasTag
  <1>4. seen[Manifest][i] = g
    BY <1>2, <1>3 DEF Sole, Tag
  <1>5. i \in Active(seen[Manifest])
    BY <1>3, <1>4 DEF Active, Sole
  <1>6. \A j \in Active(seen[Manifest]) : seen[Manifest][j] = g
    BY <1>2 DEF Active, Sole
  <1>7. QED
    BY <1>5, <1>6

LEMMA ReadIndexKeeps ==
    ASSUME CInv, ReaderInv, ReadIndex
    PROVE  ReaderInv'
  <1>1. /\ KnownVersion(seen[Manifest])
        /\ reader'.began = {n \in Done : Line(Tag(n)) = Genesis}
        /\ reader'.share = None /\ reader'.group = None
        /\ \/ /\ Active(seen[Manifest]) = {}
              /\ reader'.state = "inactive" /\ reader'.entry = None
           \/ /\ reader'.state = "index"
              /\ \E i \in Active(seen[Manifest]) : reader'.entry = seen[Manifest][i]
        /\ UNCHANGED <<seen, disk, made, settled, plan, pc, index, raced, crashes>>
    BY ReadIndexResult DEF CInv, root
  <1>2. /\ Safe' = Safe /\ Done' = Done
        /\ \A n : Tag(n)' = Tag(n)
        /\ \A g : Sole(g)' <=> Sole(g)
    BY <1>1 DEF Safe, Done, Sole, Tag
  <1>3. ASSUME reader'.state = "index" PROVE Share(Tag(reader'.entry)) \in Safe
    <2>1. Backed(seen[Manifest])
      BY <1>1, LoadedIndex DEF CInv, SafeInv, KnownVersion
    <2>2. PICK i \in Active(seen[Manifest]) : reader'.entry = seen[Manifest][i]
      BY <1>1, <1>3
    <2>3. QED
      BY <2>1, <2>2 DEF Active, Backed, Covered
  <1>4. ASSUME NEW g \in reader'.began \ raced', Sole(g)
        PROVE  /\ reader'.state \in {"index", "share", "loaded"}
               /\ reader'.entry = g
               /\ reader'.share \in {None, g} /\ reader'.group \in {None, g}
    <2>1. g \in Done \ raced /\ Line(Tag(g)) = Genesis
      BY <1>1
    <2>2. /\ Active(seen[Manifest]) # {}
          /\ \A i \in Active(seen[Manifest]) : seen[Manifest][i] = g
      BY <1>1, <1>4, <2>1, SoleActive
    <2>3. QED
      BY <1>1, <2>2
  <1>5. (reader.state = "index" => Share(Tag(reader.entry)) \in Safe)'
    <2>1. Share(Tag(reader.entry))' = Share(Tag(reader'.entry))
      BY <1>1 DEF Tag
    <2>2. QED
      BY <1>2, <1>3, <2>1
  <1>6. (reader.began \subseteq {n \in Done : Line(Tag(n)) = Genesis})'
    BY <1>1, <1>2
  <1>7. QED
    BY <1>1, <1>2, <1>4, <1>5, <1>6 DEF ReaderInv

LEMMA ReadFilesKeep ==
    ASSUME CInv, ReaderInv, ReadShare \/ ReadGroup
    PROVE  ReaderInv'
  <1>1. UNCHANGED <<seen, disk, made, settled, plan, pc, index, raced, crashes>>
    BY DEF ReadShare, ReadGroup, root
  <1>2. /\ Safe' = Safe /\ Done' = Done
        /\ \A n : Tag(n)' = Tag(n)
        /\ \A g : Sole(g)' <=> Sole(g)
    BY <1>1 DEF Safe, Done, Sole, Tag
  <1>3. reader'.began = reader.began /\ reader'.entry = reader.entry
        /\ reader'.state \notin {"no share", "index"}
    <2>1. CASE ReadShare
      <3>1. reader.state = "index"
        BY <2>1 DEF ReadShare
      <3>2. seen[Share(Tag(reader.entry))] # Nothing
        BY <3>1 DEF ReaderInv, Safe, CInv, IInv, RootInv
      <3>3. QED
        BY <2>1, <3>1, <3>2, ReadShareStep DEF CInv, EntryInv
    <2>2. CASE ReadGroup
      BY <2>2, ReadGroupStep DEF CInv
    <2>3. QED
      BY <2>1, <2>2
  <1>4. ASSUME NEW g \in reader.began \ raced, Sole(g)
        PROVE  /\ reader'.state \in {"index", "share", "loaded"}
               /\ reader'.share \in {None, g} /\ reader'.group \in {None, g}
    <2>1. g \in Puts /\ pc[g] = "done" /\ Line(Tag(g)) = Genesis
      BY DEF ReaderInv, Done
    <2>2. reader.entry = g /\ reader.share \in {None, g} /\ reader.group \in {None, g}
      BY <1>4 DEF ReaderInv
    <2>3. CASE ReadShare
      <3>1. reader.state = "index" /\ seen[Share(Tag(reader.entry))] # Nothing
        BY <2>3 DEF ReadShare, ReaderInv, Safe, CInv, IInv, RootInv
      <3>2. seen[Share(Tag(g))][1] = g
        BY <1>4, <2>1, <2>2, <3>1, SoleFile
      <3>3. QED
        BY <2>2, <2>1, <2>3, <3>1, <3>2, ReadShareStep DEF CInv
    <2>4. CASE ReadGroup
      <3>1. Envelope(Line(Tag(g))) \in Safe
        BY <2>1 DEF CInv, SafeInv
      <3>2. seen[Envelope(Genesis)] # Nothing
        BY <2>1, <3>1 DEF Safe, CInv, IInv, RootInv
      <3>3. seen[Envelope(Genesis)][1] = g
        BY <1>4, <2>1, <3>2, SoleFile
      <3>4. QED
        BY <2>2, <2>4, <3>2, <3>3, ReadGroupStep DEF CInv
    <2>5. QED
      BY <2>3, <2>4
  <1>5. (reader.began \subseteq {n \in Done : Line(Tag(n)) = Genesis})'
    BY <1>2, <1>3 DEF ReaderInv
  <1>6. QED
    BY <1>1, <1>2, <1>3, <1>4, <1>5 DEF ReaderInv

LEMMA ReaderInvHolds == MkdirDurable => (Spec => [](CInv /\ ReaderInv))
  <1> SUFFICES ASSUME MkdirDurable PROVE Spec => [](CInv /\ ReaderInv)
    OBVIOUS
  <1>1. Init => CInv /\ ReaderInv
    BY InitIInv, InitCrash DEF Init, Idle, EntryInv, CInv, ReaderInv
  <1>2. CInv /\ ReaderInv /\ [Next]_vars => ReaderInv'
    <2> SUFFICES ASSUME CInv, ReaderInv, [Next]_vars PROVE ReaderInv'
      OBVIOUS
    <2>1. ASSUME NEW n \in Puts, Put(n) PROVE ReaderInv'
      <3>1. UNCHANGED <<plan, reader>> /\ raced \subseteq raced'
        BY <2>1 DEF Put, PutEnvelope, SyncEnvelope, PutShare, SyncShare, LoadIndex, PutIndex,
                    SyncIndex, GiveUp
      <3>2. Safe \subseteq Safe'
        <4>1. CASE LoadIndex(n) \/ GiveUp(n)
          BY <4>1 DEF LoadIndex, GiveUp, root, Safe
        <4>2. QED
          BY <2>1, <4>1, PutFileStep, SyncFileStep, PutIndexStep DEF Put, CInv
      <3>3. Done \subseteq Done'
        <4>1. pc[n] # "done"
          BY <2>1 DEF Put, PutEnvelope, SyncEnvelope, PutShare, SyncShare, LoadIndex, PutIndex,
                      SyncIndex, GiveUp, Running
        <4>2. \A m \in Puts \ {n} : pc'[m] = pc[m]
          BY <2>1 DEF Put, PutEnvelope, SyncEnvelope, PutShare, SyncShare, LoadIndex, PutIndex,
                      SyncIndex, GiveUp, Goto, CInv, IInv, CallInv
        <4>3. QED
          BY <4>1, <4>2 DEF Done
      <3>4. QED
        BY <3>1, <3>2, <3>3, ReaderStill
    <2>2. CASE Crash
      BY <2>2 DEF Crash, Idle, ReaderInv
    <2>3. CASE UNCHANGED vars
      BY <2>3, ReaderStill DEF vars, root, Safe, Done
    <2>4. QED
      BY <2>1, <2>2, <2>3, ReadIndexKeeps, ReadFilesKeep DEF Next
  <1>3. CInv /\ [Next]_vars => CInv'
    BY NextIInv, NextCrash DEF CInv
  <1>4. QED
    BY <1>1, <1>2, <1>3, PTL DEF Spec

\* load_only_active never finds an index without the share it names, though it
\* reads the two one after the other while puts and crashes go on.
THEOREM ShareIsThere == MkdirDurable => (Spec => []NoShareMissing)
  <1> SUFFICES ASSUME MkdirDurable PROVE Spec => []NoShareMissing
    OBVIOUS
  <1>1. ReaderInv => NoShareMissing
    BY DEF ReaderInv, NoShareMissing
  <1>2. QED
    BY <1>1, ReaderInvHolds, PTL

\* A root's genesis share is found, with its own group's envelope, whatever shares
\* of the standby key and of later epochs are put beside it (load_only_active).
THEOREM OthersHarmless == MkdirDurable => (Spec => []OthersNeverDisturb)
  <1> SUFFICES ASSUME MkdirDurable PROVE Spec => []OthersNeverDisturb
    OBVIOUS
  <1>1. ReaderInv => OthersNeverDisturb
    BY DEF ReaderInv, Sole, OthersNeverDisturb
  <1>2. QED
    BY <1>1, ReaderInvHolds, PTL
=============================================================================
