-------------------------- MODULE CommandLine_proofs ------------------------
(***************************************************************************)
(* Machine-checked proofs about CommandLine, for every number of seats,        *)
(* passphrases and DKGs: the types, that a finished keygen is served by sign   *)
(* and by the address file, and that an address is published only over a whole *)
(* base.                                                                     *)
(***************************************************************************)
EXTENDS CommandLine, FiniteSetTheorems, WellFoundedInduction, TLAPS

Group == [t : Seats, n : Seats, pass : Passphrases, stored : BOOLEAN, published : BOOLEAN]
Root == [envelope : Nat, share : Nat, indexed : BOOLEAN]

\* Types of what the base and the running keygen are made of.
Shape ==
    /\ groups \in Seq(Group) /\ Len(groups) <= MaxGroups
    /\ base \in [Seats -> Root]
    /\ ready \in Made \union {None}
    /\ \/ keygen = Idle
       \/ /\ keygen \in [group : Made, seat : Seats,
                         at : {"envelope", "share", "index", "truncate", "write"}]
          /\ keygen.seat <= groups[keygen.group].n

\* The seats up to m hold all of a group's files.
Whole(roots, m, g) ==
    \A i \in Seats : i <= m =>
        roots[i].envelope = g /\ roots[i].share = g /\ roots[i].indexed

\* How far the running keygen is with its seats.
Progress ==
    keygen # Idle =>
        /\ ready = None
        /\ keygen.at \in {"envelope", "share", "index"} =>
              groups[keygen.group].stored /\ Whole(base, keygen.seat - 1, keygen.group)
        /\ keygen.at \in {"share", "index"} => base[keygen.seat].envelope = keygen.group
        /\ keygen.at = "index" => base[keygen.seat].share = keygen.group
        /\ keygen.at \in {"truncate", "write"} /\ groups[keygen.group].stored =>
              Whole(base, groups[keygen.group].n, keygen.group)

\* What a finished keygen leaves, until the next one begins.
Served ==
    ready # None =>
        /\ keygen = Idle
        /\ Whole(base, groups[ready].n, ready)
        /\ groups[ready].published => out = ready

IInv == Shape /\ Progress /\ Served

LEMMA InitInv == Init => IInv
  <1> SUFFICES ASSUME Init PROVE IInv
    OBVIOUS
  <1>1. Shape
    BY CommandLineAssumption DEF Init, Shape, EmptyRoot, Root, None, Made, Group
  <1>2. QED
    BY <1>1 DEF Init, IInv, Progress, Served

-----------------------------------------------------------------------------
(* The steps that leave the store alone *)

\* A step that may add a group and leaves everything else of the store alone.
LEMMA GroupsGrow ==
    ASSUME IInv, UNCHANGED <<base, out, keygen, ready>>, keygen = Idle,
           \/ UNCHANGED groups
           \/ \E g \in Group : groups' = Append(groups, g) /\ Len(groups) < MaxGroups
    PROVE  IInv'
  <1>1. CASE UNCHANGED groups
    BY <1>1 DEF IInv, Shape, Progress, Served, Whole, Made
  <1>2. CASE \E g \in Group : groups' = Append(groups, g) /\ Len(groups) < MaxGroups
    <2>1. PICK g \in Group : groups' = Append(groups, g) /\ Len(groups) < MaxGroups
      BY <1>2
    <2>2. groups \in Seq(Group) /\ MaxGroups \in Nat
      BY CommandLineAssumption DEF IInv, Shape
    <2>3. /\ groups' \in Seq(Group) /\ Len(groups') = Len(groups) + 1
          /\ Len(groups') <= MaxGroups
          /\ \A i \in 1 .. Len(groups) : groups'[i] = groups[i]
      BY <2>1, <2>2
    <2>4. Shape'
      BY <2>2, <2>3 DEF IInv, Shape, Made
    <2>5. ready # None => ready \in 1 .. Len(groups)
      BY DEF IInv, Shape, Made
    <2>6. QED
      BY <2>3, <2>4, <2>5 DEF IInv, Progress, Served, Whole
  <1>3. QED
    BY <1>1, <1>2

LEMMA KeygenStep ==
    ASSUME IInv, NEW t \in 0 .. MaxSeats, NEW n \in 0 .. MaxSeats, NEW typed \in Passphrases,
           NEW again \in Passphrases, NEW persist \in BOOLEAN, NEW output \in BOOLEAN,
           Keygen(t, n, typed, again, persist, output)
    PROVE  IInv'
  <1>1. CASE ~ValidArguments(t, n) \/ (persist /\ ~Prompted(typed, again)) \/ ~Dkg(t, n)
    <2>1. UNCHANGED <<groups, base, out, keygen, ready>> /\ keygen = Idle
      BY <1>1 DEF Keygen
    <2>2. QED
      BY <2>1, GroupsGrow
  <1>2. CASE ValidArguments(t, n) /\ Dkg(t, n) /\ ~(persist /\ ~Prompted(typed, again))
    <2> DEFINE g == [t |-> t, n |-> n, pass |-> typed, stored |-> persist,
                     published |-> output]
               start == IF persist THEN "envelope" ELSE "truncate"
    <2>1. /\ groups' = Append(groups, g) /\ Len(groups) < MaxGroups
          /\ keygen' = [group |-> Len(groups'), at |-> start, seat |-> 1]
          /\ ready' = None /\ base' = base /\ out' = out
      BY <1>2 DEF Keygen
    <2>2. groups \in Seq(Group) /\ MaxGroups \in Nat /\ MaxSeats \in Nat \ {0}
      BY CommandLineAssumption DEF IInv, Shape
    <2>3. g \in Group /\ 1 \in Seats /\ g.n >= 1 /\ t \in Seats /\ n \in Seats
      BY <1>2, <2>2 DEF Group, Seats, ValidArguments
    <2>4. /\ groups' \in Seq(Group) /\ Len(groups') = Len(groups) + 1
          /\ Len(groups') <= MaxGroups /\ Len(groups) \in Nat
      BY <2>1, <2>2, <2>3
    <2>5. groups'[Len(groups')] = g
      BY <2>1, <2>2, <2>4
    <2>6. /\ keygen'.group = Len(groups') /\ keygen'.at = start /\ keygen'.seat = 1
          /\ keygen' \in [group : Made', seat : Seats,
                          at : {"envelope", "share", "index", "truncate", "write"}]
      BY <2>1, <2>3, <2>4 DEF Made
    <2>7. Shape'
      BY <2>1, <2>3, <2>4, <2>5, <2>6 DEF IInv, Shape
    <2>8. Whole(base', 0, keygen'.group)
      BY DEF Whole, Seats
    <2>9. Progress'
      <3>1. CASE persist
        BY <2>1, <2>5, <2>6, <2>8, <3>1 DEF Progress
      <3>2. CASE ~persist
        BY <2>1, <2>5, <2>6, <3>2 DEF Progress
      <3>3. QED
        BY <3>1, <3>2
    <2>10. Served'
      BY <2>1 DEF Served
    <2>11. QED
      BY <2>7, <2>9, <2>10 DEF IInv
  <1>3. QED
    BY <1>1, <1>2

-----------------------------------------------------------------------------
(* The steps of a running keygen *)

\* What is known of the group of a running keygen.
LEMMA Running ==
    ASSUME IInv, keygen # Idle
    PROVE  /\ keygen \in [group : Made, seat : Seats,
                          at : {"envelope", "share", "index", "truncate", "write"}]
           /\ keygen.group \in Nat \ {0} /\ keygen.seat \in Nat \ {0}
           /\ groups[keygen.group] \in Group /\ groups[keygen.group].n \in Seats
           /\ keygen.seat <= groups[keygen.group].n
           /\ ready = None
  <1>1. /\ keygen \in [group : Made, seat : Seats,
                       at : {"envelope", "share", "index", "truncate", "write"}]
        /\ keygen.seat <= groups[keygen.group].n
        /\ groups \in Seq(Group) /\ ready = None
    BY DEF IInv, Shape, Progress
  <1>2. keygen.group \in 1 .. Len(groups) /\ keygen.seat \in 1 .. MaxSeats
    BY <1>1 DEF Made, Seats
  <1>3. groups[keygen.group] \in Group
    BY <1>1, <1>2
  <1>4. QED
    BY <1>1, <1>2, <1>3, CommandLineAssumption DEF Group

\* Writing one file of the seat in turn.
LEMMA FileStep ==
    ASSUME IInv, keygen # Idle,
           NEW at \in {"share", "index"}, NEW root \in Root,
           keygen' = [keygen EXCEPT !.at = at],
           base' = [base EXCEPT ![keygen.seat] = root],
           UNCHANGED <<groups, out, ready>>,
           keygen.at \in {"envelope", "share"},
           root.envelope = keygen.group,
           at = "index" => root.share = keygen.group
    PROVE  IInv'
  <1>1. /\ keygen \in [group : Made, seat : Seats,
                       at : {"envelope", "share", "index", "truncate", "write"}]
        /\ keygen.group \in Nat \ {0} /\ keygen.seat \in Nat \ {0} /\ ready = None
        /\ keygen.seat <= groups[keygen.group].n
    BY Running
  <1>2. /\ keygen'.at = at /\ keygen'.group = keygen.group /\ keygen'.seat = keygen.seat
        /\ keygen' \in [group : Made', seat : Seats,
                        at : {"envelope", "share", "index", "truncate", "write"}]
    BY <1>1 DEF Made
  <1>3. /\ base' \in [Seats -> Root] /\ base'[keygen.seat] = root
        /\ \A i \in Seats \ {keygen.seat} : base'[i] = base[i]
    BY <1>1 DEF IInv, Shape
  <1>4. Shape'
    BY <1>1, <1>2, <1>3 DEF IInv, Shape, Made
  <1>5. groups[keygen.group].stored /\ Whole(base, keygen.seat - 1, keygen.group)
    BY DEF IInv, Progress
  <1>6. Whole(base', keygen'.seat - 1, keygen'.group)
    <2>1. \A i \in Seats : i <= keygen.seat - 1 => i # keygen.seat
      BY <1>1 DEF Seats
    <2>2. QED
      BY <1>2, <1>3, <1>5, <2>1 DEF Whole
  <1>7. Progress'
    BY <1>1, <1>2, <1>3, <1>5, <1>6 DEF Progress
  <1>8. QED
    BY <1>1, <1>4, <1>7 DEF IInv, Served

LEMMA PutEnvelopeStep == ASSUME IInv, PutEnvelope PROVE IInv'
  <1>1. keygen # Idle /\ keygen.at = "envelope"
    BY DEF PutEnvelope, Idle
  <1>2. /\ keygen.seat \in Seats /\ base \in [Seats -> Root] /\ keygen.group \in Nat
    BY <1>1, Running DEF IInv, Shape
  <1> DEFINE root == [base[keygen.seat] EXCEPT !.envelope = keygen.group]
  <1>3. root \in Root /\ root.envelope = keygen.group
    BY <1>2 DEF Root
  <1>4. base' = [base EXCEPT ![keygen.seat] = root]
    BY <1>2 DEF PutEnvelope
  <1>5. QED
    BY <1>1, <1>3, <1>4, FileStep DEF PutEnvelope

LEMMA PutShareStep == ASSUME IInv, PutShare PROVE IInv'
  <1>1. keygen # Idle /\ keygen.at = "share"
    BY DEF PutShare, Idle
  <1>2. /\ keygen.seat \in Seats /\ base \in [Seats -> Root] /\ keygen.group \in Nat
        /\ base[keygen.seat].envelope = keygen.group
    BY <1>1, Running DEF IInv, Shape, Progress
  <1> DEFINE root == [base[keygen.seat] EXCEPT !.share = keygen.group]
  <1>3. root \in Root /\ root.envelope = keygen.group /\ root.share = keygen.group
    BY <1>2 DEF Root
  <1>4. base' = [base EXCEPT ![keygen.seat] = root]
    BY <1>2 DEF PutShare
  <1>5. QED
    BY <1>1, <1>3, <1>4, FileStep DEF PutShare

LEMMA PutIndexStep == ASSUME IInv, PutIndex PROVE IInv'
  <1>1. keygen # Idle /\ keygen.at = "index"
    BY DEF PutIndex, Idle
  <1>2. /\ keygen \in [group : Made, seat : Seats,
                       at : {"envelope", "share", "index", "truncate", "write"}]
        /\ keygen.group \in Nat \ {0} /\ keygen.seat \in Nat \ {0}
        /\ groups[keygen.group] \in Group /\ groups[keygen.group].n \in Seats
        /\ keygen.seat <= groups[keygen.group].n
        /\ ready = None
    BY <1>1, Running
  <1>3. /\ base \in [Seats -> Root] /\ groups[keygen.group].stored
        /\ Whole(base, keygen.seat - 1, keygen.group)
        /\ base[keygen.seat].envelope = keygen.group /\ base[keygen.seat].share = keygen.group
    BY <1>1 DEF IInv, Shape, Progress
  <1>4. base' = [base EXCEPT ![keygen.seat].indexed = TRUE] /\ UNCHANGED <<groups, out>>
    BY DEF PutIndex
  <1>5. /\ base' \in [Seats -> Root]
        /\ base'[keygen.seat] = [base[keygen.seat] EXCEPT !.indexed = TRUE]
        /\ \A i \in Seats \ {keygen.seat} : base'[i] = base[i]
    BY <1>2, <1>3, <1>4 DEF Root
  <1>6. /\ base'[keygen.seat].envelope = keygen.group /\ base'[keygen.seat].share = keygen.group
        /\ base'[keygen.seat].indexed
    BY <1>2, <1>3, <1>5 DEF Root
  <1>7. Whole(base', keygen.seat, keygen.group)
    <2>1. ASSUME NEW i \in Seats, i <= keygen.seat
          PROVE  base'[i].envelope = keygen.group /\ base'[i].share = keygen.group /\ base'[i].indexed
      <3>1. CASE i = keygen.seat
        BY <1>6, <3>1
      <3>2. CASE i # keygen.seat
        <4>1. i <= keygen.seat - 1
          BY <1>2, <2>1, <3>2 DEF Seats
        <4>2. QED
          BY <1>3, <1>5, <3>2, <4>1 DEF Whole
      <3>3. QED
        BY <3>1, <3>2
    <2>2. \A i \in Seats : i <= keygen.seat =>
              base'[i].envelope = keygen.group /\ base'[i].share = keygen.group /\ base'[i].indexed
      BY <2>1
    <2>3. QED
      BY <2>2 DEF Whole
  <1>8. CASE keygen.seat < groups[keygen.group].n
    <2>1. /\ keygen' = [group |-> keygen.group, at |-> "envelope", seat |-> keygen.seat + 1]
          /\ UNCHANGED ready
      BY <1>8 DEF PutIndex
    <2>2. /\ keygen'.at = "envelope" /\ keygen'.seat = keygen.seat + 1
          /\ keygen'.group = keygen.group /\ keygen'.seat - 1 = keygen.seat
          /\ keygen'.seat \in Seats /\ keygen'.seat <= groups[keygen.group].n
          /\ keygen' \in [group : Made, seat : Seats,
                          at : {"envelope", "share", "index", "truncate", "write"}]
      <3>1. keygen.seat + 1 \in Seats /\ keygen.seat + 1 <= groups[keygen.group].n
        BY <1>2, <1>8, CommandLineAssumption DEF Seats
      <3>2. QED
        BY <1>2, <2>1, <3>1
    <2>3. Shape'
      BY <1>4, <1>5, <2>1, <2>2 DEF IInv, Shape, Made
    <2>4. Progress'
      BY <1>2, <1>3, <1>4, <1>7, <2>1, <2>2 DEF Progress
    <2>5. QED
      BY <1>2, <2>1, <2>3, <2>4 DEF IInv, Served
  <1>9. CASE ~(keygen.seat < groups[keygen.group].n)
    <2>1. Stored(keygen.group) /\ keygen.seat = groups[keygen.group].n
      BY <1>2, <1>9 DEF PutIndex, Seats
    <2>2. CASE groups[keygen.group].published
      <3>1. keygen' = [keygen EXCEPT !.at = "truncate"] /\ UNCHANGED ready
        BY <2>1, <2>2 DEF Stored
      <3>2. /\ keygen'.at = "truncate" /\ keygen'.seat = keygen.seat
            /\ keygen'.group = keygen.group
            /\ keygen' \in [group : Made, seat : Seats,
                            at : {"envelope", "share", "index", "truncate", "write"}]
        BY <1>2, <3>1
      <3>3. Shape'
        BY <1>2, <1>4, <1>5, <3>1, <3>2 DEF IInv, Shape, Made
      <3>4. Progress'
        BY <1>2, <1>4, <1>7, <2>1, <3>1, <3>2 DEF Progress
      <3>5. QED
        BY <1>2, <3>1, <3>3, <3>4 DEF IInv, Served
    <2>3. CASE ~groups[keygen.group].published
      <3>1. keygen' = Idle /\ ready' = keygen.group
        BY <2>1, <2>3 DEF Stored
      <3>2. Shape'
        BY <1>2, <1>4, <1>5, <3>1 DEF IInv, Shape, Made
      <3>3. Served'
        BY <1>4, <1>7, <2>1, <2>3, <3>1 DEF Served
      <3>4. QED
        BY <3>1, <3>2, <3>3 DEF IInv, Progress
    <2>4. QED
      BY <2>2, <2>3
  <1>10. QED
    BY <1>8, <1>9

LEMMA TruncateOutStep == ASSUME IInv, TruncateOut PROVE IInv'
  <1>1. keygen # Idle /\ keygen.at = "truncate"
    BY DEF TruncateOut, Idle
  <1>2. /\ keygen \in [group : Made, seat : Seats,
                       at : {"envelope", "share", "index", "truncate", "write"}]
        /\ ready = None /\ keygen.seat <= groups[keygen.group].n
    BY <1>1, Running
  <1>3. keygen' = [keygen EXCEPT !.at = "write"] /\ UNCHANGED <<groups, base, ready>>
    BY DEF TruncateOut
  <1>4. /\ keygen'.at = "write" /\ keygen'.seat = keygen.seat /\ keygen'.group = keygen.group
        /\ keygen' \in [group : Made, seat : Seats,
                        at : {"envelope", "share", "index", "truncate", "write"}]
    BY <1>2, <1>3
  <1>5. Shape'
    BY <1>2, <1>3, <1>4 DEF IInv, Shape, Made
  <1>6. Progress'
    BY <1>1, <1>2, <1>3, <1>4 DEF IInv, Progress
  <1>7. QED
    BY <1>2, <1>3, <1>5, <1>6 DEF IInv, Served

LEMMA WriteOutStep == ASSUME IInv, WriteOut PROVE IInv'
  <1>1. keygen # Idle /\ keygen.at = "write"
    BY DEF WriteOut, Idle
  <1>2. keygen.group \in Made
    BY <1>1, Running
  <1>3. /\ keygen' = Idle /\ out' = keygen.group /\ UNCHANGED <<groups, base>>
        /\ ready' = IF groups[keygen.group].stored THEN keygen.group ELSE None
    BY DEF WriteOut
  <1>4. Shape'
    BY <1>2, <1>3 DEF IInv, Shape, Made
  <1>5. Served'
    <2>1. CASE groups[keygen.group].stored
      BY <1>1, <1>3, <2>1 DEF IInv, Progress, Served
    <2>2. CASE ~groups[keygen.group].stored
      BY <1>3, <2>2 DEF Served
    <2>3. QED
      BY <2>1, <2>2
  <1>6. QED
    BY <1>3, <1>4, <1>5 DEF IInv, Progress

LEMMA KillStep == ASSUME IInv, Kill PROVE IInv'
  <1>1. keygen' = Idle /\ ready = None /\ UNCHANGED <<groups, base, out, ready>>
    BY DEF Kill, IInv, Progress
  <1>2. Shape'
    BY <1>1 DEF IInv, Shape, Made
  <1>3. QED
    BY <1>1, <1>2 DEF IInv, Progress, Served

-----------------------------------------------------------------------------
(* sign and the readers *)

LEMMA SimulatedStep ==
    ASSUME IInv, NEW t \in 0 .. MaxSeats, NEW n \in 0 .. MaxSeats, NEW acked \in BOOLEAN,
           NEW coin, SignSimulated(t, n, acked, coin)
    PROVE  IInv'
  <1>1. UNCHANGED <<base, out, keygen, ready>> /\ keygen = Idle /\ Len(groups) < MaxGroups
    BY DEF SignSimulated
  <1>2. CASE ~ValidArguments(t, n) \/ ~Dkg(t, n)
    <2>1. UNCHANGED groups
      BY <1>2 DEF SignSimulated
    <2>2. QED
      BY <1>1, <2>1, GroupsGrow
  <1>3. CASE ValidArguments(t, n) /\ Dkg(t, n)
    <2> DEFINE g == [t |-> t, n |-> n, pass |-> CHOOSE p \in Passphrases : TRUE,
                     stored |-> FALSE, published |-> FALSE]
    <2>1. groups' = Append(groups, g)
      BY <1>3 DEF SignSimulated
    <2>2. t \in Seats /\ n \in Seats
      BY <1>3, CommandLineAssumption DEF ValidArguments, Seats
    <2>3. (CHOOSE p \in Passphrases : TRUE) \in Passphrases
      BY CommandLineAssumption
    <2>4. g \in Group
      BY <2>2, <2>3 DEF Group
    <2>5. QED
      BY <1>1, <2>1, <2>4, GroupsGrow
  <1>4. QED
    BY <1>2, <1>3

LEMMA QuietStep ==
    ASSUME IInv, UNCHANGED <<groups, base, out, keygen, ready>>
    PROVE  IInv'
  BY DEF IInv, Shape, Progress, Served, Made

LEMMA NextInv == IInv /\ [Next]_vars => IInv'
  <1> SUFFICES ASSUME IInv, [Next]_vars PROVE IInv'
    OBVIOUS
  <1>1. ASSUME NEW t \in 0 .. MaxSeats, NEW n \in 0 .. MaxSeats, NEW typed \in Passphrases,
               NEW again \in Passphrases, NEW persist \in BOOLEAN, NEW output \in BOOLEAN,
               Keygen(t, n, typed, again, persist, output)
        PROVE  IInv'
    BY <1>1, KeygenStep
  <1>2. ASSUME NEW t, NEW n, NEW typed, NEW acked, NEW coin, Sign(t, n, typed, acked, coin)
        PROVE  IInv'
    BY <1>2, QuietStep DEF Sign
  <1>3. ASSUME NEW t \in 0 .. MaxSeats, NEW n \in 0 .. MaxSeats, NEW acked \in BOOLEAN,
               NEW coin, SignSimulated(t, n, acked, coin)
        PROVE  IInv'
    BY <1>3, SimulatedStep
  <1>4. CASE Address
    BY <1>4, QuietStep DEF Address
  <1>5. ASSUME NEW root, ShareStatus(root) PROVE IInv'
    BY <1>5, QuietStep DEF ShareStatus
  <1>6. CASE UNCHANGED vars
    BY <1>6, QuietStep DEF vars
  <1>7. QED
    BY <1>1, <1>2, <1>3, <1>4, <1>5, <1>6, PutEnvelopeStep, PutShareStep, PutIndexStep,
       TruncateOutStep, WriteOutStep, KillStep DEF Next

-----------------------------------------------------------------------------
(* What sign makes of a whole base *)

LEMMA CardUpTo == ASSUME NEW m \in Nat PROVE IsFiniteSet(1 .. m) /\ Cardinality(1 .. m) = m
  <1>1. 1 \in Int /\ m \in Int
    OBVIOUS
  <1>2. IsFiniteSet(1 .. m) /\ Cardinality(1 .. m) = IF 1 > m THEN 0 ELSE m - 1 + 1
    BY <1>1, FS_Interval
  <1>3. QED
    BY <1>2

LEMMA SomeRootsFinite ==
    ASSUME NEW S \in SUBSET Roots PROVE IsFiniteSet(S) /\ Cardinality(S) \in Nat
  <1>1. IsFiniteSet(Seats)
    BY CardUpTo, CommandLineAssumption DEF Seats
  <1>2. S \in SUBSET Seats
    BY DEF Roots
  <1>3. IsFiniteSet(S)
    BY <1>1, <1>2, FS_Subset
  <1>4. QED
    BY <1>3, FS_CardinalityType

\* With the seats up to n whole, sign takes exactly the first t of them.
LEMMA SelectedIsFirst ==
    ASSUME NEW n \in Seats, NEW g \in Nat \ {0}, Whole(base, n, g), base \in [Seats -> Root],
           NEW t \in 1 .. n
    PROVE  Selected(t) = 1 .. t /\ Cardinality(Roots) >= t
  <1>1. n \in Nat /\ t \in Nat /\ Seats \subseteq Nat /\ \A i \in Seats : i >= 1
    BY CommandLineAssumption DEF Seats
  <1>2. Roots \subseteq Seats /\ 1 .. n \subseteq Roots
    BY CommandLineAssumption DEF Roots, Whole, Seats, None
  <1>3. ASSUME NEW i \in 1 .. n PROVE Place(i) = i
    <2>1. {j \in Roots : j <= i} = 1 .. i
      <3>1. \A j \in Roots : j <= i => j \in 1 .. i
        BY <1>1, <1>2
      <3>2. \A j \in 1 .. i : j \in Roots /\ j <= i
        BY <1>1, <1>2
      <3>3. QED
        BY <3>1, <3>2
    <2>2. Cardinality(1 .. i) = i
      BY CardUpTo
    <2>3. QED
      BY <2>1, <2>2 DEF Place
  <1>4. ASSUME NEW i \in Roots, i > n PROVE Place(i) > n /\ Place(i) \in Nat
    <2> DEFINE below == {j \in Roots : j <= i}
    <2>1. i \in Nat /\ IsFiniteSet(below) /\ i \in below /\ Cardinality(below) \in Nat
      <3>1. i \in Nat /\ below \in SUBSET Roots
        BY <1>1, <1>2
      <3>2. IsFiniteSet(below) /\ Cardinality(below) \in Nat
        BY <3>1, SomeRootsFinite
      <3>3. QED
        BY <3>1, <3>2
    <2>2. 1 .. n \in SUBSET (below \ {i})
      BY <1>1, <1>2, <1>4, <2>1
    <2>3. IsFiniteSet(below \ {i}) /\ Cardinality(below \ {i}) = Cardinality(below) - 1
      BY <2>1, FS_RemoveElement
    <2>4. Cardinality(1 .. n) <= Cardinality(below \ {i})
      BY <2>2, <2>3, FS_Subset
    <2>5. Cardinality(1 .. n) = n
      BY <1>1, CardUpTo
    <2>6. n <= Cardinality(below) - 1 /\ Place(i) = Cardinality(below)
      BY <2>3, <2>4, <2>5 DEF Place
    <2>7. QED
      BY <1>1, <2>1, <2>6
  <1>5. Selected(t) = 1 .. t
    <2>1. ASSUME NEW i \in Roots PROVE Place(i) <= t <=> i \in 1 .. t
      <3>1. i \in Nat /\ i >= 1 /\ t <= n
        BY <1>1, <1>2
      <3>2. CASE i <= n
        <4>1. i \in 1 .. n
          BY <1>1, <3>1, <3>2
        <4>2. QED
          BY <1>1, <1>3, <3>1, <4>1
      <3>3. CASE i > n
        BY <1>1, <1>4, <3>1, <3>3
      <3>4. QED
        BY <1>1, <3>1, <3>2, <3>3
    <2>2. 1 .. t \subseteq Roots
      BY <1>1, <1>2
    <2>3. QED
      BY <2>1, <2>2 DEF Selected
  <1>6. Cardinality(Roots) >= t
    <2>1. IsFiniteSet(Roots) /\ Cardinality(Roots) \in Nat
      BY SomeRootsFinite
    <2>2. Cardinality(1 .. n) <= Cardinality(Roots)
      BY <1>2, <2>1, FS_Subset
    <2>3. Cardinality(1 .. n) = n
      BY <1>1, CardUpTo
    <2>4. QED
      BY <1>1, <2>1, <2>2, <2>3
  <1>7. QED
    BY <1>5, <1>6

\* sign --persist on a base that is whole for a group.
LEMMA WholeServes ==
    ASSUME Shape, NEW r \in Made, Whole(base, groups[r].n, r),
           NEW t \in groups[r].t .. groups[r].n, NEW n \in Seats, t <= n
    PROVE  SignPersisted(t, n, groups[r].pass) = "signed" /\ GroupPackage(t) = r
  <1>1. /\ r \in Nat \ {0} /\ r # None /\ base \in [Seats -> Root]
        /\ groups \in Seq(Group) /\ r \in 1 .. Len(groups)
    BY DEF Shape, Made, None
  <1>2. groups[r] \in Group
    BY <1>1
  <1>3. groups[r].t \in Seats /\ groups[r].n \in Seats
    BY <1>2 DEF Group
  <1>4. groups[r].t \in Nat \ {0} /\ groups[r].n \in Nat /\ n \in Nat \ {0}
    BY <1>3, CommandLineAssumption DEF Seats
  <1>5. t \in 1 .. groups[r].n /\ t \in Nat /\ t >= groups[r].t /\ t # 0
    BY <1>4
  <1>6. Selected(t) = 1 .. t /\ Cardinality(Roots) >= t
    BY <1>1, <1>3, <1>5, SelectedIsFirst
  <1>7. ASSUME NEW i \in Selected(t)
        PROVE  base[i].envelope = r /\ base[i].share = r /\ base[i].indexed
    <2>1. i \in Seats /\ i <= groups[r].n
      BY <1>3, <1>4, <1>5, <1>6, CommandLineAssumption DEF Seats
    <2>2. QED
      BY <2>1 DEF Whole
  <1>8. GroupPackage(t) = r
    <2>1. (CHOOSE i \in Selected(t) : \A j \in Selected(t) : i <= j) \in Selected(t)
      <3>1. 1 \in Selected(t) /\ \A j \in Selected(t) : 1 <= j
        BY <1>5, <1>6
      <3>2. QED
        BY <3>1
    <2>2. QED
      BY <1>7, <2>1 DEF GroupPackage
  <1>9. Load(t, groups[r].pass) = "loaded"
    <2>1. Cardinality(Roots) \in Nat
      BY SomeRootsFinite
    <2>2. ~(Cardinality(Roots) < t)
      BY <1>5, <1>6, <2>1
    <2>3. QED
      BY <1>7, <2>2 DEF Load
  <1>10. Session(t) = "signed"
    <2>1. ASSUME NEW i \in Selected(t)
          PROVE  ~(groups[base[i].share].t > t) /\ base[i].share = GroupPackage(t)
      <3>1. base[i].share = r
        BY <1>7
      <3>2. ~(groups[r].t > t)
        BY <1>4, <1>5
      <3>3. QED
        BY <1>8, <3>1, <3>2
    <2>2. QED
      BY <2>1 DEF Session
  <1>11. ValidArguments(t, n)
    BY <1>4, <1>5 DEF ValidArguments
  <1>12. QED
    BY <1>8, <1>9, <1>10, <1>11 DEF SignPersisted

LEMMA InvServes == IInv => FinishedKeygenServes
  <1> SUFFICES ASSUME IInv, ready # None PROVE FinishedKeygenServes
    BY DEF FinishedKeygenServes
  <1>1. /\ Shape /\ ready \in Made /\ Whole(base, groups[ready].n, ready)
        /\ groups[ready].published => out = ready
    BY DEF IInv, Shape, Served
  <1>2. ASSUME NEW t \in groups[ready].t .. groups[ready].n, NEW n \in Seats, t <= n
        PROVE  SignPersisted(t, n, groups[ready].pass) = "signed" /\ GroupPackage(t) = ready
    BY <1>1, <1>2, WholeServes
  <1>3. QED
    BY <1>1, <1>2 DEF FinishedKeygenServes

\* Whatever the base held before, killed runs and larger groups included, sign
\* --persist signs for the group of a keygen --persist that finished, with its
\* passphrase and every t from its threshold to its size, and the address file
\* is the group's.
THEOREM FinishedServes == Spec => []FinishedKeygenServes
  <1>1. Spec => []IInv
    BY InitInv, NextInv, PTL DEF Spec
  <1>2. QED
    BY <1>1, InvServes, PTL

\* The file an address is read from names a stored group only from the moment the
\* base holds every share behind the address.
THEOREM PublishedOverWholeBase == Spec => PublishedAfterStored
  <1> DEFINE Step == (out' \in Made /\ out' # out /\ groups[out'].stored) =>
                        \A i \in 1 .. groups[out'].n : base[i].share = out' /\ base[i].indexed
  <1>1. IInv /\ [Next]_vars => [Step]_vars
    <2> SUFFICES ASSUME IInv, Next, out' \in Made, out' # out, groups[out'].stored
                 PROVE  \A i \in 1 .. groups[out'].n : base[i].share = out' /\ base[i].indexed
      OBVIOUS
    <2>1. CASE TruncateOut
      BY <2>1, CommandLineAssumption DEF TruncateOut, Torn, Made, IInv, Shape
    <2>2. CASE WriteOut
      <3>1. keygen # Idle /\ keygen.at = "write" /\ out' = keygen.group
        BY <2>2 DEF WriteOut, Idle
      <3>2. /\ Whole(base, groups[keygen.group].n, keygen.group)
            /\ groups[keygen.group].n \in Seats
        BY <3>1, Running DEF IInv, Progress
      <3>3. QED
        BY <3>1, <3>2, CommandLineAssumption DEF Whole, Seats
    <2>3. QED
      BY <2>1, <2>2 DEF Next, Keygen, PutEnvelope, PutShare, PutIndex, Kill, Sign,
         SignSimulated, Address, ShareStatus
  <1>2. Spec => []IInv
    BY InitInv, NextInv, PTL DEF Spec
  <1>3. QED
    BY <1>1, <1>2, PTL DEF Spec, PublishedAfterStored

-----------------------------------------------------------------------------
(* Types *)

\* What Shape leaves out: the groups that the files name, the addresses seen, and
\* what was printed.
Named ==
    /\ base \in [Seats -> [envelope : Made \union {None}, share : Made \union {None},
                           indexed : BOOLEAN]]
    /\ out \in Made \union {None, Torn}
    /\ shown \subseteq Made
    /\ \/ printed \in [cmd : {"none", "error", "address"}]
       \/ printed \in [cmd : {"signed"}, by : Made, coin : Made]
       \/ printed \in [cmd : {"status"}, root : Seats \union {BaseRoot}, held : SUBSET Seats]

\* There is a first one among any seats.
LEMMA LeastSeat ==
    ASSUME NEW S \in SUBSET Seats, S # {}
    PROVE  \E i \in S : \A j \in S : i <= j
  <1>1. S \subseteq Nat
    BY CommandLineAssumption DEF Seats
  <1>2. \E i \in S : \A j \in S : ~(<<j, i>> \in OpToRel(<, Nat))
    BY <1>1, NatLessThanWellFounded, WFMin
  <1>3. \A i, j \in Nat : j < i => <<j, i>> \in OpToRel(<, Nat)
    BY DEF OpToRel
  <1>4. \E i \in S : \A j \in S : ~(j < i)
    BY <1>1, <1>2, <1>3, Zenon
  <1>5. QED
    BY <1>1, <1>4

\* Where at least one root is there and one is asked for, the first is selected,
\* so that the group package is some root's.
LEMMA PackageIsMade ==
    ASSUME IInv, Named, NEW t \in 0 .. MaxSeats, NEW n \in 0 .. MaxSeats, NEW typed,
           ValidArguments(t, n), Load(t, typed) = "loaded"
    PROVE  GroupPackage(t) \in Made
  <1>1. t \in Nat /\ t >= 1 /\ Seats \subseteq Nat
    BY CommandLineAssumption DEF ValidArguments, Seats
  <1>2. ~(Cardinality(Roots) < t)
    BY DEF Load
  <1>3. Roots \in SUBSET Seats /\ Roots # {}
    <2>1. Cardinality({}) = 0
      BY FS_EmptySet
    <2>2. QED
      BY <1>1, <1>2, <2>1 DEF Roots
  <1>4. PICK first \in Roots : \A j \in Roots : first <= j
    BY <1>3, LeastSeat
  <1>5. Place(first) = 1
    <2>1. {j \in Roots : j <= first} = {first}
      <3>1. Roots \subseteq Nat
        BY <1>1, <1>3
      <3>2. \A j \in Roots : j <= first <=> j = first
        BY <1>4, <3>1
      <3>3. QED
        BY <3>2
    <2>2. Cardinality({first}) = 1
      BY FS_Singleton
    <2>3. QED
      BY <2>1, <2>2 DEF Place
  <1>6. first \in Selected(t) /\ Selected(t) \subseteq Roots
    BY <1>1, <1>5 DEF Selected
  <1>7. \E i \in Selected(t) : \A j \in Selected(t) : i <= j
    BY <1>4, <1>6
  <1> DEFINE least == CHOOSE i \in Selected(t) : \A j \in Selected(t) : i <= j
  <1>8. least \in Roots
    BY <1>6, <1>7
  <1>9. base[least].envelope \in Made
    BY <1>8 DEF Named, Roots
  <1>10. QED
    BY <1>9 DEF GroupPackage

\* No step forgets a group.
LEMMA MadeGrows ==
    ASSUME IInv, Next PROVE Made \subseteq Made' /\ Len(groups) \in Nat /\ Len(groups') \in Nat
  <1>1. groups \in Seq(Group) /\ groups' \in Seq(Group)
    BY NextInv DEF IInv, Shape
  <1>2. groups' = groups \/ \E g : groups' = Append(groups, g)
    BY DEF Next, Keygen, PutEnvelope, PutShare, PutIndex, TruncateOut, WriteOut, Kill, Sign,
       SignSimulated, Address, ShareStatus
  <1>3. Len(groups') \in {Len(groups), Len(groups) + 1}
    BY <1>1, <1>2
  <1>4. QED
    BY <1>1, <1>3 DEF Made

\* The steps of a running keygen write its own group's number.
LEMMA WritersNamed ==
    ASSUME IInv, Named,
           PutEnvelope \/ PutShare \/ PutIndex \/ TruncateOut \/ WriteOut \/ Kill
    PROVE  Named'
  <1>1. UNCHANGED <<groups, shown, printed>> /\ Made' = Made
    BY DEF PutEnvelope, PutShare, PutIndex, TruncateOut, WriteOut, Kill, Made
  <1>2. keygen # Idle => keygen.group \in Made
    BY DEF IInv, Shape
  <1>3. keygen.at \in {"envelope", "share", "index", "truncate", "write"} => keygen # Idle
    BY DEF Idle
  <1> DEFINE File == [envelope : Made \union {None}, share : Made \union {None},
                      indexed : BOOLEAN]
  <1>4. base' \in [Seats -> File]
    <2>1. base \in [Seats -> File]
      BY DEF Named
    <2>2. CASE PutEnvelope
      <3>1. /\ base' = [base EXCEPT ![keygen.seat] =
                           [base[keygen.seat] EXCEPT !.envelope = keygen.group]]
            /\ keygen.group \in Made
        BY <2>2, <1>2, <1>3 DEF PutEnvelope
      <3>2. \A f \in File : [f EXCEPT !.envelope = keygen.group] \in File
        BY <3>1
      <3> HIDE DEF File
      <3>3. QED
        BY <2>1, <3>1, <3>2
    <2>3. CASE PutShare
      <3>1. /\ base' = [base EXCEPT ![keygen.seat] =
                           [base[keygen.seat] EXCEPT !.share = keygen.group]]
            /\ keygen.group \in Made
        BY <2>3, <1>2, <1>3 DEF PutShare
      <3>2. \A f \in File : [f EXCEPT !.share = keygen.group] \in File
        BY <3>1
      <3> HIDE DEF File
      <3>3. QED
        BY <2>1, <3>1, <3>2
    <2>4. CASE PutIndex
      <3>1. base' = [base EXCEPT ![keygen.seat] = [base[keygen.seat] EXCEPT !.indexed = TRUE]]
        BY <2>4 DEF PutIndex
      <3>2. \A f \in File : [f EXCEPT !.indexed = TRUE] \in File
        OBVIOUS
      <3> HIDE DEF File
      <3>3. QED
        BY <2>1, <3>1, <3>2
    <2>5. CASE TruncateOut \/ WriteOut \/ Kill
      BY <2>1, <2>5 DEF TruncateOut, WriteOut, Kill
    <2>6. QED
      BY <2>2, <2>3, <2>4, <2>5
  <1>5. out' \in Made \union {None, Torn}
    BY <1>2, <1>3 DEF Named, PutEnvelope, PutShare, PutIndex, TruncateOut, WriteOut, Kill
  <1>6. QED
    BY <1>1, <1>4, <1>5 DEF Named

\* The other commands leave the files, and print of groups that were made.
LEMMA CommandsNamed ==
    ASSUME IInv, Named, Next, UNCHANGED <<base, out>>,
           shown' \subseteq Made',
           \/ printed' \in [cmd : {"none", "error", "address"}]
           \/ printed' \in [cmd : {"signed"}, by : Made', coin : Made']
           \/ printed' \in [cmd : {"status"}, root : Seats \union {BaseRoot}, held : SUBSET Seats]
    PROVE  Named'
  <1>1. Made \subseteq Made'
    BY MadeGrows
  <1>2. base' \in [Seats -> [envelope : Made' \union {None}, share : Made' \union {None},
                             indexed : BOOLEAN]]
    BY <1>1 DEF Named
  <1>3. out' \in Made' \union {None, Torn}
    BY <1>1 DEF Named
  <1>4. QED
    BY <1>2, <1>3 DEF Named

LEMMA NextNamed == IInv /\ Named /\ [Next]_vars => Named'
  <1> SUFFICES ASSUME IInv, Named, [Next]_vars PROVE Named'
    OBVIOUS
  <1>1. CASE UNCHANGED vars
    BY <1>1 DEF vars, Named, Made
  <1>2. CASE PutEnvelope \/ PutShare \/ PutIndex \/ TruncateOut \/ WriteOut \/ Kill
    BY <1>2, WritersNamed
  <1>3. ASSUME Next PROVE shown \subseteq Made' /\ Made \subseteq Made'
    BY <1>3, MadeGrows DEF Named
  <1>4. ASSUME Next, NEW t, NEW n, NEW typed, NEW again, NEW persist, NEW output,
               Keygen(t, n, typed, again, persist, output)
        PROVE  Named'
    <2>1. printed' \in [cmd : {"none", "error", "address"}]
      BY <1>4 DEF Keygen, Nothing
    <2>2. UNCHANGED <<base, out, shown>>
      BY <1>4 DEF Keygen
    <2>3. QED
      BY <1>3, <1>4, <2>1, <2>2, CommandsNamed
  <1>5. ASSUME Next, NEW t \in 0 .. MaxSeats, NEW n \in 0 .. MaxSeats, NEW typed, NEW acked,
               NEW coin, Sign(t, n, typed, acked, coin)
        PROVE  Named'
    <2>1. UNCHANGED <<base, out, groups>> /\ Made' = Made /\ coin \in Made
      BY <1>5 DEF Sign, Made, Named
    <2>2. CASE ValidArguments(t, n) /\ Load(t, typed) = "loaded"
      <3>1. GroupPackage(t) \in Made
        BY <2>2, PackageIsMade
      <3>2. shown' \subseteq Made'
        BY <1>3, <1>5, <2>1, <3>1 DEF Sign
      <3>3. \/ printed' \in [cmd : {"none", "error", "address"}]
            \/ printed' \in [cmd : {"signed"}, by : Made', coin : Made']
        BY <1>5, <2>1, <3>1 DEF Sign
      <3>4. QED
        BY <1>5, <2>1, <3>2, <3>3, CommandsNamed
    <2>3. CASE ~(ValidArguments(t, n) /\ Load(t, typed) = "loaded")
      <3>1. SignPersisted(t, n, typed) # "signed"
        BY <2>3 DEF SignPersisted, Load
      <3>2. shown' \subseteq Made' /\ printed' \in [cmd : {"none", "error", "address"}]
        BY <1>3, <1>5, <2>1, <2>3, <3>1 DEF Sign
      <3>3. QED
        BY <1>5, <2>1, <3>2, CommandsNamed
    <2>4. QED
      BY <2>2, <2>3
  <1>6. ASSUME Next, NEW t, NEW n, NEW acked, NEW coin, SignSimulated(t, n, acked, coin)
        PROVE  Named'
    <2>1. UNCHANGED <<base, out>> /\ coin \in Made'
      BY <1>3, <1>6 DEF SignSimulated
    <2>2. CASE ~ValidArguments(t, n) \/ ~Dkg(t, n)
      <3>1. printed' \in [cmd : {"none", "error", "address"}] /\ shown' \subseteq Made'
        BY <1>3, <1>6, <2>2 DEF SignSimulated
      <3>2. QED
        BY <1>6, <2>1, <3>1, CommandsNamed
    <2>3. CASE ValidArguments(t, n) /\ Dkg(t, n)
      <3>1. Len(groups') \in Made'
        <4>1. groups \in Seq(Group) /\ \E g : groups' = Append(groups, g)
          BY <1>6, <2>3 DEF SignSimulated, IInv, Shape
        <4>2. Len(groups') = Len(groups) + 1 /\ Len(groups) \in Nat
          BY <4>1
        <4>3. QED
          BY <4>2 DEF Made
      <3>2. shown' \subseteq Made'
        BY <1>3, <1>6, <2>3, <3>1 DEF SignSimulated
      <3>3. \/ printed' \in [cmd : {"none", "error", "address"}]
            \/ printed' \in [cmd : {"signed"}, by : Made', coin : Made']
        BY <1>6, <2>1, <2>3, <3>1 DEF SignSimulated
      <3>4. QED
        BY <1>6, <2>1, <3>2, <3>3, CommandsNamed
    <2>4. QED
      BY <2>2, <2>3
  <1>7. ASSUME Next, Address PROVE Named'
    <2>1. UNCHANGED <<base, out, groups>> /\ Made' = Made
      BY <1>7 DEF Address, Made
    <2>2. shown' \subseteq Made' /\ printed' \in [cmd : {"none", "error", "address"}]
      BY <1>3, <1>7, <2>1 DEF Address, Named
    <2>3. QED
      BY <1>7, <2>1, <2>2, CommandsNamed
  <1>8. ASSUME Next, NEW root \in Seats \union {BaseRoot}, ShareStatus(root) PROVE Named'
    <2>1. UNCHANGED <<base, out, shown>>
      BY <1>8 DEF ShareStatus
    <2>2. printed' \in [cmd : {"status"}, root : Seats \union {BaseRoot}, held : SUBSET Seats]
      BY <1>8 DEF ShareStatus
    <2>3. QED
      BY <1>3, <1>8, <2>1, <2>2, CommandsNamed
  <1>9. QED
    BY <1>1, <1>2, <1>4, <1>5, <1>6, <1>7, <1>8 DEF Next

\* Every file names a DKG that was made, or none, and a signed transaction is a
\* made group's: the first selected root of sign --persist has an envelope.
THEOREM TypesHold == Spec => []TypeOK
  <1>1. Init => Named
    BY DEF Init, Named, EmptyRoot, None, Made, Nothing
  <1>2. IInv /\ Named => TypeOK
    BY DEF IInv, Shape, Named, TypeOK, Group
  <1>3. QED
    BY <1>1, <1>2, InitInv, NextInv, NextNamed, PTL DEF Spec
=============================================================================
