----------------------------- MODULE CommandLine ----------------------------
(***************************************************************************)
(* The commands over one store base (src/src/cli): keygen with --persist and   *)
(* --out (keygen.rs), sign with and without --persist (sign.rs), address       *)
(* (address.rs) and share-status (mod.rs), typed one after another by an       *)
(* operator who chooses thresholds, sizes and passphrases anew each time, and  *)
(* who may kill a keygen anywhere.                                             *)
(*                                                                           *)
(* PersistedKeygen looks at the same files under crashes and overlapping runs  *)
(* for one threshold; here the commands do not overlap, and what varies is     *)
(* what the operator types.  A group is the number of the DKG it comes from.   *)
(***************************************************************************)
EXTENDS Integers, Sequences, FiniteSets

CONSTANTS
    MaxSeats,       \* bound on n
    Passphrases,
    MaxGroups       \* bound on the number of DKGs

ASSUME CommandLineAssumption ==
    MaxSeats \in Nat \ {0} /\ MaxGroups \in Nat \ {0} /\ Passphrases # {}

Seats == 1 .. MaxSeats
None == 0

VARIABLES
    groups,     \* the DKGs made: [t, n, pass, stored, published]
    base,       \* seat |-> its root: [envelope, share, indexed]
    out,        \* the public envelope file: None, Torn or a group
    keygen,     \* the keygen that is running: [group, at, seat], or Idle
    ready,      \* the group of the last keygen, if that was a finished --persist
    shown,      \* the groups whose address the operator has seen
    printed     \* what the last command printed

vars == <<groups, base, out, keygen, ready, shown, printed>>

Torn == MaxGroups + 1
Idle == [group |-> None, at |-> "idle", seat |-> 0]
EmptyRoot == [envelope |-> None, share |-> None, indexed |-> FALSE]
Nothing == [cmd |-> "none"]

Init ==
    /\ groups = <<>>
    /\ base = [i \in Seats |-> EmptyRoot]
    /\ out = None
    /\ keygen = Idle
    /\ ready = None
    /\ shown = {}
    /\ printed = Nothing

\* The checks of the arguments in run, and those of the DKG itself.
ValidArguments(t, n) == t # 0 /\ n # 0 /\ t <= n
Dkg(t, n) == t >= 2 /\ n >= 2

\* InteractivePassphrase: a new store's passphrase is typed twice.
Prompted(typed, again) == typed = again
-----------------------------------------------------------------------------
(* keygen *)

\* run up to the DKG.
Keygen(t, n, typed, again, persist, output) ==
    /\ keygen = Idle
    /\ persist \/ output
    /\ Len(groups) < MaxGroups
    /\ IF ~ValidArguments(t, n) \/ (persist /\ ~Prompted(typed, again)) \/ ~Dkg(t, n)
         THEN /\ printed' = [cmd |-> "error"]
              /\ UNCHANGED <<groups, keygen, ready>>
         ELSE /\ groups' = Append(groups, [t |-> t, n |-> n, pass |-> typed,
                                           stored |-> persist, published |-> output])
              /\ keygen' = [group |-> Len(groups'),
                            at |-> IF persist THEN "envelope" ELSE "truncate", seat |-> 1]
              /\ ready' = None
              /\ printed' = Nothing
    /\ UNCHANGED <<base, out, shown>>

\* The end of persist_dkg_shares, for the group made.
Stored(g) ==
    IF groups[g].published THEN keygen' = [keygen EXCEPT !.at = "truncate"] /\ UNCHANGED ready
    ELSE keygen' = Idle /\ ready' = g

\* A mutant: the envelope is published before the shares are stored.
PublishFirst ==
    /\ keygen.at = "envelope"
    /\ base' = [base EXCEPT ![keygen.seat].envelope = keygen.group]
    /\ out' = IF groups[keygen.group].published THEN keygen.group ELSE out
    /\ keygen' = [keygen EXCEPT !.at = "share"]
    /\ UNCHANGED <<groups, ready, shown, printed>>

\* put_share, file by file: the envelope ...
PutEnvelope ==
    /\ keygen.at = "envelope"
    /\ base' = [base EXCEPT ![keygen.seat].envelope = keygen.group]
    /\ keygen' = [keygen EXCEPT !.at = "share"]
    /\ UNCHANGED <<groups, out, ready, shown, printed>>

\* ... the share ...
PutShare ==
    /\ keygen.at = "share"
    /\ base' = [base EXCEPT ![keygen.seat].share = keygen.group]
    /\ keygen' = [keygen EXCEPT !.at = "index"]
    /\ UNCHANGED <<groups, out, ready, shown, printed>>

\* A mutant: one seat too many.
NextSeatInclusive ==
    /\ keygen.at = "index"
    /\ base' = [base EXCEPT ![keygen.seat].indexed = TRUE]
    /\ IF keygen.seat <= groups[keygen.group].n
         THEN /\ keygen' = [group |-> keygen.group, at |-> "envelope", seat |-> keygen.seat + 1]
              /\ UNCHANGED ready
         ELSE Stored(keygen.group)
    /\ UNCHANGED <<groups, out, shown, printed>>

\* ... and the manifest, after which the next seat's turn comes.  Seats beyond n
\* keep what they held.
PutIndex ==
    /\ keygen.at = "index"
    /\ base' = [base EXCEPT ![keygen.seat].indexed = TRUE]
    /\ IF keygen.seat < groups[keygen.group].n
         THEN /\ keygen' = [group |-> keygen.group, at |-> "envelope", seat |-> keygen.seat + 1]
              /\ UNCHANGED ready
         ELSE Stored(keygen.group)
    /\ UNCHANGED <<groups, out, shown, printed>>

\* write_public_envelope uses fs::write, which truncates the file first.
TruncateOut ==
    /\ keygen.at = "truncate"
    /\ out' = Torn
    /\ keygen' = [keygen EXCEPT !.at = "write"]
    /\ UNCHANGED <<groups, base, ready, shown, printed>>

\* The end of run, whether the shares were stored or not.
WriteOut ==
    /\ keygen.at = "write"
    /\ out' = keygen.group
    /\ ready' = IF groups[keygen.group].stored THEN keygen.group ELSE None
    /\ keygen' = Idle
    /\ UNCHANGED <<groups, base, shown, printed>>

Kill ==
    /\ keygen # Idle
    /\ keygen' = Idle
    /\ UNCHANGED <<groups, base, out, ready, shown, printed>>
-----------------------------------------------------------------------------
(* sign *)

\* The seat-* roots of the base, in the order of their names.
Roots == {i \in Seats : base[i].envelope # None}

\* The place of a root in that order.
Place(i) == Cardinality({j \in Roots : j <= i})

\* A mutant: the last roots.
LastRoots(t) == {i \in Roots : Cardinality({j \in Roots : j >= i}) <= t}

\* The first t of them.
Selected(t) == {i \in Roots : Place(i) <= t}

\* The group package is the first selected root's.
GroupPackage(t) ==
    base[CHOOSE i \in Selected(t) : \A j \in Selected(t) : i <= j].envelope

\* How load_persisted_shares ends, short of the shares.
Load(t, typed) ==
    IF Cardinality(Roots) < t THEN "insufficient"
    ELSE IF \E i \in Selected(t) : ~base[i].indexed THEN "no active share"
    ELSE IF \E i \in Selected(t) : groups[base[i].share].pass # typed THEN "wrong passphrase"
    ELSE "loaded"

\* How the session ends on what was loaded: each signer wants as many commitments
\* as its own group's threshold, and the shares of another group do not verify.
Session(t) ==
    IF \E i \in Selected(t) : groups[base[i].share].t > t THEN "wrong number of commitments"
    ELSE IF \E i \in Selected(t) : base[i].share # GroupPackage(t) THEN "culprits"
    ELSE "signed"

\* How sign --persist ends for an operator who acknowledges.
SignPersisted(t, n, typed) ==
    IF ~ValidArguments(t, n) THEN "invalid"
    ELSE IF Load(t, typed) # "loaded" THEN Load(t, typed)
    ELSE Session(t)

\* Once the shares are loaded, sign prints the group's address, and after the
\* acknowledgement the transaction.  The PSBT spends a coin of any address the
\* operator has seen.
Sign(t, n, typed, acked, coin) ==
    /\ keygen = Idle
    /\ coin \in shown
    /\ LET loaded == ValidArguments(t, n) /\ Load(t, typed) = "loaded"
       IN  /\ shown' = IF loaded THEN shown \union {GroupPackage(t)} ELSE shown
           /\ printed' = IF acked /\ SignPersisted(t, n, typed) = "signed"
                           THEN [cmd |-> "signed", by |-> GroupPackage(t), coin |-> coin]
                           ELSE [cmd |-> "error"]
    /\ UNCHANGED <<groups, base, out, keygen, ready>>

\* Without --persist the shares come from a DKG of this very run.
SignSimulated(t, n, acked, coin) ==
    /\ keygen = Idle
    /\ coin \in shown
    /\ Len(groups) < MaxGroups
    /\ IF ~ValidArguments(t, n) \/ ~Dkg(t, n)
         THEN printed' = [cmd |-> "error"] /\ UNCHANGED <<groups, shown>>
         ELSE /\ groups' = Append(groups, [t |-> t, n |-> n,
                                           pass |-> CHOOSE p \in Passphrases : TRUE,
                                           stored |-> FALSE, published |-> FALSE])
              /\ shown' = shown \union {Len(groups')}
              /\ printed' = IF acked
                              THEN [cmd |-> "signed", by |-> Len(groups'), coin |-> coin]
                              ELSE [cmd |-> "error"]
    /\ UNCHANGED <<base, out, keygen, ready>>
-----------------------------------------------------------------------------
(* The commands that only read *)

\* watcher address: a file that is missing or torn does not parse.
Address ==
    /\ keygen = Idle
    /\ printed' = [cmd |-> IF out \in {None, Torn} THEN "error" ELSE "address"]
    /\ shown' = IF out \in {None, Torn} THEN shown ELSE shown \union {out}
    /\ UNCHANGED <<groups, base, out, keygen, ready>>

\* share-status reads the manifest of the root it is given: the base itself by
\* default, where no command writes one, or a seat's root.  A missing manifest
\* lists nothing.
ShareStatus(root) ==
    /\ keygen = Idle
    /\ printed' = [cmd |-> "status", root |-> root,
                   held |-> IF root \in Seats /\ base[root].indexed THEN {root} ELSE {}]
    /\ UNCHANGED <<groups, base, out, keygen, ready, shown>>

BaseRoot == 0

Next ==
    \/ \E t \in 0 .. MaxSeats, n \in 0 .. MaxSeats, typed, again \in Passphrases,
          persist, output \in BOOLEAN : Keygen(t, n, typed, again, persist, output)
    \/ PutEnvelope \/ PutShare \/ PutIndex \/ TruncateOut \/ WriteOut \/ Kill
    \/ \E t \in 0 .. MaxSeats, n \in 0 .. MaxSeats, typed \in Passphrases,
          acked \in BOOLEAN, coin \in shown : Sign(t, n, typed, acked, coin)
    \/ \E t \in 0 .. MaxSeats, n \in 0 .. MaxSeats, acked \in BOOLEAN, coin \in shown :
          SignSimulated(t, n, acked, coin)
    \/ Address
    \/ \E root \in Seats \union {BaseRoot} : ShareStatus(root)

Spec == Init /\ [][Next]_vars
-----------------------------------------------------------------------------
(* Properties *)

Made == 1 .. Len(groups)

\* Types of the base, of the running keygen and of what was printed.
TypeOK ==
    /\ groups \in Seq([t : Seats, n : Seats, pass : Passphrases, stored : BOOLEAN,
                    published : BOOLEAN])
    /\ Len(groups) <= MaxGroups
    /\ base \in [Seats -> [envelope : Made \union {None}, share : Made \union {None},
                           indexed : BOOLEAN]]
    /\ out \in Made \union {None, Torn}
    /\ \/ keygen = Idle
       \/ /\ keygen \in [group : Made, seat : Seats,
                         at : {"envelope", "share", "index", "truncate", "write"}]
          /\ keygen.seat <= groups[keygen.group].n
    /\ ready \in Made \union {None}
    /\ shown \subseteq Made
    /\ \/ printed \in [cmd : {"none", "error", "address"}]
       \/ printed \in [cmd : {"signed"}, by : Made, coin : Made]
       \/ printed \in [cmd : {"status"}, root : Seats \union {BaseRoot}, held : SUBSET Seats]

\* After a keygen --persist that finished, whatever the base held before it, killed
\* runs and larger groups included: sign --persist with its passphrase and any t
\* from its threshold to its size signs for the group, and the address file, if it
\* was asked for, is the group's.
FinishedKeygenServes ==
    ready # None =>
        LET g == groups[ready] IN
        /\ \A t \in g.t .. g.n, n \in Seats :
              t <= n => SignPersisted(t, n, g.pass) = "signed" /\ GroupPackage(t) = ready
        /\ g.published => out = ready

\* keygen --persist --out publishes an address only once the base holds every share
\* behind it: a run killed earlier leaves the file as it was.
PublishedAfterStored ==
    [][(out' \in Made /\ out' # out /\ groups[out'].stored) =>
          \A i \in 1 .. groups[out'].n : base[i].share = out' /\ base[i].indexed]_vars
-----------------------------------------------------------------------------
(* Claims of the documentation that the code does not keep: TLC refutes each as *)
(* an invariant of the instance the run cli_commands checks.                    *)

\* store/passphrase.rs:11 "One store passphrase unlocks the identity key and every
\* share".
OnePassphraseOpensEveryShare ==
    keygen = Idle => \A i, j \in Seats :
        (base[i].indexed /\ base[j].indexed) =>
            groups[base[i].share].pass = groups[base[j].share].pass

\* cli/sign.rs:13 "The PSBT must spend the address the command prints": what is
\* printed as signed spends the coin.
SignedSpendsTheCoin == printed.cmd = "signed" => printed.by = printed.coin

\* cli/mod.rs:133 "list held shares from the store with no unlock": asked about the
\* base that holds shares, share-status lists them.
ShareStatusListsTheBase ==
    (printed.cmd = "status" /\ printed.root = BaseRoot) =>
        printed.held = {i \in Seats : base[i].indexed}

\* session/liveness.rs:7 "Never select exactly t seats and hope none drop": with a quorum of one
\* group's shares in the base, under one passphrase, sign --persist signs.
StoredQuorumSigns ==
    keygen = Idle =>
        \A g \in Made :
            Cardinality({i \in Seats : base[i].indexed /\ base[i].share = g
                                          /\ base[i].envelope = g}) >= groups[g].t =>
                \E t, n \in Seats : SignPersisted(t, n, groups[g].pass) = "signed"
                                      /\ GroupPackage(t) = g
=============================================================================
