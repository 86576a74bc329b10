# cheget in TLA+

cheget is a Bitcoin threshold wallet: n seats run a FROST distributed key
generation, the group key becomes a Taproot output key, and any t seats sign a
PSBT in a two-round session. All seats are simulated by one process, which
exchanges messages over an in-memory board. This directory holds TLA+ models of
that program, the TLC configurations that check them on small instances, and
TLAPS proofs of what matters most for every value of the constants.

## The system

| component (source under `src/src/`) | state it keeps | operations | talks to |
|---|---|---|---|
| signing session (`session/mod.rs`) | `spent`; within a call: the selected seats, the `Round1` value with its nonces and package, the witnesses attached so far | `liveness_select`, `round1`, `round2`, `run`, `new_session_on_abort` | transport, nonces, display gate, aggregation |
| liveness (`session/liveness.rs`) | none | `over_provisioned_poll_size`, `poll_and_select` | called by the session |
| display gate (`session/display.rs`) | none | `render`, `display_and_ack` | called by the session, once per seat |
| transport (`transport/`) | the board: envelopes in the order of a content hash | `publish` (dedup by id), `subscribe` (filter) | sessions publish and collect |
| nonces, aggregation (`crypto/nonce.rs`, `crypto/sign.rs`) | a move-only nonce | `commit`, `sign` (consumes), `aggregate` | frost-secp256k1-tr |
| in-process DKG (`crypto/keygen.rs`) | within a call: the round-1 packages, one pool of them per worker, the round-2 packages by recipient | `run_inprocess_dkg`, `run_inprocess_dkg_with_rng`, `confirm_group_key` | frost-secp256k1-tr, rayon |
| Taproot bridge (`bridge/taproot.rs`) | none | group key to address, signature to witness | frost, rust-bitcoin |
| participant store (`store/participant.rs`, `store/manifest.rs`, `store/atomic.rs`) | a root directory per seat: encrypted shares, a manifest, the group's public envelope | `put_share`, `load_share`, `load_only_active`, `put_public_envelope`, `load_public_envelope`, `load_manifest` | file system |
| checkpoint store (`store/checkpoint.rs`) | one encrypted file per ceremony, seat and round | `put_round1`, `put_round2`, `load_round1`, `load_round2`, `wipe` | file system; called by tests only so far |
| coordinator database (`coordinator/`) | an SQLite file with a schema version | `open`, `migrate`, `insert_*`, `list_*`, `get_*`, `policy_config` | SQLite |
| identity, passphrase and encryption (`store/identity.rs`, `store/passphrase.rs`, `store/crypto.rs`) | an age identity file | create, unlock, encrypt, decrypt | age |
| command line (`cli/`) | none | `keygen`, `sign`, `address`, `share-status`, `roster` commands | all of the above |
| chain backends (`chain/`) | none | UTXOs, broadcast, fee rate, confirmations, sighash | Bitcoin Core RPC, Esplora |

What is hard about it:

- **Reuse of a topic.** The board is append-only, and a session's topic depends
  only on its id and the input. A call that is made again on the same session
  reads what the failed call left behind, and which envelope wins is decided by
  a content hash.
- **Nonces under retries.** `run` can be called again after any failure, a
  `Round1` value can be kept by the caller while other calls are made, or be
  dropped. A nonce must never make two shares.
- **Partial failure of a round.** A seat may refuse or fail after earlier seats
  published their shares.
- **Several sessions on one board.**
- **Crashes between file writes.** Storing a share takes three files, and keygen
  stores one share per seat; no write covers them all, and a rename or a new
  directory is durable only after an fsync.
- **Processes on the same files.** Nothing locks a store base, a ceremony's
  checkpoints or the first migration of the database: a keygen and a sign, two
  keygens, a put and a wipe, two opens may overlap.
- **Commands that agree on nothing.** Each command takes its threshold, size and
  passphrase from the operator; what the store base already holds is compared
  with none of them, and a killed command leaves it half replaced.
- **A chain that moves.** A backend's answer may be put together from two
  requests, with blocks, replacements and reorganisations in between.
- **Parallel simulation.** The DKG maps its rounds 2 and 3 over a thread pool
  whose workers share mutable state between the seats they happen to get.

What makes each part correct:

| part | must hold |
|---|---|
| signing session | a nonce makes one share; a share signs the input of the topic it is on, with commitments of that topic; a returned signature is one of T seats on the right sighash in an acknowledged call; a first attempt succeeds whatever other sessions do |
| transport | an envelope reaches the readers of its topic and class, and no others |
| in-process DKG | the result depends on the failing calls and the keys alone, never on the schedule; it returns |
| participant store | a manifest never indexes what is not there and holds no tag twice; what a finished call stored stays indexed; other keys and epochs do not disturb the active share; a finished keygen owns the base; a load returns shares of one DKG with their group key |
| checkpoint store | a stored round secret is found until its ceremony is wiped; `Ok` from `wipe` is true |
| coordinator database | the migration is all or nothing; a store that was opened can be used; no open loses rows |
| command line | what a finished keygen stored can be signed with; an address is given out only over stored shares |
| chain backends | a list never claims more confirmations than there are; both backends say the same; a fee rate is the cheapest estimate in time, or Core's less its fraction |

## What the modules model

### Transport

The board (`transport/`). `Publish` is `InMemoryTransport::publish`, `Matches`
is `Filter::matches`, `Collect` is a subscription as its callers use it: folded
into a map by sender, where the envelope with the greatest id wins. The id is a
hash of the content, so the order of two envelopes is unrelated to the order
they were published in; it is fixed, though, and the same for every reader. The
variable `last` holds, for each class, topic, round, sender and recipient, the
envelope with the greatest id: publishing a new envelope either takes that place
or does not, and both are explored. Collisions of the hash are left out.

### SigningSession

The signing ceremony. `phase`, `input`, `selected`, `pending`, `nonces`,
`package` are the local variables of `run`, `round1` and `round2`; `kept` is a
`Round1` value the caller of the public `round1` holds; `spent` is the field.
One step is one publish or one collect:

| action | code |
|---|---|
| `StartRun`, `RefuseSpent`, `StartRound1` | entry of `run` / `round1`, with the liveness poll |
| `Commit` | one turn of `round1`'s loop over the seats |
| `BuildPackage` | `round1` reads the commitments back and fixes the package |
| `CallRound2`, `DropRound1` | the caller hands a kept `Round1` to `round2`, with the index of any input, or gives it up |
| `RefuseAtGate`, `SignFails`, `Sign` | one turn of `round2`'s loop, and its two early returns |
| `AggregateFails`, `Aggregate` | the rest of `round2`, and `run`'s loop over the inputs |

Abstractions: a commitment is the identity of its nonce; a share is its nonce
with the package it was made for; a signature is the set of its shares; a
sighash is the index of the input, counted from 1. The seats are honest, as they are in the program: one
process plays them all. All sessions sign the same PSBT. The
liveness poll publishes on the bare session id, which is topic 0 of the session.
In the `round1`/`round2` mode the caller passes the seats its poll selected, and
keeps at most one `Round1` value at a time, which goes back to the session it came
from. A `Round1` holds no index, and `round2` takes the one its caller names: with
another than `round1` was called with, the gate of the first seat finds that the
package's message is not its own sighash (`BlindSignMismatch`, `display.rs:135`) and
the call ends in a refusal; `SharesAnswerTheirTopic` rests on it. An index beyond
the inputs is left out: no sighash can be computed for it, and the call ends at the
same gate. `attempts` counts calls and bounds
them (`MaxAttempts`).

### NonceLedger

What SIGN-05 and SIGN-06 promise of nonces, with no mention of sessions: a nonce
is issued once, is live until it makes one share or is dropped, and never comes
back. `SigningSession` implements it under the mapping `Ledger`.

### CrashFiles

Files and directories that survive a crash (`store/atomic.rs`). A file has a
content that readers find (`seen`) and a set of contents that a crash may leave
(`disk`); a directory exists (`made`) and may be out of reach of a crash
(`settled`). `CreateDirSecure` is `create_dir_secure`; `Rename` and `SyncHome`
are the two halves of `write_atomic`, up to the rename and the fsync of the
directory; `Unlink` and `RemoveDir` are what `remove_dir_all` is made of;
`PowerLoss` picks one of the possible outcomes. `write_atomic` fsyncs its
temporary file before the rename, so contents are whole; readers never look at a
temporary file.

`create_dir_secure` never fsyncs the parent of a directory it makes. What then
happens to the directory in a crash depends on the file system, and
`MkdirDurable` chooses: with `TRUE`, the fsync of a directory commits the
directory itself and those above it (what journalling file systems do); with
`FALSE`, it does not (all that POSIX promises). The base directory itself is
taken to be durable.

### PersistedKeygen

`keygen --persist` and `sign --persist` over one store base.

| action | code |
|---|---|
| `StartKeygen` | `persist_dkg_shares` begins (`cli/keygen.rs`) |
| `MakeDir`, `Replace`, `Sync` | the three steps of each write of `put_share` (`store/participant.rs`): public envelope, share, manifest; `Sync` also goes on to the next file or the next seat |
| `GiveUp` | an error in any of them, or a kill |
| `Crash` | the machine |
| `StartLoad`, `LoadSeat`, `LoadGroup` | `load_persisted_shares` (`cli/sign.rs`): the listing of the roots, one seat's share at a time, the group's package from the first root |

Abstractions: the content of a file is the DKG it comes from, and a DKG is the
number of the keygen process that ran it; the manifest has one entry, because
every caller uses one tag per root; all processes use the same passphrase,
threshold and number of seats; there are at most 9999 seats, so that the order
of the roots' names is that of the seats; the nested directories of a share are
one directory below the root. `owner` is a history variable: the keygen that
last started, if none was writing then.

### KeyBase

What a store base promises to those who keygen and sign on it, with no mention
of files, roots or crashes half-way: a keygen that ran alone and finished holds
the base until the next one begins; a load that had one holder from beginning to
end gets a quorum of that holder's shares and its group, and cannot fail; any
other load may fail, or get a quorum of shares of any keygens that have begun (the
mixed group of the findings). `PersistedKeygen` implements it under the mapping
`Base`: its writes of files and its reads of single seats are invisible, the
last `Sync` of a keygen is its `Finish`, and `LoadGroup` is where a load ends.

### ParticipantStore

One root of the store used as a library: any number of `put_share` at the same
time, for several keys and epochs, with a reader. It shares `CrashFiles` with the
other store models. A `Line` is a key with an epoch, a tag is a line with a seat.

| action | code |
|---|---|
| `PutEnvelope`, `SyncEnvelope` | `put_public_envelope`, up to the rename, and its fsync |
| `PutShare`, `SyncShare` | the encrypted share, the same way |
| `LoadIndex`, `PutIndex`, `SyncIndex` | `load_manifest` and `add_entry`; the write of the manifest |
| `GiveUp`, `Crash` | an error or a kill; the machine |
| `ReadIndex`, `ReadShare`, `ReadGroup` | `load_only_active`, its `load_share`, and `load_public_envelope` for the genesis line as `sign --persist` calls it |

Abstractions: the content of an envelope or a share is the put that wrote it, and
that of the manifest the sequence of the puts that made its entries, so that a
tag, a state and an entry are one identity; a manifest written by a newer build
is one more content (`Newer`). What each put is called with (`plan`) is given
from outside. History variables: `raced`, the puts that held the manifest while
another did, and `reader.began`, the puts of the genesis line that had returned
when the reader began.

### CommandLine

The commands over one base, one after another: `keygen` with `--persist` and
`--out`, `sign` with and without `--persist`, `address`, `share-status`. Keygen
goes file by file (`PutEnvelope`, `PutShare`, `PutIndex`, `TruncateOut`,
`WriteOut`), because it may be killed between any two (`Kill`); the others are
one step each, since nothing runs beside them. What varies is what the operator
types: `t` and `n` from 0 on, the passphrase and its repetition, the options, the
acknowledgement, and the coin the PSBT spends. `SignPersisted` is how
`sign --persist` ends: the argument checks, the number of roots, an active share
in each of the first t, one passphrase for all of them, and then what the session
makes of the shares (`Session`, external: frost wants as many commitments as the
group's threshold, and a share of another group does not verify). A group is the
number of its DKG; an address is its group; all signers acknowledge and answer.
`PersistedKeygen` looks at the same files under crashes and overlapping runs, for
one threshold, size and passphrase.

### ChainBackends, FeeEstimates

Both backends over one chain. `Deposit`, `Replace`, `Mine`, `Reorganise` and
`Broadcast` move the chain and the mempool; `known` is what Core's wallet has
seen since `ImportTrDescriptor`, with the `Window` of blocks that an import "now"
still looks back over. Core answers in one step; `EsploraAskTip` and
`EsploraListUtxos`, `EsploraAskStatus` and `EsploraConfirmationDepth` are the two
requests of `list_utxos` and `confirmation_depth`, and the chain may move in
between. `answer` keeps the last answer with what was true when it was given and
what had happened since the first request (`since`). The nodes are external: a
wallet recognises payments to the group and the spends of payments it knows, and
counts a transaction below zero when a rival of it is mined.

`CoreEstimateFee` and `EsploraEstimateFee` are `estimate_fee`, over the operators
of `FeeEstimates`: `Convert` divides Core's sat/kvB and takes the unit of a
`FeeRate`, `PickFee` is `pick_fee`. The estimates are external and arbitrary.

### CheckpointStore

`put_round1`, `put_round2` and `wipe` by several processes on one root, on
`CrashFiles` with `MkdirDurable`. A put is `StartPut`, `MakeDir`, `WriteTemp`,
`Replace`, `Sync`; here the temporary file matters, because a wipe may remove it
before the rename or stumble over it. A wipe is `StartWipe`, any number of
`RemoveEntry`, and `EndWipe` or `WipeMeetsEntry`: `remove_dir_all` of the pinned
toolchain ignores an entry that somebody else has removed, and fails on a
directory that got an entry after it was listed. `GiveUp` is an I/O error or a
kill. History variables: `promise` (what the puts that succeeded entitle a
reader to), `gone` (ceremonies wiped and not touched since), `alone` (whether a
call met another in its tree). What a killed put leaves of its temporary file is
left out.

### InprocessDkg

`run_inprocess_dkg_with_rng`. `Part1` is a turn of the loop of round 1; `Part2`
and `Part3` are a seat's work in the parallel rounds, `Resolve2` and `Resolve3`
the walks over the results, `Spread` the start of a parallel round. rayon is
free to cut the seats into leaves (`Splits`: any cut into runs of consecutive
seats) and to interleave the leaves; a leaf has its own clone of the round-1
packages and works through its seats in order. The `?` after a failed primitive
skips the reinsertion of the seat's package, so the rest of the leaf sees an
incomplete pool: `PutBack`, `CallResult`. Which calls fail by themselves
(`fault`) and which group key a seat computes (`key`) are given from outside.
"count" stands for frost's two refusals of a wrong set of packages, "panic" for
the `expect`. The conversion of a seat's index to an identifier cannot fail for
the indices the loop makes.

### CoordinatorStore

The SQLite file. `Open` is the connection with its pragmas, `ReadVersion` the
`user_version` gate of `migrate`, `BeginMigration` and `CommitMigration` the
transaction, `Insert` the four `insert_*`, `Close` the drop of the store, `Kill`
and `PowerLoss` what may go wrong, `TimeOut` the end of the busy timeout. One
table stands for the four with a primary key. SQLite is external and taken at
its word: one writer at a time; a transaction that has waited for the write lock
sees the latest commit; a commit is seen at once, and in WAL mode with
`synchronous=NORMAL` it is durable only at the next sync of the log (`SyncLog`),
so that a power loss returns to some commit since the last one (`past`).

## The runs

| run | instance | what is checked | what it shows |
|---|---|---|---|
| `signing_retries` | 1 session, 3 seats, T = 2, 2 inputs, 3 calls of any kind | `TypeOK`, `NonceNeverSignsTwice`, `WitnessVerifies`, `SuccessSignsEveryInput`, `SharesAnswerTheirTopic`, `ImplementsLedger` | retries, aborts at every point and `Round1` values that are kept, dropped or used for another input never make a nonce sign twice, a share on the wrong topic or a wrong signature |
| `signing_isolation` | 2 sessions, 2 runs each | `OnlyReuseFails`, `FirstRunSucceeds` | sessions do not disturb each other; only the reuse of a session id can fail |
| `keygen_reruns` | 3 seats, T = 2, 2 keygens one after the other, 2 crashes, a reader | `TypeOK`, `IndexedShareExists`, `FinishedKeygenOwnsBase`, `ImplementsBase`, `OneTornRootPerInterruptedRun` | what interrupted runs leave is bounded, and a finished run repairs it |
| `participant_puts` | 2 lines, 1 seat, active and standby shares, 3 puts, 1 reader, 1 crash, a new root or one of a newer build | `TypeOK`, `IndexNeverDangles`, `OneEntryPerTag`, `OnlyRacesLoseEntries`, `NoShareMissing`, `OthersNeverDisturb` | concurrent calls on one root cost at most an entry of a call that raced; nothing else is lost or confused |
| `cli_commands` | up to 3 seats, every `t` and `n` up to 3, 2 passphrases, 2 DKGs, kills | `TypeOK`, `FinishedKeygenServes`, `PublishedAfterStored` | whatever the base held before, a finished keygen can be signed with, for every `t` from its threshold to its size |
| `chain_views` | 1 coin, 5 blocks, forks of 2, a window of 1; 3 fee buckets, 3 rates, 7 rates of Core, 5 targets | `TypeOK`, `ListIsCautious`, `QuietAnswersAreTrue`, `DepthTrueButForReorgs`, `EstimatesAreFaithful` | the two requests of a list never overstate; only a reorganisation makes a depth wrong; in a quiet chain the backends agree; Core's fee loses less than one sat/vB (and below 1 all of it), Esplora's is the cheapest in time |
| `checkpoint_calls` | 2 processes, 2 ceremonies of 2 seats of 2 rounds, 2 puts, any number of wipes, 1 power loss | `TypeOK`, `CheckpointsKept`, `OnlyOverlapFails`, `WipedIsGone` | checkpoints stay until wiped; calls that do not meet do not fail |
| `dkg_schedules` | 4 seats, up to 2 failing calls, 2 group keys, every split and schedule | `TypeOK`, `OutcomeIsSequential`, `CountErrorFollowsFault`, `Returns` | the parallel DKG is a sequential one, and the error it reports is a root cause |
| `coordinator_opens` | 3 processes, 2 rows of 2 values, 1 power loss | `TypeOK`, `MigrationIsAtomic`, `OpenStoreHasTables`, `LateOpenNeverFails`, `OpensKeepRows` | the race of two first opens costs at most an error, never data |
| `honest_blame` | 1 session, 3 seats, T = 2, 3 calls | a claim of the documentation | see the findings |
| `keygen_mkdir_lost`, `keygen_mixed_groups` | 2 or 3 seats | a claim of the documentation each | see the findings |

Why the bounds are enough. 3 seats with T = 2 have a seat that is selected, one
that is left out, and a first and a last turn of every loop; three calls on a
session are what it takes for a stale commitment to meet a stale share (the
violation of `honest_blame` needs exactly that). Two keygens give the one that
was there and the one that overwrites it, with a third seat for the part not yet
reached. With 4 seats a leaf can hold a seat before, at and behind a failed one
and still leave a seat for another leaf. Three processes on the database let one
migrate, one lose the race and one come late. Two puts give an old and a new
content of one file, or a file in each of two ceremonies. `checkpoint_calls`
uses symmetry in processes, ceremonies and seats, and `participant_puts` in the
puts: they check no liveness.

Three puts on one root are one for the active genesis share, one that meets it
in the manifest and one that comes later and may bring back or lose what the two
left; two lines in two states make every pair of equal and different tags, and
with one seat a line has one tag. One crash falls on any mix of their files. In
`cli_commands` a second DKG meets a base of a larger, an equal or a smaller
first one, whole or killed at any file; 3 seats are the least that leave a root
beyond a group of 2. In `chain_views` a fork of 2 on 5 blocks moves a
transaction to a lower, an equal or a greater height or out of the chain, and
with a window of 1 an import misses a coin; neither backend relates two coins.
Core's rates are those just at and around whole numbers of sat/vB, and the
targets lie below, at, between and above buckets.

`keygen_reruns` takes keygens one after another, as `OneTornRootPerInterruptedRun`
asks: two that overlap may tear every root. What overlapping writers of one root
do to its files is in `participant_puts`; what they do to a whole base is in the
theorems of `PersistedKeygen_proofs`, which allow the overlap.

Deadlock checking is off where a bound stops the system: `MaxAttempts`,
`NumKeygens`, the end of a DKG, the puts that have all been made. It is on for
the models that never stop: the database, the checkpoint store, the command line
and the chain backends.

Fairness. `SigningSession` assumes weak fairness of `Step(s)` only: a call is one
function on one thread in which nothing waits. Nothing obliges a caller to call,
so `FirstRunSucceeds` starts from a run that has begun. `InprocessDkg` assumes
weak fairness of `Next`: rayon runs every leaf to its end, and the caller waits.
The other modules state no fairness and no liveness: whether a keygen goes on or
a database is opened is up to a user.

## Findings

Three claims of the documentation do not hold of the code. Each has a run in
which TLC finds the violation.

- `OnlyMisbehavingSeatsBlamed`: an abort does not spend a session. `run` sets
  `spent` only after success (`session/mod.rs:420`), while `session/mod.rs:21` and
  `:138` say that an abort spends it too. As a consequence, a third run of the
  same session may blame an honest seat, whose share of an earlier attempt has the
  greater envelope id; `crypto/sign.rs:28` calls the blamed seats misbehaving.
  `OnlyReuseFails` shows that a fresh session id per attempt avoids it.
- `IndexedShareIsDurable`: where a new directory needs an fsync of its parent, a
  crash may lose `shares/` and keep the manifest (`store/atomic.rs:54` against
  `store/manifest.rs:10`). With `MkdirDurable` the opposite is proved.
- `LoadedSharesAreConfirmed`: while a second keygen on a base is unfinished or
  after it died, `sign --persist` loads shares of two DKGs under one group key
  (`cli/sign.rs:168`); `confirm_group_key`, which `crypto/keygen.rs:212` calls
  mandatory, is called by tests only.

Smaller ones, which the models state but no run repeats. The modules hold a formula
for each; TLC refutes it as an INVARIANT of the configuration named.

- `LoadsTheGenesisShare` (`ParticipantPuts.cfg`): `load_only_active` takes the
  first active entry of any key and epoch (`store/participant.rs:134`), which
  `:119` calls the sole active genesis share. No command writes a second epoch
  yet. `OthersNeverDisturb` is what does hold: entries that are not active do no
  harm.
- `StoredQuorumSigns` (`CliCommands.cfg`, as for the next three): `sign --persist`
  loads the first t roots and no more (`cli/sign.rs:148`), so one root that a
  killed keygen began makes it fail with a quorum in the base;
  `session/liveness.rs:7` says never to select exactly t.
- `OnePassphraseOpensEveryShare`: keygen on a base that has shares takes any new
  passphrase (`cli/keygen.rs:151`); `store/passphrase.rs:11` says that one opens
  every share.
- `SignedSpendsTheCoin`: sign prints as signed what carries a signature of the
  group at hand, whichever group the coin belongs to (`cli/sign.rs:244`);
  `cli/sign.rs:14` says that the PSBT must spend the address printed. The network
  refuses such a transaction, so that no coin is lost.
- `ShareStatusListsTheBase`: share-status reads the manifest of the base
  (`cli/mod.rs:135`), where keygen writes none, and so lists nothing; `:133` says
  that it lists the held shares. (The repository's README, lines 68 to 71, still
  describes a keygen that stores no share.)

And of the chain backends, without a formula: Core's `confirmation_depth` of a
transaction its wallet does not know is an error (`chain/core_rpc.rs:113`), and
not the 0 of `chain/mod.rs:98`; an import "now" (`chain/core_rpc.rs:55`) leaves out
the coins of older blocks, which `chain/mod.rs:80` says will be reported; a rate of
Core's below 1 sat/vB becomes 0 (`chain/core_rpc.rs:100`).

## What is proved

For every value of the constants, under the modules' named assumptions on them.
Each `*_proofs` module shows that `Init` implies an inductive invariant, that
every action preserves it (one lemma per action), and that it implies the
property.

- `SigningSession_proofs`: `TypeCorrect` (`TypeOK`, with the fact that round 2
  has a package), and `NonceSafety` (`NonceNeverSignsTwice`). The nonce
  property says nothing of the nonces still in memory, so the induction adds that no two
  places in memory hold the same nonce, that all nonces in memory or on the board
  have been drawn, and that a nonce which made a share is in no one's memory.
  On top of it, `SharesAnswer` (`SharesAnswerTheirTopic`), `SignaturesVerify`
  (`WitnessVerifies`),
  `SuccessIsComplete` (`SuccessSignsEveryInput`), `FirstAttemptSucceeds`
  (`OnlyReuseFails`) and the refinement `KeepsLedger` (`ImplementsLedger`). The
  invariant is one of a single session (`SessionInv`), because a step changes one
  session and adds envelopes to its topics only (`OthersUntouched`, `Frame`). Its
  parts: whose nonces are in memory at each point of a round (`HoldOf`); T seats
  were selected, and those that acted have a commitment on the topic (`SelectOf`);
  a package, also one a caller kept, was committed to by T seats on the topic of the
  input it is for, and a round 2 gets past its first seat only where the gate finds
  that this is the input of the call (`SoundOf`); a run
  has signed the inputs it is past (`SignedOf`); a call that finds its topics
  empty reads back what it published (`FirstOf`). `LastInv` says that of every
  envelope some rival comes last, so that a collection misses no sender.
  `CallsEnd` (`CallsRunDown`): once entered, a call's own steps leave less and less
  to do (`WorkLeft`), and other sessions do not touch it.
- `PersistedKeygen_proofs`: with keygens that overlap or not, `IndexNeverDangles` (`IndexedShareExists`) and
  `FinishedOwnsBase` (`FinishedKeygenOwnsBase`), both assuming `MkdirDurable`;
  the run `keygen_mkdir_lost` shows why. The invariant speaks of every content a
  crash may leave and not only of the one to be seen now, and of what a writer
  has made safe at each step; for the second theorem, of all that the owner has
  written so far. `TypeCorrect` (`TypeOK`) and `QuietLoadsWhole` (`QuietLoadIsWhole`,
  under the same assumption) add the reader: the base it reads is the
  owner's from its first read on, so the roots it finds are all N (`OwnerServes`),
  the first T of them have T members (`FirstOfSeats`), and the first of those holds
  the owner's group. `KeepsBase` (`ImplementsBase`, under the same assumption) is the
  refinement of `KeyBase`, one lemma per action. It adds what holds of the loads
  that were disturbed: no file holds the content of a keygen that has not begun
  (`BegunInv`), and the first T of T roots or more are T roots (`FirstOfSize`: the
  number of roots before a root is a bijection).
  `OneTornPerRun` (`OneTornRootPerInterruptedRun`) assumes besides that keygens
  do not overlap. Its invariant `WholeInv`: a root that no unfinished keygen stands
  at holds one content in all its files and can no longer lose it; so each torn
  root has an unfinished keygen of its own, and there are no more of the one than
  of the other.
- `CheckpointStore_proofs`: every property of the run `checkpoint_calls`, under
  `CheckpointAssumption` alone. `TypesHold` (`TypeOK`), `StoredIsKept`
  (`CheckpointsKept`), `AloneSucceeds` (`OnlyOverlapFails`) and
  `WipeLeavesNothing` (`WipedIsGone`). The invariant: two calls that meet know it
  (`MeetInv`); nobody has touched what a call that is alone has made so far
  (`AloneInv`); a promise covers every content a crash may leave in the file
  (`PromiseInv`); nobody works in a ceremony that is gone (`GoneInv`).
- `ParticipantStore_proofs`: every property of the run `participant_puts`, and one more.
  `TypesHold`, `NoTagTwice` (`OneEntryPerTag`) and `NewerKept` (`NewerIndexKept`)
  hold on any file system; `EntriesBacked` (`IndexNeverDangles`), `OnlyRacesLose`
  (`OnlyRacesLoseEntries`), `ShareIsThere` (`NoShareMissing`) and `OthersHarmless`
  (`OthersNeverDisturb`) assume `MkdirDurable`. The invariants speak of every
  manifest that a crash may leave or that a put holds in memory, and say which
  files are safe behind its entries (`SafeInv`), who holds a manifest without an
  entry that has been written since (`RaceInv`: only those that raced), and what
  the reader has found (`ReaderInv`).
- `CommandLine_proofs`: `TypesHold` (`TypeOK`), `FinishedServes`
  (`FinishedKeygenServes`) and `PublishedOverWholeBase` (`PublishedAfterStored`). The invariant follows the
  running keygen from seat to seat (`Progress`: the seats behind it hold its group,
  whole), and keeps what it left when it finished (`Served`); that the first t
  roots are then the group's first t seats needs an argument about cardinalities
  (`SelectedIsFirst`), because a larger group's roots may lie behind them.
- `InprocessDkg_proofs`: `TypesHold` (`TypeOK`), `ParallelIsSequential` (`OutcomeIsSequential`) and
  `CountFollowsFault` (`CountErrorFollowsFault`). The invariant: a pool lacks
  exactly the packages of its leaf's failed seats, the seats of a leaf are done
  in order, and a count error stands behind a real one; so the least failed seat
  is the least seat that fails by itself. The two halves of `Returns` that say
  nothing of fairness: while the function runs there is a step to take
  (`LeavesGoOn`, `NeverStuck`: the first waiting seat is the next one of its leaf),
  and every step leaves less to do (`StepsCountDown`, `WorkShrinks`).
- `CoordinatorStore_proofs`: `TypesHold` (`TypeOK`), `MigrationAtomic`,
  `OpenHasTables`, `LateOpenSucceeds`. The invariant adds what a process that is opening the file
  knows: the version has not gone back since it began, it migrates only if it
  began at version 0, and no tables exist between its CREATE and its COMMIT.
  `RowsKept` (`OpensKeepRows`) adds that a file without tables has no rows
  (`RowsInv`), so that the transaction that creates the tables finds none.

- `ChainBackends_proofs`: every property of the run `chain_views`, for chains of any
  length: `TypesHold`, `EsploraListCautious` (`ListIsCautious`),
  `BackendsAgreeWhenQuiet` (`QuietAnswersAreTrue`), `DepthSurvivesGrowth`
  (`DepthTrueButForReorgs`) and `FeesFaithful` (`EstimatesAreFaithful`). The chain
  never gets shorter, and what is mined never conflicts (`NodesInv`), so a
  transaction that two chains share lies in the same block of both while one
  extends the other; a call in flight holds a tip that is no higher than the
  chain, and a height that is right until the chain is reorganised (`CallInv`);
  an answer is judged once, when it is given (`AnswerInv`).

Only model-checked: the liveness properties (`FirstRunSucceeds`, `Returns`).
Temporal reasoning from fairness needs `ENABLED`, which is out of the prover's
reach; what the proofs have of them is that calls run down (`CallsEnd`,
`StepsCountDown`) and that the DKG does not get stuck (`LeavesGoOn`).

The other way about, some of what is proved is in no run's configuration:
`NewerKept`, which is close to what one guard of the code says;
`QuietLoadsWhole`, which is what `KeepsBase` says of an undisturbed load in terms of
the reader; and the three just named, which stand behind `FirstRunSucceeds` and
`Returns`.

## What is not modelled

- Elliptic-curve arithmetic, hashes and the BIP341 digest (`bridge/`,
  `chain/sighash.rs`), which TLC cannot evaluate and on which no state depends.
- Serialisation and the age format (`store/crypto.rs`, the JSON of the manifest
  and of the envelopes): a share opens with its passphrase, a file parses or does
  not.
- The identity file (`store/identity.rs`): one `write_atomic` of one file, which
  `CrashFiles` covers, around key encoding.
- `KeyId` validation and `Epoch` (`crypto/types.rs`): pure checks of strings.
- The database's queries, `roster` among them: a SELECT each.
- Argument parsing, rendering, prompts and printing, beyond which command prints
  an address, a list or a signed transaction.
- Seats on other machines: the program plays all seats itself, so the models have
  no lost message and no unresponsive seat.

`PROJECT.json` lists every component with its reason.

## Plan

Done: the core (`Transport`, `SigningSession`, `NonceLedger`), the store
(`CrashFiles`, `PersistedKeygen`, `KeyBase`, `ParticipantStore`, `CheckpointStore`), the DKG,
the database (`CoordinatorStore`), the command line, the chain
backends and the fees. What would come next:

1. `PersistedKeygen` as an implementation of `ParticipantStore` with one tag in
   each of several roots.
2. From keygen to signing: the composition of `PersistedKeygen` and
   `SigningSession`, where a mixed load ends in a failed aggregation;
   `CommandLine` takes that end from frost's description.
3. `CommandLine` as another implementation of `KeyBase`, with a group's own `t` and
   `n` in the place of one set of quorums.
