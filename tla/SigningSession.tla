--------------------------- MODULE SigningSession ---------------------------
(***************************************************************************)
(* The two-round FROST signing session of src/src/session/mod.rs, with the   *)
(* display gate (session/display.rs), the liveness selection                 *)
(* (session/liveness.rs), the move-only nonces (crypto/nonce.rs) and the     *)
(* tweaked aggregation (crypto/sign.rs) it calls, over one shared Transport. *)
(*                                                                           *)
(* A step is one publish or one collect, so sessions that share a board       *)
(* interleave between them.  A session object is called in two ways: `run`    *)
(* drives every input; the public round1/round2 pair handles one input, and   *)
(* between the two the caller keeps a Round1 value that it hands to round2 or *)
(* drops (how the tests stand in for a timeout), whatever else it calls       *)
(* meanwhile.  A call that failed may be made again: only `spent` stops it,   *)
(* and only run looks at it.                                                 *)
(*                                                                           *)
(* Every seat is simulated by this process, so every seat is honest.         *)
(* Cryptography is abstracted to what it binds: a commitment is the identity  *)
(* of its nonce, a signature share is its nonce and the signing package it    *)
(* was made for, a signature is the set of shares it was aggregated from.    *)
(***************************************************************************)
EXTENDS Transport, FiniteSets

CONSTANTS
    Sessions,      \* session ids; all sessions sign the same PSBT
    N,             \* seats in the roster, 1..N
    T,             \* the threshold the session was given
    MinSigners,    \* the threshold recorded in the key packages by the DKG
    NumInputs,     \* inputs of the PSBT
    Calls,         \* the entry points callers use
    MaxAttempts,   \* bound on the calls made on one session
    NoNonce, NoPackage, NoRound1

ASSUME RosterAssumption == N \in Nat \ {0} /\ T \in Nat \ {0} /\ MinSigners \in Nat
ASSUME PsbtAssumption == NumInputs \in Nat \ {0}
ASSUME CallsAssumption == Calls \subseteq {"run", "api"} /\ MaxAttempts \in Nat

Seats == 1 .. N
Inputs == 1 .. NumInputs
COORDINATOR_SEAT == 0

\* What the program's values are made of.
Nonce == [session : Sessions, serial : Nat \ {0}]

Package == [commitments : [Seats -> Nonce \union {NoNonce}], message : Inputs]

SignatureShare == [nonce : Nonce, package : Package]

Round1 == [nonces : [Seats -> Nonce \union {NoNonce}], package : Package]

ASSUME SentinelAssumption ==
    NoNonce \notin Nonce /\ NoPackage \notin Package /\ NoRound1 \notin Round1

VARIABLES
    phase,       \* where the session's current call stands
    call,        \* the entry point of that call
    yes,         \* the acknowledgement it carries
    input,       \* the input it works on
    selected,    \* the seats chosen by the liveness poll
    pending,     \* the selected seats that have yet to act in this round
    nonces,      \* the nonce each seat holds in the current call's Round1
    package,     \* the signing package of the current call's Round1
    kept,        \* a Round1 value that round1 returned to the caller
    witness,     \* the signature the call has attached to each input, {} for none
    draws,       \* nonces drawn so far: makes each draw a new identity
    attempts,    \* calls made so far
    spent,       \* SigningSession::spent
    outcome      \* how the last call returned, and whom it blamed

sessionVars == <<phase, call, yes, input, selected, pending, nonces, package,
                 kept, witness, draws, attempts, spent, outcome>>
vars == <<board, last, phase, call, yes, input, selected, pending, nonces,
          package, kept, witness, draws, attempts, spent, outcome>>

\* SigningSession::topic: one per (session, input).  The bare session id, used
\* by the liveness poll, is topic 0.
Topic(s, i) == <<s, i>>

\* key_spend_sighash over the session's PSBT: one message per input.
Sighash(i) == i

Least(k, S) == k \in S /\ \A j \in S : k <= j

Returned(kind) == [kind |-> kind, blamed |-> {}]
-----------------------------------------------------------------------------
Init ==
    /\ TransportInit
    /\ phase    = [s \in Sessions |-> "idle"]
    /\ call     = [s \in Sessions |-> "none"]
    /\ yes      = [s \in Sessions |-> FALSE]
    /\ input    = [s \in Sessions |-> 1]
    /\ selected = [s \in Sessions |-> {}]
    /\ pending  = [s \in Sessions |-> {}]
    /\ nonces   = [s \in Sessions |-> [k \in Seats |-> NoNonce]]
    /\ package  = [s \in Sessions |-> NoPackage]
    /\ kept     = [s \in Sessions |-> NoRound1]
    /\ witness  = [s \in Sessions |-> [i \in Inputs |-> {}]]
    /\ draws    = [s \in Sessions |-> 0]
    /\ attempts = [s \in Sessions |-> 0]
    /\ spent    = [s \in Sessions |-> FALSE]
    /\ outcome  = [s \in Sessions |-> Returned("none")]

\* The call returns: the Round1 value it owned goes out of scope, and with it
\* every nonce it still held.
Return(s, result) ==
    /\ phase'   = [phase EXCEPT ![s] = "idle"]
    /\ nonces'  = [nonces EXCEPT ![s] = [k \in Seats |-> NoNonce]]
    /\ package' = [package EXCEPT ![s] = NoPackage]
    /\ pending' = [pending EXCEPT ![s] = {}]
    /\ outcome' = [outcome EXCEPT ![s] = result]
-----------------------------------------------------------------------------
(* The liveness poll *)

LiveAcks(s) ==
    {Envelope("SessionControl", Topic(s, 0), 0, k, Broadcast, [live |-> TRUE])
        : k \in Seats}

\* A mutant: one seat short of the threshold.
PollAndSelectShort(responders) ==
    {k \in responders : Cardinality({j \in responders : j < k}) < T - 1}

\* poll_and_select: the first t responders.
PollAndSelect(responders) ==
    {k \in responders : Cardinality({j \in responders : j < k}) < T}

\* liveness_select.  An ack's content is fixed, so publishing it again is a
\* no-op and it has no rivals: the N publishes are one union.  No other
\* session touches this topic.
LivenessSelect(s) ==
    LET acks       == LiveAcks(s)
        poll       == Filter("SessionControl", Topic(s, 0), Anyone, Anyone)
        responders == {e.seat : e \in {a \in board \union acks : Matches(poll, a)}}
    IN  /\ board' = board \union acks
        /\ last' = last \union acks
        /\ IF Cardinality(responders) < T
             THEN /\ outcome' = [outcome EXCEPT ![s] = Returned("liveness")]
                  /\ UNCHANGED <<phase, selected, pending>>
             ELSE /\ selected' = [selected EXCEPT ![s] = PollAndSelect(responders)]
                  /\ pending' = [pending EXCEPT ![s] = PollAndSelect(responders)]
                  /\ phase' = [phase EXCEPT ![s] = "round1"]
                  /\ UNCHANGED outcome

CanCall(s, entry) ==
    /\ entry \in Calls
    /\ phase[s] = "idle"
    /\ attempts[s] < MaxAttempts

\* SigningSession::run up to the first input.
StartRun(s, ack) ==
    /\ CanCall(s, "run")
    /\ ~spent[s]
    /\ LivenessSelect(s)
    /\ call'     = [call EXCEPT ![s] = "run"]
    /\ yes'      = [yes EXCEPT ![s] = ack]
    /\ input'    = [input EXCEPT ![s] = 1]
    /\ witness'  = [witness EXCEPT ![s] = [i \in Inputs |-> {}]]
    /\ attempts' = [attempts EXCEPT ![s] = @ + 1]
    /\ UNCHANGED <<nonces, package, kept, draws, spent>>

\* A run on a spent session is refused before it touches anything.
RefuseSpent(s) ==
    /\ CanCall(s, "run")
    /\ spent[s]
    /\ outcome' = [outcome EXCEPT ![s] = Returned("spent")]
    /\ attempts' = [attempts EXCEPT ![s] = @ + 1]
    /\ UNCHANGED <<board, last, phase, call, yes, input, selected, pending,
                   nonces, package, kept, witness, draws, spent>>

\* A caller polls and then calls round1 for one input itself; round1 does not
\* look at `spent`.
StartRound1(s, i) ==
    /\ CanCall(s, "api")
    /\ kept[s] = NoRound1
    /\ LivenessSelect(s)
    /\ call'     = [call EXCEPT ![s] = "api"]
    /\ yes'      = [yes EXCEPT ![s] = FALSE]
    /\ input'    = [input EXCEPT ![s] = i]
    /\ witness'  = [witness EXCEPT ![s] = [j \in Inputs |-> {}]]
    /\ attempts' = [attempts EXCEPT ![s] = @ + 1]
    /\ UNCHANGED <<nonces, package, kept, draws, spent>>
-----------------------------------------------------------------------------
(* Round 1 *)

\* A mutant: nonces derived from the session and the seat, as a deterministic
\* signer that forgets the message would.
DerivedNonce(s, k) == [session |-> s, serial |-> k]

\* EphemeralNonces::commit draws from OsRng: never the same nonce twice.
FreshNonce(s, k) == [session |-> s, serial |-> draws[s] + 1]

\* One turn of round1's loop: the seat keeps the nonce, the board gets the
\* commitment.
Commit(s, k) ==
    /\ phase[s] = "round1"
    /\ Least(k, pending[s])
    /\ nonces'  = [nonces EXCEPT ![s][k] = FreshNonce(s, k)]
    /\ draws'   = [draws EXCEPT ![s] = @ + 1]
    /\ pending' = [pending EXCEPT ![s] = @ \ {k}]
    /\ Publish(Envelope("Commitments", Topic(s, input[s]), 1, k, Broadcast,
                        FreshNonce(s, k)))
    /\ UNCHANGED <<phase, call, yes, input, selected, package, kept, witness,
                   attempts, spent, outcome>>

\* The map by sender that a collection of commitments folds into, for the
\* senders in S (there is exactly one: a sender has one last envelope).
BySender(envelopes, S) ==
    {m \in [Seats -> {e.payload : e \in envelopes} \union {NoNonce}] :
        \A k \in Seats :
            IF k \in S \cap {e.seat : e \in envelopes}
              THEN \E e \in envelopes : e.seat = k /\ e.payload = m[k]
              ELSE m[k] = NoNonce}

\* round2 takes the seats of the Round1 value, not the poll's.
Holders(held) == {k \in Seats : held[k] # NoNonce}

\* The coordinator reads the commitments back from the board and fixes the
\* signing package.  It takes whatever the topic holds for a selected seat.
BuildPackage(s) ==
    LET read == Collect(Filter("Commitments", Topic(s, input[s]), 1, Anyone))
    IN  /\ phase[s] = "round1"
        /\ pending[s] = {}
        /\ \E commitments \in BySender(read, selected[s]) :
             LET built == [commitments |-> commitments, message |-> Sighash(input[s])]
             IN  \/ /\ call[s] = "run"
                    /\ package' = [package EXCEPT ![s] = built]
                    /\ phase' = [phase EXCEPT ![s] = "round2"]
                    /\ pending' = [pending EXCEPT ![s] = Holders(nonces[s])]
                    /\ UNCHANGED <<nonces, kept, outcome>>
                 \/ /\ call[s] = "api"
                    /\ kept' = [kept EXCEPT ![s] = [nonces |-> nonces[s], package |-> built]]
                    /\ Return(s, Returned("kept"))
        /\ UNCHANGED <<board, last, call, yes, input, selected, witness, draws,
                       attempts, spent>>

\* The caller hands the Round1 value it kept to round2, with the index of an
\* input: the value does not say which input it is for ...
CallRound2(s, ack, i) ==
    /\ phase[s] = "idle"
    /\ kept[s] # NoRound1
    /\ phase'   = [phase EXCEPT ![s] = "round2"]
    /\ call'    = [call EXCEPT ![s] = "api"]
    /\ yes'     = [yes EXCEPT ![s] = ack]
    /\ input'   = [input EXCEPT ![s] = i]
    /\ nonces'  = [nonces EXCEPT ![s] = kept[s].nonces]
    /\ package' = [package EXCEPT ![s] = kept[s].package]
    /\ pending' = [pending EXCEPT ![s] = Holders(kept[s].nonces)]
    /\ witness' = [witness EXCEPT ![s] = [j \in Inputs |-> {}]]
    /\ kept'    = [kept EXCEPT ![s] = NoRound1]
    /\ UNCHANGED <<board, last, selected, draws, attempts, spent, outcome>>

\* ... or gives up on it.
DropRound1(s) ==
    /\ phase[s] = "idle"
    /\ kept[s] # NoRound1
    /\ kept' = [kept EXCEPT ![s] = NoRound1]
    /\ UNCHANGED <<board, last, phase, call, yes, input, selected, pending,
                   nonces, package, witness, draws, attempts, spent, outcome>>
-----------------------------------------------------------------------------
(* Round 2 *)

\* A mutant: a seat takes the message of the coordinator's package on trust.
TrustingGate(s) == yes[s]

\* display_and_ack: the seat recomputes the sighash from the PSBT, then needs
\* the acknowledgement.
DisplayAndAck(s) == package[s].message = Sighash(input[s]) /\ yes[s]

\* The seats whose commitments a package holds.
Committed(p) == {k \in Seats : p.commitments[k] # NoNonce}

\* frost::round2::sign: enough commitments, and the package holds the one that
\* belongs to the nonce.
FrostAccepts(s, k) ==
    /\ Cardinality(Committed(package[s])) >= MinSigners
    /\ k \in Committed(package[s])
    /\ package[s].commitments[k] = nonces[s][k]

InRound2(s, k) == phase[s] = "round2" /\ Least(k, pending[s])

RefuseAtGate(s, k) ==
    /\ InRound2(s, k)
    /\ ~DisplayAndAck(s)
    /\ Return(s, Returned("display"))
    /\ UNCHANGED <<board, last, call, yes, input, selected, kept, witness,
                   draws, attempts, spent>>

SignFails(s, k) ==
    /\ InRound2(s, k)
    /\ DisplayAndAck(s)
    /\ ~FrostAccepts(s, k)
    /\ Return(s, Returned("frost"))
    /\ UNCHANGED <<board, last, call, yes, input, selected, kept, witness,
                   draws, attempts, spent>>

Share(s, k) == [nonce |-> nonces[s][k], package |-> package[s]]

PublishShare(s, k) ==
    Publish(Envelope("SignatureShare", Topic(s, input[s]), 2, k,
                     COORDINATOR_SEAT, Share(s, k)))

\* A mutant: sign(&self) leaves the nonce with the seat.
SignBorrowing(s, k) ==
    /\ InRound2(s, k)
    /\ DisplayAndAck(s)
    /\ FrostAccepts(s, k)
    /\ PublishShare(s, k)
    /\ pending' = [pending EXCEPT ![s] = @ \ {k}]
    /\ UNCHANGED <<phase, call, yes, input, selected, nonces, package, kept,
                   witness, draws, attempts, spent, outcome>>

\* One turn of round2's loop: the nonce moves into sign and the share goes to
\* the coordinator.
Sign(s, k) ==
    /\ InRound2(s, k)
    /\ DisplayAndAck(s)
    /\ FrostAccepts(s, k)
    /\ PublishShare(s, k)
    /\ nonces' = [nonces EXCEPT ![s][k] = NoNonce]
    /\ pending' = [pending EXCEPT ![s] = @ \ {k}]
    /\ UNCHANGED <<phase, call, yes, input, selected, package, kept, witness,
                   draws, attempts, spent, outcome>>

\* The shares the coordinator reads: the topic's, from any roster seat.
CollectedShares(s) ==
    Collect(Filter("SignatureShare", Topic(s, input[s]), 2, COORDINATOR_SEAT))

\* A mutant: shares are taken on trust.
NothingInvalid(s) == {}

\* A share is valid if it was made for this package, with the nonce that the
\* package commits its seat to.
Invalid(s) ==
    {e.seat : e \in {d \in CollectedShares(s) :
        d.payload # [nonce |-> package[s].commitments[d.seat], package |-> package[s]]}}

AllSharesIn(s) ==
    {e.seat : e \in CollectedShares(s)} = Committed(package[s])

ReadyToAggregate(s) == phase[s] = "round2" /\ pending[s] = {}

\* frost's aggregation refuses a set of shares whose seats are not the
\* package's, and names at least one seat whose share does not verify.
AggregationErrors(s) ==
    IF AllSharesIn(s)
      THEN {[kind |-> "culprits", blamed |-> c] : c \in (SUBSET Invalid(s)) \ {{}}}
      ELSE {Returned("frost")}

AggregateFails(s) ==
    /\ ReadyToAggregate(s)
    /\ \E error \in AggregationErrors(s) : Return(s, error)
    /\ UNCHANGED <<board, last, call, yes, input, selected, kept, witness,
                   draws, attempts, spent>>

\* Mutants: the loop over the inputs stops one short, or runs one too far.
StopsEarly(s) == input[s] + 1 < NumInputs
RunsPastTheEnd(s) == input[s] <= NumInputs

MoreInputs(s) == input[s] < NumInputs

\* Round 2 yields a signature.  `run` attaches it and goes on to round 1 of the
\* next input; after the last one the session is spent.  round2 returns it.
Aggregate(s) ==
    /\ ReadyToAggregate(s)
    /\ AllSharesIn(s)
    /\ Invalid(s) = {}
    /\ witness' = [witness EXCEPT ![s][input[s]] = {e.payload : e \in CollectedShares(s)}]
    /\ \/ /\ call[s] = "run" /\ MoreInputs(s)
          /\ phase' = [phase EXCEPT ![s] = "round1"]
          /\ input' = [input EXCEPT ![s] = @ + 1]
          /\ pending' = [pending EXCEPT ![s] = selected[s]]
          /\ package' = [package EXCEPT ![s] = NoPackage]
          /\ UNCHANGED <<nonces, spent, outcome>>
       \/ /\ call[s] = "run" /\ ~MoreInputs(s)
          /\ Return(s, Returned("ok"))
          /\ spent' = [spent EXCEPT ![s] = TRUE]
          /\ UNCHANGED input
       \/ /\ call[s] = "api"
          /\ Return(s, Returned("ok"))
          /\ UNCHANGED <<input, spent>>
    /\ UNCHANGED <<board, last, call, yes, selected, kept, draws, attempts>>
-----------------------------------------------------------------------------
\* What a session does by itself once it was called.
Step(s) ==
    \/ \E k \in Seats : Commit(s, k)
    \/ BuildPackage(s)
    \/ \E k \in Seats : RefuseAtGate(s, k) \/ SignFails(s, k) \/ Sign(s, k)
    \/ AggregateFails(s)
    \/ Aggregate(s)

\* What its caller does.
Caller(s) ==
    \/ \E ack \in BOOLEAN : StartRun(s, ack)
    \/ RefuseSpent(s)
    \/ \E i \in Inputs : StartRound1(s, i)
    \/ \E ack \in BOOLEAN, i \in Inputs : CallRound2(s, ack, i)
    \/ DropRound1(s)

Next == \E s \in Sessions : Step(s) \/ Caller(s)

Spec == Init /\ [][Next]_vars

\* A call is one function on one thread, and nothing in it waits for another:
\* once entered it keeps going.  Nothing obliges a caller to call.
FairSpec == Spec /\ \A s \in Sessions : WF_vars(Step(s))
-----------------------------------------------------------------------------
(* Properties *)

Kinds == {"none", "ok", "kept", "liveness", "display", "frost", "culprits", "spent"}

LiveEnvelopes == UNION {LiveAcks(s) : s \in Sessions}

CommitmentEnvelopes ==
    [class : {"Commitments"}, topic : Sessions \X Inputs, round : {1},
     seat : Seats, recipient : {Broadcast}, payload : Nonce]

ShareEnvelopes ==
    [class : {"SignatureShare"}, topic : Sessions \X Inputs, round : {2},
     seat : Seats, recipient : {COORDINATOR_SEAT},
     payload : SignatureShare]

\* Types of the session state and of the board's contents.
TypeOK ==
    /\ board \subseteq LiveEnvelopes \union CommitmentEnvelopes \union ShareEnvelopes
    /\ last \subseteq board
    /\ phase \in [Sessions -> {"idle", "round1", "round2"}]
    /\ call \in [Sessions -> {"none", "run", "api"}]
    /\ yes \in [Sessions -> BOOLEAN]
    /\ input \in [Sessions -> Inputs]
    /\ selected \in [Sessions -> SUBSET Seats]
    /\ pending \in [Sessions -> SUBSET Seats]
    /\ nonces \in [Sessions -> [Seats -> Nonce \union {NoNonce}]]
    /\ package \in [Sessions -> Package \union {NoPackage}]
    /\ kept \in [Sessions -> Round1 \union {NoRound1}]
    /\ witness \in [Sessions -> [Inputs -> SUBSET SignatureShare]]
    /\ draws \in [Sessions -> Nat]
    /\ attempts \in [Sessions -> Nat]
    /\ spent \in [Sessions -> BOOLEAN]
    /\ outcome \in [Sessions -> [kind : Kinds, blamed : SUBSET Seats]]

Shares == {e \in board : e.class = "SignatureShare"}

\* SIGN-05/06: whatever mix of retries, aborts, dropped Round1 values and
\* sessions, no nonce ever backs two signature shares.
NonceNeverSignsTwice ==
    \A d, e \in Shares : d.payload.nonce = e.payload.nonce => d = e

Commitments == {e \in board : e.class = "Commitments"}

\* Seat k has published nonce n's commitment in round 1 of a topic.
CommittedOn(topic, k, n) ==
    \E c \in Commitments : c.topic = topic /\ c.seat = k /\ c.payload = n

\* SIGN-07 across the two rounds: a share on the board answers the round 1 of
\* the very topic it is on.  Its package is for the sighash of that topic's
\* input, and all the commitments it was made for, its own seat's among them,
\* were published on that topic.  A caller may poll and commit for one input
\* and hand the Round1 value to round2 with the index of another.
SharesAnswerTheirTopic ==
    \A e \in Shares :
        LET p == e.payload.package
        IN  /\ p.message = Sighash(e.topic[2])
            /\ \A k \in Committed(p) : CommittedOn(e.topic, k, p.commitments[k])
            /\ CommittedOn(e.topic, e.seat, e.payload.nonce)

\* SIGN-04: every signature a call has attached was acknowledged in that call,
\* and is one of T seats, for the sighash of its input, made of one share per
\* seat, each with the nonce that one and the same package commits the seat to.
\* Shares and commitments that earlier attempts left on the topic never get in.
WitnessVerifies ==
    \A s \in Sessions, i \in Inputs :
        witness[s][i] # {} =>
            /\ yes[s]
            /\ \E p \in {share.package : share \in witness[s][i]} :
                 /\ p.message = Sighash(i)
                 /\ Cardinality(Committed(p)) = T
                 /\ witness[s][i] =
                      {[nonce |-> p.commitments[k], package |-> p] : k \in Committed(p)}

\* The only way an honest roster sees a frost error or gets blamed is a second
\* attempt on the same session id.  With a fresh id per attempt, as
\* new_session_on_abort prescribes, neither can happen, however the sessions
\* interleave on the shared board.
OnlyReuseFails ==
    MinSigners <= T =>
        \A s \in Sessions :
            outcome[s].kind \in {"frost", "culprits"} => attempts[s] > 1

\* A run that succeeded has attached a signature to every input.
SuccessSignsEveryInput ==
    \A s \in Sessions :
        (call[s] = "run" /\ phase[s] = "idle" /\ outcome[s].kind = "ok") =>
            \A i \in Inputs : witness[s][i] # {}

\* The first acknowledged run of a session returns a signed transaction.
FirstRunSucceeds ==
    \A s \in Sessions :
        (/\ phase[s] = "round1" /\ call[s] = "run"
         /\ yes[s] /\ attempts[s] = 1 /\ MinSigners <= T)
            ~> (outcome[s].kind = "ok")

\* What a call has left to do: the seats that have yet to act in this round, the
\* end of each round, and both rounds of the inputs behind this one.
WorkLeft(s) ==
    IF phase[s] = "idle" THEN 0
    ELSE 1 + Cardinality(pending[s])
           + (IF phase[s] = "round1" THEN N + 1 ELSE 0)
           + (NumInputs - input[s]) * (2 * N + 2)

\* Once entered, a call only runs down: every step of its own leaves it less to
\* do, whatever it reads back from the board and whatever the other sessions do
\* meanwhile, and no step of theirs touches it.
CallsRunDown ==
    [][\A s \in Sessions : phase[s] # "idle" =>
         \/ WorkLeft(s)' \in Nat /\ WorkLeft(s)' < WorkLeft(s)
         \/ UNCHANGED <<phase[s], call[s], yes[s], input[s], selected[s], pending[s],
                        nonces[s], package[s], witness[s], outcome[s]>>]_vars

\* The nonces in memory: those of the current call and those of a kept Round1.
HeldNonces(s) ==
    ({nonces[s][k] : k \in Seats} \union
        (IF kept[s] = NoRound1 THEN {} ELSE {kept[s].nonces[k] : k \in Seats}))
    \ {NoNonce}

\* The nonces of this module live as the ledger says.  A commitment on the
\* board is issued, a nonce in some Round1 is live.
Ledger == INSTANCE NonceLedger WITH
    issued <- {e.payload : e \in Commitments},
    live   <- UNION {HeldNonces(s) : s \in Sessions},
    shares <- {<<e.payload.nonce, e.payload.package>> : e \in Shares}

ImplementsLedger == Ledger!LedgerSpec
-----------------------------------------------------------------------------
(* A claim of the documentation that the code does not keep *)

\* crypto/sign.rs:28 "Cheater detection identified one or more misbehaving
\* signers": every seat here is honest.
OnlyMisbehavingSeatsBlamed == \A s \in Sessions : outcome[s].blamed = {}
=============================================================================
