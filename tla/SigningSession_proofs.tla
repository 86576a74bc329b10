----------------------- MODULE SigningSession_proofs ------------------------
(***************************************************************************)
(* Machine-checked proofs about SigningSession, for every roster, threshold, *)
(* number of inputs, number of sessions and number of attempts:              *)
(*   - TypeCorrect: the type invariant;                                      *)
(*   - NonceSafety: no nonce ever backs two signature shares;                *)
(*   - SignaturesVerify: what a call attaches is a signature;                *)
(*   - SharesAnswer: a share is on the topic whose round 1 it answers;       *)
(*   - SuccessIsComplete: a run that succeeded has signed every input;       *)
(*   - FirstAttemptSucceeds: only a session used twice fails honest seats;   *)
(*   - KeepsLedger: the nonces live as NonceLedger promises;                 *)
(*   - CallsEnd: a call runs down, whatever the other sessions do.           *)
(***************************************************************************)
EXTENDS SigningSession, FiniteSetTheorems, TLAPS

(* TypeOK is not inductive by itself: a share carries the session's package, *)
(* which must not be NoPackage by the time round 2 signs.                    *)
TypeInv ==
    /\ TypeOK
    /\ \A s \in Sessions : phase[s] = "round2" => package[s] # NoPackage

\* What publishing does, whichever id the hash gives the envelope.
LEMMA PublishEffect ==
    ASSUME NEW e, Publish(e), last \subseteq board
    PROVE  board' = board \union {e} /\ last' \subseteq board'
  BY DEF Publish

\* The types of what Return assigns.
LEMMA ReturnType ==
    ASSUME TypeOK, NEW s \in Sessions,
           NEW result \in [kind : Kinds, blamed : SUBSET Seats],
           Return(s, result)
    PROVE  /\ phase' \in [Sessions -> {"idle", "round1", "round2"}]
           /\ nonces' \in [Sessions -> [Seats -> Nonce \union {NoNonce}]]
           /\ package' \in [Sessions -> Package \union {NoPackage}]
           /\ pending' \in [Sessions -> SUBSET Seats]
           /\ outcome' \in [Sessions -> [kind : Kinds, blamed : SUBSET Seats]]
           /\ phase'[s] = "idle"
           /\ \A r \in Sessions \ {s} : phase'[r] = phase[r] /\ package'[r] = package[r]
  BY DEF TypeOK, Return

LEMMA KindsType ==
    ASSUME NEW kind \in Kinds
    PROVE  Returned(kind) \in [kind : Kinds, blamed : SUBSET Seats]
  BY DEF Returned

LEMMA InitType == Init => TypeInv
  <1> SUFFICES ASSUME Init PROVE TypeInv
    OBVIOUS
  <1>1. 1 \in Inputs
    BY PsbtAssumption DEF Inputs
  <1>2. Returned("none") \in [kind : Kinds, blamed : SUBSET Seats]
    BY KindsType DEF Kinds
  <1>3. QED
    BY <1>1, <1>2 DEF Init, TransportInit, TypeInv, TypeOK

\* The liveness poll keeps the types; it is shared by both ways in.
LEMMA LivenessSelectType ==
    ASSUME TypeInv, NEW s \in Sessions, LivenessSelect(s)
    PROVE  /\ board' \subseteq LiveEnvelopes \union CommitmentEnvelopes \union ShareEnvelopes
           /\ last' \subseteq board'
           /\ phase \in [Sessions -> {"idle", "round1", "round2"}] =>
                phase' \in [Sessions -> {"idle", "round1", "round2"}]
           /\ outcome' \in [Sessions -> [kind : Kinds, blamed : SUBSET Seats]]
           /\ selected' \in [Sessions -> SUBSET Seats]
           /\ pending' \in [Sessions -> SUBSET Seats]
           /\ \A r \in Sessions : phase'[r] = "round2" => phase[r] = "round2"
  <1> DEFINE acks == LiveAcks(s)
             poll == Filter("SessionControl", Topic(s, 0), Anyone, Anyone)
             responders == {e.seat : e \in {a \in board \union acks : Matches(poll, a)}}
  <1>1. acks \subseteq LiveEnvelopes
    BY DEF LiveEnvelopes
  <1>2. \A e \in board \union acks : e.seat \in Seats
    BY <1>1 DEF TypeInv, TypeOK, LiveAcks, LiveEnvelopes, CommitmentEnvelopes,
                ShareEnvelopes, Envelope
  <1>3. PollAndSelect(responders) \subseteq Seats
    BY <1>2 DEF PollAndSelect
  <1>4. Returned("liveness") \in [kind : Kinds, blamed : SUBSET Seats]
    BY KindsType DEF Kinds
  <1>5. board' = board \union acks /\ last' = last \union acks
    BY DEF LivenessSelect
  <1>6. CASE Cardinality(responders) < T
    <2>1. /\ outcome' = [outcome EXCEPT ![s] = Returned("liveness")]
          /\ UNCHANGED <<phase, selected, pending>>
      BY <1>6 DEF LivenessSelect
    <2>2. QED
      BY <1>1, <1>4, <1>5, <2>1 DEF TypeInv, TypeOK
  <1>7. CASE ~(Cardinality(responders) < T)
    <2>1. /\ selected' = [selected EXCEPT ![s] = PollAndSelect(responders)]
          /\ pending' = [pending EXCEPT ![s] = PollAndSelect(responders)]
          /\ phase' = [phase EXCEPT ![s] = "round1"]
          /\ UNCHANGED outcome
      BY <1>7 DEF LivenessSelect
    <2>2. QED
      BY <1>1, <1>3, <1>5, <2>1 DEF TypeInv, TypeOK
  <1>8. QED
    BY <1>6, <1>7

\* What a collector reads off the board of one class and topic.
LEMMA CollectedCommitments ==
    ASSUME TypeOK, NEW topic, NEW e \in Collect(Filter("Commitments", topic, 1, Anyone))
    PROVE  e \in CommitmentEnvelopes /\ e \in board
  BY DEF TypeOK, Collect, Matches, Filter, LiveEnvelopes, LiveAcks, Envelope,
         ShareEnvelopes

LEMMA PackageType ==
    ASSUME TypeOK, NEW s \in Sessions,
           NEW commitments \in
             BySender(Collect(Filter("Commitments", Topic(s, input[s]), 1, Anyone)),
                      selected[s])
    PROVE  [commitments |-> commitments, message |-> Sighash(input[s])] \in Package
  <1> DEFINE read == Collect(Filter("Commitments", Topic(s, input[s]), 1, Anyone))
  <1>1. \A e \in read : e.payload \in Nonce
    BY CollectedCommitments DEF CommitmentEnvelopes
  <1>2. commitments \in [Seats -> {e.payload : e \in read} \union {NoNonce}]
    BY DEF BySender
  <1>3. commitments \in [Seats -> Nonce \union {NoNonce}]
    BY <1>1, <1>2
  <1>4. input[s] \in Inputs
    BY DEF TypeOK
  <1>5. QED
    BY <1>3, <1>4 DEF Package, Sighash

LEMMA StartRunType ==
    ASSUME TypeInv, NEW s \in Sessions, NEW ack \in BOOLEAN, StartRun(s, ack)
    PROVE  TypeInv'
  <1>1. 1 \in Inputs
    BY PsbtAssumption DEF Inputs
  <1>2. QED
    BY <1>1, LivenessSelectType DEF StartRun, TypeInv, TypeOK

LEMMA StartRound1Type ==
    ASSUME TypeInv, NEW s \in Sessions, NEW i \in Inputs, StartRound1(s, i)
    PROVE  TypeInv'
  BY LivenessSelectType DEF StartRound1, TypeInv, TypeOK

LEMMA RefuseSpentType ==
    ASSUME TypeInv, NEW s \in Sessions, RefuseSpent(s)
    PROVE  TypeInv'
  BY DEF RefuseSpent, TypeInv, TypeOK, Returned, Kinds

LEMMA CommitType ==
    ASSUME TypeInv, NEW s \in Sessions, NEW k \in Seats, Commit(s, k)
    PROVE  TypeInv'
  <1> DEFINE e == Envelope("Commitments", Topic(s, input[s]), 1, k, Broadcast,
                           FreshNonce(s, k))
  <1>1. FreshNonce(s, k) \in Nonce
    BY DEF FreshNonce, Nonce, TypeInv, TypeOK
  <1>2. e \in CommitmentEnvelopes
    BY <1>1 DEF TypeInv, TypeOK, Envelope, Topic, CommitmentEnvelopes
  <1>3. board' = board \union {e} /\ last' \subseteq board'
    BY PublishEffect DEF Commit, TypeInv, TypeOK
  <1>4. nonces' \in [Sessions -> [Seats -> Nonce \union {NoNonce}]]
    BY <1>1 DEF Commit, TypeInv, TypeOK
  <1>5. QED
    BY <1>2, <1>3, <1>4 DEF Commit, TypeInv, TypeOK

LEMMA BuildPackageType ==
    ASSUME TypeInv, NEW s \in Sessions, BuildPackage(s)
    PROVE  TypeInv'
  <1> DEFINE read == Collect(Filter("Commitments", Topic(s, input[s]), 1, Anyone))
  <1>1. PICK commitments \in BySender(read, selected[s]) :
           LET built == [commitments |-> commitments, message |-> Sighash(input[s])]
           IN  \/ /\ call[s] = "run"
                  /\ package' = [package EXCEPT ![s] = built]
                  /\ phase' = [phase EXCEPT ![s] = "round2"]
                  /\ pending' = [pending EXCEPT ![s] = Holders(nonces[s])]
                  /\ UNCHANGED <<nonces, kept, outcome>>
               \/ /\ call[s] = "api"
                  /\ kept' = [kept EXCEPT ![s] = [nonces |-> nonces[s], package |-> built]]
                  /\ Return(s, Returned("kept"))
    BY DEF BuildPackage
  <1> DEFINE built == [commitments |-> commitments, message |-> Sighash(input[s])]
  <1>2. built \in Package
    BY PackageType DEF TypeInv
  <1>3. UNCHANGED <<board, last, call, yes, input, selected, witness, draws,
                    attempts, spent>>
    BY DEF BuildPackage
  <1>4. CASE /\ package' = [package EXCEPT ![s] = built]
             /\ phase' = [phase EXCEPT ![s] = "round2"]
             /\ pending' = [pending EXCEPT ![s] = Holders(nonces[s])]
             /\ UNCHANGED <<nonces, kept, outcome>>
    <2>1. Holders(nonces[s]) \subseteq Seats
      BY DEF Holders
    <2>2. built # NoPackage
      BY <1>2, SentinelAssumption
    <2>3. QED
      BY <1>2, <1>3, <1>4, <2>1, <2>2 DEF TypeInv, TypeOK
  <1>5. CASE /\ kept' = [kept EXCEPT ![s] = [nonces |-> nonces[s], package |-> built]]
             /\ Return(s, Returned("kept"))
    <2>1. Returned("kept") \in [kind : Kinds, blamed : SUBSET Seats]
      BY KindsType DEF Kinds
    <2>2. [nonces |-> nonces[s], package |-> built] \in Round1
      BY <1>2 DEF Round1, TypeInv, TypeOK
    <2>3. kept' \in [Sessions -> Round1 \union {NoRound1}]
      BY <1>5, <2>2 DEF TypeInv, TypeOK
    <2>4. QED
      BY <1>3, <1>5, <2>1, <2>3, ReturnType DEF TypeInv, TypeOK
  <1>6. QED
    BY <1>1, <1>4, <1>5

LEMMA CallRound2Type ==
    ASSUME TypeInv, NEW s \in Sessions, NEW ack \in BOOLEAN, NEW i \in Inputs,
           CallRound2(s, ack, i)
    PROVE  TypeInv'
  <1>1. kept[s] \in Round1
    BY DEF CallRound2, TypeInv, TypeOK
  <1>2. /\ kept[s].nonces \in [Seats -> Nonce \union {NoNonce}]
        /\ kept[s].package \in Package
        /\ kept[s].package # NoPackage
    BY <1>1, SentinelAssumption DEF Round1
  <1>3. Holders(kept[s].nonces) \subseteq Seats
    BY DEF Holders
  <1>4. QED
    BY <1>2, <1>3 DEF CallRound2, TypeInv, TypeOK

LEMMA DropRound1Type ==
    ASSUME TypeInv, NEW s \in Sessions, DropRound1(s)
    PROVE  TypeInv'
  BY DEF DropRound1, TypeInv, TypeOK

\* The three ways a call gives up in round 2.
LEMMA GiveUpType ==
    ASSUME TypeInv, NEW s \in Sessions,
           NEW result \in [kind : Kinds, blamed : SUBSET Seats],
           Return(s, result),
           UNCHANGED <<board, last, call, yes, input, selected, kept, witness,
                       draws, attempts, spent>>
    PROVE  TypeInv'
  BY ReturnType DEF TypeInv, TypeOK

LEMMA SignType ==
    ASSUME TypeInv, NEW s \in Sessions, NEW k \in Seats, Sign(s, k)
    PROVE  TypeInv'
  <1> DEFINE e == Envelope("SignatureShare", Topic(s, input[s]), 2, k,
                           COORDINATOR_SEAT, Share(s, k))
  <1>1. package[s] \in Package
    BY DEF Sign, InRound2, TypeInv, TypeOK
  <1>2. nonces[s][k] \in Nonce
    BY <1>1 DEF Sign, FrostAccepts, Committed, Package, TypeInv, TypeOK
  <1>3. e \in ShareEnvelopes
    BY <1>1, <1>2 DEF TypeInv, TypeOK, Envelope, Topic, Share, ShareEnvelopes,
                       SignatureShare
  <1>4. board' = board \union {e} /\ last' \subseteq board'
    BY PublishEffect DEF Sign, PublishShare, TypeInv, TypeOK
  <1>5. nonces' \in [Sessions -> [Seats -> Nonce \union {NoNonce}]]
    BY DEF Sign, TypeInv, TypeOK
  <1>6. QED
    BY <1>3, <1>4, <1>5 DEF Sign, TypeInv, TypeOK

\* Every share on the board, and every one a coordinator reads, is well typed.
LEMMA ShareType ==
    ASSUME TypeOK, NEW e \in Shares
    PROVE  e \in ShareEnvelopes /\ e.payload.nonce \in Nonce
  BY DEF TypeOK, Shares, LiveEnvelopes, LiveAcks, Envelope, CommitmentEnvelopes,
         ShareEnvelopes, SignatureShare

LEMMA CollectedShareType ==
    ASSUME TypeOK, NEW s, NEW e \in CollectedShares(s)
    PROVE  e \in Shares /\ e.seat \in Seats /\ e.payload \in SignatureShare
  <1>1. e \in Shares
    BY DEF CollectedShares, Collect, Matches, Filter, Shares, TypeOK
  <1>2. QED
    BY <1>1, ShareType DEF ShareEnvelopes

LEMMA AggregateFailsType ==
    ASSUME TypeInv, NEW s \in Sessions, AggregateFails(s)
    PROVE  TypeInv'
  <1>1. \A e \in CollectedShares(s) : e.seat \in Seats
    BY CollectedShareType DEF TypeInv
  <1>2. Invalid(s) \subseteq Seats
    BY <1>1 DEF Invalid
  <1>3. AggregationErrors(s) \subseteq [kind : Kinds, blamed : SUBSET Seats]
    BY <1>2 DEF AggregationErrors, Kinds, Returned
  <1>4. PICK error \in AggregationErrors(s) : Return(s, error)
    BY DEF AggregateFails
  <1>5. QED
    BY <1>3, <1>4, GiveUpType DEF AggregateFails

LEMMA AggregateType ==
    ASSUME TypeInv, NEW s \in Sessions, Aggregate(s)
    PROVE  TypeInv'
  <1>1. Returned("ok") \in [kind : Kinds, blamed : SUBSET Seats]
    BY KindsType DEF Kinds
  <1>2. witness' \in [Sessions -> [Inputs -> SUBSET SignatureShare]]
    <2>1. \A e \in CollectedShares(s) : e.payload \in SignatureShare
      BY CollectedShareType DEF TypeInv
    <2>2. {e.payload : e \in CollectedShares(s)} \in SUBSET SignatureShare
      BY <2>1
    <2>3. QED
      BY <2>2 DEF Aggregate, TypeInv, TypeOK
  <1>3. CASE /\ MoreInputs(s)
             /\ phase' = [phase EXCEPT ![s] = "round1"]
             /\ input' = [input EXCEPT ![s] = @ + 1]
             /\ pending' = [pending EXCEPT ![s] = selected[s]]
             /\ package' = [package EXCEPT ![s] = NoPackage]
             /\ UNCHANGED <<nonces, spent, outcome>>
    <2>1. input[s] + 1 \in Inputs
      BY <1>3, PsbtAssumption DEF MoreInputs, Inputs, TypeInv, TypeOK
    <2>2. QED
      BY <1>2, <1>3, <2>1 DEF Aggregate, TypeInv, TypeOK
  <1>4. CASE /\ Return(s, Returned("ok"))
             /\ spent' = [spent EXCEPT ![s] = TRUE]
             /\ UNCHANGED input
    BY <1>1, <1>2, <1>4, ReturnType DEF Aggregate, TypeInv, TypeOK
  <1>5. CASE Return(s, Returned("ok")) /\ UNCHANGED <<input, spent>>
    BY <1>1, <1>2, <1>5, ReturnType DEF Aggregate, TypeInv, TypeOK
  <1>6. QED
    BY <1>3, <1>4, <1>5 DEF Aggregate

LEMMA NextType == TypeInv /\ [Next]_vars => TypeInv'
  <1> SUFFICES ASSUME TypeInv, [Next]_vars PROVE TypeInv'
    OBVIOUS
  <1>1. ASSUME NEW s \in Sessions, Step(s) PROVE TypeInv'
    <2>1. ASSUME NEW k \in Seats, Commit(s, k) PROVE TypeInv'
      BY <2>1, CommitType
    <2>2. CASE BuildPackage(s)
      BY <2>2, BuildPackageType
    <2>3. ASSUME NEW k \in Seats, RefuseAtGate(s, k) PROVE TypeInv'
      BY <2>3, GiveUpType, KindsType DEF RefuseAtGate, Kinds
    <2>4. ASSUME NEW k \in Seats, SignFails(s, k) PROVE TypeInv'
      BY <2>4, GiveUpType, KindsType DEF SignFails, Kinds
    <2>5. ASSUME NEW k \in Seats, Sign(s, k) PROVE TypeInv'
      BY <2>5, SignType
    <2>6. CASE AggregateFails(s)
      BY <2>6, AggregateFailsType
    <2>7. CASE Aggregate(s)
      BY <2>7, AggregateType
    <2>8. QED
      BY <1>1, <2>1, <2>2, <2>3, <2>4, <2>5, <2>6, <2>7 DEF Step
  <1>2. ASSUME NEW s \in Sessions, Caller(s) PROVE TypeInv'
    <2>1. ASSUME NEW ack \in BOOLEAN, StartRun(s, ack) PROVE TypeInv'
      BY <2>1, StartRunType
    <2>2. ASSUME NEW ack \in BOOLEAN, NEW i \in Inputs, CallRound2(s, ack, i) PROVE TypeInv'
      BY <2>2, CallRound2Type
    <2>3. CASE RefuseSpent(s)
      BY <2>3, RefuseSpentType
    <2>4. ASSUME NEW i \in Inputs, StartRound1(s, i) PROVE TypeInv'
      BY <2>4, StartRound1Type
    <2>5. CASE DropRound1(s)
      BY <2>5, DropRound1Type
    <2>6. QED
      BY <1>2, <2>1, <2>2, <2>3, <2>4, <2>5 DEF Caller
  <1>3. CASE UNCHANGED vars
    BY <1>3 DEF vars, TypeInv, TypeOK
  <1>4. QED
    BY <1>1, <1>2, <1>3 DEF Next

LEMMA TypeInvariant == Spec => []TypeInv
  BY InitType, NextType, PTL DEF Spec

\* Every reachable state is well typed, for every value of the constants.
THEOREM TypeCorrect == Spec => []TypeOK
  <1>1. TypeInv => TypeOK
    BY DEF TypeInv
  <1>2. QED
    BY <1>1, TypeInvariant, PTL
-----------------------------------------------------------------------------
(* The nonce discipline.  NonceNeverSignsTwice says nothing of the nonces    *)
(* still in memory, and is preserved by a signing step only because no nonce *)
(* in memory backs a share yet, no two seats hold the same one, and a fresh  *)
(* draw differs from everything drawn before.                                *)

Drawn(s, n) == n.session = s /\ n.serial <= draws[s]

\* Two places in the memory of a session never hold the same nonce.
NoncesApart ==
    \A s \in Sessions : \A j, k \in Seats :
        /\ (nonces[s][j] # NoNonce /\ nonces[s][j] = nonces[s][k]) => j = k
        /\ kept[s] # NoRound1 =>
             /\ (kept[s].nonces[j] # NoNonce /\ kept[s].nonces[j] = kept[s].nonces[k])
                  => j = k
             /\ nonces[s][j] # NoNonce => nonces[s][j] # kept[s].nonces[k]

\* Everything in memory or on the board was drawn by its session.
NoncesDrawn ==
    /\ \A s \in Sessions : \A k \in Seats :
         /\ nonces[s][k] # NoNonce => Drawn(s, nonces[s][k])
         /\ (kept[s] # NoRound1 /\ kept[s].nonces[k] # NoNonce)
              => Drawn(s, kept[s].nonces[k])
    /\ \A e \in Shares : Drawn(e.payload.nonce.session, e.payload.nonce)

\* A nonce that backs a share has left memory.
SignedNoncesGone ==
    \A e \in Shares : \A s \in Sessions : \A k \in Seats :
        /\ nonces[s][k] # e.payload.nonce
        /\ kept[s] # NoRound1 => kept[s].nonces[k] # e.payload.nonce

NonceInv ==
    /\ NonceNeverSignsTwice
    /\ NoncesApart
    /\ NoncesDrawn
    /\ SignedNoncesGone

LEMMA InitNonce == Init => NonceInv
  BY DEF Init, TransportInit, NonceInv, NonceNeverSignsTwice, NoncesApart,
         NoncesDrawn, SignedNoncesGone, Shares

\* Steps that draw nothing, sign nothing and at most forget nonces.
LEMMA ForgetPreserves ==
    ASSUME TypeOK, NonceInv, Shares' = Shares, draws' = draws,
           \A s \in Sessions : \/ nonces'[s] = nonces[s]
                               \/ nonces'[s] = [k \in Seats |-> NoNonce],
           \A s \in Sessions : kept'[s] = kept[s] \/ kept'[s] = NoRound1
    PROVE  NonceInv'
  <1>1. NonceNeverSignsTwice'
    BY DEF NonceInv, NonceNeverSignsTwice
  <1>2. NoncesApart'
    BY DEF NonceInv, NoncesApart
  <1>3. NoncesDrawn'
    BY DEF NonceInv, NoncesDrawn, Drawn
  <1>4. ASSUME NEW e \in Shares, NEW s \in Sessions, NEW k \in Seats
        PROVE  /\ nonces'[s][k] # e.payload.nonce
               /\ kept'[s] # NoRound1 => kept'[s].nonces[k] # e.payload.nonce
    <2>1. e.payload.nonce # NoNonce
      BY ShareType, SentinelAssumption
    <2>2. QED
      BY <2>1 DEF NonceInv, SignedNoncesGone
  <1>5. QED
    BY <1>1, <1>2, <1>3, <1>4 DEF NonceInv, SignedNoncesGone

\* A commitment is no share: the shares stay.
LEMMA CommitNonce ==
    ASSUME TypeInv, NonceInv, NEW s \in Sessions, NEW k \in Seats, Commit(s, k)
    PROVE  NonceInv'
  <1> DEFINE fresh == FreshNonce(s, k)
             e == Envelope("Commitments", Topic(s, input[s]), 1, k, Broadcast, fresh)
  <1>1. board' = board \union {e}
    BY PublishEffect DEF Commit, TypeInv, TypeOK
  <1>2. Shares' = Shares
    BY <1>1 DEF Shares, Envelope
  <1>3. /\ draws[s] \in Nat /\ draws'[s] = draws[s] + 1
        /\ \A r \in Sessions \ {s} : draws'[r] = draws[r]
        /\ \A r \in Sessions : draws[r] \in Nat /\ draws'[r] \in Nat
    BY DEF Commit, TypeInv, TypeOK
  <1>4. /\ fresh # NoNonce
        /\ fresh.session = s /\ fresh.serial = draws[s] + 1
    BY <1>3, SentinelAssumption DEF FreshNonce, Nonce
  <1>5. /\ nonces'[s][k] = fresh
        /\ \A j \in Seats \ {k} : nonces'[s][j] = nonces[s][j]
        /\ \A r \in Sessions \ {s} : nonces'[r] = nonces[r]
        /\ kept' = kept
    BY DEF Commit, TypeInv, TypeOK
  <1>6. \A n : Drawn(s, n) => n # fresh
    BY <1>3, <1>4 DEF Drawn
  <1>7. NonceNeverSignsTwice'
    BY <1>2 DEF NonceInv, NonceNeverSignsTwice
  <1>8. NoncesApart'
    BY <1>4, <1>5, <1>6 DEF NonceInv, NoncesApart, NoncesDrawn
  <1>9. NoncesDrawn'
    <2>1. ASSUME NEW r \in Sessions, NEW n \in Nonce, Drawn(r, n)
          PROVE  n.session = r /\ n.serial <= draws'[r]
      BY <1>3, <2>1 DEF Drawn, Nonce
    <2>2. fresh.session = s /\ fresh.serial <= draws'[s]
      BY <1>3, <1>4
    <2>3. ASSUME NEW r \in Sessions, NEW j \in Seats, nonces'[r][j] # NoNonce
          PROVE  nonces'[r][j].session = r /\ nonces'[r][j].serial <= draws'[r]
      <3>1. CASE r = s /\ j = k
        BY <1>5, <2>2, <3>1
      <3>2. CASE ~(r = s /\ j = k)
        <4>1. nonces'[r][j] = nonces[r][j]
          BY <1>5, <3>2
        <4>2. nonces[r][j] \in Nonce /\ Drawn(r, nonces[r][j])
          BY <2>3, <4>1 DEF NonceInv, NoncesDrawn, TypeInv, TypeOK
        <4>3. QED
          BY <2>1, <4>1, <4>2
      <3>3. QED
        BY <3>1, <3>2
    <2>4. ASSUME NEW r \in Sessions, NEW j \in Seats,
                 kept'[r] # NoRound1, kept'[r].nonces[j] # NoNonce
          PROVE  /\ kept'[r].nonces[j].session = r
                 /\ kept'[r].nonces[j].serial <= draws'[r]
      <3>1. kept[r].nonces[j] \in Nonce /\ Drawn(r, kept[r].nonces[j])
        BY <1>5, <2>4 DEF TypeInv, TypeOK, Round1, NonceInv, NoncesDrawn
      <3>2. QED
        BY <1>5, <2>1, <3>1
    <2>5. ASSUME NEW d \in Shares'
          PROVE  d.payload.nonce.serial <= draws'[d.payload.nonce.session]
      <3>1. d \in Shares /\ d.payload.nonce \in Nonce
        BY <1>2, ShareType DEF TypeInv
      <3>2. d.payload.nonce.session \in Sessions
        BY <3>1 DEF Nonce
      <3>3. QED
        BY <2>1, <3>1, <3>2 DEF NonceInv, NoncesDrawn
    <2>6. QED
      BY <2>3, <2>4, <2>5 DEF NoncesDrawn, Drawn
  <1>10. SignedNoncesGone'
    <2>1. ASSUME NEW d \in Shares PROVE d.payload.nonce # fresh
      BY <1>4, <1>6 DEF NonceInv, NoncesDrawn, Drawn
    <2>2. QED
      BY <1>2, <1>5, <2>1 DEF NonceInv, SignedNoncesGone
  <1>11. QED
    BY <1>7, <1>8, <1>9, <1>10 DEF NonceInv

\* round1 returns: the nonces move from the call to the Round1 value.
LEMMA BuildPackageNonce ==
    ASSUME TypeInv, NonceInv, NEW s \in Sessions, BuildPackage(s)
    PROVE  NonceInv'
  <1>1. Shares' = Shares /\ draws' = draws
    BY DEF BuildPackage, Shares
  <1>2. CASE UNCHANGED <<nonces, kept>>
    BY <1>1, <1>2, ForgetPreserves DEF TypeInv
  <1>3. ASSUME NEW built,
               kept' = [kept EXCEPT ![s] = [nonces |-> nonces[s], package |-> built]],
               Return(s, Returned("kept"))
        PROVE  NonceInv'
    <2>1. /\ kept'[s].nonces = nonces[s]
          /\ \A r \in Sessions \ {s} : kept'[r] = kept[r] /\ nonces'[r] = nonces[r]
          /\ nonces'[s] = [k \in Seats |-> NoNonce]
      BY <1>3 DEF Return, TypeInv, TypeOK
    <2>2. NonceNeverSignsTwice'
      BY <1>1 DEF NonceInv, NonceNeverSignsTwice
    <2>3. NoncesApart'
      BY <2>1 DEF NonceInv, NoncesApart
    <2>4. NoncesDrawn'
      BY <1>1, <2>1 DEF NonceInv, NoncesDrawn, Drawn
    <2>5. SignedNoncesGone'
      <3>1. \A e \in Shares : e.payload.nonce # NoNonce
        BY ShareType, SentinelAssumption DEF TypeInv
      <3>2. QED
        BY <1>1, <2>1, <3>1 DEF NonceInv, SignedNoncesGone
    <2>6. QED
      BY <2>2, <2>3, <2>4, <2>5 DEF NonceInv
  <1>4. QED
    BY <1>2, <1>3 DEF BuildPackage

\* round2 takes the Round1 value by move: its nonces are in one place only.
LEMMA CallRound2Nonce ==
    ASSUME TypeInv, NonceInv, NEW s \in Sessions, NEW ack \in BOOLEAN,
           NEW i \in Inputs, CallRound2(s, ack, i)
    PROVE  NonceInv'
  <1>1. Shares' = Shares /\ draws' = draws
    BY DEF CallRound2, Shares
  <1>2. /\ kept[s] # NoRound1
        /\ nonces'[s] = kept[s].nonces
        /\ kept'[s] = NoRound1
        /\ \A r \in Sessions \ {s} : kept'[r] = kept[r] /\ nonces'[r] = nonces[r]
    BY DEF CallRound2, TypeInv, TypeOK
  <1>3. NonceNeverSignsTwice'
    BY <1>1 DEF NonceInv, NonceNeverSignsTwice
  <1>4. NoncesApart'
    BY <1>2 DEF NonceInv, NoncesApart
  <1>5. NoncesDrawn'
    BY <1>1, <1>2 DEF NonceInv, NoncesDrawn, Drawn
  <1>6. SignedNoncesGone'
    BY <1>1, <1>2 DEF NonceInv, SignedNoncesGone
  <1>7. QED
    BY <1>3, <1>4, <1>5, <1>6 DEF NonceInv

\* The only step that adds a share takes its nonce out of memory.
LEMMA SignNonce ==
    ASSUME TypeInv, NonceInv, NEW s \in Sessions, NEW k \in Seats, Sign(s, k)
    PROVE  NonceInv'
  <1> DEFINE n == nonces[s][k]
             e == Envelope("SignatureShare", Topic(s, input[s]), 2, k,
                           COORDINATOR_SEAT, Share(s, k))
  <1>1. package[s] \in Package
    BY DEF Sign, InRound2, TypeInv, TypeOK
  <1>2. n # NoNonce
    BY <1>1 DEF Sign, FrostAccepts, Committed
  <1>3. board' = board \union {e}
    BY PublishEffect DEF Sign, PublishShare, TypeInv, TypeOK
  <1>4. Shares' = Shares \union {e} /\ e.payload.nonce = n
    BY <1>3 DEF Shares, Envelope, Share
  <1>5. /\ nonces'[s][k] = NoNonce
        /\ \A j \in Seats \ {k} : nonces'[s][j] = nonces[s][j]
        /\ \A r \in Sessions \ {s} : nonces'[r] = nonces[r]
        /\ kept' = kept /\ draws' = draws
    BY DEF Sign, TypeInv, TypeOK
  <1>6. Drawn(s, n)
    BY <1>2 DEF NonceInv, NoncesDrawn
  <1>7. \A d \in Shares : d.payload.nonce # n
    BY DEF NonceInv, SignedNoncesGone
  <1>8. NonceNeverSignsTwice'
    BY <1>4, <1>7 DEF NonceInv, NonceNeverSignsTwice
  <1>9. NoncesApart'
    BY <1>5 DEF NonceInv, NoncesApart
  <1>10. NoncesDrawn'
    <2>1. n.session = s
      BY <1>6 DEF Drawn
    <2>2. \A d \in Shares' : d.payload.nonce.serial <= draws'[d.payload.nonce.session]
      BY <1>4, <1>5, <1>6, <2>1 DEF NonceInv, NoncesDrawn, Drawn
    <2>3. QED
      BY <1>5, <2>2 DEF NonceInv, NoncesDrawn, Drawn
  <1>11. SignedNoncesGone'
    <2>1. ASSUME NEW r \in Sessions, NEW j \in Seats
          PROVE  /\ nonces'[r][j] # n
                 /\ kept[r] # NoRound1 => kept[r].nonces[j] # n
      <3>1. CASE r = s
        BY <1>2, <1>5, <3>1 DEF NonceInv, NoncesApart
      <3>2. CASE r # s
        BY <1>2, <1>5, <1>6, <3>2 DEF NonceInv, NoncesDrawn, Drawn
      <3>3. QED
        BY <3>1, <3>2
    <2>2. ASSUME NEW d \in Shares, NEW r \in Sessions, NEW j \in Seats
          PROVE  /\ nonces'[r][j] # d.payload.nonce
                 /\ kept[r] # NoRound1 => kept[r].nonces[j] # d.payload.nonce
      <3>1. d.payload.nonce # NoNonce
        BY ShareType, SentinelAssumption DEF TypeInv
      <3>2. nonces'[r][j] = nonces[r][j] \/ nonces'[r][j] = NoNonce
        BY <1>5
      <3>3. QED
        BY <3>1, <3>2 DEF NonceInv, SignedNoncesGone
    <2>3. QED
      BY <1>4, <1>5, <2>1, <2>2 DEF SignedNoncesGone
  <1>12. QED
    BY <1>8, <1>9, <1>10, <1>11 DEF NonceInv

LEMMA NextNonce == TypeInv /\ NonceInv /\ [Next]_vars => NonceInv'
  <1> SUFFICES ASSUME TypeInv, NonceInv, [Next]_vars PROVE NonceInv'
    OBVIOUS
  <1>1. ASSUME NEW s \in Sessions, LivenessSelect(s) PROVE Shares' = Shares
    BY <1>1 DEF LivenessSelect, Shares, LiveAcks, Envelope
  <1>2. ASSUME NEW s \in Sessions, NEW result, Return(s, result),
               UNCHANGED <<board, kept, draws>>
        PROVE  NonceInv'
    <2>1. \A r \in Sessions : \/ nonces'[r] = nonces[r]
                              \/ nonces'[r] = [k \in Seats |-> NoNonce]
      BY <1>2 DEF Return, TypeInv, TypeOK
    <2>2. QED
      BY <1>2, <2>1, ForgetPreserves DEF Shares, TypeInv
  <1>3. ASSUME NEW s \in Sessions, Step(s) PROVE NonceInv'
    <2>1. ASSUME NEW k \in Seats, Commit(s, k) PROVE NonceInv'
      BY <2>1, CommitNonce
    <2>2. CASE BuildPackage(s)
      BY <2>2, BuildPackageNonce
    <2>3. ASSUME NEW k \in Seats, RefuseAtGate(s, k) PROVE NonceInv'
      BY <1>2, <2>3 DEF RefuseAtGate
    <2>4. ASSUME NEW k \in Seats, SignFails(s, k) PROVE NonceInv'
      BY <1>2, <2>4 DEF SignFails
    <2>5. ASSUME NEW k \in Seats, Sign(s, k) PROVE NonceInv'
      BY <2>5, SignNonce
    <2>6. CASE AggregateFails(s)
      BY <1>2, <2>6 DEF AggregateFails
    <2>7. CASE Aggregate(s)
      <3>1. CASE UNCHANGED nonces
        BY <2>7, <3>1, ForgetPreserves DEF Aggregate, Shares, TypeInv
      <3>2. CASE Return(s, Returned("ok"))
        BY <1>2, <2>7, <3>2 DEF Aggregate
      <3>3. QED
        BY <2>7, <3>1, <3>2 DEF Aggregate
    <2>8. QED
      BY <1>3, <2>1, <2>2, <2>3, <2>4, <2>5, <2>6, <2>7 DEF Step
  <1>4. ASSUME NEW s \in Sessions, Caller(s) PROVE NonceInv'
    <2>1. ASSUME NEW ack \in BOOLEAN, StartRun(s, ack) PROVE NonceInv'
      BY <1>1, <2>1, ForgetPreserves DEF StartRun, TypeInv
    <2>2. ASSUME NEW ack \in BOOLEAN, NEW i \in Inputs, CallRound2(s, ack, i) PROVE NonceInv'
      BY <2>2, CallRound2Nonce
    <2>3. CASE RefuseSpent(s)
      BY <2>3, ForgetPreserves DEF RefuseSpent, Shares, TypeInv
    <2>4. ASSUME NEW i \in Inputs, StartRound1(s, i) PROVE NonceInv'
      BY <1>1, <2>4, ForgetPreserves DEF StartRound1, TypeInv
    <2>5. CASE DropRound1(s)
      BY <2>5, ForgetPreserves DEF DropRound1, Shares, TypeInv, TypeOK
    <2>6. QED
      BY <1>4, <2>1, <2>2, <2>3, <2>4, <2>5 DEF Caller
  <1>5. CASE UNCHANGED vars
    BY <1>5, ForgetPreserves DEF vars, Shares, TypeInv
  <1>6. QED
    BY <1>3, <1>4, <1>5 DEF Next

LEMMA NonceInvariant == Spec => []NonceInv
  BY InitNonce, NextNonce, TypeInvariant, PTL DEF Spec

\* SIGN-05/06 for any number of seats, inputs, sessions and attempts: no nonce
\* ever backs two signature shares (crypto/nonce.rs takes self by value,
\* round2 takes Round1 by value, a new round 1 draws afresh).
THEOREM NonceSafety == Spec => []NonceNeverSignsTwice
  <1>1. NonceInv => NonceNeverSignsTwice
    BY DEF NonceInv
  <1>2. QED
    BY <1>1, NonceInvariant, PTL
-----------------------------------------------------------------------------
(* What gets to the board *)

ShareEnvelope(s, k) ==
    Envelope("SignatureShare", Topic(s, input[s]), 2, k, COORDINATOR_SEAT, Share(s, k))

\* Nothing is ever taken off the board.
LEMMA BoardGrows ==
    ASSUME TypeInv, [Next]_vars
    PROVE  board \subseteq board'
  <1>1. last \subseteq board
    BY DEF TypeInv, TypeOK
  <1>2. ASSUME NEW s \in Sessions, Step(s) PROVE board \subseteq board'
    BY <1>1, <1>2, PublishEffect
       DEF Step, Commit, BuildPackage, RefuseAtGate, SignFails, Sign, PublishShare,
           AggregateFails, Aggregate
  <1>3. ASSUME NEW s \in Sessions, Caller(s) PROVE board \subseteq board'
    BY <1>3
       DEF Caller, StartRun, CallRound2, RefuseSpent, StartRound1, DropRound1,
           LivenessSelect
  <1>4. QED
    BY <1>2, <1>3 DEF Next, vars

\* Only sign puts a share on the board, and only its own.
LEMMA NewShare ==
    ASSUME TypeInv, [Next]_vars
    PROVE  \/ Shares' = Shares
           \/ \E s \in Sessions, k \in Seats :
                 Sign(s, k) /\ Shares' = Shares \union {ShareEnvelope(s, k)}
  <1>1. ASSUME NEW s \in Sessions, LivenessSelect(s) PROVE Shares' = Shares
    BY <1>1 DEF LivenessSelect, Shares, LiveAcks, Envelope
  <1>2. ASSUME NEW s \in Sessions, NEW k \in Seats, Commit(s, k) PROVE Shares' = Shares
    <2> DEFINE e == Envelope("Commitments", Topic(s, input[s]), 1, k, Broadcast,
                             FreshNonce(s, k))
    <2>1. board' = board \union {e}
      BY <1>2, PublishEffect DEF Commit, TypeInv, TypeOK
    <2>2. e.class # "SignatureShare"
      BY DEF Envelope
    <2>3. QED
      BY <2>1, <2>2 DEF Shares
  <1>3. ASSUME NEW s \in Sessions, NEW k \in Seats, Sign(s, k)
        PROVE  Shares' = Shares \union {ShareEnvelope(s, k)}
    <2>1. board' = board \union {ShareEnvelope(s, k)}
      BY <1>3, PublishEffect DEF Sign, PublishShare, ShareEnvelope, TypeInv, TypeOK
    <2>2. ShareEnvelope(s, k).class = "SignatureShare"
      BY DEF ShareEnvelope, Envelope
    <2>3. QED
      BY <2>1, <2>2 DEF Shares
  <1>4. ASSUME board' = board PROVE Shares' = Shares
    BY <1>4 DEF Shares
  <1>5. ASSUME NEW s \in Sessions, Step(s), \A k \in Seats : ~Sign(s, k) PROVE Shares' = Shares
    BY <1>2, <1>4, <1>5
       DEF Step, BuildPackage, RefuseAtGate, SignFails, AggregateFails, Aggregate
  <1>6. ASSUME NEW s \in Sessions, Caller(s) PROVE Shares' = Shares
    BY <1>1, <1>4, <1>6
       DEF Caller, StartRun, CallRound2, RefuseSpent, StartRound1, DropRound1
  <1>7. CASE UNCHANGED vars
    BY <1>4, <1>7 DEF vars
  <1>8. QED
    BY <1>3, <1>5, <1>6, <1>7 DEF Next

-----------------------------------------------------------------------------
(* What the calls return.  A step of a session changes that session's        *)
(* variables and adds envelopes of its own topics, so the invariant is stated *)
(* for one session at a time, in parts.                                      *)

\* The nonces in memory are those the round has got to.
HoldOf(s) ==
    /\ phase[s] = "idle" => Holders(nonces[s]) = {}
    /\ phase[s] = "round1" => /\ pending[s] \subseteq selected[s]
                              /\ Holders(nonces[s]) = selected[s] \ pending[s]
    /\ phase[s] = "round2" => Holders(nonces[s]) = pending[s]

\* T seats were selected, and as long as round 1 lasts those that acted have a
\* commitment on the topic.
SelectOf(s) ==
    /\ (phase[s] = "round1" \/ (phase[s] = "round2" /\ call[s] = "run")) =>
          Cardinality(selected[s]) = T
    /\ phase[s] = "round1" =>
          \A k \in selected[s] \ pending[s] :
              \E e \in Commitments : e.topic = Topic(s, input[s]) /\ e.seat = k

\* A package that T seats have committed to, all of them on the topic of the
\* input that it is for.
Built(s, p) ==
    /\ Cardinality(Committed(p)) = T
    /\ \A k \in Committed(p) : CommittedOn(Topic(s, p.message), k, p.commitments[k])

\* Round 2 may have been entered for another input, or without an
\* acknowledgement, but then it does not get past its first seat.
SoundOf(s) ==
    /\ phase[s] = "round2" => /\ Built(s, package[s])
                              /\ pending[s] # {} \/ DisplayAndAck(s)
    /\ kept[s] # NoRound1 => Built(s, kept[s].package) /\ Holders(kept[s].nonces) # {}

\* A package that T seats have committed to, for the sighash of input i.
Sound(p, i) == p.message = i /\ Cardinality(Committed(p)) = T

\* The shares of T seats for one package, for the sighash of input i.
Signature(w, i) ==
    \E p \in {share.package : share \in w} :
        Sound(p, i) /\ w = {[nonce |-> p.commitments[k], package |-> p] : k \in Committed(p)}

\* A run has signed the inputs it is past.
SignedOf(s) ==
    /\ \A i \in Inputs : witness[s][i] # {} => yes[s] /\ Signature(witness[s][i], i)
    /\ (call[s] = "run" /\ phase[s] # "idle") =>
          \A i \in Inputs : i < input[s] => witness[s][i] # {}
    /\ (call[s] = "run" /\ phase[s] = "idle" /\ outcome[s].kind = "ok") =>
          \A i \in Inputs : witness[s][i] # {}

\* A call that finds nothing of an earlier one on its topics reads back what it
\* published itself.
FirstOf(s) == attempts[s] <= 1 =>
    /\ attempts[s] = 0 => /\ phase[s] = "idle" /\ kept[s] = NoRound1
                          /\ \A e \in Commitments \union Shares : e.topic[1] # s
    /\ outcome[s].kind \notin {"frost", "culprits"}
    /\ phase[s] # "idle" => kept[s] = NoRound1
    /\ (phase[s] # "idle" /\ call[s] = "run") =>
          \A e \in Commitments \union Shares : e.topic[1] = s => e.topic[2] <= input[s]
    /\ phase[s] = "round1" =>
          /\ \A e \in Commitments :
                e.topic = Topic(s, input[s]) => e.payload = nonces[s][e.seat]
          /\ \A e \in Shares : e.topic # Topic(s, input[s])
          /\ call[s] = "api" => \A e \in Shares : e.topic[1] # s
    /\ phase[s] = "round2" =>
          /\ \A k \in pending[s] : nonces[s][k] = package[s].commitments[k]
          /\ \A e \in Shares : e.topic = Topic(s, input[s]) =>
                e.payload = [nonce   |-> package[s].commitments[e.seat],
                             package |-> package[s]]
          /\ \A k \in Committed(package[s]) \ pending[s] :
                \E e \in Shares : e.topic = Topic(s, input[s]) /\ e.seat = k
    /\ kept[s] # NoRound1 =>
          /\ kept[s].nonces = kept[s].package.commitments
          /\ \A e \in Shares : e.topic[1] # s

\* Of every envelope there is a last one.
LastInv == \A e \in board : \E d \in last : d \in Rivals(e)

\* Frost asks for no more seats than the session selects.
Enough == MinSigners <= T

SessionInv(s) ==
    HoldOf(s) /\ SelectOf(s) /\ SoundOf(s) /\ SignedOf(s) /\ (Enough => FirstOf(s))

OutcomeInv == LastInv /\ \A s \in Sessions : SessionInv(s)
-----------------------------------------------------------------------------
(* The board *)

LEMMA InitLast == Init => LastInv
  BY DEF Init, TransportInit, LastInv

LEMMA PublishLast ==
    ASSUME LastInv, last \subseteq board, NEW e, Publish(e)
    PROVE  LastInv'
  <1>1. CASE UNCHANGED <<board, last>>
    BY <1>1 DEF LastInv, Rivals
  <1>2. CASE board' = board \union {e} /\ last' = (last \ Rivals(e)) \union {e}
    <2> SUFFICES ASSUME NEW b \in board' PROVE \E d \in last' : d \in Rivals(b)'
      BY DEF LastInv
    <2>1. CASE b = e
      BY <1>2, <2>1 DEF Rivals
    <2>2. CASE b # e
      <3>1. PICK d \in last : d \in Rivals(b)
        BY <1>2, <2>2 DEF LastInv
      <3>2. CASE d \in Rivals(e)
        <4>1. e \in Rivals(b)'
          BY <1>2, <3>1, <3>2 DEF Rivals
        <4>2. QED
          BY <1>2, <4>1
      <3>3. CASE d \notin Rivals(e)
        BY <1>2, <3>1, <3>3 DEF Rivals
      <3>4. QED
        BY <3>2, <3>3
    <2>3. QED
      BY <2>1, <2>2
  <1>3. CASE Rivals(e) # {} /\ board' = board \union {e} /\ last' = last
    <2> SUFFICES ASSUME NEW b \in board' PROVE \E d \in last' : d \in Rivals(b)'
      BY DEF LastInv
    <2>1. CASE b \in board
      BY <1>3, <2>1 DEF LastInv, Rivals
    <2>2. CASE b = e
      <3>1. PICK r \in Rivals(e) : TRUE
        BY <1>3
      <3>2. r \in board
        BY <3>1 DEF Rivals
      <3>3. PICK d \in last : d \in Rivals(r)
        BY <3>2 DEF LastInv
      <3>4. d \in Rivals(b)'
        BY <1>3, <2>2, <3>1, <3>3 DEF Rivals
      <3>5. QED
        BY <1>3, <3>4
    <2>3. QED
      BY <1>3, <2>1, <2>2
  <1>4. QED
    BY <1>1, <1>2, <1>3 DEF Publish

LEMMA PollLast ==
    ASSUME LastInv, NEW s \in Sessions, LivenessSelect(s)
    PROVE  LastInv'
  <1>1. board' = board \union LiveAcks(s) /\ last' = last \union LiveAcks(s)
    BY DEF LivenessSelect
  <1>2. QED
    BY <1>1 DEF LastInv, Rivals

LEMMA NextLast == TypeInv /\ LastInv /\ [Next]_vars => LastInv'
  <1> SUFFICES ASSUME TypeInv, LastInv, [Next]_vars PROVE LastInv'
    OBVIOUS
  <1>1. last \subseteq board
    BY DEF TypeInv, TypeOK
  <1>2. CASE UNCHANGED <<board, last>>
    BY <1>2 DEF LastInv, Rivals
  <1>3. ASSUME NEW s \in Sessions, Step(s) PROVE LastInv'
    BY <1>1, <1>2, <1>3, PublishLast
       DEF Step, Commit, BuildPackage, RefuseAtGate, SignFails, Sign, PublishShare,
           AggregateFails, Aggregate
  <1>4. ASSUME NEW s \in Sessions, Caller(s) PROVE LastInv'
    BY <1>2, <1>4, PollLast
       DEF Caller, StartRun, CallRound2, RefuseSpent, StartRound1, DropRound1
  <1>5. QED
    BY <1>2, <1>3, <1>4 DEF Next, vars

LEMMA CommitmentType ==
    ASSUME TypeInv, NEW e \in Commitments
    PROVE  e \in board /\ e \in CommitmentEnvelopes
  BY DEF Commitments, TypeInv, TypeOK, LiveEnvelopes, LiveAcks, Envelope, ShareEnvelopes

\* What a subscriber reads of a topic is what is on the board, sender by sender.
LEMMA ReadsCommitments ==
    ASSUME TypeInv, LastInv, NEW topic, NEW e \in Commitments, e.topic = topic
    PROVE  \E d \in Collect(Filter("Commitments", topic, 1, Anyone)) : d.seat = e.seat
  <1>1. e \in board /\ e \in CommitmentEnvelopes
    BY CommitmentType
  <1>2. PICK d \in last : d \in Rivals(e)
    BY <1>1 DEF LastInv
  <1>3. /\ d.class = "Commitments" /\ d.topic = topic /\ d.round = 1
        /\ d.seat = e.seat /\ d.recipient = Broadcast
    BY <1>1, <1>2 DEF Rivals, CommitmentEnvelopes
  <1>4. d \in Collect(Filter("Commitments", topic, 1, Anyone))
    BY <1>2, <1>3 DEF Collect, Matches, Filter
  <1>5. QED
    BY <1>3, <1>4

LEMMA ReadsShares ==
    ASSUME TypeInv, LastInv, NEW s \in Sessions, NEW e \in Shares,
           e.topic = Topic(s, input[s])
    PROVE  \E d \in CollectedShares(s) : d.seat = e.seat
  <1>1. e \in board /\ e \in ShareEnvelopes
    BY ShareType DEF Shares, TypeInv
  <1>2. PICK d \in last : d \in Rivals(e)
    BY <1>1 DEF LastInv
  <1>3. /\ d.class = "SignatureShare" /\ d.topic = Topic(s, input[s]) /\ d.round = 2
        /\ d.seat = e.seat /\ d.recipient = COORDINATOR_SEAT
    BY <1>1, <1>2 DEF Rivals, ShareEnvelopes, Shares
  <1>4. d \in CollectedShares(s)
    BY <1>2, <1>3 DEF CollectedShares, Collect, Matches, Filter
  <1>5. QED
    BY <1>3, <1>4
-----------------------------------------------------------------------------
(* The sessions beside the one that takes a step *)

Untouched(r) ==
    UNCHANGED <<phase[r], call[r], yes[r], input[r], selected[r], pending[r],
                nonces[r], package[r], kept[r], witness[r], attempts[r], outcome[r]>>

\* Nothing is added to the topics of session r.
Silent(r) ==
    /\ board \subseteq board'
    /\ \A e \in board' \ board : e.class = "SessionControl" \/ e.topic[1] # r

LEMMA SilentTopics ==
    ASSUME NEW r, Silent(r)
    PROVE  /\ Commitments \subseteq Commitments' /\ Shares \subseteq Shares'
           /\ \A e \in Commitments' : e \in Commitments \/ e.topic[1] # r
           /\ \A e \in Shares' : e \in Shares \/ e.topic[1] # r
  BY DEF Silent, Commitments, Shares

\* A commitment stays on its topic.
LEMMA StillCommitted ==
    ASSUME Commitments \subseteq Commitments', NEW topic, NEW k, NEW n,
           CommittedOn(topic, k, n)
    PROVE  CommittedOn(topic, k, n)'
  BY DEF CommittedOn

LEMMA Frame ==
    ASSUME NEW r \in Sessions, SessionInv(r), Untouched(r), Silent(r)
    PROVE  SessionInv(r)'
  <1>1. HoldOf(r)'
    BY DEF SessionInv, Untouched, HoldOf, Holders
  <1>2. SelectOf(r)'
    BY SilentTopics DEF SessionInv, Untouched, SelectOf, Topic
  <1>3. SoundOf(r)'
    <2>1. Commitments \subseteq Commitments'
      BY SilentTopics
    <2>2. UNCHANGED <<phase[r], package[r], pending[r], input[r], yes[r], kept[r]>>
      BY DEF Untouched
    <2>3. phase[r] = "round2" => Built(r, package[r])'
      BY <2>1, <2>2, StillCommitted DEF SessionInv, SoundOf, Built, Committed
    <2>4. kept[r] # NoRound1 => Built(r, kept[r].package)' /\ Holders(kept[r].nonces)' # {}
      BY <2>1, <2>2, StillCommitted DEF SessionInv, SoundOf, Built, Committed, Holders
    <2>5. QED
      BY <2>2, <2>3, <2>4 DEF SessionInv, SoundOf, DisplayAndAck
  <1>4. SignedOf(r)'
    <2>1. /\ witness'[r] = witness[r] /\ call'[r] = call[r] /\ phase'[r] = phase[r]
          /\ input'[r] = input[r] /\ outcome'[r] = outcome[r]
      BY DEF Untouched
    <2>2. ASSUME NEW i \in Inputs, witness'[r][i] # {}
          PROVE  yes'[r] /\ Signature(witness'[r][i], i)
      BY <2>1, <2>2 DEF SessionInv, SignedOf, Untouched
    <2>3. QED
      BY <2>1, <2>2 DEF SessionInv, SignedOf
  <1>5. ASSUME FirstOf(r) PROVE FirstOf(r)'
    <2> SUFFICES ASSUME (attempts[r] <= 1)' PROVE FirstOf(r)'
      BY DEF FirstOf
    <2>1. attempts[r] <= 1
      BY DEF Untouched
    <2>2. /\ phase'[r] = phase[r] /\ kept'[r] = kept[r] /\ outcome'[r] = outcome[r]
          /\ call'[r] = call[r] /\ input'[r] = input[r] /\ nonces'[r] = nonces[r]
          /\ pending'[r] = pending[r] /\ package'[r] = package[r]
          /\ attempts'[r] = attempts[r]
      BY DEF Untouched
    <2>3. \A i : Topic(r, i)[1] = r
      BY DEF Topic
    <2>4. attempts'[r] = 0 => /\ phase'[r] = "idle" /\ kept'[r] = NoRound1
                              /\ \A e \in Commitments' \union Shares' : e.topic[1] # r
      BY <1>5, <2>1, <2>2, SilentTopics DEF FirstOf
    <2>5. (phase'[r] # "idle" /\ call'[r] = "run") =>
             \A e \in Commitments' \union Shares' : e.topic[1] = r => e.topic[2] <= input'[r]
      BY <1>5, <2>1, <2>2, SilentTopics DEF FirstOf
    <2>6. phase'[r] = "round1" =>
             /\ \A e \in Commitments' :
                   e.topic = Topic(r, input'[r]) => e.payload = nonces'[r][e.seat]
             /\ \A e \in Shares' : e.topic # Topic(r, input'[r])
             /\ call'[r] = "api" => \A e \in Shares' : e.topic[1] # r
      BY <1>5, <2>1, <2>2, <2>3, SilentTopics DEF FirstOf
    <2>7. phase'[r] = "round2" =>
             /\ \A k \in pending'[r] : nonces'[r][k] = package'[r].commitments[k]
             /\ \A e \in Shares' : e.topic = Topic(r, input'[r]) =>
                   e.payload = [nonce   |-> package'[r].commitments[e.seat],
                                package |-> package'[r]]
             /\ \A k \in Committed(package'[r]) \ pending'[r] :
                   \E e \in Shares' : e.topic = Topic(r, input'[r]) /\ e.seat = k
      BY <1>5, <2>1, <2>2, <2>3, SilentTopics DEF FirstOf
    <2>8. kept'[r] # NoRound1 =>
             /\ kept'[r].nonces = kept'[r].package.commitments
             /\ \A e \in Shares' : e.topic[1] # r
      BY <1>5, <2>1, <2>2, <2>3, SilentTopics DEF FirstOf
    <2>9. /\ outcome'[r].kind \notin {"frost", "culprits"}
          /\ phase'[r] # "idle" => kept'[r] = NoRound1
      BY <1>5, <2>1, <2>2 DEF FirstOf
    <2>10. QED
      BY <2>4, <2>5, <2>6, <2>7, <2>8, <2>9 DEF FirstOf
  <1>6. QED
    BY <1>1, <1>2, <1>3, <1>4, <1>5 DEF SessionInv, Enough

\* A step of one session leaves the others alone.
LEMMA OthersUntouched ==
    ASSUME TypeInv, NEW s \in Sessions, Step(s) \/ Caller(s), NEW r \in Sessions, r # s
    PROVE  Untouched(r) /\ Silent(r)
  <1>1. ASSUME NEW k \in Seats, Commit(s, k) PROVE Untouched(r) /\ Silent(r)
    <2>1. Untouched(r)
      BY <1>1 DEF Commit, Untouched, TypeInv, TypeOK
    <2> DEFINE e == Envelope("Commitments", Topic(s, input[s]), 1, k, Broadcast,
                             FreshNonce(s, k))
    <2>2. board' = board \union {e}
      BY <1>1, PublishEffect DEF Commit, TypeInv, TypeOK
    <2>3. e.topic[1] = s
      BY DEF Envelope, Topic
    <2> HIDE DEF e
    <2>4. QED
      BY <2>1, <2>2, <2>3 DEF Silent
  <1>2. ASSUME NEW k \in Seats, Sign(s, k) PROVE Untouched(r) /\ Silent(r)
    <2>1. Untouched(r)
      BY <1>2 DEF Sign, Untouched, TypeInv, TypeOK
    <2>2. board' = board \union {ShareEnvelope(s, k)}
      BY <1>2, PublishEffect DEF Sign, PublishShare, ShareEnvelope, TypeInv, TypeOK
    <2>3. ShareEnvelope(s, k).topic[1] = s
      BY DEF ShareEnvelope, Envelope, Topic
    <2>4. QED
      BY <2>1, <2>2, <2>3 DEF Silent
  <1>3. ASSUME LivenessSelect(s) PROVE Silent(r)
    BY <1>3 DEF LivenessSelect, Silent, LiveAcks, Envelope
  <1>4. ASSUME LivenessSelect(s)
        PROVE  UNCHANGED <<phase[r], selected[r], pending[r], outcome[r]>>
    BY <1>4 DEF LivenessSelect, TypeInv, TypeOK
  <1>5. ASSUME UNCHANGED board PROVE Silent(r)
    BY <1>5 DEF Silent
  <1>6. ASSUME NEW result, Return(s, result)
        PROVE  UNCHANGED <<phase[r], nonces[r], package[r], pending[r], outcome[r]>>
    BY <1>6 DEF Return, TypeInv, TypeOK
  <1>7. CASE BuildPackage(s)
    <2>1. Untouched(r)
      BY <1>6, <1>7 DEF BuildPackage, Untouched, TypeInv, TypeOK
    <2>2. QED
      BY <1>5, <1>7, <2>1 DEF BuildPackage
  <1>8. ASSUME NEW k \in Seats, RefuseAtGate(s, k) \/ SignFails(s, k)
        PROVE  Untouched(r) /\ Silent(r)
    BY <1>5, <1>6, <1>8 DEF RefuseAtGate, SignFails, Untouched
  <1>9. CASE AggregateFails(s)
    BY <1>5, <1>6, <1>9 DEF AggregateFails, Untouched
  <1>10. CASE Aggregate(s)
    <2>1. witness'[r] = witness[r]
      BY <1>10 DEF Aggregate, TypeInv, TypeOK
    <2>2. UNCHANGED <<phase[r], input[r], pending[r], nonces[r], package[r], outcome[r]>>
      BY <1>6, <1>10 DEF Aggregate, TypeInv, TypeOK
    <2>3. QED
      BY <1>5, <1>10, <2>1, <2>2 DEF Aggregate, Untouched
  <1>11. ASSUME NEW ack \in BOOLEAN, StartRun(s, ack) PROVE Untouched(r) /\ Silent(r)
    BY <1>3, <1>4, <1>11 DEF StartRun, Untouched, TypeInv, TypeOK
  <1>12. ASSUME NEW i \in Inputs, StartRound1(s, i) PROVE Untouched(r) /\ Silent(r)
    BY <1>3, <1>4, <1>12 DEF StartRound1, Untouched, TypeInv, TypeOK
  <1>13. ASSUME NEW ack \in BOOLEAN, NEW i \in Inputs, CallRound2(s, ack, i) PROVE Untouched(r) /\ Silent(r)
    BY <1>5, <1>13 DEF CallRound2, Untouched, TypeInv, TypeOK
  <1>14. CASE RefuseSpent(s) \/ DropRound1(s)
    BY <1>5, <1>14 DEF RefuseSpent, DropRound1, Untouched, TypeInv, TypeOK
  <1>15. QED
    BY <1>1, <1>2, <1>7, <1>8, <1>9, <1>10, <1>11, <1>12, <1>13, <1>14 DEF Step, Caller
-----------------------------------------------------------------------------
(* A call begins *)

LEMMA InitSession == Init => \A s \in Sessions : SessionInv(s)
  <1> SUFFICES ASSUME Init, NEW s \in Sessions PROVE SessionInv(s)
    OBVIOUS
  <1>1. HoldOf(s) /\ SelectOf(s) /\ SoundOf(s) /\ SignedOf(s)
    BY DEF Init, HoldOf, Holders, SelectOf, SoundOf, SignedOf
  <1>2. FirstOf(s)
    BY DEF Init, TransportInit, FirstOf, Commitments, Shares, Returned
  <1>3. QED
    BY <1>1, <1>2 DEF SessionInv

LEMMA CardUpTo == ASSUME NEW m \in Nat PROVE Cardinality(1 .. m) = m
  <1>1. 1 \in Int /\ m \in Int
    OBVIOUS
  <1>2. Cardinality(1 .. m) = IF 1 > m THEN 0 ELSE m - 1 + 1
    BY <1>1, FS_Interval
  <1>3. QED
    BY <1>2

\* poll_and_select takes T of the seats, which all answer.
LEMMA SelectsT ==
    ASSUME ~(Cardinality(Seats) < T)
    PROVE  Cardinality(PollAndSelect(Seats)) = T
  <1>1. N \in Nat /\ T \in Nat /\ T >= 1
    BY RosterAssumption
  <1>2. Cardinality(Seats) = N
    BY <1>1, CardUpTo DEF Seats
  <1>3. ASSUME NEW i \in Seats PROVE Cardinality({j \in Seats : j < i}) = i - 1
    <2>1. i \in Nat /\ i >= 1 /\ i <= N /\ i - 1 \in Nat
      BY <1>1 DEF Seats
    <2>2. {j \in Seats : j < i} = 1 .. (i - 1)
      BY <1>1, <2>1 DEF Seats
    <2>3. QED
      BY <2>1, <2>2, CardUpTo
  <1>4. PollAndSelect(Seats) = {i \in Seats : i - 1 < T}
    BY <1>3 DEF PollAndSelect
  <1>5. T <= N
    BY <1>1, <1>2
  <1>6. \A i \in Seats : i - 1 < T <=> i \in 1 .. T
    BY <1>1 DEF Seats
  <1>7. 1 .. T \subseteq Seats
    BY <1>1, <1>5 DEF Seats
  <1>8. PollAndSelect(Seats) = 1 .. T
    BY <1>4, <1>6, <1>7
  <1>9. QED
    BY <1>1, <1>8, CardUpTo

\* The poll selects T seats, or the call returns.
LEMMA PollEffect ==
    ASSUME TypeInv, NEW s \in Sessions, LivenessSelect(s), phase[s] = "idle"
    PROVE  /\ \/ /\ phase'[s] = "idle" /\ outcome'[s].kind = "liveness"
              \/ /\ phase'[s] = "round1" /\ outcome'[s] = outcome[s]
                 /\ pending'[s] = selected'[s] /\ Cardinality(selected'[s]) = T
           /\ Silent(s)
  <1> DEFINE acks == LiveAcks(s)
             poll == Filter("SessionControl", Topic(s, 0), Anyone, Anyone)
             responders == {e.seat : e \in {a \in board \union acks : Matches(poll, a)}}
  <1>1. Silent(s)
    BY DEF LivenessSelect, Silent, LiveAcks, Envelope
  <1>2. responders = Seats
    <2>1. \A e \in board \union acks : e.seat \in Seats
      BY DEF TypeInv, TypeOK, LiveEnvelopes, LiveAcks, CommitmentEnvelopes,
             ShareEnvelopes, Envelope
    <2>2. ASSUME NEW k \in Seats PROVE k \in responders
      <3> DEFINE ack == Envelope("SessionControl", Topic(s, 0), 0, k, Broadcast,
                                 [live |-> TRUE])
      <3>1. ack \in acks
        BY DEF LiveAcks
      <3>2. Matches(poll, ack) /\ ack.seat = k
        BY DEF Matches, Filter, Envelope
      <3>3. QED
        BY <3>1, <3>2
    <2>3. QED
      BY <2>1, <2>2
  <1>3. CASE Cardinality(responders) < T
    <2>1. outcome' = [outcome EXCEPT ![s] = Returned("liveness")] /\ phase' = phase
      BY <1>3 DEF LivenessSelect
    <2>2. outcome'[s] = Returned("liveness")
      BY <2>1 DEF TypeInv, TypeOK
    <2>3. QED
      BY <1>1, <2>1, <2>2 DEF Returned
  <1>4. CASE ~(Cardinality(responders) < T)
    <2>1. /\ selected' = [selected EXCEPT ![s] = PollAndSelect(responders)]
          /\ pending' = [pending EXCEPT ![s] = PollAndSelect(responders)]
          /\ phase' = [phase EXCEPT ![s] = "round1"]
          /\ UNCHANGED outcome
      BY <1>4 DEF LivenessSelect
    <2>2. Cardinality(PollAndSelect(responders)) = T
      BY <1>2, <1>4, SelectsT
    <2>3. /\ selected'[s] = PollAndSelect(responders) /\ phase'[s] = "round1"
          /\ pending'[s] = selected'[s] /\ outcome'[s] = outcome[s]
      BY <2>1 DEF TypeInv, TypeOK
    <2>4. QED
      BY <1>1, <2>2, <2>3
  <1>5. QED
    BY <1>3, <1>4

\* What both ways into a call have in common.
LEMMA StartStep ==
    ASSUME TypeInv, NEW s \in Sessions, SessionInv(s), NEW i \in Inputs,
           phase[s] = "idle", LivenessSelect(s),
           input'[s] = i, witness'[s] = [j \in Inputs |-> {}],
           attempts'[s] = attempts[s] + 1, attempts'[s] \in Nat,
           call'[s] = "run" => i = 1,
           call'[s] = "api" => kept[s] = NoRound1,
           call'[s] \in {"run", "api"},
           UNCHANGED <<nonces, package, kept>>
    PROVE  SessionInv(s)'
  <1>1. HoldOf(s)'
    BY PollEffect DEF SessionInv, HoldOf, Holders
  <1>2. SelectOf(s)'
    BY PollEffect DEF SelectOf
  <1>3. SoundOf(s)'
    <2>1. Commitments \subseteq Commitments' /\ phase'[s] # "round2"
      BY PollEffect, SilentTopics
    <2>2. kept[s] # NoRound1 => Built(s, kept[s].package)' /\ Holders(kept[s].nonces)' # {}
      BY <2>1, StillCommitted DEF SessionInv, SoundOf, Built, Committed, Holders
    <2>3. QED
      BY <2>1, <2>2 DEF SoundOf
  <1>4. SignedOf(s)'
    <2>1. ~(call'[s] = "run" /\ phase'[s] = "idle" /\ outcome'[s].kind = "ok")
      BY PollEffect
    <2>2. \A j \in Inputs : witness'[s][j] = {}
      OBVIOUS
    <2>3. call'[s] = "run" => \A j \in Inputs : ~(j < input'[s])
      BY DEF Inputs
    <2>4. QED
      BY <2>1, <2>2, <2>3 DEF SignedOf
  <1>5. ASSUME FirstOf(s) PROVE FirstOf(s)'
    <2> SUFFICES ASSUME attempts'[s] <= 1 PROVE FirstOf(s)'
      BY DEF FirstOf
    <2>1. attempts[s] \in Nat /\ attempts[s] = 0 /\ attempts'[s] = 1
      BY DEF TypeInv, TypeOK
    <2>2. \A e \in Commitments' \union Shares' : e.topic[1] # s
      BY <1>5, <2>1, PollEffect, SilentTopics DEF FirstOf
    <2>3. kept'[s] = NoRound1
      BY <1>5, <2>1 DEF FirstOf
    <2>4. outcome'[s].kind \notin {"frost", "culprits"} /\ phase'[s] \in {"idle", "round1"}
      BY <1>5, <2>1, PollEffect DEF FirstOf
    <2>5. QED
      BY <2>1, <2>2, <2>3, <2>4 DEF FirstOf, Topic
  <1>6. QED
    BY <1>1, <1>2, <1>3, <1>4, <1>5 DEF SessionInv, Enough

LEMMA StartRunStep ==
    ASSUME TypeInv, NEW s \in Sessions, SessionInv(s), NEW ack \in BOOLEAN, StartRun(s, ack)
    PROVE  SessionInv(s)'
  <1>1. 1 \in Inputs
    BY PsbtAssumption DEF Inputs
  <1>2. /\ phase[s] = "idle" /\ LivenessSelect(s)
        /\ UNCHANGED <<nonces, package, kept>>
    BY DEF StartRun, CanCall
  <1>3. /\ input'[s] = 1 /\ witness'[s] = [j \in Inputs |-> {}]
        /\ attempts'[s] = attempts[s] + 1 /\ attempts'[s] \in Nat
        /\ call'[s] = "run"
    BY DEF StartRun, TypeInv, TypeOK
  <1>4. QED
    BY <1>1, <1>2, <1>3, StartStep

LEMMA StartRound1Step ==
    ASSUME TypeInv, NEW s \in Sessions, SessionInv(s), NEW i \in Inputs, StartRound1(s, i)
    PROVE  SessionInv(s)'
  <1>1. /\ phase[s] = "idle" /\ LivenessSelect(s) /\ kept[s] = NoRound1
        /\ UNCHANGED <<nonces, package, kept>>
    BY DEF StartRound1, CanCall
  <1>2. /\ input'[s] = i /\ witness'[s] = [j \in Inputs |-> {}]
        /\ attempts'[s] = attempts[s] + 1 /\ attempts'[s] \in Nat
        /\ call'[s] = "api"
    BY DEF StartRound1, TypeInv, TypeOK
  <1>3. QED
    BY <1>1, <1>2, StartStep

LEMMA RefuseSpentStep ==
    ASSUME TypeInv, NEW s \in Sessions, SessionInv(s), RefuseSpent(s)
    PROVE  SessionInv(s)'
  <1>1. /\ phase[s] = "idle" /\ outcome'[s].kind = "spent"
        /\ attempts[s] \in Nat /\ attempts'[s] = attempts[s] + 1
        /\ UNCHANGED <<board, phase, call, yes, input, selected, pending, nonces,
                       package, kept, witness>>
    BY DEF RefuseSpent, CanCall, Returned, TypeInv, TypeOK
  <1>2. HoldOf(s)' /\ SelectOf(s)' /\ SoundOf(s)'
    BY <1>1 DEF SessionInv, HoldOf, Holders, SelectOf, SoundOf, Built, CommittedOn,
                Committed, Commitments
  <1>3. SignedOf(s)'
    BY <1>1 DEF SessionInv, SignedOf, Signature, Sound, Committed
  <1>4. ASSUME FirstOf(s) PROVE FirstOf(s)'
    BY <1>1, <1>4 DEF FirstOf, Commitments, Shares, Topic
  <1>5. QED
    BY <1>2, <1>3, <1>4 DEF SessionInv, Enough
-----------------------------------------------------------------------------
(* Round 1 *)

LEMMA CommitStep ==
    ASSUME TypeInv, NEW s \in Sessions, SessionInv(s), NEW k \in Seats, Commit(s, k)
    PROVE  SessionInv(s)'
  <1> DEFINE fresh == FreshNonce(s, k)
             e == Envelope("Commitments", Topic(s, input[s]), 1, k, Broadcast, fresh)
  <1>1. /\ board' = board \union {e}
        /\ e.class = "Commitments" /\ e.topic = Topic(s, input[s]) /\ e.seat = k
        /\ e.payload = fresh
    BY PublishEffect DEF Commit, Envelope, TypeInv, TypeOK
  <1>2. fresh \in Nonce /\ fresh # NoNonce
    BY SentinelAssumption DEF FreshNonce, Nonce, TypeInv, TypeOK
  <1> HIDE DEF e, fresh
  <1>3. Commitments' = Commitments \union {e} /\ Shares' = Shares
    BY <1>1 DEF Commitments, Shares
  <1>4. /\ phase[s] = "round1" /\ k \in pending[s]
        /\ UNCHANGED <<phase, call, yes, input, selected, package, kept, witness,
                       attempts, outcome>>
    BY DEF Commit, Least
  <1>5. /\ nonces'[s][k] = fresh /\ \A j \in Seats \ {k} : nonces'[s][j] = nonces[s][j]
        /\ pending'[s] = pending[s] \ {k}
    BY DEF Commit, fresh, TypeInv, TypeOK
  <1>6. pending[s] \subseteq selected[s] /\ Holders(nonces[s]) = selected[s] \ pending[s]
    BY <1>4 DEF SessionInv, HoldOf
  <1>7. nonces[s][k] = NoNonce
    BY <1>4, <1>6 DEF Holders
  <1>8. HoldOf(s)'
    <2>1. Holders(nonces'[s]) = Holders(nonces[s]) \union {k}
      BY <1>2, <1>5 DEF Holders
    <2>2. Holders(nonces'[s]) = selected[s] \ pending'[s]
      BY <1>4, <1>5, <1>6, <2>1
    <2>3. QED
      BY <1>4, <1>5, <1>6, <2>2 DEF HoldOf, Holders
  <1>9. SelectOf(s)'
    <2>1. Cardinality(selected[s]) = T
      BY <1>4 DEF SessionInv, SelectOf
    <2>2. \A j \in selected[s] \ pending'[s] :
             \E d \in Commitments' : d.topic = Topic(s, input[s]) /\ d.seat = j
      BY <1>1, <1>3, <1>4, <1>5 DEF SessionInv, SelectOf
    <2>3. QED
      BY <1>4, <2>1, <2>2 DEF SelectOf, Topic
  <1>10. SoundOf(s)'
    BY <1>3, <1>4 DEF SessionInv, SoundOf, Built, CommittedOn, Committed, Holders
  <1>11. SignedOf(s)'
    BY <1>4 DEF SessionInv, SignedOf, Signature, Sound, Committed
  <1>12. ASSUME FirstOf(s) PROVE FirstOf(s)'
    <2> SUFFICES ASSUME attempts[s] <= 1 PROVE FirstOf(s)'
      BY <1>4 DEF FirstOf
    <2>1. attempts[s] # 0 /\ kept[s] = NoRound1 /\ outcome[s].kind \notin {"frost", "culprits"}
      BY <1>4, <1>12 DEF FirstOf
    <2>2. ASSUME NEW d \in Commitments', d.topic = Topic(s, input[s])
          PROVE  d.payload = nonces'[s][d.seat]
      <3>1. CASE d = e
        BY <1>1, <1>5, <3>1
      <3>2. CASE d # e
        <4>1. d \in Commitments /\ d.payload = nonces[s][d.seat]
          BY <1>3, <1>4, <1>12, <2>2, <3>2 DEF FirstOf
        <4>2. d \in CommitmentEnvelopes
          BY <4>1, CommitmentType
        <4>3. d.seat \in Seats /\ d.payload # NoNonce
          BY <4>2, SentinelAssumption DEF CommitmentEnvelopes
        <4>4. QED
          BY <1>5, <1>7, <4>1, <4>3
      <3>3. QED
        BY <3>1, <3>2
    <2>3. \A d \in Shares' : d.topic # Topic(s, input[s])
      BY <1>3, <1>4, <1>12 DEF FirstOf
    <2>4. ASSUME call[s] = "run", NEW d \in Commitments' \union Shares', d.topic[1] = s
          PROVE  d.topic[2] <= input[s]
      <3>1. input[s] \in Int /\ e.topic[2] = input[s]
        BY <1>1 DEF Inputs, Topic, TypeInv, TypeOK
      <3>2. QED
        BY <1>3, <1>4, <1>12, <2>4, <3>1 DEF FirstOf
    <2>5. QED
      BY <1>3, <1>4, <1>12, <2>1, <2>2, <2>3, <2>4 DEF FirstOf, Topic
  <1>13. QED
    BY <1>4, <1>8, <1>9, <1>10, <1>11, <1>12 DEF SessionInv, Enough

\* The coordinator reads one commitment of every selected seat, and where no
\* earlier call has used the topic the one whose nonce the seat holds.
LEMMA BuiltPackage ==
    ASSUME TypeInv, LastInv, NEW s \in Sessions, SessionInv(s),
           phase[s] = "round1", pending[s] = {},
           NEW commitments \in
             BySender(Collect(Filter("Commitments", Topic(s, input[s]), 1, Anyone)),
                      selected[s])
    PROVE  /\ commitments \in [Seats -> Nonce \union {NoNonce}]
           /\ {k \in Seats : commitments[k] # NoNonce} = selected[s]
           /\ \A k \in selected[s] : CommittedOn(Topic(s, input[s]), k, commitments[k])
           /\ (FirstOf(s) /\ attempts[s] <= 1) => commitments = nonces[s]
  <1> DEFINE read == Collect(Filter("Commitments", Topic(s, input[s]), 1, Anyone))
  <1>1. ASSUME NEW e \in read
        PROVE  /\ e \in Commitments /\ e.topic = Topic(s, input[s])
               /\ e.payload \in Nonce /\ e.payload # NoNonce
    <2>1. e \in CommitmentEnvelopes /\ e \in board
      BY CollectedCommitments DEF TypeInv
    <2>2. e.topic = Topic(s, input[s])
      BY DEF Collect, Matches, Filter
    <2>3. QED
      BY <2>1, <2>2, SentinelAssumption DEF CommitmentEnvelopes, Commitments
  <1>2. Holders(nonces[s]) = selected[s]
    BY DEF SessionInv, HoldOf
  <1>3. selected[s] \subseteq {e.seat : e \in read}
    <2> SUFFICES ASSUME NEW k \in selected[s] PROVE \E d \in read : d.seat = k
      OBVIOUS
    <2>1. PICK e \in Commitments : e.topic = Topic(s, input[s]) /\ e.seat = k
      BY DEF SessionInv, SelectOf
    <2>2. QED
      BY <2>1, ReadsCommitments
  <1> HIDE DEF read
  <1>4. /\ commitments \in [Seats -> {e.payload : e \in read} \union {NoNonce}]
        /\ \A k \in Seats :
              IF k \in selected[s] \cap {e.seat : e \in read}
                THEN \E e \in read : e.seat = k /\ e.payload = commitments[k]
                ELSE commitments[k] = NoNonce
    BY DEF BySender, read
  <1>5. commitments \in [Seats -> Nonce \union {NoNonce}]
    BY <1>1, <1>4
  <1>6. selected[s] \subseteq Seats
    BY DEF TypeInv, TypeOK
  <1>7. \A k \in selected[s] : \E e \in read : e.seat = k /\ e.payload = commitments[k]
    BY <1>3, <1>4, <1>6
  <1>8. \A k \in Seats \ selected[s] : commitments[k] = NoNonce
    BY <1>4
  <1>9. {k \in Seats : commitments[k] # NoNonce} = selected[s]
    BY <1>1, <1>6, <1>7, <1>8
  <1>10. ASSUME FirstOf(s), attempts[s] <= 1 PROVE commitments = nonces[s]
    <2>1. \A k \in selected[s] : commitments[k] = nonces[s][k]
      BY <1>1, <1>7, <1>10 DEF FirstOf
    <2>2. \A k \in Seats \ selected[s] : nonces[s][k] = NoNonce
      BY <1>2 DEF Holders
    <2>3. nonces[s] \in [Seats -> Nonce \union {NoNonce}]
      BY DEF TypeInv, TypeOK
    <2>4. \A k \in Seats : commitments[k] = nonces[s][k]
      BY <1>8, <2>1, <2>2
    <2>5. QED
      BY <1>5, <2>3, <2>4
  <1>11. \A k \in selected[s] : CommittedOn(Topic(s, input[s]), k, commitments[k])
    BY <1>1, <1>7 DEF CommittedOn
  <1>12. QED
    BY <1>5, <1>9, <1>10, <1>11

LEMMA BuildPackageStep ==
    ASSUME TypeInv, LastInv, NEW s \in Sessions, SessionInv(s), BuildPackage(s)
    PROVE  SessionInv(s)'
  <1> DEFINE read == Collect(Filter("Commitments", Topic(s, input[s]), 1, Anyone))
  <1>1. /\ phase[s] = "round1" /\ pending[s] = {}
        /\ UNCHANGED <<board, last, call, yes, input, selected, witness, draws,
                       attempts, spent>>
    BY DEF BuildPackage
  <1>2. PICK commitments \in BySender(read, selected[s]) :
           LET built == [commitments |-> commitments, message |-> Sighash(input[s])]
           IN  \/ /\ call[s] = "run"
                  /\ package' = [package EXCEPT ![s] = built]
                  /\ phase' = [phase EXCEPT ![s] = "round2"]
                  /\ pending' = [pending EXCEPT ![s] = Holders(nonces[s])]
                  /\ UNCHANGED <<nonces, kept, outcome>>
               \/ /\ call[s] = "api"
                  /\ kept' = [kept EXCEPT ![s] = [nonces |-> nonces[s], package |-> built]]
                  /\ Return(s, Returned("kept"))
    BY DEF BuildPackage
  <1> DEFINE built == [commitments |-> commitments, message |-> Sighash(input[s])]
  <1>3. /\ {k \in Seats : commitments[k] # NoNonce} = selected[s]
        /\ \A k \in selected[s] : CommittedOn(Topic(s, input[s]), k, commitments[k])
        /\ (FirstOf(s) /\ attempts[s] <= 1) => commitments = nonces[s]
    BY <1>1, BuiltPackage
  <1>4. /\ Committed(built) = selected[s] /\ built.commitments = commitments
        /\ built.message = input[s]
    BY <1>3 DEF Committed, Sighash
  <1>5. Cardinality(selected[s]) = T /\ Holders(nonces[s]) = selected[s]
    BY <1>1 DEF SessionInv, SelectOf, HoldOf
  <1>6. Built(s, built) /\ selected[s] # {}
    <2>1. Cardinality({}) = 0 /\ T # 0
      BY FS_EmptySet, RosterAssumption
    <2>2. QED
      BY <1>3, <1>4, <1>5, <2>1 DEF Built
  <1>7. Commitments' = Commitments /\ Shares' = Shares
    BY <1>1 DEF Commitments, Shares
  <1>8. \A i \in Inputs : witness'[s][i] # {} => yes'[s] /\ Signature(witness'[s][i], i)
    BY <1>1 DEF SessionInv, SignedOf
  <1> HIDE DEF built, read
  <1>9. CASE /\ call[s] = "run"
             /\ package' = [package EXCEPT ![s] = built]
             /\ phase' = [phase EXCEPT ![s] = "round2"]
             /\ pending' = [pending EXCEPT ![s] = Holders(nonces[s])]
             /\ UNCHANGED <<nonces, kept, outcome>>
    <2>1. /\ package'[s] = built /\ phase'[s] = "round2"
          /\ pending'[s] = Holders(nonces[s]) /\ nonces'[s] = nonces[s]
          /\ kept'[s] = kept[s] /\ outcome'[s] = outcome[s]
      BY <1>9 DEF TypeInv, TypeOK
    <2>2. HoldOf(s)'
      BY <2>1 DEF HoldOf, Holders
    <2>3. SelectOf(s)'
      BY <1>1, <1>5, <2>1 DEF SelectOf
    <2>4. SoundOf(s)'
      BY <1>5, <1>6, <1>7, <2>1
         DEF SessionInv, SoundOf, Built, CommittedOn, Committed, Holders
    <2>5. SignedOf(s)'
      BY <1>1, <1>8, <1>9, <2>1 DEF SessionInv, SignedOf
    <2>6. ASSUME FirstOf(s) PROVE FirstOf(s)'
      <3> SUFFICES ASSUME attempts[s] <= 1 PROVE FirstOf(s)'
        BY <1>1 DEF FirstOf
      <3>1. /\ attempts[s] # 0 /\ kept[s] = NoRound1
            /\ outcome[s].kind \notin {"frost", "culprits"}
            /\ \A e \in Commitments \union Shares : e.topic[1] = s => e.topic[2] <= input[s]
            /\ \A e \in Shares : e.topic # Topic(s, input[s])
        BY <1>1, <1>9, <2>6 DEF FirstOf
      <3>2. built.commitments = nonces[s] /\ Committed(built) = Holders(nonces[s])
        BY <1>3, <1>4, <1>5, <2>6
      <3>3. QED
        BY <1>1, <1>7, <2>1, <3>1, <3>2 DEF FirstOf, Topic
    <2>7. QED
      BY <2>2, <2>3, <2>4, <2>5, <2>6 DEF SessionInv, Enough
  <1>10. CASE /\ call[s] = "api"
              /\ kept' = [kept EXCEPT ![s] = [nonces |-> nonces[s], package |-> built]]
              /\ Return(s, Returned("kept"))
    <2>1. /\ phase'[s] = "idle" /\ nonces'[s] = [k \in Seats |-> NoNonce]
          /\ outcome'[s].kind = "kept"
      BY <1>10 DEF Return, Returned, TypeInv, TypeOK
    <2>2. kept'[s].nonces = nonces[s] /\ kept'[s].package = built
      BY <1>10 DEF TypeInv, TypeOK
    <2>3. HoldOf(s)'
      BY <2>1 DEF HoldOf, Holders
    <2>4. SelectOf(s)'
      BY <2>1 DEF SelectOf
    <2>5. SoundOf(s)'
      BY <1>5, <1>6, <1>7, <2>1, <2>2
         DEF SoundOf, Built, CommittedOn, Committed, Holders
    <2>6. SignedOf(s)'
      BY <1>8, <2>1 DEF SignedOf
    <2>7. ASSUME FirstOf(s) PROVE FirstOf(s)'
      <3> SUFFICES ASSUME attempts[s] <= 1 PROVE FirstOf(s)'
        BY <1>1 DEF FirstOf
      <3>1. attempts[s] # 0 /\ \A e \in Shares : e.topic[1] # s
        BY <1>1, <1>10, <2>7 DEF FirstOf
      <3>2. built.commitments = nonces[s]
        BY <1>3, <1>4, <2>7
      <3>3. QED
        BY <1>1, <1>7, <2>1, <2>2, <3>1, <3>2 DEF FirstOf, Topic
    <2>8. QED
      BY <2>3, <2>4, <2>5, <2>6, <2>7 DEF SessionInv, Enough
  <1>11. QED
    BY <1>2, <1>9, <1>10 DEF built
\* round1's value handed to round2.
LEMMA CallRound2Step ==
    ASSUME TypeInv, NEW s \in Sessions, SessionInv(s), NEW ack \in BOOLEAN,
           NEW i \in Inputs, CallRound2(s, ack, i)
    PROVE  SessionInv(s)'
  <1>1. /\ phase[s] = "idle" /\ kept[s] # NoRound1
        /\ UNCHANGED <<board, selected, attempts, outcome>>
    BY DEF CallRound2
  <1>2. /\ phase'[s] = "round2" /\ call'[s] = "api" /\ kept'[s] = NoRound1
        /\ input'[s] = i /\ nonces'[s] = kept[s].nonces
        /\ package'[s] = kept[s].package /\ pending'[s] = Holders(kept[s].nonces)
        /\ witness'[s] = [j \in Inputs |-> {}]
    BY DEF CallRound2, TypeInv, TypeOK
  <1>3. HoldOf(s)'
    BY <1>2 DEF HoldOf, Holders
  <1>4. SelectOf(s)'
    BY <1>2 DEF SelectOf
  <1>5. SoundOf(s)'
    BY <1>1, <1>2
       DEF SessionInv, SoundOf, Built, CommittedOn, Committed, Commitments
  <1>6. SignedOf(s)'
    BY <1>2 DEF SignedOf
  <1>7. ASSUME FirstOf(s) PROVE FirstOf(s)'
    <2> SUFFICES ASSUME attempts[s] <= 1 PROVE FirstOf(s)'
      BY <1>1 DEF FirstOf
    <2>1. /\ attempts[s] # 0 /\ outcome[s].kind \notin {"frost", "culprits"}
          /\ kept[s].nonces = kept[s].package.commitments
          /\ \A e \in Shares : e.topic[1] # s
      BY <1>1, <1>7 DEF FirstOf
    <2>2. Commitments' = Commitments /\ Shares' = Shares
      BY <1>1 DEF Commitments, Shares
    <2>3. Committed(package'[s]) = pending'[s]
      BY <1>2, <2>1 DEF Committed, Holders
    <2>4. \A k \in pending'[s] : nonces'[s][k] = package'[s].commitments[k]
      BY <1>2, <2>1
    <2>5. \A e \in Shares' : e.topic # Topic(s, input'[s])
      BY <1>2, <2>1, <2>2 DEF Topic
    <2>6. attempts'[s] # 0 /\ outcome'[s].kind \notin {"frost", "culprits"}
      BY <1>1, <2>1
    <2>7. QED
      BY <1>2, <2>3, <2>4, <2>5, <2>6 DEF FirstOf, Topic
  <1>8. QED
    BY <1>3, <1>4, <1>5, <1>6, <1>7 DEF SessionInv, Enough

LEMMA DropRound1Step ==
    ASSUME TypeInv, NEW s \in Sessions, SessionInv(s), DropRound1(s)
    PROVE  SessionInv(s)'
  <1>1. /\ phase[s] = "idle" /\ kept'[s] = NoRound1
        /\ UNCHANGED <<board, phase, call, yes, input, selected, pending, nonces,
                       package, witness, attempts, outcome>>
    BY DEF DropRound1, TypeInv, TypeOK
  <1>2. HoldOf(s)' /\ SelectOf(s)' /\ SoundOf(s)'
    BY <1>1 DEF SessionInv, HoldOf, Holders, SelectOf, SoundOf
  <1>3. SignedOf(s)'
    BY <1>1 DEF SessionInv, SignedOf, Signature, Sound, Committed
  <1>4. ASSUME FirstOf(s) PROVE FirstOf(s)'
    BY <1>1, <1>4 DEF FirstOf, Commitments, Shares
  <1>5. QED
    BY <1>2, <1>3, <1>4 DEF SessionInv, Enough
-----------------------------------------------------------------------------
(* Round 2 *)

\* A call that returns an error has signed what it had signed.
LEMMA GiveUpStep ==
    ASSUME TypeInv, NEW s \in Sessions, SessionInv(s), NEW result, Return(s, result),
           UNCHANGED <<board, call, yes, input, selected, kept, witness, attempts>>,
           result.kind # "ok",
           (Enough /\ attempts[s] <= 1) => result.kind \notin {"frost", "culprits"}
    PROVE  SessionInv(s)'
  <1>1. /\ phase'[s] = "idle" /\ nonces'[s] = [k \in Seats |-> NoNonce]
        /\ outcome'[s] = result
    BY DEF Return, TypeInv, TypeOK
  <1>2. HoldOf(s)' /\ SelectOf(s)'
    BY <1>1 DEF HoldOf, Holders, SelectOf
  <1>3. SoundOf(s)'
    BY <1>1 DEF SessionInv, SoundOf, Built, CommittedOn, Committed, Commitments, Holders
  <1>4. SignedOf(s)'
    <2>1. \A i \in Inputs : witness'[s][i] # {} => yes'[s] /\ Signature(witness'[s][i], i)
      BY DEF SessionInv, SignedOf
    <2>2. QED
      BY <1>1, <2>1 DEF SignedOf
  <1>5. ASSUME Enough, FirstOf(s) PROVE FirstOf(s)'
    <2> SUFFICES ASSUME attempts[s] <= 1 PROVE FirstOf(s)'
      BY DEF FirstOf
    <2>1. Commitments' = Commitments /\ Shares' = Shares
      BY DEF Commitments, Shares
    <2>2. QED
      BY <1>1, <1>5, <2>1 DEF FirstOf
  <1>6. QED
    BY <1>2, <1>3, <1>4, <1>5 DEF SessionInv, Enough

\* A nonce of round 2 belongs to the package, in a session not used before.
LEMMA FirstAttemptAccepts ==
    ASSUME TypeInv, NEW s \in Sessions, SessionInv(s), NEW k \in Seats, InRound2(s, k),
           Enough, attempts[s] <= 1
    PROVE  FrostAccepts(s, k)
  <1>1. phase[s] = "round2" /\ k \in pending[s]
    BY DEF InRound2, Least
  <1>2. nonces[s][k] # NoNonce
    BY <1>1 DEF SessionInv, HoldOf, Holders
  <1>3. package[s].commitments[k] = nonces[s][k]
    BY <1>1 DEF SessionInv, FirstOf
  <1>4. Cardinality(Committed(package[s])) = T
    BY <1>1 DEF SessionInv, SoundOf, Built
  <1>5. T >= MinSigners
    BY RosterAssumption DEF Enough
  <1>6. QED
    BY <1>2, <1>3, <1>4, <1>5 DEF FrostAccepts, Committed

LEMMA RefuseAtGateStep ==
    ASSUME TypeInv, NEW s \in Sessions, SessionInv(s), NEW k \in Seats, RefuseAtGate(s, k)
    PROVE  SessionInv(s)'
  BY GiveUpStep DEF RefuseAtGate, Returned

LEMMA SignFailsStep ==
    ASSUME TypeInv, NEW s \in Sessions, SessionInv(s), NEW k \in Seats, SignFails(s, k)
    PROVE  SessionInv(s)'
  <1>1. ~(Enough /\ attempts[s] <= 1)
    BY FirstAttemptAccepts DEF SignFails
  <1>2. QED
    BY <1>1, GiveUpStep DEF SignFails, Returned

LEMMA SignStep ==
    ASSUME TypeInv, NEW s \in Sessions, SessionInv(s), NEW k \in Seats, Sign(s, k)
    PROVE  SessionInv(s)'
  <1> DEFINE e == ShareEnvelope(s, k)
  <1>1. board' = board \union {e}
    BY PublishEffect DEF Sign, PublishShare, ShareEnvelope, TypeInv, TypeOK
  <1>2. /\ e.class = "SignatureShare" /\ e.topic = Topic(s, input[s]) /\ e.seat = k
        /\ e.payload = [nonce |-> nonces[s][k], package |-> package[s]]
    BY DEF ShareEnvelope, Envelope, Share
  <1> HIDE DEF e
  <1>3. Commitments' = Commitments /\ Shares' = Shares \union {e}
    BY <1>1, <1>2 DEF Commitments, Shares
  <1>4. /\ phase[s] = "round2" /\ k \in pending[s]
        /\ package[s].commitments[k] = nonces[s][k]
        /\ DisplayAndAck(s)
        /\ UNCHANGED <<phase, call, yes, input, selected, package, kept, witness,
                       attempts, outcome>>
    BY DEF Sign, InRound2, Least, FrostAccepts
  <1>5. /\ nonces'[s][k] = NoNonce /\ \A j \in Seats \ {k} : nonces'[s][j] = nonces[s][j]
        /\ pending'[s] = pending[s] \ {k} /\ pending[s] \subseteq Seats
    BY DEF Sign, TypeInv, TypeOK
  <1>6. HoldOf(s)'
    <2>1. Holders(nonces'[s]) = Holders(nonces[s]) \ {k}
      BY <1>5 DEF Holders
    <2>2. Holders(nonces'[s]) = pending'[s]
      BY <1>4, <1>5, <2>1 DEF SessionInv, HoldOf
    <2>3. QED
      BY <1>4, <2>2 DEF HoldOf, Holders
  <1>7. SelectOf(s)'
    BY <1>4 DEF SessionInv, SelectOf
  <1>8. SoundOf(s)'
    BY <1>3, <1>4
       DEF SessionInv, SoundOf, Built, CommittedOn, Committed, Holders, DisplayAndAck
  <1>9. SignedOf(s)'
    BY <1>4 DEF SessionInv, SignedOf, Signature, Sound, Committed
  <1>10. ASSUME FirstOf(s) PROVE FirstOf(s)'
    <2> SUFFICES ASSUME attempts[s] <= 1 PROVE FirstOf(s)'
      BY <1>4 DEF FirstOf
    <2>1. /\ attempts[s] # 0 /\ kept[s] = NoRound1
          /\ outcome[s].kind \notin {"frost", "culprits"}
      BY <1>4, <1>10 DEF FirstOf
    <2>2. \A j \in pending'[s] : nonces'[s][j] = package[s].commitments[j]
      BY <1>4, <1>5, <1>10 DEF FirstOf
    <2>3. \A d \in Shares' : d.topic = Topic(s, input[s]) =>
             d.payload = [nonce   |-> package[s].commitments[d.seat],
                          package |-> package[s]]
      BY <1>2, <1>3, <1>4, <1>10 DEF FirstOf
    <2>4. \A j \in Committed(package[s]) \ pending'[s] :
             \E d \in Shares' : d.topic = Topic(s, input[s]) /\ d.seat = j
      BY <1>2, <1>3, <1>4, <1>5, <1>10 DEF FirstOf
    <2>5. ASSUME call[s] = "run", NEW d \in Commitments' \union Shares', d.topic[1] = s
          PROVE  d.topic[2] <= input[s]
      <3>1. input[s] \in Int /\ e.topic[2] = input[s]
        BY <1>2 DEF Inputs, Topic, TypeInv, TypeOK
      <3>2. QED
        BY <1>3, <1>4, <1>10, <2>5, <3>1 DEF FirstOf
    <2>6. QED
      BY <1>4, <2>1, <2>2, <2>3, <2>4, <2>5 DEF FirstOf, Topic, Committed
  <1>11. QED
    BY <1>4, <1>6, <1>7, <1>8, <1>9, <1>10 DEF SessionInv, Enough

\* What the coordinator of a session not used before reads is one valid share
\* of every seat of the package.
LEMMA FirstAttemptAggregates ==
    ASSUME TypeInv, LastInv, NEW s \in Sessions, SessionInv(s), ReadyToAggregate(s),
           Enough, attempts[s] <= 1
    PROVE  AllSharesIn(s) /\ Invalid(s) = {}
  <1>1. phase[s] = "round2" /\ pending[s] = {} /\ FirstOf(s)
    BY DEF ReadyToAggregate, SessionInv
  <1>2. ASSUME NEW d \in CollectedShares(s)
        PROVE  /\ d.payload = [nonce   |-> package[s].commitments[d.seat],
                               package |-> package[s]]
               /\ d.seat \in Committed(package[s])
    <2>1. d \in Shares /\ d.seat \in Seats
      BY CollectedShareType DEF TypeInv
    <2>2. d.topic = Topic(s, input[s])
      BY DEF CollectedShares, Collect, Matches, Filter
    <2>3. d.payload = [nonce |-> package[s].commitments[d.seat], package |-> package[s]]
      BY <1>1, <2>1, <2>2 DEF FirstOf
    <2>4. package[s].commitments[d.seat] # NoNonce
      <3>1. d.payload.nonce \in Nonce
        BY <2>1, ShareType DEF TypeInv
      <3>2. QED
        BY <2>3, <3>1, SentinelAssumption
    <2>5. QED
      BY <2>1, <2>3, <2>4 DEF Committed
  <1>3. ASSUME NEW k \in Committed(package[s])
        PROVE  \E d \in CollectedShares(s) : d.seat = k
    <2>1. PICK e \in Shares : e.topic = Topic(s, input[s]) /\ e.seat = k
      BY <1>1 DEF FirstOf
    <2>2. QED
      BY <2>1, ReadsShares
  <1>4. AllSharesIn(s)
    BY <1>2, <1>3 DEF AllSharesIn
  <1>5. Invalid(s) = {}
    BY <1>2 DEF Invalid
  <1>6. QED
    BY <1>4, <1>5

LEMMA AggregateFailsStep ==
    ASSUME TypeInv, LastInv, NEW s \in Sessions, SessionInv(s), AggregateFails(s)
    PROVE  SessionInv(s)'
  <1>1. PICK error \in AggregationErrors(s) : Return(s, error)
    BY DEF AggregateFails
  <1>2. error.kind \in {"culprits", "frost"}
    BY DEF AggregationErrors, Returned
  <1>3. ~(Enough /\ attempts[s] <= 1)
    <2> SUFFICES ASSUME Enough, attempts[s] <= 1 PROVE FALSE
      OBVIOUS
    <2>1. AllSharesIn(s) /\ Invalid(s) = {}
      BY FirstAttemptAggregates DEF AggregateFails
    <2>2. AggregationErrors(s) = {}
      BY <2>1 DEF AggregationErrors
    <2>3. QED
      BY <2>2
  <1>4. QED
    BY <1>1, <1>2, <1>3, GiveUpStep DEF AggregateFails
\* What verifies is a signature of T seats, and is not empty.
LEMMA Aggregated ==
    ASSUME TypeInv, NEW s \in Sessions, SessionInv(s),
           ReadyToAggregate(s), AllSharesIn(s), Invalid(s) = {}
    PROVE  /\ yes[s]
           /\ Signature({e.payload : e \in CollectedShares(s)}, input[s])
           /\ {e.payload : e \in CollectedShares(s)} # {}
  <1> DEFINE p == package[s]
             w == {e.payload : e \in CollectedShares(s)}
  <1>1. Sound(p, input[s]) /\ yes[s]
    BY DEF ReadyToAggregate, SessionInv, SoundOf, Built, Sound, DisplayAndAck, Sighash
  <1>2. \A d \in CollectedShares(s) :
           d.payload = [nonce |-> p.commitments[d.seat], package |-> p]
    BY DEF Invalid
  <1>3. {e.seat : e \in CollectedShares(s)} = Committed(p)
    BY DEF AllSharesIn
  <1> HIDE DEF p
  <1>4. w = {[nonce |-> p.commitments[k], package |-> p] : k \in Committed(p)}
    <2> DEFINE share(k) == [nonce |-> p.commitments[k], package |-> p]
    <2>1. \A d \in CollectedShares(s) : d.payload = share(d.seat)
      BY <1>2
    <2> HIDE DEF share
    <2>2. w = {share(k) : k \in Committed(p)}
      BY <1>3, <2>1
    <2>3. QED
      BY <2>2 DEF share
  <1>5. PICK k \in Committed(p) : TRUE
    <2>1. Cardinality({}) = 0 /\ Cardinality(Committed(p)) = T /\ T # 0
      BY <1>1, FS_EmptySet, RosterAssumption DEF Sound
    <2>2. QED
      BY <2>1
  <1>6. [nonce |-> p.commitments[k], package |-> p] \in w
    BY <1>4
  <1>7. p \in {share.package : share \in w}
    BY <1>6
  <1> HIDE DEF w
  <1>8. Signature(w, input[s]) /\ w # {}
    BY <1>1, <1>4, <1>6, <1>7 DEF Signature
  <1>9. QED
    BY <1>1, <1>8 DEF w

LEMMA AggregateStep ==
    ASSUME TypeInv, NEW s \in Sessions, SessionInv(s), Aggregate(s)
    PROVE  SessionInv(s)'
  <1> DEFINE w == {e.payload : e \in CollectedShares(s)}
  <1>1. yes[s] /\ Signature(w, input[s]) /\ w # {}
    BY Aggregated DEF Aggregate
  <1>2. /\ phase[s] = "round2" /\ pending[s] = {} /\ witness' = [witness EXCEPT ![s][input[s]] = w]
        /\ UNCHANGED <<board, last, call, yes, selected, kept, draws, attempts>>
    BY DEF Aggregate, ReadyToAggregate
  <1> HIDE DEF w
  <1>3. /\ input[s] \in Inputs
        /\ witness'[s][input[s]] = w
        /\ \A i \in Inputs \ {input[s]} : witness'[s][i] = witness[s][i]
    BY <1>2 DEF TypeInv, TypeOK
  <1>4. \A i \in Inputs : witness'[s][i] # {} => yes'[s] /\ Signature(witness'[s][i], i)
    BY <1>1, <1>2, <1>3 DEF SessionInv, SignedOf
  <1>5. call[s] = "run" => \A i \in Inputs : i <= input[s] => witness'[s][i] # {}
    <2> SUFFICES ASSUME call[s] = "run", NEW i \in Inputs, i <= input[s]
                 PROVE  witness'[s][i] # {}
      OBVIOUS
    <2>1. CASE i = input[s]
      BY <1>1, <1>3, <2>1
    <2>2. CASE i # input[s]
      <3>1. i < input[s]
        BY <1>3, <2>2 DEF Inputs
      <3>2. QED
        BY <1>2, <1>3, <2>2, <3>1 DEF SessionInv, SignedOf
    <2>3. QED
      BY <2>1, <2>2
  <1>6. Commitments' = Commitments /\ Shares' = Shares
    BY <1>2 DEF Commitments, Shares
  <1>7. phase'[s] # "round2" => SoundOf(s)'
    BY <1>2, <1>6 DEF SessionInv, SoundOf, Built, CommittedOn, Committed, Holders
  <1>8. CASE /\ call[s] = "run" /\ MoreInputs(s)
             /\ phase' = [phase EXCEPT ![s] = "round1"]
             /\ input' = [input EXCEPT ![s] = @ + 1]
             /\ pending' = [pending EXCEPT ![s] = selected[s]]
             /\ package' = [package EXCEPT ![s] = NoPackage]
             /\ UNCHANGED <<nonces, spent, outcome>>
    <2>1. /\ phase'[s] = "round1" /\ input'[s] = input[s] + 1 /\ pending'[s] = selected'[s]
          /\ nonces'[s] = nonces[s] /\ selected'[s] = selected[s] /\ outcome'[s] = outcome[s]
      BY <1>2, <1>8 DEF TypeInv, TypeOK
    <2>2. HoldOf(s)'
      BY <1>2, <2>1 DEF SessionInv, HoldOf, Holders
    <2>3. SelectOf(s)'
      BY <1>2, <1>8, <2>1 DEF SessionInv, SelectOf
    <2>4. SignedOf(s)'
      <3>1. \A i \in Inputs : i < input'[s] => i <= input[s]
        BY <1>3, <2>1 DEF Inputs
      <3>2. QED
        BY <1>4, <1>5, <1>8, <2>1, <3>1 DEF SignedOf
    <2>5. ASSUME FirstOf(s) PROVE FirstOf(s)'
      <3> SUFFICES ASSUME attempts[s] <= 1 PROVE FirstOf(s)'
        BY <1>2 DEF FirstOf
      <3>1. /\ attempts[s] # 0 /\ kept[s] = NoRound1
            /\ outcome[s].kind \notin {"frost", "culprits"}
            /\ \A e \in Commitments \union Shares : e.topic[1] = s => e.topic[2] <= input[s]
        BY <1>2, <1>8, <2>5 DEF FirstOf
      <3>2. ASSUME NEW e \in Commitments' \union Shares', e.topic[1] = s
            PROVE  e.topic[2] <= input'[s] /\ e.topic # Topic(s, input'[s])
        <4>1. e \in CommitmentEnvelopes \/ e \in ShareEnvelopes
          BY <1>6, CommitmentType, ShareType DEF TypeInv
        <4>2. e.topic[2] \in Inputs
          BY <4>1 DEF CommitmentEnvelopes, ShareEnvelopes
        <4>3. e.topic[2] <= input[s]
          BY <1>6, <3>1, <3>2
        <4>4. e.topic[2] <= input'[s] /\ e.topic[2] # input'[s]
          BY <1>3, <2>1, <4>2, <4>3 DEF Inputs
        <4>5. QED
          BY <4>4 DEF Topic
      <3>3. \A e \in Commitments' \union Shares' : e.topic # Topic(s, input'[s])
        BY <3>2 DEF Topic
      <3>4. QED
        BY <1>2, <1>8, <2>1, <3>1, <3>2, <3>3 DEF FirstOf, Topic
    <2>6. QED
      BY <1>7, <2>1, <2>2, <2>3, <2>4, <2>5 DEF SessionInv, Enough
  <1>9. CASE /\ Return(s, Returned("ok"))
             /\ call[s] = "run" => ~MoreInputs(s)
    <2>1. /\ phase'[s] = "idle" /\ nonces'[s] = [k \in Seats |-> NoNonce]
          /\ outcome'[s].kind = "ok"
      BY <1>9 DEF Return, Returned, TypeInv, TypeOK
    <2>2. HoldOf(s)' /\ SelectOf(s)'
      BY <2>1 DEF HoldOf, Holders, SelectOf
    <2>3. SignedOf(s)'
      <3>1. call[s] = "run" => \A i \in Inputs : i <= input[s]
        BY <1>3, <1>9, PsbtAssumption DEF MoreInputs, Inputs
      <3>2. QED
        BY <1>2, <1>4, <1>5, <2>1, <3>1 DEF SignedOf
    <2>4. ASSUME FirstOf(s) PROVE FirstOf(s)'
      BY <1>2, <1>6, <2>1, <2>4 DEF FirstOf
    <2>5. QED
      BY <1>7, <2>1, <2>2, <2>3, <2>4 DEF SessionInv, Enough
  <1>10. QED
    BY <1>8, <1>9 DEF Aggregate
-----------------------------------------------------------------------------
(* Every step *)

LEMMA StepOwn ==
    ASSUME TypeInv, LastInv, NEW s \in Sessions, SessionInv(s), Step(s)
    PROVE  SessionInv(s)'
  <1>1. ASSUME NEW k \in Seats, Commit(s, k) PROVE SessionInv(s)'
    BY <1>1, CommitStep
  <1>2. CASE BuildPackage(s)
    BY <1>2, BuildPackageStep
  <1>3. ASSUME NEW k \in Seats, RefuseAtGate(s, k) PROVE SessionInv(s)'
    BY <1>3, RefuseAtGateStep
  <1>4. ASSUME NEW k \in Seats, SignFails(s, k) PROVE SessionInv(s)'
    BY <1>4, SignFailsStep
  <1>5. ASSUME NEW k \in Seats, Sign(s, k) PROVE SessionInv(s)'
    BY <1>5, SignStep
  <1>6. CASE AggregateFails(s)
    BY <1>6, AggregateFailsStep
  <1>7. CASE Aggregate(s)
    BY <1>7, AggregateStep
  <1>8. QED
    BY <1>1, <1>2, <1>3, <1>4, <1>5, <1>6, <1>7 DEF Step

LEMMA CallerOwn ==
    ASSUME TypeInv, NEW s \in Sessions, SessionInv(s), Caller(s)
    PROVE  SessionInv(s)'
  <1>1. ASSUME NEW ack \in BOOLEAN, StartRun(s, ack) PROVE SessionInv(s)'
    BY <1>1, StartRunStep
  <1>2. ASSUME NEW ack \in BOOLEAN, NEW i \in Inputs, CallRound2(s, ack, i) PROVE SessionInv(s)'
    BY <1>2, CallRound2Step
  <1>3. CASE RefuseSpent(s)
    BY <1>3, RefuseSpentStep
  <1>4. ASSUME NEW i \in Inputs, StartRound1(s, i) PROVE SessionInv(s)'
    BY <1>4, StartRound1Step
  <1>5. CASE DropRound1(s)
    BY <1>5, DropRound1Step
  <1>6. QED
    BY <1>1, <1>2, <1>3, <1>4, <1>5 DEF Caller

LEMMA NextOutcome == TypeInv /\ OutcomeInv /\ [Next]_vars => OutcomeInv'
  <1> SUFFICES ASSUME TypeInv, OutcomeInv, [Next]_vars PROVE OutcomeInv'
    OBVIOUS
  <1>1. LastInv'
    BY NextLast DEF OutcomeInv
  <1>2. ASSUME NEW s \in Sessions, Step(s) \/ Caller(s), NEW r \in Sessions
        PROVE  SessionInv(r)'
    <2>1. LastInv /\ SessionInv(r) /\ SessionInv(s)
      BY DEF OutcomeInv
    <2>2. CASE r = s
      BY <1>2, <2>1, <2>2, StepOwn, CallerOwn
    <2>3. CASE r # s
      BY <1>2, <2>1, <2>3, OthersUntouched, Frame
    <2>4. QED
      BY <2>2, <2>3
  <1>3. ASSUME UNCHANGED vars, NEW r \in Sessions PROVE SessionInv(r)'
    <2>1. Untouched(r) /\ Silent(r)
      BY <1>3 DEF vars, Untouched, Silent
    <2>2. QED
      BY <2>1, Frame DEF OutcomeInv
  <1>4. QED
    BY <1>1, <1>2, <1>3 DEF Next, OutcomeInv

LEMMA OutcomeInvariant == Spec => []OutcomeInv
  <1>1. Init => OutcomeInv
    BY InitLast, InitSession DEF OutcomeInv
  <1>2. QED
    BY <1>1, NextOutcome, TypeInvariant, PTL DEF Spec

\* SIGN-04: what a call attaches to an input is a signature of T seats for its
\* sighash, whatever earlier calls have left on the topics that round1 and
\* round2 read back.
THEOREM SignaturesVerify == Spec => []WitnessVerifies
  <1>1. OutcomeInv => WitnessVerifies
    BY DEF OutcomeInv, SessionInv, SignedOf, Signature, Sound, WitnessVerifies, Sighash
  <1>2. QED
    BY <1>1, OutcomeInvariant, PTL

\* SIGN-07 for any number of seats, inputs, sessions and attempts: a share is on
\* the topic whose round 1 it answers, though round2 takes whatever input index
\* its caller names and the topics it reads back are shared (round1, round2,
\* display_and_ack).
THEOREM SharesAnswer == Spec => []SharesAnswerTheirTopic
  <1>1. Init => SharesAnswerTheirTopic
    BY DEF Init, TransportInit, SharesAnswerTheirTopic, Shares
  <1>2. TypeInv /\ OutcomeInv /\ SharesAnswerTheirTopic /\ [Next]_vars
           => SharesAnswerTheirTopic'
    <2> SUFFICES ASSUME TypeInv, OutcomeInv, SharesAnswerTheirTopic, [Next]_vars,
                        NEW e \in Shares', NEW p, p = e.payload.package
                 PROVE  /\ p.message = e.topic[2]
                        /\ \A k \in Committed(p) :
                              CommittedOn(e.topic, k, p.commitments[k])'
                        /\ CommittedOn(e.topic, e.seat, e.payload.nonce)'
      BY DEF SharesAnswerTheirTopic, Sighash, Committed
    <2>1. Commitments \subseteq Commitments'
      BY BoardGrows DEF Commitments
    <2>2. ASSUME NEW topic, NEW k, NEW n, CommittedOn(topic, k, n)
          PROVE  CommittedOn(topic, k, n)'
      BY <2>1, <2>2, StillCommitted
    <2>3. CASE e \in Shares
      BY <2>2, <2>3 DEF SharesAnswerTheirTopic, Sighash
    <2>4. CASE e \notin Shares
      <3>1. PICK s \in Sessions, k \in Seats : Sign(s, k) /\ e = ShareEnvelope(s, k)
        BY <2>4, NewShare
      <3>2. /\ p = package[s] /\ e.payload.nonce = nonces[s][k]
            /\ e.seat = k /\ e.topic = Topic(s, input[s])
        BY <3>1 DEF ShareEnvelope, Envelope, Share
      <3>3. /\ k \in Committed(p) /\ p.commitments[k] = nonces[s][k]
            /\ p.message = input[s] /\ phase[s] = "round2"
        BY <3>1, <3>2 DEF Sign, InRound2, FrostAccepts, DisplayAndAck, Sighash
      <3>4. \A j \in Committed(p) : CommittedOn(e.topic, j, p.commitments[j])
        BY <3>2, <3>3 DEF OutcomeInv, SessionInv, SoundOf, Built
      <3>5. CommittedOn(e.topic, e.seat, e.payload.nonce)
        BY <3>2, <3>3, <3>4
      <3>6. p.message = e.topic[2]
        BY <3>2, <3>3 DEF Topic
      <3>7. QED
        BY <2>2, <3>4, <3>5, <3>6
    <2>5. QED
      BY <2>3, <2>4
  <1>3. QED
    BY <1>1, <1>2, OutcomeInvariant, TypeInvariant, PTL DEF Spec

\* A run that returned a transaction has signed all of its inputs (the loop of
\* run attaches one signature after the other and leaves at the first error).
THEOREM SuccessIsComplete == Spec => []SuccessSignsEveryInput
  <1>1. OutcomeInv => SuccessSignsEveryInput
    BY DEF OutcomeInv, SessionInv, SignedOf, SuccessSignsEveryInput
  <1>2. QED
    BY <1>1, OutcomeInvariant, PTL

\* Honest seats see a frost error or are blamed only where a session was called
\* twice, whatever other sessions do on the board (run makes no check of that;
\* new_session_on_abort prescribes a fresh id).
THEOREM FirstAttemptSucceeds == Spec => []OnlyReuseFails
  <1>1. TypeInv /\ OutcomeInv => OnlyReuseFails
    <2> SUFFICES ASSUME TypeInv, OutcomeInv, Enough, NEW s \in Sessions,
                        outcome[s].kind \in {"frost", "culprits"}
                 PROVE  attempts[s] > 1
      BY DEF OnlyReuseFails, Enough
    <2>1. ~(attempts[s] <= 1)
      BY DEF OutcomeInv, SessionInv, FirstOf
    <2>2. attempts[s] \in Nat
      BY DEF TypeInv, TypeOK
    <2>3. QED
      BY <2>1, <2>2
  <1>2. QED
    BY <1>1, OutcomeInvariant, TypeInvariant, PTL
-----------------------------------------------------------------------------
(* The nonces and NonceLedger *)

Issued == {e.payload : e \in Commitments}
Live == UNION {HeldNonces(s) : s \in Sessions}
Made == {<<e.payload.nonce, e.payload.package>> : e \in Shares}

\* A published commitment was drawn by its session.
IssuedInv == \A n \in Issued : Drawn(n.session, n)

LEMMA IssuedType ==
    ASSUME TypeInv, NEW n \in Issued
    PROVE  n \in Nonce
  BY CommitmentType DEF Issued, CommitmentEnvelopes

\* A nonce is live where some place in memory holds it.
LEMMA LiveMeans ==
    ASSUME TypeInv, NEW n
    PROVE  n \in Live <=>
             /\ n # NoNonce
             /\ \E s \in Sessions : \E k \in Seats :
                    nonces[s][k] = n \/ (kept[s] # NoRound1 /\ kept[s].nonces[k] = n)
  <1>1. \A s \in Sessions : n \in HeldNonces(s) <=>
           /\ n # NoNonce
           /\ \E k \in Seats :
                  nonces[s][k] = n \/ (kept[s] # NoRound1 /\ kept[s].nonces[k] = n)
    BY DEF HeldNonces
  <1>2. QED
    BY <1>1 DEF Live

\* A step that publishes neither a commitment nor a share issues and makes
\* nothing, and no place in memory gets a nonce it did not hold.
Quiet ==
    /\ Commitments' = Commitments /\ Shares' = Shares /\ draws' = draws
    /\ \A s \in Sessions :
          \/ nonces'[s] = nonces[s] \/ nonces'[s] = [k \in Seats |-> NoNonce]
          \/ kept[s] # NoRound1 /\ nonces'[s] = kept[s].nonces
    /\ \A s \in Sessions :
          \/ kept'[s] = kept[s] \/ kept'[s] = NoRound1
          \/ kept'[s].nonces = nonces[s]

LEMMA StepKinds ==
    ASSUME TypeInv, [Next]_vars
    PROVE  \/ \E s \in Sessions : \E k \in Seats : Commit(s, k)
           \/ \E s \in Sessions : \E k \in Seats : Sign(s, k)
           \/ Quiet
  <1>1. ASSUME NEW s \in Sessions, NEW result, Return(s, result),
               UNCHANGED <<board, draws>>,
               kept' = kept \/ \E p : kept' = [kept EXCEPT ![s] =
                  [nonces |-> nonces[s], package |-> p]]
        PROVE  Quiet
    BY <1>1 DEF Quiet, Return, Commitments, Shares, TypeInv, TypeOK
  <1>2. ASSUME UNCHANGED <<board, draws, nonces, kept>> PROVE Quiet
    BY <1>2 DEF Quiet, Commitments, Shares
  <1>3. ASSUME NEW s \in Sessions, LivenessSelect(s), UNCHANGED <<draws, nonces, kept>>
        PROVE  Quiet
    <2>1. Commitments' = Commitments /\ Shares' = Shares
      BY <1>3 DEF LivenessSelect, LiveAcks, Envelope, Commitments, Shares
    <2>2. QED
      BY <1>3, <2>1 DEF Quiet
  <1>4. ASSUME NEW s \in Sessions, BuildPackage(s) PROVE Quiet
    BY <1>1, <1>2, <1>4 DEF BuildPackage
  <1>5. ASSUME NEW s \in Sessions, AggregateFails(s) PROVE Quiet
    BY <1>1, <1>5 DEF AggregateFails
  <1>6. ASSUME NEW s \in Sessions, Aggregate(s) PROVE Quiet
    BY <1>1, <1>2, <1>6 DEF Aggregate
  <1>7. ASSUME NEW s \in Sessions, NEW k \in Seats, RefuseAtGate(s, k) \/ SignFails(s, k)
        PROVE  Quiet
    BY <1>1, <1>7 DEF RefuseAtGate, SignFails
  <1>8. ASSUME NEW s \in Sessions, NEW ack \in BOOLEAN, NEW i \in Inputs, CallRound2(s, ack, i)
        PROVE  Quiet
    BY <1>8 DEF CallRound2, Quiet, Commitments, Shares, TypeInv, TypeOK
  <1>9. ASSUME NEW s \in Sessions, DropRound1(s) PROVE Quiet
    BY <1>9 DEF DropRound1, Quiet, Commitments, Shares, TypeInv, TypeOK
  <1>10. ASSUME NEW s \in Sessions, Caller(s) PROVE Quiet
    BY <1>2, <1>3, <1>8, <1>9, <1>10 DEF Caller, StartRun, StartRound1, RefuseSpent
  <1>11. CASE UNCHANGED vars
    BY <1>2, <1>11 DEF vars
  <1>12. QED
    BY <1>4, <1>5, <1>6, <1>7, <1>10, <1>11 DEF Next, Step

\* Commit issues a nonce that was never issued before.
LEMMA CommitIssues ==
    ASSUME TypeInv, OutcomeInv, IssuedInv, NEW s \in Sessions, NEW k \in Seats, Commit(s, k)
    PROVE  LET n == FreshNonce(s, k)
           IN  /\ n \notin Issued /\ Issued' = Issued \union {n}
               /\ Live' = Live \union {n} /\ Made' = Made /\ IssuedInv'
  <1> DEFINE n == FreshNonce(s, k)
             e == Envelope("Commitments", Topic(s, input[s]), 1, k, Broadcast, n)
  <1>1. /\ board' = board \union {e} /\ e.class = "Commitments" /\ e.payload = n
    BY PublishEffect DEF Commit, Envelope, TypeInv, TypeOK
  <1>2. /\ draws[s] \in Nat /\ draws'[s] = draws[s] + 1
        /\ \A r \in Sessions : draws[r] \in Nat /\ draws'[r] \in Nat /\ draws[r] <= draws'[r]
    BY DEF Commit, TypeInv, TypeOK
  <1>3. n \in Nonce /\ n # NoNonce /\ n.session = s /\ n.serial = draws[s] + 1
    BY <1>2, SentinelAssumption DEF FreshNonce, Nonce
  <1>4. /\ phase[s] = "round1" /\ k \in pending[s] /\ kept' = kept
        /\ nonces'[s][k] = n /\ \A j \in Seats \ {k} : nonces'[s][j] = nonces[s][j]
        /\ \A r \in Sessions \ {s} : nonces'[r] = nonces[r]
    BY DEF Commit, Least, TypeInv, TypeOK
  <1> HIDE DEF e, n
  <1>5. Commitments' = Commitments \union {e} /\ Shares' = Shares
    BY <1>1 DEF Commitments, Shares
  <1>6. n \notin Issued
    BY <1>2, <1>3 DEF IssuedInv, Drawn
  <1>7. Issued' = Issued \union {n}
    BY <1>1, <1>5 DEF Issued
  <1>8. Made' = Made
    BY <1>5 DEF Made
  <1>9. nonces[s][k] = NoNonce
    BY <1>4 DEF OutcomeInv, SessionInv, HoldOf, Holders
  <1>10. ASSUME NEW m PROVE m \in Live' <=> m \in Live \/ m = n
    <2>1. m \in Live' <=>
            /\ m # NoNonce
            /\ \E r \in Sessions : \E j \in Seats :
                  nonces'[r][j] = m \/ (kept[r] # NoRound1 /\ kept[r].nonces[j] = m)
      BY <1>4 DEF Live, HeldNonces
    <2>2. QED
      BY <1>3, <1>4, <1>9, <2>1, LiveMeans
  <1>11. IssuedInv'
    <2> SUFFICES ASSUME NEW m \in Issued' PROVE m.serial <= draws'[m.session]
      BY DEF IssuedInv, Drawn
    <2>1. CASE m = n
      BY <1>2, <1>3, <2>1
    <2>2. CASE m \in Issued
      <3>1. m.serial <= draws[m.session] /\ m.session \in Sessions /\ m.serial \in Nat
        BY <2>2, IssuedType DEF IssuedInv, Drawn, Nonce
      <3>2. QED
        BY <1>2, <3>1
    <2>3. QED
      BY <1>7, <2>1, <2>2
  <1>12. QED
    BY <1>6, <1>7, <1>8, <1>10, <1>11 DEF n

\* Sign takes the nonce of its share out of memory.
LEMMA SignMakes ==
    ASSUME TypeInv, NonceInv, NEW s \in Sessions, NEW k \in Seats, Sign(s, k)
    PROVE  LET n == nonces[s][k]
           IN  /\ n \in Live /\ Live' = Live \ {n}
               /\ Made' = Made \union {<<n, package[s]>>} /\ Issued' = Issued
  <1> DEFINE n == nonces[s][k]
             e == ShareEnvelope(s, k)
  <1>1. /\ board' = board \union {e} /\ e.class = "SignatureShare"
        /\ e.payload.nonce = n /\ e.payload.package = package[s]
    BY PublishEffect DEF Sign, PublishShare, ShareEnvelope, Envelope, Share, TypeInv, TypeOK
  <1>2. package[s] \in Package
    BY DEF Sign, InRound2, TypeInv, TypeOK
  <1>3. n # NoNonce
    BY <1>2 DEF Sign, FrostAccepts, Committed
  <1>4. /\ kept' = kept
        /\ nonces'[s][k] = NoNonce /\ \A j \in Seats \ {k} : nonces'[s][j] = nonces[s][j]
        /\ \A r \in Sessions \ {s} : nonces'[r] = nonces[r]
    BY DEF Sign, TypeInv, TypeOK
  <1>5. n \in Live
    BY <1>3, LiveMeans
  <1>6. Drawn(s, n)
    BY <1>3 DEF NonceInv, NoncesDrawn
  \* No other place in memory holds it.
  <1>7. ASSUME NEW r \in Sessions, NEW j \in Seats
        PROVE  /\ nonces[r][j] = n => r = s /\ j = k
               /\ kept[r] # NoRound1 => kept[r].nonces[j] # n
    <2>1. CASE r = s
      BY <1>3, <2>1 DEF NonceInv, NoncesApart
    <2>2. CASE r # s
      BY <1>3, <1>6, <2>2 DEF NonceInv, NoncesDrawn, Drawn
    <2>3. QED
      BY <2>1, <2>2
  <1> HIDE DEF e
  <1>8. Commitments' = Commitments /\ Shares' = Shares \union {e}
    BY <1>1 DEF Commitments, Shares
  <1>9. Made' = Made \union {<<n, package[s]>>}
    BY <1>1, <1>8 DEF Made
  <1>10. Issued' = Issued
    BY <1>8 DEF Issued
  <1>11. ASSUME NEW m PROVE m \in Live' <=> m \in Live /\ m # n
    <2>1. m \in Live' <=>
            /\ m # NoNonce
            /\ \E r \in Sessions : \E j \in Seats :
                  nonces'[r][j] = m \/ (kept[r] # NoRound1 /\ kept[r].nonces[j] = m)
      BY <1>4 DEF Live, HeldNonces
    <2>2. QED
      BY <1>3, <1>4, <1>7, <2>1, LiveMeans
  <1>12. QED
    BY <1>5, <1>9, <1>10, <1>11

\* All other steps issue and make nothing, and at most drop nonces.
LEMMA QuietDrops ==
    ASSUME TypeInv, TypeInv', IssuedInv, Quiet
    PROVE  Issued' = Issued /\ Made' = Made /\ Live' \subseteq Live /\ IssuedInv'
  <1>1. Issued' = Issued /\ Made' = Made
    BY DEF Quiet, Issued, Made
  <1>2. ASSUME NEW n \in Live' PROVE n \in Live
    <2>1. PICK s \in Sessions, k \in Seats :
             /\ n # NoNonce
             /\ nonces'[s][k] = n \/ (kept'[s] # NoRound1 /\ kept'[s].nonces[k] = n)
      BY <1>2 DEF Live, HeldNonces
    <2>2. nonces[s][k] = n \/ (kept[s] # NoRound1 /\ kept[s].nonces[k] = n)
      BY <2>1 DEF Quiet
    <2>3. QED
      BY <2>1, <2>2, LiveMeans
  <1>3. IssuedInv'
    BY <1>1 DEF Quiet, IssuedInv, Drawn
  <1>4. QED
    BY <1>1, <1>2, <1>3

LEMMA NextLedger ==
    ASSUME TypeInv, TypeInv', OutcomeInv, NonceInv, IssuedInv, [Next]_vars
    PROVE  IssuedInv' /\ [Ledger!LedgerNext]_(Ledger!ledgerVars)
  <1>1. ASSUME NEW s \in Sessions, NEW k \in Seats, Commit(s, k)
        PROVE  IssuedInv' /\ \E n \in Issued' : Ledger!Issue(n)
    BY <1>1, CommitIssues DEF Ledger!Issue, Issued, Live, Made, Commitments
  <1>2. ASSUME NEW s \in Sessions, NEW k \in Seats, Sign(s, k)
        PROVE  IssuedInv' /\ \E n \in Live : Ledger!MakeShare(n)
    <2> DEFINE n == nonces[s][k]
    <2>1. /\ n \in Live /\ Live' = Live \ {n}
          /\ Made' = Made \union {<<n, package[s]>>} /\ Issued' = Issued
      BY <1>2, SignMakes
    <2> HIDE DEF n
    <2>2. \E share \in Made' : share[1] = n /\ Made' = Made \union {share}
      BY <2>1
    <2>3. Ledger!MakeShare(n)
      BY <2>1, <2>2 DEF Ledger!MakeShare, Issued, Live, Made, Commitments
    <2>4. IssuedInv'
      BY <1>2, <2>1 DEF IssuedInv, Drawn, Sign
    <2>5. QED
      BY <2>1, <2>3, <2>4 DEF Ledger!MakeShare
  <1>3. CASE Quiet
    <2> DEFINE dropped == Live \ Live'
    <2>1. Issued' = Issued /\ Made' = Made /\ Live' \subseteq Live /\ IssuedInv'
      BY <1>3, QuietDrops
    <2>2. dropped \in SUBSET Live /\ Live' = Live \ dropped
      BY <2>1
    <2> HIDE DEF dropped
    <2>3. Ledger!Drop(dropped)
      BY <2>1, <2>2 DEF Ledger!Drop, Issued, Live, Made, Commitments
    <2>4. QED
      BY <2>1, <2>2, <2>3 DEF Ledger!LedgerNext, Live
  <1>4. QED
    BY <1>1, <1>2, <1>3, StepKinds DEF Ledger!LedgerNext, Issued, Live, Commitments

\* SIGN-05, SIGN-06: a nonce is issued once, lives in one place of memory, and
\* leaves it by making one share or by being dropped, whatever is called
\* (commit draws afresh, sign takes the nonces by value, round2 the Round1).
THEOREM KeepsLedger == Spec => ImplementsLedger
  <1>1. Init => Ledger!LedgerInit /\ IssuedInv
    BY DEF Init, TransportInit, Ledger!LedgerInit, HeldNonces, Shares, IssuedInv,
           Issued, Commitments
  <1>2. QED
    BY <1>1, NextLedger, TypeInvariant, OutcomeInvariant, NonceInvariant, PTL
       DEF Spec, ImplementsLedger, Ledger!LedgerSpec
-----------------------------------------------------------------------------
(* A call comes to its end: every step of its own leaves less to do. *)

LEMMA SeatsFinite ==
    ASSUME NEW S \in SUBSET Seats
    PROVE  IsFiniteSet(S) /\ Cardinality(S) \in Nat /\ Cardinality(S) <= N
  <1>1. N \in Nat
    BY RosterAssumption
  <1>2. IsFiniteSet(Seats) /\ Cardinality(Seats) = N
    BY <1>1, CardUpTo, FS_Interval DEF Seats
  <1>3. QED
    BY <1>2, FS_Subset, FS_CardinalityType

\* The rounds of m more inputs, of w steps each.
LEMMA InputsLeft ==
    ASSUME NEW m \in Nat, NEW w \in Nat, NEW i \in 1 .. m
    PROVE  /\ (m - i) * w \in Nat
           /\ i < m => (m - (i + 1)) * w + w = (m - i) * w
  <1> DEFINE d == m - i
  <1>1. d \in Nat /\ (i < m => d - 1 \in Nat /\ m - (i + 1) = d - 1)
    OBVIOUS
  <1> HIDE DEF d
  <1>2. d * w \in Nat
    BY <1>1
  <1>3. d - 1 \in Nat => (d - 1) * w + w = d * w
    BY <1>1
  <1>4. QED
    BY <1>1, <1>2, <1>3 DEF d

\* The parts of what is left, and what a step may do to them.
RoundLeft(s) == IF phase[s] = "round1" THEN N + 1 ELSE 0
Rest(s) == (NumInputs - input[s]) * (2 * N + 2)

LEMMA PartsType ==
    ASSUME TypeInv, NEW s \in Sessions
    PROVE  /\ N \in Nat
           /\ Cardinality(pending[s]) \in Nat /\ Cardinality(pending[s]) <= N
           /\ Cardinality(selected[s]) \in Nat /\ Cardinality(selected[s]) <= N
           /\ Cardinality(Holders(nonces[s])) \in Nat /\ Cardinality(Holders(nonces[s])) <= N
           /\ IsFiniteSet(pending[s])
           /\ Rest(s) \in Nat
           /\ input[s] < NumInputs =>
                (NumInputs - (input[s] + 1)) * (2 * N + 2) + 2 * N + 2 = Rest(s)
           /\ (NumInputs - input[s]) * (2 * N + 2) = Rest(s)
  <1>1. N \in Nat /\ NumInputs \in Nat /\ 2 * N + 2 \in Nat
    BY RosterAssumption, PsbtAssumption
  <1>2. /\ pending[s] \in SUBSET Seats /\ selected[s] \in SUBSET Seats
        /\ Holders(nonces[s]) \in SUBSET Seats
        /\ input[s] \in 1 .. NumInputs
    BY DEF TypeInv, TypeOK, Inputs, Holders
  <1> DEFINE w == 2 * N + 2
  <1>3. w \in Nat /\ w = 2 * N + 2
    BY <1>1
  <1>4. \A x \in Int : x + w = x + 2 * N + 2
    BY <1>1
  <1> HIDE DEF w
  <1>5. /\ (NumInputs - input[s]) * w \in Nat
        /\ input[s] < NumInputs =>
             (NumInputs - (input[s] + 1)) * w + w = (NumInputs - input[s]) * w
    BY <1>1, <1>2, <1>3, InputsLeft
  <1>6. input[s] < NumInputs => (NumInputs - (input[s] + 1)) * w \in Int
    <2> DEFINE d == NumInputs - (input[s] + 1)
    <2>1. d \in Int
      BY <1>1, <1>2
    <2> HIDE DEF d
    <2>2. d * w \in Int
      BY <1>3, <2>1
    <2>3. QED
      BY <2>2 DEF d
  <1>7. Rest(s) = (NumInputs - input[s]) * w
    BY DEF Rest, w
  <1>8. input[s] < NumInputs => (NumInputs - (input[s] + 1)) * w + 2 * N + 2 = Rest(s)
    <2> DEFINE x == (NumInputs - (input[s] + 1)) * w
    <2>1. input[s] < NumInputs => x \in Int /\ x + w = Rest(s)
      BY <1>5, <1>6, <1>7
    <2> HIDE DEF x
    <2>2. input[s] < NumInputs => x + 2 * N + 2 = Rest(s)
      BY <1>4, <2>1
    <2>3. QED
      BY <2>2 DEF x
  <1>9. QED
    BY <1>1, <1>2, <1>5, <1>7, <1>8, SeatsFinite DEF w

\* A step of a session leaves it less to do.
LEMMA StepRunsDown ==
    ASSUME TypeInv, NEW s \in Sessions, phase[s] # "idle", Step(s)
    PROVE  WorkLeft(s)' \in Nat /\ WorkLeft(s)' < WorkLeft(s)
  <1> DEFINE c == Cardinality(pending[s])
             r == RoundLeft(s)
             x == Rest(s)
  <1>1. /\ N \in Nat /\ c \in Nat /\ c <= N /\ x \in Nat
        /\ r \in Nat
        /\ phase[s] \in {"round1", "round2"}
    BY PartsType DEF RoundLeft, TypeInv, TypeOK
  <1>2. WorkLeft(s) = 1 + c + r + x
    BY DEF WorkLeft, RoundLeft, Rest
  <1>3. WorkLeft(s) \in Nat /\ WorkLeft(s) >= 1
    <2> HIDE DEF c, r, x
    <2>1. QED
      BY <1>1, <1>2
  <1>4. ASSUME phase'[s] = "idle" PROVE WorkLeft(s)' \in Nat /\ WorkLeft(s)' < WorkLeft(s)
    <2>1. WorkLeft(s)' = 0
      BY <1>4 DEF WorkLeft
    <2>2. QED
      BY <1>3, <2>1
  <1>5. ASSUME NEW result, Return(s, result) PROVE phase'[s] = "idle"
    BY <1>5 DEF Return, TypeInv, TypeOK
  <1>6. ASSUME NEW k \in Seats, k \in pending[s], UNCHANGED <<phase, input>>,
               pending' = [pending EXCEPT ![s] = @ \ {k}]
        PROVE  WorkLeft(s)' \in Nat /\ WorkLeft(s)' < WorkLeft(s)
    <2> DEFINE d == Cardinality(pending'[s])
    <2>1. pending'[s] = pending[s] \ {k}
      BY <1>6 DEF TypeInv, TypeOK
    <2>2. d = c - 1
      BY <1>6, <2>1, PartsType, FS_RemoveElement
    <2>3. d \in Nat
      <3>1. pending'[s] \in SUBSET Seats
        BY <2>1 DEF TypeInv, TypeOK
      <3>2. QED
        BY <3>1, SeatsFinite
    <2>4. WorkLeft(s)' = 1 + d + r + x
      BY <1>6 DEF WorkLeft, RoundLeft, Rest
    <2> HIDE DEF c, d, r, x
    <2>5. QED
      BY <1>1, <1>2, <2>2, <2>3, <2>4
  <1>7. ASSUME NEW k \in Seats, Commit(s, k)
        PROVE  WorkLeft(s)' \in Nat /\ WorkLeft(s)' < WorkLeft(s)
    BY <1>6, <1>7 DEF Commit, Least
  <1>8. ASSUME NEW k \in Seats, Sign(s, k)
        PROVE  WorkLeft(s)' \in Nat /\ WorkLeft(s)' < WorkLeft(s)
    BY <1>6, <1>8 DEF Sign, InRound2, Least
  <1>9. ASSUME NEW k \in Seats, RefuseAtGate(s, k) \/ SignFails(s, k)
        PROVE  WorkLeft(s)' \in Nat /\ WorkLeft(s)' < WorkLeft(s)
    BY <1>4, <1>5, <1>9 DEF RefuseAtGate, SignFails
  <1>10. CASE AggregateFails(s)
    BY <1>4, <1>5, <1>10 DEF AggregateFails
  <1>11. CASE BuildPackage(s)
    <2>1. CASE call[s] = "api"
      <3>1. Return(s, Returned("kept"))
        BY <1>11, <2>1 DEF BuildPackage
      <3>2. QED
        BY <1>4, <1>5, <3>1
    <2>2. CASE call[s] # "api"
      <3> DEFINE d == Cardinality(Holders(nonces[s]))
      <3>1. /\ phase[s] = "round1" /\ phase' = [phase EXCEPT ![s] = "round2"]
            /\ pending' = [pending EXCEPT ![s] = Holders(nonces[s])]
            /\ input' = input
        BY <1>11, <2>2 DEF BuildPackage
      <3>2. phase'[s] = "round2" /\ pending'[s] = Holders(nonces[s])
        BY <3>1 DEF TypeInv, TypeOK
      <3>3. d \in Nat /\ d <= N
        BY PartsType
      <3>4. WorkLeft(s)' = 1 + d + 0 + x
        BY <3>1, <3>2 DEF WorkLeft, Rest
      <3>5. r = N + 1
        BY <3>1 DEF RoundLeft
      <3> HIDE DEF c, d, r, x
      <3>6. QED
        BY <1>1, <1>2, <3>3, <3>4, <3>5
    <2>3. QED
      BY <2>1, <2>2
  <1>12. CASE Aggregate(s)
    <2>1. CASE \E result : Return(s, result)
      BY <1>4, <1>5, <2>1
    <2>2. CASE ~\E result : Return(s, result)
      <3> DEFINE d == Cardinality(selected[s])
                 y == (NumInputs - (input[s] + 1)) * (2 * N + 2)
      <3>1. /\ phase' = [phase EXCEPT ![s] = "round1"]
            /\ input' = [input EXCEPT ![s] = @ + 1] /\ input[s] < NumInputs
            /\ pending' = [pending EXCEPT ![s] = selected[s]]
        BY <1>12, <2>2 DEF Aggregate, MoreInputs
      <3>2. /\ phase'[s] = "round1" /\ pending'[s] = selected[s]
            /\ input'[s] = input[s] + 1
        BY <3>1 DEF TypeInv, TypeOK
      <3>3. /\ d \in Nat /\ d <= N
            /\ y + 2 * N + 2 = x
        BY <3>1, PartsType
      <3>4. WorkLeft(s)' = 1 + d + (N + 1) + y
        BY <3>2 DEF WorkLeft
      <3>5. y \in Nat
        <4>1. /\ NumInputs \in Nat /\ 2 * N + 2 \in Nat
              /\ input[s] + 1 \in 1 .. NumInputs
          BY <1>1, <3>1, PsbtAssumption DEF TypeInv, TypeOK, Inputs
        <4>2. QED
          BY <4>1, InputsLeft
      <3> HIDE DEF c, d, r, x, y
      <3>6. QED
        BY <1>1, <1>2, <3>3, <3>4, <3>5
    <2>3. QED
      BY <2>1, <2>2
  <1>13. QED
    BY <1>7, <1>8, <1>9, <1>10, <1>11, <1>12 DEF Step

\* Once entered, a call takes at most as many steps as it has work left, whatever
\* the other sessions put on the board (the loops of run, round1 and round2 are
\* over sets and inputs fixed on entry).
THEOREM CallsEnd == Spec => CallsRunDown
  <1> DEFINE Down == \A s \in Sessions : phase[s] # "idle" =>
                       \/ WorkLeft(s)' \in Nat /\ WorkLeft(s)' < WorkLeft(s)
                       \/ UNCHANGED <<phase[s], call[s], yes[s], input[s], selected[s], pending[s],
                                      nonces[s], package[s], witness[s], outcome[s]>>
  <1>1. ASSUME TypeInv, Next PROVE Down
    <2> SUFFICES ASSUME NEW r \in Sessions, phase[r] # "idle"
                 PROVE  \/ WorkLeft(r)' \in Nat /\ WorkLeft(r)' < WorkLeft(r)
                        \/ UNCHANGED <<phase[r], call[r], yes[r], input[r], selected[r], pending[r],
                                       nonces[r], package[r], witness[r], outcome[r]>>
      OBVIOUS
    <2>1. PICK s \in Sessions : Step(s) \/ Caller(s)
      BY <1>1 DEF Next
    <2>2. CASE s = r
      <3>1. ~Caller(r)
        BY DEF Caller, StartRun, CallRound2, RefuseSpent, StartRound1, DropRound1, CanCall
      <3>2. QED
        BY <1>1, <2>1, <2>2, <3>1, StepRunsDown
    <2>3. CASE s # r
      BY <1>1, <2>1, <2>3, OthersUntouched DEF Untouched
    <2>4. QED
      BY <2>2, <2>3
  <1> HIDE DEF Down
  <1>2. TypeInv /\ [Next]_vars => [Down]_vars
    BY <1>1
  <1>3. Spec => [][Down]_vars
    BY <1>2, TypeInvariant, PTL DEF Spec
  <1>4. QED
    BY <1>3 DEF Down, CallsRunDown
=============================================================================
