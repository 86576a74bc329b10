---------------------------- MODULE FeeEstimates -----------------------------
(***************************************************************************)
(* What the two chain backends (src/src/chain/core_rpc.rs,                    *)
(* src/src/chain/esplora.rs) make of their node's fee estimates: Core's, in    *)
(* satoshis per 1000 bytes, is turned into a rate, and one of Esplora's is     *)
(* picked for a target.  What the nodes estimate is external.                 *)
(***************************************************************************)
EXTENDS Integers, FiniteSets

CONSTANTS
    Buckets,    \* the targets, in blocks, that Esplora may have an estimate for
    Rates,      \* Esplora's rates
    CoreRates,  \* Core's rates, in sat/kvB
    Targets     \* the targets asked for

ASSUME FeeAssumption ==
    /\ Buckets \subseteq Nat /\ Rates \subseteq Nat \ {0} /\ CoreRates \subseteq Nat
    /\ Targets \subseteq Nat

NoEstimate == -1

\* A FeeRate counts satoshis per 1000 weight units, of which a byte has 4.
FromSatPerVb(rate) == rate * 250

\* btc_per_kvb.to_sat() / 1000
Convert(kvb) == FromSatPerVb(kvb \div 1000)

Available(estimates) == {k \in Buckets : estimates[k] # NoEstimate}
Coarsest(S) == CHOOSE k \in S : \A j \in S : j <= k
Finest(S) == CHOOSE k \in S : \A j \in S : k <= j

\* A mutant: the target's own bucket does not qualify.
PickBelow(estimates, target) ==
    LET available == Available(estimates)
        qualify == {k \in available : k < target}
    IN  IF available = {} THEN NoEstimate
        ELSE estimates[IF qualify = {} THEN Finest(available) ELSE Coarsest(qualify)]

\* pick_fee
PickFee(estimates, target) ==
    LET available == Available(estimates)
        qualify == {k \in available : k <= target}
    IN  IF available = {} THEN NoEstimate
        ELSE estimates[IF qualify = {} THEN Finest(available) ELSE Coarsest(qualify)]
-----------------------------------------------------------------------------
\* A fee market: who waits longer pays no more.
IsMarket(estimates) ==
    \A j, k \in Available(estimates) : j <= k => estimates[j] >= estimates[k]

\* The cheapest rate that the estimates promise within the target or sooner; if
\* all are for later, none is dearer.
CheapestInTime(estimates, target, rate) ==
    LET available == Available(estimates)
        inTime == {k \in available : k <= target} IN
    /\ rate = NoEstimate <=> available = {}
    /\ \A k \in inTime : rate <= estimates[k]
    /\ inTime # {} => \E k \in inTime : rate = estimates[k]
    /\ inTime = {} => \A k \in available : estimates[k] <= rate

\* A rate, four of whose units are a sat/kvB, that leaves out less than one
\* sat/vB and adds nothing.
WithinOneSat(kvb, rate) == 4 * rate <= kvb /\ kvb < 4 * rate + 1000
=============================================================================
