---------------------------- MODULE NonceLedger -----------------------------
(***************************************************************************)
(* What SIGN-05 and SIGN-06 promise of signing nonces, whatever the number   *)
(* of sessions, retries and aborts: a nonce is issued once, lives in memory, *)
(* and leaves it either by making one share or by being dropped.  There is   *)
(* no way back to life.                                                      *)
(***************************************************************************)
VARIABLES
    issued,     \* the nonces whose commitment is public
    live,       \* those some seat can still sign with
    shares      \* <<nonce, package>>: the signature shares made

ledgerVars == <<issued, live, shares>>

LedgerInit == issued = {} /\ live = {} /\ shares = {}

Issue(n) ==
    /\ n \notin issued
    /\ issued' = issued \union {n}
    /\ live' = live \union {n}
    /\ UNCHANGED shares

\* What the nonce signs is left open: any one pair that names it.
MakeShare(n) ==
    /\ n \in live
    /\ live' = live \ {n}
    /\ \E share \in shares' : share[1] = n /\ shares' = shares \union {share}
    /\ UNCHANGED issued

Drop(dropped) ==
    /\ dropped \subseteq live
    /\ live' = live \ dropped
    /\ UNCHANGED <<issued, shares>>

LedgerNext ==
    \/ \E n \in issued' : Issue(n)
    \/ \E n \in live : MakeShare(n)
    \/ \E dropped \in SUBSET live : Drop(dropped)

LedgerSpec == LedgerInit /\ [][LedgerNext]_ledgerVars
=============================================================================
