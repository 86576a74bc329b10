----------------------------- MODULE InprocessDkg ---------------------------
(***************************************************************************)
(* run_inprocess_dkg_with_rng (src/src/crypto/keygen.rs): round 1 seat after *)
(* seat, rounds 2 and 3 spread over a thread pool, and the confirmation of    *)
(* the group key.                                                            *)
(*                                                                           *)
(* rayon splits the seats of a round into leaves of consecutive seats.  The   *)
(* seats of a leaf are worked through in order and share one clone of the     *)
(* round-1 packages: a seat takes its own package out of that pool, calls the *)
(* primitive with the rest, and puts it back only if the call succeeded.      *)
(* Leaves run in parallel.                                                   *)
(*                                                                           *)
(* The primitives are frost's.  Which calls fail by themselves, and which     *)
(* group key a seat computes, is given: `fault' and `key'.                    *)
(***************************************************************************)
EXTENDS Integers, FiniteSets

CONSTANTS
    NumSeats,
    MaxFaults,      \* bound on the calls that fail by themselves
    GroupKeys       \* the group keys seats may compute

ASSUME DkgAssumption == NumSeats \in Nat \ {0} /\ MaxFaults \in Nat /\ GroupKeys # {}

Seats == 1 .. NumSeats

VARIABLES
    fault,      \* the calls <<round, seat>> that fail by themselves
    key,        \* the group key each seat computes
    round,      \* 1, 2 or 3; 4 when the function has returned
    turn,       \* round 1: the seat whose turn it is
    leaf,       \* the first seat of the leaf each seat is in
    pool,       \* each leaf's clone of the round-1 packages
    result,     \* of each seat's call in this round
    sent,       \* round 2: the seats a seat has made a package for
    outcome     \* what the function returned

vars == <<fault, key, round, turn, leaf, pool, result, sent, outcome>>

Splits == {split \in [Seats -> Seats] :
              \A i \in Seats : split[i] = i \/ (i > 1 /\ split[i] = split[i - 1])}

Running == [kind |-> "running", seat |-> 0]
Success == [kind |-> "ok", seat |-> 0]
Failure(kind, i) == [kind |-> kind, seat |-> i]

Fresh == [i \in Seats |-> "none"]
FullPools == [i \in Seats |-> Seats]

Init ==
    /\ fault \in {f \in SUBSET ((1 .. 3) \X Seats) : Cardinality(f) <= MaxFaults}
    /\ key \in [Seats -> GroupKeys]
    /\ round = 1
    /\ turn = 1
    /\ leaf = [i \in Seats |-> i]
    /\ pool = FullPools
    /\ result = Fresh
    /\ sent = [i \in Seats |-> {}]
    /\ outcome = Running

\* into_par_iter().map_with(r1_pkgs.clone(), ..): a parallel round begins.
Spread ==
    /\ leaf' \in Splits
    /\ pool' = FullPools
    /\ result' = Fresh

Return(o) == round' = 4 /\ outcome' = o

\* A mutant: the loop runs to n + 1.
PastLastTurn == turn > NumSeats

LastTurn == turn = NumSeats

\* The loop of round 1; its first error is returned.
Part1 ==
    /\ round = 1
    /\ \/ /\ <<1, turn>> \in fault
          /\ Return(Failure("frost", turn))
          /\ UNCHANGED <<turn, leaf, pool, result>>
       \/ /\ <<1, turn>> \notin fault
          /\ ~LastTurn
          /\ turn' = turn + 1
          /\ UNCHANGED <<round, leaf, pool, result, outcome>>
       \/ /\ <<1, turn>> \notin fault
          /\ LastTurn
          /\ round' = 2
          /\ Spread
          /\ UNCHANGED <<turn, outcome>>
    /\ UNCHANGED <<fault, key, sent>>

\* A mutant: a worker gives up at the first failure in its leaf.
ReadyWhileFine(i) ==
    /\ result[i] = "none"
    /\ \A j \in Seats : leaf[j] = leaf[i] /\ j < i => result[j] = "ok"

\* Seat i is the next one of its leaf.
Ready(i) ==
    /\ result[i] = "none"
    /\ \A j \in Seats : leaf[j] = leaf[i] /\ j < i => result[j] # "none"

\* What pool.remove(&id) leaves for seat i.
Others(i) == pool[leaf[i]] \ {i}

\* The round-2 packages made for seat i.
Inbox(i) == {j \in Seats : i \in sent[j]}

\* A mutant: the own package is taken out and never put back.
PutBackNever(i, kind) == Others(i)

\* The `?' after the primitive skips pool.insert(id, self_pkg).
PutBack(i, kind) == IF kind = "ok" THEN Others(i) \union {i} ELSE Others(i)

Finish(i, kind) ==
    /\ result' = [result EXCEPT ![i] = kind]
    /\ pool' = [pool EXCEPT ![leaf[i]] = PutBack(i, kind)]

\* What a call returns: too few packages are refused before anything else.
CallResult(r, i, complete) ==
    IF i \notin pool[leaf[i]] THEN "panic"
    ELSE IF ~complete THEN "count"
    ELSE IF <<r, i>> \in fault THEN "frost"
    ELSE "ok"

Part2(i) ==
    LET kind == CallResult(2, i, Cardinality(Others(i)) = NumSeats - 1)
    IN  /\ round = 2
        /\ Ready(i)
        /\ Finish(i, kind)
        /\ sent' = [sent EXCEPT ![i] = IF kind = "ok" THEN Others(i) ELSE {}]
        /\ UNCHANGED <<fault, key, round, turn, leaf, outcome>>

Part3(i) ==
    LET kind == CallResult(3, i, Cardinality(Others(i)) = NumSeats - 1 /\ Inbox(i) = Others(i))
    IN  /\ round = 3
        /\ Ready(i)
        /\ Finish(i, kind)
        /\ UNCHANGED <<fault, key, round, turn, leaf, sent, outcome>>

AllReturned == \A i \in Seats : result[i] # "none"

Failed == {i \in Seats : result[i] # "ok"}

Least(S) == CHOOSE i \in S : \A j \in S : i <= j

\* A mutant: the error of whichever seat comes to hand.
AnyFailure(S) == CHOOSE i \in S : \A j \in S : j <= i

\* The first `?' in the order of the seats.
Reported(S) == Least(S)

\* The walk over round 2's results, and the packages' way to their recipients.
Resolve2 ==
    /\ round = 2
    /\ AllReturned
    /\ \/ /\ Failed # {}
          /\ Return(Failure(result[Reported(Failed)], Reported(Failed)))
          /\ UNCHANGED <<leaf, pool, result>>
       \/ /\ Failed = {}
          /\ round' = 3
          /\ Spread
          /\ UNCHANGED outcome
    /\ UNCHANGED <<fault, key, turn, sent>>

\* The seats whose group key is not the first seat's.
Mismatched == {i \in Seats : key[i] # key[1]}

\* The walk over round 3's results: a failed call or a group key that differs.
Resolve3 ==
    LET bad == Failed \union Mismatched
        i == Reported(bad)
    IN  /\ round = 3
        /\ AllReturned
        /\ \/ bad = {} /\ Return(Success)
           \/ bad # {} /\ i \in Failed /\ Return(Failure(result[i], i))
           \/ bad # {} /\ i \notin Failed /\ Return(Failure("mismatch", i))
        /\ UNCHANGED <<fault, key, turn, leaf, pool, result, sent>>

Next ==
    \/ Part1
    \/ \E i \in Seats : Part2(i) \/ Part3(i)
    \/ Resolve2
    \/ Resolve3

\* The thread pool runs every leaf to its end, and the caller waits for it.
Spec == Init /\ [][Next]_vars /\ WF_vars(Next)
-----------------------------------------------------------------------------
(* Properties *)

TypeOK ==
    /\ fault \subseteq (1 .. 3) \X Seats
    /\ key \in [Seats -> GroupKeys]
    /\ round \in 1 .. 4
    /\ turn \in Seats
    /\ leaf \in [Seats -> Seats]
    /\ pool \in [Seats -> SUBSET Seats]
    /\ result \in [Seats -> {"none", "ok", "frost", "count", "panic"}]
    /\ sent \in [Seats -> SUBSET Seats]
    /\ outcome \in [kind : {"running", "ok", "frost", "count", "panic", "mismatch"},
                    seat : Seats \union {0}]

Faulty(r) == {i \in Seats : <<r, i>> \in fault}

\* The three rounds one after the other, with no parallelism and no pools: the
\* first round with a failing call reports its first seat.
Sequential ==
    IF Faulty(1) # {} THEN Failure("frost", Least(Faulty(1)))
    ELSE IF Faulty(2) # {} THEN Failure("frost", Least(Faulty(2)))
    ELSE IF Faulty(3) \union Mismatched = {} THEN Success
    ELSE LET i == Least(Faulty(3) \union Mismatched)
         IN  Failure(IF i \in Faulty(3) THEN "frost" ELSE "mismatch", i)

\* However rayon splits and schedules the rounds, the function returns what a
\* sequential run does: a pool that a failed seat left incomplete shows in no
\* result but those behind it, and no `expect' fires.
OutcomeIsSequential == outcome # Running => outcome = Sequential

\* A pool lacks a package only after a call of its leaf has failed: a seat that
\* is told of a wrong number of packages stands behind one that failed by itself.
CountErrorFollowsFault ==
    \A i \in Seats : result[i] \in {"count", "panic"} =>
        \E j \in Seats : j < i /\ leaf[j] = leaf[i] /\ result[j] = "frost"

\* While the function runs, the caller or some leaf has a step to take: no leaf
\* waits for a seat that nobody works at.
NeverStuck ==
    outcome = Running =>
        \/ round = 1
        \/ round \in {2, 3} /\ (AllReturned \/ \E i \in Seats : Ready(i))

Waiting == {i \in Seats : result[i] = "none"}

\* What is left to do: the turns or calls of this round, and the rounds after it.
WorkLeft ==
    (4 - round) * (NumSeats + 1)
      + (IF round = 1 THEN NumSeats - turn
         ELSE IF round = 4 THEN 0 ELSE Cardinality(Waiting))

\* No call is made twice and no round is gone back to: every step leaves less to
\* do, so that the function takes at most as many steps as there is work at first.
WorkShrinks == [][WorkLeft' \in Nat /\ WorkLeft' < WorkLeft]_vars

\* The function returns.
Returns == <>(outcome # Running)
=============================================================================
