------------------------- MODULE InprocessDkg_proofs ------------------------
(***************************************************************************)
(* Machine-checked proofs about InprocessDkg, for every number of seats,     *)
(* every split of a round into leaves and every schedule of the leaves.      *)
(***************************************************************************)
EXTENDS InprocessDkg, FiniteSetTheorems, WellFoundedInduction, TLAPS

\* What a leaf's pool lacks is the packages of its failed seats.
PoolInv ==
    round \in {2, 3} =>
        \A c \in Seats :
            pool[c] = Seats \ {j \in Seats : leaf[j] = c /\ result[j] \notin {"none", "ok"}}

\* A leaf's seats are worked through in order.
OrderInv ==
    \A i, j \in Seats :
        leaf[j] = leaf[i] /\ j < i /\ result[i] # "none" => result[j] # "none"

\* A call fails by itself, or because the pool is incomplete, and then another
\* call of its leaf has failed by itself before it.
ResultInv ==
    /\ \A i \in Seats : result[i] # "panic"
    /\ \A i \in Seats : result[i] = "count" =>
           \E j \in Seats : j < i /\ leaf[j] = leaf[i] /\ result[j] = "frost"
    /\ round \in {2, 3} => \A i \in Seats :
           /\ result[i] = "ok" => <<round, i>> \notin fault
           /\ result[i] = "frost" => <<round, i>> \in fault

\* What the rounds before this one have shown.
StageInv ==
    /\ round = 1 => \A j \in Seats : j < turn => <<1, j>> \notin fault
    /\ round \in {2, 3} => Faulty(1) = {}
    /\ round = 2 => \A i \in Seats : result[i] = "ok" => sent[i] = Seats \ {i}
    /\ round = 3 => Faulty(2) = {} /\ \A i \in Seats : sent[i] = Seats \ {i}

OutcomeInv ==
    /\ round # 4 => outcome = Running
    /\ round = 4 => outcome = Sequential

IInv == TypeOK /\ PoolInv /\ OrderInv /\ ResultInv /\ StageInv /\ OutcomeInv

\* There is a first one among any seats.
LEMMA LeastType ==
    ASSUME NEW S \in SUBSET Seats, S # {}
    PROVE  Least(S) \in S /\ \A j \in S : Least(S) <= j
  <1>1. S \subseteq Nat
    BY DkgAssumption DEF Seats
  <1>2. \E i \in S : \A j \in S : ~(<<j, i>> \in OpToRel(<, Nat))
    BY <1>1, NatLessThanWellFounded, WFMin
  <1>3. \A i, j \in Nat : j < i => <<j, i>> \in OpToRel(<, Nat)
    BY DEF OpToRel
  <1>4. \E i \in S : \A j \in S : i <= j
    <2>1. \E i \in S : \A j \in S : ~(j < i)
      BY <1>1, <1>2, <1>3, Zenon
    <2>2. QED
      BY <1>1, <2>1
  <1>5. QED
    BY <1>4 DEF Least

\* A seat that is in S, with none of S before it, is the first of S.
LEMMA LeastUnique ==
    ASSUME NEW S \in SUBSET Seats, NEW i \in S, \A j \in S : ~(j < i)
    PROVE  Least(S) = i
  <1>1. Least(S) \in S /\ Least(S) <= i
    BY LeastType
  <1>2. ~(Least(S) < i)
    BY <1>1
  <1>3. Least(S) \in Seats /\ i \in Seats
    BY <1>1
  <1>4. Least(S) \in Int /\ i \in Int
    BY <1>3 DEF Seats
  <1>5. QED
    BY <1>1, <1>2, <1>4

\* All seats but one make a complete pool.
LEMMA OthersCount ==
    ASSUME NEW i \in Seats
    PROVE  Cardinality(Seats \ {i}) = NumSeats - 1
  <1>1. IsFiniteSet(Seats) /\ Cardinality(Seats) = NumSeats
    BY DkgAssumption, FS_Interval DEF Seats
  <1>2. QED
    BY <1>1, FS_RemoveElement

LEMMA InitInv == Init => IInv
  <1> SUFFICES ASSUME Init PROVE IInv
    OBVIOUS
  <1>1. NumSeats \in Nat /\ 1 \in Seats
    BY DkgAssumption DEF Seats
  <1>2. TypeOK
    BY <1>1 DEF Init, TypeOK, FullPools, Fresh, Running
  <1>3. PoolInv /\ OrderInv /\ ResultInv /\ OutcomeInv
    BY DEF Init, PoolInv, OrderInv, ResultInv, OutcomeInv, Fresh
  <1>4. StageInv
    BY DEF Init, StageInv, Seats
  <1>5. QED
    BY <1>2, <1>3, <1>4 DEF IInv

\* A call of a parallel round, by the next seat of a leaf.
LEMMA CallStep ==
    ASSUME IInv, round \in {2, 3}, NEW i \in Seats, Ready(i),
           NEW complete \in BOOLEAN,
           complete <=> Others(i) = Seats \ {i},
           Finish(i, CallResult(round, i, complete)),
           UNCHANGED <<fault, round, leaf>>
    PROVE  /\ PoolInv' /\ OrderInv' /\ ResultInv'
           /\ result' \in [Seats -> {"none", "ok", "frost", "count", "panic"}]
           /\ pool' \in [Seats -> SUBSET Seats]
           /\ result'[i] = "ok" => Others(i) = Seats \ {i}
           /\ \A j \in Seats \ {i} : result'[j] = result[j]
  <1> DEFINE kind == CallResult(round, i, complete)
  <1>1. /\ result \in [Seats -> {"none", "ok", "frost", "count", "panic"}]
        /\ pool \in [Seats -> SUBSET Seats]
        /\ leaf \in [Seats -> Seats]
        /\ leaf[i] \in Seats
    BY DEF IInv, TypeOK
  <1>2. result[i] = "none" /\ \A j \in Seats : leaf[j] = leaf[i] /\ j < i => result[j] # "none"
    BY DEF Ready
  <1>3. pool[leaf[i]] = Seats \ {j \in Seats : leaf[j] = leaf[i] /\ result[j] \notin {"none", "ok"}}
    BY <1>1 DEF IInv, PoolInv
  <1>4. i \in pool[leaf[i]]
    BY <1>2, <1>3
  <1>5. kind = IF ~complete THEN "count" ELSE IF <<round, i>> \in fault THEN "frost" ELSE "ok"
    BY <1>4 DEF CallResult
  <1>6. /\ kind \in {"ok", "frost", "count"}
        /\ kind = "count" <=> ~complete
        /\ kind = "frost" => <<round, i>> \in fault
        /\ kind = "ok" => complete /\ <<round, i>> \notin fault
    BY <1>5
  <1>7. /\ result' = [result EXCEPT ![i] = kind]
        /\ pool' = [pool EXCEPT ![leaf[i]] = PutBack(i, kind)]
    BY DEF Finish
  <1>8. result'[i] = kind /\ \A j \in Seats \ {i} : result'[j] = result[j]
    BY <1>1, <1>7
  <1>9. PutBack(i, kind) = IF kind = "ok" THEN pool[leaf[i]] ELSE pool[leaf[i]] \ {i}
    BY <1>4 DEF PutBack, Others
  <1>10. /\ result' \in [Seats -> {"none", "ok", "frost", "count", "panic"}]
         /\ pool' \in [Seats -> SUBSET Seats]
    <2>1. PutBack(i, kind) \in SUBSET Seats
      BY <1>3, <1>9
    <2>2. QED
      BY <1>1, <1>6, <1>7, <2>1
  <1>11. PoolInv'
    <2>1. ASSUME NEW c \in Seats
          PROVE  pool'[c] = Seats \ {j \in Seats : leaf[j] = c /\ result'[j] \notin {"none", "ok"}}
      <3>1. CASE c # leaf[i]
        <4>1. pool'[c] = pool[c]
          BY <1>1, <1>7, <3>1
        <4>2. \A j \in Seats : leaf[j] = c => result'[j] = result[j]
          BY <1>8, <3>1
        <4>3. pool[c] = Seats \ {j \in Seats : leaf[j] = c /\ result[j] \notin {"none", "ok"}}
          BY DEF IInv, PoolInv
        <4>4. QED
          BY <4>1, <4>2, <4>3
      <3>2. CASE c = leaf[i]
        <4>1. pool'[c] = PutBack(i, kind)
          BY <1>1, <1>7, <3>2
        <4>2. CASE kind = "ok"
          <5>1. \A j \in Seats : result'[j] \notin {"none", "ok"} <=> result[j] \notin {"none", "ok"}
            BY <1>2, <1>8, <4>2
          <5>2. QED
            BY <1>3, <1>9, <3>2, <4>1, <4>2, <5>1
        <4>3. CASE kind # "ok"
          <5>1. \A j \in Seats : result'[j] \notin {"none", "ok"} <=>
                                     j = i \/ result[j] \notin {"none", "ok"}
            BY <1>6, <1>8, <4>3
          <5>2. QED
            BY <1>3, <1>9, <3>2, <4>1, <4>3, <5>1
        <4>4. QED
          BY <4>2, <4>3
      <3>3. QED
        BY <3>1, <3>2
    <2>2. QED
      BY <2>1 DEF PoolInv
  <1>12. OrderInv'
    <2>1. ASSUME NEW k \in Seats, NEW j \in Seats,
                 leaf[j] = leaf[k], j < k, result'[k] # "none"
          PROVE  result'[j] # "none"
      <3>1. CASE k = i
        BY <1>2, <1>6, <1>8, <2>1, <3>1
      <3>2. CASE k # i
        BY <1>6, <1>8, <2>1, <3>2 DEF IInv, OrderInv
      <3>3. QED
        BY <3>1, <3>2
    <2>2. QED
      BY <2>1 DEF OrderInv
  <1>13. ResultInv'
    <2>1. ASSUME ~complete
          PROVE  \E j \in Seats : j < i /\ leaf[j] = leaf[i] /\ result[j] = "frost"
      <3>1. pool[leaf[i]] \ {i} # Seats \ {i}
        BY <2>1 DEF Others
      <3>2. PICK j \in Seats : j # i /\ leaf[j] = leaf[i] /\ result[j] \notin {"none", "ok"}
        BY <1>3, <3>1
      <3>3. ~(i < j)
        BY <1>2, <3>2 DEF IInv, OrderInv
      <3>4. j < i
        BY <3>2, <3>3 DEF Seats
      <3>5. result[j] = "frost" \/ result[j] = "count"
        BY <1>1, <3>2 DEF IInv, ResultInv
      <3>6. CASE result[j] = "count"
        <4>1. PICK k \in Seats : k < j /\ leaf[k] = leaf[j] /\ result[k] = "frost"
          BY <3>6 DEF IInv, ResultInv
        <4>2. k < i
          BY <3>4, <4>1 DEF Seats
        <4>3. QED
          BY <3>2, <4>1, <4>2
      <3>7. QED
        BY <3>2, <3>4, <3>5, <3>6
    <2>2. \A k \in Seats : result'[k] # "panic"
      BY <1>6, <1>8 DEF IInv, ResultInv
    <2>3. ASSUME NEW k \in Seats, result'[k] = "count"
          PROVE  \E j \in Seats : j < k /\ leaf[j] = leaf[k] /\ result'[j] = "frost"
      <3>1. \E j \in Seats : j < k /\ leaf[j] = leaf[k] /\ result[j] = "frost"
        <4>1. CASE k = i
          BY <1>6, <1>8, <2>1, <2>3, <4>1
        <4>2. CASE k # i
          BY <1>8, <2>3, <4>2 DEF IInv, ResultInv
        <4>3. QED
          BY <4>1, <4>2
      <3>2. \A j \in Seats : result[j] = "frost" => result'[j] = "frost"
        BY <1>2, <1>8
      <3>3. QED
        BY <3>1, <3>2
    <2>4. \A k \in Seats : /\ result'[k] = "ok" => <<round, k>> \notin fault
                           /\ result'[k] = "frost" => <<round, k>> \in fault
      BY <1>6, <1>8 DEF IInv, ResultInv
    <2>5. QED
      BY <2>2, <2>3, <2>4 DEF ResultInv
  <1>14. result'[i] = "ok" => Others(i) = Seats \ {i}
    BY <1>6, <1>8
  <1>15. QED
    BY <1>8, <1>10, <1>11, <1>12, <1>13, <1>14

\* When all calls of a round have returned, the first that failed has failed by
\* itself, and no earlier one would have.
LEMMA FirstFailure ==
    ASSUME IInv, round \in {2, 3}, AllReturned, NEW i \in Failed,
           \A j \in Failed : ~(j < i)
    PROVE  result[i] = "frost" /\ i \in Faulty(round) /\ \A j \in Faulty(round) : ~(j < i)
  <1>1. i \in Seats /\ result[i] \in {"frost", "count"}
    BY DEF Failed, AllReturned, IInv, TypeOK, ResultInv
  <1>2. result[i] # "count"
    BY <1>1 DEF IInv, ResultInv, Failed
  <1>3. result[i] = "frost" /\ i \in Faulty(round)
    BY <1>1, <1>2 DEF IInv, ResultInv, Faulty
  <1>4. \A j \in Faulty(round) : j \in Failed
    BY DEF IInv, ResultInv, Faulty, Failed
  <1>5. QED
    BY <1>3, <1>4

\* When no call has failed, none would have by itself.
LEMMA NoFailure ==
    ASSUME IInv, round \in {2, 3}, Failed = {}
    PROVE  Faulty(round) = {} /\ \A i \in Seats : result[i] = "ok"
  BY DEF IInv, ResultInv, Faulty, Failed

LEMMA Part1Step == ASSUME IInv, Part1 PROVE IInv'
  <1>1. /\ round = 1 /\ outcome = Running /\ turn \in Seats
        /\ \A j \in Seats : j < turn => <<1, j>> \notin fault
        /\ UNCHANGED <<fault, key, sent>>
    BY DEF Part1, IInv, TypeOK, StageInv, OutcomeInv
  <1>2. CASE /\ <<1, turn>> \in fault
             /\ Return(Failure("frost", turn))
             /\ UNCHANGED <<turn, leaf, pool, result>>
    <2>1. turn \in Faulty(1) /\ \A j \in Faulty(1) : ~(j < turn)
      BY <1>1, <1>2 DEF Faulty
    <2>2. Least(Faulty(1)) = turn
      BY <2>1, LeastUnique DEF Faulty
    <2>3. Sequential = Failure("frost", turn)
      BY <2>1, <2>2 DEF Sequential
    <2>4. round' = 4 /\ outcome' = Sequential
      BY <1>2, <2>3 DEF Return
    <2>5. Sequential' = Sequential
      BY <1>1 DEF Sequential, Faulty, Mismatched
    <2>6. TypeOK'
      BY <1>1, <1>2 DEF Return, Failure, IInv, TypeOK
    <2>7. QED
      BY <1>1, <1>2, <2>4, <2>5, <2>6
         DEF IInv, PoolInv, OrderInv, ResultInv, StageInv, OutcomeInv
  <1>3. CASE /\ <<1, turn>> \notin fault /\ turn < NumSeats
             /\ turn' = turn + 1
             /\ UNCHANGED <<round, leaf, pool, result, outcome>>
    <2>1. turn' \in Seats /\ \A j \in Seats : j < turn' => j < turn \/ j = turn
      BY <1>1, <1>3, DkgAssumption DEF Seats
    <2>2. TypeOK'
      BY <1>1, <1>3, <2>1 DEF IInv, TypeOK
    <2>3. StageInv'
      BY <1>1, <1>3, <2>1 DEF IInv, StageInv
    <2>4. QED
      BY <1>1, <1>3, <2>2, <2>3 DEF IInv, PoolInv, OrderInv, ResultInv, OutcomeInv
  <1>4. CASE /\ <<1, turn>> \notin fault /\ turn = NumSeats
             /\ round' = 2 /\ Spread /\ UNCHANGED <<turn, outcome>>
    <2>1. \A j \in Seats : j < turn \/ j = turn
      BY <1>1, <1>4 DEF Seats
    <2>2. Faulty(1)' = {}
      BY <1>1, <1>4, <2>1 DEF Faulty
    <2>3. /\ leaf' \in [Seats -> Seats] /\ pool' = FullPools
          /\ \A i \in Seats : result'[i] = "none" /\ result' = Fresh
      BY <1>4 DEF Spread, Splits, Fresh
    <2>4. TypeOK'
      BY <1>1, <1>4, <2>3 DEF IInv, TypeOK, FullPools, Fresh
    <2>5. PoolInv' /\ OrderInv' /\ ResultInv'
      BY <2>3 DEF PoolInv, OrderInv, ResultInv, FullPools
    <2>6. StageInv' /\ OutcomeInv'
      BY <1>1, <1>4, <2>2, <2>3 DEF StageInv, OutcomeInv
    <2>7. QED
      BY <2>4, <2>5, <2>6 DEF IInv
  <1>5. turn < NumSeats \/ turn = NumSeats
    BY <1>1, DkgAssumption DEF Seats
  <1>6. QED
    BY <1>2, <1>3, <1>4, <1>5 DEF Part1, LastTurn

LEMMA Part2Step == ASSUME IInv, NEW i \in Seats, Part2(i) PROVE IInv'
  <1> DEFINE complete == Cardinality(Others(i)) = NumSeats - 1
  <1>1. /\ round = 2 /\ Ready(i)
        /\ Finish(i, CallResult(round, i, complete))
        /\ sent' = [sent EXCEPT ![i] = IF CallResult(round, i, complete) = "ok" THEN Others(i) ELSE {}]
        /\ UNCHANGED <<fault, key, round, turn, leaf, outcome>>
    BY DEF Part2
  <1>2. Others(i) \subseteq Seats \ {i} /\ sent \in [Seats -> SUBSET Seats]
    BY DEF IInv, TypeOK, Others
  <1>3. complete <=> Others(i) = Seats \ {i}
    <2>1. IsFiniteSet(Seats \ {i})
      <3>1. IsFiniteSet(Seats)
        BY DkgAssumption, FS_Interval DEF Seats
      <3>2. QED
        BY <3>1, FS_RemoveElement
    <2>2. Cardinality(Others(i)) = Cardinality(Seats \ {i}) => Others(i) = Seats \ {i}
      BY <1>2, <2>1, FS_Subset
    <2>3. QED
      BY <2>2, OthersCount
  <1>4. complete \in BOOLEAN
    OBVIOUS
  <1> HIDE DEF complete
  <1>5. /\ PoolInv' /\ OrderInv' /\ ResultInv'
        /\ result' \in [Seats -> {"none", "ok", "frost", "count", "panic"}]
        /\ pool' \in [Seats -> SUBSET Seats]
        /\ result'[i] = "ok" => Others(i) = Seats \ {i}
        /\ \A j \in Seats \ {i} : result'[j] = result[j]
    BY <1>1, <1>3, <1>4, CallStep
  <1>6. result'[i] = CallResult(round, i, complete)
    BY <1>1 DEF Finish, IInv, TypeOK
  <1>7. sent' \in [Seats -> SUBSET Seats]
    BY <1>1, <1>2
  <1>8. StageInv'
    <2>1. ASSUME NEW j \in Seats, result'[j] = "ok" PROVE sent'[j] = Seats \ {j}
      <3>1. CASE j = i
        BY <1>1, <1>2, <1>5, <1>6, <2>1, <3>1
      <3>2. CASE j # i
        BY <1>1, <1>2, <1>5, <2>1, <3>2 DEF IInv, StageInv
      <3>3. QED
        BY <3>1, <3>2
    <2>2. Faulty(1)' = Faulty(1)
      BY <1>1 DEF Faulty
    <2>3. QED
      BY <1>1, <2>1, <2>2 DEF StageInv, IInv
  <1>9. TypeOK' /\ OutcomeInv'
    BY <1>1, <1>5, <1>7 DEF IInv, TypeOK, OutcomeInv
  <1>10. QED
    BY <1>5, <1>8, <1>9 DEF IInv

LEMMA Part3Step == ASSUME IInv, NEW i \in Seats, Part3(i) PROVE IInv'
  <1> DEFINE complete == Cardinality(Others(i)) = NumSeats - 1 /\ Inbox(i) = Others(i)
  <1>1. /\ round = 3 /\ Ready(i)
        /\ Finish(i, CallResult(round, i, complete))
        /\ UNCHANGED <<fault, key, round, turn, leaf, sent, outcome>>
    BY DEF Part3
  <1>2. Inbox(i) = Seats \ {i}
    BY <1>1 DEF IInv, StageInv, Inbox
  <1>3. complete <=> Others(i) = Seats \ {i}
    BY <1>2, OthersCount
  <1>4. complete \in BOOLEAN
    OBVIOUS
  <1> HIDE DEF complete
  <1>5. /\ PoolInv' /\ OrderInv' /\ ResultInv'
        /\ result' \in [Seats -> {"none", "ok", "frost", "count", "panic"}]
        /\ pool' \in [Seats -> SUBSET Seats]
    BY <1>1, <1>3, <1>4, CallStep
  <1>6. StageInv'
    BY <1>1 DEF IInv, StageInv, Faulty
  <1>7. TypeOK' /\ OutcomeInv'
    BY <1>1, <1>5 DEF IInv, TypeOK, OutcomeInv
  <1>8. QED
    BY <1>5, <1>6, <1>7 DEF IInv

LEMMA Resolve2Step == ASSUME IInv, Resolve2 PROVE IInv'
  <1>1. /\ round = 2 /\ AllReturned /\ outcome = Running
        /\ UNCHANGED <<fault, key, turn, sent>>
    BY DEF Resolve2, IInv, OutcomeInv
  <1>2. Faulty(1) = {}
    BY <1>1 DEF IInv, StageInv
  <1> DEFINE m == Least(Failed)
  <1>3. CASE /\ Failed # {}
             /\ Return(Failure(result[m], m))
             /\ UNCHANGED <<leaf, pool, result>>
    <2>1. m \in Failed /\ m \in Seats /\ \A j \in Failed : ~(j < m)
      <3>1. m \in Failed /\ \A j \in Failed : m <= j
        BY <1>3, LeastType DEF Failed
      <3>2. QED
        BY <3>1 DEF Failed, Seats
    <2>2. result[m] = "frost" /\ m \in Faulty(2) /\ \A j \in Faulty(2) : ~(j < m)
      BY <1>1, <2>1, FirstFailure
    <2>3. Least(Faulty(2)) = m
      BY <2>2, LeastUnique DEF Faulty
    <2>4. Sequential = Failure("frost", m)
      BY <1>2, <2>2, <2>3 DEF Sequential
    <2>5. round' = 4 /\ outcome' = Sequential
      BY <1>3, <2>2, <2>4 DEF Return
    <2>6. Sequential' = Sequential
      BY <1>1 DEF Sequential, Faulty, Mismatched
    <2>7. outcome' \in [kind : {"running", "ok", "frost", "count", "panic", "mismatch"},
                        seat : Seats \union {0}]
      BY <2>1, <2>4, <2>5 DEF Failure
    <2>8. TypeOK'
      BY <1>1, <1>3, <2>5, <2>7 DEF IInv, TypeOK
    <2>9. QED
      BY <1>1, <1>3, <2>5, <2>6, <2>8
         DEF IInv, PoolInv, OrderInv, ResultInv, StageInv, OutcomeInv
  <1>4. CASE Failed = {} /\ round' = 3 /\ Spread /\ UNCHANGED outcome
    <2>1. Faulty(2) = {} /\ \A i \in Seats : result[i] = "ok"
      BY <1>1, <1>4, NoFailure
    <2>2. \A i \in Seats : sent'[i] = Seats \ {i}
      BY <1>1, <2>1 DEF IInv, StageInv
    <2>3. /\ leaf' \in [Seats -> Seats] /\ pool' = FullPools
          /\ \A i \in Seats : result'[i] = "none" /\ result' = Fresh
      BY <1>4 DEF Spread, Splits, Fresh
    <2>4. TypeOK'
      BY <1>1, <1>4, <2>3 DEF IInv, TypeOK, FullPools, Fresh
    <2>5. PoolInv' /\ OrderInv' /\ ResultInv'
      BY <2>3 DEF PoolInv, OrderInv, ResultInv, FullPools
    <2>6. Faulty(1)' = {} /\ Faulty(2)' = {}
      BY <1>1, <1>2, <2>1 DEF Faulty
    <2>7. StageInv' /\ OutcomeInv'
      BY <1>1, <1>4, <2>2, <2>6 DEF StageInv, OutcomeInv
    <2>8. QED
      BY <2>4, <2>5, <2>7 DEF IInv
  <1>5. QED
    BY <1>3, <1>4 DEF Resolve2, Reported

LEMMA Resolve3Step == ASSUME IInv, Resolve3 PROVE IInv'
  <1> DEFINE bad == Failed \union Mismatched
             m == Least(bad)
             faultyOrOdd == Faulty(3) \union Mismatched
  <1>1. /\ round = 3 /\ AllReturned
        /\ Faulty(1) = {} /\ Faulty(2) = {}
        /\ UNCHANGED <<fault, key, turn, leaf, pool, result, sent>>
    BY DEF Resolve3, IInv, StageInv
  <1>2. round' = 4
    BY DEF Resolve3, Return
  <1>3. outcome' = Sequential /\ outcome'.seat \in Seats \union {0}
    <2>1. CASE bad = {} /\ Return(Success)
      <3>1. Faulty(3) = {}
        BY <1>1, <2>1, NoFailure
      <3>2. Sequential = Success
        BY <1>1, <2>1, <3>1 DEF Sequential
      <3>3. QED
        BY <2>1, <3>2 DEF Return, Success
    <2>2. CASE bad # {}
      <3>1. m \in bad /\ \A j \in bad : m <= j
        BY <2>2, LeastType DEF Failed, Mismatched
      <3>2. m \in Seats /\ \A j \in bad : ~(j < m)
        BY <3>1 DEF Failed, Mismatched, Seats
      <3>3. \A j \in Faulty(3) : j \in Failed
        BY <1>1 DEF IInv, ResultInv, Faulty, Failed
      <3>4. CASE m \in Failed /\ Return(Failure(result[m], m))
        <4>1. result[m] = "frost" /\ m \in Faulty(3)
          BY <1>1, <3>2, <3>4, FirstFailure
        <4>2. m \in faultyOrOdd /\ \A j \in faultyOrOdd : ~(j < m)
          BY <3>2, <3>3, <4>1
        <4>3. Least(faultyOrOdd) = m
          BY <4>2, LeastUnique DEF Faulty, Mismatched
        <4>4. Sequential = Failure("frost", m)
          BY <1>1, <4>1, <4>2, <4>3 DEF Sequential
        <4>5. QED
          BY <3>2, <3>4, <4>1, <4>4 DEF Return, Failure
      <3>5. CASE m \notin Failed /\ Return(Failure("mismatch", m))
        <4>1. m \in Mismatched /\ m \notin Faulty(3)
          BY <3>1, <3>3, <3>5
        <4>2. m \in faultyOrOdd /\ \A j \in faultyOrOdd : ~(j < m)
          BY <3>2, <3>3, <4>1
        <4>3. Least(faultyOrOdd) = m
          BY <4>2, LeastUnique DEF Faulty, Mismatched
        <4>4. Sequential = Failure("mismatch", m)
          BY <1>1, <4>1, <4>2, <4>3 DEF Sequential
        <4>5. QED
          BY <3>2, <3>5, <4>4 DEF Return, Failure
      <3>6. QED
        BY <2>2, <3>4, <3>5 DEF Resolve3, Reported
    <2>3. QED
      BY <2>1, <2>2 DEF Resolve3
  <1>4. Sequential' = Sequential
    BY <1>1 DEF Sequential, Faulty, Mismatched
  <1>5. outcome' \in [kind : {"running", "ok", "frost", "count", "panic", "mismatch"},
                      seat : Seats \union {0}]
    <2>1. Sequential \in {Failure("frost", outcome'.seat), Failure("mismatch", outcome'.seat), Success}
      BY <1>3 DEF Sequential, Failure
    <2>2. QED
      BY <1>3, <2>1 DEF Failure, Success
  <1>6. TypeOK'
    BY <1>1, <1>2, <1>5 DEF IInv, TypeOK
  <1>7. QED
    BY <1>1, <1>2, <1>3, <1>4, <1>6
       DEF IInv, PoolInv, OrderInv, ResultInv, StageInv, OutcomeInv

LEMMA NextInv == IInv /\ [Next]_vars => IInv'
  <1> SUFFICES ASSUME IInv, [Next]_vars PROVE IInv'
    OBVIOUS
  <1>1. CASE UNCHANGED vars
    <2>1. Sequential' = Sequential /\ Faulty(1)' = Faulty(1) /\ Faulty(2)' = Faulty(2)
      BY <1>1 DEF vars, Sequential, Faulty, Mismatched
    <2>2. TypeOK' /\ OutcomeInv'
      BY <1>1, <2>1 DEF vars, IInv, TypeOK, OutcomeInv
    <2>3. PoolInv' /\ OrderInv' /\ ResultInv'
      BY <1>1 DEF vars, IInv, PoolInv, OrderInv, ResultInv
    <2>4. StageInv'
      BY <1>1, <2>1 DEF vars, IInv, StageInv
    <2>5. QED
      BY <2>2, <2>3, <2>4 DEF IInv
  <1>2. CASE Part1
    BY <1>2, Part1Step
  <1>3. ASSUME NEW i \in Seats, Part2(i) \/ Part3(i) PROVE IInv'
    BY <1>3, Part2Step, Part3Step
  <1>4. CASE Resolve2 \/ Resolve3
    BY <1>4, Resolve2Step, Resolve3Step
  <1>5. QED
    BY <1>1, <1>2, <1>3, <1>4 DEF Next

LEMMA SpecInv == Spec => []IInv
  BY InitInv, NextInv, PTL DEF Spec

\* The parallel DKG returns what the sequential one does, and never panics, for
\* every number of seats, split and schedule (run_inprocess_dkg_with_rng).
THEOREM ParallelIsSequential == Spec => []OutcomeIsSequential
  <1>1. IInv => OutcomeIsSequential
    BY DEF IInv, TypeOK, OutcomeInv, OutcomeIsSequential
  <1>2. QED
    BY <1>1, SpecInv, PTL

\* A complaint about the number of packages is never the first failure of a leaf
\* (the pool that `?' leaves without the failed seat's package).
THEOREM CountFollowsFault == Spec => []CountErrorFollowsFault
  <1>1. IInv => CountErrorFollowsFault
    BY DEF IInv, ResultInv, CountErrorFollowsFault
  <1>2. QED
    BY <1>1, SpecInv, PTL

\* The types of the leaves, of the pools and of the results.
THEOREM TypesHold == Spec => []TypeOK
  <1>1. IInv => TypeOK
    BY DEF IInv
  <1>2. QED
    BY <1>1, SpecInv, PTL
-----------------------------------------------------------------------------
(* The function comes to its end: a step can be taken, and leaves less to do. *)

LEMMA WaitingFinite ==
    ASSUME NEW S \in SUBSET Seats
    PROVE  IsFiniteSet(S) /\ Cardinality(S) \in Nat /\ Cardinality(S) <= NumSeats
  <1>1. NumSeats \in Nat /\ NumSeats >= 1
    BY DkgAssumption
  <1>2. IsFiniteSet(Seats) /\ Cardinality(Seats) = NumSeats
    BY <1>1, FS_Interval DEF Seats
  <1>3. QED
    BY <1>2, FS_Subset, FS_CardinalityType

\* The first waiting seat is the next one of its leaf, whatever the split.
LEMMA FirstWaitingReady ==
    ASSUME IInv, ~AllReturned
    PROVE  \E i \in Seats : Ready(i)
  <1>1. Waiting \in SUBSET Seats /\ Waiting # {}
    BY DEF Waiting, AllReturned
  <1>2. Least(Waiting) \in Waiting /\ \A j \in Waiting : Least(Waiting) <= j
    BY <1>1, LeastType
  <1> DEFINE i == Least(Waiting)
  <1>3. i \in Seats /\ result[i] = "none"
    BY <1>2 DEF Waiting
  <1> HIDE DEF i
  <1>4. ASSUME NEW j \in Seats, j < i PROVE result[j] # "none"
    <2>1. i \in Int /\ j \in Int /\ ~(i <= j)
      BY <1>3, <1>4 DEF Seats
    <2>2. QED
      BY <1>2, <2>1 DEF Waiting, i
  <1>5. QED
    BY <1>3, <1>4 DEF Ready

\* No leaf ever waits for a seat that nobody works at, however the rounds are
\* split and whichever calls fail (into_par_iter, map_with).
THEOREM LeavesGoOn == Spec => []NeverStuck
  <1>1. IInv => NeverStuck
    <2> SUFFICES ASSUME IInv, outcome = Running, round # 1
                 PROVE  round \in {2, 3} /\ (AllReturned \/ \E i \in Seats : Ready(i))
      BY DEF NeverStuck
    <2>1. Sequential # Running
      BY DEF Sequential, Failure, Success, Running
    <2>2. round \in {2, 3}
      BY <2>1 DEF IInv, OutcomeInv, TypeOK
    <2>3. QED
      BY <2>2, FirstWaitingReady
  <1>2. QED
    BY <1>1, SpecInv, PTL

LEMMA TurnsLeft == ASSUME NEW m \in Nat, NEW t \in 1 .. m PROVE m - t \in 0 .. m
  OBVIOUS

\* Less of this round, or a round less, is less altogether: with m seats, what is
\* left of a round is never more than m.
LEMMA RoundsWeigh ==
    ASSUME NEW m \in Nat, NEW r \in 1 .. 4, NEW s \in 1 .. 4,
           NEW x \in 0 .. m, NEW y \in 0 .. m,
           (s = r /\ y < x) \/ s > r
    PROVE  /\ (4 - s) * (m + 1) + y \in Nat
           /\ (4 - s) * (m + 1) + y < (4 - r) * (m + 1) + x
  <1>1. /\ (4 - 1) * (m + 1) = 3 * m + 3 /\ (4 - 2) * (m + 1) = 2 * m + 2
        /\ (4 - 3) * (m + 1) = m + 1 /\ (4 - 4) * (m + 1) = 0
    OBVIOUS
  <1>2. r = 1 \/ r = 2 \/ r = 3 \/ r = 4
    OBVIOUS
  <1>3. s = 1 \/ s = 2 \/ s = 3 \/ s = 4
    OBVIOUS
  <1>4. x \in Nat /\ y \in Nat /\ x <= m /\ y <= m
    OBVIOUS
  <1>5. CASE s = 1
    BY <1>1, <1>2, <1>4, <1>5
  <1>6. CASE s = 2
    BY <1>1, <1>2, <1>4, <1>6
  <1>7. CASE s = 3
    BY <1>1, <1>2, <1>4, <1>7
  <1>8. CASE s = 4
    BY <1>1, <1>2, <1>4, <1>8
  <1>9. QED
    BY <1>3, <1>5, <1>6, <1>7, <1>8

\* What a step does to what is left: a turn of round 1 or a call less, or a round
\* less.
LEMMA StepShrinks == IInv /\ IInv' /\ Next => WorkLeft' \in Nat /\ WorkLeft' < WorkLeft
  <1> SUFFICES ASSUME IInv, IInv', Next PROVE WorkLeft' \in Nat /\ WorkLeft' < WorkLeft
    OBVIOUS
  <1> DEFINE left == IF round = 1 THEN NumSeats - turn
                     ELSE IF round = 4 THEN 0 ELSE Cardinality(Waiting)
             after == (IF round = 1 THEN NumSeats - turn
                       ELSE IF round = 4 THEN 0 ELSE Cardinality(Waiting))'
  <1>1. /\ NumSeats \in Nat
        /\ round \in 1 .. 4 /\ round' \in 1 .. 4
        /\ turn \in 1 .. NumSeats /\ turn' \in 1 .. NumSeats
    BY DkgAssumption DEF IInv, TypeOK, Seats
  <1>2. left \in 0 .. NumSeats /\ after \in 0 .. NumSeats
    <2>1. /\ Cardinality(Waiting) \in Nat /\ Cardinality(Waiting) <= NumSeats
          /\ Cardinality(Waiting') \in Nat /\ Cardinality(Waiting') <= NumSeats
      <3>1. Waiting \in SUBSET Seats /\ Waiting' \in SUBSET Seats
        BY DEF Waiting
      <3>2. QED
        BY <3>1, WaitingFinite
    <2> DEFINE c == Cardinality(Waiting)
               d == Cardinality(Waiting')
    <2>2. c \in 0 .. NumSeats /\ d \in 0 .. NumSeats
      BY <1>1, <2>1
    <2> HIDE DEF c, d
    <2>3. NumSeats - turn \in 0 .. NumSeats /\ NumSeats - turn' \in 0 .. NumSeats
      BY <1>1, TurnsLeft
    <2>4. left = IF round = 1 THEN NumSeats - turn ELSE IF round = 4 THEN 0 ELSE c
      BY DEF c
    <2>5. after = IF round' = 1 THEN NumSeats - turn' ELSE IF round' = 4 THEN 0 ELSE d
      BY DEF d
    <2> HIDE DEF left, after
    <2>6. 0 \in 0 .. NumSeats
      BY <1>1
    <2>7. left \in 0 .. NumSeats /\ after \in 0 .. NumSeats
      BY <2>2, <2>3, <2>4, <2>5, <2>6, Zenon
    <2>8. QED
      BY <2>7 DEF left, after
  <1>3. /\ WorkLeft = (4 - round) * (NumSeats + 1) + left
        /\ WorkLeft' = (4 - round') * (NumSeats + 1) + after
    BY DEF WorkLeft
  <1>4. \/ round' = round /\ after < left
        \/ round' > round
    <2>1. CASE Part1
      <3>1. CASE round' = 1
        <4>1. round = 1 /\ turn' = turn + 1
          BY <2>1, <3>1 DEF Part1, Return
        <4>2. QED
          BY <1>1, <3>1, <4>1
      <3>2. CASE round' # 1
        <4>1. round = 1 /\ (round' = 2 \/ round' = 4)
          BY <2>1, <3>2 DEF Part1, Return
        <4>2. QED
          BY <4>1
      <3>3. QED
        BY <3>1, <3>2
    <2>2. ASSUME NEW i \in Seats, Part2(i) \/ Part3(i)
          PROVE  round' = round /\ after < left
      <3>1. /\ round \in {2, 3} /\ round' = round /\ Ready(i)
            /\ \E kind : Finish(i, kind) /\ kind # "none"
        BY <2>2 DEF Part2, Part3, CallResult
      <3>2. PICK kind : result' = [result EXCEPT ![i] = kind] /\ kind # "none"
        BY <3>1 DEF Finish
      <3>3. i \in Waiting /\ Waiting' = Waiting \ {i}
        BY <3>1, <3>2 DEF Ready, Waiting, IInv, TypeOK
      <3>4. /\ IsFiniteSet(Waiting) /\ Cardinality(Waiting) \in Nat
            /\ Cardinality(Waiting') = Cardinality(Waiting) - 1
        <4>1. Waiting \in SUBSET Seats
          BY DEF Waiting
        <4>2. IsFiniteSet(Waiting) /\ Cardinality(Waiting) \in Nat
          BY <4>1, WaitingFinite
        <4>3. QED
          BY <3>3, <4>2, FS_RemoveElement
      <3>5. left = Cardinality(Waiting) /\ after = Cardinality(Waiting')
        BY <3>1
      <3> HIDE DEF left, after
      <3>6. after = left - 1
        BY <3>4, <3>5
      <3>7. QED
        BY <1>2, <3>1, <3>6
    <2>3. CASE Resolve2
      <3>1. round = 2 /\ (round' = 3 \/ round' = 4)
        BY <2>3 DEF Resolve2, Return
      <3>2. QED
        BY <3>1
    <2>4. CASE Resolve3
      <3>1. round = 3 /\ round' = 4
        BY <2>4 DEF Resolve3, Return
      <3>2. QED
        BY <3>1
    <2>5. QED
      BY <2>1, <2>2, <2>3, <2>4 DEF Next
  <1> HIDE DEF left, after
  <1>5. QED
    BY <1>1, <1>2, <1>3, <1>4, RoundsWeigh

\* The function takes at most as many steps as there is work at first, in the
\* order of 4 * NumSeats: no round is gone back to, and no call is made twice.
THEOREM StepsCountDown == Spec => WorkShrinks
  <1>1. IInv /\ IInv' /\ [Next]_vars => [WorkLeft' \in Nat /\ WorkLeft' < WorkLeft]_vars
    BY StepShrinks
  <1>2. QED
    BY <1>1, SpecInv, PTL DEF Spec, WorkShrinks
=============================================================================
