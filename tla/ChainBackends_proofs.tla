------------------------ MODULE ChainBackends_proofs ------------------------
(***************************************************************************)
(* Machine-checked proofs about ChainBackends and FeeEstimates, for every set *)
(* of coins, every length of the chain and of its forks, and every set of fee *)
(* buckets and rates:                                                        *)
(*   - TypesHold: the type invariant;                                        *)
(*   - EsploraListCautious, BackendsAgreeWhenQuiet, DepthSurvivesGrowth: what   *)
(*     the answers are worth when the chain moves between two requests;       *)
(*   - FeesFaithful: what becomes of the nodes' fee estimates.               *)
(***************************************************************************)
EXTENDS ChainBackends, SequenceTheorems, WellFoundedInduction, TLAPS

Blocks == Seq(SUBSET Txs)

-----------------------------------------------------------------------------
(* First and last numbers of a set *)

\* There is a first one among any natural numbers.
LEMMA LeastNat ==
    ASSUME NEW S \in SUBSET Nat, S # {}
    PROVE  \E i \in S : \A j \in S : i <= j
  <1>1. \E i \in S : \A j \in S : ~(<<j, i>> \in OpToRel(<, Nat))
    BY NatLessThanWellFounded, WFMin
  <1>2. \A i, j \in Nat : j < i => <<j, i>> \in OpToRel(<, Nat)
    BY DEF OpToRel
  <1>3. \E i \in S : \A j \in S : ~(j < i)
    BY <1>1, <1>2, Zenon
  <1>4. QED
    BY <1>3

LEMMA LeastType ==
    ASSUME NEW S \in SUBSET Nat, S # {}
    PROVE  Least(S) \in S /\ \A j \in S : Least(S) <= j
  BY LeastNat DEF Least

\* The first one of a set, known by what it is.
LEMMA LeastIs ==
    ASSUME NEW S \in SUBSET Nat, NEW i \in S, \A j \in S : i <= j
    PROVE  Least(S) = i
  <1>1. Least(S) \in S /\ Least(S) <= i /\ i <= Least(S)
    BY LeastType
  <1>2. i \in Nat /\ Least(S) \in Nat
    BY <1>1
  <1>3. QED
    BY <1>1, <1>2

\* There is a last one among numbers that have a bound.
LEMMA GreatestNat ==
    ASSUME NEW S \in SUBSET Nat, S # {}, NEW n \in Nat, \A k \in S : k <= n
    PROVE  \E i \in S : \A j \in S : j <= i
  <1> DEFINE gaps == {n - k : k \in S}
  <1>1. gaps \in SUBSET Nat /\ gaps # {}
    <2>1. \A k \in S : k \in Nat /\ k <= n
      OBVIOUS
    <2>2. \A k \in S : n - k \in Nat
      BY <2>1
    <2>3. QED
      BY <2>2
  <1>2. PICK g \in gaps : \A h \in gaps : g <= h
    BY <1>1, LeastNat
  <1>3. PICK i \in S : g = n - i
    BY <1>2
  <1>4. \A j \in S : n - i <= n - j
    BY <1>2, <1>3
  <1>5. QED
    BY <1>4

-----------------------------------------------------------------------------
(* Confirmations *)

Holding(blocks, tx) == {h \in DOMAIN blocks : tx \in blocks[h]}

\* The blocks of a chain are numbered from 1, and a transaction is mined if one of
\* them holds it.
LEMMA HoldingType ==
    ASSUME NEW blocks \in Blocks, NEW tx
    PROVE  /\ Len(blocks) \in Nat /\ DOMAIN blocks = 1 .. Len(blocks)
           /\ Holding(blocks, tx) \in SUBSET Nat
           /\ Holding(blocks, tx) \subseteq 1 .. Len(blocks)
           /\ tx \in Mined(blocks) <=> Holding(blocks, tx) # {}
  <1>1. Len(blocks) \in Nat /\ DOMAIN blocks = 1 .. Len(blocks)
    BY LenProperties DEF Blocks
  <1>2. QED
    BY <1>1 DEF Holding, Mined

\* What DepthIn returns: 0 for a transaction that is not mined, and else the
\* number of blocks from the first that holds it to the tip.
LEMMA DepthOf ==
    ASSUME NEW blocks \in Blocks, NEW tx
    PROVE  /\ tx \notin Mined(blocks) => DepthIn(blocks, tx) = 0
           /\ tx \in Mined(blocks) =>
                 /\ DepthIn(blocks, tx) = Len(blocks) - Least(Holding(blocks, tx)) + 1
                 /\ Least(Holding(blocks, tx)) \in 1 .. Len(blocks)
                 /\ DepthIn(blocks, tx) \in 1 .. Len(blocks)
           /\ DepthIn(blocks, tx) \in 0 .. Len(blocks)
           /\ DepthIn(blocks, tx) = 0 <=> tx \notin Mined(blocks)
  <1>1. DepthIn(blocks, tx) = IF Holding(blocks, tx) = {} THEN 0
                              ELSE Len(blocks) - Least(Holding(blocks, tx)) + 1
    BY DEF DepthIn, Holding
  <1>2. tx \in Mined(blocks) => Least(Holding(blocks, tx)) \in 1 .. Len(blocks)
    BY HoldingType, LeastType
  <1>3. Len(blocks) \in Nat
    BY HoldingType
  <1>4. QED
    BY <1>1, <1>2, <1>3, HoldingType

\* A chain that has grown by some blocks confirms what it held that much more.
LEMMA DepthGrows ==
    ASSUME NEW blocks \in Blocks, NEW more \in Blocks, NEW tx \in Mined(blocks),
           Len(blocks) <= Len(more), SubSeq(more, 1, Len(blocks)) = blocks
    PROVE  /\ tx \in Mined(more)
           /\ DepthIn(more, tx) = DepthIn(blocks, tx) + Len(more) - Len(blocks)
  <1> DEFINE first == Least(Holding(blocks, tx))
  <1>1. /\ Len(blocks) \in Nat /\ DOMAIN blocks = 1 .. Len(blocks)
        /\ Len(more) \in Nat /\ DOMAIN more = 1 .. Len(more)
    BY HoldingType
  <1>2. \A h \in 1 .. Len(blocks) : more[h] = blocks[h]
    <2>1. \A h \in 1 .. Len(blocks) : more[h] \in SUBSET Txs
      BY <1>1, ElementOfSeq DEF Blocks
    <2>2. \A h \in 1 .. Len(blocks) - 1 + 1 : SubSeq(more, 1, Len(blocks))[h] = more[1 + h - 1]
      BY <1>1, <2>1, SubSeqProperties
    <2>3. QED
      BY <1>1, <2>2
  <1>3. first \in Holding(blocks, tx) /\ \A h \in Holding(blocks, tx) : first <= h
    BY HoldingType, LeastType
  <1>4. first \in 1 .. Len(blocks) /\ first \in Holding(more, tx)
    BY <1>1, <1>2, <1>3 DEF Holding
  <1>5. \A h \in Holding(more, tx) : first <= h
    <2> TAKE h \in Holding(more, tx)
    <2>1. CASE h \in 1 .. Len(blocks)
      BY <1>1, <1>2, <1>3, <2>1 DEF Holding
    <2>2. CASE h \notin 1 .. Len(blocks)
      BY <1>1, <1>4, <2>2, HoldingType DEF Holding
    <2>3. QED
      BY <2>1, <2>2
  <1>6. Least(Holding(more, tx)) = first
    BY <1>4, <1>5, HoldingType, LeastIs
  <1>7. tx \in Mined(more)
    BY <1>4, HoldingType
  <1>8. QED
    BY <1>1, <1>6, <1>7, DepthOf

\* What is mined once a block has been added, or some blocks have given way.
LEMMA MinedAppend ==
    ASSUME NEW blocks \in Blocks, NEW block \in SUBSET Txs
    PROVE  /\ Append(blocks, block) \in Blocks
           /\ Len(Append(blocks, block)) = Len(blocks) + 1
           /\ Mined(Append(blocks, block)) = Mined(blocks) \union block
  <1> DEFINE longer == Append(blocks, block)
  <1>1. /\ longer \in Blocks /\ Len(longer) = Len(blocks) + 1
        /\ \A i \in 1 .. Len(blocks) : longer[i] = blocks[i]
        /\ longer[Len(blocks) + 1] = block
    BY AppendProperties DEF Blocks
  <1> HIDE DEF longer
  <1>2. /\ Len(blocks) \in Nat /\ DOMAIN blocks = 1 .. Len(blocks)
        /\ DOMAIN longer = 1 .. Len(blocks) + 1
    BY <1>1, HoldingType
  <1>3. ASSUME NEW tx PROVE tx \in Mined(longer) <=> tx \in Mined(blocks) \union block
    <2>1. tx \in Mined(longer) <=> \E h \in 1 .. Len(blocks) + 1 : tx \in longer[h]
      BY <1>2 DEF Mined
    <2>2. tx \in Mined(blocks) <=> \E h \in 1 .. Len(blocks) : tx \in blocks[h]
      BY <1>2 DEF Mined
    <2>3. QED
      BY <1>1, <1>2, <2>1, <2>2
  <1>4. QED
    BY <1>1, <1>3 DEF longer

LEMMA MinedReorganised ==
    ASSUME NEW blocks \in Blocks, NEW block \in SUBSET Txs, NEW fork \in Nat
    PROVE  LET longer == blocks \o <<block>> \o [i \in 1 .. fork |-> {}]
           IN  /\ longer \in Blocks
               /\ Len(longer) = Len(blocks) + 1 + fork
               /\ Mined(longer) = Mined(blocks) \union block
  <1> DEFINE empties == [i \in 1 .. fork |-> {}]
             begun == blocks \o <<block>>
             longer == begun \o empties
  <1>1. empties \in Blocks /\ Len(empties) = fork /\ \A i \in 1 .. fork : empties[i] = {}
    <2>1. empties \in [1 .. fork -> SUBSET Txs]
      OBVIOUS
    <2>2. empties \in Blocks
      BY <2>1, SeqDef DEF Blocks
    <2>3. DOMAIN empties = 1 .. fork
      OBVIOUS
    <2>4. QED
      BY <2>2, <2>3, HoldingType
  <1>2. /\ begun \in Blocks /\ Len(begun) = Len(blocks) + 1
        /\ Mined(begun) = Mined(blocks) \union block
    <2>1. begun = Append(blocks, block)
      BY AppendIsConcat DEF Blocks
    <2>2. QED
      BY <2>1, MinedAppend
  <1> HIDE DEF empties, begun
  <1>3. /\ longer \in Blocks /\ Len(longer) = Len(begun) + fork
        /\ \A i \in 1 .. Len(begun) + fork :
              longer[i] = IF i <= Len(begun) THEN begun[i] ELSE empties[i - Len(begun)]
    BY <1>1, <1>2, ConcatProperties DEF Blocks
  <1> HIDE DEF longer
  <1>4. /\ Len(begun) \in Nat /\ DOMAIN begun = 1 .. Len(begun)
        /\ DOMAIN longer = 1 .. Len(begun) + fork
    BY <1>2, <1>3, HoldingType
  <1>5. ASSUME NEW tx PROVE tx \in Mined(longer) <=> tx \in Mined(begun)
    <2>1. tx \in Mined(longer) <=> \E h \in 1 .. Len(begun) + fork : tx \in longer[h]
      BY <1>4 DEF Mined
    <2>2. tx \in Mined(begun) <=> \E h \in 1 .. Len(begun) : tx \in begun[h]
      BY <1>4 DEF Mined
    <2>3. \A h \in 1 .. Len(begun) + fork : tx \in longer[h] => h <= Len(begun)
      <3> TAKE h \in 1 .. Len(begun) + fork
      <3>1. CASE ~(h <= Len(begun))
        <4>1. h - Len(begun) \in 1 .. fork
          BY <1>4, <3>1
        <4>2. QED
          BY <1>1, <1>3, <3>1, <4>1
      <3>2. QED
        BY <3>1
    <2>4. QED
      BY <1>3, <1>4, <2>1, <2>2, <2>3
  <1>6. Mined(longer) = Mined(begun)
    BY <1>5
  <1>7. Len(blocks) \in Nat
    BY HoldingType
  <1>8. Len(longer) = Len(blocks) + 1 + fork /\ Mined(longer) = Mined(blocks) \union block
    BY <1>2, <1>3, <1>6, <1>7
  <1>9. QED
    BY <1>3, <1>8 DEF longer, begun, empties

-----------------------------------------------------------------------------
(* The invariant *)

\* What the chain and the wallet hold.  No two transactions of the chain spend one
\* coin.
NodesInv ==
    /\ chain \in Blocks /\ Height <= MaxHeight
    /\ pool \subseteq Txs /\ watching \in BOOLEAN /\ known \subseteq Txs
    /\ Consistent(Mined(chain))

CallType ==
    \/ call = NoCall
    \/ call \in [op : {"list"}, tip : Depths, since : Sinces]
    \/ call \in [op : {"depth"}, tx : Txs, height : 1 .. MaxHeight, since : Sinces]

\* What Esplora's first request is still worth: the chain is no shorter than the
\* tip that was read, and a transaction stays in the block that was read until a
\* reorganisation.
CallInv ==
    /\ call.op = "list" => /\ call.tip <= Height
                           /\ call.since = "still" => call.tip = Height
    /\ (call.op = "depth" /\ call.since # "forked") =>
          call.tx \in Mined(chain) /\ call.height = HeightOf(call.tx)

AnswerType ==
    \/ answer = NoCall
    \/ answer \in [backend : {"core", "esplora"}, op : {"list"},
                   value : Listed, truth : Listed, since : Sinces]
    \/ answer \in [backend : {"core", "esplora"}, op : {"depth"},
                   value : Depths \union {Absent}, truth : Depths, since : Sinces]
    \/ answer.op = "fee" /\ answer.value \in Nat \union {NoEstimate}

AnswerInv ==
    /\ AnswerType
    /\ ListIsCautious /\ QuietAnswersAreTrue /\ DepthTrueButForReorgs /\ EstimatesAreFaithful

IInv == NodesInv /\ CallType /\ CallInv /\ AnswerInv

LEMMA InitInv == Init => IInv
  <1> SUFFICES ASSUME Init PROVE IInv
    OBVIOUS
  <1>1. <<>> \in Blocks /\ Len(<<>>) = 0
    BY EmptySeq DEF Blocks
  <1>2. Mined(<<>>) = {}
    BY <1>1, HoldingType DEF Mined
  <1>3. NodesInv
    <2>1. Consistent({})
      BY DEF Consistent
    <2>2. 0 <= MaxHeight
      BY ChainAssumption
    <2>3. QED
      BY <1>1, <1>2, <2>1, <2>2 DEF Init, NodesInv, Height
  <1>4. QED
    BY <1>3 DEF Init, IInv, CallType, CallInv, AnswerInv, AnswerType, NoCall, ListIsCautious,
       QuietAnswersAreTrue, DepthTrueButForReorgs, EstimatesAreFaithful

LEMMA SameAnswer == ASSUME AnswerInv, UNCHANGED answer PROVE AnswerInv'
  BY DEF AnswerInv, AnswerType, ListIsCautious, QuietAnswersAreTrue, DepthTrueButForReorgs,
     EstimatesAreFaithful

\* The depth of any transaction, and what Utxos says of the coins.
LEMMA DepthType ==
    ASSUME NodesInv, NEW tx
    PROVE  /\ Height \in Nat /\ MaxHeight \in Nat
           /\ Depth(tx) \in 0 .. Height /\ Depth(tx) \in Depths
           /\ Depth(tx) = 0 <=> tx \notin Mined(chain)
  <1>1. chain \in Blocks /\ Len(chain) <= MaxHeight /\ MaxHeight \in Nat
    BY ChainAssumption DEF NodesInv, Height
  <1>2. /\ DepthIn(chain, tx) \in 0 .. Len(chain)
        /\ DepthIn(chain, tx) = 0 <=> tx \notin Mined(chain)
    BY <1>1, DepthOf
  <1>3. Len(chain) \in Nat
    BY <1>1, HoldingType
  <1>4. DepthIn(chain, tx) \in 0 .. MaxHeight
    BY <1>1, <1>2, <1>3
  <1>5. QED
    BY <1>1, <1>2, <1>3, <1>4 DEF Depth, Height, Depths

LEMMA UtxosType ==
    ASSUME NodesInv
    PROVE  Utxos \in Listed /\ \A c \in Coins : Utxos[c] = IF Unspent(c) THEN Depth(Pay(c)) ELSE Absent
  BY DepthType DEF Utxos, Listed

-----------------------------------------------------------------------------
(* The chain moves *)

\* An open question outlives a move of the chain, and remembers it.
LEMMA CallMoves ==
    ASSUME NodesInv, CallType, CallInv,
           NEW blocks \in Blocks, Height <= Len(blocks),
           chain' = blocks,
           call' = IF call.op = "none" THEN call
                   ELSE [call EXCEPT !.since = Since(@, blocks)]
    PROVE  CallType' /\ CallInv'
  <1>1. CASE call.op = "none"
    BY <1>1 DEF CallType, CallInv, NoCall
  <1> DEFINE since == Since(call.since, blocks)
  <1>2. since \in {"forked", "moved"} /\ since \in Sinces /\ since # "still"
    BY DEF Since, Sinces
  <1>3. CASE call \in [op : {"list"}, tip : Depths, since : Sinces]
    <2> HIDE DEF since
    <2>1. call' = [call EXCEPT !.since = since]
      BY <1>3 DEF since
    <2>2. /\ call' \in [op : {"list"}, tip : Depths, since : Sinces]
          /\ call'.op = "list" /\ call'.tip = call.tip /\ call'.since = since
      BY <1>2, <1>3, <2>1
    <2>3. call.tip \in Nat /\ call.tip <= Height /\ Height \in Nat /\ Len(blocks) \in Nat
      BY <1>3, DepthType, HoldingType DEF CallInv, Depths
    <2>4. call'.tip <= Height'
      BY <2>2, <2>3 DEF Height
    <2>5. QED
      BY <1>2, <2>2, <2>4 DEF CallType, CallInv
  <1>4. CASE call \in [op : {"depth"}, tx : Txs, height : 1 .. MaxHeight, since : Sinces]
    <2>1. ASSUME since # "forked"
          PROVE  call.tx \in Mined(blocks) /\ call.height = Len(blocks) - DepthIn(blocks, call.tx) + 1
      <3>1. call.since # "forked" /\ SubSeq(blocks, 1, Height) = chain
        BY <2>1 DEF Since
      <3>2. call.tx \in Mined(chain) /\ call.height = Height - DepthIn(chain, call.tx) + 1
        BY <1>4, <3>1 DEF CallInv, HeightOf, Depth
      <3>3. /\ call.tx \in Mined(blocks)
            /\ DepthIn(blocks, call.tx) = DepthIn(chain, call.tx) + Len(blocks) - Len(chain)
        BY <3>1, <3>2, DepthGrows DEF NodesInv, Height
      <3>4. DepthIn(chain, call.tx) \in Int /\ Len(chain) \in Nat /\ Len(blocks) \in Nat
        BY HoldingType, DepthType DEF Depth, NodesInv, Depths
      <3>5. QED
        BY <3>2, <3>3, <3>4 DEF Height
    <2> HIDE DEF since
    <2>2. call' = [call EXCEPT !.since = since]
      BY <1>4 DEF since
    <2>3. /\ call' \in [op : {"depth"}, tx : Txs, height : 1 .. MaxHeight, since : Sinces]
          /\ call'.op = "depth" /\ call'.tx = call.tx /\ call'.height = call.height
          /\ call'.since = since
      BY <1>2, <1>4, <2>2
    <2>4. since # "forked" => (call.tx \in Mined(chain))' /\ (call.height = HeightOf(call.tx))'
      <3>1. (call.tx \in Mined(chain))' <=> call'.tx \in Mined(blocks)
        OBVIOUS
      <3>2. HeightOf(call.tx)' = Len(blocks) - DepthIn(blocks, call'.tx) + 1
        BY DEF HeightOf, Depth, Height
      <3>3. QED
        BY <2>1, <2>3, <3>1, <3>2
    <2>5. CallType'
      BY <2>3 DEF CallType
    <2>6. QED
      BY <2>3, <2>4, <2>5 DEF CallInv
  <1>5. CASE call = NoCall
    BY <1>1, <1>5 DEF NoCall
  <1>6. QED
    BY <1>3, <1>4, <1>5 DEF CallType

\* A move to a chain that is no shorter and spends nothing twice.
LEMMA MoveStep ==
    ASSUME IInv, NEW blocks \in Blocks, NEW waiting \in SUBSET Txs,
           Height <= Len(blocks), Len(blocks) <= MaxHeight, Consistent(Mined(blocks)),
           Move(blocks, waiting)
    PROVE  IInv'
  <1>1. /\ chain' = blocks /\ pool' = waiting /\ UNCHANGED <<watching, answer>>
        /\ known' = IF watching
                      THEN Recognised(known, (Mined(blocks) \ Mined(chain)) \union waiting)
                      ELSE known
        /\ call' = IF call.op = "none" THEN call
                   ELSE [call EXCEPT !.since = Since(@, blocks)]
    BY DEF Move
  <1>2. Mined(blocks) \subseteq Txs
    <2>1. \A h \in DOMAIN blocks : blocks[h] \in SUBSET Txs
      BY HoldingType, ElementOfSeq DEF Blocks
    <2>2. QED
      BY <2>1 DEF Mined
  <1>3. known' \subseteq Txs
    BY <1>1, <1>2 DEF Recognised, IInv, NodesInv
  <1>4. NodesInv'
    BY <1>1, <1>3 DEF IInv, NodesInv, Height
  <1>5. CallType' /\ CallInv'
    BY <1>1, CallMoves DEF IInv
  <1>6. QED
    BY <1>1, <1>4, <1>5, SameAnswer DEF IInv

LEMMA PoolSteps ==
    ASSUME IInv, NEW c \in Coins, Deposit(c) \/ Replace(c) \/ Broadcast(c)
    PROVE  IInv'
  <1>1. Pay(c) \in Txs /\ Rival(c) \in Txs /\ Spend(c) \in Txs
    BY DEF Pay, Rival, Spend, Txs
  <1>2. PICK waiting \in SUBSET Txs : Move(chain, waiting)
    BY <1>1 DEF Deposit, Replace, Broadcast, IInv, NodesInv
  <1>3. chain \in Blocks /\ Height <= Len(chain) /\ Len(chain) <= MaxHeight
    BY HoldingType DEF IInv, NodesInv, Height
  <1>4. QED
    BY <1>2, <1>3, MoveStep DEF IInv, NodesInv

LEMMA MineStep == ASSUME IInv, Mine PROVE IInv'
  <1>1. PICK block \in SUBSET pool : /\ Consistent(Mined(chain) \union block)
                                     /\ Move(Append(chain, block), pool \ block)
    BY DEF Mine
  <1>2. block \in SUBSET Txs /\ chain \in Blocks /\ pool \ block \in SUBSET Txs
    BY DEF IInv, NodesInv
  <1>3. Len(chain) < MaxHeight /\ MaxHeight \in Nat /\ Len(chain) \in Nat
    BY <1>2, ChainAssumption, HoldingType DEF Mine, Height
  <1>4. /\ Append(chain, block) \in Blocks
        /\ Len(Append(chain, block)) = Len(chain) + 1
        /\ Mined(Append(chain, block)) = Mined(chain) \union block
    BY <1>2, MinedAppend
  <1>5. Height <= Len(Append(chain, block)) /\ Len(Append(chain, block)) <= MaxHeight
    BY <1>3, <1>4 DEF Height
  <1>6. QED
    BY <1>1, <1>2, <1>4, <1>5, MoveStep

LEMMA ReorganiseStep == ASSUME IInv, Reorganise PROVE IInv'
  <1>1. PICK fork \in 1 .. MaxFork :
          /\ fork <= Height
          /\ LET kept == SubSeq(chain, 1, Height - fork)
                 freed == (Mined(chain) \ Mined(kept)) \union pool
                 rivals == {Rival(c) : c \in {d \in Coins : Pay(d) \in freed}}
             IN  \E block \in SUBSET (freed \union rivals) :
                    /\ Consistent(Mined(kept) \union block)
                    /\ Move(kept \o <<block>> \o [i \in 1 .. fork |-> {}],
                            {tx \in freed \ block :
                                /\ Rival(tx[2]) \notin block
                                /\ ~(tx[1] = "rival" /\ Pay(tx[2]) \in block)})
    BY DEF Reorganise
  <1> DEFINE kept == SubSeq(chain, 1, Height - fork)
             freed == (Mined(chain) \ Mined(kept)) \union pool
             rivals == {Rival(c) : c \in {d \in Coins : Pay(d) \in freed}}
  <1>2. /\ chain \in Blocks /\ Len(chain) \in Nat /\ DOMAIN chain = 1 .. Len(chain)
        /\ fork \in Nat /\ fork >= 1 /\ Height = Len(chain) /\ MaxHeight \in Nat
        /\ Height < MaxHeight
    BY ChainAssumption, HoldingType DEF IInv, NodesInv, Height, Reorganise
  <1>3. \A h \in 1 .. Len(chain) : chain[h] \in SUBSET Txs
    BY <1>2, ElementOfSeq DEF Blocks
  <1>4. kept \in Blocks /\ Len(kept) = Height - fork
    <2>1. 1 \in Int /\ Height - fork \in Int /\ \A i \in 1 .. Height - fork : chain[i] \in SUBSET Txs
      BY <1>2, <1>3
    <2>2. /\ kept \in Seq(SUBSET Txs)
          /\ Len(kept) = IF 1 <= Height - fork THEN Height - fork - 1 + 1 ELSE 0
      BY <2>1, SubSeqProperties
    <2>3. QED
      BY <1>1, <1>2, <2>2 DEF Blocks
  <1>5. freed \subseteq Txs /\ rivals \subseteq Txs
    <2>1. Mined(chain) \subseteq Txs
      BY <1>2, <1>3 DEF Mined
    <2>2. \A c \in Coins : Rival(c) \in Txs
      BY DEF Rival, Txs
    <2>3. QED
      BY <2>1, <2>2 DEF IInv, NodesInv
  <1>6. PICK block \in SUBSET (freed \union rivals) :
           /\ Consistent(Mined(kept) \union block)
           /\ Move(kept \o <<block>> \o [i \in 1 .. fork |-> {}],
                   {tx \in freed \ block :
                       /\ Rival(tx[2]) \notin block
                       /\ ~(tx[1] = "rival" /\ Pay(tx[2]) \in block)})
    BY <1>1
  <1> DEFINE longer == kept \o <<block>> \o [i \in 1 .. fork |-> {}]
             waiting == {tx \in freed \ block :
                            /\ Rival(tx[2]) \notin block
                            /\ ~(tx[1] = "rival" /\ Pay(tx[2]) \in block)}
  <1> HIDE DEF kept
  <1>7. block \in SUBSET Txs /\ waiting \in SUBSET Txs
    BY <1>5
  <1>8. /\ longer \in Blocks
        /\ Len(longer) = Len(kept) + 1 + fork
        /\ Mined(longer) = Mined(kept) \union block
    BY <1>2, <1>4, <1>7, MinedReorganised
  <1> HIDE DEF longer
  <1>9. Len(longer) = Height + 1
    BY <1>2, <1>4, <1>8
  <1>10. Height <= Len(longer) /\ Len(longer) <= MaxHeight
    BY <1>2, <1>9
  <1>11. Move(longer, waiting) /\ Consistent(Mined(longer))
    BY <1>6, <1>8 DEF longer
  <1> HIDE DEF waiting
  <1>12. QED
    BY <1>7, <1>8, <1>10, <1>11, MoveStep

LEMMA ImportStep == ASSUME IInv, ImportTrDescriptor PROVE IInv'
  <1>1. UNCHANGED <<chain, pool, call, answer>> /\ watching' = TRUE
    BY DEF ImportTrDescriptor
  <1>2. \A h \in DOMAIN chain : chain[h] \in SUBSET Txs
    BY HoldingType, ElementOfSeq DEF Blocks, IInv, NodesInv
  <1>3. known' \subseteq Txs
    BY <1>2 DEF ImportTrDescriptor, Recognised, IInv, NodesInv
  <1>4. NodesInv'
    BY <1>1, <1>3 DEF IInv, NodesInv, Height
  <1>5. CallType' /\ CallInv'
    BY <1>1 DEF IInv, CallType, CallInv, HeightOf, Depth, Height
  <1>6. QED
    BY <1>1, <1>4, <1>5, SameAnswer DEF IInv

-----------------------------------------------------------------------------
(* Answers about the chain *)

\* An answer leaves the nodes alone.
LEMMA AnswerStep ==
    ASSUME IInv, UNCHANGED nodes, AnswerInv', CallType', CallInv' PROVE IInv'
  BY DEF IInv, NodesInv, nodes, Height

LEMMA SameCall ==
    ASSUME IInv, UNCHANGED nodes, call' = call \/ call' = NoCall PROVE CallType' /\ CallInv'
  BY DEF IInv, CallType, CallInv, nodes, NoCall, HeightOf, Depth, Height

\* What a list must say for the properties to hold of it.
LEMMA ListAnswered ==
    ASSUME NodesInv, NEW backend \in {"core", "esplora"}, NEW value \in Listed,
           NEW since \in Sinces,
           Answered(backend, "list", value, Utxos, since),
           backend = "esplora" =>
               \A c \in Coins : /\ value[c] = Absent <=> Utxos[c] = Absent
                                /\ value[c] = 0 <=> Utxos[c] = 0
                                /\ value[c] <= Utxos[c],
           since = "still" =>
               \A c \in Coins : \/ value[c] = Utxos[c]
                                \/ backend = "core" /\ value[c] = Absent
    PROVE  AnswerInv'
  <1> DEFINE truth == Utxos
  <1>1. truth \in Listed
    BY UtxosType
  <1>2. answer' = [backend |-> backend, op |-> "list", value |-> value, truth |-> truth,
                   since |-> since]
    BY DEF Answered
  <1>3. \A c \in Coins : /\ (truth[c] = Utxos[c])
                         /\ (backend = "esplora") =>
                               /\ value[c] = Absent <=> truth[c] = Absent
                               /\ value[c] = 0 <=> truth[c] = 0
                               /\ value[c] <= truth[c]
                         /\ (since = "still") => \/ value[c] = truth[c]
                                                 \/ backend = "core" /\ value[c] = Absent
    OBVIOUS
  <1> HIDE DEF truth
  <1>4. /\ answer'.op = "list" /\ answer'.backend = backend /\ answer'.value = value
        /\ answer'.truth = truth /\ answer'.since = since
    BY <1>2
  <1>5. AnswerType'
    BY <1>1, <1>2 DEF AnswerType
  <1>6. ListIsCautious' /\ QuietAnswersAreTrue'
    BY <1>3, <1>4 DEF ListIsCautious, QuietAnswersAreTrue
  <1>7. DepthTrueButForReorgs' /\ EstimatesAreFaithful'
    BY <1>4 DEF DepthTrueButForReorgs, EstimatesAreFaithful
  <1>8. QED
    BY <1>5, <1>6, <1>7 DEF AnswerInv

\* What a depth must say.
LEMMA DepthAnswered ==
    ASSUME NEW backend \in {"core", "esplora"}, NEW value \in Depths \union {Absent},
           NEW truth \in Depths, NEW since \in Sinces,
           Answered(backend, "depth", value, truth, since),
           since = "still" => value \in {truth, Absent},
           backend = "esplora" /\ since # "forked" => value = truth
    PROVE  AnswerInv'
  <1>1. answer' = [backend |-> backend, op |-> "depth", value |-> value, truth |-> truth,
                   since |-> since]
    BY DEF Answered
  <1>2. /\ answer'.op = "depth" /\ answer'.backend = backend /\ answer'.value = value
        /\ answer'.truth = truth /\ answer'.since = since
    BY <1>1
  <1>3. AnswerType'
    BY <1>1 DEF AnswerType
  <1>4. ListIsCautious' /\ EstimatesAreFaithful'
    BY <1>2 DEF ListIsCautious, EstimatesAreFaithful
  <1>5. QuietAnswersAreTrue' /\ DepthTrueButForReorgs'
    BY <1>2 DEF QuietAnswersAreTrue, DepthTrueButForReorgs
  <1>6. QED
    BY <1>3, <1>4, <1>5 DEF AnswerInv

LEMMA CoreListStep == ASSUME IInv, CoreListUtxos PROVE IInv'
  <1> DEFINE value == [c \in Coins |-> IF Pay(c) \in known THEN Utxos[c] ELSE Absent]
  <1>1. Answered("core", "list", value, Utxos, "still") /\ UNCHANGED <<nodes, call>>
    BY DEF CoreListUtxos
  <1>2. Utxos \in Listed
    BY UtxosType DEF IInv
  <1>3. value \in Listed /\ \A c \in Coins : value[c] \in {Utxos[c], Absent}
    BY <1>2 DEF Listed
  <1> HIDE DEF value
  <1>4. AnswerInv'
    BY <1>1, <1>3, ListAnswered DEF IInv, Sinces
  <1>5. QED
    BY <1>1, <1>4, SameCall, AnswerStep

\* What gettransaction counts below zero, confirmation_depth calls unconfirmed,
\* and so it is: the rival is mined.
LEMMA CoreDepthStep ==
    ASSUME IInv, NEW tx \in Txs, CoreConfirmationDepth(tx) PROVE IInv'
  <1> DEFINE value == IF tx \in known THEN AtLeastZero(WalletConfirmations(tx)) ELSE Absent
  <1>1. Answered("core", "depth", value, Depth(tx), "still") /\ UNCHANGED <<nodes, call>>
    BY DEF CoreConfirmationDepth
  <1>2. Depth(tx) \in Depths /\ Depth(tx) >= 0 /\ Depth(tx) \in Int /\ 0 \in Depths
    BY DepthType DEF IInv, Depths
  <1>3. AtLeastZero(WalletConfirmations(tx)) = Depth(tx)
    <2>1. CASE tx # Rival(tx[2]) /\ Rival(tx[2]) \in Mined(chain)
      <3>1. PICK c \in Coins : tx = Pay(c) \/ tx = Rival(c) \/ tx = Spend(c)
        BY DEF Txs, Pay, Rival, Spend
      <3>2. tx[2] = c
        BY <3>1 DEF Pay, Rival, Spend
      <3>3. tx \notin Mined(chain)
        BY <2>1, <3>1, <3>2 DEF IInv, NodesInv, Consistent
      <3>4. Depth(tx) = 0
        BY <3>3, DepthType DEF IInv
      <3>5. Depth(Rival(tx[2])) \in Nat
        BY DepthType DEF IInv, Depths
      <3>6. WalletConfirmations(tx) = -Depth(Rival(tx[2]))
        BY <2>1 DEF WalletConfirmations
      <3>7. QED
        BY <3>4, <3>5, <3>6 DEF AtLeastZero, Greater
    <2>2. CASE ~(tx # Rival(tx[2]) /\ Rival(tx[2]) \in Mined(chain))
      <3>1. WalletConfirmations(tx) = Depth(tx)
        BY <2>2 DEF WalletConfirmations
      <3>2. QED
        BY <1>2, <3>1 DEF AtLeastZero, Greater
    <2>3. QED
      BY <2>1, <2>2
  <1>4. value \in Depths \union {Absent} /\ value \in {Depth(tx), Absent}
    BY <1>2, <1>3
  <1> HIDE DEF value
  <1>5. AnswerInv'
    BY <1>1, <1>2, <1>4, DepthAnswered DEF Sinces
  <1>6. QED
    BY <1>1, <1>5, SameCall, AnswerStep

LEMMA AskTipStep == ASSUME IInv, EsploraAskTip PROVE IInv'
  <1>1. /\ call' = [op |-> "list", tip |-> Height, since |-> "still"]
        /\ UNCHANGED <<nodes, answer>>
    BY DEF EsploraAskTip
  <1>2. Height \in Depths /\ Height \in Nat /\ Height' = Height
    BY <1>1, DepthType DEF IInv, NodesInv, Depths, nodes, Height
  <1>3. CallType'
    BY <1>1, <1>2 DEF CallType, Sinces
  <1>4. CallInv'
    BY <1>1, <1>2 DEF CallInv
  <1>5. QED
    BY <1>1, <1>3, <1>4, SameAnswer, AnswerStep DEF IInv

\* The tip that was read is not above the chain's by now, and no output lies above
\* the tip it is counted from by more than the move in between.
LEMMA EsploraListStep == ASSUME IInv, EsploraListUtxos PROVE IInv'
  <1> DEFINE value == [c \in Coins |-> IF Unspent(c) THEN CountConfirmations(c) ELSE Absent]
  <1>1. /\ call.op = "list" /\ Answered("esplora", "list", value, Utxos, call.since)
        /\ call' = NoCall /\ UNCHANGED nodes
    BY DEF EsploraListUtxos
  <1>2. /\ call.tip \in Nat /\ call.tip <= Height /\ call.since \in Sinces
        /\ call.since = "still" => call.tip = Height
    BY <1>1 DEF IInv, CallType, CallInv, NoCall, Depths
  <1>3. /\ Height \in Nat /\ MaxHeight \in Nat /\ Height <= MaxHeight
    BY DepthType DEF IInv, NodesInv
  <1>4. ASSUME NEW c \in Coins
        PROVE  /\ CountConfirmations(c) \in Depths
               /\ CountConfirmations(c) = 0 <=> Depth(Pay(c)) = 0
               /\ CountConfirmations(c) <= Depth(Pay(c))
               /\ call.since = "still" => CountConfirmations(c) = Depth(Pay(c))
    <2>1. Depth(Pay(c)) \in 0 .. Height
      BY DepthType DEF IInv
    <2>2. CASE Depth(Pay(c)) = 0
      BY <1>3, <2>2 DEF CountConfirmations, Depths
    <2>3. CASE Depth(Pay(c)) # 0
      <3>1. CountConfirmations(c) = Greater(call.tip - (Height - Depth(Pay(c)) + 1), 0) + 1
        BY <2>3 DEF CountConfirmations, Confirmations, HeightOf
      <3> DEFINE depth == Depth(Pay(c))
      <3>2. /\ depth \in 1 .. Height
            /\ CountConfirmations(c) = Greater(call.tip - (Height - depth + 1), 0) + 1
        BY <1>3, <2>1, <2>3, <3>1
      <3> HIDE DEF depth
      <3>3. /\ CountConfirmations(c) \in 1 .. depth
            /\ call.tip = Height => CountConfirmations(c) = depth
        BY <1>2, <1>3, <3>2 DEF Greater
      <3>4. QED
        BY <1>2, <1>3, <3>2, <3>3 DEF depth, Depths
    <2>4. QED
      BY <2>2, <2>3
  <1>5. value \in Listed
    BY <1>4 DEF Listed
  <1>6. ASSUME NEW c \in Coins
        PROVE  /\ value[c] = Absent <=> Utxos[c] = Absent
               /\ value[c] = 0 <=> Utxos[c] = 0
               /\ value[c] <= Utxos[c]
               /\ call.since = "still" => value[c] = Utxos[c]
    <2>1. Utxos[c] = IF Unspent(c) THEN Depth(Pay(c)) ELSE Absent
      BY DEF Utxos
    <2>2. Depth(Pay(c)) \in Nat
      BY DepthType DEF IInv, Depths
    <2>3. CountConfirmations(c) \in Nat
      BY <1>4 DEF Depths
    <2>4. QED
      BY <1>4, <2>1, <2>2, <2>3 DEF Absent
  <1> HIDE DEF value
  <1>7. AnswerInv'
    BY <1>1, <1>2, <1>5, <1>6, ListAnswered DEF IInv
  <1>8. QED
    BY <1>1, <1>7, SameCall, AnswerStep

LEMMA AskStatusStep == ASSUME IInv, NEW tx \in Txs, EsploraAskStatus(tx) PROVE IInv'
  <1>1. UNCHANGED nodes
    BY DEF EsploraAskStatus
  <1>2. /\ chain \in Blocks /\ Height \in Nat /\ MaxHeight \in Nat /\ Height <= MaxHeight
        /\ Depth(tx) \in 0 .. Height
        /\ Depth(tx) = 0 <=> tx \notin Mined(chain)
    BY DepthType DEF IInv, NodesInv
  <1>3. CASE Depth(tx) = 0
    <2>1. Answered("esplora", "depth", 0, 0, "still") /\ UNCHANGED call
      BY <1>3 DEF EsploraAskStatus
    <2>2. 0 \in Depths
      BY <1>2 DEF Depths
    <2>3. AnswerInv'
      BY <2>1, <2>2, DepthAnswered DEF Sinces
    <2>4. QED
      BY <1>1, <2>1, <2>3, SameCall, AnswerStep
  <1>4. CASE Depth(tx) # 0
    <2>1. /\ call' = [op |-> "depth", tx |-> tx, height |-> HeightOf(tx), since |-> "still"]
          /\ UNCHANGED answer
      BY <1>4 DEF EsploraAskStatus
    <2>2. HeightOf(tx) \in 1 .. MaxHeight
      <3> DEFINE depth == Depth(tx)
      <3>1. depth \in 0 .. Height /\ depth # 0 /\ HeightOf(tx) = Height - depth + 1
        BY <1>2, <1>4 DEF HeightOf
      <3> HIDE DEF depth
      <3>2. QED
        BY <1>2, <3>1
    <2>3. CallType'
      BY <2>1, <2>2 DEF CallType, Sinces
    <2>4. call'.op = "depth" /\ call'.tx = tx /\ call'.height = HeightOf(tx)
      BY <2>1
    <2>5. HeightOf(call.tx)' = HeightOf(tx) /\ (call.tx \in Mined(chain))'
      BY <1>1, <1>2, <1>4, <2>4 DEF HeightOf, Depth, Height, nodes
    <2>6. CallInv'
      BY <2>4, <2>5 DEF CallInv
    <2>7. QED
      BY <1>1, <2>1, <2>3, <2>6, SameAnswer, AnswerStep DEF IInv
  <1>5. QED
    BY <1>3, <1>4

LEMMA EsploraDepthStep == ASSUME IInv, EsploraConfirmationDepth PROVE IInv'
  <1> DEFINE value == Confirmations(Height, call.height)
  <1>1. /\ call.op = "depth"
        /\ Answered("esplora", "depth", value, Depth(call.tx), call.since)
        /\ call' = NoCall /\ UNCHANGED nodes
    BY DEF EsploraConfirmationDepth
  <1>2. call.height \in 1 .. MaxHeight /\ call.since \in Sinces
    BY <1>1 DEF IInv, CallType, NoCall
  <1>3. /\ Height \in Nat /\ MaxHeight \in Nat /\ Height <= MaxHeight
        /\ Depth(call.tx) \in Depths /\ Depth(call.tx) \in 0 .. Height
        /\ Depth(call.tx) = 0 <=> call.tx \notin Mined(chain)
    BY DepthType DEF IInv, NodesInv
  <1>4. value \in Depths
    BY <1>2, <1>3 DEF Confirmations, Greater, Depths
  <1>5. call.since # "forked" => value = Depth(call.tx)
    <2> SUFFICES ASSUME call.since # "forked" PROVE value = Depth(call.tx)
      OBVIOUS
    <2>1. call.tx \in Mined(chain) /\ call.height = Height - Depth(call.tx) + 1
      BY <1>1 DEF IInv, CallInv, HeightOf
    <2> DEFINE depth == Depth(call.tx)
    <2>2. depth \in 1 .. Height /\ call.height = Height - depth + 1
      BY <1>3, <2>1
    <2> HIDE DEF depth
    <2>3. value = depth
      BY <1>3, <2>2 DEF Confirmations, Greater
    <2>4. QED
      BY <2>3 DEF depth
  <1> HIDE DEF value
  <1>6. AnswerInv'
    BY <1>1, <1>2, <1>3, <1>4, <1>5, DepthAnswered
  <1>7. QED
    BY <1>1, <1>6, SameCall, AnswerStep

-----------------------------------------------------------------------------
(* Fee estimates *)

\* The loss of a conversion through whole satoshis per byte.
LEMMA ConvertIsClose ==
    ASSUME NEW kvb \in Nat
    PROVE  Convert(kvb) \in Nat /\ WithinOneSat(kvb, Convert(kvb))
  <1> DEFINE whole == kvb \div 1000
  <1>1. whole \in Nat /\ 1000 * whole <= kvb /\ kvb < 1000 * whole + 1000
    OBVIOUS
  <1>2. Convert(kvb) = whole * 250
    BY DEF Convert, FromSatPerVb
  <1> HIDE DEF whole
  <1>3. QED
    BY <1>1, <1>2 DEF WithinOneSat

\* In a market the bucket that pick_fee chooses is the cheapest that is in time,
\* or the dearest if all are late.
LEMMA PickIsCheapest ==
    ASSUME NEW estimates \in [Buckets -> Rates \union {NoEstimate}], NEW target \in Nat
    PROVE  /\ PickFee(estimates, target) \in Nat \union {NoEstimate}
           /\ IsMarket(estimates) =>
                 CheapestInTime(estimates, target, PickFee(estimates, target))
  <1> DEFINE available == Available(estimates)
             qualify == {k \in available : k <= target}
             rate == PickFee(estimates, target)
  <1>1. /\ available \in SUBSET Nat /\ qualify \in SUBSET Nat /\ available \subseteq Buckets
        /\ \A k \in available : estimates[k] \in Nat /\ estimates[k] # NoEstimate
    BY FeeAssumption DEF Available
  <1>2. CASE available = {}
    BY <1>2 DEF PickFee, CheapestInTime
  <1>3. CASE available # {} /\ qualify = {}
    <2> DEFINE bucket == Finest(available)
    <2>1. bucket \in available /\ \A j \in available : bucket <= j
      BY <1>1, <1>3, LeastNat DEF Finest
    <2>2. rate = estimates[bucket]
      BY <1>3 DEF PickFee
    <2> HIDE DEF bucket, rate
    <2>3. rate \in Nat /\ rate # NoEstimate
      BY <1>1, <2>1, <2>2
    <2>4. IsMarket(estimates) => \A k \in available : estimates[k] <= rate
      BY <1>1, <2>1, <2>2 DEF IsMarket
    <2>5. IsMarket(estimates) => CheapestInTime(estimates, target, rate)
      BY <1>3, <2>3, <2>4 DEF CheapestInTime
    <2>6. QED
      BY <2>3, <2>5 DEF rate
  <1>4. CASE qualify # {}
    <2> DEFINE bucket == Coarsest(qualify)
    <2>1. bucket \in qualify /\ \A j \in qualify : j <= bucket
      <3>1. \E i \in qualify : \A j \in qualify : j <= i
        BY <1>1, <1>4, GreatestNat
      <3>2. QED
        BY <3>1 DEF Coarsest
    <2>2. available # {} /\ rate = estimates[bucket]
      BY <1>4 DEF PickFee
    <2>3. bucket \in available /\ qualify \subseteq available
      BY <2>1
    <2> HIDE DEF bucket, rate
    <2>4. rate \in Nat /\ rate # NoEstimate
      BY <1>1, <2>2, <2>3
    <2>5. IsMarket(estimates) => \A k \in qualify : rate <= estimates[k]
      BY <1>1, <2>1, <2>2, <2>3 DEF IsMarket
    <2>6. \E k \in qualify : rate = estimates[k]
      BY <2>1, <2>2
    <2>7. IsMarket(estimates) => CheapestInTime(estimates, target, rate)
      BY <1>4, <2>2, <2>4, <2>5, <2>6 DEF CheapestInTime
    <2>8. QED
      BY <2>4, <2>7 DEF rate
  <1>5. QED
    BY <1>2, <1>3, <1>4

LEMMA FeeSteps ==
    ASSUME IInv, CoreEstimateFee \/ \E target \in Targets : EsploraEstimateFee(target)
    PROVE  IInv'
  <1>1. UNCHANGED <<nodes, call>>
    BY DEF CoreEstimateFee, EsploraEstimateFee
  <1>2. answer'.op = "fee" /\ answer'.value \in Nat \union {NoEstimate} /\ EstimatesAreFaithful'
    <2>1. CASE CoreEstimateFee
      <3>1. PICK kvb \in CoreRates \union {NoEstimate} :
               answer' = [backend |-> "core", op |-> "fee", estimate |-> kvb,
                          value |-> IF kvb = NoEstimate THEN NoEstimate ELSE Convert(kvb)]
        BY <2>1 DEF CoreEstimateFee
      <3>2. kvb # NoEstimate => Convert(kvb) \in Nat /\ WithinOneSat(kvb, Convert(kvb))
        BY FeeAssumption, ConvertIsClose
      <3>3. QED
        BY <3>1, <3>2 DEF EstimatesAreFaithful
    <2>2. ASSUME NEW target \in Targets, EsploraEstimateFee(target)
          PROVE  /\ answer'.op = "fee" /\ answer'.value \in Nat \union {NoEstimate}
                 /\ EstimatesAreFaithful'
      <3>1. PICK estimates \in [Buckets -> Rates \union {NoEstimate}] :
               answer' = [backend |-> "esplora", op |-> "fee", target |-> target,
                          estimate |-> estimates, value |-> PickFee(estimates, target)]
        BY <2>2 DEF EsploraEstimateFee
      <3>2. /\ PickFee(estimates, target) \in Nat \union {NoEstimate}
            /\ IsMarket(estimates) =>
                  CheapestInTime(estimates, target, PickFee(estimates, target))
        BY FeeAssumption, PickIsCheapest
      <3>3. QED
        BY <3>1, <3>2 DEF EstimatesAreFaithful
    <2>3. QED
      BY <2>1, <2>2
  <1>3. AnswerInv'
    BY <1>2 DEF AnswerInv, AnswerType, ListIsCautious, QuietAnswersAreTrue,
       DepthTrueButForReorgs
  <1>4. QED
    BY <1>1, <1>3, SameCall, AnswerStep

-----------------------------------------------------------------------------
(* The theorems *)

LEMMA NextInv == IInv /\ [Next]_vars => IInv'
  <1> SUFFICES ASSUME IInv, [Next]_vars PROVE IInv'
    OBVIOUS
  <1>1. CASE UNCHANGED vars
    <2>1. UNCHANGED nodes /\ UNCHANGED call /\ UNCHANGED answer
      BY <1>1 DEF vars
    <2>2. QED
      BY <2>1, SameCall, SameAnswer, AnswerStep DEF IInv
  <1>2. ASSUME NEW c \in Coins, Deposit(c) \/ Replace(c) \/ Broadcast(c) PROVE IInv'
    BY <1>2, PoolSteps
  <1>3. ASSUME NEW tx \in Txs, CoreConfirmationDepth(tx) \/ EsploraAskStatus(tx) PROVE IInv'
    BY <1>3, CoreDepthStep, AskStatusStep
  <1>4. QED
    BY <1>1, <1>2, <1>3, MineStep, ReorganiseStep, ImportStep, CoreListStep, AskTipStep,
       EsploraListStep, EsploraDepthStep, FeeSteps DEF Next

LEMMA Invariant == Spec => []IInv
  BY InitInv, NextInv, PTL DEF Spec

\* Every reachable state of the chain, the wallet and the questions is well typed;
\* a depth is between 0 and the height of the chain.
THEOREM TypesHold == Spec => []TypeOK
  <1>1. IInv => TypeOK
    BY DEF IInv, NodesInv, CallType, AnswerInv, AnswerType, TypeOK, Blocks
  <1>2. QED
    BY <1>1, Invariant, PTL

\* list_utxos of Esplora, which asks for the tip before it asks for the outputs,
\* never shows too many confirmations, whatever happens in between.
THEOREM EsploraListCautious == Spec => []ListIsCautious
  <1>1. IInv => ListIsCautious
    BY DEF IInv, AnswerInv
  <1>2. QED
    BY <1>1, Invariant, PTL

\* While nothing moves between two requests, both backends answer the truth, but
\* for what Core's wallet has not seen.
THEOREM BackendsAgreeWhenQuiet == Spec => []QuietAnswersAreTrue
  <1>1. IInv => QuietAnswersAreTrue
    BY DEF IInv, AnswerInv
  <1>2. QED
    BY <1>1, Invariant, PTL

\* Esplora's confirmation_depth, which asks for the transaction's height before
\* the tip's, is right unless the chain was reorganised in between.
THEOREM DepthSurvivesGrowth == Spec => []DepthTrueButForReorgs
  <1>1. IInv => DepthTrueButForReorgs
    BY DEF IInv, AnswerInv
  <1>2. QED
    BY <1>1, Invariant, PTL

\* Core's estimate loses less than one sat/vB, and pick_fee finds the cheapest
\* estimate that is in time.
THEOREM FeesFaithful == Spec => []EstimatesAreFaithful
  <1>1. IInv => EstimatesAreFaithful
    BY DEF IInv, AnswerInv
  <1>2. QED
    BY <1>1, Invariant, PTL
=============================================================================
