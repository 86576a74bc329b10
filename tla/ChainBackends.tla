---------------------------- MODULE ChainBackends ---------------------------
(***************************************************************************)
(* The two chain backends (src/src/chain/core_rpc.rs, src/src/chain/esplora.rs) *)
(* over a chain that grows, forks and replaces transactions while they ask    *)
(* about it, and with the fee estimates of FeeEstimates.  Bitcoin Core answers each question in one call, from a wallet    *)
(* that knows what it has seen since the descriptor was imported; Esplora      *)
(* knows every address, and two of its answers are put together from two       *)
(* requests.                                                                   *)
(*                                                                           *)
(* The nodes are external and taken at their word; both show the same chain.   *)
(* Each coin has the transaction that pays it to the group's address, a rival  *)
(* that spends the payer's input elsewhere, and the group's own spend.  A      *)
(* reorganisation never makes the chain shorter.                               *)
(***************************************************************************)
EXTENDS FeeEstimates, Sequences

CONSTANTS
    Coins,
    MaxHeight,      \* bound on the height of the chain
    MaxFork,        \* bound on the blocks a reorganisation takes back
    Window          \* the blocks an import "now" still looks back over

ASSUME ChainAssumption ==
    MaxHeight \in Nat /\ MaxFork \in Nat /\ Window \in Nat

Pay(c) == <<"pay", c>>
Rival(c) == <<"rival", c>>
Spend(c) == <<"spend", c>>
Txs == {"pay", "rival", "spend"} \X Coins

VARIABLES
    chain,      \* the blocks, each a set of transactions
    pool,       \* the mempool
    watching,   \* whether the descriptor has been imported into Core's wallet
    known,      \* the transactions Core's wallet knows
    call,       \* an Esplora question between its two requests
    answer      \* the last answer, with what was true

nodes == <<chain, pool, watching, known>>
vars == <<nodes, call, answer>>

NoCall == [op |-> "none"]

\* What a list says of a coin that is not in it.
Absent == -1

Init ==
    /\ chain = <<>>
    /\ pool = {}
    /\ watching = FALSE
    /\ known = {}
    /\ call = NoCall
    /\ answer = NoCall

Least(S) == CHOOSE i \in S : \A j \in S : i <= j
Greater(m, n) == IF m > n THEN m ELSE n

\* The confirmations of a transaction: 0 if no block holds it.
DepthIn(blocks, tx) ==
    LET holding == {h \in DOMAIN blocks : tx \in blocks[h]}
    IN  IF holding = {} THEN 0 ELSE Len(blocks) - Least(holding) + 1

Mined(blocks) == UNION {blocks[h] : h \in DOMAIN blocks}
Depth(tx) == DepthIn(chain, tx)
Height == Len(chain)
Unspent(c) == Pay(c) \in Mined(chain) \union pool /\ Spend(c) \notin Mined(chain) \union pool

\* The unspent outputs of the address, with their confirmations.
Utxos == [c \in Coins |-> IF Unspent(c) THEN Depth(Pay(c)) ELSE Absent]
-----------------------------------------------------------------------------
(* The chain *)

\* A set of transactions that may be mined next: no double spend, nothing whose
\* parent is missing.
Consistent(txs) ==
    \A c \in Coins :
        /\ ~(Pay(c) \in txs /\ Rival(c) \in txs)
        /\ Spend(c) \in txs => Pay(c) \in txs

\* What a wallet that knows some transactions knows when it has seen others: the
\* payments to the group, and the spends of the payments it knows.
Recognised(before, seen) ==
    LET payments == {tx \in before \union seen : tx[1] = "pay"}
    IN  before \union payments \union {tx \in seen : tx[1] = "spend" /\ Pay(tx[2]) \in payments}

\* What has happened since an open question's first request.
Since(before, blocks) ==
    IF before = "forked" \/ SubSeq(blocks, 1, Height) # chain THEN "forked" ELSE "moved"

\* The chain or the mempool moves, and with them what Core's wallet knows.
Move(blocks, waiting) ==
    /\ chain' = blocks
    /\ pool' = waiting
    /\ known' = IF watching
                  THEN Recognised(known, (Mined(blocks) \ Mined(chain)) \union waiting)
                  ELSE known
    /\ call' = IF call.op = "none" THEN call
               ELSE [call EXCEPT !.since = Since(@, blocks)]
    /\ UNCHANGED <<watching, answer>>

\* Someone pays the address, or replaces a payment that waits.
Deposit(c) ==
    /\ {Pay(c), Rival(c)} \cap (Mined(chain) \union pool) = {}
    /\ Move(chain, pool \union {Pay(c)})

Replace(c) ==
    /\ Pay(c) \in pool
    /\ Move(chain, (pool \ {Pay(c), Spend(c)}) \union {Rival(c)})

Mine ==
    /\ Height < MaxHeight
    /\ \E block \in SUBSET pool :
          /\ Consistent(Mined(chain) \union block)
          /\ Move(Append(chain, block), pool \ block)

\* The last blocks give way to one more of them; their transactions may be mined
\* again, lose to their rival, or wait.
Reorganise ==
    /\ Height < MaxHeight
    /\ \E fork \in 1 .. MaxFork :
          /\ fork <= Height
          /\ LET kept == SubSeq(chain, 1, Height - fork)
                 freed == (Mined(chain) \ Mined(kept)) \union pool
                 rivals == {Rival(c) : c \in {d \in Coins : Pay(d) \in freed}}
             IN  \E block \in SUBSET (freed \union rivals) :
                    /\ Consistent(Mined(kept) \union block)
                    /\ Move(kept \o <<block>> \o [i \in 1 .. fork |-> {}],
                            {tx \in freed \ block :
                                /\ Rival(tx[2]) \notin block
                                /\ ~(tx[1] = "rival" /\ Pay(tx[2]) \in block)})
-----------------------------------------------------------------------------
(* Bitcoin Core *)

\* import_tr_descriptor with Timestamp::Now: the wallet looks at the last blocks
\* and at the mempool, and from here on at everything.
ImportTrDescriptor ==
    LET recent == UNION {chain[h] : h \in {g \in DOMAIN chain : g > Height - Window}}
    IN  /\ ~watching
        /\ watching' = TRUE
        /\ known' = Recognised({}, recent \union pool)
        /\ UNCHANGED <<chain, pool, call, answer>>

\* A question is answered with a value; the truth at that time is kept beside it.
Answered(backend, op, value, truth, since) ==
    answer' = [backend |-> backend, op |-> op, value |-> value, truth |-> truth,
               since |-> since]

\* list_utxos: listunspent with no minimum of confirmations.
CoreListUtxos ==
    /\ call.op = "none"
    /\ Answered("core", "list",
                [c \in Coins |-> IF Pay(c) \in known THEN Utxos[c] ELSE Absent],
                Utxos, "still")
    /\ UNCHANGED <<nodes, call>>

\* gettransaction counts a transaction below zero when a rival is mined.
WalletConfirmations(tx) ==
    IF tx # Rival(tx[2]) /\ Rival(tx[2]) \in Mined(chain) THEN -Depth(Rival(tx[2]))
    ELSE Depth(tx)

\* A mutant: the sign is dropped.
Unsigned(n) == IF n < 0 THEN -n ELSE n

\* confirmations.max(0)
AtLeastZero(n) == Greater(n, 0)

\* confirmation_depth: an error if the wallet does not know the transaction.
CoreConfirmationDepth(tx) ==
    /\ call.op = "none"
    /\ Answered("core", "depth",
                IF tx \in known THEN AtLeastZero(WalletConfirmations(tx)) ELSE Absent,
                Depth(tx), "still")
    /\ UNCHANGED <<nodes, call>>
-----------------------------------------------------------------------------
(* Esplora *)

\* A mutant: a plain subtraction.
Distance(tip, height) == tip - height + 1

\* A mutant: the transaction's own block does not count.
BlocksAbove(tip, height) == Greater(tip - height, 0)

\* tip.saturating_sub(height) + 1
Confirmations(tip, height) == Greater(tip - height, 0) + 1

HeightOf(tx) == Height - Depth(tx) + 1

\* list_utxos asks for the tip's height first ...
EsploraAskTip ==
    /\ call.op = "none"
    /\ call' = [op |-> "list", tip |-> Height, since |-> "still"]
    /\ UNCHANGED <<nodes, answer>>

\* A mutant: the tip is taken for the outputs' depth.
CountFromTip(c) == IF Depth(Pay(c)) = 0 THEN 0 ELSE call.tip

\* The confirmations list_utxos reports.
CountConfirmations(c) ==
    IF Depth(Pay(c)) = 0 THEN 0 ELSE Confirmations(call.tip, HeightOf(Pay(c)))

\* ... and then for the outputs.
EsploraListUtxos ==
    /\ call.op = "list"
    /\ Answered("esplora", "list",
                [c \in Coins |-> IF Unspent(c) THEN CountConfirmations(c) ELSE Absent],
                Utxos, call.since)
    /\ call' = NoCall
    /\ UNCHANGED nodes

\* confirmation_depth asks for the transaction's status first ...
EsploraAskStatus(tx) ==
    /\ call.op = "none"
    /\ IF Depth(tx) = 0
         THEN Answered("esplora", "depth", 0, 0, "still") /\ UNCHANGED call
         ELSE /\ call' = [op |-> "depth", tx |-> tx, height |-> HeightOf(tx),
                          since |-> "still"]
              /\ UNCHANGED answer
    /\ UNCHANGED nodes

\* ... and then for the tip's height.
EsploraConfirmationDepth ==
    /\ call.op = "depth"
    /\ Answered("esplora", "depth", Confirmations(Height, call.height), Depth(call.tx),
                call.since)
    /\ call' = NoCall
    /\ UNCHANGED nodes
-----------------------------------------------------------------------------
\* broadcast, by either backend: the node takes the group's spend of a coin it
\* knows and that no rival has, or refuses it.  Sent again, it is taken again.
Broadcast(c) ==
    /\ Unspent(c)
    /\ Rival(c) \notin pool
    /\ Move(chain, pool \union {Spend(c)})

\* estimate_fee, which leaves the target to Core.
CoreEstimateFee ==
    /\ call.op = "none"
    /\ \E kvb \in CoreRates \union {NoEstimate} :
          answer' = [backend |-> "core", op |-> "fee", estimate |-> kvb,
                     value |-> IF kvb = NoEstimate THEN NoEstimate ELSE Convert(kvb)]
    /\ UNCHANGED <<nodes, call>>

EsploraEstimateFee(target) ==
    /\ call.op = "none"
    /\ \E estimates \in [Buckets -> Rates \union {NoEstimate}] :
          answer' = [backend |-> "esplora", op |-> "fee", target |-> target,
                     estimate |-> estimates, value |-> PickFee(estimates, target)]
    /\ UNCHANGED <<nodes, call>>

Next ==
    \/ \E c \in Coins : Deposit(c) \/ Replace(c) \/ Broadcast(c)
    \/ Mine \/ Reorganise
    \/ ImportTrDescriptor \/ CoreListUtxos
    \/ EsploraAskTip \/ EsploraListUtxos \/ EsploraConfirmationDepth
    \/ \E tx \in Txs : CoreConfirmationDepth(tx) \/ EsploraAskStatus(tx)
    \/ CoreEstimateFee \/ \E target \in Targets : EsploraEstimateFee(target)

Spec == Init /\ [][Next]_vars
-----------------------------------------------------------------------------
(* Properties *)

Depths == 0 .. MaxHeight
Listed == [Coins -> Depths \union {Absent}]
Sinces == {"still", "moved", "forked"}

\* Types of the nodes, of an open question and of its answer.
TypeOK ==
    /\ chain \in Seq(SUBSET Txs) /\ Height <= MaxHeight
    /\ pool \subseteq Txs
    /\ watching \in BOOLEAN
    /\ known \subseteq Txs
    /\ \/ call = NoCall
       \/ call \in [op : {"list"}, tip : Depths, since : Sinces]
       \/ call \in [op : {"depth"}, tx : Txs, height : 1 .. MaxHeight, since : Sinces]
    /\ \/ answer = NoCall
       \/ answer \in [backend : {"core", "esplora"}, op : {"list"},
                      value : Listed, truth : Listed, since : Sinces]
       \/ answer \in [backend : {"core", "esplora"}, op : {"depth"},
                      value : Depths \union {Absent}, truth : Depths, since : Sinces]
       \/ answer.op = "fee" /\ answer.value \in Nat \union {NoEstimate}

\* chain/mod.rs:69 "Confirmation depth (0 = unconfirmed / mempool)": however the
\* chain moves between Esplora's two requests, a list shows the coins that are
\* there, as unconfirmed exactly when they are, and with no more confirmations
\* than they have.
ListIsCautious ==
    (answer.op = "list" /\ answer.backend = "esplora") =>
        \A c \in Coins :
            /\ answer.value[c] = Absent <=> answer.truth[c] = Absent
            /\ answer.value[c] = 0 <=> answer.truth[c] = 0
            /\ answer.value[c] <= answer.truth[c]

\* STOR-04: while the chain stands still, both backends give the same answers, the
\* true ones, on everything Core's wallet has seen.
QuietAnswersAreTrue ==
    (answer.op \in {"list", "depth"} /\ answer.since = "still") =>
        IF answer.op = "depth" THEN answer.value \in {answer.truth, Absent}
        ELSE \A c \in Coins :
                answer.value[c] = answer.truth[c]
                    \/ (answer.backend = "core" /\ answer.value[c] = Absent)

\* Blocks that are mined between Esplora's two requests do no harm: only a
\* reorganisation makes its depth another than the one at the time it is answered.
DepthTrueButForReorgs ==
    (answer.op = "depth" /\ answer.backend = "esplora" /\ answer.since # "forked") =>
        answer.value = answer.truth

\* chain/mod.rs:89 "Estimate the fee rate for confirmation within `target` blocks":
\* Core's estimate passes three units (BTC/kvB, sat/vB, sat/kwu) with the loss of
\* less than one sat/vB, and of Esplora's, in a market, the one picked is the
\* cheapest that is in time.
EstimatesAreFaithful ==
    answer.op = "fee" =>
        IF answer.backend = "core"
          THEN IF answer.estimate = NoEstimate THEN answer.value = NoEstimate
               ELSE WithinOneSat(answer.estimate, answer.value)
          ELSE IsMarket(answer.estimate) =>
                   CheapestInTime(answer.estimate, answer.target, answer.value)
=============================================================================
