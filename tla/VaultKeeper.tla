----------------------------- MODULE VaultKeeper -----------------------------
(***************************************************************************)
(* The desk in vault mode (desk.ts 180-433, vault.ts): orders live in the  *)
(* vault program, and the Node process is one of the keepers that may fill *)
(* them.  It builds the place_order transaction a user signs (armVault),   *)
(* and on every tick it lists the open orders and submits an execute_fill  *)
(* for each one whose tape is ready.  It keeps no list of what it has      *)
(* submitted: what is still open at the next tick is tried again.          *)
(*                                                                         *)
(* The chain is MarkfillVault: a submitted transaction lands as one of its *)
(* instructions, at any later time or never.  Only this keeper fills; the  *)
(* others are KeeperStep of MarkfillVault and are left out here, as are    *)
(* orders placed past the desk.  The ledger is DeskLedger, of which vault  *)
(* mode writes the rows.                                                   *)
(*                                                                         *)
(* An action is what a tick does between two awaits.  busy is the tick not *)
(* being idle: deskTick returns at once while another one runs.            *)
(***************************************************************************)
EXTENDS MarkfillVault, Tape, FiniteSets

CONSTANTS
    EquityFeed,     \* pythEquity of each stock
    OnchainPrices,  \* what a tape or a quote may show
    References,     \* what a tape may take for the NYSE price
    MinSellUsd,     \* one dollar in USDC atoms
    ARM_TTL,        \* ARM_TTL_SEC: seconds until an armed order expires
    PROCESSED_CAP, RECORDS_CAP,
    NoPick, NoUpdate,
    MaxArms, MaxTxs, MaxCrashes     \* bounds of the model

Book == INSTANCE DeskLedger WITH Owners <- Users, Tickers <- Stocks

(* OpenOrder: the account of an order as listOpenOrders decoded it.        *)
OpenOrder == [owner : Users, id : Ids, order : Order]

ASSUME KeeperAssumption ==
    /\ EquityFeed \in [Stocks -> Feeds]
    /\ OnchainPrices \subseteq U64 /\ References \subseteq U64
    /\ Sides \subseteq {BUY, SELL}
    /\ \A s \in Stocks : Decimals[s] <= MAX_DECIMALS
    /\ MinSellUsd \in Nat \ {0} /\ ARM_TTL \in Nat
    /\ PROCESSED_CAP \in Nat \ {0} /\ RECORDS_CAP \in Nat \ {0}
    /\ NoPick \notin OpenOrder /\ NoUpdate \notin PriceUpdates
    /\ MaxArms \in Nat /\ MaxTxs \in Nat /\ MaxCrashes \in Nat

VARIABLES
    ledger,         \* data/ledger.json
    arms,           \* place_order transactions given to users to sign
    tick,           \* the deskTick that is running
    txs,            \* execute_fill transactions by signature
    crashes,
    missed          \* history: signatures whose answer was lost or whose tick died

keeperVars == <<ledger, arms, tick, txs, crashes, missed>>
allVars == <<vars, keeperVars>>

(* A transaction armVault prepared: the accounts and arguments of          *)
(* place_order, after an initialize_vault if there was no vault.           *)
Arm == [user : Users, init : BOOLEAN, id : 0..MaxOrders, order : Order]

FillTx == [listed : OpenOrder, min_out : U64, update : PriceUpdates,
           status : {"sent", "landed"}]

KeeperTick == [pc : {"idle", "scan", "orders", "tape", "quote", "route", "send", "answer"},
               left : SUBSET OpenOrder, pick : OpenOrder \cup {NoPick}, usd : Nat,
               min_out : Nat, update : PriceUpdates \cup {NoUpdate}, sig : 0..MaxTxs]

Idle == [pc |-> "idle", left |-> {}, pick |-> NoPick, usd |-> 0,
         min_out |-> 0, update |-> NoUpdate, sig |-> 0]

KeeperTypeOK ==
    /\ ledger \in Book!Ledger /\ ledger.arms = {}
    /\ \A r \in ledger.armRecords : r.status # "pending"
    /\ arms \subseteq Arm /\ Cardinality(arms) <= MaxArms
    /\ tick \in KeeperTick
    /\ txs \in Seq(FillTx) /\ Len(txs) <= MaxTxs
    /\ crashes \in 0..MaxCrashes
    /\ missed \subseteq DOMAIN txs

KeeperInit ==
    /\ Init
    /\ ledger = Book!empty
    /\ arms = {}
    /\ tick = Idle
    /\ txs = <<>>
    /\ crashes = 0
    /\ missed = {}

-----------------------------------------------------------------------------
(* Arming.                                                                 *)

(* Reads the vault for the next id and the balance, builds the transaction *)
(* and answers: nothing is kept.                                           *)
armVault(u, mint, amount, band, side) ==
    LET exists == u \in initialized
        order  == PlacedOrder(u, mint, EquityFeed[mint], amount, band, side, now + ARM_TTL)
    IN  /\ Cardinality(arms) < MaxArms
        /\ amount > 0 /\ band > 0
        /\ IF side = BUY THEN vault[u][Usdc] >= amount ELSE vault[u][mint] > 0
        /\ arms' = arms \cup {[user |-> u, init |-> ~exists, order |-> order,
                               id |-> IF exists THEN next_order_id[u] ELSE 0]}
        /\ UNCHANGED <<vars, ledger, tick, txs, crashes, missed>>

(* initialize_vault and place_order in one transaction.                    *)
InitAndPlace(u, order) ==
    /\ u \notin initialized /\ 0 \in Ids /\ orders[u][0] = NoOrder
    /\ order.usd_amount > 0 /\ order.expiry_ts > now
    /\ IF order.side = BUY THEN vault[u][Usdc] >= order.usd_amount
                           ELSE vault[u][order.stock_mint] > 0
    /\ initialized' = initialized \cup {u}
    /\ next_order_id' = [next_order_id EXCEPT ![u] = NextId(0)]
    /\ orders' = [orders EXCEPT ![u][0] = order]
    /\ terms' = [terms EXCEPT ![u][0] = order]
    /\ UNCHANGED <<now, vault, wallet, fills>>

(* Mutant: the order account is not derived from the vault's next id.      *)
AnySeeds(a) == TRUE

(* The order account of the transaction is the PDA of its id, and the      *)
(* program wants the PDA of the next one.                                  *)
SeedsMatch(a) == a.id = next_order_id[a.user]

(* The user signed, and the cluster took the transaction.                  *)
ArmLands(a) ==
    /\ IF a.init THEN InitAndPlace(a.user, a.order)
       ELSE /\ SeedsMatch(a)
            /\ place_order(a.user, a.user, a.order.stock_mint, a.order.pyth_feed_id,
                           a.order.usd_amount, a.order.band_bps, a.order.side, a.order.expiry_ts)
    /\ arms' = arms \ {a}
    /\ UNCHANGED <<ledger, tick, txs, crashes, missed>>

(* Not signed, dropped or refused.                                         *)
ArmExpires(a) ==
    /\ arms' = arms \ {a}
    /\ UNCHANGED <<vars, ledger, tick, txs, crashes, missed>>

(* Nothing but the program closes an order: /api/desk/disarm is the same   *)
(* in both modes and rewrites the arms and pending rows of the ledger, of  *)
(* which vault mode has none (KeeperTypeOK).                               *)
IsLive(u, id) == orders[u][id] # NoOrder /\ IsOpen(orders[u][id])

-----------------------------------------------------------------------------
(* A tick.                                                                 *)

Goto(next) == tick' = next
KeepsChain == UNCHANGED <<vars, arms, crashes>>

(* setInterval; busy was false.                                            *)
deskTick ==
    /\ tick = Idle
    /\ Goto([Idle EXCEPT !.pc = "scan"])
    /\ KeepsChain /\ UNCHANGED <<ledger, txs, missed>>

OrderAccounts == {[owner |-> u, id |-> i, order |-> orders[u][i]] : u \in Users, i \in Ids}

(* Mutant: orders with an executed row are taken for done.                 *)
ListUnrecorded ==
    {o \in OrderAccounts :
        /\ IsLive(o.owner, o.id)
        /\ ~\E r \in ledger.armRecords : r.status = "executed" /\ r.owner = o.owner}

(* The accounts whose filled byte is 0.                                    *)
listOpenOrders == {o \in OrderAccounts : IsLive(o.owner, o.id)}

(* ingestDeposits is done; the orders are listed, expired ones skipped.    *)
processVaultArms ==
    /\ tick.pc = "scan"
    /\ Goto([Idle EXCEPT !.pc = "orders",
                         !.left = {o \in listOpenOrders : o.order.expiry_ts > now}])
    /\ KeepsChain /\ UNCHANGED <<ledger, txs, missed>>

(* The scan of deposits throws, or the list cannot be read.                *)
TickFails ==
    /\ tick.pc = "scan"
    /\ Goto(Idle)
    /\ KeepsChain /\ UNCHANGED <<ledger, txs, missed>>

TickEnds ==
    /\ tick.pc = "orders" /\ tick.left = {}
    /\ Goto(Idle)
    /\ KeepsChain /\ UNCHANGED <<ledger, txs, missed>>

(* Orders are taken in the order of the list, which is any.                *)
PickOrder ==
    /\ tick.pc = "orders"
    /\ \E o \in tick.left :
          Goto([Idle EXCEPT !.pc = "tape", !.left = tick.left \ {o}, !.pick = o])
    /\ KeepsChain /\ UNCHANGED <<ledger, txs, missed>>

NextOrder == Goto([Idle EXCEPT !.pc = "orders", !.left = tick.left])

(* The row of an order, as recordArmResult is given it.                    *)
RowOf(o) ==
    [owner |-> o.owner, ticker |-> o.order.stock_mint,
     side |-> IF o.order.side = BUY THEN "buy" ELSE "sell",
     usd |-> o.order.usd_amount, createdAt |-> now]

(* Mutant: an order that fails ends the loop.                              *)
FailedEndsTick ==
    /\ ledger' = Book!recordArmResult(ledger, RowOf(tick.pick), "failed", Book!NoSig)
    /\ Goto(Idle)

(* The catch block of processVaultArms.                                    *)
Failed ==
    /\ ledger' = Book!recordArmResult(ledger, RowOf(tick.pick), "failed", Book!NoSig)
    /\ NextOrder

Picked == tick.pick.order
PickedDecimals == Decimals[Picked.stock_mint]

(* Whatever the feeds return; either print may be missing.                 *)
Tapes == {buildTape(nyse, NoPrint, x, NoPrint) :
            nyse \in References \cup {NoPrint}, x \in OnchainPrices \cup {NoPrint}}

(* The tape is not ready: fillVaultOrder returns null.                     *)
Waits ==
    /\ tick.pc = "tape"
    /\ \E t \in Tapes : ~Ready(Picked.side, t, Picked.band_bps)
    /\ NextOrder
    /\ KeepsChain /\ UNCHANGED <<ledger, txs, missed>>

(* A sell is cut to the shares that are in the vault now.                  *)
Sized ==
    /\ tick.pc = "tape"
    /\ \E t \in Tapes :
          LET stock == vault[tick.pick.owner][Picked.stock_mint]
              usd   == IF Picked.side = BUY THEN Picked.usd_amount
                       ELSE SellUsd(Picked.usd_amount, stock, t.onchain, PickedDecimals)
          IN  /\ Ready(Picked.side, t, Picked.band_bps)
              /\ Picked.side = SELL => usd >= MinSellUsd
              /\ Goto([tick EXCEPT !.pc = "quote", !.usd = usd])
    /\ KeepsChain /\ UNCHANGED <<ledger, txs, missed>>

(* quoteTrade reads the tape again; the quote names a positive min_out     *)
(* that u64le can write.                                                   *)
quoteTrade ==
    /\ tick.pc = "quote"
    /\ \E t \in Tapes :
          LET amount  == InAmount(Picked.side, tick.usd, t.onchain, PickedDecimals)
              min_out == MinOut(Picked.side, amount, t.onchain, Picked.band_bps, PickedDecimals)
          IN  /\ Ready(Picked.side, t, Picked.band_bps)
              /\ min_out \in U64 \ {0}
              /\ Goto([tick EXCEPT !.pc = "route", !.min_out = min_out])
    /\ KeepsChain /\ UNCHANGED <<ledger, txs, missed>>

(* The newest update of the order's feed.                                  *)
Latest(feed) ==
    LET published == {p \in PriceUpdates : p.feed_id = feed /\ p.publish_time <= now}
    IN  {p \in published : \A q \in published : q.publish_time <= p.publish_time}

(* jupiterRoute, and then hermes.                                          *)
HermesLatest ==
    /\ tick.pc = "route"
    /\ \E p \in Latest(Picked.pyth_feed_id) : Goto([tick EXCEPT !.pc = "send", !.update = p])
    /\ KeepsChain /\ UNCHANGED <<ledger, txs, missed>>

(* A call throws, the sell is too small, the side is not allowed any more, *)
(* there is no min_out, or the simulation of the transaction fails.        *)
FillFails ==
    /\ tick.pc \in {"tape", "quote", "route", "send"}
    /\ Failed
    /\ KeepsChain /\ UNCHANGED <<txs, missed>>

(* What the simulation sees before the swap.                               *)
Simulates ==
    LET order == orders[tick.pick.owner][tick.pick.id]
    IN  /\ order # NoOrder
        /\ FillAccounts(tick.pick.owner, Picked.stock_mint, order)
        /\ FillMayStart(order, Picked.stock_mint,
                        pyth_e8(tick.update, order.pyth_feed_id, now), tick.min_out)

submitVaultFill ==
    /\ tick.pc = "send"
    /\ Len(txs) < MaxTxs
    /\ Simulates
    /\ txs' = Append(txs, [listed |-> tick.pick, min_out |-> tick.min_out,
                           update |-> tick.update, status |-> "sent"])
    /\ Goto([tick EXCEPT !.pc = "answer", !.sig = Len(txs')])
    /\ KeepsChain /\ UNCHANGED <<ledger, missed>>

(* sendRawTransaction answers with the signature.                          *)
Answered ==
    /\ tick.pc = "answer"
    /\ ledger' = Book!recordArmResult(ledger, RowOf(tick.pick), "executed", tick.sig)
    /\ NextOrder
    /\ KeepsChain /\ UNCHANGED <<txs, missed>>

(* The transaction went out and the call that sent it fails.               *)
AnswerLost ==
    /\ tick.pc = "answer"
    /\ Failed
    /\ missed' = missed \cup {tick.sig}
    /\ KeepsChain /\ UNCHANGED txs

-----------------------------------------------------------------------------
(* The cluster, the users and the process.                                 *)

(* A submission the program refuses, or the cluster never takes, stays     *)
(* sent: nothing tells the keeper.                                         *)
TxLands(i) ==
    LET t == txs[i].listed
    IN  /\ txs[i].status = "sent"
        /\ \E after \in [Mints -> 0..MaxBalance] :
              execute_fill(t.owner, t.owner, t.id, t.order.stock_mint,
                           txs[i].update, txs[i].min_out, after)
        /\ txs' = [txs EXCEPT ![i].status = "landed"]
        /\ UNCHANGED <<ledger, arms, tick, crashes, missed>>

(* What else users sign, and what the cluster does by itself.              *)
ChainStep ==
    /\ \/ \E u \in Users : initialize_vault(u)
       \/ \E u \in Users, id \in Ids : cancel_order(u, u, id)
       \/ \E u \in Users, mint \in Mints, amount \in Amounts : withdraw(u, u, mint, amount)
       \/ EnvironmentStep
    /\ UNCHANGED keeperVars

Crash ==
    /\ crashes < MaxCrashes
    /\ crashes' = crashes + 1
    /\ tick' = Idle
    /\ missed' = missed \cup (IF tick.pc = "answer" THEN {tick.sig} ELSE {})
    /\ UNCHANGED <<vars, ledger, arms, txs>>

TickStep ==
    \/ processVaultArms \/ TickFails \/ TickEnds \/ PickOrder
    \/ Waits \/ Sized \/ quoteTrade \/ HermesLatest \/ FillFails
    \/ submitVaultFill \/ Answered \/ AnswerLost

KeeperNext ==
    \/ deskTick
    \/ TickStep
    \/ \E u \in Users, mint \in Stocks, amount \in Amounts, band \in Bands, side \in Sides :
          armVault(u, mint, amount, band, side)
    \/ \E a \in arms : ArmLands(a) \/ ArmExpires(a)
    \/ \E i \in DOMAIN txs : TxLands(i)
    \/ ChainStep
    \/ Crash

KeeperSpec == KeeperInit /\ [][KeeperNext]_allVars

(* The timer fires again and again and the calls a tick awaits return; a   *)
(* tick that is tried forever reads the list of orders in the end.         *)
FairKeeperSpec ==
    KeeperSpec /\ WF_allVars(deskTick) /\ WF_allVars(TickStep) /\ SF_allVars(processVaultArms)

-----------------------------------------------------------------------------
(* Properties.                                                             *)

(* A fill the keeper submitted takes the order it listed, as it was when   *)
(* it was listed, however much later it lands and whatever its owner       *)
(* cancelled and placed in between (vault.ts:104, lib.rs 440, 463-475).    *)
FillsWhatWasListed ==
    [][\A i \in DOMAIN txs :
          (txs[i].status = "sent" /\ txs'[i].status = "landed") =>
              LET t == txs[i].listed
              IN  orders[t.owner][t.id] = t.order /\ ~IsOpen(orders'[t.owner][t.id])]_allVars

(* Of all submissions of an order at most one lands: retrying what may     *)
(* have been done already is harmless (lib.rs:114, desk.ts 385-405).       *)
RetriesFillOnce ==
    \A i, k \in DOMAIN txs :
        (/\ i # k /\ txs[i].status = "landed" /\ txs[k].status = "landed")
            => <<txs[i].listed.owner, txs[i].listed.id>> # <<txs[k].listed.owner, txs[k].listed.id>>

(* An order stands under the id its answer named, with the terms that were *)
(* armed: of two transactions prepared with the same id one is refused     *)
(* (desk.ts 201, 241, lib.rs 440).                                         *)
ArmsPlaceWhatTheyNamed ==
    [][\A u \in Users, id \in Ids :
          (orders[u][id] = NoOrder /\ orders'[u][id] # NoOrder) =>
              \E a \in arms : a.user = u /\ a.id = id /\ a.order = orders'[u][id]]_allVars

ExecutedRow(i) ==
    \E r \in ledger.armRecords :
        /\ r.status = "executed" /\ r.tx = i
        /\ r.owner = txs[i].listed.owner /\ r.ticker = txs[i].listed.order.stock_mint

(* A fill that landed has an executed row with its signature, and keeps it *)
(* through the failures of later submissions of the same order, unless the *)
(* answer was lost, the process died waiting for it, or its owner's list   *)
(* has been full (ledger.ts 199-242).                                      *)
FillsAreOnRecord ==
    \A i \in DOMAIN txs : txs[i].status = "landed" =>
        \/ i \in missed
        \/ tick.pc = "answer" /\ tick.sig = i
        \/ ExecutedRow(i)
        \/ Cardinality(Book!RowsOf(ledger.armRecords, txs[i].listed.owner)) >= RECORDS_CAP

(* An order that stays open and does not expire gets its turn again and    *)
(* again, whatever fails and whether or not a row says it was executed: a  *)
(* submission that never landed is retried (desk.ts 374-433).              *)
OpenOrdersAreTried ==
    \A u \in Users, id \in Ids :
        (IsLive(u, id) /\ orders[u][id].expiry_ts > MaxTime)
            ~> (~IsLive(u, id) \/ (tick.pc = "tape" /\ tick.pick.owner = u /\ tick.pick.id = id))
=============================================================================
