---------------------------- MODULE MarkfillVault ----------------------------
(***************************************************************************)
(* The Anchor program markfill_vault: PDA custody of a user's USDC and     *)
(* stock tokens, limit orders with a fairness band, and fills that anybody *)
(* may submit.  One action per instruction.  An instruction whose require! *)
(* or account constraint fails reverts the transaction, so it is not a     *)
(* step: every guard below is such a check.                                *)
(*                                                                         *)
(* Environment: the cluster clock; SPL transfers into a vault's token      *)
(* accounts by anybody; Pyth updates, which a keeper chooses among those   *)
(* already published; and the Jupiter CPI, whose accounts and data the     *)
(* keeper chooses and which the vault's PDA signs: it may leave every      *)
(* token account of that vault at any balance, those of the order and      *)
(* those the program does not look at again.  It moves tokens and nothing  *)
(* else; what it sends to others' accounts is a TransferIn of its own.     *)
(***************************************************************************)
EXTENDS FairBand, Sequences

CONSTANTS
    Users,          \* owners; the PDA of a vault is named by its user
    Stocks, Usdc,   \* stock mints and the pinned USDC mint
    Decimals,       \* decimals of each stock mint
    Feeds,          \* Pyth feed ids
    NoOrder,        \* an order PDA that holds no account
    PriceUpdates,   \* every Pyth update that is ever published
    InitialUsdc,    \* USDC each user starts with
    Amounts, Bands, Sides, Expiries, MinOuts,   \* instruction arguments
    MaxOrders,      \* bound that stands for the u64 of next_order_id
    MaxTime,        \* bound on the clock
    MaxBalance      \* bound on a token account: the supply of a mint

Mints == Stocks \cup {Usdc}
Ids   == 0..(MaxOrders - 1)

ASSUME MintAssumption == Usdc \notin Stocks /\ Decimals \in [Stocks -> Nat]
ASSUME InputAssumption ==
    /\ Amounts \subseteq U64 /\ MinOuts \subseteq U64 /\ InitialUsdc \in 0..MaxBalance
    /\ Bands \subseteq 0..U16_MAX /\ Sides \subseteq Nat /\ Expiries \subseteq Int
ASSUME BoundAssumption ==
    /\ MaxOrders \in Nat /\ MaxTime \in Nat
    /\ MaxBalance \in Nat /\ MaxBalance < U64_MAX
(* Prices below U64_MAX / 1e8 dollars, published with an exponent whose    *)
(* power of ten is an i128.                                                *)
ASSUME PriceAssumption ==
    \A p \in PriceUpdates :
        /\ p.feed_id \in Feeds /\ p.publish_time \in Nat /\ p.price \in Int
        /\ p.exponent \in Int /\ p.exponent + 8 <= MAX_EXPO /\ -8 - p.exponent <= MAX_EXPO
        /\ ScaleE8(p.price, p.exponent) <= U64_MAX

Order == [vault : Users, stock_mint : Stocks, pyth_feed_id : Feeds,
          usd_amount : U64, band_bps : 0..U16_MAX, side : {BUY, SELL},
          expiry_ts : Int, filled : BOOLEAN]

ASSUME NoOrderAssumption == NoOrder \notin Order

VARIABLES
    now,            \* Clock::get()?.unix_timestamp
    initialized,    \* users whose vault account exists
    next_order_id,  \* Vault.next_order_id
    orders,         \* the order accounts, by owner and order_id
    vault,          \* balances of the vault's token accounts
    wallet,         \* balances of the user's own token accounts
    terms,          \* history: the account place_order wrote for an id
    fills           \* history: the fills of an id, with their FillEvent

vars == <<now, initialized, next_order_id, orders, vault, wallet, terms, fills>>

(* What a fill did: the tokens it debited from and credited to the vault,  *)
(* the update it was priced by, the clock, and FillEvent.nyse_e8.          *)
Fill == [paid : Nat, got : Nat, update : PriceUpdates, at : Nat, nyse_e8 : U64]

TypeOK ==
    /\ now \in 0..MaxTime
    /\ initialized \subseteq Users
    /\ next_order_id \in [Users -> 0..MaxOrders]
    /\ orders \in [Users -> [Ids -> Order \cup {NoOrder}]]
    /\ vault \in [Users -> [Mints -> 0..MaxBalance]]
    /\ wallet \in [Users -> [Mints -> 0..MaxBalance]]
    /\ terms \in [Users -> [Ids -> Order \cup {NoOrder}]]
    /\ fills \in [Users -> [Ids -> Seq(Fill)]]

Init ==
    /\ now = 0
    /\ initialized = {}
    /\ next_order_id = [u \in Users |-> 0]
    /\ orders = [u \in Users |-> [i \in Ids |-> NoOrder]]
    /\ vault = [u \in Users |-> [m \in Mints |-> 0]]
    /\ wallet = [u \in Users |-> [m \in Mints |-> IF m = Usdc THEN InitialUsdc ELSE 0]]
    /\ terms = orders
    /\ fills = [u \in Users |-> [i \in Ids |-> <<>>]]

-----------------------------------------------------------------------------
(* Account constraints and checks.                                         *)

(* Mutant: has_one = owner is missing.                                     *)
AnyVault(u, v) == v \in initialized

(* The signer u passes the vault account of v.                             *)
OwnsVault(u, v) == v \in initialized /\ u = v

(* The signer u passes the order account of o.                             *)
OwnsOrder(u, o) == u = o

(* Mutant: has_one = vault is missing.                                     *)
AnyVaultAccounts(v, mint, order) == v \in initialized /\ mint = order.stock_mint

(* has_one = vault and the stock mint constraint of ExecuteFill.           *)
FillAccounts(v, mint, order) ==
    v \in initialized /\ order.vault = v /\ mint = order.stock_mint

IsOpen(order) == ~order.filled

(* Mutant: filled is not checked.                                          *)
MayStartAgain(order, mint, nyse_e8, min_out) ==
    /\ now <= order.expiry_ts
    /\ nyse_e8 # Err
    /\ order.side = BUY =>
          LET implied == implied_price_e8(BUY, order.usd_amount, min_out, Decimals[mint])
          IN  implied # Err /\ in_band(BUY, implied, nyse_e8, order.band_bps)

(* The checks of execute_fill before the swap.                             *)
FillMayStart(order, mint, nyse_e8, min_out) ==
    /\ IsOpen(order)
    /\ now <= order.expiry_ts
    /\ nyse_e8 # Err
    /\ order.side = BUY =>
          LET implied == implied_price_e8(BUY, order.usd_amount, min_out, Decimals[mint])
          IN  implied # Err /\ in_band(BUY, implied, nyse_e8, order.band_bps)

SaturatingAdd(a, b) == IF a + b <= U64_MAX THEN a + b ELSE U64_MAX

(* Mutant: no cap on what a buy spends.                                    *)
BuyUncapped(order, min_out, usdc, stock, usdcAfter, stockAfter) ==
    /\ stockAfter >= SaturatingAdd(stock, min_out)
    /\ usdcAfter <= usdc

(* The checks of a buy after the swap: stock and USDC balances before and  *)
(* after it.                                                               *)
BuyMayFinish(order, min_out, usdc, stock, usdcAfter, stockAfter) ==
    /\ stockAfter >= SaturatingAdd(stock, min_out)
    /\ usdcAfter <= usdc
    /\ usdc - usdcAfter <= order.usd_amount

(* Mutant: the notional of the order stands for the shares sold.           *)
SellPricedByNotional(order, mint, nyse_e8, min_out, usdc, stock, usdcAfter, stockAfter) ==
    LET implied == implied_price_e8(SELL, order.usd_amount, usdcAfter - usdc, Decimals[mint])
    IN  /\ usdcAfter >= SaturatingAdd(usdc, min_out)
        /\ stockAfter <= stock
        /\ implied # Err /\ in_band(SELL, implied, nyse_e8, order.band_bps)

(* The checks of a sell after the swap.                                    *)
SellMayFinish(order, mint, nyse_e8, min_out, usdc, stock, usdcAfter, stockAfter) ==
    LET sold     == stock - stockAfter
        received == usdcAfter - usdc
        implied  == implied_price_e8(SELL, sold, received, Decimals[mint])
        max_sold == max_sell_native(order.usd_amount, nyse_e8, order.band_bps, Decimals[mint])
    IN  /\ usdcAfter >= SaturatingAdd(usdc, min_out)
        /\ stockAfter <= stock
        /\ implied # Err /\ in_band(SELL, implied, nyse_e8, order.band_bps)
        /\ max_sold # Err /\ sold <= max_sold

-----------------------------------------------------------------------------
(* Instructions.                                                           *)

initialize_vault(u) ==
    /\ u \notin initialized
    /\ initialized' = initialized \cup {u}
    /\ next_order_id' = [next_order_id EXCEPT ![u] = 0]
    /\ UNCHANGED <<now, orders, vault, wallet, terms, fills>>

deposit(u, v, amount) ==
    /\ OwnsVault(u, v)
    /\ amount > 0 /\ amount <= wallet[u][Usdc]
    /\ vault[v][Usdc] + amount <= MaxBalance
    /\ wallet' = [wallet EXCEPT ![u][Usdc] = @ - amount]
    /\ vault' = [vault EXCEPT ![v][Usdc] = @ + amount]
    /\ UNCHANGED <<now, initialized, next_order_id, orders, terms, fills>>

(* Mutant: band and side are swapped.                                      *)
SwappedOrder(v, mint, feed, amount, band, side, expiry) ==
    [vault |-> v, stock_mint |-> mint, pyth_feed_id |-> feed, usd_amount |-> amount,
     band_bps |-> side, side |-> band, expiry_ts |-> expiry, filled |-> FALSE]

PlacedOrder(v, mint, feed, amount, band, side, expiry) ==
    [vault |-> v, stock_mint |-> mint, pyth_feed_id |-> feed, usd_amount |-> amount,
     band_bps |-> band, side |-> side, expiry_ts |-> expiry, filled |-> FALSE]

(* Mutant: the counter is not advanced.                                    *)
SameId(id) == id

(* checked_add(1).unwrap(): the instruction panics at the largest id.      *)
NextId(id) == id + 1

place_order(u, v, mint, feed, amount, band, side, expiry) ==
    LET order_id == next_order_id[v]
        order    == PlacedOrder(v, mint, feed, amount, band, side, expiry)
    IN  /\ OwnsVault(u, v)
        /\ side \in {BUY, SELL}
        /\ amount > 0
        /\ expiry > now
        /\ IF side = BUY THEN vault[v][Usdc] >= amount ELSE vault[v][mint] > 0
        /\ order_id < MaxOrders
        /\ orders[u][order_id] = NoOrder            \* init
        /\ next_order_id' = [next_order_id EXCEPT ![v] = NextId(order_id)]
        /\ orders' = [orders EXCEPT ![u][order_id] = order]
        /\ terms' = [terms EXCEPT ![u][order_id] = order]
        /\ UNCHANGED <<now, initialized, vault, wallet, fills>>

(* The account is closed: its rent goes back to the owner.                 *)
cancel_order(u, o, id) ==
    /\ orders[o][id] # NoOrder
    /\ OwnsOrder(u, o)
    /\ IsOpen(orders[o][id])
    /\ orders' = [orders EXCEPT ![o][id] = NoOrder]
    /\ UNCHANGED <<now, initialized, next_order_id, vault, wallet, terms, fills>>

FillRecord(order, update, nyse_e8, usdc, stock, usdcAfter, stockAfter) ==
    [paid |-> IF order.side = BUY THEN usdc - usdcAfter ELSE stock - stockAfter,
     got  |-> IF order.side = BUY THEN stockAfter - stock ELSE usdcAfter - usdc,
     update |-> update, at |-> now, nyse_e8 |-> nyse_e8]

(* Any keeper fills order id of o with vault v: it picks the Pyth update,  *)
(* min_out and the Jupiter route, and the route decides what every token   *)
(* account of the vault holds after it.  The program reads USDC and mint   *)
(* again, no other account.                                                *)
execute_fill(v, o, id, mint, update, min_out, after) ==
    LET order      == orders[o][id]
        nyse_e8    == pyth_e8(update, order.pyth_feed_id, now)
        usdc       == vault[v][Usdc]
        stock      == vault[v][mint]
        usdcAfter  == after[Usdc]
        stockAfter == after[mint]
        fill == FillRecord(order, update, nyse_e8, usdc, stock, usdcAfter, stockAfter)
    IN  /\ order # NoOrder
        /\ update.publish_time <= now     \* not published yet
        /\ FillAccounts(v, mint, order)
        /\ FillMayStart(order, mint, nyse_e8, min_out)
        /\ IF order.side = BUY
           THEN BuyMayFinish(order, min_out, usdc, stock, usdcAfter, stockAfter)
           ELSE SellMayFinish(order, mint, nyse_e8, min_out, usdc, stock, usdcAfter, stockAfter)
        /\ orders' = [orders EXCEPT ![o][id].filled = TRUE]
        /\ vault' = [vault EXCEPT ![v] = after]
        /\ fills' = [fills EXCEPT ![o][id] = Append(@, fill)]
        /\ UNCHANGED <<now, initialized, next_order_id, wallet, terms>>

(* The destination is a token account whose authority is the signer.       *)
withdraw(u, v, mint, amount) ==
    /\ OwnsVault(u, v)
    /\ amount > 0 /\ amount <= vault[v][mint]
    /\ wallet[u][mint] + amount <= MaxBalance
    /\ vault' = [vault EXCEPT ![v][mint] = @ - amount]
    /\ wallet' = [wallet EXCEPT ![u][mint] = @ + amount]
    /\ UNCHANGED <<now, initialized, next_order_id, orders, terms, fills>>

-----------------------------------------------------------------------------
(* Environment.                                                            *)

Tick ==
    /\ now < MaxTime
    /\ now' = now + 1
    /\ UNCHANGED <<initialized, next_order_id, orders, vault, wallet, terms, fills>>

(* An SPL transfer into a token account of the vault's PDA, by anybody,    *)
(* also before the vault exists: the desk shows users this address.        *)
TransferIn(v, mint, amount) ==
    /\ vault[v][mint] + amount <= MaxBalance
    /\ vault' = [vault EXCEPT ![v][mint] = @ + amount]
    /\ UNCHANGED <<now, initialized, next_order_id, orders, wallet, terms, fills>>

-----------------------------------------------------------------------------
UserStep(u) ==
    \/ initialize_vault(u)
    \/ \E v \in Users, amount \in Amounts : deposit(u, v, amount)
    \/ \E v \in Users, mint \in Stocks, feed \in Feeds, amount \in Amounts,
          band \in Bands, side \in Sides, expiry \in Expiries :
             place_order(u, v, mint, feed, amount, band, side, expiry)
    \/ \E o \in Users, id \in Ids : cancel_order(u, o, id)
    \/ \E v \in Users, mint \in Mints, amount \in Amounts : withdraw(u, v, mint, amount)

KeeperStep ==
    \E v, o \in Users, id \in Ids, mint \in Stocks, update \in PriceUpdates,
       min_out \in MinOuts, after \in [Mints -> 0..MaxBalance] :
          execute_fill(v, o, id, mint, update, min_out, after)

EnvironmentStep ==
    \/ Tick
    \/ \E v \in Users, mint \in Mints, amount \in Amounts : TransferIn(v, mint, amount)

Next == (\E u \in Users : UserStep(u)) \/ KeeperStep \/ EnvironmentStep

Spec == Init /\ [][Next]_vars

-----------------------------------------------------------------------------
(* Safety.                                                                 *)

(* An order fills at most once in its life, and a fill leaves its account  *)
(* behind, marked: neither a second fill nor a cancel can follow it        *)
(* (lib.rs 101, 114, 204).                                                 *)
FillOnce ==
    \A u \in Users, id \in Ids :
        /\ Len(fills[u][id]) <= 1
        /\ Len(fills[u][id]) = 1
              <=> (orders[u][id] # NoOrder /\ ~IsOpen(orders[u][id]))

OrderNamedBy(u, id) ==
    /\ terms[u][id] # NoOrder <=> id < next_order_id[u]
    /\ terms[u][id] # NoOrder => terms[u][id].vault = u
    /\ orders[u][id] # NoOrder =>
          /\ terms[u][id] # NoOrder
          /\ [orders[u][id] EXCEPT !.filled = FALSE] = terms[u][id]

(* An id names one order forever: the account that stands under it is the  *)
(* one its owner signed, whatever was cancelled or filled in between, and  *)
(* it draws on the vault of its owner (lib.rs 82-96, 441).                 *)
IdNamesOneOrder == \A u \in Users, id \in Ids : OrderNamedBy(u, id)

PublishedE8(fill) == ScaleE8(fill.update.price, fill.update.exponent)

IsTimely(order, fill) ==
    /\ fill.at <= order.expiry_ts
    /\ fill.update.feed_id = order.pyth_feed_id
    /\ fill.update.publish_time \in (fill.at - MAX_AGE)..fill.at

IsFairBuy(order, fill) ==
    /\ fill.paid <= order.usd_amount
    /\ BuyFair(fill.paid, fill.got, PublishedE8(fill),
               order.band_bps, Decimals[order.stock_mint])

IsFairSell(order, fill) ==
    /\ SellFair(fill.got, fill.paid, PublishedE8(fill),
                order.band_bps, Decimals[order.stock_mint])
    /\ SellWithinNotional(order.usd_amount, fill.paid, PublishedE8(fill),
                          order.band_bps, Decimals[order.stock_mint])

(* A fill happens before the order expires, and is priced by an update of  *)
(* the feed its owner chose, published at most MAX_AGE seconds before the  *)
(* fill (lib.rs 116, 121, 241-245).                                        *)
FillsAreTimely ==
    \A u \in Users, id \in Ids : \A k \in DOMAIN fills[u][id] :
        IsTimely(terms[u][id], fills[u][id][k])

(* What a buy really paid and got, not the min_out the keeper named: never *)
(* more USDC than the order's notional, at a price inside the owner's band *)
(* around the published price (lib.rs 127-130, 173-183).                   *)
BuysFillFairly ==
    \A u \in Users, id \in Ids : \A k \in DOMAIN fills[u][id] :
        terms[u][id].side = BUY => IsFairBuy(terms[u][id], fills[u][id][k])

(* What a sell really sold and received: a price inside the band, and no   *)
(* more shares than the notional buys at the floor price, up to one atom   *)
(* (lib.rs 184-201).                                                       *)
SellsFillFairly ==
    \A u \in Users, id \in Ids : \A k \in DOMAIN fills[u][id] :
        terms[u][id].side = SELL => IsFairSell(terms[u][id], fills[u][id][k])

GoesToOwner(u, m) == vault[u][m] + wallet[u][m] = vault'[u][m] + wallet'[u][m]

(* A buy takes at most its notional of USDC and none of the stock it buys, *)
(* a sell no USDC.  A stock the order does not name has no such guard.     *)
MayTake(order, m, amount) ==
    IF m = Usdc THEN order.side = BUY /\ amount <= order.usd_amount
    ELSE ~(order.side = BUY /\ order.stock_mint = m)

PaysForOpenOrder(u, m) ==
    \E id \in Ids :
        /\ orders[u][id] # NoOrder /\ IsOpen(orders[u][id])
        /\ fills'[u][id] # fills[u][id]
        /\ MayTake(orders[u][id], m, vault[u][m] - vault'[u][m])

(* Tokens leave u's vault only into u's own wallet, or while one open      *)
(* order of u is filled: USDC then as the debit of a buy, within its       *)
(* notional, whatever the keeper's route does; of stocks only the one      *)
(* being bought is sure to stay (lib.rs 173-201, 388-393, 475, 507-528).   *)
OutflowIsOwnersOrOrders ==
    [][\A u \in Users, m \in Mints :
        vault'[u][m] < vault[u][m] => GoesToOwner(u, m) \/ PaysForOpenOrder(u, m)]_vars

-----------------------------------------------------------------------------
(* The vault implements LimitOrders.  A closed order account is told from  *)
(* an unused id by its terms.  A buy's limit is its notional; how many     *)
(* shares a sell may give depends on the price, so its limit is the supply *)
(* here and SellsFillFairly says the rest.                                 *)
StatusOf(u, id) ==
    IF terms[u][id] = NoOrder THEN "none"
    ELSE IF orders[u][id] = NoOrder THEN "cancelled"
    ELSE IF IsOpen(orders[u][id]) THEN "open" ELSE "filled"

DealOf(order) ==
    IF order = NoOrder THEN [give |-> "none", take |-> "none", limit |-> 0]
    ELSE IF order.side = BUY
    THEN [give |-> Usdc, take |-> order.stock_mint, limit |-> order.usd_amount]
    ELSE [give |-> order.stock_mint, take |-> Usdc, limit |-> MaxBalance]

Promise == INSTANCE LimitOrders WITH
    MaxFunds <- MaxBalance,
    status <- [u \in Users |-> [i \in Ids |-> StatusOf(u, i)]],
    deal   <- [u \in Users |-> [i \in Ids |-> DealOf(terms[u][i])]],
    funds  <- vault

(* Every step of the program is a step LimitOrders allows or changes       *)
(* nothing it can see: an order ends once, and its fill touches only its   *)
(* owner's funds, gives no more than its limit of the token it sells and   *)
(* brings in the one it buys; the other tokens of that owner are not       *)
(* promised anything (lib.rs 56-238).                                      *)
KeepsPromise == Promise!Spec
=============================================================================
