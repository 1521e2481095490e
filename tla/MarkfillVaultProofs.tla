------------------------- MODULE MarkfillVaultProofs -------------------------
(***************************************************************************)
(* Safety of the vault program, for every set of users, mints, feeds and   *)
(* published prices and every value of the bounds.                         *)
(*                                                                         *)
(* IInv is inductive.  That a fill is fair needs the terms it is judged by *)
(* to be those of the account it was executed for (IdNamesOneOrder), and   *)
(* that nothing rewrites the terms under a fill (FillOnce: an id with a    *)
(* fill still has its account, so it is not free to be placed again).      *)
(***************************************************************************)
EXTENDS MarkfillVault, FairBandProofs

(* A vault that does not exist has placed nothing, so initialize_vault     *)
(* cannot rewind an id.                                                    *)
NoVaultNoOrders == \A u \in Users \ initialized : next_order_id[u] = 0

IInv ==
    /\ TypeOK
    /\ NoVaultNoOrders
    /\ FillOnce
    /\ IdNamesOneOrder
    /\ FillsAreTimely
    /\ BuysFillFairly
    /\ SellsFillFairly

(* The bounds of the model are natural numbers.                            *)
LEMMA BoundsAreNat ==
    /\ MaxBalance \in Nat /\ MaxOrders \in Nat /\ MaxTime \in Nat /\ MAX_AGE \in Nat
    /\ U64_MAX \in Nat /\ U16_MAX \in Nat
    /\ MaxBalance < U64_MAX /\ InitialUsdc \in 0..MaxBalance
  BY BoundAssumption, WidthAssumption, InputAssumption, AgeAssumption

(* An order that is still open has no fill on record (lib.rs 114, 171).    *)
LEMMA NotYetFilled ==
    ASSUME NEW S, NEW s \in Seq(S), Len(s) # 1, Len(s) <= 1
    PROVE  s = <<>>
<1>1. Len(s) \in Nat
  OBVIOUS
<1>2. Len(s) = 0
  BY <1>1
<1>3. QED
  BY <1>2

(* A published price scales to an integer.                                 *)
LEMMA PublishedIsInt ==
    ASSUME NEW p \in PriceUpdates
    PROVE  /\ ScaleE8(p.price, p.exponent) \in Int
           /\ ScaleE8(p.price, p.exponent) <= U64_MAX
           /\ p.publish_time \in Nat
<1>1. /\ p.price \in Int /\ p.exponent \in Int /\ p.publish_time \in Nat
      /\ p.exponent + 8 <= MAX_EXPO /\ -8 - p.exponent <= MAX_EXPO
      /\ ScaleE8(p.price, p.exponent) <= U64_MAX
  BY PriceAssumption
<1>2. CASE p.exponent >= -8
  <2>1. Pow10[p.exponent + 8] \in Nat
    BY <1>1, <1>2, DecimalsAssumption, ScaleAssumption
  <2>2. QED
    BY <1>1, <1>2, <2>1 DEF ScaleE8
<1>3. CASE ~(p.exponent >= -8)
  <2>1. Pow10[-8 - p.exponent] \in Nat \ {0}
    BY <1>1, <1>3, DecimalsAssumption, ScaleAssumption
  <2>2. p.price \div Pow10[-8 - p.exponent] \in Int
    BY <1>1, <2>1
  <2>3. QED
    BY <1>1, <1>3, <2>2 DEF ScaleE8
<1>4. QED
  BY <1>2, <1>3

-----------------------------------------------------------------------------
(* What one execute_fill does to the order it names.                       *)
LEMMA FillEffect ==
    ASSUME TypeOK,
           NEW v \in Users, NEW o \in Users, NEW id \in Ids, NEW mint \in Stocks,
           NEW update \in PriceUpdates, NEW min_out \in U64,
           NEW after \in [Mints -> 0..MaxBalance],
           NEW order \in Order, order = orders[o][id],
           execute_fill(v, o, id, mint, update, min_out, after),
           NEW fill,
           fill = FillRecord(order, update, pyth_e8(update, order.pyth_feed_id, now),
                             vault[v][Usdc], vault[v][mint], after[Usdc], after[mint])
    PROVE  /\ fill \in Fill
           /\ IsTimely(order, fill)
           /\ order.side = BUY => IsFairBuy(order, fill)
           /\ order.side = SELL => IsFairSell(order, fill)
<1> DEFINE nyse == pyth_e8(update, order.pyth_feed_id, now)
           usdc == vault[v][Usdc]
           stock == vault[v][mint]
           usdcAfter == after[Usdc]
           stockAfter == after[mint]
           d == Decimals[mint]
<1>1. /\ update.publish_time <= now
      /\ FillAccounts(v, mint, order)
      /\ FillMayStart(order, mint, nyse, min_out)
      /\ order.side = BUY => BuyMayFinish(order, min_out, usdc, stock, usdcAfter, stockAfter)
      /\ order.side = SELL =>
            SellMayFinish(order, mint, nyse, min_out, usdc, stock, usdcAfter, stockAfter)
  BY DEF execute_fill, BUY, SELL
<1>2. /\ order.side \in {BUY, SELL} /\ order.usd_amount \in U64
      /\ order.band_bps \in 0..U16_MAX /\ order.stock_mint = mint
      /\ order.expiry_ts \in Int
  BY <1>1 DEF Order, FillAccounts
<1>3. /\ usdc \in 0..MaxBalance /\ stock \in 0..MaxBalance /\ now \in Nat /\ d \in Nat
      /\ usdcAfter \in 0..MaxBalance /\ stockAfter \in 0..MaxBalance
  BY BoundsAreNat, MintAssumption DEF TypeOK, Mints
<1>4. /\ nyse = ScaleE8(update.price, update.exponent)
      /\ nyse \in U64
      /\ get_price_no_older_than(update, order.pyth_feed_id, now)
  BY <1>1, PublishedIsInt, PythIsExact DEF FillMayStart
<1>5. min_out \in Nat
  BY U64IsNat
<1>6. /\ fill.update = update /\ fill.at = now /\ fill.nyse_e8 = nyse
      /\ PublishedE8(fill) = nyse
      /\ order.side = BUY => fill.paid = usdc - usdcAfter /\ fill.got = stockAfter - stock
      /\ order.side = SELL => fill.paid = stock - stockAfter /\ fill.got = usdcAfter - usdc
  BY <1>4 DEF FillRecord, PublishedE8, BUY, SELL
<1> HIDE DEF nyse, usdc, stock, usdcAfter, stockAfter, d
<1>7. ASSUME NEW a \in 0..MaxBalance, NEW b \in 0..MaxBalance, b >= SaturatingAdd(a, min_out)
      PROVE  b - a \in Nat /\ b - a >= min_out
  BY <1>5, <1>7, BoundsAreNat DEF SaturatingAdd
<1>8. IsTimely(order, fill)
  <2>1. now <= order.expiry_ts
    BY <1>1 DEF FillMayStart
  <2>2. update.feed_id = order.pyth_feed_id /\ update.publish_time + MAX_AGE >= now
    BY <1>4 DEF get_price_no_older_than
  <2>3. update.publish_time \in (now - MAX_AGE)..now
    BY <1>1, <1>3, <2>2, PublishedIsInt, BoundsAreNat
  <2>4. QED
    BY <1>6, <2>1, <2>2, <2>3 DEF IsTimely
<1>9. ASSUME order.side = BUY
      PROVE  fill.paid \in Nat /\ fill.got \in Nat /\ IsFairBuy(order, fill)
  <2>1. /\ stockAfter >= SaturatingAdd(stock, min_out) /\ usdcAfter <= usdc
        /\ usdc - usdcAfter <= order.usd_amount
    BY <1>1, <1>9 DEF BuyMayFinish
  <2>2. stockAfter - stock \in Nat /\ stockAfter - stock >= min_out
    BY <1>3, <1>7, <2>1
  <2>3. usdc - usdcAfter \in Nat
    BY <1>3, <2>1, BoundsAreNat
  <2>4. /\ implied_price_e8(BUY, order.usd_amount, min_out, d) # Err
        /\ in_band(BUY, implied_price_e8(BUY, order.usd_amount, min_out, d),
                   nyse, order.band_bps)
    BY <1>1, <1>9 DEF FillMayStart, d
  <2>5. BuyFair(usdc - usdcAfter, stockAfter - stock, nyse, order.band_bps, d)
    BY <1>2, <1>3, <1>4, <1>5, <2>1, <2>2, <2>3, <2>4, BuyCheckIsSound
  <2>6. QED
    BY <1>2, <1>6, <1>9, <2>1, <2>2, <2>3, <2>5 DEF IsFairBuy, d
<1>10. ASSUME order.side = SELL
       PROVE  fill.paid \in Nat /\ fill.got \in Nat /\ IsFairSell(order, fill)
  <2> DEFINE sold == stock - stockAfter
             received == usdcAfter - usdc
             max == max_sell_native(order.usd_amount, nyse, order.band_bps, d)
  <2>1. /\ usdcAfter >= SaturatingAdd(usdc, min_out) /\ stockAfter <= stock
        /\ implied_price_e8(SELL, sold, received, d) # Err
        /\ in_band(SELL, implied_price_e8(SELL, sold, received, d), nyse, order.band_bps)
        /\ max # Err /\ sold <= max
    BY <1>1, <1>10 DEF SellMayFinish, d
  <2>2. received \in Nat
    BY <1>3, <1>7, <2>1
  <2>3. sold \in Nat
    BY <1>3, <2>1, BoundsAreNat
  <2>4. SellFair(received, sold, nyse, order.band_bps, d)
    BY <1>2, <1>3, <1>4, <2>1, <2>2, <2>3, SellCheckIsSound
  <2>5. SellWithinNotional(order.usd_amount, sold, nyse, order.band_bps, d)
    BY <1>2, <1>3, <1>4, <2>1, <2>3, SellCapIsSound
  <2>6. QED
    BY <1>2, <1>6, <1>10, <2>2, <2>3, <2>4, <2>5 DEF IsFairSell, d
<1>11. fill \in Fill
  <2>1. fill.paid \in Nat /\ fill.got \in Nat
    BY <1>2, <1>9, <1>10
  <2>2. fill = [paid |-> fill.paid, got |-> fill.got, update |-> update,
                at |-> now, nyse_e8 |-> nyse]
    BY <1>6 DEF FillRecord
  <2>3. QED
    BY <1>3, <1>4, <2>1, <2>2 DEF Fill
<1>12. QED
  BY <1>8, <1>9, <1>10, <1>11

-----------------------------------------------------------------------------
(* The steps of the program with any arguments, those of an instruction    *)
(* that makes a vault and places its first order included.                 *)
Places(u, id, order) ==
    /\ order \in Order /\ order.vault = u /\ IsOpen(order)
    /\ id = next_order_id[u] /\ id \in Ids /\ orders[u][id] = NoOrder
    /\ order.side = BUY => vault[u][Usdc] >= order.usd_amount
    /\ initialized' = initialized \cup {u}
    /\ next_order_id' = [next_order_id EXCEPT ![u] = id + 1]
    /\ orders' = [orders EXCEPT ![u][id] = order]
    /\ terms' = [terms EXCEPT ![u][id] = order]
    /\ UNCHANGED <<now, vault, wallet, fills>>

AnyPlace == \E u \in Users, id \in Ids, order \in Order : Places(u, id, order)

AnyFill ==
    \E v, o \in Users, id \in Ids, mint \in Stocks, update \in PriceUpdates,
       min_out \in U64, after \in [Mints -> 0..MaxBalance] :
          execute_fill(v, o, id, mint, update, min_out, after)

VaultStep == AnyPlace \/ AnyFill \/ (\E u \in Users : UserStep(u)) \/ EnvironmentStep

LEMMA NextIsVaultStep == [Next]_vars => [VaultStep]_vars
<1>1. KeeperStep => AnyFill
  BY InputAssumption DEF KeeperStep, AnyFill
<1>2. QED
  BY <1>1 DEF Next, VaultStep

(* place_order (lib.rs 63-99) places.                                      *)
LEMMA PlaceOrderPlaces ==
    ASSUME TypeOK, NEW u \in Users, NEW v \in Users, NEW mint \in Stocks, NEW feed \in Feeds,
           NEW amount \in U64, NEW band \in 0..U16_MAX, NEW side, NEW expiry \in Int,
           place_order(u, v, mint, feed, amount, band, side, expiry)
    PROVE  Places(u, next_order_id[u], PlacedOrder(u, mint, feed, amount, band, side, expiry))
<1> DEFINE id == next_order_id[u]
           order == PlacedOrder(u, mint, feed, amount, band, side, expiry)
<1>1. /\ u = v /\ u \in initialized /\ side \in {BUY, SELL}
      /\ id < MaxOrders /\ orders[u][id] = NoOrder
      /\ side = BUY => vault[u][Usdc] >= amount
      /\ next_order_id' = [next_order_id EXCEPT ![u] = id + 1]
      /\ orders' = [orders EXCEPT ![u][id] = order]
      /\ terms' = [terms EXCEPT ![u][id] = order]
      /\ UNCHANGED <<now, initialized, vault, wallet, fills>>
  BY DEF place_order, OwnsVault, NextId
<1>2. /\ order \in Order /\ order.vault = u /\ IsOpen(order)
      /\ order.side = side /\ order.usd_amount = amount
  BY <1>1 DEF Order, PlacedOrder, IsOpen
<1>3. id \in Ids
  BY <1>1, BoundsAreNat DEF TypeOK, Ids
<1>4. initialized' = initialized \cup {u}
  BY <1>1
<1>5. QED
  BY <1>1, <1>2, <1>3, <1>4 DEF Places

-----------------------------------------------------------------------------
(* Initially there is no vault, no order and no fill.                      *)
LEMMA InitIInv == Init => IInv
<1> SUFFICES ASSUME Init PROVE IInv
  OBVIOUS
<1>1. /\ \A u \in Users, id \in Ids : terms[u][id] = NoOrder /\ orders[u][id] = NoOrder
      /\ \A u \in Users, id \in Ids : fills[u][id] = <<>>
      /\ \A u \in Users : next_order_id[u] = 0
  BY DEF Init
<1>2. TypeOK
  <2>1. wallet \in [Users -> [Mints -> 0..MaxBalance]]
    BY BoundsAreNat DEF Init
  <2>2. vault \in [Users -> [Mints -> 0..MaxBalance]]
    BY BoundsAreNat DEF Init
  <2>3. fills \in [Users -> [Ids -> Seq(Fill)]]
    BY DEF Init
  <2>4. QED
    BY <2>1, <2>2, <2>3, BoundsAreNat DEF Init, TypeOK
<1>3. NoVaultNoOrders
  BY <1>1 DEF NoVaultNoOrders
<1>4. FillOnce
  BY <1>1 DEF FillOnce
<1>5. IdNamesOneOrder
  BY <1>1, BoundsAreNat DEF IdNamesOneOrder, OrderNamedBy, Ids
<1>6. FillsAreTimely /\ BuysFillFairly /\ SellsFillFairly
  <2>1. \A u \in Users, id \in Ids : DOMAIN fills[u][id] = {}
    BY <1>1
  <2>2. QED
    BY <2>1 DEF FillsAreTimely, BuysFillFairly, SellsFillFairly
<1>7. QED
  BY <1>2, <1>3, <1>4, <1>5, <1>6 DEF IInv

(* Steps that touch no order, id or fill need only be well typed.          *)
LEMMA QuietStep ==
    ASSUME IInv, TypeOK', UNCHANGED <<orders, terms, fills, next_order_id>>,
           initialized \subseteq initialized'
    PROVE  IInv'
<1>1. NoVaultNoOrders'
  BY DEF IInv, NoVaultNoOrders
<1>2. FillOnce'
  BY DEF IInv, FillOnce
<1>3. IdNamesOneOrder'
  BY DEF IInv, IdNamesOneOrder, OrderNamedBy
<1>4. FillsAreTimely' /\ BuysFillFairly' /\ SellsFillFairly'
  BY DEF IInv, FillsAreTimely, BuysFillFairly, SellsFillFairly
<1>5. QED
  BY <1>1, <1>2, <1>3, <1>4 DEF IInv

(* Placing an order (lib.rs 63-99) preserves the invariant.                *)
LEMMA PlacesIInv ==
    ASSUME IInv, NEW u \in Users, NEW id, NEW order, Places(u, id, order)
    PROVE  IInv'
<1> USE DEF IInv
<1>1. /\ id \in Ids /\ id = next_order_id[u] /\ orders[u][id] = NoOrder
      /\ initialized' = initialized \cup {u}
      /\ next_order_id' = [next_order_id EXCEPT ![u] = id + 1]
      /\ orders' = [orders EXCEPT ![u][id] = order]
      /\ terms' = [terms EXCEPT ![u][id] = order]
      /\ UNCHANGED <<now, vault, wallet, fills>>
  BY DEF Places
<1>2. order \in Order /\ order.vault = u /\ order.filled = FALSE /\ order # NoOrder
  BY NoOrderAssumption DEF Places, IsOpen, Order
<1>3. id \in Nat /\ id < MaxOrders
  BY <1>1, BoundsAreNat DEF Ids
<1>4. TypeOK'
  <2>1. next_order_id' \in [Users -> 0..MaxOrders]
    BY <1>1, <1>3, BoundsAreNat DEF TypeOK
  <2>2. orders' \in [Users -> [Ids -> Order \cup {NoOrder}]]
    BY <1>1, <1>2, <1>3 DEF TypeOK
  <2>3. terms' \in [Users -> [Ids -> Order \cup {NoOrder}]]
    BY <1>1, <1>2, <1>3 DEF TypeOK
  <2>4. QED
    BY <1>1, <2>1, <2>2, <2>3 DEF TypeOK
<1>5. NoVaultNoOrders'
  BY <1>1 DEF NoVaultNoOrders, TypeOK
<1>6. \A w \in Users, i \in Ids :
          /\ orders'[w][i] = IF w = u /\ i = id THEN order ELSE orders[w][i]
          /\ terms'[w][i] = IF w = u /\ i = id THEN order ELSE terms[w][i]
          /\ next_order_id'[w] = IF w = u THEN id + 1 ELSE next_order_id[w]
  BY <1>1, <1>3 DEF TypeOK
<1>7. Len(fills[u][id]) # 1 /\ Len(fills[u][id]) <= 1 /\ DOMAIN fills[u][id] = {}
  <2>0. id \in Ids /\ orders[u][id] = NoOrder
    BY <1>1
  <2>1. Len(fills[u][id]) # 1 /\ Len(fills[u][id]) <= 1
    BY <2>0 DEF FillOnce
  <2>2. fills[u][id] \in Seq(Fill)
    BY <2>0 DEF TypeOK
  <2>3. fills[u][id] = <<>>
    BY <2>1, <2>2, NotYetFilled
  <2>4. QED
    BY <2>1, <2>3
<1>8. FillOnce'
  BY <1>1, <1>2, <1>6, <1>7 DEF FillOnce, IsOpen
<1>9. IdNamesOneOrder'
  <2> SUFFICES ASSUME NEW w \in Users, NEW i \in Ids
               PROVE  OrderNamedBy(w, i)'
    BY DEF IdNamesOneOrder
  <2>1. CASE w = u /\ i = id
    <3>1. [order EXCEPT !.filled = FALSE] = order
      BY <1>2 DEF Order
    <3>2. orders'[w][i] = order /\ terms'[w][i] = order /\ next_order_id'[w] = id + 1
      BY <1>6, <2>1
    <3>3. i < next_order_id'[w]
      BY <1>3, <2>1, <3>2
    <3>4. QED
      BY <1>2, <2>1, <3>1, <3>2, <3>3 DEF OrderNamedBy
  <2>2. CASE w = u /\ i # id
    <3>1. i < id + 1 <=> i < id
      BY <1>3, <2>2, BoundsAreNat DEF Ids
    <3>2. /\ orders'[w][i] = orders[w][i] /\ terms'[w][i] = terms[w][i]
          /\ next_order_id'[w] = id + 1 /\ next_order_id[w] = id
      BY <1>1, <1>6, <2>2
    <3>3. OrderNamedBy(w, i)
      BY DEF IdNamesOneOrder
    <3>4. QED
      BY <3>1, <3>2, <3>3 DEF OrderNamedBy
  <2>3. CASE w # u
    BY <1>6, <2>3 DEF IdNamesOneOrder, OrderNamedBy
  <2>4. QED
    BY <2>1, <2>2, <2>3
<1>10. FillsAreTimely' /\ BuysFillFairly' /\ SellsFillFairly'
  BY <1>1, <1>6, <1>7 DEF FillsAreTimely, BuysFillFairly, SellsFillFairly
<1>11. QED
  BY <1>4, <1>5, <1>8, <1>9, <1>10

(* The owner's instructions (lib.rs 29-103, 217-238) preserve the invariant. *)
LEMMA UserStepIInv ==
    ASSUME IInv, NEW u \in Users, UserStep(u)
    PROVE  IInv'
<1> USE DEF IInv
<1>1. ASSUME initialize_vault(u) PROVE IInv'
  <2>1. next_order_id' = next_order_id
    BY <1>1 DEF initialize_vault, NoVaultNoOrders, TypeOK
  <2>2. TypeOK'
    BY <1>1, <2>1 DEF initialize_vault, TypeOK
  <2>3. QED
    BY <1>1, <2>1, <2>2, QuietStep DEF initialize_vault
<1>2. ASSUME NEW v \in Users, NEW amount \in Amounts, deposit(u, v, amount) PROVE IInv'
  <2>1. amount \in Nat
    BY InputAssumption, U64IsNat
  <2>2. Usdc \in Mints
    BY DEF Mints
  <2>3. vault' \in [Users -> [Mints -> 0..MaxBalance]]
    BY <1>2, <2>1, <2>2, BoundsAreNat DEF deposit, TypeOK
  <2>4. wallet' \in [Users -> [Mints -> 0..MaxBalance]]
    BY <1>2, <2>1, <2>2, BoundsAreNat DEF deposit, TypeOK
  <2>5. TypeOK'
    BY <1>2, <2>3, <2>4 DEF deposit, TypeOK
  <2>6. QED
    BY <1>2, <2>5, QuietStep DEF deposit
<1>3. ASSUME NEW v \in Users, NEW mint \in Mints, NEW amount \in Amounts,
             withdraw(u, v, mint, amount)
      PROVE  IInv'
  <2>1. amount \in Nat
    BY InputAssumption, U64IsNat
  <2>2. vault' \in [Users -> [Mints -> 0..MaxBalance]]
    BY <1>3, <2>1, BoundsAreNat DEF withdraw, TypeOK
  <2>3. wallet' \in [Users -> [Mints -> 0..MaxBalance]]
    BY <1>3, <2>1, BoundsAreNat DEF withdraw, TypeOK
  <2>4. TypeOK'
    BY <1>3, <2>2, <2>3 DEF withdraw, TypeOK
  <2>5. QED
    BY <1>3, <2>4, QuietStep DEF withdraw
<1>4. ASSUME NEW v \in Users, NEW mint \in Stocks, NEW feed \in Feeds, NEW amount \in Amounts,
             NEW band \in Bands, NEW side \in Sides, NEW expiry \in Expiries,
             place_order(u, v, mint, feed, amount, band, side, expiry)
      PROVE  IInv'
  <2>1. amount \in U64 /\ band \in 0..U16_MAX /\ expiry \in Int
    BY InputAssumption
  <2>2. QED
    BY <1>4, <2>1, PlaceOrderPlaces, PlacesIInv
<1>5. ASSUME NEW o \in Users, NEW id \in Ids, cancel_order(u, o, id) PROVE IInv'
  <2>1. /\ orders[o][id] # NoOrder /\ IsOpen(orders[o][id])
        /\ orders' = [orders EXCEPT ![o][id] = NoOrder]
        /\ UNCHANGED <<now, initialized, next_order_id, vault, wallet, terms, fills>>
    BY <1>5 DEF cancel_order
  <2>2. TypeOK'
    <3>1. orders' \in [Users -> [Ids -> Order \cup {NoOrder}]]
      BY <2>1 DEF TypeOK
    <3>2. QED
      BY <2>1, <3>1 DEF TypeOK
  <2>3. \A w \in Users, i \in Ids :
            orders'[w][i] = IF w = o /\ i = id THEN NoOrder ELSE orders[w][i]
    BY <2>1 DEF TypeOK
  <2>4. FillOnce'
    BY <2>1, <2>3 DEF FillOnce
  <2>5. IdNamesOneOrder'
    <3> SUFFICES ASSUME NEW w \in Users, NEW i \in Ids
                 PROVE  OrderNamedBy(w, i)'
      BY DEF IdNamesOneOrder
    <3>1. orders'[w][i] = NoOrder \/ orders'[w][i] = orders[w][i]
      BY <2>3
    <3>2. terms'[w][i] = terms[w][i] /\ next_order_id'[w] = next_order_id[w]
      BY <2>1
    <3>3. OrderNamedBy(w, i)
      BY DEF IdNamesOneOrder
    <3>4. QED
      BY <3>1, <3>2, <3>3 DEF OrderNamedBy
  <2>6. NoVaultNoOrders' /\ FillsAreTimely' /\ BuysFillFairly' /\ SellsFillFairly'
    BY <2>1 DEF NoVaultNoOrders, FillsAreTimely, BuysFillFairly, SellsFillFairly
  <2>7. QED
    BY <2>2, <2>4, <2>5, <2>6
<1>6. QED
  BY <1>1, <1>2, <1>3, <1>4, <1>5 DEF UserStep

(* execute_fill (lib.rs 105-215) preserves the invariant.                  *)
LEMMA AnyFillIInv ==
    ASSUME IInv, AnyFill
    PROVE  IInv'
<1> USE DEF IInv
<1>1. PICK v \in Users, o \in Users, id \in Ids, mint \in Stocks, update \in PriceUpdates,
           min_out \in U64, after \in [Mints -> 0..MaxBalance] :
              execute_fill(v, o, id, mint, update, min_out, after)
  BY DEF AnyFill
<1> DEFINE order == orders[o][id]
           fill  == FillRecord(order, update, pyth_e8(update, order.pyth_feed_id, now),
                               vault[v][Usdc], vault[v][mint], after[Usdc], after[mint])
<1>2. /\ order # NoOrder /\ IsOpen(order)
      /\ orders' = [orders EXCEPT ![o][id].filled = TRUE]
      /\ vault' = [vault EXCEPT ![v] = after]
      /\ fills' = [fills EXCEPT ![o][id] = Append(@, fill)]
      /\ UNCHANGED <<now, initialized, next_order_id, wallet, terms>>
  BY <1>1 DEF execute_fill, FillMayStart
<1>3. order \in Order
  BY <1>2 DEF TypeOK
<1>4. /\ fill \in Fill
      /\ IsTimely(order, fill)
      /\ order.side = BUY => IsFairBuy(order, fill)
      /\ order.side = SELL => IsFairSell(order, fill)
  BY <1>1, <1>3, FillEffect
<1> HIDE DEF order, fill
<1> DEFINE filled == [order EXCEPT !.filled = TRUE]
<1>5. /\ filled \in Order /\ ~IsOpen(filled) /\ filled # NoOrder
      /\ [filled EXCEPT !.filled = FALSE] = [order EXCEPT !.filled = FALSE]
  BY <1>3, NoOrderAssumption DEF Order, IsOpen
<1> HIDE DEF filled
<1>6. /\ terms[o][id] = [order EXCEPT !.filled = FALSE]
      /\ terms[o][id] # NoOrder
  BY <1>2 DEF IdNamesOneOrder, OrderNamedBy, order
<1>7. fills[o][id] = <<>> /\ Append(fills[o][id], fill) = <<fill>>
  <2>1. Len(fills[o][id]) # 1 /\ Len(fills[o][id]) <= 1
    BY <1>2 DEF FillOnce, order
  <2>2. fills[o][id] \in Seq(Fill)
    BY DEF TypeOK
  <2>3. fills[o][id] = <<>>
    BY <2>1, <2>2, NotYetFilled
  <2>4. QED
    BY <2>3
<1>8. \A w \in Users, i \in Ids :
          /\ orders'[w][i] = IF w = o /\ i = id THEN filled ELSE orders[w][i]
          /\ fills'[w][i] = IF w = o /\ i = id THEN <<fill>> ELSE fills[w][i]
          /\ terms'[w][i] = terms[w][i]
          /\ next_order_id'[w] = next_order_id[w]
  BY <1>2, <1>7 DEF TypeOK, order, filled
<1>9. TypeOK'
  <2>1. orders' \in [Users -> [Ids -> Order \cup {NoOrder}]]
    <3>1. orders' = [orders EXCEPT ![o][id] = filled]
      BY <1>2 DEF filled, order
    <3>2. QED
      BY <1>5, <3>1 DEF TypeOK
  <2>2. fills' \in [Users -> [Ids -> Seq(Fill)]]
    <3>1. Append(fills[o][id], fill) \in Seq(Fill)
      BY <1>4, <1>7
    <3>2. QED
      BY <1>2, <3>1 DEF TypeOK
  <2>3. vault' \in [Users -> [Mints -> 0..MaxBalance]]
    BY <1>2 DEF TypeOK
  <2>4. QED
    BY <1>2, <2>1, <2>2, <2>3 DEF TypeOK
<1>10. NoVaultNoOrders'
  BY <1>2 DEF NoVaultNoOrders
<1>11. FillOnce'
  <2>1. Len(<<fill>>) = 1
    OBVIOUS
  <2>2. SUFFICES ASSUME NEW w \in Users, NEW i \in Ids
                 PROVE  /\ Len(fills'[w][i]) <= 1
                        /\ Len(fills'[w][i]) = 1
                              <=> (orders'[w][i] # NoOrder /\ ~IsOpen(orders'[w][i]))
    BY DEF FillOnce, IsOpen
  <2>3. CASE w = o /\ i = id
    <3>1. orders'[w][i] = filled /\ fills'[w][i] = <<fill>>
      BY <1>8, <2>3
    <3>2. QED
      BY <1>5, <2>1, <3>1
  <2>4. CASE ~(w = o /\ i = id)
    <3>1. orders'[w][i] = orders[w][i] /\ fills'[w][i] = fills[w][i]
      BY <1>8, <2>4
    <3>2. QED
      BY <3>1 DEF FillOnce
  <2>5. QED
    BY <2>3, <2>4
<1>12. IdNamesOneOrder'
  <2> SUFFICES ASSUME NEW w \in Users, NEW i \in Ids
               PROVE  OrderNamedBy(w, i)'
    BY DEF IdNamesOneOrder
  <2>1. CASE w = o /\ i = id
    <3>1. orders'[w][i] = filled /\ terms'[w][i] = terms[o][id]
      BY <1>8, <2>1
    <3>2. OrderNamedBy(o, id) /\ next_order_id'[w] = next_order_id[w]
      BY <1>8 DEF IdNamesOneOrder
    <3>3. QED
      BY <1>5, <1>6, <2>1, <3>1, <3>2 DEF OrderNamedBy
  <2>2. CASE ~(w = o /\ i = id)
    <3>1. /\ orders'[w][i] = orders[w][i] /\ terms'[w][i] = terms[w][i]
          /\ next_order_id'[w] = next_order_id[w]
      BY <1>8, <2>2
    <3>2. OrderNamedBy(w, i)
      BY DEF IdNamesOneOrder
    <3>3. QED
      BY <3>1, <3>2 DEF OrderNamedBy
  <2>3. QED
    BY <2>1, <2>2
<1>13. /\ IsTimely(terms[o][id], fill)
       /\ terms[o][id].side = BUY => IsFairBuy(terms[o][id], fill)
       /\ terms[o][id].side = SELL => IsFairSell(terms[o][id], fill)
  <2>1. /\ terms[o][id].expiry_ts = order.expiry_ts
        /\ terms[o][id].pyth_feed_id = order.pyth_feed_id
        /\ terms[o][id].usd_amount = order.usd_amount
        /\ terms[o][id].band_bps = order.band_bps
        /\ terms[o][id].stock_mint = order.stock_mint
        /\ terms[o][id].side = order.side
    BY <1>3, <1>6 DEF Order
  <2>2. QED
    BY <1>4, <2>1 DEF IsTimely, IsFairBuy, IsFairSell
<1>14. FillsAreTimely' /\ BuysFillFairly' /\ SellsFillFairly'
  <2> SUFFICES ASSUME NEW w \in Users, NEW i \in Ids, NEW k \in DOMAIN fills'[w][i]
               PROVE  /\ IsTimely(terms'[w][i], fills'[w][i][k])
                      /\ terms'[w][i].side = BUY => IsFairBuy(terms'[w][i], fills'[w][i][k])
                      /\ terms'[w][i].side = SELL => IsFairSell(terms'[w][i], fills'[w][i][k])
    BY DEF FillsAreTimely, BuysFillFairly, SellsFillFairly, IsTimely, IsFairBuy, IsFairSell, PublishedE8
  <2>1. CASE w = o /\ i = id
    <3>1. fills'[w][i] = <<fill>> /\ terms'[w][i] = terms[o][id]
      BY <1>8, <2>1
    <3>2. k = 1
      BY <3>1
    <3>3. fills'[w][i][k] = fill
      BY <3>1, <3>2
    <3>4. QED
      BY <1>13, <3>1, <3>3
  <2>2. CASE ~(w = o /\ i = id)
    <3>1. fills'[w][i] = fills[w][i] /\ terms'[w][i] = terms[w][i]
      BY <1>8, <2>2
    <3>2. QED
      BY <3>1 DEF FillsAreTimely, BuysFillFairly, SellsFillFairly
  <2>3. QED
    BY <2>1, <2>2
<1>15. QED
  BY <1>9, <1>10, <1>11, <1>12, <1>14

(* Time and transfers from outside the program preserve the invariant.     *)
LEMMA EnvironmentStepIInv ==
    ASSUME IInv, EnvironmentStep
    PROVE  IInv'
<1> USE DEF IInv
<1>1. CASE Tick
  <2>1. TypeOK'
    BY <1>1, BoundsAreNat DEF Tick, TypeOK
  <2>2. QED
    BY <1>1, <2>1, QuietStep DEF Tick
<1>2. ASSUME NEW v \in Users, NEW mint \in Mints, NEW amount \in Amounts,
             TransferIn(v, mint, amount)
      PROVE  IInv'
  <2>1. amount \in Nat /\ mint \in Mints
    BY InputAssumption, U64IsNat DEF Mints
  <2>2. vault' \in [Users -> [Mints -> 0..MaxBalance]]
    BY <1>2, <2>1, BoundsAreNat DEF TransferIn, TypeOK
  <2>3. TypeOK'
    BY <1>2, <2>2 DEF TransferIn, TypeOK
  <2>4. QED
    BY <1>2, <2>3, QuietStep DEF TransferIn
<1>3. QED
  BY <1>1, <1>2 DEF EnvironmentStep

(* Every step preserves the invariant.                                     *)
LEMMA VaultStepIInv == IInv /\ [VaultStep]_vars => IInv'
<1> SUFFICES ASSUME IInv, [VaultStep]_vars PROVE IInv'
  OBVIOUS
<1>1. CASE UNCHANGED vars
  <2>1. TypeOK'
    BY <1>1 DEF IInv, TypeOK, vars
  <2>2. QED
    BY <1>1, <2>1, QuietStep DEF vars
<1>2. CASE VaultStep
  BY <1>2, PlacesIInv, UserStepIInv, AnyFillIInv, EnvironmentStepIInv DEF VaultStep, AnyPlace
<1>3. QED
  BY <1>1, <1>2

-----------------------------------------------------------------------------
(* The inductive invariant.                                                *)
THEOREM VaultInvariant == Spec => []IInv
  BY InitIInv, VaultStepIInv, NextIsVaultStep, PTL DEF Spec

(* Balances, ids, orders and fills keep their types: in particular no      *)
(* instruction or swap overdraws an account.                               *)
THEOREM TypeCorrect == Spec => []TypeOK
<1>1. IInv => TypeOK
  BY DEF IInv
<1>2. QED
  BY <1>1, VaultInvariant, PTL

(* No order is filled twice, and no filled order is cancelled.             *)
THEOREM FilledAtMostOnce == Spec => []FillOnce
<1>1. IInv => FillOnce
  BY DEF IInv
<1>2. QED
  BY <1>1, VaultInvariant, PTL

(* An order id never names a second order.                                 *)
THEOREM IdsAreNeverReused == Spec => []IdNamesOneOrder
<1>1. IInv => IdNamesOneOrder
  BY DEF IInv
<1>2. QED
  BY <1>1, VaultInvariant, PTL

(* Every fill is on time and priced by a fresh update of the order's feed. *)
THEOREM FillsOnTime == Spec => []FillsAreTimely
<1>1. IInv => FillsAreTimely
  BY DEF IInv
<1>2. QED
  BY <1>1, VaultInvariant, PTL

(* Every buy costs at most its notional, at a price inside its band.       *)
THEOREM BuysAreFair == Spec => []BuysFillFairly
<1>1. IInv => BuysFillFairly
  BY DEF IInv
<1>2. QED
  BY <1>1, VaultInvariant, PTL

(* Every sell earns a price inside its band and sells no more than its     *)
(* notional.                                                               *)
THEOREM SellsAreFair == Spec => []SellsFillFairly
<1>1. IInv => SellsFillFairly
  BY DEF IInv
<1>2. QED
  BY <1>1, VaultInvariant, PTL

-----------------------------------------------------------------------------
(* The vault program implements LimitOrders, and no step of it moves the   *)
(* tokens of a user except to that user or within what an order of that    *)
(* user may take.                                                          *)
StepPays == \A u \in Users, m \in Mints :
    vault'[u][m] < vault[u][m] => GoesToOwner(u, m) \/ PaysForOpenOrder(u, m)

(* The vault a fill draws on is that of the order's owner, and the one     *)
(* balance it lowers is the side's: the other one grows.                   *)
LEMMA FillSwaps ==
    ASSUME IInv, NEW v \in Users, NEW o \in Users, NEW id \in Ids, NEW mint \in Stocks,
           NEW update \in PriceUpdates, NEW min_out \in U64,
           NEW after \in [Mints -> 0..MaxBalance],
           execute_fill(v, o, id, mint, update, min_out, after)
    PROVE  /\ v = o /\ orders[o][id] \in Order /\ IsOpen(orders[o][id])
           /\ orders[o][id] # NoOrder /\ orders[o][id].stock_mint = mint
           /\ orders[o][id].side \in {BUY, SELL}
           /\ orders[o][id].side = BUY =>
                 /\ vault[v][Usdc] - after[Usdc] \in 0..orders[o][id].usd_amount
                 /\ after[mint] - vault[v][mint] \in 1..MaxBalance
           /\ orders[o][id].side = SELL =>
                 /\ vault[v][mint] - after[mint] \in 0..MaxBalance
                 /\ after[Usdc] - vault[v][Usdc] \in 1..MaxBalance
<1> DEFINE order == orders[o][id]
           nyse == pyth_e8(update, order.pyth_feed_id, now)
           usdc == vault[v][Usdc]
           stock == vault[v][mint]
           usdcAfter == after[Usdc]
           stockAfter == after[mint]
<1>1. /\ order # NoOrder /\ FillAccounts(v, mint, order)
      /\ FillMayStart(order, mint, nyse, min_out)
      /\ order.side = BUY => BuyMayFinish(order, min_out, usdc, stock, usdcAfter, stockAfter)
      /\ order.side = SELL =>
            SellMayFinish(order, mint, nyse, min_out, usdc, stock, usdcAfter, stockAfter)
  BY DEF execute_fill, BUY, SELL
<1>2. order \in Order /\ IsOpen(order)
  BY <1>1 DEF IInv, TypeOK, FillMayStart
<1>3. /\ order.side \in {BUY, SELL} /\ order.usd_amount \in Nat
      /\ order.vault = v /\ order.stock_mint = mint
  BY <1>1, <1>2, U64IsNat DEF Order, FillAccounts
<1>4. v = o
  <2>1. OrderNamedBy(o, id)
    BY DEF IInv, IdNamesOneOrder
  <2>2. terms[o][id].vault = o /\ terms[o][id] = [order EXCEPT !.filled = FALSE]
    BY <1>1, <2>1 DEF OrderNamedBy
  <2>3. QED
    BY <1>2, <1>3, <2>2 DEF Order
<1>5. /\ usdc \in 0..MaxBalance /\ stock \in 0..MaxBalance /\ min_out \in Nat
      /\ usdcAfter \in 0..MaxBalance /\ stockAfter \in 0..MaxBalance
  BY U64IsNat DEF IInv, TypeOK, Mints
<1> HIDE DEF order, nyse, usdc, stock, usdcAfter, stockAfter
<1>6. ASSUME order.side = BUY
      PROVE  usdc - usdcAfter \in 0..order.usd_amount /\ stockAfter - stock \in 1..MaxBalance
  <2>1. min_out > 0
    BY <1>1, <1>6 DEF FillMayStart, implied_price_e8
  <2>2. QED
    BY <1>1, <1>3, <1>5, <1>6, <2>1, BoundsAreNat DEF BuyMayFinish, SaturatingAdd
<1>7. ASSUME order.side = SELL
      PROVE  stock - stockAfter \in 0..MaxBalance /\ usdcAfter - usdc \in 1..MaxBalance
  <2>1. usdcAfter - usdc > 0 /\ stockAfter <= stock
    BY <1>1, <1>7 DEF SellMayFinish, implied_price_e8
  <2>2. QED
    BY <1>5, <2>1, BoundsAreNat
<1>8. QED
  BY <1>1, <1>2, <1>3, <1>4, <1>6, <1>7 DEF order, usdc, stock, usdcAfter, stockAfter

-----------------------------------------------------------------------------
(* A step lowers a vault only for its owner's wallet or one open order.    *)
LEMMA VaultStepPays == IInv /\ [VaultStep]_vars => StepPays
<1> SUFFICES ASSUME IInv, [VaultStep]_vars, NEW w \in Users, NEW m \in Mints,
                    vault'[w][m] < vault[w][m]
             PROVE  GoesToOwner(w, m) \/ PaysForOpenOrder(w, m)
  BY DEF StepPays
<1> USE DEF IInv
<1>1. vault' # vault /\ vault[w][m] \in Nat /\ wallet[w][m] \in Nat
  BY BoundsAreNat DEF TypeOK
<1>2. ASSUME NEW u \in Users, NEW v \in Users, NEW amount \in Amounts, deposit(u, v, amount)
      PROVE  FALSE
  <2>1. amount \in Nat /\ Usdc \in Mints
    BY InputAssumption, U64IsNat DEF Mints
  <2>2. vault'[w][m] = IF w = v /\ m = Usdc THEN vault[w][m] + amount ELSE vault[w][m]
    BY <1>2, <2>1 DEF deposit, TypeOK
  <2>3. QED
    BY <1>1, <2>1, <2>2
<1>3. ASSUME NEW u \in Users, NEW v \in Users, NEW mint \in Mints, NEW amount \in Amounts,
             withdraw(u, v, mint, amount)
      PROVE  GoesToOwner(w, m)
  <2>1. amount \in Nat /\ u = v
    BY <1>3, InputAssumption, U64IsNat DEF withdraw, OwnsVault
  <2>2. /\ vault'[w][m] = IF w = v /\ m = mint THEN vault[w][m] - amount ELSE vault[w][m]
        /\ wallet'[w][m] = IF w = v /\ m = mint THEN wallet[w][m] + amount ELSE wallet[w][m]
    BY <1>3, <2>1 DEF withdraw, TypeOK
  <2>3. QED
    BY <1>1, <2>1, <2>2 DEF GoesToOwner
<1>4. ASSUME NEW v \in Users, NEW mint \in Mints, NEW amount \in Amounts,
             TransferIn(v, mint, amount)
      PROVE  FALSE
  <2>1. amount \in Nat /\ mint \in Mints
    BY InputAssumption, U64IsNat DEF Mints
  <2>2. vault'[w][m] = IF w = v /\ m = mint THEN vault[w][m] + amount ELSE vault[w][m]
    BY <1>4, <2>1 DEF TransferIn, TypeOK
  <2>3. QED
    BY <1>1, <2>1, <2>2
<1>5. ASSUME AnyFill PROVE PaysForOpenOrder(w, m)
  <2>1. PICK v \in Users, o \in Users, id \in Ids, mint \in Stocks, update \in PriceUpdates,
             min_out \in U64, after \in [Mints -> 0..MaxBalance] :
                execute_fill(v, o, id, mint, update, min_out, after)
    BY <1>5 DEF AnyFill
  <2> DEFINE order == orders[o][id]
  <2>2. /\ v = o /\ order \in Order /\ IsOpen(order) /\ order # NoOrder
        /\ order.stock_mint = mint /\ order.side \in {BUY, SELL}
        /\ order.side = BUY => /\ vault[v][Usdc] - after[Usdc] \in 0..order.usd_amount
                               /\ after[mint] - vault[v][mint] \in 1..MaxBalance
        /\ order.side = SELL => after[Usdc] - vault[v][Usdc] \in 1..MaxBalance
    BY <2>1, FillSwaps
  <2> HIDE DEF order
  <2>3. vault' = [vault EXCEPT ![v] = after]
    BY <2>1 DEF execute_fill
  <2>4. w = v /\ vault'[w] = after /\ after[m] \in Nat
    BY <1>1, <2>3, BoundsAreNat DEF TypeOK
  <2>5. order.usd_amount \in Nat
    BY <2>2, U64IsNat DEF Order
  <2>6. w = o /\ MayTake(order, m, vault[w][m] - vault'[w][m])
    <3>1. CASE m = Usdc
      BY <1>1, <2>2, <2>4, <2>5, <3>1, BoundsAreNat DEF MayTake, BUY, SELL
    <3>2. CASE m # Usdc
      BY <1>1, <2>2, <2>4, <3>2, BoundsAreNat DEF MayTake, BUY, SELL
    <3>3. QED
      BY <3>1, <3>2
  <2>7. fills'[o][id] # fills[o][id]
    <3>1. PICK fill : fills' = [fills EXCEPT ![o][id] = Append(@, fill)]
      BY <2>1 DEF execute_fill
    <3>2. fills[o][id] \in Seq(Fill)
      BY DEF TypeOK
    <3>3. fills'[o][id] = Append(fills[o][id], fill)
      BY <3>1 DEF TypeOK
    <3>4. Len(Append(fills[o][id], fill)) = Len(fills[o][id]) + 1 /\ Len(fills[o][id]) \in Nat
      BY <3>2
    <3>5. QED
      BY <3>3, <3>4
  <2>8. QED
    BY <2>2, <2>6, <2>7 DEF PaysForOpenOrder, order
<1>6. QED
  <2>1. CASE UNCHANGED vars
    BY <1>1, <2>1 DEF vars
  <2>2. ASSUME NEW u \in Users, UserStep(u) PROVE GoesToOwner(w, m)
    BY <1>1, <1>2, <1>3, <2>2
       DEF UserStep, initialize_vault, place_order, cancel_order
  <2>3. ASSUME EnvironmentStep PROVE FALSE
    BY <1>1, <1>4, <2>3 DEF EnvironmentStep, Tick
  <2>4. ~AnyPlace
    BY <1>1 DEF AnyPlace, Places
  <2>5. QED
    BY <1>5, <2>1, <2>2, <2>3, <2>4 DEF VaultStep

(* The tokens of a vault leave it only for its owner's wallet or while one *)
(* open order of its owner is filled; whatever accounts and data a keeper  *)
(* gives the swap, a fill costs no USDC beyond a buy's notional and none   *)
(* of the stock it buys (lib.rs 144-201, 388-393, 475, 507-528).           *)
THEOREM VaultOutflow == Spec => OutflowIsOwnersOrOrders
<1>1. Spec => [][StepPays]_vars
  BY VaultStepPays, NextIsVaultStep, VaultInvariant, PTL DEF Spec
<1>2. QED
  BY <1>1 DEF OutflowIsOwnersOrOrders, StepPays

-----------------------------------------------------------------------------
Status == [u \in Users |-> [i \in Ids |-> StatusOf(u, i)]]
Deals == [u \in Users |-> [i \in Ids |-> DealOf(terms[u][i])]]

(* Initially no order is placed.                                           *)
LEMMA InitRefines == Init => Promise!Init
<1> SUFFICES ASSUME Init PROVE Promise!Init
  OBVIOUS
<1>1. \A u \in Users, i \in Ids : terms[u][i] = NoOrder
  BY DEF Init
<1>2. \A u \in Users, i \in Ids : StatusOf(u, i) = "none" /\ DealOf(terms[u][i]) = Promise!NoDeal
  BY <1>1 DEF StatusOf, DealOf, Promise!NoDeal
<1>3. Status = [u \in Users |-> [i \in Ids |-> "none"]]
  BY <1>2 DEF Status
<1>4. Deals = [u \in Users |-> [i \in Ids |-> Promise!NoDeal]]
  BY <1>2 DEF Deals
<1>5. vault = [u \in Users |-> [m \in Mints |-> 0]]
      /\ wallet \in [Users -> [Mints -> 0..MaxBalance]]
  BY BoundsAreNat DEF Init
<1>6. QED
  BY <1>3, <1>4, <1>5 DEF Promise!Init, Status, Deals

(* Steps that leave orders and terms alone change no status and no deal.   *)
LEMMA SameBook ==
    ASSUME UNCHANGED <<orders, terms>>
    PROVE  Status' = Status /\ Deals' = Deals
  BY DEF Status, Deals, StatusOf, IsOpen

(* Placing an order takes an id that had no status and gives it a deal     *)
(* (lib.rs 63-99).                                                         *)
LEMMA PlacesRefines ==
    ASSUME IInv, NEW u \in Users, NEW id, NEW order, Places(u, id, order)
    PROVE  Promise!Next
<1> USE DEF IInv
<1>1. /\ id = next_order_id[u]
      /\ order.side = BUY => vault[u][Usdc] >= order.usd_amount
      /\ orders' = [orders EXCEPT ![u][id] = order]
      /\ terms' = [terms EXCEPT ![u][id] = order]
      /\ UNCHANGED <<vault, wallet>>
  BY DEF Places
<1>2. id \in Ids /\ id \in Nat
  BY BoundsAreNat DEF Places, Ids
<1>3. terms[u][id] = NoOrder
  <2>1. OrderNamedBy(u, id)
    BY <1>2 DEF IdNamesOneOrder
  <2>2. ~(id < next_order_id[u])
    BY <1>1, <1>2
  <2>3. QED
    BY <2>1, <2>2 DEF OrderNamedBy
<1>4. order \in Order
  BY DEF Places
<1>5. order # NoOrder /\ IsOpen(order)
  BY <1>4, NoOrderAssumption DEF Places
<1>6. DealOf(order) \in Promise!Deal
  <2>1. /\ Usdc \in Mints /\ order.stock_mint \in Mints /\ vault[u][Usdc] \in 0..MaxBalance
        /\ order.usd_amount \in Nat
    BY <1>4, U64IsNat DEF TypeOK, Mints, Order
  <2>2. order.side = BUY => order.usd_amount \in 0..MaxBalance
    BY <1>1, <2>1, BoundsAreNat
  <2>3. QED
    BY <1>5, <2>1, <2>2, BoundsAreNat DEF DealOf, Promise!Deal
<1>7. \A w \in Users, i \in Ids :
          /\ orders'[w][i] = IF w = u /\ i = id THEN order ELSE orders[w][i]
          /\ terms'[w][i] = IF w = u /\ i = id THEN order ELSE terms[w][i]
  BY <1>1, <1>2 DEF TypeOK
<1>8. Status' = [Status EXCEPT ![u][id] = "open"]
  <2>1. \A w \in Users, i \in Ids :
            StatusOf(w, i)' = IF w = u /\ i = id THEN "open" ELSE StatusOf(w, i)
    BY <1>5, <1>7 DEF StatusOf, IsOpen
  <2>2. QED
    BY <1>2, <2>1 DEF Status
<1>9. Deals' = [Deals EXCEPT ![u][id] = DealOf(order)]
  <2>1. \A w \in Users, i \in Ids :
            DealOf(terms[w][i])' = IF w = u /\ i = id THEN DealOf(order) ELSE DealOf(terms[w][i])
    BY <1>7
  <2>2. QED
    BY <1>2, <2>1 DEF Deals
<1>10. Status[u][id] = "none"
  BY <1>2, <1>3 DEF Status, StatusOf
<1>11. Promise!Place(u, id)
  BY <1>1, <1>6, <1>8, <1>9, <1>10
     DEF Promise!Place, Promise!Become, Status, Deals
<1>12. QED
  BY <1>2, <1>11 DEF Promise!Next

(* place_order places and cancel_order cancels (lib.rs 56-103); the owner's *)
(* other instructions change no order.                                     *)
LEMMA UserStepRefines ==
    ASSUME IInv, NEW u \in Users, UserStep(u)
    PROVE  [Promise!Next]_Promise!loVars
<1> USE DEF IInv
<1>1. ASSUME initialize_vault(u) PROVE UNCHANGED Promise!loVars
  BY <1>1, SameBook DEF initialize_vault, Promise!loVars, Status, Deals
<1>2. ASSUME NEW v \in Users, NEW amount \in Amounts, deposit(u, v, amount)
      PROVE  Promise!MoveIn(u, Usdc)
  <2>1. u = v /\ amount \in Nat /\ amount > 0 /\ Usdc \in Mints /\ vault[u][Usdc] \in 0..MaxBalance
    BY <1>2, InputAssumption, U64IsNat DEF deposit, OwnsVault, Mints, TypeOK
  <2>2. amount \in 1..MaxBalance
    BY <1>2, <2>1, BoundsAreNat DEF deposit
  <2>3. Status' = Status /\ Deals' = Deals
    BY <1>2, SameBook DEF deposit
  <2>4. QED
    BY <1>2, <2>1, <2>2, <2>3 DEF deposit, Promise!MoveIn, Status, Deals
<1>3. ASSUME NEW v \in Users, NEW mint \in Mints, NEW amount \in Amounts,
             withdraw(u, v, mint, amount)
      PROVE  Promise!MoveOut(u, mint)
  <2>1. u = v /\ amount \in Nat /\ amount > 0 /\ vault[u][mint] \in 0..MaxBalance
    BY <1>3, InputAssumption, U64IsNat DEF withdraw, OwnsVault, TypeOK
  <2>2. amount \in 1..MaxBalance
    BY <1>3, <2>1, BoundsAreNat DEF withdraw
  <2>3. Status' = Status /\ Deals' = Deals
    BY <1>3, SameBook DEF withdraw
  <2>4. QED
    BY <1>3, <2>1, <2>2, <2>3 DEF withdraw, Promise!MoveOut, Status, Deals
<1>4. ASSUME NEW v \in Users, NEW mint \in Stocks, NEW feed \in Feeds, NEW amount \in Amounts,
             NEW band \in Bands, NEW side \in Sides, NEW expiry \in Expiries,
             place_order(u, v, mint, feed, amount, band, side, expiry)
      PROVE  Promise!Next
  <2>1. amount \in U64 /\ band \in 0..U16_MAX /\ expiry \in Int
    BY InputAssumption
  <2>2. QED
    BY <1>4, <2>1, PlaceOrderPlaces, PlacesRefines
<1>5. ASSUME NEW o \in Users, NEW id \in Ids, cancel_order(u, o, id)
      PROVE  Promise!Cancel(o, id)
  <2>1. /\ orders[o][id] # NoOrder /\ IsOpen(orders[o][id])
        /\ orders' = [orders EXCEPT ![o][id] = NoOrder]
        /\ UNCHANGED <<vault, wallet, terms>>
    BY <1>5 DEF cancel_order
  <2>2. terms[o][id] # NoOrder
    BY <2>1 DEF IdNamesOneOrder, OrderNamedBy
  <2>3. \A w \in Users, i \in Ids :
            StatusOf(w, i)' = IF w = o /\ i = id THEN "cancelled" ELSE StatusOf(w, i)
    <3>1. \A w \in Users, i \in Ids :
              orders'[w][i] = IF w = o /\ i = id THEN NoOrder ELSE orders[w][i]
      BY <2>1 DEF TypeOK
    <3>2. QED
      BY <2>1, <2>2, <3>1 DEF StatusOf, IsOpen
  <2>4. Status' = [Status EXCEPT ![o][id] = "cancelled"]
    BY <2>3 DEF Status
  <2>5. Deals' = Deals
    BY <2>1 DEF Deals
  <2>6. Status[o][id] = "open"
    BY <2>1, <2>2 DEF Status, StatusOf
  <2>7. QED
    BY <2>1, <2>4, <2>5, <2>6 DEF Promise!Cancel, Promise!Become, Status, Deals
<1>6. QED
  <2>1. Usdc \in Mints
    BY DEF Mints
  <2>2. QED
    BY <1>1, <1>2, <1>3, <1>4, <1>5, <2>1 DEF UserStep, Promise!Next

(* execute_fill fills one open order within its limit (lib.rs 105-215).    *)
LEMMA AnyFillRefines ==
    ASSUME IInv, AnyFill
    PROVE  Promise!Next
<1> USE DEF IInv
<1>1. PICK v \in Users, o \in Users, id \in Ids, mint \in Stocks, update \in PriceUpdates,
           min_out \in U64, after \in [Mints -> 0..MaxBalance] :
              execute_fill(v, o, id, mint, update, min_out, after)
  BY DEF AnyFill
<1> DEFINE order == orders[o][id]
<1>2. /\ v = o /\ order \in Order /\ IsOpen(order) /\ order # NoOrder
      /\ order.stock_mint = mint /\ order.side \in {BUY, SELL}
      /\ order.side = BUY =>
            /\ vault[v][Usdc] - after[Usdc] \in 0..order.usd_amount
            /\ after[mint] - vault[v][mint] \in 1..MaxBalance
      /\ order.side = SELL =>
            /\ vault[v][mint] - after[mint] \in 0..MaxBalance
            /\ after[Usdc] - vault[v][Usdc] \in 1..MaxBalance
  BY <1>1, FillSwaps
<1>3. /\ orders' = [orders EXCEPT ![o][id].filled = TRUE]
      /\ vault' = [vault EXCEPT ![o] = after]
      /\ UNCHANGED <<wallet, terms>>
  BY <1>1, <1>2 DEF execute_fill
<1>4. terms[o][id] # NoOrder /\ terms[o][id] = [order EXCEPT !.filled = FALSE]
  BY <1>2 DEF IdNamesOneOrder, OrderNamedBy
<1>5. mint # Usdc /\ mint \in Mints /\ Usdc \in Mints
  BY MintAssumption DEF Mints
<1>6. \A w \in Users, i \in Ids :
          StatusOf(w, i)' = IF w = o /\ i = id THEN "filled" ELSE StatusOf(w, i)
  <2> DEFINE filled == [order EXCEPT !.filled = TRUE]
  <2>1. filled \in Order /\ filled # NoOrder /\ ~IsOpen(filled)
    BY <1>2, NoOrderAssumption DEF Order, IsOpen
  <2>2. \A w \in Users, i \in Ids :
            orders'[w][i] = IF w = o /\ i = id THEN filled ELSE orders[w][i]
    BY <1>3 DEF TypeOK
  <2> HIDE DEF filled
  <2>3. ASSUME NEW w \in Users, NEW i \in Ids
        PROVE  StatusOf(w, i)' = IF w = o /\ i = id THEN "filled" ELSE StatusOf(w, i)
    <3>1. terms'[w][i] = terms[w][i]
      BY <1>3
    <3>2. CASE w = o /\ i = id
      <4>1. orders'[w][i] = filled /\ terms'[w][i] # NoOrder
        BY <1>4, <2>2, <3>1, <3>2
      <4>2. QED
        BY <2>1, <3>2, <4>1 DEF StatusOf, IsOpen
    <3>3. CASE ~(w = o /\ i = id)
      <4>1. orders'[w][i] = orders[w][i]
        BY <2>2, <3>3
      <4>2. QED
        BY <3>1, <3>3, <4>1 DEF StatusOf, IsOpen
    <3>4. QED
      BY <3>2, <3>3
  <2>4. QED
    BY <2>3
<1>7. Status' = [Status EXCEPT ![o][id] = "filled"]
  BY <1>6 DEF Status
<1>8. Deals' = Deals
  BY <1>3 DEF Deals
<1>9. Status[o][id] = "open"
  BY <1>2, <1>4 DEF Status, StatusOf
<1>10. /\ Deals[o][id].give = IF order.side = BUY THEN Usdc ELSE mint
       /\ Deals[o][id].take = IF order.side = BUY THEN mint ELSE Usdc
       /\ Deals[o][id].limit = IF order.side = BUY THEN order.usd_amount ELSE MaxBalance
  <2>1. /\ terms[o][id].side = order.side /\ terms[o][id].stock_mint = mint
        /\ terms[o][id].usd_amount = order.usd_amount
    BY <1>2, <1>4 DEF Order
  <2>2. Deals[o][id] = DealOf(terms[o][id])
    BY DEF Deals
  <2>3. QED
    BY <1>4, <2>1, <2>2 DEF DealOf
<1> HIDE DEF order
<1>11. /\ vault[o][Deals[o][id].give] - after[Deals[o][id].give] \in 0..Deals[o][id].limit
       /\ after[Deals[o][id].take] > vault[o][Deals[o][id].take]
  <2>1. \A m \in Mints : vault[o][m] \in Nat /\ after[m] \in Nat
    BY BoundsAreNat DEF TypeOK
  <2>2. CASE order.side = BUY
    BY <1>2, <1>5, <1>10, <2>1, <2>2, BoundsAreNat
  <2>3. CASE order.side = SELL
    BY <1>2, <1>5, <1>10, <2>1, <2>3, BoundsAreNat DEF BUY, SELL
  <2>4. QED
    BY <1>2, <2>2, <2>3
<1>12. Promise!Fill(o, id)
  BY <1>3, <1>7, <1>8, <1>9, <1>11
     DEF Promise!Fill, Promise!Become, Status, Deals
<1>13. QED
  BY <1>12 DEF Promise!Next

(* Time and transfers from outside change no order.                        *)
LEMMA EnvironmentStepRefines ==
    ASSUME IInv, EnvironmentStep
    PROVE  [Promise!Next]_Promise!loVars
<1> USE DEF IInv
<1>1. CASE Tick
  BY <1>1, SameBook DEF Tick, Promise!loVars, Status, Deals
<1>2. ASSUME NEW v \in Users, NEW mint \in Mints, NEW amount \in Amounts,
             TransferIn(v, mint, amount)
      PROVE  [Promise!Next]_Promise!loVars
  <2>1. amount \in Nat /\ mint \in Mints /\ vault[v][mint] \in 0..MaxBalance
    BY InputAssumption, U64IsNat DEF Mints, TypeOK
  <2>2. Status' = Status /\ Deals' = Deals
    BY <1>2, SameBook DEF TransferIn
  <2>3. CASE amount = 0
    <3>1. vault' = vault
      BY <1>2, <2>1, <2>3, BoundsAreNat DEF TransferIn, TypeOK
    <3>2. QED
      BY <1>2, <2>2, <3>1 DEF TransferIn, Promise!loVars, Status, Deals
  <2>4. CASE amount # 0
    <3>1. amount \in 1..MaxBalance
      BY <1>2, <2>1, <2>4, BoundsAreNat DEF TransferIn
    <3>2. Promise!MoveIn(v, mint)
      BY <1>2, <2>2, <3>1 DEF TransferIn, Promise!MoveIn, Status, Deals
    <3>3. QED
      BY <2>1, <3>2 DEF Promise!Next
  <2>5. QED
    BY <2>3, <2>4
<1>3. QED
  BY <1>1, <1>2 DEF EnvironmentStep

(* Every step is a step of LimitOrders or changes nothing it sees.         *)
LEMMA VaultStepRefines == IInv /\ [VaultStep]_vars => [Promise!Next]_Promise!loVars
<1> SUFFICES ASSUME IInv, [VaultStep]_vars PROVE [Promise!Next]_Promise!loVars
  OBVIOUS
<1>1. CASE UNCHANGED vars
  BY <1>1, SameBook DEF vars, Promise!loVars, Status, Deals
<1>2. CASE VaultStep
  BY <1>2, PlacesRefines, UserStepRefines, AnyFillRefines, EnvironmentStepRefines
     DEF VaultStep, AnyPlace
<1>3. QED
  BY <1>1, <1>2

(* The program implements LimitOrders for any route a keeper may choose:   *)
(* every order ends once, and its fill touches only its owner's funds and  *)
(* gives no more than its limit of the token it sells; tokens the order    *)
(* does not name may go anywhere in it (lib.rs 56-238).                    *)
THEOREM ImplementsLimitOrders == Spec => KeepsPromise
<1>1. Spec => Promise!Spec
  BY InitRefines, VaultStepRefines, NextIsVaultStep, VaultInvariant, PTL DEF Spec, Promise!Spec
<1>2. QED
  BY <1>1 DEF KeepsPromise
=============================================================================
