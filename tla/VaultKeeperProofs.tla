-------------------------- MODULE VaultKeeperProofs --------------------------
(***************************************************************************)
(* The keeper in vault mode, for every set of users, stocks, prices and    *)
(* published updates, every number of orders, submissions and crashes.     *)
(*                                                                         *)
(* What the keeper read from the chain is old when it is used.  KeeperInv  *)
(* says how it can have aged (IsListed): the id it names is spent, and its *)
(* account is as it was listed, filled, or closed.  That needs the ids to  *)
(* grow (OrdersInv); that a submission which landed fills its order for    *)
(* good is what makes every other submission of it fail (TxsInv).          *)
(*                                                                         *)
(* Every step of the keeper is a VaultStep of the program or none          *)
(* (KeeperMovesVault), so what MarkfillVaultProofs proves of the program   *)
(* by itself holds of the two together.                                    *)
(***************************************************************************)
EXTENDS VaultKeeper, MarkfillVaultProofs, FiniteSetTheorems

BookProofs == INSTANCE DeskLedgerProofs WITH Owners <- Users, Tickers <- Stocks

Filled(order) == [order EXCEPT !.filled = TRUE]

(* An order the keeper listed, as far as it may have aged since.           *)
IsListed(o) ==
    /\ o \in OpenOrder
    /\ IsOpen(o.order)
    /\ o.id < next_order_id[o.owner]
    /\ orders[o.owner][o.id] \in {NoOrder, o.order, Filled(o.order)}

IsFilled(o) == orders[o.owner][o.id] = Filled(o.order)

OrdersInv ==
    /\ initialized \subseteq Users
    /\ next_order_id \in [Users -> 0..MaxOrders]
    /\ orders \in [Users -> [Ids -> Order \cup {NoOrder}]]
    /\ NoVaultNoOrders
    /\ \A u \in Users, id \in Ids : orders[u][id] # NoOrder => id < next_order_id[u]

FundsInv ==
    /\ now \in Nat
    /\ vault \in [Users -> [Mints -> 0..MaxBalance]]

ArmsInv ==
    /\ arms \subseteq Arm /\ IsFiniteSet(arms) /\ Cardinality(arms) <= MaxArms
    /\ \A a \in arms : /\ a.order.vault = a.user /\ IsOpen(a.order)
                       /\ a.init => a.id = 0

Trying == {"tape", "quote", "route", "send", "answer"}

TickInv ==
    /\ tick \in KeeperTick
    /\ \A o \in tick.left : IsListed(o)
    /\ tick.pc \in Trying => IsListed(tick.pick)
    /\ tick.pc \in {"route", "send"} => tick.min_out \in U64
    /\ tick.pc = "send" => tick.update \in PriceUpdates
    /\ tick.pc = "answer" => tick.sig \in DOMAIN txs

TxsInv ==
    /\ txs \in Seq(FillTx) /\ Len(txs) <= MaxTxs
    /\ \A i \in DOMAIN txs :
          /\ IsListed(txs[i].listed)
          /\ txs[i].status = "landed" => IsFilled(txs[i].listed)
    /\ RetriesFillOnce

RecordInv ==
    /\ BookProofs!LedgerInv(ledger) /\ ledger.arms = {}
    /\ crashes \in 0..MaxCrashes
    /\ missed \subseteq DOMAIN txs

KeeperInv == OrdersInv /\ FundsInv /\ ArmsInv /\ TickInv /\ TxsInv /\ RecordInv

-----------------------------------------------------------------------------
(* The ledger of the keeper and the one DeskLedgerProofs is about are the  *)
(* same definitions, instantiated twice.                                   *)
LEMMA SameRecord ==
    ASSUME NEW l, NEW order, NEW status, NEW tx
    PROVE  Book!recordArmResult(l, order, status, tx)
              = BookProofs!recordArmResult(l, order, status, tx)
<1>1. \A S : Book!Max(S) = BookProofs!Max(S)
  BY DEF Book!Max, BookProofs!Max
<1>2. \A x, y : Book!SameName(x, y) <=> BookProofs!SameName(x, y)
  BY DEF Book!SameName, BookProofs!SameName
<1>3. \A rows, x : Book!Open(rows, x) = BookProofs!Open(rows, x)
  BY <1>2 DEF Book!Open, BookProofs!Open
<1>4. \A rows, o : Book!KeepNewest(rows, o) = BookProofs!KeepNewest(rows, o)
  BY DEF Book!KeepNewest, BookProofs!KeepNewest, Book!Cardinality, BookProofs!Cardinality,
         Book!Newer, BookProofs!Newer, Book!RowsOf, BookProofs!RowsOf
<1>5. ASSUME NEW current
      PROVE  Book!rememberArm(l, current, status, tx)
                = BookProofs!rememberArm(l, current, status, tx)
  <2> DEFINE rows == l.armRecords
             old(open) == CHOOSE r \in open : \A q \in open : r.at <= q.at
             row(open, last) ==
                [owner |-> current.owner, ticker |-> current.ticker, side |-> current.side,
                 usd |-> current.usd, status |-> status, tx |-> tx,
                 createdAt |-> IF open = {} THEN current.createdAt ELSE old(open).createdAt,
                 at |-> IF open # {} THEN old(open).at
                        ELSE IF rows = {} THEN 1 ELSE 1 + last]
             kept(open, last) ==
                (IF open = {} THEN rows ELSE rows \ {old(open)}) \cup {row(open, last)}
             stamps == {r.at : r \in rows}
  <2>1. Book!rememberArm(l, current, status, tx)
          = [l EXCEPT !.armRecords = Book!KeepNewest(
                kept(Book!Open(rows, current), Book!Max(stamps)), current.owner)]
    BY Zenon DEF Book!rememberArm
  <2>2. BookProofs!rememberArm(l, current, status, tx)
          = [l EXCEPT !.armRecords = BookProofs!KeepNewest(
                kept(BookProofs!Open(rows, current), BookProofs!Max(stamps)), current.owner)]
    BY Zenon DEF BookProofs!rememberArm
  <2>3. /\ Book!Open(rows, current) = BookProofs!Open(rows, current)
        /\ Book!Max(stamps) = BookProofs!Max(stamps)
    BY <1>1, <1>3
  <2> HIDE DEF rows, kept, stamps
  <2>4. QED
    BY <2>1, <2>2, <2>3, <1>4
<1>6. {a \in l.arms : Book!SameName(a, order)} = {a \in l.arms : BookProofs!SameName(a, order)}
  BY <1>2
<1>7. QED
  BY <1>5, <1>6 DEF Book!recordArmResult, BookProofs!recordArmResult

LEMMA RowKept ==
    ASSUME NEW l, BookProofs!LedgerInv(l), NEW order \in BookProofs!ArmOrder,
           NEW status \in {"executed", "failed"}, NEW tx \in Nat,
           NEW m, m = BookProofs!recordArmResult(l, order, status, tx)
    PROVE  /\ BookProofs!LedgerInv(m) /\ m.arms = l.arms
           /\ \E row \in m.armRecords :
                 BookProofs!SameName(order, row) /\ row.status = status /\ row.tx = tx
           /\ \A r \in l.armRecords \ BookProofs!Open(l.armRecords, order) :
                 r \in m.armRecords \/ BookProofs!Pushed(m.armRecords, r)
           /\ \A o : BookProofs!ListFull(l, o) => BookProofs!ListFull(m, o)
<1>1. Usdc \notin Stocks /\ PROCESSED_CAP \in Nat \ {0} /\ RECORDS_CAP \in Nat \ {0}
  BY KeeperAssumption, MintAssumption
<1>2. BookProofs!LedgerInv(m) /\ m.arms = l.arms
  BY <1>1, BookProofs!RecordKeeps
<1>3. \E row \in m.armRecords :
         BookProofs!SameName(order, row) /\ row.status = status /\ row.tx = tx
  BY <1>1, BookProofs!RecordKeeps
<1>4. \A r \in l.armRecords \ BookProofs!Open(l.armRecords, order) :
         r \in m.armRecords \/ BookProofs!Pushed(m.armRecords, r)
  BY <1>1, BookProofs!RecordKeeps
<1>5. \A o : BookProofs!ListFull(l, o) => BookProofs!ListFull(m, o)
  BY <1>1, BookProofs!RecordKeeps
<1>6. QED
  BY <1>2, <1>3, <1>4, <1>5

LEMMA RowPushed ==
    ASSUME NEW l, BookProofs!LedgerInv(l), NEW r, BookProofs!Pushed(l.armRecords, r)
    PROVE  BookProofs!ListFull(l, r.owner)
<1>1. BookProofs!Stamped(l.armRecords)
  BY DEF BookProofs!LedgerInv, BookProofs!RowsInOrder
<1>2. Usdc \notin Stocks /\ PROCESSED_CAP \in Nat \ {0} /\ RECORDS_CAP \in Nat \ {0}
  BY KeeperAssumption, MintAssumption
<1>3. QED
  BY <1>1, <1>2, BookProofs!FullWhenPushed, Zenon

(* What the ledger keeps of the executed rows: each stays, or the list of  *)
(* its owner is full, and a full list stays full.                          *)
FullFor(owner) == Cardinality(Book!RowsOf(ledger.armRecords, owner)) >= RECORDS_CAP

RowsMove ==
    /\ \A r \in ledger.armRecords :
          r.status = "executed" => r \in ledger'.armRecords \/ FullFor(r.owner)'
    /\ \A owner : FullFor(owner) => FullFor(owner)'

LEMMA FullIsListFull == \A owner : FullFor(owner) <=> BookProofs!ListFull(ledger, owner)
  BY DEF FullFor, BookProofs!ListFull, Book!RowsOf, BookProofs!RowsOf,
         Cardinality, BookProofs!Cardinality

LEMMA FullIsListFullNext ==
    \A owner : FullFor(owner)' <=> BookProofs!ListFull(ledger', owner)
  BY DEF FullFor, BookProofs!ListFull, Book!RowsOf, BookProofs!RowsOf,
         Cardinality, BookProofs!Cardinality

(* What recordArmResult (ledger.ts 219-242) leaves of the ledger.          *)
LEMMA RecordStep ==
    ASSUME RecordInv, NEW o, IsListed(o), now \in Nat, NEW status \in {"executed", "failed"},
           NEW tx \in Nat, ledger' = Book!recordArmResult(ledger, RowOf(o), status, tx)
    PROVE  /\ BookProofs!LedgerInv(ledger') /\ ledger'.arms = {} /\ RowsMove
           /\ \E row \in ledger'.armRecords :
                 /\ row.owner = o.owner /\ row.ticker = o.order.stock_mint
                 /\ row.status = status /\ row.tx = tx
<1>1. RowOf(o) \in BookProofs!ArmOrder
  BY U64IsNat DEF RowOf, BookProofs!ArmOrder, BookProofs!ArmSides, IsListed, OpenOrder, Order
<1>2. ledger' = BookProofs!recordArmResult(ledger, RowOf(o), status, tx)
  BY SameRecord
<1>3. /\ BookProofs!LedgerInv(ledger') /\ ledger'.arms = ledger.arms
      /\ \E row \in ledger'.armRecords :
            BookProofs!SameName(RowOf(o), row) /\ row.status = status /\ row.tx = tx
      /\ \A r \in ledger.armRecords \ BookProofs!Open(ledger.armRecords, RowOf(o)) :
            r \in ledger'.armRecords \/ BookProofs!Pushed(ledger'.armRecords, r)
      /\ \A w : BookProofs!ListFull(ledger, w) => BookProofs!ListFull(ledger', w)
  BY <1>1, <1>2, RowKept DEF RecordInv
<1>4. RowOf(o).owner = o.owner /\ RowOf(o).ticker = o.order.stock_mint
  BY DEF RowOf
<1>5. \A r \in ledger.armRecords : r.status = "executed" =>
          r \in ledger'.armRecords \/ BookProofs!ListFull(ledger', r.owner)
  <2>1. \A r \in BookProofs!Open(ledger.armRecords, RowOf(o)) : r.status # "executed"
    BY DEF BookProofs!Open
  <2>2. QED
    BY <1>3, <2>1, RowPushed
<1>6. RowsMove
  BY <1>3, <1>5, FullIsListFull, FullIsListFullNext DEF RowsMove
<1>7. \E row \in ledger'.armRecords :
          /\ row.owner = o.owner /\ row.ticker = o.order.stock_mint
          /\ row.status = status /\ row.tx = tx
  BY <1>3, <1>4 DEF BookProofs!SameName
<1>8. QED
  BY <1>3, <1>6, <1>7 DEF RecordInv

LEMMA BooksStart == BookProofs!LedgerInv(Book!empty) /\ Book!empty.arms = {}
<1>1. Book!empty = BookProofs!empty
  BY DEF Book!empty, BookProofs!empty, Book!Assets, BookProofs!Assets
<1>2. QED
  BY <1>1, BookProofs!EmptyInv, KeeperAssumption, MintAssumption DEF BookProofs!empty

(* A ledger without arms has no pending row.                               *)
LEMMA LedgerIsTyped ==
    ASSUME RecordInv
    PROVE  ledger \in Book!Ledger /\ \A r \in ledger.armRecords : r.status # "pending"
<1>1. ledger \in BookProofs!Ledger /\ BookProofs!PendingArmed(ledger)
  BY DEF RecordInv, BookProofs!LedgerInv
<1>2. ledger \in Book!Ledger
  BY <1>1 DEF Book!Ledger, BookProofs!Ledger, Book!Assets, BookProofs!Assets,
       Book!Deposit, BookProofs!Deposit, Book!UserFill, BookProofs!UserFill,
       Book!Withdrawal, BookProofs!Withdrawal, Book!ArmOrder, BookProofs!ArmOrder,
       Book!ArmRecord, BookProofs!ArmRecord, Book!ArmSides, BookProofs!ArmSides,
       Book!Statuses, BookProofs!Statuses
<1>3. QED
  BY <1>1, <1>2 DEF RecordInv, BookProofs!PendingArmed

-----------------------------------------------------------------------------
(* How the orders move.  What was listed stays listed: an id is not used   *)
(* again, so its account can only be filled or closed; a filled one stays. *)
OrdersMove ==
    /\ OrdersInv'
    /\ \A o \in OpenOrder :
          IsListed(o) => IsListed(o)' /\ (IsFilled(o) => IsFilled(o)')

LEMMA OrdersStay ==
    ASSUME OrdersInv, UNCHANGED <<next_order_id, orders>>,
           initialized \subseteq initialized', initialized' \subseteq Users
    PROVE  OrdersMove
  BY DEF OrdersInv, OrdersMove, NoVaultNoOrders, IsListed, IsFilled

(* place_order, with the vault it may have made (lib.rs 63-99).            *)
LEMMA PlaceMoves ==
    ASSUME OrdersInv, NEW u \in Users, NEW next, NEW order, Places(u, next, order)
    PROVE  OrdersMove
<1>1. next \in Ids /\ next \in 0..MaxOrders /\ next + 1 \in 0..MaxOrders
  BY BoundsAreNat DEF Places, OrdersInv, Ids
<1>2. \A w \in Users, i \in Ids :
          /\ orders'[w][i] = IF w = u /\ i = next THEN order ELSE orders[w][i]
          /\ next_order_id'[w] = IF w = u THEN next + 1 ELSE next_order_id[w]
  BY <1>1 DEF Places, OrdersInv
<1>3. /\ initialized' \subseteq Users
      /\ next_order_id' \in [Users -> 0..MaxOrders]
      /\ orders' \in [Users -> [Ids -> Order \cup {NoOrder}]]
      /\ NoVaultNoOrders'
  BY <1>1 DEF Places, OrdersInv, NoVaultNoOrders
<1>4. \A i \in Ids : i \in Nat
  BY BoundsAreNat DEF Ids
<1>5. ASSUME NEW w \in Users, NEW i \in Ids, orders'[w][i] # NoOrder
      PROVE  i < next_order_id'[w]
  <2>1. CASE w = u /\ i = next
    BY <1>1, <1>2, <2>1
  <2>2. CASE w = u /\ i # next
    BY <1>1, <1>2, <1>4, <1>5, <2>2 DEF OrdersInv, Places
  <2>3. CASE w # u
    BY <1>2, <1>5, <2>3 DEF OrdersInv
  <2>4. QED
    BY <2>1, <2>2, <2>3
<1>6. OrdersInv'
  BY <1>3, <1>5 DEF OrdersInv
<1>7. ASSUME NEW o \in OpenOrder, IsListed(o)
      PROVE  /\ orders'[o.owner][o.id] = orders[o.owner][o.id]
             /\ o.id < next_order_id'[o.owner]
  <2>1. o.owner \in Users /\ o.id \in Ids /\ o.id \in Nat /\ o.id < next_order_id[o.owner]
    BY <1>4, <1>7 DEF IsListed, OpenOrder
  <2>2. QED
    BY <1>1, <1>2, <2>1 DEF Places
<1>8. QED
  BY <1>6, <1>7 DEF OrdersMove, IsListed, IsFilled

LEMMA CancelMoves ==
    ASSUME OrdersInv, NEW u \in Users, NEW id \in Ids, cancel_order(u, u, id)
    PROVE  OrdersMove
<1>1. /\ orders[u][id] # NoOrder /\ IsOpen(orders[u][id])
      /\ orders' = [orders EXCEPT ![u][id] = NoOrder]
      /\ UNCHANGED <<initialized, next_order_id>>
  BY DEF cancel_order
<1>2. \A w \in Users, i \in Ids :
          orders'[w][i] = IF w = u /\ i = id THEN NoOrder ELSE orders[w][i]
  BY <1>1 DEF OrdersInv
<1>3. OrdersInv'
  <2>1. orders' \in [Users -> [Ids -> Order \cup {NoOrder}]]
    BY <1>1 DEF OrdersInv
  <2>2. QED
    BY <1>1, <1>2, <2>1 DEF OrdersInv, NoVaultNoOrders
<1>4. ASSUME NEW o \in OpenOrder, IsListed(o)
      PROVE  IsListed(o)' /\ (IsFilled(o) => IsFilled(o)')
  <2>1. /\ o.owner \in Users /\ o.id \in Ids
        /\ Filled(o.order).filled = TRUE
        /\ orders'[o.owner][o.id] =
              IF o.owner = u /\ o.id = id THEN NoOrder ELSE orders[o.owner][o.id]
    BY <1>2, <1>4 DEF OpenOrder, Filled, Order
  <2>2. ~(IsFilled(o) /\ o.owner = u /\ o.id = id)
    BY <1>1, <2>1 DEF IsFilled, IsOpen
  <2>3. QED
    BY <1>1, <1>4, <2>1, <2>2 DEF IsListed, IsFilled
<1>5. QED
  BY <1>3, <1>4 DEF OrdersMove

LEMMA FillMoves ==
    ASSUME OrdersInv, NEW u \in Users, NEW id \in Ids,
           orders[u][id] # NoOrder, IsOpen(orders[u][id]),
           orders' = [orders EXCEPT ![u][id] = Filled(orders[u][id])],
           UNCHANGED <<initialized, next_order_id>>
    PROVE  /\ OrdersMove
           /\ orders'[u][id] = Filled(orders[u][id])
<1> DEFINE order == orders[u][id]
<1>1. orders' = [orders EXCEPT ![u][id] = Filled(order)]
  OBVIOUS
<1>2. order \in Order /\ Filled(order) \in Order /\ Filled(order) # NoOrder
  <2>1. order \in Order
    BY DEF OrdersInv
  <2> HIDE DEF order
  <2>2. QED
    BY <2>1, NoOrderAssumption DEF Filled, Order
<1> HIDE DEF order
<1>3. \A w \in Users, i \in Ids :
          orders'[w][i] = IF w = u /\ i = id THEN Filled(order) ELSE orders[w][i]
  BY <1>1 DEF OrdersInv
<1>4. OrdersInv'
  <2>1. orders' \in [Users -> [Ids -> Order \cup {NoOrder}]]
    BY <1>1, <1>2 DEF OrdersInv
  <2>2. QED
    BY <1>3, <2>1 DEF OrdersInv, NoVaultNoOrders
<1>5. ASSUME NEW o \in OpenOrder, IsListed(o)
      PROVE  IsListed(o)' /\ (IsFilled(o) => IsFilled(o)')
  <2>1. /\ o.owner \in Users /\ o.id \in Ids /\ o.order \in Order
        /\ Filled(o.order).filled = TRUE
    BY <1>5 DEF OpenOrder, Filled, Order
  <2>2. CASE o.owner = u /\ o.id = id
    <3>1. order = o.order
      BY <1>5, <2>1, <2>2 DEF IsListed, IsOpen, order
    <3>2. orders'[o.owner][o.id] = Filled(o.order)
      BY <1>3, <2>2, <3>1
    <3>3. QED
      BY <1>5, <3>2 DEF IsListed, IsFilled
  <2>3. CASE ~(o.owner = u /\ o.id = id)
    <3>1. orders'[o.owner][o.id] = orders[o.owner][o.id]
      BY <1>3, <2>1, <2>3
    <3>2. QED
      BY <1>5, <3>1 DEF IsListed, IsFilled
  <2>4. QED
    BY <2>2, <2>3
<1>6. QED
  BY <1>3, <1>4, <1>5 DEF OrdersMove, order

-----------------------------------------------------------------------------
(* What a step that moves the orders leaves of the tick and the            *)
(* submissions.                                                            *)
LEMMA TxsAside ==
    ASSUME TxsInv, OrdersMove, UNCHANGED txs
    PROVE  TxsInv'
<1>1. ASSUME NEW i \in DOMAIN txs
      PROVE  /\ IsListed(txs[i].listed)'
             /\ txs[i].status = "landed" => IsFilled(txs[i].listed)'
  <2>1. IsListed(txs[i].listed) /\ txs[i].listed \in OpenOrder
    BY DEF TxsInv, IsListed
  <2>2. QED
    BY <2>1 DEF TxsInv, OrdersMove
<1>2. QED
  BY <1>1 DEF TxsInv, RetriesFillOnce, IsListed, IsFilled

LEMMA TickAside ==
    ASSUME TickInv, OrdersMove, UNCHANGED tick, DOMAIN txs \subseteq DOMAIN txs'
    PROVE  TickInv'
<1>1. \A o \in tick.left : IsListed(o)'
  BY DEF TickInv, OrdersMove, IsListed
<1>2. tick.pc \in Trying => IsListed(tick.pick)'
  BY DEF TickInv, OrdersMove, IsListed
<1>3. QED
  BY <1>1, <1>2 DEF TickInv, IsListed

(* A step of the tick, of what it lists and holds.                         *)
LEMMA TickGoes ==
    ASSUME OrdersMove, DOMAIN txs \subseteq DOMAIN txs', tick' \in KeeperTick,
           \A o \in tick'.left : IsListed(o),
           tick'.pc \in Trying => IsListed(tick'.pick),
           tick'.pc \in {"route", "send"} => tick'.min_out \in U64,
           tick'.pc = "send" => tick'.update \in PriceUpdates,
           tick'.pc = "answer" => tick'.sig \in DOMAIN txs'
    PROVE  TickInv'
<1>1. \A o \in tick'.left : IsListed(o)'
  BY DEF OrdersMove, IsListed
<1>2. tick'.pc \in Trying => IsListed(tick.pick)'
  BY DEF OrdersMove, IsListed
<1>3. QED
  BY <1>1, <1>2 DEF TickInv, IsListed

LEMMA ChainStays ==
    ASSUME KeeperInv, KeepsChain
    PROVE  OrdersMove /\ OrdersInv' /\ FundsInv' /\ ArmsInv'
<1>1. OrdersMove
  BY OrdersStay DEF KeeperInv, KeepsChain, vars, OrdersInv
<1>2. QED
  BY <1>1 DEF KeeperInv, KeepsChain, vars, OrdersMove, FundsInv, ArmsInv

LEMMA IdleIsTyped == Idle \in KeeperTick
<1>1. 0 \in 0..MaxTxs
  BY KeeperAssumption
<1>2. QED
  BY <1>1 DEF Idle, KeeperTick

(* The next order of the list, or none.                                    *)
LEMMA NextOrderGoes ==
    ASSUME KeeperInv, KeepsChain, NextOrder, UNCHANGED txs
    PROVE  TickInv'
<1>1. tick' = [pc |-> "orders", left |-> tick.left, pick |-> NoPick, usd |-> 0,
               min_out |-> 0, update |-> NoUpdate, sig |-> 0]
  BY DEF NextOrder, Goto, Idle
<1>2. tick.left \in SUBSET OpenOrder /\ 0 \in 0..MaxTxs
  BY KeeperAssumption DEF KeeperInv, TickInv, KeeperTick
<1>3. tick' \in KeeperTick
  BY <1>1, <1>2 DEF KeeperTick
<1>4. QED
  BY <1>1, <1>3, ChainStays, TickGoes DEF KeeperInv, TickInv, Trying

LEMMA IdleGoes ==
    ASSUME OrdersMove, DOMAIN txs \subseteq DOMAIN txs', tick' = Idle
    PROVE  TickInv'
<1>1. Idle.left = {} /\ Idle.pc = "idle"
  BY DEF Idle
<1>2. QED
  BY <1>1, IdleIsTyped, TickGoes DEF Trying

(* Each step of a tick (desk.ts 374-433).                                  *)
LEMMA TickStepInv ==
    ASSUME KeeperInv, TickStep \/ deskTick
    PROVE  KeeperInv'
<1>0. tick \in KeeperTick /\ tick.left \in SUBSET OpenOrder /\ now \in Nat /\ MaxTxs \in Nat
  BY KeeperAssumption DEF KeeperInv, TickInv, KeeperTick, FundsInv
<1>1. SUFFICES ASSUME KeepsChain
               PROVE  TickInv' /\ TxsInv' /\ RecordInv'
  <2>1. KeepsChain
    BY DEF TickStep, deskTick, processVaultArms, TickFails, TickEnds, PickOrder, Waits, Sized,
           quoteTrade, HermesLatest, FillFails, submitVaultFill, Answered, AnswerLost
  <2>2. QED
    BY <1>1, <2>1, ChainStays DEF KeeperInv
<1>2. OrdersMove
  BY <1>1, ChainStays
<1>3. ASSUME UNCHANGED <<ledger, txs, missed>>
      PROVE  TxsInv' /\ RecordInv'
  BY <1>1, <1>2, <1>3, TxsAside DEF KeeperInv, RecordInv, KeepsChain
<1>4. CASE deskTick \/ TickFails \/ TickEnds
  <2>1. UNCHANGED <<ledger, txs, missed>>
    BY <1>4 DEF deskTick, TickFails, TickEnds
  <2>2. CASE tick' = Idle
    BY <1>2, <1>3, <2>1, <2>2, IdleGoes
  <2>3. CASE tick' = [Idle EXCEPT !.pc = "scan"]
    <3>1. tick' \in KeeperTick /\ tick'.left = {} /\ tick'.pc = "scan"
      BY <2>3, IdleIsTyped DEF KeeperTick, Idle
    <3>2. QED
      BY <1>2, <1>3, <2>1, <3>1, TickGoes DEF Trying
  <2>4. QED
    BY <1>4, <2>2, <2>3 DEF deskTick, TickFails, TickEnds, Goto
<1>5. CASE processVaultArms
  <2> DEFINE left == {o \in listOpenOrders : o.order.expiry_ts > now}
  <2>1. UNCHANGED <<ledger, txs, missed>> /\ tick' = [Idle EXCEPT !.pc = "orders", !.left = left]
    BY <1>5 DEF processVaultArms, Goto
  <2>2. ASSUME NEW o \in left PROVE IsListed(o)
    <3>1. PICK u \in Users, i \in Ids :
              /\ o = [owner |-> u, id |-> i, order |-> orders[u][i]]
              /\ orders[u][i] # NoOrder /\ IsOpen(orders[u][i])
      BY DEF listOpenOrders, OrderAccounts, IsLive
    <3>2. orders[u][i] \in Order /\ i < next_order_id[u]
      BY <3>1 DEF KeeperInv, OrdersInv
    <3>3. QED
      BY <3>1, <3>2 DEF IsListed, OpenOrder
  <2>3. left \in SUBSET OpenOrder
    BY <2>2 DEF IsListed
  <2> HIDE DEF left
  <2>4. tick' \in KeeperTick /\ tick'.left = left /\ tick'.pc = "orders"
    BY <2>1, <2>3, IdleIsTyped DEF KeeperTick, Idle
  <2>5. QED
    BY <1>2, <1>3, <2>1, <2>2, <2>4, TickGoes DEF Trying
<1>6. CASE PickOrder
  <2>1. PICK o \in tick.left :
            tick' = [Idle EXCEPT !.pc = "tape", !.left = tick.left \ {o}, !.pick = o]
    BY <1>6 DEF PickOrder, Goto
  <2>2. /\ IsListed(o) /\ o \in OpenOrder /\ tick.left \ {o} \in SUBSET OpenOrder
        /\ \A p \in tick.left \ {o} : IsListed(p)
    BY <1>0 DEF KeeperInv, TickInv
  <2>3. tick' = [pc |-> "tape", left |-> tick.left \ {o}, pick |-> o, usd |-> 0,
                 min_out |-> 0, update |-> NoUpdate, sig |-> 0]
    BY <2>1 DEF Idle
  <2>4. tick' \in KeeperTick
    BY <1>0, <2>2, <2>3 DEF KeeperTick
  <2>5. TickInv'
    BY <1>2, <1>6, <2>2, <2>3, <2>4, TickGoes DEF PickOrder
  <2>6. QED
    BY <1>3, <1>6, <2>5 DEF PickOrder
<1>7. CASE Waits
  BY <1>1, <1>3, <1>7, NextOrderGoes DEF Waits
<1>8. CASE Sized
  <2>1. PICK t \in Tapes :
          LET stock == vault[tick.pick.owner][Picked.stock_mint]
              usd   == IF Picked.side = BUY THEN Picked.usd_amount
                       ELSE SellUsd(Picked.usd_amount, stock, t.onchain, PickedDecimals)
          IN  tick' = [tick EXCEPT !.pc = "quote", !.usd = usd]
    BY <1>8 DEF Sized, Goto
  <2> DEFINE usd == IF Picked.side = BUY THEN Picked.usd_amount
                    ELSE SellUsd(Picked.usd_amount, vault[tick.pick.owner][Picked.stock_mint],
                                 t.onchain, PickedDecimals)
  <2>2. tick' = [tick EXCEPT !.pc = "quote", !.usd = usd]
    BY <2>1
  <2>3. IsListed(tick.pick) /\ tick.pick \in OpenOrder
    BY <1>8 DEF Sized, KeeperInv, TickInv, Trying, IsListed
  <2>4. usd \in Nat
    <3>1. /\ tick.pick.owner \in Users /\ Picked.stock_mint \in Stocks
          /\ Picked.usd_amount \in Nat
      BY <2>3, U64IsNat DEF OpenOrder, Order, Picked
    <3>2. vault[tick.pick.owner][Picked.stock_mint] \in Nat
      BY <3>1, BoundsAreNat DEF KeeperInv, FundsInv, Mints
    <3>3. t.onchain \in Nat
      BY KeeperAssumption, U64IsNat DEF Tapes, buildTape, Or, NoPrint
    <3>4. Pow10[PickedDecimals] \in Nat \ {0}
      BY <3>1, KeeperAssumption, MintAssumption, DecimalsAssumption, ScaleAssumption
         DEF PickedDecimals
    <3> DEFINE price == t.onchain
               stock == vault[tick.pick.owner][Picked.stock_mint]
               scale == 100 * Pow10[PickedDecimals]
    <3>5. scale \in Nat \ {0}
      BY <3>4
    <3>6. stock * price \in Nat
      BY <3>2, <3>3
    <3> DEFINE value == stock * price
    <3> HIDE DEF scale, value
    <3>7. value \div scale \in Nat
      BY <3>5, <3>6 DEF value
    <3>8. QED
      BY <3>1, <3>7 DEF SellUsd, scale, value
  <2> HIDE DEF usd
  <2>5. tick' \in KeeperTick /\ tick'.left = tick.left /\ tick'.pick = tick.pick /\ tick'.pc = "quote"
    BY <1>0, <2>2, <2>4 DEF KeeperTick
  <2>6. TickInv'
    BY <1>2, <1>8, <2>3, <2>5, TickGoes DEF Sized, KeeperInv, TickInv
  <2>7. QED
    BY <1>3, <1>8, <2>6 DEF Sized
<1>9. CASE quoteTrade
  <2>1. PICK min_out \in U64 : tick' = [tick EXCEPT !.pc = "route", !.min_out = min_out]
    BY <1>9 DEF quoteTrade, Goto
  <2>2. IsListed(tick.pick)
    BY <1>9 DEF quoteTrade, KeeperInv, TickInv, Trying
  <2>3. /\ tick' \in KeeperTick /\ tick'.left = tick.left /\ tick'.pick = tick.pick
        /\ tick'.pc = "route" /\ tick'.min_out = min_out
    BY <1>0, <2>1, U64IsNat DEF KeeperTick
  <2>4. TickInv'
    BY <1>2, <1>9, <2>2, <2>3, TickGoes DEF quoteTrade, KeeperInv, TickInv
  <2>5. QED
    BY <1>3, <1>9, <2>4 DEF quoteTrade
<1>10. CASE HermesLatest
  <2>1. PICK p \in PriceUpdates : tick' = [tick EXCEPT !.pc = "send", !.update = p]
    BY <1>10 DEF HermesLatest, Latest, Goto
  <2>2. IsListed(tick.pick) /\ tick.min_out \in U64
    BY <1>10 DEF HermesLatest, KeeperInv, TickInv, Trying
  <2>3. /\ tick' \in KeeperTick /\ tick'.left = tick.left /\ tick'.pick = tick.pick
        /\ tick'.pc = "send" /\ tick'.min_out = tick.min_out /\ tick'.update = p
    BY <1>0, <2>1 DEF KeeperTick
  <2>4. TickInv'
    BY <1>2, <1>10, <2>2, <2>3, TickGoes DEF HermesLatest, KeeperInv, TickInv
  <2>5. QED
    BY <1>3, <1>10, <2>4 DEF HermesLatest
<1>11. CASE FillFails \/ AnswerLost \/ Answered
  <2>1. /\ IsListed(tick.pick) /\ NextOrder /\ UNCHANGED <<txs, crashes>>
        /\ \/ ledger' = Book!recordArmResult(ledger, RowOf(tick.pick), "failed", 0)
           \/ ledger' = Book!recordArmResult(ledger, RowOf(tick.pick), "executed", tick.sig)
    BY <1>1, <1>11 DEF FillFails, AnswerLost, Answered, Failed, KeeperInv, TickInv, Trying,
                       Book!NoSig, KeepsChain
  <2>2. tick.sig \in Nat
    BY <1>0 DEF KeeperTick
  <2>3. BookProofs!LedgerInv(ledger') /\ ledger'.arms = {}
    BY <1>0, <2>1, <2>2, RecordStep DEF KeeperInv
  <2>4. missed' \subseteq DOMAIN txs
    BY <1>11 DEF FillFails, AnswerLost, Answered, KeeperInv, RecordInv, TickInv
  <2>5. RecordInv'
    BY <2>1, <2>3, <2>4 DEF KeeperInv, RecordInv
  <2>6. QED
    BY <1>1, <1>2, <2>1, <2>5, NextOrderGoes, TxsAside DEF KeeperInv
<1>12. CASE submitVaultFill
  <2> DEFINE t == [listed |-> tick.pick, min_out |-> tick.min_out,
                   update |-> tick.update, status |-> "sent"]
  <2>1. /\ txs' = Append(txs, t) /\ Len(txs) < MaxTxs
        /\ tick' = [tick EXCEPT !.pc = "answer", !.sig = Len(txs')]
        /\ UNCHANGED <<ledger, missed, crashes>>
    BY <1>1, <1>12 DEF submitVaultFill, Goto, KeepsChain
  <2>2. /\ IsListed(tick.pick) /\ tick.pick \in OpenOrder
        /\ tick.min_out \in U64 /\ tick.update \in PriceUpdates
    BY <1>12 DEF submitVaultFill, KeeperInv, TickInv, Trying, IsListed
  <2>3. t \in FillTx /\ t.listed = tick.pick /\ t.status = "sent"
    BY <2>2 DEF FillTx
  <2> HIDE DEF t
  <2>4. txs \in Seq(FillTx) /\ Len(txs) \in Nat
    BY DEF KeeperInv, TxsInv
  <2>5. /\ txs' \in Seq(FillTx) /\ Len(txs') = Len(txs) + 1 /\ Len(txs') \in 0..MaxTxs
        /\ DOMAIN txs' = 1..(Len(txs) + 1) /\ DOMAIN txs = 1..Len(txs)
        /\ \A i \in DOMAIN txs' : txs'[i] = IF i \in DOMAIN txs THEN txs[i] ELSE t
    BY <1>0, <2>1, <2>3, <2>4
  <2>6. ASSUME NEW i \in DOMAIN txs'
        PROVE  /\ IsListed(txs[i].listed)'
               /\ txs'[i].status = "landed" => IsFilled(txs[i].listed)' /\ i \in DOMAIN txs
    <3>1. CASE i \in DOMAIN txs
      <4>1. txs'[i] = txs[i] /\ IsListed(txs[i].listed) /\ txs[i].listed \in OpenOrder
        BY <2>5, <3>1 DEF KeeperInv, TxsInv, IsListed
      <4>2. QED
        BY <1>2, <3>1, <4>1 DEF KeeperInv, TxsInv, OrdersMove, IsListed, IsFilled
    <3>2. CASE i \notin DOMAIN txs
      <4>1. txs'[i] = t
        BY <2>5, <3>2
      <4>2. QED
        BY <1>2, <2>2, <2>3, <4>1 DEF OrdersMove, IsListed, IsFilled
    <3>3. QED
      BY <3>1, <3>2
  <2>7. RetriesFillOnce'
    <3> SUFFICES ASSUME NEW i \in DOMAIN txs', NEW k \in DOMAIN txs', i # k,
                        txs'[i].status = "landed", txs'[k].status = "landed"
                 PROVE  <<txs'[i].listed.owner, txs'[i].listed.id>>
                           # <<txs'[k].listed.owner, txs'[k].listed.id>>
      BY DEF RetriesFillOnce
    <3>1. i \in DOMAIN txs /\ k \in DOMAIN txs /\ txs'[i] = txs[i] /\ txs'[k] = txs[k]
      BY <2>5, <2>6
    <3>2. QED
      BY <3>1 DEF KeeperInv, TxsInv, RetriesFillOnce
  <2>8. TxsInv'
    BY <2>5, <2>6, <2>7 DEF TxsInv, IsListed, IsFilled
  <2>9. /\ tick' \in KeeperTick /\ tick'.left = tick.left /\ tick'.pick = tick.pick
        /\ tick'.pc = "answer" /\ tick'.sig \in DOMAIN txs'
    <3>1. tick' = [pc |-> "answer", left |-> tick.left, pick |-> tick.pick, usd |-> tick.usd,
                   min_out |-> tick.min_out, update |-> tick.update, sig |-> Len(txs')]
      BY <1>0, <2>1 DEF KeeperTick
    <3>2. Len(txs') \in DOMAIN txs'
      BY <2>4, <2>5
    <3>3. QED
      BY <1>0, <2>5, <3>1, <3>2 DEF KeeperTick
  <2>10. DOMAIN txs \subseteq DOMAIN txs'
    BY <2>4, <2>5
  <2>11. TickInv'
    BY <1>2, <2>2, <2>9, <2>10, TickGoes DEF KeeperInv, TickInv
  <2>12. RecordInv'
    BY <2>1, <2>10 DEF KeeperInv, RecordInv
  <2>13. QED
    BY <2>8, <2>11, <2>12
<1>13. QED
  BY <1>4, <1>5, <1>6, <1>7, <1>8, <1>9, <1>10, <1>11, <1>12 DEF TickStep

-----------------------------------------------------------------------------
(* What users sign.                                                        *)

LEMMA PlacedAgain ==
    ASSUME NEW r \in Order, IsOpen(r), NEW u, r.vault = u
    PROVE  PlacedOrder(u, r.stock_mint, r.pyth_feed_id, r.usd_amount,
                       r.band_bps, r.side, r.expiry_ts) = r
<1>1. r.filled = FALSE
  BY DEF IsOpen, Order
<1>2. QED
  BY <1>1 DEF PlacedOrder, Order

(* place_order of an armed order places it as it was armed: the PDA of     *)
(* its id is the one the program wants (lib.rs 440, desk.ts 200).          *)
LEMMA ArmPlaces ==
    ASSUME OrdersInv, ArmsInv, NEW a \in arms, ArmLands(a)
    PROVE  Places(a.user, a.id, a.order) /\ a.user \in Users
<1>1. /\ a.user \in Users /\ a.order \in Order /\ a.order.vault = a.user
      /\ IsOpen(a.order) /\ (a.init => a.id = 0)
  BY DEF ArmsInv, Arm
<1>2. CASE a.init
  <2>1. a.id = 0 /\ InitAndPlace(a.user, a.order)
    BY <1>1, <1>2 DEF ArmLands
  <2>2. a.id = next_order_id[a.user]
    BY <1>1, <2>1 DEF InitAndPlace, OrdersInv, NoVaultNoOrders
  <2>3. /\ a.id \in Ids /\ orders[a.user][a.id] = NoOrder
        /\ a.order.side = BUY => vault[a.user][Usdc] >= a.order.usd_amount
        /\ initialized' = initialized \cup {a.user}
        /\ next_order_id' = [next_order_id EXCEPT ![a.user] = a.id + 1]
        /\ orders' = [orders EXCEPT ![a.user][a.id] = a.order]
        /\ terms' = [terms EXCEPT ![a.user][a.id] = a.order]
        /\ UNCHANGED <<now, vault, wallet, fills>>
    BY <2>1 DEF InitAndPlace, NextId
  <2>4. QED
    BY <1>1, <2>2, <2>3 DEF Places
<1>3. CASE ~a.init
  <2> DEFINE order == PlacedOrder(a.user, a.order.stock_mint, a.order.pyth_feed_id,
                                  a.order.usd_amount, a.order.band_bps, a.order.side,
                                  a.order.expiry_ts)
  <2>1. /\ a.id = next_order_id[a.user]
        /\ place_order(a.user, a.user, a.order.stock_mint, a.order.pyth_feed_id,
                       a.order.usd_amount, a.order.band_bps, a.order.side, a.order.expiry_ts)
    BY <1>3 DEF ArmLands, SeedsMatch
  <2>2. order = a.order
    BY <1>1, PlacedAgain
  <2> HIDE DEF order
  <2>3. /\ a.user \in initialized /\ a.id < MaxOrders
        /\ orders[a.user][a.id] = NoOrder
        /\ a.order.side = BUY => vault[a.user][Usdc] >= a.order.usd_amount
        /\ next_order_id' = [next_order_id EXCEPT ![a.user] = a.id + 1]
        /\ orders' = [orders EXCEPT ![a.user][a.id] = order]
        /\ terms' = [terms EXCEPT ![a.user][a.id] = order]
        /\ UNCHANGED <<now, initialized, vault, wallet, fills>>
    BY <2>1 DEF place_order, OwnsVault, NextId, order
  <2>4. a.id \in Ids
    BY <1>1, <2>1, <2>3, BoundsAreNat DEF OrdersInv, Ids
  <2>5. initialized' = initialized \cup {a.user}
    BY <2>3
  <2>6. QED
    BY <1>1, <2>1, <2>2, <2>3, <2>4, <2>5 DEF Places
<1>4. QED
  BY <1>2, <1>3

LEMMA ArmRemoved ==
    ASSUME ArmsInv, NEW a \in arms, arms' = arms \ {a}
    PROVE  ArmsInv'
<1>1. IsFiniteSet(arms') /\ Cardinality(arms') = Cardinality(arms) - 1
  BY FS_RemoveElement DEF ArmsInv
<1>2. Cardinality(arms) \in Nat
  BY FS_CardinalityType DEF ArmsInv
<1>3. QED
  BY <1>1, <1>2, KeeperAssumption DEF ArmsInv

LEMMA ArmAdded ==
    ASSUME ArmsInv, Cardinality(arms) < MaxArms, NEW a \in Arm, arms' = arms \cup {a},
           a.order.vault = a.user, IsOpen(a.order), a.init => a.id = 0
    PROVE  ArmsInv'
<1>1. IsFiniteSet(arms') /\ Cardinality(arms') \in {Cardinality(arms), Cardinality(arms) + 1}
  BY FS_AddElement DEF ArmsInv
<1>2. Cardinality(arms) \in Nat
  BY FS_CardinalityType DEF ArmsInv
<1>3. QED
  BY <1>1, <1>2, KeeperAssumption DEF ArmsInv

(* The chain moves and the keeper does not.                                *)
LEMMA ChainAside ==
    ASSUME KeeperInv, OrdersMove, FundsInv', ArmsInv',
           UNCHANGED <<ledger, tick, txs, crashes, missed>>
    PROVE  KeeperInv'
<1>1. TickInv'
  BY TickAside DEF KeeperInv
<1>2. TxsInv'
  BY TxsAside DEF KeeperInv
<1>3. RecordInv'
  BY DEF KeeperInv, RecordInv
<1>4. QED
  BY <1>1, <1>2, <1>3 DEF KeeperInv, OrdersMove

LEMMA ArmStepInv ==
    ASSUME KeeperInv, NEW a \in arms, ArmLands(a) \/ ArmExpires(a)
    PROVE  KeeperInv'
<1>1. ArmsInv' /\ UNCHANGED <<ledger, tick, txs, crashes, missed>>
  BY ArmRemoved DEF ArmLands, ArmExpires, KeeperInv
<1>2. OrdersMove /\ FundsInv'
  <2>1. CASE ArmLands(a)
    <3>1. /\ Places(a.user, a.id, a.order) /\ a.user \in Users
          /\ UNCHANGED <<now, vault>>
      BY <2>1, ArmPlaces DEF KeeperInv, Places
    <3>2. QED
      BY <3>1, PlaceMoves DEF KeeperInv, FundsInv
  <2>2. CASE ArmExpires(a)
    BY <2>2, OrdersStay DEF ArmExpires, vars, KeeperInv, FundsInv, OrdersInv
  <2>3. QED
    BY <2>1, <2>2
<1>3. QED
  BY <1>1, <1>2, ChainAside

LEMMA armVaultInv ==
    ASSUME KeeperInv, NEW u \in Users, NEW mint \in Stocks, NEW amount \in Amounts,
           NEW band \in Bands, NEW side \in Sides, armVault(u, mint, amount, band, side)
    PROVE  KeeperInv'
<1> DEFINE order == PlacedOrder(u, mint, EquityFeed[mint], amount, band, side, now + ARM_TTL)
           id == IF u \in initialized THEN next_order_id[u] ELSE 0
           a == [user |-> u, init |-> u \notin initialized, order |-> order, id |-> id]
<1>1. /\ Cardinality(arms) < MaxArms /\ arms' = arms \cup {a}
      /\ UNCHANGED <<vars, ledger, tick, txs, crashes, missed>>
  BY DEF armVault
<1>2. order \in Order /\ order.vault = u /\ IsOpen(order)
  <2>1. /\ EquityFeed[mint] \in Feeds /\ amount \in U64 /\ band \in 0..U16_MAX
        /\ side \in {BUY, SELL} /\ now + ARM_TTL \in Int
    BY KeeperAssumption, InputAssumption DEF KeeperInv, FundsInv
  <2>2. QED
    BY <2>1 DEF PlacedOrder, Order, IsOpen
<1>3. id \in 0..MaxOrders /\ (u \notin initialized => id = 0)
  BY BoundsAreNat DEF KeeperInv, OrdersInv
<1> HIDE DEF order, id
<1>4. a \in Arm /\ a.order.vault = a.user /\ IsOpen(a.order) /\ (a.init => a.id = 0)
  BY <1>2, <1>3 DEF Arm
<1> HIDE DEF a
<1>5. ArmsInv'
  BY <1>1, <1>4, ArmAdded DEF KeeperInv
<1>6. OrdersMove /\ FundsInv'
  BY <1>1, OrdersStay DEF vars, KeeperInv, FundsInv, OrdersInv
<1>7. QED
  BY <1>1, <1>5, <1>6, ChainAside

LEMMA ChainStepInv ==
    ASSUME KeeperInv, ChainStep
    PROVE  KeeperInv'
<1>1. UNCHANGED <<ledger, arms, tick, txs, crashes, missed>>
  BY DEF ChainStep, keeperVars
<1>2. SUFFICES OrdersMove /\ FundsInv'
  BY <1>1, ChainAside DEF KeeperInv, ArmsInv
<1>3. ASSUME UNCHANGED <<initialized, next_order_id, orders>> PROVE OrdersMove
  BY <1>3, OrdersStay DEF KeeperInv, OrdersInv
<1>4. ASSUME NEW u \in Users, initialize_vault(u) PROVE OrdersMove /\ FundsInv'
  <2>1. next_order_id' = next_order_id
    BY <1>4 DEF initialize_vault, KeeperInv, OrdersInv, NoVaultNoOrders
  <2>2. QED
    BY <1>4, <2>1, OrdersStay DEF initialize_vault, KeeperInv, OrdersInv, FundsInv
<1>5. ASSUME NEW u \in Users, NEW id \in Ids, cancel_order(u, u, id)
      PROVE  OrdersMove /\ FundsInv'
  BY <1>5, CancelMoves DEF cancel_order, KeeperInv, FundsInv
<1>6. ASSUME NEW u \in Users, NEW mint \in Mints, NEW amount \in Amounts,
             withdraw(u, u, mint, amount)
      PROVE  OrdersMove /\ FundsInv'
  <2>1. amount \in Nat
    BY InputAssumption, U64IsNat
  <2>2. vault' \in [Users -> [Mints -> 0..MaxBalance]]
    BY <1>6, <2>1, BoundsAreNat DEF withdraw, KeeperInv, FundsInv
  <2>3. QED
    BY <1>3, <1>6, <2>2 DEF withdraw, KeeperInv, FundsInv
<1>7. CASE Tick
  BY <1>3, <1>7 DEF Tick, KeeperInv, FundsInv
<1>8. ASSUME NEW v \in Users, NEW mint \in Mints, NEW amount \in Amounts,
             TransferIn(v, mint, amount)
      PROVE  OrdersMove /\ FundsInv'
  <2>1. amount \in Nat
    BY InputAssumption, U64IsNat
  <2>2. vault' \in [Users -> [Mints -> 0..MaxBalance]]
    BY <1>8, <2>1, BoundsAreNat DEF TransferIn, KeeperInv, FundsInv
  <2>3. QED
    BY <1>3, <1>8, <2>2 DEF TransferIn, KeeperInv, FundsInv
<1>9. QED
  BY <1>4, <1>5, <1>6, <1>7, <1>8 DEF ChainStep, EnvironmentStep

-----------------------------------------------------------------------------
(* What the cluster takes, and what the process loses.                     *)

(* A submission that lands finds its order open and as it was listed, and  *)
(* leaves it filled (lib.rs 105-238, 463-475).                             *)
LEMMA LandingFills ==
    ASSUME KeeperInv, NEW i \in DOMAIN txs, TxLands(i)
    PROVE  LET t == txs[i].listed
           IN  /\ OrdersMove /\ FundsInv'
               /\ orders[t.owner][t.id] = t.order
               /\ orders'[t.owner][t.id] = Filled(t.order)
<1> DEFINE t == txs[i].listed
<1>1. PICK after \in [Mints -> 0..MaxBalance] :
          execute_fill(t.owner, t.owner, t.id, t.order.stock_mint,
                       txs[i].update, txs[i].min_out, after)
  BY DEF TxLands
<1>2. IsListed(t) /\ t.owner \in Users /\ t.id \in Ids /\ t.order \in Order
  BY DEF KeeperInv, TxsInv, IsListed, OpenOrder
<1> HIDE DEF t
<1>3. /\ orders[t.owner][t.id] # NoOrder /\ IsOpen(orders[t.owner][t.id])
      /\ orders' = [orders EXCEPT ![t.owner][t.id].filled = TRUE]
      /\ vault' = [vault EXCEPT ![t.owner] = after]
      /\ UNCHANGED <<now, initialized, next_order_id>>
  BY <1>1 DEF execute_fill, FillMayStart
<1>4. orders' = [orders EXCEPT ![t.owner][t.id] = Filled(orders[t.owner][t.id])]
  BY <1>3 DEF Filled
<1>5. OrdersMove /\ orders'[t.owner][t.id] = Filled(orders[t.owner][t.id])
  BY <1>2, <1>3, <1>4, FillMoves DEF KeeperInv
<1>6. orders[t.owner][t.id] = t.order
  <2>1. Filled(t.order).filled = TRUE
    BY <1>2 DEF Filled, Order
  <2>2. QED
    BY <1>2, <1>3, <2>1 DEF IsListed, IsOpen
<1>7. FundsInv'
  BY <1>2, <1>3 DEF KeeperInv, FundsInv
<1>8. QED
  BY <1>5, <1>6, <1>7 DEF t

LEMMA TxLandsInv ==
    ASSUME KeeperInv, NEW i \in DOMAIN txs, TxLands(i)
    PROVE  KeeperInv'
<1> DEFINE t == txs[i].listed
<1>1. /\ OrdersMove /\ FundsInv'
      /\ orders[t.owner][t.id] = t.order
      /\ orders'[t.owner][t.id] = Filled(t.order)
  BY LandingFills
<1>2. /\ txs[i].status = "sent" /\ txs' = [txs EXCEPT ![i].status = "landed"]
      /\ UNCHANGED <<ledger, arms, tick, crashes, missed>>
  BY DEF TxLands
<1>3. txs \in Seq(FillTx) /\ txs[i] \in FillTx
  BY DEF KeeperInv, TxsInv
<1>4. /\ txs' \in Seq(FillTx) /\ Len(txs') = Len(txs) /\ DOMAIN txs' = DOMAIN txs
      /\ \A k \in DOMAIN txs :
            /\ txs'[k].listed = txs[k].listed
            /\ txs'[k].status = IF k = i THEN "landed" ELSE txs[k].status
  <2> DEFINE r == [txs[i] EXCEPT !.status = "landed"]
  <2>1. r \in FillTx /\ r.listed = txs[i].listed /\ r.status = "landed"
    BY <1>3 DEF FillTx
  <2>2. txs' = [txs EXCEPT ![i] = r]
    BY <1>2
  <2> HIDE DEF r
  <2>3. QED
    BY <1>3, <2>1, <2>2
<1>5. ASSUME NEW k \in DOMAIN txs
      PROVE  /\ IsListed(txs[k].listed)'
             /\ txs'[k].status = "landed" => IsFilled(txs[k].listed)'
  <2>1. /\ IsListed(txs[k].listed) /\ txs[k].listed \in OpenOrder
        /\ txs[k].status = "landed" => IsFilled(txs[k].listed)
    BY DEF KeeperInv, TxsInv, IsListed
  <2>2. CASE k = i
    BY <1>1, <1>4, <2>1, <2>2 DEF OrdersMove, IsListed, IsFilled
  <2>3. CASE k # i
    BY <1>1, <1>4, <2>1, <2>3 DEF OrdersMove, IsListed, IsFilled
  <2>4. QED
    BY <2>2, <2>3
<1>6. ASSUME NEW k \in DOMAIN txs, txs[k].status = "landed"
      PROVE  <<txs[k].listed.owner, txs[k].listed.id>> # <<t.owner, t.id>>
  <2>1. IsFilled(txs[k].listed) /\ txs[k].listed.order \in Order
    BY <1>6 DEF KeeperInv, TxsInv, IsListed, OpenOrder
  <2>2. Filled(txs[k].listed.order).filled = TRUE
    BY <2>1 DEF Filled, Order
  <2>3. IsOpen(t.order)
    BY DEF KeeperInv, TxsInv, IsListed
  <2>4. QED
    BY <1>1, <2>1, <2>2, <2>3 DEF IsFilled, IsOpen
<1>7. RetriesFillOnce'
  <2> SUFFICES ASSUME NEW k \in DOMAIN txs, NEW n \in DOMAIN txs, k # n,
                      txs'[k].status = "landed", txs'[n].status = "landed"
               PROVE  <<txs[k].listed.owner, txs[k].listed.id>>
                         # <<txs[n].listed.owner, txs[n].listed.id>>
    BY <1>4 DEF RetriesFillOnce
  <2>1. CASE k = i
    BY <1>4, <1>6, <2>1
  <2>2. CASE n = i
    BY <1>4, <1>6, <2>2
  <2>3. CASE k # i /\ n # i
    BY <1>4, <2>3 DEF KeeperInv, TxsInv, RetriesFillOnce
  <2>4. QED
    BY <2>1, <2>2, <2>3
<1>8. TxsInv'
  BY <1>4, <1>5, <1>7 DEF KeeperInv, TxsInv, IsListed, IsFilled
<1>9. TickInv'
  BY <1>1, <1>2, <1>4, TickAside DEF KeeperInv
<1>10. QED
  BY <1>1, <1>2, <1>4, <1>8, <1>9 DEF KeeperInv, OrdersMove, ArmsInv, RecordInv

LEMMA CrashInv ==
    ASSUME KeeperInv, Crash
    PROVE  KeeperInv'
<1>1. OrdersMove /\ FundsInv' /\ ArmsInv'
  BY OrdersStay DEF Crash, vars, KeeperInv, FundsInv, ArmsInv, OrdersInv
<1>2. TickInv'
  BY <1>1, IdleGoes DEF Crash
<1>3. TxsInv'
  BY <1>1, TxsAside DEF Crash, KeeperInv
<1>4. RecordInv'
  BY KeeperAssumption DEF Crash, KeeperInv, RecordInv, TickInv
<1>5. QED
  BY <1>1, <1>2, <1>3, <1>4 DEF KeeperInv, OrdersMove

LEMMA KeeperInitInv == KeeperInit => KeeperInv
<1> SUFFICES ASSUME KeeperInit PROVE KeeperInv
  OBVIOUS
<1>1. OrdersInv
  BY BoundsAreNat DEF KeeperInit, Init, OrdersInv, NoVaultNoOrders
<1>2. FundsInv
  BY BoundsAreNat DEF KeeperInit, Init, FundsInv
<1>3. ArmsInv
  BY FS_EmptySet, KeeperAssumption DEF KeeperInit, ArmsInv
<1>4. TickInv
  BY IdleIsTyped DEF KeeperInit, TickInv, Idle, Trying
<1>5. TxsInv
  BY KeeperAssumption DEF KeeperInit, TxsInv, RetriesFillOnce
<1>6. RecordInv
  BY BooksStart, KeeperAssumption DEF KeeperInit, RecordInv
<1>7. QED
  BY <1>1, <1>2, <1>3, <1>4, <1>5, <1>6 DEF KeeperInv

LEMMA KeeperNextInv == KeeperInv /\ [KeeperNext]_allVars => KeeperInv'
<1> SUFFICES ASSUME KeeperInv, [KeeperNext]_allVars PROVE KeeperInv'
  OBVIOUS
<1>1. CASE UNCHANGED allVars
  <2>1. OrdersMove /\ FundsInv' /\ ArmsInv'
    BY <1>1, OrdersStay DEF allVars, keeperVars, vars, KeeperInv, FundsInv, ArmsInv, OrdersInv
  <2>2. QED
    BY <1>1, <2>1, ChainAside DEF allVars, keeperVars
<1>2. CASE KeeperNext
  BY <1>2, TickStepInv, armVaultInv, ArmStepInv, TxLandsInv, ChainStepInv, CrashInv
     DEF KeeperNext
<1>3. QED
  BY <1>1, <1>2

(* The inductive invariant.                                                *)
THEOREM KeeperInvariant == KeeperSpec => []KeeperInv
  BY KeeperInitInv, KeeperNextInv, PTL DEF KeeperSpec

(* Every reachable state of the keeper is well typed: in particular vault  *)
(* mode never arms in the ledger, so that a disarm finds nothing there.    *)
THEOREM KeeperTyped == KeeperSpec => []KeeperTypeOK
<1>1. KeeperInv => KeeperTypeOK
  BY LedgerIsTyped
     DEF KeeperInv, ArmsInv, TickInv, TxsInv, RecordInv, KeeperTypeOK
<1>2. QED
  BY <1>1, KeeperInvariant, PTL

(* However often an order is submitted, one submission at most lands.      *)
THEOREM RetriesAreHarmless == KeeperSpec => []RetriesFillOnce
<1>1. KeeperInv => RetriesFillOnce
  BY DEF KeeperInv, TxsInv
<1>2. QED
  BY <1>1, KeeperInvariant, PTL

(* A submission fills the order that was listed or none.                   *)
THEOREM FillsAreOfTheListed == KeeperSpec => FillsWhatWasListed
<1> DEFINE Fills ==
      \A i \in DOMAIN txs :
          (txs[i].status = "sent" /\ txs'[i].status = "landed") =>
              LET t == txs[i].listed
              IN  orders[t.owner][t.id] = t.order /\ ~IsOpen(orders'[t.owner][t.id])
<1>1. KeeperInv /\ [KeeperNext]_allVars => [Fills]_allVars
  <2> SUFFICES ASSUME KeeperInv, KeeperNext, NEW i \in DOMAIN txs,
                      txs[i].status = "sent", txs'[i].status = "landed"
               PROVE  LET t == txs[i].listed
                      IN  orders[t.owner][t.id] = t.order /\ ~IsOpen(orders'[t.owner][t.id])
    OBVIOUS
  <2>1. txs \in Seq(FillTx)
    BY DEF KeeperInv, TxsInv
  <2>2. TxLands(i)
    <3>1. ASSUME NEW t, txs' = Append(txs, t) PROVE FALSE
      BY <2>1, <3>1
    <3>2. txs' # txs
      OBVIOUS
    <3>3. ~TickStep /\ ~deskTick
      BY <3>1, <3>2 DEF TickStep, deskTick, processVaultArms, TickFails, TickEnds, PickOrder,
         Waits, Sized, quoteTrade, HermesLatest, FillFails, submitVaultFill, Answered, AnswerLost
    <3>4. PICK k \in DOMAIN txs : TxLands(k)
      BY <3>2, <3>3 DEF KeeperNext, armVault, ArmLands, ArmExpires, ChainStep, keeperVars, Crash
    <3>5. k = i
      BY <2>1, <3>4 DEF TxLands
    <3>6. QED
      BY <3>4, <3>5
  <2>3. txs[i].listed.order \in Order
    BY DEF KeeperInv, TxsInv, IsListed, OpenOrder
  <2>4. ~IsOpen(Filled(txs[i].listed.order))
    BY <2>3 DEF Filled, Order, IsOpen
  <2>5. QED
    BY <2>2, <2>4, LandingFills
<1>2. QED
  BY <1>1, KeeperInvariant, PTL DEF KeeperSpec, FillsWhatWasListed

(* An order is placed under the id and with the terms of an answer to      *)
(* /api/desk/arm that is still unsigned.                                   *)
THEOREM ArmsAreKept == KeeperSpec => ArmsPlaceWhatTheyNamed
<1> DEFINE Named ==
      \A u \in Users, id \in Ids :
          (orders[u][id] = NoOrder /\ orders'[u][id] # NoOrder) =>
              \E a \in arms : a.user = u /\ a.id = id /\ a.order = orders'[u][id]
<1>1. KeeperInv /\ [KeeperNext]_allVars => [Named]_allVars
  <2> SUFFICES ASSUME KeeperInv, KeeperNext, NEW u \in Users, NEW id \in Ids,
                      orders[u][id] = NoOrder, orders'[u][id] # NoOrder
               PROVE  \E a \in arms : a.user = u /\ a.id = id /\ a.order = orders'[u][id]
    OBVIOUS
  <2>1. orders' # orders
    OBVIOUS
  <2>2. ASSUME NEW a \in arms, ArmLands(a)
        PROVE  a.user = u /\ a.id = id /\ a.order = orders'[u][id]
    <3>1. Places(a.user, a.id, a.order) /\ a.user \in Users
      BY <2>2, ArmPlaces DEF KeeperInv
    <3>2. QED
      BY <3>1 DEF Places, KeeperInv, OrdersInv
  <2>3. ASSUME NEW i \in DOMAIN txs, TxLands(i) PROVE FALSE
    <3>1. /\ orders[txs[i].listed.owner][txs[i].listed.id] = txs[i].listed.order
          /\ txs[i].listed.order \in Order /\ txs[i].listed \in OpenOrder
      BY <2>3, LandingFills DEF KeeperInv, TxsInv, IsListed, OpenOrder
    <3>2. PICK after \in [Mints -> 0..MaxBalance] :
              execute_fill(txs[i].listed.owner, txs[i].listed.owner, txs[i].listed.id,
                           txs[i].listed.order.stock_mint, txs[i].update, txs[i].min_out,
                           after)
      BY <2>3 DEF TxLands
    <3>3. orders' = [orders EXCEPT ![txs[i].listed.owner][txs[i].listed.id].filled = TRUE]
      BY <3>2 DEF execute_fill
    <3>4. QED
      BY <3>1, <3>3, NoOrderAssumption DEF KeeperInv, OrdersInv, OpenOrder
  <2>4. ASSUME ChainStep PROVE FALSE
    <3>1. PICK w \in Users, i \in Ids : orders' = [orders EXCEPT ![w][i] = NoOrder]
      BY <2>1, <2>4 DEF ChainStep, EnvironmentStep, initialize_vault, cancel_order, withdraw,
                        Tick, TransferIn
    <3>2. QED
      BY <3>1 DEF KeeperInv, OrdersInv
  <2>5. ~TickStep /\ ~deskTick /\ ~Crash
    BY <2>1 DEF TickStep, deskTick, processVaultArms, TickFails, TickEnds, PickOrder, Waits, Sized,
         quoteTrade, HermesLatest, FillFails, submitVaultFill, Answered, AnswerLost, KeepsChain,
         Crash, vars
  <2>6. \E a \in arms : ArmLands(a)
    BY <2>1, <2>3, <2>4, <2>5 DEF KeeperNext, armVault, ArmExpires, vars
  <2>7. QED
    BY <2>2, <2>6
<1>2. QED
  BY <1>1, KeeperInvariant, PTL DEF KeeperSpec, ArmsPlaceWhatTheyNamed

-----------------------------------------------------------------------------
(* The records of the submissions.  Whether or not it has landed, each one *)
(* is on record unless its answer is still awaited, was lost, or its       *)
(* owner's list is full; the answer is of the order that was picked.       *)
Recorded(i) ==
    \/ i \in missed
    \/ tick.pc = "answer" /\ tick.sig = i
    \/ ExecutedRow(i)
    \/ FullFor(txs[i].listed.owner)

AnswersInv ==
    /\ \A i \in DOMAIN txs : Recorded(i)
    /\ tick.pc = "answer" => txs[tick.sig].listed = tick.pick

LEMMA RowsRest == ASSUME UNCHANGED ledger PROVE RowsMove
  BY DEF RowsMove, FullFor

(* A step after which every answer is awaited as before, or dealt with.    *)
LEMMA AnswersMove ==
    ASSUME AnswersInv, RowsMove, DOMAIN txs' = DOMAIN txs,
           \A i \in DOMAIN txs : txs'[i].listed = txs[i].listed,
           tick.pc = "answer" => tick.sig \in DOMAIN txs,
           missed \subseteq missed',
           \/ UNCHANGED tick
           \/ /\ tick'.pc # "answer"
              /\ \A i \in DOMAIN txs : (tick.pc = "answer" /\ tick.sig = i) =>
                    i \in missed' \/ ExecutedRow(i)'
    PROVE  AnswersInv'
<1>1. ASSUME NEW i \in DOMAIN txs, Recorded(i) PROVE Recorded(i)'
  <2>1. PICK t : t = txs[i].listed /\ t = txs'[i].listed
    OBVIOUS
  <2>2. FullFor(t.owner) => FullFor(t.owner)'
    BY DEF RowsMove
  <2>3. FullFor(t.owner)' => Recorded(i)'
    BY <2>1 DEF Recorded, FullFor
  <2>4. CASE ExecutedRow(i)
    <3>1. PICK r \in ledger.armRecords :
              /\ r.status = "executed" /\ r.tx = i
              /\ r.owner = t.owner /\ r.ticker = t.order.stock_mint
      BY <2>1, <2>4 DEF ExecutedRow
    <3>2. r \in ledger'.armRecords \/ FullFor(t.owner)'
      BY <3>1 DEF RowsMove
    <3>3. r \in ledger'.armRecords => ExecutedRow(i)'
      BY <2>1, <3>1 DEF ExecutedRow
    <3>4. QED
      BY <2>3, <3>2, <3>3 DEF Recorded
  <2>5. CASE tick.pc = "answer" /\ tick.sig = i
    BY <2>5 DEF Recorded
  <2>6. CASE i \in missed
    BY <2>6 DEF Recorded
  <2>7. CASE FullFor(txs[i].listed.owner)
    BY <2>1, <2>2, <2>3, <2>7
  <2>8. QED
    BY <1>1, <2>4, <2>5, <2>6, <2>7 DEF Recorded
<1>2. \A i \in DOMAIN txs' : Recorded(i)'
  BY <1>1 DEF AnswersInv
<1>3. tick'.pc = "answer" => txs'[tick'.sig].listed = tick'.pick
  BY DEF AnswersInv
<1>4. QED
  BY <1>2, <1>3 DEF AnswersInv

LEMMA SubmitAnswers ==
    ASSUME KeeperInv, AnswersInv, submitVaultFill
    PROVE  AnswersInv'
<1> DEFINE t == [listed |-> tick.pick, min_out |-> tick.min_out,
                 update |-> tick.update, status |-> "sent"]
<1>1. /\ tick \in KeeperTick /\ tick.pc = "send" /\ txs' = Append(txs, t)
      /\ tick' = [tick EXCEPT !.pc = "answer", !.sig = Len(txs')]
      /\ UNCHANGED <<ledger, missed>>
  BY DEF submitVaultFill, Goto, KeepsChain, KeeperInv, TickInv
<1>2. txs \in Seq(FillTx) /\ Len(txs) \in Nat /\ t.listed = tick.pick
  BY DEF KeeperInv, TxsInv
<1> HIDE DEF t
<1>3. /\ Len(txs') = Len(txs) + 1 /\ DOMAIN txs' = 1..(Len(txs) + 1) /\ DOMAIN txs = 1..Len(txs)
      /\ txs'[Len(txs) + 1] = t
      /\ \A i \in DOMAIN txs : txs'[i] = txs[i]
  BY <1>1, <1>2
<1>4. tick'.pc = "answer" /\ tick'.sig = Len(txs) + 1 /\ tick'.pick = tick.pick
  BY <1>1, <1>3 DEF KeeperTick
<1>5. ASSUME NEW i \in DOMAIN txs' PROVE Recorded(i)'
  <2>1. CASE i = Len(txs) + 1
    BY <1>4, <2>1 DEF Recorded
  <2>2. CASE i # Len(txs) + 1
    <3>1. i \in DOMAIN txs /\ txs'[i] = txs[i] /\ Recorded(i)
      BY <1>2, <1>3, <1>5, <2>2 DEF AnswersInv
    <3>2. QED
      BY <1>1, <3>1 DEF Recorded, ExecutedRow, FullFor
  <2>3. QED
    BY <2>1, <2>2
<1>6. QED
  BY <1>2, <1>3, <1>4, <1>5 DEF AnswersInv

LEMMA TickAnswers ==
    ASSUME KeeperInv, AnswersInv, TickStep \/ deskTick
    PROVE  AnswersInv'
<1>0. /\ tick \in KeeperTick /\ now \in Nat /\ RecordInv
      /\ tick.pc \in Trying => IsListed(tick.pick)
      /\ tick.pc = "answer" => tick.sig \in DOMAIN txs
  BY DEF KeeperInv, TickInv, FundsInv
<1>1. CASE \/ deskTick \/ processVaultArms \/ TickFails \/ TickEnds \/ PickOrder
           \/ Waits \/ Sized \/ quoteTrade \/ HermesLatest
  <2>1. UNCHANGED <<ledger, txs, missed>>
    BY <1>1 DEF deskTick, processVaultArms, TickFails, TickEnds, PickOrder, Waits, Sized,
                quoteTrade, HermesLatest
  <2>2. tick.pc # "answer" /\ tick'.pc # "answer"
    <3>1. CASE deskTick \/ TickFails \/ TickEnds
      BY <3>1 DEF deskTick, TickFails, TickEnds, Goto, Idle
    <3>2. CASE processVaultArms \/ Waits
      BY <3>2 DEF processVaultArms, Waits, NextOrder, Goto, Idle
    <3>3. CASE PickOrder
      BY <3>3 DEF PickOrder, Goto, Idle
    <3>4. CASE Sized \/ quoteTrade \/ HermesLatest
      <4>1. CASE Sized
        BY <1>0, <4>1 DEF Sized, Goto, KeeperTick
      <4>2. CASE quoteTrade
        BY <1>0, <4>2 DEF quoteTrade, Goto, KeeperTick
      <4>3. CASE HermesLatest
        BY <1>0, <4>3 DEF HermesLatest, Goto, KeeperTick
      <4>4. QED
        BY <3>4, <4>1, <4>2, <4>3
    <3>5. QED
      BY <1>1, <3>1, <3>2, <3>3, <3>4
  <2>3. QED
    BY <2>1, <2>2, RowsRest, AnswersMove
<1>2. CASE FillFails \/ AnswerLost \/ Answered
  <2>0. /\ tick.pc \in Trying /\ NextOrder /\ UNCHANGED txs
        /\ \/ ledger' = Book!recordArmResult(ledger, RowOf(tick.pick), "failed", 0)
           \/ ledger' = Book!recordArmResult(ledger, RowOf(tick.pick), "executed", tick.sig)
    BY <1>2 DEF FillFails, AnswerLost, Answered, Failed, Trying, Book!NoSig
  <2>1. IsListed(tick.pick) /\ tick.sig \in Nat /\ tick'.pc = "orders" /\ UNCHANGED txs
    BY <1>0, <2>0 DEF NextOrder, Goto, Idle, KeeperTick
  <2>2. RowsMove
    BY <1>0, <2>0, <2>1, RecordStep
  <2>3. CASE FillFails
    BY <2>1, <2>2, <2>3, AnswersMove DEF FillFails
  <2>4. CASE AnswerLost
    BY <1>0, <2>1, <2>2, <2>4, AnswersMove DEF AnswerLost
  <2>5. CASE Answered
    <3>1. /\ tick.pc = "answer" /\ UNCHANGED missed /\ tick.sig \in DOMAIN txs
          /\ ledger' = Book!recordArmResult(ledger, RowOf(tick.pick), "executed", tick.sig)
          /\ txs[tick.sig].listed = tick.pick
      BY <1>0, <2>5 DEF Answered, AnswersInv
    <3>2. \E row \in ledger'.armRecords :
              /\ row.owner = tick.pick.owner /\ row.ticker = tick.pick.order.stock_mint
              /\ row.status = "executed" /\ row.tx = tick.sig
      BY <1>0, <2>1, <3>1, RecordStep
    <3>3. ASSUME NEW i \in DOMAIN txs, tick.sig = i PROVE ExecutedRow(i)'
      BY <2>1, <3>1, <3>2, <3>3 DEF ExecutedRow
    <3>4. QED
      BY <2>1, <2>2, <3>1, <3>3, AnswersMove
  <2>6. QED
    BY <1>2, <2>3, <2>4, <2>5
<1>3. CASE submitVaultFill
  BY <1>3, SubmitAnswers
<1>4. QED
  BY <1>1, <1>2, <1>3 DEF TickStep

LEMMA AnswersNext == KeeperInv /\ AnswersInv /\ [KeeperNext]_allVars => AnswersInv'
<1> SUFFICES ASSUME KeeperInv, AnswersInv, [KeeperNext]_allVars PROVE AnswersInv'
  OBVIOUS
<1>0. tick.pc = "answer" => tick.sig \in DOMAIN txs
  BY DEF KeeperInv, TickInv
<1>1. CASE UNCHANGED <<ledger, tick, txs, missed>>
  BY <1>0, <1>1, RowsRest, AnswersMove
<1>2. CASE Crash
  <2>1. UNCHANGED <<ledger, txs>> /\ tick'.pc # "answer" /\ missed \subseteq missed'
        /\ (tick.pc = "answer" => tick.sig \in missed')
    BY <1>2 DEF Crash, Idle
  <2>2. QED
    BY <1>0, <2>1, RowsRest, AnswersMove
<1>3. ASSUME NEW i \in DOMAIN txs, TxLands(i) PROVE AnswersInv'
  <2>1. UNCHANGED <<ledger, tick, missed>> /\ txs' = [txs EXCEPT ![i].status = "landed"]
    BY <1>3 DEF TxLands
  <2>2. txs \in Seq(FillTx) /\ txs[i] \in FillTx
    BY DEF KeeperInv, TxsInv
  <2>3. DOMAIN txs' = DOMAIN txs /\ \A k \in DOMAIN txs : txs'[k].listed = txs[k].listed
    <3> DEFINE r == [txs[i] EXCEPT !.status = "landed"]
    <3>1. r \in FillTx /\ r.listed = txs[i].listed
      BY <2>2 DEF FillTx
    <3>2. txs' = [txs EXCEPT ![i] = r]
      BY <2>1
    <3> HIDE DEF r
    <3>3. QED
      BY <2>2, <3>1, <3>2
  <2>4. QED
    BY <1>0, <2>1, <2>3, RowsRest, AnswersMove
<1>4. CASE TickStep \/ deskTick
  BY <1>4, TickAnswers
<1>5. ASSUME NEW a \in arms, ArmLands(a) \/ ArmExpires(a)
      PROVE  UNCHANGED <<ledger, tick, txs, missed>>
  BY <1>5 DEF ArmLands, ArmExpires
<1>6. QED
  BY <1>1, <1>2, <1>3, <1>4, <1>5
     DEF KeeperNext, armVault, ChainStep, keeperVars, allVars

(* A fill that landed stays on record under its signature, unless its      *)
(* answer was lost, the process died waiting for it, or its owner's list   *)
(* has been full, for every length of the list and every number of orders, *)
(* submissions and crashes (ledger.ts 199-242, desk.ts 385-405).           *)
THEOREM LandedFillsAreOnRecord == KeeperSpec => []FillsAreOnRecord
<1>1. KeeperInit => AnswersInv
  BY DEF KeeperInit, AnswersInv, Idle
<1>2. KeeperInv /\ AnswersInv => FillsAreOnRecord
  BY DEF AnswersInv, Recorded, FullFor, FillsAreOnRecord
<1>3. QED
  BY <1>1, <1>2, AnswersNext, KeeperInvariant, PTL DEF KeeperSpec
-----------------------------------------------------------------------------
(* The keeper does nothing to the chain that the program does not allow:   *)
(* what was proved of the program by itself holds with the keeper, whose   *)
(* arguments are its own (any min_out, orders that expire with ARM_TTL, a  *)
(* vault and its first order in one transaction).                          *)
LEMMA KeeperMovesVault ==
    ASSUME KeeperInv, [KeeperNext]_allVars
    PROVE  [VaultStep]_vars
<1>1. ASSUME NEW a \in arms, ArmLands(a) PROVE AnyPlace
  <2>1. Places(a.user, a.id, a.order) /\ a.user \in Users
    BY <1>1, ArmPlaces DEF KeeperInv
  <2>2. a.id \in Ids /\ a.order \in Order
    BY <2>1 DEF Places
  <2>3. QED
    BY <2>1, <2>2 DEF AnyPlace
<1>2. ASSUME NEW i \in DOMAIN txs, TxLands(i) PROVE AnyFill
  <2> DEFINE t == txs[i].listed
  <2>1. PICK after \in [Mints -> 0..MaxBalance] :
            execute_fill(t.owner, t.owner, t.id, t.order.stock_mint,
                         txs[i].update, txs[i].min_out, after)
    BY <1>2 DEF TxLands
  <2>2. txs[i] \in FillTx
    BY DEF KeeperInv, TxsInv
  <2>3. /\ t.owner \in Users /\ t.id \in Ids /\ t.order.stock_mint \in Stocks
        /\ txs[i].update \in PriceUpdates /\ txs[i].min_out \in U64
    BY <2>2 DEF FillTx, OpenOrder, Order
  <2> HIDE DEF t
  <2>4. QED
    BY <2>1, <2>3 DEF AnyFill
<1>3. ASSUME ChainStep PROVE EnvironmentStep \/ \E u \in Users : UserStep(u)
  BY <1>3 DEF ChainStep, UserStep
<1>4. ASSUME TickStep \/ deskTick \/ Crash PROVE UNCHANGED vars
  BY <1>4 DEF TickStep, deskTick, processVaultArms, TickFails, TickEnds, PickOrder, Waits, Sized,
       quoteTrade, HermesLatest, FillFails, submitVaultFill, Answered, AnswerLost, KeepsChain,
       Crash
<1>5. QED
  BY <1>1, <1>2, <1>3, <1>4
     DEF KeeperNext, VaultStep, armVault, ArmExpires, allVars

(* The invariant of the program holds under the keeper.                    *)
THEOREM KeeperKeepsVault == KeeperSpec => []IInv
<1>1. KeeperInit => IInv
  BY InitIInv DEF KeeperInit
<1>2. KeeperInv /\ [KeeperNext]_allVars => [VaultStep]_vars
  BY KeeperMovesVault
<1>3. QED
  BY <1>1, <1>2, VaultStepIInv, KeeperInvariant, PTL DEF KeeperSpec

(* What the keeper fills is in time and fair to the owner, whatever it     *)
(* read, however old that is when a submission lands (desk.ts 285-433,     *)
(* lib.rs 105-215).                                                        *)
THEOREM KeeperFillsFairly ==
    KeeperSpec => [](FillOnce /\ FillsAreTimely /\ BuysFillFairly /\ SellsFillFairly)
<1>1. IInv => FillOnce /\ FillsAreTimely /\ BuysFillFairly /\ SellsFillFairly
  BY DEF IInv
<1>2. QED
  BY <1>1, KeeperKeepsVault, PTL

(* With the desk that arms and fills, tokens leave a vault only for its    *)
(* owner's wallet or within what an open order of its owner may take; the  *)
(* route it submits may be any (desk.ts 180-433, lib.rs 144-201).          *)
THEOREM KeeperOutflow == KeeperSpec => OutflowIsOwnersOrOrders
<1>1. KeeperInv /\ IInv /\ [KeeperNext]_allVars => [StepPays]_vars
  BY KeeperMovesVault, VaultStepPays
<1>2. KeeperSpec => [][StepPays]_vars
  BY <1>1, KeeperInvariant, KeeperKeepsVault, PTL DEF KeeperSpec
<1>3. QED
  BY <1>2 DEF OutflowIsOwnersOrOrders, StepPays

(* The desk and the program together implement LimitOrders: lost answers,  *)
(* retries, late landings and crashes are invisible there, and a fill may  *)
(* move any token of its owner's vault, but no other user's.               *)
THEOREM KeeperImplementsLimitOrders == KeeperSpec => KeepsPromise
<1>1. KeeperInit => Promise!Init
  BY InitRefines DEF KeeperInit
<1>2. KeeperInv /\ IInv /\ [KeeperNext]_allVars => [Promise!Next]_Promise!loVars
  <2> SUFFICES ASSUME KeeperInv, IInv, [KeeperNext]_allVars
               PROVE  [Promise!Next]_Promise!loVars
    OBVIOUS
  <2>1. [VaultStep]_vars
    BY KeeperMovesVault
  <2>2. QED
    BY <2>1, VaultStepRefines
<1>3. KeeperSpec => Promise!Spec
  BY <1>1, <1>2, KeeperInvariant, KeeperKeepsVault, PTL DEF KeeperSpec, Promise!Spec
<1>4. QED
  BY <1>3 DEF KeepsPromise
=============================================================================
