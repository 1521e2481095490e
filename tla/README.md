# MarkFill in TLA+

A verification development for MarkFill: an Anchor vault program on Solana that
holds USDC and tokenised stocks and fills limit orders inside a fairness band
around the Pyth equity price, and a Node desk that scans prices, holds the older
custodial wallets and acts as keeper. Paths below are relative to the repository.

## The system

| Part | Where | State | Operations | Hard behaviour |
|---|---|---|---|---|
| Vault program | `programs/markfill_vault/src/lib.rs`, `state.rs` | `Vault`, `Order` accounts, token accounts of the vault PDA | `initialize_vault`, `deposit`, `place_order`, `cancel_order`, `execute_fill`, `withdraw` | anyone submits fills, picks the price update and the Jupiter route; ids and accounts come and go |
| Fairness arithmetic | `lib.rs` 241-369 | none | `pyth_e8`, `implied_price_e8`, `max_sell_native`, `in_band` | widths, truncation, ceilings, edges of the band |
| Ledger | `src/lib/ledger.ts` | `data/ledger.json`: books, processed signatures, journals, arms, rows | `creditDeposit`, `applyFill`, `debitWithdraw`, `setArm`, `recordArmResult`, `disarm` | each call is atomic, a sequence of calls is not; capped lists |
| Custodial desk | `src/lib/desk.ts`, `custody.ts`, `src/server.ts` | ledger, desk wallets on chain, `busy` | `deskTick` every 8 s (scan, then orders), requests to arm, disarm, scan, withdraw | interleaving at every await, lost answers, dropped transactions, crashes between saves |
| Vault keeper | `desk.ts` 180-433, `vault.ts` | none of its own | `armVault`, `processVaultArms`, `fillVaultOrder`, `submitVaultFill` | retries against a chain that may have filled already |
| Desk keys | `custody.ts` 42-140, `ledger.ts` 109-130 | `.env`, master file, `desks.json`, pinned wallets | `ensureMasterSecret`, `deskKeypair`, `pinDeskWallet` | crash between the files, non-atomic write |
| Tape and quotes | `tape.ts`, `jupiter.ts`, `meteora.ts` | feed cache | `buildTape`, `scanBoard`, `quoteTrade`, `lpPlan` | cached session and feeds |
| Receipts | `receipts.ts` | `receipts.json`, 80 rows | `addReceipt`, `stampTx` | may throw after a fill is booked |
| Authentication | `auth.ts` | none | `requireOwnerSig` | the message names one wallet, the body another, and neither ticker nor amount; the action is a substring of it; five minute window |
| Page | `web/index.html`, `wallets.js` | connected wallet; rows and deposit address in local storage | `loadDesk`, `loadMe`, `refreshArmRecords`, the arm button, merge of local and served rows | the wallet is switched at any await, answers out of order |
| Scripts | `scripts/` | none | sweep of custodial wallets, secret check | one-shot |

How they interact: an owner signs vault transactions that the desk builds, or
sends signed requests to the desk. With a vault program configured
(`auth.ts` `vaultMode`) orders live on chain and the desk only submits
`execute_fill`; without one the desk keeps the orders in the ledger and swaps
from a wallet it holds for the owner. Both read the tape before they act.

What makes each part correct:

* program: an order fills once, in time, at a price its owner accepted, with its
  owner's tokens only; nobody else's tokens move, and its owner's USDC only as the
  debit of a buy;
* arithmetic: sound (nothing unfair passes) and complete (nothing fair is refused);
* ledger and desk: one swap for an order, one credit for a deposit, no overdraft,
  no debit without a transfer, rows that say which orders are live, and every
  deposit and order served in the end;
* keys: an owner's address never changes, and its key can be had again whatever
  crashes and is redeployed;
* page and authentication: orders only of wallets that signed a message with the
  word "arm" in it, an address that stays, a list that comes to agree with the
  server.

## Modules

| Module | What it is |
|---|---|
| `FairBand` | The arithmetic of `lib.rs` as operators, the word sizes as constants (`U64_MAX`, `U128_MAX`, ...), `Err` for a returned error, and what the band means for a user in exact arithmetic (`BuyFair`, `SellFair`, `SellWithinNotional`). |
| `MarkfillVault` | The program. One action per instruction, `require!`s and account constraints as guards (a failing one reverts the transaction, so there is no step). Environment: the clock, tokens sent to a vault, the keeper's choice of update, `min_out` and route; the route may leave every token account of the vault that signs at any balance. |
| `LimitOrders` | Abstract specification: orders that end once, funds that leave custody only for their owner or for the deal of one open order, within its limit. The other tokens of the user whose order is filled are not promised anything. `MarkfillVault` implements it (`KeepsPromise`). |
| `FairBandChecks` | The program's checks from the other side, over trades and over tapes: completeness, monotonicity of the pre-swap check, and agreement with the desk's decision. |
| `DeskLedger` | The functions of `ledger.ts` on a ledger record. |
| `CustodialDesk` | The custodial desk: jobs (ticks and requests) that interleave at awaits, the cluster, crashes. |
| `DeskKeys` | The desk wallet of an owner: master secret, derived key, the two places it is stored in. |
| `Tape` | The tape of one name, its verdict, and the sizes and `min_out` of the trade the desk quotes on it. |
| `VaultKeeper` | The desk in vault mode. It extends `MarkfillVault` (the chain it acts on) and `Tape`, and instantiates `DeskLedger` for its rows. |
| `WebPage` | The page against the custodial server, with the signature check of `auth.ts`. It extends `DeskLedger`, which is the server's ledger. |
| `MC*` | Constants for TLC. |
| `FairBandProofs`, `FairBandChecksProofs`, `MarkfillVaultProofs`, `DeskLedgerProofs`, `CustodialDeskProofs`, `DeskKeysProofs`, `VaultKeeperProofs`, `WebPageProofs` | Proofs. `FairBandChecksProofs` and `MarkfillVaultProofs` extend `FairBandProofs`, `CustodialDeskProofs` and `WebPageProofs` extend `DeskLedgerProofs`, `VaultKeeperProofs` extends `MarkfillVaultProofs` and instantiates `DeskLedgerProofs`. |

### State and actions against the code

`MarkfillVault`: `orders[u][id]` is the order PDA with seeds (owner, id),
`NoOrder` where there is no account; `vault` and `wallet` are token balances;
`terms` and `fills` are history, what `place_order` wrote and what a fill moved.
`execute_fill(v, o, id, mint, update, min_out, after)` takes the accounts as
separate arguments, as the instruction does, and relates them by the constraints
of `ExecuteFill`. `IsOpen`, `FillMayStart`, `BuyMayFinish` and `SellMayFinish` are
lines 113-201 in order. The keeper's accounts and data go to Jupiter as they are
and the vault PDA signs (144-168), so `after`, what the vault holds of every mint
when the swap is over, is any balances; the program reads two of them again. Two
assumptions about the environment: a route moves tokens of the vault that signs
and does nothing else with its signature, and no Pyth update is published in the
future. Rent, bumps, the two token programs and `min_out`'s place in the event are
left out.

`DeskLedger`: `book[o][a]` is `usdc` and `holdings` of a user. Each function
loads, changes and renames a new file without awaiting, so it is one function on
ledgers; its throwing condition is an operator of its own (`Covers`,
`CanDebit`). `arms` and `armRecords` are sets: the order of the lists is that of
`createdAt` and of the stamp `at`, which `rememberArm` keeps when it writes a row
in place. The journal of fills is kept whole, where the code keeps 80 for
display. A ledger file that does not parse is taken for an empty one by the code
(`ledger.ts:80`); it is replaced by a rename, so no step of the model tears it.

`CustodialDesk`: `job[j]` is what a tick or a request holds between two awaits.
`deskTick`, `ScanRead`, `ScanCredit`, `StartSwap`/`Waits`/`SwapFails`, `Quote`,
`SwapSent`/`AnswerLost`, `Settle`, `Record`, `Disarm` are the stretches of
`ingestDeposits`, `processArms` and `hotSwap`. Stretches with several saves
(`ScanCredit`; `Settle`-`Record`-`Disarm`) take an action per save; `Running`
keeps other jobs from moving in between, as the event loop does, and `Crash` may
fall in between. `txs` is everything that touched the desk wallets, balances are
computed from what landed (`Balance`). The tape is a new choice at every
`buildTape`. One share is one dollar; a sell may be sized by a second, lower
price (`Drifts`). Amounts are whole dollars, and a swap settles at its quote.
Costs, bands, error texts and `updatedAt` are left out. Owners are known to the
ledger from the start and are scanned in its order, one after another: a scan
that throws ends the tick. A scan reads the newest `SCAN_LIMIT` signatures that
name the USDC account (`Mentions`, `Recent`), among them failed ones (`Revert`)
and those of anybody that pay nothing in (`Touch`), and only then takes the ones
that pay (`Incoming`). That the RPC node returns every transaction whose signature
it lists is assumed.

`DeskKeys`: `envFile`, `masterFile`, `desks` and `pins` are the files, `env` is
`process.env.MARKFILL_SECRET`, `call` the call of `deskKeypair` that is under
way. The function never awaits, so one call runs at a time; every write of it is
an action (`WriteMaster`, `WriteEnv`, `saveDesks`, `PinAndReturn`), and a crash
may fall between two of them or inside one that is in place: a torn `desks.json`
does not parse and counts as empty, a torn secret is some other secret.
`WriteFails` is a write that throws. `Redeploy` empties a disk that is not kept,
`Reconfigure` changes the operator's secret; a host is one that keeps its disk or
one with a fixed `MARKFILL_SECRET`, as `.env.example` asks for. `answered` is
history: the addresses owners were given.

`Tape`: the code computes with doubles; a price is a whole number of 1e-8
dollars and an amount a whole number of atoms, so a verdict is exact.
Jupiter is external: a quote pays at the on-chain price and its threshold is the
quote less the slippage.

`VaultKeeper`: `tick` is what one `deskTick` holds between two awaits; `pc` names
the await it is at (`scan`, `orders`, `tape`, `quote`, `route`, `send`,
`answer`). `left` is the rest of the list `listOpenOrders` gave, decoded when it
was read, so it may be stale. `arms` are the transactions given to users to sign;
one lands as `place_order` (after `initialize_vault` where there was no vault)
only if its order account is that of the vault's next id. `txs` are the fills that
were submitted; one lands as `execute_fill` with the arguments it was built from,
at any later time, or never (nothing forces it to land). A quote whose `min_out`
does not fit `u64le` throws. `ChainStep` is what else happens on the chain: vaults
initialised, cancels and withdrawals, transfers, the clock. Fills by other keepers
and orders placed past the desk are left out here: `MarkfillVault` has them.
`FillFails` is any throw on the way, which `processVaultArms` turns into a failed
row. `missed` is history. There is no disarm: `/api/desk/disarm` rewrites the arms
and pending rows of the ledger in both modes, and vault mode has none
(`KeeperTypeOK`), so it changes nothing.

`WebPage`: `pubkey` is the connected wallet, `deskCache` and `armCache` are local
storage, `deskAddr` and `shown` what is painted. A request is a record with the
stage it waits at (`desk`, `deskAnswer`, `me`, `meAnswer`, `sign`, `post`,
`posted`, `rest`); what its handler does after an await is an action that reads
`pubkey` again, as the code does, and may find another wallet there. A withdrawal
may be signed while an arm is under way, one prompt of the wallet at a time;
between the row of an arm and the refresh of the list the button says "Done" for
700 ms (`rest`, then `ArmRefresh`). `ServeDesk`, `ServeMe`, `ServeSigned` and
`Refuse` are the server's side, `Fill` and `FillFails` what a tick makes of an
order. `signed` is history: the messages wallets signed, and not too late.
`requireOwnerSig` takes any message with the action somewhere in it (`Includes`):
a disarm message passes for an arm, and any message does if the address in it
spells the word (`Spelled`). `Replay` posts a copy of a signed message to any
endpoint with any ticker; copies do not age, which only adds steps. The page arms
buys only. Left out: that a page in the background stops refreshing, the cap of 30
rows (beyond `MaxClicks`), the tape, board, trade and LP tabs, which show what the
server computes and keep nothing, and the vault mode of the page.

## Runs

| Run | Question | Bounds |
|---|---|---|
| `vault_prices` | Are fills in time, on the right feed, within notional and band? | One user, one order, both sides, bands 0, 50% and 100%, two feeds whose prices change, are scaled by every branch of `pyth_e8`, go stale and halt, balances up to 3, every outcome of the route. |
| `vault_owners` | One fill per order, no foreign tokens, what a fill may cost its owner, implements `LimitOrders`? | Two users (symmetric), two stocks, so that a route can spend the one its order does not name, one id each, balances up to 1. The clock stands still: no property of this run depends on it. Two ids of a user, and with them the reuse of ids, are in `keeper_orders`. |
| `fair_trades` | Is a fair trade ever refused? Does checking `min_out` cover the swap? Does the program fill what the tape calls cheap or rich, and refuse what is off it whatever the desk asks for? | All on-chain prices 1..100, 3 references, 6 bands, 4 notionals, 2 numbers of decimals, trades of up to 40 tokens. The published price is the tape's reference, so that desk and program can only disagree by their rules; `Fine` leaves out orders so small that one atom of `min_out` is a large part of the band, `Wide` bands of a unit or two of price, `Narrows` quotients the code cuts to 64 bits. |
| `desk_orders` | One swap per order; do the rows of live orders stay? | Two overlapping timers, three orders of both sides on one ticker, three transactions, one crash, a row cap of 2 so that it bites. |
| `desk_money` | Overdraft, double credit, debit without transfer? | One tick against one request, one order, three transactions, one crash, one remembered signature, so that a forgotten one is credited again at the bound `CreditedOnce` states. |
| `desk_liveness` | Are deposits credited and orders tried? | One timer, two wallets, so that a failing scan of one holds up the other and all orders, two orders, so that one fails before the other, two transactions and a scan of one signature, so that a failed or foreign one buries a deposit, one crash. Scans of several signatures with a crash in between are in `desk_money`. |
| `desk_keys` | Does an address stay, and is its key recoverable at every moment? | Two owners and two secrets, so that a new secret differs from the old one and calls for two owners meet; crashes, failed writes, deployments and new secrets without a bound, on both kinds of host. |
| `keeper_orders` | Is an id ever reused, does a late fill take the order that was listed, a late arm the id that was named? | One user, two ids, two arms of different sides, one submission. |
| `keeper_retries` | Do retries fill once, do the rows tell, is an open order tried again? | One order, two submissions, a clock that passes the expiry, one crash, a row cap of 2. |
| `web_page` | Orders only of those who signed for one, an address that stays, lists that settle? | Two wallets, the address of one spelling "arm", and two requests in flight, so that answers overtake each other across a switch; one ticker, three clicks, one fault (a request lost or a message posted again). Deadlock is not checked: a page without a wallet rests until the user comes back. |
| `fair_fills` | "FAIR → FILL". | One reference and band; TLC finds the counterexample below. |
| `page_address` | "This address is only yours". | Two wallets, two clicks; TLC finds the counterexample below. |

`MaxOrders`, `MaxTime`, `MaxBalance`, `MaxArms`, `MaxTxs`, `MaxCrashes`,
`MaxCredits`, `MaxClicks`, `MaxFaults` and the set `Slots` are the bounds; each
is a guard of the action that would pass it. The smallest interesting instance is
one more than the limit in question: two owners, two ids, a second timer, a
second request in flight, a credit more than `PROCESSED_CAP`, a row more than
`RECORDS_CAP`. Where a theorem below states the same property, none of these
bounds matters.

Each property of a passing run has a mutant: an operator marked *Mutant* before
the definition it replaces, which is the bug the property is there to catch.

## What the code does not keep

Two statements about the program are refuted by a run.

* `FairIsFilled`: "FAIR → FILL" (`README.md:22`). The keeper asks for a slippage of
  the whole band (`desk.ts:363`), and the program prices a buy by the `min_out`
  that results (`lib.rs` 124-130): a buy above the reference but inside the band
  implies a price outside it, is refused at simulation and recorded as failed.
  Cheap buys and rich sells do pass (`CheapBuyPasses`, `RichSellPasses`).
* `SavedAddressIsOwn`: "This address is only yours" (`web/index.html:213`).
  `loadDesk` and `loadMe` ask for one wallet and save the answer under the wallet
  that is connected when it arrives (`index.html:866`, `888`); a saved address
  wins over the served one, so a wrong one stays (`SavedAddressStays` holds all the
  same).

Others are steps of the models and have no run of their own.

* A fill may spend tokens its order does not name. The program reads USDC and the
  order's stock again after the swap (`lib.rs` 173-201); the vault's other stock
  accounts may be among those the keeper gives Jupiter. `OutflowIsOwnersOrOrders`
  and `LimitOrders` say what is kept: only in the fill of an open order of that
  owner, and USDC and the stock that is bought not beyond its terms.
* A signed message is more than its click. The server wants the action as a part
  of it (`auth.ts:27`), so "disarm" also arms; ticker, amount and side come from
  the body, and for five minutes a copy is accepted again. `OrdersWereSigned` says
  what is kept: no orders of a wallet that signed no message with "arm" in it.
* A deposit may be buried: 25 newer signatures of any kind on its account between
  two scans hide it from all later ones (`custody.ts:370`). `DepositsAreCredited`
  excepts it.
* One wallet whose scan always throws keeps the orders of all wallets from being
  tried (`desk.ts` 656-661). `FairSpec` excludes it, see below.
* "Executed has filled" (`index.html:259`): a row is executed, the fill booked and
  the order gone as soon as the swap is sent (`desk.ts:118`, `458-459`); the
  cluster may drop it (`Drop` of `CustodialDesk`).
* "Failed keeps retrying until you disarm" (same line): a fill disarms both sides
  of its ticker (`desk.ts:459`, `ledger.ts:298`), so the failing order of the other
  side is gone and its failed row stays. In vault mode the disarm button stops
  nothing: the order stays open on the chain and is tried at every tick, and
  nothing in `src/` calls `cancelOrderIx`.
* The page keeps a saved failed row beside the executed one of the same order, for
  `mergeArmRecords` drops only pending ones (`index.html` 753-767): what it says of
  retrying is stale from then on. `PendingSettles` and `ExecutedAreListed` state
  what the list does come to.
* A sell's proceeds are booked by `applyFill` and found again by the next scan as
  an incoming transfer (`custody.ts:378`); a transfer may land after its timeout
  and is then not debited (`custody.ts:331`). No document says that books and
  wallets agree, so these are hazards and not properties.
* When the receipt of a booked fill cannot be written the order stays in `arms`
  (`desk.ts` 132-133, 461-463), and a crash before the disarm leaves it there too:
  `SwappedOnce` counts these as the faults after which an order may be swapped
  again.
* `armHistory` shows an expired order as pending (`desk.ts` 612-636), while
  `processVaultArms` skips it and the program refuses it.

## Fairness

Safety needs none. `FairSpec` of `CustodialDesk` has weak fairness of starting a
tick (`setInterval`, `server.ts:214`), weak fairness of a tick's next step (every
await returns; `fetch` has timeouts, the web3.js calls do not, so this is an
assumption about the RPC node), and for each wallet strong fairness of its scan:
`ScanFails` is always possible, but a scan of that wallet that is tried every 8 s
for ever succeeds in the end. This is needed for each wallet, and is an assumption
about the RPC node too: wallets are scanned in a fixed order and a scan that throws
ends the tick, so one that never succeeds would starve those behind it and every
order. Nothing is assumed of swaps, of the cluster, or of requests. `FairKeeperSpec` is the same for
the vault mode, with strong fairness of reading the list of orders
(`processVaultArms`). `FairSpec` of `WebPage` has weak fairness of the page's own
20 s timer (`setInterval` in `index.html`), and for each request in flight of the
server's answer and of the handler's next step: a request that is not lost is
served and answered. Nothing is owed by the user or by the tape.

## Proofs

All for arbitrary users, owners, mints, feeds, tickers, jobs, instruction
arguments, bounds and word sizes. Assumptions, each named in the module that
declares the constants and evaluated by TLC in the runs: powers of ten are powers
of ten (`Pow10Assumption`), u128 is wide enough for the band products
(`ProductAssumption`), prices are below 2^64 / 1e8 dollars so that `e8 as u64` is
exact (`PriceAssumption`), a mint's supply is below `u64::MAX`, so that
`saturating_add` is a sum (`BoundAssumption`), the trades of `FairBandChecks` are
those the machine can price (`MachineAssumption`: with 8 decimals every u64
notional and every price below 10^10 dollars fits), and that sentinels are none of the
values they stand beside and bounds are numbers (`KeyAssumption`,
`LedgerAssumption`, `DeskAssumption`, `KeeperAssumption`).

* `FairBandProofs`: `BuyCheckIsSound` (the check with `min_out` and the full
  notional implies the rational bound for every outcome that pays no more and
  delivers no less), `SellCheckIsSound`, `SellCapIsSound`, `PythIsExact`, over
  lemmas on truncating division.
* `FairBandChecksProofs`: the other direction, for every notional, price, band and
  number of decimals. A fair buy or sell is not refused (`FairBuysPass`,
  `FairSellsPass`, `CapLetsTheNotionalThrough`), because each truncation of the
  program goes the trade's way or stops at a whole unit of price. `BetterBuysPass`
  is monotonicity of the implied price. `CheapBuysPass` and `RichSellsPass` chain
  the truncations of desk and program: the part of the band each of them eats is
  what `Fine` and `Wide` reserve. `OffTapeNeverFills` is the converse: beyond the
  band no `min_out` passes. That trades meet the preconditions is seen in the run
  `fair_trades`, where each property has a mutant that breaks it.
* `MarkfillVaultProofs`: `VaultInvariant` is `Spec => []IInv`, with `IInv` the
  conjunction of `TypeOK`, `NoVaultNoOrders`, `IdNamesOneOrder`, `FillOnce`,
  `FillsAreTimely`, `BuysFillFairly` and `SellsFillFairly`. The last three speak
  of the terms an owner signed, while the program reads the account under the
  id, so they need `IdNamesOneOrder`; that needs ids not to be handed out twice,
  also when a vault is initialised (`NoVaultNoOrders`: nothing was placed
  before); and that a fill appends the first entry of `fills` needs `FillOnce`.
  `VaultOutflow` and `ImplementsLimitOrders` (initial states map to initial
  states, each instruction to its abstract action or a stutter) follow from it, for
  every route: `after` is any function from mints to balances.
  All steps are proved for `VaultStep`, which is `Next` with any argument an
  instruction can carry, and with a vault and its first order in one transaction,
  so that the keeper's steps are covered too. There is a lemma for what a fill
  does (`FillEffect`), one for placing (`PlacesIInv`, `PlacesRefines`), one for
  every step that fills nothing (`QuietStep`), and one per group of instructions.
* `DeskLedgerProofs`: `LedgerInv` of one ledger: it is typed, no book is negative
  (`BooksCover`), `processed` is the tail of the deposits (`Remembers`), so a
  signature is credited twice only with `PROCESSED_CAP` credits in between
  (`Once`), a pending row has an order (`PendingArmed`), and a name has one open
  row, stamps tell an owner's rows apart and no row has `RECORDS_CAP` newer ones
  (`RowsInOrder`). One lemma per function says what it keeps, and what it leaves
  of the rows: one that goes is the one written over, or is `Pushed` by
  `RECORDS_CAP` newer rows (`DroppedIsPushed`), in which case its owner's list is
  full (`FullWhenPushed`) and stays so. The desk, the page and the keeper all
  cite them.
* `CustodialDeskProofs`: `DeskInv` is `LedgerInv` with what a job holds at each
  stage (`JobsInv`, one tick at a time) and the typing of the world. It gives
  `DeskTypeCorrect`, `BooksNeverNegative`, `DepositsCreditedOnce` and
  `PendingRowsHaveOrders`. Two more parts are kept by it: `DebitsInv` (every debit
  is of a landed transfer, no two of the same one, and a transfer that awaits its
  confirmation is not debited yet) gives `DebitsFollowTransfers`; `SwapsInv`
  (every swap of an order is recorded as a fault, or in the hands of the tick, or
  its order is gone, and orders differ in `createdAt`) gives `OrdersSwappedOnce`.
  `LiveRowsStayOpen` is an action property: lemmas named `...RowsHold` say of each
  stretch of a tick or request what it does to the rows of the orders that stay.
  It is about steps because the invariant one would rather state (a live order has
  an open row unless its owner's list is full) holds on small instances only: a
  disarm may shorten a list after a row was pushed out of it.
  Most actions touch none of this; the lemmas named `...Rests` say so once.
* `DeskKeysProofs`: `KeysInv` adds to the types that `desks.json` agrees with the
  ledger, also about the call under way. There are two arguments, one for each
  kind of host: where the disk is kept an address is given out only after its key
  is pinned, and a pin stays (`KeptInLedger`); where it is not, every key there
  ever was is the one derived from the host's secret (`DerivedOnly`).
* `VaultKeeperProofs`: what the keeper read is old when it is used. `KeeperInv`
  says how it can have aged (`IsListed`): the id it names is spent, and the
  account is as it was listed, filled, or closed. A landed submission has filled
  its order for good (`TxsInv`), hence no other submission of it lands
  (`RetriesAreHarmless`); `FillsAreOfTheListed` and `ArmsAreKept` are action
  properties from the same invariant. It rests on `NoVaultNoOrders` and on ids
  that grow, and on `DeskLedgerProofs` for the rows. `FillsAreOnRecord` is not
  inductive: a row is written before its fill lands. `AnswersInv` asks it of every
  submission, landed or not, and that the answer awaited is of the order picked;
  it gives `LandedFillsAreOnRecord`. The case of a full list is needed, since
  `RECORDS_CAP` later rows push that of a fill out.
  `KeeperMovesVault` shows that under `KeeperInv` every step of the keeper is a
  `VaultStep` of the program or leaves the chain alone. So what was proved of the
  program holds of the composition: `KeeperKeepsVault` (`KeeperSpec => []IInv`),
  `KeeperFillsFairly`, `KeeperOutflow` and `KeeperImplementsLimitOrders`.
* `WebPageProofs`: `PageInv` is the types, `LedgerInv` of the server's ledger,
  `OrdersWereSigned`, and that a message on its way to the server was signed by the
  wallet it names, which `signed` remembers unless it is too late (`RequestOK`). The
  server's check that signer and owner are one makes an order that wallet's, for the
  page's requests and for copies alike.

Only model-checked: liveness (`DepositsAreCredited`, `OrdersGetTheirTurn`,
`OpenOrdersAreTried`, `PendingSettles`, `ExecutedAreListed`), which is out of the
prover's reach, as are `ENABLED` and induction over data; and the two statements
the code refutes, `FairIsFilled` and `SavedAddressIsOwn`. Every invariant and every
action property of the passing runs is stated by a theorem.

## Not modelled

* Scripts and deployment: the sweep of custodial wallets, the check of secrets,
  build files. They run once by hand, against wallets no desk is using.
* The Meteora LP plan: one read-only computation over the tape.
* Tape caches and session: feed and trading hours are cached for ever
  (`tape.ts:141`), so a session read on one day decides the tape of the next. In
  the models a tape is any tape, so what they show does not rest on the session.
* `wallets.js` (discovery of browser wallets), the vault mode of the page,
  `withdrawAllVault` and `armHistory`, which build or show and keep nothing.
* The verification level of a Pyth update. The keeper posts partially verified
  ones (`desk.ts` 299-302) while the program's tests use full ones
  (`tests/execute_fill.rs:96`); which of them the Pyth SDK accepts is not in this
  repository, so what `VaultKeeper` shows is about updates the program accepts.
* In the desk: two transfers in one transaction (one hit of the two is credited),
  fills that settle at another amount than quoted, SOL for fees, the creation of
  token accounts, and of receipts all but that writing one may throw.

## Plan

1. Done: `FairBand`, `MarkfillVault`, `LimitOrders`; `DeskLedger`,
   `CustodialDesk`, with runs and proofs.
2. Done: `Tape`, `VaultKeeper`, with runs and proofs of the keeper.
3. Done: `DeskKeys` and `WebPage` (with authentication), with runs and proofs.
4. Done: every invariant and action property of the passing runs as a theorem, and
   the properties of the program carried over to the program with its keeper.
5. Left: an abstract specification of the custodial desk, as `LimitOrders` is of
   the vault, and that the desk implements it; several keepers in one model, each
   with a list of its own; the session of the tape with the feed cache; `lpPlan`;
   the vault mode of the page.
