---------------------------- MODULE CustodialDesk ----------------------------
(***************************************************************************)
(* The custodial live desk: one Node process that holds a wallet per owner *)
(* on chain and a book per owner in the ledger.  A timer runs deskTick,    *)
(* which credits deposits and then tries every armed order; HTTP requests  *)
(* arm, disarm, scan and withdraw.  Both run as jobs that interleave at    *)
(* every await: an action is what a job does from one await to the next.   *)
(* Where such a stretch saves the ledger several times, each save is an    *)
(* action and no other job moves before the stretch is over; the process   *)
(* may crash between the saves.                                            *)
(*                                                                         *)
(* Environment: the tape, read anew by every buildTape; the cluster, which *)
(* lands, refuses or drops what was sent; deposits, and transactions of    *)
(* others that name a wallet's account; the network, which may fail any    *)
(* call, also after the transaction went out; crashes, which lose the jobs *)
(* and keep the ledger.                                                    *)
(*                                                                         *)
(* Data: one share is worth one dollar, except that a sell is sized by a   *)
(* second, possibly lower price.  A swap settles at its quote.             *)
(***************************************************************************)
EXTENDS DeskLedger

CONSTANTS
    Timers,         \* as many as deskTick calls may overlap
    Calls,          \* as many as requests may overlap
    NoOwner, NoOrder, NoAsset,
    Sizes,          \* dollars of a deposit, an order or a withdrawal
    Drifts,         \* how much a price may fall between two tapes
    SCAN_LIMIT,     \* signatures a scan asks for: 25
    MaxOrders, MaxTxs, MaxCrashes,  \* bounds of the model
    MaxCredits      \* no scan begins with so many deposits credited

Jobs == Timers \cup Calls
Verdicts == {"cheap", "inside", "rich", "no-print"}
Delta == [Assets -> Int]
NoChange == [a \in Assets |-> 0]

ASSUME DeskAssumption ==
    /\ Timers \cap Calls = {} /\ NoOwner \notin Owners /\ NoAsset \notin Assets
    /\ NoOrder \notin ArmOrder
    /\ Sizes \subseteq Nat \ {0} /\ Drifts \subseteq Nat
    /\ SCAN_LIMIT \in Nat /\ MaxOrders \in Nat /\ MaxTxs \in Nat /\ MaxCrashes \in Nat
    /\ MaxCredits \in Nat

(* A transaction touching an owner's wallet; order is the createdAt of the *)
(* order it swaps for, or 0.  One that failed is on the chain and has      *)
(* moved nothing; one that lands without a change only names the USDC      *)
(* account.                                                                *)
Tx == [owner : Owners, delta : Delta, order : Nat,
       status : {"sent", "landed", "failed", "dropped"}]

Job == [pc : {"idle", "scan", "hits", "credit", "look", "quote", "swap", "settle",
              "record", "disarm", "sweep", "transfer", "confirm"},
        owner : Owners \cup {NoOwner}, owners : SUBSET Owners, hits : SUBSET Nat,
        orders : SUBSET ArmOrder, order : ArmOrder \cup {NoOrder}, usd : Nat,
        assets : SUBSET Assets, asset : Assets \cup {NoAsset}, delta : Delta,
        all : BOOLEAN, sig : Nat]

Idle == [pc |-> "idle", owner |-> NoOwner, owners |-> {}, hits |-> {},
         orders |-> {}, order |-> NoOrder, usd |-> 0, assets |-> {},
         asset |-> NoAsset, delta |-> NoChange, all |-> FALSE, sig |-> NoSig]

(* How far settling a sent swap came before it stopped: the swap was sent, *)
(* booked by applyFill, or recorded as executed.                           *)
Fault == [order : ArmOrder, sig : Nat, after : {"sent", "booked", "recorded"}]

VARIABLES
    ledger,     \* data/ledger.json
    job,        \* the jobs of the process
    busy,       \* desk.ts: busy
    clock,      \* Date.now(), read by arm for createdAt
    txs,        \* transactions by signature, in the order they went out
    crashes,
    faults      \* history: settlings that stopped half-way

vars == <<ledger, job, busy, clock, txs, crashes, faults>>

TypeOK ==
    /\ ledger \in Ledger
    /\ job \in [Jobs -> Job]
    /\ busy \in BOOLEAN
    /\ clock \in 0..MaxOrders
    /\ txs \in Seq(Tx) /\ Len(txs) <= MaxTxs
    /\ crashes \in 0..MaxCrashes
    /\ busy = (\E j \in Timers : job[j] # Idle)
    /\ faults \subseteq Fault

Init ==
    /\ ledger = empty
    /\ job = [j \in Jobs |-> Idle]
    /\ busy = FALSE
    /\ clock = 0
    /\ txs = <<>>
    /\ crashes = 0
    /\ faults = {}

-----------------------------------------------------------------------------
(* The cluster.                                                            *)

Landed(o) == {i \in DOMAIN txs : txs[i].owner = o /\ txs[i].status = "landed"}

Balance(o, a) == MapThenSumSet(LAMBDA i : txs[i].delta[a], Landed(o))

Funds(o, delta) == \A a \in Assets : Balance(o, a) + delta[a] >= 0

Append1(o, delta, order, status) ==
    txs' = Append(txs, [owner |-> o, delta |-> delta, order |-> order, status |-> status])

Move(a, n) == [NoChange EXCEPT ![a] = n]

UserDeposits(o, n) ==
    /\ Len(txs) < MaxTxs
    /\ Append1(o, Move(Usdc, n), 0, "landed")
    /\ UNCHANGED <<ledger, job, busy, clock, crashes, faults>>

(* Anybody's transaction that names the owner's USDC account.              *)
Touch(o) ==
    /\ Len(txs) < MaxTxs
    /\ Append1(o, NoChange, 0, "landed")
    /\ UNCHANGED <<ledger, job, busy, clock, crashes, faults>>

Land(i) ==
    /\ txs[i].status = "sent"
    /\ Funds(txs[i].owner, txs[i].delta)
    /\ txs' = [txs EXCEPT ![i].status = "landed"]
    /\ UNCHANGED <<ledger, job, busy, clock, crashes, faults>>

Drop(i) ==
    /\ txs[i].status = "sent"
    /\ txs' = [txs EXCEPT ![i].status = "dropped"]
    /\ UNCHANGED <<ledger, job, busy, clock, crashes, faults>>

(* Executed with an error.                                                 *)
Revert(i) ==
    /\ txs[i].status = "sent"
    /\ txs' = [txs EXCEPT ![i].status = "failed"]
    /\ UNCHANGED <<ledger, job, busy, clock, crashes, faults>>

(* Simulated against the owner's funds and broadcast.                      *)
Send(o, delta, order) ==
    /\ Len(txs) < MaxTxs
    /\ Funds(o, delta)
    /\ Append1(o, delta, order, "sent")

(* The signatures of the owner's USDC account, whatever they did.          *)
Mentions(o) ==
    {i \in DOMAIN txs : /\ txs[i].owner = o /\ txs[i].status \in {"landed", "failed"}
                        /\ txs[i].delta[Usdc] # 0 \/ txs[i].delta = NoChange}

(* The newest of them: the limit is applied before any is looked at.       *)
Recent(o) == {i \in Mentions(o) : Cardinality({k \in Mentions(o) : k > i}) < SCAN_LIMIT}

(* Failed ones and those that pay nothing in are passed over.              *)
Incoming(o) == {i \in Recent(o) : txs[i].status = "landed" /\ txs[i].delta[Usdc] > 0}

-----------------------------------------------------------------------------
(* Jobs.                                                                   *)

(* A job that has just saved the ledger and runs on.                       *)
Running(j) == job[j].pc \in {"credit", "record", "disarm"}

Loop(j) == \A k \in Jobs \ {j} : ~Running(k)

(* Mutant: busy is reset at the end of the try block, which a failed scan  *)
(* does not reach.                                                         *)
GotoNoFinally(j, next) ==
    /\ job' = [job EXCEPT ![j] = next]
    /\ busy' = (busy /\ ~(j \in Timers /\ next = Idle /\ job[j].pc # "scan"))

(* A tick that goes idle has run its finally block.                        *)
Goto(j, next) ==
    /\ job' = [job EXCEPT ![j] = next]
    /\ busy' = (busy /\ ~(j \in Timers /\ next = Idle))

TakeOrder(orders) ==
    IF orders = {} THEN Idle
    ELSE LET first == CHOOSE a \in orders : \A b \in orders : a.createdAt <= b.createdAt
         IN  [Idle EXCEPT !.pc = "look", !.orders = orders \ {first}, !.order = first]

NextOrder(j) == Goto(j, TakeOrder(job[j].orders))

(* Mutant: the order is not tried in a try block of its own.               *)
FailedEndsTick(j) ==
    /\ ledger' = recordArmResult(ledger, job[j].order, "failed", NoSig)
    /\ Goto(j, Idle)

(* The catch block of processArms.                                         *)
Failed(j) ==
    /\ ledger' = recordArmResult(ledger, job[j].order, "failed", NoSig)
    /\ NextOrder(j)

Stopped(j, sig, after) ==
    faults' = faults \cup {[order |-> job[j].order, sig |-> sig, after |-> after]}

(* Mutant: no busy guard.                                                  *)
OverlappingTick(j) ==
    /\ job[j] = Idle
    /\ job' = [job EXCEPT ![j] = [Idle EXCEPT !.pc = "scan", !.owners = Owners]]
    /\ busy' = TRUE
    /\ UNCHANGED <<ledger, clock, txs, crashes, faults>>

deskTick(j) ==
    /\ ~busy
    /\ job[j] = Idle
    /\ job' = [job EXCEPT ![j] = [Idle EXCEPT !.pc = "scan", !.owners = Owners]]
    /\ busy' = TRUE
    /\ UNCHANGED <<ledger, clock, txs, crashes, faults>>

-----------------------------------------------------------------------------
(* ingestDeposits, called by the tick and by /api/desk/scan.               *)

scan(j, owners) ==
    /\ job[j] = Idle
    /\ Goto(j, [Idle EXCEPT !.pc = "scan", !.owners = owners])
    /\ UNCHANGED <<ledger, clock, txs, crashes, faults>>

(* Owners are scanned in the order of the ledger, which does not change.   *)
FirstOwner(owners) == CHOOSE o \in owners : TRUE

ScanRead(j, o) ==
    /\ job[j].pc = "scan"
    /\ job[j].owners # {} /\ o = FirstOwner(job[j].owners)
    /\ Len(ledger.deposits) < MaxCredits
    /\ Goto(j, [job[j] EXCEPT !.pc = "hits", !.owner = o, !.owners = @ \ {o},
                              !.hits = Incoming(o)])
    /\ UNCHANGED <<ledger, clock, txs, crashes, faults>>

(* scanUsdcDeposits throws: the tick or the request is over.               *)
ScanFails(j) ==
    /\ job[j].pc = "scan"
    /\ Goto(j, Idle)
    /\ UNCHANGED <<ledger, clock, txs, crashes, faults>>

(* Mutant: the scans end at the first signature they have seen.            *)
StopAtSeen(j, rest, l) ==
    LET seen == \E h \in job[j].hits \ rest : seenSig(ledger, h)
    IN  IF rest # {} /\ ~seen
          THEN [job[j] EXCEPT !.pc = "credit", !.hits = rest]
        ELSE IF job[j].owners # {} /\ ~seen
          THEN [Idle EXCEPT !.pc = "scan", !.owners = job[j].owners]
        ELSE IF j \in Timers THEN TakeOrder(l.arms) ELSE Idle

(* After the last hit of the last owner a tick takes its list of arms.     *)
AfterCredit(j, rest, l) ==
    IF rest # {}
      THEN [job[j] EXCEPT !.pc = "credit", !.hits = rest]
    ELSE IF job[j].owners # {}
      THEN [Idle EXCEPT !.pc = "scan", !.owners = job[j].owners]
    ELSE IF j \in Timers THEN TakeOrder(l.arms) ELSE Idle

NothingFound(j) ==
    /\ job[j].pc = "hits" /\ job[j].hits = {}
    /\ UNCHANGED ledger
    /\ Goto(j, AfterCredit(j, {}, ledger))

(* The newest signature first, one save each.                              *)
CreditHit(j, h) ==
    /\ job[j].pc \in {"hits", "credit"}
    /\ \A k \in job[j].hits : k <= h
    /\ ledger' = creditDeposit(ledger, job[j].owner, txs[h].delta[Usdc], h)
    /\ Goto(j, AfterCredit(j, job[j].hits \ {h}, ledger'))

ScanCredit(j) ==
    /\ NothingFound(j) \/ \E h \in job[j].hits : CreditHit(j, h)
    /\ UNCHANGED <<clock, txs, crashes, faults>>

-----------------------------------------------------------------------------
(* processArms: one order of the tick's list after another.                *)

(* buyFair or buyCheap, sellRich.                                          *)
Ready(side, verdict) ==
    IF side = "buy" THEN verdict \in {"inside", "cheap"} ELSE verdict = "rich"

(* A sell is cut to the shares on the book.                                *)
SwapSize(a) ==
    LET shares == ledger.book[a.owner][a.ticker]
    IN  IF a.side = "sell" /\ shares < a.usd THEN shares ELSE a.usd

Waits(j) ==
    /\ job[j].pc = "look"
    /\ \E v \in Verdicts : ~Ready(job[j].order.side, v)
    /\ NextOrder(j)
    /\ UNCHANGED <<ledger, clock, txs, crashes, faults>>

StartSwap(j) ==
    /\ job[j].pc = "look"
    /\ \E v \in Verdicts : Ready(job[j].order.side, v)
    /\ SwapSize(job[j].order) >= 1
    /\ Goto(j, [job[j] EXCEPT !.pc = "quote", !.usd = SwapSize(job[j].order)])
    /\ UNCHANGED <<ledger, clock, txs, crashes, faults>>

(* hotSwap reads the tape again.                                           *)
Quote(j) ==
    /\ job[j].pc = "quote"
    /\ \E v \in Verdicts : Ready(job[j].order.side, v)
    /\ \E drift \in Drifts :
          LET a == job[j].order
              n == job[j].usd
              d == IF a.side = "buy"
                   THEN [NoChange EXCEPT ![Usdc] = -n, ![a.ticker] = n]
                   ELSE [NoChange EXCEPT ![Usdc] = n, ![a.ticker] = -(n + drift)]
          IN  Goto(j, [job[j] EXCEPT !.pc = "swap", !.delta = d])
    /\ UNCHANGED <<ledger, clock, txs, crashes, faults>>

(* The tape or Jupiter throws, the sell is too small, the second tape does *)
(* not allow the side, or the transaction is refused.                      *)
SwapFails(j) ==
    /\ job[j].pc \in {"look", "quote", "swap"}
    /\ Failed(j)
    /\ UNCHANGED <<clock, txs, crashes, faults>>

SwapSent(j) ==
    /\ job[j].pc = "swap"
    /\ Send(job[j].order.owner, job[j].delta, job[j].order.createdAt)
    /\ Goto(j, [job[j] EXCEPT !.pc = "settle", !.sig = Len(txs')])
    /\ UNCHANGED <<ledger, clock, crashes, faults>>

(* The transaction went out and the call that sent it failed.              *)
AnswerLost(j) ==
    /\ job[j].pc = "swap"
    /\ Send(job[j].order.owner, job[j].delta, job[j].order.createdAt)
    /\ Failed(j)
    /\ Stopped(j, Len(txs'), "sent")
    /\ UNCHANGED <<clock, crashes>>

(* hotSwap books the fill without waiting for the transaction to land.     *)
Settle(j) ==
    /\ job[j].pc = "settle"
    /\ Covers(ledger, job[j].order.owner, job[j].delta)
    /\ ledger' = applyFill(ledger, job[j].order.owner, job[j].delta, job[j].sig)
    /\ Goto(j, [job[j] EXCEPT !.pc = "record"])
    /\ UNCHANGED <<clock, txs, crashes, faults>>

(* applyFill throws.                                                       *)
SettleFails(j) ==
    /\ job[j].pc = "settle"
    /\ ~Covers(ledger, job[j].order.owner, job[j].delta)
    /\ Failed(j)
    /\ Stopped(j, job[j].sig, "sent")
    /\ UNCHANGED <<clock, txs, crashes>>

(* The receipt cannot be written.                                          *)
ReceiptFails(j) ==
    /\ job[j].pc = "record"
    /\ Failed(j)
    /\ Stopped(j, job[j].sig, "booked")
    /\ UNCHANGED <<clock, txs, crashes>>

Record(j) ==
    /\ job[j].pc = "record"
    /\ ledger' = recordArmResult(ledger, job[j].order, "executed", job[j].sig)
    /\ Goto(j, [job[j] EXCEPT !.pc = "disarm"])
    /\ UNCHANGED <<clock, txs, crashes, faults>>

Disarm(j) ==
    /\ job[j].pc = "disarm"
    /\ ledger' = disarm(ledger, job[j].order.owner, {job[j].order.ticker})
    /\ NextOrder(j)
    /\ UNCHANGED <<clock, txs, crashes, faults>>

-----------------------------------------------------------------------------
(* Requests of the owner.                                                  *)

arm(o, t, side, usd) ==
    /\ clock < MaxOrders
    /\ IF side = "buy" THEN ledger.book[o][Usdc] >= usd ELSE ledger.book[o][t] > 0
    /\ clock' = clock + 1
    /\ ledger' = setArm(ledger, [owner |-> o, ticker |-> t, side |-> side, usd |-> usd,
                                 createdAt |-> clock'])
    /\ UNCHANGED <<job, busy, txs, crashes, faults>>

DisarmRequest(o, tickers) ==
    /\ ledger' = disarm(ledger, o, tickers)
    /\ UNCHANGED <<job, busy, clock, txs, crashes, faults>>

withdraw(j, o, a, n) ==
    /\ job[j] = Idle
    /\ CanDebit(ledger, o, a, n)
    /\ Goto(j, [Idle EXCEPT !.pc = "transfer", !.owner = o, !.asset = a, !.delta = Move(a, -n)])
    /\ UNCHANGED <<ledger, clock, txs, crashes, faults>>

withdrawAll(j, o) ==
    LET held == {a \in Assets : Balance(o, a) > 0}
    IN  /\ job[j] = Idle
        /\ held # {}
        /\ Goto(j, [Idle EXCEPT !.pc = "sweep", !.owner = o, !.assets = held, !.all = TRUE])
        /\ UNCHANGED <<ledger, clock, txs, crashes, faults>>

AfterTransfer(j) ==
    IF job[j].assets = {} THEN Idle
    ELSE [Idle EXCEPT !.pc = "sweep", !.owner = job[j].owner,
                      !.assets = job[j].assets, !.all = TRUE]

(* sendFullBalance reads the balance it will send, USDC first; a token     *)
(* account never holds less than nothing.                                  *)
SweepRead(j) ==
    /\ job[j].pc = "sweep"
    /\ \E a \in job[j].assets :
          LET n    == Balance(job[j].owner, a)
              next == [job[j] EXCEPT !.assets = @ \ {a}]
          IN  /\ n \in Nat
              /\ Usdc \in job[j].assets => a = Usdc
              /\ Goto(j, IF n > 0
                         THEN [next EXCEPT !.pc = "transfer", !.asset = a, !.delta = Move(a, -n)]
                         ELSE IF next.assets = {} THEN Idle ELSE next)
    /\ UNCHANGED <<ledger, clock, txs, crashes, faults>>

sendTokens(j) ==
    /\ job[j].pc = "transfer"
    /\ Send(job[j].owner, job[j].delta, 0)
    /\ Goto(j, [job[j] EXCEPT !.pc = "confirm", !.sig = Len(txs')])
    /\ UNCHANGED <<ledger, clock, crashes, faults>>

(* withdraw debits what was asked for, withdrawAll all of the book.        *)
Owed(j) ==
    IF job[j].all THEN ledger.book[job[j].owner][job[j].asset]
    ELSE -job[j].delta[job[j].asset]

(* Mutant: the transfer is sent and not confirmed.                         *)
Unconfirmed(j) ==
    /\ job[j].pc = "confirm"
    /\ ledger' = IF Owed(j) > 0 /\ CanDebit(ledger, job[j].owner, job[j].asset, Owed(j))
                 THEN debitWithdraw(ledger, job[j].owner, job[j].asset, Owed(j), job[j].sig)
                 ELSE ledger
    /\ Goto(j, AfterTransfer(j))
    /\ UNCHANGED <<clock, txs, crashes, faults>>

(* Without the amount on the book debitWithdraw throws after the transfer. *)
Confirm(j) ==
    /\ job[j].pc = "confirm"
    /\ txs[job[j].sig].status = "landed"
    /\ ledger' = IF Owed(j) > 0 /\ CanDebit(ledger, job[j].owner, job[j].asset, Owed(j))
                 THEN debitWithdraw(ledger, job[j].owner, job[j].asset, Owed(j), job[j].sig)
                 ELSE ledger
    /\ Goto(j, AfterTransfer(j))
    /\ UNCHANGED <<clock, txs, crashes, faults>>

(* Not sent, or no confirmation in time.                                   *)
TransferFails(j) ==
    /\ job[j].pc \in {"transfer", "confirm"}
    /\ Goto(j, AfterTransfer(j))
    /\ UNCHANGED <<ledger, clock, txs, crashes, faults>>

-----------------------------------------------------------------------------
Stages == [settle |-> "sent", record |-> "booked", disarm |-> "recorded"]

(* The process dies and is started again.                                  *)
Crash ==
    /\ crashes < MaxCrashes
    /\ crashes' = crashes + 1
    /\ job' = [j \in Jobs |-> Idle]
    /\ busy' = FALSE
    /\ faults' = faults \cup {[order |-> job[j].order, sig |-> job[j].sig,
                            after |-> Stages[job[j].pc]] :
                                j \in {k \in Jobs : job[k].pc \in DOMAIN Stages}}
    /\ UNCHANGED <<ledger, clock, txs>>

ScanStep(j) == (\E o \in Owners : ScanRead(j, o)) \/ ScanFails(j) \/ ScanCredit(j)

OrderStep(j) ==
    \/ Waits(j) \/ StartSwap(j) \/ Quote(j) \/ SwapFails(j) \/ SwapSent(j) \/ AnswerLost(j)
    \/ Settle(j) \/ SettleFails(j) \/ ReceiptFails(j) \/ Record(j) \/ Disarm(j)

TransferStep(j) == SweepRead(j) \/ sendTokens(j) \/ Confirm(j) \/ TransferFails(j)

TickStep(j) == Loop(j) /\ (ScanStep(j) \/ OrderStep(j))

CallStep(j) == Loop(j) /\ (ScanStep(j) \/ TransferStep(j))

Request(o) ==
    \/ \E t \in Tickers, side \in ArmSides, usd \in Sizes : arm(o, t, side, usd)
    \/ \E tickers \in {{t} : t \in Tickers} \cup {Tickers} : DisarmRequest(o, tickers)
    \/ \E j \in Calls :
          \/ \E owners \in {{o}, Owners} : scan(j, owners)
          \/ \E a \in Assets, n \in Sizes : withdraw(j, o, a, n)
          \/ withdrawAll(j, o)

ClusterStep ==
    \/ \E o \in Owners : Touch(o) \/ \E n \in Sizes : UserDeposits(o, n)
    \/ \E i \in DOMAIN txs : Land(i) \/ Drop(i) \/ Revert(i)

Next ==
    \/ \E j \in Timers : (\A k \in Jobs : ~Running(k)) /\ deskTick(j)
    \/ \E j \in Timers : TickStep(j)
    \/ \E j \in Calls : CallStep(j)
    \/ \E o \in Owners : (\A k \in Jobs : ~Running(k)) /\ Request(o)
    \/ ClusterStep
    \/ Crash

Spec == Init /\ [][Next]_vars

(* The timer fires again and again, the calls a tick awaits return, and    *)
(* for every wallet a scan that is tried forever succeeds in the end: one  *)
(* wallet whose scan always throws would end every tick before any order.  *)
FairSpec ==
    /\ Spec
    /\ WF_vars(\E j \in Timers : deskTick(j))
    /\ \A j \in Timers : WF_vars(TickStep(j)) /\ \A o \in Owners : SF_vars(ScanRead(j, o))

-----------------------------------------------------------------------------
(* The book.                                                               *)

(* Whatever fills and withdrawals do while another one awaits the network, *)
(* no balance on the book falls below zero (applyFill and debitWithdraw    *)
(* check again what arm and withdraw checked before they waited).          *)
NoOverdraft == \A o \in Owners, a \in Assets : ledger.book[o][a] >= 0

(* A signature is credited once, however many scans see it at the same     *)
(* time and after any crash, as long as the ledger remembers it: credited  *)
(* twice, there are PROCESSED_CAP other credits in between.                *)
CreditedOnce ==
    \A i, k \in DOMAIN ledger.deposits :
        (i < k /\ ledger.deposits[i].sig = ledger.deposits[k].sig) => k - i > PROCESSED_CAP

(* What is debited for a withdrawal has left: its transaction landed, paid *)
(* that asset to the owner, and was not debited before (withdraw and       *)
(* withdrawAll await the confirmation).                                    *)
DebitsHaveLanded ==
    \A k \in DOMAIN ledger.withdrawals :
        LET w == ledger.withdrawals[k]
        IN  /\ w.sig \in Landed(w.owner)
            /\ txs[w.sig].delta[w.asset] < 0 /\ txs[w.sig].order = 0
            /\ \A i \in 1..(k - 1) : ledger.withdrawals[i].sig # w.sig

Buried(i) ==
    /\ i \in DOMAIN txs
    /\ Cardinality({k \in Mentions(txs[i].owner) : k > i}) >= SCAN_LIMIT

(* A deposit is credited in the end, whatever scans failed and crashes     *)
(* came between, or SCAN_LIMIT newer signatures have named the account     *)
(* before a scan read it, failed ones and those of others included.        *)
DepositsAreCredited ==
    \A i \in 1..MaxTxs :
        (i \in DOMAIN txs /\ i \in Incoming(txs[i].owner))
            ~> (seenSig(ledger, i) \/ Buried(i))

-----------------------------------------------------------------------------
(* The armed orders.                                                       *)

SwapsFor(a) == {i \in DOMAIN txs : txs[i].order = a}

(* Ticks, re-arming and disarming never make the desk swap twice for one   *)
(* order: every swap but the last is one whose settling stopped half-way   *)
(* (lost answer, refused booking, unwritten receipt, crash).               *)
SwappedOnce ==
    \A a \in 1..clock : \A i, k \in SwapsFor(a) :
        i < k => \E f \in faults : f.sig = i /\ f.order.createdAt = a

(* The owner sees an order he arms as pending, and then as pending or      *)
(* failed for as long as it is live, whatever is recorded for his other    *)
(* orders: its row is taken only by the fill of its name, which removes    *)
(* the order next, or by RECORDS_CAP newer rows (ledger.ts 148-242,        *)
(* desk.ts 457-459).                                                       *)
LiveRowsStay ==
    [][\A a \in ledger'.arms :
          IF a \notin ledger.arms THEN Open(ledger'.armRecords, a) # {}
          ELSE \A r \in Open(ledger.armRecords, a) :
                  \/ Open(ledger'.armRecords, a) # {}
                  \/ \E j \in Timers : job'[j].pc = "disarm" /\ SameName(job'[j].order, a)
                  \/ Cardinality(Newer(ledger'.armRecords, r)) >= RECORDS_CAP]_vars

(* "Pending is waiting on the tape": a pending row has a live order of its *)
(* name and size, through disarms, fills of the other side and crashes.    *)
PendingIsWaiting ==
    \A r \in ledger.armRecords : r.status = "pending" =>
        \E a \in ledger.arms : SameName(a, r) /\ a.usd = r.usd

(* An order is known by its createdAt.                                     *)
IsLive(c) == \E a \in ledger.arms : a.createdAt = c

(* A live order gets its turn in a tick in the end, though scans of any    *)
(* wallet may fail now and then and the orders before it any time: an      *)
(* order that fails does not end the loop (desk.ts 440-470, 651-659).      *)
OrdersGetTheirTurn ==
    \A c \in 1..MaxOrders :
        IsLive(c) ~> (~IsLive(c)
                      \/ \E j \in Timers : job[j].order # NoOrder /\ job[j].order.createdAt = c)
=============================================================================
