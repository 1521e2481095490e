------------------------ MODULE CustodialDeskProofs ------------------------
EXTENDS CustodialDesk, DeskLedgerProofs

(***************************************************************************)
(* DeskInv is the inductive invariant: the ledger is in order, each job    *)
(* holds what its stage needs, and one tick runs at a time.                *)
(***************************************************************************)
OrderStages == {"look", "quote", "swap", "settle", "record", "disarm"}

(* What job j holds when it is b and the transactions are t.               *)
JobOK(j, b, t) ==
    /\ b \in Job
    /\ b.pc \in {"hits", "credit"} =>
          b.owner \in Owners /\ \A h \in b.hits : h \in DOMAIN t /\ t[h].delta[Usdc] > 0
    /\ b.pc \in OrderStages => j \in Timers /\ b.order \in ArmOrder \ b.orders
    /\ b.pc \in {"sweep", "transfer", "confirm"} => j \in Calls /\ b.owner \in Owners
    /\ b.pc \in {"transfer", "confirm"} => b.asset \in Assets /\ b.delta[b.asset] < 0
    /\ b.pc = "confirm" =>
          /\ b.sig \in DOMAIN t /\ t[b.sig].order = 0
          /\ t[b.sig].owner = b.owner /\ t[b.sig].delta = b.delta

JobsInv ==
    /\ job \in [Jobs -> Job]
    /\ \A j \in Jobs : JobOK(j, job[j], txs)
    /\ busy \in BOOLEAN /\ busy = (\E j \in Timers : job[j] # Idle)
    /\ \A j, k \in Timers : (job[j] # Idle /\ job[k] # Idle) => j = k

WorldInv ==
    /\ clock \in 0..MaxOrders
    /\ txs \in Seq(Tx) /\ Len(txs) <= MaxTxs
    /\ crashes \in 0..MaxCrashes
    /\ faults \subseteq Fault

DeskInv == LedgerInv(ledger) /\ JobsInv /\ WorldInv

(* Transactions are added, and a landed one stays landed.                  *)
Grows(t, u) ==
    \A i \in DOMAIN t :
        /\ i \in DOMAIN u
        /\ u[i].owner = t[i].owner /\ u[i].delta = t[i].delta /\ u[i].order = t[i].order
        /\ t[i].status = "landed" => u[i].status = "landed"

-----------------------------------------------------------------------------
(* Deltas, assets and the idle job are what they should be.                *)
LEMMA NoChangeIsDelta == NoChange \in Delta
  BY DEF NoChange, Delta

LEMMA UsdcIsAsset == Usdc \in Assets
  BY DEF Assets

LEMMA IdleOK == ASSUME NEW j, NEW t PROVE JobOK(j, Idle, t)
  BY NoChangeIsDelta DEF JobOK, Idle, Job, NoSig, OrderStages

(* The order that is taken is one of the list and leaves it.               *)
LEMMA TakeOrderOK ==
    ASSUME NEW j \in Timers, NEW orders \in SUBSET ArmOrder, NEW t
    PROVE  /\ JobOK(j, TakeOrder(orders), t)
           /\ TakeOrder(orders).orders \subseteq orders
           /\ TakeOrder(orders).pc \in {"idle", "look"}
           /\ TakeOrder(orders).pc = "look" => TakeOrder(orders).order \in orders
<1>1. CASE orders = {}
  BY <1>1, IdleOK DEF TakeOrder, Idle
<1>2. CASE orders # {}
  <2> DEFINE stamps == {a.createdAt : a \in orders}
  <2>1. stamps \in SUBSET Nat /\ stamps # {}
    BY <1>2 DEF ArmOrder
  <2>2. PICK n \in stamps : \A m \in stamps : n <= m
    BY <2>1, LeastNat
  <2>3. PICK a \in orders : a.createdAt = n
    BY <2>2
  <2>4. \A b \in orders : a.createdAt <= b.createdAt
    BY <2>2, <2>3
  <2>5. PICK first \in orders :
           first = CHOOSE x \in orders : \A b \in orders : x.createdAt <= b.createdAt
    BY <2>3, <2>4
  <2>6. TakeOrder(orders) = [Idle EXCEPT !.pc = "look", !.orders = orders \ {first},
                                         !.order = first]
    BY <1>2, <2>5 DEF TakeOrder
  <2>7. first \in ArmOrder /\ orders \ {first} \in SUBSET ArmOrder
    BY <2>5
  <2> HIDE DEF stamps
  <2>8. TakeOrder(orders) =
           [pc |-> "look", owner |-> NoOwner, owners |-> {}, hits |-> {},
            orders |-> orders \ {first}, order |-> first, usd |-> 0, assets |-> {},
            asset |-> NoAsset, delta |-> NoChange, all |-> FALSE, sig |-> NoSig]
    BY <2>6 DEF Idle
  <2>9. QED
    BY <2>7, <2>8, NoChangeIsDelta DEF JobOK, Job, NoSig, OrderStages
<1>3. QED
  BY <1>1, <1>2

LEMMA JobStays ==
    ASSUME NEW j, NEW b, NEW t, NEW u, JobOK(j, b, t), Grows(t, u)
    PROVE  JobOK(j, b, u)
<1>1. b.pc \in {"hits", "credit"} => \A h \in b.hits : h \in DOMAIN u /\ u[h].delta[Usdc] > 0
  BY DEF JobOK, Grows
<1>2. b.pc = "confirm" =>
          /\ b.sig \in DOMAIN u /\ u[b.sig].order = 0
          /\ u[b.sig].owner = b.owner /\ u[b.sig].delta = b.delta
  BY DEF JobOK, Grows
<1>3. QED
  BY <1>1, <1>2 DEF JobOK

LEMMA GrowsNot == ASSUME NEW t PROVE Grows(t, t)
  BY DEF Grows

(* A job that runs on to its next await.                                   *)
LEMMA GotoKeeps ==
    ASSUME JobsInv, NEW j \in Jobs, NEW next, Goto(j, next), JobOK(j, next, txs'),
           Grows(txs, txs'), j \in Timers => job[j] # Idle
    PROVE  JobsInv'
<1>1. job' = [job EXCEPT ![j] = next] /\ next \in Job /\ job \in [Jobs -> Job]
  BY DEF Goto, JobOK, JobsInv
<1>2. job' \in [Jobs -> Job] /\ job'[j] = next /\ \A k \in Jobs \ {j} : job'[k] = job[k]
  BY <1>1
<1>3. \A k \in Jobs : JobOK(k, job'[k], txs')
  BY <1>2, JobStays DEF JobsInv
<1>4. \A k, i \in Timers : (job'[k] # Idle /\ job'[i] # Idle) => k = i
  BY <1>2 DEF JobsInv, Jobs
<1>5. busy' \in BOOLEAN /\ busy' = (\E k \in Timers : job'[k] # Idle)
  <2>1. CASE j \in Timers /\ next = Idle
    BY <1>2, <2>1 DEF JobsInv, Goto, Jobs
  <2>2. CASE j \in Timers /\ next # Idle
    BY <1>2, <2>2 DEF JobsInv, Goto, Jobs
  <2>3. CASE j \notin Timers
    BY <1>2, <2>3 DEF JobsInv, Goto, Jobs
  <2>4. QED
    BY <2>1, <2>2, <2>3
<1>6. QED
  BY <1>2, <1>3, <1>4, <1>5 DEF JobsInv

(* A transaction that goes out.                                            *)
LEMMA AppendGrows ==
    ASSUME WorldInv, NEW o \in Owners, NEW delta \in Delta, NEW order \in Nat,
           NEW status \in {"sent", "landed"}, Len(txs) < MaxTxs, Append1(o, delta, order, status)
    PROVE  /\ txs' \in Seq(Tx) /\ Len(txs') <= MaxTxs /\ Len(txs') = Len(txs) + 1
           /\ Len(txs) \in Nat /\ DOMAIN txs = 1..Len(txs) /\ DOMAIN txs' = 1..Len(txs')
           /\ Grows(txs, txs')
           /\ txs'[Len(txs')] = [owner |-> o, delta |-> delta, order |-> order,
                                 status |-> status]
           /\ \A i \in DOMAIN txs : txs'[i] = txs[i]
<1>1. PICK tx \in Tx : tx = [owner |-> o, delta |-> delta, order |-> order, status |-> status]
  BY DEF Tx
<1>2. txs \in Seq(Tx) /\ txs' = Append(txs, tx) /\ MaxTxs \in Nat
  BY <1>1, DeskAssumption DEF WorldInv, Append1
<1>3. /\ txs' \in Seq(Tx) /\ Len(txs') = Len(txs) + 1 /\ txs'[Len(txs) + 1] = tx
      /\ \A i \in 1..Len(txs) : txs'[i] = txs[i]
      /\ Len(txs) \in Nat /\ DOMAIN txs = 1..Len(txs) /\ DOMAIN txs' = 1..Len(txs')
  BY <1>2, AppendProperties, LenProperties
<1>4. Grows(txs, txs')
  BY <1>3 DEF Grows
<1>5. QED
  BY <1>1, <1>2, <1>3, <1>4

(* One that lands, fails or is dropped.                                    *)
LEMMA StatusGrows ==
    ASSUME WorldInv, NEW i \in DOMAIN txs, NEW status \in {"landed", "failed", "dropped"},
           txs[i].status = "sent", txs' = [txs EXCEPT ![i].status = status]
    PROVE  /\ txs' \in Seq(Tx) /\ Len(txs') <= MaxTxs /\ DOMAIN txs' = DOMAIN txs
           /\ Grows(txs, txs') /\ \A k \in DOMAIN txs : txs'[k].order = txs[k].order
<1>1. txs \in [1..Len(txs) -> Tx] /\ Len(txs) \in Nat /\ Len(txs) <= MaxTxs
      /\ DOMAIN txs = 1..Len(txs)
  BY LenProperties DEF WorldInv
<1>2. txs' \in [1..Len(txs) -> Tx]
  BY <1>1 DEF Tx
<1>3. \A k \in DOMAIN txs : k # i => txs'[k] = txs[k]
  BY <1>1
<1>4. txs'[i] = [txs[i] EXCEPT !.status = status] /\ txs[i] \in Tx
  BY <1>1
<1>5. Grows(txs, txs') /\ \A k \in DOMAIN txs : txs'[k].order = txs[k].order
  BY <1>1, <1>2, <1>3, <1>4 DEF Grows, Tx
<1>6. txs' \in Seq(Tx) /\ Len(txs') = Len(txs)
  BY <1>1, <1>2, LenProperties, SeqDef
<1>7. QED
  BY <1>1, <1>2, <1>5, <1>6

-----------------------------------------------------------------------------
(* Each action keeps DeskInv.                                              *)

(* A step that leaves the cluster alone.                                   *)
LEMMA TxsSame ==
    ASSUME DeskInv, UNCHANGED <<clock, txs, crashes, faults>>
    PROVE  WorldInv' /\ Grows(txs, txs')
  BY GrowsNot DEF DeskInv, WorldInv

LEMMA ClusterKeeps ==
    ASSUME DeskInv, ClusterStep
    PROVE  DeskInv'
<1>1. ASSUME UNCHANGED <<ledger, job, busy, clock, crashes, faults>>,
             txs' \in Seq(Tx), Len(txs') <= MaxTxs, Grows(txs, txs')
      PROVE  DeskInv'
  BY <1>1, JobStays DEF DeskInv, JobsInv, WorldInv
<1>2. ASSUME NEW o \in Owners, NEW n \in Sizes, UserDeposits(o, n)
      PROVE  DeskInv'
  <2>1. Move(Usdc, n) \in Delta
    BY DeskAssumption, NoChangeIsDelta, UsdcIsAsset DEF Move, Delta
  <2>2. QED
    BY <1>1, <1>2, <2>1, AppendGrows DEF UserDeposits, DeskInv
<1>3. ASSUME NEW o \in Owners, Touch(o)
      PROVE  DeskInv'
  BY <1>1, <1>3, AppendGrows, NoChangeIsDelta DEF Touch, DeskInv
<1>4. ASSUME NEW i \in DOMAIN txs, Land(i) \/ Drop(i) \/ Revert(i)
      PROVE  DeskInv'
  BY <1>1, <1>4, StatusGrows DEF Land, Drop, Revert, DeskInv
<1>5. QED
  BY <1>2, <1>3, <1>4 DEF ClusterStep

LEMMA StageNotIdle == ASSUME NEW b, b.pc # "idle" PROVE b # Idle
  BY DEF Idle

(* A job that is about to scan.                                            *)
LEMMA ScanOK ==
    ASSUME NEW j, NEW owners \in SUBSET Owners, NEW t
    PROVE  \E next :
              /\ next = [Idle EXCEPT !.pc = "scan", !.owners = owners]
              /\ next # Idle /\ JobOK(j, next, t) /\ next.pc = "scan" /\ next.orders = {}
<1>1. PICK next : next = [Idle EXCEPT !.pc = "scan", !.owners = owners]
  OBVIOUS
<1>2. next = [pc |-> "scan", owner |-> NoOwner, owners |-> owners, hits |-> {},
              orders |-> {}, order |-> NoOrder, usd |-> 0, assets |-> {},
              asset |-> NoAsset, delta |-> NoChange, all |-> FALSE, sig |-> NoSig]
  BY <1>1 DEF Idle
<1>3. next # Idle
  BY <1>2, StageNotIdle
<1>4. JobOK(j, next, t)
  BY <1>2, NoChangeIsDelta DEF JobOK, Job, NoSig, OrderStages
<1>5. next.pc = "scan" /\ next.orders = {}
  BY <1>2
<1>6. QED
  BY <1>1, <1>3, <1>4, <1>5, Zenon

LEMMA TickStarts ==
    ASSUME DeskInv, NEW j \in Timers, deskTick(j)
    PROVE  DeskInv'
<1>1. PICK next : next = [Idle EXCEPT !.pc = "scan", !.owners = Owners]
                  /\ next # Idle /\ JobOK(j, next, txs)
  BY ScanOK
<1>2. /\ job' = [job EXCEPT ![j] = next] /\ busy' = TRUE
      /\ UNCHANGED <<ledger, clock, txs, crashes, faults>>
      /\ \A k \in Timers : job[k] = Idle
  BY <1>1 DEF deskTick, DeskInv, JobsInv
<1>3. /\ job' \in [Jobs -> Job] /\ job'[j] = next
      /\ \A k \in Jobs \ {j} : job'[k] = job[k]
  BY <1>1, <1>2 DEF DeskInv, JobsInv, JobOK, Jobs
<1>4. JobsInv'
  BY <1>1, <1>2, <1>3 DEF DeskInv, JobsInv, Jobs
<1>5. QED
  BY <1>2, <1>4, TxsSame DEF DeskInv

(* A job that only moves on, whatever the ledger becomes.                  *)
LEMMA MoveKeeps ==
    ASSUME DeskInv, NEW j \in Jobs, NEW next, Goto(j, next), JobOK(j, next, txs'),
           j \in Timers => job[j] # Idle, LedgerInv(ledger'), WorldInv', Grows(txs, txs')
    PROVE  DeskInv'
  BY GotoKeeps DEF DeskInv

(* A request is no timer.                                                  *)
LEMMA Apart == ASSUME NEW j \in Calls PROVE j \in Jobs /\ j \notin Timers
  BY DeskAssumption DEF Jobs

(* A transfer that was found is a signature with an amount.                *)
LEMMA HitAmount ==
    ASSUME DeskInv, NEW j \in Jobs, job[j].pc \in {"hits", "credit"}, NEW h \in job[j].hits
    PROVE  job[j].owner \in Owners /\ h \in Nat /\ txs[h].delta[Usdc] \in Nat
<1>1. job[j].owner \in Owners /\ h \in DOMAIN txs /\ txs[h].delta[Usdc] > 0
  BY DEF DeskInv, JobsInv, JobOK
<1>2. txs[h] \in Tx /\ h \in Nat
  BY <1>1, LenProperties DEF DeskInv, WorldInv
<1>3. QED
  BY <1>1, <1>2, UsdcIsAsset DEF Tx, Delta

LEMMA ScanKeeps ==
    ASSUME DeskInv, NEW j \in Jobs,
           ScanStep(j) \/ (j \in Calls /\ \E owners \in SUBSET Owners : scan(j, owners))
    PROVE  DeskInv'
<1>0. job[j] \in Job /\ JobOK(j, job[j], txs) /\ ledger \in Ledger /\ LedgerInv(ledger)
  BY DEF DeskInv, JobsInv, LedgerInv
<1>1. ASSUME NEW owners \in SUBSET Owners, scan(j, owners), j \in Calls
      PROVE  DeskInv'
  <2>1. PICK next : next = [Idle EXCEPT !.pc = "scan", !.owners = owners]
                    /\ JobOK(j, next, txs)
    BY ScanOK
  <2>2. Goto(j, next) /\ UNCHANGED <<ledger, clock, txs, crashes, faults>>
    BY <1>1, <2>1 DEF scan
  <2>3. QED
    BY <1>0, <1>1, <2>1, <2>2, Apart, TxsSame, MoveKeeps
<1>2. ASSUME NEW o \in Owners, ScanRead(j, o) PROVE DeskInv'
  <2>1. Goto(j, [job[j] EXCEPT !.pc = "hits", !.owner = o, !.owners = @ \ {o},
                               !.hits = Incoming(o)])
    BY <1>2 DEF ScanRead
  <2>2. PICK next : next = [job[j] EXCEPT !.pc = "hits", !.owner = o, !.owners = @ \ {o},
                                          !.hits = Incoming(o)]
    OBVIOUS
  <2>3. o \in Owners /\ Incoming(o) \in SUBSET Nat
        /\ \A h \in Incoming(o) : h \in DOMAIN txs /\ txs[h].delta[Usdc] > 0
    BY <1>0, <2>1, LenProperties DEF Incoming, Recent, Mentions, Job, DeskInv, WorldInv
  <2>4. next \in Job /\ next.pc = "hits" /\ next.owner = o /\ next.hits = Incoming(o)
    BY <1>0, <2>2, <2>3 DEF Job
  <2>5. JobOK(j, next, txs)
    BY <2>3, <2>4 DEF JobOK, OrderStages
  <2>6. QED
    BY <1>0, <1>2, <2>1, <2>2, <2>5, TxsSame, MoveKeeps, StageNotIdle DEF ScanRead
<1>3. ASSUME ScanFails(j) PROVE DeskInv'
  BY <1>0, <1>3, IdleOK, TxsSame, MoveKeeps, StageNotIdle DEF ScanFails
<1>4. ASSUME NEW rest \in SUBSET job[j].hits, NEW l \in Ledger, job[j].pc \in {"hits", "credit"}
      PROVE  JobOK(j, AfterCredit(j, rest, l), txs)
  <2>1. CASE rest # {}
    <3>1. PICK next : next = [job[j] EXCEPT !.pc = "credit", !.hits = rest]
      OBVIOUS
    <3>2. next \in Job /\ next.pc = "credit" /\ next.owner = job[j].owner /\ next.hits = rest
      BY <1>0, <3>1 DEF Job
    <3>3. JobOK(j, next, txs)
      BY <1>0, <1>4, <3>2 DEF JobOK, OrderStages
    <3>4. QED
      BY <2>1, <3>1, <3>3 DEF AfterCredit
  <2>2. CASE rest = {} /\ job[j].owners # {}
    <3>1. job[j].owners \in SUBSET Owners
      BY <1>0 DEF Job
    <3>2. PICK next : next = [Idle EXCEPT !.pc = "scan", !.owners = job[j].owners]
                      /\ JobOK(j, next, txs)
      BY <3>1, ScanOK
    <3>3. QED
      BY <2>2, <3>2 DEF AfterCredit
  <2>3. CASE rest = {} /\ job[j].owners = {}
    BY <1>4, <2>3, LedgerFields, TakeOrderOK, IdleOK DEF AfterCredit
  <2>4. QED
    BY <2>1, <2>2, <2>3
<1>5. ASSUME NothingFound(j), UNCHANGED <<clock, txs, crashes, faults>> PROVE DeskInv'
  BY <1>0, <1>4, <1>5, TxsSame, MoveKeeps, StageNotIdle DEF NothingFound
<1>6. ASSUME NEW h \in job[j].hits, CreditHit(j, h), UNCHANGED <<clock, txs, crashes, faults>>
      PROVE  DeskInv'
  <2>1. /\ job[j].owner \in Owners /\ h \in Nat /\ txs[h].delta[Usdc] \in Nat
    BY <1>6, HitAmount DEF CreditHit
  <2>2. LedgerInv(ledger') /\ ledger' \in Ledger
    BY <1>0, <1>6, <2>1, CreditKeeps DEF CreditHit, LedgerInv
  <2>3. JobOK(j, AfterCredit(j, job[j].hits \ {h}, ledger'), txs')
    BY <1>4, <1>6, <2>2 DEF CreditHit
  <2>4. QED
    BY <1>6, <2>2, <2>3, TxsSame, MoveKeeps, StageNotIdle DEF CreditHit
<1>7. QED
  BY <1>1, <1>2, <1>3, <1>5, <1>6 DEF ScanStep, ScanCredit

(* A job at one of the stages of an order.                                 *)
LEMMA OrderJob ==
    ASSUME DeskInv, NEW j \in Timers, job[j].pc \in OrderStages
    PROVE  /\ j \in Jobs /\ job[j] \in Job /\ job[j] # Idle
           /\ job[j].order \in ArmOrder \ job[j].orders
           /\ job[j].orders \in SUBSET ArmOrder
           /\ job[j].order.owner \in Owners /\ job[j].order.ticker \in Assets
           /\ job[j].order.createdAt \in Nat
           /\ job[j].sig \in Nat /\ job[j].delta \in Delta
<1>1. j \in Jobs /\ JobOK(j, job[j], txs)
  BY DEF DeskInv, JobsInv, Jobs
<1>2. QED
  BY <1>1, StageNotIdle DEF JobOK, Job, OrderStages, ArmOrder, Assets

(* It moves on with the next order of the list.                            *)
LEMMA NextOrderKeeps ==
    ASSUME DeskInv, NEW j \in Timers, job[j].pc \in OrderStages, NextOrder(j),
           LedgerInv(ledger'), WorldInv', Grows(txs, txs')
    PROVE  DeskInv'
  BY OrderJob, TakeOrderOK, MoveKeeps DEF NextOrder

(* Or with the next stage of the same one.                                 *)
LEMMA StageKeeps ==
    ASSUME DeskInv, NEW j \in Timers, job[j].pc \in OrderStages, NEW next \in Job,
           Goto(j, next), next.order = job[j].order, next.orders = job[j].orders,
           next.pc \in OrderStages, LedgerInv(ledger'), WorldInv', Grows(txs, txs')
    PROVE  DeskInv'
<1>1. JobOK(j, next, txs')
  BY OrderJob DEF JobOK, OrderStages
<1>2. QED
  BY <1>1, OrderJob, MoveKeeps

LEMMA FailedKeeps ==
    ASSUME DeskInv, NEW j \in Timers, job[j].pc \in OrderStages, Failed(j),
           WorldInv', Grows(txs, txs')
    PROVE  DeskInv'
<1>1. LedgerInv(ledger')
  BY OrderJob, RecordKeeps DEF Failed, DeskInv, NoSig
<1>2. QED
  BY <1>1, NextOrderKeeps DEF Failed

LEMMA StoppedKeeps ==
    ASSUME DeskInv, NEW j \in Timers, job[j].pc \in OrderStages, NEW sig \in Nat,
           NEW after \in {"sent", "booked", "recorded"}, Stopped(j, sig, after)
    PROVE  faults' \subseteq Fault
  BY OrderJob DEF DeskInv, WorldInv, Stopped, Fault

LEMMA TwoChanges ==
    ASSUME NEW a, NEW b, NEW m \in Int, NEW n \in Int
    PROVE  [NoChange EXCEPT ![a] = m, ![b] = n] \in Delta
<1>1. [NoChange EXCEPT ![a] = m] \in Delta
  BY NoChangeIsDelta DEF Delta
<1>2. QED
  BY <1>1 DEF Delta

LEMMA OrderKeeps ==
    ASSUME DeskInv, NEW j \in Timers, OrderStep(j)
    PROVE  DeskInv'
<1>0. LedgerInv(ledger) /\ ledger \in Ledger
  BY DEF DeskInv, LedgerInv
<1>1. ASSUME Waits(j) PROVE DeskInv'
  BY <1>0, <1>1, NextOrderKeeps, TxsSame DEF Waits, OrderStages
<1>2. ASSUME StartSwap(j) PROVE DeskInv'
  <2>1. PICK next : next = [job[j] EXCEPT !.pc = "quote", !.usd = SwapSize(job[j].order)]
    OBVIOUS
  <2>2. job[j].pc \in OrderStages
    BY <1>2 DEF StartSwap, OrderStages
  <2>3. SwapSize(job[j].order) \in Nat
    <3>1. PICK shares \in Nat : shares = ledger.book[job[j].order.owner][job[j].order.ticker]
      BY <1>0, <2>2, OrderJob, LedgerFields DEF LedgerInv, BooksCover
    <3>2. job[j].order.usd \in Nat
      BY <2>2, OrderJob DEF ArmOrder
    <3>3. QED
      BY <3>1, <3>2 DEF SwapSize
  <2>4. /\ next \in Job /\ next.pc = "quote" /\ next.order = job[j].order
        /\ next.orders = job[j].orders
    BY <2>1, <2>2, <2>3, OrderJob DEF Job
  <2>5. QED
    BY <1>0, <1>2, <2>1, <2>2, <2>4, StageKeeps, TxsSame DEF StartSwap, OrderStages
<1>3. ASSUME Quote(j) PROVE DeskInv'
  <2>1. job[j].pc \in OrderStages
    BY <1>3 DEF Quote, OrderStages
  <2>2. PICK d : Goto(j, [job[j] EXCEPT !.pc = "swap", !.delta = d]) /\ d \in Delta
    <3>1. PICK drift \in Drifts :
             LET a == job[j].order
                 n == job[j].usd
                 d == IF a.side = "buy"
                      THEN [NoChange EXCEPT ![Usdc] = -n, ![a.ticker] = n]
                      ELSE [NoChange EXCEPT ![Usdc] = n, ![a.ticker] = -(n + drift)]
             IN  Goto(j, [job[j] EXCEPT !.pc = "swap", !.delta = d])
      BY <1>3 DEF Quote
    <3>2. drift \in Nat /\ job[j].usd \in Nat
      BY <2>1, OrderJob, DeskAssumption DEF Job
    <3>3. /\ [NoChange EXCEPT ![Usdc] = -job[j].usd, ![job[j].order.ticker] = job[j].usd] \in Delta
          /\ [NoChange EXCEPT ![Usdc] = job[j].usd,
                              ![job[j].order.ticker] = -(job[j].usd + drift)] \in Delta
      <4>1. -job[j].usd \in Int /\ job[j].usd \in Int /\ -(job[j].usd + drift) \in Int
        BY <3>2
      <4>2. QED
        BY <4>1, TwoChanges, Zenon
    <3>4. QED
      BY <3>1, <3>3
  <2>3. PICK next : next = [job[j] EXCEPT !.pc = "swap", !.delta = d]
    OBVIOUS
  <2>4. /\ next \in Job /\ next.pc = "swap" /\ next.order = job[j].order
        /\ next.orders = job[j].orders
    BY <2>1, <2>2, <2>3, OrderJob DEF Job
  <2>5. QED
    BY <1>0, <1>3, <2>1, <2>2, <2>3, <2>4, StageKeeps, TxsSame DEF Quote, OrderStages
<1>4. ASSUME SwapFails(j) PROVE DeskInv'
  BY <1>4, FailedKeeps, TxsSame DEF SwapFails, OrderStages
<1>5. ASSUME job[j].pc = "swap", Send(job[j].order.owner, job[j].delta, job[j].order.createdAt),
             UNCHANGED <<clock, crashes>>, faults' \subseteq Fault
      PROVE  WorldInv' /\ Grows(txs, txs') /\ Len(txs') \in Nat
  <2>1. /\ job[j].order.owner \in Owners /\ job[j].delta \in Delta
        /\ job[j].order.createdAt \in Nat
    BY <1>5, OrderJob DEF OrderStages
  <2>2. /\ txs' \in Seq(Tx) /\ Len(txs') <= MaxTxs /\ Len(txs') = Len(txs) + 1
        /\ Len(txs) \in Nat /\ Grows(txs, txs')
    BY <1>5, <2>1, AppendGrows DEF Send, DeskInv
  <2>3. QED
    BY <1>5, <2>2 DEF DeskInv, WorldInv
<1>6. ASSUME SwapSent(j) PROVE DeskInv'
  <2>1. WorldInv' /\ Grows(txs, txs') /\ Len(txs') \in Nat /\ job[j].pc \in OrderStages
    BY <1>5, <1>6 DEF SwapSent, DeskInv, WorldInv, OrderStages
  <2>2. PICK next : next = [job[j] EXCEPT !.pc = "settle", !.sig = Len(txs')]
    OBVIOUS
  <2>3. /\ next \in Job /\ next.pc = "settle" /\ next.order = job[j].order
        /\ next.orders = job[j].orders
    BY <2>1, <2>2, OrderJob DEF Job
  <2>4. QED
    BY <1>0, <1>6, <2>1, <2>2, <2>3, StageKeeps DEF SwapSent, OrderStages
<1>7. ASSUME AnswerLost(j) PROVE DeskInv'
  <2>1. Len(txs') \in Nat /\ job[j].pc \in OrderStages
    BY <1>7, OrderJob, AppendGrows DEF AnswerLost, Send, DeskInv, OrderStages
  <2>2. faults' \subseteq Fault
    BY <1>7, <2>1, StoppedKeeps DEF AnswerLost
  <2>3. QED
    BY <1>5, <1>7, <2>1, <2>2, FailedKeeps DEF AnswerLost
<1>8. ASSUME Settle(j) PROVE DeskInv'
  <2>1. job[j].pc \in OrderStages
    BY <1>8 DEF Settle, OrderStages
  <2>2. LedgerInv(ledger')
    BY <1>0, <1>8, <2>1, OrderJob, FillKeeps DEF Settle, Delta
  <2>3. PICK next : next = [job[j] EXCEPT !.pc = "record"]
    OBVIOUS
  <2>4. /\ next \in Job /\ next.pc = "record" /\ next.order = job[j].order
        /\ next.orders = job[j].orders
    BY <2>1, <2>3, OrderJob DEF Job
  <2>5. QED
    BY <1>8, <2>1, <2>2, <2>3, <2>4, StageKeeps, TxsSame DEF Settle, OrderStages
<1>9. ASSUME SettleFails(j) \/ ReceiptFails(j) PROVE DeskInv'
  <2>1. job[j].pc \in OrderStages /\ Failed(j) /\ UNCHANGED <<clock, txs, crashes>>
    BY <1>9 DEF SettleFails, ReceiptFails, OrderStages
  <2>2. faults' \subseteq Fault
    BY <1>9, <2>1, OrderJob, StoppedKeeps DEF SettleFails, ReceiptFails
  <2>3. WorldInv' /\ Grows(txs, txs')
    BY <2>1, <2>2, GrowsNot DEF DeskInv, WorldInv
  <2>4. QED
    BY <2>1, <2>3, FailedKeeps
<1>10. ASSUME Record(j) PROVE DeskInv'
  <2>1. job[j].pc \in OrderStages
    BY <1>10 DEF Record, OrderStages
  <2>2. LedgerInv(ledger')
    BY <1>0, <1>10, <2>1, OrderJob, RecordKeeps DEF Record
  <2>3. PICK next : next = [job[j] EXCEPT !.pc = "disarm"]
    OBVIOUS
  <2>4. /\ next \in Job /\ next.pc = "disarm" /\ next.order = job[j].order
        /\ next.orders = job[j].orders
    BY <2>1, <2>3, OrderJob DEF Job
  <2>5. QED
    BY <1>10, <2>1, <2>2, <2>3, <2>4, StageKeeps, TxsSame DEF Record, OrderStages
<1>11. ASSUME Disarm(j) PROVE DeskInv'
  <2>1. job[j].pc \in OrderStages
    BY <1>11 DEF Disarm, OrderStages
  <2>2. LedgerInv(ledger')
    BY <1>0, <1>11, <2>1, OrderJob, DisarmKeeps DEF Disarm
  <2>3. QED
    BY <1>11, <2>1, <2>2, NextOrderKeeps, TxsSame DEF Disarm
<1>12. QED
  BY <1>1, <1>2, <1>3, <1>4, <1>6, <1>7, <1>8, <1>9, <1>10, <1>11 DEF OrderStep

(* A withdrawal at the stages of its transfers.                            *)
LEMMA TransferJob ==
    ASSUME DeskInv, NEW j \in Calls, job[j].pc \in {"sweep", "transfer", "confirm"}
    PROVE  /\ j \in Jobs /\ job[j] \in Job /\ job[j].owner \in Owners
           /\ job[j].assets \in SUBSET Assets /\ job[j].delta \in Delta
           /\ job[j].pc \in {"transfer", "confirm"} =>
                 job[j].asset \in Assets /\ job[j].delta[job[j].asset] < 0
<1>1. j \in Jobs /\ JobOK(j, job[j], txs)
  BY DEF DeskInv, JobsInv, Jobs
<1>2. QED
  BY <1>1 DEF JobOK, Job

LEMMA MoveIsDelta ==
    ASSUME NEW a \in Assets, NEW n \in Int
    PROVE  Move(a, n) \in Delta /\ Move(a, n)[a] = n
<1>1. NoChange \in [Assets -> Int]
  BY DEF NoChange
<1>2. QED
  BY <1>1 DEF Move, Delta

LEMMA AfterTransferOK ==
    ASSUME DeskInv, NEW j \in Calls, job[j].pc \in {"sweep", "transfer", "confirm"}, NEW t
    PROVE  JobOK(j, AfterTransfer(j), t)
<1>1. CASE job[j].assets = {}
  BY <1>1, IdleOK DEF AfterTransfer
<1>2. CASE job[j].assets # {}
  <2>1. PICK next : next = [Idle EXCEPT !.pc = "sweep", !.owner = job[j].owner,
                                        !.assets = job[j].assets, !.all = TRUE]
    OBVIOUS
  <2>2. next = [pc |-> "sweep", owner |-> job[j].owner, owners |-> {}, hits |-> {},
                orders |-> {}, order |-> NoOrder, usd |-> 0, assets |-> job[j].assets,
                asset |-> NoAsset, delta |-> NoChange, all |-> TRUE, sig |-> NoSig]
    BY <2>1 DEF Idle
  <2>3. JobOK(j, next, t)
    BY <2>2, TransferJob, NoChangeIsDelta DEF JobOK, Job, NoSig, OrderStages
  <2>4. QED
    BY <1>2, <2>1, <2>3 DEF AfterTransfer
<1>3. QED
  BY <1>1, <1>2

(* The first transfer of a withdrawal, and the next one of a sweep.        *)
LEMMA WithdrawOK ==
    ASSUME NEW j \in Calls, NEW o \in Owners, NEW a \in Assets, NEW n \in Nat \ {0}, NEW t
    PROVE  JobOK(j, [Idle EXCEPT !.pc = "transfer", !.owner = o, !.asset = a,
                                 !.delta = Move(a, -n)], t)
<1>1. PICK d \in Delta : d = Move(a, -n) /\ d[a] < 0
  BY MoveIsDelta
<1>2. PICK next : next = [Idle EXCEPT !.pc = "transfer", !.owner = o, !.asset = a, !.delta = d]
  OBVIOUS
<1>3. next = [pc |-> "transfer", owner |-> o, owners |-> {}, hits |-> {},
              orders |-> {}, order |-> NoOrder, usd |-> 0, assets |-> {},
              asset |-> a, delta |-> d, all |-> FALSE, sig |-> NoSig]
  BY <1>2 DEF Idle
<1>4. JobOK(j, next, t)
  BY <1>1, <1>3 DEF JobOK, Job, NoSig, OrderStages
<1>5. QED
  BY <1>1, <1>2, <1>4

LEMMA SweepOK ==
    ASSUME NEW j \in Calls, NEW o \in Owners, NEW held \in SUBSET Assets, NEW t
    PROVE  JobOK(j, [Idle EXCEPT !.pc = "sweep", !.owner = o, !.assets = held, !.all = TRUE], t)
<1>1. PICK next : next = [Idle EXCEPT !.pc = "sweep", !.owner = o, !.assets = held,
                                      !.all = TRUE]
  OBVIOUS
<1>2. next = [pc |-> "sweep", owner |-> o, owners |-> {}, hits |-> {},
              orders |-> {}, order |-> NoOrder, usd |-> 0, assets |-> held,
              asset |-> NoAsset, delta |-> NoChange, all |-> TRUE, sig |-> NoSig]
  BY <1>1 DEF Idle
<1>3. JobOK(j, next, t)
  BY <1>2, NoChangeIsDelta DEF JobOK, Job, NoSig, OrderStages
<1>4. QED
  BY <1>1, <1>3

(* A call that only moves on.                                              *)
LEMMA CallKeeps ==
    ASSUME DeskInv, NEW j \in Calls, NEW next, Goto(j, next), JobOK(j, next, txs'),
           LedgerInv(ledger'), WorldInv', Grows(txs, txs')
    PROVE  DeskInv'
  BY Apart, MoveKeeps

LEMMA TransferKeeps ==
    ASSUME DeskInv, NEW j \in Calls, TransferStep(j)
    PROVE  DeskInv'
<1>0. LedgerInv(ledger) /\ ledger \in Ledger
  BY DEF DeskInv, LedgerInv
<1>1. ASSUME SweepRead(j) PROVE DeskInv'
  <2>0. PICK a \in job[j].assets, n \in Nat : \E rest :
           /\ rest = [job[j] EXCEPT !.assets = @ \ {a}]
           /\ Goto(j, IF n > 0
                      THEN [rest EXCEPT !.pc = "transfer", !.asset = a, !.delta = Move(a, -n)]
                      ELSE IF rest.assets = {} THEN Idle ELSE rest)
    BY <1>1 DEF SweepRead
  <2>1. PICK rest :
           /\ rest = [job[j] EXCEPT !.assets = @ \ {a}]
           /\ Goto(j, IF n > 0
                      THEN [rest EXCEPT !.pc = "transfer", !.asset = a, !.delta = Move(a, -n)]
                      ELSE IF rest.assets = {} THEN Idle ELSE rest)
    BY <2>0
  <2>2. job[j].pc = "sweep" /\ a \in Assets
    BY <1>1, <2>1, TransferJob DEF SweepRead
  <2>3. /\ rest \in Job /\ rest.pc = "sweep" /\ rest.owner = job[j].owner
        /\ rest.owner \in Owners
    BY <2>1, <2>2, TransferJob DEF Job
  <2>4. CASE n > 0
    <3>1. PICK d \in Delta : d = Move(a, -n) /\ d[a] < 0
      BY <2>2, <2>4, MoveIsDelta
    <3>2. PICK next : next = [rest EXCEPT !.pc = "transfer", !.asset = a, !.delta = d]
      OBVIOUS
    <3>3. /\ next \in Job /\ next.pc = "transfer" /\ next.owner = rest.owner
          /\ next.asset = a /\ next.delta = d
      BY <2>2, <2>3, <3>1, <3>2 DEF Job
    <3>4. JobOK(j, next, txs')
      BY <2>2, <2>3, <3>1, <3>3 DEF JobOK, OrderStages
    <3>5. Goto(j, next)
      BY <2>1, <2>4, <3>1, <3>2
    <3>6. QED
      BY <1>0, <1>1, <3>4, <3>5, CallKeeps, TxsSame DEF SweepRead
  <2>5. CASE ~(n > 0)
    <3>1. JobOK(j, rest, txs')
      BY <2>3 DEF JobOK, OrderStages
    <3>2. Goto(j, Idle) \/ Goto(j, rest)
      BY <2>1, <2>5
    <3>3. QED
      BY <1>0, <1>1, <3>1, <3>2, IdleOK, CallKeeps, TxsSame DEF SweepRead
  <2>6. QED
    BY <2>4, <2>5
<1>2. ASSUME sendTokens(j) PROVE DeskInv'
  <2>1. /\ job[j].pc = "transfer" /\ job[j] \in Job /\ job[j].owner \in Owners
        /\ job[j].delta \in Delta
        /\ job[j].asset \in Assets /\ job[j].delta[job[j].asset] < 0
    BY <1>2, TransferJob DEF sendTokens
  <2>2. /\ txs' \in Seq(Tx) /\ Len(txs') <= MaxTxs /\ Grows(txs, txs')
        /\ Len(txs') \in DOMAIN txs' /\ Len(txs') \in Nat
        /\ txs'[Len(txs')].owner = job[j].owner /\ txs'[Len(txs')].delta = job[j].delta
        /\ txs'[Len(txs')].order = 0
    <3>1. Len(txs) < MaxTxs /\ Append1(job[j].owner, job[j].delta, 0, "sent")
      BY <1>2 DEF sendTokens, Send
    <3>2. /\ txs' \in Seq(Tx) /\ Len(txs') <= MaxTxs /\ Grows(txs, txs')
          /\ Len(txs') = Len(txs) + 1 /\ Len(txs) \in Nat /\ DOMAIN txs' = 1..Len(txs')
          /\ txs'[Len(txs')] = [owner |-> job[j].owner, delta |-> job[j].delta,
                                order |-> 0, status |-> "sent"]
      BY <2>1, <3>1, AppendGrows DEF DeskInv
    <3>3. QED
      BY <3>2
  <2>3. PICK next : next = [job[j] EXCEPT !.pc = "confirm", !.sig = Len(txs')]
    OBVIOUS
  <2>4. /\ next \in Job /\ next.pc = "confirm" /\ next.owner = job[j].owner
        /\ next.asset = job[j].asset /\ next.delta = job[j].delta /\ next.sig = Len(txs')
    BY <2>1, <2>2, <2>3 DEF Job
  <2>5. JobOK(j, next, txs')
    BY <2>1, <2>2, <2>4 DEF JobOK, OrderStages
  <2>6. WorldInv'
    BY <1>2, <2>2 DEF sendTokens, DeskInv, WorldInv
  <2>7. QED
    BY <1>0, <1>2, <2>2, <2>3, <2>5, <2>6, CallKeeps DEF sendTokens
<1>3. ASSUME Confirm(j) PROVE DeskInv'
  <2>1. /\ job[j].pc = "confirm" /\ job[j] \in Job /\ job[j].owner \in Owners
        /\ job[j].delta \in Delta /\ job[j].asset \in Assets /\ job[j].sig \in Nat
    BY <1>3, TransferJob DEF Confirm, Job
  <2>2. Owed(j) \in Int
    BY <1>0, <2>1, LedgerFields DEF Owed, Delta
  <2>3. LedgerInv(ledger')
    <3>1. CASE Owed(j) > 0 /\ CanDebit(ledger, job[j].owner, job[j].asset, Owed(j))
      <4>1. PICK n \in Nat : n = Owed(j)
        BY <2>2, <3>1
      <4>2. ledger' = debitWithdraw(ledger, job[j].owner, job[j].asset, n, job[j].sig)
        BY <1>3, <3>1, <4>1 DEF Confirm
      <4>3. CanDebit(ledger, job[j].owner, job[j].asset, n)
        BY <3>1, <4>1
      <4>4. QED
        BY <1>0, <2>1, <4>2, <4>3, DebitKeeps
    <3>2. CASE ~(Owed(j) > 0 /\ CanDebit(ledger, job[j].owner, job[j].asset, Owed(j)))
      BY <1>0, <1>3, <3>2 DEF Confirm
    <3>3. QED
      BY <3>1, <3>2
  <2>4. QED
    BY <1>3, <2>1, <2>3, AfterTransferOK, CallKeeps, TxsSame DEF Confirm
<1>4. ASSUME TransferFails(j) PROVE DeskInv'
  BY <1>0, <1>4, AfterTransferOK, CallKeeps, TxsSame DEF TransferFails
<1>5. QED
  BY <1>1, <1>2, <1>3, <1>4 DEF TransferStep

LEMMA RequestKeeps ==
    ASSUME DeskInv, NEW o \in Owners, Request(o)
    PROVE  DeskInv'
<1>0. LedgerInv(ledger) /\ ledger \in Ledger
  BY DEF DeskInv, LedgerInv
<1>1. ASSUME NEW t \in Tickers, NEW side \in ArmSides, NEW usd \in Sizes, arm(o, t, side, usd)
      PROVE  DeskInv'
  <2>1. clock' \in 0..MaxOrders /\ clock' \in Nat /\ usd \in Nat
    BY <1>1, DeskAssumption DEF arm, DeskInv, WorldInv
  <2>2. PICK order \in ArmOrder :
           order = [owner |-> o, ticker |-> t, side |-> side, usd |-> usd, createdAt |-> clock']
    BY <2>1 DEF ArmOrder
  <2>3. LedgerInv(ledger')
    BY <1>0, <1>1, <2>2, SetArmKeeps DEF arm
  <2>4. UNCHANGED <<job, busy, txs, crashes, faults>>
    BY <1>1 DEF arm
  <2>5. QED
    BY <2>1, <2>3, <2>4 DEF DeskInv, JobsInv, WorldInv
<1>2. ASSUME NEW tickers, DisarmRequest(o, tickers) PROVE DeskInv'
  <2>1. LedgerInv(ledger')
    BY <1>0, <1>2, DisarmKeeps DEF DisarmRequest
  <2>2. UNCHANGED <<job, busy, clock, txs, crashes, faults>>
    BY <1>2 DEF DisarmRequest
  <2>3. QED
    BY <2>1, <2>2 DEF DeskInv, JobsInv, WorldInv
<1>3. ASSUME NEW j \in Calls, NEW owners \in SUBSET Owners, scan(j, owners) PROVE DeskInv'
  BY <1>3, Apart, ScanKeeps
<1>4. ASSUME NEW j \in Calls, NEW a \in Assets, NEW n \in Sizes, withdraw(j, o, a, n)
      PROVE  DeskInv'
  <2>1. n \in Nat \ {0}
    BY DeskAssumption
  <2>2. QED
    BY <1>0, <1>4, <2>1, WithdrawOK, CallKeeps, TxsSame DEF withdraw
<1>5. ASSUME NEW j \in Calls, withdrawAll(j, o) PROVE DeskInv'
  <2>1. PICK held \in SUBSET Assets :
           Goto(j, [Idle EXCEPT !.pc = "sweep", !.owner = o, !.assets = held, !.all = TRUE])
    BY <1>5 DEF withdrawAll
  <2>2. QED
    BY <1>0, <1>5, <2>1, SweepOK, CallKeeps, TxsSame DEF withdrawAll
<1>6. {o} \in SUBSET Owners /\ Owners \in SUBSET Owners
  OBVIOUS
<1>7. QED
  BY <1>1, <1>2, <1>3, <1>4, <1>5, <1>6 DEF Request

LEMMA CrashKeeps ==
    ASSUME DeskInv, Crash
    PROVE  DeskInv'
<1>1. \A j \in Jobs : job[j].pc \in DOMAIN Stages =>
          [order |-> job[j].order, sig |-> job[j].sig, after |-> Stages[job[j].pc]] \in Fault
  <2> SUFFICES ASSUME NEW j \in Jobs, job[j].pc \in DOMAIN Stages
               PROVE  [order |-> job[j].order, sig |-> job[j].sig,
                       after |-> Stages[job[j].pc]] \in Fault
    OBVIOUS
  <2>1. job[j].pc \in OrderStages /\ Stages[job[j].pc] \in {"sent", "booked", "recorded"}
    BY DEF Stages, OrderStages
  <2>2. j \in Timers
    BY <2>1 DEF DeskInv, JobsInv, JobOK
  <2>3. QED
    BY <2>1, <2>2, OrderJob DEF Fault
<1>2. faults' \subseteq Fault
  BY <1>1 DEF Crash, DeskInv, WorldInv
<1>3. WorldInv'
  BY <1>2, DeskAssumption DEF Crash, DeskInv, WorldInv
<1>4. \A j \in Jobs : JobOK(j, Idle, txs)
  BY IdleOK
<1>5. Idle \in Job
  BY NoChangeIsDelta DEF Idle, Job, NoSig
<1>6. JobsInv'
  BY <1>4, <1>5 DEF Crash, JobsInv, Jobs
<1>7. QED
  BY <1>3, <1>6 DEF Crash, DeskInv

LEMMA DeskInvStep == DeskInv /\ [Next]_vars => DeskInv'
<1> SUFFICES ASSUME DeskInv, [Next]_vars PROVE DeskInv'
  OBVIOUS
<1>1. ASSUME NEW j \in Timers, TickStep(j) PROVE DeskInv'
  BY <1>1, ScanKeeps, OrderKeeps DEF TickStep, Jobs
<1>2. ASSUME NEW j \in Calls, CallStep(j) PROVE DeskInv'
  BY <1>2, ScanKeeps, TransferKeeps DEF CallStep, Jobs
<1>3. CASE UNCHANGED vars
  BY <1>3 DEF vars, DeskInv, JobsInv, WorldInv
<1>4. QED
  BY <1>1, <1>2, <1>3, TickStarts, RequestKeeps, ClusterKeeps, CrashKeeps DEF Next

LEMMA DeskInvInit == Init => DeskInv
<1> SUFFICES ASSUME Init PROVE DeskInv
  OBVIOUS
<1>1. LedgerInv(ledger)
  BY EmptyInv DEF Init
<1>2. JobsInv
  <2>1. \A j \in Jobs : JobOK(j, Idle, txs) /\ Idle \in Job
    BY IdleOK DEF JobOK
  <2>2. QED
    BY <2>1 DEF Init, JobsInv, Jobs
<1>3. WorldInv
  BY DeskAssumption, EmptySeq DEF Init, WorldInv
<1>4. QED
  BY <1>1, <1>2, <1>3 DEF DeskInv

LEMMA DeskInvAlways == Spec => []DeskInv
  BY DeskInvInit, DeskInvStep, PTL DEF Spec

(* The variables stay well-typed, and busy says whether a tick runs.       *)
THEOREM DeskTypeCorrect == Spec => []TypeOK
<1>1. DeskInv => TypeOK
  BY DEF DeskInv, LedgerInv, JobsInv, WorldInv, TypeOK
<1>2. QED
  BY <1>1, DeskInvAlways, PTL

(* No balance on the book falls below zero, however many owners, jobs and  *)
(* transactions there are (applyFill and debitWithdraw check again).       *)
THEOREM BooksNeverNegative == Spec => []NoOverdraft
<1>1. DeskInv => NoOverdraft
  BY DEF DeskInv, LedgerInv, BooksCover, NoOverdraft
<1>2. QED
  BY <1>1, DeskInvAlways, PTL

(* A signature credited twice has PROCESSED_CAP other credits in between,  *)
(* for every size of the list of seen signatures (creditDeposit).          *)
THEOREM DepositsCreditedOnce == Spec => []CreditedOnce
<1>1. DeskInv => CreditedOnce
  BY DEF DeskInv, LedgerInv, Once, CreditedOnce
<1>2. QED
  BY <1>1, DeskInvAlways, PTL

(* A pending row always has its live order (rememberArm, disarm).          *)
THEOREM PendingRowsHaveOrders == Spec => []PendingIsWaiting
<1>1. DeskInv => PendingIsWaiting
  BY DEF DeskInv, LedgerInv, PendingArmed, PendingIsWaiting
<1>2. QED
  BY <1>1, DeskInvAlways, PTL

-----------------------------------------------------------------------------
(* The rows of the live orders.                                            *)
FilledNow(a) == \E j \in Timers : job'[j].pc = "disarm" /\ SameName(job'[j].order, a)

LiveRowsHold ==
    \A a \in ledger'.arms :
       IF a \notin ledger.arms THEN Open(ledger'.armRecords, a) # {}
       ELSE \A r \in Open(ledger.armRecords, a) :
               \/ Open(ledger'.armRecords, a) # {}
               \/ FilledNow(a)
               \/ Pushed(ledger'.armRecords, r)

(* Crediting, booking and debiting write no row.                           *)
LEMMA SameRowsHold == ASSUME SameOrders(ledger, ledger') PROVE LiveRowsHold
  BY DEF SameOrders, LiveRowsHold

(* A row written for one order takes no row of another.                    *)
LEMMA OtherRowsHold ==
    ASSUME NEW order, ledger'.arms = ledger.arms,
           \/ FilledNow(order)
           \/ \E row \in ledger'.armRecords : SameName(order, row) /\ row.status # "executed",
           \A r \in ledger.armRecords \ Open(ledger.armRecords, order) :
               r \in ledger'.armRecords \/ Pushed(ledger'.armRecords, r)
    PROVE  LiveRowsHold
<1> SUFFICES ASSUME NEW a \in ledger.arms, NEW r \in Open(ledger.armRecords, a)
             PROVE  \/ Open(ledger'.armRecords, a) # {}
                    \/ FilledNow(a)
                    \/ Pushed(ledger'.armRecords, r)
  BY DEF LiveRowsHold
<1>1. CASE SameName(order, a)
  <2>1. FilledNow(order) => FilledNow(a)
    BY <1>1 DEF FilledNow, SameName
  <2>2. ASSUME NEW row \in ledger'.armRecords, SameName(order, row), row.status # "executed"
        PROVE  Open(ledger'.armRecords, a) # {}
    <3>1. row \in Open(ledger'.armRecords, a)
      BY <1>1, <2>2 DEF Open, SameName
    <3>2. QED
      BY <3>1
  <2>3. QED
    BY <2>1, <2>2
<1>2. CASE ~SameName(order, a)
  <2>1. r \in ledger.armRecords \ Open(ledger.armRecords, order)
    BY <1>2 DEF Open, SameName
  <2>2. r \in ledger'.armRecords => r \in Open(ledger'.armRecords, a)
    BY DEF Open
  <2>3. QED
    BY <2>1, <2>2
<1>3. QED
  BY <1>1, <1>2

(* A disarm takes rows of the orders it takes, and no others.              *)
LEMMA DisarmRowsHold ==
    ASSUME DeskInv, NEW o \in Owners, NEW tickers, ledger' = disarm(ledger, o, tickers)
    PROVE  LiveRowsHold
<1>1. /\ ledger'.arms = {a \in ledger.arms : a.owner = o => a.ticker \notin tickers}
      /\ ledger'.armRecords = {r \in ledger.armRecords :
                                  (r.owner = o /\ r.status = "pending") => r.ticker \notin tickers}
  BY DisarmKeeps DEF DeskInv
<1>2. ASSUME NEW a \in ledger'.arms, NEW r \in Open(ledger.armRecords, a)
      PROVE  r \in Open(ledger'.armRecords, a)
  BY <1>1, <1>2 DEF Open, SameName
<1>3. QED
  BY <1>1, <1>2 DEF LiveRowsHold

LEMMA FailedRowsHold ==
    ASSUME DeskInv, NEW j \in Timers, job[j].pc \in OrderStages, Failed(j)
    PROVE  LiveRowsHold
<1> DEFINE order == job[j].order
<1>1. order \in ArmOrder /\ LedgerInv(ledger) /\ NoSig \in Nat
  BY OrderJob DEF DeskInv, NoSig
<1>2. ledger' = recordArmResult(ledger, order, "failed", NoSig)
  BY DEF Failed
<1> HIDE DEF order
<1>3. /\ ledger'.arms = ledger.arms
      /\ \E row \in ledger'.armRecords : SameName(order, row) /\ row.status = "failed"
      /\ \A r \in ledger.armRecords \ Open(ledger.armRecords, order) :
            r \in ledger'.armRecords \/ Pushed(ledger'.armRecords, r)
  BY <1>1, <1>2, RecordKeeps
<1>4. QED
  BY <1>3, OtherRowsHold

LEMMA RecordRowsHold == ASSUME DeskInv, NEW j \in Timers, Record(j) PROVE LiveRowsHold
<1>1. job[j].pc \in OrderStages /\ j \in Jobs /\ job[j] \in Job
  BY OrderJob DEF Record, OrderStages
<1> DEFINE order == job[j].order
<1>2. order \in ArmOrder /\ LedgerInv(ledger) /\ job[j].sig \in Nat
  BY <1>1, OrderJob DEF DeskInv
<1>3. ledger' = recordArmResult(ledger, order, "executed", job[j].sig)
  BY DEF Record
<1>4. FilledNow(order)
  <2>1. job'[j].pc = "disarm" /\ job'[j].order = order
    BY <1>1 DEF Record, Goto, DeskInv, JobsInv, Job
  <2>2. QED
    BY <2>1 DEF FilledNow, SameName
<1> HIDE DEF order
<1>5. /\ ledger'.arms = ledger.arms
      /\ \A r \in ledger.armRecords \ Open(ledger.armRecords, order) :
            r \in ledger'.armRecords \/ Pushed(ledger'.armRecords, r)
  BY <1>2, <1>3, RecordKeeps
<1>6. QED
  BY <1>4, <1>5, OtherRowsHold

LEMMA ArmRowsHold ==
    ASSUME DeskInv, NEW o \in Owners, NEW t \in Tickers, NEW side \in ArmSides,
           NEW usd \in Sizes, arm(o, t, side, usd)
    PROVE  LiveRowsHold
<1>1. clock' \in Nat /\ usd \in Nat /\ LedgerInv(ledger)
  BY DeskAssumption DEF arm, DeskInv, WorldInv
<1>2. PICK order \in ArmOrder :
         order = [owner |-> o, ticker |-> t, side |-> side, usd |-> usd, createdAt |-> clock']
  BY <1>1 DEF ArmOrder
<1>3. ledger' = setArm(ledger, order)
  BY <1>2 DEF arm
<1>4. /\ ledger'.arms = {a \in ledger.arms : ~SameName(a, order)} \cup {order}
      /\ \E row \in ledger'.armRecords : SameName(order, row) /\ row.status = "pending"
      /\ \A r \in ledger.armRecords \ Open(ledger.armRecords, order) :
            r \in ledger'.armRecords \/ Pushed(ledger'.armRecords, r)
  BY <1>1, <1>2, <1>3, SetArmKeeps
<1>5. ASSUME NEW a \in ledger'.arms, SameName(a, order)
      PROVE  Open(ledger'.armRecords, a) # {}
  <2>1. PICK row \in ledger'.armRecords : SameName(order, row) /\ row.status = "pending"
    BY <1>4
  <2>2. row \in Open(ledger'.armRecords, a)
    BY <1>5, <2>1 DEF Open, SameName
  <2>3. QED
    BY <2>2
<1>6. ASSUME NEW a \in ledger'.arms, ~SameName(a, order), NEW r \in Open(ledger.armRecords, a)
      PROVE  r \in Open(ledger'.armRecords, a) \/ Pushed(ledger'.armRecords, r)
  <2>1. r \in ledger.armRecords \ Open(ledger.armRecords, order)
    BY <1>6 DEF Open, SameName
  <2>2. QED
    BY <1>4, <1>6, <2>1 DEF Open
<1>7. \A a \in ledger'.arms : ~SameName(a, order) => a \in ledger.arms
  BY <1>4 DEF SameName
<1>8. QED
  BY <1>5, <1>6, <1>7 DEF LiveRowsHold

(* A tick or a request that scans, and a withdrawal.                       *)
LEMMA ScanRowsHold == ASSUME DeskInv, NEW j \in Jobs, ScanStep(j) PROVE LiveRowsHold
<1>1. ASSUME NEW h \in job[j].hits, CreditHit(j, h) PROVE SameOrders(ledger, ledger')
  <2>1. job[j].owner \in Owners /\ h \in Nat /\ txs[h].delta[Usdc] \in Nat
    BY <1>1, HitAmount DEF CreditHit
  <2>2. QED
    BY <1>1, <2>1, CreditKeeps DEF CreditHit, DeskInv
<1>2. SameOrders(ledger, ledger')
  BY <1>1 DEF ScanStep, ScanRead, ScanFails, ScanCredit, NothingFound, SameOrders
<1>3. QED
  BY <1>2, SameRowsHold

LEMMA TransferRowsHold == ASSUME DeskInv, NEW j \in Calls, TransferStep(j) PROVE LiveRowsHold
<1>1. ASSUME Confirm(j) PROVE SameOrders(ledger, ledger')
  <2>1. /\ job[j].pc = "confirm" /\ job[j] \in Job /\ job[j].owner \in Owners
        /\ job[j].delta \in Delta /\ job[j].asset \in Assets /\ job[j].sig \in Nat
    BY <1>1, TransferJob DEF Confirm, Job
  <2>2. Owed(j) \in Int
    BY <2>1, LedgerFields DEF Owed, Delta, DeskInv, LedgerInv
  <2>3. CASE Owed(j) > 0 /\ CanDebit(ledger, job[j].owner, job[j].asset, Owed(j))
    <3>1. PICK n \in Nat : n = Owed(j)
      BY <2>2, <2>3
    <3>2. /\ ledger' = debitWithdraw(ledger, job[j].owner, job[j].asset, n, job[j].sig)
          /\ CanDebit(ledger, job[j].owner, job[j].asset, n)
      BY <1>1, <2>3, <3>1 DEF Confirm
    <3>3. QED
      BY <2>1, <3>2, DebitKeeps DEF DeskInv
  <2>4. CASE ~(Owed(j) > 0 /\ CanDebit(ledger, job[j].owner, job[j].asset, Owed(j)))
    BY <1>1, <2>4 DEF Confirm, SameOrders
  <2>5. QED
    BY <2>3, <2>4
<1>2. SameOrders(ledger, ledger')
  BY <1>1 DEF TransferStep, SweepRead, sendTokens, TransferFails, SameOrders
<1>3. QED
  BY <1>2, SameRowsHold

LEMMA OrderRowsHold == ASSUME DeskInv, NEW j \in Timers, OrderStep(j) PROVE LiveRowsHold
<1>1. CASE Waits(j) \/ StartSwap(j) \/ Quote(j) \/ SwapSent(j)
  BY <1>1, SameRowsHold DEF Waits, StartSwap, Quote, SwapSent, SameOrders
<1>2. CASE SwapFails(j) \/ AnswerLost(j) \/ SettleFails(j) \/ ReceiptFails(j)
  BY <1>2, FailedRowsHold DEF SwapFails, AnswerLost, SettleFails, ReceiptFails, OrderStages
<1>3. CASE Settle(j)
  <2>1. job[j].pc \in OrderStages
    BY <1>3 DEF Settle, OrderStages
  <2>2. SameOrders(ledger, ledger')
    BY <1>3, <2>1, OrderJob, FillKeeps DEF Settle, Delta, DeskInv
  <2>3. QED
    BY <2>2, SameRowsHold
<1>4. CASE Record(j)
  BY <1>4, RecordRowsHold
<1>5. CASE Disarm(j)
  BY <1>5, OrderJob, DisarmRowsHold DEF Disarm, OrderStages
<1>6. QED
  BY <1>1, <1>2, <1>3, <1>4, <1>5 DEF OrderStep

LEMMA RequestRowsHold == ASSUME DeskInv, NEW o \in Owners, Request(o) PROVE LiveRowsHold
<1>1. ASSUME NEW tickers, DisarmRequest(o, tickers) PROVE LiveRowsHold
  BY <1>1, DisarmRowsHold DEF DisarmRequest
<1>2. ASSUME NEW j, \/ \E owners : scan(j, owners)
                   \/ \E a, n : withdraw(j, o, a, n)
                   \/ withdrawAll(j, o)
      PROVE  LiveRowsHold
  BY <1>2, SameRowsHold DEF scan, withdraw, withdrawAll, SameOrders
<1>3. QED
  BY <1>1, <1>2, ArmRowsHold DEF Request

LEMMA LiveRowsStep == DeskInv /\ [Next]_vars => LiveRowsHold
<1> SUFFICES ASSUME DeskInv, [Next]_vars PROVE LiveRowsHold
  OBVIOUS
<1>1. CASE \/ \E j \in Timers : deskTick(j)
           \/ ClusterStep \/ Crash \/ UNCHANGED vars
  <2>1. ledger' = ledger
    BY <1>1 DEF deskTick, ClusterStep, Touch, UserDeposits, Land, Drop, Revert, Crash, vars
  <2>2. QED
    BY <2>1, SameRowsHold DEF SameOrders
<1>2. CASE \E j \in Timers : TickStep(j)
  BY <1>2, ScanRowsHold, OrderRowsHold DEF TickStep, Jobs
<1>3. CASE \E j \in Calls : CallStep(j)
  BY <1>3, ScanRowsHold, TransferRowsHold DEF CallStep, Jobs
<1>4. QED
  BY <1>1, <1>2, <1>3, RequestRowsHold DEF Next

(* The open row of a live order is taken only by the fill of its name or   *)
(* by RECORDS_CAP newer rows, for every number of orders, jobs and rows    *)
(* (rememberArm, recordArmResult, disarm).                                 *)
THEOREM LiveRowsStayOpen == Spec => LiveRowsStay
<1>1. DeskInv /\ [Next]_vars =>
         [\A a \in ledger'.arms :
             IF a \notin ledger.arms THEN Open(ledger'.armRecords, a) # {}
             ELSE \A r \in Open(ledger.armRecords, a) :
                     \/ Open(ledger'.armRecords, a) # {}
                     \/ \E j \in Timers : job'[j].pc = "disarm" /\ SameName(job'[j].order, a)
                     \/ Cardinality(Newer(ledger'.armRecords, r)) >= RECORDS_CAP]_vars
  BY LiveRowsStep DEF LiveRowsHold, FilledNow, Pushed
<1>2. QED
  BY <1>1, DeskInvAlways, PTL DEF Spec, LiveRowsStay

-----------------------------------------------------------------------------
(* Withdrawals and swaps.  What most actions do about them: the debits     *)
(* stay, no transfer starts to wait for its confirmation, no order or swap *)
(* is added, and a swap that was being settled still is, or is recorded as *)
(* a fault, or its order is gone.                                          *)
SentStages == {"settle", "record", "disarm"}

(* The orders a tick holds, and all of them.                               *)
OrdersOf(b) == b.orders \cup (IF b.pc \in OrderStages THEN {b.order} ELSE {})

Orders == ledger.arms \cup UNION {OrdersOf(job[j]) : j \in Timers}

DebitsRest ==
    /\ ledger'.withdrawals = ledger.withdrawals /\ Grows(txs, txs')
    /\ \A j \in Calls : job'[j].pc = "confirm" => job'[j] = job[j]

SwapsRest ==
    /\ Orders' \subseteq Orders /\ clock' = clock /\ faults \subseteq faults'
    /\ \A i \in DOMAIN txs' : (i \in DOMAIN txs /\ txs'[i].order = txs[i].order) \/ txs'[i].order = 0
    /\ \A j \in Timers : job[j].pc \in SentStages =>
          \/ job'[j].pc \in SentStages /\ job'[j].sig = job[j].sig /\ job'[j].order = job[j].order
          \/ \E f \in faults' : f.sig = job[j].sig /\ f.order = job[j].order
          \/ job[j].order \in Orders \ Orders'

Rests == DebitsRest /\ SwapsRest

(* A tick that moves on.                                                   *)
LEMMA TimerRests ==
    ASSUME DeskInv, NEW j \in Timers, NEW next, Goto(j, next),
           ledger'.withdrawals = ledger.withdrawals, ledger'.arms \subseteq ledger.arms,
           OrdersOf(next) \subseteq Orders, UNCHANGED <<clock, txs>>, faults \subseteq faults',
           job[j].pc \in SentStages =>
              \/ next.pc \in SentStages /\ next.sig = job[j].sig /\ next.order = job[j].order
              \/ \E f \in faults' : f.sig = job[j].sig /\ f.order = job[j].order
              \/ job[j].order \in Orders \ Orders'
    PROVE  Rests
<1>1. job'[j] = next /\ \A k \in Jobs \ {j} : job'[k] = job[k]
  BY DEF Goto, DeskInv, JobsInv, Jobs
<1>2. \A k \in Calls : job'[k] = job[k]
  BY <1>1, Apart
<1>3. Orders' \subseteq Orders
  <2>1. \A k \in Timers : OrdersOf(job'[k]) \subseteq Orders
    BY <1>1 DEF Orders, Jobs
  <2>2. QED
    BY <2>1 DEF Orders
<1>4. DebitsRest
  BY <1>2, GrowsNot DEF DebitsRest
<1>5. \A k \in Timers : job[k].pc \in SentStages =>
          \/ job'[k].pc \in SentStages /\ job'[k].sig = job[k].sig /\ job'[k].order = job[k].order
          \/ \E f \in faults' : f.sig = job[k].sig /\ f.order = job[k].order
          \/ job[k].order \in Orders \ Orders'
  <2> SUFFICES ASSUME NEW k \in Timers, job[k].pc \in SentStages
      PROVE \/ job'[k].pc \in SentStages /\ job'[k].sig = job[k].sig /\ job'[k].order = job[k].order
            \/ \E f \in faults' : f.sig = job[k].sig /\ f.order = job[k].order
            \/ job[k].order \in Orders \ Orders'
    OBVIOUS
  <2>1. CASE k = j
    BY <1>1, <2>1
  <2>2. CASE k # j
    BY <1>1, <2>2 DEF Jobs
  <2>3. QED
    BY <2>1, <2>2
<1>6. SwapsRest
  BY <1>3, <1>5 DEF SwapsRest
<1>7. QED
  BY <1>4, <1>6 DEF Rests

(* What no tick does.                                                      *)
LEMMA OthersSwapNothing ==
    ASSUME DeskInv, ledger'.arms \subseteq ledger.arms, \A j \in Timers : job'[j] = job[j],
           UNCHANGED <<clock, faults>>,
           \A i \in DOMAIN txs' : (i \in DOMAIN txs /\ txs'[i].order = txs[i].order) \/ txs'[i].order = 0
    PROVE  SwapsRest
<1>1. Orders' \subseteq Orders
  BY DEF Orders
<1>2. QED
  BY <1>1 DEF SwapsRest

LEMMA OthersRest ==
    ASSUME DeskInv, ledger'.withdrawals = ledger.withdrawals, ledger'.arms \subseteq ledger.arms,
           \A j \in Timers : job'[j] = job[j],
           \A j \in Calls : job'[j].pc = "confirm" => job'[j] = job[j],
           UNCHANGED <<clock, faults>>, Grows(txs, txs'),
           \A i \in DOMAIN txs' : (i \in DOMAIN txs /\ txs'[i].order = txs[i].order) \/ txs'[i].order = 0
    PROVE  Rests
  BY OthersSwapNothing DEF Rests, DebitsRest

(* A call that moves on, without sending a transfer.                       *)
LEMMA CallRests ==
    ASSUME DeskInv, NEW j \in Calls, NEW next, Goto(j, next), next.pc # "confirm",
           ledger'.withdrawals = ledger.withdrawals, ledger'.arms \subseteq ledger.arms,
           UNCHANGED <<clock, txs, faults>>
    PROVE  Rests
<1>1. job'[j] = next /\ \A k \in Jobs \ {j} : job'[k] = job[k]
  BY DEF Goto, DeskInv, JobsInv, Jobs
<1>2. \A k \in Timers : job'[k] = job[k]
  BY <1>1, Apart DEF Jobs
<1>3. \A k \in Calls : job'[k].pc = "confirm" => job'[k] = job[k]
  BY <1>1 DEF Jobs
<1>4. QED
  BY <1>2, <1>3, GrowsNot, OthersRest

LEMMA ClusterRests == ASSUME DeskInv, ClusterStep PROVE Rests
<1>1. ASSUME UNCHANGED <<ledger, job, busy, clock, crashes, faults>>, Grows(txs, txs'),
             \A i \in DOMAIN txs' : (i \in DOMAIN txs /\ txs'[i].order = txs[i].order)
                                       \/ txs'[i].order = 0
      PROVE  Rests
  BY <1>1, OthersRest
<1>2. ASSUME NEW o \in Owners, NEW n \in Sizes, UserDeposits(o, n)
      PROVE  Rests
  <2>1. Move(Usdc, n) \in Delta /\ Len(txs) < MaxTxs /\ Append1(o, Move(Usdc, n), 0, "landed")
    BY <1>2, DeskAssumption, MoveIsDelta, UsdcIsAsset DEF UserDeposits
  <2>2. /\ Len(txs') = Len(txs) + 1 /\ Len(txs) \in Nat
        /\ DOMAIN txs = 1..Len(txs) /\ DOMAIN txs' = 1..Len(txs') /\ Grows(txs, txs')
        /\ txs'[Len(txs')] = [owner |-> o, delta |-> Move(Usdc, n), order |-> 0,
                              status |-> "landed"]
        /\ \A i \in DOMAIN txs : txs'[i] = txs[i]
    BY <2>1, AppendGrows DEF DeskInv
  <2>3. txs'[Len(txs')].order = 0
    BY <2>2
  <2>4. \A i \in DOMAIN txs' : i \in DOMAIN txs \/ i = Len(txs')
    BY <2>2
  <2>5. QED
    BY <1>1, <1>2, <2>2, <2>3, <2>4 DEF UserDeposits
<1>3. ASSUME NEW o \in Owners, Touch(o)
      PROVE  Rests
  <2>1. NoChange \in Delta /\ Len(txs) < MaxTxs /\ Append1(o, NoChange, 0, "landed")
    BY <1>3, NoChangeIsDelta DEF Touch
  <2>2. /\ Len(txs') = Len(txs) + 1 /\ Len(txs) \in Nat
        /\ DOMAIN txs = 1..Len(txs) /\ DOMAIN txs' = 1..Len(txs') /\ Grows(txs, txs')
        /\ txs'[Len(txs')] = [owner |-> o, delta |-> NoChange, order |-> 0,
                              status |-> "landed"]
        /\ \A i \in DOMAIN txs : txs'[i] = txs[i]
    BY <2>1, AppendGrows DEF DeskInv
  <2>3. txs'[Len(txs')].order = 0
    BY <2>2
  <2>4. \A i \in DOMAIN txs' : i \in DOMAIN txs \/ i = Len(txs')
    BY <2>2
  <2>5. QED
    BY <1>1, <1>3, <2>2, <2>3, <2>4 DEF Touch
<1>4. ASSUME NEW i \in DOMAIN txs, Land(i) \/ Drop(i) \/ Revert(i)
      PROVE  Rests
  BY <1>1, <1>4, StatusGrows DEF Land, Drop, Revert, DeskInv
<1>5. QED
  BY <1>2, <1>3, <1>4 DEF ClusterStep

LEMMA ScanRests ==
    ASSUME DeskInv, NEW j \in Jobs, ScanStep(j)
    PROVE  Rests
<1>0. /\ job[j] \in Job /\ JobOK(j, job[j], txs) /\ ledger \in Ledger /\ LedgerInv(ledger)
      /\ job[j].pc \in {"scan", "hits", "credit"}
  BY DEF DeskInv, JobsInv, LedgerInv, ScanStep, ScanRead, ScanFails, ScanCredit, NothingFound,
         CreditHit
<1>1. ASSUME NEW next, Goto(j, next), next.pc # "confirm", UNCHANGED <<clock, txs, faults>>,
             ledger'.withdrawals = ledger.withdrawals, ledger'.arms = ledger.arms,
             j \in Timers => OrdersOf(next) \subseteq ledger.arms \cup OrdersOf(job[j])
      PROVE  Rests
  <2>1. CASE j \in Calls
    BY <1>1, <2>1, CallRests
  <2>2. CASE j \in Timers
    <3>1. OrdersOf(next) \subseteq Orders
      BY <1>1, <2>2 DEF Orders
    <3>2. job[j].pc \notin SentStages
      BY <1>0 DEF SentStages
    <3>3. QED
      BY <1>1, <2>2, <3>1, <3>2, TimerRests
  <2>3. QED
    BY <2>1, <2>2 DEF Jobs
<1>2. ASSUME NEW o \in Owners, ScanRead(j, o) PROVE Rests
  <2>1. PICK next :
           /\ next = [job[j] EXCEPT !.pc = "hits", !.owner = o, !.owners = @ \ {o},
                                    !.hits = Incoming(o)]
           /\ Goto(j, next)
    BY <1>2 DEF ScanRead
  <2>2. next.pc = "hits" /\ next.orders = job[j].orders
    BY <1>0, <2>1 DEF Job
  <2>3. OrdersOf(next) \subseteq OrdersOf(job[j])
    BY <2>2 DEF OrdersOf, OrderStages
  <2>4. QED
    BY <1>1, <1>2, <2>1, <2>2, <2>3 DEF ScanRead
<1>3. ASSUME ScanFails(j) PROVE Rests
  <2>1. Idle.pc = "idle" /\ OrdersOf(Idle) = {}
    BY DEF Idle, OrdersOf, OrderStages
  <2>2. QED
    BY <1>1, <1>3, <2>1 DEF ScanFails
<1>4. ASSUME NEW rest \in SUBSET job[j].hits, NEW l \in Ledger, l.arms = ledger.arms
      PROVE  /\ AfterCredit(j, rest, l).pc # "confirm"
             /\ j \in Timers =>
                   OrdersOf(AfterCredit(j, rest, l)) \subseteq ledger.arms \cup OrdersOf(job[j])
  <2>0. Idle.pc = "idle" /\ OrdersOf(Idle) = {}
    BY DEF Idle, OrdersOf, OrderStages
  <2>1. CASE rest # {}
    <3>1. PICK next : next = [job[j] EXCEPT !.pc = "credit", !.hits = rest]
      OBVIOUS
    <3>2. next.pc = "credit" /\ next.orders = job[j].orders
      BY <1>0, <3>1 DEF Job
    <3>3. next.pc # "confirm" /\ OrdersOf(next) \subseteq OrdersOf(job[j])
      BY <3>2 DEF OrdersOf, OrderStages
    <3>4. AfterCredit(j, rest, l) = next
      BY <2>1, <3>1 DEF AfterCredit
    <3>5. QED
      BY <3>3, <3>4
  <2>2. CASE rest = {} /\ job[j].owners # {}
    <3>1. PICK next : next = [Idle EXCEPT !.pc = "scan", !.owners = job[j].owners]
                      /\ next.pc = "scan" /\ next.orders = {}
      BY <1>0, ScanOK DEF Job
    <3>2. next.pc # "confirm" /\ OrdersOf(next) = {}
      BY <3>1 DEF OrdersOf, OrderStages
    <3>3. AfterCredit(j, rest, l) = next
      BY <2>2, <3>1 DEF AfterCredit
    <3>4. QED
      BY <3>2, <3>3
  <2>3. CASE rest = {} /\ job[j].owners = {} /\ j \in Timers
    <3>1. AfterCredit(j, rest, l) = TakeOrder(ledger.arms)
      BY <1>4, <2>3 DEF AfterCredit
    <3>2. /\ TakeOrder(ledger.arms).orders \subseteq ledger.arms
          /\ TakeOrder(ledger.arms).pc \in {"idle", "look"}
          /\ TakeOrder(ledger.arms).pc = "look" => TakeOrder(ledger.arms).order \in ledger.arms
      BY <1>0, <2>3, LedgerFields, TakeOrderOK
    <3>3. QED
      BY <3>1, <3>2 DEF OrdersOf, OrderStages
  <2>4. CASE rest = {} /\ job[j].owners = {} /\ j \notin Timers
    BY <2>0, <2>4 DEF AfterCredit
  <2>5. QED
    BY <2>1, <2>2, <2>3, <2>4
<1>5. ASSUME NothingFound(j), UNCHANGED <<clock, txs, crashes, faults>> PROVE Rests
  BY <1>0, <1>1, <1>4, <1>5 DEF NothingFound
<1>6. ASSUME NEW h \in job[j].hits, CreditHit(j, h), UNCHANGED <<clock, txs, crashes, faults>>
      PROVE  Rests
  <2>1. /\ job[j].owner \in Owners /\ h \in Nat /\ txs[h].delta[Usdc] \in Nat
    BY <1>6, HitAmount DEF CreditHit
  <2>2. /\ ledger' \in Ledger /\ ledger'.arms = ledger.arms
        /\ ledger'.withdrawals = ledger.withdrawals
    BY <1>0, <1>6, <2>1, CreditKeeps DEF CreditHit, LedgerInv, SameOrders
  <2>3. QED
    BY <1>1, <1>4, <1>6, <2>2 DEF CreditHit
<1>7. QED
  BY <1>2, <1>3, <1>5, <1>6 DEF ScanStep, ScanCredit

LEMMA NextOrderOrders ==
    ASSUME DeskInv, NEW j \in Timers, job[j].pc \in OrderStages
    PROVE  OrdersOf(TakeOrder(job[j].orders)) \subseteq job[j].orders
<1>1. /\ TakeOrder(job[j].orders).orders \subseteq job[j].orders
      /\ TakeOrder(job[j].orders).pc \in {"idle", "look"}
      /\ TakeOrder(job[j].orders).pc = "look" =>
            TakeOrder(job[j].orders).order \in job[j].orders
  BY OrderJob, TakeOrderOK
<1>2. QED
  BY <1>1 DEF OrdersOf, OrderStages

(* All steps of an order but those that send its swap.                     *)
LEMMA OrderRests ==
    ASSUME DeskInv, NEW j \in Timers, OrderStep(j), ~SwapSent(j), ~AnswerLost(j)
    PROVE  Rests
<1>0. /\ LedgerInv(ledger) /\ ledger \in Ledger /\ job[j].pc \in OrderStages
      /\ UNCHANGED <<clock, txs>>
  BY DEF DeskInv, LedgerInv, OrderStep, Waits, StartSwap, Quote, SwapFails, Settle, SettleFails,
         ReceiptFails, Record, Disarm, OrderStages
<1>1. /\ OrdersOf(job[j]) = job[j].orders \cup {job[j].order} /\ OrdersOf(job[j]) \subseteq Orders
  BY <1>0 DEF OrdersOf, Orders
<1>2. ASSUME NEW next, Goto(j, next), next.pc \in OrderStages, next.order = job[j].order,
             next.orders = job[j].orders, faults' = faults,
             ledger'.withdrawals = ledger.withdrawals, ledger'.arms = ledger.arms,
             job[j].pc \in SentStages => next.pc \in SentStages /\ next.sig = job[j].sig
      PROVE  Rests
  <2>1. OrdersOf(next) \subseteq Orders
    BY <1>1, <1>2 DEF OrdersOf
  <2>2. QED
    BY <1>0, <1>2, <2>1, TimerRests
<1>3. ASSUME NextOrder(j), ledger'.withdrawals = ledger.withdrawals, ledger'.arms \subseteq ledger.arms,
             faults \subseteq faults',
             job[j].pc \in SentStages =>
                \/ \E f \in faults' : f.sig = job[j].sig /\ f.order = job[j].order
                \/ job[j].order \in Orders \ Orders'
      PROVE  Rests
  BY <1>0, <1>1, <1>3, NextOrderOrders, TimerRests DEF NextOrder
<1>4. ASSUME Failed(j)
      PROVE  /\ ledger'.withdrawals = ledger.withdrawals /\ ledger'.arms = ledger.arms
             /\ NextOrder(j)
  BY <1>0, <1>4, OrderJob, RecordKeeps DEF Failed, NoSig, SameMoney
<1>5. ASSUME Waits(j) PROVE Rests
  BY <1>0, <1>3, <1>5 DEF Waits, SentStages
<1>6. ASSUME StartSwap(j) PROVE Rests
  <2>1. PICK next : /\ next = [job[j] EXCEPT !.pc = "quote", !.usd = SwapSize(job[j].order)]
                    /\ Goto(j, next)
    BY <1>6 DEF StartSwap
  <2>2. /\ next.pc = "quote" /\ next.order = job[j].order /\ next.orders = job[j].orders
    BY <1>0, <2>1, OrderJob DEF Job
  <2>3. QED
    BY <1>2, <1>6, <2>1, <2>2 DEF StartSwap, SentStages, OrderStages
<1>7. ASSUME Quote(j) PROVE Rests
  <2>1. PICK d : Goto(j, [job[j] EXCEPT !.pc = "swap", !.delta = d])
    BY <1>7 DEF Quote
  <2>2. PICK next : next = [job[j] EXCEPT !.pc = "swap", !.delta = d]
    OBVIOUS
  <2>3. /\ next.pc = "swap" /\ next.order = job[j].order /\ next.orders = job[j].orders
    BY <1>0, <2>2, OrderJob DEF Job
  <2>4. QED
    BY <1>2, <1>7, <2>1, <2>2, <2>3 DEF Quote, SentStages, OrderStages
<1>8. ASSUME SwapFails(j) PROVE Rests
  BY <1>3, <1>4, <1>8 DEF SwapFails, SentStages
<1>9. ASSUME Settle(j) PROVE Rests
  <2>1. PICK next : next = [job[j] EXCEPT !.pc = "record"] /\ Goto(j, next)
    BY <1>9 DEF Settle
  <2>2. /\ next.pc = "record" /\ next.order = job[j].order /\ next.orders = job[j].orders
        /\ next.sig = job[j].sig
    BY <1>0, <2>1, OrderJob DEF Job
  <2>3. ledger'.withdrawals = ledger.withdrawals /\ ledger'.arms = ledger.arms
    BY <1>0, <1>9, OrderJob, FillKeeps DEF Settle, Delta, SameOrders
  <2>4. QED
    BY <1>2, <1>9, <2>1, <2>2, <2>3 DEF Settle, SentStages, OrderStages
<1>10. ASSUME SettleFails(j) \/ ReceiptFails(j) PROVE Rests
  <2>1. PICK after : Failed(j) /\ Stopped(j, job[j].sig, after)
    BY <1>10 DEF SettleFails, ReceiptFails
  <2>2. faults \subseteq faults' /\ \E f \in faults' : f.sig = job[j].sig /\ f.order = job[j].order
    <3>1. /\ faults \subseteq faults'
          /\ [order |-> job[j].order, sig |-> job[j].sig, after |-> after] \in faults'
      BY <2>1 DEF Stopped
    <3>2. QED
      BY <3>1
  <2>3. QED
    BY <1>3, <1>4, <2>1, <2>2
<1>11. ASSUME Record(j) PROVE Rests
  <2>1. PICK next : next = [job[j] EXCEPT !.pc = "disarm"] /\ Goto(j, next)
    BY <1>11 DEF Record
  <2>2. /\ next.pc = "disarm" /\ next.order = job[j].order /\ next.orders = job[j].orders
        /\ next.sig = job[j].sig
    BY <1>0, <2>1, OrderJob DEF Job
  <2>3. ledger'.withdrawals = ledger.withdrawals /\ ledger'.arms = ledger.arms
    BY <1>0, <1>11, OrderJob, RecordKeeps DEF Record, SameMoney
  <2>4. QED
    BY <1>2, <1>11, <2>1, <2>2, <2>3 DEF Record, SentStages, OrderStages
<1>12. ASSUME Disarm(j) PROVE Rests
  <2>1. /\ ledger'.withdrawals = ledger.withdrawals
        /\ ledger'.arms = {a \in ledger.arms :
                             a.owner = job[j].order.owner => a.ticker # job[j].order.ticker}
    BY <1>0, <1>12, OrderJob, DisarmKeeps DEF Disarm, SameMoney
  <2>2. job[j].order \notin ledger'.arms
    BY <2>1
  <2>3. ASSUME NEW k \in Timers PROVE job[j].order \notin OrdersOf(job'[k])
    <3>1. CASE k = j
      <4>1. job'[k] = TakeOrder(job[j].orders)
        BY <1>0, <1>12, <3>1, OrderJob DEF Disarm, NextOrder, Goto, DeskInv, JobsInv
      <4>2. QED
        BY <1>0, <4>1, OrderJob, NextOrderOrders
    <3>2. CASE k # j
      <4>1. job'[k] = job[k]
        BY <1>12, <3>2 DEF Disarm, NextOrder, Goto, DeskInv, JobsInv, Jobs
      <4>2. job[k] = Idle
        BY <1>0, <3>2, OrderJob DEF DeskInv, JobsInv
      <4>3. QED
        BY <4>1, <4>2 DEF OrdersOf, Idle, OrderStages
    <3>3. QED
      BY <3>1, <3>2
  <2>4. job[j].order \in Orders \ Orders'
    BY <1>1, <2>2, <2>3 DEF Orders
  <2>5. QED
    BY <1>3, <1>12, <2>1, <2>4 DEF Disarm
<1>13. QED
  BY <1>5, <1>6, <1>7, <1>8, <1>9, <1>10, <1>11, <1>12 DEF OrderStep

LEMMA TickStartRests == ASSUME DeskInv, NEW j \in Timers, deskTick(j) PROVE Rests
<1>1. PICK next : next = [Idle EXCEPT !.pc = "scan", !.owners = Owners]
                  /\ next.pc = "scan" /\ next.orders = {}
  BY ScanOK
<1>2. /\ job' = [job EXCEPT ![j] = next] /\ job[j] = Idle
      /\ UNCHANGED <<ledger, clock, txs, faults>>
  BY <1>1 DEF deskTick
<1>3. job'[j] = next /\ \A k \in Jobs \ {j} : job'[k] = job[k]
  BY <1>2 DEF DeskInv, JobsInv, Jobs
<1>4. OrdersOf(next) = {} /\ Idle.pc = "idle"
  BY <1>1 DEF OrdersOf, OrderStages, Idle
<1>5. \A k \in Calls : job'[k] = job[k]
  BY <1>3, Apart
<1>6. Orders' \subseteq Orders
  <2>1. \A k \in Timers : OrdersOf(job'[k]) \subseteq Orders
    BY <1>3, <1>4 DEF Orders, Jobs
  <2>2. QED
    BY <1>2, <2>1 DEF Orders
<1>7. \A k \in Timers : job[k].pc \in SentStages => job'[k] = job[k]
  BY <1>2, <1>3, <1>4 DEF Jobs, SentStages
<1>8. QED
  BY <1>2, <1>5, <1>6, <1>7, GrowsNot DEF Rests, DebitsRest, SwapsRest

LEMMA CrashRests == ASSUME DeskInv, Crash PROVE Rests
<1>1. /\ \A j \in Jobs : job'[j] = Idle
      /\ UNCHANGED <<ledger, clock, txs>> /\ faults \subseteq faults'
  BY DEF Crash
<1>2. Orders' \subseteq Orders
  BY <1>1 DEF Orders, OrdersOf, Idle, OrderStages, Jobs
<1>3. \A j \in Calls : job'[j].pc # "confirm"
  BY <1>1 DEF Idle, Jobs
<1>4. \A j \in Timers : job[j].pc \in SentStages =>
          \E f \in faults' : f.sig = job[j].sig /\ f.order = job[j].order
  <2> SUFFICES ASSUME NEW j \in Timers, job[j].pc \in SentStages
               PROVE  \E f \in faults' : f.sig = job[j].sig /\ f.order = job[j].order
    OBVIOUS
  <2>1. j \in Jobs /\ job[j].pc \in DOMAIN Stages
    BY DEF Jobs, Stages, SentStages
  <2>2. [order |-> job[j].order, sig |-> job[j].sig, after |-> Stages[job[j].pc]] \in faults'
    BY <2>1 DEF Crash
  <2>3. QED
    BY <2>2
<1>5. QED
  BY <1>1, <1>2, <1>3, <1>4, GrowsNot DEF Rests, DebitsRest, SwapsRest

(* All requests but arming.                                                *)
LEMMA RequestRests ==
    ASSUME DeskInv, NEW o \in Owners, Request(o),
           ~\E t \in Tickers, side \in ArmSides, usd \in Sizes : arm(o, t, side, usd)
    PROVE  Rests
<1>1. ASSUME NEW tickers, DisarmRequest(o, tickers) PROVE Rests
  <2>1. ledger'.withdrawals = ledger.withdrawals /\ ledger'.arms \subseteq ledger.arms
    BY <1>1, DisarmKeeps DEF DisarmRequest, DeskInv, SameMoney
  <2>2. UNCHANGED <<job, clock, txs, faults>>
    BY <1>1 DEF DisarmRequest
  <2>3. QED
    BY <2>1, <2>2, GrowsNot, OthersRest
<1>2. ASSUME NEW j \in Calls, NEW owners \in SUBSET Owners, scan(j, owners) PROVE Rests
  <2>1. PICK next : next = [Idle EXCEPT !.pc = "scan", !.owners = owners]
                    /\ next.pc = "scan"
    BY ScanOK
  <2>2. QED
    BY <1>2, <2>1, CallRests DEF scan
<1>3. ASSUME NEW j \in Calls, NEW a \in Assets, NEW n \in Sizes, withdraw(j, o, a, n)
      PROVE  Rests
  <2>1. PICK next : /\ next = [Idle EXCEPT !.pc = "transfer", !.owner = o, !.asset = a,
                                           !.delta = Move(a, -n)]
                    /\ Goto(j, next)
    BY <1>3 DEF withdraw
  <2>2. next.pc = "transfer"
    BY <2>1 DEF Idle
  <2>3. QED
    BY <1>3, <2>1, <2>2, CallRests DEF withdraw
<1>4. ASSUME NEW j \in Calls, withdrawAll(j, o) PROVE Rests
  <2>1. PICK next, held : /\ next = [Idle EXCEPT !.pc = "sweep", !.owner = o, !.assets = held,
                                                 !.all = TRUE]
                          /\ Goto(j, next)
    BY <1>4 DEF withdrawAll
  <2>2. next.pc = "sweep"
    BY <2>1 DEF Idle
  <2>3. QED
    BY <1>4, <2>1, <2>2, CallRests DEF withdrawAll
<1>5. {o} \in SUBSET Owners /\ Owners \in SUBSET Owners
  OBVIOUS
<1>6. QED
  BY <1>1, <1>2, <1>3, <1>4, <1>5 DEF Request

-----------------------------------------------------------------------------
(* A debit is of a transfer that landed, a transfer that waits for its     *)
(* confirmation is not debited yet, and no two wait for the same one.      *)
Debited(w, t) ==
    /\ w.sig \in DOMAIN t /\ t[w.sig].owner = w.owner /\ t[w.sig].status = "landed"
    /\ t[w.sig].delta[w.asset] < 0 /\ t[w.sig].order = 0

Confirming == {j \in Calls : job[j].pc = "confirm"}

DebitsInv ==
    /\ \A k \in DOMAIN ledger.withdrawals : Debited(ledger.withdrawals[k], txs)
    /\ \A i, k \in DOMAIN ledger.withdrawals :
          ledger.withdrawals[i].sig = ledger.withdrawals[k].sig => i = k
    /\ \A j \in Confirming : \A k \in DOMAIN ledger.withdrawals :
          ledger.withdrawals[k].sig # job[j].sig
    /\ \A i, j \in Confirming : job[i].sig = job[j].sig => i = j

(* What was debited rightly stays so.                                      *)
LEMMA DebitedStays ==
    ASSUME NEW w, NEW t, NEW u, Debited(w, t), Grows(t, u)
    PROVE  Debited(w, u)
  BY DEF Debited, Grows

LEMMA DebitsRestKeeps ==
    ASSUME DebitsInv, DebitsRest
    PROVE  DebitsInv'
<1>1. /\ Confirming' \subseteq Confirming /\ \A j \in Confirming' : job'[j] = job[j]
      /\ ledger'.withdrawals = ledger.withdrawals /\ Grows(txs, txs')
  BY DEF DebitsRest, Confirming
<1>2. QED
  BY <1>1, DebitedStays DEF DebitsInv

LEMMA SendDebits ==
    ASSUME DeskInv, DebitsInv, NEW j \in Calls, sendTokens(j)
    PROVE  DebitsInv' /\ SwapsRest
<1>1. /\ job[j].pc = "transfer" /\ job[j] \in Job /\ job[j].owner \in Owners
      /\ job[j].delta \in Delta
  BY TransferJob DEF sendTokens
<1>2. PICK n \in Nat : n = Len(txs)
  BY LenProperties DEF DeskInv, WorldInv
<1>3. /\ Len(txs') = n + 1 /\ DOMAIN txs = 1..n /\ DOMAIN txs' = 1..(n + 1) /\ Grows(txs, txs')
      /\ txs'[n + 1] = [owner |-> job[j].owner, delta |-> job[j].delta, order |-> 0,
                        status |-> "sent"]
      /\ \A i \in DOMAIN txs : txs'[i] = txs[i]
  <2>1. Len(txs) < MaxTxs /\ Append1(job[j].owner, job[j].delta, 0, "sent")
    BY DEF sendTokens, Send
  <2>2. /\ Len(txs') = Len(txs) + 1 /\ DOMAIN txs = 1..Len(txs) /\ DOMAIN txs' = 1..Len(txs')
        /\ Grows(txs, txs')
        /\ txs'[Len(txs')] = [owner |-> job[j].owner, delta |-> job[j].delta,
                              order |-> 0, status |-> "sent"]
        /\ \A i \in DOMAIN txs : txs'[i] = txs[i]
    BY <1>1, <2>1, AppendGrows DEF DeskInv
  <2>3. QED
    BY <1>2, <2>2
<1>4. PICK next : /\ next = [job[j] EXCEPT !.pc = "confirm", !.sig = n + 1]
                  /\ Goto(j, next)
  BY <1>2, <1>3 DEF sendTokens
<1>5. next.sig = n + 1
  BY <1>1, <1>4 DEF Job
<1>6. job'[j] = next /\ \A k \in Jobs \ {j} : job'[k] = job[k]
  BY <1>4 DEF Goto, DeskInv, JobsInv, Jobs
<1>7. \A i \in Confirming : job[i].sig \in 1..n
  BY <1>3 DEF Confirming, DeskInv, JobsInv, JobOK, Jobs
<1>8. \A k \in DOMAIN ledger.withdrawals : ledger.withdrawals[k].sig \in 1..n
  BY <1>3 DEF DebitsInv, Debited
<1>9. ~(n + 1 \in 1..n)
  OBVIOUS
<1>10. DebitsInv'
  <2>1. /\ ledger' = ledger /\ Confirming' \subseteq Confirming \cup {j}
        /\ \A i \in Confirming' : i # j => i \in Confirming /\ job'[i].sig = job[i].sig
        /\ job'[j].sig = n + 1
    BY <1>5, <1>6 DEF sendTokens, Confirming, Jobs
  <2>2. \A k \in DOMAIN ledger'.withdrawals : Debited(ledger'.withdrawals[k], txs')
    BY <1>3, <2>1, DebitedStays DEF DebitsInv
  <2>3. \A i \in Confirming' : \A k \in DOMAIN ledger'.withdrawals :
          ledger'.withdrawals[k].sig # job'[i].sig
    <3>1. \A k \in DOMAIN ledger.withdrawals : ledger.withdrawals[k].sig # n + 1
      BY <1>8, <1>9
    <3>2. ASSUME NEW i \in Confirming', NEW k \in DOMAIN ledger'.withdrawals
          PROVE  ledger'.withdrawals[k].sig # job'[i].sig
      <4>1. k \in DOMAIN ledger.withdrawals /\ ledger'.withdrawals[k] = ledger.withdrawals[k]
        BY <2>1
      <4>2. CASE i = j
        BY <2>1, <3>1, <4>1, <4>2
      <4>3. CASE i # j
        BY <2>1, <4>1, <4>3 DEF DebitsInv
      <4>4. QED
        BY <4>2, <4>3
    <3>3. QED
      BY <3>2
  <2>4. \A i, k \in Confirming' : job'[i].sig = job'[k].sig => i = k
    <3>1. \A i \in Confirming : job[i].sig # n + 1
      BY <1>7, <1>9
    <3>2. QED
      BY <2>1, <3>1 DEF DebitsInv
  <2>5. QED
    BY <2>1, <2>2, <2>3, <2>4 DEF DebitsInv
<1>11. SwapsRest
  <2>1. \A i \in DOMAIN txs' : (i \in DOMAIN txs /\ txs'[i].order = txs[i].order) \/ txs'[i].order = 0
    <3>1. txs'[n + 1].order = 0
      BY <1>3
    <3>2. \A i \in DOMAIN txs' : i \in DOMAIN txs \/ i = n + 1
      BY <1>3
    <3>3. QED
      BY <1>3, <3>1, <3>2
  <2>2. \A k \in Timers : job'[k] = job[k]
    BY <1>6, Apart DEF Jobs
  <2>3. UNCHANGED <<ledger, clock, faults>>
    BY DEF sendTokens
  <2>4. QED
    BY <2>1, <2>2, <2>3, OthersSwapNothing
<1>12. QED
  BY <1>10, <1>11

LEMMA ConfirmDebits ==
    ASSUME DeskInv, DebitsInv, NEW j \in Calls, Confirm(j)
    PROVE  DebitsInv' /\ SwapsRest
<1>1. /\ job[j].pc = "confirm" /\ job[j] \in Job /\ job[j].owner \in Owners /\ j \in Jobs
      /\ job[j].delta \in Delta /\ job[j].asset \in Assets /\ job[j].sig \in Nat
      /\ job[j].delta[job[j].asset] < 0
  BY TransferJob DEF Confirm, Job
<1>2. /\ job[j].sig \in DOMAIN txs /\ txs[job[j].sig].order = 0
      /\ txs[job[j].sig].owner = job[j].owner /\ txs[job[j].sig].delta = job[j].delta
      /\ txs[job[j].sig].status = "landed"
  BY <1>1 DEF Confirm, DeskInv, JobsInv, JobOK
<1>3. job'[j] = AfterTransfer(j) /\ \A k \in Jobs \ {j} : job'[k] = job[k]
  BY <1>1 DEF Confirm, Goto, DeskInv, JobsInv
<1>4. AfterTransfer(j).pc # "confirm"
  <2>1. PICK next : next = [Idle EXCEPT !.pc = "sweep", !.owner = job[j].owner,
                                        !.assets = job[j].assets, !.all = TRUE]
    OBVIOUS
  <2>2. next.pc = "sweep" /\ Idle.pc = "idle"
    BY <2>1 DEF Idle
  <2>3. QED
    BY <2>1, <2>2 DEF AfterTransfer
<1>5. \A i \in Confirming' : i # j /\ i \in Confirming /\ job'[i].sig = job[i].sig
  BY <1>3, <1>4 DEF Confirming, Jobs
<1>6. j \in Confirming /\ UNCHANGED <<clock, txs, faults>> /\ ledger \in Ledger /\ LedgerInv(ledger)
  BY <1>1 DEF Confirming, Confirm, DeskInv, LedgerInv
<1>7. CASE Owed(j) > 0 /\ CanDebit(ledger, job[j].owner, job[j].asset, Owed(j))
  <2>1. Owed(j) \in Int
    BY <1>1, <1>6, LedgerFields DEF Owed, Delta
  <2>2. PICK n \in Nat : n = Owed(j)
    BY <1>7, <2>1
  <2>3. PICK w : w = [owner |-> job[j].owner, asset |-> job[j].asset, amount |-> n,
                      sig |-> job[j].sig]
    OBVIOUS
  <2>4. w \in Withdrawal /\ Debited(w, txs') /\ w.sig = job[j].sig
    BY <1>1, <1>2, <1>6, <2>3 DEF Withdrawal, Debited
  <2>5. ledger'.withdrawals = Append(ledger.withdrawals, w) /\ ledger'.arms = ledger.arms
    <3>1. ledger' = debitWithdraw(ledger, job[j].owner, job[j].asset, n, job[j].sig)
      BY <1>7, <2>2 DEF Confirm
    <3>2. CanDebit(ledger, job[j].owner, job[j].asset, n)
      BY <1>7, <2>2
    <3>3. QED
      BY <1>1, <1>6, <2>3, <3>1, <3>2, DebitKeeps DEF SameOrders
  <2>6. PICK d \in Nat : d = Len(ledger.withdrawals)
    BY <1>6, LedgerFields, LenProperties
  <2>7. /\ DOMAIN ledger.withdrawals = 1..d /\ DOMAIN ledger'.withdrawals = 1..(d + 1)
        /\ ledger'.withdrawals[d + 1] = w
        /\ \A k \in 1..d : ledger'.withdrawals[k] = ledger.withdrawals[k]
    BY <1>6, <2>4, <2>5, <2>6, LedgerFields, AppendProperties, LenProperties
  <2>8. \A k \in DOMAIN ledger'.withdrawals : k \in DOMAIN ledger.withdrawals \/ k = d + 1
    BY <2>7
  <2>9. \A k \in DOMAIN ledger.withdrawals : ledger.withdrawals[k].sig # w.sig
    BY <1>6, <2>4 DEF DebitsInv
  <2>10. \A k \in DOMAIN ledger.withdrawals : ledger'.withdrawals[k] = ledger.withdrawals[k]
    BY <2>7
  <2>11. \A k \in DOMAIN ledger'.withdrawals : Debited(ledger'.withdrawals[k], txs')
    BY <1>6, <2>4, <2>7, <2>8, <2>10 DEF DebitsInv
  <2>12. \A i, k \in DOMAIN ledger'.withdrawals :
          ledger'.withdrawals[i].sig = ledger'.withdrawals[k].sig => i = k
    BY <2>7, <2>8, <2>9, <2>10 DEF DebitsInv
  <2>13. \A i \in Confirming' : \A k \in DOMAIN ledger'.withdrawals :
          ledger'.withdrawals[k].sig # job'[i].sig
    <3>1. \A i \in Confirming' : job'[i].sig = job[i].sig /\ i \in Confirming /\ job[i].sig # w.sig
      BY <1>5, <1>6, <2>4 DEF DebitsInv
    <3>2. \A i \in Confirming' : \A k \in DOMAIN ledger.withdrawals :
             ledger.withdrawals[k].sig # job'[i].sig
      BY <3>1 DEF DebitsInv
    <3>3. QED
      BY <2>7, <2>8, <2>10, <3>1, <3>2
  <2>14. \A i, k \in Confirming' : job'[i].sig = job'[k].sig => i = k
    BY <1>5 DEF DebitsInv
  <2>15. DebitsInv'
    BY <2>11, <2>12, <2>13, <2>14 DEF DebitsInv
  <2>16. \A k \in Timers : job'[k] = job[k]
    BY <1>3, Apart DEF Jobs
  <2>17. QED
    BY <1>6, <2>5, <2>15, <2>16, OthersSwapNothing
<1>8. CASE ~(Owed(j) > 0 /\ CanDebit(ledger, job[j].owner, job[j].asset, Owed(j)))
  <2>1. ledger' = ledger
    BY <1>8 DEF Confirm
  <2>2. Rests
    BY <1>4, <1>6, <2>1, CallRests DEF Confirm
  <2>3. QED
    BY <2>2, DebitsRestKeeps DEF Rests
<1>9. QED
  BY <1>7, <1>8

(* The other steps of a withdrawal.                                        *)
LEMMA TransferRests ==
    ASSUME DeskInv, NEW j \in Calls, SweepRead(j) \/ TransferFails(j)
    PROVE  Rests
<1>1. ASSUME SweepRead(j) PROVE Rests
  <2>0. PICK a \in job[j].assets, n \in Nat : \E rest, next :
           /\ rest = [job[j] EXCEPT !.assets = @ \ {a}]
           /\ next = IF n > 0
                     THEN [rest EXCEPT !.pc = "transfer", !.asset = a, !.delta = Move(a, -n)]
                     ELSE IF rest.assets = {} THEN Idle ELSE rest
           /\ Goto(j, next)
    BY <1>1 DEF SweepRead
  <2>1. PICK rest, next :
           /\ rest = [job[j] EXCEPT !.assets = @ \ {a}]
           /\ next = IF n > 0
                     THEN [rest EXCEPT !.pc = "transfer", !.asset = a, !.delta = Move(a, -n)]
                     ELSE IF rest.assets = {} THEN Idle ELSE rest
           /\ Goto(j, next)
    BY <2>0
  <2>2. job[j].pc = "sweep" /\ job[j] \in Job
    BY <1>1, TransferJob DEF SweepRead
  <2>3. rest \in Job /\ rest.pc = "sweep"
    BY <2>1, <2>2, TransferJob DEF Job
  <2>4. [rest EXCEPT !.pc = "transfer", !.asset = a, !.delta = Move(a, -n)].pc = "transfer"
    BY <2>3 DEF Job
  <2>5. next.pc # "confirm"
    BY <2>1, <2>3, <2>4, StageNotIdle DEF Idle
  <2>6. QED
    BY <1>1, <2>1, <2>5, CallRests DEF SweepRead
<1>2. ASSUME TransferFails(j) PROVE Rests
  <2>1. PICK next : next = AfterTransfer(j) /\ Goto(j, next)
    BY <1>2 DEF TransferFails
  <2>2. PICK sweep : sweep = [Idle EXCEPT !.pc = "sweep", !.owner = job[j].owner,
                                          !.assets = job[j].assets, !.all = TRUE]
    OBVIOUS
  <2>3. sweep.pc = "sweep" /\ Idle.pc = "idle"
    BY <2>2 DEF Idle
  <2>4. next.pc # "confirm"
    BY <2>1, <2>2, <2>3 DEF AfterTransfer
  <2>5. QED
    BY <1>2, <2>1, <2>4, CallRests DEF TransferFails
<1>3. QED
  BY <1>1, <1>2

(* What a step does about withdrawals and swaps.                           *)
LEMMA StepCases ==
    ASSUME DeskInv, [Next]_vars
    PROVE  \/ Rests
           \/ \E j \in Calls : sendTokens(j) \/ Confirm(j)
           \/ \E j \in Timers : SwapSent(j) \/ AnswerLost(j)
           \/ \E o \in Owners, t \in Tickers, side \in ArmSides, usd \in Sizes : arm(o, t, side, usd)
<1>1. CASE UNCHANGED vars
  <2>1. Rests
    BY <1>1, GrowsNot, OthersRest DEF vars
  <2>2. QED
    BY <2>1
<1>2. ASSUME NEW j \in Timers, TickStep(j)
      PROVE  Rests \/ SwapSent(j) \/ AnswerLost(j)
  BY <1>2, ScanRests, OrderRests DEF TickStep, Jobs
<1>3. ASSUME NEW j \in Calls, CallStep(j)
      PROVE  Rests \/ sendTokens(j) \/ Confirm(j)
  BY <1>3, ScanRests, TransferRests DEF CallStep, TransferStep, Jobs
<1>4. ASSUME NEW o \in Owners, Request(o)
      PROVE  Rests \/ \E t \in Tickers, side \in ArmSides, usd \in Sizes : arm(o, t, side, usd)
  BY <1>4, RequestRests
<1>5. QED
  BY <1>1, <1>2, <1>3, <1>4, TickStartRests, ClusterRests, CrashRests DEF Next

-----------------------------------------------------------------------------
(* Every swap of an order is recorded as a fault, or being settled, or its *)
(* order is gone; so a tick that sends one finds only faults before it.    *)
Faulted(i) == \E f \in faults : f.sig = i /\ f.order.createdAt = txs[i].order

InHand(i) ==
    \E j \in Timers :
        job[j].pc \in SentStages /\ job[j].sig = i /\ job[j].order.createdAt = txs[i].order

Gone(i) == \A x \in Orders : x.createdAt # txs[i].order

OrdersDiffer ==
    /\ \A x \in Orders : x.createdAt \in 1..clock
    /\ \A x, y \in Orders : x.createdAt = y.createdAt => x = y

SwapsInv ==
    /\ OrdersDiffer
    /\ \A i \in DOMAIN txs : txs[i].order # 0 =>
          txs[i].order <= clock /\ (Faulted(i) \/ InHand(i) \/ Gone(i))
    /\ \A i, k \in DOMAIN txs :
          (i < k /\ txs[i].order = txs[k].order /\ txs[i].order # 0) => Faulted(i)

(* A fault stays recorded, and an order that is gone stays gone.           *)
LEMMA FaultedStays ==
    ASSUME NEW i, Faulted(i), faults \subseteq faults', txs'[i].order = txs[i].order
    PROVE  Faulted(i)'
  BY DEF Faulted

LEMMA GoneStays ==
    ASSUME NEW i, Gone(i), Orders' \subseteq Orders, txs'[i].order = txs[i].order
    PROVE  Gone(i)'
  BY DEF Gone

LEMMA SwapsRestKeeps ==
    ASSUME DeskInv, SwapsInv, SwapsRest
    PROVE  SwapsInv'
<1>1. /\ Orders' \subseteq Orders /\ clock' = clock /\ faults \subseteq faults'
      /\ \A i \in DOMAIN txs' : txs'[i].order # 0 =>
            i \in DOMAIN txs /\ txs'[i].order = txs[i].order
  BY DEF SwapsRest
<1>2. OrdersDiffer'
  BY <1>1 DEF SwapsInv, OrdersDiffer
<1>3. ASSUME NEW i \in DOMAIN txs, InHand(i), txs'[i].order = txs[i].order
      PROVE  Faulted(i)' \/ InHand(i)' \/ Gone(i)'
  <2>1. PICK j \in Timers :
           job[j].pc \in SentStages /\ job[j].sig = i /\ job[j].order.createdAt = txs[i].order
    BY <1>3 DEF InHand
  <2>2. CASE job'[j].pc \in SentStages /\ job'[j].sig = job[j].sig /\ job'[j].order = job[j].order
    BY <1>3, <2>1, <2>2 DEF InHand
  <2>3. CASE \E f \in faults' : f.sig = job[j].sig /\ f.order = job[j].order
    BY <1>3, <2>1, <2>3 DEF Faulted
  <2>4. CASE job[j].order \in Orders \ Orders'
    BY <1>1, <1>3, <2>1, <2>4 DEF Gone, SwapsInv, OrdersDiffer
  <2>5. QED
    BY <2>1, <2>2, <2>3, <2>4 DEF SwapsRest
<1>4. ASSUME NEW i \in DOMAIN txs', txs'[i].order # 0
      PROVE  txs'[i].order <= clock' /\ (Faulted(i)' \/ InHand(i)' \/ Gone(i)')
  <2>1. i \in DOMAIN txs /\ txs'[i].order = txs[i].order /\ txs[i].order # 0
    BY <1>1, <1>4
  <2>2. txs[i].order <= clock /\ (Faulted(i) \/ InHand(i) \/ Gone(i))
    BY <2>1 DEF SwapsInv
  <2>3. QED
    BY <1>1, <1>3, <2>1, <2>2, FaultedStays, GoneStays
<1>5. ASSUME NEW i \in DOMAIN txs', NEW k \in DOMAIN txs', i < k,
             txs'[i].order = txs'[k].order, txs'[i].order # 0
      PROVE  Faulted(i)'
  <2>1. /\ i \in DOMAIN txs /\ k \in DOMAIN txs
        /\ txs'[i].order = txs[i].order /\ txs'[k].order = txs[k].order
    BY <1>1, <1>5
  <2>2. Faulted(i)
    BY <1>5, <2>1 DEF SwapsInv
  <2>3. QED
    BY <1>1, <2>1, <2>2, FaultedStays
<1>6. QED
  BY <1>2, <1>4, <1>5 DEF SwapsInv

(* A new order has a stamp of its own.                                     *)
LEMMA ArmSwaps ==
    ASSUME DeskInv, SwapsInv, NEW o \in Owners, NEW t \in Tickers, NEW side \in ArmSides,
           NEW usd \in Sizes, arm(o, t, side, usd)
    PROVE  SwapsInv' /\ DebitsRest
<1>1. /\ clock' = clock + 1 /\ clock \in Nat /\ clock' \in Nat /\ usd \in Nat
      /\ UNCHANGED <<job, txs, faults>>
  BY DeskAssumption DEF arm, DeskInv, WorldInv
<1>2. PICK order \in ArmOrder :
         order = [owner |-> o, ticker |-> t, side |-> side, usd |-> usd, createdAt |-> clock']
  BY <1>1 DEF ArmOrder
<1>3. /\ ledger'.withdrawals = ledger.withdrawals
      /\ ledger'.arms \subseteq ledger.arms \cup {order}
  BY <1>2, SetArmKeeps DEF arm, DeskInv, SameMoney
<1>4. Orders' \subseteq Orders \cup {order}
  BY <1>1, <1>3 DEF Orders
<1>5. /\ \A x \in Orders : x.createdAt \in 1..clock'
      /\ order.createdAt \in 1..clock' /\ \A x \in Orders : x.createdAt # order.createdAt
  <2>1. order.createdAt = clock + 1
    BY <1>1, <1>2
  <2>2. QED
    BY <1>1, <2>1 DEF SwapsInv, OrdersDiffer
<1>6. OrdersDiffer'
  BY <1>4, <1>5 DEF SwapsInv, OrdersDiffer
<1>7. ASSUME NEW i \in DOMAIN txs', txs'[i].order # 0
      PROVE  txs'[i].order <= clock' /\ (Faulted(i)' \/ InHand(i)' \/ Gone(i)')
  <2>1. /\ i \in DOMAIN txs /\ txs'[i].order = txs[i].order /\ txs[i].order # 0
        /\ txs[i] \in Tx
    BY <1>1, <1>7, LenProperties DEF DeskInv, WorldInv
  <2>2. txs[i].order <= clock /\ (Faulted(i) \/ InHand(i) \/ Gone(i)) /\ txs[i].order \in Nat
    BY <2>1 DEF SwapsInv, Tx
  <2>3. txs[i].order <= clock' /\ txs[i].order # order.createdAt
    <3>1. order.createdAt = clock + 1
      BY <1>1, <1>2
    <3>2. QED
      BY <1>1, <2>2, <3>1
  <2>4. Faulted(i) => Faulted(i)'
    BY <1>1, <2>1 DEF Faulted
  <2>5. InHand(i) => InHand(i)'
    BY <1>1, <2>1 DEF InHand
  <2>6. Gone(i) => Gone(i)'
    BY <1>4, <2>1, <2>3 DEF Gone
  <2>7. QED
    BY <2>1, <2>2, <2>3, <2>4, <2>5, <2>6
<1>8. ASSUME NEW i \in DOMAIN txs', NEW k \in DOMAIN txs', i < k,
             txs'[i].order = txs'[k].order, txs'[i].order # 0
      PROVE  Faulted(i)'
  BY <1>1, <1>8 DEF SwapsInv, Faulted
<1>9. DebitsRest
  BY <1>1, <1>3, GrowsNot DEF DebitsRest
<1>10. QED
  BY <1>6, <1>7, <1>8, <1>9 DEF SwapsInv

(* A swap that goes out, whether its answer is lost or not.                *)
LEMMA SendSwaps ==
    ASSUME DeskInv, SwapsInv, NEW j \in Timers, SwapSent(j) \/ AnswerLost(j)
    PROVE  SwapsInv' /\ DebitsRest
<1>1. /\ job[j].pc = "swap" /\ job[j].pc \in OrderStages
      /\ Send(job[j].order.owner, job[j].delta, job[j].order.createdAt)
  BY DEF SwapSent, AnswerLost, OrderStages
<1>2. PICK n \in Nat : n = Len(txs)
  BY LenProperties DEF DeskInv, WorldInv
<1>3. PICK c \in Nat : c = job[j].order.createdAt
  BY <1>1, OrderJob
<1>4. /\ Len(txs') = n + 1 /\ DOMAIN txs = 1..n /\ DOMAIN txs' = 1..(n + 1)
      /\ Grows(txs, txs') /\ txs'[n + 1].order = c
      /\ \A i \in DOMAIN txs : txs'[i] = txs[i]
  <2>1. /\ Len(txs) < MaxTxs /\ Append1(job[j].order.owner, job[j].delta, c, "sent")
        /\ job[j].order.owner \in Owners /\ job[j].delta \in Delta
    BY <1>1, <1>3, OrderJob DEF Send
  <2>2. /\ Len(txs') = Len(txs) + 1 /\ DOMAIN txs = 1..Len(txs) /\ DOMAIN txs' = 1..Len(txs')
        /\ Grows(txs, txs')
        /\ txs'[Len(txs')] = [owner |-> job[j].order.owner, delta |-> job[j].delta,
                              order |-> c, status |-> "sent"]
        /\ \A i \in DOMAIN txs : txs'[i] = txs[i]
    BY <2>1, AppendGrows DEF DeskInv
  <2>3. txs'[Len(txs')].order = c
    BY <2>2
  <2>4. QED
    BY <1>2, <2>2, <2>3
<1>5. /\ job[j].order \in Orders /\ job[j].orders \subseteq Orders
  BY <1>1 DEF Orders, OrdersOf
<1>6. c \in 1..clock
  BY <1>3, <1>5 DEF SwapsInv, OrdersDiffer
<1>7. \A i \in DOMAIN txs : ~InHand(i)
  BY <1>1, OrderJob, StageNotIdle DEF InHand, SentStages, DeskInv, JobsInv
<1>8. /\ ledger'.withdrawals = ledger.withdrawals /\ ledger'.arms = ledger.arms
      /\ clock' = clock /\ faults \subseteq faults'
      /\ \A k \in Jobs \ {j} : job'[k] = job[k]
      /\ OrdersOf(job'[j]) \subseteq Orders
      /\ Faulted(n + 1)' \/ InHand(n + 1)'
  <2>1. CASE SwapSent(j)
    <3>1. PICK next : next = [job[j] EXCEPT !.pc = "settle", !.sig = n + 1] /\ Goto(j, next)
      BY <1>2, <1>4, <2>1 DEF SwapSent
    <3>2. /\ next.pc = "settle" /\ next.sig = n + 1 /\ next.order = job[j].order
          /\ next.orders = job[j].orders
      BY <1>1, <3>1, OrderJob DEF Job
    <3>3. job'[j] = next /\ \A k \in Jobs \ {j} : job'[k] = job[k]
      BY <1>1, <3>1, OrderJob DEF Goto, DeskInv, JobsInv
    <3>4. OrdersOf(job'[j]) \subseteq Orders
      BY <1>5, <3>2, <3>3 DEF OrdersOf
    <3>5. InHand(n + 1)'
      BY <1>3, <1>4, <3>2, <3>3 DEF InHand, SentStages
    <3>6. QED
      BY <2>1, <3>3, <3>4, <3>5 DEF SwapSent
  <2>2. CASE AnswerLost(j)
    <3>1. /\ faults \subseteq faults'
          /\ [order |-> job[j].order, sig |-> n + 1, after |-> "sent"] \in faults'
          /\ Failed(j) /\ clock' = clock
      BY <1>2, <1>4, <2>2 DEF AnswerLost, Stopped
    <3>2. Faulted(n + 1)'
      BY <1>3, <1>4, <3>1 DEF Faulted
    <3>3. ledger'.withdrawals = ledger.withdrawals /\ ledger'.arms = ledger.arms
      <4>1. job[j].order \in ArmOrder /\ LedgerInv(ledger) /\ NoSig \in Nat
        BY <1>1, OrderJob DEF DeskInv, NoSig
      <4>2. ledger' = recordArmResult(ledger, job[j].order, "failed", NoSig)
        BY <3>1 DEF Failed
      <4>3. SameMoney(ledger, ledger') /\ ledger'.arms = ledger.arms
        BY <4>1, <4>2, RecordKeeps
      <4>4. QED
        BY <4>3 DEF SameMoney
    <3>4. /\ job'[j] = TakeOrder(job[j].orders)
          /\ \A k \in Jobs \ {j} : job'[k] = job[k]
      BY <1>1, <3>1, OrderJob DEF Failed, NextOrder, Goto, DeskInv, JobsInv
    <3>5. OrdersOf(job'[j]) \subseteq Orders
      BY <1>1, <1>5, <3>4, NextOrderOrders
    <3>6. QED
      BY <3>1, <3>2, <3>3, <3>4, <3>5
  <2>3. QED
    BY <2>1, <2>2
<1>9. Orders' \subseteq Orders
  <2>1. \A k \in Timers : OrdersOf(job'[k]) \subseteq Orders
    BY <1>8 DEF Orders, Jobs
  <2>2. QED
    BY <1>8, <2>1 DEF Orders
<1>10. OrdersDiffer'
  BY <1>8, <1>9 DEF SwapsInv, OrdersDiffer
<1>11. \A i \in DOMAIN txs' : i \in DOMAIN txs \/ i = n + 1
  BY <1>4
<1>12. ASSUME NEW i \in DOMAIN txs', txs'[i].order # 0
       PROVE  txs'[i].order <= clock' /\ (Faulted(i)' \/ InHand(i)' \/ Gone(i)')
  <2>1. CASE i = n + 1
    BY <1>4, <1>6, <1>8, <2>1
  <2>2. CASE i \in DOMAIN txs
    <3>1. txs'[i].order = txs[i].order
      BY <1>4, <2>2
    <3>2. txs[i].order <= clock /\ (Faulted(i) \/ Gone(i))
      BY <1>7, <1>12, <2>2, <3>1 DEF SwapsInv
    <3>3. QED
      BY <1>8, <1>9, <3>1, <3>2, FaultedStays, GoneStays
  <2>3. QED
    BY <1>11, <2>1, <2>2
<1>13. ASSUME NEW i \in DOMAIN txs', NEW k \in DOMAIN txs', i < k,
              txs'[i].order = txs'[k].order, txs'[i].order # 0
       PROVE  Faulted(i)'
  <2>1. i \in DOMAIN txs /\ txs'[i].order = txs[i].order
    BY <1>4, <1>13
  <2>2. CASE k \in DOMAIN txs
    BY <1>4, <1>8, <1>13, <2>1, <2>2, FaultedStays DEF SwapsInv
  <2>3. CASE k = n + 1
    <3>1. txs[i].order = c
      BY <1>4, <1>13, <2>1, <2>3
    <3>2. ~Gone(i)
      BY <1>3, <1>5, <3>1 DEF Gone
    <3>3. Faulted(i)
      BY <1>7, <1>13, <2>1, <3>2 DEF SwapsInv
    <3>4. QED
      BY <1>8, <2>1, <3>3, FaultedStays
  <2>4. QED
    BY <1>11, <2>2, <2>3
<1>14. DebitsRest
  <2>1. \A k \in Calls : job'[k] = job[k]
    BY <1>8, Apart
  <2>2. QED
    BY <1>4, <1>8, <2>1 DEF DebitsRest
<1>15. QED
  BY <1>10, <1>12, <1>13, <1>14 DEF SwapsInv

-----------------------------------------------------------------------------
MoneyInv == DeskInv /\ DebitsInv /\ SwapsInv

LEMMA MoneyInvInit == Init => MoneyInv
<1> SUFFICES ASSUME Init PROVE MoneyInv
  OBVIOUS
<1>1. DOMAIN txs = {} /\ DOMAIN ledger.withdrawals = {} /\ ledger.arms = {}
  BY EmptySeq DEF Init, empty
<1>2. Confirming = {} /\ Orders = {}
  BY <1>1 DEF Init, Confirming, Orders, OrdersOf, Idle, OrderStages, Jobs
<1>3. DebitsInv /\ SwapsInv
  BY <1>1, <1>2 DEF DebitsInv, SwapsInv, OrdersDiffer
<1>4. QED
  BY <1>3, DeskInvInit DEF MoneyInv

LEMMA MoneyInvStep == MoneyInv /\ [Next]_vars => MoneyInv'
<1> SUFFICES ASSUME MoneyInv, [Next]_vars PROVE MoneyInv'
  OBVIOUS
<1>1. DeskInv /\ DebitsInv /\ SwapsInv /\ DeskInv'
  BY DeskInvStep DEF MoneyInv
<1>2. CASE Rests
  BY <1>1, <1>2, DebitsRestKeeps, SwapsRestKeeps DEF Rests, MoneyInv
<1>3. ASSUME NEW j \in Calls, sendTokens(j) \/ Confirm(j)
      PROVE  MoneyInv'
  BY <1>1, <1>3, SendDebits, ConfirmDebits, SwapsRestKeeps DEF MoneyInv
<1>4. ASSUME NEW j \in Timers, SwapSent(j) \/ AnswerLost(j)
      PROVE  MoneyInv'
  BY <1>1, <1>4, SendSwaps, DebitsRestKeeps DEF MoneyInv
<1>5. ASSUME NEW o \in Owners, NEW t \in Tickers, NEW side \in ArmSides, NEW usd \in Sizes,
             arm(o, t, side, usd)
      PROVE  MoneyInv'
  BY <1>1, <1>5, ArmSwaps, DebitsRestKeeps DEF MoneyInv
<1>6. QED
  BY <1>1, <1>2, <1>3, <1>4, <1>5, StepCases

LEMMA MoneyInvAlways == Spec => []MoneyInv
  BY MoneyInvInit, MoneyInvStep, PTL DEF Spec

(* What is debited for a withdrawal has left, once (withdraw and           *)
(* withdrawAll await the confirmation), whatever else moves meanwhile.     *)
THEOREM DebitsFollowTransfers == Spec => []DebitsHaveLanded
<1>1. MoneyInv => DebitsHaveLanded
  <2> SUFFICES ASSUME MoneyInv, NEW k \in DOMAIN ledger.withdrawals
               PROVE  LET w == ledger.withdrawals[k]
                      IN  /\ w.sig \in Landed(w.owner)
                          /\ txs[w.sig].delta[w.asset] < 0 /\ txs[w.sig].order = 0
                          /\ \A i \in 1..(k - 1) : ledger.withdrawals[i].sig # w.sig
    BY DEF DebitsHaveLanded
  <2>1. Debited(ledger.withdrawals[k], txs)
    BY DEF MoneyInv, DebitsInv
  <2>2. PICK d \in Nat : DOMAIN ledger.withdrawals = 1..d
    BY LedgerFields, LenProperties DEF MoneyInv, DeskInv, LedgerInv
  <2>3. \A i \in 1..(k - 1) : i \in DOMAIN ledger.withdrawals /\ i # k
    BY <2>2
  <2>4. \A i \in 1..(k - 1) : ledger.withdrawals[i].sig # ledger.withdrawals[k].sig
    BY <2>3 DEF MoneyInv, DebitsInv
  <2>5. QED
    BY <2>1, <2>4 DEF Debited, Landed
<1>2. QED
  BY <1>1, MoneyInvAlways, PTL

(* No order is swapped twice, unless settling the swap before stopped      *)
(* half-way (deskTick's busy, processArms, the stamps of arm).             *)
THEOREM OrdersSwappedOnce == Spec => []SwappedOnce
<1>1. MoneyInv => SwappedOnce
  <2> SUFFICES ASSUME MoneyInv, NEW a \in 1..clock, NEW i \in SwapsFor(a), NEW k \in SwapsFor(a),
                      i < k
               PROVE  \E f \in faults : f.sig = i /\ f.order.createdAt = a
    BY DEF SwappedOnce
  <2>1. i \in DOMAIN txs /\ k \in DOMAIN txs /\ txs[i].order = a /\ txs[k].order = a /\ a # 0
    BY DEF SwapsFor
  <2>2. Faulted(i)
    BY <2>1 DEF MoneyInv, SwapsInv
  <2>3. QED
    BY <2>1, <2>2 DEF Faulted
<1>2. QED
  BY <1>1, MoneyInvAlways, PTL
=============================================================================
