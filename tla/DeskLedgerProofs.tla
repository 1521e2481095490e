-------------------------- MODULE DeskLedgerProofs --------------------------
EXTENDS DeskLedger, FiniteSetTheorems, WellFoundedInduction, SequenceTheorems, TLAPS

(* Every nonempty set of naturals has a least element.                     *)
LEMMA LeastNat ==
    ASSUME NEW S \in SUBSET Nat, S # {}
    PROVE  \E n \in S : \A m \in S : n <= m
<1>1. PICK n \in S : \A m \in S : ~(<<m, n>> \in OpToRel(<, Nat))
  BY WFMin, NatLessThanWellFounded
<1>2. \A m \in S : ~(m < n)
  BY <1>1 DEF OpToRel
<1>3. QED
  BY <1>2

(* A bounded one has a greatest, which Max finds.                          *)
LEMMA MaxOfBounded ==
    ASSUME NEW S \in SUBSET Nat, S # {}, NEW b \in Nat, \A n \in S : n <= b
    PROVE  Max(S) \in S /\ \A n \in S : n <= Max(S)
<1> DEFINE T == {b - n : n \in S}
<1>1. T \in SUBSET Nat /\ T # {}
  <2>1. \A n \in S : b - n \in Nat
    OBVIOUS
  <2>2. QED
    BY <2>1, Zenon
<1>2. PICK t \in T : \A u \in T : t <= u
  BY <1>1, LeastNat
<1>3. PICK n \in S : t = b - n
  BY <1>2
<1>4. \A m \in S : n >= m
  <2> SUFFICES ASSUME NEW m \in S PROVE n >= m
    OBVIOUS
  <2>1. b - m \in T
    BY Zenon
  <2>2. QED
    BY <1>2, <1>3, <2>1
<1>5. QED
  BY <1>3, <1>4 DEF Max

-----------------------------------------------------------------------------
(* What the functions of the ledger keep.                                  *)

(* No balance on a book is negative.                                       *)
BooksCover(l) == \A o \in Owners, a \in Assets : l.book[o][a] >= 0

(* processed holds the signatures of the newest deposits, all of them as   *)
(* long as there are not more than PROCESSED_CAP.                          *)
Remembers(l) ==
    LET p == Len(l.processed)
        d == Len(l.deposits)
    IN  /\ p <= PROCESSED_CAP /\ p <= d
        /\ p < PROCESSED_CAP => p = d
        /\ \A i \in 1..p : l.processed[i] = l.deposits[d - p + i].sig

(* A signature credited twice has PROCESSED_CAP other credits in between.  *)
Once(l) ==
    \A i, k \in DOMAIN l.deposits :
        (i < k /\ l.deposits[i].sig = l.deposits[k].sig) => k - i > PROCESSED_CAP

(* A pending row has an order of its name and size.                        *)
PendingArmed(l) ==
    \A r \in l.armRecords : r.status = "pending" =>
        \E a \in l.arms : SameName(a, r) /\ a.usd = r.usd

(* The order of the rows: no two share a stamp, there is a last one, and   *)
(* fewer than RECORDS_CAP rows of its owner are newer than any of them.    *)
Stamped(rows) ==
    /\ IsFiniteSet(rows)
    /\ \A r, q \in rows : r.at = q.at => r = q
    /\ \E b \in Nat : \A r \in rows : r.at <= b
    /\ \A r \in rows : Cardinality(Newer(rows, r)) < RECORDS_CAP

(* A name has one open row, and the rows are in order.                     *)
RowsInOrder(l) ==
    /\ \A r, q \in l.armRecords :
          (SameName(r, q) /\ r.status # "executed" /\ q.status # "executed") => r = q
    /\ Stamped(l.armRecords)

LedgerInv(l) ==
    /\ l \in Ledger
    /\ BooksCover(l) /\ Remembers(l) /\ Once(l) /\ PendingArmed(l) /\ RowsInOrder(l)

(* What an update of the orders leaves alone, and one of the money.        *)
SameMoney(l, m) ==
    /\ m.book = l.book /\ m.processed = l.processed /\ m.deposits = l.deposits
    /\ m.fills = l.fills /\ m.withdrawals = l.withdrawals

SameOrders(l, m) == m.arms = l.arms /\ m.armRecords = l.armRecords

LEMMA EmptyInv == LedgerInv(empty)
<1>1. empty \in Ledger
  BY EmptySeq DEF empty, Ledger
<1>2. Len(empty.processed) = 0 /\ Len(empty.deposits) = 0 /\ DOMAIN empty.deposits = {}
  BY EmptySeq DEF empty
<1>3. BooksCover(empty) /\ PendingArmed(empty) /\ RowsInOrder(empty)
  <2>1. empty.armRecords = {}
    BY DEF empty
  <2>2. RowsInOrder(empty)
    BY <2>1, FS_EmptySet DEF RowsInOrder, Stamped
  <2>3. QED
    BY <2>1, <2>2 DEF BooksCover, PendingArmed, empty
<1>4. Remembers(empty) /\ Once(empty)
  BY <1>2, LedgerAssumption DEF Remembers, Once
<1>5. QED
  BY <1>1, <1>3, <1>4 DEF LedgerInv

LEMMA LedgerFields ==
    ASSUME NEW l \in Ledger
    PROVE  /\ l.book \in [Owners -> [Assets -> Int]]
           /\ l.processed \in Seq(Nat) /\ l.deposits \in Seq(Deposit)
           /\ l.fills \in Seq(UserFill) /\ l.withdrawals \in Seq(Withdrawal)
           /\ l.arms \in SUBSET ArmOrder /\ l.armRecords \in SUBSET ArmRecord
  BY DEF Ledger

(* An update of the money alone disturbs nothing about the orders.         *)
LEMMA OrdersAside ==
    ASSUME NEW l, NEW m, LedgerInv(l), m \in Ledger, SameOrders(l, m)
    PROVE  PendingArmed(m) /\ RowsInOrder(m)
  BY DEF LedgerInv, SameOrders, PendingArmed, RowsInOrder

LEMMA MoneyAside ==
    ASSUME NEW l, NEW m, LedgerInv(l), m \in Ledger, SameMoney(l, m)
    PROVE  BooksCover(m) /\ Remembers(m) /\ Once(m)
  BY DEF LedgerInv, SameMoney, BooksCover, Remembers, Once

LEMMA NewestKeeps ==
    ASSUME NEW s \in Seq(Nat), Len(s) <= PROCESSED_CAP + 1
    PROVE  LET n == Newest(s, PROCESSED_CAP)
           IN  /\ n \in Seq(Nat) /\ Len(n) <= PROCESSED_CAP
               /\ Len(n) = IF Len(s) <= PROCESSED_CAP THEN Len(s) ELSE PROCESSED_CAP
               /\ \A i \in 1..Len(n) : n[i] = s[Len(s) - Len(n) + i]
<1>0. PROCESSED_CAP \in Nat \ {0} /\ Len(s) \in Nat
  BY LedgerAssumption, LenProperties
<1>1. CASE Len(s) <= PROCESSED_CAP
  BY <1>0, <1>1 DEF Newest
<1>2. CASE Len(s) > PROCESSED_CAP
  <2>1. Newest(s, PROCESSED_CAP) = SubSeq(s, 2, Len(s)) /\ Len(s) = PROCESSED_CAP + 1
    BY <1>0, <1>2 DEF Newest
  <2>2. \A i \in 2..Len(s) : s[i] \in Nat
    BY <1>0, ElementOfSeq
  <2>3. SubSeq(s, 2, Len(s)) \in Seq(Nat) /\ Len(SubSeq(s, 2, Len(s))) = PROCESSED_CAP
        /\ \A i \in 1..PROCESSED_CAP : SubSeq(s, 2, Len(s))[i] = s[1 + i]
    BY <1>0, <2>1, <2>2, SubSeqProperties
  <2>4. QED
    BY <1>0, <1>2, <2>1, <2>3
<1>3. QED
  BY <1>0, <1>1, <1>2

(* A window of p signatures at the end of d deposits, and that of q        *)
(* signatures after one more.                                              *)
Windows(d, p, q) ==
    /\ d \in Nat /\ p \in Nat /\ q \in Nat
    /\ p <= PROCESSED_CAP /\ p <= d /\ (p < PROCESSED_CAP => p = d)
    /\ q = IF p + 1 <= PROCESSED_CAP THEN p + 1 ELSE PROCESSED_CAP

LEMMA WindowSize ==
    ASSUME NEW d, NEW p, NEW q, Windows(d, p, q)
    PROVE  /\ q >= 1 /\ q <= PROCESSED_CAP /\ q <= d + 1 /\ q <= p + 1
           /\ q < PROCESSED_CAP => q = d + 1
           /\ (d + 1) - q + q = d + 1 /\ (p + 1) - q + q = p + 1
  BY LedgerAssumption DEF Windows

LEMMA WindowShifts ==
    ASSUME NEW d, NEW p, NEW q, Windows(d, p, q), NEW i \in 1..q, i # q
    PROVE  /\ p + 1 - q + i \in 1..p
           /\ d - p + (p + 1 - q + i) \in 1..d
           /\ d - p + (p + 1 - q + i) = (d + 1) - q + i
  BY LedgerAssumption DEF Windows

LEMMA WindowOrBefore ==
    ASSUME NEW d, NEW p, NEW q, Windows(d, p, q), NEW i \in 1..d
    PROVE  \/ \E k \in 1..p : i = d - p + k
           \/ (d + 1) - i > PROCESSED_CAP
<1>0. PROCESSED_CAP \in Nat /\ d \in Nat /\ p \in Nat /\ p <= d
      /\ (p < PROCESSED_CAP => p = d) /\ p <= PROCESSED_CAP
  BY LedgerAssumption DEF Windows
<1>1. CASE i > d - p
  <2>1. i - (d - p) \in 1..p /\ i = d - p + (i - (d - p))
    BY <1>0, <1>1
  <2>2. QED
    BY <2>1
<1>2. CASE i <= d - p
  BY <1>0, <1>2
<1>3. QED
  BY <1>0, <1>1, <1>2

(* The two lists before and after one more credit.                         *)
CreditsOneMore(l, m, sig, d, p, q) ==
    /\ d = Len(l.deposits) /\ p = Len(l.processed) /\ q = Len(m.processed)
    /\ Len(m.deposits) = d + 1
    /\ \A i \in 1..d : m.deposits[i] = l.deposits[i]
    /\ m.deposits[d + 1].sig = sig
    /\ \A i \in 1..q : i # q => m.processed[i] = l.processed[p + 1 - q + i]
    /\ m.processed[q] = sig

(* The window moves on.                                                    *)
LEMMA CreditRemembered ==
    ASSUME NEW l, NEW m, NEW sig, NEW d, NEW p, NEW q,
           Windows(d, p, q), CreditsOneMore(l, m, sig, d, p, q), Remembers(l)
    PROVE  Remembers(m)
<1>1. ASSUME NEW i \in 1..q
      PROVE  m.processed[i] = m.deposits[(d + 1) - q + i].sig
  <2>1. CASE i = q
    <3>1. (d + 1) - q + i = d + 1
      BY <2>1, WindowSize
    <3>2. QED
      BY <2>1, <3>1 DEF CreditsOneMore
  <2>2. CASE i # q
    <3>1. /\ p + 1 - q + i \in 1..p
          /\ d - p + (p + 1 - q + i) \in 1..d
          /\ d - p + (p + 1 - q + i) = (d + 1) - q + i
      BY <2>2, WindowShifts
    <3>2. m.processed[i] = l.processed[p + 1 - q + i]
      BY <2>2 DEF CreditsOneMore
    <3>3. \A k \in 1..p : l.processed[k] = l.deposits[d - p + k].sig
      BY DEF Remembers, CreditsOneMore
    <3>4. l.processed[p + 1 - q + i] = l.deposits[(d + 1) - q + i].sig
      BY <3>1, <3>3
    <3>5. m.deposits[(d + 1) - q + i] = l.deposits[(d + 1) - q + i]
      BY <3>1 DEF CreditsOneMore
    <3>6. QED
      BY <3>2, <3>4, <3>5
  <2>3. QED
    BY <2>1, <2>2
<1>2. Len(m.processed) = q /\ Len(m.deposits) = d + 1
  BY DEF CreditsOneMore
<1>3. QED
  BY <1>1, <1>2, WindowSize DEF Remembers

(* A signature that is not in the window was credited long ago or never.   *)
LEMMA CreditOnce ==
    ASSUME NEW l \in Ledger, NEW m \in Ledger, NEW sig, NEW d, NEW p, NEW q,
           Windows(d, p, q), CreditsOneMore(l, m, sig, d, p, q),
           Remembers(l), Once(l), ~seenSig(l, sig)
    PROVE  Once(m)
<1>1. /\ d \in Nat /\ p \in Nat
      /\ DOMAIN l.deposits = 1..d /\ DOMAIN m.deposits = 1..(d + 1) /\ DOMAIN l.processed = 1..p
  BY LedgerFields, LenProperties DEF CreditsOneMore, Windows
<1>2. \A k \in 1..p : l.processed[k] = l.deposits[d - p + k].sig
  BY DEF Remembers, CreditsOneMore
<1>3. ASSUME NEW i \in 1..d, l.deposits[i].sig = sig
      PROVE  (d + 1) - i > PROCESSED_CAP
  <2>1. ASSUME NEW k \in 1..p, i = d - p + k
        PROVE  FALSE
    BY <1>1, <1>2, <1>3, <2>1 DEF seenSig
  <2>2. QED
    BY <2>1, WindowOrBefore
<1>4. \A i \in 1..d : m.deposits[i] = l.deposits[i]
  BY DEF CreditsOneMore
<1>5. m.deposits[d + 1].sig = sig
  BY DEF CreditsOneMore
<1>6. ASSUME NEW i \in 1..(d + 1), NEW k \in 1..(d + 1), i < k,
             m.deposits[i].sig = m.deposits[k].sig
      PROVE  k - i > PROCESSED_CAP
  <2>1. i \in 1..d /\ (k \in 1..d \/ k = d + 1)
    BY <1>1, <1>6
  <2>2. CASE k \in 1..d
    BY <1>1, <1>4, <1>6, <2>1, <2>2 DEF Once
  <2>3. CASE k = d + 1
    BY <1>3, <1>4, <1>5, <1>6, <2>1, <2>3
  <2>4. QED
    BY <2>1, <2>2, <2>3
<1>7. QED
  BY <1>1, <1>6 DEF Once

(* creditDeposit, whatever was credited before.                            *)
LEMMA CreditKeeps ==
    ASSUME NEW l, LedgerInv(l), NEW o \in Owners, NEW n \in Nat, NEW sig \in Nat,
           NEW m, m = creditDeposit(l, o, n, sig)
    PROVE  LedgerInv(m) /\ SameOrders(l, m) /\ m.withdrawals = l.withdrawals
<1>1. CASE seenSig(l, sig)
  BY <1>1 DEF creditDeposit, SameOrders
<1>2. CASE ~seenSig(l, sig)
  <2>0. l \in Ledger /\ Usdc \in Assets /\ PROCESSED_CAP \in Nat \ {0}
    BY LedgerAssumption DEF LedgerInv, Assets
  <2>1. PICK dep \in Deposit : dep = [owner |-> o, amount |-> n, sig |-> sig]
    BY DEF Deposit
  <2>2. PICK long \in Seq(Nat) : long = Append(l.processed, sig)
    BY <2>0, LedgerFields, AppendProperties
  <2>3. /\ m.book = [l.book EXCEPT ![o][Usdc] = @ + n]
        /\ m.deposits = Append(l.deposits, dep)
        /\ m.processed = Newest(long, PROCESSED_CAP)
        /\ m.fills = l.fills /\ m.withdrawals = l.withdrawals
        /\ SameOrders(l, m)
    BY <1>2, <2>0, <2>1, <2>2 DEF creditDeposit, Ledger, SameOrders
  <2>4. PICK d \in Nat, p \in Nat : d = Len(l.deposits) /\ p = Len(l.processed)
    BY <2>0, LedgerFields, LenProperties
  <2>5. /\ m.deposits \in Seq(Deposit) /\ Len(m.deposits) = d + 1
        /\ \A i \in 1..d : m.deposits[i] = l.deposits[i]
        /\ m.deposits[d + 1] = dep
    BY <2>0, <2>3, <2>4, LedgerFields, AppendProperties
  <2>6. /\ Len(long) = p + 1 /\ p <= PROCESSED_CAP
        /\ \A i \in 1..p : long[i] = l.processed[i]
        /\ long[p + 1] = sig
    BY <2>0, <2>2, <2>4, LedgerFields, AppendProperties DEF LedgerInv, Remembers
  <2>7. Len(long) \in Nat /\ Len(long) <= PROCESSED_CAP + 1
    BY <2>0, <2>6
  <2>8. PICK kept : kept = Newest(long, PROCESSED_CAP)
    OBVIOUS
  <2>9. /\ kept \in Seq(Nat)
        /\ Len(kept) = IF Len(long) <= PROCESSED_CAP THEN Len(long) ELSE PROCESSED_CAP
        /\ \A i \in 1..Len(kept) : kept[i] = long[Len(long) - Len(kept) + i]
    BY <2>7, <2>8, NewestKeeps
  <2>10. PICK q \in Nat : q = Len(kept)
    BY <2>9, LenProperties
  <2>11. Windows(d, p, q)
    BY <2>0, <2>4, <2>6, <2>9, <2>10 DEF LedgerInv, Remembers, Windows
  <2>12. CreditsOneMore(l, m, sig, d, p, q)
    <3>1. \A i \in 1..q : kept[i] = long[(p + 1) - q + i]
      BY <2>6, <2>9, <2>10
    <3>2. kept[q] = sig
      <4>1. q \in 1..q /\ (p + 1) - q + q = p + 1
        BY <2>11, WindowSize
      <4>2. QED
        BY <3>1, <4>1, <2>6
    <3>3. ASSUME NEW i \in 1..q, i # q
          PROVE  kept[i] = l.processed[p + 1 - q + i]
      <4>1. p + 1 - q + i \in 1..p
        BY <3>3, <2>11, WindowShifts
      <4>2. QED
        BY <3>1, <4>1, <2>6
    <3>4. m.processed = kept
      BY <2>3, <2>8
    <3>5. m.deposits[d + 1].sig = sig
      BY <2>1, <2>5
    <3>6. QED
      BY <2>4, <2>5, <2>10, <3>2, <3>3, <3>4, <3>5 DEF CreditsOneMore
  <2>13. m.book \in [Owners -> [Assets -> Int]] /\ BooksCover(m)
    BY <2>0, <2>3, LedgerFields DEF LedgerInv, BooksCover
  <2>14. m \in Ledger
    BY <1>2, <2>0, <2>3, <2>5, <2>8, <2>9, <2>13 DEF creditDeposit, Ledger
  <2>15. Remembers(m) /\ Once(m)
    BY <1>2, <2>0, <2>14, <2>11, <2>12, CreditRemembered, CreditOnce DEF LedgerInv
  <2>16. PendingArmed(m) /\ RowsInOrder(m)
    BY <2>3, <2>14, OrdersAside
  <2>17. QED
    BY <2>3, <2>13, <2>14, <2>15, <2>16 DEF LedgerInv
<1>3. QED
  BY <1>1, <1>2

(* applyFill, of what the book covers.                                     *)
LEMMA FillKeeps ==
    ASSUME NEW l, LedgerInv(l), NEW o \in Owners, NEW delta \in [Assets -> Int], NEW tx \in Nat,
           Covers(l, o, delta), NEW m, m = applyFill(l, o, delta, tx)
    PROVE  LedgerInv(m) /\ SameOrders(l, m) /\ m.withdrawals = l.withdrawals
<1>1. l \in Ledger
  BY DEF LedgerInv
<1>2. /\ m.book = [l.book EXCEPT ![o] = [a \in Assets |-> @[a] + delta[a]]]
      /\ m.fills = Append(l.fills, [owner |-> o, tx |-> tx])
      /\ m.processed = l.processed /\ m.deposits = l.deposits
      /\ m.withdrawals = l.withdrawals /\ SameOrders(l, m)
  BY <1>1 DEF applyFill, Ledger, SameOrders
<1>3. m.book \in [Owners -> [Assets -> Int]]
  BY <1>1, <1>2, LedgerFields
<1>4. BooksCover(m)
  BY <1>1, <1>2, LedgerFields DEF LedgerInv, BooksCover, Covers
<1>5. m.fills \in Seq(UserFill)
  <2>1. [owner |-> o, tx |-> tx] \in UserFill
    BY DEF UserFill
  <2>2. QED
    BY <1>1, <1>2, <2>1, LedgerFields, AppendProperties
<1>6. m \in Ledger
  BY <1>1, <1>2, <1>3, <1>5 DEF applyFill, Ledger
<1>7. Remembers(m) /\ Once(m)
  BY <1>2 DEF LedgerInv, Remembers, Once
<1>8. QED
  BY <1>2, <1>4, <1>6, <1>7, OrdersAside DEF LedgerInv

(* debitWithdraw, of what the book has.                                    *)
LEMMA DebitKeeps ==
    ASSUME NEW l, LedgerInv(l), NEW o \in Owners, NEW a \in Assets, NEW n \in Nat,
           NEW sig \in Nat, CanDebit(l, o, a, n), NEW m, m = debitWithdraw(l, o, a, n, sig)
    PROVE  /\ LedgerInv(m) /\ SameOrders(l, m)
           /\ m.withdrawals = Append(l.withdrawals, [owner |-> o, asset |-> a, amount |-> n,
                                                     sig |-> sig])
<1>1. l \in Ledger
  BY DEF LedgerInv
<1>2. /\ m.book = [l.book EXCEPT ![o][a] = @ - n]
      /\ m.withdrawals = Append(l.withdrawals, [owner |-> o, asset |-> a, amount |-> n,
                                                sig |-> sig])
      /\ m.processed = l.processed /\ m.deposits = l.deposits
      /\ m.fills = l.fills /\ SameOrders(l, m)
  BY <1>1 DEF debitWithdraw, Ledger, SameOrders
<1>3. m.book \in [Owners -> [Assets -> Int]]
  BY <1>1, <1>2, LedgerFields
<1>4. BooksCover(m)
  BY <1>1, <1>2, LedgerFields DEF LedgerInv, BooksCover, CanDebit
<1>5. m.withdrawals \in Seq(Withdrawal)
  <2>1. [owner |-> o, asset |-> a, amount |-> n, sig |-> sig] \in Withdrawal
    BY DEF Withdrawal
  <2>2. QED
    BY <1>1, <1>2, <2>1, LedgerFields, AppendProperties
<1>6. m \in Ledger
  BY <1>1, <1>2, <1>3, <1>5 DEF debitWithdraw, Ledger
<1>7. Remembers(m) /\ Once(m)
  BY <1>2 DEF LedgerInv, Remembers, Once
<1>8. QED
  BY <1>2, <1>4, <1>6, <1>7, OrdersAside DEF LedgerInv

-----------------------------------------------------------------------------
(* A row that RECORDS_CAP newer ones have pushed out of the list.          *)
Pushed(rows, r) == Cardinality(Newer(rows, r)) >= RECORDS_CAP

(* The owner's list holds as many rows as it may.                          *)
ListFull(l, owner) == Cardinality(RowsOf(l.armRecords, owner)) >= RECORDS_CAP

(* The rows of an owner, and those newer than a row, are finitely many and *)
(* no more than in a larger list.                                          *)
LEMMA FewerRows ==
    ASSUME NEW rows, IsFiniteSet(rows), NEW some \in SUBSET rows, NEW r, NEW o
    PROVE  /\ IsFiniteSet(Newer(rows, r)) /\ Cardinality(Newer(rows, r)) \in Nat
           /\ Cardinality(Newer(some, r)) \in Nat
           /\ Cardinality(Newer(some, r)) <= Cardinality(Newer(rows, r))
           /\ IsFiniteSet(RowsOf(rows, o)) /\ Cardinality(RowsOf(rows, o)) \in Nat
           /\ Cardinality(RowsOf(some, o)) \in Nat
           /\ Cardinality(RowsOf(some, o)) <= Cardinality(RowsOf(rows, o))
<1>1. Newer(rows, r) \in SUBSET rows /\ RowsOf(rows, o) \in SUBSET rows
  BY DEF Newer, RowsOf
<1>2. IsFiniteSet(Newer(rows, r)) /\ IsFiniteSet(RowsOf(rows, o))
  BY <1>1, FS_Subset
<1>3. Newer(some, r) \in SUBSET Newer(rows, r) /\ RowsOf(some, o) \in SUBSET RowsOf(rows, o)
  BY DEF Newer, RowsOf
<1>4. /\ IsFiniteSet(Newer(some, r)) /\ IsFiniteSet(RowsOf(some, o))
      /\ Cardinality(Newer(some, r)) <= Cardinality(Newer(rows, r))
      /\ Cardinality(RowsOf(some, o)) <= Cardinality(RowsOf(rows, o))
  BY <1>2, <1>3, FS_Subset
<1>5. QED
  BY <1>2, <1>4, FS_CardinalityType

(* When at most RECORDS_CAP rows are newer than a row, all of these stay,  *)
(* so the row is dropped only if RECORDS_CAP newer ones stay.              *)
LEMMA DroppedIsPushed ==
    ASSUME NEW rows \in SUBSET ArmRecord, IsFiniteSet(rows), NEW owner,
           \A q \in rows : Cardinality(Newer(rows, q)) <= RECORDS_CAP,
           NEW r \in rows, r \notin KeepNewest(rows, owner)
    PROVE  r.owner = owner /\ Pushed(KeepNewest(rows, owner), r)
<1> DEFINE above == Newer(rows, r)
<1>1. RECORDS_CAP \in Nat
  BY LedgerAssumption
<1>2. /\ r.owner = owner /\ IsFiniteSet(above) /\ Cardinality(above) \in Nat
      /\ Cardinality(above) <= RECORDS_CAP /\ ~(Cardinality(above) < RECORDS_CAP)
  BY FewerRows DEF KeepNewest
<1>3. ASSUME NEW q \in above PROVE Cardinality(Newer(rows, q)) < RECORDS_CAP
  <2>1. q \in rows /\ q.owner = r.owner /\ q.at > r.at /\ q.at \in Nat /\ r.at \in Nat
    BY <1>3 DEF Newer, RowsOf, ArmRecord
  <2>2. Newer(rows, q) \in SUBSET above
    BY <2>1 DEF Newer, RowsOf, ArmRecord
  <2>3. q \notin Newer(rows, q)
    BY <2>1 DEF Newer
  <2>4. Cardinality(Newer(rows, q)) # Cardinality(above)
    BY <1>2, <1>3, <2>2, <2>3, FS_Subset
  <2>5. Cardinality(Newer(rows, q)) \in Nat /\ Cardinality(Newer(rows, q)) <= Cardinality(above)
    BY <1>2, <2>2, FS_Subset, FewerRows
  <2>6. QED
    BY <1>1, <1>2, <2>4, <2>5
<1>4. Newer(KeepNewest(rows, owner), r) = above
  BY <1>3 DEF Newer, RowsOf, KeepNewest
<1>5. QED
  BY <1>1, <1>2, <1>4 DEF Pushed

(* What is left of rows that were in order is in order.                    *)
LEMMA StampedSubset ==
    ASSUME NEW rows, Stamped(rows), NEW some \in SUBSET rows
    PROVE  Stamped(some)
<1>1. IsFiniteSet(some)
  BY FS_Subset DEF Stamped
<1>2. ASSUME NEW r \in some PROVE Cardinality(Newer(some, r)) < RECORDS_CAP
  <2>1. Cardinality(Newer(rows, r)) < RECORDS_CAP /\ RECORDS_CAP \in Nat
    BY LedgerAssumption DEF Stamped
  <2>2. /\ Cardinality(Newer(rows, r)) \in Nat /\ Cardinality(Newer(some, r)) \in Nat
        /\ Cardinality(Newer(some, r)) <= Cardinality(Newer(rows, r))
    BY FewerRows DEF Stamped
  <2>3. QED
    BY <2>1, <2>2
<1>3. QED
  BY <1>1, <1>2 DEF Stamped

(* A part of a set of rows, a row more, and another in the place of one.   *)
LEMMA Within ==
    ASSUME NEW S, IsFiniteSet(S), NEW T \in SUBSET S
    PROVE  Cardinality(S) \in Nat /\ Cardinality(T) \in Nat /\ Cardinality(T) <= Cardinality(S)
  BY FS_Subset, FS_CardinalityType

LEMMA OneMore ==
    ASSUME NEW S, IsFiniteSet(S), NEW x, NEW T, T = S \cup {x}
    PROVE  /\ Cardinality(S) \in Nat /\ Cardinality(T) \in Nat
           /\ Cardinality(T) <= Cardinality(S) + 1
           /\ x \notin S => Cardinality(T) = Cardinality(S) + 1
<1>1. Cardinality(S) \in Nat
  BY FS_CardinalityType
<1>2. Cardinality(S \cup {x}) = IF x \in S THEN Cardinality(S) ELSE Cardinality(S) + 1
  BY FS_AddElement, Zenon
<1>3. QED
  BY <1>1, <1>2

LEMMA OneSwapped ==
    ASSUME NEW S, IsFiniteSet(S), NEW y \in S, NEW x, NEW T, T = (S \ {y}) \cup {x}
    PROVE  /\ Cardinality(S) \in Nat /\ Cardinality(T) \in Nat
           /\ Cardinality(T) <= Cardinality(S)
           /\ x \notin S \ {y} => Cardinality(T) = Cardinality(S)
<1> DEFINE R == S \ {y}
<1>1. IsFiniteSet(R) /\ Cardinality(R) = Cardinality(S) - 1
  BY FS_RemoveElement
<1>2. Cardinality(S) \in Nat
  BY FS_CardinalityType
<1>3. T = R \cup {x}
  OBVIOUS
<1> HIDE DEF R
<1>4. /\ Cardinality(R) \in Nat /\ Cardinality(T) \in Nat
      /\ Cardinality(T) <= Cardinality(R) + 1
      /\ x \notin R => Cardinality(T) = Cardinality(R) + 1
  BY <1>1, <1>3, OneMore
<1>5. QED
  BY <1>1, <1>2, <1>4 DEF R

(* The list of an owner whose row was pushed out is full.                  *)
LEMMA FullWhenPushed ==
    ASSUME NEW l, Stamped(l.armRecords), NEW r, Pushed(l.armRecords, r)
    PROVE  ListFull(l, r.owner)
<1>1. Newer(l.armRecords, r) \in SUBSET RowsOf(l.armRecords, r.owner)
  BY DEF Newer
<1>2. IsFiniteSet(RowsOf(l.armRecords, r.owner))
  BY FewerRows DEF Stamped
<1>3. /\ Cardinality(Newer(l.armRecords, r)) <= Cardinality(RowsOf(l.armRecords, r.owner))
      /\ Cardinality(Newer(l.armRecords, r)) \in Nat
      /\ Cardinality(RowsOf(l.armRecords, r.owner)) \in Nat
  BY <1>1, <1>2, Within
<1>4. QED
  BY <1>3, LedgerAssumption DEF ListFull, Pushed

(* The list with the new row, before the oldest are dropped: the row is in *)
(* the place of the open one, or newer than all.                           *)
Replaces(rows, open, row) ==
    \/ open = {} /\ \A r \in rows : r.at < row.at
    \/ \E old \in rows : open = {old} /\ row.at = old.at /\ row.owner = old.owner

LEMMA OneMoreRow ==
    ASSUME NEW rows \in SUBSET ArmRecord, Stamped(rows), NEW open \in SUBSET rows,
           NEW row \in ArmRecord, Replaces(rows, open, row),
           NEW list, list = (rows \ open) \cup {row}
    PROVE  /\ list \in SUBSET ArmRecord /\ IsFiniteSet(list)
           /\ \A r, q \in list : r.at = q.at => r = q
           /\ \A q \in list : Cardinality(Newer(list, q)) <= RECORDS_CAP
           /\ \A q \in list : q.owner # row.owner => Cardinality(Newer(list, q)) < RECORDS_CAP
           /\ Cardinality(Newer(list, row)) < RECORDS_CAP
           /\ Cardinality(RowsOf(rows, row.owner)) <= Cardinality(RowsOf(list, row.owner))
<1>0. /\ RECORDS_CAP \in Nat /\ RECORDS_CAP > 0 /\ IsFiniteSet(rows)
      /\ row.at \in Nat /\ \A r \in rows : r.at \in Nat
      /\ \A r, q \in rows : r.at = q.at => r = q
      /\ \A r \in rows : Cardinality(Newer(rows, r)) < RECORDS_CAP
  BY LedgerAssumption DEF Stamped, ArmRecord
<1>1. list \in SUBSET ArmRecord /\ IsFiniteSet(list)
  <2>1. IsFiniteSet(rows \ open)
    BY <1>0, FS_Subset
  <2>2. QED
    BY <2>1, FS_AddElement
<1>2. \A q : /\ Cardinality(Newer(list, q)) \in Nat /\ IsFiniteSet(Newer(rows, q))
             /\ Cardinality(Newer(rows, q)) \in Nat /\ IsFiniteSet(Newer(list, q))
  BY <1>0, <1>1, FewerRows
<1>3. CASE open = {} /\ \A r \in rows : r.at < row.at
  <2>1. list = rows \cup {row} /\ \A q \in list : q.at <= row.at
    BY <1>0, <1>3
  <2>2. Newer(list, row) = {}
    BY <1>0, <2>1 DEF Newer, RowsOf
  <2>3. Cardinality(Newer(list, row)) = 0
    BY <2>2, FS_EmptySet
  <2>4. ASSUME NEW q \in rows
        PROVE  /\ Cardinality(Newer(list, q)) <= RECORDS_CAP
               /\ q.owner # row.owner => Cardinality(Newer(list, q)) < RECORDS_CAP
    <3>1. CASE q.owner # row.owner
      <4>1. Newer(list, q) = Newer(rows, q)
        BY <2>1, <3>1 DEF Newer, RowsOf
      <4>2. QED
        BY <1>0, <1>2, <4>1
    <3>2. CASE q.owner = row.owner
      <4>1. Newer(list, q) = Newer(rows, q) \cup {row}
        BY <1>3, <2>1, <3>2 DEF Newer, RowsOf
      <4>2. /\ Cardinality(Newer(list, q)) <= Cardinality(Newer(rows, q)) + 1
            /\ Cardinality(Newer(rows, q)) \in Nat /\ Cardinality(Newer(list, q)) \in Nat
        BY <1>2, <4>1, OneMore
      <4>3. Cardinality(Newer(rows, q)) < RECORDS_CAP /\ RECORDS_CAP \in Nat
        BY <1>0
      <4>4. Cardinality(Newer(list, q)) <= RECORDS_CAP
        BY <4>2, <4>3
      <4>5. QED
        BY <3>2, <4>4
    <3>3. QED
      BY <3>1, <3>2
  <2>5. Cardinality(RowsOf(rows, row.owner)) <= Cardinality(RowsOf(list, row.owner))
    BY <1>1, <2>1, FewerRows
  <2>6. \A r, q \in list : r.at = q.at => r = q
    BY <1>0, <1>3, <2>1
  <2>7. QED
    BY <1>0, <1>1, <2>1, <2>3, <2>4, <2>5, <2>6
<1>4. ASSUME NEW old \in rows, open = {old}, row.at = old.at, row.owner = old.owner
      PROVE  /\ \A q \in list : Cardinality(Newer(list, q)) < RECORDS_CAP
             /\ \A r, q \in list : r.at = q.at => r = q
             /\ Cardinality(RowsOf(rows, row.owner)) <= Cardinality(RowsOf(list, row.owner))
  <2>1. list = (rows \ {old}) \cup {row} /\ old.at \in Nat /\ IsFiniteSet(Newer(rows, old))
    BY <1>0, <1>2, <1>4
  <2>2. Cardinality(Newer(list, row)) < RECORDS_CAP
    <3>1. row \notin Newer(list, row)
      BY <1>0 DEF Newer
    <3>2. Newer(list, row) \in SUBSET Newer(rows, old)
      BY <3>1, <1>4, <2>1 DEF Newer, RowsOf
    <3>3. /\ Cardinality(Newer(list, row)) \in Nat /\ Cardinality(Newer(rows, old)) \in Nat
          /\ Cardinality(Newer(list, row)) <= Cardinality(Newer(rows, old))
      BY <2>1, <3>2, Within
    <3>4. Cardinality(Newer(rows, old)) < RECORDS_CAP /\ RECORDS_CAP \in Nat
      BY <1>0, <1>4
    <3>5. QED
      BY <3>3, <3>4
  <2>3. ASSUME NEW q \in rows \ {old} PROVE Cardinality(Newer(list, q)) < RECORDS_CAP
    <3>1. CASE q.owner = row.owner /\ row.at > q.at
      <4>1. old \in Newer(rows, q)
        BY <1>4, <3>1 DEF Newer, RowsOf
      <4>2. Newer(list, q) = (Newer(rows, q) \ {old}) \cup {row}
        BY <2>1, <3>1 DEF Newer, RowsOf
      <4>3. Cardinality(Newer(list, q)) <= Cardinality(Newer(rows, q))
        <5> DEFINE was == Newer(rows, q)
                   now == Newer(list, q)
        <5>1. IsFiniteSet(was) /\ old \in was /\ now = (was \ {old}) \cup {row}
          BY <1>2, <4>1, <4>2
        <5> HIDE DEF was, now
        <5>2. Cardinality(now) <= Cardinality(was)
          BY <5>1, OneSwapped
        <5>3. QED
          BY <5>2 DEF was, now
      <4>4. /\ Cardinality(Newer(rows, q)) < RECORDS_CAP /\ RECORDS_CAP \in Nat
            /\ Cardinality(Newer(rows, q)) \in Nat /\ Cardinality(Newer(list, q)) \in Nat
        BY <1>0, <1>2, <2>3
      <4>5. QED
        BY <4>3, <4>4
    <3>2. CASE ~(q.owner = row.owner /\ row.at > q.at)
      <4>1. Newer(list, q) \in SUBSET Newer(rows, q)
        BY <2>1, <3>2 DEF Newer, RowsOf
      <4>2. /\ Cardinality(Newer(list, q)) <= Cardinality(Newer(rows, q))
            /\ Cardinality(Newer(rows, q)) \in Nat /\ Cardinality(Newer(list, q)) \in Nat
        BY <1>2, <4>1, Within
      <4>3. Cardinality(Newer(rows, q)) < RECORDS_CAP /\ RECORDS_CAP \in Nat
        BY <1>0, <2>3
      <4>4. QED
        BY <4>2, <4>3
    <3>3. QED
      BY <3>1, <3>2
  <2>4. \A r \in rows \ {old} : r.at # row.at
    BY <1>0, <1>4
  <2>5. Cardinality(RowsOf(list, row.owner)) = Cardinality(RowsOf(rows, row.owner))
    <3> DEFINE mine == RowsOf(rows, row.owner)
    <3>1. old \in mine /\ row \notin mine \ {old}
      BY <1>4, <2>4 DEF RowsOf
    <3>2. RowsOf(list, row.owner) = (mine \ {old}) \cup {row}
      BY <2>1 DEF RowsOf
    <3>3. IsFiniteSet(mine)
      BY <1>0, FewerRows
    <3> HIDE DEF mine
    <3>4. Cardinality(RowsOf(list, row.owner)) = Cardinality(mine)
      BY <3>1, <3>2, <3>3, OneSwapped
    <3>5. QED
      BY <3>4 DEF mine
  <2>6. \A r, q \in list : r.at = q.at => r = q
    BY <1>0, <2>1, <2>4
  <2>7. Cardinality(RowsOf(rows, row.owner)) <= Cardinality(RowsOf(list, row.owner))
    <3>1. Cardinality(RowsOf(rows, row.owner)) \in Nat
      BY <1>0, FewerRows
    <3>2. QED
      BY <2>5, <3>1
  <2>8. \A q \in list : Cardinality(Newer(list, q)) < RECORDS_CAP
    BY <2>1, <2>2, <2>3
  <2>9. QED
    BY <2>6, <2>7, <2>8
<1>5. CASE \E old \in rows : open = {old} /\ row.at = old.at /\ row.owner = old.owner
  <2>1. /\ \A q \in list : Cardinality(Newer(list, q)) < RECORDS_CAP
        /\ \A r, q \in list : r.at = q.at => r = q
        /\ Cardinality(RowsOf(rows, row.owner)) <= Cardinality(RowsOf(list, row.owner))
    BY <1>4, <1>5
  <2>2. /\ \A q \in list : Cardinality(Newer(list, q)) <= RECORDS_CAP
        /\ Cardinality(Newer(list, row)) < RECORDS_CAP
    <3>1. RECORDS_CAP \in Nat /\ row \in list
      BY <1>0
    <3>2. QED
      BY <1>2, <2>1, <3>1
  <2>3. QED
    BY <1>1, <2>1, <2>2
<1>6. QED
  BY <1>3, <1>5 DEF Replaces

(* rememberArm replaces the one open row of a name, or adds a row with a   *)
(* new stamp; beyond that it drops rows of the owner, each with            *)
(* RECORDS_CAP newer ones in the list, and a full list stays full.         *)
LEMMA RememberRows ==
    ASSUME NEW l \in Ledger, RowsInOrder(l), NEW order \in ArmOrder, NEW status \in Statuses,
           NEW tx \in Nat, NEW m, m = rememberArm(l, order, status, tx)
    PROVE  /\ m \in Ledger /\ SameMoney(l, m) /\ m.arms = l.arms
           /\ RowsInOrder(m)
           /\ \E row \in m.armRecords :
                 /\ SameName(order, row) /\ row.usd = order.usd
                 /\ row.status = status /\ row.tx = tx
                 /\ m.armRecords \subseteq (l.armRecords \ Open(l.armRecords, order)) \cup {row}
           /\ \A r \in l.armRecords \ Open(l.armRecords, order) :
                 r \in m.armRecords \/ Pushed(m.armRecords, r)
           /\ \A o : ListFull(l, o) => ListFull(m, o)
<1> DEFINE rows == l.armRecords
           open == Open(rows, order)
<1>1. rows \in SUBSET ArmRecord /\ open \in SUBSET rows /\ Stamped(rows)
  BY LedgerFields DEF Open, RowsInOrder
<1>2. PICK b \in Nat : \A r \in rows : r.at <= b
  BY DEF RowsInOrder, Stamped
<1>3. \A r, q \in open : r = q
  BY <1>1 DEF RowsInOrder, Open, SameName
<1>4. PICK row, kept :
        /\ row = [owner |-> order.owner, ticker |-> order.ticker, side |-> order.side,
                  usd |-> order.usd, status |-> status, tx |-> tx,
                  createdAt |-> row.createdAt, at |-> row.at]
        /\ row.createdAt \in Nat /\ row.at \in Nat /\ Replaces(rows, open, row)
        /\ kept = rows \ open
        /\ m = [l EXCEPT !.armRecords = KeepNewest(kept \cup {row}, order.owner)]
  <2>1. CASE open = {}
    <3>1. /\ (IF rows = {} THEN 1 ELSE 1 + Max({r.at : r \in rows})) \in Nat
          /\ \A r \in rows : r.at < 1 + Max({q.at : q \in rows})
      <4>1. CASE rows # {}
        <5>1. {r.at : r \in rows} \in SUBSET Nat /\ {r.at : r \in rows} # {}
          BY <1>1, <4>1 DEF ArmRecord
        <5>2. \A n \in {r.at : r \in rows} : n <= b
          BY <1>2
        <5> DEFINE ats == {r.at : r \in rows}
        <5>3. Max(ats) \in ats /\ \A n \in ats : n <= Max(ats)
          BY <5>1, <5>2, MaxOfBounded, Zenon
        <5>4. \A r \in rows : r.at \in ats
          OBVIOUS
        <5>5. Max(ats) \in Nat /\ \A r \in rows : r.at \in Nat /\ r.at <= Max(ats)
          BY <5>1, <5>3, <5>4
        <5> HIDE DEF ats
        <5>6. 1 + Max(ats) \in Nat /\ \A r \in rows : r.at < 1 + Max(ats)
          BY <5>5
        <5>7. QED
          BY <4>1, <5>6 DEF ats
      <4>2. QED
        BY <4>1
    <3>2. order.createdAt \in Nat
      BY DEF ArmOrder
    <3> DEFINE at == IF rows = {} THEN 1 ELSE 1 + Max({r.at : r \in rows})
               new == [owner |-> order.owner, ticker |-> order.ticker, side |-> order.side,
                       usd |-> order.usd, status |-> status, tx |-> tx,
                       createdAt |-> order.createdAt, at |-> at]
    <3>3. m = [l EXCEPT !.armRecords = KeepNewest(rows \cup {new}, order.owner)]
      BY <2>1 DEF rememberArm
    <3>4. new.createdAt = order.createdAt /\ new.at = at /\ rows = rows \ open
      BY <2>1
    <3>5. \A r \in rows : r.at < new.at
      BY <3>1, <3>4
    <3>6. Replaces(rows, open, new)
      BY <2>1, <3>5 DEF Replaces
    <3> HIDE DEF at, rows, open
    <3>7. QED
      BY <3>1, <3>2, <3>3, <3>4, <3>6 DEF at
  <2>2. CASE open # {}
    <3>1. PICK old \in open : open = {old}
      BY <2>2, <1>3
    <3>2. old.at \in Nat /\ old.createdAt \in Nat
      BY <3>1, <1>1 DEF ArmRecord
    <3>3. old = CHOOSE r \in open : \A q \in open : r.at <= q.at
      BY <3>1, <3>2
    <3> DEFINE new == [owner |-> order.owner, ticker |-> order.ticker, side |-> order.side,
                       usd |-> order.usd, status |-> status, tx |-> tx,
                       createdAt |-> old.createdAt, at |-> old.at]
    <3>4. m = [l EXCEPT !.armRecords = KeepNewest((rows \ {old}) \cup {new}, order.owner)]
      BY <2>2, <3>3 DEF rememberArm
    <3>5. rows \ {old} = rows \ open /\ new.createdAt = old.createdAt /\ new.at = old.at
      BY <3>1
    <3>6. new.owner = old.owner /\ old \in rows
      BY <3>1 DEF Open, SameName
    <3>7. Replaces(rows, open, new)
      BY <3>1, <3>5, <3>6 DEF Replaces
    <3> HIDE DEF rows, open
    <3>8. QED
      BY <3>2, <3>4, <3>5, <3>7
  <2>3. QED
    BY <2>1, <2>2
<1> DEFINE list == (rows \ open) \cup {row}
<1>5. /\ row \in ArmRecord /\ SameName(order, row) /\ row.usd = order.usd
      /\ row.status = status /\ row.tx = tx /\ row.owner = order.owner
  BY <1>4 DEF ArmRecord, ArmOrder, SameName
<1>6. m.armRecords = KeepNewest(list, order.owner)
  BY <1>4 DEF Ledger
<1>7. /\ list \in SUBSET ArmRecord /\ IsFiniteSet(list)
      /\ \A r, q \in list : r.at = q.at => r = q
      /\ \A q \in list : Cardinality(Newer(list, q)) <= RECORDS_CAP
      /\ \A q \in list : q.owner # row.owner => Cardinality(Newer(list, q)) < RECORDS_CAP
      /\ Cardinality(Newer(list, row)) < RECORDS_CAP
      /\ Cardinality(RowsOf(rows, row.owner)) <= Cardinality(RowsOf(list, row.owner))
  <2> HIDE DEF rows, open
  <2>1. QED
    BY <1>1, <1>4, <1>5, OneMoreRow
<1>8. m.armRecords \in SUBSET list /\ row \in m.armRecords
  BY <1>6, <1>7 DEF KeepNewest
<1>9. m \in Ledger /\ SameMoney(l, m) /\ m.arms = l.arms
  <2>1. KeepNewest(kept \cup {row}, order.owner) \in SUBSET ArmRecord
    BY <1>1, <1>4, <1>5 DEF KeepNewest
  <2>2. QED
    BY <1>4, <2>1 DEF Ledger, SameMoney
<1>10. ASSUME NEW r \in list, r \notin m.armRecords
       PROVE  r.owner = order.owner /\ Pushed(m.armRecords, r)
  <2> HIDE DEF list
  <2>1. QED
    BY <1>6, <1>7, <1>10, DroppedIsPushed
<1>11. RowsInOrder(m)
  <2>1. ASSUME NEW r \in m.armRecords, NEW q \in m.armRecords, SameName(r, q),
               r.status # "executed", q.status # "executed"
        PROVE  r = q
    <3>1. \A s \in rows \ open : s.status # "executed" => ~SameName(s, row)
      BY <1>5 DEF Open, SameName
    <3>2. CASE r \in rows \ open /\ q \in rows \ open
      BY <2>1, <3>2 DEF RowsInOrder
    <3>3. CASE r = row \/ q = row
      BY <2>1, <3>1, <3>3, <1>8 DEF SameName
    <3>4. QED
      BY <1>8, <3>2, <3>3
  <2>2. PICK c \in Nat : b <= c /\ row.at <= c
    BY <1>4
  <2>3. \A r \in rows : r.at <= c
    BY <1>1, <1>2, <2>2 DEF ArmRecord
  <2>4. \A r \in m.armRecords : r.at <= c
    BY <1>8, <2>2, <2>3
  <2>5. ASSUME NEW r \in m.armRecords PROVE Cardinality(Newer(m.armRecords, r)) < RECORDS_CAP
    <3>1. Cardinality(Newer(list, r)) < RECORDS_CAP
      BY <1>5, <1>6, <1>7 DEF KeepNewest
    <3>2. /\ Cardinality(Newer(m.armRecords, r)) \in Nat /\ Cardinality(Newer(list, r)) \in Nat
          /\ Cardinality(Newer(m.armRecords, r)) <= Cardinality(Newer(list, r))
      BY <1>7, <1>8, FewerRows
    <3>3. RECORDS_CAP \in Nat
      BY LedgerAssumption
    <3>4. QED
      BY <3>1, <3>2, <3>3
  <2>6. IsFiniteSet(m.armRecords)
    BY <1>7, <1>8, FS_Subset
  <2>7. \A r, q \in m.armRecords : r.at = q.at => r = q
    BY <1>7, <1>8
  <2>8. Stamped(m.armRecords)
    BY <2>4, <2>5, <2>6, <2>7 DEF Stamped
  <2>9. QED
    BY <2>1, <2>8 DEF RowsInOrder
<1>12. ASSUME NEW o, ListFull(l, o) PROVE ListFull(m, o)
  <2>1. RECORDS_CAP \in Nat
    BY LedgerAssumption
  <2>2. CASE o # order.owner
    <3>1. \A r \in RowsOf(rows, o) : r \in m.armRecords
      BY <1>10, <2>2 DEF RowsOf, Open, SameName
    <3>2. RowsOf(rows, o) = RowsOf(m.armRecords, o)
      BY <1>5, <1>8, <2>2, <3>1 DEF RowsOf
    <3>3. QED
      BY <1>12, <3>2 DEF ListFull
  <2>3. CASE o = order.owner /\ \A r \in list : r \in m.armRecords
    <3>1. m.armRecords = list
      BY <1>8, <2>3
    <3>2. /\ Cardinality(RowsOf(list, o)) \in Nat /\ Cardinality(RowsOf(rows, o)) \in Nat
          /\ Cardinality(RowsOf(rows, o)) <= Cardinality(RowsOf(list, o))
      BY <1>1, <1>5, <1>7, <2>3, FewerRows DEF Stamped
    <3>3. QED
      BY <1>12, <2>1, <3>1, <3>2 DEF ListFull
  <2>4. ASSUME NEW r \in list, o = order.owner, r \notin m.armRecords
        PROVE  ListFull(m, o)
    <3>1. r.owner = o /\ Pushed(m.armRecords, r)
      BY <1>10, <2>4
    <3>2. QED
      BY <1>11, <3>1, FullWhenPushed DEF RowsInOrder
  <2>5. QED
    BY <2>2, <2>3, <2>4
<1>13. QED
  BY <1>5, <1>8, <1>9, <1>10, <1>11, <1>12

(* setArm: the owner's new order, and its pending row.  The other rows     *)
(* stay, unless they are pushed out.                                       *)
LEMMA SetArmKeeps ==
    ASSUME NEW l, LedgerInv(l), NEW order \in ArmOrder, NEW m, m = setArm(l, order)
    PROVE  /\ LedgerInv(m) /\ SameMoney(l, m)
           /\ m.arms = {a \in l.arms : ~SameName(a, order)} \cup {order}
           /\ \E row \in m.armRecords : SameName(order, row) /\ row.status = "pending"
           /\ \A r \in l.armRecords \ Open(l.armRecords, order) :
                 r \in m.armRecords \/ Pushed(m.armRecords, r)
           /\ \A o : ListFull(l, o) => ListFull(m, o)
<1>1. l \in Ledger /\ RowsInOrder(l)
  BY DEF LedgerInv
<1>2. PICK k : k = [l EXCEPT !.arms = {a \in @ : ~SameName(a, order)} \cup {order}]
  OBVIOUS
<1>3. /\ k \in Ledger /\ SameMoney(l, k) /\ k.armRecords = l.armRecords
      /\ k.arms = {a \in l.arms : ~SameName(a, order)} \cup {order}
  BY <1>1, <1>2 DEF Ledger, SameMoney
<1>4. RowsInOrder(k)
  BY <1>1, <1>3 DEF RowsInOrder
<1>5. m = rememberArm(k, order, "pending", NoSig) /\ NoSig \in Nat /\ "pending" \in Statuses
  BY <1>2 DEF setArm, NoSig, Statuses
<1>6. /\ m \in Ledger /\ SameMoney(k, m) /\ m.arms = k.arms /\ RowsInOrder(m)
      /\ \E row \in m.armRecords :
            /\ SameName(order, row) /\ row.usd = order.usd /\ row.status = "pending"
            /\ m.armRecords \subseteq (k.armRecords \ Open(k.armRecords, order)) \cup {row}
      /\ \A r \in k.armRecords \ Open(k.armRecords, order) :
            r \in m.armRecords \/ Pushed(m.armRecords, r)
      /\ \A o : ListFull(k, o) => ListFull(m, o)
  BY <1>3, <1>4, <1>5, RememberRows
<1>7. SameMoney(l, m)
  BY <1>3, <1>6 DEF SameMoney
<1>8. PendingArmed(m)
  <2> SUFFICES ASSUME NEW r \in m.armRecords, r.status = "pending"
               PROVE  \E a \in m.arms : SameName(a, r) /\ a.usd = r.usd
    BY DEF PendingArmed
  <2>1. PICK row \in m.armRecords :
            /\ SameName(order, row) /\ row.usd = order.usd /\ row.status = "pending"
            /\ m.armRecords \subseteq (l.armRecords \ Open(l.armRecords, order)) \cup {row}
    BY <1>3, <1>6
  <2>2. CASE r = row
    BY <2>1, <2>2, <1>3, <1>6
  <2>3. CASE r \in l.armRecords \ Open(l.armRecords, order)
    <3>1. ~SameName(r, order)
      BY <2>3 DEF Open
    <3>2. PICK a \in l.arms : SameName(a, r) /\ a.usd = r.usd
      BY <2>3 DEF LedgerInv, PendingArmed
    <3>3. ~SameName(a, order)
      BY <3>1, <3>2 DEF SameName
    <3>4. QED
      BY <3>2, <3>3, <1>3, <1>6
  <2>4. QED
    BY <2>1, <2>2, <2>3
<1>9. LedgerInv(m)
  BY <1>3, <1>6, <1>7, <1>8, MoneyAside DEF LedgerInv
<1>10. \A o : ListFull(l, o) => ListFull(m, o)
  BY <1>3, <1>6 DEF ListFull
<1>11. QED
  BY <1>3, <1>6, <1>7, <1>9, <1>10

(* recordArmResult writes no pending row; the row it writes stays in the   *)
(* list, in the place of the open row of the name.                         *)
LEMMA RecordKeeps ==
    ASSUME NEW l, LedgerInv(l), NEW order \in ArmOrder, NEW status \in {"executed", "failed"},
           NEW tx \in Nat, NEW m, m = recordArmResult(l, order, status, tx)
    PROVE  /\ LedgerInv(m) /\ SameMoney(l, m) /\ m.arms = l.arms
           /\ \E row \in m.armRecords : SameName(order, row) /\ row.status = status /\ row.tx = tx
           /\ \A r \in l.armRecords \ Open(l.armRecords, order) :
                 r \in m.armRecords \/ Pushed(m.armRecords, r)
           /\ \A o : ListFull(l, o) => ListFull(m, o)
<1>1. l \in Ledger /\ RowsInOrder(l) /\ l.arms \in SUBSET ArmOrder
  BY LedgerFields DEF LedgerInv
<1>2. PICK current \in ArmOrder :
          m = rememberArm(l, current, status, tx) /\ SameName(current, order)
  <2> DEFINE live == {a \in l.arms : SameName(a, order)}
  <2>1. /\ (IF live = {} THEN order ELSE CHOOSE a \in live : TRUE) \in ArmOrder
        /\ SameName(IF live = {} THEN order ELSE CHOOSE a \in live : TRUE, order)
    BY <1>1 DEF SameName
  <2>2. m = rememberArm(l, IF live = {} THEN order ELSE CHOOSE a \in live : TRUE, status, tx)
    BY DEF recordArmResult
  <2>3. QED
    BY <2>1, <2>2
<1>3. status \in Statuses
  BY DEF Statuses
<1>4. /\ m \in Ledger /\ SameMoney(l, m) /\ m.arms = l.arms /\ RowsInOrder(m)
      /\ \E row \in m.armRecords :
            /\ SameName(current, row) /\ row.status = status /\ row.tx = tx
            /\ m.armRecords \subseteq (l.armRecords \ Open(l.armRecords, current)) \cup {row}
      /\ \A r \in l.armRecords \ Open(l.armRecords, current) :
            r \in m.armRecords \/ Pushed(m.armRecords, r)
      /\ \A o : ListFull(l, o) => ListFull(m, o)
  BY <1>1, <1>2, <1>3, RememberRows
<1>5. PendingArmed(m)
  BY <1>4 DEF LedgerInv, PendingArmed
<1>6. LedgerInv(m)
  BY <1>4, <1>5, MoneyAside DEF LedgerInv
<1>7. Open(l.armRecords, current) = Open(l.armRecords, order)
  BY <1>2 DEF Open, SameName
<1>8. \E row \in m.armRecords : SameName(order, row) /\ row.status = status /\ row.tx = tx
  BY <1>2, <1>4 DEF SameName
<1>9. QED
  BY <1>4, <1>6, <1>7, <1>8

(* disarm takes the pending rows of the orders it takes.                   *)
LEMMA DisarmKeeps ==
    ASSUME NEW l, LedgerInv(l), NEW o \in Owners, NEW tickers, NEW m, m = disarm(l, o, tickers)
    PROVE  /\ LedgerInv(m) /\ SameMoney(l, m)
           /\ m.arms = {a \in l.arms : a.owner = o => a.ticker \notin tickers}
           /\ m.armRecords = {r \in l.armRecords : (r.owner = o /\ r.status = "pending")
                                                       => r.ticker \notin tickers}
<1>1. l \in Ledger
  BY DEF LedgerInv
<1>2. /\ m \in Ledger /\ SameMoney(l, m)
      /\ m.arms = {a \in l.arms : a.owner = o => a.ticker \notin tickers}
      /\ m.armRecords = {r \in l.armRecords : (r.owner = o /\ r.status = "pending")
                                                  => r.ticker \notin tickers}
  BY <1>1 DEF disarm, Ledger, SameMoney
<1>3. PendingArmed(m)
  BY <1>2 DEF LedgerInv, PendingArmed, SameName
<1>4. RowsInOrder(m)
  <2>1. Stamped(l.armRecords) /\ m.armRecords \in SUBSET l.armRecords
    BY <1>2 DEF LedgerInv, RowsInOrder
  <2>2. Stamped(m.armRecords)
    BY <2>1, StampedSubset
  <2>3. QED
    BY <2>1, <2>2 DEF LedgerInv, RowsInOrder
<1>5. QED
  BY <1>2, <1>3, <1>4, MoneyAside DEF LedgerInv
=============================================================================
