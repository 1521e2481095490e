----------------------------- MODULE DeskLedger -----------------------------
(***************************************************************************)
(* data/ledger.json and the functions that rewrite it.  Each one loads the *)
(* file, changes it and renames a new copy over it without awaiting, so    *)
(* each is a function from ledgers to ledgers.                             *)
(*                                                                         *)
(* Data: amounts are whole units (the code rounds to 1e-6 USDC and 1e-8    *)
(* shares, its comparisons tolerate less than that); a signature is a      *)
(* number, NoSig stands for no signature.  arms and armRecords are sets:   *)
(* the code's list of arms is in the order of createdAt, its list of       *)
(* records in the order of the stamp `at`.  Cost bases, bands, error texts *)
(* and updatedAt decide nothing here and are left out.                     *)
(***************************************************************************)
EXTENDS Integers, Sequences, FiniteSets, FiniteSetsExt

CONSTANTS
    Owners, Tickers, Usdc,
    PROCESSED_CAP,      \* signatures the ledger remembers: 2000
    RECORDS_CAP         \* rows the ledger keeps for an owner: 30

ASSUME LedgerAssumption ==
    /\ Usdc \notin Tickers
    /\ PROCESSED_CAP \in Nat \ {0} /\ RECORDS_CAP \in Nat \ {0}

Assets == Tickers \cup {Usdc}
ArmSides == {"buy", "sell"}
Statuses == {"pending", "executed", "failed"}
NoSig == 0

ArmOrder == [owner : Owners, ticker : Tickers, side : ArmSides, usd : Nat, createdAt : Nat]
ArmRecord == [owner : Owners, ticker : Tickers, side : ArmSides, usd : Nat,
              createdAt : Nat, status : Statuses, tx : Nat, at : Nat]
Deposit == [owner : Owners, amount : Nat, sig : Nat]
Withdrawal == [owner : Owners, asset : Assets, amount : Nat, sig : Nat]
UserFill == [owner : Owners, tx : Nat]

(* book is usdc and holdings of a UserAccount.  The users' journals of     *)
(* deposits, fills and withdrawals are kept as one journal each, with the  *)
(* owner; fills is kept whole, the code drops all but the last 80.         *)
Ledger == [book : [Owners -> [Assets -> Int]], processed : Seq(Nat),
           deposits : Seq(Deposit), fills : Seq(UserFill), withdrawals : Seq(Withdrawal),
           arms : SUBSET ArmOrder, armRecords : SUBSET ArmRecord]

empty == [book |-> [o \in Owners |-> [a \in Assets |-> 0]], processed |-> <<>>,
          deposits |-> <<>>, fills |-> <<>>, withdrawals |-> <<>>,
          arms |-> {}, armRecords |-> {}]

-----------------------------------------------------------------------------
(* Deposits, fills and withdrawals.                                        *)

seenSig(l, sig) == \E i \in DOMAIN l.processed : l.processed[i] = sig

(* Mutant: one signature too few is kept.                                  *)
NewestButOne(s, cap) == IF Len(s) < cap THEN s ELSE SubSeq(s, Len(s) - cap + 2, Len(s))

(* slice(-cap)                                                             *)
Newest(s, cap) == IF Len(s) <= cap THEN s ELSE SubSeq(s, Len(s) - cap + 1, Len(s))

creditDeposit(l, owner, amount, sig) ==
    IF seenSig(l, sig) THEN l
    ELSE [l EXCEPT !.book[owner][Usdc] = @ + amount,
                   !.deposits = Append(@, [owner |-> owner, amount |-> amount, sig |-> sig]),
                   !.processed = Newest(Append(@, sig), PROCESSED_CAP)]

(* Mutant: applyFill trusts the check made when the order was armed.       *)
CoveredBefore(l, owner, delta) == TRUE

(* delta is what a fill adds to each balance: applyFill throws unless the  *)
(* book has what the fill spends.                                          *)
Covers(l, owner, delta) == \A a \in Assets : l.book[owner][a] + delta[a] >= 0

applyFill(l, owner, delta, tx) ==
    [l EXCEPT !.book[owner] = [a \in Assets |-> @[a] + delta[a]],
              !.fills = Append(@, [owner |-> owner, tx |-> tx])]

(* debitWithdraw throws unless the book has the amount.                    *)
CanDebit(l, owner, asset, amount) == l.book[owner][asset] >= amount

debitWithdraw(l, owner, asset, amount, sig) ==
    [l EXCEPT !.book[owner][asset] = @ - amount,
              !.withdrawals = Append(@, [owner |-> owner, asset |-> asset,
                                         amount |-> amount, sig |-> sig])]

-----------------------------------------------------------------------------
(* Arms and their records.                                                 *)

(* An owner arms a ticker and a side at most once.                         *)
SameName(x, y) == x.owner = y.owner /\ x.ticker = y.ticker /\ x.side = y.side

(* Mutant: executed rows are written over too.                             *)
OpenAny(rows, order) == {r \in rows : SameName(r, order)}

Open(rows, order) == {r \in rows : SameName(r, order) /\ r.status # "executed"}

(* The rows of an owner, and those the list shows before a row.            *)
RowsOf(rows, owner) == {r \in rows : r.owner = owner}
Newer(rows, row) == {r \in RowsOf(rows, row.owner) : r.at > row.at}

(* Mutant: one row too few is kept.                                        *)
KeepFewer(rows, owner) ==
    {r \in rows : r.owner = owner => Cardinality(Newer(rows, r)) < RECORDS_CAP - 1}

(* All but the owner's newest RECORDS_CAP rows are dropped.                *)
KeepNewest(rows, owner) ==
    {r \in rows : r.owner = owner => Cardinality(Newer(rows, r)) < RECORDS_CAP}

(* The new row takes the place of the open one, or the end of the list.    *)
rememberArm(l, order, status, tx) ==
    LET rows == l.armRecords
        open == Open(rows, order)
        old  == CHOOSE r \in open : \A q \in open : r.at <= q.at
        row  == [owner |-> order.owner, ticker |-> order.ticker, side |-> order.side,
                 usd |-> order.usd, status |-> status, tx |-> tx,
                 createdAt |-> IF open = {} THEN order.createdAt ELSE old.createdAt,
                 at |-> IF open # {} THEN old.at
                        ELSE IF rows = {} THEN 1 ELSE 1 + Max({r.at : r \in rows})]
        kept == IF open = {} THEN rows ELSE rows \ {old}
    IN  [l EXCEPT !.armRecords = KeepNewest(kept \cup {row}, order.owner)]

(* Every caller in src/ arms (armed is true).                              *)
setArm(l, order) ==
    rememberArm([l EXCEPT !.arms = {a \in @ : ~SameName(a, order)} \cup {order}],
                order, "pending", NoSig)

(* The row is written with the size of the arm that is live now, if any.   *)
recordArmResult(l, order, status, tx) ==
    LET live    == {a \in l.arms : SameName(a, order)}
        current == IF live = {} THEN order ELSE CHOOSE a \in live : TRUE
    IN  rememberArm(l, current, status, tx)

(* Mutant: the rows stay.                                                  *)
DisarmArmsOnly(l, owner, tickers) ==
    [l EXCEPT !.arms = {a \in @ : a.owner = owner => a.ticker \notin tickers}]

(* Both sides of each ticker in tickers: the code is given one, or none    *)
(* for all of them.                                                        *)
disarm(l, owner, tickers) ==
    [l EXCEPT !.arms = {a \in @ : a.owner = owner => a.ticker \notin tickers},
              !.armRecords = {r \in @ : (r.owner = owner /\ r.status = "pending")
                                            => r.ticker \notin tickers}]
=============================================================================
