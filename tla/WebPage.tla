------------------------------ MODULE WebPage ------------------------------
(***************************************************************************)
(* The page (web/index.html) against the custodial server: the connected   *)
(* wallet, the deposit address and the list of armed orders, both kept in  *)
(* the browser's localStorage for each owner.                              *)
(*                                                                         *)
(* A handler runs on after an await with whatever `pubkey` is by then, the *)
(* wallet may have been switched meanwhile; answers come back in any order *)
(* and may fail.  So a request is a record with the stage it waits at, and *)
(* what its handler does after each await is an action of its own.         *)
(*                                                                         *)
(* Data: the desk address of an owner never changes (DeskKeys), so it is   *)
(* named by the owner.  The page arms buys only; a row is a ticker and the *)
(* label it is painted with.  The cap of 30 rows is out of reach of        *)
(* MaxClicks.  Rows painted while no wallet is connected decide nothing.   *)
(* A page in the background stops refreshing; here it stays visible.       *)
(*                                                                         *)
(* A signed message names a wallet, an action and a time, not the ticker   *)
(* or the amount, and the server keeps none: until it is five minutes old  *)
(* whoever has a copy may post it again, to any of the three endpoints.    *)
(***************************************************************************)
EXTENDS DeskLedger

CONSTANTS
    NoOwner, NoAddress, NoRequest,
    Slots,              \* requests the page may have in flight
    Spelled,            \* action words that occur in an owner's address
    MaxClicks,          \* bounds what the user does
    MaxFaults           \* requests that fail, messages posted again

VARIABLES
    pubkey,             \* the connected wallet
    deskCache,          \* localStorage markfill.desk.<owner>
    deskAddr,           \* the deposit address on the page
    armCache,           \* localStorage markfill.arms.<owner>
    shown,              \* lastArmRecords, the rows on the page
    requests,           \* what the page awaits
    ledger,             \* the server's ledger
    pinned,             \* owners whose desk wallet the server has pinned
    signed,             \* the messages wallets signed that came in time
    clicks, faults

pageVars == <<pubkey, deskCache, deskAddr, armCache, shown, requests>>
serverVars == <<ledger, pinned>>
counters == <<clicks, faults>>
vars == <<pageVars, serverVars, signed, counters>>

MaybeOwner == Owners \cup {NoOwner}
MaybeAddress == Owners \cup {NoAddress}

Labels == {"Pending", "Executed", "Failed", "Failed, retrying"}
Row == [ticker : Tickers, label : Labels]

SignedOps == {"arm", "disarm", "withdraw"}
ArmOps == {"arm", "disarm"}
Message == [says : SignedOps, signer : Owners]

ASSUME SpelledAssumption == Spelled \in [Owners -> SUBSET SignedOps]

Stages == {"desk", "deskAnswer", "me", "meAnswer", "sign", "post", "posted", "rest"}
Request == [op : SignedOps \cup {"loadMe", "refresh"}, at : Stages,
            owner : MaybeOwner,         \* whom it asks about
            signer : MaybeOwner,        \* whose wallet signs its message
            late : BOOLEAN,             \* the message is over five minutes old
            ticker : Tickers \cup {Usdc},
            local : SUBSET Row,         \* the saved rows its handler read
            address : MaybeAddress, rows : SUBSET Row]

Init ==
    /\ pubkey = NoOwner
    /\ deskCache = [o \in Owners |-> NoAddress] /\ deskAddr = NoAddress
    /\ armCache = [o \in Owners |-> {}] /\ shown = {}
    /\ requests = [s \in Slots |-> NoRequest]
    /\ ledger = empty /\ pinned = {} /\ signed = {}
    /\ clicks = 0 /\ faults = 0

-----------------------------------------------------------------------------
(* The list of armed orders.                                               *)

(* Mutant: the row is painted with the status it is kept with.             *)
RawStatus(r, live) == r.status

Label(r, live) ==
    CASE r.status = "pending" -> "Pending"
      [] r.status = "executed" -> "Executed"
      [] r.status = "failed" -> IF live THEN "Failed, retrying" ELSE "Failed"

Armed(l, o, t) == \E a \in l.arms : a.owner = o /\ a.ticker = t /\ a.side = "buy"

(* The server's rows, and a pending one for an arm without an open row.    *)
rowsFromMe(l, o) ==
    LET records == {r \in l.armRecords : r.owner = o}
        open == {r.ticker : r \in {q \in records : q.status # "executed"}}
    IN  {[ticker |-> r.ticker, label |-> Label(r, Armed(l, o, r.ticker))] : r \in records}
        \cup {[ticker |-> t, label |-> "Pending"] :
                t \in {u \in Tickers \ open : Armed(l, o, u)}}

FailedLabels == {"Failed", "Failed, retrying"}

(* Of one ticker and the same status, live or not.                         *)
SameRow(x, y) ==
    x.ticker = y.ticker /\ (x.label = y.label \/ {x.label, y.label} \subseteq FailedLabels)

(* Mutant: the saved rows win.                                             *)
LocalFirst(server, local) ==
    local \cup {r \in server : \A q \in local : q.ticker # r.ticker}

(* Mutant: pending rows that only the browser knows are kept.              *)
KeepPending(server, local) ==
    server \cup {r \in local : \A q \in server : ~SameRow(r, q)}

(* The server's rows and those saved ones it has no counterpart of; saved  *)
(* pending rows have no transaction in custodial mode and are dropped.     *)
mergeArmRecords(server, local) ==
    server \cup {r \in local : r.label # "Pending" /\ \A q \in server : ~SameRow(r, q)}

rememberLocalArm(rows, t) ==
    {r \in rows : ~(r.ticker = t /\ r.label # "Executed")}
        \cup {[ticker |-> t, label |-> "Pending"]}

dropLocalArm(rows, t) ==
    {IF r.ticker = t /\ r.label = "Failed, retrying" THEN [r EXCEPT !.label = "Failed"] ELSE r :
        r \in {q \in rows : ~(q.ticker = t /\ q.label = "Pending")}}

(* The arm button disarms when the list shows a live order (syncArmButton).*)
ShownArmed(t) ==
    /\ pubkey # NoOwner
    /\ \E r \in shown : r.ticker = t /\ r.label \in {"Pending", "Failed, retrying"}

(* localStorage and the page get the rows together.                        *)
SaveAndPaint(rows) ==
    /\ armCache' = IF pubkey = NoOwner THEN armCache ELSE [armCache EXCEPT ![pubkey] = rows]
    /\ shown' = rows

-----------------------------------------------------------------------------
(* Requests.                                                               *)

Blank == [op |-> "refresh", at |-> "me", owner |-> NoOwner, signer |-> NoOwner, late |-> FALSE,
          ticker |-> Usdc, local |-> {}, address |-> NoAddress, rows |-> {}]

Free(s) == requests[s] = NoRequest
Waits(s, stage) == requests[s] # NoRequest /\ requests[s].at = stage
Send(s, r) == requests' = [requests EXCEPT ![s] = r]
End(s) == Send(s, NoRequest)

LoadMe(owner) == [Blank EXCEPT !.op = "loadMe", !.at = "desk", !.owner = owner]

(* refreshArmRecords reads the saved rows before it asks the server.       *)
Refresh == [Blank EXCEPT !.owner = pubkey, !.local = armCache[pubkey]]

Click == clicks < MaxClicks /\ clicks' = clicks + 1
Fault == faults < MaxFaults /\ faults' = faults + 1

(* Connecting paints the saved rows and calls loadMe, whose loadDesk shows *)
(* the saved address at once.                                              *)
Connect(o, s) ==
    /\ Click /\ Free(s)
    /\ pubkey' = o
    /\ shown' = armCache[o]
    /\ deskAddr' = IF deskCache[o] # NoAddress THEN deskCache[o] ELSE deskAddr
    /\ Send(s, LoadMe(o))
    /\ UNCHANGED <<deskCache, armCache, serverVars, signed, faults>>

(* The account tab, the Refresh button.                                    *)
ShowAccount(s) ==
    /\ Click /\ Free(s) /\ pubkey # NoOwner
    /\ deskAddr' = IF deskCache[pubkey] # NoAddress THEN deskCache[pubkey] ELSE deskAddr
    /\ Send(s, LoadMe(pubkey))
    /\ UNCHANGED <<pubkey, deskCache, armCache, shown, serverVars, signed, faults>>

(* clearSession leaves address and rows painted.                           *)
Disconnect ==
    /\ Click /\ pubkey # NoOwner
    /\ pubkey' = NoOwner
    /\ UNCHANGED <<deskCache, deskAddr, armCache, shown, requests, serverVars, signed, faults>>

(* A reload forgets all but localStorage.                                  *)
Reload ==
    /\ Click
    /\ pubkey' = NoOwner /\ deskAddr' = NoAddress /\ shown' = {}
    /\ requests' = [s \in Slots |-> NoRequest]
    /\ UNCHANGED <<deskCache, armCache, serverVars, signed, faults>>

(* setInterval, every 20 seconds.                                          *)
RefreshTimer(s) ==
    /\ Free(s) /\ pubkey # NoOwner
    /\ shown' = armCache[pubkey]
    /\ Send(s, Refresh)
    /\ UNCHANGED <<pubkey, deskCache, deskAddr, armCache, serverVars, signed, counters>>

(* What a message says, as includes() finds it: "arm" is part of "disarm", *)
(* and the address in it may spell a word too.                             *)
Includes(m, action) ==
    \/ action = m.says
    \/ action = "arm" /\ m.says = "disarm"
    \/ action \in Spelled[m.signer]

MessageOf(op, o) == [says |-> op, signer |-> o]

(* The arm button is disabled until its call is done; the buttons that     *)
(* withdraw are others, but the wallet shows one prompt at a time.         *)
ArmBusy ==
    \E q \in Slots : /\ Waits(q, "sign") \/ Waits(q, "post") \/ Waits(q, "posted") \/ Waits(q, "rest")
                     /\ requests[q].op \in ArmOps

ClickSigned(op, s) ==
    /\ Click /\ Free(s) /\ pubkey # NoOwner
    /\ \A q \in Slots : ~Waits(q, "sign")
    /\ op \in ArmOps => ~ArmBusy
    /\ Send(s, [Blank EXCEPT !.op = op, !.at = "sign", !.signer = pubkey])
    /\ UNCHANGED <<pubkey, deskCache, deskAddr, armCache, shown, serverVars, signed, faults>>

ClickArm(s) ==
    \/ (\E t \in Tickers : ~ShownArmed(t)) /\ ClickSigned("arm", s)
    \/ (\E t \in Tickers : ShownArmed(t)) /\ ClickSigned("disarm", s)

(* The wallet has signed, maybe long after the click; the body names the   *)
(* wallet and the ticker that are selected by now.                         *)
Signed(s) ==
    /\ Waits(s, "sign")
    /\ \E t \in Tickers, late \in BOOLEAN :
          /\ Send(s, [requests[s] EXCEPT !.at = "post", !.owner = pubkey, !.late = late, !.ticker = t])
          /\ signed' = IF late THEN signed
                       ELSE signed \cup {MessageOf(requests[s].op, requests[s].signer)}
    /\ UNCHANGED <<pubkey, deskCache, deskAddr, armCache, shown, serverVars, counters>>

(* The user declines: the handler ends in its catch.                       *)
Declined(s) ==
    /\ Waits(s, "sign")
    /\ End(s)
    /\ UNCHANGED <<pubkey, deskCache, deskAddr, armCache, shown, serverVars, signed, counters>>

-----------------------------------------------------------------------------
(* The server.                                                             *)

(* Mutant: any message will do.                                            *)
AnySignature(owner, action, m, late) == owner # NoOwner

(* The message names the wallet of the body and is signed by it, includes  *)
(* the action, and is less than five minutes old.                          *)
requireOwnerSig(owner, action, m, late) ==
    /\ owner # NoOwner /\ owner = m.signer
    /\ Includes(m, action)
    /\ ~late

(* /api/desk: deskKeypair pins the wallet the first time.                  *)
ServeDesk(s) ==
    /\ Waits(s, "desk")
    /\ pinned' = pinned \cup {requests[s].owner}
    /\ Send(s, [Blank EXCEPT !.op = "loadMe", !.at = "deskAnswer", !.address = requests[s].owner])
    /\ UNCHANGED <<pubkey, deskCache, deskAddr, armCache, shown, ledger, signed, counters>>

(* /api/desk/me: snapshot reads the address before it may be pinned.       *)
ServeMe(s) ==
    /\ Waits(s, "me")
    /\ LET o == requests[s].owner
       IN  /\ Send(s, [requests[s] EXCEPT !.at = "meAnswer", !.owner = NoOwner,
                           !.address = IF o \in pinned THEN o ELSE NoAddress,
                           !.rows = rowsFromMe(ledger, o)])
           /\ pinned' = pinned \cup {o}
    /\ UNCHANGED <<pubkey, deskCache, deskAddr, armCache, shown, ledger, signed, counters>>

(* What the endpoints arm, disarm and withdraw do to the ledger.           *)
Obey(op, o, t) ==
    CASE op = "arm" -> setArm(ledger, [owner |-> o, ticker |-> t, side |-> "buy", usd |-> 1,
                                       createdAt |-> 1])
      [] op = "disarm" -> disarm(ledger, o, {t})
      [] op = "withdraw" -> ledger

(* The page posts a message to the endpoint it was signed for.             *)
ServeSigned(s) ==
    /\ Waits(s, "post")
    /\ LET r == requests[s]
       IN  /\ requireOwnerSig(r.owner, r.op, MessageOf(r.op, r.signer), r.late)
           /\ ledger' = Obey(r.op, r.owner, r.ticker)
           /\ Send(s, [Blank EXCEPT !.op = r.op, !.at = "posted"])
    /\ UNCHANGED <<pubkey, deskCache, deskAddr, armCache, shown, pinned, signed, counters>>

(* A message that does not pass, or a call that throws after it (a size,   *)
(* the funds): the handler ends in its catch.                              *)
Refuse(s) ==
    /\ Waits(s, "post")
    /\ End(s)
    /\ UNCHANGED <<pubkey, deskCache, deskAddr, armCache, shown, serverVars, signed, counters>>

(* A copy of a message is posted, not by this page.  Copies do not age     *)
(* here: that they do only takes steps away.                               *)
Replay(m, op, o, t) ==
    /\ Fault
    /\ requireOwnerSig(o, op, m, FALSE)
    /\ ledger' = Obey(op, o, t)
    /\ UNCHANGED <<pageVars, pinned, signed, clicks>>

(* What a tick makes of a live order (processArms).                        *)
Fill(a) ==
    /\ ledger' = disarm(recordArmResult(ledger, a, "executed", 1), a.owner, {a.ticker})
    /\ UNCHANGED <<pageVars, pinned, signed, counters>>

FillFails(a) ==
    /\ ledger' = recordArmResult(ledger, a, "failed", NoSig)
    /\ UNCHANGED <<pageVars, pinned, signed, counters>>

-----------------------------------------------------------------------------
(* Answers.  `pubkey` may not be the wallet the request asked about.       *)

Saved == IF pubkey = NoOwner THEN NoAddress ELSE deskCache[pubkey]

SaveAddress(a) ==
    deskCache' = IF pubkey = NoOwner \/ a = NoAddress THEN deskCache
                 ELSE [deskCache EXCEPT ![pubkey] = a]

(* Mutant: the server's address replaces the saved one.                    *)
ServedAddress(a) == a

(* The saved address wins over the one the server gives.                   *)
ShownAddress(a) == IF Saved # NoAddress THEN Saved ELSE a

(* loadMe goes on to /api/desk/me for the wallet of the moment.            *)
ThenMe(s) ==
    Send(s, IF pubkey = NoOwner THEN NoRequest
            ELSE [Blank EXCEPT !.op = "loadMe", !.owner = pubkey])

(* loadDesk's answer.                                                      *)
DeskAnswer(s) ==
    /\ Waits(s, "deskAnswer")
    /\ LET a == ShownAddress(requests[s].address)
       IN  deskAddr' = a /\ SaveAddress(a)
    /\ ThenMe(s)
    /\ UNCHANGED <<pubkey, armCache, shown, serverVars, signed, counters>>

(* loadMe's answer: the address, then the rows with those saved by now.    *)
MeAnswer(s) ==
    /\ Waits(s, "meAnswer") /\ requests[s].op = "loadMe"
    /\ LET a == ShownAddress(requests[s].address)
           b == IF a # NoAddress THEN a ELSE deskAddr
       IN  deskAddr' = b /\ SaveAddress(b)
    /\ SaveAndPaint(mergeArmRecords(requests[s].rows,
                        IF pubkey = NoOwner THEN {} ELSE armCache[pubkey]))
    /\ End(s)
    /\ UNCHANGED <<pubkey, serverVars, signed, counters>>

(* refreshArmRecords's answer, with the rows saved before it asked.        *)
RefreshAnswer(s) ==
    /\ Waits(s, "meAnswer") /\ requests[s].op = "refresh"
    /\ SaveAndPaint(mergeArmRecords(requests[s].rows, requests[s].local))
    /\ End(s)
    /\ UNCHANGED <<pubkey, deskCache, deskAddr, serverVars, signed, counters>>

(* The call is done: the row is saved or dropped at once, under the wallet *)
(* and the ticker selected by now; the button shows "Done" for a while.    *)
ArmAnswer(s) ==
    /\ Waits(s, "posted") /\ requests[s].op \in ArmOps
    /\ IF pubkey = NoOwner
       THEN UNCHANGED <<armCache, shown>>
       ELSE \E t \in Tickers :
              SaveAndPaint(IF requests[s].op = "arm" THEN rememberLocalArm(armCache[pubkey], t)
                           ELSE dropLocalArm(armCache[pubkey], t))
    /\ Send(s, [requests[s] EXCEPT !.at = "rest"])
    /\ UNCHANGED <<pubkey, deskCache, deskAddr, serverVars, signed, counters>>

(* Then the list is refreshed, for the wallet connected after that while.  *)
ArmRefresh(s) ==
    /\ Waits(s, "rest")
    /\ IF pubkey = NoOwner THEN End(s) ELSE Send(s, Refresh)
    /\ shown' = IF pubkey = NoOwner THEN shown ELSE armCache[pubkey]
    /\ UNCHANGED <<pubkey, deskCache, deskAddr, armCache, serverVars, signed, counters>>

WithdrawAnswer(s) ==
    /\ Waits(s, "posted") /\ requests[s].op = "withdraw"
    /\ IF pubkey = NoOwner THEN End(s) ELSE Send(s, LoadMe(pubkey))
    /\ deskAddr' = IF Saved # NoAddress THEN Saved ELSE deskAddr
    /\ UNCHANGED <<pubkey, deskCache, armCache, shown, serverVars, signed, counters>>

(* A request or its answer is lost.  loadDesk shows the error and loadMe   *)
(* goes on; any other handler ends.                                        *)
Lost(s) ==
    /\ ~Free(s) /\ requests[s].at \notin {"sign", "rest"}
    /\ Fault
    /\ IF requests[s].at \in {"desk", "deskAnswer"} THEN ThenMe(s) ELSE End(s)
    /\ UNCHANGED <<pubkey, deskCache, deskAddr, armCache, shown, serverVars, signed, clicks>>

-----------------------------------------------------------------------------
User(s) ==
    \/ \E o \in Owners : Connect(o, s)
    \/ ShowAccount(s) \/ ClickArm(s) \/ ClickSigned("withdraw", s)
    \/ Signed(s) \/ Declined(s)

Serve(s) == ServeDesk(s) \/ ServeMe(s) \/ ServeSigned(s) \/ Refuse(s)

Answers(s) ==
    \/ DeskAnswer(s) \/ MeAnswer(s) \/ RefreshAnswer(s)
    \/ ArmAnswer(s) \/ ArmRefresh(s) \/ WithdrawAnswer(s)

Next ==
    \/ \E s \in Slots : User(s) \/ RefreshTimer(s) \/ Serve(s) \/ Answers(s) \/ Lost(s)
    \/ Disconnect \/ Reload
    \/ \E m \in signed, op \in SignedOps, o \in Owners, t \in Tickers : Replay(m, op, o, t)
    \/ \E a \in ledger.arms : Fill(a) \/ FillFails(a)

Spec == Init /\ [][Next]_vars

(* The timer of the page fires again and again, and a request that is not  *)
(* lost is served and answered.  Nothing is owed by the user or the tape.  *)
FairSpec ==
    /\ Spec
    /\ WF_vars(\E s \in Slots : RefreshTimer(s))
    /\ \A s \in Slots : WF_vars(Serve(s)) /\ WF_vars(Answers(s))

-----------------------------------------------------------------------------
(* Properties.                                                             *)

PageTypeOK ==
    /\ pubkey \in MaybeOwner /\ deskAddr \in MaybeAddress
    /\ deskCache \in [Owners -> MaybeAddress]
    /\ armCache \in [Owners -> SUBSET Row] /\ shown \subseteq Row
    /\ requests \in [Slots -> Request \cup {NoRequest}]
    /\ pinned \subseteq Owners /\ signed \subseteq Message

(* The server has an order of a wallet only if that wallet signed a        *)
(* message with the word "arm" in it.  Not more: a disarm message arms as  *)
(* well, again and again, whatever ticker is posted with it, and any       *)
(* message does if the address spells the word.  But a wallet switched     *)
(* while the prompt is open gets no order of the click before it           *)
(* (auth.ts 20-36).                                                        *)
OrdersWereSigned ==
    \A a \in ledger.arms : \E m \in signed : m.signer = a.owner /\ Includes(m, "arm")

(* Whatever the answers' order, an address once saved for a wallet is      *)
(* never replaced (loadDesk's "it does not change").                       *)
SavedAddressStays ==
    [][\A o \in Owners : deskCache[o] # NoAddress => deskCache'[o] = deskCache[o]]_vars

(* The saved address is the wallet's own (index.html 213: "This address is *)
(* only yours").                                                           *)
SavedAddressIsOwn == \A o \in Owners : deskCache[o] \in {NoAddress, o}

Rows(label, rows) == {r \in rows : r.label = label}

(* Once the user and the market rest, the list on the page shows exactly   *)
(* the pending orders of the server, whatever wallets were switched and    *)
(* answers lost on the way (mergeArmRecords, refreshArmRecords).           *)
PendingSettles ==
    <>[](pubkey # NoOwner => Rows("Pending", shown) = Rows("Pending", rowsFromMe(ledger, pubkey)))

(* Every order the server executed for the wallet comes to be listed and   *)
(* stays so.                                                               *)
ExecutedAreListed ==
    <>[](pubkey # NoOwner =>
            Rows("Executed", rowsFromMe(ledger, pubkey)) \subseteq Rows("Executed", shown))
=============================================================================
