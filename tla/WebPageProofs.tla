--------------------------- MODULE WebPageProofs ---------------------------
EXTENDS WebPage, DeskLedgerProofs

(***************************************************************************)
(* PageInv is the inductive invariant: the variables are well-typed, the   *)
(* ledger is in order, and a request in time carries a message that its    *)
(* signer did sign.                                                        *)
(***************************************************************************)
InFlight == {s \in Slots : requests[s] # NoRequest}

(* A request of the page, when the messages of `who` were signed.          *)
RequestOK(r, who) ==
    /\ r \in Request
    /\ r.at \in {"sign", "post"} => r.signer \in Owners
    /\ r.at = "post" /\ ~r.late => MessageOf(r.op, r.signer) \in who
    /\ r.at \in {"sign", "post", "posted", "rest"} => r.op \in SignedOps
    /\ r.at = "post" => r.ticker \in Tickers
    /\ r.at \in {"desk", "me"} => r.owner \in Owners

PageInv ==
    /\ PageTypeOK
    /\ LedgerInv(ledger)
    /\ \A s \in InFlight : RequestOK(requests[s], signed)
    /\ OrdersWereSigned

-----------------------------------------------------------------------------
(* Rows stay rows.                                                         *)
LEMMA RowsFromMeType ==
    ASSUME NEW l \in Ledger, NEW o \in Owners
    PROVE  rowsFromMe(l, o) \subseteq Row
<1>1. \A r \in l.armRecords, live \in BOOLEAN : r.ticker \in Tickers /\ Label(r, live) \in Labels
  BY LedgerFields DEF ArmRecord, Statuses, Label, Labels
<1>2. \A t \in Tickers : Armed(l, o, t) \in BOOLEAN
  BY DEF Armed
<1>3. \A r \in l.armRecords :
         [ticker |-> r.ticker, label |-> Label(r, Armed(l, o, r.ticker))] \in Row
  BY <1>1, <1>2 DEF Row
<1>4. \A t \in Tickers : [ticker |-> t, label |-> "Pending"] \in Row
  BY DEF Row, Labels
<1>5. QED
  BY <1>3, <1>4 DEF rowsFromMe

LEMMA MergeType ==
    ASSUME NEW server \in SUBSET Row, NEW local \in SUBSET Row
    PROVE  mergeArmRecords(server, local) \subseteq Row
  BY DEF mergeArmRecords

LEMMA LocalRowsType ==
    ASSUME NEW rows \in SUBSET Row, NEW t \in Tickers
    PROVE  rememberLocalArm(rows, t) \subseteq Row /\ dropLocalArm(rows, t) \subseteq Row
<1>1. \A r \in rows : [r EXCEPT !.label = "Failed"] \in Row
  BY DEF Row, Labels
<1>2. [ticker |-> t, label |-> "Pending"] \in Row
  BY DEF Row, Labels
<1>3. QED
  BY <1>1, <1>2 DEF rememberLocalArm, dropLocalArm

LEMMA PaintType ==
    ASSUME PageTypeOK, NEW rows \in SUBSET Row, SaveAndPaint(rows)
    PROVE  armCache' \in [Owners -> SUBSET Row] /\ shown' \subseteq Row
<1>1. CASE pubkey = NoOwner
  BY <1>1 DEF PageTypeOK, SaveAndPaint
<1>2. CASE pubkey # NoOwner
  <2>1. pubkey \in Owners /\ armCache' = [armCache EXCEPT ![pubkey] = rows] /\ shown' = rows
    BY <1>2 DEF PageTypeOK, MaybeOwner, SaveAndPaint
  <2>2. QED
    BY <2>1 DEF PageTypeOK
<1>3. QED
  BY <1>1, <1>2

LEMMA AddressType ==
    ASSUME PageTypeOK, NEW a \in MaybeAddress
    PROVE  ShownAddress(a) \in MaybeAddress /\ Saved \in MaybeAddress
           /\ (SaveAddress(a) => deskCache' \in [Owners -> MaybeAddress])
  BY DEF PageTypeOK, MaybeOwner, MaybeAddress, ShownAddress, Saved, SaveAddress

LEMMA RequestFields ==
    ASSUME PageTypeOK, NEW s \in InFlight
    PROVE  /\ requests[s] \in Request
           /\ requests[s].owner \in MaybeOwner /\ requests[s].signer \in MaybeOwner
           /\ requests[s].address \in MaybeAddress
           /\ requests[s].rows \in SUBSET Row /\ requests[s].local \in SUBSET Row
           /\ requests[s].op \in SignedOps \cup {"loadMe", "refresh"}
           /\ requests[s].at \in Stages
  BY DEF PageTypeOK, InFlight, Request

(* A new request of the page, the next stage of one, or its end.           *)
LEMMA SendKeeps ==
    ASSUME PageInv, NEW s \in Slots, NEW r, Send(s, r), r = NoRequest \/ RequestOK(r, signed'),
           signed \subseteq signed'
    PROVE  /\ requests' \in [Slots -> Request \cup {NoRequest}]
           /\ \A q \in InFlight' : RequestOK(requests'[q], signed')
<1>1. /\ requests' = [requests EXCEPT ![s] = r] /\ r \in Request \cup {NoRequest}
      /\ requests \in [Slots -> Request \cup {NoRequest}]
  BY DEF PageInv, PageTypeOK, Send, RequestOK
<1>2. /\ requests' \in [Slots -> Request \cup {NoRequest}]
      /\ requests'[s] = r /\ \A q \in Slots \ {s} : requests'[q] = requests[q]
  BY <1>1
<1>3. \A q \in InFlight : RequestOK(requests[q], signed')
  BY DEF PageInv, RequestOK
<1>4. QED
  BY <1>2, <1>3 DEF InFlight

-----------------------------------------------------------------------------
(* The requests the page makes.                                            *)
LEMMA LoadMeOK ==
    ASSUME NEW o \in Owners, NEW who
    PROVE  RequestOK(LoadMe(o), who)
<1>1. PICK r : r = [Blank EXCEPT !.op = "loadMe", !.at = "desk", !.owner = o]
  OBVIOUS
<1>2. r = [op |-> "loadMe", at |-> "desk", owner |-> o, signer |-> NoOwner, late |-> FALSE,
           ticker |-> Usdc, local |-> {}, address |-> NoAddress, rows |-> {}]
  BY <1>1 DEF Blank
<1>3. RequestOK(r, who)
  BY <1>2 DEF RequestOK, Request, MaybeOwner, MaybeAddress, SignedOps, Stages
<1>4. QED
  BY <1>1, <1>3 DEF LoadMe

LEMMA AskMeOK ==
    ASSUME NEW o \in Owners, NEW who
    PROVE  RequestOK([Blank EXCEPT !.op = "loadMe", !.owner = o], who)
<1>1. PICK r : r = [Blank EXCEPT !.op = "loadMe", !.owner = o]
  OBVIOUS
<1>2. r = [op |-> "loadMe", at |-> "me", owner |-> o, signer |-> NoOwner, late |-> FALSE,
           ticker |-> Usdc, local |-> {}, address |-> NoAddress, rows |-> {}]
  BY <1>1 DEF Blank
<1>3. RequestOK(r, who)
  BY <1>2 DEF RequestOK, Request, MaybeOwner, MaybeAddress, SignedOps, Stages
<1>4. QED
  BY <1>1, <1>3

LEMMA RefreshOK ==
    ASSUME PageTypeOK, pubkey # NoOwner, NEW who, NEW rows \in SUBSET Row
    PROVE  RequestOK(Refresh, who) /\ RequestOK([Refresh EXCEPT !.local = rows], who)
<1>1. PICK r : r = [Blank EXCEPT !.owner = pubkey, !.local = armCache[pubkey]]
  OBVIOUS
<1>2. r = [op |-> "refresh", at |-> "me", owner |-> pubkey, signer |-> NoOwner, late |-> FALSE,
           ticker |-> Usdc, local |-> armCache[pubkey], address |-> NoAddress, rows |-> {}]
  BY <1>1 DEF Blank
<1>3. pubkey \in Owners /\ armCache[pubkey] \in SUBSET Row
  BY DEF PageTypeOK, MaybeOwner
<1>4. RequestOK(r, who) /\ r.op = "refresh" /\ r.at = "me" /\ r.owner = pubkey
  BY <1>2, <1>3 DEF RequestOK, Request, MaybeOwner, MaybeAddress, SignedOps, Stages
<1>5. PICK q : q = [r EXCEPT !.local = rows]
  OBVIOUS
<1>6. q \in Request /\ q.op = "refresh" /\ q.at = "me" /\ q.owner = pubkey
  <2>1. r \in Request
    BY <1>4 DEF RequestOK
  <2>2. QED
    BY <1>4, <1>5, <2>1 DEF Request
<1>7. RequestOK(q, who)
  BY <1>3, <1>6 DEF RequestOK
<1>8. Refresh = r
  BY <1>1 DEF Refresh
<1>9. QED
  BY <1>4, <1>5, <1>7, <1>8

LEMMA SignedOK ==
    ASSUME NEW op \in SignedOps, NEW o \in Owners, NEW who
    PROVE  RequestOK([Blank EXCEPT !.op = op, !.at = "sign", !.signer = o], who)
<1>1. PICK r : r = [Blank EXCEPT !.op = op, !.at = "sign", !.signer = o]
  OBVIOUS
<1>2. r = [op |-> op, at |-> "sign", owner |-> NoOwner, signer |-> o, late |-> FALSE,
           ticker |-> Usdc, local |-> {}, address |-> NoAddress, rows |-> {}]
  BY <1>1 DEF Blank
<1>3. RequestOK(r, who)
  BY <1>2 DEF RequestOK, Request, MaybeOwner, MaybeAddress, SignedOps, Stages
<1>4. QED
  BY <1>1, <1>3

LEMMA PostedOK ==
    ASSUME NEW op \in SignedOps, NEW who
    PROVE  RequestOK([Blank EXCEPT !.op = op, !.at = "posted"], who)
<1>1. PICK r : r = [Blank EXCEPT !.op = op, !.at = "posted"]
  OBVIOUS
<1>2. r = [op |-> op, at |-> "posted", owner |-> NoOwner, signer |-> NoOwner, late |-> FALSE,
           ticker |-> Usdc, local |-> {}, address |-> NoAddress, rows |-> {}]
  BY <1>1 DEF Blank
<1>3. RequestOK(r, who)
  BY <1>2 DEF RequestOK, Request, MaybeOwner, MaybeAddress, SignedOps, Stages
<1>4. QED
  BY <1>1, <1>3

LEMMA AddressOK ==
    ASSUME NEW a \in MaybeAddress, NEW who
    PROVE  RequestOK([Blank EXCEPT !.op = "loadMe", !.at = "deskAnswer", !.address = a], who)
<1>1. PICK r : r = [Blank EXCEPT !.op = "loadMe", !.at = "deskAnswer", !.address = a]
  OBVIOUS
<1>2. r = [op |-> "loadMe", at |-> "deskAnswer", owner |-> NoOwner, signer |-> NoOwner,
           late |-> FALSE, ticker |-> Usdc, local |-> {}, address |-> a, rows |-> {}]
  BY <1>1 DEF Blank
<1>3. RequestOK(r, who)
  BY <1>2 DEF RequestOK, Request, MaybeOwner, MaybeAddress, SignedOps, Stages
<1>4. QED
  BY <1>1, <1>3

(* A step of the page that leaves ledger and signed alone, and sends       *)
(* one request on.                                                         *)
LEMMA PageKeeps ==
    ASSUME PageInv, UNCHANGED <<ledger, signed>>,
           pubkey' \in MaybeOwner, deskAddr' \in MaybeAddress,
           deskCache' \in [Owners -> MaybeAddress], armCache' \in [Owners -> SUBSET Row],
           shown' \subseteq Row, pinned' \subseteq Owners,
           NEW s \in Slots, NEW r, Send(s, r), r = NoRequest \/ RequestOK(r, signed)
    PROVE  PageInv'
<1>1. /\ requests' \in [Slots -> Request \cup {NoRequest}]
      /\ \A q \in InFlight' : RequestOK(requests'[q], signed')
  BY SendKeeps
<1>2. PageTypeOK'
  BY <1>1 DEF PageInv, PageTypeOK
<1>3. LedgerInv(ledger') /\ OrdersWereSigned'
  BY DEF PageInv, OrdersWereSigned
<1>4. QED
  BY <1>1, <1>2, <1>3 DEF PageInv

(* One that sends a request on, and no more.                               *)
LEMMA StageKeeps ==
    ASSUME PageInv, NEW s \in Slots, NEW r, Send(s, r), r = NoRequest \/ RequestOK(r, signed),
           UNCHANGED <<pubkey, deskCache, deskAddr, armCache, shown, ledger, signed>>,
           pinned' \subseteq Owners
    PROVE  PageInv'
<1>1. /\ pubkey' \in MaybeOwner /\ deskAddr' \in MaybeAddress
      /\ deskCache' \in [Owners -> MaybeAddress] /\ armCache' \in [Owners -> SUBSET Row]
      /\ shown' \subseteq Row
  BY DEF PageInv, PageTypeOK
<1>2. QED
  BY <1>1, PageKeeps

LEMMA OpenKeeps ==
    ASSUME PageInv, NEW s \in Slots,
           (\E o \in Owners : Connect(o, s)) \/ ShowAccount(s) \/ RefreshTimer(s)
    PROVE  PageInv'
<1>0. PageTypeOK /\ (pubkey # NoOwner => pubkey \in Owners)
  BY DEF PageInv, PageTypeOK, MaybeOwner
<1>1. ASSUME NEW o \in Owners, Connect(o, s) PROVE PageInv'
  <2>1. /\ pubkey' \in MaybeOwner /\ deskAddr' \in MaybeAddress
        /\ deskCache' \in [Owners -> MaybeAddress] /\ armCache' \in [Owners -> SUBSET Row]
        /\ shown' \subseteq Row /\ pinned' \subseteq Owners
    BY <1>0, <1>1 DEF Connect, PageTypeOK, MaybeOwner, serverVars
  <2>2. QED
    BY <1>1, <2>1, LoadMeOK, PageKeeps DEF Connect, serverVars
<1>2. ASSUME ShowAccount(s) PROVE PageInv'
  <2>1. /\ pubkey' \in MaybeOwner /\ deskAddr' \in MaybeAddress
        /\ deskCache' \in [Owners -> MaybeAddress] /\ armCache' \in [Owners -> SUBSET Row]
        /\ shown' \subseteq Row /\ pinned' \subseteq Owners
    BY <1>0, <1>2 DEF ShowAccount, PageTypeOK, MaybeOwner, serverVars
  <2>2. QED
    BY <1>0, <1>2, <2>1, LoadMeOK, PageKeeps DEF ShowAccount, serverVars
<1>3. ASSUME RefreshTimer(s) PROVE PageInv'
  <2>1. /\ pubkey' \in MaybeOwner /\ deskAddr' \in MaybeAddress
        /\ deskCache' \in [Owners -> MaybeAddress] /\ armCache' \in [Owners -> SUBSET Row]
        /\ shown' \subseteq Row /\ pinned' \subseteq Owners
    BY <1>0, <1>3 DEF RefreshTimer, PageTypeOK, MaybeOwner, serverVars
  <2>2. QED
    BY <1>0, <1>3, <2>1, RefreshOK, PageKeeps DEF RefreshTimer, serverVars
<1>4. QED
  BY <1>1, <1>2, <1>3

LEMMA CloseKeeps == ASSUME PageInv, Disconnect \/ Reload PROVE PageInv'
<1>1. ASSUME Disconnect PROVE PageInv'
  BY <1>1 DEF Disconnect, PageInv, PageTypeOK, MaybeOwner, InFlight, OrdersWereSigned, serverVars
<1>2. ASSUME Reload PROVE PageInv'
  BY <1>2 DEF Reload, PageInv, PageTypeOK, MaybeOwner, MaybeAddress, InFlight, OrdersWereSigned,
              serverVars
<1>3. QED
  BY <1>1, <1>2

LEMMA ClickKeeps ==
    ASSUME PageInv, NEW s \in Slots, NEW op \in SignedOps, ClickSigned(op, s)
    PROVE  PageInv'
<1>1. pubkey \in Owners /\ pinned \subseteq Owners
  BY DEF ClickSigned, PageInv, PageTypeOK, MaybeOwner
<1>2. PICK r : r = [Blank EXCEPT !.op = op, !.at = "sign", !.signer = pubkey]
  OBVIOUS
<1>3. RequestOK(r, signed)
  BY <1>1, <1>2, SignedOK
<1>4. /\ Send(s, r) /\ pinned' \subseteq Owners
      /\ UNCHANGED <<pubkey, deskCache, deskAddr, armCache, shown, ledger, signed>>
  BY <1>1, <1>2 DEF ClickSigned, serverVars
<1>5. QED
  BY <1>3, <1>4, StageKeeps

(* A request that waits.                                                   *)
LEMMA RequestWaits ==
    ASSUME PageInv, NEW s \in Slots, ~Free(s)
    PROVE  /\ s \in InFlight /\ requests[s] \in Request /\ RequestOK(requests[s], signed)
           /\ pubkey \in MaybeOwner /\ pinned \subseteq Owners
  BY DEF Free, InFlight, PageInv, PageTypeOK

(* What is signed is signed by somebody, and adds to signed.               *)
LEMMA PromptKeeps ==
    ASSUME PageInv, NEW s \in Slots, Signed(s) \/ Declined(s)
    PROVE  PageInv'
<1>0. /\ requests[s] \in Request /\ RequestOK(requests[s], signed) /\ requests[s].at = "sign"
      /\ pubkey \in MaybeOwner /\ pinned \subseteq Owners
  BY RequestWaits DEF Signed, Declined, Waits, Free
<1>1. ASSUME Signed(s) PROVE PageInv'
  <2>1. PICK t \in Tickers, late \in BOOLEAN :
           /\ Send(s, [requests[s] EXCEPT !.at = "post", !.owner = pubkey, !.late = late, !.ticker = t])
           /\ signed' = IF late THEN signed
                        ELSE signed \cup {MessageOf(requests[s].op, requests[s].signer)}
    BY <1>1 DEF Signed
  <2>2. PICK r : r = [requests[s] EXCEPT !.at = "post", !.owner = pubkey, !.late = late, !.ticker = t]
    OBVIOUS
  <2>3. /\ r \in Request /\ r.op = requests[s].op /\ r.signer = requests[s].signer
        /\ r.late = late /\ r.ticker = t /\ r.at = "post"
    BY <1>0, <2>2 DEF Request, Stages
  <2>4. r.op \in SignedOps /\ r.signer \in Owners
    BY <1>0, <2>3 DEF RequestOK
  <2>5. signed' = IF late THEN signed ELSE signed \cup {MessageOf(r.op, r.signer)}
    BY <2>1, <2>3
  <2>6. MessageOf(r.op, r.signer) \in Message
    BY <2>4 DEF MessageOf, Message
  <2>7. signed \subseteq signed' /\ signed' \subseteq Message
    BY <2>5, <2>6 DEF PageInv, PageTypeOK
  <2>8. RequestOK(r, signed')
    BY <2>3, <2>4, <2>5 DEF RequestOK
  <2>9. Send(s, r)
    BY <2>1, <2>2
  <2>10. /\ requests' \in [Slots -> Request \cup {NoRequest}]
         /\ \A q \in InFlight' : RequestOK(requests'[q], signed')
    BY <2>7, <2>8, <2>9, SendKeeps
  <2>11. UNCHANGED <<pubkey, deskCache, deskAddr, armCache, shown, ledger, pinned>>
    BY <1>1 DEF Signed, serverVars
  <2>12. PageTypeOK'
    BY <2>7, <2>10, <2>11 DEF PageInv, PageTypeOK
  <2>13. OrdersWereSigned'
    BY <2>7, <2>11 DEF PageInv, OrdersWereSigned
  <2>14. QED
    BY <2>10, <2>11, <2>12, <2>13 DEF PageInv
<1>2. ASSUME Declined(s) PROVE PageInv'
  BY <1>0, <1>2, StageKeeps DEF Declined, End, serverVars
<1>3. QED
  BY <1>1, <1>2

(* What the server does for a message that passes: the ledger stays in     *)
(* order, and a new order is of a wallet that signed the word.             *)
LEMMA ObeyKeeps ==
    ASSUME PageInv, NEW op \in SignedOps, NEW o \in MaybeOwner, NEW t \in Tickers,
           NEW m \in signed, NEW late, requireOwnerSig(o, op, m, late),
           ledger' = Obey(op, o, t), signed' = signed
    PROVE  LedgerInv(ledger') /\ OrdersWereSigned'
<1>1. LedgerInv(ledger) /\ o \in Owners /\ o = m.signer /\ Includes(m, op)
  BY DEF PageInv, requireOwnerSig, MaybeOwner
<1>2. PICK order : order = [owner |-> o, ticker |-> t, side |-> "buy", usd |-> 1, createdAt |-> 1]
  OBVIOUS
<1>3. order \in ArmOrder /\ order.owner = o
  BY <1>1, <1>2 DEF ArmOrder, ArmSides
<1>4. LedgerInv(ledger') /\ \A a \in ledger'.arms : a \in ledger.arms \/ (op = "arm" /\ a = order)
  <2>1. CASE op = "arm"
    <3>1. ledger' = setArm(ledger, order)
      BY <1>2, <2>1 DEF Obey
    <3>2. LedgerInv(ledger') /\ ledger'.arms = {a \in ledger.arms : ~SameName(a, order)} \cup {order}
      BY <1>1, <1>3, <3>1, SetArmKeeps
    <3>3. QED
      BY <2>1, <3>2
  <2>2. CASE op = "disarm"
    <3>1. ledger' = disarm(ledger, o, {t})
      BY <2>2 DEF Obey
    <3>2. LedgerInv(ledger') /\ ledger'.arms \subseteq ledger.arms
      BY <1>1, <3>1, DisarmKeeps
    <3>3. QED
      BY <3>2
  <2>3. CASE op = "withdraw"
    BY <1>1, <2>3 DEF Obey
  <2>4. QED
    BY <2>1, <2>2, <2>3 DEF SignedOps
<1>5. op = "arm" => m.signer = order.owner /\ Includes(m, "arm")
  BY <1>1, <1>3
<1>6. OrdersWereSigned'
  BY <1>4, <1>5 DEF PageInv, OrdersWereSigned
<1>7. QED
  BY <1>4, <1>6

LEMMA ReplayKeeps ==
    ASSUME PageInv, NEW m \in signed, NEW op \in SignedOps, NEW o \in Owners, NEW t \in Tickers,
           Replay(m, op, o, t)
    PROVE  PageInv'
<1>1. /\ requireOwnerSig(o, op, m, FALSE) /\ ledger' = Obey(op, o, t)
      /\ UNCHANGED <<pageVars, pinned, signed>> /\ o \in MaybeOwner
  BY DEF Replay, MaybeOwner
<1>2. LedgerInv(ledger') /\ OrdersWereSigned'
  BY <1>1, ObeyKeeps
<1>3. PageTypeOK' /\ \A s \in InFlight' : RequestOK(requests'[s], signed')
  BY <1>1 DEF PageInv, PageTypeOK, InFlight, pageVars
<1>4. QED
  BY <1>2, <1>3 DEF PageInv

LEMMA ServeKeeps ==
    ASSUME PageInv, NEW s \in Slots, Serve(s)
    PROVE  PageInv'
<1>0. /\ requests[s] \in Request /\ RequestOK(requests[s], signed) /\ pinned \subseteq Owners
      /\ LedgerInv(ledger) /\ ledger \in Ledger
  BY RequestWaits DEF Serve, ServeDesk, ServeMe, ServeSigned, Refuse, Waits, Free, PageInv, LedgerInv
<1>1. ASSUME ServeDesk(s) PROVE PageInv'
  <2>1. requests[s].owner \in Owners
    BY <1>0, <1>1 DEF ServeDesk, Waits, RequestOK
  <2>2. PICK r : r = [Blank EXCEPT !.op = "loadMe", !.at = "deskAnswer",
                                   !.address = requests[s].owner]
    OBVIOUS
  <2>3. RequestOK(r, signed)
    BY <2>1, <2>2, AddressOK DEF MaybeAddress
  <2>4. Send(s, r) /\ pinned' \subseteq Owners
    BY <1>0, <1>1, <2>1, <2>2 DEF ServeDesk
  <2>5. QED
    BY <1>1, <2>3, <2>4, StageKeeps DEF ServeDesk
<1>2. ASSUME ServeMe(s) PROVE PageInv'
  <2>1. requests[s].owner \in Owners
    BY <1>0, <1>2 DEF ServeMe, Waits, RequestOK
  <2>2. PICK a \in MaybeAddress, rows \in SUBSET Row :
           Send(s, [requests[s] EXCEPT !.at = "meAnswer", !.owner = NoOwner, !.address = a,
                                   !.rows = rows])
    BY <1>0, <1>2, <2>1, RowsFromMeType DEF ServeMe, MaybeAddress
  <2>3. PICK r : r = [requests[s] EXCEPT !.at = "meAnswer", !.owner = NoOwner, !.address = a,
                                   !.rows = rows]
    OBVIOUS
  <2>4. r \in Request /\ r.at = "meAnswer"
    BY <1>0, <2>2, <2>3 DEF Request, Stages, MaybeOwner
  <2>5. Send(s, r) /\ RequestOK(r, signed) /\ pinned' \subseteq Owners
    BY <1>0, <1>2, <2>1, <2>2, <2>3, <2>4 DEF ServeMe, RequestOK
  <2>6. QED
    BY <1>2, <2>5, StageKeeps DEF ServeMe
<1>3. ASSUME ServeSigned(s) PROVE PageInv'
  <2>1. PICK q : q = requests[s]
    OBVIOUS
  <2>2. /\ q \in Request /\ q.op \in SignedOps /\ q.ticker \in Tickers /\ q.owner \in MaybeOwner
        /\ (~q.late => MessageOf(q.op, q.signer) \in signed)
    BY <1>0, <1>3, <2>1 DEF ServeSigned, Waits, RequestOK, Request
  <2>3. /\ requireOwnerSig(q.owner, q.op, MessageOf(q.op, q.signer), q.late)
        /\ ledger' = Obey(q.op, q.owner, q.ticker)
        /\ Send(s, [Blank EXCEPT !.op = q.op, !.at = "posted"])
        /\ UNCHANGED <<pubkey, deskCache, deskAddr, armCache, shown, pinned, signed>>
    BY <1>3, <2>1 DEF ServeSigned
  <2>4. MessageOf(q.op, q.signer) \in signed
    BY <2>2, <2>3 DEF requireOwnerSig
  <2>5. LedgerInv(ledger') /\ OrdersWereSigned'
    BY <2>2, <2>3, <2>4, ObeyKeeps
  <2>6. PICK r : r = [Blank EXCEPT !.op = q.op, !.at = "posted"]
    OBVIOUS
  <2>7. Send(s, r) /\ RequestOK(r, signed)
    BY <2>2, <2>3, <2>6, PostedOK
  <2>8. /\ requests' \in [Slots -> Request \cup {NoRequest}]
        /\ \A p \in InFlight' : RequestOK(requests'[p], signed')
    BY <2>3, <2>7, SendKeeps
  <2>9. PageTypeOK'
    BY <2>3, <2>8 DEF PageInv, PageTypeOK
  <2>10. QED
    BY <2>5, <2>8, <2>9 DEF PageInv
<1>4. ASSUME Refuse(s) PROVE PageInv'
  BY <1>0, <1>4, StageKeeps DEF Refuse, End, serverVars
<1>5. QED
  BY <1>1, <1>2, <1>3, <1>4 DEF Serve

-----------------------------------------------------------------------------
(* Answers.  The handler that goes on asks for a wallet that is connected. *)
LEMMA ThenMeKeeps ==
    ASSUME PageInv, NEW s \in Slots, ThenMe(s), UNCHANGED <<ledger, signed>>,
           pubkey' \in MaybeOwner, deskAddr' \in MaybeAddress,
           deskCache' \in [Owners -> MaybeAddress], armCache' \in [Owners -> SUBSET Row],
           shown' \subseteq Row, pinned' \subseteq Owners
    PROVE  PageInv'
<1>1. CASE pubkey = NoOwner
  <2>1. Send(s, NoRequest)
    BY <1>1 DEF ThenMe
  <2>2. QED
    BY <2>1, PageKeeps
<1>2. CASE pubkey # NoOwner
  <2>1. pubkey \in Owners
    BY <1>2 DEF PageInv, PageTypeOK, MaybeOwner
  <2>2. PICK r : r = [Blank EXCEPT !.op = "loadMe", !.owner = pubkey]
    OBVIOUS
  <2>3. Send(s, r) /\ RequestOK(r, signed)
    BY <1>2, <2>1, <2>2, AskMeOK DEF ThenMe
  <2>4. QED
    BY <2>3, PageKeeps
<1>3. QED
  BY <1>1, <1>2

LEMMA AddressAnswered ==
    ASSUME PageInv, NEW s \in Slots, DeskAnswer(s) \/ MeAnswer(s)
    PROVE  PageInv'
<1>0. /\ PageTypeOK /\ requests[s].address \in MaybeAddress
      /\ requests[s].rows \in SUBSET Row
      /\ deskAddr \in MaybeAddress /\ pinned \subseteq Owners
      /\ pubkey \in MaybeOwner /\ shown \subseteq Row /\ armCache \in [Owners -> SUBSET Row]
  BY RequestFields, RequestWaits DEF DeskAnswer, MeAnswer, Waits, Free, PageInv, PageTypeOK
<1>1. ASSUME DeskAnswer(s) PROVE PageInv'
  <2>1. PICK a : a = ShownAddress(requests[s].address)
    OBVIOUS
  <2>2. a \in MaybeAddress /\ deskAddr' = a /\ SaveAddress(a)
    BY <1>0, <1>1, <2>1, AddressType DEF DeskAnswer
  <2>3. deskCache' \in [Owners -> MaybeAddress]
    BY <1>0, <2>2, AddressType
  <2>4. QED
    BY <1>0, <1>1, <2>2, <2>3, ThenMeKeeps DEF DeskAnswer, serverVars
<1>2. ASSUME MeAnswer(s) PROVE PageInv'
  <2>1. PICK a : a = ShownAddress(requests[s].address)
    OBVIOUS
  <2>2. PICK b : b = IF a # NoAddress THEN a ELSE deskAddr
    OBVIOUS
  <2>3. a \in MaybeAddress /\ b \in MaybeAddress
    BY <1>0, <2>1, <2>2, AddressType
  <2>4. deskAddr' = b /\ SaveAddress(b)
    BY <1>2, <2>1, <2>2 DEF MeAnswer
  <2>5. deskCache' \in [Owners -> MaybeAddress]
    BY <1>0, <2>3, <2>4, AddressType
  <2>6. PICK old \in SUBSET Row : old = IF pubkey = NoOwner THEN {} ELSE armCache[pubkey]
    BY <1>0 DEF MaybeOwner
  <2>7. PICK rows : rows = mergeArmRecords(requests[s].rows, old)
    OBVIOUS
  <2>8. rows \in SUBSET Row
    BY <1>0, <2>7, MergeType
  <2>9. SaveAndPaint(rows)
    BY <1>2, <2>6, <2>7 DEF MeAnswer
  <2>10. armCache' \in [Owners -> SUBSET Row] /\ shown' \subseteq Row
    BY <1>0, <2>8, <2>9, PaintType
  <2>11. /\ Send(s, NoRequest) /\ UNCHANGED <<ledger, signed>>
         /\ pubkey' \in MaybeOwner /\ pinned' \subseteq Owners
    BY <1>0, <1>2 DEF MeAnswer, End, serverVars
  <2>12. QED
    BY <2>3, <2>4, <2>5, <2>10, <2>11, PageKeeps
<1>3. QED
  BY <1>1, <1>2

LEMMA RowsAnswered ==
    ASSUME PageInv, NEW s \in Slots, RefreshAnswer(s) \/ ArmAnswer(s) \/ ArmRefresh(s)
    PROVE  PageInv'
<1>0. /\ PageTypeOK
      /\ requests[s].rows \in SUBSET Row /\ requests[s].local \in SUBSET Row
      /\ deskAddr \in MaybeAddress /\ pinned \subseteq Owners
      /\ deskCache \in [Owners -> MaybeAddress]
      /\ pubkey \in MaybeOwner /\ shown \subseteq Row /\ armCache \in [Owners -> SUBSET Row]
  BY RequestFields, RequestWaits DEF RefreshAnswer, ArmAnswer, ArmRefresh, Waits, Free, PageInv, PageTypeOK
<1>1. ASSUME RefreshAnswer(s) PROVE PageInv'
  <2>1. PICK rows : rows = mergeArmRecords(requests[s].rows, requests[s].local)
    OBVIOUS
  <2>2. rows \in SUBSET Row
    BY <1>0, <2>1, MergeType
  <2>3. SaveAndPaint(rows)
    BY <1>1, <2>1 DEF RefreshAnswer
  <2>4. armCache' \in [Owners -> SUBSET Row] /\ shown' \subseteq Row
    BY <1>0, <2>2, <2>3, PaintType
  <2>5. /\ Send(s, NoRequest) /\ UNCHANGED <<ledger, signed>>
        /\ pubkey' \in MaybeOwner /\ pinned' \subseteq Owners
        /\ deskAddr' \in MaybeAddress /\ deskCache' \in [Owners -> MaybeAddress]
    BY <1>0, <1>1 DEF RefreshAnswer, End, serverVars
  <2>6. QED
    BY <2>4, <2>5, PageKeeps
<1>2. ASSUME ArmAnswer(s) PROVE PageInv'
  <2>1. /\ UNCHANGED <<ledger, signed>>
        /\ pubkey' \in MaybeOwner /\ pinned' \subseteq Owners
        /\ deskAddr' \in MaybeAddress /\ deskCache' \in [Owners -> MaybeAddress]
    BY <1>0, <1>2 DEF ArmAnswer, serverVars
  <2>2. PICK r : r = [requests[s] EXCEPT !.at = "rest"]
    OBVIOUS
  <2>3. requests[s] \in Request /\ requests[s].op \in SignedOps
    BY <1>2, RequestWaits DEF ArmAnswer, Waits, Free, ArmOps, SignedOps
  <2>4. r \in Request /\ r.at = "rest" /\ r.op \in SignedOps
    BY <2>2, <2>3 DEF Request, Stages
  <2>5. Send(s, r) /\ RequestOK(r, signed)
    BY <1>2, <2>2, <2>4 DEF ArmAnswer, RequestOK
  <2>6. armCache' \in [Owners -> SUBSET Row] /\ shown' \subseteq Row
    <3>1. CASE pubkey = NoOwner
      BY <1>0, <1>2, <3>1 DEF ArmAnswer
    <3>2. CASE pubkey # NoOwner
      <4>1. PICK t \in Tickers :
               SaveAndPaint(IF requests[s].op = "arm" THEN rememberLocalArm(armCache[pubkey], t)
                            ELSE dropLocalArm(armCache[pubkey], t))
        BY <1>2, <3>2 DEF ArmAnswer
      <4>2. PICK rows : rows = IF requests[s].op = "arm" THEN rememberLocalArm(armCache[pubkey], t)
                               ELSE dropLocalArm(armCache[pubkey], t)
        OBVIOUS
      <4>3. armCache[pubkey] \in SUBSET Row
        BY <1>0, <3>2 DEF MaybeOwner
      <4>4. rows \in SUBSET Row
        BY <4>2, <4>3, LocalRowsType
      <4>5. SaveAndPaint(rows)
        BY <4>1, <4>2
      <4>6. QED
        BY <1>0, <4>4, <4>5, PaintType
    <3>3. QED
      BY <3>1, <3>2
  <2>7. QED
    BY <2>1, <2>5, <2>6, PageKeeps
<1>3. ASSUME ArmRefresh(s) PROVE PageInv'
  <2>1. /\ UNCHANGED <<ledger, signed>>
        /\ pubkey' \in MaybeOwner /\ pinned' \subseteq Owners
        /\ deskAddr' \in MaybeAddress /\ deskCache' \in [Owners -> MaybeAddress]
        /\ armCache' \in [Owners -> SUBSET Row] /\ shown' \subseteq Row
    BY <1>0, <1>3 DEF ArmRefresh, serverVars, MaybeOwner
  <2>2. PICK r : Send(s, r) /\ (r = NoRequest \/ RequestOK(r, signed))
    <3>1. CASE pubkey = NoOwner
      BY <1>3, <3>1 DEF ArmRefresh, End
    <3>2. CASE pubkey # NoOwner
      BY <1>0, <1>3, <3>2, RefreshOK DEF ArmRefresh
    <3>3. QED
      BY <3>1, <3>2
  <2>3. QED
    BY <2>1, <2>2, PageKeeps
<1>4. QED
  BY <1>1, <1>2, <1>3

LEMMA WithdrawAnswered ==
    ASSUME PageInv, NEW s \in Slots, WithdrawAnswer(s)
    PROVE  PageInv'
<1>0. /\ PageTypeOK /\ deskAddr \in MaybeAddress /\ pubkey \in MaybeOwner
      /\ Saved \in MaybeAddress
  BY AddressType DEF PageInv, PageTypeOK, MaybeAddress
<1>1. /\ UNCHANGED <<ledger, signed>>
      /\ pubkey' \in MaybeOwner /\ pinned' \subseteq Owners /\ deskAddr' \in MaybeAddress
      /\ deskCache' \in [Owners -> MaybeAddress] /\ armCache' \in [Owners -> SUBSET Row]
      /\ shown' \subseteq Row
  BY <1>0 DEF WithdrawAnswer, serverVars, PageTypeOK
<1>2. PICK r : Send(s, r) /\ (r = NoRequest \/ RequestOK(r, signed))
  BY <1>0, LoadMeOK DEF WithdrawAnswer, End, MaybeOwner
<1>3. QED
  BY <1>1, <1>2, PageKeeps

LEMMA LostKeeps ==
    ASSUME PageInv, NEW s \in Slots, Lost(s)
    PROVE  PageInv'
<1>1. /\ UNCHANGED <<ledger, signed>>
      /\ pubkey' \in MaybeOwner /\ pinned' \subseteq Owners /\ deskAddr' \in MaybeAddress
      /\ deskCache' \in [Owners -> MaybeAddress] /\ armCache' \in [Owners -> SUBSET Row]
      /\ shown' \subseteq Row
  BY DEF Lost, serverVars, PageInv, PageTypeOK
<1>2. ThenMe(s) \/ Send(s, NoRequest)
  BY DEF Lost, End
<1>3. QED
  BY <1>1, <1>2, ThenMeKeeps, PageKeeps

(* What a tick does to the orders.                                         *)
LEMMA TickKeeps ==
    ASSUME PageInv, NEW a \in ledger.arms, Fill(a) \/ FillFails(a)
    PROVE  PageInv'
<1>0. LedgerInv(ledger) /\ a \in ArmOrder /\ a.owner \in Owners /\ a.ticker \in Tickers
  BY DEF PageInv, LedgerInv, Ledger, ArmOrder
<1>1. LedgerInv(ledger') /\ ledger'.arms \subseteq ledger.arms
  <2>1. ASSUME Fill(a) PROVE LedgerInv(ledger') /\ ledger'.arms \subseteq ledger.arms
    <3>1. PICK m : m = recordArmResult(ledger, a, "executed", 1)
      OBVIOUS
    <3>2. LedgerInv(m) /\ m.arms = ledger.arms
      BY <1>0, <3>1, RecordKeeps
    <3>3. ledger' = disarm(m, a.owner, {a.ticker})
      BY <2>1, <3>1 DEF Fill
    <3>4. LedgerInv(ledger') /\ ledger'.arms \subseteq m.arms
      BY <1>0, <3>2, <3>3, DisarmKeeps
    <3>5. QED
      BY <3>2, <3>4
  <2>2. ASSUME FillFails(a) PROVE LedgerInv(ledger') /\ ledger'.arms \subseteq ledger.arms
    BY <1>0, <2>2, RecordKeeps DEF FillFails, NoSig
  <2>3. QED
    BY <2>1, <2>2
<1>2. UNCHANGED <<pageVars, pinned, signed>>
  BY DEF Fill, FillFails
<1>3. PageTypeOK' /\ OrdersWereSigned'
  BY <1>1, <1>2 DEF PageInv, PageTypeOK, OrdersWereSigned, pageVars
<1>4. \A s \in InFlight' : RequestOK(requests'[s], signed')
  BY <1>2 DEF PageInv, InFlight, pageVars
<1>5. QED
  BY <1>1, <1>3, <1>4 DEF PageInv

-----------------------------------------------------------------------------
LEMMA PageInvInit == Init => PageInv
<1> SUFFICES ASSUME Init PROVE PageInv
  OBVIOUS
<1>1. PageTypeOK
  BY DEF Init, PageTypeOK, MaybeOwner, MaybeAddress
<1>2. InFlight = {}
  BY DEF Init, InFlight
<1>3. LedgerInv(ledger)
  BY EmptyInv DEF Init
<1>4. OrdersWereSigned
  BY DEF Init, OrdersWereSigned, empty
<1>5. QED
  BY <1>1, <1>2, <1>3, <1>4 DEF PageInv

LEMMA PageInvStep == PageInv /\ [Next]_vars => PageInv'
<1> SUFFICES ASSUME PageInv, [Next]_vars PROVE PageInv'
  OBVIOUS
<1>1. ASSUME NEW s \in Slots, User(s) PROVE PageInv'
  <2>1. SUFFICES ASSUME ~((\E o \in Owners : Connect(o, s)) \/ ShowAccount(s)),
                        ~(Signed(s) \/ Declined(s))
                 PROVE  PageInv'
    BY OpenKeeps, PromptKeeps
  <2>2. \E op \in SignedOps : ClickSigned(op, s)
    BY <1>1, <2>1 DEF User, ClickArm, SignedOps
  <2>3. QED
    BY <2>2, ClickKeeps
<1>2. ASSUME NEW s \in Slots, RefreshTimer(s) PROVE PageInv'
  BY <1>2, OpenKeeps
<1>3. ASSUME NEW s \in Slots, Serve(s) PROVE PageInv'
  BY <1>3, ServeKeeps
<1>4. ASSUME NEW s \in Slots, Answers(s) PROVE PageInv'
  BY <1>4, AddressAnswered, RowsAnswered, WithdrawAnswered DEF Answers
<1>5. ASSUME NEW s \in Slots, Lost(s) PROVE PageInv'
  BY <1>5, LostKeeps
<1>6. ASSUME Disconnect \/ Reload PROVE PageInv'
  BY <1>6, CloseKeeps
<1>7. ASSUME NEW a \in ledger.arms, Fill(a) \/ FillFails(a) PROVE PageInv'
  BY <1>7, TickKeeps
<1>8. ASSUME NEW m \in signed, NEW op \in SignedOps, NEW o \in Owners, NEW t \in Tickers,
             Replay(m, op, o, t)
      PROVE  PageInv'
  BY <1>8, ReplayKeeps
<1>9. CASE UNCHANGED vars
  BY <1>9 DEF vars, pageVars, serverVars, PageInv, PageTypeOK, InFlight, OrdersWereSigned
<1>10. QED
  BY <1>1, <1>2, <1>3, <1>4, <1>5, <1>6, <1>7, <1>8, <1>9 DEF Next

LEMMA PageInvAlways == Spec => []PageInv
<1>1. QED
  BY PageInvInit, PageInvStep, PTL DEF Spec

(* The variables of the page and the server keep their types: in           *)
(* particular every row the page saves or paints has one of the four       *)
(* labels, whichever answers arrive in whichever order.                    *)
THEOREM PageTyped == Spec => []PageTypeOK
<1>1. PageInv => PageTypeOK
  BY DEF PageInv
<1>2. QED
  BY <1>1, PageInvAlways, PTL

(* For any number of wallets and requests, an order on the server's ledger *)
(* is of a wallet that signed a message with the word "arm" in it: every   *)
(* call, of the page or with a copy of a message, is checked against the   *)
(* owner it names (requireOwnerSig), so a wallet switched at the prompt    *)
(* arms nothing.  That it signed to arm does not follow: "disarm" will do. *)
THEOREM OrdersAreSigned == Spec => []OrdersWereSigned
<1>1. PageInv => OrdersWereSigned
  BY DEF PageInv
<1>2. QED
  BY <1>1, PageInvAlways, PTL

(* An address saved for a wallet is never replaced, by no answer and no    *)
(* switch of wallets: loadDesk and loadMe save the one they show, and show *)
(* the saved one when there is one.                                        *)
THEOREM AddressIsKept == Spec => SavedAddressStays
<1>1. PageInv /\ [Next]_vars =>
        [\A o \in Owners : deskCache[o] # NoAddress => deskCache'[o] = deskCache[o]]_vars
  <2> SUFFICES ASSUME PageInv, Next, NEW o \in Owners, deskCache[o] # NoAddress
               PROVE  deskCache'[o] = deskCache[o]
    BY DEF vars
  <2>1. deskCache \in [Owners -> MaybeAddress] /\ pubkey \in MaybeOwner
    BY DEF PageInv, PageTypeOK
  <2>2. CASE deskCache' = deskCache
    BY <2>2
  <2>3. ASSUME NEW s \in Slots, DeskAnswer(s) \/ MeAnswer(s)
        PROVE  deskCache'[o] = deskCache[o]
    <3>1. CASE pubkey # o \/ pubkey = NoOwner
      BY <2>1, <2>3, <3>1 DEF DeskAnswer, MeAnswer, SaveAddress
    <3>2. CASE pubkey = o /\ pubkey # NoOwner
      <4>1. Saved = deskCache[o] /\ \A a : ShownAddress(a) = deskCache[o]
        BY <3>2 DEF Saved, ShownAddress
      <4>2. SaveAddress(deskCache[o])
        BY <2>3, <4>1 DEF DeskAnswer, MeAnswer
      <4>3. QED
        BY <2>1, <3>2, <4>2 DEF SaveAddress
    <3>3. QED
      BY <3>1, <3>2
  <2>4. QED
    BY <2>2, <2>3
       DEF Next, User, Serve, Answers, Connect, ShowAccount, ClickArm, ClickSigned,
           Signed, Declined, RefreshTimer, ServeDesk, ServeMe, ServeSigned, Refuse, Replay,
           RefreshAnswer,
           ArmAnswer, ArmRefresh, WithdrawAnswer, Lost, Disconnect, Reload, Fill, FillFails, pageVars
<1>2. QED
  BY <1>1, PageInvAlways, PTL DEF Spec, SavedAddressStays
=============================================================================
