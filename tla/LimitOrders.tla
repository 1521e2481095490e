----------------------------- MODULE LimitOrders -----------------------------
(***************************************************************************)
(* What the vault promises its users, without accounts, prices or clocks.  *)
(* Every user has funds in custody and orders.  An order is a licence to   *)
(* swap once: it starts open and ends filled or cancelled, never both and  *)
(* never twice.  Filling it gives at most its limit of one token for some  *)
(* of another, and touches the funds of its owner alone; of these, the     *)
(* tokens the deal does not name are at the mercy of whoever fills it.     *)
(* All other tokens that leave custody go to their owner's wallet.         *)
(***************************************************************************)
EXTENDS Integers

CONSTANTS
    Users, Mints, Ids,
    MaxFunds        \* no balance exceeds it

VARIABLES
    status,         \* "none", "open", "filled" or "cancelled", by user and id
    deal,           \* the deal an order stands for: give, take, limit
    funds,          \* tokens in custody
    wallet          \* tokens of the user

loVars == <<status, deal, funds, wallet>>

NoDeal == [give |-> "none", take |-> "none", limit |-> 0]
Deal == [give : Mints, take : Mints, limit : 0..MaxFunds]

Init ==
    /\ status = [u \in Users |-> [i \in Ids |-> "none"]]
    /\ deal = [u \in Users |-> [i \in Ids |-> NoDeal]]
    /\ funds = [u \in Users |-> [m \in Mints |-> 0]]
    /\ wallet \in [Users -> [Mints -> 0..MaxFunds]]

Become(u, id, s) == status' = [status EXCEPT ![u][id] = s]

Place(u, id) ==
    /\ status[u][id] = "none"
    /\ Become(u, id, "open")
    /\ \E d \in Deal : deal' = [deal EXCEPT ![u][id] = d]
    /\ UNCHANGED <<funds, wallet>>

Cancel(u, id) ==
    /\ status[u][id] = "open"
    /\ Become(u, id, "cancelled")
    /\ UNCHANGED <<deal, funds, wallet>>

Fill(u, id) ==
    /\ status[u][id] = "open"
    /\ Become(u, id, "filled")
    /\ \E after \in [Mints -> 0..MaxFunds] :
          /\ funds[u][deal[u][id].give] - after[deal[u][id].give] \in 0..deal[u][id].limit
          /\ after[deal[u][id].take] > funds[u][deal[u][id].take]
          /\ funds' = [funds EXCEPT ![u] = after]
    /\ UNCHANGED <<deal, wallet>>

(* From the user's wallet, or from outside.                                *)
MoveIn(u, m) ==
    /\ \E n \in 1..MaxFunds :
          /\ funds' = [funds EXCEPT ![u][m] = @ + n]
          /\ wallet' \in {wallet, [wallet EXCEPT ![u][m] = @ - n]}
    /\ UNCHANGED <<status, deal>>

MoveOut(u, m) ==
    /\ \E n \in 1..MaxFunds :
          /\ funds' = [funds EXCEPT ![u][m] = @ - n]
          /\ wallet' = [wallet EXCEPT ![u][m] = @ + n]
    /\ UNCHANGED <<status, deal>>

Next ==
    \E u \in Users :
        \/ \E id \in Ids : Place(u, id) \/ Cancel(u, id) \/ Fill(u, id)
        \/ \E m \in Mints : MoveIn(u, m) \/ MoveOut(u, m)

Spec == Init /\ [][Next]_loVars
=============================================================================
