------------------------------ MODULE RowLocks ------------------------------
(***************************************************************************)
(* The transactions of AuctionHouse one statement at a time.  PostgreSQL   *)
(* runs them READ COMMITTED: a statement sees what has been committed and  *)
(* waits for the locks on the rows it writes; a transaction keeps its      *)
(* locks until it ends, and nobody sees its writes before it commits.      *)
(*                                                                         *)
(* The variables of AuctionHouse are the committed rows.  tx holds the     *)
(* open transactions: their statement, their locks, what they have read.   *)
(* Writes are made at the commit, which is part of the last statement that *)
(* takes a lock.  A transaction whose first SELECT ... FOR UPDATE waits    *)
(* has read nothing and holds nothing: it has not started here.  Rows of   *)
(* Object are left out: these transactions write them after the Auction    *)
(* row, which they have then locked.                                       *)
(***************************************************************************)
EXTENDS AuctionHouse

CONSTANT Txns    \* connections of the pool that are in use at once

VARIABLE tx      \* what runs on each connection

rowVars == <<vars, tx>>

----------------------------------------------------------------------------
(* Rows and locks.                                                         *)

AuctionId(a)    == <<"Auction", a>>
OrderId(a, r)   == <<"Order", a, r>>
WalletId(u)     == <<"Wallet", u>>
DepositId(a, u) == <<"AuctionDeposit", a, u>>

(* SELECT ... FOR UPDATE; UPDATE of columns that are no key; the key share *)
(* that an INSERT takes on the row its foreign key points to.              *)
ForUpdate(id) == [row |-> id, mode |-> "update"]
Updating(id)  == [row |-> id, mode |-> "nokey"]
KeyShare(id)  == [row |-> id, mode |-> "share"]

Conflicts(l, m) ==
  /\ l.row = m.row
  /\ \/ "share" \notin {l.mode, m.mode}
     \/ "update" \in {l.mode, m.mode}

NoTx == [op |-> "none", pc |-> "idle", held |-> {}]

Idle(t)  == tx[t] = NoTx
At(t, s) == tx[t].pc = s

HasConflict(l, s) == \E m \in tx[s].held : Conflicts(l, m)
Grantable(t, L)   == \A l \in L, s \in Txns \ {t} : ~HasConflict(l, s)

(* Mutants: place, cancel or payOrder reads its row without locking it.    *)
FirstLocks_NoBidLock(op, a, r) ==
  CASE op = "place" -> {}
    [] op \in {"cancel", "close"} -> {ForUpdate(AuctionId(a))}
    [] OTHER -> {ForUpdate(OrderId(a, r))}
FirstLocks_NoOrderLock(op, a, r) ==
  CASE op \in {"place", "cancel", "close"} -> {ForUpdate(AuctionId(a))}
    [] OTHER -> {}
FirstLocks_NoCancelLock(op, a, r) ==
  CASE op \in {"place", "close"} -> {ForUpdate(AuctionId(a))}
    [] op = "cancel" -> {}
    [] OTHER -> {ForUpdate(OrderId(a, r))}

(* The row each transaction locks before it reads anything.                *)
FirstLocks(op, a, r) ==
  CASE op \in {"place", "cancel", "close"} -> {ForUpdate(AuctionId(a))}
    [] OTHER -> {ForUpdate(OrderId(a, r))}

(* A transaction starts: it has its first lock and has passed its checks.  *)
(*   who   the bidder or buyer        n      the bid, or the order's rank  *)
(*   seen  the Auction row as read    open   orders found awaiting payment *)
(*   back  deposits given back        left   deposits still to give back   *)
Start(t, op, pc, a, who, n, open) ==
  /\ Idle(t)
  /\ Grantable(t, FirstLocks(op, a, n))
  /\ tx' = [tx EXCEPT ![t] =
       [op |-> op, pc |-> pc, held |-> FirstLocks(op, a, n), a |-> a, who |-> who,
        n |-> n, seen |-> auction[a], open |-> open, back |-> {}, left |-> {}]]
  /\ UNCHANGED vars

(* Mutant: the balance is read and compared before the wallet is locked.   *)
StakeLocks_NoWallet(a, u) == {Updating(DepositId(a, u))}

(* A wallet and the deposit row that goes with it.  One step takes both:   *)
(* NoSurpriseWaits shows that nobody ever waits for a deposit row.         *)
StakeLocks(a, u) == {Updating(WalletId(u)), Updating(DepositId(a, u))}

NextLeft(t) == CHOOSE u \in tx[t].left : TRUE

Bidders(a, u) == OtherBids(a, u)

(* The locks that the next statement of t asks for.                        *)
Need(t) ==
  LET x == tx[t]
  IN CASE x.pc = "hold"   -> StakeLocks(x.a, x.who) \cup {Updating(AuctionId(x.a))}
       [] x.pc = "refund" -> StakeLocks(x.a, NextLeft(t))
       [] x.pc = "orders" -> {Updating(OrderId(x.a, r)) : r \in x.open}
       [] x.pc \in {"debit", "forfeit"} ->
            IF Holds(deposit, x.a, x.who) THEN StakeLocks(x.a, x.who)
            ELSE IF x.pc = "debit" THEN {Updating(WalletId(x.who))} ELSE {}
       [] x.pc = "credit" -> {Updating(WalletId(Owner[x.a]))}
       [] x.pc \in {"sell", "close", "force", "lapse"} -> {Updating(AuctionId(x.a))}
       [] x.pc = "offer"  -> IF Bidders(x.a, x.who) = {}
                             THEN {Updating(AuctionId(x.a))} ELSE {KeyShare(AuctionId(x.a))}
       [] OTHER -> {}

(* t carries its statement s out: all the locks are there.                 *)
Runs(t, s) == At(t, s) /\ Grantable(t, Need(t))

(* It goes on to statement s, or it commits.                               *)
GoOn(t, s, left, back) ==
  /\ tx' = [tx EXCEPT ![t] = [tx[t] EXCEPT !.pc = s, !.held = tx[t].held \cup Need(t),
                                       !.left = left, !.back = back]]
  /\ UNCHANGED vars

Commit(t) == tx' = [tx EXCEPT ![t] = NoTx]

(* Rollback: a check failed, the database chose t as a deadlock's victim,  *)
(* the transaction took too long, or the process died.                     *)
Abort(t) ==
  /\ ~Idle(t)
  /\ tx' = [tx EXCEPT ![t] = NoTx]
  /\ UNCHANGED vars

----------------------------------------------------------------------------
(* BidsService.place.                                                      *)

GivenBack(w, S) ==
  [u \in Users |-> IF u \in S THEN [balance |-> w[u].balance + Deposit,
                                    locked  |-> w[u].locked - Deposit] ELSE w[u]]

StartPlace(t, u, a, amount) ==
  /\ auction[a].status = "LIVE"
  /\ auction[a].endTime > now
  /\ Owner[a] # u
  /\ auction[a].winner # u
  /\ amount >= Floor(a)
  /\ Start(t, "place", "hold", a, u, amount, {})

CommitPlace(t, back) ==
  LET x    == tx[t]
      rows == [deposit EXCEPT ![x.a][x.who] = "HELD"]
      end  == IF x.seen.endTime - now <= AntiSnipe
              THEN x.seen.endTime + ExtendBy ELSE auction[x.a].endTime
  IN /\ bids' = [bids EXCEPT ![x.a] = @ \cup {[bidder |-> x.who, amount |-> x.n]}]
     /\ auction' = [auction EXCEPT ![x.a] =
          [@ EXCEPT !.price = x.n, !.winner = x.who, !.endTime = end]]
     /\ wallet' = GivenBack(Hold(wallet, deposit, x.a, x.who), back)
     /\ deposit' = MoveHeld(rows, x.a, back, "RELEASED")
     /\ Commit(t)
     /\ UNCHANGED <<now, order, requests, listed, inflow, forfeited>>

(* holdBidDeposit, the bid, the auction; then the deposit of the leader    *)
(* that was read at the start is looked up.                                *)
PlaceHolds(t) ==
  LET outbid == {u \in {tx[t].seen.winner} \ {NoOne} : Holds(deposit, tx[t].a, u)}
  IN /\ Runs(t, "hold")
     /\ CanHold(tx[t].who, tx[t].a)
     /\ IF outbid = {} THEN CommitPlace(t, {}) ELSE GoOn(t, "refund", outbid, {})

----------------------------------------------------------------------------
(* AuctionsService.cancel.                                                 *)

Awaiting(a) == {r \in Ranks : order[a][r].status = "AWAITING_PAYMENT"}

StartCancel(t, a, isAdmin) ==
  /\ IsCancellable(auction[a].status, isAdmin)
  /\ Start(t, "cancel", "orders", a, NoOne, 1, Awaiting(a))

CommitCancel(t, back) ==
  LET x == tx[t]
  IN /\ order' = [order EXCEPT ![x.a] = [r \in Ranks |->
          IF r \in x.open \cap Awaiting(x.a) THEN Marked(x.a, r, "CANCELLED")
                                             ELSE order[x.a][r]]]
     /\ wallet' = GivenBack(wallet, back)
     /\ deposit' = MoveHeld(deposit, x.a, back, "RELEASED")
     /\ auction' = WithStatus(x.a, "CANCELLED", Returned(auction[x.a].object))
     /\ Commit(t)
     /\ UNCHANGED <<now, bids, requests, listed, inflow, forfeited>>

(* updateMany waits for the orders it found, then the held deposits are    *)
(* looked up.                                                              *)
CancelOrders(t) ==
  LET held == {u \in Users : Holds(deposit, tx[t].a, u)}
  IN /\ Runs(t, "orders")
     /\ IF held = {} THEN CommitCancel(t, {}) ELSE GoOn(t, "refund", held, {})

(* releaseBidDeposit, for place and for each round of cancel's loop.       *)
Refund(t) ==
  LET u    == NextLeft(t)
      left == tx[t].left \ {u}
      back == tx[t].back \cup {u}
  IN /\ Runs(t, "refund")
     /\ IF left # {} THEN GoOn(t, "refund", left, back)
        ELSE IF tx[t].op = "place" THEN CommitPlace(t, back) ELSE CommitCancel(t, back)

----------------------------------------------------------------------------
(* SettlementService.closeOne and expireOne.                               *)

(* The statement tells whether the closing job has come to a on its list   *)
(* ("close") or the administrator forces the end ("force").                *)
StartClose(t, a) ==
  /\ a \in listed /\ Closable(a)
  /\ Start(t, "close", "close", a, NoOne, 1, {})

StartForce(t, a) ==
  /\ auction[a].status = "LIVE"
  /\ Start(t, "close", "force", a, NoOne, 1, {})

CommitClose(t, s) ==
  LET x == tx[t]
  IN /\ Runs(t, s)
     /\ IF x.seen.winner = NoOne
        THEN auction' = WithStatus(x.a, "UNSOLD", "AVAILABLE") /\ UNCHANGED order
        ELSE /\ auction' = WithStatus(x.a, "ENDED", auction[x.a].object)
             /\ order' = [order EXCEPT ![x.a][1] =
                  OpenOrder(x.seen.winner, x.seen.price, Deposit, WinnerDue(x.seen.price))]
     /\ listed' = IF s = "close" THEN listed \ {x.a} ELSE listed
     /\ Commit(t)
     /\ UNCHANGED <<now, bids, deposit, wallet, requests, inflow, forfeited>>

StartExpire(t, a, r) ==
  /\ Expirable(a, r)
  /\ Start(t, "expire", IF r = 1 THEN "forfeit" ELSE "lapse", a, order[a][r].buyer, r, {})

CommitLapse(t) ==
  /\ Runs(t, "lapse")
  /\ order' = [order EXCEPT ![tx[t].a][2] = Marked(tx[t].a, 2, "CANCELLED")]
  /\ auction' = WithStatus(tx[t].a, "UNSOLD", "AVAILABLE")
  /\ Commit(t)
  /\ UNCHANGED <<now, bids, deposit, wallet, requests, listed, inflow, forfeited>>

(* updateMany on the held deposit, then the wallet if there was one.       *)
ForfeitStake(t) == Runs(t, "forfeit") /\ GoOn(t, "offer", {}, {})

CommitOffer(t) ==
  LET x == tx[t]
      defaulted == [order EXCEPT ![x.a][1] = Marked(x.a, 1, "DEFAULTED")]
  IN /\ Runs(t, "offer")
     /\ deposit' = MoveHeld(deposit, x.a, {x.who}, "FORFEITED")
     /\ wallet' = Forfeit(x.a, x.who)
     /\ forfeited' = IF Holds(deposit, x.a, x.who) THEN forfeited + Deposit ELSE forfeited
     /\ \/ /\ Bidders(x.a, x.who) = {}
           /\ order' = defaulted
           /\ auction' = WithStatus(x.a, "UNSOLD", "AVAILABLE")
        \/ \E b \in Highest(Bidders(x.a, x.who)) :
             /\ order' = [defaulted EXCEPT ![x.a][2] =
                  OpenOrder(b.bidder, b.amount, 0, TotalDue(b.amount))]
             /\ UNCHANGED auction
     /\ Commit(t)
     /\ UNCHANGED <<now, bids, requests, listed, inflow>>

----------------------------------------------------------------------------
(* OrdersService.payOrder.                                                 *)

StartPay(t, a, r) ==
  /\ order[a][r].status = "AWAITING_PAYMENT"
  /\ order[a][r].deadline > now
  /\ Start(t, "pay", "debit", a, order[a][r].buyer, r, {})

(* The guarded debit of the buyer, who must cover what is due; the         *)
(* deposit; then the owner's wallet.                                       *)
PayDebits(t) ==
  /\ Runs(t, "debit")
  /\ wallet[tx[t].who].balance >= order[tx[t].a][tx[t].n].due
  /\ GoOn(t, "credit", {}, {})

PayCredits(t) == Runs(t, "credit") /\ GoOn(t, "sell", {}, {})

CommitPay(t) ==
  LET x == tx[t]  o == order[x.a][x.n]
  IN /\ Runs(t, "sell")
     /\ wallet' = Paid(o, Owner[x.a])
     /\ deposit' = IF o.applied > 0 THEN MoveHeld(deposit, x.a, {x.who}, "APPLIED")
                                    ELSE deposit
     /\ order' = [order EXCEPT ![x.a][x.n] =
                    [Marked(x.a, x.n, "COMPLETED") EXCEPT !.paid = NetPaid(o)]]
     /\ auction' = WithStatus(x.a, "SOLD", "SOLD")
     /\ Commit(t)
     /\ UNCHANGED <<now, bids, requests, listed, inflow, forfeited>>

----------------------------------------------------------------------------
(* A write of the seller's or the reviewer's handlers waits for the row.   *)
(* It is taken as one statement, though submit and update write the Object *)
(* row before the Auction row, and can so deadlock with a cancel.  TopUp   *)
(* and Withdraw, which change one wallet and hold nothing else, are left   *)
(* to AuctionHouse.                                                        *)
SellerStatement ==
  /\ Seller
  /\ \A a \in Auctions : auction'[a] # auction[a]
       => \A s \in Txns : ~HasConflict(Updating(AuctionId(a)), s)
  /\ UNCHANGED tx

(* The closing job's query waits for nobody; a closeOne that finds nothing  *)
(* to close has waited for the row, and is over.                           *)
ListStatement ==
  /\ \E a \in Auctions :
       \/ List(a)
       \/ /\ Skip(a)
          /\ \A s \in Txns : ~HasConflict(ForUpdate(AuctionId(a)), s)
  /\ UNCHANGED tx

(* Assumption: a transaction takes no time that counts against a deadline  *)
(* of days; it ends, or is cut off, within seconds.                        *)
TimePasses == Tick /\ (\A t \in Txns : Idle(t)) /\ UNCHANGED tx

Starts(t) ==
  \E a \in Auctions :
    \/ \E u \in Users, x \in BidAmounts : StartPlace(t, u, a, x)
    \/ \E isAdmin \in BOOLEAN : StartCancel(t, a, isAdmin)
    \/ StartClose(t, a) \/ StartForce(t, a)
    \/ \E r \in Ranks : StartExpire(t, a, r)
    \/ \E r \in Ranks : StartPay(t, a, r)

Statement(t) ==
  \/ PlaceHolds(t)   \/ CancelOrders(t) \/ Refund(t)
  \/ CommitClose(t, "close") \/ CommitClose(t, "force")
  \/ CommitLapse(t)  \/ ForfeitStake(t) \/ CommitOffer(t)
  \/ PayDebits(t)    \/ PayCredits(t)   \/ CommitPay(t)

RowInit == Init /\ tx = [t \in Txns |-> NoTx]

RowNext ==
  \/ \E t \in Txns : Starts(t)
  \/ \E t \in Txns : Statement(t)
  \/ \E t \in Txns : Abort(t)
  \/ SellerStatement
  \/ ListStatement
  \/ TimePasses

RowSpec == RowInit /\ [][RowNext]_rowVars

----------------------------------------------------------------------------
(* What the locks are for.                                                 *)

(* However the statements of two transactions interleave, wherever one is  *)
(* rolled back: what is committed is what whole handlers of AuctionHouse,  *)
(* one after the other, would have done.                                   *)
ActsAtomically == Spec

(* t waits for s with lock l.                                              *)
WaitsFor(t, s, l) == s # t /\ l \in Need(t) /\ HasConflict(l, s)

(* The only waits inside these transactions, and so the only deadlocks     *)
(* among them: wallets of transactions on different auctions, and a cancel *)
(* against a payment or an expiry of the same auction, which lock Order    *)
(* and Auction in opposite order.  Bids, and a bid and a close or cancel,  *)
(* on the same auction queue up at its row and never meet again; nobody    *)
(* waits for a deposit row.                                                *)
NoSurpriseWaits ==
  \A t, s \in Txns : \A l \in Need(t) : WaitsFor(t, s, l) =>
    LET ops == <<tx[t].op, tx[s].op>>
    IN CASE l.row[1] = "Wallet"  -> tx[t].a # tx[s].a
         [] l.row[1] = "Auction" -> ops \in {"pay", "expire"} \X {"cancel"}
         [] l.row[1] = "Order"   -> ops \in {"cancel"} \X {"pay", "expire"}
         [] OTHER                -> FALSE
=============================================================================
