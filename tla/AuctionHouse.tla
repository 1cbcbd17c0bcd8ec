---------------------------- MODULE AuctionHouse ----------------------------
(***************************************************************************)
(* The life of an auction from its creation to its settlement, with the    *)
(* money that follows it: auctions, bids, bid deposits, wallets, orders    *)
(* and the settlement jobs, as they share one database.                    *)
(*                                                                         *)
(* Grain.  A handler that runs in one database transaction and re-reads    *)
(* the row it has locked (place, closeOne, expireOne, payOrder, cancel) is *)
(* one action.  A handler that reads a row, checks it, and writes it later *)
(* without a lock (approve, reject, submit, update, remove) is two         *)
(* actions, and any other action may come between them.                    *)
(*                                                                         *)
(* Time is counted in ticks.  Mail, realtime events and formatting are not *)
(* modelled; the wallet's Stripe side is reduced to TopUp and Withdraw.    *)
(***************************************************************************)
EXTENDS Pricing, FiniteSets, Functions

CONSTANTS
  Users, Auctions,
  NoOne,            \* the null of currentWinnerId and of a missing buyer
  Owner,            \* the owner of the auctioned object
  Requests,         \* HTTP requests of the unlocked handlers, at once
  StartingPrices, BidAmounts, FundAmounts,
  InitialBalance,   \* balances before the first auction
  Duration,         \* durationDays, in ticks
  AntiSnipe,        \* antiSnipeSeconds, in ticks
  ExtendBy,         \* extendBySeconds, in ticks
  PaymentWindow,    \* PAYMENT_WINDOW_MS, in ticks
  CommitLag,        \* ticks from a bid's look at the clock to its commit
  MaxTime,          \* bound: the last tick
  LastReview,       \* bound: no unlocked handler starts after this tick
  MaxLag,           \* bound: how many ticks due work may wait
  MaxFunding        \* bound: money that enters after the start

ASSUME UsersAssumption == /\ IsFiniteSet(Auctions) /\ IsFiniteSet(Users)
                          /\ NoOne \notin Users
                          /\ Owner \in [Auctions -> Users]
ASSUME MoneyAssumption == /\ StartingPrices \subseteq Nat \ {0}
                          /\ BidAmounts \subseteq Nat \ {0}
                          /\ FundAmounts \subseteq Nat \ {0}
                          /\ InitialBalance \in [Users -> Nat]
ASSUME TimeAssumption == /\ Duration \in Nat \ {0}
                         /\ PaymentWindow \in Nat \ {0}
                         /\ AntiSnipe \in Nat /\ ExtendBy \in Nat /\ CommitLag \in Nat

VARIABLES
  now,        \* the clock
  auction,    \* Auction row and the status of its Object row
  bids,       \* Bid rows of an auction
  deposit,    \* AuctionDeposit row of (auction, user): its status
  order,      \* Order rows of an auction, by offerRank
  wallet,     \* Wallet rows
  requests,   \* unlocked handlers between their check and their write
  listed,     \* auctions that a closing job has listed and not yet closed
  inflow,     \* history: money in from Stripe minus money out
  forfeited   \* history: deposits kept by the house

vars == <<now, auction, bids, deposit, order, wallet, requests, listed, inflow, forfeited>>

----------------------------------------------------------------------------
(* Types. *)

AuctionStatus == {"NONE", "DRAFT", "PENDING_REVIEW", "REJECTED", "LIVE",
                  "ENDED", "SOLD", "UNSOLD", "CANCELLED", "REMOVED"}
ObjectStatus  == {"DRAFT", "IN_AUCTION", "AVAILABLE", "SOLD"}
DepositStatus == {"NONE", "HELD", "RELEASED", "APPLIED", "FORFEITED"}
OrderStatus   == {"NONE", "AWAITING_PAYMENT", "COMPLETED", "DEFAULTED", "CANCELLED"}

Ranks == {1, 2}
Handlers == {"approve", "reject", "submit", "update", "remove"}

AuctionRow == [status: AuctionStatus, object: ObjectStatus, startingPrice: Nat,
               price: Nat, winner: Users \cup {NoOne}, endTime: Nat]
OrderRow   == [status: OrderStatus, buyer: Users \cup {NoOne}, amount: Nat,
               applied: Nat, due: Nat, deadline: Nat, paid: Int]
Request    == [id: Requests, handler: Handlers, auction: Auctions,
               seen: AuctionStatus, at: Nat]

(* A row that does not exist yet. *)
NoAuction == [status |-> "NONE", object |-> "DRAFT", startingPrice |-> 0,
              price |-> 0, winner |-> NoOne, endTime |-> 0]
NoOrder   == [status |-> "NONE", buyer |-> NoOne, amount |-> 0, applied |-> 0,
              due |-> 0, deadline |-> 0, paid |-> 0]

TypeOK ==
  /\ now \in Nat
  /\ auction \in [Auctions -> AuctionRow]
  /\ bids \in [Auctions -> SUBSET [bidder: Users, amount: BidAmounts]]
  /\ deposit \in [Auctions -> [Users -> DepositStatus]]
  /\ order \in [Auctions -> [Ranks -> OrderRow]]
  /\ wallet \in [Users -> [balance: Int, locked: Int]]
  /\ requests \subseteq Request
  /\ listed \subseteq Auctions
  /\ inflow \in Int
  /\ forfeited \in Nat

Init ==
  /\ now = 0
  /\ auction = [a \in Auctions |-> NoAuction]
  /\ bids = [a \in Auctions |-> {}]
  /\ deposit = [a \in Auctions |-> [u \in Users |-> "NONE"]]
  /\ order = [a \in Auctions |-> [r \in Ranks |-> NoOrder]]
  /\ wallet = [u \in Users |-> [balance |-> InitialBalance[u], locked |-> 0]]
  /\ requests = {}
  /\ listed = {}
  /\ inflow = 0
  /\ forfeited = 0

(* Row updates that several handlers make.                                 *)
WithStatus(a, st, ob) == [auction EXCEPT ![a] = [@ EXCEPT !.status = st, !.object = ob]]
Marked(a, r, st)      == [order[a][r] EXCEPT !.status = st]

----------------------------------------------------------------------------
(* Deposits: WalletService.holdBidDeposit and releaseBidDeposit, which run *)
(* inside the transaction of their caller.                                 *)

Holds(d, a, u) == d[a][u] = "HELD"

CanHold(u, a) == Holds(deposit, a, u) \/ wallet[u].balance >= Deposit

Hold(w, d, a, u) ==
  [v \in Users |->
     LET held == IF v = u /\ ~Holds(d, a, u) THEN Deposit ELSE 0
     IN [balance |-> w[v].balance - held, locked |-> w[v].locked + held]]

(* The wallets after the held deposits of the users S on a are given back. *)
Release(w, d, a, S) ==
  [u \in Users |->
     LET back == IF u \in S /\ Holds(d, a, u) THEN Deposit ELSE 0
     IN [balance |-> w[u].balance + back, locked |-> w[u].locked - back]]

(* The deposit rows of a with the held ones of the users S moved to st. *)
MoveHeld(d, a, S, st) ==
  [d EXCEPT ![a] = [u \in Users |-> IF u \in S /\ Holds(d, a, u) THEN st ELSE d[a][u]]]

----------------------------------------------------------------------------
(* The seller's and the reviewer's handlers: AuctionsService.              *)

(* create: the object and its auction in one transaction.                  *)
Create(a, saveAsDraft, p) ==
  /\ now <= LastReview
  /\ auction[a].status = "NONE"
  /\ auction' = [auction EXCEPT ![a] =
       [NoAuction EXCEPT !.status = IF saveAsDraft THEN "DRAFT" ELSE "PENDING_REVIEW",
                         !.object = IF saveAsDraft THEN "DRAFT" ELSE "IN_AUCTION",
                         !.startingPrice = p]]
  /\ UNCHANGED <<now, bids, deposit, order, wallet, requests, listed, inflow, forfeited>>

(* The status each unlocked handler asks for when it reads the row. *)
Accepts(h) ==
  CASE h \in {"approve", "reject"} -> {"PENDING_REVIEW"}
    [] h \in {"submit", "remove"}  -> {"DRAFT"}
    [] h = "update"                -> {"DRAFT", "PENDING_REVIEW", "REJECTED"}

(* An unlocked handler reads the row and finds a status it accepts.        *)
Check(q, h, a) ==
  /\ now <= LastReview
  /\ \A r \in requests : r.id # q
  /\ auction[a].status \in Accepts(h)
  /\ requests' = requests \cup
       {[id |-> q, handler |-> h, auction |-> a, seen |-> auction[a].status, at |-> now]}
  /\ UNCHANGED <<now, auction, bids, deposit, order, wallet, listed, inflow, forfeited>>

(* Its write follows, whatever the status has become: the row is updated   *)
(* by its id alone, which fails only if the row is gone.                   *)
Writing(r, h) ==
  /\ r \in requests /\ r.handler = h
  /\ auction[r.auction].status # "REMOVED"
  /\ requests' = requests \ {r}
  /\ UNCHANGED <<now, order, wallet, listed, inflow, forfeited>>

Approve(r) ==
  /\ Writing(r, "approve")
  /\ UNCHANGED <<bids, deposit>>
  /\ auction' = [auction EXCEPT ![r.auction] =
       [@ EXCEPT !.status = "LIVE", !.endTime = r.at + Duration]]

Reject(r) ==
  /\ Writing(r, "reject")
  /\ UNCHANGED <<bids, deposit>>
  /\ auction' = WithStatus(r.auction, "REJECTED", auction[r.auction].object)

Submit(r) ==
  /\ Writing(r, "submit")
  /\ UNCHANGED <<bids, deposit>>
  /\ auction' = WithStatus(r.auction, "PENDING_REVIEW", "IN_AUCTION")

Update(r, p) ==
  /\ Writing(r, "update")
  /\ UNCHANGED <<bids, deposit>>
  /\ LET st == IF r.seen = "REJECTED" THEN "PENDING_REVIEW" ELSE auction[r.auction].status
     IN auction' = [auction EXCEPT ![r.auction] =
                      [@ EXCEPT !.status = st, !.startingPrice = p]]

(* The delete takes the bids and deposits along; an order would forbid it. *)
Remove(r) ==
  /\ Writing(r, "remove")
  /\ \A k \in Ranks : order[r.auction][k].status = "NONE"
  /\ auction' = [auction EXCEPT ![r.auction] = [NoAuction EXCEPT !.status = "REMOVED"]]
  /\ bids' = [bids EXCEPT ![r.auction] = {}]
  /\ deposit' = [deposit EXCEPT ![r.auction] = [u \in Users |-> "NONE"]]

(* The handler dies before its write, or the write fails.                  *)
Abandon(r) ==
  /\ r \in requests
  /\ requests' = requests \ {r}
  /\ UNCHANGED <<now, auction, bids, deposit, order, wallet, listed, inflow, forfeited>>

(* Mutant: the administrator may cancel a sold auction. *)
IsCancellable_Sold(status, isAdmin) ==
  IF isAdmin THEN status \notin {"NONE", "REMOVED", "CANCELLED"}
             ELSE status \in {"PENDING_REVIEW", "REJECTED"}

IsCancellable(status, isAdmin) ==
  IF isAdmin THEN status \notin {"NONE", "REMOVED", "CANCELLED", "SOLD"}
             ELSE status \in {"PENDING_REVIEW", "REJECTED"}

(* Mutant: cancel leaves the open order alone. *)
CancelOpenOrders_Kept(a) == order

CancelOpenOrders(a) ==
  [order EXCEPT ![a] = [r \in Ranks |->
     IF order[a][r].status = "AWAITING_PAYMENT"
     THEN Marked(a, r, "CANCELLED") ELSE order[a][r]]]

(* The object goes back to its owner if the auction was holding it. *)
Returned(ob) == IF ob \in {"IN_AUCTION", "DRAFT"} THEN "AVAILABLE" ELSE ob

(* cancel: locks the auction row, checks again, closes the open order and  *)
(* gives every held deposit back.                                          *)
Cancel(a, isAdmin) ==
  /\ IsCancellable(auction[a].status, isAdmin)
  /\ order' = CancelOpenOrders(a)
  /\ wallet' = Release(wallet, deposit, a, Users)
  /\ deposit' = MoveHeld(deposit, a, Users, "RELEASED")
  /\ auction' = WithStatus(a, "CANCELLED", Returned(auction[a].object))
  /\ UNCHANGED <<now, bids, requests, listed, inflow, forfeited>>

----------------------------------------------------------------------------
(* Bidding: BidsService.place.                                             *)

Floor(a) ==
  IF auction[a].winner = NoOne
  THEN auction[a].startingPrice
  ELSE auction[a].price + minIncrementFor(auction[a].price)

(* anti-snipe: a bid in the last AntiSnipe ticks moves the end.            *)
ExtendedEnd(a, at) ==
  IF auction[a].endTime - at <= AntiSnipe
  THEN auction[a].endTime + ExtendBy ELSE auction[a].endTime

(* When a bid that commits now may have looked at the clock: the end may   *)
(* have passed since.                                                      *)
BidClocks == {at \in 0 .. now : now - at <= CommitLag}

(* Mutant: the deposit of the outbid leader stays held. *)
Outbid_Kept(a) == {}

(* Whose deposit an accepted bid gives back: the leader so far, if any.    *)
Outbid(a) == {auction[a].winner}

Place(u, a, amount) ==
  LET held   == Hold(wallet, deposit, a, u)
      rows   == [deposit EXCEPT ![a][u] = "HELD"]
  IN /\ auction[a].status = "LIVE"
     /\ Owner[a] # u
     /\ auction[a].winner # u
     /\ amount >= Floor(a)
     /\ CanHold(u, a)
     /\ bids' = [bids EXCEPT ![a] = @ \cup {[bidder |-> u, amount |-> amount]}]
     /\ \E at \in BidClocks :
          /\ auction[a].endTime > at
          /\ auction' = [auction EXCEPT ![a] =
               [@ EXCEPT !.price = amount, !.winner = u, !.endTime = ExtendedEnd(a, at)]]
     /\ wallet' = Release(held, rows, a, Outbid(a))
     /\ deposit' = MoveHeld(rows, a, Outbid(a), "RELEASED")
     /\ UNCHANGED <<now, order, requests, listed, inflow, forfeited>>

----------------------------------------------------------------------------
(* Settlement: SettlementService and OrdersService.                        *)

OpenOrder(u, amount, applied, due) ==
  [status |-> "AWAITING_PAYMENT", buyer |-> u, amount |-> amount, applied |-> applied,
   due |-> due, deadline |-> now + PaymentWindow, paid |-> 0]

(* closeDueAuctions' query, of a timer's run or of the sweep.              *)
List(a) ==
  /\ auction[a].status = "LIVE"
  /\ auction[a].endTime <= now
  /\ listed' = listed \cup {a}
  /\ UNCHANGED <<now, auction, bids, deposit, order, wallet, requests, inflow, forfeited>>

(* Mutant: whatever is on the list is taken to be due still. *)
Closable_Listed(a) == auction[a].status = "LIVE"

Closable(a) == auction[a].status = "LIVE" /\ auction[a].endTime <= now

(* closeOne under the row lock; force is the administrator's force-end.    *)
CloseOne(a, force) ==
  /\ auction[a].status = "LIVE"
  /\ force \/ Closable(a)
  /\ IF auction[a].winner = NoOne
     THEN /\ auction' = WithStatus(a, "UNSOLD", "AVAILABLE")
          /\ UNCHANGED order
     ELSE /\ auction' = WithStatus(a, "ENDED", auction[a].object)
          /\ order' = [order EXCEPT ![a][1] =
               OpenOrder(auction[a].winner, auction[a].price, Deposit,
                         WinnerDue(auction[a].price))]
  /\ UNCHANGED <<now, bids, deposit, wallet, requests, inflow, forfeited>>

(* The job comes to a on its list. *)
Close(a) == a \in listed /\ CloseOne(a, FALSE) /\ listed' = listed \ {a}

(* It finds a closed already, or its end extended after the query.         *)
Skip(a) ==
  /\ a \in listed /\ ~Closable(a)
  /\ listed' = listed \ {a}
  /\ UNCHANGED <<now, auction, bids, deposit, order, wallet, requests, inflow, forfeited>>

ForceEnd(a) == CloseOne(a, TRUE) /\ UNCHANGED listed

Payable(o) ==
  /\ o.status = "AWAITING_PAYMENT"
  /\ o.deadline > now
  /\ wallet[o.buyer].balance >= o.due

(* Mutant: the seller gets the whole deposit, the excess included. *)
NetPaid_WithExcess(o) == o.due + o.applied

NetPaid(o) == o.due + o.applied - Excess(o.applied, o.amount)

(* The wallets once o is paid: the buyer pays what is due, gets the excess *)
(* of the deposit back and no longer has it locked; the owner is credited. *)
Paid(o, owner) ==
  [u \in Users |->
     [balance |-> wallet[u].balance
                    + (IF u = o.buyer THEN Excess(o.applied, o.amount) - o.due ELSE 0)
                    + (IF u = owner THEN NetPaid(o) ELSE 0),
      locked  |-> wallet[u].locked - (IF u = o.buyer THEN o.applied ELSE 0)]]

(* payOrder: the buyer pays, the seller is credited at once, and the order,*)
(* the auction and the object are closed together.                         *)
PayOrder(a, r) ==
  LET o == order[a][r]
  IN /\ Payable(o)
     /\ wallet' = Paid(o, Owner[a])
     /\ deposit' = IF o.applied > 0 THEN MoveHeld(deposit, a, {o.buyer}, "APPLIED")
                                    ELSE deposit
     /\ order' = [order EXCEPT ![a][r] =
                    [Marked(a, r, "COMPLETED") EXCEPT !.paid = NetPaid(o)]]
     /\ auction' = WithStatus(a, "SOLD", "SOLD")
     /\ UNCHANGED <<now, bids, requests, listed, inflow, forfeited>>

(* Mutants: the deadline is not read again under the row lock; only the    *)
(* winner's order is ever due.                                             *)
Expirable_Early(a, r) == order[a][r].status = "AWAITING_PAYMENT"
Expirable_WinnerOnly(a, r) ==
  r = 1 /\ order[a][r].status = "AWAITING_PAYMENT" /\ order[a][r].deadline <= now

Expirable(a, r) ==
  /\ order[a][r].status = "AWAITING_PAYMENT"
  /\ order[a][r].deadline <= now

(* expireOne for rank 2: the optional offer lapses.                        *)
ExpireOffer(a) ==
  /\ Expirable(a, 2)
  /\ order' = [order EXCEPT ![a][2] = Marked(a, 2, "CANCELLED")]
  /\ auction' = WithStatus(a, "UNSOLD", "AVAILABLE")
  /\ UNCHANGED <<now, bids, deposit, wallet, requests, listed, inflow, forfeited>>

(* Mutant: the defaulted buyer is not left out. *)
OtherBids_All(a, u) == bids[a]

OtherBids(a, u) == {b \in bids[a] : b.bidder # u}

(* The highest of a set of bids, as a singleton; empty if there is none.   *)
Highest(S) == {b \in S : \A c \in S : c.amount <= b.amount}

(* The wallets once the held deposit of u on a is kept by the house.       *)
Forfeit(a, u) ==
  [v \in Users |->
     [balance |-> wallet[v].balance,
      locked  |-> wallet[v].locked - (IF v = u /\ Holds(deposit, a, u) THEN Deposit ELSE 0)]]

(* expireOne for rank 1: the winner defaulted, the deposit is forfeited    *)
(* and the second highest bidder, if any, gets an offer at the own bid.    *)
ExpireWinner(a) ==
  LET u      == order[a][1].buyer
      second == Highest(OtherBids(a, u))
      defaulted == [order EXCEPT ![a][1] = Marked(a, 1, "DEFAULTED")]
  IN /\ Expirable(a, 1)
     /\ deposit' = MoveHeld(deposit, a, {u}, "FORFEITED")
     /\ wallet' = Forfeit(a, u)
     /\ forfeited' = IF Holds(deposit, a, u) THEN forfeited + Deposit ELSE forfeited
     /\ \/ /\ second = {}
           /\ order' = defaulted
           /\ auction' = WithStatus(a, "UNSOLD", "AVAILABLE")
        \/ \E b \in second :
             /\ order' = [defaulted EXCEPT ![a][2] =
                  OpenOrder(b.bidder, b.amount, 0, TotalDue(b.amount))]
             /\ UNCHANGED auction
     /\ UNCHANGED <<now, bids, requests, listed, inflow>>

----------------------------------------------------------------------------
(* The wallet's other side and the clock.                                  *)

(* creditTopUp, once per Stripe event. *)
TopUp(u, x) ==
  /\ inflow + x <= MaxFunding
  /\ wallet' = [wallet EXCEPT ![u].balance = @ + x]
  /\ inflow' = inflow + x
  /\ UNCHANGED <<now, auction, bids, deposit, order, requests, listed, forfeited>>

(* requestWithdrawal's guarded debit. *)
Withdraw(u, x) ==
  /\ wallet[u].balance >= x
  /\ wallet' = [wallet EXCEPT ![u].balance = @ - x]
  /\ inflow' = inflow - x
  /\ UNCHANGED <<now, auction, bids, deposit, order, requests, listed, forfeited>>

(* The clock moves on unless due work has already waited MaxLag ticks.     *)
Tick ==
  /\ now < MaxTime
  /\ \A a \in Auctions :
       /\ auction[a].status = "LIVE" => now < auction[a].endTime + MaxLag
       /\ \A r \in Ranks : order[a][r].status = "AWAITING_PAYMENT"
                             => now < order[a][r].deadline + MaxLag
  /\ now' = now + 1
  /\ UNCHANGED <<auction, bids, deposit, order, wallet, requests, listed, inflow, forfeited>>

----------------------------------------------------------------------------
(* Assumption on the environment, not a guard of the code: no first bid    *)
(* arrives between the two database calls of one unlocked handler.         *)
PromptReview(r) == bids[r.auction] = {}

Seller ==
  \/ \E a \in Auctions, d \in BOOLEAN, p \in StartingPrices : Create(a, d, p)
  \/ \E q \in Requests, h \in Handlers, a \in Auctions : Check(q, h, a)
  \/ \E r \in requests : PromptReview(r) /\ Approve(r)
  \/ \E r \in requests : PromptReview(r) /\ Reject(r)
  \/ \E r \in requests : PromptReview(r) /\ Submit(r)
  \/ \E r \in requests, p \in StartingPrices : PromptReview(r) /\ Update(r, p)
  \/ \E r \in requests : PromptReview(r) /\ Remove(r)
  \/ \E r \in requests : Abandon(r)

Trade ==
  \/ \E a \in Auctions, isAdmin \in BOOLEAN : Cancel(a, isAdmin)
  \/ \E u \in Users, a \in Auctions, x \in BidAmounts : Place(u, a, x)
  \/ \E a \in Auctions : Close(a)
  \/ \E a \in Auctions : ForceEnd(a)
  \/ \E a \in Auctions, r \in Ranks : PayOrder(a, r)
  \/ \E a \in Auctions : ExpireOffer(a)
  \/ \E a \in Auctions : ExpireWinner(a)
  \/ \E u \in Users, x \in FundAmounts : TopUp(u, x)
  \/ \E u \in Users, x \in FundAmounts : Withdraw(u, x)

(* The closing job reads and goes through its list. *)
Listing == \E a \in Auctions : List(a) \/ Skip(a)

Next == Seller \/ Trade \/ Listing \/ Tick

Spec == Init /\ [][Next]_vars

(* Without the assumption: a handler's second database call comes as late  *)
(* as the schedule likes.                                                  *)
LateWrite ==
  \E r \in requests :
    \/ Approve(r) \/ Reject(r) \/ Submit(r) \/ Remove(r)
    \/ \E p \in StartingPrices : Update(r, p)

SlowSpec == Init /\ [][Next \/ LateWrite]_vars

(* Fairness: the two deadline timers and the six-hourly sweep bring every  *)
(* due close and every due expiry to its handler, and time passes.         *)
Fairness ==
  /\ WF_vars(Tick)
  /\ \A a \in Auctions : /\ WF_vars(List(a))
                         /\ WF_vars(Close(a))
                         /\ WF_vars(ExpireWinner(a))
                         /\ WF_vars(ExpireOffer(a))

FairSpec == Spec /\ Fairness

----------------------------------------------------------------------------
(* Safety.                                                                 *)

HeldOn(u) == {a \in Auctions : Holds(deposit, a, u)}

(* lockedBalance is exactly the sum of the deposits the user still has     *)
(* held: hold, release, payment, forfeit and cancel each move both sides.  *)
LockedBacksDeposits ==
  \A u \in Users : wallet[u].locked = Deposit * Cardinality(HeldOn(u))

(* Neither balance is ever negative, although payOrder and expireOne take  *)
(* the deposit out of lockedBalance without a guard.                       *)
NoOverdraft ==
  \A u \in Users : wallet[u].balance >= 0 /\ wallet[u].locked >= 0

(* A deposit is held by the leader of a live auction and by the winner     *)
(* whose order still awaits payment, and by nobody else.                   *)
DepositHolders ==
  \A a \in Auctions, u \in Users :
    Holds(deposit, a, u) <=>
      \/ auction[a].status = "LIVE" /\ auction[a].winner = u
      \/ order[a][1].status = "AWAITING_PAYMENT" /\ order[a][1].buyer = u

(* An ended auction waits for exactly one order, and no other auction has  *)
(* an open one: no order can be paid for an auction that was cancelled,    *)
(* sold to somebody else or given back to its seller.                      *)
OneOpenOrder ==
  \A a \in Auctions :
    LET open == {r \in Ranks : order[a][r].status = "AWAITING_PAYMENT"}
    IN IF auction[a].status = "ENDED" THEN \E r \in Ranks : open = {r} ELSE open = {}

(* The auction is sold, its object is sold and exactly one order completed *)
(* are the same thing.                                                     *)
SoldIffPaid ==
  \A a \in Auctions :
    LET paid == {r \in Ranks : order[a][r].status = "COMPLETED"}
    IN /\ auction[a].status = "SOLD" <=> auction[a].object = "SOLD"
       /\ IF auction[a].status = "SOLD" THEN \E r \in Ranks : paid = {r} ELSE paid = {}

(* The table of increments as the docs and the unit tests give it, in      *)
(* cents; a price is in every tier whose lower bound it has reached, and   *)
(* the highest of these asks the most.                                     *)
Tiers == {[from |-> 0, increment |-> 100], [from |-> 2500, increment |-> 200],
          [from |-> 10000, increment |-> 1000], [from |-> 100000, increment |-> 5000]}

Clears(amount, price) ==
  \A t \in Tiers : price >= t.from => amount >= price + t.increment

(* The winner made the highest bid, every bid cleared the opening price,   *)
(* each also the increment over every lower bid, a bid exactly at a tier's *)
(* bound included, and no owner bid on the own object.                     *)
BidsAreOrdered ==
  \A a \in Auctions :
    /\ bids[a] # {} =>
         [bidder |-> auction[a].winner, amount |-> auction[a].price] \in Highest(bids[a])
    /\ \A b \in bids[a] : b.bidder # Owner[a] /\ b.amount >= auction[a].startingPrice
    /\ \A b, c \in bids[a] :
         b # c => Clears(b.amount, c.amount) \/ Clears(c.amount, b.amount)

(* The second chance goes to somebody else than the defaulted winner and   *)
(* the owner, at that bidder's own best bid.                               *)
SecondChanceIsFair ==
  \A a \in Auctions :
    LET w == order[a][1]  s == order[a][2]
    IN s.status # "NONE" =>
         /\ w.status = "DEFAULTED"
         /\ s.buyer \notin {w.buyer, Owner[a]}
         /\ [bidder |-> s.buyer, amount |-> s.amount] \in bids[a]
         /\ \A b \in bids[a] : b.bidder # w.buyer => b.amount <= s.amount

(* A completed order paid the seller the price and the shipping fee, no    *)
(* more and no less, whatever part of it came from the deposit.            *)
PaidInFull ==
  \A a \in Auctions, r \in Ranks :
    order[a][r].status = "COMPLETED" => order[a][r].paid = TotalDue(order[a][r].amount)

(* No money is made or lost: wallets, locked money and forfeited deposits  *)
(* together are what came in minus what went out.                          *)
MoneyConserved ==
  SumFunction([u \in Users |-> wallet[u].balance + wallet[u].locked]) + forfeited
    = SumFunction(InitialBalance) + inflow

----------------------------------------------------------------------------
(* What a step may never do.                                               *)

(* A sale is final: nothing reopens, cancels or pays a sold auction again. *)
SaleIsFinal ==
  [][\A a \in Auctions : auction[a].status = "SOLD" =>
        /\ auction'[a] = auction[a]
        /\ order'[a] = order[a]
        /\ deposit'[a] = deposit[a]]_vars

(* What a bidder can rely on.  No bid is taken back and no live auction's  *)
(* price falls.  Once somebody has bid, the end never moves closer while   *)
(* the auction is live, and afterwards bids, winner, price and end are     *)
(* frozen.  The closing job ends an auction only when the end has come, as *)
(* it is by then: a bid that the job's query did not see may have moved it.*)
(* (Before the first bid, the later of two overlapping approvals sets the  *)
(* end anew, and the administrator may force an end at any time.)          *)
PriceAndEndOnlyRise ==
  [][\A a \in Auctions :
       /\ bids[a] \subseteq bids'[a]
       /\ auction[a].status = "LIVE" /\ auction'[a].status = "LIVE" =>
            /\ auction'[a].price >= auction[a].price
            /\ bids[a] # {} => auction'[a].endTime >= auction[a].endTime
       /\ bids[a] # {} /\ auction[a].status # "LIVE" =>
            /\ bids'[a] = bids[a]
            /\ auction'[a].price = auction[a].price
            /\ auction'[a].winner = auction[a].winner
            /\ auction'[a].endTime = auction[a].endTime
       /\ a \in listed \ listed' /\ auction'[a] # auction[a]
            => auction[a].endTime <= now]_vars

(* How a held deposit ends: given back when its owner is outbid or the     *)
(* auction is cancelled, used up by the payment of the order, forfeited    *)
(* only when the order was still unpaid at its deadline.                   *)
DepositFate ==
  [][\A a \in Auctions, u \in Users :
       Holds(deposit, a, u) /\ ~Holds(deposit', a, u) =>
         \/ /\ deposit'[a][u] = "RELEASED"
            /\ \/ auction'[a].status = "CANCELLED"
               \/ /\ auction'[a].status = "LIVE"
                  /\ auction'[a].winner # u
                  /\ auction'[a].price > auction[a].price
         \/ /\ deposit'[a][u] = "APPLIED"
            /\ order'[a][1].status = "COMPLETED" /\ order'[a][1].buyer = u
         \/ /\ deposit'[a][u] = "FORFEITED"
            /\ order'[a][1].status = "DEFAULTED"
            /\ order[a][1].deadline <= now]_vars

(* Only a pending auction goes live.                                       *)
OnlyPendingGoesLive ==
  [][\A a \in Auctions :
       auction[a].status # "LIVE" /\ auction'[a].status = "LIVE"
         => auction[a].status = "PENDING_REVIEW"]_vars

----------------------------------------------------------------------------
(* The promise.                                                            *)

(* Whose deposit an auction has at stake, as its rows tell it.             *)
AtStakeOf(a) ==
  IF auction[a].status = "LIVE" THEN auction[a].winner
  ELSE IF order[a][1].status = "AWAITING_PAYMENT" THEN order[a][1].buyer ELSE NoOne

Promise == INSTANCE Escrow
  WITH purse  <- [u \in Users |-> wallet[u].balance],
       holder <- [a \in Auctions |-> AtStakeOf(a)],
       kept   <- forfeited,
       sold   <- {a \in Auctions : auction[a].status = "SOLD"},
       Stake  <- Deposit,
       Sums   <- FundAmounts \cup {TotalDue(x) : x \in BidAmounts}

(* The handlers, with their rows, statuses, locked balances and deadlines, *)
(* do nothing with money that Escrow does not allow.                       *)
KeepsPromise == Promise!Spec

----------------------------------------------------------------------------
(* Liveness, under Fairness.                                               *)

(* No $50 stays locked for ever: every held deposit is eventually given    *)
(* back, used or forfeited.                                                *)
DepositsSettle ==
  \A a \in Auctions, u \in Users : Holds(deposit, a, u) ~> ~Holds(deposit, a, u)

(* Every auction that goes live with a bid comes to an outcome.            *)
AuctionsResolve ==
  \A a \in Auctions :
    auction[a].status \in {"LIVE", "ENDED"} /\ bids[a] # {}
      ~> auction[a].status \in {"SOLD", "UNSOLD", "CANCELLED"}
=============================================================================
