---------------------- MODULE AuctionHouseSafety_proofs ----------------------
(***************************************************************************)
(* The types and the safety invariants of AuctionHouse, for every value of *)
(* its constants.  The inductive invariant has two halves: Rows, about the *)
(* rows of one auction, and the wallets (LockedBacksDeposits, Solvent).    *)
(***************************************************************************)
EXTENDS AuctionHouse, FiniteSums

USE DEF Deposit, ShippingFee

(* What Release and MoveHeld leave of the type of their arguments.         *)
LEMMA DepositTypes ==
  ASSUME NEW w \in [Users -> [balance: Int, locked: Int]],
         NEW d \in [Auctions -> [Users -> DepositStatus]],
         NEW a \in Auctions, NEW S, NEW st \in DepositStatus
  PROVE  /\ Release(w, d, a, S) \in [Users -> [balance: Int, locked: Int]]
         /\ MoveHeld(d, a, S, st) \in [Auctions -> [Users -> DepositStatus]]
  BY DEF Release, MoveHeld, Holds

(* Rows stay rows when some of their columns are written.                  *)
LEMMA AuctionRowTypes ==
  ASSUME NEW row \in AuctionRow, NEW st \in AuctionStatus, NEW n \in Nat
  PROVE  /\ [row EXCEPT !.status = st, !.endTime = n] \in AuctionRow
         /\ [row EXCEPT !.status = st, !.startingPrice = n] \in AuctionRow
  BY DEF AuctionRow

(* An auction row has its fields in their types.                            *)
LEMMA AuctionFields ==
  ASSUME NEW row \in AuctionRow
  PROVE  /\ row.status \in AuctionStatus /\ row.object \in ObjectStatus
         /\ row.startingPrice \in Nat /\ row.price \in Nat
         /\ row.winner \in Users \cup {NoOne} /\ row.endTime \in Nat
  BY DEF AuctionRow

(* An order row has its fields in their types.                              *)
LEMMA OrderFields ==
  ASSUME NEW row \in OrderRow
  PROVE  /\ row.status \in OrderStatus /\ row.buyer \in Users \cup {NoOne}
         /\ row.amount \in Nat /\ row.applied \in Nat /\ row.due \in Nat
  BY DEF OrderRow

(* Writing the two statuses of a row keeps it a row.                        *)
LEMMA WithStatusType ==
  ASSUME auction \in [Auctions -> AuctionRow], NEW a \in Auctions,
         NEW st \in AuctionStatus, NEW ob \in ObjectStatus
  PROVE  WithStatus(a, st, ob) \in [Auctions -> AuctionRow]
  <1>1. [auction[a] EXCEPT !.status = st, !.object = ob] \in AuctionRow
    BY DEF AuctionRow
  <1> QED
    BY <1>1 DEF WithStatus

(* Order rows keep their type, and so does the table.                      *)
LEMMA OrderTypes ==
  ASSUME TypeOK, NEW a \in Auctions
  PROVE  /\ \A u \in Users \cup {NoOne}, x, y, z \in Nat : OpenOrder(u, x, y, z) \in OrderRow
         /\ \A r \in Ranks, st \in OrderStatus : Marked(a, r, st) \in OrderRow
         /\ \A row \in OrderRow, n \in Int : [row EXCEPT !.paid = n] \in OrderRow
  <1>1. \A u \in Users \cup {NoOne}, x, y, z \in Nat : OpenOrder(u, x, y, z) \in OrderRow
    BY TimeAssumption DEF TypeOK, OpenOrder, OrderRow, OrderStatus
  <1>2. ASSUME NEW r \in Ranks, NEW st \in OrderStatus PROVE Marked(a, r, st) \in OrderRow
    <2>1. order[a][r] \in OrderRow
      BY DEF TypeOK
    <2> QED
      BY <2>1 DEF OrderRow, Marked
  <1>3. \A row \in OrderRow, n \in Int : [row EXCEPT !.paid = n] \in OrderRow
    BY DEF OrderRow
  <1> QED
    BY <1>1, <1>2, <1>3

(* Replacing one order keeps the table of orders.                           *)
LEMMA OrderTable ==
  ASSUME NEW f \in [Auctions -> [Ranks -> OrderRow]], NEW a \in Auctions, NEW r \in Ranks,
         NEW row \in OrderRow
  PROVE  [f EXCEPT ![a][r] = row] \in [Auctions -> [Ranks -> OrderRow]]
  OBVIOUS

(* Money operators map amounts to amounts.                                  *)
LEMMA PricingTypes ==
  ASSUME NEW x \in Nat, NEW y \in Nat
  PROVE  /\ TotalDue(x) \in Nat
         /\ WinnerDue(x) \in Nat
         /\ Excess(y, x) \in Nat
         /\ minIncrementFor(x) \in Nat /\ minIncrementFor(x) > 0
  BY DEF TotalDue, WinnerDue, Excess, minIncrementFor

(* The initial tables are well typed.                                       *)
LEMMA TypeInit == Init => TypeOK
  BY UsersAssumption, MoneyAssumption
  DEF Init, TypeOK, AuctionRow, OrderRow, NoAuction, NoOrder, AuctionStatus,
      ObjectStatus, DepositStatus, OrderStatus, Ranks

(* The seller's and the reviewer's handlers write rows.                     *)
LEMMA TypeSeller == TypeOK /\ Seller => TypeOK'
  <1> SUFFICES ASSUME TypeOK, Seller PROVE TypeOK'
    OBVIOUS
  <1> USE DEF TypeOK
  <1>0. ASSUME NEW r \in requests
        PROVE  r.auction \in Auctions /\ r.at \in Nat /\ requests \ {r} \subseteq Request
    BY <1>0 DEF Request
  <1>9. /\ {"LIVE", "REJECTED", "PENDING_REVIEW"} \subseteq AuctionStatus
        /\ auction \in [Auctions -> AuctionRow]
    BY DEF AuctionStatus
  <1>1. ASSUME NEW a \in Auctions, NEW d \in BOOLEAN, NEW p \in StartingPrices, Create(a, d, p)
        PROVE  TypeOK'
    BY <1>1, MoneyAssumption, UsersAssumption DEF Create, NoAuction, AuctionRow, AuctionStatus, ObjectStatus
  <1>2. ASSUME NEW q \in Requests, NEW h \in Handlers, NEW a \in Auctions, Check(q, h, a)
        PROVE  TypeOK'
    BY <1>2 DEF Check, Request, AuctionRow
  <1>3. ASSUME NEW r \in requests, Approve(r) PROVE TypeOK'
    <2>1. r.at + Duration \in Nat
      BY <1>0, TimeAssumption
    <2>2. [auction[r.auction] EXCEPT !.status = "LIVE", !.endTime = r.at + Duration] \in AuctionRow
      BY <1>0, <1>9, <2>1, AuctionRowTypes
    <2> QED
      BY <1>0, <1>3, <2>2 DEF Approve, Writing
  <1>4. ASSUME NEW r \in requests, Reject(r) PROVE TypeOK'
    <2>1. auction' \in [Auctions -> AuctionRow]
      BY <1>0, <1>4, <1>9, AuctionFields, WithStatusType DEF Reject
    <2> QED
      BY <1>0, <1>4, <2>1 DEF Reject, Writing
  <1>5. ASSUME NEW r \in requests, Submit(r) PROVE TypeOK'
    <2>1. auction' \in [Auctions -> AuctionRow]
      BY <1>0, <1>5, <1>9, WithStatusType DEF Submit, ObjectStatus
    <2> QED
      BY <1>0, <1>5, <2>1 DEF Submit, Writing
  <1>6. ASSUME NEW r \in requests, NEW p \in StartingPrices, Update(r, p) PROVE TypeOK'
    <2> DEFINE st == IF r.seen = "REJECTED" THEN "PENDING_REVIEW" ELSE auction[r.auction].status
    <2>1. st \in AuctionStatus /\ p \in Nat /\ auction[r.auction] \in AuctionRow
      BY <1>0, <1>9, AuctionFields, MoneyAssumption
    <2>2. auction' = [auction EXCEPT ![r.auction] =
                        [auction[r.auction] EXCEPT !.status = st, !.startingPrice = p]]
      BY <1>0, <1>6 DEF Update
    <2> HIDE DEF st
    <2>3. [auction[r.auction] EXCEPT !.status = st, !.startingPrice = p] \in AuctionRow
      BY <2>1, AuctionRowTypes
    <2> QED
      BY <1>0, <1>6, <1>9, <2>2, <2>3 DEF Update, Writing
  <1>7. ASSUME NEW r \in requests, Remove(r) PROVE TypeOK'
    <2>1. [NoAuction EXCEPT !.status = "REMOVED"] \in AuctionRow
      BY DEF NoAuction, AuctionRow, AuctionStatus, ObjectStatus
    <2>2. [u \in Users |-> "NONE"] \in [Users -> DepositStatus]
      BY DEF DepositStatus
    <2>3. auction' \in [Auctions -> AuctionRow] /\ UNCHANGED <<now, order, wallet, listed, inflow, forfeited>>
      BY <1>0, <1>7, <2>1 DEF Remove, Writing
    <2>4. bids' \in [Auctions -> SUBSET [bidder: Users, amount: BidAmounts]]
      BY <1>0, <1>7 DEF Remove
    <2>5. deposit' \in [Auctions -> [Users -> DepositStatus]]
      BY <1>0, <1>7, <2>2 DEF Remove
    <2>6. requests' \subseteq Request
      BY <1>7 DEF Remove, Writing
    <2> QED
      BY <2>3, <2>4, <2>5, <2>6
  <1>8. ASSUME NEW r \in requests, Abandon(r) PROVE TypeOK'
    BY <1>8 DEF Abandon
  <1> QED
    BY <1>1, <1>2, <1>3, <1>4, <1>5, <1>6, <1>7, <1>8 DEF Seller

(* Bids, settlement and wallets write rows.                                 *)
LEMMA TypeTrade == TypeOK /\ Trade => TypeOK'
  <1> SUFFICES ASSUME TypeOK, Trade PROVE TypeOK'
    OBVIOUS
  <1>0. /\ auction \in [Auctions -> AuctionRow]
        /\ deposit \in [Auctions -> [Users -> DepositStatus]]
        /\ order \in [Auctions -> [Ranks -> OrderRow]]
        /\ wallet \in [Users -> [balance: Int, locked: Int]]
        /\ {"HELD", "RELEASED", "APPLIED", "FORFEITED"} \subseteq DepositStatus
        /\ {"DEFAULTED", "CANCELLED", "COMPLETED"} \subseteq OrderStatus
        /\ {"ENDED", "SOLD", "UNSOLD", "CANCELLED"} \subseteq AuctionStatus
        /\ {"AVAILABLE", "SOLD"} \subseteq ObjectStatus
        /\ 1 \in Ranks /\ 2 \in Ranks
    BY DEF TypeOK, DepositStatus, OrderStatus, Ranks, AuctionStatus, ObjectStatus
  <1>1. ASSUME NEW a \in Auctions, NEW d \in BOOLEAN, Cancel(a, d) PROVE TypeOK'
    <2>1. /\ wallet' \in [Users -> [balance: Int, locked: Int]]
          /\ deposit' \in [Auctions -> [Users -> DepositStatus]]
      BY <1>0, <1>1, DepositTypes DEF Cancel
    <2>2. order' \in [Auctions -> [Ranks -> OrderRow]]
      <3>1. \A r \in Ranks : Marked(a, r, "CANCELLED") \in OrderRow
        BY <1>0, OrderTypes
      <3> QED
        BY <1>0, <1>1, <3>1 DEF Cancel, CancelOpenOrders
    <2>3. auction' \in [Auctions -> AuctionRow]
      BY <1>0, <1>1, AuctionFields, WithStatusType DEF Cancel, Returned
    <2> QED
      BY <1>1, <2>1, <2>2, <2>3 DEF Cancel, TypeOK
  <1>2. ASSUME NEW u \in Users, NEW a \in Auctions, NEW x \in BidAmounts, Place(u, a, x)
        PROVE  TypeOK'
    <2>1. x \in Nat /\ \A at \in BidClocks : ExtendedEnd(a, at) \in Nat
      BY <1>0, AuctionFields, MoneyAssumption, TimeAssumption DEF ExtendedEnd, BidClocks
    <2>2. /\ Hold(wallet, deposit, a, u) \in [Users -> [balance: Int, locked: Int]]
          /\ [deposit EXCEPT ![a][u] = "HELD"] \in [Auctions -> [Users -> DepositStatus]]
      BY <1>0 DEF Hold
    <2>3. /\ wallet' \in [Users -> [balance: Int, locked: Int]]
          /\ deposit' \in [Auctions -> [Users -> DepositStatus]]
      BY <1>0, <1>2, <2>2, DepositTypes DEF Place
    <2>4. auction' \in [Auctions -> AuctionRow]
      BY <1>0, <1>2, <2>1 DEF Place, AuctionRow
    <2>5. bids' \in [Auctions -> SUBSET [bidder: Users, amount: BidAmounts]]
      BY <1>2, <2>1 DEF Place, TypeOK
    <2> QED
      BY <1>2, <2>3, <2>4, <2>5 DEF Place, TypeOK
  <1>3. ASSUME NEW a \in Auctions, NEW force \in BOOLEAN, CloseOne(a, force),
               listed' \subseteq Auctions
        PROVE  TypeOK'
    <2>1. auction' \in [Auctions -> AuctionRow]
      BY <1>0, <1>3, AuctionFields, WithStatusType DEF CloseOne
    <2>2. order' \in [Auctions -> [Ranks -> OrderRow]]
      <3>1. auction[a].winner \in Users \cup {NoOne} /\ auction[a].price \in Nat
        BY <1>0, AuctionFields
      <3>2. WinnerDue(auction[a].price) \in Nat
        BY <3>1, PricingTypes
      <3>0. Deposit \in Nat
        OBVIOUS
      <3> HIDE DEF Deposit
      <3>3. \A u \in Users \cup {NoOne}, x, z \in Nat : OpenOrder(u, x, Deposit, z) \in OrderRow
        BY <3>0, OrderTypes
      <3>4. OpenOrder(auction[a].winner, auction[a].price, Deposit, WinnerDue(auction[a].price))
              \in OrderRow
        BY <3>1, <3>2, <3>3
      <3>5. CASE auction[a].winner = NoOne
        BY <1>0, <1>3, <3>5 DEF CloseOne
      <3>6. CASE auction[a].winner # NoOne
        <4>1. order' = [order EXCEPT ![a][1] =
                OpenOrder(auction[a].winner, auction[a].price, Deposit,
                          WinnerDue(auction[a].price))]
          BY <1>3, <3>6 DEF CloseOne
        <4> QED
          BY <1>0, <3>4, <4>1, OrderTable
      <3> QED
        BY <3>5, <3>6
    <2> QED
      BY <1>3, <2>1, <2>2 DEF CloseOne, TypeOK
  <1>4. ASSUME NEW a \in Auctions, NEW r \in Ranks, PayOrder(a, r) PROVE TypeOK'
    <2> DEFINE o == order[a][r]
    <2>1. o \in OrderRow /\ o.due \in Nat /\ o.applied \in Nat /\ o.amount \in Nat
      BY <1>0, OrderFields
    <2>2. Excess(o.applied, o.amount) \in Nat
      BY <2>1, PricingTypes
    <2>3. NetPaid(o) \in Int
      BY <2>1, <2>2 DEF NetPaid
    <2>4. Paid(o, Owner[a]) \in [Users -> [balance: Int, locked: Int]]
      <3> HIDE DEF o
      <3> QED
        BY <1>0, <2>1, <2>2, <2>3 DEF Paid
    <2>5. deposit' \in [Auctions -> [Users -> DepositStatus]]
      BY <1>0, <1>4, DepositTypes DEF PayOrder
    <2>6. order' \in [Auctions -> [Ranks -> OrderRow]]
      <3>1. [Marked(a, r, "COMPLETED") EXCEPT !.paid = NetPaid(o)] \in OrderRow
        BY <1>0, <2>3, OrderTypes
      <3> QED
        BY <1>0, <1>4, <3>1, OrderTable DEF PayOrder
    <2>7. auction' \in [Auctions -> AuctionRow]
      BY <1>0, <1>4, WithStatusType DEF PayOrder
    <2> QED
      BY <1>4, <2>4, <2>5, <2>6, <2>7 DEF PayOrder, TypeOK
  <1>5. ASSUME NEW a \in Auctions, ExpireOffer(a) PROVE TypeOK'
    <2>1. order' \in [Auctions -> [Ranks -> OrderRow]]
      BY <1>0, <1>5, OrderTypes, OrderTable DEF ExpireOffer
    <2>2. auction' \in [Auctions -> AuctionRow]
      BY <1>0, <1>5, WithStatusType DEF ExpireOffer
    <2> QED
      BY <1>5, <2>1, <2>2 DEF ExpireOffer, TypeOK
  <1>6. ASSUME NEW a \in Auctions, ExpireWinner(a) PROVE TypeOK'
    <2>1. deposit' \in [Auctions -> [Users -> DepositStatus]]
      BY <1>0, <1>6, DepositTypes DEF ExpireWinner
    <2>2. wallet' \in [Users -> [balance: Int, locked: Int]]
      BY <1>0, <1>6 DEF ExpireWinner, Forfeit
    <2>3. forfeited' \in Nat
      BY <1>6 DEF ExpireWinner, TypeOK
    <2>4. auction' \in [Auctions -> AuctionRow]
      BY <1>0, <1>6, WithStatusType DEF ExpireWinner
    <2>5. order' \in [Auctions -> [Ranks -> OrderRow]]
      <3> DEFINE defaulted == [order EXCEPT ![a][1] = Marked(a, 1, "DEFAULTED")]
      <3>1. defaulted \in [Auctions -> [Ranks -> OrderRow]]
        BY <1>0, OrderTypes, OrderTable
      <3>2. ASSUME NEW b \in bids[a]
            PROVE  OpenOrder(b.bidder, b.amount, 0, TotalDue(b.amount)) \in OrderRow
        <4>0. b \in [bidder: Users, amount: BidAmounts]
          BY DEF TypeOK
        <4>1. b.bidder \in Users /\ b.amount \in Nat
          BY <4>0, MoneyAssumption
        <4>2. TotalDue(b.amount) \in Nat
          BY <4>1, PricingTypes
        <4> QED
          BY <4>1, <4>2, OrderTypes
      <3>3. \/ order' = defaulted
            \/ \E b \in bids[a] : order' = [defaulted EXCEPT ![a][2] =
                  OpenOrder(b.bidder, b.amount, 0, TotalDue(b.amount))]
        BY <1>6 DEF ExpireWinner, Highest, OtherBids
      <3> HIDE DEF defaulted
      <3>4. CASE order' = defaulted
        BY <3>1, <3>4
      <3>5. ASSUME NEW b \in bids[a],
                   order' = [defaulted EXCEPT ![a][2] =
                               OpenOrder(b.bidder, b.amount, 0, TotalDue(b.amount))]
            PROVE  order' \in [Auctions -> [Ranks -> OrderRow]]
        BY <1>0, <3>1, <3>2, <3>5, OrderTable
      <3> QED
        BY <3>3, <3>4, <3>5
    <2> QED
      BY <1>6, <2>1, <2>2, <2>3, <2>4, <2>5 DEF ExpireWinner, TypeOK
  <1>7. ASSUME NEW u \in Users, NEW x \in FundAmounts, TopUp(u, x) \/ Withdraw(u, x) PROVE TypeOK'
    <2>1. x \in Nat
      BY MoneyAssumption
    <2>2. /\ [wallet EXCEPT ![u].balance = @ + x] \in [Users -> [balance: Int, locked: Int]]
          /\ [wallet EXCEPT ![u].balance = @ - x] \in [Users -> [balance: Int, locked: Int]]
      BY <1>0, <2>1
    <2>3. wallet' \in [Users -> [balance: Int, locked: Int]]
      BY <1>7, <2>2 DEF TopUp, Withdraw
    <2>4. inflow' \in Int
      BY <1>7, <2>1 DEF TopUp, Withdraw, TypeOK
    <2> QED
      BY <1>7, <2>3, <2>4 DEF TopUp, Withdraw, TypeOK
  <1> QED
    BY <1>1, <1>2, <1>3, <1>4, <1>5, <1>6, <1>7 DEF Trade, Close, ForceEnd, TypeOK

(* Every step writes rows.                                                  *)
LEMMA TypeNext == TypeOK /\ [Next]_vars => TypeOK'
  <1>1. TypeOK /\ (Tick \/ Listing) => TypeOK'
    BY DEF TypeOK, Tick, Listing, List, Skip
  <1>2. TypeOK /\ UNCHANGED vars => TypeOK'
    BY DEF TypeOK, vars
  <1> QED
    BY <1>1, <1>2, TypeSeller, TypeTrade DEF Next

(* Every row and every wallet keeps its type, whatever the constants.      *)
THEOREM TypeCorrect == Spec => []TypeOK
  BY TypeInit, TypeNext, PTL DEF Spec

HIDE DEF Deposit, ShippingFee

----------------------------------------------------------------------------
(* The inductive invariant.                                                *)

(* The leader made the last bid; without a bid nothing was ever ordered.   *)
Leader(a) ==
  /\ bids[a] = {} <=> auction[a].winner = NoOne
  /\ bids[a] = {} => order[a][1].status = "NONE" /\ order[a][2].status = "NONE"
  /\ bids[a] # {} => /\ auction[a].status \in {"LIVE", "ENDED", "SOLD", "UNSOLD", "CANCELLED"}
                     /\ auction[a].price \in BidAmounts

(* Which orders an auction has in each of its statuses.                    *)
Phase(a) ==
  LET s == auction[a].status  w == order[a][1].status  o == order[a][2].status
  IN /\ s \notin {"ENDED", "SOLD", "UNSOLD", "CANCELLED"} => w = "NONE" /\ o = "NONE"
     /\ s = "ENDED" => \/ w = "AWAITING_PAYMENT" /\ o = "NONE"
                       \/ w = "DEFAULTED" /\ o = "AWAITING_PAYMENT"
     /\ s = "SOLD" => \/ w = "COMPLETED" /\ o = "NONE"
                      \/ w = "DEFAULTED" /\ o = "COMPLETED"
     /\ s \in {"UNSOLD", "CANCELLED"} =>
          /\ w \notin {"AWAITING_PAYMENT", "COMPLETED"}
          /\ o \notin {"AWAITING_PAYMENT", "COMPLETED"}
     /\ auction[a].object = "SOLD" <=> s = "SOLD"

(* What an order that is open, or paid, asks or asked of its buyer.        *)
Claims(a) ==
  /\ order[a][1].status = "AWAITING_PAYMENT" =>
       /\ order[a][1].buyer \in Users
       /\ order[a][1].amount \in BidAmounts
       /\ order[a][1].applied = Deposit
       /\ order[a][1].due = WinnerDue(order[a][1].amount)
  /\ order[a][2].status = "AWAITING_PAYMENT" =>
       /\ order[a][2].buyer \in Users
       /\ order[a][2].amount \in BidAmounts
       /\ order[a][2].applied = 0
       /\ order[a][2].due = TotalDue(order[a][2].amount)
  /\ order[a][1].status = "COMPLETED" => order[a][1].paid = TotalDue(order[a][1].amount)
  /\ order[a][2].status = "COMPLETED" => order[a][2].paid = TotalDue(order[a][2].amount)

(* DepositHolders, for one auction. *)
Holders(a) ==
  \A u \in Users :
    Holds(deposit, a, u) <=>
      \/ auction[a].status = "LIVE" /\ auction[a].winner = u
      \/ order[a][1].status = "AWAITING_PAYMENT" /\ order[a][1].buyer = u

Rows(a) == Leader(a) /\ Phase(a) /\ Claims(a) /\ Holders(a)

(* NoOverdraft, but for the locked balances: those follow.                 *)
Solvent == \A u \in Users : wallet[u].balance >= 0

IInv == /\ TypeOK
        /\ \A a \in Auctions : Rows(a)
        /\ LockedBacksDeposits
        /\ Solvent

----------------------------------------------------------------------------
(* Rows: frame and shapes.                                                 *)

(* The rows of an auction that a step leaves alone stay good.              *)
LEMMA RowsFrame ==
  ASSUME NEW b, Rows(b), auction'[b] = auction[b], order'[b] = order[b],
         bids'[b] = bids[b], deposit'[b] = deposit[b]
  PROVE  Rows(b)'
  BY DEF Rows, Leader, Phase, Claims, Holders, Holds

(* What the rows of an auction without a bid look like ...                 *)
LEMMA RowsUnbid ==
  ASSUME TypeOK, NEW a \in Auctions, Rows(a), bids[a] = {}
  PROVE  /\ auction[a].winner = NoOne /\ auction[a].object # "SOLD"
         /\ auction[a].status \notin {"ENDED", "SOLD"}
         /\ order[a][1].status = "NONE" /\ order[a][2].status = "NONE"
         /\ \A u \in Users : ~Holds(deposit, a, u)
  BY UsersAssumption DEF Rows, Leader, Phase, Holders

(* ... and that nothing more is asked of them.                             *)
LEMMA RowsUnbidNext ==
  ASSUME NEW a \in Auctions, bids'[a] = {},
         auction'[a].winner = NoOne, auction'[a].object # "SOLD",
         auction'[a].status \notin {"ENDED", "SOLD"},
         order'[a][1].status = "NONE", order'[a][2].status = "NONE",
         \A u \in Users : ~Holds(deposit', a, u)
  PROVE  Rows(a)'
  BY UsersAssumption DEF Rows, Leader, Phase, Claims, Holders, Holds

(* What WithStatus writes.                                                 *)
LEMMA WithStatusEffect ==
  ASSUME TypeOK, NEW a \in Auctions, NEW st, NEW ob, auction' = WithStatus(a, st, ob)
  PROVE  /\ auction'[a].status = st /\ auction'[a].object = ob
         /\ auction'[a].winner = auction[a].winner /\ auction'[a].price = auction[a].price
         /\ auction'[a].startingPrice = auction[a].startingPrice
         /\ auction'[a].endTime = auction[a].endTime
         /\ \A b \in Auctions \ {a} : auction'[b] = auction[b]
  BY DEF WithStatus, TypeOK, AuctionRow

(* No rows, no claims.                                                      *)
LEMMA InitRows == Init => \A a \in Auctions : Rows(a)
  BY UsersAssumption DEF Init, NoAuction, NoOrder, Rows, Leader, Phase, Claims, Holders, Holds, Ranks

(* The seller's and the reviewer's handlers keep the rows consistent, as    *)
(* long as a late write finds no bids.                                      *)
LEMMA SellerRows ==
  ASSUME TypeOK, \A a \in Auctions : Rows(a), Seller
  PROVE  \A a \in Auctions : Rows(a)'
  <1>0. ASSUME NEW r \in requests
        PROVE  r.auction \in Auctions
    BY DEF TypeOK, Request
  <1>1. ASSUME NEW a \in Auctions, NEW d \in BOOLEAN, NEW p \in StartingPrices, Create(a, d, p)
        PROVE  \A b \in Auctions : Rows(b)'
    <2>1. bids[a] = {}
      BY <1>1 DEF Create, Rows, Leader
    <2>2. /\ auction'[a].winner = NoOne /\ auction'[a].object # "SOLD"
          /\ auction'[a].status \notin {"ENDED", "SOLD"}
          /\ \A b \in Auctions \ {a} : auction'[b] = auction[b]
      BY <1>1 DEF Create, NoAuction, TypeOK
    <2> QED
      BY <1>1, <2>1, <2>2, RowsUnbid, RowsUnbidNext, RowsFrame DEF Create
  \* a write of an unlocked handler, on a row that has no bid yet
  <1>2. ASSUME NEW r \in requests, NEW h, Writing(r, h), PromptReview(r),
               UNCHANGED <<bids, deposit>>,
               auction'[r.auction].winner = NoOne, auction'[r.auction].object # "SOLD",
               auction'[r.auction].status \notin {"ENDED", "SOLD"},
               \A b \in Auctions \ {r.auction} : auction'[b] = auction[b]
        PROVE  \A b \in Auctions : Rows(b)'
    BY <1>0, <1>2, RowsUnbid, RowsUnbidNext, RowsFrame DEF Writing, PromptReview
  <1>3. ASSUME NEW r \in requests, NEW h, Writing(r, h), PromptReview(r)
        PROVE  /\ auction[r.auction].winner = NoOne /\ auction[r.auction].object # "SOLD"
               /\ auction[r.auction].status \notin {"ENDED", "SOLD"}
               /\ auction[r.auction] \in AuctionRow
    BY <1>0, <1>3, RowsUnbid DEF Writing, PromptReview, TypeOK
  <1>4. ASSUME NEW r \in requests, PromptReview(r), Approve(r) PROVE \A b \in Auctions : Rows(b)'
    <2>1. Writing(r, "approve") /\ UNCHANGED <<bids, deposit>>
      BY <1>4 DEF Approve
    <2>2. /\ auction'[r.auction].winner = auction[r.auction].winner
          /\ auction'[r.auction].object = auction[r.auction].object
          /\ auction'[r.auction].status = "LIVE"
          /\ \A b \in Auctions \ {r.auction} : auction'[b] = auction[b]
      BY <1>0, <1>4 DEF Approve, TypeOK, AuctionRow
    <2> QED
      BY <1>2, <1>3, <1>4, <2>1, <2>2
  <1>5. ASSUME NEW r \in requests, PromptReview(r), Reject(r) PROVE \A b \in Auctions : Rows(b)'
    BY <1>0, <1>2, <1>3, <1>5, WithStatusEffect DEF Reject
  <1>6. ASSUME NEW r \in requests, PromptReview(r), Submit(r) PROVE \A b \in Auctions : Rows(b)'
    BY <1>0, <1>2, <1>3, <1>6, WithStatusEffect DEF Submit
  <1>7. ASSUME NEW r \in requests, NEW p \in StartingPrices, PromptReview(r), Update(r, p)
        PROVE  \A b \in Auctions : Rows(b)'
    <2>1. Writing(r, "update") /\ UNCHANGED <<bids, deposit>>
      BY <1>7 DEF Update
    <2>2. /\ auction'[r.auction].winner = auction[r.auction].winner
          /\ auction'[r.auction].object = auction[r.auction].object
          /\ auction'[r.auction].status \in {"PENDING_REVIEW", auction[r.auction].status}
          /\ \A b \in Auctions \ {r.auction} : auction'[b] = auction[b]
      BY <1>0, <1>7 DEF Update, TypeOK, AuctionRow
    <2> QED
      BY <1>2, <1>3, <1>7, <2>1, <2>2
  <1>8. ASSUME NEW r \in requests, PromptReview(r), Remove(r) PROVE \A b \in Auctions : Rows(b)'
    <2>1. /\ auction'[r.auction].winner = NoOne
          /\ auction'[r.auction].object # "SOLD"
          /\ auction'[r.auction].status = "REMOVED"
          /\ \A b \in Auctions \ {r.auction} : auction'[b] = auction[b]
      BY <1>0, <1>8 DEF Remove, NoAuction, TypeOK
    <2>2. /\ order' = order
          /\ order[r.auction][1].status = "NONE" /\ order[r.auction][2].status = "NONE"
      BY <1>8 DEF Remove, Writing, Ranks
    <2>3. /\ bids'[r.auction] = {} /\ \A u \in Users : ~Holds(deposit', r.auction, u)
          /\ \A b \in Auctions \ {r.auction} : bids'[b] = bids[b] /\ deposit'[b] = deposit[b]
      BY <1>0, <1>8 DEF Remove, Holds, TypeOK
    <2>4. Rows(r.auction)'
      BY <1>0, <2>1, <2>2, <2>3, RowsUnbidNext
    <2> QED
      BY <2>1, <2>2, <2>3, <2>4, RowsFrame
  <1>9. ASSUME UNCHANGED <<auction, order, bids, deposit>> PROVE \A b \in Auctions : Rows(b)'
    BY <1>9, RowsFrame
  <1> QED
    BY <1>1, <1>4, <1>5, <1>6, <1>7, <1>8, <1>9 DEF Seller, Check, Abandon

----------------------------------------------------------------------------
(* Rows: bidding and settlement.                                           *)

(* What OpenOrder and Marked write.                                        *)
LEMMA OrderEffects ==
  ASSUME TypeOK, NEW a \in Auctions
  PROVE  /\ \A u, x, y, z : /\ OpenOrder(u, x, y, z).status = "AWAITING_PAYMENT"
                            /\ OpenOrder(u, x, y, z).buyer = u
                            /\ OpenOrder(u, x, y, z).amount = x
                            /\ OpenOrder(u, x, y, z).applied = y
                            /\ OpenOrder(u, x, y, z).due = z
         /\ \A r \in Ranks : \A st : Marked(a, r, st).status = st
         /\ \A r \in Ranks : \A n :
              /\ [Marked(a, r, "COMPLETED") EXCEPT !.paid = n].status = "COMPLETED"
              /\ [Marked(a, r, "COMPLETED") EXCEPT !.paid = n].paid = n
              /\ [Marked(a, r, "COMPLETED") EXCEPT !.paid = n].amount = order[a][r].amount
  BY DEF OpenOrder, Marked, TypeOK, OrderRow

(* Who has an open order, and where.                                       *)
LEMMA OpenPhase ==
  ASSUME NEW a, Rows(a)
  PROVE  /\ order[a][1].status = "AWAITING_PAYMENT" =>
              auction[a].status = "ENDED" /\ order[a][2].status = "NONE"
         /\ order[a][2].status = "AWAITING_PAYMENT" =>
              auction[a].status = "ENDED" /\ order[a][1].status = "DEFAULTED"
  BY DEF Rows, Phase

(* Whatever the deposit covers, the seller gets the price and the fee.     *)
LEMMA NetPaidIsTotal ==
  ASSUME TypeOK, NEW a \in Auctions, Rows(a), NEW r \in Ranks,
         order[a][r].status = "AWAITING_PAYMENT"
  PROVE  NetPaid(order[a][r]) = TotalDue(order[a][r].amount)
  <1>1. order[a][r].amount \in Nat
    BY OrderFields DEF TypeOK
  <1>2. CASE r = 1
    BY <1>1, <1>2 DEF Rows, Claims, NetPaid, WinnerDue, Excess, TotalDue, Deposit, ShippingFee
  <1>3. CASE r = 2
    BY <1>1, <1>3 DEF Rows, Claims, NetPaid, Excess, TotalDue, Deposit, ShippingFee
  <1> QED
    BY <1>2, <1>3 DEF Ranks

(* cancel leaves no open order and no held deposit behind.                  *)
LEMMA CancelRows ==
  ASSUME TypeOK, \A b \in Auctions : Rows(b), NEW a \in Auctions, NEW d \in BOOLEAN,
         Cancel(a, d)
  PROVE  \A b \in Auctions : Rows(b)'
  <1>1. /\ auction'[a].status = "CANCELLED"
        /\ auction'[a].object = Returned(auction[a].object)
        /\ auction'[a].winner = auction[a].winner /\ auction'[a].price = auction[a].price
        /\ \A b \in Auctions \ {a} : auction'[b] = auction[b]
    BY WithStatusEffect DEF Cancel
  <1>2. auction[a].status \notin {"NONE", "REMOVED", "SOLD"}
    BY DEF Cancel, IsCancellable
  <1>3. auction'[a].object # "SOLD"
    BY <1>1, <1>2 DEF Rows, Phase, Returned
  <1>4. \A b \in Auctions \ {a} :
          order'[b] = order[b] /\ deposit'[b] = deposit[b] /\ bids'[b] = bids[b]
    BY DEF Cancel, CancelOpenOrders, MoveHeld, TypeOK
  <1>5. \A r \in Ranks :
          order'[a][r].status = IF order[a][r].status = "AWAITING_PAYMENT"
                                THEN "CANCELLED" ELSE order[a][r].status
    BY OrderEffects DEF Cancel, CancelOpenOrders, TypeOK
  <1>6. \A u \in Users : ~Holds(deposit', a, u)
    BY DEF Cancel, MoveHeld, Holds, TypeOK
  <1>7. bids'[a] = bids[a]
    BY DEF Cancel
  <1>8. Rows(a)'
    BY <1>1, <1>2, <1>3, <1>5, <1>6, <1>7 DEF Rows, Leader, Phase, Claims, Holders, Holds, Ranks
  <1> QED
    BY <1>1, <1>4, <1>8, RowsFrame

(* place leaves the new leader as the only holder.                          *)
LEMMA PlaceRows ==
  ASSUME TypeOK, \A b \in Auctions : Rows(b), NEW u \in Users, NEW a \in Auctions,
         NEW x \in BidAmounts, Place(u, a, x)
  PROVE  \A b \in Auctions : Rows(b)'
  <1>1. /\ auction'[a].status = "LIVE" /\ auction'[a].object = auction[a].object
        /\ auction'[a].winner = u /\ auction'[a].price = x
        /\ \A b \in Auctions \ {a} : auction'[b] = auction[b]
    BY DEF Place, TypeOK, AuctionRow
  <1>2. /\ auction[a].status = "LIVE" /\ auction[a].winner # u
        /\ order' = order /\ bids'[a] # {}
        /\ \A b \in Auctions \ {a} : bids'[b] = bids[b]
    BY DEF Place, TypeOK
  <1>3. \A b \in Auctions \ {a} : deposit'[b] = deposit[b]
    BY DEF Place, MoveHeld, TypeOK
  <1>4. \A v \in Users : Holds(deposit', a, v) <=> v = u
    <2>1. \A v \in Users : Holds(deposit, a, v) => v = auction[a].winner
      BY <1>2, OpenPhase DEF Rows, Holders
    <2>2. \A v \in Users : deposit'[a][v] =
            IF v = auction[a].winner /\ [deposit EXCEPT ![a][u] = "HELD"][a][v] = "HELD"
            THEN "RELEASED" ELSE [deposit EXCEPT ![a][u] = "HELD"][a][v]
      BY DEF Place, MoveHeld, Holds, Outbid, TypeOK
    <2> QED
      BY <1>2, <2>1, <2>2 DEF Holds, TypeOK
  <1>5. order[a][1].status = "NONE" /\ order[a][2].status = "NONE"
    BY <1>2 DEF Rows, Phase
  <1>6. Rows(a)'
    BY <1>1, <1>2, <1>4, <1>5, UsersAssumption DEF Rows, Leader, Phase, Claims, Holders, Holds
  <1> QED
    BY <1>1, <1>2, <1>3, <1>6, RowsFrame

(* closeOne turns the leader into the buyer of the rank-1 order.            *)
LEMMA CloseRows ==
  ASSUME TypeOK, \A b \in Auctions : Rows(b), NEW a \in Auctions, NEW f \in BOOLEAN,
         CloseOne(a, f)
  PROVE  \A b \in Auctions : Rows(b)'
  <1>0. /\ auction[a].status = "LIVE" /\ bids' = bids /\ deposit' = deposit
        /\ order[a][1].status = "NONE" /\ order[a][2].status = "NONE"
        /\ auction[a].object # "SOLD"
    BY DEF CloseOne, Rows, Phase
  <1>1. CASE auction[a].winner = NoOne
    <2>1. /\ auction'[a].status = "UNSOLD" /\ auction'[a].object = "AVAILABLE"
          /\ auction'[a].winner = NoOne
          /\ \A b \in Auctions \ {a} : auction'[b] = auction[b]
          /\ order' = order
      BY <1>1, WithStatusEffect DEF CloseOne
    <2>2. Rows(a)'
      BY <1>0, <1>1, <2>1, UsersAssumption DEF Rows, Leader, Phase, Claims, Holders, Holds
    <2> QED
      BY <1>0, <2>1, <2>2, RowsFrame
  <1>2. CASE auction[a].winner # NoOne
    <2> DEFINE o == OpenOrder(auction[a].winner, auction[a].price, Deposit,
                              WinnerDue(auction[a].price))
    <2>1. /\ auction'[a].status = "ENDED" /\ auction'[a].object = auction[a].object
          /\ auction'[a].winner = auction[a].winner /\ auction'[a].price = auction[a].price
          /\ \A b \in Auctions \ {a} : auction'[b] = auction[b]
      BY <1>2, WithStatusEffect DEF CloseOne
    <2>2. order' = [order EXCEPT ![a][1] = o]
      BY <1>2 DEF CloseOne
    <2>3. /\ o.status = "AWAITING_PAYMENT" /\ o.buyer = auction[a].winner
          /\ o.amount = auction[a].price /\ o.applied = Deposit
          /\ o.due = WinnerDue(auction[a].price)
      BY OrderEffects
    <2>4. auction[a].winner \in Users
      BY <1>2, AuctionFields DEF TypeOK
    <2> HIDE DEF o
    <2>5. /\ order'[a][1] = o /\ order'[a][2] = order[a][2]
          /\ \A b \in Auctions \ {a} : order'[b] = order[b]
      BY <2>2 DEF TypeOK, Ranks
    <2>6. Rows(a)'
      BY <1>0, <1>2, <2>1, <2>3, <2>4, <2>5 DEF Rows, Leader, Phase, Claims, Holders, Holds
    <2> QED
      BY <1>0, <2>1, <2>5, <2>6, RowsFrame
  <1> QED
    BY <1>1, <1>2

(* payOrder uses the deposit up and pays the seller in full.                *)
LEMMA PayRows ==
  ASSUME TypeOK, \A b \in Auctions : Rows(b), NEW a \in Auctions, NEW r \in Ranks,
         PayOrder(a, r)
  PROVE  \A b \in Auctions : Rows(b)'
  <1> DEFINE o == order[a][r]
             row == [Marked(a, r, "COMPLETED") EXCEPT !.paid = NetPaid(o)]
  <1>1. /\ auction'[a].status = "SOLD" /\ auction'[a].object = "SOLD"
        /\ auction'[a].winner = auction[a].winner /\ auction'[a].price = auction[a].price
        /\ \A b \in Auctions \ {a} : auction'[b] = auction[b]
    BY WithStatusEffect DEF PayOrder
  <1>2. /\ o.status = "AWAITING_PAYMENT" /\ bids' = bids
        /\ order' = [order EXCEPT ![a][r] = row]
        /\ deposit' = IF o.applied > 0 THEN MoveHeld(deposit, a, {o.buyer}, "APPLIED") ELSE deposit
    BY DEF PayOrder, Payable
  <1>3. row.status = "COMPLETED" /\ row.paid = TotalDue(row.amount)
    BY <1>2, OrderEffects, NetPaidIsTotal
  <1>4. o.applied \in Nat
    BY OrderFields DEF TypeOK
  <1> HIDE DEF row
  <1>5. \A b \in Auctions \ {a} : deposit'[b] = deposit[b] /\ order'[b] = order[b]
    BY <1>2 DEF MoveHeld, TypeOK
  <1>6. CASE r = 1
    <2>1. /\ order[a][2].status = "NONE" /\ auction[a].status = "ENDED"
          /\ order[a][1].status = "AWAITING_PAYMENT" /\ o.applied > 0
      BY <1>2, <1>6, OpenPhase DEF Rows, Claims, Deposit
    <2>2. order'[a][1] = row /\ order'[a][2] = order[a][2]
      BY <1>2, <1>6 DEF TypeOK, Ranks
    <2>3. \A u \in Users : ~Holds(deposit', a, u)
      BY <1>2, <1>6, <2>1 DEF MoveHeld, Holds, TypeOK, Rows, Holders
    <2>4. Rows(a)'
      <3>1. Leader(a)'
        BY <1>1, <1>2, <1>3, <2>1, <2>2, <2>3 DEF Rows, Leader
      <3>2. Phase(a)'
        BY <1>1, <1>2, <1>3, <2>1, <2>2, <2>3 DEF Rows, Phase
      <3>3. Claims(a)'
        BY <1>1, <1>2, <1>3, <2>1, <2>2, <2>3 DEF Rows, Claims
      <3>4. Holders(a)'
        BY <1>1, <1>2, <1>3, <2>1, <2>2, <2>3 DEF Rows, Holders, Holds
      <3> QED
        BY <3>1, <3>2, <3>3, <3>4 DEF Rows
    <2> QED
      BY <1>1, <1>2, <1>5, <2>4, RowsFrame
  <1>7. CASE r = 2
    <2>1. /\ order[a][1].status = "DEFAULTED" /\ auction[a].status = "ENDED"
          /\ order[a][2].status = "AWAITING_PAYMENT" /\ o.applied = 0
      BY <1>2, <1>7, OpenPhase DEF Rows, Claims
    <2>2. order'[a][2] = row /\ order'[a][1] = order[a][1] /\ deposit' = deposit
      BY <1>2, <1>7, <2>1 DEF TypeOK, Ranks
    <2>3. Rows(a)'
      BY <1>1, <1>2, <1>3, <2>1, <2>2 DEF Rows, Leader, Phase, Claims, Holders, Holds
    <2> QED
      BY <1>1, <1>2, <1>5, <2>3, RowsFrame
  <1> QED
    BY <1>6, <1>7 DEF Ranks

(* A lapsed offer ends the auction unsold, with nothing held.               *)
LEMMA ExpireOfferRows ==
  ASSUME TypeOK, \A b \in Auctions : Rows(b), NEW a \in Auctions, ExpireOffer(a)
  PROVE  \A b \in Auctions : Rows(b)'
  <1>1. /\ auction'[a].status = "UNSOLD" /\ auction'[a].object = "AVAILABLE"
        /\ auction'[a].winner = auction[a].winner /\ auction'[a].price = auction[a].price
        /\ \A b \in Auctions \ {a} : auction'[b] = auction[b]
    BY WithStatusEffect DEF ExpireOffer
  <1>2. order[a][1].status = "DEFAULTED" /\ auction[a].status = "ENDED"
    BY OpenPhase DEF ExpireOffer, Expirable
  <1>3. /\ order'[a][1] = order[a][1] /\ order'[a][2].status = "CANCELLED"
        /\ \A b \in Auctions \ {a} : order'[b] = order[b]
    BY OrderEffects DEF ExpireOffer, TypeOK, Ranks
  <1>4. bids' = bids /\ deposit' = deposit
    BY DEF ExpireOffer
  <1>5. Rows(a)'
    BY <1>1, <1>2, <1>3, <1>4 DEF Rows, Leader, Phase, Claims, Holders, Holds
  <1> QED
    BY <1>1, <1>3, <1>4, <1>5, RowsFrame

(* A default ends the winner's claim before the offer is made.              *)
LEMMA ExpireWinnerRows ==
  ASSUME TypeOK, \A b \in Auctions : Rows(b), NEW a \in Auctions, ExpireWinner(a)
  PROVE  \A b \in Auctions : Rows(b)'
  <1> DEFINE u == order[a][1].buyer
             defaulted == [order EXCEPT ![a][1] = Marked(a, 1, "DEFAULTED")]
  <1>1. /\ auction[a].status = "ENDED" /\ order[a][2].status = "NONE"
        /\ order[a][1].status = "AWAITING_PAYMENT"
    BY OpenPhase DEF ExpireWinner, Expirable
  <1>2. /\ deposit' = MoveHeld(deposit, a, {u}, "FORFEITED") /\ bids' = bids
    BY DEF ExpireWinner
  <1>3. /\ \A b \in Auctions \ {a} : deposit'[b] = deposit[b]
        /\ \A v \in Users : ~Holds(deposit', a, v)
    BY <1>1, <1>2 DEF MoveHeld, Holds, TypeOK, Rows, Holders
  <1>4. /\ defaulted[a][1].status = "DEFAULTED" /\ defaulted[a][2] = order[a][2]
        /\ \A b \in Auctions \ {a} : defaulted[b] = order[b]
        /\ defaulted \in [Auctions -> [Ranks -> OrderRow]]
    <2>1. Marked(a, 1, "DEFAULTED") \in OrderRow /\ Marked(a, 1, "DEFAULTED").status = "DEFAULTED"
      BY OrderEffects, OrderTypes DEF Ranks, OrderStatus
    <2> QED
      BY <2>1 DEF TypeOK, Ranks
  <1>5. bids[a] # {}
    BY <1>1 DEF Rows, Leader
  <1> HIDE DEF defaulted
  <1>6. CASE order' = defaulted /\ auction' = WithStatus(a, "UNSOLD", "AVAILABLE")
    <2>1. /\ auction'[a].status = "UNSOLD" /\ auction'[a].object = "AVAILABLE"
          /\ auction'[a].winner = auction[a].winner /\ auction'[a].price = auction[a].price
          /\ \A b \in Auctions \ {a} : auction'[b] = auction[b]
      BY <1>6, WithStatusEffect
    <2>2. Rows(a)'
      <3>1. Leader(a)'
        BY <1>1, <1>2, <1>3, <1>4, <1>5, <1>6, <2>1 DEF Rows, Leader
      <3>2. Phase(a)'
        BY <1>1, <1>2, <1>3, <1>4, <1>5, <1>6, <2>1 DEF Rows, Phase
      <3>3. Claims(a)'
        BY <1>1, <1>2, <1>3, <1>4, <1>5, <1>6, <2>1 DEF Rows, Claims
      <3>4. Holders(a)'
        BY <1>1, <1>2, <1>3, <1>4, <1>5, <1>6, <2>1 DEF Rows, Holders, Holds
      <3> QED
        BY <3>1, <3>2, <3>3, <3>4 DEF Rows
    <2> QED
      BY <1>2, <1>3, <1>4, <1>6, <2>1, <2>2, RowsFrame
  <1>7. ASSUME NEW b \in bids[a], auction' = auction,
               order' = [defaulted EXCEPT ![a][2] =
                           OpenOrder(b.bidder, b.amount, 0, TotalDue(b.amount))]
        PROVE  \A c \in Auctions : Rows(c)'
    <2> DEFINE offer == OpenOrder(b.bidder, b.amount, 0, TotalDue(b.amount))
    <2>1. /\ offer.status = "AWAITING_PAYMENT" /\ offer.buyer = b.bidder
          /\ offer.amount = b.amount /\ offer.applied = 0 /\ offer.due = TotalDue(b.amount)
      BY OrderEffects
    <2>2. b.bidder \in Users /\ b.amount \in BidAmounts
      BY DEF TypeOK
    <2>3. order' = [defaulted EXCEPT ![a][2] = offer]
      BY <1>7
    <2> HIDE DEF offer
    <2>4. /\ order'[a][1].status = "DEFAULTED" /\ order'[a][2] = offer
          /\ \A c \in Auctions \ {a} : order'[c] = order[c]
      BY <1>4, <2>3 DEF Ranks
    <2>5. Rows(a)'
      <3>1. Leader(a)'
        BY <1>1, <1>2, <1>3, <1>5, <1>7, <2>1, <2>2, <2>4 DEF Rows, Leader
      <3>2. Phase(a)'
        BY <1>1, <1>2, <1>3, <1>5, <1>7, <2>1, <2>2, <2>4 DEF Rows, Phase
      <3>3. Claims(a)'
        BY <1>1, <1>2, <1>3, <1>5, <1>7, <2>1, <2>2, <2>4 DEF Rows, Claims
      <3>4. Holders(a)'
        BY <1>1, <1>2, <1>3, <1>5, <1>7, <2>1, <2>2, <2>4 DEF Rows, Holders, Holds
      <3> QED
        BY <3>1, <3>2, <3>3, <3>4 DEF Rows
    <2> QED
      BY <1>2, <1>3, <1>7, <2>4, <2>5, RowsFrame
  <1>8. \/ order' = defaulted /\ auction' = WithStatus(a, "UNSOLD", "AVAILABLE")
        \/ \E b \in bids[a] : /\ auction' = auction
                              /\ order' = [defaulted EXCEPT ![a][2] =
                                   OpenOrder(b.bidder, b.amount, 0, TotalDue(b.amount))]
    BY DEF ExpireWinner, Highest, OtherBids, defaulted
  <1> QED
    BY <1>6, <1>7, <1>8

(* Every step keeps the rows of every auction consistent.                   *)
LEMMA RowsNext ==
  ASSUME TypeOK, \A a \in Auctions : Rows(a), [Next]_vars
  PROVE  \A a \in Auctions : Rows(a)'
  <1>1. ASSUME Trade PROVE \A a \in Auctions : Rows(a)'
    <2>1. ASSUME UNCHANGED <<auction, order, bids, deposit>> PROVE \A a \in Auctions : Rows(a)'
      BY <2>1, RowsFrame
    <2> QED
      BY <1>1, <2>1, CancelRows, PlaceRows, CloseRows, PayRows, ExpireOfferRows, ExpireWinnerRows
      DEF Trade, Close, ForceEnd, TopUp, Withdraw
  <1>2. CASE Tick \/ Listing \/ UNCHANGED vars
    BY <1>2, RowsFrame DEF Tick, Listing, List, Skip, vars
  <1> QED
    BY <1>1, <1>2, SellerRows DEF Next

----------------------------------------------------------------------------
(* Wallets.                                                                *)

(* How many deposits are held, as a difference on one auction.             *)
HeldIn(d, a, u) == IF Holds(d, a, u) THEN 1 ELSE 0

(* Counting held deposits: one more after a hold, one fewer after a         *)
(* release.                                                                 *)
LEMMA HeldCount ==
  ASSUME NEW u \in Users, NEW a \in Auctions,
         \A b \in Auctions \ {a} : deposit'[b] = deposit[b]
  PROVE  /\ Cardinality(HeldOn(u)) \in Nat
         /\ Cardinality(HeldOn(u)') =
              Cardinality(HeldOn(u)) - HeldIn(deposit, a, u) + HeldIn(deposit', a, u)
  <1>1. /\ IsFiniteSet(HeldOn(u)) /\ IsFiniteSet(HeldOn(u)')
        /\ Cardinality(HeldOn(u)) \in Nat /\ Cardinality(HeldOn(u)') \in Nat
    <2>1. HeldOn(u) \subseteq Auctions /\ HeldOn(u)' \subseteq Auctions
      BY DEF HeldOn
    <2> QED
      BY <2>1, UsersAssumption, FS_Subset, FS_CardinalityType
  <1>2. CASE ~Holds(deposit, a, u) /\ Holds(deposit', a, u)
    <2>1. HeldOn(u)' = HeldOn(u) \cup {a} /\ a \notin HeldOn(u)
      BY <1>2 DEF HeldOn, Holds
    <2>2. Cardinality(HeldOn(u) \cup {a}) = Cardinality(HeldOn(u)) + 1
      BY <1>1, <2>1, FS_AddElement
    <2> QED
      BY <1>1, <1>2, <2>1, <2>2 DEF HeldIn
  <1>3. CASE Holds(deposit, a, u) /\ ~Holds(deposit', a, u)
    <2>1. HeldOn(u)' = HeldOn(u) \ {a} /\ a \in HeldOn(u)
      BY <1>3 DEF HeldOn, Holds
    <2>2. Cardinality(HeldOn(u) \ {a}) = Cardinality(HeldOn(u)) - 1
      BY <1>1, <2>1, FS_RemoveElement
    <2> QED
      BY <1>1, <1>3, <2>1, <2>2 DEF HeldIn
  <1>4. CASE Holds(deposit, a, u) <=> Holds(deposit', a, u)
    <2>1. HeldOn(u)' = HeldOn(u)
      BY <1>4 DEF HeldOn, Holds
    <2> QED
      BY <1>1, <1>4, <2>1 DEF HeldIn
  <1> QED
    BY <1>2, <1>3, <1>4

(* A step that moves the locked money of every user with the deposits held *)
(* on one auction keeps the two in agreement, and the locked money is      *)
(* never negative.                                                         *)
LEMMA BackedStep ==
  ASSUME TypeOK, LockedBacksDeposits, NEW a \in Auctions,
         \A b \in Auctions \ {a} : deposit'[b] = deposit[b],
         \A u \in Users : wallet'[u].locked =
           wallet[u].locked - Deposit * HeldIn(deposit, a, u) + Deposit * HeldIn(deposit', a, u)
  PROVE  LockedBacksDeposits'
  <1> SUFFICES ASSUME NEW u \in Users
               PROVE  wallet'[u].locked = Deposit * Cardinality(HeldOn(u)')
    BY DEF LockedBacksDeposits, Deposit
  <1>1. wallet[u].locked = Deposit * Cardinality(HeldOn(u))
    BY DEF LockedBacksDeposits
  <1>2. HeldIn(deposit, a, u) \in Int /\ HeldIn(deposit', a, u) \in Int
    BY DEF HeldIn
  <1> QED
    BY <1>1, <1>2, HeldCount DEF Deposit

(* A step that leaves deposits and locked balances alone keeps them in      *)
(* line.                                                                    *)
LEMMA BackedSame ==
  ASSUME LockedBacksDeposits,
         \A a \in Auctions, u \in Users : Holds(deposit', a, u) <=> Holds(deposit, a, u),
         \A u \in Users : wallet'[u].locked = wallet[u].locked
  PROVE  LockedBacksDeposits'
  <1>1. \A u \in Users : HeldOn(u)' = HeldOn(u)
    BY DEF HeldOn, Holds
  <1> QED
    BY <1>1 DEF LockedBacksDeposits, Deposit

(* Locked money is never negative, since it backs deposits.                *)
LEMMA BackedIsNat ==
  ASSUME TypeOK, LockedBacksDeposits
  PROVE  \A u \in Users : wallet[u].locked >= 0
  <1> SUFFICES ASSUME NEW u \in Users PROVE wallet[u].locked >= 0
    OBVIOUS
  <1>1. Cardinality(HeldOn(u)) \in Nat
    <2>1. HeldOn(u) \subseteq Auctions
      BY DEF HeldOn
    <2> QED
      BY <2>1, UsersAssumption, FS_Subset, FS_CardinalityType
  <1> QED
    BY <1>1 DEF LockedBacksDeposits, Deposit

(* The two halves of the wallet invariant, kept by each kind of step.      *)

(* cancel moves the locked balances with the deposits.                      *)
LEMMA CancelWallets ==
  ASSUME IInv, NEW a \in Auctions, NEW d \in BOOLEAN, Cancel(a, d)
  PROVE  LockedBacksDeposits' /\ Solvent'
  <1>1. \A u \in Users :
          /\ wallet'[u].balance = wallet[u].balance + (IF Holds(deposit, a, u) THEN Deposit ELSE 0)
          /\ wallet'[u].locked  = wallet[u].locked - (IF Holds(deposit, a, u) THEN Deposit ELSE 0)
    BY DEF Cancel, Release
  <1>2. /\ \A b \in Auctions \ {a} : deposit'[b] = deposit[b]
        /\ \A u \in Users : ~Holds(deposit', a, u)
    BY DEF IInv, TypeOK, Cancel, MoveHeld, Holds
  <1>3. \A u \in Users : wallet[u].balance \in Int /\ wallet[u].locked \in Int
    BY DEF IInv, TypeOK
  <1>4. \A u \in Users : wallet'[u].locked =
           wallet[u].locked - Deposit * HeldIn(deposit, a, u) + Deposit * HeldIn(deposit', a, u)
    BY <1>1, <1>2, <1>3 DEF HeldIn, Deposit
  <1>5. Solvent'
    BY <1>1, <1>3 DEF IInv, Solvent, Deposit
  <1> QED
    BY <1>2, <1>4, <1>5, BackedStep DEF IInv

(* place moves the locked balances of both bidders with the deposits.       *)
LEMMA PlaceWallets ==
  ASSUME IInv, NEW u \in Users, NEW a \in Auctions, NEW x \in BidAmounts, Place(u, a, x)
  PROVE  LockedBacksDeposits' /\ Solvent'
  <1> DEFINE v == auction[a].winner
             rows == [deposit EXCEPT ![a][u] = "HELD"]
             held == Hold(wallet, deposit, a, u)
  <1>1. /\ u # v /\ CanHold(u, a)
        /\ wallet' = Release(held, rows, a, {v})
        /\ deposit' = MoveHeld(rows, a, {v}, "RELEASED")
    BY DEF Place, Outbid
  <1>2. \A b \in Auctions \ {a} : deposit'[b] = deposit[b]
    BY <1>1 DEF IInv, TypeOK, MoveHeld
  <1>3. \A w \in Users : Holds(rows, a, w) <=> (w = u \/ Holds(deposit, a, w))
    BY DEF IInv, TypeOK, Holds
  <1>4. \A w \in Users : Holds(deposit', a, w) <=> (w # v /\ Holds(rows, a, w))
    BY <1>1 DEF IInv, TypeOK, MoveHeld, Holds
  <1>5. \A w \in Users :
          /\ held[w].balance = wallet[w].balance -
               (IF w = u /\ ~Holds(deposit, a, u) THEN Deposit ELSE 0)
          /\ held[w].locked = wallet[w].locked +
               (IF w = u /\ ~Holds(deposit, a, u) THEN Deposit ELSE 0)
    BY DEF Hold
  <1>6. \A w \in Users :
          /\ wallet'[w].balance = held[w].balance +
               (IF w = v /\ Holds(rows, a, w) THEN Deposit ELSE 0)
          /\ wallet'[w].locked = held[w].locked -
               (IF w = v /\ Holds(rows, a, w) THEN Deposit ELSE 0)
    BY <1>1 DEF Release
  <1>7. \A w \in Users : wallet[w].balance \in Int /\ wallet[w].locked \in Int
    BY DEF IInv, TypeOK
  <1> HIDE DEF rows, held
  <1>8. \A w \in Users : wallet'[w].locked =
           wallet[w].locked - Deposit * HeldIn(deposit, a, w) + Deposit * HeldIn(deposit', a, w)
    <2> SUFFICES ASSUME NEW w \in Users
                 PROVE  wallet'[w].locked =
           wallet[w].locked - Deposit * HeldIn(deposit, a, w) + Deposit * HeldIn(deposit', a, w)
      OBVIOUS
    <2> HIDE DEF v
    <2>1. CASE w = u
      <3>1. wallet'[w].locked = wallet[w].locked + (IF Holds(deposit, a, u) THEN 0 ELSE Deposit)
        <4>1. w # v
          BY <1>1, <2>1
        <4>2. CASE Holds(deposit, a, u)
          BY <1>5, <1>6, <1>7, <2>1, <4>1, <4>2 DEF Deposit
        <4>3. CASE ~Holds(deposit, a, u)
          BY <1>5, <1>6, <1>7, <2>1, <4>1, <4>3 DEF Deposit
        <4> QED
          BY <4>2, <4>3
      <3>2. Holds(deposit', a, u)
        BY <1>1, <1>3, <1>4
      <3> QED
        BY <1>7, <2>1, <3>1, <3>2 DEF HeldIn, Deposit
    <2>2. CASE w # u
      <3>1. wallet'[w].locked = wallet[w].locked -
                  (IF w = v /\ Holds(deposit, a, w) THEN Deposit ELSE 0)
        BY <1>3, <1>5, <1>6, <1>7, <2>2 DEF Deposit
      <3>2. Holds(deposit', a, w) <=> (w # v /\ Holds(deposit, a, w))
        BY <1>3, <1>4, <2>2
      <3> QED
        BY <1>7, <3>1, <3>2 DEF HeldIn, Deposit
    <2> QED
      BY <2>1, <2>2
  <1>9. Solvent'
    <2>1. \A w \in Users : held[w].balance \in Int /\ held[w].balance >= 0
      BY <1>1, <1>5, <1>7 DEF IInv, Solvent, CanHold, Deposit
    <2> QED
      BY <1>6, <2>1 DEF Solvent, Deposit
  <1> QED
    BY <1>2, <1>8, <1>9, BackedStep DEF IInv

(* payOrder unlocks what it applies and overdraws nobody.                   *)
LEMMA PayWallets ==
  ASSUME IInv, NEW a \in Auctions, NEW r \in Ranks, PayOrder(a, r)
  PROVE  LockedBacksDeposits' /\ Solvent'
  <1> DEFINE o == order[a][r]
             back == Excess(o.applied, o.amount)
  <1>1. /\ o.status = "AWAITING_PAYMENT" /\ wallet[o.buyer].balance >= o.due
        /\ wallet' = Paid(o, Owner[a])
        /\ deposit' = IF o.applied > 0 THEN MoveHeld(deposit, a, {o.buyer}, "APPLIED") ELSE deposit
    BY DEF PayOrder, Payable
  <1>2. o.applied \in Nat /\ o.amount \in Nat /\ o.due \in Nat
    BY OrderFields DEF IInv, TypeOK
  <1>3. back \in Nat /\ NetPaid(o) \in Nat
    BY <1>1, <1>2, PricingTypes, NetPaidIsTotal DEF IInv
  <1>4. o.buyer \in Users
    BY <1>1 DEF IInv, Rows, Claims, Ranks
  <1>5. \A u \in Users : wallet[u].balance \in Int /\ wallet[u].locked \in Int
    BY DEF IInv, TypeOK
  <1>6. \A u \in Users :
          /\ wallet'[u].balance = wallet[u].balance + (IF u = o.buyer THEN back - o.due ELSE 0)
                                    + (IF u = Owner[a] THEN NetPaid(o) ELSE 0)
          /\ wallet'[u].locked = wallet[u].locked - (IF u = o.buyer THEN o.applied ELSE 0)
    BY <1>1 DEF Paid
  <1>7. \A b \in Auctions \ {a} : deposit'[b] = deposit[b]
    BY <1>1 DEF IInv, TypeOK, MoveHeld
  <1>8. \A u \in Users :
          /\ Holds(deposit, a, u) <=> u = o.buyer /\ o.applied > 0
          /\ ~Holds(deposit', a, u)
          /\ o.applied > 0 => o.applied = Deposit
    <2>1. CASE r = 1
      <3>1. auction[a].status = "ENDED" /\ o.applied = Deposit
        BY <1>1, <2>1, OpenPhase DEF IInv, Rows, Claims
      <3>2. \A u \in Users : Holds(deposit, a, u) <=> u = o.buyer
        BY <1>1, <2>1, <3>1 DEF IInv, Rows, Holders
      <3>3. deposit' = MoveHeld(deposit, a, {o.buyer}, "APPLIED")
        BY <1>1, <3>1 DEF Deposit
      <3>4. \A u \in Users : ~Holds(deposit', a, u)
        BY <3>2, <3>3 DEF MoveHeld, Holds, IInv, TypeOK
      <3> QED
        BY <3>1, <3>2, <3>4 DEF Deposit
    <2>2. CASE r = 2
      <3>1. auction[a].status = "ENDED" /\ order[a][1].status = "DEFAULTED" /\ o.applied = 0
        BY <1>1, <2>2, OpenPhase DEF IInv, Rows, Claims
      <3>2. \A u \in Users : ~Holds(deposit, a, u)
        BY <3>1 DEF IInv, Rows, Holders
      <3> QED
        BY <1>1, <3>1, <3>2
    <2> QED
      BY <2>1, <2>2 DEF Ranks
  <1> HIDE DEF o, back
  <1>9. \A u \in Users : wallet'[u].locked =
           wallet[u].locked - Deposit * HeldIn(deposit, a, u) + Deposit * HeldIn(deposit', a, u)
    BY <1>2, <1>5, <1>6, <1>8 DEF HeldIn, Deposit
  <1>10. Solvent'
    BY <1>1, <1>2, <1>3, <1>4, <1>5, <1>6 DEF IInv, Solvent
  <1> QED
    BY <1>7, <1>9, <1>10, BackedStep DEF IInv

(* A forfeited deposit leaves the locked balance once.                      *)
LEMMA ExpireWinnerWallets ==
  ASSUME IInv, NEW a \in Auctions, ExpireWinner(a)
  PROVE  LockedBacksDeposits' /\ Solvent'
  <1> DEFINE u == order[a][1].buyer
  <1>1. /\ deposit' = MoveHeld(deposit, a, {u}, "FORFEITED")
        /\ wallet' = Forfeit(a, u)
    BY DEF ExpireWinner
  <1>2. /\ \A b \in Auctions \ {a} : deposit'[b] = deposit[b]
        /\ \A v \in Users : Holds(deposit', a, v) <=> Holds(deposit, a, v) /\ v # u
    BY <1>1 DEF IInv, TypeOK, MoveHeld, Holds
  <1>3. \A v \in Users :
          /\ wallet'[v].balance = wallet[v].balance
          /\ wallet'[v].locked = wallet[v].locked -
               (IF v = u /\ Holds(deposit, a, u) THEN Deposit ELSE 0)
    BY <1>1 DEF Forfeit, IInv, TypeOK, Deposit
  <1>4. \A v \in Users : wallet[v].locked \in Int
    BY DEF IInv, TypeOK
  <1> HIDE DEF u
  <1>5. \A v \in Users : wallet'[v].locked =
           wallet[v].locked - Deposit * HeldIn(deposit, a, v) + Deposit * HeldIn(deposit', a, v)
    BY <1>2, <1>3, <1>4 DEF HeldIn, Deposit
  <1>6. Solvent'
    BY <1>3 DEF IInv, Solvent
  <1> QED
    BY <1>2, <1>5, <1>6, BackedStep DEF IInv

(* Every step keeps locked balances backed and balances non-negative.       *)
LEMMA WalletsNext ==
  ASSUME IInv, [Next]_vars
  PROVE  LockedBacksDeposits' /\ Solvent'
  <1>1. ASSUME UNCHANGED <<wallet, deposit>> PROVE LockedBacksDeposits' /\ Solvent'
    BY <1>1, BackedSame DEF IInv, Solvent, Holds
  <1>2. ASSUME NEW u \in Users, NEW x \in FundAmounts, TopUp(u, x) \/ Withdraw(u, x)
        PROVE  LockedBacksDeposits' /\ Solvent'
    <2>1. x \in Nat /\ wallet \in [Users -> [balance: Int, locked: Int]]
      BY MoneyAssumption DEF IInv, TypeOK
    <2>2. /\ deposit' = deposit
          /\ \A v \in Users : wallet'[v].locked = wallet[v].locked
      BY <1>2, <2>1 DEF TopUp, Withdraw
    <2>3. \A v \in Users : wallet'[v].balance >= 0
      BY <1>2, <2>1 DEF TopUp, Withdraw, IInv, Solvent
    <2> QED
      BY <2>2, <2>3, BackedSame DEF IInv, Solvent, Holds
  <1>3. CASE Seller
    <2>1. ASSUME NEW r \in requests, PromptReview(r), Remove(r)
          PROVE  LockedBacksDeposits' /\ Solvent'
      <3>1. r.auction \in Auctions /\ wallet' = wallet
        BY <2>1 DEF Remove, Writing, IInv, TypeOK, Request
      <3>2. \A u \in Users : ~Holds(deposit, r.auction, u)
        BY <2>1, <3>1, RowsUnbid DEF PromptReview, IInv
      <3>3. \A a \in Auctions, u \in Users : Holds(deposit', a, u) <=> Holds(deposit, a, u)
        BY <2>1, <3>1, <3>2 DEF Remove, Holds, IInv, TypeOK
      <3> QED
        BY <3>1, <3>3, BackedSame DEF IInv, Solvent
    <2> QED
      BY <1>1, <1>3, <2>1 DEF Seller, Create, Check, Approve, Reject, Submit, Update, Abandon, Writing
  <1>4. CASE Trade
    BY <1>1, <1>2, <1>4, CancelWallets, PlaceWallets, PayWallets, ExpireWinnerWallets
    DEF Trade, Close, ForceEnd, CloseOne, ExpireOffer
  <1>5. CASE Tick \/ Listing \/ UNCHANGED vars
    BY <1>1, <1>5 DEF Tick, Listing, List, Skip, vars
  <1> QED
    BY <1>3, <1>4, <1>5 DEF Next

(* Nothing is locked at the start.                                          *)
LEMMA InitWallets == Init => LockedBacksDeposits /\ Solvent
  <1> SUFFICES ASSUME Init, NEW u \in Users
               PROVE  /\ wallet[u].locked = Deposit * Cardinality(HeldOn(u))
                      /\ wallet[u].balance >= 0
    BY DEF LockedBacksDeposits, Solvent
  <1>1. HeldOn(u) = {}
    BY DEF HeldOn, Holds, Init
  <1>2. wallet[u].locked = 0 /\ wallet[u].balance \in Nat
    BY MoneyAssumption DEF Init
  <1> QED
    BY <1>1, <1>2, FS_EmptySet DEF Deposit

----------------------------------------------------------------------------
(* The invariant and what follows from it.                                 *)

(* The invariant holds at the start.                                        *)
LEMMA IInvInit == Init => IInv
  BY TypeInit, InitRows, InitWallets DEF IInv

(* Every step keeps the invariant.                                          *)
LEMMA IInvNext == IInv /\ [Next]_vars => IInv'
  <1> SUFFICES ASSUME IInv, [Next]_vars PROVE IInv'
    OBVIOUS
  <1>1. TypeOK' /\ \A a \in Auctions : Rows(a)'
    BY TypeNext, RowsNext DEF IInv
  <1>2. LockedBacksDeposits' /\ Solvent'
    BY WalletsNext
  <1> QED
    BY <1>1, <1>2 DEF IInv

(* The inductive invariant: rows consistent, locked balances backed by      *)
(* deposits, balances non-negative.  Each safety theorem below is a         *)
(* consequence.                                                             *)
THEOREM Inductive == Spec => []IInv
  BY IInvInit, IInvNext, PTL DEF Spec

(* The locked balance of every user is the deposits the user has held.     *)
THEOREM LockedMoneyIsDeposits == Spec => []LockedBacksDeposits
  BY Inductive, PTL DEF IInv

(* No handler overdraws a wallet, locked or not.                           *)
THEOREM NeverOverdrawn == Spec => []NoOverdraft
  <1>1. IInv => NoOverdraft
    BY BackedIsNat DEF IInv, Solvent, NoOverdraft
  <1> QED
    BY <1>1, Inductive, PTL

(* Only the leader of a live auction and the winner who still has to pay   *)
(* have a deposit held.                                                    *)
THEOREM DepositsHaveHolders == Spec => []DepositHolders
  <1>1. IInv => DepositHolders
    BY DEF IInv, Rows, Holders, DepositHolders
  <1> QED
    BY <1>1, Inductive, PTL

(* Exactly one order is open while an auction waits for its payment, and   *)
(* none at any other time.                                                 *)
THEOREM OneOrderAtATime == Spec => []OneOpenOrder
  <1>1. IInv => OneOpenOrder
    BY DEF IInv, Rows, Phase, OneOpenOrder, Ranks
  <1> QED
    BY <1>1, Inductive, PTL

(* An auction is sold exactly if one of its orders was paid.               *)
THEOREM SoldMeansPaid == Spec => []SoldIffPaid
  <1>1. IInv => SoldIffPaid
    BY DEF IInv, Rows, Phase, SoldIffPaid, Ranks
  <1> QED
    BY <1>1, Inductive, PTL

(* A completed order paid the seller the price and the shipping fee.       *)
THEOREM SellersArePaid == Spec => []PaidInFull
  <1>1. IInv => PaidInFull
    BY DEF IInv, Rows, Claims, PaidInFull, Ranks
  <1> QED
    BY <1>1, Inductive, PTL

----------------------------------------------------------------------------
(* The money.                                                              *)

(* What a user has, locked or not.                                         *)
Total == [u \in Users |-> wallet[u].balance + wallet[u].locked]

LEMMA MoneySums ==
  /\ MoneyConserved <=> SumFunction(Total) + forfeited = SumFunction(InitialBalance) + inflow
  /\ MoneyConserved' <=> SumFunction(Total') + forfeited' = SumFunction(InitialBalance) + inflow'
  BY DEF MoneyConserved, Total

LEMMA TotalType == TypeOK => Total \in [Users -> Int] /\ SumFunction(Total) \in Int
  <1>1. TypeOK => Total \in [Users -> Int]
    BY DEF TypeOK, Total
  <1> QED
    BY <1>1, UsersAssumption, SumType

(* A step that changes what one user has at most, by what came in less     *)
(* what the house kept.                                                    *)
LEMMA MoneyStep ==
  ASSUME TypeOK, TypeOK', MoneyConserved, NEW u \in Users,
         \A v \in Users \ {u} : Total'[v] = Total[v],
         Total'[u] - Total[u] = (inflow' - inflow) - (forfeited' - forfeited)
  PROVE  MoneyConserved'
  <1>1. Total \in [Users -> Int] /\ Total' \in [Users -> Int] /\ SumFunction(Total) \in Int
    BY TotalType DEF TypeOK, Total
  <1>2. SumFunction(Total') = SumFunction(Total) + Total'[u] - Total[u]
    BY <1>1, UsersAssumption, SumChange
  <1>3. /\ inflow \in Int /\ inflow' \in Int /\ forfeited \in Int /\ forfeited' \in Int
        /\ Total[u] \in Int /\ Total'[u] \in Int
    BY <1>1 DEF TypeOK
  <1>4. SumFunction(InitialBalance) \in Int
    <2>1. InitialBalance \in [Users -> Int]
      BY MoneyAssumption
    <2> QED
      BY <2>1, UsersAssumption, SumType
  <1>5. SumFunction(Total) + forfeited = SumFunction(InitialBalance) + inflow
    BY MoneySums
  <1>6. SumFunction(Total') + forfeited' = SumFunction(InitialBalance) + inflow'
    BY <1>1, <1>2, <1>3, <1>4, <1>5
  <1> QED
    BY <1>6, MoneySums

LEMMA MoneySame ==
  ASSUME MoneyConserved, SumFunction(Total') = SumFunction(Total), UNCHANGED <<inflow, forfeited>>
  PROVE  MoneyConserved'
  BY MoneySums

(* Holding and giving back moves money between a user's two balances.      *)
LEMMA HoldKeepsTotal ==
  ASSUME TypeOK, \/ \E a \in Auctions, isAdmin \in BOOLEAN : Cancel(a, isAdmin)
                 \/ \E a \in Auctions, u \in Users, x \in BidAmounts : Place(u, a, x)
  PROVE  Total' = Total
  <1>1. wallet \in [Users -> [balance: Int, locked: Int]] /\ Deposit \in Int
    BY DEF TypeOK, Deposit
  <1>2. ASSUME NEW a \in Auctions, NEW S, NEW d, NEW w \in [Users -> [balance: Int, locked: Int]]
        PROVE  \A u \in Users : LET r == Release(w, d, a, S)[u]
                                IN r.balance + r.locked = w[u].balance + w[u].locked
    BY <1>1, <1>2 DEF Release
  <1>3. ASSUME NEW a \in Auctions, NEW u \in Users
        PROVE  /\ Hold(wallet, deposit, a, u) \in [Users -> [balance: Int, locked: Int]]
               /\ \A v \in Users : LET r == Hold(wallet, deposit, a, u)[v]
                                   IN r.balance + r.locked = wallet[v].balance + wallet[v].locked
    <2>1. ASSUME NEW v \in Users
          PROVE  LET r == Hold(wallet, deposit, a, u)[v]
                 IN r.balance + r.locked = wallet[v].balance + wallet[v].locked
      <3> DEFINE h == IF v = u /\ ~Holds(deposit, a, u) THEN Deposit ELSE 0
      <3>1. h \in Int /\ wallet[v].balance \in Int /\ wallet[v].locked \in Int
        BY <1>1
      <3>2. Hold(wallet, deposit, a, u)[v] = [balance |-> wallet[v].balance - h,
                                              locked  |-> wallet[v].locked + h]
        BY DEF Hold
      <3> HIDE DEF h
      <3> QED
        BY <3>1, <3>2
    <2>2. Hold(wallet, deposit, a, u) \in [Users -> [balance: Int, locked: Int]]
      BY <1>1 DEF Hold
    <2> QED
      BY <2>1, <2>2
  <1>4. ASSUME NEW a \in Auctions, NEW isAdmin \in BOOLEAN, Cancel(a, isAdmin) PROVE Total' = Total
    BY <1>1, <1>2, <1>4 DEF Cancel, Total
  <1>5. ASSUME NEW a \in Auctions, NEW u \in Users, NEW x \in BidAmounts, Place(u, a, x)
        PROVE  Total' = Total
    <2> DEFINE held == Hold(wallet, deposit, a, u)
    <2>1. PICK d : wallet' = Release(held, d, a, Outbid(a))
      BY <1>5 DEF Place
    <2>2. \A v \in Users : wallet'[v].balance + wallet'[v].locked = held[v].balance + held[v].locked
      <3> HIDE DEF held
      <3>1. held \in [Users -> [balance: Int, locked: Int]]
        BY <1>3 DEF held
      <3> QED
        BY <1>2, <2>1, <3>1
    <2> QED
      BY <1>3, <2>2 DEF Total
  <1> QED
    BY <1>4, <1>5

(* A payment takes from the buyer, the locked deposit included, what the   *)
(* owner gets.                                                             *)
LEMMA PaymentKeepsMoney ==
  ASSUME IInv, IInv', MoneyConserved, NEW a \in Auctions, NEW r \in Ranks, PayOrder(a, r)
  PROVE  MoneyConserved'
  <1> DEFINE o == order[a][r]
  <1>1. /\ o.buyer \in Users /\ Owner[a] \in Users
        /\ o.due \in Int /\ o.applied \in Int /\ Excess(o.applied, o.amount) \in Int
        /\ wallet \in [Users -> [balance: Int, locked: Int]]
    <2>1. o \in OrderRow /\ o.status = "AWAITING_PAYMENT"
      BY DEF IInv, TypeOK, PayOrder, Payable
    <2>2. o.buyer \in Users
      BY <2>1 DEF IInv, Rows, Claims, Ranks
    <2>3. Excess(o.applied, o.amount) \in Int /\ o.due \in Int /\ o.applied \in Int
      BY <2>1 DEF OrderRow, Excess, TotalDue, ShippingFee
    <2> QED
      BY <2>2, <2>3, UsersAssumption DEF IInv, TypeOK
  <1> DEFINE n == o.due + o.applied - Excess(o.applied, o.amount)
  <1>2. wallet' = Paid(o, Owner[a])
    BY DEF PayOrder
  <1>3. \A v \in Users : Total'[v] = Total[v] - (IF v = o.buyer THEN n ELSE 0)
                                              + (IF v = Owner[a] THEN n ELSE 0)
    <2> HIDE DEF o
    <2> QED
      BY <1>1, <1>2 DEF Total, Paid, NetPaid
  <1>4. Total \in [Users -> Int] /\ Total' \in [Users -> Int] /\ n \in Int
    BY <1>1, TotalType DEF IInv, TypeOK, Total
  <1>5. SumFunction(Total') = SumFunction(Total)
    <2> DEFINE b == o.buyer
               c == Owner[a]
    <2>1. b \in Users /\ c \in Users /\ IsFiniteSet(Users)
      BY <1>1, UsersAssumption
    <2>2. /\ \A v \in Users \ {b, c} : Total'[v] = Total[v]
          /\ b # c => Total'[b] = Total[b] - n /\ Total'[c] = Total[c] + n
          /\ b = c => Total'[c] = Total[c]
      <3>1. Total[b] \in Int /\ Total[c] \in Int
        BY <1>4, <2>1
      <3> HIDE DEF n
      <3> QED
        BY <1>3, <1>4, <2>1, <3>1
    <2> HIDE DEF o, n, b, c
    <2> QED
      BY <1>4, <2>1, <2>2, SumMove
  <1> QED
    BY <1>5, MoneySame DEF PayOrder

(* A default moves the locked deposit to what the house has kept.          *)
LEMMA DefaultKeepsMoney ==
  ASSUME IInv, IInv', MoneyConserved, NEW a \in Auctions, ExpireWinner(a)
  PROVE  MoneyConserved'
  <1> DEFINE u == order[a][1].buyer
  <1>1. u \in Users
    BY DEF IInv, Rows, Claims, ExpireWinner, Expirable
  <1>2. /\ wallet' = Forfeit(a, u)
        /\ forfeited' = IF Holds(deposit, a, u) THEN forfeited + Deposit ELSE forfeited
        /\ inflow' = inflow
    BY DEF ExpireWinner
  <1>3. wallet \in [Users -> [balance: Int, locked: Int]] /\ forfeited \in Nat /\ inflow \in Int
    BY DEF IInv, TypeOK
  <1>4. \A v \in Users \ {u} : Total'[v] = Total[v]
    <2> HIDE DEF u
    <2> QED
      BY <1>2, <1>3 DEF Total, Forfeit
  <1>5. Total'[u] - Total[u] = (inflow' - inflow) - (forfeited' - forfeited)
    <2> HIDE DEF u
    <2> QED
      BY <1>1, <1>2, <1>3 DEF Total, Forfeit, Deposit
  <1> QED
    <2> HIDE DEF u
    <2> QED
      BY <1>1, <1>4, <1>5, MoneyStep DEF IInv

(* Money enters and leaves by the wallet's other side.                     *)
LEMMA FundingCounts ==
  ASSUME IInv, IInv', MoneyConserved, NEW u \in Users, NEW x \in FundAmounts,
         TopUp(u, x) \/ Withdraw(u, x)
  PROVE  MoneyConserved'
  <1>1. /\ wallet \in [Users -> [balance: Int, locked: Int]]
        /\ inflow \in Int /\ x \in Int /\ forfeited \in Int /\ forfeited' = forfeited
    BY MoneyAssumption DEF IInv, TypeOK, TopUp, Withdraw
  <1>2. /\ \A v \in Users \ {u} : Total'[v] = Total[v]
        /\ Total'[u] - Total[u] = inflow' - inflow
    BY <1>1 DEF TopUp, Withdraw, Total
  <1>3. inflow' \in Int
    BY DEF IInv, TypeOK
  <1> QED
    BY <1>1, <1>2, <1>3, MoneyStep DEF IInv

(* Every step conserves the money.                                         *)
LEMMA MoneyNext == IInv /\ IInv' /\ MoneyConserved /\ [Next]_vars => MoneyConserved'
  <1> SUFFICES ASSUME IInv, IInv', MoneyConserved, [Next]_vars PROVE MoneyConserved'
    OBVIOUS
  <1>1. ASSUME UNCHANGED <<wallet, inflow, forfeited>> PROVE MoneyConserved'
    <2>1. Total' = Total
      BY <1>1 DEF Total
    <2> QED
      BY <1>1, <2>1, MoneySame
  <1>2. CASE Seller
    BY <1>1, <1>2 DEF Seller, Create, Check, Approve, Reject, Submit, Update, Remove, Writing, Abandon
  <1>3. CASE \/ \E a \in Auctions, isAdmin \in BOOLEAN : Cancel(a, isAdmin)
             \/ \E a \in Auctions, u \in Users, x \in BidAmounts : Place(u, a, x)
    <2>1. Total' = Total
      BY <1>3, HoldKeepsTotal DEF IInv
    <2>2. UNCHANGED <<inflow, forfeited>>
      BY <1>3 DEF Cancel, Place
    <2> QED
      BY <2>1, <2>2, MoneySame
  <1>4. CASE \E a \in Auctions : Close(a) \/ ForceEnd(a) \/ ExpireOffer(a)
    BY <1>1, <1>4 DEF Close, ForceEnd, CloseOne, ExpireOffer
  <1>5. CASE Tick \/ Listing \/ UNCHANGED vars
    BY <1>1, <1>5 DEF Tick, Listing, List, Skip, vars
  <1>6. CASE \/ \E a \in Auctions, r \in Ranks : PayOrder(a, r)
             \/ \E a \in Auctions : ExpireWinner(a)
             \/ \E u \in Users, x \in FundAmounts : TopUp(u, x) \/ Withdraw(u, x)
    BY <1>6, PaymentKeepsMoney, DefaultKeepsMoney, FundingCounts
  <1> QED
    BY <1>2, <1>3, <1>4, <1>5, <1>6 DEF Next, Trade

(* At the start the wallets hold the initial balances.                     *)
LEMMA MoneyInit == Init => MoneyConserved
  <1> SUFFICES ASSUME Init PROVE MoneyConserved
    OBVIOUS
  <1>1. Total = InitialBalance
    BY MoneyAssumption DEF Init, Total
  <1>2. SumFunction(InitialBalance) \in Int
    <2>1. InitialBalance \in [Users -> Int]
      BY MoneyAssumption
    <2> QED
      BY <2>1, UsersAssumption, SumType
  <1> QED
    BY <1>1, <1>2, MoneySums DEF Init

(* No handler makes or loses money: all the wallets, locked money          *)
(* included, and what the house has kept are what came in less what went   *)
(* out, for any number of users and auctions.                              *)
THEOREM NoMoneyIsMadeOrLost == Spec => []MoneyConserved
  BY MoneyInit, MoneyNext, Inductive, PTL DEF Spec
=============================================================================
