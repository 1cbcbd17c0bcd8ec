----------------------- MODULE AuctionHouseSteps_proofs -----------------------
(***************************************************************************)
(* What a step of AuctionHouse does, for every value of its constants: the *)
(* action properties, the bids of an auction and what is made of them, and *)
(* the refinement of Escrow, each from the inductive invariant.            *)
(***************************************************************************)
EXTENDS AuctionHouseSafety_proofs

----------------------------------------------------------------------------
(* Whose step it is.                                                       *)

RowsOf(a) == <<auction[a], bids[a], deposit[a], order[a]>>

(* The second database call of an unlocked handler on a. *)
Written(a) ==
  \E r \in requests :
    /\ r.auction = a /\ PromptReview(r)
    /\ \/ Approve(r) \/ Reject(r) \/ Submit(r) \/ Remove(r)
       \/ \E p \in StartingPrices : Update(r, p)

(* The steps that change rows of a. *)
Acts(a) ==
  \/ \E d \in BOOLEAN, p \in StartingPrices : Create(a, d, p)
  \/ Written(a)
  \/ \E isAdmin \in BOOLEAN : Cancel(a, isAdmin)
  \/ \E u \in Users, x \in BidAmounts : Place(u, a, x)
  \/ \E force \in BOOLEAN : CloseOne(a, force)
  \/ \E r \in Ranks : PayOrder(a, r)
  \/ ExpireOffer(a)
  \/ ExpireWinner(a)

(* MoveHeld touches one auction. *)
LEMMA HeldElsewhere ==
  ASSUME TypeOK, NEW a \in Auctions, NEW b \in Auctions, b # a, NEW S, NEW st,
         NEW d, d \in [Auctions -> [Users -> DepositStatus]]
  PROVE  MoveHeld(d, b, S, st)[a] = d[a]
  BY DEF MoveHeld

(* A step changes the rows of one auction at most. *)
LEMMA RowsAreIts ==
  ASSUME TypeOK, [Next]_vars, NEW a \in Auctions
  PROVE  Acts(a) \/ UNCHANGED RowsOf(a)
<1>0. /\ auction \in [Auctions -> AuctionRow] /\ requests \subseteq Request
      /\ order \in [Auctions -> [Ranks -> OrderRow]]
      /\ deposit \in [Auctions -> [Users -> DepositStatus]]
      /\ bids \in [Auctions -> SUBSET [bidder: Users, amount: BidAmounts]]
  BY DEF TypeOK
<1>1. CASE UNCHANGED vars \/ Tick \/ Listing
  BY <1>1 DEF vars, Tick, Listing, List, Skip, RowsOf
<1>2. CASE Seller
  <2>1. ASSUME NEW b \in Auctions, NEW d \in BOOLEAN, NEW p \in StartingPrices, Create(b, d, p)
        PROVE  Acts(a) \/ UNCHANGED RowsOf(a)
    BY <1>0, <2>1 DEF Create, RowsOf, Acts
  <2>2. ASSUME NEW r \in requests, r.auction # a,
               \/ Approve(r) \/ Reject(r) \/ Submit(r) \/ Remove(r)
               \/ \E p \in StartingPrices : Update(r, p)
        PROVE  UNCHANGED RowsOf(a)
    BY <1>0, <2>2 DEF Approve, Reject, Submit, Remove, Update, Writing, WithStatus, RowsOf
  <2>3. CASE \/ \E q \in Requests, h \in Handlers, b \in Auctions : Check(q, h, b)
             \/ \E r \in requests : Abandon(r)
    BY <2>3 DEF Check, Abandon, RowsOf
  <2> QED BY <1>2, <2>1, <2>2, <2>3 DEF Seller, Acts, Written
<1>3. CASE Trade
  <2>1. ASSUME NEW b \in Auctions, b # a, NEW isAdmin \in BOOLEAN, Cancel(b, isAdmin)
        PROVE  UNCHANGED RowsOf(a)
    BY <1>0, <2>1, HeldElsewhere DEF Cancel, CancelOpenOrders, WithStatus, RowsOf
  <2>2. ASSUME NEW b \in Auctions, b # a, NEW u \in Users, NEW x \in BidAmounts, Place(u, b, x)
        PROVE  UNCHANGED RowsOf(a)
    <3>1. PICK d : d = [deposit EXCEPT ![b][u] = "HELD"]
      OBVIOUS
    <3>2. d \in [Auctions -> [Users -> DepositStatus]] /\ d[a] = deposit[a]
      BY <1>0, <2>2, <3>1 DEF DepositStatus
    <3>3. deposit' = MoveHeld(d, b, Outbid(b), "RELEASED")
      BY <2>2, <3>1 DEF Place
    <3>4. deposit'[a] = deposit[a]
      BY <2>2, <3>2, <3>3, HeldElsewhere
    <3> QED BY <1>0, <2>2, <3>4 DEF Place, RowsOf
  <2>3. ASSUME NEW b \in Auctions, b # a, NEW force \in BOOLEAN, CloseOne(b, force)
        PROVE  UNCHANGED RowsOf(a)
    BY <1>0, <2>3 DEF CloseOne, WithStatus, RowsOf
  <2>4. ASSUME NEW b \in Auctions, b # a, NEW r \in Ranks, PayOrder(b, r)
        PROVE  UNCHANGED RowsOf(a)
    BY <1>0, <2>4, HeldElsewhere DEF PayOrder, WithStatus, RowsOf
  <2>5. ASSUME NEW b \in Auctions, b # a, ExpireOffer(b) \/ ExpireWinner(b)
        PROVE  UNCHANGED RowsOf(a)
    BY <1>0, <2>5, HeldElsewhere DEF ExpireOffer, ExpireWinner, WithStatus, RowsOf
  <2>6. ASSUME NEW u \in Users, NEW x \in FundAmounts, TopUp(u, x) \/ Withdraw(u, x)
        PROVE  UNCHANGED RowsOf(a)
    BY <2>6 DEF TopUp, Withdraw, RowsOf
  <2>7. \A b \in Auctions : Close(b) \/ ForceEnd(b) => \E force \in BOOLEAN : CloseOne(b, force)
    BY DEF Close, ForceEnd
  <2> QED BY <1>3, <2>1, <2>2, <2>3, <2>4, <2>5, <2>6, <2>7 DEF Trade, Acts
<1> QED BY <1>1, <1>2, <1>3 DEF Next

(* A late write finds no bid, and leaves none. *)
LEMMA WrittenUnbid ==
  ASSUME IInv, NEW a \in Auctions, Written(a)
  PROVE  /\ bids[a] = {} /\ bids'[a] = {} /\ UNCHANGED order
         /\ \A u \in Users : ~Holds(deposit, a, u)
         /\ auction'[a].price = auction[a].price \/ auction'[a].price = 0
<1>1. PICK r \in requests :
        /\ r.auction = a /\ PromptReview(r)
        /\ \/ Approve(r) \/ Reject(r) \/ Submit(r) \/ Remove(r)
           \/ \E p \in StartingPrices : Update(r, p)
  BY DEF Written
<1>2. bids[a] = {}
  BY <1>1 DEF PromptReview
<1>3. bids \in [Auctions -> SUBSET [bidder: Users, amount: BidAmounts]]
      /\ auction \in [Auctions -> AuctionRow]
  BY DEF IInv, TypeOK
<1>4. bids'[a] = {} /\ UNCHANGED order
  BY <1>1, <1>2, <1>3 DEF Approve, Reject, Submit, Remove, Update, Writing
<1>5. auction'[a].price = auction[a].price \/ auction'[a].price = 0
  <2>1. CASE Approve(r)
    BY <1>1, <1>3, <2>1 DEF Approve, AuctionRow
  <2>2. CASE Reject(r) \/ Submit(r)
    BY <1>1, <2>2, WithStatusEffect DEF Reject, Submit, IInv
  <2>3. ASSUME NEW p \in StartingPrices, Update(r, p)
        PROVE  auction'[a].price = auction[a].price
    <3> DEFINE st == IF r.seen = "REJECTED" THEN "PENDING_REVIEW" ELSE auction[r.auction].status
    <3>1. auction' = [auction EXCEPT ![a] = [auction[a] EXCEPT !.status = st, !.startingPrice = p]]
      BY <1>1, <2>3 DEF Update
    <3> HIDE DEF st
    <3> QED BY <1>3, <3>1 DEF AuctionRow
  <2>4. CASE Remove(r)
    BY <1>1, <1>3, <2>4 DEF Remove, NoAuction
  <2> QED BY <1>1, <2>1, <2>2, <2>3, <2>4
<1>6. \A u \in Users : ~Holds(deposit, a, u)
  BY <1>2, RowsUnbid DEF IInv
<1> QED BY <1>2, <1>4, <1>5, <1>6

----------------------------------------------------------------------------
(* A sold auction: no handler has a step left to take on it.               *)
LEMMA SoldIsInert ==
  ASSUME IInv, NEW a \in Auctions, auction[a].status = "SOLD"
  PROVE  ~Acts(a)
<1>1. /\ Rows(a) /\ TypeOK
  BY DEF IInv
<1>2. bids[a] # {} /\ \A r \in Ranks : order[a][r].status # "AWAITING_PAYMENT"
  BY <1>1 DEF Rows, Leader, Phase, Ranks
<1>3. ~Written(a)
  BY <1>2 DEF Written, PromptReview
<1>4. \A isAdmin \in BOOLEAN : ~Cancel(a, isAdmin)
  BY DEF Cancel, IsCancellable
<1>5. /\ \A d \in BOOLEAN, p \in StartingPrices : ~Create(a, d, p)
      /\ \A u \in Users, x \in BidAmounts : ~Place(u, a, x)
      /\ \A force \in BOOLEAN : ~CloseOne(a, force)
  BY DEF Create, Place, CloseOne
<1>6. /\ \A r \in Ranks : ~PayOrder(a, r)
      /\ ~ExpireOffer(a) /\ ~ExpireWinner(a)
  BY <1>2 DEF PayOrder, Payable, ExpireOffer, ExpireWinner, Expirable, Ranks
<1> QED BY <1>3, <1>4, <1>5, <1>6 DEF Acts

(* Neither cancel nor the timers nor a second payment touch a sold auction.*)
THEOREM SalesAreFinal == Spec => SaleIsFinal
<1>1. IInv /\ [Next]_vars =>
        [\A a \in Auctions : auction[a].status = "SOLD" =>
           /\ auction'[a] = auction[a]
           /\ order'[a] = order[a]
           /\ deposit'[a] = deposit[a]]_vars
  <2>1. ASSUME IInv, [Next]_vars, NEW a \in Auctions, auction[a].status = "SOLD"
        PROVE  UNCHANGED RowsOf(a)
    BY <2>1, RowsAreIts, SoldIsInert DEF IInv
  <2> QED BY <2>1 DEF RowsOf
<1> QED BY <1>1, Inductive, PTL DEF Spec, SaleIsFinal

----------------------------------------------------------------------------
(* How the held deposit of u on a ends, step by step.                      *)

Ends(a, u) ==
  \/ /\ deposit'[a][u] = "RELEASED"
     /\ \/ auction'[a].status = "CANCELLED"
        \/ /\ auction'[a].status = "LIVE"
           /\ auction'[a].winner # u
           /\ auction'[a].price > auction[a].price
  \/ /\ deposit'[a][u] = "APPLIED"
     /\ order'[a][1].status = "COMPLETED" /\ order'[a][1].buyer = u
  \/ /\ deposit'[a][u] = "FORFEITED"
     /\ order'[a][1].status = "DEFAULTED"
     /\ order[a][1].deadline <= now

(* A held deposit that MoveHeld touches gets the new status; no other row  *)
(* changes.                                                                *)
LEMMA HeldMoves ==
  ASSUME NEW a \in Auctions, NEW u \in Users, NEW S, NEW st,
         NEW d, d \in [Auctions -> [Users -> DepositStatus]]
  PROVE  MoveHeld(d, a, S, st)[a][u] = IF u \in S /\ Holds(d, a, u) THEN st ELSE d[a][u]
  BY DEF MoveHeld

(* An accepted bid is higher than the one it outbids, and releases it.     *)
LEMMA PlaceReleases ==
  ASSUME IInv, NEW a \in Auctions, NEW u \in Users, NEW v \in Users, NEW x \in BidAmounts,
         Place(v, a, x), Holds(deposit, a, u), ~Holds(deposit', a, u)
  PROVE  Ends(a, u)
<1> DEFINE rows == [deposit EXCEPT ![a][v] = "HELD"]
<1>1. /\ deposit \in [Auctions -> [Users -> DepositStatus]]
      /\ auction \in [Auctions -> AuctionRow]
  BY DEF IInv, TypeOK
<1>2. /\ rows \in [Auctions -> [Users -> DepositStatus]] /\ rows[a][u] = "HELD"
      /\ deposit' = MoveHeld(rows, a, {auction[a].winner}, "RELEASED")
  BY <1>1 DEF Place, Outbid, DepositStatus, Holds
<1>3. auction'[a].status = "LIVE" /\ auction'[a].winner = v /\ auction'[a].price = x
  BY <1>1 DEF Place, AuctionRow
<1> HIDE DEF rows
<1>4. u = auction[a].winner /\ deposit'[a][u] = "RELEASED"
  BY <1>2, HeldMoves DEF Holds
<1>5. auction[a].price \in Nat /\ x \in Nat
  BY <1>1, AuctionFields, MoneyAssumption
<1>6. x > auction[a].price
  BY <1>4, <1>5, UsersAssumption DEF Place, Floor, minIncrementFor
<1> QED BY <1>3, <1>4, <1>6 DEF Place, Ends

(* Only the winner's order takes a deposit.                                *)
LEMMA PaymentApplies ==
  ASSUME IInv, NEW a \in Auctions, NEW u \in Users, NEW r \in Ranks, PayOrder(a, r),
         Holds(deposit, a, u), ~Holds(deposit', a, u)
  PROVE  Ends(a, u)
<1> DEFINE o == order[a][r]
           row == [Marked(a, r, "COMPLETED") EXCEPT !.paid = NetPaid(o)]
<1>1. /\ deposit \in [Auctions -> [Users -> DepositStatus]]
      /\ order \in [Auctions -> [Ranks -> OrderRow]]
      /\ TypeOK /\ Rows(a)
  BY DEF IInv, TypeOK
<1>2. o.status = "AWAITING_PAYMENT" /\ order' = [order EXCEPT ![a][r] = row]
  BY DEF PayOrder, Payable
<1>3. deposit' = IF o.applied > 0 THEN MoveHeld(deposit, a, {o.buyer}, "APPLIED") ELSE deposit
  BY DEF PayOrder
<1>4. row.status = "COMPLETED" /\ row.buyer = o.buyer
  <2>1. row.status = "COMPLETED"
    BY <1>1, OrderEffects
  <2>2. \A n : [Marked(a, r, "COMPLETED") EXCEPT !.paid = n].buyer = order[a][r].buyer
    BY <1>1 DEF Marked, OrderRow
  <2> QED BY <2>1, <2>2
<1> HIDE DEF row
<1>5. deposit'[a][u] = "APPLIED" /\ u = o.buyer /\ o.applied > 0
  BY <1>1, <1>3, HeldMoves DEF Holds
<1>6. r = 1
  BY <1>1, <1>2, <1>5 DEF Rows, Claims, Ranks
<1>7. order'[a][1] = row
  BY <1>1, <1>2, <1>6
<1> QED BY <1>4, <1>5, <1>6, <1>7 DEF Ends

(* Only an order past its deadline forfeits one.                           *)
LEMMA DefaultForfeits ==
  ASSUME IInv, NEW a \in Auctions, NEW u \in Users, ExpireWinner(a),
         Holds(deposit, a, u), ~Holds(deposit', a, u)
  PROVE  Ends(a, u)
<1>1. /\ deposit \in [Auctions -> [Users -> DepositStatus]]
      /\ order \in [Auctions -> [Ranks -> OrderRow]] /\ TypeOK
  BY DEF IInv, TypeOK
<1>2. deposit'[a][u] = "FORFEITED"
  BY <1>1, HeldMoves DEF ExpireWinner, Holds
<1>3. order'[a][1].status = "DEFAULTED"
  <2> DEFINE row == Marked(a, 1, "DEFAULTED")
             defaulted == [order EXCEPT ![a][1] = row]
  <2>1. row.status = "DEFAULTED"
    BY <1>1, OrderEffects DEF Ranks
  <2>2. order' = defaulted \/ \E x : order' = [defaulted EXCEPT ![a][2] = x]
    BY DEF ExpireWinner
  <2> HIDE DEF row
  <2> QED BY <1>1, <2>1, <2>2 DEF Ranks
<1> QED BY <1>2, <1>3 DEF ExpireWinner, Expirable, Ends

(* The $50 of a bidder never goes anywhere else.                           *)
THEOREM DepositsEndInOneOfThreeWays == Spec => DepositFate
<1>1. ASSUME IInv, [Next]_vars, NEW a \in Auctions, NEW u \in Users,
             Holds(deposit, a, u), ~Holds(deposit', a, u)
      PROVE  Ends(a, u)
  <2>1. Acts(a)
    BY <1>1, RowsAreIts DEF IInv, RowsOf, Holds
  <2>2. ~Written(a)
    BY <1>1, WrittenUnbid
  <2>3. ASSUME NEW isAdmin \in BOOLEAN, Cancel(a, isAdmin) PROVE Ends(a, u)
    <3>1. deposit'[a][u] = "RELEASED"
      BY <1>1, <2>3, HeldMoves DEF IInv, TypeOK, Cancel, Holds
    <3>2. auction'[a].status = "CANCELLED"
      BY <1>1, <2>3, WithStatusEffect DEF IInv, Cancel
    <3> QED BY <3>1, <3>2 DEF Ends
  <2>4. ~ \/ \E d \in BOOLEAN, p \in StartingPrices : Create(a, d, p)
          \/ \E force \in BOOLEAN : CloseOne(a, force)
          \/ ExpireOffer(a)
    BY <1>1 DEF Create, CloseOne, ExpireOffer, Holds
  <2> QED
    BY <1>1, <2>1, <2>2, <2>3, <2>4, PlaceReleases, PaymentApplies, DefaultForfeits DEF Acts
<1>2. IInv /\ [Next]_vars =>
        [\A a \in Auctions, u \in Users :
           Holds(deposit, a, u) /\ ~Holds(deposit', a, u) =>
             \/ /\ deposit'[a][u] = "RELEASED"
                /\ \/ auction'[a].status = "CANCELLED"
                   \/ /\ auction'[a].status = "LIVE"
                      /\ auction'[a].winner # u
                      /\ auction'[a].price > auction[a].price
             \/ /\ deposit'[a][u] = "APPLIED"
                /\ order'[a][1].status = "COMPLETED" /\ order'[a][1].buyer = u
             \/ /\ deposit'[a][u] = "FORFEITED"
                /\ order'[a][1].status = "DEFAULTED"
                /\ order[a][1].deadline <= now]_vars
  BY <1>1 DEF Ends
<1> QED BY <1>2, Inductive, PTL DEF Spec, DepositFate

----------------------------------------------------------------------------
(* The bids of an auction.                                                 *)

(* The increment is positive and a higher price never asks a lower one.    *)
LEMMA IncrementRises ==
  ASSUME NEW p \in Nat, NEW q \in Nat, p <= q
  PROVE  0 < minIncrementFor(p) /\ p + minIncrementFor(p) <= q + minIncrementFor(q)
  BY DEF minIncrementFor

(* What minIncrementFor asks is what the table of tiers asks, whatever the *)
(* price: the first tier found is the highest one reached.                 *)
LEMMA IncrementIsTiered ==
  ASSUME NEW p \in Nat, NEW x \in Nat
  PROVE  x >= p + minIncrementFor(p) <=> Clears(x, p)
<1>1. Clears(x, p) <=>
        /\ p >= 0 => x >= p + 100
        /\ p >= 2500 => x >= p + 200
        /\ p >= 10000 => x >= p + 1000
        /\ p >= 100000 => x >= p + 5000
  BY DEF Clears, Tiers
<1> QED BY <1>1 DEF minIncrementFor

----------------------------------------------------------------------------
(* The bids of an auction: BidsAreOrdered for one auction, and what makes  *)
(* it inductive: the price is the highest bid, and 0 as long as there is   *)
(* none.                                                                   *)
Book(a) ==
  /\ bids[a] = {} => auction[a].price = 0
  /\ bids[a] # {} => [bidder |-> auction[a].winner, amount |-> auction[a].price] \in bids[a]
  /\ \A b \in bids[a] : /\ b.amount <= auction[a].price /\ b.bidder # Owner[a]
                        /\ b.amount >= auction[a].startingPrice
  /\ \A b, c \in bids[a] :
       b # c => \/ b.amount + minIncrementFor(b.amount) <= c.amount
                \/ c.amount + minIncrementFor(c.amount) <= b.amount

Books == \A a \in Auctions : Book(a)

LEMMA BidTypes ==
  ASSUME TypeOK, NEW a \in Auctions
  PROVE  \A b \in bids[a] : b.bidder \in Users /\ b.amount \in Nat /\ b.amount \in BidAmounts
<1>1. bids[a] \subseteq [bidder: Users, amount: BidAmounts]
  BY DEF TypeOK
<1> QED BY <1>1, MoneyAssumption

(* Everything but a bid, a late write and create leaves bids, winner,      *)
(* prices and end alone.                                                   *)
LEMMA SettlementKeepsBids ==
  ASSUME TypeOK, NEW a \in Auctions,
         \/ \E isAdmin \in BOOLEAN : Cancel(a, isAdmin)
         \/ \E force \in BOOLEAN : CloseOne(a, force)
         \/ \E r \in Ranks : PayOrder(a, r)
         \/ ExpireOffer(a) \/ ExpireWinner(a)
  PROVE  /\ bids' = bids
         /\ auction'[a].winner = auction[a].winner
         /\ auction'[a].price = auction[a].price
         /\ auction'[a].startingPrice = auction[a].startingPrice
         /\ auction'[a].endTime = auction[a].endTime
  BY WithStatusEffect DEF Cancel, CloseOne, PayOrder, ExpireOffer, ExpireWinner

(* A bid clears the increment over the price, hence over every lower bid.  *)
LEMMA PlaceBooks ==
  ASSUME IInv, NEW a \in Auctions, Book(a), NEW u \in Users, NEW x \in BidAmounts, Place(u, a, x)
  PROVE  Book(a)'
<1> DEFINE new == [bidder |-> u, amount |-> x]
<1>1. /\ auction[a].price \in Nat /\ auction[a].startingPrice \in Nat /\ x \in Nat
      /\ \A b \in bids[a] : b.amount \in Nat
  BY BidTypes, AuctionFields, MoneyAssumption DEF IInv, TypeOK
<1>2. /\ bids'[a] = bids[a] \cup {new}
      /\ auction'[a].winner = u /\ auction'[a].price = x
      /\ auction'[a].startingPrice = auction[a].startingPrice
  BY DEF Place, IInv, TypeOK, AuctionRow
<1>3. bids[a] # {} => x >= auction[a].price + minIncrementFor(auction[a].price)
  BY DEF Place, Floor, IInv, Rows, Leader
<1>4. \A b \in bids[a] :
        b.amount <= x /\ b.amount + minIncrementFor(b.amount) <= x
  <2> SUFFICES ASSUME NEW b \in bids[a]
               PROVE  b.amount <= x /\ b.amount + minIncrementFor(b.amount) <= x
    OBVIOUS
  <2>1. /\ b.amount <= auction[a].price
        /\ 0 < minIncrementFor(b.amount)
        /\ b.amount + minIncrementFor(b.amount)
             <= auction[a].price + minIncrementFor(auction[a].price)
    BY <1>1, IncrementRises DEF Book
  <2>2. minIncrementFor(b.amount) \in Nat /\ minIncrementFor(auction[a].price) \in Nat
    BY DEF minIncrementFor
  <2>3. x >= auction[a].price + minIncrementFor(auction[a].price)
    BY <1>3
  <2> QED BY <1>1, <2>1, <2>2, <2>3
<1>5. x >= auction[a].startingPrice
  <2>1. CASE bids[a] = {}
    BY <2>1 DEF Place, Floor, IInv, Rows, Leader
  <2>2. CASE bids[a] # {}
    <3>1. auction[a].price >= auction[a].startingPrice
      BY <2>2 DEF Book
    <3> QED BY <1>1, <1>3, <2>2, <3>1 DEF minIncrementFor
  <2> QED BY <2>1, <2>2
<1>6. \A b \in bids'[a] : /\ b.amount <= x /\ b.bidder # Owner[a]
                          /\ b.amount >= auction[a].startingPrice
  BY <1>1, <1>2, <1>4, <1>5 DEF Book, Place
<1>7. \A b, c \in bids'[a] :
        b # c => \/ b.amount + minIncrementFor(b.amount) <= c.amount
                 \/ c.amount + minIncrementFor(c.amount) <= b.amount
  <2>1. new.amount = x
    OBVIOUS
  <2> HIDE DEF new
  <2> QED BY <1>2, <1>4, <2>1 DEF Book
<1> QED BY <1>2, <1>6, <1>7 DEF Book

LEMMA BooksNext == IInv /\ Books /\ [Next]_vars => Books'
<1> SUFFICES ASSUME IInv, Books, [Next]_vars, NEW a \in Auctions
             PROVE  Book(a)'
  BY DEF Books
<1>1. CASE UNCHANGED RowsOf(a)
  BY <1>1 DEF Books, Book, RowsOf
<1>2. CASE Written(a)
  BY <1>2, WrittenUnbid DEF Books, Book
<1>3. ASSUME NEW d \in BOOLEAN, NEW p \in StartingPrices, Create(a, d, p) PROVE Book(a)'
  <2>1. bids'[a] = {}
    BY <1>3 DEF Create, IInv, Rows, Leader
  <2>2. auction'[a].price = 0
    BY <1>3 DEF Create, NoAuction, IInv, TypeOK
  <2> QED BY <2>1, <2>2 DEF Book
<1>4. ASSUME bids' = bids,
             auction'[a].winner = auction[a].winner, auction'[a].price = auction[a].price,
             auction'[a].startingPrice = auction[a].startingPrice
      PROVE  Book(a)'
  BY <1>4 DEF Books, Book
<1>5. Acts(a) \/ UNCHANGED RowsOf(a)
  BY RowsAreIts DEF IInv
<1> QED
  BY <1>1, <1>2, <1>3, <1>4, <1>5, SettlementKeepsBids, PlaceBooks DEF Acts, Books, IInv

LEMMA BooksInit == Init => Books
  BY DEF Init, Books, Book, NoAuction

(* Every bid cleared the opening price and the increment over each lower   *)
(* one, no owner bids, and the winner is the highest bidder.               *)
THEOREM BidsStayOrdered == Spec => []BidsAreOrdered
<1>1. IInv /\ Books => BidsAreOrdered
  <2>1. ASSUME IInv, Books, NEW a \in Auctions, NEW b \in bids[a], NEW c \in bids[a], b # c
        PROVE  Clears(b.amount, c.amount) \/ Clears(c.amount, b.amount)
    <3>1. \/ b.amount + minIncrementFor(b.amount) <= c.amount
          \/ c.amount + minIncrementFor(c.amount) <= b.amount
      BY <2>1 DEF Books, Book
    <3>2. b.amount \in Nat /\ c.amount \in Nat
      BY <2>1, BidTypes DEF IInv
    <3>3. minIncrementFor(b.amount) \in Nat /\ minIncrementFor(c.amount) \in Nat
      BY DEF minIncrementFor
    <3> QED BY <3>1, <3>2, <3>3, IncrementIsTiered
  <2> QED BY <2>1 DEF Books, Book, BidsAreOrdered, Highest
<1> QED BY <1>1, BooksInit, BooksNext, Inductive, PTL DEF Spec

(* A bid only raises the price and only delays the end.                    *)
LEMMA PlaceRaises ==
  ASSUME IInv, NEW a \in Auctions, NEW u \in Users, NEW x \in BidAmounts, Place(u, a, x)
  PROVE  /\ auction[a].status = "LIVE"
         /\ bids[a] \subseteq bids'[a]
         /\ bids[a] # {} => auction'[a].price >= auction[a].price
         /\ auction'[a].endTime >= auction[a].endTime
<1>1. /\ auction[a].price \in Nat /\ x \in Nat /\ auction[a].endTime \in Nat
  BY AuctionFields, MoneyAssumption DEF IInv, TypeOK
<1>2. /\ bids[a] \subseteq bids'[a]
      /\ \E at \in BidClocks : auction'[a].endTime = ExtendedEnd(a, at)
      /\ auction'[a].price = x
  BY DEF Place, IInv, TypeOK, AuctionRow
<1>3. \A at \in BidClocks : ExtendedEnd(a, at) >= auction[a].endTime
  BY <1>1, TimeAssumption DEF ExtendedEnd
<1>4. bids[a] # {} => x >= auction[a].price
  BY <1>1 DEF Place, Floor, IInv, Rows, Leader, minIncrementFor
<1> QED BY <1>2, <1>3, <1>4 DEF Place

(* Whoever takes a off the closing job's list leaves its row alone, or     *)
(* closes it at its end.                                                   *)
LEMMA UnlistedIsDue ==
  ASSUME IInv, [Next]_vars, NEW a \in Auctions,
         a \in listed, a \notin listed', auction'[a] # auction[a]
  PROVE  auction[a].endTime <= now
<1>1. UNCHANGED listed \/ Listing \/ \E b \in Auctions : Close(b)
  BY DEF Next, Seller, Trade, Create, Check, Approve, Reject, Submit, Update, Remove, Writing,
         Abandon, Cancel, Place, ForceEnd, PayOrder, ExpireOffer, ExpireWinner, TopUp,
         Withdraw, Tick, vars
<1>2. ~Listing
  BY DEF Listing, List, Skip
<1>3. PICK b \in Auctions : Close(b)
  BY <1>1, <1>2
<1>4. b = a
  BY <1>3 DEF Close
<1> QED BY <1>3, <1>4 DEF Close, CloseOne, Closable

(* No handler takes a bid back, lowers a price, shortens an auction that   *)
(* people have bid on or touches it afterwards, and the closing job ends   *)
(* none before its end as bids have moved it.                              *)
THEOREM PricesOnlyRise == Spec => PriceAndEndOnlyRise
<1> DEFINE
  Rises(a) ==
    /\ bids[a] \subseteq bids'[a]
    /\ auction[a].status = "LIVE" /\ auction'[a].status = "LIVE" =>
         /\ auction'[a].price >= auction[a].price
         /\ bids[a] # {} => auction'[a].endTime >= auction[a].endTime
    /\ bids[a] # {} /\ auction[a].status # "LIVE" =>
         /\ bids'[a] = bids[a]
         /\ auction'[a].price = auction[a].price
         /\ auction'[a].winner = auction[a].winner
         /\ auction'[a].endTime = auction[a].endTime
<1>1. ASSUME IInv, Books, [Next]_vars, NEW a \in Auctions PROVE Rises(a)
  <2>0. /\ auction[a].price \in Nat /\ auction[a].endTime \in Nat
        /\ auction \in [Auctions -> AuctionRow] /\ TypeOK
        /\ auction[a].status = "NONE" => bids[a] = {}
    BY <1>1, AuctionFields DEF IInv, TypeOK, Rows, Leader
  <2>1. CASE UNCHANGED RowsOf(a)
    BY <2>0, <2>1 DEF RowsOf
  <2>2. CASE Written(a)
    <3>1. bids[a] = {} /\ auction[a].price = 0
      BY <1>1, <2>2, WrittenUnbid DEF Books, Book
    <3> QED BY <1>1, <2>2, <3>1, WrittenUnbid
  <2>3. ASSUME NEW d \in BOOLEAN, NEW p \in StartingPrices, Create(a, d, p) PROVE Rises(a)
    BY <2>0, <2>3 DEF Create
  <2>4. ASSUME NEW u \in Users, NEW x \in BidAmounts, Place(u, a, x) PROVE Rises(a)
    <3>1. auction'[a].price \in Nat
      BY <2>0, <2>4, MoneyAssumption DEF Place, AuctionRow
    <3>2. bids[a] = {} => auction'[a].price >= auction[a].price
      <4>1. Book(a)
        BY <1>1 DEF Books
      <4>2. bids[a] = {} => auction[a].price = 0
        BY <4>1 DEF Book
      <4> QED BY <3>1, <4>2
    <3> QED BY <1>1, <2>4, <3>2, PlaceRaises
  <2>5. CASE \/ \E isAdmin \in BOOLEAN : Cancel(a, isAdmin)
             \/ \E force \in BOOLEAN : CloseOne(a, force)
             \/ \E r \in Ranks : PayOrder(a, r)
             \/ ExpireOffer(a) \/ ExpireWinner(a)
    <3>1. auction'[a].status # "LIVE"
      <4>1. ASSUME NEW isAdmin \in BOOLEAN, Cancel(a, isAdmin) PROVE auction'[a].status # "LIVE"
        BY <2>0, <4>1, WithStatusEffect DEF Cancel
      <4>2. ASSUME NEW force \in BOOLEAN, CloseOne(a, force) PROVE auction'[a].status # "LIVE"
        BY <2>0, <4>2, WithStatusEffect DEF CloseOne
      <4>3. ASSUME NEW r \in Ranks, PayOrder(a, r) PROVE auction'[a].status # "LIVE"
        BY <2>0, <4>3, WithStatusEffect DEF PayOrder
      <4>4. ExpireOffer(a) => auction'[a].status # "LIVE"
        BY <2>0, WithStatusEffect DEF ExpireOffer
      <4>5. ExpireWinner(a) => auction'[a].status # "LIVE"
        <5>1. ExpireWinner(a) => auction[a].status = "ENDED"
          BY <1>1, OpenPhase DEF ExpireWinner, Expirable, IInv
        <5> QED BY <2>0, <5>1, WithStatusEffect DEF ExpireWinner
      <4> QED BY <2>5, <4>1, <4>2, <4>3, <4>4, <4>5
    <3> QED BY <2>0, <2>5, <3>1, SettlementKeepsBids
  <2> HIDE DEF Rises
  <2> QED BY <1>1, <2>0, <2>1, <2>2, <2>3, <2>4, <2>5, RowsAreIts DEF Acts
<1> DEFINE
  Relies(a) ==
    /\ bids[a] \subseteq bids'[a]
    /\ auction[a].status = "LIVE" /\ auction'[a].status = "LIVE" =>
         /\ auction'[a].price >= auction[a].price
         /\ bids[a] # {} => auction'[a].endTime >= auction[a].endTime
    /\ bids[a] # {} /\ auction[a].status # "LIVE" =>
         /\ bids'[a] = bids[a]
         /\ auction'[a].price = auction[a].price
         /\ auction'[a].winner = auction[a].winner
         /\ auction'[a].endTime = auction[a].endTime
    /\ a \in listed \ listed' /\ auction'[a] # auction[a]
         => auction[a].endTime <= now
<1>2. IInv /\ Books /\ [Next]_vars => [\A a \in Auctions : Relies(a)]_vars
  <2>1. ASSUME IInv, Books, [Next]_vars, NEW a \in Auctions PROVE Relies(a)
    BY <1>1, <2>1, UnlistedIsDue
  <2> HIDE DEF Rises, Relies
  <2> QED BY <2>1
<1> QED
  BY <1>2, BooksInit, BooksNext, Inductive, PTL DEF Spec, PriceAndEndOnlyRise

----------------------------------------------------------------------------
(* The second chance offer, for one auction.                               *)
Offer(a) ==
  order[a][2].status # "NONE" =>
    /\ order[a][1].status = "DEFAULTED"
    /\ order[a][2].buyer \notin {order[a][1].buyer, Owner[a]}
    /\ [bidder |-> order[a][2].buyer, amount |-> order[a][2].amount] \in bids[a]
    /\ \A b \in bids[a] : b.bidder # order[a][1].buyer => b.amount <= order[a][2].amount

(* Once made, an offer keeps its buyer and its amount, and the order it    *)
(* replaces stays defaulted: only its own status moves.                    *)
LEMMA OfferKept ==
  ASSUME NEW a \in Auctions, Offer(a), bids'[a] = bids[a],
         order[a][2].status # "NONE" => order'[a][1] = order[a][1],
         order'[a][2].status # "NONE" => order[a][2].status # "NONE",
         order'[a][2].buyer = order[a][2].buyer, order'[a][2].amount = order[a][2].amount
  PROVE  Offer(a)'
  BY DEF Offer

(* A status written to one order row leaves its other fields alone.        *)
LEMMA MarkedKeeps ==
  ASSUME TypeOK, NEW a \in Auctions, NEW r \in Ranks, NEW st
  PROVE  /\ Marked(a, r, st).buyer = order[a][r].buyer
         /\ Marked(a, r, st).amount = order[a][r].amount
         /\ Marked(a, r, st).status = st
         /\ \A n : [Marked(a, r, st) EXCEPT !.paid = n].buyer = order[a][r].buyer
         /\ \A n : [Marked(a, r, st) EXCEPT !.paid = n].amount = order[a][r].amount
  BY DEF Marked, TypeOK, OrderRow

(* The offer goes to the highest of the other bids, at that bid.           *)
LEMMA OfferMade ==
  ASSUME IInv, NEW a \in Auctions, Book(a), Offer(a), ExpireWinner(a)
  PROVE  Offer(a)'
<1> DEFINE u == order[a][1].buyer
           row == Marked(a, 1, "DEFAULTED")
           defaulted == [order EXCEPT ![a][1] = row]
<1>1. TypeOK /\ order \in [Auctions -> [Ranks -> OrderRow]] /\ 1 \in Ranks /\ 2 \in Ranks
  BY DEF IInv, TypeOK, Ranks
<1>2. row.buyer = u /\ row.status = "DEFAULTED" /\ order[a][2].status = "NONE"
      /\ bids' = bids
  BY <1>1, MarkedKeeps, OpenPhase DEF ExpireWinner, Expirable, IInv
<1>3. \/ order' = defaulted
      \/ \E b \in Highest(OtherBids(a, u)) :
           order' = [defaulted EXCEPT ![a][2] = OpenOrder(b.bidder, b.amount, 0, TotalDue(b.amount))]
  BY DEF ExpireWinner
<1> HIDE DEF row, u
<1>4. CASE order' = defaulted
  BY <1>1, <1>2, <1>4 DEF Offer
<1>5. ASSUME NEW b \in Highest(OtherBids(a, u)),
             order' = [defaulted EXCEPT ![a][2] =
                         OpenOrder(b.bidder, b.amount, 0, TotalDue(b.amount))]
      PROVE  Offer(a)'
  <2> DEFINE o == OpenOrder(b.bidder, b.amount, 0, TotalDue(b.amount))
  <2>1. o.buyer = b.bidder /\ o.amount = b.amount
    BY <1>1, OrderEffects
  <2>2. order' = [defaulted EXCEPT ![a][2] = o]
    BY <1>5
  <2> HIDE DEF o
  <2>3. order'[a][1] = row /\ order'[a][2] = o
    BY <1>1, <2>2
  <2>4. /\ b \in bids[a] /\ b.bidder # u /\ b.bidder # Owner[a]
        /\ \A c \in bids[a] : c.bidder # u => c.amount <= b.amount
    BY <1>5 DEF Highest, OtherBids, Book
  <2>5. b = [bidder |-> b.bidder, amount |-> b.amount]
    BY <1>1, <2>4 DEF TypeOK
  <2> QED BY <1>2, <2>1, <2>3, <2>4, <2>5 DEF Offer
<1> QED BY <1>3, <1>4, <1>5

LEMMA OffersNext ==
  ASSUME IInv, Books, [Next]_vars, NEW a \in Auctions, Offer(a)
  PROVE  Offer(a)'
<1>1. /\ TypeOK /\ Rows(a) /\ 1 \in Ranks /\ 2 \in Ranks
      /\ order \in [Auctions -> [Ranks -> OrderRow]]
      /\ bids \in [Auctions -> SUBSET [bidder: Users, amount: BidAmounts]]
  BY DEF IInv, TypeOK, Ranks
<1>2. CASE UNCHANGED RowsOf(a)
  BY <1>2 DEF RowsOf, Offer
<1>3. CASE \/ Written(a) \/ \E d \in BOOLEAN, p \in StartingPrices : Create(a, d, p)
           \/ \E u \in Users, x \in BidAmounts : Place(u, a, x)
  <2>1. UNCHANGED order
    BY <1>3, WrittenUnbid DEF Create, Place
  <2>2. order[a][2].status = "NONE"
    BY <1>1, <1>3, WrittenUnbid, RowsUnbid DEF Create, Place, Rows, Phase
  <2> QED BY <2>1, <2>2 DEF Offer
<1>4. ASSUME NEW isAdmin \in BOOLEAN, Cancel(a, isAdmin) PROVE Offer(a)'
  <2>1. \A r \in Ranks : order'[a][r] = IF order[a][r].status = "AWAITING_PAYMENT"
                                        THEN Marked(a, r, "CANCELLED") ELSE order[a][r]
    BY <1>1, <1>4 DEF Cancel, CancelOpenOrders
  <2>2. /\ order'[a][2].buyer = order[a][2].buyer /\ order'[a][2].amount = order[a][2].amount
        /\ order'[a][2].status # "NONE" => order[a][2].status # "NONE"
    BY <1>1, <2>1, MarkedKeeps
  <2>3. order[a][2].status # "NONE" => order'[a][1] = order[a][1]
    BY <1>1, <2>1 DEF Offer
  <2>4. bids' = bids
    BY <1>4 DEF Cancel
  <2> QED BY <2>2, <2>3, <2>4, OfferKept
<1>5. ASSUME NEW force \in BOOLEAN, CloseOne(a, force) PROVE Offer(a)'
  <2>1. order[a][2].status = "NONE" /\ order'[a][2] = order[a][2]
    BY <1>1, <1>5 DEF CloseOne, Rows, Phase
  <2> QED BY <2>1 DEF Offer
<1>6. ASSUME NEW r \in Ranks, PayOrder(a, r) PROVE Offer(a)'
  <2> DEFINE row == [Marked(a, r, "COMPLETED") EXCEPT !.paid = NetPaid(order[a][r])]
  <2>1. /\ order[a][r].status = "AWAITING_PAYMENT" /\ bids' = bids
        /\ order' = [order EXCEPT ![a][r] = row]
    BY <1>6 DEF PayOrder, Payable
  <2>2. row.buyer = order[a][r].buyer /\ row.amount = order[a][r].amount
    BY <1>1, MarkedKeeps
  <2> HIDE DEF row
  <2>3. CASE r = 1
    <3>1. order[a][2].status = "NONE" /\ order'[a][2] = order[a][2]
      BY <1>1, <2>1, <2>3, OpenPhase
    <3> QED BY <3>1 DEF Offer
  <2>4. CASE r = 2
    <3>1. order'[a][1] = order[a][1] /\ order'[a][2] = row
      BY <1>1, <2>1, <2>4
    <3> QED BY <2>1, <2>2, <2>4, <3>1, OfferKept
  <2> QED BY <2>3, <2>4 DEF Ranks
<1>7. CASE ExpireOffer(a)
  <2> DEFINE row == Marked(a, 2, "CANCELLED")
  <2>1. /\ order[a][2].status = "AWAITING_PAYMENT" /\ bids' = bids
        /\ order' = [order EXCEPT ![a][2] = row]
    BY <1>7 DEF ExpireOffer, Expirable
  <2>2. row.buyer = order[a][2].buyer /\ row.amount = order[a][2].amount
    BY <1>1, MarkedKeeps
  <2> HIDE DEF row
  <2>3. order'[a][1] = order[a][1] /\ order'[a][2] = row
    BY <1>1, <2>1
  <2> QED BY <2>1, <2>2, <2>3, OfferKept
<1>8. CASE ExpireWinner(a)
  BY <1>8, OfferMade DEF Books
<1>9. Acts(a) \/ UNCHANGED RowsOf(a)
  BY <1>1, RowsAreIts
<1> QED BY <1>2, <1>3, <1>4, <1>5, <1>6, <1>7, <1>8, <1>9 DEF Acts

(* The second chance is never the defaulter's or the owner's, and costs    *)
(* what that bidder bid.                                                   *)
THEOREM OffersAreFair == Spec => []SecondChanceIsFair
<1> DEFINE Offers == \A a \in Auctions : Offer(a)
<1>1. Init => Offers
  BY DEF Init, NoOrder, Offer, Ranks
<1>2. IInv /\ Books /\ [Next]_vars /\ Offers => Offers'
  BY OffersNext
<1>3. Offers => SecondChanceIsFair
  BY DEF Offer, SecondChanceIsFair
<1> HIDE DEF Offers
<1> QED BY <1>1, <1>2, <1>3, BooksInit, BooksNext, Inductive, PTL DEF Spec

----------------------------------------------------------------------------
(* AuctionHouse implements Escrow.                                         *)

purse  == [u \in Users |-> wallet[u].balance]
holder == [a \in Auctions |-> AtStakeOf(a)]
sold   == {a \in Auctions : auction[a].status = "SOLD"}

(* Everything Escrow sees. *)
seen == <<purse, holder, forfeited, sold>>

----------------------------------------------------------------------------
(* The rows tell who holds the deposit.                                    *)
LEMMA StakeIsDeposit ==
  ASSUME TypeOK, NEW a \in Auctions, Rows(a)
  PROVE  /\ AtStakeOf(a) \in Users \cup {NoOne}
         /\ \A u \in Users : Holds(deposit, a, u) <=> AtStakeOf(a) = u
         /\ auction[a].status = "SOLD" => AtStakeOf(a) = NoOne
  <1>1. auction[a].winner \in Users \cup {NoOne} /\ order[a][1].buyer \in Users \cup {NoOne}
    BY AuctionFields, OrderFields DEF TypeOK, Ranks
  <1> QED
    BY <1>1, OpenPhase, UsersAssumption DEF AtStakeOf, Rows, Holders, Phase

(* A step on one auction moves the stake of that auction only.             *)
LEMMA StakeMoves ==
  ASSUME NEW a \in Auctions, NEW h, AtStakeOf(a)' = h,
         \A b \in Auctions \ {a} : auction'[b] = auction[b] /\ order'[b] = order[b]
  PROVE  holder' = [holder EXCEPT ![a] = h]
  BY DEF holder, AtStakeOf

(* A step on one unsold auction adds it to the sold ones, or changes        *)
(* none.                                                                    *)
LEMMA SoldMoves ==
  ASSUME NEW a \in Auctions, auction[a].status # "SOLD",
         \A b \in Auctions \ {a} : auction'[b] = auction[b]
  PROVE  /\ a \notin sold
         /\ auction'[a].status = "SOLD" => sold' = sold \cup {a}
         /\ auction'[a].status # "SOLD" => sold' = sold
  BY DEF sold

(* A step that touches no auction, order or wallet row shows Escrow         *)
(* nothing.                                                                 *)
LEMMA SeenSame ==
  ASSUME UNCHANGED <<auction, order, wallet, forfeited>>
  PROVE  UNCHANGED seen
  BY DEF seen, purse, holder, sold, AtStakeOf

----------------------------------------------------------------------------
(* A house without auctions is an initial state of Escrow.                  *)
LEMMA PromiseInit == Init => Promise!Init
  <1> SUFFICES ASSUME Init PROVE Promise!Init
    OBVIOUS
  <1>1. purse \in [Users -> Nat]
    BY MoneyAssumption DEF Init, purse
  <1>2. holder = [a \in Auctions |-> NoOne]
    BY DEF Init, holder, AtStakeOf, NoAuction, NoOrder, Ranks
  <1>3. sold = {}
    BY DEF Init, sold, NoAuction
  <1>4. forfeited = 0
    BY DEF Init
  <1> QED
    BY <1>1, <1>2, <1>3, <1>4 DEF Promise!Init, purse, holder, sold

(* The seller's handlers never touch an auction with a stake, or money.    *)
LEMMA SellerStutters ==
  ASSUME IInv, Seller
  PROVE  UNCHANGED seen
  <1>1. ASSUME NEW a \in Auctions, bids[a] = {}, auction[a].status # "SOLD",
               auction'[a].winner = NoOne, auction'[a].status # "SOLD",
               \A b \in Auctions \ {a} : auction'[b] = auction[b],
               UNCHANGED <<order, wallet, forfeited>>
        PROVE  UNCHANGED seen
    <2>1. AtStakeOf(a) = NoOne /\ AtStakeOf(a)' = NoOne
      BY <1>1, RowsUnbid DEF AtStakeOf, IInv
    <2>2. holder' = holder /\ sold' = sold
      BY <1>1, <2>1, SoldMoves DEF holder, AtStakeOf
    <2> QED
      BY <1>1, <2>2 DEF seen, purse
  <1>0. ASSUME NEW r \in requests PROVE r.auction \in Auctions
    BY DEF IInv, TypeOK, Request
  <1>2. ASSUME NEW a \in Auctions, NEW d \in BOOLEAN, NEW p \in StartingPrices, Create(a, d, p)
        PROVE  UNCHANGED seen
    <2>1. bids[a] = {} /\ auction[a].status # "SOLD" /\ UNCHANGED <<order, wallet, forfeited>>
      BY <1>2 DEF Create, IInv, Rows, Leader
    <2>2. /\ auction'[a].winner = NoOne /\ auction'[a].status # "SOLD"
          /\ \A b \in Auctions \ {a} : auction'[b] = auction[b]
      BY <1>2 DEF Create, NoAuction, IInv, TypeOK
    <2> QED
      BY <1>1, <2>1, <2>2
  <1>3. ASSUME NEW r \in requests, NEW h, Writing(r, h), PromptReview(r)
        PROVE  /\ bids[r.auction] = {} /\ auction[r.auction].status # "SOLD"
               /\ auction[r.auction].winner = NoOne
               /\ UNCHANGED <<order, wallet, forfeited>>
    BY <1>0, <1>3, RowsUnbid DEF Writing, PromptReview, IInv
  <1>4. ASSUME NEW r \in requests, PromptReview(r), Approve(r) PROVE UNCHANGED seen
    <2>1. /\ auction'[r.auction].winner = auction[r.auction].winner
          /\ auction'[r.auction].status = "LIVE"
          /\ \A b \in Auctions \ {r.auction} : auction'[b] = auction[b]
      BY <1>0, <1>4 DEF Approve, IInv, TypeOK, AuctionRow
    <2> QED
      BY <1>0, <1>1, <1>3, <1>4, <2>1 DEF Approve
  <1>5. ASSUME NEW r \in requests, PromptReview(r), Reject(r) PROVE UNCHANGED seen
    BY <1>0, <1>1, <1>3, <1>5, WithStatusEffect DEF Reject, IInv
  <1>6. ASSUME NEW r \in requests, PromptReview(r), Submit(r) PROVE UNCHANGED seen
    BY <1>0, <1>1, <1>3, <1>6, WithStatusEffect DEF Submit, IInv
  <1>7. ASSUME NEW r \in requests, NEW p \in StartingPrices, PromptReview(r), Update(r, p)
        PROVE  UNCHANGED seen
    <2>1. /\ auction'[r.auction].winner = auction[r.auction].winner
          /\ auction'[r.auction].status \in {"PENDING_REVIEW", auction[r.auction].status}
          /\ \A b \in Auctions \ {r.auction} : auction'[b] = auction[b]
      BY <1>0, <1>7 DEF Update, IInv, TypeOK, AuctionRow
    <2> QED
      BY <1>0, <1>1, <1>3, <1>7, <2>1 DEF Update
  <1>8. ASSUME NEW r \in requests, PromptReview(r), Remove(r) PROVE UNCHANGED seen
    <2>1. /\ auction'[r.auction].winner = NoOne
          /\ auction'[r.auction].status = "REMOVED"
          /\ \A b \in Auctions \ {r.auction} : auction'[b] = auction[b]
      BY <1>0, <1>8 DEF Remove, NoAuction, IInv, TypeOK
    <2> QED
      BY <1>0, <1>1, <1>3, <1>8, <2>1 DEF Remove
  <1> QED
    BY <1>2, <1>4, <1>5, <1>6, <1>7, <1>8, SeenSame DEF Seller, Check, Abandon

----------------------------------------------------------------------------
(* cancel gives the stake back to whoever held it.                          *)
LEMMA CancelGivesBack ==
  ASSUME IInv, NEW a \in Auctions, NEW d \in BOOLEAN, Cancel(a, d)
  PROVE  Promise!GiveBack(a)
  <1>1. /\ auction[a].status # "SOLD" /\ auction'[a].status = "CANCELLED"
        /\ \A b \in Auctions \ {a} : auction'[b] = auction[b] /\ order'[b] = order[b]
    BY WithStatusEffect DEF Cancel, IsCancellable, CancelOpenOrders, IInv, TypeOK
  <1>2. order'[a][1].status # "AWAITING_PAYMENT"
    BY OrderEffects DEF Cancel, CancelOpenOrders, IInv, TypeOK, Ranks
  <1>3. holder' = [holder EXCEPT ![a] = NoOne]
    BY <1>1, <1>2, StakeMoves DEF AtStakeOf
  <1>4. purse' = [v \in Users |-> purse[v] + (IF holder[a] = v THEN Deposit ELSE 0)]
    BY StakeIsDeposit DEF Cancel, Release, purse, holder, IInv
  <1>5. a \notin sold /\ sold' = sold /\ forfeited' = forfeited
    BY <1>1, SoldMoves DEF Cancel
  <1> QED
    BY <1>3, <1>4, <1>5 DEF Promise!GiveBack, Promise!AtStake, purse, holder, sold

(* place pledges the deposit of the bidder and frees the one outbid.        *)
LEMMA PlacePledges ==
  ASSUME IInv, NEW u \in Users, NEW a \in Auctions, NEW x \in BidAmounts, Place(u, a, x)
  PROVE  Promise!Pledge(a, u)
  <1> DEFINE v == auction[a].winner
             rows == [deposit EXCEPT ![a][u] = "HELD"]
             held == Hold(wallet, deposit, a, u)
  <1>1. /\ u # v /\ CanHold(u, a) /\ auction[a].status = "LIVE"
        /\ wallet' = Release(held, rows, a, {v}) /\ order' = order /\ forfeited' = forfeited
    BY DEF Place, Outbid
  <1>2. /\ auction'[a].status = "LIVE" /\ auction'[a].winner = u
        /\ \A b \in Auctions \ {a} : auction'[b] = auction[b]
    BY DEF Place, IInv, TypeOK, AuctionRow
  <1>3. holder[a] = v /\ \A w \in Users : Holds(deposit, a, w) <=> w = v
    BY <1>1, StakeIsDeposit DEF IInv, holder, AtStakeOf
  <1>4. holder' = [holder EXCEPT ![a] = u]
    BY <1>1, <1>2, StakeMoves DEF AtStakeOf
  <1>5. \A w \in Users : Holds(rows, a, w) <=> (w = u \/ w = v)
    BY <1>3 DEF IInv, TypeOK, Holds
  <1>6. \A w \in Users : held[w].balance = wallet[w].balance - (IF w = u THEN Deposit ELSE 0)
    BY <1>1, <1>3 DEF Hold
  <1>7. \A w \in Users : wallet'[w].balance = held[w].balance + (IF w = v THEN Deposit ELSE 0)
    BY <1>1, <1>5 DEF Release
  <1>8. \A w \in Users : wallet[w].balance \in Int
    BY DEF IInv, TypeOK
  <1> HIDE DEF rows, held
  <1>9. purse' = [w \in Users |-> purse[w] + (IF holder[a] = w THEN Deposit ELSE 0)
                                   - (IF w = u THEN Deposit ELSE 0)]
    <2>1. \A w \in Users : wallet'[w].balance = wallet[w].balance
             + (IF holder[a] = w THEN Deposit ELSE 0) - (IF w = u THEN Deposit ELSE 0)
      <3> SUFFICES ASSUME NEW w \in Users
                   PROVE  wallet'[w].balance = wallet[w].balance
             + (IF holder[a] = w THEN Deposit ELSE 0) - (IF w = u THEN Deposit ELSE 0)
        OBVIOUS
      <3>1. /\ holder[a] = w <=> w = v
            /\ w = u => w # v
        BY <1>1, <1>3
      <3> HIDE DEF v
      <3>2. CASE w = u
        BY <1>6, <1>7, <1>8, <3>1, <3>2 DEF Deposit
      <3>3. CASE w # u /\ w = v
        BY <1>6, <1>7, <1>8, <3>1, <3>3 DEF Deposit
      <3>4. CASE w # u /\ w # v
        BY <1>6, <1>7, <1>8, <3>1, <3>4 DEF Deposit
      <3> QED
        BY <3>2, <3>3, <3>4
    <2> QED
      BY <2>1 DEF purse
  <1>10. purse[u] >= Deposit /\ holder[a] # u
    BY <1>1, <1>3 DEF CanHold, purse
  <1>11. a \notin sold /\ sold' = sold
    BY <1>1, <1>2, SoldMoves
  <1> QED
    BY <1>1, <1>4, <1>9, <1>10, <1>11 DEF Promise!Pledge, Promise!AtStake, purse, holder, sold

(* closeOne moves rows, and no money.                                       *)
LEMMA CloseStutters ==
  ASSUME IInv, NEW a \in Auctions, NEW f \in BOOLEAN, CloseOne(a, f)
  PROVE  UNCHANGED seen
  <1>1. /\ auction[a].status = "LIVE" /\ order[a][1].status = "NONE"
        /\ UNCHANGED <<wallet, forfeited>>
    BY DEF CloseOne, IInv, Rows, Phase
  <1>2. auction'[a].status # "SOLD" /\ auction'[a].status # "LIVE"
        /\ \A b \in Auctions \ {a} : auction'[b] = auction[b]
    BY WithStatusEffect DEF CloseOne, IInv
  <1>3. /\ order'[a][1].status = "AWAITING_PAYMENT" => order'[a][1].buyer = auction[a].winner
        /\ order'[a][1].status # "AWAITING_PAYMENT" => auction[a].winner = NoOne
        /\ \A b \in Auctions \ {a} : order'[b] = order[b]
    <2>1. CASE auction[a].winner = NoOne
      BY <1>1, <2>1 DEF CloseOne
    <2>2. CASE auction[a].winner # NoOne
      <3> DEFINE o == OpenOrder(auction[a].winner, auction[a].price, Deposit,
                                WinnerDue(auction[a].price))
      <3>1. o.status = "AWAITING_PAYMENT" /\ o.buyer = auction[a].winner
        BY OrderEffects DEF IInv
      <3>2. order' = [order EXCEPT ![a][1] = o]
        BY <2>2 DEF CloseOne
      <3> HIDE DEF o
      <3>3. order'[a][1] = o /\ \A b \in Auctions \ {a} : order'[b] = order[b]
        BY <3>2 DEF IInv, TypeOK, Ranks
      <3> QED
        BY <3>1, <3>3
    <2> QED
      BY <2>1, <2>2
  <1>4. AtStakeOf(a)' = AtStakeOf(a)
    BY <1>1, <1>2, <1>3 DEF AtStakeOf
  <1>5. holder' = holder
    BY <1>2, <1>3, <1>4 DEF holder, AtStakeOf
  <1>6. sold' = sold
    BY <1>1, <1>2, SoldMoves
  <1> QED
    BY <1>1, <1>5, <1>6 DEF seen, purse

(* payOrder is one settlement at the price and the shipping fee, for the    *)
(* winner and for the second chance alike.                                  *)
LEMMA PaySettles ==
  ASSUME IInv, NEW a \in Auctions, NEW r \in Ranks, PayOrder(a, r)
  PROVE  \E u \in Users, x \in BidAmounts : Promise!Settle(a, u, TotalDue(x))
  <1> DEFINE o == order[a][r]
             u == o.buyer
             row == [Marked(a, r, "COMPLETED") EXCEPT !.paid = NetPaid(o)]
             back == Excess(o.applied, o.amount)
             total == TotalDue(o.amount)
             stake == IF holder[a] = u THEN Deposit ELSE 0
  <1>1. /\ o.status = "AWAITING_PAYMENT" /\ wallet[u].balance >= o.due
        /\ wallet' = Paid(o, Owner[a]) /\ forfeited' = forfeited
        /\ order' = [order EXCEPT ![a][r] = row]
    BY DEF PayOrder, Payable
  <1>2. /\ auction[a].status = "ENDED" /\ auction'[a].status = "SOLD"
        /\ \A b \in Auctions \ {a} : auction'[b] = auction[b]
    BY <1>1, WithStatusEffect, OpenPhase DEF PayOrder, IInv, Ranks
  <1>3. /\ u \in Users /\ o.amount \in BidAmounts /\ o.amount \in Nat
        /\ o.applied \in Nat /\ o.due \in Nat
    BY <1>1, OrderFields DEF IInv, TypeOK, Rows, Claims, Ranks
  <1>4. row.status = "COMPLETED"
    BY OrderEffects DEF IInv
  <1>5. NetPaid(o) = total
    BY <1>1, NetPaidIsTotal DEF IInv
  <1> HIDE DEF row
  <1>6. /\ order'[a][1].status # "AWAITING_PAYMENT"
        /\ \A b \in Auctions \ {a} : order'[b] = order[b]
    <2>1. CASE r = 1
      BY <1>1, <1>4, <2>1 DEF IInv, TypeOK, Ranks
    <2>2. CASE r = 2
      BY <1>1, <2>2, OpenPhase DEF IInv, TypeOK, Ranks
    <2> QED
      BY <2>1, <2>2 DEF Ranks
  <1>7. holder' = [holder EXCEPT ![a] = NoOne]
    BY <1>2, <1>6, StakeMoves DEF AtStakeOf
  <1>8. a \notin sold /\ sold' = sold \cup {a}
    BY <1>2, SoldMoves
  \* the payment and the part of the deposit paid back are the total less the stake
  <1>9. /\ holder[a] \in {u, NoOne}
        /\ back - o.due = stake - total /\ back \in Nat
        /\ o.due + stake >= total
    <2>1. CASE r = 1
      <3>1. holder[a] = u /\ o.applied = Deposit /\ o.due = WinnerDue(o.amount)
        BY <1>1, <1>2, <2>1 DEF IInv, Rows, Claims, holder, AtStakeOf
      <3> QED
        BY <1>3, <3>1 DEF WinnerDue, Excess, TotalDue, Deposit, ShippingFee
    <2>2. CASE r = 2
      <3>1. /\ holder[a] = NoOne /\ o.applied = 0 /\ o.due = total /\ NoOne # u
        BY <1>1, <1>2, <1>3, <2>2, OpenPhase, UsersAssumption
        DEF IInv, Rows, Claims, holder, AtStakeOf
      <3>2. stake = 0
        BY <3>1
      <3> QED
        BY <1>3, <3>1, <3>2 DEF Excess, TotalDue, Deposit, ShippingFee
    <2> QED
      BY <2>1, <2>2 DEF Ranks
  <1>10. \A v \in Users : wallet[v].balance \in Int
    BY DEF IInv, TypeOK
  <1>11. stake \in Nat /\ total \in Nat
    <2>1. total \in Nat
      BY <1>3 DEF TotalDue, ShippingFee
    <2>2. stake \in Nat
      BY DEF Deposit
    <2> QED
      BY <2>1, <2>2
  <1>12. purse' = [v \in Users |-> purse[v] + (IF v = u THEN stake - total ELSE 0)
                                    + (IF v = Owner[a] THEN total ELSE 0)]
    BY <1>1, <1>5, <1>9 DEF Paid, purse
  <1>13. purse[u] + stake >= total
    <2>1. purse[u] >= o.due /\ purse[u] \in Int
      BY <1>1, <1>3, <1>10 DEF purse
    <2> QED
      BY <1>3, <1>9, <1>11, <2>1
  <1>14. Promise!Settle(a, u, total)
    BY <1>1, <1>7, <1>8, <1>9, <1>12, <1>13
    DEF Promise!Settle, Promise!AtStake, purse, holder, sold
  <1>15. u \in Users /\ o.amount \in BidAmounts
    BY <1>3
  <1> HIDE DEF o, u, back, stake
  <1> QED
    BY <1>14, <1>15 DEF Promise!Settle, Promise!AtStake

(* A lapsed second-chance offer costs nobody anything.                      *)
LEMMA ExpireOfferStutters ==
  ASSUME IInv, NEW a \in Auctions, ExpireOffer(a)
  PROVE  UNCHANGED seen
  <1>1. /\ auction[a].status = "ENDED" /\ order[a][1].status = "DEFAULTED"
        /\ UNCHANGED <<wallet, forfeited>>
    BY OpenPhase DEF ExpireOffer, Expirable, IInv
  <1>2. /\ auction'[a].status = "UNSOLD" /\ order'[a][1] = order[a][1]
        /\ \A b \in Auctions \ {a} : auction'[b] = auction[b] /\ order'[b] = order[b]
    BY WithStatusEffect DEF ExpireOffer, IInv, TypeOK, Ranks
  <1>3. holder' = holder /\ sold' = sold
    BY <1>1, <1>2, SoldMoves DEF holder, AtStakeOf
  <1> QED
    BY <1>1, <1>3 DEF seen, purse

(* A default hands the stake to the house, offer or no offer.               *)
LEMMA ExpireWinnerKeeps ==
  ASSUME IInv, NEW a \in Auctions, ExpireWinner(a)
  PROVE  Promise!Keep(a)
  <1> DEFINE u == order[a][1].buyer
             defaulted == [order EXCEPT ![a][1] = Marked(a, 1, "DEFAULTED")]
  <1>1. /\ auction[a].status = "ENDED" /\ order[a][1].status = "AWAITING_PAYMENT"
        /\ u \in Users /\ u # NoOne
    BY OpenPhase, UsersAssumption DEF ExpireWinner, Expirable, IInv, Rows, Claims
  <1>2. Holds(deposit, a, u) /\ holder[a] = u
    BY <1>1 DEF IInv, Rows, Holders, holder, AtStakeOf
  <1>3. forfeited' = forfeited + Deposit
    BY <1>2 DEF ExpireWinner
  <1>4. purse' = purse
    BY DEF ExpireWinner, Forfeit, purse
  <1>5. /\ auction'[a].status \in {"ENDED", "UNSOLD"}
        /\ \A b \in Auctions \ {a} : auction'[b] = auction[b]
    BY <1>1, WithStatusEffect DEF ExpireWinner, IInv
  <1>6. /\ defaulted[a][1].status = "DEFAULTED"
        /\ \A b \in Auctions \ {a} : defaulted[b] = order[b]
        /\ defaulted \in [Auctions -> [Ranks -> OrderRow]]
    <2>1. Marked(a, 1, "DEFAULTED") \in OrderRow /\ Marked(a, 1, "DEFAULTED").status = "DEFAULTED"
      BY OrderEffects, OrderTypes DEF IInv, Ranks, OrderStatus
    <2> QED
      BY <2>1 DEF IInv, TypeOK, Ranks
  <1>7. order' = defaulted \/ \E row : order' = [defaulted EXCEPT ![a][2] = row]
    BY DEF ExpireWinner
  <1> HIDE DEF defaulted
  <1>8. /\ order'[a][1].status = "DEFAULTED"
        /\ \A b \in Auctions \ {a} : order'[b] = order[b]
    BY <1>6, <1>7 DEF Ranks
  <1>9. holder' = [holder EXCEPT ![a] = NoOne]
    BY <1>5, <1>8, StakeMoves DEF AtStakeOf
  <1>10. a \notin sold /\ sold' = sold
    BY <1>1, <1>5, SoldMoves
  <1> QED
    BY <1>1, <1>2, <1>3, <1>4, <1>9, <1>10 DEF Promise!Keep, purse, holder, sold

(* The wallet's Stripe side is money from and to outside.                   *)
LEMMA FundingMoves ==
  ASSUME IInv, NEW u \in Users, NEW x \in FundAmounts
  PROVE  /\ TopUp(u, x) => Promise!PutIn(u, x)
         /\ Withdraw(u, x) => Promise!TakeOut(u, x)
  <1>1. x \in Nat /\ wallet \in [Users -> [balance: Int, locked: Int]]
    BY MoneyAssumption DEF IInv, TypeOK
  <1>2. ASSUME UNCHANGED <<auction, order>> PROVE holder' = holder /\ sold' = sold
    BY <1>2 DEF holder, sold, AtStakeOf
  <1>3. ASSUME TopUp(u, x) PROVE Promise!PutIn(u, x)
    <2>1. purse' = [v \in Users |-> purse[v] + (IF v = u THEN x ELSE 0)]
      BY <1>1, <1>3 DEF TopUp, purse
    <2> QED
      BY <1>2, <1>3, <2>1 DEF TopUp, Promise!PutIn, purse, holder, sold
  <1>4. ASSUME Withdraw(u, x) PROVE Promise!TakeOut(u, x)
    <2>1. purse' = [v \in Users |-> purse[v] - (IF v = u THEN x ELSE 0)] /\ purse[u] >= x
      BY <1>1, <1>4 DEF Withdraw, purse
    <2> QED
      BY <1>2, <1>4, <2>1 DEF Withdraw, Promise!TakeOut, purse, holder, sold
  <1> QED
    BY <1>3, <1>4

----------------------------------------------------------------------------
(* Every step of the house is a step of Escrow or a stutter.                *)
LEMMA PromiseNext == IInv /\ [Next]_vars => [Promise!Next]_seen
  <1> SUFFICES ASSUME IInv, [Next]_vars PROVE [Promise!Next]_seen
    OBVIOUS
  <1>1. CASE Seller
    BY <1>1, SellerStutters
  <1>2. ASSUME NEW a \in Auctions, NEW d \in BOOLEAN, Cancel(a, d) PROVE Promise!Next
    BY <1>2, CancelGivesBack DEF Promise!Next
  <1>3. ASSUME NEW u \in Users, NEW a \in Auctions, NEW x \in BidAmounts, Place(u, a, x)
        PROVE  Promise!Next
    BY <1>3, PlacePledges DEF Promise!Next
  <1>4. ASSUME NEW a \in Auctions, Close(a) \/ ForceEnd(a) PROVE UNCHANGED seen
    BY <1>4, CloseStutters DEF Close, ForceEnd
  <1>5. ASSUME NEW a \in Auctions, NEW r \in Ranks, PayOrder(a, r) PROVE Promise!Next
    BY <1>5, PaySettles DEF Promise!Next
  <1>6. ASSUME NEW a \in Auctions, ExpireWinner(a) PROVE Promise!Next
    BY <1>6, ExpireWinnerKeeps DEF Promise!Next
  <1>7. ASSUME NEW u \in Users, NEW x \in FundAmounts, TopUp(u, x) \/ Withdraw(u, x)
        PROVE  Promise!Next
    BY <1>7, FundingMoves DEF Promise!Next
  <1>8. CASE Trade
    BY <1>2, <1>3, <1>4, <1>5, <1>6, <1>7, <1>8, ExpireOfferStutters DEF Trade
  <1>9. CASE Tick \/ Listing \/ UNCHANGED vars
    BY <1>9, SeenSame DEF Tick, Listing, List, Skip, vars
  <1> QED
    BY <1>1, <1>8, <1>9 DEF Next

(* The whole house keeps the promise of Escrow: one stake per auction, one *)
(* payment, nothing after it, and every deposit goes where it should.      *)
THEOREM HouseKeepsPromise == Spec => KeepsPromise
  <1>1. IInv /\ [Next]_vars => [Promise!Next]_(Promise!escrow)
    BY PromiseNext DEF Promise!escrow, seen, purse, holder, sold
  <1> QED
    BY <1>1, PromiseInit, Inductive, PTL DEF Spec, KeepsPromise, Promise!Spec
=============================================================================
